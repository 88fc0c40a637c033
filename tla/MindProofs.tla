----------------------------- MODULE MindProofs -----------------------------
(***************************************************************************)
(* Proofs about what people decide: the posts and the rest area squads take *)
(* turns at (Squads), cover in a fight (Tactics), what is known of an enemy *)
(* (Senses) and what everyone does next (Goals), for any number of people, *)
(* squads, posts and volumes and any content the assumptions of those      *)
(* modules allow.                                                          *)
(***************************************************************************)
EXTENDS Squads, Tactics, Senses, Goals, SequencesExt, SequenceTheorems, FiniteSetTheorems, TLAPS

INSTANCE SequenceLemmas WITH Op <- HandleRelief

-----------------------------------------------------------------------------
(* Squads, posts and the rest area.                                        *)

(* What the proofs need to know of an objective: a guard of a post and a   *)
(* relief have one place to go to, and who still walks away from his spawn *)
(* wanders or regroups.                                                    *)
Order(o) ==
  /\ {"kind", "route", "post", "area", "disperse"} \subseteq DOMAIN o
  /\ (o.kind = "guard" /\ o.post) \/ o.kind = "relieve" => \E p \in Places : o.route = <<p>>
  /\ o.disperse => o.kind \in {"wander", "regroup"}

OrdersIn(objs) ==
  /\ objs = [g \in Squads |-> objs[g]]
  /\ \A g \in Squads : objs[g] = None \/ Order(objs[g])
ClaimsIn(ps) ==
  /\ ps = [p \in Places |-> ps[p]]
  /\ \A p \in Places : Held(ps, p) => ps[p].by \in Squads

Resting == {g \in Squads : RestsInArea(objective[g])}

SquadTyped ==
  /\ present \in SUBSET Squads /\ at \in [Squads -> Places]
  /\ OrdersIn(objective) /\ ClaimsIn(posts)
  /\ turns \subseteq Squads \/ TickOver

SquadInv ==
  /\ SquadTyped
  /\ occupants \in 0 .. RestRoom
  /\ Cardinality(Resting) <= occupants
  /\ ~TickOver => \A g \in present \ turns : MyTurn(g) /\ Guarding(g) =>
                       HeldBy(posts, objective[g].route[1], g)

LEMMA ToldIs ==
  ASSUME NEW o, {"kind", "route", "post", "area", "disperse"} \subseteq DOMAIN o,
         NEW s, NEW t, t = Told(o, s)
  PROVE  /\ DOMAIN t = DOMAIN o
         /\ t.kind = s.kind /\ t.route = s.route /\ t.post = s.post /\ t.area = s.area
         /\ t.disperse = o.disperse
<1> DEFINE x == Term(s.kind)
<1>2. t = [o EXCEPT !.kind = s.kind, !.route = s.route, !.post = s.post, !.area = s.area, !.exp = x, !.set = now]
  BY DEF Told
<1> HIDE DEF x
<1>3. DOMAIN t = DOMAIN o
  BY <1>2
<1>4. t.kind = s.kind /\ t.route = s.route
  BY <1>2
<1>5. t.post = s.post /\ t.area = s.area
  BY <1>2
<1>6. t.disperse = o.disperse
  BY <1>2
<1> QED BY <1>3, <1>4, <1>5, <1>6

LEMMA FreshIs ==
  ASSUME NEW g
  PROVE  /\ Order(FreshObjective(g)) /\ FreshObjective(g).kind = "wander"
         /\ ~FreshObjective(g).area /\ ~FreshObjective(g).disperse /\ ~FreshObjective(g).post
         /\ ~RestsInArea(FreshObjective(g))
  BY DEF FreshObjective, Order, RestsInArea

LEMMA NoneIs == None.kind = "none" /\ ~RestsInArea(None) /\ ~Order(None)
  BY DEF None, RestsInArea, Order

(* A pass that leaves every objective as it is, or without, or changes it  *)
(* to one that is neither a relief nor a rest in the area.                 *)
OrdersFollow(objs, new) ==
  \A g \in Squads : \/ new[g] = objs[g] \/ new[g] = None
                    \/ Order(new[g]) /\ (new[g].kind = "relieve" => objs[g].kind = "relieve" /\ new[g].route = objs[g].route)
                                     /\ (RestsInArea(new[g]) => RestsInArea(objs[g]))

LEMMA CohesionKeeps ==
  ASSUME NEW objs, OrdersIn(objs)
  PROVE  OrdersIn(CohesionPass(objs)) /\ OrdersFollow(objs, CohesionPass(objs))
<1> DEFINE new == CohesionPass(objs)
<1>1. ASSUME NEW g \in Squads
      PROVE  new[g] = objs[g] \/ (Order(new[g]) /\ new[g].kind = "regroup")
  <2> DEFINE o == IF objs[g] = None THEN FreshObjective(g) ELSE objs[g]
  <2>1. Order(o)
    BY FreshIs DEF OrdersIn
  <2>2. new[g] = objs[g] \/ new[g] = Told(o, Shape("regroup", <<at[g]>>, FALSE, FALSE))
    BY DEF CohesionPass
  <2> HIDE DEF o, new
  <2>3. ASSUME NEW t, t = Told(o, Shape("regroup", <<at[g]>>, FALSE, FALSE))
        PROVE  Order(t) /\ t.kind = "regroup"
    <3>0. {"kind", "route", "post", "area", "disperse"} \subseteq DOMAIN o
      BY <2>1 DEF Order
    <3>1. DOMAIN t = DOMAIN o /\ t.kind = "regroup"
      <4>1. PICK s : s = Shape("regroup", <<at[g]>>, FALSE, FALSE)
        OBVIOUS
      <4>2. t = Told(o, s) /\ s.kind = "regroup"
        BY <4>1, <2>3 DEF Shape
      <4> HIDE DEF o
      <4> QED BY <3>0, <4>2, ToldIs
    <3> QED BY <3>0, <3>1 DEF Order
  <2> QED BY <2>2, <2>3
<1>2. new = [g \in Squads |-> new[g]]
  BY DEF CohesionPass
<1> HIDE DEF new
<1>3. OrdersIn(new)
  BY <1>1, <1>2 DEF OrdersIn
<1>4. OrdersFollow(objs, new)
  BY <1>1 DEF OrdersFollow, RestsInArea
<1> QED BY <1>3, <1>4 DEF new

LEMMA EarlyExitKeeps ==
  ASSUME NEW objs, OrdersIn(objs)
  PROVE  OrdersIn(RegroupEarlyExitPass(objs)) /\ OrdersFollow(objs, RegroupEarlyExitPass(objs))
<1> DEFINE new == RegroupEarlyExitPass(objs)
<1>1. ASSUME NEW g \in Squads
      PROVE  new[g] = objs[g] \/ (Order(new[g]) /\ new[g].kind = "regroup")
  <2>1. new[g] = objs[g] \/ (objs[g].kind = "regroup" /\ new[g] = [objs[g] EXCEPT !.exp = now])
    BY DEF RegroupEarlyExitPass, Gathered
  <2> HIDE DEF new
  <2>2. objs[g].kind = "regroup" => Order(objs[g])
    BY NoneIs DEF OrdersIn
  <2> QED BY <2>1, <2>2 DEF Order
<1>2. new = [g \in Squads |-> new[g]]
  BY DEF RegroupEarlyExitPass
<1> HIDE DEF new
<1>3. OrdersIn(new)
  BY <1>1, <1>2 DEF OrdersIn
<1>4. OrdersFollow(objs, new)
  BY <1>1 DEF OrdersFollow, RestsInArea
<1> QED BY <1>3, <1>4 DEF new

LEMMA PruneKeeps ==
  ASSUME NEW objs, OrdersIn(objs)
  PROVE  OrdersIn(PruneObjectives(objs)) /\ OrdersFollow(objs, PruneObjectives(objs))
  BY DEF PruneObjectives, OrdersIn, OrdersFollow

(* The passes of a tick one after the other.                               *)
LEMMA OrdersFollowOn ==
  ASSUME NEW a, NEW b, NEW c, OrdersFollow(a, b), OrdersFollow(b, c)
  PROVE  OrdersFollow(a, c)
  BY NoneIs DEF OrdersFollow

(* What a run through the squads that arrive has done so far. *)
Relieving(w, objs, ps) ==
  /\ OrdersIn(w.objs) /\ OrdersFollow(objs, w.objs)
  /\ w.ps = [p \in Places |-> w.ps[p]]
  /\ \A p \in Places : \/ w.ps[p] = ps[p]
                       \/ \E g \in Squads : /\ w.ps[p] = Claim(g)
                                            /\ objs[g].kind = "relieve" /\ objs[g].route = <<p>>

LEMMA ReliefStep ==
  ASSUME SquadTyped, NEW objs, NEW ps, NEW w, Relieving(w, objs, ps), NEW g
  PROVE  Relieving(HandleRelief(w, g), objs, ps)
<1> DEFINE p == at[g]
           old == IF Held(w.ps, p) THEN w.ps[p].by ELSE 0
           frees == old \in Squads /\ w.objs[old].kind = "guard" /\ w.objs[old].post
           free == [w.objs[old] EXCEPT !.kind = "wander", !.route = <<>>,
                                       !.post = FALSE, !.exp = now, !.drift = TRUE]
           freed == IF frees THEN [w.objs EXCEPT ![old] = free] ELSE w.objs
           told == Told(freed[g], Shape("guard", <<p>>, TRUE, FALSE))
           new == [objs |-> [freed EXCEPT ![g] = told], ps |-> [w.ps EXCEPT ![p] = Claim(g)]]
<1>1. HandleRelief(w, g) = IF g \notin present \/ ~Arrives(w.objs, g) THEN w ELSE new
  BY DEF HandleRelief
<1>2. CASE g \in present /\ Arrives(w.objs, g)
  <2>1. /\ g \in Squads /\ p \in Places /\ w.objs[g].kind = "relieve" /\ w.objs[g].route = <<p>>
        /\ Order(w.objs[g])
    BY <1>2, NoneIs DEF Arrives, SquadTyped, Relieving, OrdersIn
  <2>2. objs[g].kind = "relieve" /\ objs[g].route = <<p>>
    BY <2>1, NoneIs DEF Relieving, OrdersFollow
  <2>3. ASSUME frees PROVE Order(free) /\ free.kind = "wander"
    <3>1. Order(w.objs[old])
      BY <2>3, NoneIs DEF Relieving, OrdersIn
    <3> HIDE DEF old
    <3> QED BY <3>1 DEF Order
  <2>4. freed[g] = w.objs[g] /\ OrdersIn(freed) /\ OrdersFollow(objs, freed)
    <3>1. CASE frees
      <4>1. freed = [w.objs EXCEPT ![old] = free] /\ old \in Squads /\ old # g
        BY <3>1, <2>1
      <4> HIDE DEF free, old, freed
      <4> QED BY <4>1, <2>3, <3>1, <2>1 DEF Relieving, OrdersIn, OrdersFollow, RestsInArea
    <3>2. CASE ~frees
      <4>1. freed = w.objs
        BY <3>2
      <4> HIDE DEF freed
      <4> QED BY <4>1 DEF Relieving
    <3> QED BY <3>1, <3>2
  <2> HIDE DEF freed
  <2>5. Order(told) /\ told.kind = "guard" /\ ~told.area
    <3>1. PICK o : o = freed[g] /\ Order(o) /\ ~o.disperse
      BY <2>1, <2>4 DEF Order
    <3>2. PICK t : t = Told(o, Shape("guard", <<p>>, TRUE, FALSE)) /\ t = told
      BY <3>1
    <3>0. {"kind", "route", "post", "area", "disperse"} \subseteq DOMAIN o
      BY <3>1 DEF Order
    <3>4. PICK s : s = Shape("guard", <<p>>, TRUE, FALSE)
      OBVIOUS
    <3>5. t = Told(o, s) /\ s.kind = "guard" /\ s.route = <<p>> /\ s.area = FALSE
      BY <3>2, <3>4 DEF Shape
    <3>3. DOMAIN t = DOMAIN o /\ t.kind = "guard" /\ t.route = <<p>> /\ t.area = FALSE /\ t.disperse = o.disperse
      BY <3>0, <3>5, ToldIs
    <3> QED BY <2>1, <3>0, <3>1, <3>2, <3>3 DEF Order
  <2> HIDE DEF told, p
  <2>6. OrdersIn(new.objs) /\ OrdersFollow(objs, new.objs)
    BY <2>4, <2>5, <2>1 DEF OrdersIn, OrdersFollow, RestsInArea
  <2>7. new.ps = [q \in Places |-> new.ps[q]] /\ new.ps[p] = Claim(g) /\ \A q \in Places \ {p} : new.ps[q] = w.ps[q]
    BY <2>1 DEF Relieving
  <2>8. Relieving(new, objs, ps)
    <3> HIDE DEF new
    <3> QED BY <2>1, <2>2, <2>6, <2>7 DEF Relieving
  <2> HIDE DEF new
  <2> QED BY <1>1, <1>2, <2>8
<1>3. CASE ~(g \in present /\ Arrives(w.objs, g))
  BY <1>1, <1>3
<1> QED BY <1>2, <1>3

LEMMA ReliefArrivals ==
  ASSUME SquadTyped, NEW objs, OrdersIn(objs), NEW ps, ClaimsIn(ps)
  PROVE  Relieving(HandleReliefArrivals(objs, ps), objs, ps)
<1> DEFINE b == [objs |-> objs, ps |-> ps]
           P == {q \in Seq(Nat) : Relieving(Fold(b, q), objs, ps)}
           ids == [g \in 1 .. Max(Squads) |-> g]
<1>1. Relieving(b, objs, ps)
  BY DEF Relieving, OrdersFollow, ClaimsIn
<1>2. <<>> \in P
  BY <1>1, FoldEmpty, EmptySeq
<1>3. ASSUME NEW q \in P, NEW e \in Nat PROVE Append(q, e) \in P
  <2>1. Fold(b, Append(q, e)) = HandleRelief(Fold(b, q), e)
    BY FoldAppend
  <2>2. Relieving(HandleRelief(Fold(b, q), e), objs, ps)
    <3> HIDE DEF b
    <3> QED BY ReliefStep
  <2> QED BY <2>1, <2>2, AppendProperties
<1>4. P = Seq(Nat)
  <2> HIDE DEF P
  <2>1. P \in SUBSET Seq(Nat)
    BY DEF P
  <2> QED BY <1>2, <1>3, <2>1, SeqInduction
<1>5. ids \in Seq(Nat)
  <2>1. PICK n \in Nat : n = Max(Squads)
    BY SquadAssumption
  <2>2. \A i \in 1 .. n : i \in Nat
    OBVIOUS
  <2> QED BY <2>1, <2>2, IsASeq
<1>6. HandleReliefArrivals(objs, ps) = Fold(b, ids)
  BY DEF HandleReliefArrivals, Fold
<1> HIDE DEF ids, b
<1> QED BY <1>4, <1>5, <1>6 DEF P

LEMMA SeedKeeps ==
  ASSUME NEW objs, OrdersIn(objs)
  PROVE  OrdersIn(SeedPass(objs)) /\ OrdersFollow(objs, SeedPass(objs))
<1> DEFINE new == SeedPass(objs)
<1>1. ASSUME NEW g \in Squads
      PROVE  new[g] = objs[g] \/ (Order(new[g]) /\ new[g].kind = "wander")
  <2> DEFINE fresh == FreshObjective(g)
             o == [fresh EXCEPT !.disperse = TRUE, !.pos = at[g], !.ptick = now]
  <2>1. new[g] = objs[g] \/ new[g] = o
    BY DEF SeedPass
  <2>2. Order(fresh) /\ fresh.kind = "wander"
    BY FreshIs
  <2> HIDE DEF new, fresh
  <2>3. Order(o) /\ o.kind = "wander"
    BY <2>2 DEF Order
  <2> QED BY <2>1, <2>3
<1>2. new = [g \in Squads |-> new[g]]
  BY DEF SeedPass
<1> HIDE DEF new
<1>3. OrdersIn(new)
  BY <1>1, <1>2 DEF OrdersIn
<1>4. OrdersFollow(objs, new)
  BY <1>1 DEF OrdersFollow, RestsInArea
<1> QED BY <1>3, <1>4 DEF new

(* An objective that is changed in fields the properties do not read.      *)
SameOrder(o, n) ==
  /\ DOMAIN n = DOMAIN o
  /\ n.kind = o.kind /\ n.route = o.route /\ n.post = o.post /\ n.area = o.area /\ n.disperse = o.disperse

LEMMA SameOrderIs ==
  ASSUME NEW o, NEW n, Order(o), SameOrder(o, n)
  PROVE  Order(n) /\ (RestsInArea(n) <=> RestsInArea(o))
  BY DEF SameOrder, Order, RestsInArea

LEMMA DriftKeeps ==
  ASSUME NEW objs, OrdersIn(objs)
  PROVE  OrdersIn(DriftPass(objs)) /\ OrdersFollow(objs, DriftPass(objs))
<1> DEFINE new == DriftPass(objs)
<1>1. ASSUME NEW g \in Squads
      PROVE  new[g] = objs[g] \/ (Order(objs[g]) /\ SameOrder(objs[g], new[g]))
  <2>1. CASE objs[g] = None
    BY <2>1 DEF DriftPass
  <2>2. CASE objs[g] # None
    <3>1. Order(objs[g])
      BY <2>2 DEF OrdersIn
    <3>2. \/ new[g] = [objs[g] EXCEPT !.drift = FALSE]
          \/ new[g] = [objs[g] EXCEPT !.drift = TRUE, !.ptick = now]
          \/ new[g] = objs[g]
      BY <2>2 DEF DriftPass
    <3> HIDE DEF new
    <3>3. PICK o, n : o = objs[g] /\ n = new[g]
      OBVIOUS
    <3>4. n = [o EXCEPT !.drift = FALSE] => SameOrder(o, n)
      BY DEF SameOrder
    <3>5. n = [o EXCEPT !.drift = TRUE, !.ptick = now] => SameOrder(o, n)
      BY DEF SameOrder
    <3> QED BY <3>1, <3>2, <3>3, <3>4, <3>5
  <2> QED BY <2>1, <2>2
<1>2. new = [g \in Squads |-> new[g]]
  BY DEF DriftPass
<1> HIDE DEF new
<1>3. OrdersIn(new)
  BY <1>1, <1>2, SameOrderIs DEF OrdersIn
<1>4. OrdersFollow(objs, new)
  BY <1>1, SameOrderIs DEF OrdersFollow, SameOrder
<1> QED BY <1>3, <1>4 DEF new

(* What the passes that see every squad come to.                           *)
LEMMA PassesKeep ==
  ASSUME SquadTyped, Begin
  PROVE  /\ OrdersIn(objective') /\ OrdersFollow(objective, objective')
         /\ posts' = [p \in Places |-> posts'[p]]
         /\ \A p \in Places : \/ posts'[p] = posts[p] \/ posts'[p] = NoClaim
                              \/ \E g \in Squads : /\ posts'[p] = Claim(g)
                                                   /\ objective[g].kind = "relieve" /\ objective[g].route = <<p>>
<1> DEFINE a == CohesionPass(objective)
           b == RegroupEarlyExitPass(a)
           c == PruneObjectives(b)
           ps == PrunePosts(posts)
           r == HandleReliefArrivals(c, ps)
           s == SeedPass(r.objs)
           d == DriftPass(s)
<1>1. OrdersIn(a) /\ OrdersFollow(objective, a)
  BY CohesionKeeps DEF SquadTyped
<1>2. OrdersIn(b) /\ OrdersFollow(objective, b)
  <2> HIDE DEF a
  <2> QED BY <1>1, EarlyExitKeeps, OrdersFollowOn
<1>3. OrdersIn(c) /\ OrdersFollow(objective, c)
  <2> HIDE DEF a, b
  <2> QED BY <1>2, PruneKeeps, OrdersFollowOn
<1>4. ClaimsIn(ps) /\ \A p \in Places : ps[p] = posts[p] \/ ps[p] = NoClaim
  BY DEF PrunePosts, ClaimsIn, SquadTyped, Held
<1>5. Relieving(r, c, ps)
  <2> HIDE DEF a, b, c, ps
  <2> QED BY <1>3, <1>4, ReliefArrivals
<1>6. OrdersIn(s) /\ OrdersFollow(objective, s)
  <2>1. OrdersIn(r.objs) /\ OrdersFollow(objective, r.objs)
    <3> HIDE DEF a, b, c, ps, r
    <3> QED BY <1>3, <1>5, OrdersFollowOn DEF Relieving
  <2> HIDE DEF a, b, c, ps, r
  <2> QED BY <2>1, SeedKeeps, OrdersFollowOn
<1>7. OrdersIn(d) /\ OrdersFollow(objective, d)
  <2> HIDE DEF a, b, c, ps, r, s
  <2> QED BY <1>6, DriftKeeps, OrdersFollowOn
<1>8. objective' = d /\ posts' = r.ps
  BY DEF Begin, Relieved
<1>9. \A g \in Squads : c[g].kind = "relieve" =>
        objective[g].kind = "relieve" /\ c[g].route = objective[g].route
  <2> HIDE DEF a, b, c
  <2> QED BY <1>3, NoneIs DEF OrdersFollow
<1> HIDE DEF a, b, c, ps, r, s, d
<1> QED BY <1>4, <1>5, <1>7, <1>8, <1>9 DEF Relieving

LEMMA RestingShrinks ==
  ASSUME SquadInv, OrdersFollow(objective, objective')
  PROVE  Cardinality(Resting') <= occupants
<1>1. Resting' \in SUBSET Resting
  BY NoneIs DEF Resting, OrdersFollow
<1>2. IsFiniteSet(Resting)
  <2>1. Resting \in SUBSET Squads
    BY DEF Resting
  <2> QED BY <2>1, SquadAssumption, FS_Subset
<1>3. PICK m, n : m = Cardinality(Resting') /\ n = Cardinality(Resting)
  OBVIOUS
<1>4. m \in Nat /\ n \in Nat /\ m <= n
  <2>1. IsFiniteSet(Resting')
    BY <1>1, <1>2, FS_Subset
  <2> QED BY <1>1, <1>2, <1>3, <2>1, FS_Subset, FS_CardinalityType
<1>5. n <= occupants /\ occupants \in Nat
  BY <1>3, SquadAssumption DEF SquadInv
<1> QED BY <1>3, <1>4, <1>5

LEMMA BeginKeeps ==
  ASSUME SquadInv, Begin
  PROVE  SquadInv' /\ PostPassesByRelief
<1>1. SquadTyped /\ occupants \in 0 .. RestRoom
  BY DEF SquadInv
<1>2. /\ OrdersIn(objective') /\ OrdersFollow(objective, objective')
      /\ posts' = [p \in Places |-> posts'[p]]
      /\ \A p \in Places : \/ posts'[p] = posts[p] \/ posts'[p] = NoClaim
                           \/ \E g \in Squads : /\ posts'[p] = Claim(g)
                                                /\ objective[g].kind = "relieve" /\ objective[g].route = <<p>>
  BY <1>1, PassesKeep
<1>3. UNCHANGED <<now, at, present, aggroed, occupants>> /\ turns' = present
  BY DEF Begin
<1>4. \A g : Claim(g).by = g
  BY DEF Claim
<1>5. ClaimsIn(posts')
  BY <1>1, <1>2, <1>4 DEF SquadTyped, ClaimsIn, Held
<1>6. SquadTyped'
  BY <1>1, <1>2, <1>3, <1>5 DEF SquadTyped, OrdersIn, Order, ClaimsIn, Held, Places
<1>7. Cardinality(Resting') <= occupants'
  BY <1>2, <1>3, RestingShrinks
<1>8. present' \ turns' = {}
  BY <1>3
<1>9. PostPassesByRelief
  <2> SUFFICES ASSUME NEW p \in Places, Held(posts, p), Held(posts', p), posts'[p].by # posts[p].by
               PROVE  /\ objective[posts'[p].by].kind = "relieve"
                      /\ objective[posts'[p].by].route = <<p>>
    BY DEF PostPassesByRelief
  <2>1. PICK g \in Squads : posts'[p] = Claim(g) /\ objective[g].kind = "relieve" /\ objective[g].route = <<p>>
    BY <1>2 DEF Held
  <2>2. posts'[p].by = g
    BY <1>4, <2>1
  <2> QED BY <2>1, <2>2
<1> QED BY <1>1, <1>3, <1>6, <1>7, <1>8, <1>9 DEF SquadInv

(* What a squad knows of its objective when it comes to plan anew.         *)
LEMMA WatchKeeps ==
  ASSUME NEW o, o = None \/ Order(o), NEW g, NEW w, w = Watch(StopsWalking(o, g), g)
  PROVE  IF o = None THEN w = None
         ELSE /\ Order(w) /\ (RestsInArea(w) <=> RestsInArea(o)) /\ ~w.disperse
              /\ w.kind = o.kind /\ w.post = o.post
<1> DEFINE s == StopsWalking(o, g)
<1>1. CASE o = None
  <2>1. s = None
    BY <1>1 DEF StopsWalking, ArrivedAway
  <2> HIDE DEF s
  <2>2. w = Watch(s, g)
    BY DEF s
  <2>3. w = None
    BY <2>1, <2>2, Zenon DEF Watch
  <2> QED BY <1>1, <2>3
<1>2. CASE o # None
  <2>0. Order(o)
    BY <1>2
  <2>1. SameOrder([o EXCEPT !.disperse = FALSE], s) \/ (~o.disperse /\ s = o)
    <3>1. \/ ~o.disperse /\ s = o
          \/ s = [o EXCEPT !.disperse = FALSE]
          \/ s = [o EXCEPT !.disperse = FALSE, !.pos = at[g], !.ptick = now]
      <4>1. CASE ~o.disperse
        BY <1>2, <4>1 DEF StopsWalking
      <4>2. CASE o.disperse /\ ArrivedAway(o, g)
        BY <1>2, <4>2 DEF StopsWalking
      <4>3. CASE o.disperse /\ ~ArrivedAway(o, g)
        BY <1>2, <4>3 DEF StopsWalking
      <4> QED BY <4>1, <4>2, <4>3
    <3> HIDE DEF s
    <3>2. PICK n : n = [o EXCEPT !.disperse = FALSE]
      OBVIOUS
    <3>3. SameOrder(n, n)
      BY DEF SameOrder
    <3>4. s = [n EXCEPT !.pos = at[g], !.ptick = now] => SameOrder(n, s)
      BY DEF SameOrder
    <3>5. [o EXCEPT !.disperse = FALSE, !.pos = at[g], !.ptick = now] = [n EXCEPT !.pos = at[g], !.ptick = now]
      BY <3>2, Zenon
    <3> QED BY <3>1, <3>2, <3>3, <3>4, <3>5
  <2>2. /\ Order(s) /\ (RestsInArea(s) <=> RestsInArea(o)) /\ ~s.disperse
        /\ s.kind = o.kind /\ s.post = o.post
    <3> HIDE DEF s
    <3>1. CASE ~o.disperse /\ s = o
      BY <2>0, <3>1
    <3>2. CASE SameOrder([o EXCEPT !.disperse = FALSE], s)
      <4>1. PICK n : n = [o EXCEPT !.disperse = FALSE] /\ SameOrder(n, s)
        BY <3>2
      <4>2. /\ DOMAIN n = DOMAIN o /\ n.kind = o.kind /\ n.route = o.route
            /\ n.post = o.post /\ n.area = o.area /\ n.disperse = FALSE
        BY <2>0, <4>1 DEF Order
      <4> QED BY <2>0, <4>1, <4>2 DEF Order, SameOrder, RestsInArea
    <3> QED BY <2>1, <3>1, <3>2
  <2>3. SameOrder(s, w)
    <3>1. \/ w = s
          \/ w = [Noted(s, g) EXCEPT !.pos = at[g], !.ptick = now]
          \/ w = [Noted(s, g) EXCEPT !.exp = now, !.stuck = s.kind, !.pos = at[g], !.ptick = now]
          \/ w = Noted(s, g)
      BY Zenon DEF Watch
    <3> HIDE DEF s
    <3>2. PICK n : n = Noted(s, g)
      OBVIOUS
    <3>3. SameOrder(s, n)
      BY <3>2 DEF SameOrder, Noted
    <3>4. w = [n EXCEPT !.pos = at[g], !.ptick = now] => SameOrder(n, w)
      BY DEF SameOrder
    <3>5. w = [n EXCEPT !.exp = now, !.stuck = s.kind, !.pos = at[g], !.ptick = now] => SameOrder(n, w)
      BY DEF SameOrder
    <3>6. SameOrder(s, s)
      BY DEF SameOrder
    <3> QED BY <3>1, <3>2, <3>3, <3>4, <3>5, <3>6 DEF SameOrder
  <2> HIDE DEF s
  <2>4. Order(w) /\ (RestsInArea(w) <=> RestsInArea(s))
    BY <2>2, <2>3, SameOrderIs
  <2> QED BY <1>2, <2>2, <2>3, <2>4 DEF SameOrder
<1> QED BY <1>1, <1>2

(* A post offered to a squad is not held by another, and a place in the    *)
(* rest area is offered while there is one.                                *)
OfferedTo(s, g) ==
  /\ s.kind = "guard" /\ s.post => \E p \in Places : s.route = <<p>> /\ ~(Held(posts, p) /\ posts[p].by # g)
  /\ s.kind = "relieve" => \E p \in Places : s.route = <<p>>
  /\ s.area => s.kind = "rest" /\ occupants < RestRoom

LEMMA ObjectivesOffered ==
  ASSUME NEW banned, NEW g, NEW s \in PickObjective(banned, g)
  PROVE  OfferedTo(s, g)
<1>1. PICK k \in Kinds : s = Wander \/ s \in Built(k, g)
  BY DEF PickObjective, Winners
<1>2. CASE s = Wander
  <2>1. s.kind = "wander" /\ s.area = FALSE
    BY <1>2 DEF Wander, Shape
  <2> QED BY <2>1 DEF OfferedTo
<1>3. CASE s \in Built(k, g)
  <2>1. CASE k = "patrol"
    <3>1. s \in Patrols(g)
      BY <1>3, <2>1 DEF Built
    <3>2. PICK r : s = Shape("patrol", r, FALSE, FALSE)
      BY <3>1 DEF Patrols
    <3> QED BY <3>2 DEF Shape, OfferedTo
  <2>2. ASSUME NEW i \in Investigations(g) PROVE OfferedTo(i, g)
    BY DEF Investigations, Shape, OfferedTo
  <2>3. CASE k = "guard"
    <3>1. s \in Guards(g)
      BY <1>3, <2>3 DEF Built
    <3>2. \/ s \in Investigations(g)
          \/ \E p : s = Shape("guard", <<p>>, FALSE, FALSE)
          \/ \E p \in Unposted(g) : s = Shape("guard", <<p>>, TRUE, FALSE)
          \/ \E p \in ReliefDue(g) : s = Shape("relieve", <<p>>, TRUE, FALSE)
      BY <3>1, Zenon DEF Guards
    <3>3. CASE \E p : s = Shape("guard", <<p>>, FALSE, FALSE)
      BY <3>3 DEF Shape, OfferedTo
    <3>4. CASE \E p \in Unposted(g) : s = Shape("guard", <<p>>, TRUE, FALSE)
      <4>1. PICK p \in Unposted(g) : s = Shape("guard", <<p>>, TRUE, FALSE)
        BY <3>4
      <4>2. p \in Places /\ ~(Held(posts, p) /\ posts[p].by # g)
        BY DEF Unposted, BasePlaces
      <4> QED BY <4>1, <4>2 DEF Shape, OfferedTo
    <3>5. CASE \E p \in ReliefDue(g) : s = Shape("relieve", <<p>>, TRUE, FALSE)
      <4>1. PICK p \in ReliefDue(g) : s = Shape("relieve", <<p>>, TRUE, FALSE)
        BY <3>5
      <4>2. p \in Places
        BY DEF ReliefDue
      <4> QED BY <4>1, <4>2 DEF Shape, OfferedTo
    <3> QED BY <3>2, <3>3, <3>4, <3>5, <2>2
  <2>4. CASE k = "investigate"
    BY <1>3, <2>2, <2>4 DEF Built
  <2>5. CASE k = "rest"
    <3>1. s \in Rests(g)
      BY <1>3, <2>5 DEF Built
    <3>2. \/ \E p : s = Shape("rest", <<p>>, FALSE, FALSE)
          \/ AreaHasRoom(g) /\ s = Shape("rest", <<RestSite>>, FALSE, TRUE)
      BY <3>1, Zenon DEF Rests
    <3> QED BY <3>2 DEF Shape, OfferedTo, AreaHasRoom
  <2>6. CASE k = "explore"
    <3>1. s \in Explorations(g)
      BY <1>3, <2>6 DEF Built
    <3> QED BY <3>1 DEF Explorations, Shape, OfferedTo
  <2>7. CASE k = "wander"
    BY <1>2, <1>3, <2>7 DEF Built
  <2> QED BY <2>1, <2>3, <2>4, <2>5, <2>6, <2>7 DEF Kinds
<1> QED BY <1>1, <1>2, <1>3

(* A turn that leaves the claims of the others alone.                      *)
LEMMA TurnDone ==
  ASSUME SquadInv, ~TickOver, NEW g \in turns, turns' = turns \ {g}, UNCHANGED <<now, at, present, aggroed>>,
         NEW x, x = None \/ Order(x), objective' = [objective EXCEPT ![g] = x],
         ClaimsIn(posts'),
         \A h \in Squads \ {g} : \A p \in Places : HeldBy(posts, p, h) => HeldBy(posts', p, h),
         MyTurn(g) /\ x.kind = "guard" /\ x.post => HeldBy(posts', x.route[1], g),
         occupants' \in 0 .. RestRoom, Cardinality(Resting') <= occupants'
  PROVE  SquadInv'
<1>1. turns \subseteq Squads /\ g \in Squads
  BY DEF SquadInv, SquadTyped
<1>2. /\ objective = [h \in Squads |-> objective[h]]
      /\ \A h \in Squads : objective[h] = None \/ Order(objective[h])
  BY DEF SquadInv, SquadTyped, OrdersIn
<1>3. OrdersIn(objective') /\ objective'[g] = x /\ \A h \in Squads \ {g} : objective'[h] = objective[h]
  BY <1>1, <1>2 DEF OrdersIn
<1>4. SquadTyped'
  BY <1>1, <1>3 DEF SquadInv, SquadTyped, OrdersIn, Order, ClaimsIn, Held, Places
<1>5. ASSUME NEW h \in present' \ turns', MyTurn(h)', Guarding(h)'
      PROVE  HeldBy(posts', objective'[h].route[1], h)
  <2>1. MyTurn(h) /\ h \in Squads
    BY <1>5 DEF MyTurn, SquadInv, SquadTyped
  <2>2. CASE h = g
    BY <1>3, <1>5, <2>1, <2>2 DEF Guarding
  <2>3. CASE h # g
    <3>1. h \in present \ turns /\ objective'[h] = objective[h] /\ Guarding(h)
      BY <1>3, <1>5, <2>1, <2>3 DEF Guarding
    <3>2. PICK p \in Places : objective[h].route = <<p>>
      BY <1>2, <2>1, <3>1, NoneIs DEF Guarding, Order
    <3>3. HeldBy(posts, objective[h].route[1], h)
      BY <2>1, <3>1 DEF SquadInv
    <3>4. HeldBy(posts, p, h) /\ objective'[h].route[1] = p
      BY <3>1, <3>2, <3>3
    <3> QED BY <2>1, <2>3, <3>4
  <2> QED BY <2>2, <2>3
<1> QED BY <1>4, <1>5 DEF SquadInv

LEMMA RestingIs ==
  ASSUME SquadInv, NEW g \in Squads, NEW x, objective' = [objective EXCEPT ![g] = x],
         NEW m, m = Cardinality(Resting), NEW n, n = Cardinality(Resting')
  PROVE  /\ m \in Nat /\ n \in Nat /\ m <= occupants
         /\ n = m + (IF RestsInArea(x) THEN 1 ELSE 0) - (IF RestsInArea(objective[g]) THEN 1 ELSE 0)
<1> DEFINE R == Resting \ {g}
<1>1. R = {h \in Squads \ {g} : RestsInArea(objective[h])} /\ R \in SUBSET Squads
      /\ Resting \in SUBSET Squads /\ Resting' \in SUBSET Squads /\ g \notin R
  BY DEF Resting
<1>2. Resting' = IF RestsInArea(x) THEN R \cup {g} ELSE R
  <2>1. objective'[g] = x /\ \A h \in Squads \ {g} : objective'[h] = objective[h]
    BY DEF SquadInv, SquadTyped, OrdersIn
  <2> QED BY <1>1, <2>1 DEF Resting
<1>3. Resting = IF RestsInArea(objective[g]) THEN R \cup {g} ELSE R
  BY DEF Resting
<1>4. IsFiniteSet(R) /\ IsFiniteSet(Resting) /\ IsFiniteSet(Resting')
  BY <1>1, SquadAssumption, FS_Subset
<1>5. PICK r \in Nat : r = Cardinality(R)
  BY <1>4, FS_CardinalityType
<1>6. Cardinality(R \cup {g}) = r + 1
  <2> HIDE DEF R
  <2> QED BY <1>1, <1>4, <1>5, FS_AddElement
<1>7. m <= occupants
  BY DEF SquadInv
<1>8. m = r + (IF RestsInArea(objective[g]) THEN 1 ELSE 0)
  BY <1>3, <1>5, <1>6
<1>9. n = r + (IF RestsInArea(x) THEN 1 ELSE 0)
  BY <1>2, <1>5, <1>6
<1> QED BY <1>5, <1>7, <1>8, <1>9

LEMMA KeepKeeps ==
  ASSUME SquadInv, ~TickOver, NEW g \in turns, turns' = turns \ {g}, UNCHANGED <<now, at, present, aggroed>>,
         NEW x, Keep(x, g), x = None \/ Order(x), RestsInArea(x) <=> RestsInArea(objective[g]),
         MyTurn(g) /\ x.kind = "guard" /\ x.post => HeldBy(posts, x.route[1], g)
  PROVE  SquadInv' /\ PostPassesByRelief
<1>1. objective' = [objective EXCEPT ![g] = x] /\ posts' = posts /\ occupants' = occupants
  BY DEF Keep
<1>2. g \in Squads /\ ClaimsIn(posts) /\ occupants \in 0 .. RestRoom
  BY DEF SquadInv, SquadTyped
<1>3. PICK m, n : m = Cardinality(Resting) /\ n = Cardinality(Resting')
  OBVIOUS
<1>4. m \in Nat /\ n \in Nat /\ m <= occupants /\ n = m
  <2>1. /\ m \in Nat /\ n \in Nat /\ m <= occupants
        /\ n = m + (IF RestsInArea(x) THEN 1 ELSE 0) - (IF RestsInArea(objective[g]) THEN 1 ELSE 0)
    BY <1>1, <1>2, <1>3, RestingIs
  <2> QED BY <2>1
<1>5. ClaimsIn(posts')
  BY <1>1, <1>2 DEF ClaimsIn, Held
<1>6. SquadInv'
  BY <1>1, <1>2, <1>3, <1>4, <1>5, TurnDone
<1> QED BY <1>1, <1>6 DEF PostPassesByRelief

LEMMA ReplanKeeps ==
  ASSUME SquadInv, ~TickOver, NEW g \in turns, turns' = turns \ {g}, UNCHANGED <<now, at, present, aggroed>>,
         NEW old, Order(old), ~old.disperse, RestsInArea(old) <=> RestsInArea(objective[g]),
         NEW failed, Replan(old, failed, g)
  PROVE  SquadInv' /\ PostPassesByRelief
<1>1. PICK new \in PickObjective(old.stuck, g) :
        /\ objective' = [objective EXCEPT ![g] =
               [Told(old, new) EXCEPT !.stuck = "",
                   !.off = IF failed THEN now + SquadCfg.disable ELSE @,
                   !.exit = IF old.kind = "regroup" THEN now ELSE @]]
        /\ posts' = PostsAfter(old, new, g)
        /\ occupants' = OccupantsAfter(old, new)
  BY DEF Replan
<1>2. OfferedTo(new, g)
  BY ObjectivesOffered
<1>3. PICK x : /\ objective' = [objective EXCEPT ![g] = x]
               /\ DOMAIN x = DOMAIN old /\ x.kind = new.kind /\ x.route = new.route /\ x.post = new.post
               /\ x.area = new.area /\ x.disperse = old.disperse
  <2>1. PICK t : t = Told(old, new)
    OBVIOUS
  <2>2. /\ DOMAIN t = DOMAIN old /\ t.kind = new.kind /\ t.route = new.route /\ t.post = new.post
        /\ t.area = new.area /\ t.disperse = old.disperse
    BY <2>1, ToldIs DEF Order
  <2>3. PICK a, b : a = (IF failed THEN now + SquadCfg.disable ELSE t.off)
                    /\ b = (IF old.kind = "regroup" THEN now ELSE t.exit)
    OBVIOUS
  <2>4. PICK y : y = [t EXCEPT !.stuck = "", !.off = a, !.exit = b]
    OBVIOUS
  <2>5. SameOrder(t, y)
    BY <2>4 DEF SameOrder
  <2>6. y = [Told(old, new) EXCEPT !.stuck = "",
                   !.off = IF failed THEN now + SquadCfg.disable ELSE @,
                   !.exit = IF old.kind = "regroup" THEN now ELSE @]
    BY <2>1, <2>3, <2>4, Zenon
  <2>7. objective' = [objective EXCEPT ![g] = y]
    BY <1>1, <2>6
  <2> QED BY <2>2, <2>5, <2>7 DEF SameOrder
<1>4. Order(x)
  BY <1>2, <1>3 DEF Order, OfferedTo
<1>5. g \in Squads /\ ClaimsIn(posts) /\ occupants \in 0 .. RestRoom /\ g # 0
  BY SquadAssumption DEF SquadInv, SquadTyped
<1>6. /\ ClaimsIn(posts')
      /\ \A h \in Squads \ {g} : \A p \in Places : HeldBy(posts, p, h) => HeldBy(posts', p, h)
      /\ new.kind = "guard" /\ new.post => HeldBy(posts', new.route[1], g)
      /\ PostPassesByRelief
  <2> DEFINE left == IF old.kind = "guard" /\ old.post /\ HeldBy(posts, old.route[1], g)
                     THEN [posts EXCEPT ![old.route[1]] = NoClaim] ELSE posts
             takes == new.kind = "guard" /\ new.post
  <2>1. posts' = IF takes THEN [left EXCEPT ![new.route[1]] = Claim(g)] ELSE left
    BY <1>1 DEF PostsAfter
  <2>2. /\ left = [p \in Places |-> left[p]]
        /\ \A p \in Places : left[p] = posts[p] \/ (left[p] = NoClaim /\ HeldBy(posts, p, g))
    BY <1>5 DEF ClaimsIn
  <2> HIDE DEF left
  <2>3. Claim(g).by = g /\ Claim(g) # NoClaim
    BY <1>5 DEF Claim, NoClaim
  <2>4. CASE ~takes
    <3>1. posts' = left
      BY <2>1, <2>4
    <3>2. ClaimsIn(posts')
      BY <1>5, <2>2, <3>1 DEF ClaimsIn, Held
    <3>3. PostPassesByRelief
      BY <2>2, <3>1 DEF PostPassesByRelief, Held
    <3> QED BY <2>2, <2>4, <3>1, <3>2, <3>3 DEF HeldBy
  <2>5. CASE takes
    <3>1. PICK q \in Places : new.route = <<q>> /\ ~(Held(posts, q) /\ posts[q].by # g)
      BY <1>2, <2>5 DEF OfferedTo
    <3>2. posts' = [left EXCEPT ![q] = Claim(g)]
      BY <2>1, <2>5, <3>1
    <3>3. /\ posts' = [p \in Places |-> posts'[p]] /\ posts'[q] = Claim(g)
          /\ \A p \in Places \ {q} : posts'[p] = left[p]
      BY <2>2, <3>2
    <3>4. ClaimsIn(posts')
      BY <1>5, <2>2, <2>3, <3>3 DEF ClaimsIn, Held
    <3>5. PostPassesByRelief
      BY <2>2, <2>3, <3>1, <3>3 DEF PostPassesByRelief, Held
    <3>6. HeldBy(posts', q, g)
      BY <2>3, <3>3 DEF HeldBy
    <3>7. \A h \in Squads \ {g} : \A p \in Places : HeldBy(posts, p, h) => HeldBy(posts', p, h)
      BY <2>2, <3>1, <3>3 DEF HeldBy, Held
    <3> QED BY <3>1, <3>4, <3>5, <3>6, <3>7
  <2> QED BY <2>4, <2>5
<1>7. PICK m, n : m = Cardinality(Resting) /\ n = Cardinality(Resting')
  OBVIOUS
<1>8. /\ m \in Nat /\ n \in Nat /\ m <= occupants
      /\ n = m + (IF RestsInArea(x) THEN 1 ELSE 0) - (IF RestsInArea(objective[g]) THEN 1 ELSE 0)
  BY <1>3, <1>5, <1>7, RestingIs
<1>9. occupants' \in 0 .. RestRoom /\ n <= occupants'
  <2>1. RestsInArea(x) <=> new.area
    BY <1>2, <1>3 DEF RestsInArea, OfferedTo
  <2>2. LeavesArea(old) <=> RestsInArea(objective[g])
    BY DEF LeavesArea, RestsInArea
  <2>3. PICK reserved : reserved = occupants + IF new.area /\ occupants < RestRoom THEN 1 ELSE 0
    OBVIOUS
  <2>4. occupants' = reserved - IF LeavesArea(old) /\ reserved > 0 THEN 1 ELSE 0
    BY <1>1, <2>3 DEF OccupantsAfter
  <2>5. new.area => occupants < RestRoom
    BY <1>2 DEF OfferedTo
  <2>6. reserved = occupants + (IF new.area THEN 1 ELSE 0)
    BY <2>3, <2>5
  <2>7. occupants \in Nat /\ occupants <= RestRoom /\ RestRoom \in Nat
    BY <1>5, SquadAssumption
  <2>8. CASE RestsInArea(objective[g])
    BY <1>8, <2>1, <2>2, <2>4, <2>5, <2>6, <2>7, <2>8
  <2>9. CASE ~RestsInArea(objective[g])
    BY <1>8, <2>1, <2>2, <2>4, <2>5, <2>6, <2>7, <2>9
  <2> QED BY <2>8, <2>9
<1>10. SquadInv'
  BY <1>3, <1>4, <1>5, <1>6, <1>7, <1>9, TurnDone
<1> QED BY <1>6, <1>10

LEMMA PlanKeeps ==
  ASSUME SquadInv, PlanSquads
  PROVE  SquadInv' /\ PostPassesByRelief
<1>1. PICK g \in turns : /\ TurnOf(objective[g], Watch(StopsWalking(objective[g], g), g), g)
                         /\ turns' = turns \ {g}
  BY DEF PlanSquads
<1>2. ~TickOver /\ UNCHANGED <<now, at, present, aggroed>>
  BY DEF PlanSquads
<1>3. PICK o, w : o = objective[g] /\ w = Watch(StopsWalking(objective[g], g), g)
  OBVIOUS
<1>4. o = None \/ Order(o)
  BY <1>2, <1>3 DEF SquadInv, SquadTyped, OrdersIn
<1>5. IF o = None THEN w = None
      ELSE /\ Order(w) /\ (RestsInArea(w) <=> RestsInArea(o)) /\ ~w.disperse
           /\ w.kind = o.kind /\ w.post = o.post
  BY <1>3, <1>4, WatchKeeps
<1>6. CASE ~MyTurn(g) /\ Keep(o, g)
  BY <1>1, <1>2, <1>3, <1>4, <1>6, KeepKeeps
<1>7. CASE MyTurn(g) /\ WalksOn(o, g) /\ Keep(Walk(o, g), g)
  <2>1. Order(o) /\ o.disperse
    BY <1>4, <1>7 DEF WalksOn
  <2>2. PICK x : x = Walk(o, g)
    OBVIOUS
  <2>3. SameOrder(o, x)
    BY <2>2 DEF SameOrder, Walk
  <2>4. Order(x) /\ (RestsInArea(x) <=> RestsInArea(o)) /\ x.kind # "guard"
    BY <2>1, <2>3, SameOrderIs DEF SameOrder, Order
  <2> QED BY <1>1, <1>2, <1>3, <1>7, <2>2, <2>4, KeepKeeps
<1>8. CASE MyTurn(g) /\ Replanned(o, w, g)
  <2>1. CASE ~NeedsNew(w, g)
    <3>1. Keep(w, g)
      BY <1>8, <2>1 DEF Replanned
    <3>2. Order(w) /\ (RestsInArea(w) <=> RestsInArea(o))
      BY <1>5, <2>1 DEF NeedsNew
    <3>3. w.kind = "guard" /\ w.post => HeldBy(posts, w.route[1], g)
      BY <2>1, <3>2, NoneIs DEF NeedsNew
    <3> QED BY <1>1, <1>2, <1>3, <3>1, <3>2, <3>3, KeepKeeps
  <2>2. CASE NeedsNew(w, g) /\ w = None
    <3>1. Replan(FreshObjective(g), FALSE, g)
      BY <1>8, <2>2 DEF Replanned
    <3>2. ~RestsInArea(o)
      BY <1>5, <2>2, NoneIs
    <3>3. PICK f : f = FreshObjective(g) /\ Replan(f, FALSE, g)
      BY <3>1
    <3>4. Order(f) /\ ~f.disperse /\ ~RestsInArea(f)
      BY <3>3, FreshIs
    <3>5. PICK no : no = FALSE /\ Replan(f, no, g)
      BY <3>3
    <3> QED BY <1>1, <1>2, <1>3, <3>2, <3>4, <3>5, ReplanKeeps
  <2>3. CASE NeedsNew(w, g) /\ w # None
    <3>1. Replan(w, RegroupFailed(w), g)
      BY <1>8, <2>3 DEF Replanned
    <3>2. PICK failed : failed = RegroupFailed(w) /\ Replan(w, failed, g)
      BY <3>1
    <3>3. Order(w) /\ (RestsInArea(w) <=> RestsInArea(o)) /\ ~w.disperse
      BY <1>5, <2>3
    <3> QED BY <1>1, <1>2, <1>3, <3>2, <3>3, ReplanKeeps
  <2> QED BY <2>1, <2>2, <2>3
<1> QED BY <1>1, <1>3, <1>6, <1>7, <1>8 DEF TurnOf

LEMMA FinishKeeps ==
  ASSUME SquadInv, Finish
  PROVE  SquadInv' /\ PostPassesByRelief
<1>1. /\ OrdersIn(objective) /\ ClaimsIn(posts)
      /\ objective' = [g \in Squads |-> IF objective[g] = None THEN None ELSE PatrolAdvanced(objective[g], g)]
      /\ posts' = [p \in Places |-> IF Flips(p) THEN NoClaim ELSE posts[p]]
      /\ turns' = {0} /\ UNCHANGED <<at, present, aggroed, occupants>>
  BY DEF Finish, SquadInv, SquadTyped
<1>2. ASSUME NEW g \in Squads
      PROVE  objective'[g] = objective[g] \/ (objective'[g] # None /\ Order(objective'[g])
                /\ objective'[g].kind = "patrol")
  <2>1. CASE objective[g] = None
    BY <1>1, <2>1
  <2>2. CASE objective[g] # None
    <3>1. Order(objective[g])
      BY <1>1, <2>2 DEF OrdersIn
    <3>2. PICK o, n : o = objective[g] /\ n = objective'[g] /\ n = PatrolAdvanced(o, g)
      BY <1>1, <2>2
    <3>3. n = o \/ (o.kind = "patrol" /\ ~o.disperse /\ \E r : n = [o EXCEPT !.route = r])
      BY <3>2 DEF PatrolAdvanced
    <3>4. o.kind = "patrol" /\ ~o.disperse /\ (\E r : n = [o EXCEPT !.route = r]) => Order(n) /\ n.kind = "patrol"
      BY <3>1, <3>2 DEF Order
    <3> QED BY <3>2, <3>3, <3>4, NoneIs
  <2> QED BY <2>1, <2>2
<1>3. OrdersIn(objective') /\ OrdersFollow(objective, objective')
  <2>1. objective' = [g \in Squads |-> objective'[g]]
    BY <1>1
  <2> QED BY <1>1, <1>2, <2>1 DEF OrdersIn, OrdersFollow, RestsInArea
<1>4. /\ posts' = [p \in Places |-> posts'[p]]
      /\ \A p \in Places : posts'[p] = posts[p] \/ posts'[p] = NoClaim
  BY <1>1
<1>5. ClaimsIn(posts') /\ PostPassesByRelief
  BY <1>1, <1>4 DEF ClaimsIn, Held, PostPassesByRelief
<1>6. SquadTyped'
  BY <1>1, <1>3, <1>5 DEF SquadInv, SquadTyped, TickOver, OrdersIn, Order, ClaimsIn, Held, Places
<1>7. Cardinality(Resting') <= occupants'
  BY <1>1, <1>3, RestingShrinks
<1>8. TickOver'
  BY <1>1 DEF TickOver
<1> QED BY <1>1, <1>5, <1>6, <1>7, <1>8 DEF SquadInv

LEMMA BetweenKeeps ==
  ASSUME SquadInv, Between, present' \in SUBSET Squads, at' \in [Squads -> Places]
  PROVE  SquadInv' /\ PostPassesByRelief
<1>1. UNCHANGED <<now, objective, posts, occupants, turns>> /\ TickOver
  BY DEF Between
<1>2. TickOver' /\ Resting' = Resting
  BY <1>1 DEF TickOver, Resting
<1>3. SquadTyped'
  BY <1>1, <1>2 DEF SquadInv, SquadTyped, OrdersIn, Order, ClaimsIn, Held, Places
<1> QED BY <1>1, <1>2, <1>3 DEF SquadInv, PostPassesByRelief

LEMMA SquadStep ==
  ASSUME SquadInv, SquadNext
  PROVE  SquadInv' /\ PostPassesByRelief
<1>1. present \in SUBSET Squads /\ at \in [Squads -> Places]
  BY DEF SquadInv, SquadTyped
<1>2. CASE Begin
  BY <1>2, BeginKeeps
<1>3. CASE PlanSquads
  BY <1>3, PlanKeeps
<1>4. CASE Finish
  BY <1>4, FinishKeeps
<1>5. CASE Moves
  BY <1>1, <1>5, BetweenKeeps DEF Moves
<1>6. CASE Fights
  BY <1>1, <1>6, BetweenKeeps DEF Fights
<1>7. CASE Scatters
  BY <1>1, <1>7, BetweenKeeps DEF Scatters
<1>8. CASE Leaves
  BY <1>1, <1>8, BetweenKeeps DEF Leaves
<1> QED BY <1>2, <1>3, <1>4, <1>5, <1>6, <1>7, <1>8 DEF SquadNext

LEMMA SquadStart ==
  ASSUME SquadInit
  PROVE  SquadInv
<1>1. SquadTyped
  BY SquadAssumption DEF SquadInit, SquadTyped, OrdersIn, ClaimsIn, Held, TickOver, Places
<1>2. Resting = {}
  BY NoneIs DEF SquadInit, Resting
<1>3. Cardinality(Resting) = 0 /\ TickOver /\ occupants = 0
  BY <1>2, FS_EmptySet DEF SquadInit, TickOver
<1> QED BY <1>1, <1>3, SquadAssumption DEF SquadInv

LEMMA SquadStutter ==
  ASSUME SquadInv, UNCHANGED squadVars
  PROVE  SquadInv'
<1>1. UNCHANGED <<now, objective, posts, occupants, turns, at, present, aggroed>>
  BY DEF squadVars
<1>2. SquadTyped'
  BY <1>1 DEF SquadInv, SquadTyped, OrdersIn, Order, ClaimsIn, Held, Places, TickOver
<1>3. Resting' = Resting
  BY <1>1 DEF Resting
<1>4. /\ TickOver' = TickOver
      /\ \A h : (MyTurn(h)' <=> MyTurn(h)) /\ (Guarding(h)' <=> Guarding(h))
  BY <1>1 DEF TickOver, MyTurn, Guarding
<1> QED BY <1>1, <1>2, <1>3, <1>4 DEF SquadInv, HeldBy

(* In SquadSpec the rest area counts at least the squads that rest in it    *)
(* and no more than it has room for, and when all turns of a tick are done  *)
(* a squad that had its own and guards a post holds the claim on it.  A     *)
(* claim may stay where no objective names it (a squad that regroups keeps  *)
(* its post): nothing is said of that.                                      *)
THEOREM ClaimsAlwaysMatchObjectives == SquadSpec => []ClaimsMatchObjectives
<1>1. SquadInit => SquadInv
  BY SquadStart
<1>2. SquadInv /\ [SquadNext]_squadVars => SquadInv'
  BY SquadStep, SquadStutter
<1>3. SquadInv => ClaimsMatchObjectives
  BY SquadAssumption DEF SquadInv, ClaimsMatchObjectives, Resting, TickOver
<1> QED BY <1>1, <1>2, <1>3, PTL DEF SquadSpec

(* A step of SquadSpec takes a post from a squad that is still there and    *)
(* guards it only by handing it to the squad that relieves it               *)
(* (handle_relief_arrivals), whatever the other passes of the tick do.      *)
THEOREM PostsAlwaysPassByRelief == SquadSpec => PostsPassByRelief
<1>1. SquadInit => SquadInv
  BY SquadStart
<1>2. SquadInv /\ [SquadNext]_squadVars => SquadInv'
  BY SquadStep, SquadStutter
<1>3. SquadInv /\ [SquadNext]_squadVars => [PostPassesByRelief]_squadVars
  BY SquadStep
<1> QED BY <1>1, <1>2, <1>3, PTL DEF SquadSpec, PostsPassByRelief

-----------------------------------------------------------------------------
(* Fighters and their cover.                                               *)

Acts == DOMAIN Military
StanceSet ==
  {s \in [is : {"none", "InCover", "Firing", "Approaching", "Flanking", "Retreating", "Suppressed"},
          vol : FightVolumes \cup {0}, until : Int] : s.is = "InCover" => s.vol \in FightVolumes}
PlanSet == [made : BOOLEAN, acts : Seq(Acts), since : Int, key : SUBSET {"fire", "low", "suppressed", "cover"}]
Fighter ==
  [where : Grounds, health : Int, foe : Fighters \cup {0}, role : Roles \cup {"none"},
   stance : StanceSet, plan : PlanSet, hits : [Fighters -> Nat]]

FightTyped ==
  /\ instant \in Nat
  /\ Living \subseteq Fighters /\ fighters \in [Living -> Fighter]
  /\ claims \in [FightVolumes -> Fighters \cup {0}]
  /\ settled \subseteq FightVolumes \X Fighters

(* A volume settled in the last tick is claimed, and its claimant, while   *)
(* he lives, is in it.                                                     *)
Occupied(v) == claims[v] \in Fighters /\ (claims[v] \in Living => Holds(fighters[claims[v]], v))
FightInv == FightTyped /\ \A c \in settled : Occupied(c[1])

(* The least of a set of indices, as CHOOSE finds it. *)
LEMMA LeastIndex ==
  ASSUME NEW S, NEW q \in Seq(S), NEW I, I \subseteq DOMAIN q, I # {}
  PROVE  (CHOOSE i \in I : \A j \in I : i <= j) \in I
<1>1. I \in SUBSET Nat
  BY LenProperties
<1>2. \E i \in I : \A j \in I : i <= j
  BY <1>1, LeastNumber
<1> QED BY <1>2, Zenon

(* The volume offered is free or the fighter's own. *)
LEMMA CoverOffered ==
  ASSUME FightTyped, NEW n \in Living, Live(fighters[n].foe)
  PROVE  LET cover == NearestCoverFor(n, fighters[n])
         IN  cover = <<>> \/ \E v \in FightVolumes : cover = <<v>> /\ IsFree(v, n)
<1> DEFINE f == fighters[n]
           g == fighters[f.foe]
           around == CoverAt[f.where][g.where]
           further == IF n \in Cautious THEN Further[f.where][g.where] ELSE <<>>
           vols == around \o further
           free == {i \in DOMAIN vols : IsFree(vols[i], n)}
<1>1. f \in Fighter /\ g \in Fighter
  BY DEF FightTyped, Live
<1>2. f.where \in Grounds /\ g.where \in Grounds
  BY <1>1 DEF Fighter
<1>3. around \in Seq(FightVolumes) /\ Further[f.where][g.where] \in Seq(FightVolumes)
  <2>1. {CoverAt, Further} \subseteq [Grounds -> [Grounds -> Seq(FightVolumes)]]
    BY FightAssumption
  <2>2. CoverAt \in [Grounds -> [Grounds -> Seq(FightVolumes)]] /\ Further \in [Grounds -> [Grounds -> Seq(FightVolumes)]]
    BY <2>1
  <2> QED BY <1>2, <2>2
<1>4. vols \in Seq(FightVolumes)
  BY <1>3, EmptySeq, ConcatProperties
<1>5. NearestCoverFor(n, f) = IF free = {} THEN <<>> ELSE <<vols[CHOOSE i \in free : \A j \in free : i <= j]>>
  BY Zenon DEF NearestCoverFor
<1>6. CASE free # {}
  <2> DEFINE k == CHOOSE i \in free : \A j \in free : i <= j
  <2>1. k \in free
    <3> HIDE DEF vols
    <3> QED BY <1>4, <1>6, LeastIndex
  <2>2. vols[k] \in FightVolumes /\ IsFree(vols[k], n)
    <3>1. k \in DOMAIN vols /\ IsFree(vols[k], n)
      BY <2>1
    <3> HIDE DEF vols, k
    <3> QED BY <3>1, <1>4, ElementOfSeq, LenProperties
  <2>3. NearestCoverFor(n, f) = <<vols[k]>>
    BY <1>5, <1>6
  <2> QED BY <2>2, <2>3
<1>7. CASE free = {}
  BY <1>5, <1>7
<1> QED BY <1>6, <1>7

(* What is planned is a sequence of actions. *)
LEMMA PlanType ==
  ASSUME NEW state \in FightStates, NEW goals \in Seq(FightGoals), NEW r \in Roles
  PROVE  Plan(state, goals, Table[r]) \in Seq(Seq(Acts))
<1> DEFINE G == {i \in DOMAIN goals : ~(goals[i] \subseteq state) /\ Table[r][goals[i]][state] # <<>>}
           k == CHOOSE i \in G : \A j \in G : i <= j
<1>1. Plan(state, goals, Table[r]) = IF G = {} THEN <<>> ELSE Table[r][goals[k]][state]
  BY Zenon DEF Plan
<1>2. CASE G # {}
  <2>1. k \in G
    BY <1>2, LeastIndex
  <2>2. goals[k] \in FightGoals
    <3>1. k \in DOMAIN goals
      BY <2>1
    <3> HIDE DEF k
    <3> QED BY <3>1, ElementOfSeq, LenProperties
  <2>3. Table[r][goals[k]][state] \in Seq(Seq(Acts))
    <3> HIDE DEF k
    <3> QED BY <2>2, FightAssumption DEF Acts
  <2> QED BY <1>1, <1>2, <2>3
<1> QED BY <1>1, <1>2, EmptySeq

LEMMA CombatGoalsType ==
  ASSUME NEW h, NEW t, NEW a, NEW s
  PROVE  CombatGoals(h, t, a, s) \in Seq(FightGoals)
<1> DEFINE Asked(c, goal) == IF c THEN <<goal>> ELSE <<>>
<1>1. \A g \in FightGoals : Asked(s, g) \in Seq(FightGoals) /\ Asked(h < 30, g) \in Seq(FightGoals)
                            /\ Asked(h < 60, g) \in Seq(FightGoals) /\ Asked(a, g) \in Seq(FightGoals)
                            /\ Asked(t, g) \in Seq(FightGoals)
  BY EmptySeq
<1>2. /\ {"AT_SAFE_POS"} \in FightGoals /\ {"AT_SAFE_POS", "IN_COVER"} \in FightGoals /\ {"NEAR_ALLY"} \in FightGoals
      /\ {"IN_COVER"} \in FightGoals /\ {"TARGET_DEAD", "IN_COVER"} \in FightGoals /\ {"TARGET_DEAD"} \in FightGoals
  BY DEF FightGoals
<1>3. <<{"TARGET_DEAD", "IN_COVER"}, {"TARGET_DEAD"}>> \in Seq(FightGoals)
  BY <1>2
<1>4. CombatGoals(h, t, a, s) =
        Asked(s, {"AT_SAFE_POS"}) \o Asked(h < 30, {"AT_SAFE_POS"}) \o Asked(h < 60, {"AT_SAFE_POS", "IN_COVER"})
        \o Asked(a, {"NEAR_ALLY"}) \o Asked(t, {"IN_COVER"}) \o <<{"TARGET_DEAD", "IN_COVER"}, {"TARGET_DEAD"}>>
  BY Zenon DEF CombatGoals
<1> HIDE DEF Asked
<1> QED BY <1>1, <1>2, <1>3, <1>4, ConcatProperties

LEMMA FlagsType ==
  ASSUME NEW f, NEW cover
  PROVE  Flags(f, cover) \in FightStates
<1>1. PICK s \in SUBSET {"IN_RANGE", "HAS_LOS", "COVER_AVAILABLE", "IN_COVER"} :
         Flags(f, cover) = {"HAS_TARGET", "HAS_AMMO"} \cup s
  <2> DEFINE s == (IF cover # <<>> THEN {"COVER_AVAILABLE"} ELSE {})
        \cup (IF Close(f) \/ f.stance.is = "Firing" THEN {"IN_RANGE", "HAS_LOS"} ELSE {})
        \cup (IF InCover(f) THEN {"IN_COVER", "HAS_LOS"} ELSE {})
  <2>1. s \in SUBSET {"IN_RANGE", "HAS_LOS", "COVER_AVAILABLE", "IN_COVER"}
    OBVIOUS
  <2>2. Flags(f, cover) = {"HAS_TARGET", "HAS_AMMO"} \cup s
    BY DEF Flags
  <2> QED BY <2>1, <2>2
<1> QED BY <1>1 DEF FightStates

LEMMA RoleType == ASSUME NEW f \in Fighter PROVE Role(f) \in Roles
  BY DEF Role, Fighter, Roles, RoleCosts

(* Whether a plan is made anew or kept, it is a plan. *)
LEMMA PlannedType ==
  ASSUME FightTyped, NEW n \in Living, NEW f \in Fighter, NEW cover
  PROVE  Planned(n, f, cover, PlanKey(f, cover)) \in PlanSet
<1> DEFINE goals == CombatGoals(f.health, TakingFire(f), MedicCares(n, f), SquadRetreats(n))
           found == Plan(Flags(f, cover), goals, Table[Role(f)])
           key == PlanKey(f, cover)
<1>1. found \in Seq(Seq(Acts))
  BY CombatGoalsType, FlagsType, RoleType, PlanType
<1>2. found # <<>> => found[1] \in Seq(Acts)
  <2> HIDE DEF found
  <2> QED BY <1>1, ElementOfSeq, EmptySeq, LenProperties
<1>3. key \in SUBSET {"fire", "low", "suppressed", "cover"}
  BY Zenon DEF PlanKey
<1>30. instant \in Int
  BY DEF FightTyped
<1>4. Planned(n, f, cover, key) = IF NeedsReplan(f, key) /\ found # <<>>
        THEN [made |-> TRUE, acts |-> found[1], since |-> instant, key |-> key] ELSE f.plan
  BY Zenon DEF Planned
<1>5. f.plan \in PlanSet
  BY DEF Fighter
<1>6. found # <<>> => [made |-> TRUE, acts |-> found[1], since |-> instant, key |-> key] \in PlanSet
  <2> HIDE DEF found, key
  <2> QED BY <1>2, <1>3, <1>30 DEF PlanSet
<1> HIDE DEF found, PlanSet
<1> QED BY <1>4, <1>5, <1>6

(* A stance n may take: in cover he stays, or takes a volume that is free. *)
Takes(n, f, s) == s \in StanceSet /\ (s.is = "InCover" => Holds(f, s.vol) \/ IsFree(s.vol, n))
Offered(n, cover) == cover = <<>> \/ \E v \in FightVolumes : cover = <<v>> /\ IsFree(v, n)

LEMMA HideTakes ==
  ASSUME NEW n, NEW f, NEW v \in FightVolumes, NEW u \in Int, Holds(f, v) \/ IsFree(v, n)
  PROVE  Takes(n, f, Hide(v, u))
  BY DEF Takes, Hide, Stance, StanceSet

LEMMA OpenTakes ==
  ASSUME NEW n, NEW f, NEW is \in {"none", "Firing", "Approaching", "Flanking", "Retreating", "Suppressed"}, NEW u \in Int
  PROVE  Takes(n, f, Stance(is, 0, u))
  BY DEF Takes, Stance, StanceSet

LEMMA CoverOrTakes ==
  ASSUME NEW n, NEW f, NEW cover, Offered(n, cover), NEW s, Takes(n, f, s)
  PROVE  Takes(n, f, CoverOr(cover, s))
<1>1. CASE cover = <<>>
  BY <1>1 DEF CoverOr
<1>2. ASSUME NEW v \in FightVolumes, cover = <<v>>, IsFree(v, n) PROVE Takes(n, f, CoverOr(cover, s))
  <2>1. CoverOr(cover, s) = Hide(v, 0)
    BY <1>2 DEF CoverOr
  <2> QED BY <1>2, <2>1, HideTakes
<1> QED BY <1>1, <1>2 DEF Offered

LEMMA ByActionTakes ==
  ASSUME FightTyped, NEW n, NEW f \in Fighter, NEW act \in Acts, NEW cover, Offered(n, cover)
  PROVE  Takes(n, f, ByAction(f, act, cover))
<1>1. Takes(n, f, Fires) /\ Takes(n, f, Stance("Approaching", 0, 0)) /\ Takes(n, f, Stance("Flanking", 0, 0))
      /\ Takes(n, f, Stance("Retreating", 0, 0))
  BY OpenTakes DEF Fires
<1>2. Takes(n, f, CoverOr(cover, Fires)) /\ Takes(n, f, CoverOr(cover, Stance("Approaching", 0, 0)))
  BY <1>1, CoverOrTakes
<1>3. FightCfg.peek[Role(f)] \in Nat /\ instant \in Nat
  BY RoleType, FightAssumption DEF FightTyped
<1>4. InCover(f) => f.stance.vol \in FightVolumes /\ Holds(f, f.stance.vol)
  BY DEF InCover, Fighter, StanceSet, Holds
<1>5. InCover(f) => Takes(n, f, Hide(f.stance.vol, instant + FightCfg.peek[Role(f)])) /\ Takes(n, f, Hide(f.stance.vol, 0))
  <2>1. instant + FightCfg.peek[Role(f)] \in Int /\ 0 \in Int
    BY <1>3
  <2> QED BY <1>4, <2>1, HideTakes
<1>6. act \in {"Shoot", "Advance", "MoveToCover", "PeekFromCover", "Flank", "Suppress", "Retreat", "Reload", "HealAlly"}
  BY DEF Acts, Military
<1> QED BY <1>1, <1>2, <1>5, <1>6 DEF ByAction

LEMMA NewStanceTakes ==
  ASSUME FightTyped, NEW n, NEW f \in Fighter, NEW acts \in Seq(Acts), NEW cover, Offered(n, cover)
  PROVE  Takes(n, f, NewStance(n, f, acts, cover))
<1>1. Takes(n, f, Fires) /\ Takes(n, f, Stance("Approaching", 0, 0)) /\ Takes(n, f, Stance("Flanking", 0, 0))
      /\ Takes(n, f, Stance("Retreating", 0, 0))
  BY OpenTakes DEF Fires
<1>2. Takes(n, f, Stance("Suppressed", 0, instant + FightCfg.suppressed))
  <2>1. instant + FightCfg.suppressed \in Int
    BY FightAssumption DEF FightTyped
  <2> QED BY <2>1, OpenTakes
<1>3. Takes(n, f, CoverOr(cover, Fires))
  BY <1>1, CoverOrTakes
<1>4. Takes(n, f, f.stance)
  BY DEF Takes, Holds, InCover, Fighter, StanceSet
<1>5. Takes(n, f, WithoutPlan(f, cover))
  BY <1>1, <1>3, <1>4 DEF WithoutPlan
<1>6. acts # <<>> => Takes(n, f, ByAction(f, Head(acts), cover))
  BY ByActionTakes, HeadTailProperties
<1> QED BY <1>1, <1>2, <1>5, <1>6 DEF NewStance

LEMMA DecidedTakes ==
  ASSUME FightTyped, NEW n, NEW f \in Fighter, NEW plan \in PlanSet, NEW cover, Offered(n, cover)
  PROVE  Decided(n, f, cover, plan) \in Fighter /\ Takes(n, f, Decided(n, f, cover, plan).stance)
<1> DEFINE acts == IF f.plan.made THEN plan.acts ELSE <<>>
           new == NewStance(n, f, acts, cover)
           next == IF f.stance.is # new.is /\ acts # <<>> THEN [plan EXCEPT !.acts = Tail(acts)] ELSE plan
<1>1. acts \in Seq(Acts)
  BY EmptySeq DEF PlanSet
<1>2. Takes(n, f, new)
  BY <1>1, NewStanceTakes
<1>3. next \in PlanSet
  BY <1>1, HeadTailProperties DEF PlanSet
<1>4. Decided(n, f, cover, plan) = [f EXCEPT !.stance = new, !.plan = next]
  BY DEF Decided
<1>5. new \in StanceSet
  BY <1>2 DEF Takes
<1> HIDE DEF new, next
<1> QED BY <1>2, <1>3, <1>4, <1>5 DEF Fighter

(* What the tactics make of a fighter. *)
LEMMA TacticalTakes ==
  ASSUME FightTyped, NEW n \in Living
  PROVE  Tactical(n) \in Fighter /\ Takes(n, fighters[n], Tactical(n).stance)
<1> DEFINE f == fighters[n]
           cover == NearestCoverFor(n, f)
           plan == Planned(n, f, cover, PlanKey(f, cover))
<1>0. f \in Fighter /\ n \in Fighters
  BY DEF FightTyped
<1>1. CASE ~Engaged(n)
  <2>1. Tactical(n) = f
    BY <1>1 DEF Tactical
  <2> QED BY <1>0, <2>1 DEF Takes, Holds, InCover, Fighter, StanceSet
<1>2. CASE Engaged(n) /\ ~Live(f.foe)
  <2>1. Tactical(n) = [f EXCEPT !.stance = NoStance]
    BY <1>2 DEF Tactical
  <2>2. Takes(n, f, NoStance) /\ NoStance \in StanceSet
    <3>1. Takes(n, f, Stance("none", 0, 0))
      BY OpenTakes
    <3> QED BY <3>1 DEF NoStance, Takes
  <2>3. [f EXCEPT !.stance = NoStance] \in Fighter /\ [f EXCEPT !.stance = NoStance].stance = NoStance
    BY <1>0, <2>2 DEF Fighter
  <2> QED BY <2>1, <2>2, <2>3
<1>3. CASE Engaged(n) /\ Live(f.foe)
  <2>1. Offered(n, cover)
    BY <1>3, CoverOffered DEF Offered
  <2>2. plan \in PlanSet
    BY <1>0, PlannedType
  <2>3. Decided(n, f, cover, plan) \in Fighter /\ Takes(n, f, Decided(n, f, cover, plan).stance)
    <3> HIDE DEF f, cover, plan
    <3> QED BY <1>0, <2>1, <2>2, DecidedTakes
  <2>4. Tactical(n) = [Decided(n, f, cover, plan) EXCEPT !.role = RoleOf[n]]
    BY <1>3 DEF Tactical
  <2>5. RoleOf[n] \in Roles
    BY <1>0, FightAssumption
  <2> DEFINE g == Decided(n, f, cover, plan)
  <2>6. [g EXCEPT !.role = RoleOf[n]] \in Fighter /\ [g EXCEPT !.role = RoleOf[n]].stance = g.stance
    <3> HIDE DEF g
    <3> QED BY <2>3, <2>5 DEF g, Fighter
  <2> QED BY <2>3, <2>4, <2>6, Zenon
<1> QED BY <1>1, <1>2, <1>3

----------------------------------------------------------------------------

LEMMA FightInitHolds == FightInit => FightInv
<1> SUFFICES ASSUME FightInit PROVE FightInv
  OBVIOUS
<1>1. \A n \in Fighters : fighters[n] \in Fighter
  <2>1. NoStance \in StanceSet /\ NoPlan \in PlanSet
    BY EmptySeq DEF NoStance, Stance, StanceSet, NoPlan, PlanSet
  <2> QED BY <2>1, FightAssumption DEF FightInit, Fighter
<1> QED BY <1>1 DEF FightInit, FightInv, FightTyped, Living, Nobody

(* Whoever settles in a step of the tactics was offered his volume or held *)
(* it already; the claim that stays is of one of them.                     *)
LEMMA NpcTacticalKeeps == FightInv /\ NpcTactical => FightInv' /\ TakenTogether
<1> SUFFICES ASSUME FightInv, NpcTactical PROVE FightInv' /\ TakenTogether
  OBVIOUS
<1> DEFINE new == [n \in Living |-> Tactical(n)]
           old == [v \in Volumes |-> IF claims[v] \in Leaving(new) THEN Nobody ELSE claims[v]]
<1>1. /\ fighters' = new
      /\ settled' = ClaimsOf(new)
      /\ claims' \in Claimed(old, settled')
      /\ UNCHANGED instant
  BY Zenon DEF NpcTactical, Adopt
<1>2. FightTyped
  BY DEF FightInv
<1>3. \A n \in Living : new[n] \in Fighter /\ Takes(n, fighters[n], new[n].stance)
  BY <1>2, TacticalTakes
<1>4. Living' = Living /\ Living \subseteq Fighters
  BY <1>1, <1>2 DEF Living, FightTyped
<1> HIDE DEF new
<1>5. \A c \in settled' : /\ c \in FightVolumes \X Living
                          /\ Holds(fighters'[c[2]], c[1])
  <2> SUFFICES ASSUME NEW c \in settled'
               PROVE  c \in FightVolumes \X Living /\ Holds(fighters'[c[2]], c[1])
    OBVIOUS
  <2>1. PICK n \in Living : c = <<new[n].stance.vol, n>> /\ new[n].stance.is = "InCover"
    BY <1>1 DEF ClaimsOf
  <2>2. new[n].stance.vol \in FightVolumes
    BY <1>3, <2>1 DEF Fighter, StanceSet
  <2> QED BY <1>1, <2>1, <2>2 DEF Holds, InCover
<1>6. /\ claims' \in [FightVolumes -> Fighters \cup {0}]
      /\ \A c \in settled' : <<c[1], claims'[c[1]]>> \in settled'
  <2>1. Volumes = FightVolumes
    BY <1>2 DEF Volumes, FightTyped
  <2> QED BY <1>1, <1>5, <2>1 DEF Claimed, Nobody
<1>7. FightTyped'
  <2>1. fighters' \in [Living' -> Fighter] /\ Living' \subseteq Fighters
    BY <1>1, <1>3, <1>4 DEF new
  <2>2. settled' \subseteq FightVolumes \X Fighters
    BY <1>4, <1>5
  <2> QED BY <1>1, <1>2, <1>6, <2>1, <2>2 DEF FightTyped
<1>8. \A c \in settled' : Occupied(c[1])'
  BY <1>4, <1>5, <1>6 DEF Occupied, Holds, InCover
<1>9. TakenTogether
  <2> SUFFICES ASSUME NEW c \in settled, NEW n \in Living, Holds(fighters'[n], c[1])
               PROVE  Holds(fighters[n], c[1])
    BY DEF TakenTogether
  <2>1. new[n].stance.is = "InCover" /\ new[n].stance.vol = c[1]
    BY <1>1 DEF Holds, InCover
  <2>2. Holds(fighters[n], c[1]) \/ IsFree(c[1], n)
    BY <1>3, <2>1 DEF Takes
  <2>3. ASSUME IsFree(c[1], n) PROVE claims[c[1]] = n
    <3>1. claims[c[1]] \in Fighters /\ 0 \notin Fighters
      BY FightAssumption DEF FightInv, Occupied
    <3> QED BY <2>3, <3>1 DEF IsFree, Nobody
  <2>4. claims[c[1]] = n => Holds(fighters[n], c[1])
    BY DEF FightInv, Occupied
  <2> QED BY <2>2, <2>3, <2>4
<1> QED BY <1>7, <1>8, <1>9 DEF FightInv

LEMMA CombatKeeps == FightInv /\ Combat => FightInv'
<1> SUFFICES ASSUME FightInv, Combat PROVE FightInv'
  OBVIOUS
<1> DEFINE left == {n \in Living : fighters[n].health > 0}
<1>1. PICK hitting \in SUBSET Shooters :
        \E first \in [left -> Fighters] :
           /\ \A n \in left : IF {m \in hitting : fighters[m].foe = n} = {} THEN first[n] = n
                              ELSE first[n] \in {m \in hitting : fighters[m].foe = n}
           /\ fighters' = [n \in left |-> Struck(n, {m \in hitting : fighters[m].foe = n}, first[n])]
           /\ settled' = {c \in settled : c[2] \in left}
  BY Zenon DEF Combat
<1>2. PICK first \in [left -> Fighters] :
           /\ fighters' = [n \in left |-> Struck(n, {m \in hitting : fighters[m].foe = n}, first[n])]
           /\ settled' = {c \in settled : c[2] \in left}
  BY <1>1
<1>3. hitting \subseteq Fighters /\ IsFiniteSet(Fighters) /\ left \subseteq Fighters
  BY FightAssumption DEF Shooters, FightInv, FightTyped
<1>4. ASSUME NEW n \in left
      PROVE  fighters'[n] \in Fighter /\ fighters'[n].stance = fighters[n].stance
  <2> DEFINE by == {m \in hitting : fighters[m].foe = n}
             f == fighters[n]
  <2>1. f \in Fighter /\ first[n] \in Fighters
    BY DEF FightInv, FightTyped
  <2>2. Cardinality(by) \in Nat
    <3>1. IsFiniteSet(by)
      BY <1>3, FS_Subset
    <3> QED BY <3>1, FS_CardinalityType
  <2>3. f.health - FightCfg.harm * Cardinality(by) \in Int
    <3>1. FightCfg.harm * Cardinality(by) \in Int
      BY <2>2, FightAssumption
    <3> HIDE DEF by
    <3> QED BY <2>1, <3>1 DEF Fighter
  <2>4. [m \in Fighters |-> IF m \in by THEN instant ELSE f.hits[m]] \in [Fighters -> Nat]
    BY <2>1 DEF Fighter, FightInv, FightTyped
  <2>5. (IF f.foe = 0 /\ f.health > FightCfg.harm THEN first[n] ELSE f.foe) \in Fighters \cup {0}
    BY <2>1 DEF Fighter
  <2>6. fighters'[n] = Struck(n, by, first[n])
    BY <1>2
  <2>7. CASE by = {}
    BY <2>1, <2>6, <2>7 DEF Struck
  <2>8. CASE by # {}
    <3> DEFINE h == f.health - FightCfg.harm * Cardinality(by)
               hs == [m \in Fighters |-> IF m \in by THEN instant ELSE f.hits[m]]
               fo == IF f.foe = 0 /\ f.health > FightCfg.harm THEN first[n] ELSE f.foe
    <3>1. Struck(n, by, first[n]) = [f EXCEPT !.health = h, !.hits = hs, !.foe = fo]
      BY <2>8 DEF Struck
    <3> HIDE DEF h, hs, fo
    <3>2. h \in Int /\ hs \in [Fighters -> Nat] /\ fo \in Fighters \cup {0}
      BY <2>3, <2>4, <2>5 DEF h, hs, fo
    <3>3. \A e \in Fighter : /\ [e EXCEPT !.health = h, !.hits = hs, !.foe = fo] \in Fighter
                              /\ [e EXCEPT !.health = h, !.hits = hs, !.foe = fo].stance = e.stance
      BY <3>2 DEF Fighter
    <3> HIDE DEF by, Fighter
    <3> QED BY <2>1, <2>6, <3>1, <3>3, Zenon
  <2> QED BY <2>7, <2>8
<1>5. Living' = left
  BY <1>2 DEF Living
<1>6. instant' \in Nat /\ claims' = claims
  BY DEF Combat, FightInv, FightTyped
<1>7. fighters' \in [left -> Fighter]
  BY <1>2, <1>4
<1>8. FightTyped'
  BY <1>2, <1>3, <1>5, <1>6, <1>7 DEF FightTyped, FightInv
<1>9. ASSUME NEW c \in settled' PROVE Occupied(c[1])'
  <2>1. c \in settled /\ Occupied(c[1])
    BY <1>2 DEF FightInv
  <2>2. claims[c[1]] \in left => claims[c[1]] \in Living /\ fighters'[claims[c[1]]].stance = fighters[claims[c[1]]].stance
    BY <1>4
  <2> QED BY <1>5, <1>6, <2>1, <2>2 DEF Occupied, Holds, InCover
<1> QED BY <1>8, <1>9 DEF FightInv

LEMMA StirFightKeeps == FightInv /\ StirFight => FightInv'
<1> SUFFICES ASSUME FightInv, StirFight PROVE FightInv'
  OBVIOUS
<1>1. UNCHANGED <<instant, claims>>
  BY DEF StirFight
<1>2. \A n \in Living : fighters[n] \in Fighter
  BY DEF FightInv, FightTyped
<1>3. PICK c \in cues :
        /\ c.n \in Living
        /\ \/ \E t \in Living \cup {0} : fighters' = [fighters EXCEPT ![c.n].foe = t]
           \/ \E p \in Steps[fighters[c.n].where] : fighters' = [fighters EXCEPT ![c.n].where = p]
           \/ fighters' = fighters
        /\ settled' \subseteq settled
  <2>1. PICK c \in cues :
          /\ c.n \in Living
          /\ \/ /\ Live(c.t)
                /\ fighters' = [fighters EXCEPT ![c.n].foe = c.t]
                /\ UNCHANGED settled
             \/ /\ fighters' = [fighters EXCEPT ![c.n].foe = 0]
                /\ settled' = {k \in settled : k[2] # c.n}
             \/ /\ \E p \in Steps[fighters[c.n].where] : fighters' = [fighters EXCEPT ![c.n].where = p]
                /\ UNCHANGED settled
             \/ UNCHANGED <<fighters, settled>>
    BY DEF StirFight
  <2>2. Live(c.t) => c.t \in Living
    BY DEF Live
  <2> QED BY <2>1, <2>2
<1>4. /\ DOMAIN fighters' = Living
      /\ \A n \in Living : fighters'[n] \in Fighter /\ fighters'[n].stance = fighters[n].stance
  <2>0. Living \subseteq Fighters /\ fighters \in [Living -> Fighter] /\ fighters[c.n] \in Fighter
    BY <1>2, <1>3 DEF FightInv, FightTyped
  <2>1. ASSUME NEW t \in Living \cup {0}, fighters' = [fighters EXCEPT ![c.n].foe = t]
        PROVE  fighters'[c.n] \in Fighter /\ fighters'[c.n].stance = fighters[c.n].stance
    BY <1>3, <2>0, <2>1 DEF Fighter
  <2>2. ASSUME NEW p \in Steps[fighters[c.n].where], fighters' = [fighters EXCEPT ![c.n].where = p]
        PROVE  fighters'[c.n] \in Fighter /\ fighters'[c.n].stance = fighters[c.n].stance
    <3>1. p \in Grounds
      BY <2>0, FightAssumption DEF Fighter
    <3> QED BY <1>3, <2>0, <2>2, <3>1 DEF Fighter
  <2>3. DOMAIN fighters' = Living /\ \A n \in Living : n # c.n => fighters'[n] = fighters[n]
    BY <1>3, <2>0
  <2> QED BY <1>2, <1>3, <2>1, <2>2, <2>3
<1>5. FightTyped'
  <2>1. fighters' \in [Living -> Fighter]
    <3>1. fighters' = [n \in Living |-> fighters'[n]]
      BY <1>3, <1>4 DEF FightInv, FightTyped
    <3> QED BY <1>4, <3>1
  <2> QED BY <1>1, <1>3, <1>4, <2>1 DEF FightTyped, FightInv, Living
<1>6. \A k \in settled' : Occupied(k[1])'
  BY <1>1, <1>3, <1>4 DEF FightInv, Occupied, Holds, InCover, Living
<1> QED BY <1>5, <1>6 DEF FightInv

LEMMA FightInvHolds == FightSpec => []FightInv
<1>1. FightInv /\ [FightNext]_fightVars => FightInv'
  <2> SUFFICES ASSUME FightInv, [FightNext]_fightVars PROVE FightInv'
    OBVIOUS
  <2>1. CASE UNCHANGED fightVars
    BY <2>1 DEF fightVars, FightInv, FightTyped, Occupied, Holds, InCover, Living
  <2> QED BY <2>1, NpcTacticalKeeps, CombatKeeps, StirFightKeeps DEF FightNext
<1> QED BY <1>1, FightInitHolds, PTL DEF FightSpec

(* A step of the tactics puts nobody into a volume that another has held    *)
(* since the tick before, is still in and stays in.  Two may come to one    *)
(* volume in the same tick, and a claim may outlive who made it: nothing is *)
(* said of those.                                                           *)
THEOREM CoverAlwaysTakenTogether == FightSpec => CoverTakenTogether
<1>1. FightInv /\ [FightNext]_fightVars => [TakenTogether]_fightVars
  <2> SUFFICES ASSUME FightInv, FightNext PROVE TakenTogether \/ UNCHANGED fightVars
    OBVIOUS
  <2>1. CASE Combat
    BY <2>1 DEF Combat, TakenTogether
  <2>2. CASE StirFight
    BY <2>2 DEF StirFight, TakenTogether
  <2> QED BY <2>1, <2>2, NpcTacticalKeeps DEF FightNext
<1> QED BY <1>1, FightInvHolds, PTL DEF FightSpec, CoverTakenTogether

-----------------------------------------------------------------------------
(* What people know, and when their band last met whom they know.          *)

HitMap == UNION {[S -> [damage : Int, at : Int]] : S \in SUBSET Souls}
Mind == [x : Int, reg : {1, 2}, foe : Souls \cup {0}, seen : Int, hits : HitMap]

(* The tick up to which contacts are known. *)
Upto == IF step = "sensed" THEN beat ELSE beat - 1
Contacts(u) == {c \in [Bands -> [Souls -> Int]] : \A b \in Bands, m \in Souls : c[b][m] <= u}
Later(c, d) == \A b \in Bands, m \in Souls : c[b][m] <= d[b][m]

SenseTyped ==
  /\ beat \in Nat /\ step \in {"quiet", "sensed"}
  /\ Alive \subseteq Souls /\ minds \in [Alive -> Mind]
  /\ DOMAIN memory = SquadIds
  /\ contact \in Contacts(Upto)
  /\ \E s \in Nudges : nudges \subseteq s

(* A mind's enemy was seen, and its attackers hit, no later than its band  *)
(* met them; a board's threats hit no later than its squad met them, and   *)
(* whom it calls an enemy somebody met while the entry could be made.      *)
MindMet(m, n, c) ==
  /\ m.foe # 0 => m.seen <= c[Band(n)][m.foe]
  /\ \A k \in DOMAIN m.hits : m.hits[k].at <= c[Band(n)][k]
ThreatsMet(list, q, c) == \A t \in list : t.who \in Souls /\ t.last \in Int /\ t.last <= c[q][t.who]
EnemyMet(e, c) ==
  /\ e.value \in Souls /\ e.until \in Int
  /\ \E b \in Bands : e.until <= c[b][e.value] + SenseCfg.decay + 1
BoardMet(board, q, c) ==
  /\ Threats \in DOMAIN board => ThreatsMet(board[Threats].value, q, c)
  /\ Enemy \in DOMAIN board => EnemyMet(board[Enemy], c)
EventMet(e, u, c) == e.kind = "sighted" => e.who \in Souls /\ \E b \in Bands : u <= c[b][e.who]

SenseInv ==
  /\ SenseTyped
  /\ \A n \in Alive : MindMet(minds[n], n, contact)
  /\ \A q \in SquadIds : BoardMet(memory[q], q, contact)
  /\ \A e \in bus : EventMet(e, Upto, contact)
  /\ MindsFollowContact

(* A board in a tick's senses: its enemy was met within the time of decay. *)
Heeded(board, q, c) ==
  /\ Threats \in DOMAIN board => ThreatsMet(board[Threats].value, q, c)
  /\ Enemy \in DOMAIN board =>
        LET e == board[Enemy]
        IN /\ e.value \in Souls /\ e.until \in Int
           /\ \E b \in Bands : e.until <= c[b][e.value] + SenseCfg.decay + 1 /\ beat <= c[b][e.value] + SenseCfg.decay

LEMMA BandType == ASSUME NEW n \in Souls PROVE Band(n) \in Bands /\ (SoulSquad[n] # 0 => Band(n) = SoulSquad[n])
  BY DEF Bands, Band

LEMMA MindHits ==
  ASSUME NEW m \in Mind, NEW h \in HitMap
  PROVE  /\ [m EXCEPT !.hits = h] \in Mind
         /\ [m EXCEPT !.hits = h].foe = m.foe
         /\ [m EXCEPT !.hits = h].seen = m.seen
         /\ [m EXCEPT !.hits = h].hits = h
  BY DEF Mind

LEMMA SquadIsBand == SquadIds \subseteq Bands
  BY DEF SquadIds, Bands, Band

(* What was met stays met. *)
LEMMA MindMetLater ==
  ASSUME NEW u \in Int, NEW w \in Int, NEW c \in Contacts(u), NEW d \in Contacts(w), Later(c, d),
         NEW n \in Souls, NEW m \in Mind, MindMet(m, n, c)
  PROVE  MindMet(m, n, d)
<1>1. Band(n) \in Bands
  BY BandType
<1>2. m.foe \in Souls \cup {0} /\ m.seen \in Int /\ DOMAIN m.hits \subseteq Souls /\ \A k \in DOMAIN m.hits : m.hits[k].at \in Int
  BY DEF Mind, HitMap
<1>3. \A k \in Souls : c[Band(n)][k] \in Int /\ d[Band(n)][k] \in Int /\ c[Band(n)][k] <= d[Band(n)][k]
  BY <1>1 DEF Contacts, Later
<1>4. m.foe # 0 => m.seen <= d[Band(n)][m.foe]
  BY <1>2, <1>3 DEF MindMet
<1>5. ASSUME NEW k \in DOMAIN m.hits PROVE m.hits[k].at <= d[Band(n)][k]
  BY <1>2, <1>3 DEF MindMet
<1> QED BY <1>4, <1>5 DEF MindMet

LEMMA ThreatsMetLater ==
  ASSUME NEW u \in Int, NEW w \in Int, NEW c \in Contacts(u), NEW d \in Contacts(w), Later(c, d),
         NEW q \in SquadIds, NEW list, ThreatsMet(list, q, c)
  PROVE  ThreatsMet(list, q, d)
<1>1. \A m \in Souls : c[q][m] \in Int /\ d[q][m] \in Int /\ c[q][m] <= d[q][m]
  BY SquadIsBand DEF Contacts, Later
<1> QED BY <1>1 DEF ThreatsMet

LEMMA BoardMetLater ==
  ASSUME NEW u \in Int, NEW w \in Int, NEW c \in Contacts(u), NEW d \in Contacts(w), Later(c, d),
         NEW q \in SquadIds, NEW board, BoardMet(board, q, c)
  PROVE  BoardMet(board, q, d)
<1>1. ASSUME Enemy \in DOMAIN board PROVE EnemyMet(board[Enemy], d)
  <2>1. PICK b \in Bands : board[Enemy].until <= c[b][board[Enemy].value] + SenseCfg.decay + 1
    BY <1>1 DEF BoardMet, EnemyMet
  <2>2. board[Enemy].value \in Souls /\ board[Enemy].until \in Int
    BY <1>1 DEF BoardMet, EnemyMet
  <2>3. c[b][board[Enemy].value] \in Int /\ d[b][board[Enemy].value] \in Int /\ c[b][board[Enemy].value] <= d[b][board[Enemy].value]
    BY <2>2 DEF Contacts, Later
  <2>4. SenseCfg.decay \in Nat
    BY SenseAssumption
  <2>5. board[Enemy].until <= d[b][board[Enemy].value] + SenseCfg.decay + 1
    BY <2>1, <2>2, <2>3, <2>4
  <2> QED BY <2>2, <2>5 DEF EnemyMet
<1> QED BY <1>1, ThreatsMetLater DEF BoardMet

LEMMA EventMetLater ==
  ASSUME NEW u \in Int, NEW w \in Int, NEW c \in Contacts(u), NEW d \in Contacts(w), Later(c, d),
         NEW t \in Int, NEW e, EventMet(e, t, c)
  PROVE  EventMet(e, t, d)
<1> SUFFICES ASSUME e.kind = "sighted" PROVE e.who \in Souls /\ \E b \in Bands : t <= d[b][e.who]
  BY DEF EventMet
<1>1. e.who \in Souls
  BY DEF EventMet
<1>2. PICK b \in Bands : t <= c[b][e.who]
  BY DEF EventMet
<1>3. c[b][e.who] \in Int /\ d[b][e.who] \in Int /\ c[b][e.who] <= d[b][e.who]
  BY <1>1 DEF Contacts, Later
<1>4. t <= d[b][e.who]
  BY <1>2, <1>3
<1> QED BY <1>1, <1>4

----------------------------------------------------------------------------
(* Boards.                                                                 *)

LEMMA KeysDiffer == Enemy # Threats /\ \A k \in {"fire", "shot", "down"} : \A n : EntryKey(k, n) \notin {Enemy, Threats}
  BY DEF Enemy, Threats, EntryKey

LEMMA OneOfEachIs ==
  ASSUME NEW offers, NEW f \in OneOfEach(offers)
  PROVE  DOMAIN f = DOMAIN offers /\ \A k \in DOMAIN offers : f[k] \in offers[k]
<1> DEFINE given == {k \in DOMAIN offers : \E v \in offers[k] : offers[k] = {v}}
           open == DOMAIN offers \ given
<1>1. PICK g \in [open -> UNION {offers[k] : k \in open}] :
        /\ \A k \in open : g[k] \in offers[k]
        /\ f = [k \in DOMAIN offers |-> IF k \in given THEN CHOOSE v \in offers[k] : TRUE ELSE g[k]]
  BY Zenon DEF OneOfEach
<1>2. ASSUME NEW k \in DOMAIN offers PROVE f[k] \in offers[k]
  <2>1. CASE k \in given
    <3>1. f[k] = CHOOSE v \in offers[k] : TRUE
      BY <1>1, <2>1
    <3>2. \E v \in offers[k] : TRUE
      BY <2>1
    <3> QED BY <3>1, <3>2
  <2>2. CASE k \notin given
    BY <1>1, <2>2
  <2> QED BY <2>1, <2>2
<1> QED BY <1>1, <1>2

(* What a squad hears keeps its board heeded. *)
LEMMA ReportedHeeded ==
  ASSUME SenseInv, step = "quiet", NEW q \in SquadIds, NEW news, news \subseteq bus,
         NEW board \in Reported(Swept(memory[q]), news, q)
  PROVE  Heeded(board, q, contact)
<1> DEFINE told == {e \in news : Heard(e, q)}
           shots == {e \in told : e.kind = "shot"}
           sighted == {d \in told : d.kind = "sighted"}
           ids == {e.who : e \in sighted}
           fallen == {EntryKey("down", e.who) : e \in {d \in told : d.kind = "down"}}
           old == Swept(memory[q])
           WithFalls == [k \in DOMAIN old \cup fallen |-> IF k \in fallen THEN Entry(0, SenseCfg.decay) ELSE old[k]]
           near == {Dist(Centroid(q), e.x) : e \in shots}
           WithShots == IF shots = {} THEN {WithFalls}
                        ELSE {Write(WithFalls, EntryKey("shot", 0), 0, Max({1, (SenseCfg.shot * (25 - d)) \div 25})) : d \in near}
<1>1. PICK base \in WithShots : board = base \/ \E t \in ids : board = Write(base, Enemy, t, SenseCfg.hearsay)
  <2>1. Reported(old, news, q) =
          UNION {IF ids \subseteq {IF Enemy \in DOMAIN b THEN b[Enemy].value ELSE 0} THEN {b}
                 ELSE {Write(b, Enemy, t, SenseCfg.hearsay) : t \in ids} : b \in WithShots}
    BY Zenon DEF Reported
  <2> HIDE DEF WithShots, ids
  <2> QED BY <2>1
<1>2. \A key \in {Enemy, Threats} :
        (key \in DOMAIN WithFalls <=> key \in DOMAIN old) /\ (key \in DOMAIN old => WithFalls[key] = old[key])
  <2>1. \A key \in {Enemy, Threats} : key \notin fallen
    BY KeysDiffer
  <2> HIDE DEF fallen, old
  <2> QED BY <2>1
<1>3. \A key \in {Enemy, Threats} :
        (key \in DOMAIN base <=> key \in DOMAIN old) /\ (key \in DOMAIN old => base[key] = old[key])
  <2> HIDE DEF WithFalls, old, near, shots
  <2>1. CASE base = WithFalls
    BY <1>2, <2>1
  <2>2. ASSUME NEW ttl, base = Write(WithFalls, EntryKey("shot", 0), 0, ttl)
        PROVE  \A key \in {Enemy, Threats} : (key \in DOMAIN base <=> key \in DOMAIN WithFalls)
                                             /\ (key \in DOMAIN WithFalls => base[key] = WithFalls[key])
    BY <2>2, KeysDiffer DEF Write, SetKey
  <2> QED BY <1>2, <2>1, <2>2
<1>4. \A key \in DOMAIN old : key \in DOMAIN memory[q] /\ old[key] = memory[q][key] /\ beat < memory[q][key].until
  BY DEF Swept, Restrict
<1>5. /\ beat \in Nat /\ contact \in Contacts(beat - 1) /\ BoardMet(memory[q], q, contact)
      /\ SenseCfg.decay \in Nat /\ SenseCfg.hearsay \in Nat /\ SenseCfg.hearsay <= SenseCfg.decay /\ SenseCfg.decay # 0
  BY SenseAssumption DEF SenseInv, SenseTyped, Upto
<1> HIDE DEF WithShots, old
<1>6. Heeded(base, q, contact)
  <2>1. Threats \in DOMAIN base => ThreatsMet(base[Threats].value, q, contact)
    BY <1>3, <1>4, <1>5 DEF BoardMet
  <2>2. ASSUME Enemy \in DOMAIN base
        PROVE  /\ base[Enemy].value \in Souls /\ base[Enemy].until \in Int
               /\ \E b \in Bands : base[Enemy].until <= contact[b][base[Enemy].value] + SenseCfg.decay + 1
                                   /\ beat <= contact[b][base[Enemy].value] + SenseCfg.decay
    <3>1. base[Enemy] = memory[q][Enemy] /\ Enemy \in DOMAIN memory[q] /\ beat < memory[q][Enemy].until
      BY <1>3, <1>4, <2>2
    <3>2. EnemyMet(base[Enemy], contact)
      BY <1>5, <3>1 DEF BoardMet
    <3>3. PICK b \in Bands : base[Enemy].until <= contact[b][base[Enemy].value] + SenseCfg.decay + 1
      BY <3>2 DEF EnemyMet
    <3>4. base[Enemy].value \in Souls /\ base[Enemy].until \in Int /\ contact[b][base[Enemy].value] \in Int
      BY <1>5, <3>2 DEF EnemyMet, Contacts
    <3>5. beat <= contact[b][base[Enemy].value] + SenseCfg.decay
      BY <1>5, <3>1, <3>3, <3>4
    <3> QED BY <3>3, <3>4, <3>5
  <2> QED BY <2>1, <2>2 DEF Heeded
<1>7. ASSUME NEW t \in ids, board = Write(base, Enemy, t, SenseCfg.hearsay)
      PROVE  Heeded(board, q, contact)
  <2>1. PICK e \in bus : e.kind = "sighted" /\ t = e.who
    OBVIOUS
  <2>2. EventMet(e, beat - 1, contact)
    BY DEF SenseInv, Upto
  <2>3. PICK b \in Bands : beat - 1 <= contact[b][t]
    BY <2>1, <2>2 DEF EventMet
  <2>4. t \in Souls /\ contact[b][t] \in Int
    BY <1>5, <2>1, <2>2 DEF EventMet, Contacts
  <2>5. Enemy \in DOMAIN board /\ board[Enemy].value = t /\ board[Enemy].until = beat + SenseCfg.hearsay
    BY <1>7 DEF Entry, Write, SetKey
  <2>6. board[Enemy].until \in Int /\ board[Enemy].until <= contact[b][t] + SenseCfg.decay + 1
        /\ beat <= contact[b][t] + SenseCfg.decay
    BY <1>5, <2>3, <2>4, <2>5
  <2>7. Threats \in DOMAIN board => Threats \in DOMAIN base /\ board[Threats] = base[Threats]
    BY <1>7, KeysDiffer DEF Write, SetKey
  <2> QED BY <1>6, <2>4, <2>5, <2>6, <2>7 DEF Heeded
<1> QED BY <1>1, <1>6, <1>7

(* A set of numbers with an upper bound has a greatest. *)
LEMMA GreatestIn ==
  ASSUME NEW S \in SUBSET Int, S # {}, NEW u \in Int, \A x \in S : x <= u
  PROVE  Max(S) \in S
<1> DEFINE T == {n \in Nat : \E x \in S : n = u - x}
<1>1. PICK y \in S : u - y \in Nat
  <2>1. PICK y \in S : TRUE
    OBVIOUS
  <2> QED BY <2>1
<1>2. T # {}
  BY <1>1
<1>3. PICK n \in T : \A m \in T : n <= m
  BY <1>2, LeastNumber
<1>4. PICK x \in S : n = u - x
  BY <1>3
<1>5. ASSUME NEW z \in S PROVE x >= z
  <2>1. u - z \in T
    OBVIOUS
  <2> QED BY <1>3, <1>4, <2>1
<1> QED BY <1>5, Zenon DEF Max

(* A squad is told of threats its members were hit by. *)
LEMMA WithThreatsHeeded ==
  ASSUME SenseInv, NEW q \in SquadIds, NEW board, Heeded(board, q, contact)
  PROVE  Heeded(WithThreats(board, q), q, contact)
<1> DEFINE hitters == UNION {DOMAIN Recent(n) : n \in {k \in SquadMembers(q) : minds[k].reg = 1}}
           found == {Threat(q, m) : m \in hitters}
<1>1. WithThreats(board, q) = IF found = {} THEN board ELSE Write(board, Threats, found, SenseCfg.board)
  BY Zenon DEF WithThreats
<1>2. ASSUME NEW m \in hitters
      PROVE  Threat(q, m).who \in Souls /\ Threat(q, m).last \in Int /\ Threat(q, m).last <= contact[q][Threat(q, m).who]
  <2> DEFINE by == {n \in SquadMembers(q) : minds[n].reg = 1 /\ m \in DOMAIN Recent(n)}
             S == {minds[n].hits[m].at : n \in by}
  <2>1. Threat(q, m).who = m /\ Threat(q, m).last = Max(S)
    BY Zenon DEF Threat
  <2>2. by # {}
    BY <1>2
  <2>3. ASSUME NEW n \in by
        PROVE  m \in Souls /\ minds[n].hits[m].at \in Int /\ minds[n].hits[m].at <= contact[q][m]
    <3>1. n \in Alive /\ n \in Souls /\ SoulSquad[n] = q /\ m \in DOMAIN minds[n].hits
      BY DEF SquadMembers, Recent, Restrict, SenseInv, SenseTyped
    <3>2. Band(n) = q
      BY <3>1, BandType DEF SquadIds
    <3>3. minds[n] \in Mind /\ MindMet(minds[n], n, contact)
      BY <3>1 DEF SenseInv, SenseTyped
    <3>4. minds[n].hits \in HitMap
      BY <3>3 DEF Mind
    <3> HIDE DEF by
    <3> QED BY <3>1, <3>2, <3>3, <3>4 DEF MindMet, HitMap
  <2>4. m \in Souls /\ contact[q][m] \in Int
    <3>1. m \in Souls
      BY <2>2, <2>3
    <3> QED BY <3>1, SquadIsBand DEF SenseInv, SenseTyped, Contacts
  <2>5. S \in SUBSET Int /\ S # {} /\ \A x \in S : x <= contact[q][m]
    <3> HIDE DEF by
    <3> QED BY <2>2, <2>3
  <2>6. Max(S) \in S
    <3> HIDE DEF S
    <3> QED BY <2>4, <2>5, GreatestIn
  <2> HIDE DEF S
  <2> QED BY <2>1, <2>4, <2>5, <2>6
<1> HIDE DEF hitters
<1>3. ThreatsMet(found, q, contact)
  BY <1>2 DEF ThreatsMet
<1> HIDE DEF found
<1>4. CASE WithThreats(board, q) = Write(board, Threats, found, SenseCfg.board)
  <2> DEFINE new == WithThreats(board, q)
  <2>1. /\ Threats \in DOMAIN new /\ new[Threats].value = found
        /\ Enemy \in DOMAIN new => Enemy \in DOMAIN board /\ new[Enemy] = board[Enemy]
    BY <1>4, KeysDiffer DEF Entry, Write, SetKey
  <2> HIDE DEF new
  <2>2. Heeded(new, q, contact)
    BY <1>3, <2>1 DEF Heeded
  <2> QED BY <2>2 DEF new
<1> QED BY <1>1, <1>4

----------------------------------------------------------------------------
(* The steps.                                                              *)

LEMMA SenseInitHolds == SenseInit => SenseInv
<1> SUFFICES ASSUME SenseInit PROVE SenseInv
  OBVIOUS
<1>1. Empty \in HitMap /\ DOMAIN Empty = {}
  <2>1. Empty \in [{} -> [damage : Int, at : Int]] /\ DOMAIN Empty = {}
    BY EmptySeq DEF Empty
  <2> QED BY <2>1 DEF HitMap
<1>2. \A n \in Souls : minds[n] \in Mind /\ minds[n].foe = 0 /\ minds[n].hits = Empty
  BY <1>1, SenseAssumption DEF SenseInit, Mind
<1>3. contact \in Contacts(0)
  BY DEF SenseInit, Contacts
<1>4. SenseTyped
  BY <1>2, <1>3 DEF SenseInit, SenseTyped, Alive, Upto
<1>5. \A n \in Alive : MindMet(minds[n], n, contact)
  BY <1>1, <1>2 DEF SenseInit, MindMet, Alive
<1>6. \A q \in SquadIds : BoardMet(memory[q], q, contact)
  BY <1>1 DEF SenseInit, BoardMet
<1> QED BY <1>4, <1>5, <1>6 DEF SenseInit, SenseInv, MindsFollowContact

LEMMA SenseKeeps == SenseInv /\ Sense => SenseInv'
<1> SUFFICES ASSUME SenseInv, Sense PROVE SenseInv'
  OBVIOUS
<1>1. PICK heard \in Boards, sees \in SUBSET Visible :
        \E target \in OneOfEach([n \in Alive |-> OrNone(TargetsOf(n, sees))]),
           enemy \in OneOfEach([q \in SquadIds |-> OrNone(SeenBy(q, sees))]) :
              NpcAggro([q \in SquadIds |-> WithThreats(heard[q], q)], sees, target, enemy)
  BY Zenon DEF Sense
<1>2. PICK target \in OneOfEach([n \in Alive |-> OrNone(TargetsOf(n, sees))]),
           enemy \in OneOfEach([q \in SquadIds |-> OrNone(SeenBy(q, sees))]) :
              NpcAggro([q \in SquadIds |-> WithThreats(heard[q], q)], sees, target, enemy)
  BY <1>1, Zenon
<1> DEFINE heeding == [q \in SquadIds |-> WithThreats(heard[q], q)]
           d == contact'
<1>3. /\ step = "quiet" /\ step' = "sensed" /\ beat' = beat /\ nudges' = nudges
      /\ contact' = [b \in Bands |-> [m \in Souls |->
            IF \E n \in Snapshot : Band(n) = b /\ m \in Snapshot /\ InSight(n, m) THEN beat ELSE contact[b][m]]]
  BY DEF Sense
<1>4. beat \in Nat /\ beat - 1 \in Int /\ contact \in Contacts(beat - 1) /\ minds \in [Alive -> Mind] /\ Alive \subseteq Souls
  BY <1>3 DEF SenseInv, SenseTyped, Upto
<1>5. d \in Contacts(beat) /\ Later(contact, d)
  BY <1>3, <1>4 DEF Contacts, Later
<1>6. ASSUME NEW n \in Snapshot, NEW m \in Snapshot, InSight(n, m) PROVE m \in Souls /\ d[Band(n)][m] = beat
  <2>1. n \in Souls /\ m \in Souls
    BY <1>4 DEF Snapshot
  <2> QED BY <1>3, <1>6, <2>1, BandType
<1>7. \A p \in Acquired(sees) : p[1] \in Snapshot /\ p[2] \in Snapshot /\ p[2] \in Souls /\ p[1] \in Souls /\ d[Band(p[1])][p[2]] = beat
  <2> TAKE p \in Acquired(sees)
  <2>1. p[1] \in Snapshot /\ p[2] \in Snapshot /\ InSight(p[1], p[2])
    BY <1>1 DEF Acquired, Visible
  <2> QED BY <1>4, <1>6, <2>1 DEF Snapshot
<1>8. ASSUME NEW n \in Alive
      PROVE  /\ minds'[n] \in Mind /\ MindMet(minds'[n], n, d)
             /\ minds'[n].foe # 0 => beat - d[Band(n)][minds'[n].foe] <= SenseCfg.decay
  <2> DEFINE r == Refreshed(n)
             hs == IF minds[n].reg = 1 THEN Recent(n) ELSE r.hits
             t == target[n]
  <2>1. minds'[n] = IF t = 0 THEN [r EXCEPT !.hits = hs] ELSE [[r EXCEPT !.hits = hs] EXCEPT !.foe = t, !.seen = beat]
    BY <1>2 DEF NpcAggro
  <2>2. minds[n] \in Mind /\ MindMet(minds[n], n, contact) /\ n \in Souls /\ SenseCfg.decay \in Nat
    BY <1>4, SenseAssumption DEF SenseInv
  <2>3. MindMet(minds[n], n, d) /\ beat \in Int
    BY <1>4, <1>5, <2>2, MindMetLater
  <2>4. r.hits = minds[n].hits /\ r \in Mind
    <3>1. r \in {minds[n], [minds[n] EXCEPT !.foe = 0, !.seen = 0], [minds[n] EXCEPT !.seen = beat]}
      BY DEF Refreshed
    <3>2. 0 \in Int /\ 0 \in Souls \cup {0}
      OBVIOUS
    <3>3. CASE r = [minds[n] EXCEPT !.foe = 0, !.seen = 0]
      <4> HIDE DEF r
      <4> QED BY <2>2, <3>2, <3>3 DEF Mind
    <3>4. CASE r = [minds[n] EXCEPT !.seen = beat]
      <4> HIDE DEF r
      <4> QED BY <2>2, <2>3, <3>4 DEF Mind
    <3> QED BY <2>2, <3>1, <3>3, <3>4
  <2>5. hs \in HitMap /\ \A k \in DOMAIN hs : hs[k].at <= d[Band(n)][k]
    <3>1. CASE hs = r.hits
      BY <2>3, <2>4, <3>1 DEF MindMet, Mind
    <3>2. CASE hs = Recent(n)
      <4>1. PICK S \in SUBSET Souls : minds[n].hits \in [S -> [damage : Int, at : Int]]
        BY <2>2 DEF Mind, HitMap
      <4>2. \A k \in DOMAIN hs : k \in S /\ hs[k] = minds[n].hits[k]
        BY <3>2, <4>1 DEF Recent, Restrict
      <4>3. hs \in [DOMAIN hs -> [damage : Int, at : Int]] /\ DOMAIN hs \in SUBSET Souls
        BY <3>2, <4>1, <4>2 DEF Recent, Restrict
      <4>4. hs \in HitMap
        <5> HIDE DEF hs
        <5> QED BY <4>3 DEF HitMap
      <4> QED BY <2>3, <4>1, <4>2, <4>4 DEF MindMet
    <3> QED BY <3>1, <3>2
  <2>6. CASE t # 0
    <3>1. t \in OrNone(TargetsOf(n, sees))
      BY <1>2, OneOfEachIs
    <3>2. t \in TargetsOf(n, sees)
      BY <2>6, <3>1 DEF OrNone
    <3>3. PICK p \in Acquired(sees) : /\ t = p[2]
                                      /\ p[1] = n \/ (SoulSquad[n] # 0 /\ SoulSquad[p[1]] = SoulSquad[n])
      BY <3>2 DEF TargetsOf
    <3>4. Band(p[1]) = Band(n)
      BY <3>3 DEF Band
    <3>5. t \in Souls /\ d[Band(n)][t] = beat
      BY <1>7, <3>3, <3>4
    <3>6. minds'[n] \in Mind /\ minds'[n].foe = t /\ minds'[n].seen = beat /\ minds'[n].hits = hs
      <4> HIDE DEF hs, t, r
      <4> DEFINE h == [r EXCEPT !.hits = hs]
      <4>1. h \in Mind /\ h.hits = hs
        <5> HIDE DEF r, hs
        <5> QED BY <2>4, <2>5, MindHits DEF h
      <4>2. minds'[n] = [h EXCEPT !.foe = t, !.seen = beat]
        BY <2>1, <2>6
      <4>3. t \in Souls \cup {0}
        BY <3>5
      <4> HIDE DEF h, hs, t, r
      <4>4. [h EXCEPT !.foe = t, !.seen = beat] \in Mind /\ [h EXCEPT !.foe = t, !.seen = beat].foe = t
            /\ [h EXCEPT !.foe = t, !.seen = beat].seen = beat /\ [h EXCEPT !.foe = t, !.seen = beat].hits = h.hits
        BY <2>3, <4>1, <4>3 DEF Mind
      <4> QED BY <4>1, <4>2, <4>4
    <3> HIDE DEF hs, t, r
    <3> QED BY <1>4, <2>2, <2>5, <3>5, <3>6 DEF MindMet
  <2>7. CASE t = 0
    <3>1. minds'[n] \in Mind /\ minds'[n].foe = r.foe /\ minds'[n].seen = r.seen /\ minds'[n].hits = hs
      <4> HIDE DEF hs, t, r
      <4> QED BY <2>1, <2>4, <2>5, <2>7 DEF Mind
    <3>2. r.foe # 0 => r.seen <= d[Band(n)][r.foe] /\ beat - d[Band(n)][r.foe] <= SenseCfg.decay
      <4> SUFFICES ASSUME r.foe # 0 PROVE r.seen <= d[Band(n)][r.foe] /\ beat - d[Band(n)][r.foe] <= SenseCfg.decay
        OBVIOUS
      <4>1. minds[n].foe # 0 /\ ~Lost(n) /\ r.foe = minds[n].foe
        BY <2>2 DEF Refreshed, Mind
      <4>2. r.foe \in Souls /\ d[Band(n)][r.foe] \in Int /\ minds[n].seen \in Int
        BY <1>5, <2>2, <4>1, BandType DEF Mind, Contacts
      <4>3. CASE minds[n].foe \in Snapshot /\ InSight(n, minds[n].foe)
        <5>1. n \in Snapshot
          BY <4>1 DEF Snapshot
        <5>2. d[Band(n)][r.foe] = beat
          BY <1>6, <4>1, <4>3, <5>1
        <5>3. r.seen = beat
          BY <2>2, <4>1, <4>3 DEF Refreshed, Mind
        <5> QED BY <1>4, <2>2, <5>2, <5>3
      <4>4. CASE ~(minds[n].foe \in Snapshot /\ InSight(n, minds[n].foe))
        <5>1. r.seen = minds[n].seen
          BY <4>1, <4>4 DEF Refreshed
        <5>2. ~(beat - minds[n].seen > SenseCfg.decay)
          BY <4>1, <4>4 DEF Lost
        <5>3. minds[n].seen <= d[Band(n)][r.foe]
          BY <2>3, <4>1 DEF MindMet
        <5> HIDE DEF r
        <5> QED BY <1>4, <2>2, <4>2, <5>1, <5>2, <5>3
      <4> QED BY <4>3, <4>4
    <3> HIDE DEF hs, t, r
    <3> QED BY <2>5, <3>1, <3>2 DEF MindMet
  <2> QED BY <2>6, <2>7
<1>9. Alive' = Alive /\ minds' \in [Alive -> Mind]
  BY <1>2, <1>8 DEF NpcAggro, Alive
<1>10. ASSUME NEW q \in SquadIds
       PROVE  /\ BoardMet(memory'[q], q, d)
              /\ Enemy \in DOMAIN memory'[q] =>
                    \E b \in Bands : beat - d[b][memory'[q][Enemy].value] <= SenseCfg.decay
  <2>1. heard[q] \in Reported(Swept(memory[q]), {e \in bus : ActiveEvent(e)}, q)
    <3> DEFINE offers == [g \in SquadIds |-> Reported(Swept(memory[g]), {e \in bus : ActiveEvent(e)}, g)]
    <3>1. heard \in OneOfEach(offers) /\ q \in DOMAIN offers
      BY <1>1 DEF Boards
    <3>2. heard[q] \in offers[q]
      <4> HIDE DEF offers
      <4> QED BY <3>1, OneOfEachIs
    <3> QED BY <3>2
  <2>2. Heeded(heeding[q], q, contact)
    BY <1>3, <2>1, ReportedHeeded, WithThreatsHeeded
  <2>3. SenseCfg.decay \in Nat /\ q \in Bands
    BY SenseAssumption, SquadIsBand
  <2>4. Heeded(heeding[q], q, d)
    <3>1. Threats \in DOMAIN heeding[q] => ThreatsMet(heeding[q][Threats].value, q, d)
      BY <1>4, <1>5, <2>2, ThreatsMetLater DEF Heeded
    <3>2. ASSUME Enemy \in DOMAIN heeding[q]
          PROVE  LET e == heeding[q][Enemy]
                 IN /\ e.value \in Souls /\ e.until \in Int
                    /\ \E b \in Bands : e.until <= d[b][e.value] + SenseCfg.decay + 1 /\ beat <= d[b][e.value] + SenseCfg.decay
      <4> DEFINE e == heeding[q][Enemy]
      <4>1. PICK b \in Bands : e.until <= contact[b][e.value] + SenseCfg.decay + 1 /\ beat <= contact[b][e.value] + SenseCfg.decay
        BY <2>2, <3>2 DEF Heeded
      <4>2. e.value \in Souls /\ e.until \in Int
        BY <2>2, <3>2 DEF Heeded
      <4>3. contact[b][e.value] \in Int /\ d[b][e.value] \in Int /\ contact[b][e.value] <= d[b][e.value]
        BY <1>4, <1>5, <4>2 DEF Contacts, Later
      <4> HIDE DEF e
      <4>4. e.until <= d[b][e.value] + SenseCfg.decay + 1 /\ beat <= d[b][e.value] + SenseCfg.decay
        BY <1>4, <2>3, <4>1, <4>2, <4>3
      <4> QED BY <4>2, <4>4 DEF e
    <3> HIDE DEF heeding
    <3> QED BY <3>1, <3>2 DEF Heeded
  <2>5. memory'[q] = IF enemy[q] = 0 THEN heeding[q] ELSE Write(heeding[q], Enemy, enemy[q], SenseCfg.decay)
    BY <1>2 DEF NpcAggro
  <2> HIDE DEF heeding
  <2>6. CASE enemy[q] = 0
    <3>1. memory'[q] = heeding[q]
      BY <2>5, <2>6
    <3>2. ASSUME Enemy \in DOMAIN heeding[q] PROVE \E b \in Bands : beat - d[b][heeding[q][Enemy].value] <= SenseCfg.decay
      <4>1. heeding[q][Enemy].value \in Souls
        BY <2>4, <3>2 DEF Heeded
      <4>2. PICK b \in Bands : beat <= d[b][heeding[q][Enemy].value] + SenseCfg.decay
        BY <2>4, <3>2 DEF Heeded
      <4>3. d[b][heeding[q][Enemy].value] \in Int
        BY <1>5, <4>1 DEF Contacts
      <4> QED BY <1>4, <2>3, <4>2, <4>3
    <3> QED BY <2>4, <3>1, <3>2 DEF Heeded, BoardMet, EnemyMet
  <2>7. CASE enemy[q] # 0
    <3>1. enemy[q] \in SeenBy(q, sees)
      BY <1>2, <2>7, OneOfEachIs DEF OrNone
    <3>2. PICK p \in Acquired(sees) : enemy[q] = p[2] /\ SoulSquad[p[1]] = q
      BY <3>1 DEF SeenBy
    <3>3. Band(p[1]) = q
      BY <1>7, <3>2, BandType DEF SquadIds
    <3>4. enemy[q] \in Souls /\ d[q][enemy[q]] = beat
      BY <1>7, <3>2, <3>3
    <3>5. memory'[q] = Write(heeding[q], Enemy, enemy[q], SenseCfg.decay)
      BY <2>5, <2>7
    <3>6. /\ memory'[q][Enemy].value = enemy[q] /\ memory'[q][Enemy].until = beat + SenseCfg.decay
          /\ Threats \in DOMAIN memory'[q] => Threats \in DOMAIN heeding[q] /\ memory'[q][Threats] = heeding[q][Threats]
      BY <3>5, KeysDiffer DEF Entry, Write, SetKey
    <3>7. beat + SenseCfg.decay \in Int /\ beat + SenseCfg.decay <= d[q][enemy[q]] + SenseCfg.decay + 1
          /\ beat - d[q][enemy[q]] <= SenseCfg.decay
      BY <1>4, <2>3, <3>4
    <3> QED BY <2>3, <2>4, <3>4, <3>6, <3>7 DEF Heeded, BoardMet, EnemyMet
  <2> QED BY <2>6, <2>7
<1>11. ASSUME NEW e \in bus' PROVE EventMet(e, beat, d)
  <2>1. PICK p \in Acquired(sees) : e = Sighting(p)
    BY <1>2 DEF NpcAggro
  <2>2. e.who = p[2] /\ p[2] \in Souls /\ d[Band(p[1])][p[2]] = beat /\ Band(p[1]) \in Bands
    BY <1>7, <2>1, BandType DEF Sighting
  <2> QED BY <1>4, <2>2 DEF EventMet
<1>12. SenseTyped'
  <2>1. DOMAIN memory' = SquadIds
    BY <1>2 DEF NpcAggro
  <2>2. \E s \in Nudges : nudges' \subseteq s
    BY <1>3 DEF SenseInv, SenseTyped
  <2> QED BY <1>3, <1>4, <1>5, <1>9, <2>1, <2>2 DEF SenseTyped, Upto
<1>13. MindsFollowContact'
  BY <1>3, <1>8, <1>9, <1>10 DEF MindsFollowContact
<1>14. \A e \in bus' : EventMet(e, Upto', contact')
  BY <1>3, <1>11 DEF Upto
<1> QED BY <1>8, <1>9, <1>10, <1>12, <1>13, <1>14 DEF SenseInv

(* The threat a squad turns to hit one of it no later than the squad knows.*)
LEMMA PrioritiseKeeps == SenseInv /\ Prioritise => SenseInv'
<1> SUFFICES ASSUME SenseInv, Prioritise PROVE SenseInv'
  OBVIOUS
<1>1. /\ minds' = [n \in Alive |-> Prioritised(n)] /\ step = "sensed" /\ step' = "quiet" /\ beat' = beat + 1
      /\ UNCHANGED <<memory, bus, contact, nudges, nudged>>
  BY DEF Prioritise
<1>2. beat \in Nat /\ Upto' = Upto /\ Alive' = Alive /\ Alive \subseteq Souls
  BY <1>1 DEF SenseInv, SenseTyped, Upto, Alive
<1>3. ASSUME NEW n \in Alive PROVE Prioritised(n) \in Mind /\ MindMet(Prioritised(n), n, contact)
  <2>1. minds[n] \in Mind /\ MindMet(minds[n], n, contact) /\ n \in Souls
    BY <1>2 DEF SenseInv, SenseTyped
  <2> DEFINE board == IF SoulSquad[n] = 0 THEN Empty ELSE memory[SoulSquad[n]]
             list == IF Threats \in DOMAIN board THEN board[Threats].value ELSE {}
             worst == {t \in list : /\ \A u \in list : ~Before(u, t)
                                    /\ minds[n].foe # 0 /\ t.who # minds[n].foe
                                    /\ Dominates(t.score, ScoreOf(list, minds[n].foe))}
             top == CHOOSE t \in worst : TRUE
  <2>2. Prioritised(n) = IF worst = {} THEN minds[n] ELSE SwitchTo(minds[n], top)
    BY Zenon DEF Prioritised
  <2>3. CASE worst # {}
    <3>1. top \in list
      BY <2>3
    <3>2. SoulSquad[n] # 0 /\ Threats \in DOMAIN memory[SoulSquad[n]] /\ list = memory[SoulSquad[n]][Threats].value
      <4>1. DOMAIN Empty = {}
        BY EmptySeq DEF Empty
      <4> QED BY <2>3, <4>1
    <3>3. SoulSquad[n] \in SquadIds /\ Band(n) = SoulSquad[n]
      BY <2>1, <3>2, BandType DEF SquadIds
    <3>4. top.who \in Souls /\ top.last \in Int /\ top.last <= contact[Band(n)][top.who]
      <4> HIDE DEF list, worst, top
      <4> QED BY <3>1, <3>2, <3>3 DEF SenseInv, BoardMet, ThreatsMet
    <3> HIDE DEF worst, top
    <3>5. SwitchTo(minds[n], top) \in Mind
      BY <2>1, <3>4 DEF SwitchTo, Mind
    <3>6. /\ SwitchTo(minds[n], top).foe = top.who /\ SwitchTo(minds[n], top).seen = top.last
          /\ SwitchTo(minds[n], top).hits = minds[n].hits
      BY <2>1 DEF SwitchTo, Mind
    <3>7. MindMet(SwitchTo(minds[n], top), n, contact)
      BY <2>1, <3>4, <3>6 DEF MindMet
    <3> QED BY <2>2, <2>3, <3>5, <3>7
  <2>4. CASE worst = {}
    <3>1. Prioritised(n) = minds[n]
      BY <2>2, <2>4
    <3> QED BY <2>1, <3>1
  <2> QED BY <2>3, <2>4
<1>4. SenseTyped'
  <2>1. minds' \in [Alive -> Mind]
    BY <1>1, <1>3
  <2> QED BY <1>1, <1>2, <2>1 DEF SenseInv, SenseTyped
<1>5. \A n \in Alive' : MindMet(minds'[n], n, contact')
  BY <1>1, <1>2, <1>3
<1>6. /\ \A q \in SquadIds : BoardMet(memory'[q], q, contact')
      /\ \A e \in bus' : EventMet(e, Upto', contact')
  BY <1>1, <1>2 DEF SenseInv
<1>7. MindsFollowContact'
  BY <1>1 DEF MindsFollowContact
<1> QED BY <1>4, <1>5, <1>6, <1>7 DEF SenseInv

LEMMA NudgeKeeps == SenseInv /\ Nudge => SenseInv'
<1> SUFFICES ASSUME SenseInv, Nudge PROVE SenseInv'
  OBVIOUS
<1>1. step = "quiet" /\ UNCHANGED <<beat, step>> /\ Upto' = Upto /\ Upto = beat - 1 /\ beat - 1 \in Int /\ beat \in Nat
  BY DEF Nudge, SenseInv, SenseTyped, Upto
<1>2. /\ minds \in [Alive -> Mind] /\ Alive \subseteq Souls /\ contact \in Contacts(beat - 1) /\ DOMAIN memory = SquadIds
      /\ \A n \in Alive : MindMet(minds[n], n, contact)
      /\ \A q \in SquadIds : BoardMet(memory[q], q, contact)
      /\ \A e \in bus : EventMet(e, beat - 1, contact)
  BY <1>1 DEF SenseInv, SenseTyped
<1>3. MindsFollowContact'
  BY <1>1 DEF MindsFollowContact
<1>4. \E s \in Nudges : nudges' \subseteq s
  BY DEF Nudge, SenseInv, SenseTyped
<1> SUFFICES /\ Alive' \subseteq Souls /\ minds' \in [Alive' -> Mind] /\ DOMAIN memory' = SquadIds
             /\ contact' \in Contacts(beat - 1)
             /\ \A n \in Alive' : MindMet(minds'[n], n, contact')
             /\ \A q \in SquadIds : BoardMet(memory'[q], q, contact')
             /\ \A e \in bus' : EventMet(e, beat - 1, contact')
  BY <1>1, <1>3, <1>4 DEF SenseInv, SenseTyped
<1>5. PICK e \in nudges :
          /\ e.n \in Alive
          /\ \/ e.e = "hit" /\ e.m \in Alive /\ Hit(e.n, e.m, e.damage)
             \/ /\ e.e = "dies" /\ minds' = Restrict(minds, Alive \ {e.n})
                /\ bus' = bus \cup {[kind |-> "down", who |-> e.n, x |-> minds[e.n].x, reg |-> minds[e.n].reg, made |-> beat - 1]}
                /\ UNCHANGED <<memory, contact>>
             \/ /\ e.e = "walks" /\ minds' = [minds EXCEPT ![e.n].x = e.x]
                /\ UNCHANGED <<memory, bus, contact>>
             \/ /\ e.e = "crosses" /\ minds' = [minds EXCEPT ![e.n].reg = 3 - @]
                /\ UNCHANGED <<memory, bus, contact>>
             \/ /\ e.e = "shoots"
                /\ bus' = bus \cup {[kind |-> "shot", who |-> e.n, x |-> minds[e.n].x, reg |-> minds[e.n].reg, made |-> beat - 1]}
                /\ UNCHANGED <<minds, memory, contact>>
  BY DEF Nudge
<1>6. (e.e = "walks" => e.x \in Int) /\ (e.e = "hit" => e.damage \in Int)
  BY SenseAssumption DEF SenseInv, SenseTyped
<1>7. minds[e.n] \in Mind /\ e.n \in Souls /\ MindMet(minds[e.n], e.n, contact)
  BY <1>2, <1>5
<1>8. CASE e.e = "hit" /\ e.m \in Alive /\ Hit(e.n, e.m, e.damage)
  <2> DEFINE n == e.n
             m == e.m
             old == minds[n].hits
             new == [damage |-> e.damage + (IF m \in DOMAIN old THEN old[m].damage ELSE 0), at |-> beat - 1]
             hs == SetKey(old, m, new)
             sn == IF minds[n].foe = 0 THEN beat - 1 ELSE minds[n].seen
             fo == IF minds[n].foe = 0 THEN m ELSE minds[n].foe
             b == Band(n)
  <2>0. m \in Souls /\ b \in Bands
    BY <1>2, <1>7, <1>8, BandType
  <2>1. PICK S \in SUBSET Souls : old \in [S -> [damage : Int, at : Int]]
    BY <1>7 DEF Mind, HitMap
  <2>2. new \in [damage : Int, at : Int]
    BY <1>1, <1>6, <1>8, <2>1
  <2>3. DOMAIN hs = S \cup {m} /\ hs[m] = new /\ \A k \in S \ {m} : hs[k] = old[k]
    <3> HIDE DEF new
    <3> QED BY <2>1 DEF SetKey
  <2>4. hs \in HitMap
    <3>1. hs = [k \in S \cup {m} |-> hs[k]]
      BY <2>3 DEF SetKey
    <3> HIDE DEF hs, new
    <3>2. hs \in [S \cup {m} -> [damage : Int, at : Int]]
      BY <2>1, <2>2, <2>3, <3>1
    <3> QED BY <2>0, <3>2 DEF HitMap
  <2>5. contact' = [contact EXCEPT ![b][m] = beat - 1] /\ bus' = bus
    BY <1>8 DEF Hit
  <2>6. /\ contact' \in Contacts(beat - 1) /\ Later(contact, contact') /\ contact'[b][m] = beat - 1
    <3> HIDE DEF b, m
    <3>1. contact \in [Bands -> [Souls -> Int]] /\ \A p \in Bands, k \in Souls : contact[p][k] <= beat - 1 /\ contact[p][k] \in Int
      BY <1>2 DEF Contacts
    <3>2. contact' \in [Bands -> [Souls -> Int]]
      BY <1>1, <2>0, <2>5, <3>1
    <3>3. \A p \in Bands, k \in Souls : contact'[p][k] = IF p = b /\ k = m THEN beat - 1 ELSE contact[p][k]
      BY <2>0, <2>5, <3>1
    <3>4. \A p \in Bands, k \in Souls : contact'[p][k] <= beat - 1 /\ contact[p][k] <= contact'[p][k]
      BY <1>1, <3>1, <3>3
    <3> QED BY <2>0, <3>2, <3>3, <3>4 DEF Contacts, Later
  <2>7. minds' = [minds EXCEPT ![n] = [minds[n] EXCEPT !.hits = hs, !.seen = sn, !.foe = fo]]
    BY <1>2, <1>5, <1>7, <1>8 DEF Hit, Mind
  <2>8. /\ minds'[n] \in Mind /\ minds'[n].hits = hs /\ minds'[n].seen = sn /\ minds'[n].foe = fo
    <3>1. sn \in Int /\ fo \in Souls \cup {0}
      BY <1>1, <1>7, <2>0 DEF Mind
    <3> HIDE DEF hs, sn, fo
    <3> QED BY <1>2, <1>5, <1>7, <2>4, <2>7, <3>1 DEF Mind
  <2>9. MindMet(minds'[n], n, contact')
    <3>1. MindMet(minds[n], n, contact')
      BY <1>1, <1>2, <1>7, <2>6, MindMetLater
    <3>2. fo # 0 => sn <= contact'[b][fo]
      BY <1>1, <2>6, <3>1 DEF MindMet
    <3>3. ASSUME NEW k \in DOMAIN hs PROVE hs[k].at <= contact'[b][k]
      <4>1. CASE k = m
        BY <1>1, <2>3, <2>6, <4>1
      <4>2. CASE k # m
        BY <2>1, <2>3, <3>1, <3>3, <4>2 DEF MindMet
      <4> QED BY <4>1, <4>2
    <3> HIDE DEF hs, sn, fo
    <3> QED BY <2>8, <3>2, <3>3 DEF MindMet
  <2>10. Alive' = Alive /\ minds' \in [Alive -> Mind] /\ \A k \in Alive : k # n => minds'[k] = minds[k]
    <3>1. DOMAIN minds' = Alive /\ \A k \in Alive : k # n => minds'[k] = minds[k]
      BY <1>2, <2>7 DEF Alive
    <3>2. minds' = [k \in Alive |-> minds'[k]]
      BY <2>7 DEF Alive
    <3> QED BY <1>2, <2>8, <3>1, <3>2 DEF Alive
  <2>11. \A k \in Alive : MindMet(minds'[k], k, contact')
    <3>1. \A k \in Alive : MindMet(minds[k], k, contact')
      BY <1>1, <1>2, <2>6, MindMetLater
    <3> QED BY <2>9, <2>10, <3>1
  <2>12. DOMAIN memory' = SquadIds /\ \A q \in SquadIds : BoardMet(memory'[q], q, contact')
    <3>1. \A q \in SquadIds : BoardMet(memory[q], q, contact')
      BY <1>1, <1>2, <2>6, BoardMetLater
    <3> DEFINE w == Write(memory[SoulSquad[n]], EntryKey("fire", 0), 0, SenseCfg.fire - 1)
    <3>2. memory' = IF SoulSquad[n] = 0 THEN memory ELSE [memory EXCEPT ![SoulSquad[n]] = w]
      BY <1>8 DEF Hit
    <3>3. ASSUME SoulSquad[n] # 0 PROVE BoardMet(w, SoulSquad[n], contact')
      <4>1. SoulSquad[n] \in SquadIds
        BY <1>7, <3>3 DEF SquadIds
      <4>2. \A key \in {Enemy, Threats} : (key \in DOMAIN w <=> key \in DOMAIN memory[SoulSquad[n]])
                                          /\ (key \in DOMAIN w => w[key] = memory[SoulSquad[n]][key])
        BY KeysDiffer DEF Write, SetKey
      <4> HIDE DEF w
      <4> QED BY <3>1, <4>1, <4>2 DEF BoardMet
    <3> HIDE DEF w
    <3> QED BY <1>2, <3>1, <3>2, <3>3
  <2>13. \A ev \in bus' : EventMet(ev, beat - 1, contact')
    BY <1>1, <1>2, <2>5, <2>6, EventMetLater
  <2> QED BY <1>2, <2>6, <2>10, <2>11, <2>12, <2>13
<1>9. CASE /\ e.e = "dies" /\ minds' = Restrict(minds, Alive \ {e.n})
           /\ bus' = bus \cup {[kind |-> "down", who |-> e.n, x |-> minds[e.n].x, reg |-> minds[e.n].reg, made |-> beat - 1]}
           /\ UNCHANGED <<memory, contact>>
  <2>1. Alive' = Alive \ {e.n} /\ minds' \in [Alive' -> Mind] /\ \A k \in Alive' : minds'[k] = minds[k]
    BY <1>2, <1>9 DEF Restrict, Alive
  <2>2. \A ev \in bus' : EventMet(ev, beat - 1, contact')
    BY <1>2, <1>9 DEF EventMet
  <2> QED BY <1>2, <1>9, <2>1, <2>2
<1>10. ASSUME NEW x \in Int, NEW reg \in {1, 2},
              minds' = [minds EXCEPT ![e.n] = [minds[e.n] EXCEPT !.x = x, !.reg = reg]], UNCHANGED <<memory, bus, contact>>
       PROVE  /\ Alive' = Alive /\ minds' \in [Alive -> Mind]
              /\ \A n \in Alive' : MindMet(minds'[n], n, contact')
  <2>1. /\ [minds[e.n] EXCEPT !.x = x, !.reg = reg] \in Mind
        /\ MindMet([minds[e.n] EXCEPT !.x = x, !.reg = reg], e.n, contact)
    BY <1>7 DEF Mind, MindMet
  <2> QED BY <1>2, <1>5, <1>10, <2>1 DEF Alive
<1>11. CASE e.e = "walks" /\ minds' = [minds EXCEPT ![e.n].x = e.x] /\ UNCHANGED <<memory, bus, contact>>
  <2>1. minds' = [minds EXCEPT ![e.n] = [minds[e.n] EXCEPT !.x = e.x, !.reg = minds[e.n].reg]] /\ minds[e.n].reg \in {1, 2}
    BY <1>2, <1>5, <1>7, <1>11 DEF Mind
  <2> QED BY <1>2, <1>6, <1>10, <1>11, <2>1
<1>12. CASE e.e = "crosses" /\ minds' = [minds EXCEPT ![e.n].reg = 3 - @] /\ UNCHANGED <<memory, bus, contact>>
  <2>0. 3 - minds[e.n].reg \in {1, 2} /\ minds[e.n].x \in Int
    BY <1>7 DEF Mind
  <2>1. minds' = [minds EXCEPT ![e.n] = [minds[e.n] EXCEPT !.x = minds[e.n].x, !.reg = 3 - minds[e.n].reg]]
    <3>1. [minds[e.n] EXCEPT !.x = minds[e.n].x, !.reg = 3 - minds[e.n].reg] = [minds[e.n] EXCEPT !.reg = 3 - @]
      BY <1>7 DEF Mind
    <3> QED BY <1>2, <1>5, <1>12, <3>1
  <2> QED BY <1>2, <1>10, <1>12, <2>0, <2>1
<1>13. CASE /\ e.e = "shoots"
            /\ bus' = bus \cup {[kind |-> "shot", who |-> e.n, x |-> minds[e.n].x, reg |-> minds[e.n].reg, made |-> beat - 1]}
            /\ UNCHANGED <<minds, memory, contact>>
  <2>1. \A ev \in bus' : EventMet(ev, beat - 1, contact')
    BY <1>2, <1>13 DEF EventMet
  <2> QED BY <1>2, <1>13, <2>1 DEF Alive
<1> QED BY <1>5, <1>8, <1>9, <1>11, <1>12, <1>13

(* After the senses of a tick nobody is engaged with one whom he and his    *)
(* band have not met within the time aggro decays in, and the enemy on a    *)
(* board was met by some band, not always the board's own, within that      *)
(* time, in every order of sensing, deciding, event delivery and decay.     *)
THEOREM MindsAlwaysFollowContact == SenseSpec => []MindsFollowContact
<1>1. SenseInv /\ [SenseNext]_senseVars => SenseInv'
  <2> SUFFICES ASSUME SenseInv, [SenseNext]_senseVars PROVE SenseInv'
    OBVIOUS
  <2>1. CASE UNCHANGED senseVars
    BY <2>1 DEF senseVars, SenseInv, SenseTyped, Alive, Upto, MindsFollowContact
  <2> QED BY <2>1, SenseKeeps, PrioritiseKeeps, NudgeKeeps DEF SenseNext
<1>2. SenseInv => MindsFollowContact
  BY DEF SenseInv
<1> QED BY <1>1, <1>2, SenseInitHolds, PTL DEF SenseSpec


-----------------------------------------------------------------------------
(* What people do.                                                         *)

(* A finite set of integers has bounds. *)
Bounded(S) == \E lo, hi \in Int : \A x \in S : lo <= x /\ x <= hi

LEMMA FiniteBounded ==
  ASSUME NEW S \in SUBSET Int, IsFiniteSet(S)
  PROVE  Bounded(S)
<1> DEFINE P == {k \in Nat : \A V \in SUBSET Int : IsFiniteSet(V) /\ Cardinality(V) = k => Bounded(V)}
<1>1. 0 \in P
  <2>1. \A V \in SUBSET Int : IsFiniteSet(V) /\ Cardinality(V) = 0 => V = {}
    BY FS_EmptySet
  <2>2. Bounded({})
    BY DEF Bounded
  <2> QED BY <2>1, <2>2
<1>2. ASSUME NEW k \in P PROVE k + 1 \in P
  <2> SUFFICES ASSUME NEW V \in SUBSET Int, IsFiniteSet(V), Cardinality(V) = k + 1
               PROVE  Bounded(V)
    OBVIOUS
  <2>1. V # {}
    BY FS_EmptySet
  <2>2. PICK v \in V : TRUE
    BY <2>1
  <2>3. IsFiniteSet(V \ {v}) /\ Cardinality(V \ {v}) = k
    <3>1. k \in Nat /\ IsFiniteSet(V \ {v}) /\ Cardinality(V \ {v}) = Cardinality(V) - 1
      BY <2>2, FS_RemoveElement
    <3> QED BY <3>1
  <2>4. Bounded(V \ {v})
    BY <2>3
  <2>5. PICK lo, hi \in Int : \A x \in V \ {v} : lo <= x /\ x <= hi
    BY <2>4 DEF Bounded
  <2>6. \A x \in V : (IF lo <= v THEN lo ELSE v) <= x /\ x <= (IF v <= hi THEN hi ELSE v)
    BY <2>5
  <2> QED BY <2>6 DEF Bounded
<1> HIDE DEF P
<1>3. P = Nat
  BY <1>1, <1>2, SetInduction DEF P
<1>4. Cardinality(S) \in P
  BY <1>3, FS_CardinalityType
<1> QED BY <1>4 DEF P

(* If it is not empty, it has a least and a greatest element. *)
LEMMA LeastIn ==
  ASSUME NEW S \in SUBSET Int, Bounded(S), S # {}
  PROVE  \E x \in S : \A y \in S : x <= y
<1>1. PICK lo \in Int : \A x \in S : lo <= x
  BY DEF Bounded
<1> DEFINE V == {n \in Nat : \E x \in S : n = x - lo}
<1>2. V # {}
  <2>1. PICK x \in S : TRUE
    OBVIOUS
  <2>2. x - lo \in V
    BY <1>1, <2>1
  <2> QED BY <2>2
<1>3. PICK n \in V : \A m \in V : n <= m
  BY <1>2, LeastNumber
<1>4. PICK x \in S : n = x - lo
  BY <1>3
<1>5. ASSUME NEW y \in S PROVE x <= y
  <2>1. y - lo \in V
    BY <1>1
  <2> QED BY <1>1, <1>3, <1>4, <2>1
<1> QED BY <1>5

LEMMA TopIs == Top \in Nat /\ \A n \in Folk : n \in 1 .. Top
<1> DEFINE S == Folk \cup {0}
           N == {0 - n : n \in S}
<1>1. S \in SUBSET Nat /\ IsFiniteSet(S)
  BY GoalAssumption, FS_AddElement
<1>2. PICK lo, hi \in Int : \A x \in S : lo <= x /\ x <= hi
  BY <1>1, FiniteBounded DEF Bounded
<1>3. Bounded(N) /\ N # {} /\ N \in SUBSET Int
  <2>1. \A x \in N : 0 - hi <= x /\ x <= 0 - lo
    BY <1>1, <1>2
  <2>2. 0 - hi \in Int /\ 0 - lo \in Int
    BY <1>2
  <2> QED BY <1>1, <2>1, <2>2 DEF Bounded
<1>4. PICK x \in N : \A y \in N : x <= y
  BY <1>3, LeastIn
<1>5. \E m \in S : \A y \in S : m >= y
  <2>1. PICK m \in S : x = 0 - m
    BY <1>4
  <2>2. \A y \in S : 0 - y \in N
    OBVIOUS
  <2>3. ASSUME NEW y \in S PROVE m >= y
    <3>1. x <= 0 - y /\ m \in Int /\ y \in Int
      BY <1>1, <1>4, <2>2
    <3> QED BY <2>1, <3>1
  <2> QED BY <2>3
<1>6. Top \in S /\ \A y \in S : Top >= y
  BY <1>5, Zenon DEF Top, Max
<1>7. \A n \in Folk : n \in Nat /\ n # 0
  BY GoalAssumption
<1> QED BY <1>1, <1>6, <1>7

LEMMA OrderedIs == Ordered \in Seq(1 .. Top) /\ Len(Ordered) = Top /\ \A i \in 1 .. Top : Ordered[i] = i
  BY TopIs DEF Ordered

Adding == INSTANCE SequenceLemmas WITH Op <- AddUp

(* The nearest of some spots is one of them. *)
LEMMA NearestIs ==
  ASSUME NEW S \in SUBSET Int, NEW x \in Int, NEW reach, Nearest(S, x, reach) # <<>>
  PROVE  Nearest(S, x, reach)[1] \in S
<1> DEFINE R == {p \in S : Gap(p, x) <= reach}
           G == {n \in Nat : \E p \in R : n = Gap(p, x)}
<1>1. R # {}
  BY DEF Nearest
<1>2. \A p \in R : Gap(p, x) \in Nat
  BY DEF Gap
<1>3. G # {}
  BY <1>1, <1>2
<1>4. PICK g \in G : \A m \in G : g <= m
  BY <1>3, LeastNumber
<1> DEFINE Q == {p \in R : Gap(p, x) = g}
<1>5. Bounded(Q) /\ Q # {} /\ Q \in SUBSET Int
  <2>1. \A p \in Q : x - g <= p /\ p <= x + g
    BY DEF Gap
  <2>2. Q # {} /\ x - g \in Int /\ x + g \in Int
    BY <1>4
  <2>3. Bounded(Q)
    <3> HIDE DEF Q
    <3> QED BY <2>1, <2>2 DEF Bounded
  <2> QED BY <2>2, <2>3
<1>6. PICK p \in Q : \A q \in Q : p <= q
  <2> HIDE DEF Q
  <2> QED BY <1>5, LeastIn
<1>7. \A q \in R : Gap(p, x) < Gap(q, x) \/ (Gap(p, x) = Gap(q, x) /\ p <= q)
  <2> TAKE q \in R
  <2>1. Gap(q, x) \in G
    BY <1>2
  <2>2. g <= Gap(q, x) /\ g \in Int /\ Gap(q, x) \in Int
    BY <1>2, <1>4, <2>1
  <2>3. CASE Gap(q, x) = g
    BY <1>6, <2>3
  <2>4. CASE Gap(q, x) # g
    BY <2>2, <2>4
  <2> QED BY <2>3, <2>4
<1> DEFINE best == CHOOSE k \in R : \A q \in R : Gap(k, x) < Gap(q, x) \/ (Gap(k, x) = Gap(q, x) /\ k <= q)
<1>8. best \in R
  BY <1>6, <1>7, Zenon
<1>9. Nearest(S, x, reach) = <<best>>
  BY <1>1, Zenon DEF Nearest
<1> HIDE DEF best
<1> QED BY <1>8, <1>9

-----------------------------------------------------------------------------
(* The invariant.                                                          *)

PlaceKinds == {"InvestigateAt", "Socialize", "Hunt", "Loot", "SeekMedical"}
GoalKinds == PlaceKinds \cup {"PursueTarget", "SquadFollowObjective", "RegroupOnAlly", "SoloIdleFsm"}
Placed(kind) ==
  /\ kind.k \in GoalKinds
  /\ kind.k \in PlaceKinds => kind.t \in Int
  /\ kind.k = "RegroupOnAlly" => kind.t[2] \in Int

SelfFields == {"up", "on", "x", "vital", "goal", "errand", "path", "aggro", "stance"}
GoalFields == {"src", "kind", "prio", "commit", "pp"}
Someone(p) ==
  /\ SelfFields \subseteq DOMAIN p /\ GoalFields \subseteq DOMAIN p.goal
  /\ p.x \in Int /\ Placed(p.goal.kind)
  /\ p.errand.k = "MoveTo" => p.errand.x \in Int
Everyone(w) == DOMAIN w = Folk /\ \A n \in Folk : Someone(w[n])

Reports == {"fire", "shot", "enemy"}
BoardTyped(b) ==
  /\ Reports \cup {"down", "focus"} \subseteq DOMAIN b
  /\ \A key \in Reports : b[key] # <<>> => b[key][1] \in Int
  /\ \A d \in b.down : d.id \in Nat /\ d.at \in Int
TaskTyped(t) ==
  /\ {"kind", "route", "idx", "set"} \subseteq DOMAIN t
  /\ IsRoute(t.route) /\ t.idx \in 1 .. Len(t.route)

GoalTyped ==
  /\ stage \in {"think", "act"}
  /\ Everyone(folk)
  /\ DOMAIN boards = Groups /\ \A g \in Groups : BoardTyped(boards[g])
  /\ DOMAIN tasks = Groups /\ \A g \in Groups : TaskTyped(tasks[g])
  /\ \A b \in bodies : b[1] \in Int
  /\ \A h \in script : WellMeant(h)

GoalInv == GoalTyped /\ GoalsAreMeant

-----------------------------------------------------------------------------
(* Candidates: what a goal may be about.                                   *)

(* w is the people as a tick has changed them so far, in nothing but their
   goals. *)
AliveFields == SelfFields \ {"goal"}
SameBut(w) == Everyone(w) /\ \A m \in Folk : \A f \in AliveFields : w[m][f] = folk[m][f]

OnReport(n, cell) ==
  FolkSquad[n] # 0 /\ \E key \in {"fire", "shot"} : boards[FolkSquad[n]][key] # <<>> /\ boards[FolkSquad[n]][key][1] = cell
Fits(n, resp, c) ==
  /\ Placed(c.kind) /\ Meant(n, c.kind)
  /\ c.kind.k = "RegroupOnAlly" => FolkSquad[n] # 0
  /\ c.kind.k = "InvestigateAt" => FolkSquad[n] # 0 /\ (OnReport(n, c.kind.t) \/ CapOk(c.kind.t, n, resp))

Offers(n, resp, cs) == \E S : cs \in Seq(S) /\ \A c \in S : Fits(n, resp, c)

LEMMA OffersNone == ASSUME NEW n, NEW resp PROVE Offers(n, resp, <<>>)
<1>1. PICK S : S = {}
  OBVIOUS
<1>2. <<>> \in Seq(S) /\ \A c \in S : Fits(n, resp, c)
  BY <1>1, EmptySeq
<1> QED BY <1>2, Zenon DEF Offers

LEMMA OffersOne ==
  ASSUME NEW n, NEW resp, NEW c, Fits(n, resp, c)
  PROVE  Offers(n, resp, <<c>>)
<1>1. PICK S : S = {c}
  OBVIOUS
<1>2. <<c>> \in Seq(S)
  BY <1>1
<1>3. \A x \in S : Fits(n, resp, x)
  BY <1>1
<1> QED BY <1>2, <1>3, Zenon DEF Offers

LEMMA OffersIf ==
  ASSUME NEW n, NEW resp, NEW b \in BOOLEAN, NEW c, b => Fits(n, resp, c)
  PROVE  Offers(n, resp, If(b, <<c>>))
<1>1. CASE b
  <2>1. If(b, <<c>>) = <<c>>
    BY <1>1 DEF If
  <2> QED BY <1>1, <2>1, OffersOne
<1>2. CASE ~b
  <2>1. If(b, <<c>>) = <<>>
    BY <1>2 DEF If
  <2> QED BY <2>1, OffersNone
<1> QED BY <1>1, <1>2

LEMMA OffersConcat ==
  ASSUME NEW n, NEW resp, NEW p, NEW q, Offers(n, resp, p), Offers(n, resp, q)
  PROVE  Offers(n, resp, p \o q)
<1>1. PICK S : p \in Seq(S) /\ \A c \in S : Fits(n, resp, c)
  BY DEF Offers
<1>2. PICK V : q \in Seq(V) /\ \A c \in V : Fits(n, resp, c)
  BY DEF Offers
<1>3. p \in Seq(S \cup V) /\ q \in Seq(S \cup V)
  BY <1>1, <1>2
<1>4. p \o q \in Seq(S \cup V)
  BY <1>3, ConcatProperties
<1> QED BY <1>1, <1>2, <1>4 DEF Offers

LEMMA LiveTargetSame ==
  ASSUME GoalTyped, NEW w, SameBut(w), NEW n \in Folk, NEW t, LiveTarget(w, n, t)
  PROVE  LiveTarget(folk, n, t)
  BY DEF SameBut, AliveFields, SelfFields, LiveTarget, IsUp

LEMMA SurvivalOffers ==
  ASSUME GoalTyped, NEW w, SameBut(w), NEW n \in Folk, NEW resp
  PROVE  Offers(n, resp, Survival(w, n))
<1> DEFINE S == {p[1] : p \in {q \in RestSpots : q[2] \in {"", FolkSide[n]}}}
           spot == Nearest(S, w[n].x, 4)
           b == w[n].vital < 25 /\ spot # <<>>
           c == Cand("IndividualSurvival", Kind("SeekMedical", spot[1]), 220, pace)
<1>1. S \in SUBSET Int /\ w[n].x \in Int /\ w[n].vital = folk[n].vital
  BY GoalAssumption DEF SameBut, Everyone, Someone, AliveFields, SelfFields
<1>2. Survival(w, n) = If(b, <<c>>)
  BY Zenon DEF Survival
<1>3. b => Fits(n, resp, c)
  <2> SUFFICES ASSUME b PROVE Fits(n, resp, c)
    OBVIOUS
  <2>1. spot[1] \in Int
    <3> HIDE DEF S
    <3> QED BY <1>1, NearestIs
  <2>2. c.kind.k = "SeekMedical" /\ c.kind.t = spot[1]
    BY DEF Cand, Kind
  <2> HIDE DEF c, spot
  <2> QED BY <1>1, <2>1, <2>2 DEF Fits, Placed, Meant, PlaceKinds, GoalKinds
<1>4. PICK d \in BOOLEAN : d = b
  OBVIOUS
<1> HIDE DEF b, c
<1> QED BY <1>2, <1>3, <1>4, OffersIf

LEMMA AggrosOffers ==
  ASSUME GoalTyped, NEW w, SameBut(w), NEW n \in Folk, NEW resp
  PROVE  Offers(n, resp, Aggros(w, n))
<1> DEFINE own == w[n].aggro[1]
           focus == boards[FolkSquad[n]].focus
           t == IF focus # 0 /\ LiveTarget(w, n, focus) THEN focus ELSE own
           c == Cand("IndividualAggro", Kind("PursueTarget", own), 150, w[n].aggro[2])
           d == Cand("SquadAggro", Kind("PursueTarget", t), 160, w[n].aggro[2])
           ds == If(FolkSquad[n] # 0, <<d>>)
           s == <<c>> \o ds
<1>1. Aggros(w, n) = IF w[n].aggro = <<>> THEN <<>> ELSE If(LiveTarget(w, n, own), s)
  BY Zenon DEF Aggros
<1>2. w[n].aggro = folk[n].aggro
  BY DEF SameBut, AliveFields, SelfFields
<1>3. CASE w[n].aggro # <<>> /\ LiveTarget(w, n, own)
  <2>1. Fits(n, resp, c)
    <3>1. c.kind.k = "PursueTarget" /\ c.kind.t = own
      BY DEF Cand, Kind
    <3>2. LiveTarget(folk, n, own)
      BY <1>3, LiveTargetSame
    <3> HIDE DEF c
    <3> QED BY <1>2, <1>3, <3>1, <3>2 DEF Fits, Placed, Meant, PlaceKinds, GoalKinds
  <2>2. FolkSquad[n] # 0 => Fits(n, resp, d)
    <3>1. d.kind.k = "PursueTarget" /\ d.kind.t = t
      BY DEF Cand, Kind
    <3>2. LiveTarget(folk, n, t) /\ (folk[n].aggro[1] = t \/ boards[FolkSquad[n]].focus = t)
      BY <1>2, <1>3, LiveTargetSame
    <3> HIDE DEF d, t
    <3> QED BY <1>2, <1>3, <3>1, <3>2 DEF Fits, Placed, Meant, PlaceKinds, GoalKinds
  <2>3. Offers(n, resp, ds)
    <3>1. PICK x \in BOOLEAN : x = (FolkSquad[n] # 0)
      OBVIOUS
    <3> HIDE DEF d
    <3> QED BY <2>2, <3>1, OffersIf
  <2>4. Offers(n, resp, <<c>>)
    <3> HIDE DEF c
    <3> QED BY <2>1, OffersOne
  <2>5. Aggros(w, n) = s
    BY <1>1, <1>3, Zenon DEF If
  <2> HIDE DEF c, ds
  <2> QED BY <2>3, <2>4, <2>5, OffersConcat
<1>4. CASE ~(w[n].aggro # <<>> /\ LiveTarget(w, n, own))
  <2>1. Aggros(w, n) = <<>>
    BY <1>1, <1>4 DEF If
  <2> QED BY <2>1, OffersNone
<1> QED BY <1>3, <1>4

LEMMA FromBoardOffers ==
  ASSUME GoalTyped, NEW n \in Folk, NEW resp, FolkSquad[n] # 0
  PROVE  Offers(n, resp, FromBoard(boards[FolkSquad[n]], n, resp))
<1> DEFINE bb == boards[FolkSquad[n]]
           C(key, prio) == Cand("BlackboardUrgency", Kind("InvestigateAt", bb[key][1]), prio, bb[key][2])
           ally == CHOOSE e \in bb.down : \A f \in bb.down : e.id <= f.id
           r == Cand("BlackboardUrgency", Kind("RegroupOnAlly", <<ally.id, ally.at>>), 180, ally.born)
           b0 == bb.down # {}
           b1 == bb.fire # <<>>
           b2 == bb.shot # <<>>
           b3 == bb.enemy # <<>> /\ CapOk(bb.enemy[1], n, resp)
           s0 == If(b0, <<r>>)
           s1 == If(b1, <<C("fire", 140)>>)
           s2 == If(b2, <<C("shot", 40)>>)
           s3 == If(b3, <<C("enemy", 130)>>)
<1>1. FolkSquad[n] \in Groups
  BY DEF Groups
<1>2. BoardTyped(bb)
  BY <1>1 DEF GoalTyped
<1>3. FromBoard(bb, n, resp) = s0 \o s1 \o s2 \o s3
  BY Zenon DEF FromBoard
<1>4. ASSUME NEW key \in Reports, NEW prio, bb[key] # <<>>,
             key \in {"fire", "shot"} \/ CapOk(bb[key][1], n, resp)
      PROVE  Fits(n, resp, C(key, prio))
  <2>1. C(key, prio).kind.k = "InvestigateAt" /\ C(key, prio).kind.t = bb[key][1]
    BY DEF Cand, Kind
  <2>2. bb[key][1] \in Int
    BY <1>2, <1>4 DEF BoardTyped
  <2>3. Meant(n, C(key, prio).kind)
    <3> HIDE DEF C
    <3> QED BY <1>4, <2>1 DEF Meant, Reports
  <2>4. OnReport(n, bb[key][1]) \/ CapOk(bb[key][1], n, resp)
    BY <1>4 DEF OnReport
  <2> HIDE DEF C
  <2> QED BY <2>1, <2>2, <2>3, <2>4 DEF Fits, Placed, PlaceKinds, GoalKinds
<1>5. b0 => Fits(n, resp, r)
  <2> SUFFICES ASSUME b0 PROVE Fits(n, resp, r)
    OBVIOUS
  <2> DEFINE ids == {d.id : d \in bb.down}
  <2>1. ids \in SUBSET Nat /\ ids # {}
    BY <1>2 DEF BoardTyped
  <2>2. PICK i \in ids : \A j \in ids : i <= j
    BY <2>1, LeastNumber
  <2>3. \E e \in bb.down : \A f \in bb.down : e.id <= f.id
    <3>1. PICK e \in bb.down : e.id = i
      OBVIOUS
    <3> QED BY <2>2, <3>1
  <2>4. ally \in bb.down
    BY <2>3, Zenon
  <2>5. r.kind.k = "RegroupOnAlly" /\ r.kind.t = <<ally.id, ally.at>>
    BY DEF Cand, Kind
  <2>6. ally.at \in Int
    BY <1>2, <2>4 DEF BoardTyped
  <2> HIDE DEF ally, r
  <2> QED BY <2>4, <2>5, <2>6 DEF Fits, Placed, Meant, PlaceKinds, GoalKinds
<1>6. Offers(n, resp, s0)
  <2>1. PICK x \in BOOLEAN : x = b0
    OBVIOUS
  <2> HIDE DEF r, b0
  <2> QED BY <1>5, <2>1, OffersIf
<1>7. Offers(n, resp, s1)
  <2>1. PICK x \in BOOLEAN : x = b1
    OBVIOUS
  <2>2. PICK c : c = C("fire", 140)
    OBVIOUS
  <2>3. x => Fits(n, resp, c)
    BY <1>4, <2>1, <2>2 DEF Reports
  <2> HIDE DEF C, b1
  <2> QED BY <2>1, <2>2, <2>3, OffersIf
<1>8. Offers(n, resp, s2)
  <2>1. PICK x \in BOOLEAN : x = b2
    OBVIOUS
  <2>2. PICK c : c = C("shot", 40)
    OBVIOUS
  <2>3. x => Fits(n, resp, c)
    BY <1>4, <2>1, <2>2 DEF Reports
  <2> HIDE DEF C, b2
  <2> QED BY <2>1, <2>2, <2>3, OffersIf
<1>9. Offers(n, resp, s3)
  <2>1. PICK x \in BOOLEAN : x = b3
    OBVIOUS
  <2>2. PICK c : c = C("enemy", 130)
    OBVIOUS
  <2>3. x => Fits(n, resp, c)
    BY <1>4, <2>1, <2>2 DEF Reports
  <2> HIDE DEF C, b3
  <2> QED BY <2>1, <2>2, <2>3, OffersIf
<1> HIDE DEF s0, s1, s2, s3
<1>10. Offers(n, resp, s0 \o s1) 
  BY <1>6, <1>7, OffersConcat
<1>11. Offers(n, resp, (s0 \o s1) \o s2)
  BY <1>8, <1>10, OffersConcat
<1>12. Offers(n, resp, ((s0 \o s1) \o s2) \o s3)
  BY <1>9, <1>11, OffersConcat
<1> QED BY <1>3, <1>12

LEMMA DrivesOffers ==
  ASSUME GoalTyped, NEW w, SameBut(w), NEW n \in Folk, NEW resp
  PROVE  Offers(n, resp, Drives(w, n, TaskOf(tasks, n)))
<1> DEFINE task == TaskOf(tasks, n)
           free == FolkSquad[n] = 0 \/ task.kind \in {"none", "rest", "wander"}
           extra == IF FolkSquad[n] # 0 THEN 5 ELSE 0
           game == {p[1] : p \in {q \in HuntSpots : q[2] # FolkSide[n]}}
           dead == {b[1] : b \in {c \in bodies : c[2] # FolkSide[n] /\ {c[2], FolkSide[n]} \notin Leeway}}
           prey == Nearest(game, w[n].x, 1)
           corpse == Nearest(dead, w[n].x, 1)
           c0 == Cand("PersonalityBias", Kind("Hunt", prey[1]), 60 + extra, pace)
           c1 == Cand("PersonalityBias", Kind("Loot", corpse[1]), 65 + extra, pace)
           c2 == Cand("PersonalityBias", Kind("Socialize", task.route[1]), 85, pace)
           b0 == "curious" \in Traits[n] /\ free /\ prey # <<>>
           b1 == "greedy" \in Traits[n] /\ free /\ corpse # <<>>
           b2 == "social" \in Traits[n] /\ task.kind = "rest"
                 /\ NearCell(w, Present(w, FolkSquad[n]), task.route[1], SocializeArriveRadius)
           s0 == If(b0, <<c0>>)
           s1 == If(b1, <<c1>>)
           s2 == If(b2, <<c2>>)
<1>1. Drives(w, n, task) = s0 \o s1 \o s2
  BY Zenon DEF Drives
<1>2. w[n].x \in Int /\ game \in SUBSET Int /\ dead \in SUBSET Int
  <2>1. w[n].x \in Int
    BY DEF SameBut, Everyone, Someone
  <2>2. game \in SUBSET Int
    BY GoalAssumption
  <2>3. dead \in SUBSET Int
    BY DEF GoalTyped
  <2> QED BY <2>1, <2>2, <2>3
<1>3. b0 => Fits(n, resp, c0)
  <2> SUFFICES ASSUME b0 PROVE Fits(n, resp, c0)
    OBVIOUS
  <2>1. prey[1] \in Int
    <3> HIDE DEF game
    <3> QED BY <1>2, NearestIs
  <2>2. c0.kind.k = "Hunt" /\ c0.kind.t = prey[1]
    BY DEF Cand, Kind
  <2> HIDE DEF c0, prey
  <2> QED BY <2>1, <2>2 DEF Fits, Placed, Meant, PlaceKinds, GoalKinds
<1>4. b1 => Fits(n, resp, c1)
  <2> SUFFICES ASSUME b1 PROVE Fits(n, resp, c1)
    OBVIOUS
  <2>1. corpse[1] \in dead
    <3> HIDE DEF dead
    <3> QED BY <1>2, NearestIs
  <2>2. c1.kind.k = "Loot" /\ c1.kind.t = corpse[1]
    BY DEF Cand, Kind
  <2>3. \E b \in bodies : b[1] = corpse[1]
    BY <2>1
  <2> HIDE DEF c1, corpse
  <2> QED BY <1>2, <2>1, <2>2, <2>3 DEF Fits, Placed, Meant, PlaceKinds, GoalKinds
<1>5. b2 => Fits(n, resp, c2)
  <2> SUFFICES ASSUME b2 PROVE Fits(n, resp, c2)
    OBVIOUS
  <2>1. task.kind = "rest" /\ (FolkSquad[n] = 0 => task = NoTask)
    BY DEF TaskOf
  <2>2. FolkSquad[n] # 0
    BY <2>1 DEF NoTask
  <2>3. task = tasks[FolkSquad[n]] /\ TaskTyped(task)
    BY <2>2 DEF TaskOf, GoalTyped, Groups
  <2>4. task.route[1] \in Int
    BY <2>3 DEF TaskTyped, IsRoute
  <2>5. c2.kind.k = "Socialize" /\ c2.kind.t = task.route[1]
    BY DEF Cand, Kind
  <2> HIDE DEF c2, task
  <2> QED BY <2>1, <2>3, <2>4, <2>5 DEF Fits, Placed, Meant, PlaceKinds, GoalKinds
<1>6. Offers(n, resp, s0)
  <2>1. PICK x \in BOOLEAN : x = b0
    OBVIOUS
  <2> HIDE DEF c0, b0
  <2> QED BY <1>3, <2>1, OffersIf
<1>7. Offers(n, resp, s1)
  <2>1. PICK x \in BOOLEAN : x = b1
    OBVIOUS
  <2> HIDE DEF c1, b1
  <2> QED BY <1>4, <2>1, OffersIf
<1>8. Offers(n, resp, s2)
  <2>1. PICK x \in BOOLEAN : x = b2
    OBVIOUS
  <2> HIDE DEF c2, b2
  <2> QED BY <1>5, <2>1, OffersIf
<1> HIDE DEF s0, s1, s2
<1>9. Offers(n, resp, s0 \o s1)
  BY <1>6, <1>7, OffersConcat
<1>10. Offers(n, resp, (s0 \o s1) \o s2)
  BY <1>8, <1>9, OffersConcat
<1> QED BY <1>1, <1>10

LEMMA CandidatesOffer ==
  ASSUME GoalTyped, NEW w, SameBut(w), NEW n \in Folk, NEW resp
  PROVE  Offers(n, resp, Candidates(w, n, resp)) /\ Candidates(w, n, resp) # <<>>
<1> DEFINE task == TaskOf(tasks, n)
           c0 == Cand("SquadObjective", Kind("SquadFollowObjective", 0), Biased(n, task.kind), task.set)
           c1 == Cand("Idle", Kind("SoloIdleFsm", 0), 0, pace)
           b0 == FolkSquad[n] # 0
           b1 == task.kind # "none"
           s0 == Survival(w, n)
           s1 == Aggros(w, n)
           s2 == If(b0, FromBoard(boards[FolkSquad[n]], n, resp))
           s3 == If(b1, <<c0>>)
           s4 == Drives(w, n, task)
           s5 == <<c1>>
<1>1. Candidates(w, n, resp) = s0 \o s1 \o s2 \o s3 \o s4 \o s5
  BY Zenon DEF Candidates
<1>2. Offers(n, resp, s0) /\ Offers(n, resp, s1) /\ Offers(n, resp, s4)
  BY SurvivalOffers, AggrosOffers, DrivesOffers
<1>3. Offers(n, resp, s2)
  <2>1. CASE b0
    BY <2>1, FromBoardOffers DEF If
  <2>2. CASE ~b0
    BY <2>2, OffersNone DEF If
  <2> QED BY <2>1, <2>2
<1>4. Offers(n, resp, s3)
  <2>1. b1 => Fits(n, resp, c0)
    <3> SUFFICES ASSUME b1 PROVE Fits(n, resp, c0)
      OBVIOUS
    <3>1. c0.kind.k = "SquadFollowObjective"
      BY DEF Cand, Kind
    <3>2. FolkSquad[n] # 0
      BY DEF TaskOf, NoTask
    <3>3. tasks[FolkSquad[n]].kind # "none"
      BY <3>2 DEF TaskOf
    <3> HIDE DEF c0, task
    <3> QED BY <3>1, <3>3 DEF Fits, Placed, Meant, PlaceKinds, GoalKinds
  <2>2. PICK x \in BOOLEAN : x = b1
    OBVIOUS
  <2> HIDE DEF c0, b1
  <2> QED BY <2>1, <2>2, OffersIf
<1>5. Offers(n, resp, s5)
  <2>1. c1.kind.k = "SoloIdleFsm"
    BY DEF Cand, Kind
  <2>2. Fits(n, resp, c1)
    <3> HIDE DEF c1
    <3> QED BY <2>1 DEF Fits, Placed, Meant, PlaceKinds, GoalKinds
  <2> HIDE DEF c1
  <2> QED BY <2>2, OffersOne
<1>6. Len(s5) = 1
  OBVIOUS
<1> HIDE DEF s0, s1, s2, s3, s4, s5
<1>7. Offers(n, resp, s0 \o s1)
  BY <1>2, OffersConcat
<1>8. Offers(n, resp, (s0 \o s1) \o s2)
  BY <1>3, <1>7, OffersConcat
<1>9. Offers(n, resp, ((s0 \o s1) \o s2) \o s3)
  BY <1>4, <1>8, OffersConcat
<1> DEFINE s == (((s0 \o s1) \o s2) \o s3) \o s4
<1>10. Offers(n, resp, s)
  BY <1>2, <1>9, OffersConcat
<1> HIDE DEF s
<1>11. Offers(n, resp, s \o s5)
  BY <1>5, <1>10, OffersConcat
<1>12. s \o s5 # <<>>
  <2>1. PICK S : s \in Seq(S)
    BY <1>10 DEF Offers
  <2>2. PICK V : s5 \in Seq(V)
    BY <1>5 DEF Offers
  <2>3. s \in Seq(S \cup V) /\ s5 \in Seq(S \cup V)
    BY <2>1, <2>2
  <2>4. Len(s \o s5) = Len(s) + Len(s5) /\ Len(s) \in Nat
    BY <2>3, ConcatProperties, LenProperties
  <2>5. Len(s \o s5) # 0
    BY <1>6, <2>4
  <2> QED BY <2>5, EmptySeq
<1> QED BY <1>1, <1>11, <1>12 DEF s

B == INSTANCE SequenceLemmas WITH Op <- Better

(* Whatever is adopted or kept fits. *)
LEMMA ResolvedFits ==
  ASSUME GoalTyped, NEW w, SameBut(w), NEW n \in Folk, NEW resp, NEW goal, GoalFields \subseteq DOMAIN goal
  PROVE  LET cs == Candidates(w, n, resp)
             won == PickWinner(cs)
             new == Resolve(goal, cs, won)
         IN /\ Fits(n, resp, won)
            /\ GoalFields \subseteq DOMAIN new /\ Placed(new.kind) /\ Meant(n, new.kind)
            /\ new = goal \/ new.kind = won.kind
<1> DEFINE cs == Candidates(w, n, resp)
           won == PickWinner(cs)
           new == Resolve(goal, cs, won)
<1>1. Offers(n, resp, cs) /\ cs # <<>>
  BY CandidatesOffer
<1> HIDE DEF cs
<1>2. PICK S : cs \in Seq(S) /\ \A c \in S : Fits(n, resp, c)
  BY <1>1 DEF Offers
<1>3. cs[1] \in S
  BY <1>1, <1>2
<1>4. B!Fold(cs[1], cs) \in S
  <2>1. \A t \in S, e \in S : Better(t, e) \in S
    BY DEF Better
  <2> QED BY <1>2, <1>3, <2>1, B!FoldType
<1>5. won \in S
  BY <1>4 DEF PickWinner, B!Fold, B!FoldLeft, B!MapThenFoldSet, B!Max, FoldLeft, MapThenFoldSet, Max
<1> HIDE DEF won
<1>6. Fits(n, resp, won)
  BY <1>2, <1>5
<1>7. new = goal \/ new = Adopted(won)
  BY DEF Resolve
<1>8. GoalFields \subseteq DOMAIN Adopted(won) /\ Adopted(won).kind = won.kind
  BY DEF Adopted, Goal, GoalFields
<1>9. new = Adopted(won) => GoalFields \subseteq DOMAIN new /\ Placed(new.kind) /\ Meant(n, new.kind)
  <2> SUFFICES ASSUME new = Adopted(won)
               PROVE  GoalFields \subseteq DOMAIN new /\ Placed(new.kind) /\ Meant(n, new.kind)
    OBVIOUS
  <2> HIDE DEF new
  <2> QED BY <1>6, <1>8 DEF Fits
<1>10. new # Adopted(won) => GoalFields \subseteq DOMAIN new /\ Placed(new.kind) /\ Meant(n, new.kind)
  <2> SUFFICES ASSUME new # Adopted(won)
               PROVE  GoalFields \subseteq DOMAIN new /\ Placed(new.kind) /\ Meant(n, new.kind)
    OBVIOUS
  <2>1. PICK i \in DOMAIN cs : Same(goal, cs[i])
    BY DEF Resolve
  <2>2. cs[i] \in S
    BY <1>2, <2>1
  <2>3. goal.kind = cs[i].kind
    BY <2>1 DEF Same
  <2>4. Placed(goal.kind) /\ Meant(n, goal.kind)
    BY <1>2, <2>2, <2>3 DEF Fits
  <2> HIDE DEF new
  <2> QED BY <1>7, <2>4
<1>11. new = goal \/ new.kind = won.kind
  <2> HIDE DEF new
  <2> QED BY <1>7, <1>8
<1> HIDE DEF new
<1> QED BY <1>6, <1>9, <1>10, <1>11 DEF new, won, cs

-----------------------------------------------------------------------------
(* Thinking.                                                               *)

(* Who heads for a place. *)
WhoFor(resp, side, cell) == {r.who : r \in {q \in resp : q.side = side /\ q.cell = cell}}
Whos == {Responder(n) : n \in Folk}
JoinedBy(resp, side, cell) ==
  {g \in Groups : <<"squad", g>> \in WhoFor(resp, side, cell) \ Bound(folk, side, cell) /\ ~Otherwise(g, cell)}
WithinCap(resp, side, cell) ==
  JoinedBy(resp, side, cell) = {}
  \/ Cardinality(Bound(folk, side, cell)) + Cardinality(JoinedBy(resp, side, cell)) <= GoalCfg.cap
Heading(resp) == Responders(folk) \subseteq resp /\ \A r \in resp : r.who \in Whos
Capped(resp) == \A side : \A cell \in Int : WithinCap(resp, side, cell)

(* The arbitration when the first k of the order have decided. *)
GoalDecided(w, k) ==
  /\ {"folk", "resp"} \subseteq DOMAIN w
  /\ SameBut(w.folk) /\ Heading(w.resp) /\ Capped(w.resp)
  /\ \A m \in Folk :
       /\ m > k => w.folk[m] = folk[m]
       /\ m <= k /\ folk[m].up /\ folk[m].on => Meant(m, w.folk[m].goal.kind)
       /\ \/ w.folk[m].goal.kind = folk[m].goal.kind
          \/ Responds(folk, m, w.folk[m].goal.kind) \subseteq w.resp

LEMMA WhosFinite == IsFiniteSet(Whos) /\ IsFiniteSet(Groups)
<1>1. ASSUME NEW f, f = [n \in Folk |-> Responder(n)] PROVE IsFiniteSet(Whos)
  <2>1. f \in Surjection(Folk, Whos)
    BY <1>1 DEF Surjection, Whos
  <2> QED BY <2>1, GoalAssumption, FS_Surjection
<1>2. ASSUME NEW f, f = [n \in Folk |-> FolkSquad[n]] PROVE IsFiniteSet(Groups)
  <2> DEFINE S == {FolkSquad[n] : n \in Folk}
  <2>1. f \in Surjection(Folk, S)
    BY <1>2 DEF Surjection
  <2>2. IsFiniteSet(S)
    <3> HIDE DEF S
    <3> QED BY <2>1, GoalAssumption, FS_Surjection
  <2> QED BY <2>2, FS_Subset DEF Groups
<1> QED BY <1>1, <1>2

LEMMA SpotSame ==
  ASSUME NEW w, SameBut(w), NEW n \in Folk, NEW kind
  PROVE  Spot(w, kind) = Spot(folk, kind) /\ Responds(w, n, kind) = Responds(folk, n, kind)
<1>1. Spot(w, kind) = Spot(folk, kind)
  BY DEF SameBut, AliveFields, SelfFields, Spot, IsUp
<1> QED BY <1>1 DEF Responds

(* Where a goal that fits takes a squad without other business: to an enemy,
   and within the cap. *)
LEMMA SpotOfFit ==
  ASSUME GoalTyped, NEW n \in Folk, NEW resp, NEW c, Fits(n, resp, c), NEW cell \in Int,
         Spot(folk, c.kind) = <<cell>>, FolkSquad[n] # 0, ~Otherwise(FolkSquad[n], cell)
  PROVE  CapOk(cell, n, resp)
<1> DEFINE g == FolkSquad[n]
<1>1. n \in Members(g)
  BY DEF Members
<1>2. CASE c.kind.k = "PursueTarget"
  <2>1. folk[n].aggro # <<>>
    BY <1>2 DEF Fits, Meant
  <2> QED BY <1>1, <2>1 DEF Otherwise
<1>3. CASE c.kind.k = "RegroupOnAlly"
  <2>1. boards[g].down # {}
    BY <1>3 DEF Fits, Meant
  <2> QED BY <2>1 DEF Otherwise
<1>4. CASE c.kind.k = "InvestigateAt"
  <2>1. c.kind.t = cell
    BY <1>4 DEF Spot
  <2>2. ~OnReport(n, cell)
    BY DEF OnReport, Otherwise
  <2> QED BY <1>4, <2>1, <2>2 DEF Fits
<1>5. CASE c.kind.k \notin {"PursueTarget", "RegroupOnAlly", "InvestigateAt"}
  <2>1. Spot(folk, c.kind) = <<>>
    BY <1>5 DEF Spot
  <2> QED BY <2>1
<1> QED BY <1>2, <1>3, <1>4, <1>5

LEMMA SpotIs ==
  ASSUME GoalTyped, NEW kind, Placed(kind)
  PROVE  Spot(folk, kind) = <<>> \/ \E cell \in Int : Spot(folk, kind) = <<cell>>
  BY DEF GoalTyped, Everyone, Someone, Spot, Placed, PlaceKinds, IsUp

LEMMA ThereIsFinite ==
  ASSUME NEW resp, Heading(resp), NEW side, NEW cell
  PROVE  /\ IsFiniteSet(WhoFor(resp, side, cell)) /\ IsFiniteSet(Bound(folk, side, cell))
         /\ IsFiniteSet(JoinedBy(resp, side, cell))
         /\ Bound(folk, side, cell) \subseteq WhoFor(resp, side, cell)
<1>1. WhoFor(resp, side, cell) \subseteq Whos /\ Bound(folk, side, cell) \subseteq WhoFor(resp, side, cell)
  BY DEF Heading, WhoFor, Bound
<1>2. JoinedBy(resp, side, cell) \subseteq Groups
  BY DEF JoinedBy
<1> QED BY <1>1, <1>2, WhosFinite, FS_Subset

(* One more squad joins where fewer than the cap are. *)
LEMMA OneMore ==
  ASSUME NEW resp, Heading(resp), NEW side, NEW cell, NEW g,
         Cardinality(WhoFor(resp, side, cell)) < GoalCfg.cap
  PROVE  Cardinality(Bound(folk, side, cell)) + Cardinality(JoinedBy(resp, side, cell) \cup {g}) <= GoalCfg.cap
<1> DEFINE J == JoinedBy(resp, side, cell)
           Bs == Bound(folk, side, cell)
           W == WhoFor(resp, side, cell)
           Js == {<<"squad", h>> : h \in J}
<1>1. IsFiniteSet(W) /\ IsFiniteSet(Bs) /\ IsFiniteSet(J) /\ Bs \subseteq W
  BY ThereIsFinite
<1>2. Js \subseteq W /\ Bs \cap Js = {}
  BY DEF JoinedBy
<1>3. IsFiniteSet(Js) /\ Cardinality(J) <= Cardinality(Js)
  <2>1. IsFiniteSet(Js)
    BY <1>1, <1>2, FS_Subset
  <2>2. PICK f : f = [h \in J |-> <<"squad", h>>]
    OBVIOUS
  <2>3. f \in Injection(J, Js)
    BY <2>2 DEF Injection, IsInjective
  <2> HIDE DEF J, Js
  <2> QED BY <2>1, <2>3, FS_Injection
<1> HIDE DEF J, Bs, W, Js
<1>4. Cardinality(Bs \cup Js) = Cardinality(Bs) + Cardinality(Js) - Cardinality(Bs \cap Js)
  BY <1>1, <1>3, FS_Union
<1>5. Cardinality(Bs \cap Js) = 0
  BY <1>2, FS_EmptySet
<1>6. Cardinality(Bs \cup Js) <= Cardinality(W)
  BY <1>1, <1>2, FS_Subset
<1>7. Cardinality(J \cup {g}) <= Cardinality(J) + 1
  <2>1. Cardinality(J) \in Nat
    BY <1>1, FS_CardinalityType
  <2>2. Cardinality(J \cup {g}) = IF g \in J THEN Cardinality(J) ELSE Cardinality(J) + 1
    BY <1>1, FS_AddElement
  <2> QED BY <2>1, <2>2
<1>8. /\ Cardinality(J) \in Nat /\ Cardinality(Js) \in Nat /\ Cardinality(Bs) \in Nat /\ Cardinality(W) \in Nat
      /\ Cardinality(J \cup {g}) \in Nat
  BY <1>1, <1>3, FS_CardinalityType, FS_AddElement
<1>9. GoalCfg.cap \in Nat /\ Cardinality(W) < GoalCfg.cap
  BY GoalAssumption DEF W
<1>10. Cardinality(Bs) + Cardinality(J \cup {g}) <= GoalCfg.cap
  BY <1>3, <1>4, <1>5, <1>6, <1>7, <1>8, <1>9
<1> QED BY <1>10 DEF J, Bs

(* Someone decides: those who join stay within the cap. *)
LEMMA JoinKeepsCap ==
  ASSUME GoalTyped, NEW resp, Heading(resp), Capped(resp), NEW n \in Folk, NEW c, Fits(n, resp, c),
         NEW w, SameBut(w)
  PROVE  LET new == resp \cup Responds(w, n, c.kind) IN Heading(new) /\ Capped(new)
<1> DEFINE new == resp \cup Responds(w, n, c.kind)
<1>1. Responds(w, n, c.kind) = Responds(folk, n, c.kind)
  BY SpotSame
<1>2. CASE Spot(folk, c.kind) = <<>>
  <2>1. new = resp
    BY <1>1, <1>2 DEF Responds
  <2> QED BY <2>1
<1>3. ASSUME NEW there \in Int, Spot(folk, c.kind) = <<there>>
      PROVE  Heading(new) /\ Capped(new)
  <2>1. PICK r : r = [side |-> FolkSide[n], cell |-> there, who |-> Responder(n)]
    OBVIOUS
  <2>2. new = resp \cup {r} /\ r.side = FolkSide[n] /\ r.cell = there /\ r.who = Responder(n)
    BY <1>1, <1>3, <2>1 DEF Responds
  <2> HIDE DEF new
  <2>3. Heading(new)
    BY <2>2 DEF Heading, Whos
  <2>4. ASSUME NEW side, NEW cell \in Int PROVE WithinCap(new, side, cell)
    <3> DEFINE old == JoinedBy(resp, side, cell)
               g == FolkSquad[n]
    <3>1. WithinCap(resp, side, cell)
      BY DEF Capped
    <3>2. WhoFor(new, side, cell) = IF side = FolkSide[n] /\ cell = there THEN WhoFor(resp, side, cell) \cup {Responder(n)}
                                    ELSE WhoFor(resp, side, cell)
      BY <2>2 DEF WhoFor
    <3>3. CASE JoinedBy(new, side, cell) = old
      BY <3>1, <3>3 DEF WithinCap
    <3>4. CASE JoinedBy(new, side, cell) # old
      <4>1. WhoFor(new, side, cell) # WhoFor(resp, side, cell)
        BY <3>4 DEF JoinedBy
      <4>2. side = FolkSide[n] /\ cell = there /\ WhoFor(new, side, cell) = WhoFor(resp, side, cell) \cup {Responder(n)}
            /\ Responder(n) \notin WhoFor(resp, side, cell)
        BY <3>2, <4>1
      <4>3. PICK h \in JoinedBy(new, side, cell) : h \notin old
        BY <3>4, <4>2 DEF JoinedBy
      <4>4. Responder(n) = <<"squad", h>> /\ ~Otherwise(h, cell)
        BY <4>2, <4>3 DEF JoinedBy
      <4>5. h = g /\ g # 0
        BY <4>4 DEF Responder
      <4>6. ASSUME NEW k \in JoinedBy(new, side, cell) PROVE k \in old \cup {g}
        <5>1. CASE <<"squad", k>> \in WhoFor(resp, side, cell)
          BY <5>1 DEF JoinedBy
        <5>2. CASE <<"squad", k>> = Responder(n)
          BY <4>4, <4>5, <5>2
        <5> QED BY <4>2, <5>1, <5>2 DEF JoinedBy
      <4>7. CapOk(cell, n, resp)
        BY <1>3, <4>2, <4>4, <4>5, SpotOfFit
      <4>8. Cardinality(WhoFor(resp, side, cell)) < GoalCfg.cap
        BY <4>2, <4>7 DEF CapOk, WhoFor
      <4>9. Cardinality(Bound(folk, side, cell)) + Cardinality(old \cup {g}) <= GoalCfg.cap
        BY <4>8, OneMore
      <4>10. IsFiniteSet(old) /\ IsFiniteSet(Bound(folk, side, cell))
        BY ThereIsFinite
      <4>11. IsFiniteSet(old \cup {g})
        BY <4>10, FS_AddElement
      <4>12. Cardinality(JoinedBy(new, side, cell)) <= Cardinality(old \cup {g}) /\ IsFiniteSet(JoinedBy(new, side, cell))
        BY <4>6, <4>11, FS_Subset
      <4>13. Cardinality(JoinedBy(new, side, cell)) \in Nat /\ Cardinality(old \cup {g}) \in Nat
             /\ Cardinality(Bound(folk, side, cell)) \in Nat /\ GoalCfg.cap \in Nat
        BY <4>10, <4>11, <4>12, FS_CardinalityType, GoalAssumption
      <4> QED BY <4>9, <4>12, <4>13 DEF WithinCap
    <3> QED BY <3>3, <3>4
  <2> QED BY <2>3, <2>4 DEF Capped
<1>4. Placed(c.kind)
  BY DEF Fits
<1> HIDE DEF new
<1>5. Heading(new) /\ Capped(new)
  BY <1>2, <1>3, <1>4, SpotIs DEF new
<1> QED BY <1>5 DEF new

LEMMA ThinkOneKeeps ==
  ASSUME GoalTyped, NEW k \in Nat, NEW w, GoalDecided(w, k)
  PROVE  GoalDecided(ThinkOne(w, k + 1), k + 1)
<1> DEFINE n == k + 1
           v == ThinkOne(w, n)
<1>1. /\ {"folk", "resp"} \subseteq DOMAIN w
      /\ SameBut(w.folk) /\ Heading(w.resp) /\ Capped(w.resp)
  BY DEF GoalDecided
<1>2. \A m \in Folk : m \in Int /\ (m > k => m > n \/ m = n) /\ (m <= n => m <= k \/ m = n) /\ (m > n => m > k)
  BY GoalAssumption
<1>3. CASE ~(n \in Folk /\ w.folk[n].up /\ w.folk[n].on)
  <2>1. v = w
    BY <1>3 DEF ThinkOne, IsUp
  <2>2. n \in Folk => ~(folk[n].up /\ folk[n].on)
    BY <1>1, <1>3 DEF SameBut, AliveFields, SelfFields
  <2>3. \A m \in Folk : m <= n /\ folk[m].up /\ folk[m].on => m <= k
    BY <1>2, <2>2
  <2> HIDE DEF v
  <2>4. GoalDecided(w, n)
    BY <1>2, <2>3 DEF GoalDecided
  <2> QED BY <2>1, <2>4 DEF v
<1>4. CASE n \in Folk /\ w.folk[n].up /\ w.folk[n].on
  <2> DEFINE cs == Candidates(w.folk, n, w.resp)
             won == PickWinner(cs)
             goal == w.folk[n].goal
             new == Resolve(goal, cs, won)
             p == [w.folk[n] EXCEPT !.goal = new]
  <2>1. v = [folk |-> [w.folk EXCEPT ![n].goal = new], resp |-> w.resp \cup Responds(w.folk, n, won.kind)]
    BY <1>4, Zenon DEF ThinkOne, IsUp
  <2>2. Someone(w.folk[n]) /\ DOMAIN w.folk = Folk
    BY <1>1, <1>4 DEF SameBut, Everyone
  <2>3. GoalFields \subseteq DOMAIN goal
    BY <2>2 DEF Someone
  <2>4. /\ Fits(n, w.resp, won)
        /\ GoalFields \subseteq DOMAIN new /\ Placed(new.kind) /\ Meant(n, new.kind)
        /\ new = goal \/ new.kind = won.kind
    BY <1>1, <1>4, <2>3, ResolvedFits
  <2> HIDE DEF won, new, cs
  <2>5. {"folk", "resp"} \subseteq DOMAIN v /\ v.folk = [w.folk EXCEPT ![n].goal = new]
        /\ v.resp = w.resp \cup Responds(w.folk, n, won.kind)
    BY <2>1
  <2>6. Heading(v.resp) /\ Capped(v.resp)
    BY <1>1, <1>4, <2>4, <2>5, JoinKeepsCap
  <2>7. DOMAIN v.folk = Folk /\ v.folk[n] = p /\ \A m \in Folk : m # n => v.folk[m] = w.folk[m]
    BY <1>4, <2>2, <2>5
  <2>8. /\ Someone(p) /\ p.goal = new
        /\ \A f \in AliveFields : p[f] = w.folk[n][f]
    <3>1. DOMAIN p = DOMAIN w.folk[n] /\ p.goal = new /\ \A f \in AliveFields : p[f] = w.folk[n][f]
      BY <2>2 DEF Someone, AliveFields, SelfFields
    <3> HIDE DEF p
    <3> QED BY <2>2, <2>4, <3>1 DEF Someone, AliveFields, SelfFields
  <2>9. SameBut(v.folk)
    <3> HIDE DEF v, p
    <3> QED BY <1>1, <1>4, <2>7, <2>8 DEF SameBut, Everyone
  <2>10. ASSUME NEW m \in Folk
         PROVE  /\ m > n => v.folk[m] = folk[m]
                /\ m <= n /\ folk[m].up /\ folk[m].on => Meant(m, v.folk[m].goal.kind)
                /\ \/ v.folk[m].goal.kind = folk[m].goal.kind
                   \/ Responds(folk, m, v.folk[m].goal.kind) \subseteq v.resp
    <3> HIDE DEF v, p
    <3>1. CASE m # n
      BY <1>2, <2>5, <2>7, <3>1 DEF GoalDecided
    <3>2. CASE m = n
      <4>1. goal = folk[n].goal
        BY <1>2, <1>4 DEF GoalDecided
      <4>2. Responds(w.folk, n, won.kind) = Responds(folk, n, won.kind)
        BY <1>1, <1>4, SpotSame
      <4> QED BY <1>2, <2>4, <2>5, <2>7, <2>8, <3>2, <4>1, <4>2
    <3> QED BY <3>1, <3>2
  <2> HIDE DEF v
  <2>11. GoalDecided(v, n)
    BY <2>5, <2>6, <2>9, <2>10 DEF GoalDecided
  <2> QED BY <2>11 DEF v
<1> QED BY <1>3, <1>4

(* At the start nobody has decided. *)
LEMMA NobodyDecided == GoalTyped => GoalDecided([folk |-> folk, resp |-> Responders(folk)], 0)
<1> SUFFICES ASSUME GoalTyped PROVE GoalDecided([folk |-> folk, resp |-> Responders(folk)], 0)
  OBVIOUS
<1> DEFINE w == [folk |-> folk, resp |-> Responders(folk)]
<1>1. {"folk", "resp"} \subseteq DOMAIN w /\ w.folk = folk /\ w.resp = Responders(folk)
  OBVIOUS
<1>2. SameBut(folk)
  BY DEF SameBut, GoalTyped
<1>3. Heading(Responders(folk))
  BY DEF Heading, Responders, Responds, Whos
<1>4. Capped(Responders(folk))
  <2>1. \A side, cell : WhoFor(Responders(folk), side, cell) = Bound(folk, side, cell)
    BY DEF WhoFor, Bound
  <2>2. \A side, cell : JoinedBy(Responders(folk), side, cell) = {}
    BY <2>1 DEF JoinedBy
  <2> QED BY <2>2 DEF Capped, WithinCap
<1>5. \A m \in Folk : ~(m <= 0)
  BY GoalAssumption
<1> HIDE DEF w
<1>6. GoalDecided(w, 0)
  BY <1>1, <1>2, <1>3, <1>4, <1>5 DEF GoalDecided
<1> QED BY <1>6 DEF w

T == INSTANCE SequenceLemmas WITH Op <- ThinkOne

LEMMA AllDecided ==
  ASSUME GoalTyped
  PROVE  GoalDecided(FoldLeft(ThinkOne, [folk |-> folk, resp |-> Responders(folk)], Ordered), Top)
<1> DEFINE b == [folk |-> folk, resp |-> Responders(folk)]
<1>1. T!Fold(b, Ordered) = FoldLeft(ThinkOne, b, Ordered)
  BY DEF T!Fold, T!FoldLeft, T!MapThenFoldSet, T!Max, FoldLeft, MapThenFoldSet, Max
<1>2. GoalDecided(b, 0)
  BY NobodyDecided
<1> HIDE DEF b
<1>3. PICK v : T!Folding(v, b, Ordered, Top) /\ T!Fold(b, Ordered) = v[Top]
  BY OrderedIs, TopIs, T!FoldLeftIs
<1> DEFINE P == {k \in Nat : k <= Top => GoalDecided(v[k], k)}
<1>4. 0 \in P
  BY <1>2, <1>3 DEF T!Folding
<1>5. ASSUME NEW k \in P PROVE k + 1 \in P
  <2> SUFFICES ASSUME k + 1 <= Top PROVE GoalDecided(v[k + 1], k + 1)
    OBVIOUS
  <2>1. k + 1 \in 1 .. Top /\ k \in Nat /\ k <= Top /\ (k + 1) - 1 = k
    BY TopIs
  <2>2. v[k + 1] = ThinkOne(v[k], k + 1)
    BY <1>3, <2>1, OrderedIs DEF T!Folding
  <2> QED BY <2>1, <2>2, ThinkOneKeeps
<1> HIDE DEF P
<1>6. P = Nat
  BY <1>4, <1>5, SetInduction DEF P
<1>7. GoalDecided(v[Top], Top)
  BY <1>6, TopIs DEF P
<1> QED BY <1>1, <1>3, <1>7 DEF b

(* An arbitration: everyone's goal is meant, and the cap holds. *)
LEMMA ThinkKeeps ==
  ASSUME GoalInv, Think
  PROVE  GoalInv' /\ CapHeld
<1> DEFINE w == FoldLeft(ThinkOne, [folk |-> folk, resp |-> Responders(folk)], Ordered)
<1>1. GoalTyped /\ folk' = w.folk /\ stage = "think" /\ stage' = "act"
      /\ UNCHANGED <<pace, boards, tasks, begun, bodies, script, stirs>>
  BY DEF GoalInv, Think
<1>2. GoalDecided(w, Top)
  BY <1>1, AllDecided
<1> HIDE DEF w
<1>3. SameBut(folk') /\ Heading(w.resp) /\ Capped(w.resp)
  BY <1>1, <1>2 DEF GoalDecided
<1>4. GoalTyped'
  BY <1>1, <1>3 DEF GoalTyped, SameBut
<1>5. \A m \in Folk : \A f \in AliveFields : folk'[m][f] = folk[m][f]
  BY <1>3 DEF SameBut
<1>6. ASSUME NEW m \in Folk, NEW kind, Meant(m, kind) PROVE Meant(m, kind)'
  <2>1. \A t : LiveTarget(folk, m, t) => LiveTarget(folk, m, t)'
    BY <1>5 DEF LiveTarget, IsUp, AliveFields, SelfFields
  <2>2. folk'[m].aggro = folk[m].aggro /\ folk'[m].vital = folk[m].vital
    BY <1>5 DEF AliveFields, SelfFields
  <2> QED BY <1>1, <1>6, <2>1, <2>2 DEF Meant
<1>7. GoalsAreMeant'
  <2> SUFFICES ASSUME NEW m \in Folk, folk'[m].up, folk'[m].on PROVE Meant(m, folk[m].goal.kind)'
    BY DEF GoalsAreMeant
  <2>1. folk[m].up /\ folk[m].on /\ m <= Top
    BY <1>5, TopIs DEF AliveFields, SelfFields
  <2>2. Meant(m, w.folk[m].goal.kind)
    BY <1>2, <2>1 DEF GoalDecided
  <2> QED BY <1>1, <1>6, <2>2
<1>8. CapHeld
  <2> SUFFICES ASSUME NEW n \in Folk, NEW m0 \in Folk, NEW cell, cell = folk[m0].x
               PROVE  LET J == Joiners(FolkSide[n], cell)
                      IN J = {} \/ Cardinality(Bound(folk, FolkSide[n], cell)) + Cardinality(J) <= GoalCfg.cap
    BY DEF CapHeld
  <2> DEFINE side == FolkSide[n]
             J == Joiners(side, cell)
             K == JoinedBy(w.resp, side, cell)
  <2>1. cell \in Int
    BY <1>1 DEF GoalTyped, Everyone, Someone
  <2>2. ASSUME NEW g \in J PROVE g \in K
    <3>1. g \in Groups /\ <<"squad", g>> \in Bound(folk', side, cell) /\ <<"squad", g>> \notin Bound(folk, side, cell)
          /\ ~Otherwise(g, cell)
      BY DEF Joiners
    <3>2. PICK r \in Responders(folk') : r.side = side /\ r.cell = cell /\ r.who = <<"squad", g>>
      BY <3>1 DEF Bound
    <3>3. PICK m \in Folk : folk'[m].up /\ r \in Responds(folk', m, folk'[m].goal.kind)
      BY <3>2 DEF Responders
    <3>4. r \in Responds(folk, m, folk'[m].goal.kind) /\ folk[m].up
      BY <1>3, <1>5, <3>3, SpotSame DEF AliveFields, SelfFields
    <3>5. CASE folk'[m].goal.kind = folk[m].goal.kind
      <4>1. r \in Responders(folk)
        BY <3>4, <3>5 DEF Responders
      <4>2. r.who \in Bound(folk, side, cell)
        BY <3>2, <4>1 DEF Bound
      <4> QED BY <3>1, <3>2, <4>2
    <3>6. CASE Responds(folk, m, folk'[m].goal.kind) \subseteq w.resp
      <4>1. <<"squad", g>> \in WhoFor(w.resp, side, cell)
        BY <3>2, <3>4, <3>6 DEF WhoFor
      <4> QED BY <3>1, <4>1 DEF JoinedBy
    <3> QED BY <1>1, <1>2, <3>5, <3>6 DEF GoalDecided
  <2>3. WithinCap(w.resp, side, cell)
    BY <1>3, <2>1 DEF Capped
  <2>4. IsFiniteSet(K) /\ IsFiniteSet(Bound(folk, side, cell))
    BY <1>3, ThereIsFinite
  <2>5. IsFiniteSet(J) /\ Cardinality(J) <= Cardinality(K)
    BY <2>2, <2>4, FS_Subset
  <2>6. K = {} => J = {}
    BY <2>2
  <2> HIDE DEF J, K
  <2>7. Cardinality(J) \in Nat /\ Cardinality(K) \in Nat /\ Cardinality(Bound(folk, side, cell)) \in Nat
        /\ GoalCfg.cap \in Nat
    BY <2>4, <2>5, FS_CardinalityType, GoalAssumption
  <2>8. J = {} \/ Cardinality(Bound(folk, side, cell)) + Cardinality(J) <= GoalCfg.cap
    BY <2>3, <2>5, <2>6, <2>7 DEF WithinCap, K
  <2> QED BY <2>8 DEF J
<1> QED BY <1>4, <1>7, <1>8 DEF GoalInv

-----------------------------------------------------------------------------
(* Acting.                                                                 *)

(* A squad's task as this tick has left it when those up to m have acted: moved
   past places at which the squad is, and past one for each of them at most. *)
StageMoved(ts, g, m) ==
  /\ TaskTyped(ts[g]) /\ ts[g].route = tasks[g].route
  /\ \E k \in 0 .. Cardinality(Members(g) \cap 1 .. m) : Passes(g, ts[g].idx, k)
Acted(w, m) ==
  /\ {"folk", "tasks", "begun", "asked"} \subseteq DOMAIN w
  /\ Everyone(w.folk)
  /\ DOMAIN w.tasks = Groups /\ \A g \in Groups : StageMoved(w.tasks, g, m)

(* Two states of a tick that differ in one person at most. *)
LEMMA ActedOne ==
  ASSUME NEW k, NEW w, Acted(w, k), NEW n \in Folk, NEW v, DOMAIN v = DOMAIN w, v.tasks = w.tasks,
         DOMAIN v.folk = Folk, \A m \in Folk : m # n => v.folk[m] = w.folk[m], Someone(v.folk[n])
  PROVE  Acted(v, k)
<1>1. Everyone(v.folk)
  BY DEF Acted, Everyone
<1> QED BY <1>1 DEF Acted

LEMMA DoesKeeps ==
  ASSUME NEW k, NEW w, Acted(w, k), NEW n \in Folk, NEW e, e.k = "MoveTo" => e.x \in Int
  PROVE  Acted(Does(w, n, e), k)
<1> DEFINE v == Does(w, n, e)
           p == [w.folk[n] EXCEPT !.errand = e]
<1>1. "folk" \in DOMAIN w /\ DOMAIN w.folk = Folk /\ Someone(w.folk[n])
  BY DEF Acted, Everyone
<1>2. Someone(p)
  <2>1. DOMAIN p = DOMAIN w.folk[n] /\ p.errand = e /\ p.goal = w.folk[n].goal /\ p.x = w.folk[n].x
    BY <1>1 DEF Someone, SelfFields
  <2> HIDE DEF p
  <2> QED BY <1>1, <2>1 DEF Someone
<1>3. v = [w EXCEPT !.folk[n].errand = e]
  BY DEF Does
<1>4. DOMAIN v = DOMAIN w /\ v.tasks = w.tasks /\ DOMAIN v.folk = Folk /\ v.folk[n] = p
      /\ \A m \in Folk : m # n => v.folk[m] = w.folk[m]
  BY <1>1, <1>3 DEF Acted
<1> HIDE DEF v, p
<1>5. Acted(v, k)
  BY <1>2, <1>4, ActedOne
<1> QED BY <1>5 DEF v

LEMMA TowardType == ASSUME NEW x \in Int, NEW to \in Int PROVE Toward(x, to) \in Int
  BY DEF Toward

LEMMA AdvanceKeeps ==
  ASSUME NEW k, NEW w, Acted(w, k), NEW n \in Folk, NEW to \in Int
  PROVE  Acted(Advance(w, n, to), k) /\ Advance(w, n, to).tasks = w.tasks
<1> DEFINE v == Advance(w, n, to)
           asks == NeedsPath(w.folk[n].path, to) /\ Cardinality(w.asked) < GoalCfg.budget
           asked == IF asks THEN w.asked \cup {[who |-> n, to |-> to]} ELSE w.asked
           x == Toward(w.folk[n].x, to)
           p == [w.folk[n] EXCEPT !.x = x]
<1>1. {"folk", "asked", "tasks"} \subseteq DOMAIN w /\ DOMAIN w.folk = Folk /\ Someone(w.folk[n])
  BY DEF Acted, Everyone
<1>2. CASE w.folk[n].x = to
  BY <1>2 DEF Advance
<1>3. CASE w.folk[n].x # to
  <2>1. v = [w EXCEPT !.folk[n].x = x, !.asked = asked]
    BY <1>3, Zenon DEF Advance
  <2>2. x \in Int
    BY <1>1, TowardType DEF Someone
  <2> HIDE DEF x, asked
  <2>3. Someone(p)
    <3>1. DOMAIN p = DOMAIN w.folk[n] /\ p.errand = w.folk[n].errand /\ p.goal = w.folk[n].goal /\ p.x = x
      BY <1>1 DEF Someone, SelfFields
    <3> HIDE DEF p
    <3> QED BY <1>1, <2>2, <3>1 DEF Someone
  <2>4. DOMAIN v = DOMAIN w /\ v.tasks = w.tasks /\ DOMAIN v.folk = Folk /\ v.folk[n] = p
        /\ \A m \in Folk : m # n => v.folk[m] = w.folk[m]
    BY <1>1, <2>1
  <2> HIDE DEF v, p
  <2>5. Acted(v, k)
    BY <2>3, <2>4, ActedOne
  <2> QED BY <2>4, <2>5 DEF v
<1> QED BY <1>2, <1>3

LEMMA MoveTo == ASSUME NEW to \in Int PROVE Errand("MoveTo", to).k = "MoveTo" => Errand("MoveTo", to).x \in Int
  BY DEF Errand
LEMMA Waits == ASSUME NEW k, k # "MoveTo", NEW x PROVE Errand(k, x).k = "MoveTo" => Errand(k, x).x \in Int
  BY DEF Errand

LEMMA SettleAtKeeps ==
  ASSUME NEW k, NEW w, Acted(w, k), NEW n \in Folk, NEW to \in Int
  PROVE  Acted(SettleAt(w, n, to), k)
  BY AdvanceKeeps, DoesKeeps, MoveTo, Waits DEF SettleAt

LEMMA GoToKeeps ==
  ASSUME NEW k, NEW w, Acted(w, k), NEW n \in Folk, NEW to \in Int
  PROVE  Acted(GoTo(w, n, to), k)
<1> DEFINE walked == Advance(w, n, to)
           e == IF walked.folk[n].x = to THEN Errand("RestAt", pace + GoalCfg.pause) ELSE Errand("MoveTo", to)
<1>1. GoTo(w, n, to) = Does(walked, n, e)
  BY DEF GoTo
<1>2. Acted(walked, k)
  BY AdvanceKeeps
<1>3. e.k = "MoveTo" => e.x \in Int
  BY MoveTo, Waits
<1> HIDE DEF walked, e
<1> QED BY <1>1, <1>2, <1>3, DoesKeeps

LEMMA SoloTargetType == ASSUME GoalTyped, NEW n \in Folk PROVE SoloTarget(n) \in Int
<1> DEFINE own == {c \in DOMAIN BaseAt : BaseAt[c] = FolkSide[n]}
           pool == IF own # {} THEN own ELSE DOMAIN BaseAt
           least == CHOOSE c \in pool : \A d \in pool : c <= d
<1>1. SoloTarget(n) = IF pool = {} THEN folk[n].x ELSE least
  BY Zenon DEF SoloTarget
<1>2. folk[n].x \in Int
  BY DEF GoalTyped, Everyone, Someone
<1>3. pool \in SUBSET Int /\ IsFiniteSet(pool)
  <2>1. pool \subseteq DOMAIN BaseAt
    OBVIOUS
  <2> QED BY <2>1, GoalAssumption, FS_Subset
<1> HIDE DEF pool
<1>4. pool # {} => least \in pool
  <2> SUFFICES ASSUME pool # {} PROVE least \in pool
    OBVIOUS
  <2>1. \E c \in pool : \A d \in pool : c <= d
    BY <1>3, FiniteBounded, LeastIn
  <2> QED BY <2>1, Zenon
<1> HIDE DEF least
<1> QED BY <1>1, <1>2, <1>3, <1>4

LEMMA SoloIdleKeeps ==
  ASSUME GoalTyped, NEW k, NEW w, Acted(w, k), NEW n \in Folk
  PROVE  Acted(SoloIdle(w, n), k)
<1> DEFINE e == w.folk[n].errand
<1>1. e.k = "MoveTo" => e.x \in Int
  BY DEF Acted, Everyone, Someone
<1>2. \/ SoloIdle(w, n) = w
      \/ SoloIdle(w, n) = Does(w, n, Errand("MoveTo", SoloTarget(n)))
      \/ SoloIdle(w, n) = Does(w, n, Errand("Idle", pace + GoalCfg.pause))
      \/ SoloIdle(w, n) = Does(w, n, Errand("RestAt", pace + GoalCfg.pause))
      \/ e.k = "MoveTo" /\ SoloIdle(w, n) = Advance(w, n, e.x)
  BY DEF SoloIdle
<1>3. Acted(Does(w, n, Errand("MoveTo", SoloTarget(n))), k)
  BY SoloTargetType, MoveTo, DoesKeeps
<1>4. Acted(Does(w, n, Errand("Idle", pace + GoalCfg.pause)), k)
  <2>1. PICK d : d = Errand("Idle", pace + GoalCfg.pause)
    OBVIOUS
  <2> QED BY <2>1, Waits, DoesKeeps
<1>5. Acted(Does(w, n, Errand("RestAt", pace + GoalCfg.pause)), k)
  <2>1. PICK d : d = Errand("RestAt", pace + GoalCfg.pause)
    OBVIOUS
  <2> QED BY <2>1, Waits, DoesKeeps
<1>6. e.k = "MoveTo" => Acted(Advance(w, n, e.x), k)
  BY <1>1, AdvanceKeeps
<1> QED BY <1>2, <1>3, <1>4, <1>5, <1>6

LEMMA PursueKeeps ==
  ASSUME GoalTyped, NEW k, NEW w, Acted(w, k), NEW n \in Folk
  PROVE  Acted(Pursue(w, n), k)
<1> DEFINE p == w.folk[n]
           t == p.goal.kind.t
           since == IF p.goal.pp = <<>> THEN [x |-> p.x, at |-> pace] ELSE p.goal.pp[1]
           late == pace - since.at >= GoalCfg.timeout
           stuck == Gap(since.x, folk[t].x) - Gap(p.x, folk[t].x) < 1
           seen == IF late THEN [x |-> p.x, at |-> pace] ELSE since
           v1 == [w EXCEPT !.folk[n].aggro = <<>>, !.folk[n].goal.pp = <<>>]
           v2 == [w EXCEPT !.folk[n].goal.pp = <<seen>>]
           to == StandAt(p, folk[t].x)
           rest == Errand("RestAt", pace + GoalCfg.pause)
<1>1. Pursue(w, n) = IF ~LiveTarget(folk, n, t) THEN w
                     ELSE IF late /\ stuck THEN v1 ELSE Does(Advance(v2, n, to), n, rest)
  BY Zenon DEF Pursue
<1>2. {"folk", "tasks"} \subseteq DOMAIN w /\ DOMAIN w.folk = Folk /\ Someone(p)
  BY DEF Acted, Everyone
<1>3. Acted(v1, k)
  <2> DEFINE q == [p EXCEPT !.aggro = <<>>, !.goal.pp = <<>>]
  <2>1. Someone(q)
    <3>1. DOMAIN q = DOMAIN p /\ q.x = p.x /\ q.errand = p.errand /\ DOMAIN q.goal = DOMAIN p.goal /\ q.goal.kind = p.goal.kind
      BY <1>2 DEF Someone, SelfFields, GoalFields
    <3> HIDE DEF q, p
    <3> QED BY <1>2, <3>1 DEF Someone
  <2>2. DOMAIN v1 = DOMAIN w /\ v1.tasks = w.tasks /\ DOMAIN v1.folk = Folk /\ v1.folk[n] = q
        /\ \A m \in Folk : m # n => v1.folk[m] = w.folk[m]
    BY <1>2
  <2> HIDE DEF v1, q
  <2> QED BY <2>1, <2>2, ActedOne
<1>4. Acted(v2, k)
  <2> HIDE DEF seen
  <2> DEFINE q == [p EXCEPT !.goal.pp = <<seen>>]
  <2>1. Someone(q)
    <3>1. DOMAIN q = DOMAIN p /\ q.x = p.x /\ q.errand = p.errand /\ DOMAIN q.goal = DOMAIN p.goal /\ q.goal.kind = p.goal.kind
      BY <1>2 DEF Someone, SelfFields, GoalFields
    <3> HIDE DEF q, p
    <3> QED BY <1>2, <3>1 DEF Someone
  <2>2. DOMAIN v2 = DOMAIN w /\ v2.tasks = w.tasks /\ DOMAIN v2.folk = Folk /\ v2.folk[n] = q
        /\ \A m \in Folk : m # n => v2.folk[m] = w.folk[m]
    BY <1>2
  <2> HIDE DEF v2, q
  <2> QED BY <2>1, <2>2, ActedOne
<1>5. LiveTarget(folk, n, t) => to \in Int
  <2> SUFFICES ASSUME LiveTarget(folk, n, t) PROVE to \in Int
    OBVIOUS
  <2>1. t \in Folk
    BY DEF LiveTarget, IsUp
  <2>2. folk[t].x \in Int /\ p.x \in Int
    BY <1>2, <2>1 DEF GoalTyped, Everyone, Someone
  <2> HIDE DEF p, t
  <2> QED BY <2>2, GoalAssumption DEF StandAt
<1>6. rest.k = "MoveTo" => rest.x \in Int
  BY Waits
<1> HIDE DEF v1, v2, to, rest, late, stuck, t
<1>7. LiveTarget(folk, n, t) => Acted(Does(Advance(v2, n, to), n, rest), k)
  BY <1>4, <1>5, <1>6, AdvanceKeeps, DoesKeeps
<1> QED BY <1>1, <1>3, <1>7

(* The place after a place. *)
LEMMA NextPlace == ASSUME NEW l \in Nat \ {0}, NEW i \in 1 .. l PROVE (i % l) + 1 \in 1 .. l
<1>1. i % l \in 0 .. l - 1
  OBVIOUS
<1> QED BY <1>1

(* The members among the first k, and one more. *)
LEMMA MembersSoFar ==
  ASSUME NEW g, NEW k \in Nat
  PROVE  /\ Cardinality(Members(g) \cap 1 .. k) \in Nat
         /\ Cardinality(Members(g) \cap 1 .. k) <= Cardinality(Members(g) \cap 1 .. k + 1)
         /\ k + 1 \in Members(g) =>
              Cardinality(Members(g) \cap 1 .. k + 1) = Cardinality(Members(g) \cap 1 .. k) + 1
<1> DEFINE S == Members(g) \cap 1 .. k
           W == Members(g) \cap 1 .. k + 1
<1>1. Members(g) \subseteq Folk /\ IsFiniteSet(Folk)
  BY GoalAssumption DEF Members
<1>2. IsFiniteSet(S) /\ IsFiniteSet(W) /\ S \subseteq W
  BY <1>1, FS_Subset
<1>3. k + 1 \in Members(g) => W = S \cup {k + 1} /\ k + 1 \notin S
  OBVIOUS
<1> HIDE DEF S, W
<1>4. Cardinality(S) \in Nat /\ Cardinality(S) <= Cardinality(W)
  BY <1>2, FS_CardinalityType, FS_Subset
<1>5. k + 1 \in Members(g) => Cardinality(W) = Cardinality(S) + 1
  BY <1>2, <1>3, FS_AddElement
<1> QED BY <1>4, <1>5 DEF S, W

LEMMA ActedMore ==
  ASSUME NEW k \in Nat, NEW w, Acted(w, k)
  PROVE  Acted(w, k + 1)
<1>1. ASSUME NEW g \in Groups PROVE StageMoved(w.tasks, g, k + 1)
  <2>1. StageMoved(w.tasks, g, k)
    BY DEF Acted
  <2>2. PICK c \in Nat, d \in Nat : /\ c = Cardinality(Members(g) \cap 1 .. k) /\ c <= d
                                    /\ d = Cardinality(Members(g) \cap 1 .. k + 1)
    <3>1. Cardinality(Members(g) \cap 1 .. k + 1) \in Nat
      <4>1. k + 1 \in Nat
        OBVIOUS
      <4> QED BY <4>1, MembersSoFar
    <3> QED BY <3>1, MembersSoFar
  <2>3. \A j \in 0 .. c : j \in 0 .. d
    BY <2>2
  <2> QED BY <2>1, <2>2, <2>3 DEF StageMoved
<1> QED BY <1>1 DEF Acted

(* One move more. *)
LEMMA PassesOneMore ==
  ASSUME NEW g, NEW l \in Nat \ {0}, l = Len(tasks[g].route), DOMAIN tasks[g].route = 1 .. l,
         NEW i \in 1 .. l, NEW k \in Nat, Passes(g, i, k), Arrived(g, tasks[g].route[i])
  PROVE  Passes(g, NextOn(tasks[g].route, i), k + 1)
<1> DEFINE next == NextOn(tasks[g].route, i)
<1>1. next \in 1 .. l
  BY NextPlace DEF NextOn
<1>2. PICK stop \in [0 .. k -> 1 .. l] :
        /\ stop[0] = tasks[g].idx /\ stop[k] = i
        /\ \A j \in 1 .. k : /\ stop[j] = NextOn(tasks[g].route, stop[j - 1])
                             /\ Arrived(g, tasks[g].route[stop[j - 1]])
  BY DEF Passes
<1> DEFINE more == [j \in 0 .. k + 1 |-> IF j = k + 1 THEN next ELSE stop[j]]
<1> HIDE DEF next
<1>3. more \in [0 .. k + 1 -> 1 .. l]
  BY <1>1, <1>2
<1>4. /\ more[k + 1] = next /\ \A j \in 0 .. k : more[j] = stop[j]
      /\ 0 \in 0 .. k /\ k \in 0 .. k /\ (k + 1) - 1 = k
  <2>1. /\ k + 1 \in 0 .. k + 1 /\ \A j \in 0 .. k : j \in 0 .. k + 1 /\ j # k + 1
        /\ 0 \in 0 .. k /\ k \in 0 .. k /\ (k + 1) - 1 = k
    OBVIOUS
  <2>2. more[k + 1] = next
    BY <2>1, Zenon
  <2>3. \A j \in 0 .. k : more[j] = stop[j]
    BY <2>1, Zenon
  <2> QED BY <2>1, <2>2, <2>3
<1> HIDE DEF more
<1>5. more[0] = tasks[g].idx
  BY <1>2, <1>4
<1>6. ASSUME NEW j \in 1 .. k + 1
      PROVE  more[j] = NextOn(tasks[g].route, more[j - 1]) /\ Arrived(g, tasks[g].route[more[j - 1]])
  <2>1. CASE j = k + 1
    <3>1. more[j - 1] = i
      BY <1>2, <1>4, <2>1
    <3> QED BY <1>4, <2>1, <3>1 DEF next
  <2>2. CASE j # k + 1
    <3>1. j \in 1 .. k /\ j \in 0 .. k /\ j - 1 \in 0 .. k
      BY <2>2
    <3>2. more[j] = stop[j] /\ more[j - 1] = stop[j - 1]
      BY <1>4, <3>1
    <3> QED BY <1>2, <3>1, <3>2
  <2> QED BY <2>1, <2>2
<1>7. Passes(g, next, k + 1)
  BY <1>3, <1>4, <1>5, <1>6 DEF Passes
<1> QED BY <1>7 DEF next

(* A member that finds the squad at its place moves its route on by one. *)
LEMMA AdvancePatrolKeeps ==
  ASSUME GoalTyped, NEW k \in Nat, NEW n \in Folk, n = k + 1, NEW g \in Groups, g = FolkSquad[n],
         NEW w, Acted(w, k), Arrived(g, SquadTarget(w, g))
  PROVE  Acted(AdvancePatrol(w, g), n)
<1> DEFINE v == AdvancePatrol(w, g)
           t == w.tasks[g]
           r == tasks[g].route
           next == NextOn(t.route, t.idx)
<1>0. Acted(w, n)
  BY ActedMore
<1>1. CASE t.kind # "patrol"
  BY <1>0, <1>1 DEF AdvancePatrol
<1>2. CASE t.kind = "patrol"
  <2>1. /\ {"folk", "tasks", "begun", "asked"} \subseteq DOMAIN w /\ Everyone(w.folk)
        /\ DOMAIN w.tasks = Groups /\ \A h \in Groups : StageMoved(w.tasks, h, n)
        /\ StageMoved(w.tasks, g, k)
    BY <1>0 DEF Acted
  <2>2. TaskTyped(t) /\ t.route = r /\ TaskTyped(tasks[g])
    BY <2>1 DEF StageMoved, GoalTyped
  <2>3. v = [w EXCEPT !.tasks[g].idx = next]
    BY <1>2 DEF AdvancePatrol
  <2>4. PICK l \in Nat \ {0} : l = Len(r)
    BY <2>2, EmptySeq, LenProperties DEF TaskTyped, IsRoute
  <2>5. t.idx \in 1 .. l /\ DOMAIN r = 1 .. l
    BY <2>2, <2>4, LenProperties DEF TaskTyped, IsRoute
  <2>6. PICK j \in 0 .. Cardinality(Members(g) \cap 1 .. k) : Passes(g, t.idx, j)
    BY <2>1 DEF StageMoved
  <2>7. j \in Nat /\ j + 1 \in 0 .. Cardinality(Members(g) \cap 1 .. n)
    <3>1. k + 1 \in Members(g)
      BY DEF Members
    <3>2. PICK c \in Nat : c = Cardinality(Members(g) \cap 1 .. k)
      BY MembersSoFar
    <3>3. Cardinality(Members(g) \cap 1 .. n) = c + 1
      BY <3>1, <3>2, MembersSoFar
    <3> QED BY <2>6, <3>2, <3>3
  <2>8. next \in 1 .. l
    BY <2>2, <2>4, <2>5, NextPlace DEF NextOn
  <2>9. Passes(g, next, j + 1)
    <3>1. Arrived(g, r[t.idx])
      BY <2>2 DEF SquadTarget
    <3> QED BY <2>2, <2>4, <2>5, <2>6, <2>7, <3>1, PassesOneMore
  <2> DEFINE u == [t EXCEPT !.idx = next]
  <2> HIDE DEF next
  <2>10. TaskTyped(u) /\ u.route = r /\ u.idx = next
    <3>1. DOMAIN u = DOMAIN t /\ u.route = t.route /\ u.idx = next
      BY <2>2 DEF TaskTyped
    <3> HIDE DEF u
    <3> QED BY <2>2, <2>4, <2>8, <3>1 DEF TaskTyped
  <2>11. DOMAIN v = DOMAIN w /\ v.folk = w.folk /\ DOMAIN v.tasks = Groups /\ v.tasks[g] = u
         /\ \A h \in Groups : h # g => v.tasks[h] = w.tasks[h]
    BY <2>1, <2>3
  <2> HIDE DEF u, v
  <2>12. StageMoved(v.tasks, g, n)
    BY <2>7, <2>9, <2>10, <2>11 DEF StageMoved
  <2>13. \A h \in Groups : StageMoved(v.tasks, h, n)
    BY <2>1, <2>11, <2>12 DEF StageMoved
  <2>14. Acted(v, n)
    BY <2>1, <2>11, <2>13 DEF Acted
  <2> QED BY <2>14 DEF v
<1> QED BY <1>1, <1>2

LEMMA FollowKeeps ==
  ASSUME GoalTyped, NEW k \in Nat, NEW n \in Folk, n = k + 1, NEW w, Acted(w, k)
  PROVE  Acted(Follow(w, n), n)
<1> DEFINE g == FolkSquad[n]
           to == SquadTarget(w, g)
           there == Arrived(g, to)
           walked == Advance(w, n, to)
           moved == IF there THEN AdvancePatrol(walked, g) ELSE walked
           begins == IF w.tasks[g].kind = "rest" THEN moved.begun \cup {n} ELSE moved.begun
           v1 == [moved EXCEPT !.begun = begins]
           rest == Errand("RestAt", pace + GoalCfg.pause)
           walk == Errand("MoveTo", to)
<1>1. Follow(w, n) = IF g = 0 \/ TaskOf(w.tasks, n).kind = "none" THEN w
                     ELSE IF there THEN Does(v1, n, rest) ELSE Does(moved, n, walk)
  BY Zenon DEF Follow
<1>2. Acted(w, n)
  BY ActedMore
<1>3. CASE g # 0
  <2>1. g \in Groups
    BY <1>3 DEF Groups
  <2>2. TaskTyped(w.tasks[g])
    BY <2>1 DEF Acted, StageMoved
  <2>3. to \in Int
    BY <2>2 DEF SquadTarget, TaskTyped, IsRoute
  <2>4. Acted(walked, k) /\ walked.tasks = w.tasks
    BY <2>3, AdvanceKeeps
  <2>5. SquadTarget(walked, g) = to
    BY <2>4 DEF SquadTarget
  <2> HIDE DEF walked, to
  <2>6. Acted(moved, n)
    <3>1. Acted(walked, n)
      BY <2>4, ActedMore
    <3> QED BY <2>1, <2>4, <2>5, <3>1, AdvancePatrolKeeps
  <2> HIDE DEF moved, begins
  <2>7. Acted(v1, n)
    <3>1. DOMAIN v1 = DOMAIN moved /\ v1.folk = moved.folk /\ v1.tasks = moved.tasks
      BY <2>6 DEF Acted
    <3> HIDE DEF v1
    <3> QED BY <2>6, <3>1 DEF Acted
  <2>8. (rest.k = "MoveTo" => rest.x \in Int) /\ (walk.k = "MoveTo" => walk.x \in Int)
    BY <2>3, Waits, MoveTo
  <2> HIDE DEF v1, rest, walk
  <2>9. Acted(Does(v1, n, rest), n) /\ Acted(Does(moved, n, walk), n)
    BY <2>6, <2>7, <2>8, DoesKeeps
  <2> QED BY <1>1, <1>2, <2>9
<1> QED BY <1>1, <1>2, <1>3

LEMMA ActOneKeeps ==
  ASSUME GoalTyped, NEW k \in Nat, NEW n, n = k + 1, NEW w, Acted(w, k)
  PROVE  Acted(ActOne(w, n), n)
<1> DEFINE kind == w.folk[n].goal.kind
           v == ActOne(w, n)
<1>0. Acted(w, n)
  BY ActedMore
<1>1. CASE ~IsUp(w.folk, n) \/ ~w.folk[n].on
  BY <1>0, <1>1 DEF ActOne
<1>2. CASE IsUp(w.folk, n) /\ w.folk[n].on
  <2>1. n \in Folk
    BY <1>2 DEF IsUp
  <2>2. Placed(kind) /\ Someone(w.folk[n])
    BY <2>1 DEF Acted, Everyone, Someone
  <2>3. v = CASE kind.k = "PursueTarget" -> Pursue(w, n)
              [] kind.k = "SquadFollowObjective" -> Follow(w, n)
              [] kind.k = "InvestigateAt" -> GoTo(w, n, kind.t)
              [] kind.k = "RegroupOnAlly" -> GoTo(w, n, kind.t[2])
              [] kind.k \in {"Socialize", "Hunt", "Loot", "SeekMedical"} -> SettleAt(w, n, kind.t)
              [] kind.k = "SoloIdleFsm" -> SoloIdle(w, n)
    BY <1>2, Zenon DEF ActOne
  <2>4. Acted(Pursue(w, n), n) /\ Acted(Follow(w, n), n) /\ Acted(SoloIdle(w, n), n)
    BY <1>0, <2>1, PursueKeeps, FollowKeeps, SoloIdleKeeps
  <2>5. kind.k = "InvestigateAt" => Acted(GoTo(w, n, kind.t), n)
    BY <1>0, <2>1, <2>2, GoToKeeps DEF Placed, PlaceKinds
  <2>6. kind.k = "RegroupOnAlly" => Acted(GoTo(w, n, kind.t[2]), n)
    BY <1>0, <2>1, <2>2, GoToKeeps DEF Placed
  <2>7. kind.k \in {"Socialize", "Hunt", "Loot", "SeekMedical"} => Acted(SettleAt(w, n, kind.t), n)
    BY <1>0, <2>1, <2>2, SettleAtKeeps DEF Placed, PlaceKinds
  <2>8. kind.k \in GoalKinds
    BY <2>2 DEF Placed
  <2> HIDE DEF kind, v
  <2>9. Acted(v, n)
    BY <2>3, <2>4, <2>5, <2>6, <2>7, <2>8 DEF GoalKinds, PlaceKinds
  <2> QED BY <2>9 DEF v
<1> QED BY <1>1, <1>2

A == INSTANCE SequenceLemmas WITH Op <- ActOne

LEMMA AllActed ==
  ASSUME GoalTyped
  PROVE  Acted(FoldLeft(ActOne, [folk |-> folk, tasks |-> tasks, begun |-> begun, asked |-> {}], Ordered), Top)
<1> DEFINE b == [folk |-> folk, tasks |-> tasks, begun |-> begun, asked |-> {}]
<1>1. A!Fold(b, Ordered) = FoldLeft(ActOne, b, Ordered)
  BY DEF A!Fold, A!FoldLeft, A!MapThenFoldSet, A!Max, FoldLeft, MapThenFoldSet, Max
<1>2. Acted(b, 0)
  <2>1. {"folk", "tasks", "begun", "asked"} \subseteq DOMAIN b /\ b.folk = folk /\ b.tasks = tasks
    OBVIOUS
  <2> HIDE DEF b
  <2>2. ASSUME NEW g \in Groups PROVE StageMoved(tasks, g, 0)
    <3>1. TaskTyped(tasks[g])
      BY DEF GoalTyped
    <3>2. 0 \in 0 .. Cardinality(Members(g) \cap 1 .. 0)
      <4>1. PICK c \in Nat : c = Cardinality(Members(g) \cap 1 .. 0)
        BY MembersSoFar
      <4> QED BY <4>1
    <3>3. Passes(g, tasks[g].idx, 0)
      <4> DEFINE stop == [j \in 0 .. 0 |-> tasks[g].idx]
      <4>1. stop \in [0 .. 0 -> DOMAIN tasks[g].route] /\ stop[0] = tasks[g].idx
        BY <3>1, LenProperties DEF TaskTyped, IsRoute
      <4>2. 1 .. 0 = {}
        OBVIOUS
      <4> HIDE DEF stop
      <4> QED BY <4>1, <4>2 DEF Passes
    <3> QED BY <3>1, <3>2, <3>3 DEF StageMoved
  <2> QED BY <2>1, <2>2 DEF Acted, GoalTyped
<1> HIDE DEF b
<1>3. PICK v : A!Folding(v, b, Ordered, Top) /\ A!Fold(b, Ordered) = v[Top]
  BY OrderedIs, TopIs, A!FoldLeftIs
<1> DEFINE P == {k \in Nat : k <= Top => Acted(v[k], k)}
<1>4. 0 \in P
  BY <1>2, <1>3 DEF A!Folding
<1>5. ASSUME NEW k \in P PROVE k + 1 \in P
  <2> SUFFICES ASSUME k + 1 <= Top PROVE Acted(v[k + 1], k + 1)
    OBVIOUS
  <2>1. k + 1 \in 1 .. Top /\ k \in Nat /\ k <= Top /\ (k + 1) - 1 = k
    BY TopIs
  <2>2. v[k + 1] = ActOne(v[k], k + 1)
    BY <1>3, <2>1, OrderedIs DEF A!Folding
  <2> QED BY <2>1, <2>2, ActOneKeeps
<1> HIDE DEF P
<1>6. P = Nat
  BY <1>4, <1>5, SetInduction DEF P
<1>7. Acted(v[Top], Top)
  BY <1>6, TopIs DEF P
<1> QED BY <1>1, <1>3, <1>7 DEF b

LEMMA ActKeeps ==
  ASSUME GoalInv, Act
  PROVE  GoalInv' /\ PassesVisited
<1> DEFINE w == FoldLeft(ActOne, [folk |-> folk, tasks |-> tasks, begun |-> begun, asked |-> {}], Ordered)
<1>1. GoalTyped /\ folk' = FoundGoals(w) /\ tasks' = w.tasks /\ stage' = "think"
      /\ UNCHANGED <<boards, bodies, script>>
  BY DEF GoalInv, Act
<1>2. Acted(w, Top)
  BY <1>1, AllActed
<1> HIDE DEF w
<1>3. Everyone(folk')
  <2>1. DOMAIN folk' = Folk
    BY <1>1 DEF FoundGoals
  <2>2. ASSUME NEW n \in Folk PROVE Someone(folk'[n])
    <3>1. Someone(w.folk[n])
      BY <1>2 DEF Acted, Everyone
    <3>2. \/ folk'[n] = w.folk[n]
          \/ \E p : folk'[n] = [w.folk[n] EXCEPT !.path = p]
      BY <1>1 DEF FoundGoals
    <3>3. ASSUME NEW p, folk'[n] = [w.folk[n] EXCEPT !.path = p] PROVE Someone(folk'[n])
      BY <3>1, <3>3 DEF Someone, SelfFields
    <3> QED BY <3>1, <3>2, <3>3
  <2> QED BY <2>1, <2>2 DEF Everyone
<1>4. DOMAIN tasks' = Groups /\ \A g \in Groups : StageMoved(tasks', g, Top)
  BY <1>1, <1>2 DEF Acted
<1>5. GoalTyped'
  BY <1>1, <1>3, <1>4 DEF GoalTyped, StageMoved
<1>6. GoalsAreMeant'
  BY <1>1 DEF GoalsAreMeant
<1>7. PassesVisited
  <2>1. \A g \in Groups : Members(g) \cap 1 .. Top = Members(g)
    BY TopIs DEF Members
  <2> QED BY <1>4, <2>1 DEF PassesVisited, StageMoved
<1> QED BY <1>5, <1>6, <1>7 DEF GoalInv

-----------------------------------------------------------------------------
(* What the others do, and the theorems.                                   *)

LEMMA SomeoneElse ==
  ASSUME NEW p, Someone(p), NEW q, DOMAIN q = DOMAIN p, q.x = p.x, q.goal = p.goal, q.errand = p.errand
  PROVE  Someone(q)
  BY DEF Someone

LEMMA FieldKeeps ==
  ASSUME NEW w, Everyone(w), NEW n \in Folk, NEW f \in {"aggro", "up", "vital", "stance", "on"}, NEW v
  PROVE  Everyone([w EXCEPT ![n][f] = v])
<1> DEFINE u == [w EXCEPT ![n][f] = v]
           q == [w[n] EXCEPT ![f] = v]
<1>1. Someone(w[n]) /\ DOMAIN w = Folk
  BY DEF Everyone
<1>2. DOMAIN q = DOMAIN w[n] /\ q.x = w[n].x /\ q.goal = w[n].goal /\ q.errand = w[n].errand
  BY <1>1 DEF Someone, SelfFields
<1>3. Someone(q)
  <2> HIDE DEF q
  <2> QED BY <1>1, <1>2, SomeoneElse
<1>4. DOMAIN u = Folk /\ u[n] = q /\ \A m \in Folk : m # n => u[m] = w[m]
  BY <1>1
<1> HIDE DEF u, q
<1>5. Everyone(u)
  BY <1>3, <1>4 DEF Everyone
<1> QED BY <1>5 DEF u

(* A board that gets a report of some place. *)
LEMMA PostedKeeps ==
  ASSUME GoalTyped, NEW g \in Groups, NEW key \in Reports \cup {"focus"}, NEW v,
         key \in Reports => v # <<>> /\ v[1] \in Int
  PROVE  DOMAIN Posted(g, key, v) = Groups /\ \A k \in Groups : BoardTyped(Posted(g, key, v)[k])
<1> DEFINE new == Posted(g, key, v)
           b == [boards[g] EXCEPT ![key] = v]
<1>1. DOMAIN boards = Groups /\ \A k \in Groups : BoardTyped(boards[k])
  BY DEF GoalTyped
<1>2. DOMAIN new = Groups /\ new[g] = b /\ \A k \in Groups : k # g => new[k] = boards[k]
  BY <1>1 DEF Posted
<1>3. BoardTyped(b)
  <2>1. /\ DOMAIN b = DOMAIN boards[g] /\ b[key] = v
        /\ \A k \in Reports \cup {"focus", "down"} : k # key => b[k] = boards[g][k]
    BY <1>1 DEF BoardTyped
  <2>2. b.down = boards[g].down
    BY <2>1 DEF Reports
  <2> HIDE DEF b
  <2> QED BY <1>1, <2>1, <2>2 DEF BoardTyped
<1> HIDE DEF new, b
<1>4. DOMAIN new = Groups /\ \A k \in Groups : BoardTyped(new[k])
  BY <1>1, <1>2, <1>3
<1> QED BY <1>4 DEF new

LEMMA HappensKeeps ==
  ASSUME GoalTyped, NEW h, WellMeant(h), Happens(h), script' \subseteq script, stage' = stage
  PROVE  GoalTyped'
<1>1. /\ Everyone(folk) /\ DOMAIN boards = Groups /\ \A g \in Groups : BoardTyped(boards[g])
      /\ DOMAIN tasks = Groups /\ \A g \in Groups : TaskTyped(tasks[g]) /\ \A b \in bodies : b[1] \in Int
      /\ \A e \in script' : WellMeant(e) /\ stage' \in {"think", "act"}
  BY DEF GoalTyped
<1>2. CASE h.e = "sees" /\ folk' = [folk EXCEPT ![h.n].aggro = <<h.t, pace>>] /\ UNCHANGED <<boards, tasks, bodies, begun>>
  <2>1. Everyone(folk')
    BY <1>1, <1>2, FieldKeeps DEF WellMeant
  <2> QED BY <1>1, <1>2, <2>1 DEF GoalTyped
<1>3. CASE h.e = "loses" /\ folk' = [folk EXCEPT ![h.n].aggro = <<>>] /\ UNCHANGED <<boards, tasks, bodies, begun>>
  <2>1. Everyone(folk')
    BY <1>1, <1>3, FieldKeeps DEF WellMeant
  <2> QED BY <1>1, <1>3, <2>1 DEF GoalTyped
<1>4. CASE /\ h.e = "dies"
           /\ folk' = [folk EXCEPT ![h.n].up = FALSE]
           /\ bodies' = bodies \cup {<<folk[h.n].x, FolkSide[h.n]>>}
           /\ boards' = [g \in Groups |->
                            IF FolkSide[CHOOSE m \in Members(g) : TRUE] = FolkSide[h.n]
                            THEN [boards[g] EXCEPT !.down = @ \cup {[id |-> h.n, at |-> folk[h.n].x, born |-> pace]}]
                            ELSE boards[g]]
           /\ UNCHANGED <<tasks, begun>>
  <2>1. h.n \in Folk /\ folk[h.n].x \in Int /\ h.n \in Nat
    BY <1>1, <1>4, GoalAssumption DEF WellMeant, Everyone, Someone
  <2>2. PICK dead : dead = FALSE
    OBVIOUS
  <2>3. Everyone(folk')
    BY <1>1, <1>4, <2>1, <2>2, FieldKeeps
  <2>4. ASSUME NEW b \in bodies' PROVE b[1] \in Int
    <3>1. CASE b \in bodies
      BY <3>1 DEF GoalTyped
    <3>2. CASE b = <<folk[h.n].x, FolkSide[h.n]>>
      BY <2>1, <3>2
    <3> QED BY <1>4, <3>1, <3>2
  <2>5. ASSUME NEW g \in Groups PROVE BoardTyped(boards'[g])
    <3> DEFINE d == [id |-> h.n, at |-> folk[h.n].x, born |-> pace]
               b == [boards[g] EXCEPT !.down = @ \cup {d}]
    <3>1. boards'[g] = b \/ boards'[g] = boards[g]
      BY <1>4
    <3>2. d.id \in Nat /\ d.at \in Int
      BY <2>1
    <3> HIDE DEF d
    <3>3. DOMAIN b = DOMAIN boards[g] /\ b.down = boards[g].down \cup {d} /\ \A k \in Reports : b[k] = boards[g][k]
      BY <1>1 DEF BoardTyped, Reports
    <3> HIDE DEF b
    <3>4. BoardTyped(b)
      BY <1>1, <3>2, <3>3 DEF BoardTyped
    <3> QED BY <1>1, <3>1, <3>4
  <2>6. DOMAIN boards' = Groups
    BY <1>4
  <2> QED BY <1>1, <1>4, <2>3, <2>4, <2>5, <2>6 DEF GoalTyped
<1>5. CASE h.e \in {"fire", "shot", "enemy"} /\ boards' = Posted(h.g, h.e, <<h.at, pace>>) /\ UNCHANGED <<folk, tasks, bodies, begun>>
  <2>1. DOMAIN boards' = Groups /\ \A g \in Groups : BoardTyped(boards'[g])
    BY <1>5, PostedKeeps DEF WellMeant, Reports
  <2> QED BY <1>1, <1>5, <2>1 DEF GoalTyped
<1>6. CASE /\ h.e = "fades"
           /\ boards' = [boards EXCEPT ![h.g] = [fire |-> <<>>, shot |-> <<>>, enemy |-> <<>>, down |-> {}, focus |-> 0]]
           /\ UNCHANGED <<folk, tasks, bodies, begun>>
  <2>1. BoardTyped([fire |-> <<>>, shot |-> <<>>, enemy |-> <<>>, down |-> {}, focus |-> 0])
    BY DEF BoardTyped, Reports
  <2>2. DOMAIN boards' = Groups /\ \A g \in Groups : BoardTyped(boards'[g])
    BY <1>1, <1>6, <2>1
  <2> QED BY <1>1, <1>6, <2>2 DEF GoalTyped
<1>7. CASE h.e = "focus" /\ boards' = Posted(h.g, "focus", h.t) /\ UNCHANGED <<folk, tasks, bodies, begun>>
  <2>1. DOMAIN boards' = Groups /\ \A g \in Groups : BoardTyped(boards'[g])
    BY <1>7, PostedKeeps DEF WellMeant, Reports
  <2> QED BY <1>1, <1>7, <2>1 DEF GoalTyped
<1>8. CASE h.e = "wound" /\ folk' = [folk EXCEPT ![h.n].vital = h.v] /\ UNCHANGED <<boards, tasks, bodies, begun>>
  <2>1. Everyone(folk')
    BY <1>1, <1>8, FieldKeeps DEF WellMeant
  <2> QED BY <1>1, <1>8, <2>1 DEF GoalTyped
<1>9. CASE h.e = "stance" /\ folk' = [folk EXCEPT ![h.n].stance = h.s] /\ UNCHANGED <<boards, tasks, bodies, begun>>
  <2>1. Everyone(folk')
    BY <1>1, <1>9, FieldKeeps DEF WellMeant
  <2> QED BY <1>1, <1>9, <2>1 DEF GoalTyped
<1>10. CASE h.e = "sleeps" /\ folk' = [folk EXCEPT ![h.n].on = ~@] /\ UNCHANGED <<boards, tasks, bodies, begun>>
  <2>1. PICK on : folk' = [folk EXCEPT ![h.n].on = on]
    BY <1>10
  <2>2. h.n \in Folk
    BY <1>10 DEF WellMeant
  <2>3. Everyone([folk EXCEPT ![h.n].on = on])
    BY <1>1, <2>2, FieldKeeps
  <2> QED BY <1>1, <1>10, <2>1, <2>3 DEF GoalTyped
<1>11. CASE /\ h.e = "task"
            /\ tasks' = [tasks EXCEPT ![h.g] = [kind |-> h.k, route |-> h.route, idx |-> 1, set |-> pace]]
            /\ UNCHANGED <<folk, boards, bodies>>
  <2> DEFINE t == [kind |-> h.k, route |-> h.route, idx |-> 1, set |-> pace]
  <2>1. {"kind", "route", "idx", "set"} \subseteq DOMAIN t /\ t.route = h.route /\ t.idx = 1 /\ IsRoute(h.route)
    BY <1>11 DEF WellMeant
  <2> HIDE DEF t
  <2>2. Len(h.route) \in Nat \ {0}
    BY <2>1, EmptySeq, LenProperties DEF IsRoute
  <2>3. TaskTyped(t)
    BY <2>1, <2>2 DEF TaskTyped
  <2>4. DOMAIN tasks' = Groups /\ \A g \in Groups : TaskTyped(tasks'[g])
    BY <1>1, <1>11, <2>3 DEF t
  <2> QED BY <1>1, <1>11, <2>4 DEF GoalTyped
<1> QED BY <1>2, <1>3, <1>4, <1>5, <1>6, <1>7, <1>8, <1>9, <1>10, <1>11 DEF Happens

LEMMA GoalInitHolds == GoalInit => GoalInv
<1> SUFFICES ASSUME GoalInit PROVE GoalInv
  OBVIOUS
<1>1. stage = "think" /\ bodies = {} /\ script \in GoalScripts
  BY DEF GoalInit
<1>2. Everyone(folk)
  <2>1. ASSUME NEW n \in Folk PROVE Someone(folk[n])
    <3>1. PICK p : p = folk[n]
      OBVIOUS
    <3>2. p = [up |-> TRUE, on |-> TRUE, x |-> FolkStart[n], vital |-> 100, goal |-> IdleGoal,
               errand |-> Errand("Idle", 0), path |-> <<>>, aggro |-> <<>>, stance |-> "none"]
      BY <3>1 DEF GoalInit
    <3>3. SelfFields \subseteq DOMAIN p /\ p.x = FolkStart[n] /\ p.goal = IdleGoal /\ p.errand = Errand("Idle", 0)
      BY <3>2 DEF SelfFields
    <3>4. GoalFields \subseteq DOMAIN IdleGoal /\ Placed(IdleGoal.kind)
      BY DEF IdleGoal, Goal, Kind, GoalFields, Placed, PlaceKinds, GoalKinds
    <3>5. Errand("Idle", 0).k # "MoveTo"
      BY DEF Errand
    <3> QED BY <3>1, <3>3, <3>4, <3>5, GoalAssumption DEF Someone
  <2> QED BY <2>1 DEF Everyone, GoalInit
<1>3. DOMAIN boards = Groups /\ \A g \in Groups : BoardTyped(boards[g])
  <2>1. BoardTyped([fire |-> <<>>, shot |-> <<>>, enemy |-> <<>>, down |-> {}, focus |-> 0])
    BY DEF BoardTyped, Reports
  <2> QED BY <2>1 DEF GoalInit
<1>4. DOMAIN tasks = Groups /\ \A g \in Groups : TaskTyped(tasks[g])
  <2>1. TaskTyped(NoTask)
    <3>1. <<0>> \in Seq(Int) /\ Len(<<0>>) = 1
      OBVIOUS
    <3>2. IsRoute(<<0>>)
      BY <3>1, EmptySeq DEF IsRoute
    <3> QED BY <3>1, <3>2 DEF TaskTyped, NoTask
  <2> QED BY <2>1 DEF GoalInit
<1>5. GoalTyped
  BY <1>1, <1>2, <1>3, <1>4, GoalAssumption DEF GoalTyped
<1> QED BY <1>1, <1>5 DEF GoalInv, GoalsAreMeant

LEMMA GoalStep ==
  ASSUME GoalInv, [GoalNext]_goalVars
  PROVE  GoalInv' /\ (UNCHANGED goalVars \/ (CapHeld /\ PassesVisited))
<1>1. CASE Think
  <2>1. stage = "think"
    BY <1>1 DEF Think
  <2>2. PassesVisited
    BY <2>1 DEF PassesVisited
  <2> QED BY <1>1, <2>2, ThinkKeeps
<1>2. CASE Act
  <2>1. stage' = "think"
    BY <1>2 DEF Act
  <2>2. CapHeld
    BY <2>1 DEF CapHeld
  <2> QED BY <1>2, <2>2, ActKeeps
<1>3. CASE StirGoals
  <2>1. stage = "think" /\ stage' = stage
    BY <1>3 DEF StirGoals
  <2>2. PICK h \in script : Happens(h) /\ script' = script \ {h}
    BY <1>3 DEF StirGoals
  <2>3. GoalTyped'
    BY <2>1, <2>2, HappensKeeps DEF GoalInv, GoalTyped
  <2> QED BY <2>1, <2>3 DEF GoalInv, GoalsAreMeant, CapHeld, PassesVisited
<1>4. CASE UNCHANGED goalVars
  <2>1. GoalTyped' /\ GoalsAreMeant'
    BY <1>4 DEF goalVars, GoalInv, GoalTyped, GoalsAreMeant, Meant, LiveTarget, IsUp, Everyone, Someone
  <2> QED BY <1>4, <2>1 DEF GoalInv
<1> QED BY <1>1, <1>2, <1>3, <1>4 DEF GoalNext

LEMMA GoalInvHolds == GoalSpec => []GoalInv
  BY GoalInitHolds, GoalStep, PTL DEF GoalSpec

(* Everyone in a tick acts on a goal that is still about something: whatever
   the other systems did since it was set, arbitration replaces a goal none of
   the candidates offers. *)
THEOREM GoalsAreAlwaysMeant == GoalSpec => []GoalsAreMeant
<1>1. GoalInv => GoalsAreMeant
  BY DEF GoalInv
<1> QED BY <1>1, GoalInvHolds, PTL

(* However many decide in one tick, the squads that join for no other reason
   than the report of an enemy never bring those at a place above the cap. *)
THEOREM CapAlwaysHolds == GoalSpec => CapHolds
<1>1. GoalInv /\ [GoalNext]_goalVars => [CapHeld]_goalVars
  BY GoalStep
<1> QED BY <1>1, GoalInvHolds, PTL DEF GoalSpec, CapHolds

(* Whatever the waypoints of a route and however close together: in a tick it
   is moved on only past those at which the squad is, and past one for each of
   its members at most. *)
THEOREM WaypointsAlwaysVisited == GoalSpec => WaypointsVisited
<1>1. GoalInv /\ [GoalNext]_goalVars => [PassesVisited]_goalVars
  BY GoalStep
<1> QED BY <1>1, GoalInvHolds, PTL DEF GoalSpec, WaypointsVisited


=============================================================================
