---------------------------- MODULE PeopleProofs ----------------------------
(***************************************************************************)
(* Proofs about people: their bodies (Body), for any number of players and *)
(* NPCs, any commands that name parts, drugs and dishes there are, and any *)
(* snapshot interval; and who lives, dies and is on record as alive in which *)
(* region (Population), for any targets, bases, lifespans and squad sizes. *)
(***************************************************************************)
EXTENDS Body, Population, SequencesExt, SequenceTheorems, FiniteSetTheorems, TLAPS

INSTANCE SequenceLemmas WITH Op <- DrainBy

-----------------------------------------------------------------------------
(* The bodies of players and NPCs.                                         *)

Fields == {"hp", "health", "limb", "wounds", "effects", "tol", "rad", "tox", "meal", "stamina", "pain"}
Drugs == {"painkiller", "morphine", "adrenaline", "stim", "antirad", "antitox"}

(* The two bodies differ in these fields only. *)
Kept(b, c, F) == DOMAIN c = DOMAIN b /\ \A f \in Fields \ F : c[f] = b[f]

WoundShape(w) ==
  /\ {"part", "sev", "treat", "changed", "infected", "since", "tied"} \subseteq DOMAIN w
  /\ w.part \in Parts /\ w.sev \in Nat
WoundOk(w) ==
  /\ w.tied # NoTick <=> w.treat = "tourniquet"
  /\ w.sev >= 4 => w.treat # "bandaged"
WoundsShape(ws) ==
  /\ ws = [i \in DOMAIN ws |-> ws[i]]
  /\ \A i \in DOMAIN ws : WoundShape(ws[i])
EffectsShape(es) == \A e \in es : e.at \in Nat /\ e.dur \in Nat

BodyShape(b) ==
  /\ Fields \subseteq DOMAIN b
  /\ b.hp \in [Parts -> Nat] /\ b.limb \in [Parts -> {"intact", "wounded"}]
  /\ WoundsShape(b.wounds) /\ EffectsShape(b.effects)
  /\ b.tol \in [Drugs -> Nat] /\ b.rad \in Nat /\ b.tox \in Nat /\ b.meal \in [MeterNames -> Nat]

LimbsMatch(b) == \A p \in Parts : b.limb[p] = "wounded" <=> \E i \in DOMAIN b.wounds : b.wounds[i].part = p
Sound(b) ==
  /\ b.health = VitalMin(b) /\ LimbsMatch(b)
  /\ \A i \in DOMAIN b.wounds : WoundOk(b.wounds[i])

(* What time does to a body: nothing gets better, no wound is added, and   *)
(* one that is gone was bandaged or stitched.                              *)
Worse(b, c) ==
  /\ \A p \in Parts : c.hp[p] <= b.hp[p]
  /\ \A m \in MeterNames : c.meal[m] <= b.meal[m]
  /\ \A d \in Drugs : c.tol[d] <= b.tol[d]
  /\ c.rad <= b.rad /\ c.tox <= b.tox
  /\ \A i \in DOMAIN c.wounds : i \in DOMAIN b.wounds /\ SameWound(b.wounds[i], c.wounds[i])
  /\ \A i \in DOMAIN b.wounds \ DOMAIN c.wounds : b.wounds[i].treat \in {"bandaged", "stitched"}

Passes(b, c) == BodyShape(b) /\ Sound(b) => BodyShape(c) /\ Sound(c) /\ Worse(b, c)

LEMMA PassesOn ==
  ASSUME NEW a, NEW b, NEW c, Passes(a, b), Passes(b, c)
  PROVE  Passes(a, c)
<1> SUFFICES ASSUME BodyShape(a), Sound(a) PROVE BodyShape(c) /\ Sound(c) /\ Worse(a, c)
  BY DEF Passes
<1>1. BodyShape(b) /\ Sound(b) /\ Worse(a, b) /\ BodyShape(c) /\ Sound(c) /\ Worse(b, c)
  BY DEF Passes
<1>2. \A p \in Parts : c.hp[p] <= a.hp[p]
  <2> SUFFICES ASSUME NEW p \in Parts PROVE c.hp[p] <= a.hp[p]
    OBVIOUS
  <2>1. PICK x, y, z : x = a.hp[p] /\ y = b.hp[p] /\ z = c.hp[p]
    OBVIOUS
  <2>2. x \in Nat /\ y \in Nat /\ z \in Nat /\ y <= x /\ z <= y
    BY <1>1, <2>1 DEF BodyShape, Worse
  <2> QED BY <2>1, <2>2
<1>3. \A m \in MeterNames : c.meal[m] <= a.meal[m]
  <2> SUFFICES ASSUME NEW m \in MeterNames PROVE c.meal[m] <= a.meal[m]
    OBVIOUS
  <2>1. PICK x, y, z : x = a.meal[m] /\ y = b.meal[m] /\ z = c.meal[m]
    OBVIOUS
  <2>2. x \in Nat /\ y \in Nat /\ z \in Nat /\ y <= x /\ z <= y
    BY <1>1, <2>1 DEF BodyShape, Worse
  <2> QED BY <2>1, <2>2
<1>4. \A d \in Drugs : c.tol[d] <= a.tol[d]
  <2> SUFFICES ASSUME NEW d \in Drugs PROVE c.tol[d] <= a.tol[d]
    OBVIOUS
  <2>1. PICK x, y, z : x = a.tol[d] /\ y = b.tol[d] /\ z = c.tol[d]
    OBVIOUS
  <2>2. x \in Nat /\ y \in Nat /\ z \in Nat /\ y <= x /\ z <= y
    BY <1>1, <2>1 DEF BodyShape, Worse
  <2> QED BY <2>1, <2>2
<1>5. c.rad <= a.rad /\ c.tox <= a.tox
  BY <1>1 DEF BodyShape, Worse
<1>6. \A i \in DOMAIN c.wounds : i \in DOMAIN a.wounds /\ SameWound(a.wounds[i], c.wounds[i])
  BY <1>1 DEF Worse, SameWound
<1>7. \A i \in DOMAIN a.wounds \ DOMAIN c.wounds : a.wounds[i].treat \in {"bandaged", "stitched"}
  BY <1>1 DEF Worse, SameWound
<1> QED BY <1>1, <1>2, <1>3, <1>4, <1>5, <1>6, <1>7 DEF Worse

----------------------------------------------------------------------------
(* Drains.                                                                 *)

Drained(b, c) ==
  /\ Kept(b, c, {"hp", "health"})
  /\ c.hp \in [Parts -> Nat] /\ \A p \in Parts : c.hp[p] <= b.hp[p]
  /\ b.health = VitalMin(b) => c.health = VitalMin(c)

LEMMA DrainedShape ==
  ASSUME NEW b, NEW c, BodyShape(b), Drained(b, c)
  PROVE  BodyShape(c)
  BY DEF BodyShape, Drained, Kept, Fields

LEMMA DrainedPasses ==
  ASSUME NEW b, NEW c, BodyShape(b), Drained(b, c)
  PROVE  Passes(b, c) /\ c.effects = b.effects
<1>1. /\ c.limb = b.limb /\ c.wounds = b.wounds /\ c.tol = b.tol /\ c.rad = b.rad /\ c.tox = b.tox
      /\ c.meal = b.meal /\ c.effects = b.effects
  BY DEF Drained, Kept, Fields
<1>2. BodyShape(c)
  BY DrainedShape
<1>3. Sound(b) => Sound(c)
  BY <1>1 DEF Sound, Drained, LimbsMatch
<1>4. Worse(b, c)
  BY <1>1 DEF Worse, SameWound, Drained, BodyShape
<1> QED BY <1>1, <1>2, <1>3, <1>4 DEF Passes

LEMMA MirroredIs ==
  ASSUME NEW b, Fields \subseteq DOMAIN b
  PROVE  Kept(b, Mirrored(b), {"health"}) /\ Mirrored(b).health = VitalMin(Mirrored(b))
         /\ VitalMin(Mirrored(b)) = VitalMin(b)
  BY DEF Mirrored, Kept, Fields, VitalMin

LEMMA DrainIs ==
  ASSUME NEW b, BodyShape(b), NEW part \in Parts, NEW loss \in Nat
  PROVE  Drained(b, Drain(b, part, loss))
<1>1. CASE loss = 0
  BY <1>1 DEF Drain, Drained, Kept, BodyShape
<1>2. CASE loss # 0
  <2>1. PICK a : a = [b EXCEPT !.hp[part] = Above(@ - loss, 0)]
    OBVIOUS
  <2>2. PICK x \in Nat : x = Above(b.hp[part] - loss, 0) /\ x <= b.hp[part]
    BY DEF BodyShape, Above
  <2>3. Kept(b, a, {"hp"}) /\ a.hp = [b.hp EXCEPT ![part] = x]
    BY <2>1, <2>2 DEF Kept, BodyShape, Fields
  <2>4. a.hp \in [Parts -> Nat] /\ \A p \in Parts : a.hp[p] <= b.hp[p]
    BY <2>2, <2>3 DEF BodyShape
  <2>5. PICK c : c = Mirrored(a) /\ c = Drain(b, part, loss)
    BY <1>2, <2>1 DEF Drain
  <2>6. Kept(a, c, {"health"}) /\ c.health = VitalMin(c)
    <3>1. Fields \subseteq DOMAIN a
      BY <2>3 DEF Kept, BodyShape
    <3> QED BY <2>5, <3>1, MirroredIs
  <2>7. c.hp = a.hp
    BY <2>6 DEF Kept, Fields
  <2>8. Kept(b, c, {"hp", "health"})
    BY <2>3, <2>6 DEF Kept
  <2> QED BY <2>4, <2>5, <2>6, <2>7, <2>8 DEF Drained
<1> QED BY <1>1, <1>2

Tolls == [part : Parts, loss : Nat]

LEMMA DrainedAll ==
  ASSUME NEW b, BodyShape(b), NEW q \in Seq(Tolls)
  PROVE  Drained(b, FoldLeft(DrainBy, b, q))
<1> DEFINE P == {p \in Seq(Tolls) : Drained(b, Fold(b, p))}
<1>1. <<>> \in P
  <2>1. Drained(b, b)
    BY DEF Drained, Kept, BodyShape
  <2> QED BY <2>1, FoldEmpty, EmptySeq
<1>2. ASSUME NEW p \in P, NEW e \in Tolls PROVE Append(p, e) \in P
  <2>1. PICK c : c = Fold(b, p) /\ Drained(b, c)
    OBVIOUS
  <2>2. PICK d : d = Drain(c, e.part, e.loss)
    OBVIOUS
  <2>3. Fold(b, Append(p, e)) = d
    BY <2>1, <2>2, FoldAppend DEF DrainBy
  <2>4. Drained(c, d)
    BY <2>1, <2>2, DrainedShape, DrainIs DEF Tolls
  <2>5. Drained(b, d)
    <3>1. Kept(b, d, {"hp", "health"})
      BY <2>1, <2>4 DEF Drained, Kept
    <3>2. \A x \in Parts : d.hp[x] <= b.hp[x]
      <4> SUFFICES ASSUME NEW x \in Parts PROVE d.hp[x] <= b.hp[x]
        OBVIOUS
      <4>1. PICK i, j, k : i = b.hp[x] /\ j = c.hp[x] /\ k = d.hp[x]
        OBVIOUS
      <4>2. i \in Nat /\ j \in Nat /\ k \in Nat /\ j <= i /\ k <= j
        BY <2>1, <2>4, <4>1 DEF Drained, BodyShape
      <4> QED BY <4>1, <4>2
    <3> QED BY <2>1, <2>4, <3>1, <3>2 DEF Drained
  <2> QED BY <2>3, <2>5, AppendProperties
<1>3. P = Seq(Tolls)
  <2> HIDE DEF P
  <2>1. P \in SUBSET Seq(Tolls)
    BY DEF P
  <2> QED BY <1>1, <1>2, <2>1, SeqInduction
<1>4. Drained(b, Fold(b, q))
  BY <1>3
<1> QED BY <1>4 DEF Fold

----------------------------------------------------------------------------
(* The systems.                                                            *)

LEMMA NecrosisPasses ==
  ASSUME calls \in Nat, NEW b, BodyShape(b), NEW t
  PROVE  Passes(b, TickNecrosis(b, t)) /\ TickNecrosis(b, t).effects = b.effects
<1> DEFINE toll(i) == IF i \notin DOMAIN b.wounds THEN NoToll ELSE Toll(b.wounds[i].part, NecrosisRate(b.wounds[i], t))
           q == [i \in 1 .. calls |-> toll(i)]
<1>1. \A i \in 1 .. calls : toll(i) \in Tolls
  <2> SUFFICES ASSUME NEW i \in 1 .. calls PROVE toll(i) \in Tolls
    OBVIOUS
  <2>1. CASE i \notin DOMAIN b.wounds
    BY <2>1 DEF NoToll, Toll, Tolls, Parts
  <2>2. CASE i \in DOMAIN b.wounds
    <3>1. b.wounds[i].part \in Parts
      BY <2>2 DEF BodyShape, WoundsShape, WoundShape
    <3>2. NecrosisRate(b.wounds[i], t) \in Nat
      BY DEF NecrosisRate
    <3> QED BY <2>2, <3>1, <3>2 DEF Toll, Tolls
  <2> QED BY <2>1, <2>2
<1> HIDE DEF toll
<1>2. q \in Seq(Tolls)
  BY <1>1, IsASeq
<1>3. TickNecrosis(b, t) = FoldLeft(DrainBy, b, q)
  BY DEF TickNecrosis, toll
<1> HIDE DEF q
<1> QED BY <1>2, <1>3, DrainedAll, DrainedPasses

LEMMA BleedPasses ==
  ASSUME calls \in Nat, NEW b, BodyShape(b), NEW who \in Patients
  PROVE  Passes(b, ApplyBleed(b, who)) /\ ApplyBleed(b, who).effects = b.effects
<1> DEFINE toll(i) == IF i \notin DOMAIN b.wounds THEN NoToll
                      ELSE Toll(b.wounds[i].part, BleedRate(b.wounds[i]) * BleedMultiplier(who))
           q == [i \in 1 .. calls |-> toll(i)]
<1>0. BleedMultiplier(who) \in Nat
  <2>1. CASE who \in Npcs
    <3>1. PICK e \in 0 .. 100 : e = Endurance[who]
      BY <2>1, BodyAssumption
    <3>2. 13 - (6 * e) \div 100 \in Nat
      OBVIOUS
    <3> QED BY <2>1, <3>1, <3>2 DEF BleedMultiplier
  <2> QED BY <2>1 DEF BleedMultiplier
<1>1. \A i \in 1 .. calls : toll(i) \in Tolls
  <2> SUFFICES ASSUME NEW i \in 1 .. calls PROVE toll(i) \in Tolls
    OBVIOUS
  <2>1. CASE i \notin DOMAIN b.wounds
    BY <2>1 DEF NoToll, Toll, Tolls, Parts
  <2>2. CASE i \in DOMAIN b.wounds
    <3>1. b.wounds[i].part \in Parts /\ b.wounds[i].sev \in Nat
      BY <2>2 DEF BodyShape, WoundsShape, WoundShape
    <3>2. BleedRate(b.wounds[i]) \in Nat
      BY <3>1 DEF BleedRate
    <3>3. PICK x \in Nat, y \in Nat : x = BleedRate(b.wounds[i]) /\ y = BleedMultiplier(who)
      BY <1>0, <3>2
    <3>4. x * y \in Nat
      OBVIOUS
    <3> QED BY <2>2, <3>1, <3>3, <3>4 DEF Toll, Tolls
  <2> QED BY <2>1, <2>2
<1> HIDE DEF toll
<1>2. q \in Seq(Tolls)
  BY <1>1, IsASeq
<1>3. ApplyBleed(b, who) = FoldLeft(DrainBy, b, q)
  BY DEF ApplyBleed, toll
<1> HIDE DEF q
<1> QED BY <1>2, <1>3, DrainedAll, DrainedPasses

LEMMA HungerPasses ==
  ASSUME NEW b, BodyShape(b)
  PROVE  Passes(b, DrainSurvival(b)) /\ DrainSurvival(b).effects = b.effects
<1> DEFINE c == DrainSurvival(b)
<1>1. Kept(b, c, {"meal"}) /\ c.meal = [b.meal EXCEPT !["hunger"] = Above(@ - 6, 0), !["thirst"] = Above(@ - 8, 0),
                                                   !["fatigue"] = Above(@ - 3, 0)]
  BY DEF DrainSurvival, Kept, BodyShape, Fields
<1> HIDE DEF c
<1>2. c.meal \in [MeterNames -> Nat] /\ \A m \in MeterNames : c.meal[m] <= b.meal[m]
  BY <1>1 DEF BodyShape, Above, MeterNames
<1>3. BodyShape(c)
  BY <1>1, <1>2 DEF BodyShape, Kept, Fields
<1>4. Sound(b) => Sound(c)
  BY <1>1 DEF Sound, LimbsMatch, VitalMin, Kept, Fields
<1>5. Worse(b, c)
  BY <1>1, <1>2 DEF Worse, Kept, Fields, SameWound, BodyShape
<1>6. c.effects = b.effects
  BY <1>1 DEF Kept, Fields
<1> QED BY <1>3, <1>4, <1>5, <1>6 DEF Passes, c

LEMMA StarvingPasses ==
  ASSUME NEW b, BodyShape(b)
  PROVE  Passes(b, ApplySurvival(b)) /\ ApplySurvival(b).effects = b.effects
<1>1. PICK low \in Nat : ApplySurvival(b) = IF low = 0 THEN b ELSE Drain(b, "torso", 50 * low)
  BY DEF ApplySurvival, Count
<1>2. 50 * low \in Nat /\ "torso" \in Parts
  BY DEF Parts
<1>3. Drained(b, b)
  BY DEF Drained, Kept, BodyShape
<1> QED BY <1>1, <1>2, <1>3, DrainIs, DrainedPasses

(* Effects that are over go; the others stay. *)
LEMMA RetirePasses ==
  ASSUME NEW b, BodyShape(b), NEW t
  PROVE  Passes(b, RetireEffects(b, t)) /\ RetireEffects(b, t).effects = {e \in b.effects : Active(e, t)}
<1> DEFINE c == RetireEffects(b, t)
<1>1. Kept(b, c, {"effects"}) /\ c.effects = {e \in b.effects : Active(e, t)}
  BY DEF RetireEffects, Kept, BodyShape, Fields
<1> HIDE DEF c
<1>2. BodyShape(c)
  BY <1>1 DEF BodyShape, Kept, Fields, EffectsShape
<1>3. Sound(b) => Sound(c)
  BY <1>1 DEF Sound, LimbsMatch, VitalMin, Kept, Fields
<1>4. Worse(b, c)
  BY <1>1 DEF Worse, Kept, Fields, SameWound, BodyShape
<1> QED BY <1>1, <1>2, <1>3, <1>4 DEF Passes, c

LEMMA TolerancePasses ==
  ASSUME NEW b, BodyShape(b)
  PROVE  Passes(b, DecayTolerance(b)) /\ DecayTolerance(b).effects = b.effects
<1> DEFINE c == DecayTolerance(b)
<1>1. Kept(b, c, {"tol"}) /\ c.tol = [d \in Drugs |-> Above(b.tol[d] - 1, 0)]
  BY DEF DecayTolerance, Kept, BodyShape, Fields
<1> HIDE DEF c
<1>2. c.tol \in [Drugs -> Nat] /\ \A d \in Drugs : c.tol[d] <= b.tol[d]
  BY <1>1 DEF BodyShape, Above
<1>3. BodyShape(c)
  BY <1>1, <1>2 DEF BodyShape, Kept, Fields
<1>4. Sound(b) => Sound(c)
  BY <1>1 DEF Sound, LimbsMatch, VitalMin, Kept, Fields
<1>5. Worse(b, c)
  BY <1>1, <1>2 DEF Worse, Kept, Fields, SameWound, BodyShape
<1>6. c.effects = b.effects
  BY <1>1 DEF Kept, Fields
<1> QED BY <1>3, <1>4, <1>5, <1>6 DEF Passes, c

(* A wound whose infection comes or goes stays the wound it was.           *)
LEMMA InfectionKeeps ==
  ASSUME NEW w, WoundShape(w), NEW t, NEW v, v \in {Infect(w, t), Clear(w, t)}
  PROVE  WoundShape(v) /\ SameWound(w, v)
<1>1. \/ v = w
      \/ v = [w EXCEPT !.infected = TRUE, !.since = t]
      \/ v = [w EXCEPT !.infected = FALSE, !.since = NoTick, !.changed = t]
  BY DEF Infect, Clear
<1> QED BY <1>1 DEF WoundShape, SameWound

LEMMA InfectionPasses ==
  ASSUME NEW b, BodyShape(b), NEW t
  PROVE  Passes(b, TickInfection(b, t)) /\ TickInfection(b, t).effects = b.effects
<1> DEFINE c == TickInfection(b, t)
<1>1. Kept(b, c, {"wounds"}) /\ DOMAIN c.wounds = DOMAIN b.wounds /\ c.wounds = [i \in DOMAIN c.wounds |-> c.wounds[i]]
  BY DEF TickInfection, Kept, BodyShape, Fields
<1>2. ASSUME NEW i \in DOMAIN b.wounds
      PROVE  WoundShape(c.wounds[i]) /\ SameWound(b.wounds[i], c.wounds[i])
  <2>1. PICK v, u : v = Infect(b.wounds[i], t) /\ u = Clear(v, t)
    OBVIOUS
  <2>2. c.wounds[i] = v \/ c.wounds[i] = u
    BY <2>1 DEF TickInfection, BodyShape, Fields
  <2>3. WoundShape(b.wounds[i])
    BY DEF BodyShape, WoundsShape
  <2>4. WoundShape(v) /\ SameWound(b.wounds[i], v)
    BY <2>1, <2>3, InfectionKeeps
  <2>5. WoundShape(u) /\ SameWound(v, u)
    BY <2>1, <2>4, InfectionKeeps
  <2> QED BY <2>2, <2>4, <2>5 DEF SameWound
<1> HIDE DEF c
<1>3. BodyShape(c)
  BY <1>1, <1>2 DEF BodyShape, Kept, Fields, WoundsShape
<1>4. Sound(b) => Sound(c)
  BY <1>1, <1>2 DEF Sound, LimbsMatch, VitalMin, Kept, Fields, SameWound, WoundOk
<1>5. Worse(b, c)
  BY <1>1, <1>2 DEF Worse, Kept, Fields, BodyShape
<1>6. c.effects = b.effects
  BY <1>1 DEF Kept, Fields
<1> QED BY <1>3, <1>4, <1>5, <1>6 DEF Passes, c

LEMMA HealPasses ==
  ASSUME NEW b, BodyShape(b), NEW t
  PROVE  Passes(b, AgeAndHeal(b, t)) /\ AgeAndHeal(b, t).effects = b.effects
<1> DEFINE ws == [i \in {j \in DOMAIN b.wounds : ~HealDue(b.wounds[j], t)} |-> b.wounds[i]]
<1>1. PICK a : a = [b EXCEPT !.wounds = ws]
  OBVIOUS
<1>2. PICK c : c = AgeAndHeal(b, t) /\ c = RecomputeLimbs(a)
  BY <1>1 DEF AgeAndHeal
<1>3. Kept(b, a, {"wounds"}) /\ a.wounds = ws
  BY <1>1 DEF Kept, BodyShape, Fields
<1>4. Kept(a, c, {"limb"}) /\ c.limb = [p \in Parts |->
        IF a.limb[p] = "wounded" /\ ~\E i \in DOMAIN a.wounds : a.wounds[i].part = p THEN "intact" ELSE a.limb[p]]
  <2>1. Fields \subseteq DOMAIN a
    BY <1>3 DEF Kept, BodyShape
  <2> QED BY <1>2, <2>1 DEF RecomputeLimbs, Kept, Fields
<1>5. Kept(b, c, {"wounds", "limb"}) /\ c.wounds = ws /\ c.limb = [p \in Parts |->
        IF b.limb[p] = "wounded" /\ ~\E i \in DOMAIN ws : ws[i].part = p THEN "intact" ELSE b.limb[p]]
  <2> HIDE DEF ws
  <2>1. c.wounds = ws /\ a.limb = b.limb
    BY <1>3, <1>4 DEF Kept, Fields
  <2>2. Kept(b, c, {"wounds", "limb"})
    BY <1>3, <1>4 DEF Kept
  <2> QED BY <1>3, <1>4, <2>1, <2>2
<1>6. /\ DOMAIN ws \subseteq DOMAIN b.wounds /\ ws = [i \in DOMAIN ws |-> ws[i]]
      /\ \A i \in DOMAIN ws : ws[i] = b.wounds[i]
      /\ \A i \in DOMAIN b.wounds \ DOMAIN ws : b.wounds[i].treat \in {"bandaged", "stitched"}
  BY DEF HealDue
<1> HIDE DEF ws
<1>7. c.limb \in [Parts -> {"intact", "wounded"}]
  BY <1>5 DEF BodyShape
<1>8. BodyShape(c)
  BY <1>5, <1>6, <1>7 DEF BodyShape, Kept, Fields, WoundsShape
<1>9. Sound(b) => Sound(c)
  <2> SUFFICES ASSUME Sound(b) PROVE Sound(c)
    OBVIOUS
  <2>1. LimbsMatch(c)
    <3> SUFFICES ASSUME NEW p \in Parts
                 PROVE  c.limb[p] = "wounded" <=> \E i \in DOMAIN c.wounds : c.wounds[i].part = p
      BY DEF LimbsMatch
    <3>1. b.limb[p] = "wounded" <=> \E i \in DOMAIN b.wounds : b.wounds[i].part = p
      BY DEF Sound, LimbsMatch
    <3> QED BY <1>5, <1>6, <3>1
  <2>2. c.health = VitalMin(c)
    BY <1>5 DEF Sound, VitalMin, Kept, Fields
  <2> QED BY <1>5, <1>6, <2>1, <2>2 DEF Sound
<1>10. Worse(b, c)
  BY <1>5, <1>6 DEF Worse, Kept, Fields, SameWound, BodyShape
<1>11. c.effects = b.effects
  BY <1>5 DEF Kept, Fields
<1> QED BY <1>2, <1>8, <1>9, <1>10, <1>11 DEF Passes

(* Fields no property reads. *)
LEMMA AsidePasses ==
  ASSUME NEW b, BodyShape(b), NEW c, Kept(b, c, {"pain", "stamina"})
  PROVE  Passes(b, c) /\ c.effects = b.effects
<1>1. /\ c.hp = b.hp /\ c.health = b.health /\ c.limb = b.limb /\ c.wounds = b.wounds /\ c.effects = b.effects
      /\ c.tol = b.tol /\ c.rad = b.rad /\ c.tox = b.tox /\ c.meal = b.meal /\ DOMAIN c = DOMAIN b
  BY DEF Kept, Fields
<1>2. BodyShape(c)
  BY <1>1 DEF BodyShape
<1>3. Sound(b) => Sound(c)
  BY <1>1 DEF Sound, LimbsMatch, VitalMin
<1>4. Worse(b, c)
  BY <1>1 DEF Worse, SameWound, BodyShape
<1> QED BY <1>1, <1>2, <1>3, <1>4 DEF Passes

LEMMA PainPasses ==
  ASSUME NEW b, BodyShape(b), NEW t
  PROVE  /\ Passes(b, TickPain(b, t)) /\ TickPain(b, t).effects = b.effects
         /\ Passes(b, RegenStamina(b, t)) /\ RegenStamina(b, t).effects = b.effects
<1>1. Kept(b, TickPain(b, t), {"pain", "stamina"})
  BY DEF TickPain, Kept, Fields, BodyShape
<1>2. Kept(b, RegenStamina(b, t), {"pain", "stamina"})
  BY DEF RegenStamina, Kept, Fields, BodyShape
<1> QED BY <1>1, <1>2, AsidePasses

LEMMA ContaminationPasses ==
  ASSUME NEW b, BodyShape(b)
  PROVE  Passes(b, TickContamination(b)) /\ TickContamination(b).effects = b.effects
<1>1. PICK c : c = Decontaminate(b)
  OBVIOUS
<1>2. Kept(b, c, {"rad", "tox"}) /\ c.rad = Above(b.rad - 2, 0) /\ c.tox = Above(b.tox - 5, 0)
  BY <1>1 DEF Decontaminate, Kept, Fields, BodyShape
<1>3. c.rad \in Nat /\ c.tox \in Nat /\ c.rad <= b.rad /\ c.tox <= b.tox
  BY <1>2 DEF Above, BodyShape
<1>4. BodyShape(c) /\ c.effects = b.effects
  BY <1>2, <1>3 DEF BodyShape, Kept, Fields
<1>5. Sound(b) => Sound(c)
  BY <1>2 DEF Sound, LimbsMatch, VitalMin, Kept, Fields
<1>6. Worse(b, c)
  BY <1>2, <1>3 DEF Worse, Kept, Fields, SameWound, BodyShape
<1>7. Passes(b, c)
  BY <1>4, <1>5, <1>6 DEF Passes
<1>8. PICK high \in Nat : TickContamination(b) = IF high = 0 THEN c ELSE Drain(c, "torso", 20 * high)
  BY <1>1 DEF TickContamination, Count
<1>9. 20 * high \in Nat /\ "torso" \in Parts
  BY DEF Parts
<1>10. high # 0 => Passes(c, TickContamination(b)) /\ TickContamination(b).effects = c.effects
  BY <1>4, <1>8, <1>9, DrainIs, DrainedPasses
<1> QED BY <1>4, <1>7, <1>8, <1>10, PassesOn

LEMMA NobodyTended == Tended = {}
<1>1. "NpcId" \notin SpawnBundle
  BY DEF SpawnBundle, Bundle
<1> QED BY <1>1 DEF Tended, HealQuery

(* A tick of a body that is sound. *)
LEMMA TickPasses ==
  ASSUME calls \in Nat, NEW b, BodyShape(b), Sound(b), NEW who \in Patients, NEW t
  PROVE  LET c == TickBody(b, who, t) IN
         /\ BodyShape(c) /\ Sound(c) /\ Worse(b, c)
         /\ c.effects = IF who \in Players THEN {e \in b.effects : Active(e, t)} ELSE b.effects
<1> DEFINE c == TickBody(b, who, t)
<1>1. ASSUME NEW x, BodyShape(x), Sound(x), NEW y, y = WoundSystems(x, who, t)
      PROVE  BodyShape(y) /\ Sound(y) /\ Worse(x, y) /\ y.effects = x.effects
  <2>1. PICK i, n, l : i = TickInfection(x, t) /\ n = TickNecrosis(i, t) /\ l = ApplyBleed(n, who)
    OBVIOUS
  <2>2. y = AgeAndHeal(l, t)
    BY <1>1, <2>1 DEF WoundSystems
  <2>3. BodyShape(i) /\ Sound(i) /\ Passes(x, i) /\ i.effects = x.effects
    BY <1>1, <2>1, InfectionPasses DEF Passes
  <2>4. BodyShape(n) /\ Sound(n) /\ Passes(i, n) /\ n.effects = x.effects
    BY <2>1, <2>3, NecrosisPasses DEF Passes
  <2>5. BodyShape(l) /\ Sound(l) /\ Passes(n, l) /\ l.effects = x.effects
    BY <2>1, <2>4, BleedPasses DEF Passes
  <2>6. BodyShape(y) /\ Sound(y) /\ Passes(l, y) /\ y.effects = x.effects
    BY <2>2, <2>5, HealPasses DEF Passes
  <2>7. Passes(x, y)
    BY <2>3, <2>4, <2>5, <2>6, PassesOn
  <2> QED BY <1>1, <2>6, <2>7 DEF Passes
<1>2. CASE who \in Players
  <2>1. PICK h, s, r, d : h = DrainSurvival(b) /\ s = ApplySurvival(h) /\ r = RetireEffects(s, t) /\ d = DecayTolerance(r)
    OBVIOUS
  <2>2. PICK w : w = WoundSystems(d, who, t)
    OBVIOUS
  <2>3. PICK p, q : p = TickPain(w, t) /\ q = TickContamination(p)
    OBVIOUS
  <2>4. c = RegenStamina(q, t)
    BY <1>2, <2>1, <2>2, <2>3 DEF TickBody, PlayerSystemsBefore, PlayerSystemsAfter
  <2>5. BodyShape(h) /\ Sound(h) /\ Passes(b, h) /\ h.effects = b.effects
    BY <2>1, HungerPasses DEF Passes
  <2>6. BodyShape(s) /\ Sound(s) /\ Passes(h, s) /\ s.effects = b.effects
    BY <2>1, <2>5, StarvingPasses DEF Passes
  <2>7. BodyShape(r) /\ Sound(r) /\ Passes(s, r) /\ r.effects = {e \in b.effects : Active(e, t)}
    BY <2>1, <2>6, RetirePasses DEF Passes
  <2>8. BodyShape(d) /\ Sound(d) /\ Passes(r, d) /\ d.effects = r.effects
    BY <2>1, <2>7, TolerancePasses DEF Passes
  <2>9. BodyShape(w) /\ Sound(w) /\ Passes(d, w) /\ w.effects = r.effects
    BY <1>1, <2>2, <2>8 DEF Passes
  <2>10. BodyShape(p) /\ Sound(p) /\ Passes(w, p) /\ p.effects = r.effects
    BY <2>3, <2>9, PainPasses DEF Passes
  <2>11. BodyShape(q) /\ Sound(q) /\ Passes(p, q) /\ q.effects = r.effects
    BY <2>3, <2>10, ContaminationPasses DEF Passes
  <2> HIDE DEF c
  <2>12. BodyShape(c) /\ Sound(c) /\ Passes(q, c) /\ c.effects = r.effects
    BY <2>4, <2>11, PainPasses DEF Passes
  <2>13. Passes(b, r)
    BY <2>5, <2>6, <2>7, PassesOn
  <2>14. Passes(b, w)
    BY <2>8, <2>9, <2>13, PassesOn
  <2>15. Passes(b, c)
    BY <2>10, <2>11, <2>12, <2>14, PassesOn
  <2> QED BY <1>2, <2>7, <2>12, <2>15 DEF Passes, c
<1>3. CASE who \notin Players
  <2>1. c = WoundSystems(b, who, t)
    BY <1>3, NobodyTended DEF TickBody, NpcTreatWounds
  <2> HIDE DEF c
  <2> QED BY <1>1, <1>3, <2>1 DEF c
<1> QED BY <1>2, <1>3

----------------------------------------------------------------------------
(* The body and what a load would build of it.                             *)

Agree(n, b, r) ==
  /\ \A i \in DOMAIN b.wounds : i \in DOMAIN r.wounds /\ SameWound(r.wounds[i], b.wounds[i])
  /\ \A i \in DOMAIN r.wounds \ DOMAIN b.wounds : r.wounds[i].treat \in {"bandaged", "stitched"}
  /\ n \in Players => {e \in r.effects : Active(e, clock)} = b.effects
  /\ \A p \in Parts : r.hp[p] >= b.hp[p]
  /\ \A m \in MeterNames : r.meal[m] >= b.meal[m]
  /\ \A d \in Drugs : r.tol[d] >= b.tol[d]
  /\ r.rad >= b.rad /\ r.tox >= b.tox

(* No wound has the number of a command still to come, and no effect. *)
Numbered(b) ==
  /\ DOMAIN b.wounds \subseteq 1 .. calls
  /\ \A e \in b.effects : e.by \in Nat /\ e.by < calls

Kin(n, b, r) == BodyShape(b) /\ Sound(b) /\ BodyShape(r) /\ Agree(n, b, r) /\ Numbered(b) /\ DOMAIN r.wounds \subseteq 1 .. calls

BodyInv ==
  /\ clock \in Nat /\ calls \in Nat /\ menu \in Menus
  /\ body = [n \in Patients |-> body[n]] /\ replica = [n \in Patients |-> replica[n]]
  /\ \A n \in Patients : Kin(n, body[n], replica[n])

LEMMA ClockOnly ==
  ASSUME NEW b, BodyShape(b), clock \in Nat
  PROVE  \A e \in b.effects : Active(e, clock + 1) => Active(e, clock)
<1> SUFFICES ASSUME NEW e \in b.effects, Active(e, clock + 1) PROVE Active(e, clock)
  OBVIOUS
<1>1. e.at \in Nat /\ e.dur \in Nat
  BY DEF BodyShape, EffectsShape
<1> QED BY <1>1 DEF Active, Elapsed, Above

LEMMA TickKeeps ==
  ASSUME BodyInv, Tick
  PROVE  BodyInv'
<1>1. /\ clock' = clock + 1 /\ calls' = calls /\ menu' = menu
      /\ body' = [n \in Patients |-> TickBody(body[n], n, clock')]
      /\ replica' = IF clock' % SnapshotInterval = 0 THEN body' ELSE replica
  BY DEF Tick
<1>2. clock' \in Nat /\ calls' \in Nat /\ menu' \in Menus
  BY <1>1 DEF BodyInv
<1>3. body' = [n \in Patients |-> body'[n]] /\ replica' = [n \in Patients |-> replica'[n]]
  BY <1>1 DEF BodyInv
<1>4. ASSUME NEW n \in Patients PROVE Kin(n, body[n], replica[n])'
  <2>1. PICK b, c, r, s : b = body[n] /\ c = body'[n] /\ r = replica[n] /\ s = replica'[n]
    OBVIOUS
  <2>2. c = TickBody(b, n, clock + 1) /\ (s = c \/ s = r)
    BY <1>1, <2>1
  <2>3. /\ BodyShape(b) /\ Sound(b) /\ BodyShape(r) /\ Agree(n, b, r)
        /\ Numbered(b) /\ DOMAIN r.wounds \subseteq 1 .. calls /\ calls \in Nat /\ clock \in Nat
    BY <2>1 DEF BodyInv, Kin
  <2>4. /\ BodyShape(c) /\ Sound(c) /\ Worse(b, c)
        /\ c.effects = IF n \in Players THEN {e \in b.effects : Active(e, clock + 1)} ELSE b.effects
    BY <2>2, <2>3, TickPasses
  <2>5. Numbered(c)
    BY <2>3, <2>4 DEF Numbered, Worse
  <2>6. n \in Players => {e \in s.effects : Active(e, clock + 1)} = c.effects
    BY <2>2, <2>3, <2>4, ClockOnly DEF Agree
  <2>7. /\ \A i \in DOMAIN c.wounds : i \in DOMAIN s.wounds /\ SameWound(s.wounds[i], c.wounds[i])
        /\ \A i \in DOMAIN s.wounds \ DOMAIN c.wounds : s.wounds[i].treat \in {"bandaged", "stitched"}
    BY <2>2, <2>3, <2>4 DEF Agree, Worse, SameWound
  <2>8. \A p \in Parts : s.hp[p] >= c.hp[p]
    <3> SUFFICES ASSUME NEW p \in Parts PROVE s.hp[p] >= c.hp[p]
      OBVIOUS
    <3>1. PICK x, y, z : x = r.hp[p] /\ y = b.hp[p] /\ z = c.hp[p]
      OBVIOUS
    <3>2. x \in Nat /\ y \in Nat /\ z \in Nat /\ x >= y /\ z <= y
      BY <2>3, <2>4, <3>1 DEF Agree, Worse, BodyShape
    <3> QED BY <2>2, <3>1, <3>2
  <2>9. \A m \in MeterNames : s.meal[m] >= c.meal[m]
    <3> SUFFICES ASSUME NEW m \in MeterNames PROVE s.meal[m] >= c.meal[m]
      OBVIOUS
    <3>1. PICK x, y, z : x = r.meal[m] /\ y = b.meal[m] /\ z = c.meal[m]
      OBVIOUS
    <3>2. x \in Nat /\ y \in Nat /\ z \in Nat /\ x >= y /\ z <= y
      BY <2>3, <2>4, <3>1 DEF Agree, Worse, BodyShape
    <3> QED BY <2>2, <3>1, <3>2
  <2>10. \A d \in Drugs : s.tol[d] >= c.tol[d]
    <3> SUFFICES ASSUME NEW d \in Drugs PROVE s.tol[d] >= c.tol[d]
      OBVIOUS
    <3>1. PICK x, y, z : x = r.tol[d] /\ y = b.tol[d] /\ z = c.tol[d]
      OBVIOUS
    <3>2. x \in Nat /\ y \in Nat /\ z \in Nat /\ x >= y /\ z <= y
      BY <2>3, <2>4, <3>1 DEF Agree, Worse, BodyShape
    <3> QED BY <2>2, <3>1, <3>2
  <2>11. s.rad >= c.rad /\ s.tox >= c.tox
    BY <2>2, <2>3, <2>4 DEF Agree, Worse, BodyShape
  <2>12. BodyShape(s) /\ DOMAIN s.wounds \subseteq 1 .. calls
    BY <2>2, <2>3, <2>4, <2>5 DEF Numbered
  <2>13. Numbered(c)' /\ (DOMAIN s.wounds \subseteq 1 .. calls)'
    BY <1>1, <2>5, <2>12 DEF Numbered
  <2>14. Agree(n, c, s)'
    BY <1>1, <2>6, <2>7, <2>8, <2>9, <2>10, <2>11 DEF Agree, SameWound, Active, Elapsed
  <2> QED BY <2>1, <2>4, <2>12, <2>13, <2>14 DEF Kin
<1> QED BY <1>2, <1>3, <1>4 DEF BodyInv

----------------------------------------------------------------------------
(* The commands.                                                           *)

LEMMA DoKeeps ==
  ASSUME BodyInv, NEW who \in Patients, NEW b, NEW r, Do(who, b, r), calls' = calls + 1, UNCHANGED <<clock, menu>>,
         BodyShape(b), Sound(b), BodyShape(r), Agree(who, b, r),
         DOMAIN b.wounds \subseteq 1 .. calls + 1, DOMAIN r.wounds \subseteq 1 .. calls + 1,
         \A e \in b.effects : e.by \in Nat /\ e.by < calls + 1
  PROVE  BodyInv'
<1>1. clock' \in Nat /\ calls' \in Nat /\ menu' \in Menus /\ calls \in Nat
  BY DEF BodyInv
<1>2. body' = [body EXCEPT ![who] = b] /\ replica' = [replica EXCEPT ![who] = r]
  BY DEF Do
<1>3. body' = [n \in Patients |-> body'[n]] /\ replica' = [n \in Patients |-> replica'[n]]
  BY <1>2 DEF BodyInv
<1>4. ASSUME NEW n \in Patients PROVE Kin(n, body[n], replica[n])'
  <2>1. CASE n = who
    <3>1. body'[n] = b /\ replica'[n] = r
      BY <1>2, <2>1 DEF BodyInv
    <3>2. Agree(n, b, r)' /\ Numbered(b)' /\ (DOMAIN r.wounds \subseteq 1 .. calls)'
      BY <1>1, <2>1 DEF Agree, Active, Elapsed, Numbered, SameWound
    <3> QED BY <3>1, <3>2 DEF Kin
  <2>2. CASE n # who
    <3>1. PICK c, s : c = body[n] /\ s = replica[n] /\ c = body'[n] /\ s = replica'[n]
      BY <1>2, <2>2 DEF BodyInv
    <3>2. Kin(n, c, s)
      BY <3>1 DEF BodyInv
    <3>3. Agree(n, c, s)' /\ Numbered(c)' /\ (DOMAIN s.wounds \subseteq 1 .. calls)'
      BY <1>1, <3>2 DEF Kin, Agree, Active, Elapsed, Numbered, SameWound
    <3> QED BY <3>1, <3>2, <3>3 DEF Kin
  <2> QED BY <2>1, <2>2
<1> QED BY <1>1, <1>3, <1>4 DEF BodyInv

LEMMA SetPartIs ==
  ASSUME NEW b, BodyShape(b), NEW part \in Parts, NEW x \in Nat
  PROVE  LET c == SetPart(b, part, x) IN
         /\ Kept(b, c, {"hp", "health"}) /\ c.hp = [b.hp EXCEPT ![part] = x] /\ c.health = VitalMin(c)
         /\ BodyShape(c) /\ (Sound(b) => Sound(c))
<1>1. PICK a : a = [b EXCEPT !.hp[part] = x]
  OBVIOUS
<1>2. Kept(b, a, {"hp"}) /\ a.hp = [b.hp EXCEPT ![part] = x]
  BY <1>1 DEF Kept, BodyShape, Fields
<1>3. PICK c : c = Mirrored(a) /\ c = SetPart(b, part, x)
  BY <1>1 DEF SetPart
<1>4. Fields \subseteq DOMAIN a
  BY <1>2 DEF Kept, BodyShape
<1>5. Kept(a, c, {"health"}) /\ c.health = VitalMin(c)
  BY <1>3, <1>4, MirroredIs
<1>6. Kept(b, c, {"hp", "health"}) /\ c.hp = [b.hp EXCEPT ![part] = x]
  BY <1>2, <1>5 DEF Kept, Fields
<1>7. c.hp \in [Parts -> Nat]
  BY <1>6 DEF BodyShape
<1>8. BodyShape(c)
  BY <1>6, <1>7 DEF BodyShape, Kept, Fields
<1>9. Sound(b) => Sound(c)
  BY <1>5, <1>6 DEF Sound, LimbsMatch, Kept, Fields
<1> QED BY <1>3, <1>5, <1>6, <1>8, <1>9

LEMMA SetPartAgrees ==
  ASSUME NEW n, NEW b, NEW r, BodyShape(b), BodyShape(r), Agree(n, b, r), NEW part \in Parts, NEW x \in Nat
  PROVE  Agree(n, SetPart(b, part, x), SetPart(r, part, x))
<1>1. PICK c, s : c = SetPart(b, part, x) /\ s = SetPart(r, part, x)
  OBVIOUS
<1>2. Kept(b, c, {"hp", "health"}) /\ c.hp = [b.hp EXCEPT ![part] = x]
  BY <1>1, SetPartIs
<1>3. Kept(r, s, {"hp", "health"}) /\ s.hp = [r.hp EXCEPT ![part] = x]
  BY <1>1, SetPartIs
<1>4. \A p \in Parts : s.hp[p] >= c.hp[p]
  BY <1>2, <1>3 DEF Agree, BodyShape
<1> QED BY <1>1, <1>2, <1>3, <1>4 DEF Agree, Kept, Fields

LEMMA AddWoundIs ==
  ASSUME NEW b, BodyShape(b), NEW id, id \notin DOMAIN b.wounds, NEW w, WoundShape(w)
  PROVE  LET c == AddWound(b, id, w) IN
         /\ Kept(b, c, {"wounds", "limb"}) /\ DOMAIN c.wounds = DOMAIN b.wounds \cup {id}
         /\ c.wounds[id] = w /\ \A i \in DOMAIN b.wounds : c.wounds[i] = b.wounds[i]
         /\ BodyShape(c) /\ (Sound(b) /\ WoundOk(w) => Sound(c))
<1> DEFINE ws == [i \in DOMAIN b.wounds \cup {id} |-> IF i = id THEN w ELSE b.wounds[i]]
<1>1. PICK a : a = [b EXCEPT !.wounds = ws]
  OBVIOUS
<1>2. PICK c : c = MarkWounded(a, w.part) /\ c = AddWound(b, id, w)
  BY <1>1 DEF AddWound
<1>3. Kept(b, a, {"wounds"}) /\ a.wounds = ws
  BY <1>1 DEF Kept, BodyShape, Fields
<1>4. a.limb = b.limb
  BY <1>3 DEF Kept, Fields
<1>5. /\ Kept(a, c, {"limb"})
      /\ c.limb = [b.limb EXCEPT ![w.part] = IF b.limb[w.part] = "intact" THEN "wounded" ELSE b.limb[w.part]]
  <2>1. Fields \subseteq DOMAIN a
    BY <1>3 DEF Kept, BodyShape
  <2> QED BY <1>2, <1>4, <2>1 DEF MarkWounded, Kept, Fields
<1>6. /\ DOMAIN ws = DOMAIN b.wounds \cup {id} /\ ws = [i \in DOMAIN ws |-> ws[i]] /\ ws[id] = w
      /\ \A i \in DOMAIN b.wounds : ws[i] = b.wounds[i]
  OBVIOUS
<1> HIDE DEF ws
<1>7. Kept(b, c, {"wounds", "limb"}) /\ c.wounds = ws
  BY <1>3, <1>5 DEF Kept, Fields
<1>8. c.limb \in [Parts -> {"intact", "wounded"}] /\ w.part \in Parts
      /\ \A p \in Parts : c.limb[p] = IF p = w.part THEN "wounded" ELSE b.limb[p]
  BY <1>5 DEF BodyShape, WoundShape
<1>9. BodyShape(c)
  BY <1>6, <1>7, <1>8 DEF BodyShape, Kept, Fields, WoundsShape
<1>10. ASSUME Sound(b), WoundOk(w) PROVE Sound(c)
  <2>1. LimbsMatch(c)
    <3> SUFFICES ASSUME NEW p \in Parts
                 PROVE  c.limb[p] = "wounded" <=> \E i \in DOMAIN c.wounds : c.wounds[i].part = p
      BY DEF LimbsMatch
    <3>1. b.limb[p] = "wounded" <=> \E i \in DOMAIN b.wounds : b.wounds[i].part = p
      BY <1>10 DEF Sound, LimbsMatch
    <3> QED BY <1>6, <1>7, <1>8, <3>1
  <2>2. c.health = VitalMin(c)
    BY <1>7, <1>10 DEF Sound, VitalMin, Kept, Fields
  <2> QED BY <1>6, <1>7, <1>10, <2>1, <2>2 DEF Sound
<1> QED BY <1>2, <1>6, <1>7, <1>9, <1>10

LEMMA AddWoundAgrees ==
  ASSUME NEW n, NEW b, NEW r, BodyShape(b), BodyShape(r), Agree(n, b, r), NEW w, WoundShape(w),
         NEW id, id \notin DOMAIN b.wounds, id \notin DOMAIN r.wounds
  PROVE  Agree(n, AddWound(b, id, w), AddWound(r, id, w))
<1>1. PICK c, s : c = AddWound(b, id, w) /\ s = AddWound(r, id, w)
  OBVIOUS
<1>2. /\ Kept(b, c, {"wounds", "limb"}) /\ DOMAIN c.wounds = DOMAIN b.wounds \cup {id}
      /\ c.wounds[id] = w /\ \A i \in DOMAIN b.wounds : c.wounds[i] = b.wounds[i]
  BY <1>1, AddWoundIs
<1>3. /\ Kept(r, s, {"wounds", "limb"}) /\ DOMAIN s.wounds = DOMAIN r.wounds \cup {id}
      /\ s.wounds[id] = w /\ \A i \in DOMAIN r.wounds : s.wounds[i] = r.wounds[i]
  BY <1>1, AddWoundIs
<1>4. /\ \A i \in DOMAIN c.wounds : i \in DOMAIN s.wounds /\ SameWound(s.wounds[i], c.wounds[i])
      /\ \A i \in DOMAIN s.wounds \ DOMAIN c.wounds : s.wounds[i].treat \in {"bandaged", "stitched"}
  BY <1>2, <1>3 DEF Agree, SameWound
<1>5. c.hp = b.hp /\ s.hp = r.hp /\ c.meal = b.meal /\ s.meal = r.meal /\ c.tol = b.tol /\ s.tol = r.tol
      /\ c.rad = b.rad /\ s.rad = r.rad /\ c.tox = b.tox /\ s.tox = r.tox /\ c.effects = b.effects /\ s.effects = r.effects
  BY <1>2, <1>3 DEF Kept, Fields
<1> QED BY <1>1, <1>4, <1>5 DEF Agree

LEMMA KinOf ==
  ASSUME BodyInv, NEW who \in Patients
  PROVE  /\ BodyShape(body[who]) /\ Sound(body[who]) /\ BodyShape(replica[who]) /\ Agree(who, body[who], replica[who])
         /\ DOMAIN body[who].wounds \subseteq 1 .. calls /\ DOMAIN replica[who].wounds \subseteq 1 .. calls
         /\ \A e \in body[who].effects : e.by \in Nat /\ e.by < calls
         /\ calls \in Nat /\ clock \in Nat
  BY DEF BodyInv, Kin, Numbered

LEMMA DamageKeeps ==
  ASSUME BodyInv, NEW who \in Patients, NEW part \in Parts, NEW amount \in Nat, ApplyDamage(who, part, amount),
         calls' = calls + 1, UNCHANGED <<clock, menu>>
  PROVE  BodyInv'
<1>1. PICK b, r : b = body[who] /\ r = replica[who]
  OBVIOUS
<1>2. /\ BodyShape(b) /\ Sound(b) /\ BodyShape(r) /\ Agree(who, b, r)
      /\ DOMAIN b.wounds \subseteq 1 .. calls /\ DOMAIN r.wounds \subseteq 1 .. calls
      /\ \A e \in b.effects : e.by \in Nat /\ e.by < calls
      /\ calls \in Nat /\ clock \in Nat
  BY <1>1, KinOf
<1>3. PICK x \in Nat : x = ClampTo(b.hp[part] - amount * Hp, FullHp)
  <2>1. PICK h \in Nat : h = b.hp[part]
    BY <1>2 DEF BodyShape
  <2>2. PICK k \in Nat : k = amount * Hp
    BY DEF Hp
  <2>3. ClampTo(h - k, FullHp) \in Nat
    BY DEF ClampTo, Below, Above, FullHp, Hp
  <2> QED BY <2>1, <2>2, <2>3
<1>4. PICK hurt, answered : hurt = SetPart(b, part, x) /\ answered = SetPart(r, part, x)
  OBVIOUS
<1>5. /\ BodyShape(hurt) /\ Sound(hurt) /\ BodyShape(answered) /\ Agree(who, hurt, answered)
      /\ hurt.wounds = b.wounds /\ answered.wounds = r.wounds /\ hurt.effects = b.effects /\ hurt.hp[part] = x
  <2>1. Kept(b, hurt, {"hp", "health"}) /\ hurt.hp = [b.hp EXCEPT ![part] = x] /\ BodyShape(hurt) /\ Sound(hurt)
    BY <1>2, <1>4, SetPartIs
  <2>2. Kept(r, answered, {"hp", "health"}) /\ BodyShape(answered)
    BY <1>2, <1>4, SetPartIs
  <2>3. Agree(who, hurt, answered)
    BY <1>2, <1>4, SetPartAgrees
  <2>4. hurt.hp[part] = x
    BY <1>2, <2>1 DEF BodyShape
  <2> QED BY <2>1, <2>2, <2>3, <2>4 DEF Kept, Fields
<1>6. PICK sev \in Nat : sev = SeverityFromDamage(amount)
  BY DEF SeverityFromDamage, Below
<1>7. PICK w : w = NewWound(part, sev, clock)
  OBVIOUS
<1>8. IF sev = 0 THEN Do(who, hurt, answered) ELSE Do(who, AddWound(hurt, calls + 1, w), AddWound(answered, calls + 1, w))
  BY <1>1, <1>3, <1>4, <1>5, <1>6, <1>7 DEF ApplyDamage
<1>9. calls + 1 \notin DOMAIN b.wounds /\ calls + 1 \notin DOMAIN r.wounds
      /\ 1 .. calls \subseteq 1 .. calls + 1 /\ calls + 1 \in 1 .. calls + 1
      /\ \A e \in b.effects : e.by < calls + 1
  BY <1>2
<1>10. CASE sev = 0
  <2>1. DOMAIN hurt.wounds \subseteq 1 .. calls + 1 /\ DOMAIN answered.wounds \subseteq 1 .. calls + 1
    BY <1>2, <1>5, <1>9
  <2>2. \A e \in hurt.effects : e.by \in Nat /\ e.by < calls + 1
    BY <1>2, <1>5, <1>9
  <2> QED BY <1>5, <1>8, <1>10, <2>1, <2>2, DoKeeps
<1>11. CASE sev # 0
  <2>1. WoundShape(w) /\ WoundOk(w)
    BY <1>7 DEF NewWound, WoundShape, WoundOk, NoTick
  <2>2. PICK c, s : c = AddWound(hurt, calls + 1, w) /\ s = AddWound(answered, calls + 1, w)
    OBVIOUS
  <2>3. BodyShape(c) /\ Sound(c) /\ Kept(hurt, c, {"wounds", "limb"}) /\ DOMAIN c.wounds = DOMAIN b.wounds \cup {calls + 1}
    BY <1>5, <1>9, <2>1, <2>2, AddWoundIs
  <2>4. BodyShape(s) /\ DOMAIN s.wounds = DOMAIN r.wounds \cup {calls + 1}
    BY <1>5, <1>9, <2>1, <2>2, AddWoundIs
  <2>5. Agree(who, c, s)
    BY <1>5, <1>9, <2>1, <2>2, AddWoundAgrees
  <2>6. \A e \in c.effects : e.by \in Nat /\ e.by < calls + 1
    BY <1>2, <1>5, <1>9, <2>3 DEF Kept, Fields
  <2>7. DOMAIN c.wounds \subseteq 1 .. calls + 1 /\ DOMAIN s.wounds \subseteq 1 .. calls + 1
    BY <1>2, <1>9, <2>3, <2>4
  <2>8. Do(who, c, s)
    BY <1>8, <1>11, <2>2
  <2> QED BY <2>3, <2>4, <2>5, <2>6, <2>7, <2>8, DoKeeps
<1> QED BY <1>10, <1>11

LEMMA HealKeeps ==
  ASSUME BodyInv, NEW who \in Patients, NEW part \in Parts, NEW amount \in Nat, HealPart(who, part, amount),
         calls' = calls + 1, UNCHANGED <<clock, menu>>
  PROVE  BodyInv'
<1>1. PICK b, r : b = body[who] /\ r = replica[who]
  OBVIOUS
<1>2. /\ BodyShape(b) /\ Sound(b) /\ BodyShape(r) /\ Agree(who, b, r)
      /\ DOMAIN b.wounds \subseteq 1 .. calls /\ DOMAIN r.wounds \subseteq 1 .. calls
      /\ \A e \in b.effects : e.by \in Nat /\ e.by < calls
      /\ calls \in Nat /\ clock \in Nat
  BY <1>1, KinOf
<1>3. PICK x \in Nat : x = ClampTo(b.hp[part] + amount * Hp, FullHp)
  <2>1. PICK h \in Nat : h = b.hp[part]
    BY <1>2 DEF BodyShape
  <2>2. PICK k \in Nat : k = amount * Hp
    BY DEF Hp
  <2>3. ClampTo(h + k, FullHp) \in Nat
    BY DEF ClampTo, Below, Above, FullHp, Hp
  <2> QED BY <2>1, <2>2, <2>3
<1>4. PICK c, s : c = SetPart(b, part, x) /\ s = SetPart(r, part, x)
  OBVIOUS
<1>5. /\ BodyShape(c) /\ Sound(c) /\ BodyShape(s) /\ Agree(who, c, s)
      /\ c.wounds = b.wounds /\ s.wounds = r.wounds /\ c.effects = b.effects /\ c.hp[part] = x
  <2>1. Kept(b, c, {"hp", "health"}) /\ c.hp = [b.hp EXCEPT ![part] = x] /\ BodyShape(c) /\ Sound(c)
    BY <1>2, <1>4, SetPartIs
  <2>2. Kept(r, s, {"hp", "health"}) /\ BodyShape(s)
    BY <1>2, <1>4, SetPartIs
  <2>3. Agree(who, c, s)
    BY <1>2, <1>4, SetPartAgrees
  <2>4. c.hp[part] = x
    BY <1>2, <2>1 DEF BodyShape
  <2> QED BY <2>1, <2>2, <2>3, <2>4 DEF Kept, Fields
<1>6. Do(who, c, s)
  BY <1>1, <1>3, <1>4, <1>5 DEF HealPart
<1>7. /\ DOMAIN c.wounds \subseteq 1 .. calls + 1 /\ DOMAIN s.wounds \subseteq 1 .. calls + 1
      /\ \A e \in c.effects : e.by \in Nat /\ e.by < calls + 1
  BY <1>2, <1>5
<1> QED BY <1>5, <1>6, <1>7, DoKeeps

(* A treatment finds wounds the part has, in a state it can be given in.   *)
LEMMA TreatedIs ==
  ASSUME NEW ws, NEW op \in DOMAIN Treatments, NEW part, NEW i \in TreatedBy(ws, op, part)
  PROVE  i \in DOMAIN ws /\ ws[i].treat \in Treatments[op].from /\ (op = "bandage" => ws[i].sev <= 3)
  BY DEF TreatedBy, Bandageable, Treatable

LEMMA TreatmentsAre ==
  ASSUME NEW op \in DOMAIN Treatments
  PROVE  /\ op \in {"bandage", "disinfect", "stitch", "pack", "tourniquet", "untie"}
         /\ op \in {"bandage", "disinfect", "pack"} => "tourniquet" \notin Treatments[op].from
         /\ Treatments[op].to = "tourniquet" <=> op = "tourniquet"
         /\ Treatments[op].to = "bandaged" <=> op = "bandage"
  BY DEF Treatments, Open

LEMMA TreatmentKeeps ==
  ASSUME BodyInv, NEW who \in Patients, NEW op \in DOMAIN Treatments, NEW part, Treatment(who, op, part),
         calls' = calls + 1, UNCHANGED <<clock, menu>>
  PROVE  BodyInv'
<1>1. PICK b, r : b = body[who] /\ r = replica[who]
  OBVIOUS
<1>2. /\ BodyShape(b) /\ Sound(b) /\ BodyShape(r) /\ Agree(who, b, r)
      /\ DOMAIN b.wounds \subseteq 1 .. calls /\ DOMAIN r.wounds \subseteq 1 .. calls
      /\ \A e \in b.effects : e.by \in Nat /\ e.by < calls
      /\ calls \in Nat /\ clock \in Nat
  BY <1>1, KinOf
<1>3. PICK hit, to : hit = TreatedBy(b.wounds, op, part) /\ to = Treatments[op].to
  OBVIOUS
<1>4. PICK ws, us : ws = Treat(b.wounds, hit, op, clock) /\ us = ReplayTreat(r.wounds, hit, to, clock)
  OBVIOUS
<1>5. PICK c, s : c = [b EXCEPT !.wounds = ws] /\ s = [r EXCEPT !.wounds = us] /\ Do(who, c, s)
  BY <1>1, <1>3, <1>4 DEF Treatment
<1>6. Kept(b, c, {"wounds"}) /\ c.wounds = ws /\ Kept(r, s, {"wounds"}) /\ s.wounds = us
  BY <1>2, <1>5 DEF Kept, BodyShape, Fields
<1>7. /\ DOMAIN ws = DOMAIN b.wounds /\ ws = [i \in DOMAIN ws |-> ws[i]]
      /\ DOMAIN us = DOMAIN r.wounds /\ us = [i \in DOMAIN us |-> us[i]]
  BY <1>4 DEF Treat, ReplayTreat
<1>8. ASSUME NEW i \in DOMAIN ws
      PROVE  /\ WoundShape(ws[i]) /\ WoundOk(ws[i]) /\ ws[i].part = b.wounds[i].part
             /\ i \in DOMAIN us /\ SameWound(us[i], ws[i])
  <2>1. PICK w, u : w = b.wounds[i] /\ u = r.wounds[i]
    OBVIOUS
  <2>2. WoundShape(w) /\ WoundOk(w) /\ WoundShape(u) /\ SameWound(u, w) /\ i \in DOMAIN r.wounds
    BY <1>2, <1>7, <2>1 DEF BodyShape, WoundsShape, Sound, Agree
  <2>3. CASE i \notin hit
    <3>1. ws[i] = w /\ us[i] = u
      BY <1>4, <1>7, <2>1, <2>2, <2>3 DEF Treat, ReplayTreat
    <3> QED BY <1>7, <2>1, <2>2, <3>1
  <2>4. CASE i \in hit
    <3>1. ws[i] = [w EXCEPT !.treat = to, !.changed = clock, !.tied = Timer(w, op, clock)]
      BY <1>3, <1>4, <1>7, <2>1, <2>4 DEF Treat
    <3>2. us[i] = [u EXCEPT !.treat = to, !.changed = clock, !.tied = IF to = "tourniquet" THEN clock ELSE NoTick]
      BY <1>4, <2>1, <2>2, <2>4 DEF ReplayTreat
    <3>3. w.treat \in Treatments[op].from /\ (op = "bandage" => w.sev <= 3)
      BY <1>3, <2>1, <2>4, TreatedIs
    <3>4. Timer(w, op, clock) = IF to = "tourniquet" THEN clock ELSE NoTick
      BY <1>3, <2>2, <3>3, TreatmentsAre DEF Timer, WoundOk
    <3>5. clock # NoTick
      BY <1>2 DEF NoTick
    <3>6. WoundOk(ws[i])
      <4>1. w.sev \in Nat
        BY <2>2 DEF WoundShape
      <4> QED BY <1>3, <2>2, <3>1, <3>3, <3>4, <3>5, <4>1, TreatmentsAre DEF WoundOk, WoundShape
    <3> QED BY <1>7, <2>1, <2>2, <3>1, <3>2, <3>4, <3>6 DEF WoundShape, SameWound
  <2> QED BY <2>3, <2>4
<1>9. ASSUME NEW i \in DOMAIN us PROVE WoundShape(us[i])
  <2>1. PICK u : u = r.wounds[i]
    OBVIOUS
  <2>2. WoundShape(u)
    BY <1>2, <1>7, <2>1 DEF BodyShape, WoundsShape
  <2>3. us[i] = u \/ us[i] = [u EXCEPT !.treat = to, !.changed = clock, !.tied = IF to = "tourniquet" THEN clock ELSE NoTick]
    BY <1>4, <1>7, <2>1 DEF ReplayTreat
  <2> QED BY <2>2, <2>3 DEF WoundShape
<1>10. \A i \in DOMAIN us \ DOMAIN ws : us[i].treat \in {"bandaged", "stitched"}
  <2> SUFFICES ASSUME NEW i \in DOMAIN us \ DOMAIN ws PROVE us[i].treat \in {"bandaged", "stitched"}
    OBVIOUS
  <2>1. i \notin hit
    BY <1>3, <1>7, TreatedIs
  <2>2. us[i] = r.wounds[i]
    BY <1>4, <1>7, <2>1 DEF ReplayTreat
  <2> QED BY <1>2, <1>7, <2>2 DEF Agree
<1>11. BodyShape(c) /\ BodyShape(s)
  BY <1>2, <1>6, <1>7, <1>8, <1>9 DEF BodyShape, Kept, Fields, WoundsShape
<1>12. Sound(c)
  BY <1>2, <1>6, <1>7, <1>8 DEF Sound, LimbsMatch, VitalMin, Kept, Fields
<1>13. Agree(who, c, s)
  BY <1>2, <1>6, <1>8, <1>10 DEF Agree, Kept, Fields
<1>14. /\ DOMAIN c.wounds \subseteq 1 .. calls + 1 /\ DOMAIN s.wounds \subseteq 1 .. calls + 1
       /\ \A e \in c.effects : e.by \in Nat /\ e.by < calls + 1
  BY <1>2, <1>6, <1>7 DEF Kept, Fields
<1> QED BY <1>5, <1>11, <1>12, <1>13, <1>14, DoKeeps

(* Effects that begin now or later, given alike to the body and the replica. *)
Given(b, c, es) == Kept(b, c, {"effects"}) /\ c.effects = b.effects \cup es
AtWork(es) == \A e \in es : e.at \in Nat /\ e.dur \in Nat /\ Active(e, clock)

LEMMA EffectsAgree ==
  ASSUME NEW n, NEW b, NEW r, BodyShape(b), Sound(b), BodyShape(r), Agree(n, b, r),
         NEW es, AtWork(es), NEW c, NEW s, Given(b, c, es), Given(r, s, es)
  PROVE  BodyShape(c) /\ Sound(c) /\ BodyShape(s) /\ Agree(n, c, s) /\ c.wounds = b.wounds /\ s.wounds = r.wounds
<1>1. BodyShape(c) /\ BodyShape(s)
  BY DEF BodyShape, Given, AtWork, Kept, Fields, EffectsShape
<1>2. Sound(c)
  BY DEF Sound, LimbsMatch, VitalMin, Given, Kept, Fields
<1>3. n \in Players => {e \in s.effects : Active(e, clock)} = c.effects
  BY DEF Agree, Given, AtWork
<1>4. Agree(n, c, s)
  BY <1>3 DEF Agree, Given, Kept, Fields
<1> QED BY <1>1, <1>2, <1>4 DEF Given, Kept, Fields

LEMMA AntibioticsKeeps ==
  ASSUME BodyInv, NEW who \in Patients, ApplyAntibiotics(who), calls' = calls + 1, UNCHANGED <<clock, menu>>
  PROVE  BodyInv'
<1>1. PICK b, r : b = body[who] /\ r = replica[who]
  OBVIOUS
<1>2. /\ BodyShape(b) /\ Sound(b) /\ BodyShape(r) /\ Agree(who, b, r)
      /\ DOMAIN b.wounds \subseteq 1 .. calls /\ DOMAIN r.wounds \subseteq 1 .. calls
      /\ \A e \in b.effects : e.by \in Nat /\ e.by < calls
      /\ calls \in Nat /\ clock \in Nat
  BY <1>1, KinOf
<1>3. PICK e : e = Effect("antibiotics", clock, Med.clear + 1, 1)
  OBVIOUS
<1>4. e.at \in Nat /\ e.dur \in Nat /\ Active(e, clock) /\ e.by = calls
  BY <1>2, <1>3, BodyAssumption DEF Effect, Active, Elapsed, Above
<1>5. PICK c, s : c = AddEffect(b, e) /\ s = AddEffect(r, e) /\ Do(who, c, s)
  BY <1>1, <1>3 DEF ApplyAntibiotics
<1>6. Kept(b, c, {"effects"}) /\ c.effects = b.effects \cup {e} /\ Kept(r, s, {"effects"}) /\ s.effects = r.effects \cup {e}
  BY <1>2, <1>5 DEF AddEffect, Kept, Fields, BodyShape
<1>7. BodyShape(c) /\ Sound(c) /\ BodyShape(s) /\ Agree(who, c, s) /\ c.wounds = b.wounds /\ s.wounds = r.wounds
  <2>1. AtWork({e}) /\ Given(b, c, {e}) /\ Given(r, s, {e})
    BY <1>4, <1>6 DEF AtWork, Given
  <2> QED BY <1>2, <2>1, EffectsAgree
<1>8. /\ DOMAIN c.wounds \subseteq 1 .. calls + 1 /\ DOMAIN s.wounds \subseteq 1 .. calls + 1
      /\ \A f \in c.effects : f.by \in Nat /\ f.by < calls + 1
  BY <1>2, <1>4, <1>6, <1>7
<1> QED BY <1>5, <1>7, <1>8, DoKeeps

LEMMA MeterKeeps ==
  ASSUME BodyInv, NEW who \in Patients, NEW meter \in MeterNames, NEW value \in Int, SetSurvivalStat(who, meter, value),
         calls' = calls + 1, UNCHANGED <<clock, menu>>
  PROVE  BodyInv'
<1>1. PICK b, r : b = body[who] /\ r = replica[who]
  OBVIOUS
<1>2. /\ BodyShape(b) /\ Sound(b) /\ BodyShape(r) /\ Agree(who, b, r)
      /\ DOMAIN b.wounds \subseteq 1 .. calls /\ DOMAIN r.wounds \subseteq 1 .. calls
      /\ \A e \in b.effects : e.by \in Nat /\ e.by < calls
      /\ calls \in Nat /\ clock \in Nat
  BY <1>1, KinOf
<1>3. PICK x \in Nat : x = ClampTo(value, FullMeal)
  BY DEF ClampTo, Below, Above, FullMeal
<1>4. PICK c, s : c = [b EXCEPT !.meal[meter] = x] /\ s = [r EXCEPT !.meal[meter] = x] /\ Do(who, c, s)
  BY <1>1, <1>3 DEF SetSurvivalStat
<1>5. /\ Kept(b, c, {"meal"}) /\ c.meal = [b.meal EXCEPT ![meter] = x]
      /\ Kept(r, s, {"meal"}) /\ s.meal = [r.meal EXCEPT ![meter] = x]
  BY <1>2, <1>4 DEF Kept, Fields, BodyShape
<1>6. c.meal \in [MeterNames -> Nat] /\ s.meal \in [MeterNames -> Nat] /\ \A m \in MeterNames : s.meal[m] >= c.meal[m]
  BY <1>2, <1>5 DEF BodyShape, Agree
<1>7. BodyShape(c) /\ BodyShape(s)
  BY <1>2, <1>5, <1>6 DEF BodyShape, Kept, Fields
<1>8. Sound(c)
  BY <1>2, <1>5 DEF Sound, LimbsMatch, VitalMin, Kept, Fields
<1>9. Agree(who, c, s)
  BY <1>2, <1>5, <1>6 DEF Agree, Kept, Fields
<1>10. /\ DOMAIN c.wounds \subseteq 1 .. calls + 1 /\ DOMAIN s.wounds \subseteq 1 .. calls + 1
       /\ \A f \in c.effects : f.by \in Nat /\ f.by < calls + 1
  BY <1>2, <1>5 DEF Kept, Fields
<1> QED BY <1>4, <1>7, <1>8, <1>9, <1>10, DoKeeps

LEMMA StaminaKeeps ==
  ASSUME BodyInv, NEW who \in Patients, NEW value, SetStamina(who, value), calls' = calls + 1, UNCHANGED <<clock, menu>>
  PROVE  BodyInv'
<1>1. PICK b, r, x : b = body[who] /\ r = replica[who] /\ x = ClampTo(value, FullStamina)
  OBVIOUS
<1>2. /\ BodyShape(b) /\ Sound(b) /\ BodyShape(r) /\ Agree(who, b, r)
      /\ DOMAIN b.wounds \subseteq 1 .. calls /\ DOMAIN r.wounds \subseteq 1 .. calls
      /\ \A e \in b.effects : e.by \in Nat /\ e.by < calls
      /\ calls \in Nat /\ clock \in Nat
  BY <1>1, KinOf
<1>3. PICK c, s : c = [b EXCEPT !.stamina = x] /\ s = [r EXCEPT !.stamina = x] /\ Do(who, c, s)
  BY <1>1 DEF SetStamina
<1>4. Kept(b, c, {"stamina"}) /\ Kept(r, s, {"stamina"})
  BY <1>2, <1>3 DEF Kept, Fields, BodyShape
<1>5. BodyShape(c) /\ BodyShape(s)
  BY <1>2, <1>4 DEF BodyShape, Kept, Fields
<1>6. Sound(c)
  BY <1>2, <1>4 DEF Sound, LimbsMatch, VitalMin, Kept, Fields
<1>7. Agree(who, c, s)
  BY <1>2, <1>4 DEF Agree, Kept, Fields
<1>8. /\ DOMAIN c.wounds \subseteq 1 .. calls + 1 /\ DOMAIN s.wounds \subseteq 1 .. calls + 1
      /\ \A f \in c.effects : f.by \in Nat /\ f.by < calls + 1
  BY <1>2, <1>4 DEF Kept, Fields
<1> QED BY <1>3, <1>5, <1>6, <1>7, <1>8, DoKeeps

----------------------------------------------------------------------------
(* Drugs and meals.                                                        *)

LEMMA DrugIs ==
  ASSUME NEW drug \in Drugs
  PROVE  /\ DOMAIN DrugTable = Drugs
         /\ DrugTable[drug].gain \in Nat /\ DrugTable[drug].dur \in Nat \ {0}
         /\ DrugTable[drug].crash \in {"none", "crash", "rebound"}
<1>1. DOMAIN DrugTable = Drugs
  BY DEF DrugTable, Drugs
<1>2. PICK d : d = DrugTable[drug]
  OBVIOUS
<1>3. \/ d = [gain |-> 15, dur |-> 3, x |-> 25, crash |-> "none"]
      \/ d = [gain |-> 30, dur |-> 2, x |-> 75, crash |-> "none"]
      \/ d = [gain |-> 50, dur |-> 1, x |-> 1, crash |-> "crash"]
      \/ d = [gain |-> 20, dur |-> 3, x |-> 3, crash |-> "rebound"]
      \/ d = [gain |-> 20, dur |-> 1, x |-> 30, crash |-> "none"]
  BY <1>2 DEF DrugTable, Drugs
<1>4. d.gain \in Nat /\ d.dur \in Nat \ {0} /\ d.crash \in {"none", "crash", "rebound"}
  BY <1>3
<1> QED BY <1>1, <1>2, <1>4

LEMMA ContaminatedIs ==
  ASSUME NEW b, BodyShape(b), NEW x \in Int
  PROVE  /\ Kept(b, AddRad(b, x), {"rad"}) /\ AddRad(b, x).rad \in Nat /\ BodyShape(AddRad(b, x))
         /\ Kept(b, AddTox(b, x), {"tox"}) /\ AddTox(b, x).tox \in Nat /\ BodyShape(AddTox(b, x))
         /\ x = 0 => AddRad(b, x).rad <= b.rad /\ AddTox(b, x).tox <= b.tox
<1>1. PICK i, j, k : i = b.rad /\ j = b.tox /\ k = x * 2000
  OBVIOUS
<1>2. i \in Nat /\ j \in Nat /\ k \in Int /\ (x = 0 => k = 0)
  BY <1>1 DEF BodyShape
<1>3. ClampTo(i + k, FullRad) \in Nat /\ ClampTo(j + k, FullRad) \in Nat
      /\ (x = 0 => ClampTo(i + k, FullRad) <= i /\ ClampTo(j + k, FullRad) <= j)
  BY <1>2 DEF ClampTo, Above, Below, FullRad
<1>4. PICK c, d : c = AddRad(b, x) /\ d = AddTox(b, x)
  OBVIOUS
<1>5. Kept(b, c, {"rad"}) /\ c.rad = ClampTo(i + k, FullRad) /\ Kept(b, d, {"tox"}) /\ d.tox = ClampTo(j + k, FullRad)
  BY <1>1, <1>4 DEF AddRad, AddTox, Kept, Fields, BodyShape
<1>6. BodyShape(c) /\ BodyShape(d)
  BY <1>3, <1>5 DEF BodyShape, Kept, Fields
<1> QED BY <1>1, <1>3, <1>4, <1>5, <1>6

LEMMA ReviveIs ==
  ASSUME NEW b, BodyShape(b)
  PROVE  LET c == Revive(b) IN
         /\ Kept(b, c, {"hp", "health"}) /\ c.hp \in [Parts -> Nat]
         /\ b.health = VitalMin(b) => c.health = VitalMin(c)
<1>1. CASE VitalMin(b) >= 10 * Hp
  BY <1>1 DEF Revive, Kept, BodyShape
<1>2. CASE ~(VitalMin(b) >= 10 * Hp)
  <2> DEFINE hp == [p \in Parts |-> IF p \in {"head", "torso"} THEN Above(b.hp[p], 30 * Hp) ELSE b.hp[p]]
  <2>1. PICK a, c : a = [b EXCEPT !.hp = hp] /\ c = Mirrored(a) /\ c = Revive(b)
    BY <1>2 DEF Revive
  <2>2. Kept(b, a, {"hp"}) /\ a.hp = hp
    BY <2>1 DEF Kept, Fields, BodyShape
  <2>3. hp \in [Parts -> Nat]
    BY DEF BodyShape, Above, Hp
  <2> HIDE DEF hp
  <2>4. Kept(a, c, {"health"}) /\ c.health = VitalMin(c)
    <3>1. Fields \subseteq DOMAIN a
      BY <2>2 DEF Kept, BodyShape
    <3> QED BY <2>1, <3>1, MirroredIs
  <2>5. Kept(b, c, {"hp", "health"}) /\ c.hp = hp
    BY <2>2, <2>4 DEF Kept, Fields
  <2> QED BY <2>1, <2>3, <2>4, <2>5
<1> QED BY <1>1, <1>2

LEMMA AtOnceIs ==
  ASSUME NEW b, BodyShape(b), NEW drug \in Drugs
  PROVE  LET c == AtOnce(b, drug) IN
         /\ Kept(b, c, {"hp", "health", "rad", "tox"}) /\ c.hp \in [Parts -> Nat] /\ c.rad \in Nat /\ c.tox \in Nat
         /\ b.health = VitalMin(b) => c.health = VitalMin(c)
         /\ drug # "antirad" => c.rad = b.rad
         /\ drug \notin {"antirad", "antitox"} => c.tox = b.tox
<1>1. PICK c : c = AtOnce(b, drug)
  OBVIOUS
<1>2. -30 \in Int /\ 5 \in Int
  OBVIOUS
<1>3. CASE drug = "antirad"
  <2>1. PICK a : a = AddRad(b, -30) /\ c = AddTox(a, 5)
    BY <1>1, <1>3 DEF AtOnce
  <2>2. Kept(b, a, {"rad"}) /\ a.rad \in Nat /\ BodyShape(a)
    BY <1>2, <2>1, ContaminatedIs
  <2>3. Kept(a, c, {"tox"}) /\ c.tox \in Nat
    BY <1>2, <2>1, <2>2, ContaminatedIs
  <2> QED BY <1>1, <1>3, <2>2, <2>3 DEF Kept, Fields, BodyShape, VitalMin
<1>4. CASE drug = "antitox"
  <2>1. c = AddTox(b, -30)
    BY <1>1, <1>4 DEF AtOnce
  <2>2. Kept(b, c, {"tox"}) /\ c.tox \in Nat
    BY <1>2, <2>1, ContaminatedIs
  <2> QED BY <1>1, <1>4, <2>2 DEF Kept, Fields, BodyShape, VitalMin
<1>5. CASE drug = "adrenaline"
  <2>1. c = Revive(b)
    BY <1>1, <1>5 DEF AtOnce
  <2>2. Kept(b, c, {"hp", "health"}) /\ c.hp \in [Parts -> Nat] /\ (b.health = VitalMin(b) => c.health = VitalMin(c))
    BY <2>1, ReviveIs
  <2> QED BY <1>1, <1>5, <2>2 DEF Kept, Fields, BodyShape
<1>6. CASE drug \notin {"antirad", "antitox", "adrenaline"}
  <2>1. c = b
    BY <1>1, <1>6 DEF AtOnce
  <2> QED BY <1>1, <2>1 DEF Kept, BodyShape
<1> QED BY <1>3, <1>4, <1>5, <1>6

LEMMA EffectIs ==
  ASSUME clock \in Nat, NEW kind, NEW at \in Nat, at >= clock, NEW dur \in Nat \ {0}, NEW x,
         NEW e, e = Effect(kind, at, dur, x)
  PROVE  e.kind = kind /\ e.at \in Nat /\ e.dur \in Nat /\ Active(e, clock) /\ e.by = calls
<1>1. e.kind = kind /\ e.at = at /\ e.dur = dur /\ e.by = calls
  BY DEF Effect
<1>2. Above(clock - at, 0) = 0
  BY DEF Above
<1> QED BY <1>1, <1>2 DEF Active, Elapsed

(* The effects of a dose begin with it or when the first ends, and say     *)
(* which drug it was unless it was an overdose.                            *)
LEMMA DosesAre ==
  ASSUME NEW drug \in Drugs, NEW over, clock \in Nat, calls \in Nat
  PROVE  /\ \A e \in Doses(drug, over, clock) : e.at \in Nat /\ e.dur \in Nat /\ Active(e, clock) /\ e.by = calls
         /\ ~over => /\ \E e \in Doses(drug, over, clock) : e.kind = drug
                     /\ \A e \in Doses(drug, over, clock) : e.kind \in {drug, "crash", "rebound"}
         /\ over => \A e \in Doses(drug, over, clock) : e.kind = "overdose"
<1>1. PICK dur, crash : dur \in Nat \ {0} /\ dur = DrugTable[drug].dur /\ crash = DrugTable[drug].crash /\ crash \in {"none", "crash", "rebound"}
  BY DrugIs
<1>2. CASE over
  <2>1. Doses(drug, over, clock) = {Effect("overdose", clock, OverdoseTicks, 1)}
    BY <1>2 DEF Doses
  <2>2. PICK e : e = Effect("overdose", clock, OverdoseTicks, 1)
    OBVIOUS
  <2>3. e.kind = "overdose" /\ e.at \in Nat /\ e.dur \in Nat /\ Active(e, clock) /\ e.by = calls
    BY <2>2, EffectIs DEF OverdoseTicks
  <2> QED BY <1>2, <2>1, <2>2, <2>3
<1>3. CASE ~over
  <2>1. PICK x : x = DrugTable[drug].x
    OBVIOUS
  <2>2. Doses(drug, over, clock) = {Effect(drug, clock, dur, x)}
             \cup IF crash = "none" THEN {} ELSE {Effect(crash, clock + dur, CrashTicks, 1)}
    BY <1>1, <1>3, <2>1 DEF Doses
  <2>3. PICK e : e = Effect(drug, clock, dur, x)
    OBVIOUS
  <2>4. PICK f : f = Effect(crash, clock + dur, CrashTicks, 1)
    OBVIOUS
  <2>5. e.kind = drug /\ e.at \in Nat /\ e.dur \in Nat /\ Active(e, clock) /\ e.by = calls
    BY <1>1, <2>3, EffectIs
  <2>6. f.kind = crash /\ f.at \in Nat /\ f.dur \in Nat /\ Active(f, clock) /\ f.by = calls
    BY <1>1, <2>4, EffectIs DEF CrashTicks
  <2> QED BY <1>1, <1>3, <2>2, <2>3, <2>4, <2>5, <2>6
<1> QED BY <1>2, <1>3

(* What a dose makes of a body: "es" are the effects it adds, and the body *)
(* is contaminated otherwise than before only if one of them says so.      *)
Dosed(b, c, drug, es) ==
  /\ Kept(b, c, {"tol", "hp", "health", "rad", "tox", "effects"})
  /\ c.effects = b.effects \cup es /\ AtWork(es) /\ \A e \in es : e.by = calls
  /\ \E t \in Nat : c.tol = [b.tol EXCEPT ![drug] = t]
  /\ c.hp \in [Parts -> Nat] /\ c.rad \in Nat /\ c.tox \in Nat
  /\ b.health = VitalMin(b) => c.health = VitalMin(c)
  /\ (\E e \in es : e.kind = "antirad") \/ c.rad = b.rad
  /\ (\E e \in es : e.kind \in {"antirad", "antitox"}) \/ c.tox = b.tox

LEMMA DruggedIs ==
  ASSUME NEW b, BodyShape(b), NEW drug \in Drugs, clock \in Nat, calls \in Nat
  PROVE  \E es : Dosed(b, Drugged(b, drug, clock), drug, es)
<1>1. PICK over : over = Overdoses(b, drug, clock)
  OBVIOUS
<1>2. PICK t \in Nat : t = Tolerance(b, drug)
  <2>1. PICK g \in Nat, x \in Nat : g = DrugTable[drug].gain /\ x = b.tol[drug]
    BY DrugIs DEF BodyShape
  <2>2. Below(x + g * 240, 100 * 240) \in Nat
    BY DEF Below
  <2> QED BY <2>1, <2>2 DEF Tolerance
<1>3. PICK d : d = [b EXCEPT !.tol[drug] = t]
  OBVIOUS
<1>4. Kept(b, d, {"tol"}) /\ d.tol = [b.tol EXCEPT ![drug] = t]
  BY <1>3 DEF Kept, Fields, BodyShape
<1>5. BodyShape(d)
  BY <1>4 DEF BodyShape, Kept, Fields
<1>6. PICK a : a = IF over THEN d ELSE AtOnce(d, drug)
  OBVIOUS
<1>7. /\ Kept(d, a, {"hp", "health", "rad", "tox"}) /\ a.hp \in [Parts -> Nat] /\ a.rad \in Nat /\ a.tox \in Nat
      /\ d.health = VitalMin(d) => a.health = VitalMin(a)
      /\ over \/ drug # "antirad" => a.rad = d.rad
      /\ over \/ drug \notin {"antirad", "antitox"} => a.tox = d.tox
  <2>1. CASE over
    <3>1. a = d
      BY <1>6, <2>1
    <3> QED BY <1>5, <3>1 DEF Kept, BodyShape
  <2>2. CASE ~over
    <3>1. a = AtOnce(d, drug)
      BY <1>6, <2>2
    <3>2. /\ Kept(d, a, {"hp", "health", "rad", "tox"}) /\ a.hp \in [Parts -> Nat] /\ a.rad \in Nat /\ a.tox \in Nat
          /\ d.health = VitalMin(d) => a.health = VitalMin(a)
          /\ drug # "antirad" => a.rad = d.rad
          /\ drug \notin {"antirad", "antitox"} => a.tox = d.tox
      BY <1>5, <3>1, AtOnceIs
    <3> QED BY <2>2, <3>2
  <2> QED BY <2>1, <2>2
<1>8. PICK es : es = Doses(drug, over, clock)
  OBVIOUS
<1>9. PICK c : c = [a EXCEPT !.effects = @ \cup es] /\ c = Drugged(b, drug, clock)
  BY <1>1, <1>2, <1>3, <1>6, <1>8 DEF Drugged
<1>10. Kept(a, c, {"effects"}) /\ c.effects = a.effects \cup es
  <2>1. Fields \subseteq DOMAIN a
    BY <1>5, <1>7 DEF Kept, BodyShape
  <2> QED BY <1>9, <2>1 DEF Kept, Fields
<1>11. Kept(b, c, {"tol", "hp", "health", "rad", "tox", "effects"}) /\ c.effects = b.effects \cup es
       /\ c.tol = [b.tol EXCEPT ![drug] = t]
       /\ c.hp = a.hp /\ c.rad = a.rad /\ c.tox = a.tox /\ c.health = a.health
       /\ d.hp = b.hp /\ d.rad = b.rad /\ d.tox = b.tox /\ d.health = b.health
  BY <1>4, <1>7, <1>10 DEF Kept, Fields
<1>12. AtWork(es) /\ \A e \in es : e.by = calls
  BY <1>8, DosesAre DEF AtWork
<1>13. ~over => \E e \in es : e.kind = drug
  BY <1>8, DosesAre
<1>14. b.health = VitalMin(b) => c.health = VitalMin(c)
  BY <1>7, <1>11 DEF VitalMin
<1> QED BY <1>7, <1>9, <1>11, <1>12, <1>13, <1>14 DEF Dosed

LEMMA DoseAgrees ==
  ASSUME NEW n, NEW b, NEW r, BodyShape(b), Sound(b), BodyShape(r), Agree(n, b, r),
         \A e \in b.effects : e.by \in Nat /\ e.by < calls, clock \in Nat, calls \in Nat,
         NEW drug \in Drugs, NEW c, c = Drugged(b, drug, clock), NEW s, s = ReplayDose(r, b, c, drug)
  PROVE  /\ BodyShape(c) /\ Sound(c) /\ BodyShape(s) /\ Agree(n, c, s) /\ c.wounds = b.wounds /\ s.wounds = r.wounds
         /\ \A e \in c.effects : e.by \in Nat /\ e.by < calls + 1
<1>1. PICK es : Dosed(b, c, drug, es)
  BY DruggedIs
<1>2. PICK t \in Nat : c.tol = [b.tol EXCEPT ![drug] = t]
  BY <1>1 DEF Dosed
<1>3. c.effects \ b.effects = es
  <2>1. c.effects = b.effects \cup es /\ \A e \in es : e.by = calls
    BY <1>1 DEF Dosed
  <2>2. \A e \in es : e \notin b.effects
    BY <2>1
  <2> QED BY <2>1, <2>2
<1> DEFINE hit == {p \in Parts : c.hp[p] # b.hp[p]}
           hp == [p \in Parts |-> IF p \in hit THEN c.hp[p] ELSE r.hp[p]]
           rad == IF \E e \in es : e.kind = "antirad" THEN c.rad ELSE r.rad
           tox == IF \E e \in es : e.kind \in {"antirad", "antitox"} THEN c.tox ELSE r.tox
<1>4. PICK q, m : q = [r EXCEPT !.hp = hp] /\ m = Mirrored(q)
  OBVIOUS
<1>5. Kept(r, q, {"hp"}) /\ q.hp = hp
  BY <1>4 DEF Kept, Fields, BodyShape
<1>6. Kept(q, m, {"health"})
  <2>1. Fields \subseteq DOMAIN q
    BY <1>5 DEF Kept, BodyShape
  <2> QED BY <1>4, <2>1, MirroredIs
<1>7. Kept(r, m, {"hp", "health"}) /\ m.hp = hp /\ m.rad = r.rad /\ m.tox = r.tox /\ m.effects = r.effects /\ m.tol = r.tol
  <2> HIDE DEF hp
  <2> QED BY <1>5, <1>6 DEF Kept, Fields
<1>8. c.tol[drug] = t
  BY <1>2 DEF BodyShape
<1>9. s = [m EXCEPT !.tol[drug] = t, !.effects = r.effects \cup es, !.rad = rad, !.tox = tox]
  BY <1>3, <1>4, <1>7, <1>8 DEF ReplayDose
<1>10. hp \in [Parts -> Nat] /\ \A p \in Parts : hp[p] >= c.hp[p]
  BY <1>1 DEF Dosed, BodyShape, Agree
<1>11. rad \in Nat /\ tox \in Nat /\ rad >= c.rad /\ tox >= c.tox
  BY <1>1 DEF Dosed, BodyShape, Agree
<1> HIDE DEF hp, rad, tox
<1>12. /\ Kept(r, s, {"hp", "health", "tol", "effects", "rad", "tox"}) /\ s.hp = hp /\ s.rad = rad /\ s.tox = tox
       /\ s.effects = r.effects \cup es /\ s.tol = [r.tol EXCEPT ![drug] = t]
  <2>1. Fields \subseteq DOMAIN m
    BY <1>7 DEF Kept, BodyShape
  <2>2. Kept(m, s, {"tol", "effects", "rad", "tox"}) /\ s.rad = rad /\ s.tox = tox
        /\ s.effects = r.effects \cup es /\ s.tol = [m.tol EXCEPT ![drug] = t]
    BY <1>9, <2>1 DEF Kept, Fields
  <2> QED BY <1>7, <2>2 DEF Kept, Fields
<1>13. c.tol \in [Drugs -> Nat] /\ s.tol \in [Drugs -> Nat] /\ \A d \in Drugs : s.tol[d] >= c.tol[d]
  BY <1>2, <1>12 DEF BodyShape, Agree
<1>14. AtWork(es) /\ c.effects = b.effects \cup es /\ Kept(b, c, {"tol", "hp", "health", "rad", "tox", "effects"})
       /\ c.hp \in [Parts -> Nat] /\ c.rad \in Nat /\ c.tox \in Nat /\ (b.health = VitalMin(b) => c.health = VitalMin(c))
       /\ \A e \in es : e.by = calls
  BY <1>1 DEF Dosed
<1>15. EffectsShape(c.effects) /\ EffectsShape(s.effects)
  BY <1>12, <1>14 DEF BodyShape, EffectsShape, AtWork
<1>16. BodyShape(c)
  BY <1>13, <1>14, <1>15 DEF BodyShape, Kept, Fields
<1>17. BodyShape(s)
  BY <1>10, <1>11, <1>12, <1>13, <1>15 DEF BodyShape, Kept, Fields
<1>18. Sound(c)
  BY <1>14 DEF Sound, LimbsMatch, Kept, Fields
<1>19. n \in Players => {e \in s.effects : Active(e, clock)} = c.effects
  BY <1>12, <1>14 DEF Agree, AtWork
<1>20. c.wounds = b.wounds /\ s.wounds = r.wounds /\ c.meal = b.meal /\ s.meal = r.meal
  BY <1>12, <1>14 DEF Kept, Fields
<1>21. Agree(n, c, s)
  BY <1>10, <1>11, <1>12, <1>13, <1>19, <1>20 DEF Agree
<1>22. \A e \in c.effects : e.by \in Nat /\ e.by < calls + 1
  BY <1>14
<1> QED BY <1>16, <1>17, <1>18, <1>20, <1>21, <1>22

LEMMA DrugKeeps ==
  ASSUME BodyInv, NEW who \in Patients, NEW drug \in Drugs, ApplyDrug(who, drug),
         calls' = calls + 1, UNCHANGED <<clock, menu>>
  PROVE  BodyInv'
<1>1. PICK b, r : b = body[who] /\ r = replica[who]
  OBVIOUS
<1>2. /\ BodyShape(b) /\ Sound(b) /\ BodyShape(r) /\ Agree(who, b, r)
      /\ DOMAIN b.wounds \subseteq 1 .. calls /\ DOMAIN r.wounds \subseteq 1 .. calls
      /\ \A e \in b.effects : e.by \in Nat /\ e.by < calls
      /\ calls \in Nat /\ clock \in Nat
  BY <1>1, KinOf
<1>3. PICK c : c = Drugged(b, drug, clock)
  OBVIOUS
<1>4. PICK s : s = ReplayDose(r, b, c, drug)
  OBVIOUS
<1>5. Do(who, c, s)
  BY <1>1, <1>3, <1>4 DEF ApplyDrug
<1>6. /\ BodyShape(c) /\ Sound(c) /\ BodyShape(s) /\ Agree(who, c, s) /\ c.wounds = b.wounds /\ s.wounds = r.wounds
      /\ \A e \in c.effects : e.by \in Nat /\ e.by < calls + 1
  BY <1>2, <1>3, <1>4, DoseAgrees
<1>7. DOMAIN c.wounds \subseteq 1 .. calls + 1 /\ DOMAIN s.wounds \subseteq 1 .. calls + 1
  BY <1>2, <1>6
<1> QED BY <1>5, <1>6, <1>7, DoKeeps

(* What a dish does to the meters is a whole number, and it may be a stim. *)
DishShape(p) ==
  /\ p.hunger \in Int /\ p.thirst \in Int /\ p.fatigue \in Int /\ p.rad \in Int /\ p.tox \in Int
  /\ p.drug \in {"none", "stim"}

LEMMA DishIs ==
  ASSUME NEW kind \in DOMAIN Profile
  PROVE  DishShape(Profile[kind])
<1> DEFINE dishes == DOMAIN Profile
<1>1. dishes = {"ration", "freshFood", "rawMeat", "cookedMeat", "contaminated", "fieldRation", "energyBar", "dirtyWater",
                "cleanWater", "energyDrink", "vodka"}
  BY DEF Profile
<1>2. DishShape(Profile["ration"]) /\ DishShape(Profile["freshFood"]) /\ DishShape(Profile["rawMeat"])
  BY DEF Profile, DishShape
<1>3. DishShape(Profile["cookedMeat"]) /\ DishShape(Profile["contaminated"]) /\ DishShape(Profile["fieldRation"])
  BY DEF Profile, DishShape
<1>4. DishShape(Profile["energyBar"]) /\ DishShape(Profile["dirtyWater"]) /\ DishShape(Profile["cleanWater"])
  BY DEF Profile, DishShape
<1>5. DishShape(Profile["energyDrink"]) /\ DishShape(Profile["vodka"])
  BY DEF Profile, DishShape
<1>6. kind \in dishes
  OBVIOUS
<1> HIDE DEF dishes
<1> QED BY <1>1, <1>2, <1>3, <1>4, <1>5, <1>6

LEMMA ConsumedAgrees ==
  ASSUME NEW n, NEW b, NEW r, BodyShape(b), Sound(b), BodyShape(r), Agree(n, b, r), NEW p, DishShape(p),
         NEW c, c = Consumed(b, p), NEW s, s = ReplayConsumed(r, c, p)
  PROVE  /\ BodyShape(c) /\ Sound(c) /\ BodyShape(s) /\ Agree(n, c, s)
         /\ c.wounds = b.wounds /\ s.wounds = r.wounds /\ c.effects = b.effects
<1> DEFINE meal == [m \in MeterNames |-> ClampTo(b.meal[m] + p[m] * 2880, FullMeal)]
           answered == [m \in MeterNames |-> IF p[m] # 0 THEN c.meal[m] ELSE r.meal[m]]
<1>1. \A m \in MeterNames : meal[m] \in Nat /\ (p[m] = 0 => meal[m] <= b.meal[m])
  <2> SUFFICES ASSUME NEW m \in MeterNames PROVE meal[m] \in Nat /\ (p[m] = 0 => meal[m] <= b.meal[m])
    OBVIOUS
  <2>1. PICK x, y : x = b.meal[m] /\ y = p[m]
    OBVIOUS
  <2>2. x \in Nat /\ y \in Int
    BY <2>1 DEF BodyShape, MeterNames, DishShape
  <2>3. ClampTo(x + y * 2880, FullMeal) \in Nat /\ (y = 0 => ClampTo(x + y * 2880, FullMeal) <= x)
    BY <2>2 DEF ClampTo, Above, Below, FullMeal
  <2> QED BY <2>1, <2>3
<1>2. PICK f, g : f = [b EXCEPT !.meal = meal] /\ g = AddRad(f, p.rad) /\ c = AddTox(g, p.tox)
  BY DEF Consumed
<1>3. Kept(b, f, {"meal"}) /\ f.meal = meal
  BY <1>2 DEF Kept, Fields, BodyShape
<1>4. meal \in [MeterNames -> Nat]
  BY <1>1
<1> HIDE DEF meal
<1>5. BodyShape(f)
  BY <1>3, <1>4 DEF BodyShape, Kept, Fields
<1>6. p.rad \in Int /\ p.tox \in Int
  BY DEF DishShape
<1>7. Kept(f, g, {"rad"}) /\ g.rad \in Nat /\ BodyShape(g) /\ (p.rad = 0 => g.rad <= f.rad)
  BY <1>2, <1>5, <1>6, ContaminatedIs
<1>8. Kept(g, c, {"tox"}) /\ c.tox \in Nat /\ BodyShape(c) /\ (p.tox = 0 => c.tox <= g.tox)
  BY <1>2, <1>6, <1>7, ContaminatedIs
<1>9. /\ Kept(b, c, {"meal", "rad", "tox"}) /\ c.meal = meal /\ c.rad \in Nat /\ c.tox \in Nat
      /\ (p.rad = 0 => c.rad <= b.rad) /\ (p.tox = 0 => c.tox <= b.tox)
  BY <1>3, <1>7, <1>8 DEF Kept, Fields
<1>10. answered \in [MeterNames -> Nat] /\ \A m \in MeterNames : answered[m] >= c.meal[m]
  <2>1. \A m \in MeterNames : r.meal[m] \in Nat /\ b.meal[m] \in Nat /\ r.meal[m] >= b.meal[m]
    BY DEF BodyShape, Agree
  <2>2. ASSUME NEW m \in MeterNames PROVE answered[m] \in Nat /\ answered[m] >= c.meal[m]
    <3>1. PICK x, y, z : x = r.meal[m] /\ y = b.meal[m] /\ z = c.meal[m]
      OBVIOUS
    <3>2. x \in Nat /\ y \in Nat /\ x >= y /\ z \in Nat /\ (p[m] = 0 => z <= y)
      BY <1>1, <1>9, <2>1, <3>1
    <3>3. answered[m] = IF p[m] # 0 THEN z ELSE x
      BY <3>1
    <3> QED BY <3>1, <3>2, <3>3
  <2> QED BY <2>2
<1>11. /\ Kept(r, s, {"meal", "rad", "tox"}) /\ s.meal = answered
       /\ s.rad = (IF p.rad # 0 THEN c.rad ELSE r.rad) /\ s.tox = (IF p.tox # 0 THEN c.tox ELSE r.tox)
  <2>1. s = [r EXCEPT !.meal = answered, !.rad = IF p.rad # 0 THEN c.rad ELSE r.rad,
                      !.tox = IF p.tox # 0 THEN c.tox ELSE r.tox]
    BY DEF ReplayConsumed, BodyShape, Fields
  <2> HIDE DEF answered
  <2> QED BY <2>1 DEF Kept, Fields, BodyShape
<1> HIDE DEF answered
<1>12. s.rad \in Nat /\ s.tox \in Nat /\ s.rad >= c.rad /\ s.tox >= c.tox
  BY <1>9, <1>11 DEF BodyShape, Agree
<1>13. BodyShape(s)
  BY <1>10, <1>11, <1>12 DEF BodyShape, Kept, Fields
<1>14. Sound(c)
  BY <1>9 DEF Sound, LimbsMatch, VitalMin, Kept, Fields
<1>15. c.wounds = b.wounds /\ s.wounds = r.wounds /\ c.effects = b.effects /\ s.effects = r.effects
       /\ c.hp = b.hp /\ s.hp = r.hp /\ c.tol = b.tol /\ s.tol = r.tol
  BY <1>9, <1>11 DEF Kept, Fields
<1>16. Agree(n, c, s)
  BY <1>10, <1>11, <1>12, <1>15 DEF Agree
<1> QED BY <1>8, <1>13, <1>14, <1>15, <1>16

LEMMA ConsumeKeeps ==
  ASSUME BodyInv, NEW who \in Patients, NEW kind \in DOMAIN Profile, Consume(who, kind),
         calls' = calls + 1, UNCHANGED <<clock, menu>>
  PROVE  BodyInv'
<1>1. PICK b, r : b = body[who] /\ r = replica[who]
  OBVIOUS
<1>2. /\ BodyShape(b) /\ Sound(b) /\ BodyShape(r) /\ Agree(who, b, r)
      /\ DOMAIN b.wounds \subseteq 1 .. calls /\ DOMAIN r.wounds \subseteq 1 .. calls
      /\ \A e \in b.effects : e.by \in Nat /\ e.by < calls
      /\ calls \in Nat /\ clock \in Nat
  BY <1>1, KinOf
<1>3. PICK p : p = Profile[kind] /\ DishShape(p)
  BY DishIs
<1>4. PICK f : f = Consumed(b, p)
  OBVIOUS
<1>5. PICK t : t = ReplayConsumed(r, f, p)
  OBVIOUS
<1>6. /\ BodyShape(f) /\ Sound(f) /\ BodyShape(t) /\ Agree(who, f, t)
      /\ f.wounds = b.wounds /\ t.wounds = r.wounds /\ f.effects = b.effects
  BY <1>2, <1>3, <1>4, <1>5, ConsumedAgrees
<1>7. CASE p.drug = "none"
  <2>1. Do(who, f, t)
    BY <1>1, <1>3, <1>4, <1>5, <1>7 DEF Consume
  <2>2. /\ DOMAIN f.wounds \subseteq 1 .. calls + 1 /\ DOMAIN t.wounds \subseteq 1 .. calls + 1
        /\ \A e \in f.effects : e.by \in Nat /\ e.by < calls + 1
    BY <1>2, <1>6
  <2> QED BY <1>6, <2>1, <2>2, DoKeeps
<1>8. CASE p.drug # "none"
  <2>1. PICK drug \in Drugs : drug = p.drug
    BY <1>3, <1>8 DEF DishShape, Drugs
  <2>2. PICK c : c = Drugged(f, drug, clock)
    OBVIOUS
  <2>3. PICK s : s = ReplayDose(t, f, c, drug)
    OBVIOUS
  <2>4. Do(who, c, s)
    BY <1>1, <1>3, <1>4, <1>5, <1>8, <2>1, <2>2, <2>3 DEF Consume
  <2>5. \A e \in f.effects : e.by \in Nat /\ e.by < calls
    BY <1>2, <1>6
  <2>6. /\ BodyShape(c) /\ Sound(c) /\ BodyShape(s) /\ Agree(who, c, s) /\ c.wounds = f.wounds /\ s.wounds = t.wounds
        /\ \A e \in c.effects : e.by \in Nat /\ e.by < calls + 1
    BY <1>2, <1>6, <2>2, <2>3, <2>5, DoseAgrees
  <2>7. DOMAIN c.wounds \subseteq 1 .. calls + 1 /\ DOMAIN s.wounds \subseteq 1 .. calls + 1
    BY <1>2, <1>6, <2>6
  <2> QED BY <2>4, <2>6, <2>7, DoKeeps
<1> QED BY <1>7, <1>8

LEMMA CommandKeeps ==
  ASSUME BodyInv, GiveCommand
  PROVE  BodyInv'
<1>1. PICK c \in menu : Command(c)
  BY DEF GiveCommand
<1>2. calls' = calls + 1 /\ UNCHANGED <<clock, menu>>
  BY DEF GiveCommand
<1>3. WellFormed(c)
  BY BodyAssumption DEF BodyInv
<1>4. c.who \in Patients
  BY <1>3 DEF WellFormed
<1>5. CASE c.op = "hit" /\ ApplyDamage(c.who, c.part, c.x)
  <2>1. c.part \in Parts /\ c.x \in Nat
    BY <1>3, <1>5 DEF WellFormed
  <2> QED BY <1>2, <1>4, <1>5, <2>1, DamageKeeps
<1>6. CASE c.op = "heal" /\ HealPart(c.who, c.part, c.x)
  <2>1. c.part \in Parts /\ c.x \in Nat
    BY <1>3, <1>6 DEF WellFormed
  <2> QED BY <1>2, <1>4, <1>6, <2>1, HealKeeps
<1>7. CASE c.op \in DOMAIN Treatments /\ Treatment(c.who, c.op, c.part)
  BY <1>2, <1>4, <1>7, TreatmentKeeps
<1>8. CASE c.op = "antibiotics" /\ ApplyAntibiotics(c.who)
  BY <1>2, <1>4, <1>8, AntibioticsKeeps
<1>9. CASE c.op = "drug" /\ ApplyDrug(c.who, c.x)
  <2>1. c.x \in Drugs
    <3>1. PICK d : d \in Drugs
      BY DEF Drugs
    <3> QED BY <1>3, <1>9, <3>1, DrugIs DEF WellFormed
  <2> QED BY <1>2, <1>4, <1>9, <2>1, DrugKeeps
<1>10. CASE c.op = "consume" /\ Consume(c.who, c.x)
  <2>1. c.x \in DOMAIN Profile
    BY <1>3, <1>10 DEF WellFormed
  <2> QED BY <1>2, <1>4, <1>10, <2>1, ConsumeKeeps
<1>11. CASE c.op = "survival" /\ SetSurvivalStat(c.who, c.part, c.x)
  <2>1. c.part \in MeterNames /\ c.x \in Int
    BY <1>3, <1>11 DEF WellFormed
  <2> QED BY <1>2, <1>4, <1>11, <2>1, MeterKeeps
<1>12. CASE c.op = "stamina" /\ SetStamina(c.who, c.x)
  BY <1>2, <1>4, <1>12, StaminaKeeps
<1> QED BY <1>1, <1>5, <1>6, <1>7, <1>8, <1>9, <1>10, <1>11, <1>12 DEF Command

LEMMA BodyStart ==
  ASSUME BodyInit
  PROVE  BodyInv
<1>1. /\ clock = 0 /\ calls = 0 /\ menu \in Menus /\ body = [n \in Patients |-> Healthy] /\ replica = body
  BY DEF BodyInit
<1>2. PICK h : h = Healthy
  OBVIOUS
<1>3. /\ Fields \subseteq DOMAIN h /\ h.hp = [p \in Parts |-> FullHp] /\ h.health = FullHp
      /\ h.limb = [p \in Parts |-> "intact"] /\ h.wounds = <<>> /\ h.effects = {}
      /\ h.tol = [d \in Drugs |-> 0] /\ h.rad = 0 /\ h.tox = 0 /\ h.meal = [m \in MeterNames |-> FullMeal]
  BY <1>2 DEF Healthy, Fields, Drugs
<1>4. DOMAIN h.wounds = {} /\ h.wounds = [i \in DOMAIN h.wounds |-> h.wounds[i]]
  BY <1>3
<1>5. BodyShape(h)
  BY <1>3, <1>4 DEF BodyShape, WoundsShape, EffectsShape, FullHp, Hp, FullMeal
<1>6. h.health = VitalMin(h)
  BY <1>3 DEF VitalMin, Below, Parts, FullHp, Hp
<1>7. Sound(h)
  BY <1>3, <1>4, <1>6 DEF Sound, LimbsMatch
<1>8. ASSUME NEW n \in Patients PROVE Kin(n, body[n], replica[n])
  <2>1. body[n] = h /\ replica[n] = h
    BY <1>1, <1>2
  <2>2. Agree(n, h, h)
    BY <1>3, <1>4 DEF Agree, FullHp, Hp, FullMeal
  <2>3. Numbered(h) /\ DOMAIN h.wounds \subseteq 1 .. calls
    BY <1>3, <1>4 DEF Numbered
  <2> QED BY <1>5, <1>7, <2>1, <2>2, <2>3 DEF Kin
<1> QED BY <1>1, <1>8 DEF BodyInv

LEMMA BodyStutter ==
  ASSUME BodyInv, UNCHANGED bodyVars
  PROVE  BodyInv'
  BY DEF BodyInv, Kin, Numbered, Agree, Active, Elapsed, SameWound, bodyVars

(* In BodySpec what is derived of a body never disagrees with what it is    *)
(* derived from: limbs with wounds, Health with the vital parts, the        *)
(* tourniquet's timer with the tourniquet; and no heavy bleed is under a    *)
(* bandage (world/wounds.rs, apply_treatment, recompute_limb_states).       *)
THEOREM BodiesStayConsistent == BodySpec => []BodyConsistent
<1>1. BodyInit => BodyInv
  BY BodyStart
<1>2. BodyInv /\ [BodyNext]_bodyVars => BodyInv'
  BY CommandKeeps, TickKeeps, BodyStutter DEF BodyNext
<1>3. BodyInv => BodyConsistent
  BY DEF BodyInv, Kin, Sound, LimbsMatch, WoundOk, BodyConsistent
<1> QED BY <1>1, <1>2, <1>3, PTL DEF BodySpec

(* After any commands and ticks since the snapshot, the world that          *)
(* apply_delta builds from the records has every wound in the state its     *)
(* last treatment gave it and the effects still at work, and is no worse    *)
(* in hit points, meters, tolerance or contamination.                       *)
THEOREM ReplayAlwaysFollowsTheBody == BodySpec => []ReplayFollowsTheBody
<1>1. BodyInit => BodyInv
  BY BodyStart
<1>2. BodyInv /\ [BodyNext]_bodyVars => BodyInv'
  BY CommandKeeps, TickKeeps, BodyStutter DEF BodyNext
<1>3. ASSUME BodyInv PROVE ReplayFollowsTheBody
  <2> SUFFICES ASSUME NEW n \in Patients, NEW b, NEW r, b = body[n], r = replica[n]
               PROVE  /\ \A i \in DOMAIN b.wounds : i \in DOMAIN r.wounds /\ SameWound(r.wounds[i], b.wounds[i])
                      /\ \A i \in DOMAIN r.wounds \ DOMAIN b.wounds : r.wounds[i].treat \in {"bandaged", "stitched"}
                      /\ n \in Players => RetireEffects(r, clock).effects = b.effects
                      /\ \A p \in Parts : r.hp[p] >= b.hp[p]
                      /\ \A m \in MeterNames : r.meal[m] >= b.meal[m]
                      /\ \A d \in DOMAIN r.tol : r.tol[d] >= b.tol[d]
                      /\ r.rad >= b.rad /\ r.tox >= b.tox
    BY DEF ReplayFollowsTheBody
  <2>1. Kin(n, b, r)
    BY <1>3 DEF BodyInv
  <2>2. RetireEffects(r, clock).effects = {e \in r.effects : Active(e, clock)} /\ DOMAIN r.tol = Drugs
    BY <2>1 DEF Kin, BodyShape, RetireEffects, Fields
  <2> QED BY <2>1, <2>2 DEF Kin, Agree
<1> QED BY <1>1, <1>2, <1>3, PTL DEF BodySpec

-----------------------------------------------------------------------------
(* The population and its records.                                         *)

(* A chronicle of n people, with its running totals.                       *)
LifeRecord(r) ==
  /\ {"fac", "dead", "cause", "seen"} \subseteq DOMAIN r
  /\ r.fac \in TargetFactions /\ r.dead \in BOOLEAN
ChronicleOk(c, n) ==
  /\ n \in Nat /\ DOMAIN c = {"records", "summary"}
  /\ c.records = [i \in 1 .. n |-> c.records[i]]
  /\ \A i \in 1 .. n : LifeRecord(c.records[i])
  /\ c.summary = Summary(c.records)

LEMMA SummaryIs ==
  ASSUME NEW s, NEW rs, s = Summary(rs)
  PROVE  /\ DOMAIN s = {"total", "alive", "by"}
         /\ s.total = Cardinality(DOMAIN rs) /\ s.alive = Cardinality(AliveIn(rs))
         /\ s.by = [f \in TargetFactions |->
               [alive |-> Cardinality(OfFaction(rs, f) \cap AliveIn(rs)),
                dead |-> Cardinality(OfFaction(rs, f) \ AliveIn(rs))]]
BY DEF Summary

(* Everybody, the people of a faction, and those of them that are alive. *)
LEMMA AllFinite ==
  ASSUME NEW n \in Nat, NEW rs, DOMAIN rs = 1 .. n
  PROVE  /\ IsFiniteSet(DOMAIN rs) /\ Cardinality(DOMAIN rs) = n
         /\ IsFiniteSet(AliveIn(rs)) /\ Cardinality(AliveIn(rs)) \in Nat
<1>1. IsFiniteSet(1 .. n) /\ Cardinality(1 .. n) = n
  <2>1. Cardinality(1 .. n) = IF 1 > n THEN 0 ELSE n - 1 + 1
    BY FS_Interval
  <2> QED BY <2>1, FS_Interval
<1>2. AliveIn(rs) \in SUBSET (1 .. n)
  BY DEF AliveIn
<1> QED BY <1>1, <1>2, FS_Subset, FS_CardinalityType

LEMMA GroupsFinite ==
  ASSUME NEW n \in Nat, NEW rs, DOMAIN rs = 1 .. n, NEW f
  PROVE  /\ IsFiniteSet(OfFaction(rs, f) \cap AliveIn(rs)) /\ Cardinality(OfFaction(rs, f) \cap AliveIn(rs)) \in Nat
         /\ IsFiniteSet(OfFaction(rs, f) \ AliveIn(rs)) /\ Cardinality(OfFaction(rs, f) \ AliveIn(rs)) \in Nat
<1>1. IsFiniteSet(1 .. n)
  BY FS_Interval
<1>2. /\ OfFaction(rs, f) \cap AliveIn(rs) \in SUBSET (1 .. n)
      /\ OfFaction(rs, f) \ AliveIn(rs) \in SUBSET (1 .. n)
  BY DEF AliveIn, OfFaction
<1> QED BY <1>1, <1>2, FS_Subset, FS_CardinalityType

(* Records that say the same of who is whose and alive give the same totals. *)
LEMMA SummarySame ==
  ASSUME NEW rs, NEW ss, DOMAIN rs = DOMAIN ss,
         \A i \in DOMAIN rs : rs[i].fac = ss[i].fac /\ rs[i].dead = ss[i].dead
  PROVE  Summary(rs) = Summary(ss)
<1>1. AliveIn(rs) = AliveIn(ss)
  BY DEF AliveIn
<1>2. \A f \in TargetFactions : OfFaction(rs, f) = OfFaction(ss, f)
  BY DEF OfFaction
<1> QED BY <1>1, <1>2 DEF Summary

(* What a chronicle says later: nobody is forgotten, the people of D are   *)
(* dead, of the others it says the same.                                   *)
DiedIn(c, d, n, D) ==
  \A i \in 1 .. n : /\ i \in D => d.records[i].dead /\ d.records[i].fac = c.records[i].fac
                    /\ i \notin D => d.records[i] = c.records[i]

LEMMA MarkDeadIs ==
  ASSUME NEW c, NEW n, ChronicleOk(c, n), NEW x, NEW d, d = MarkDead(c, x)
  PROVE  ChronicleOk(d, n) /\ DiedIn(c, d, n, {x.id})
<1> DEFINE rs == c.records
           g == rs[x.id].fac
<1>0. /\ n \in Nat /\ DOMAIN c = {"records", "summary"} /\ DOMAIN rs = 1 .. n
      /\ rs = [i \in 1 .. n |-> rs[i]]
      /\ \A i \in 1 .. n : LifeRecord(rs[i])
      /\ c.summary = Summary(rs)
  BY DEF ChronicleOk
<1>1. CASE x.id \notin DOMAIN rs \/ rs[x.id].dead
  <2>1. d = c
    BY <1>1 DEF MarkDead
  <2>2. \A i \in 1 .. n : i = x.id => rs[i].dead
    BY <1>0, <1>1
  <2> QED BY <2>1, <2>2 DEF DiedIn
<1>2. CASE ~(x.id \notin DOMAIN rs \/ rs[x.id].dead)
  <2>1. PICK q : q = [rs EXCEPT ![x.id] = [@ EXCEPT !.dead = TRUE, !.cause = x.cause, !.seen = x.reg]]
    OBVIOUS
  <2>2. PICK s : s = [c.summary EXCEPT !.alive = Less(@), !.by[g] = [alive |-> Less(@.alive), dead |-> @.dead + 1]]
    OBVIOUS
  <2>3. d = [records |-> q, summary |-> s]
    BY <1>2, <2>1, <2>2, Zenon DEF MarkDead
  <2>4. /\ DOMAIN q = 1 .. n /\ q = [i \in 1 .. n |-> q[i]]
        /\ \A i \in 1 .. n : i # x.id => q[i] = rs[i]
        /\ q[x.id].dead = TRUE /\ q[x.id].fac = g /\ LifeRecord(q[x.id]) /\ g \in TargetFactions
        /\ x.id \in 1 .. n
    <3>1. LifeRecord(rs[x.id]) /\ x.id \in 1 .. n
      BY <1>0, <1>2
    <3> QED BY <1>0, <2>1, <3>1 DEF LifeRecord
  <2>5. AliveIn(q) = AliveIn(rs) \ {x.id} /\ x.id \in AliveIn(rs)
    <3>1. \A i \in 1 .. n : i \in AliveIn(q) <=> i \in AliveIn(rs) /\ i # x.id
      BY <1>0, <2>4 DEF AliveIn
    <3> QED BY <1>0, <1>2, <2>4, <3>1 DEF AliveIn
  <2>6. \A f \in TargetFactions : OfFaction(q, f) = OfFaction(rs, f)
    <3>1. \A i \in 1 .. n : q[i].fac = rs[i].fac
      BY <2>4
    <3> QED BY <1>0, <2>4, <3>1 DEF OfFaction
  <2>7. x.id \in OfFaction(rs, g) /\ \A f \in TargetFactions : x.id \in OfFaction(rs, f) => f = g
    BY <1>0, <2>4 DEF OfFaction
  <2>12. PICK s0 : s0 = c.summary
    OBVIOUS
  <2>13. s0 = Summary(rs)
    BY <1>0, <2>12
  <2>14. /\ DOMAIN s0 = {"total", "alive", "by"}
         /\ s0.total = Cardinality(DOMAIN rs) /\ s0.alive = Cardinality(AliveIn(rs))
         /\ s0.by = [f \in TargetFactions |->
               [alive |-> Cardinality(OfFaction(rs, f) \cap AliveIn(rs)),
                dead |-> Cardinality(OfFaction(rs, f) \ AliveIn(rs))]]
    BY <2>13, SummaryIs
  <2>15. s = [s0 EXCEPT !.alive = Less(@), !.by[g] = [alive |-> Less(@.alive), dead |-> @.dead + 1]]
    BY <2>2, <2>12, Zenon
  <2>16. DOMAIN s = {"total", "alive", "by"} /\ s.total = s0.total /\ s.alive = Less(s0.alive)
         /\ s.by = [s0.by EXCEPT ![g] = [alive |-> Less(@.alive), dead |-> @.dead + 1]]
    BY <2>14, <2>15
  <2>8. s = Summary(q)
    <3>1. PICK a \in Nat : a = Cardinality(AliveIn(rs)) /\ IsFiniteSet(AliveIn(rs))
      BY <1>0, AllFinite
    <3>2. Cardinality(AliveIn(q)) = a - 1 /\ a # 0
      <4>1. Cardinality(AliveIn(rs) \ {x.id}) = a - 1
        BY <2>5, <3>1, FS_RemoveElement
      <4>2. Cardinality(AliveIn(q)) \in Nat
        BY <1>0, <2>4, AllFinite
      <4> QED BY <2>5, <4>1, <4>2
    <3>3. Less(a) = Cardinality(AliveIn(q))
      BY <3>1, <3>2 DEF Less
    <3>4. ASSUME NEW f \in TargetFactions
          PROVE  s.by[f] = [alive |-> Cardinality(OfFaction(q, f) \cap AliveIn(q)),
                            dead |-> Cardinality(OfFaction(q, f) \ AliveIn(q))]
      <4>0. PICK L, E : L = OfFaction(rs, f) \cap AliveIn(rs) /\ E = OfFaction(rs, f) \ AliveIn(rs)
        OBVIOUS
      <4>1. s0.by[f] = [alive |-> Cardinality(L), dead |-> Cardinality(E)]
        BY <2>14, <4>0
      <4>2. IsFiniteSet(L) /\ IsFiniteSet(E) /\ Cardinality(L) \in Nat /\ Cardinality(E) \in Nat
        BY <1>0, <4>0, GroupsFinite
      <4>3. CASE f # g
        <5>1. s.by[f] = s0.by[f]
          BY <2>14, <2>16, <4>3
        <5>2. x.id \notin OfFaction(rs, f)
          BY <2>7, <4>3
        <5>3. OfFaction(q, f) \cap AliveIn(q) = L /\ OfFaction(q, f) \ AliveIn(q) = E
          BY <2>5, <2>6, <4>0, <5>2
        <5> QED BY <4>1, <5>1, <5>3
      <4>4. CASE f = g
        <5>1. s.by[f] = [alive |-> Less(Cardinality(L)), dead |-> Cardinality(E) + 1]
          BY <2>14, <2>16, <4>1, <4>4
        <5>2. OfFaction(q, f) \cap AliveIn(q) = L \ {x.id} /\ x.id \in L
          BY <2>5, <2>6, <2>7, <4>0, <4>4
        <5>3. OfFaction(q, f) \ AliveIn(q) = E \cup {x.id} /\ x.id \notin E
          BY <2>5, <2>6, <2>7, <4>0, <4>4
        <5>4. PICK l, e \in Nat : l = Cardinality(L) /\ e = Cardinality(E)
          BY <4>2
        <5>5. Cardinality(L \ {x.id}) = l - 1 /\ Cardinality(E \cup {x.id}) = e + 1
          BY <4>2, <5>2, <5>3, <5>4, FS_RemoveElement, FS_AddElement
        <5>6. Cardinality(L \ {x.id}) \in Nat
          BY <4>2, FS_RemoveElement, FS_CardinalityType
        <5>7. l - 1 \in Nat
          BY <5>5, <5>6
        <5>8. Less(l) = l - 1
          BY <5>4, <5>7 DEF Less
        <5> QED BY <5>1, <5>2, <5>3, <5>4, <5>5, <5>8, Zenon
      <4> QED BY <4>3, <4>4
    <3>6. s.by = [f \in TargetFactions |-> s.by[f]]
      <4>1. DOMAIN s0.by = TargetFactions
        BY <2>14
      <4>2. s.by = [f \in DOMAIN s0.by |-> s.by[f]]
        BY <2>16
      <4> QED BY <4>1, <4>2
    <3>7. s.by = [f \in TargetFactions |-> [alive |-> Cardinality(OfFaction(q, f) \cap AliveIn(q)),
                            dead |-> Cardinality(OfFaction(q, f) \ AliveIn(q))]]
      <4>1. PICK h : h = [f \in TargetFactions |-> [alive |-> Cardinality(OfFaction(q, f) \cap AliveIn(q)),
                            dead |-> Cardinality(OfFaction(q, f) \ AliveIn(q))]]
        OBVIOUS
      <4>2. \A f \in TargetFactions : s.by[f] = h[f]
        BY <3>4, <4>1
      <4>3. h = [f \in TargetFactions |-> h[f]]
        BY <4>1
      <4> QED BY <3>6, <4>1, <4>2, <4>3
    <3>8. s.total = Cardinality(DOMAIN q) /\ s.alive = Cardinality(AliveIn(q))
      BY <1>0, <2>4, <2>14, <2>16, <3>1, <3>3
    <3>9. s = [total |-> s.total, alive |-> s.alive, by |-> s.by]
      <4>1. s0 = [total |-> s0.total, alive |-> s0.alive, by |-> s0.by]
        BY <2>13 DEF Summary
      <4> QED BY <2>15, <2>16, <4>1, Zenon
    <3> QED BY <3>7, <3>8, <3>9 DEF Summary
  <2>9. \A i \in 1 .. n : LifeRecord(q[i])
    BY <1>0, <2>4
  <2>10. ChronicleOk(d, n)
    BY <1>0, <2>3, <2>4, <2>8, <2>9 DEF ChronicleOk
  <2>11. DiedIn(c, d, n, {x.id})
    BY <2>3, <2>4 DEF DiedIn
  <2> QED BY <2>10, <2>11
<1> QED BY <1>1, <1>2

LEMMA DiedOn ==
  ASSUME NEW a, NEW b, NEW c, NEW n, NEW D, NEW E, DiedIn(a, b, n, D), DiedIn(b, c, n, E)
  PROVE  DiedIn(a, c, n, D \cup E)
BY DEF DiedIn

De == INSTANCE SequenceLemmas WITH Op <- MarkDead

(* Burying the people of a sequence of ids leaves just these dead besides. *)
LEMMA BuriedIs ==
  ASSUME NEW c, NEW n, ChronicleOk(c, n), NEW ids \in Seq(Nat), NEW cause, NEW d, d = Buried(c, ids, cause)
  PROVE  ChronicleOk(d, n) /\ DiedIn(c, d, n, ToSet(ids))
<1>1. PICK m \in Nat : m = Len(ids) /\ DOMAIN ids = 1 .. m
  BY LenProperties
<1>2. PICK q : q = [k \in DOMAIN ids |-> [id |-> ids[k], cause |-> cause, reg |-> people[ids[k]].reg]]
  OBVIOUS
<1>3. PICK E : E = {q[k] : k \in 1 .. m}
  OBVIOUS
<1>4. q \in Seq(E) /\ Len(q) = m /\ \A k \in 1 .. m : q[k].id = ids[k]
  BY <1>1, <1>2, <1>3
<1>5. d = De!Fold(c, q)
  BY <1>2 DEF Buried, De!Fold, De!FoldLeft, De!MapThenFoldSet, De!Max, FoldLeft, MapThenFoldSet, Max
<1>6. PICK v : De!Folding(v, c, q, m) /\ De!Fold(c, q) = v[m]
  BY <1>1, <1>4, De!FoldLeftIs
<1>7. v[0] = c /\ \A k \in 1 .. m : v[k] = MarkDead(v[k - 1], q[k])
  BY <1>6 DEF De!Folding
<1> DEFINE P == {k \in Nat : k <= m => ChronicleOk(v[k], n) /\ DiedIn(c, v[k], n, {ids[j] : j \in 1 .. k})}
<1>8. 0 \in P
  BY <1>7 DEF DiedIn
<1>9. ASSUME NEW k \in P PROVE k + 1 \in P
  <2> SUFFICES ASSUME k + 1 <= m
               PROVE  ChronicleOk(v[k + 1], n) /\ DiedIn(c, v[k + 1], n, {ids[j] : j \in 1 .. k + 1})
    OBVIOUS
  <2>1. k \in Nat /\ k <= m /\ k + 1 \in 1 .. m /\ (k + 1) - 1 = k
    OBVIOUS
  <2>2. ChronicleOk(v[k], n) /\ DiedIn(c, v[k], n, {ids[j] : j \in 1 .. k})
    BY <2>1
  <2>3. PICK w, z : w = v[k + 1] /\ z = v[k] /\ w = MarkDead(z, q[k + 1])
    BY <1>7, <2>1
  <2>4. ChronicleOk(w, n) /\ DiedIn(z, w, n, {q[k + 1].id})
    BY <2>2, <2>3, MarkDeadIs
  <2>5. q[k + 1].id = ids[k + 1]
    BY <1>4, <2>1
  <2>6. DiedIn(c, w, n, {ids[j] : j \in 1 .. k} \cup {ids[k + 1]})
    BY <2>2, <2>3, <2>4, <2>5, DiedOn
  <2>7. {ids[j] : j \in 1 .. k + 1} = {ids[j] : j \in 1 .. k} \cup {ids[k + 1]}
    <3>1. \A j \in 1 .. k + 1 : j \in 1 .. k \/ j = k + 1
      BY <2>1
    <3>2. 1 .. k \subseteq 1 .. k + 1 /\ k + 1 \in 1 .. k + 1
      BY <2>1
    <3> QED BY <3>1, <3>2
  <2> QED BY <2>3, <2>4, <2>6, <2>7
<1> HIDE DEF P
<1>10. P = Nat
  <2>1. P \in SUBSET Nat
    BY DEF P
  <2> QED BY <1>8, <1>9, <2>1, SetInduction
<1>11. ChronicleOk(v[m], n) /\ DiedIn(c, v[m], n, {ids[j] : j \in 1 .. m})
  <2>1. m \in P /\ m <= m
    BY <1>1, <1>10
  <2> QED BY <2>1 DEF P
<1>12. ToSet(ids) = {ids[j] : j \in 1 .. m}
  BY <1>1 DEF ToSet
<1> QED BY <1>5, <1>6, <1>11, <1>12

-----------------------------------------------------------------------------
(* People in the order of their numbers.                                   *)

LEMMA AscendingInjective ==
  ASSUME NEW q \in Seq(Nat), Ascending(q)
  PROVE  IsInjective(q)
<1>1. PICK n \in Nat : Len(q) = n /\ DOMAIN q = 1 .. n
  BY LenProperties
<1>2. ASSUME NEW i \in 1 .. n, NEW j \in 1 .. n, q[i] = q[j] PROVE i = j
  <2>1. q[i] \in Nat /\ q[j] \in Nat
    BY <1>1
  <2>2. ~(q[i] < q[j]) /\ ~(q[j] < q[i])
    BY <1>2, <2>1
  <2>3. ~(i < j) /\ ~(j < i)
    BY <1>1, <2>2 DEF Ascending
  <2> QED BY <2>3
<1> QED BY <1>1, <1>2 DEF IsInjective

LEMMA InOrderIs ==
  ASSUME NEW n \in Nat, Minted = n, NEW ids \in SUBSET (1 .. n), NEW q, q = InOrder(ids)
  PROVE  q \in Seq(Nat) /\ ToSet(q) = ids /\ IsInjective(q)
<1> DEFINE Part(k) == [i \in 1 .. k |-> IF i \in ids THEN <<i>> ELSE <<>>]
           Good(k) == LET p == FlattenSeq(Part(k)) IN p \in Seq(Nat) /\ ToSet(p) = ids \cap (1 .. k) /\ Ascending(p)
           P == {k \in Nat : Good(k)}
<1>1. \A k \in Nat : Part(k) \in Seq(Seq(Nat)) /\ Len(Part(k)) = k
  <2> SUFFICES ASSUME NEW k \in Nat PROVE Part(k) \in Seq(Seq(Nat)) /\ Len(Part(k)) = k
    OBVIOUS
  <2>1. \A i \in 1 .. k : <<i>> \in Seq(Nat) /\ <<>> \in Seq(Nat)
    OBVIOUS
  <2>2. \A i \in 1 .. k : (IF i \in ids THEN <<i>> ELSE <<>>) \in Seq(Nat)
    BY <2>1
  <2> QED BY <2>2
<1>2. 0 \in P
  <2>1. PICK z : z = Part(0)
    OBVIOUS
  <2>2. z = <<>> /\ z \in Seq(Seq(Nat))
    BY <1>1, <2>1, EmptySeq
  <2>3. FlattenSeq(z) = <<>>
    <3> HIDE DEF Part, P
    <3> QED BY <2>2, FlattenIs
  <2>4. <<>> \in Seq(Nat) /\ ToSet(<<>>) = {} /\ Ascending(<<>>)
    BY EmptySeq DEF ToSet, Ascending
  <2>5. 1 .. 0 = {}
    OBVIOUS
  <2> QED BY <2>1, <2>3, <2>4, <2>5
<1>3. ASSUME NEW k \in P PROVE k + 1 \in P
  <2>1. k \in Nat /\ k + 1 \in Nat /\ Good(k)
    OBVIOUS
  <2>2. PICK y, z, p : y = Part(k) /\ z = Part(k + 1) /\ p = FlattenSeq(y)
    OBVIOUS
  <2>3. y \in Seq(Seq(Nat)) /\ Len(y) = k /\ z \in Seq(Seq(Nat)) /\ Len(z) = k + 1
    BY <1>1, <2>1, <2>2
  <2>4. \A i \in 1 .. k : y[i] = z[i]
    BY <2>1, <2>2
  <2>5. FlattenSeq(z) = p \o z[k + 1]
    <3> HIDE DEF Part, Good, P
    <3> QED BY <2>2, <2>3, <2>4, FlattenLonger
  <2>6. p \in Seq(Nat) /\ ToSet(p) = ids \cap (1 .. k) /\ Ascending(p)
    BY <2>1, <2>2
  <2>7. z[k + 1] = IF k + 1 \in ids THEN <<k + 1>> ELSE <<>>
    BY <2>1, <2>2
  <2>8. \A i \in 1 .. k + 1 : i \in 1 .. k \/ i = k + 1
    BY <2>1
  <2>9. 1 .. k \subseteq 1 .. k + 1 /\ k + 1 \in 1 .. k + 1 /\ \A x \in ids \cap (1 .. k) : x < k + 1
    BY <2>1
  <2>10. CASE k + 1 \notin ids
    <3>1. FlattenSeq(z) = p
      BY <2>5, <2>6, <2>7, <2>10, ConcatEmptySeq
    <3>2. ids \cap (1 .. k + 1) = ids \cap (1 .. k)
      BY <2>8, <2>9, <2>10
    <3> QED BY <2>1, <2>2, <2>6, <3>1, <3>2
  <2>11. CASE k + 1 \in ids
    <3>1. FlattenSeq(z) = Append(p, k + 1)
      <4>1. Append(p, k + 1) = p \o <<k + 1>>
        BY <2>1, <2>6, AppendIsConcat
      <4> QED BY <2>5, <2>7, <2>11, <4>1
    <3>2. PICK r : r = Append(p, k + 1)
      OBVIOUS
    <3>3. r \in Seq(Nat) /\ ToSet(r) = ToSet(p) \cup {k + 1}
      BY <2>1, <2>6, <3>2, ToSetOfAppend, AppendProperties
    <3>4. Ascending(r)
      <4>1. Nat \in SUBSET Int
        OBVIOUS
      <4>2. \A x \in ToSet(p) : x < k + 1
        BY <2>6, <2>9
      <4> HIDE DEF Part, Good, P
      <4> QED BY <2>1, <2>6, <3>2, <4>1, <4>2, AscendingAppend
    <3>5. ids \cap (1 .. k + 1) = (ids \cap (1 .. k)) \cup {k + 1}
      BY <2>8, <2>9, <2>11
    <3> QED BY <2>1, <2>2, <2>6, <3>1, <3>2, <3>3, <3>4, <3>5
  <2> QED BY <2>10, <2>11
<1>4. P = Nat
  <2> HIDE DEF P
  <2>1. P \in SUBSET Nat
    BY DEF P
  <2> QED BY <1>2, <1>3, <2>1, SetInduction
<1>5. Good(n)
  BY <1>4
<1>6. q = FlattenSeq(Part(n))
  BY DEF InOrder
<1>7. ids \cap (1 .. n) = ids
  OBVIOUS
<1>8. q \in Seq(Nat) /\ ToSet(q) = ids /\ Ascending(q)
  BY <1>5, <1>6, <1>7
<1> QED BY <1>8, AscendingInjective

(* Sequences of different people, one after the other. *)
LEMMA InjectiveConcat ==
  ASSUME NEW p \in Seq(Nat), NEW q \in Seq(Nat), IsInjective(p), IsInjective(q), ToSet(p) \cap ToSet(q) = {},
         NEW r, r = p \o q
  PROVE  r \in Seq(Nat) /\ IsInjective(r) /\ ToSet(r) = ToSet(p) \cup ToSet(q)
<1>1. PICK m \in Nat, n \in Nat : Len(p) = m /\ Len(q) = n /\ DOMAIN p = 1 .. m /\ DOMAIN q = 1 .. n
  BY LenProperties
<1>0. /\ r \in Seq(Nat) /\ Len(r) = Len(p) + Len(q)
      /\ \A i \in 1 .. Len(p) + Len(q) : r[i] = IF i <= Len(p) THEN p[i] ELSE q[i - Len(p)]
  BY ConcatProperties
<1>2. m \in Nat /\ n \in Nat /\ Len(r) = m + n /\ \A i \in 1 .. m + n : r[i] = IF i <= m THEN p[i] ELSE q[i - m]
  BY <1>0, <1>1
<1>3. DOMAIN r = 1 .. m + n
  BY <1>0, <1>2
<1>4. ASSUME NEW i \in 1 .. m + n, NEW j \in 1 .. m + n, r[i] = r[j] PROVE i = j
  <2>1. ASSUME NEW x \in 1 .. m, NEW y \in 1 .. n PROVE p[x] # q[y]
    BY <1>1 DEF ToSet
  <2>2. CASE i <= m /\ j <= m
    <3>1. i \in 1 .. m /\ j \in 1 .. m /\ p[i] = p[j]
      BY <1>2, <1>4, <2>2
    <3> QED BY <1>1, <3>1 DEF IsInjective
  <2>3. CASE i > m /\ j > m
    <3>0. i - m \in 1 .. n /\ j - m \in 1 .. n
      BY <1>2, <2>3
    <3>1. q[i - m] = q[j - m]
      <4>1. r[i] = q[i - m] /\ r[j] = q[j - m]
        BY <1>2, <2>3
      <4> QED BY <1>4, <4>1
    <3>2. i - m = j - m
      BY <1>1, <3>0, <3>1 DEF IsInjective
    <3> QED BY <1>2, <3>2
  <2>4. CASE i <= m /\ j > m
    <3>0. i \in 1 .. m /\ j - m \in 1 .. n
      BY <1>2, <2>4
    <3>2. r[i] = p[i] /\ r[j] = q[j - m]
      <4>1. r[j] = q[j - m]
        BY <1>2, <2>4
      <4>2. r[i] = p[i]
        BY <1>2, <2>4
      <4> QED BY <4>1, <4>2
    <3>1. i \in 1 .. m /\ j - m \in 1 .. n /\ p[i] = q[j - m]
      BY <1>4, <3>0, <3>2
    <3> QED BY <2>1, <3>1
  <2>5. CASE i > m /\ j <= m
    <3>0. j \in 1 .. m /\ i - m \in 1 .. n
      BY <1>2, <2>5
    <3>2. r[i] = q[i - m] /\ r[j] = p[j]
      <4>1. r[i] = q[i - m]
        BY <1>2, <2>5
      <4>2. r[j] = p[j]
        BY <1>2, <2>5
      <4> QED BY <4>1, <4>2
    <3>1. j \in 1 .. m /\ i - m \in 1 .. n /\ p[j] = q[i - m]
      BY <1>4, <3>0, <3>2
    <3> QED BY <2>1, <3>1
  <2> QED BY <2>2, <2>3, <2>4, <2>5
<1>5. IsInjective(r)
  BY <1>3, <1>4 DEF IsInjective
<1> QED BY <1>0, <1>5, ToSetOfConcat

-----------------------------------------------------------------------------
(* Classes of health.                                                      *)

Classes == {"healthy", "wounded", "critical"}
NoBetter(a, b) == (b = "healthy" => a = "healthy") /\ (a = "critical" => b = "critical")

-----------------------------------------------------------------------------
(* The PDA log: its ticks never go down, and the gunfire of a region is    *)
(* spaced.                                                                 *)

Spaced(es) ==
  \A i, j \in DOMAIN es :
      i < j /\ es[i].what = "gunfire" /\ es[j].what = "gunfire" /\ es[i].reg = es[j].reg
          => es[j].tick - es[i].tick >= LifeCfg.cooldown
EntriesOk(es, now) ==
  /\ \E S : es \in Seq(S)
  /\ \A k \in DOMAIN es : es[k].tick \in Nat /\ es[k].tick <= now
  /\ \A i, j \in DOMAIN es : i < j => es[i].tick <= es[j].tick
  /\ Spaced(es)

-----------------------------------------------------------------------------
(* The people and the chronicle together.                                  *)

PersonOk(p) ==
  /\ {"mode", "fac", "reg", "grp", "at", "die", "foe", "since"} \subseteq DOMAIN p
  /\ p.mode \in {"online", "offline"}
  /\ p.mode = "online" => {"vital", "limb", "hp"} \subseteq DOMAIN p /\ p.vital \in Nat /\ p.limb \in Nat
  /\ p.mode = "offline" => {"class", "goal", "arrival"} \subseteq DOMAIN p /\ p.class \in Classes

(* Those in the world are those the chronicle of n people has alive.       *)
LivesOk(ps, c, n) ==
  /\ ChronicleOk(c, n)
  /\ DOMAIN ps = AliveIn(c.records)
  /\ \A i \in DOMAIN ps : PersonOk(ps[i]) /\ c.records[i].seen = ps[i].reg
ToldOk(t, c) ==
  /\ t \in Seq(Nat) /\ IsInjective(t)
  /\ \A i \in ToSet(t) : i \in DOMAIN c.records /\ c.records[i].dead

(* The inductive invariant. *)
PeopleInv ==
  /\ tick \in Nat
  /\ \E n : LivesOk(people, chronicle, n)
  /\ ToldOk(told, chronicle)
  /\ "entries" \in DOMAIN pda /\ EntriesOk(pda.entries, tick)

LEMMA PeopleInvMeans ==
  ASSUME PeopleInv
  PROVE  PeopleMatchRecords
<1>1. PICK n : LivesOk(people, chronicle, n)
  BY DEF PeopleInv
<1>2. DOMAIN people = {i \in DOMAIN chronicle.records : ~chronicle.records[i].dead}
  BY <1>1 DEF LivesOk, AliveIn
<1>3. \A i \in DOMAIN people : chronicle.records[i].seen = people[i].reg
  BY <1>1 DEF LivesOk
<1>4. chronicle.summary = Summary(chronicle.records)
  BY <1>1 DEF LivesOk, ChronicleOk
<1>5. IsInjective(told)
  BY DEF PeopleInv, ToldOk
<1>6. Spaced(pda.entries)
  BY DEF PeopleInv, EntriesOk
<1> QED BY <1>2, <1>3, <1>4, <1>5, <1>6 DEF PeopleMatchRecords, Spaced

(* Everyone has a number up to the count of the minted. *)
LEMMA NumbersAre ==
  ASSUME NEW n, LivesOk(people, chronicle, n)
  PROVE  n \in Nat /\ Minted = n /\ DOMAIN people \subseteq 1 .. n /\ DOMAIN people \subseteq Nat
<1>1. n \in Nat /\ DOMAIN chronicle.records = 1 .. n
  BY DEF LivesOk, ChronicleOk
<1>2. Minted = n
  BY <1>1, AllFinite DEF Minted
<1>3. DOMAIN people \subseteq 1 .. n
  BY <1>1 DEF LivesOk, AliveIn
<1> QED BY <1>1, <1>2, <1>3

(* People of D leave the world as they die in the chronicle. *)
LEMMA LivesGoOn ==
  ASSUME NEW ps, NEW c, NEW n, LivesOk(ps, c, n), NEW D, D \subseteq DOMAIN ps,
         NEW d, ChronicleOk(d, n), DiedIn(c, d, n, D),
         NEW qs, DOMAIN qs = DOMAIN ps \ D,
         \A i \in DOMAIN qs : PersonOk(qs[i]) /\ qs[i].reg = ps[i].reg
  PROVE  LivesOk(qs, d, n)
<1>1. DOMAIN c.records = 1 .. n /\ DOMAIN d.records = 1 .. n
  BY DEF LivesOk, ChronicleOk
<1>2. DOMAIN ps = {i \in 1 .. n : ~c.records[i].dead}
  BY <1>1 DEF LivesOk, AliveIn
<1>3. DOMAIN qs = {i \in 1 .. n : ~d.records[i].dead}
  <2>1. \A i \in 1 .. n : i \in D => d.records[i].dead
    BY DEF DiedIn
  <2>2. \A i \in 1 .. n : i \notin D => d.records[i] = c.records[i]
    BY DEF DiedIn
  <2>3. \A i \in 1 .. n : ~d.records[i].dead <=> i \in DOMAIN ps /\ i \notin D
    BY <1>2, <2>1, <2>2
  <2>4. DOMAIN qs \subseteq 1 .. n
    BY <1>2
  <2> QED BY <2>3, <2>4
<1>4. DOMAIN qs = AliveIn(d.records)
  BY <1>1, <1>3 DEF AliveIn
<1>5. ASSUME NEW i \in DOMAIN qs PROVE d.records[i].seen = qs[i].reg
  <2>1. i \in 1 .. n /\ i \notin D /\ i \in DOMAIN ps
    BY <1>2
  <2>2. d.records[i] = c.records[i]
    BY <2>1 DEF DiedIn
  <2> QED BY <2>1, <2>2 DEF LivesOk
<1> QED BY <1>4, <1>5 DEF LivesOk

LEMMA StaysTold ==
  ASSUME NEW t, NEW c, ToldOk(t, c), NEW n, ChronicleOk(c, n), NEW d, ChronicleOk(d, n),
         NEW D, DiedIn(c, d, n, D)
  PROVE  ToldOk(t, d)
<1>1. DOMAIN c.records = 1 .. n /\ DOMAIN d.records = 1 .. n
  BY DEF ChronicleOk
<1>2. ASSUME NEW i \in ToSet(t) PROVE i \in DOMAIN d.records /\ d.records[i].dead
  <2>1. i \in 1 .. n /\ c.records[i].dead
    BY <1>1 DEF ToldOk
  <2>2. i \in D => d.records[i].dead
    BY <2>1 DEF DiedIn
  <2>3. i \notin D => d.records[i] = c.records[i]
    BY <2>1 DEF DiedIn
  <2> QED BY <1>1, <2>1, <2>2, <2>3
<1> QED BY <1>2 DEF ToldOk

(* Deaths of a sequence of people who were alive are told once. *)
LEMMA ToldMore ==
  ASSUME NEW ps, NEW c, NEW n, LivesOk(ps, c, n), NEW t, ToldOk(t, c),
         NEW d, ChronicleOk(d, n), NEW D, D \subseteq DOMAIN ps, DiedIn(c, d, n, D),
         NEW q \in Seq(Nat), IsInjective(q), ToSet(q) \subseteq D
  PROVE  ToldOk(t \o q, d)
<1>1. ToldOk(t, d)
  BY StaysTold DEF LivesOk
<1>2. DOMAIN c.records = 1 .. n /\ DOMAIN d.records = 1 .. n
  BY DEF LivesOk, ChronicleOk
<1>3. ToSet(t) \cap ToSet(q) = {}
  <2>1. \A i \in DOMAIN ps : ~c.records[i].dead
    BY DEF LivesOk, AliveIn
  <2>2. \A i \in ToSet(t) : c.records[i].dead
    BY DEF ToldOk
  <2> QED BY <2>1, <2>2
<1>4. PICK r : r = t \o q
  OBVIOUS
<1>5. r \in Seq(Nat) /\ IsInjective(r) /\ ToSet(r) = ToSet(t) \cup ToSet(q)
  <2>1. t \in Seq(Nat) /\ IsInjective(t)
    BY DEF ToldOk
  <2> QED BY <1>3, <1>4, <2>1, InjectiveConcat
<1>6. ASSUME NEW i \in ToSet(r) PROVE i \in DOMAIN d.records /\ d.records[i].dead
  <2>1. CASE i \in ToSet(t)
    BY <1>1, <2>1 DEF ToldOk
  <2>2. CASE i \in ToSet(q)
    <3>1. i \in D /\ i \in 1 .. n
      BY <1>2, <2>2 DEF LivesOk, AliveIn
    <3>2. d.records[i].dead
      BY <3>1 DEF DiedIn
    <3> QED BY <1>2, <3>1, <3>2
  <2> QED BY <1>5, <1>6, <2>1, <2>2
<1> QED BY <1>4, <1>5, <1>6 DEF ToldOk

-----------------------------------------------------------------------------
(* What a step does to one person.                                         *)

(* Who it is stays, and the health is not better than before.              *)
StaysWho(p, q) ==
  /\ p.fac = q.fac /\ p.grp = q.grp /\ p.die = q.die
  /\ NoBetter(HealthClass(p), HealthClass(q))
(* The passage from one tier to the other keeps what both tiers hold.      *)
Crosses(p, q) ==
  /\ PersonOk(q) /\ q.reg = p.reg /\ q.foe = p.foe /\ q.at = p.at /\ q.since = p.since
  /\ p.fac = q.fac /\ p.grp = q.grp /\ p.die = q.die
  /\ HealthClass(p) = HealthClass(q)

LEMMA HealthIsAClass ==
  ASSUME NEW p, PersonOk(p)
  PROVE  HealthClass(p) \in Classes
BY DEF PersonOk, HealthClass, BodyPartsToHealthClass, Classes

LEMMA GoesOffline ==
  ASSUME NEW p, PersonOk(p), p.mode = "online"
  PROVE  Crosses(p, ToOffline(p)) /\ ToOffline(p).mode = "offline"
<1>1. PICK q, b : q = ToOffline(p) /\ b = BodyPartsToHealthClass(p.vital, p.limb)
  OBVIOUS
<1>2. b \in Classes /\ HealthClass(p) = b
  BY <1>1 DEF BodyPartsToHealthClass, Classes, HealthClass
<1>3. /\ DOMAIN q = {"mode", "fac", "reg", "grp", "at", "die", "class", "foe", "since", "goal", "arrival"}
      /\ q.mode = "offline" /\ q.class = b /\ q.reg = p.reg /\ q.foe = p.foe
      /\ p.fac = q.fac /\ p.grp = q.grp /\ p.die = q.die /\ q.at = p.at /\ q.since = p.since
  BY <1>1 DEF ToOffline
<1>4. PersonOk(q)
  BY <1>2, <1>3 DEF PersonOk
<1>5. HealthClass(q) = b
  BY <1>3 DEF HealthClass
<1> QED BY <1>1, <1>2, <1>3, <1>4, <1>5 DEF Crosses

(* A body made from a class of health is of that class. *)
LEMMA BodyOfClass ==
  ASSUME NEW c \in Classes, NEW id
  PROVE  LET b == HealthClassToBodyParts(c, id)
         IN b.vital \in Nat /\ b.limb \in Nat /\ BodyPartsToHealthClass(b.vital, b.limb) = c
<1>1. PICK b : b = HealthClassToBodyParts(c, id)
  OBVIOUS
<1>2. CASE c = "healthy"
  <2>1. b = [vital |-> 100, limb |-> 100]
    BY <1>1, <1>2 DEF HealthClassToBodyParts, MaxHp
  <2> QED BY <1>1, <1>2, <2>1 DEF BodyPartsToHealthClass, MaxHp
<1>3. CASE c = "wounded"
  <2>1. PICK l : l = Rolled(id, 30, 60) /\ l \in {30, 59}
    BY DEF Rolled
  <2>2. b = [vital |-> 100, limb |-> l]
    BY <1>1, <1>3, <2>1 DEF HealthClassToBodyParts, MaxHp
  <2>3. b.vital = 100 /\ b.limb = l
    BY <2>2
  <2> QED BY <1>1, <1>3, <2>1, <2>3 DEF BodyPartsToHealthClass, MaxHp
<1>4. CASE c = "critical"
  <2>1. PICK v, l : v = Rolled(id, 10, 20) /\ v \in {10, 19} /\ l = Rolled(id, 10, 40) /\ l \in {10, 39}
    BY DEF Rolled
  <2>2. b = [vital |-> v, limb |-> l]
    BY <1>1, <1>4, <2>1 DEF HealthClassToBodyParts, MaxHp
  <2>3. b.vital = v /\ b.limb = l
    BY <2>2
  <2> QED BY <1>1, <1>4, <2>1, <2>3 DEF BodyPartsToHealthClass, MaxHp
<1> QED BY <1>2, <1>3, <1>4 DEF Classes

LEMMA GoesOnline ==
  ASSUME NEW p, PersonOk(p), p.mode = "offline", NEW id
  PROVE  Crosses(p, ToOnline(p, HealthClassToBodyParts(p.class, id)))
<1>1. PICK b : b = HealthClassToBodyParts(p.class, id)
  OBVIOUS
<1>2. PICK q : q = ToOnline(p, b)
  OBVIOUS
<1>3. p.class \in Classes
  BY DEF PersonOk
<1>4. b.vital \in Nat /\ b.limb \in Nat /\ BodyPartsToHealthClass(b.vital, b.limb) = p.class
  BY <1>1, <1>3, BodyOfClass
<1>5. PICK o : o = Person(p.fac, p.reg, p.grp, p.at, p.die)
  OBVIOUS
<1>6. /\ DOMAIN o = {"mode", "fac", "reg", "grp", "at", "die", "vital", "limb", "hp", "foe", "since"}
      /\ o.mode = "online" /\ o.fac = p.fac /\ o.reg = p.reg /\ o.grp = p.grp /\ o.die = p.die /\ o.at = p.at
  BY <1>5 DEF Person
<1>7. q = [o EXCEPT !.vital = b.vital, !.limb = b.limb, !.foe = p.foe, !.since = p.since]
  BY <1>2, <1>5 DEF ToOnline
<1>8. /\ DOMAIN q = DOMAIN o /\ q.mode = "online" /\ q.fac = p.fac /\ q.reg = p.reg /\ q.grp = p.grp
      /\ q.die = p.die /\ q.vital = b.vital /\ q.limb = b.limb /\ q.foe = p.foe /\ q.at = p.at /\ q.since = p.since
  BY <1>6, <1>7
<1>9. PersonOk(q)
  BY <1>4, <1>6, <1>8 DEF PersonOk
<1>10. HealthClass(q) = p.class /\ HealthClass(p) = p.class
  BY <1>4, <1>8 DEF HealthClass
<1> QED BY <1>1, <1>2, <1>8, <1>9, <1>10 DEF Crosses

LEMMA CrossesTwice ==
  ASSUME NEW p, NEW q, NEW r, Crosses(p, q), Crosses(q, r)
  PROVE  Crosses(p, r)
BY DEF Crosses

LEMMA Stays ==
  ASSUME NEW p, PersonOk(p)
  PROVE  Crosses(p, p) /\ StaysWho(p, p)
BY DEF Crosses, StaysWho, NoBetter

(* A hit takes health away. *)
LEMMA HarmIs ==
  ASSUME NEW n \in Nat, NEW by \in Nat
  PROVE  Harm(n, by) \in Nat /\ Harm(n, by) <= n
BY DEF Harm

LEMMA Harmed ==
  ASSUME NEW v \in Nat, NEW l \in Nat, NEW x \in Nat, NEW y \in Nat, x <= v, y <= l
  PROVE  NoBetter(BodyPartsToHealthClass(v, l), BodyPartsToHealthClass(x, y))
BY DEF NoBetter, BodyPartsToHealthClass, MaxHp

-----------------------------------------------------------------------------
(* The steps that leave the chronicle, the log and the announcements alone. *)

LEMMA SamePeople ==
  ASSUME PeopleInv,
         UNCHANGED <<chronicle, told, pda>>, tick' = tick,
         DOMAIN people' = DOMAIN people,
         \A i \in DOMAIN people : PersonOk(people[i]) => PersonOk(people'[i]) /\ people'[i].reg = people[i].reg
  PROVE  PeopleInv'
<1>1. PICK n : LivesOk(people, chronicle, n)
  BY DEF PeopleInv
<1>2. PICK ps, qs, c : ps = people /\ qs = people' /\ c = chronicle
  OBVIOUS
<1>3. LivesOk(ps, c, n)
  BY <1>1, <1>2
<1>4. LivesOk(qs, c, n)
  BY <1>2, <1>3 DEF LivesOk
<1> QED BY <1>2, <1>4 DEF PeopleInv

LEMMA SameEach ==
  ASSUME active' = active,
         \A i \in DOMAIN people \cap DOMAIN people' : StaysWho(people[i], people'[i])
  PROVE  PassageKeepsEach
BY DEF PassageKeepsEach, StaysWho, NoBetter

LEMMA PersonIs ==
  ASSUME PeopleInv, NEW i \in DOMAIN people
  PROVE  PersonOk(people[i])
BY DEF PeopleInv, LivesOk

LEMMA SetActiveRegionStep ==
  ASSUME PeopleInv, SetActiveRegion
  PROVE  PeopleInv' /\ PassageKeepsEach
<1>1. PICK r \in Regions :
         /\ LET left == ProjectOnlineToOffline(people, active \ {r})
            IN people' = IF r \in active THEN left ELSE ProjectOfflineToOnline(left, r)
         /\ active' = {r}
  BY DEF SetActiveRegion
<1>2. PICK left : left = ProjectOnlineToOffline(people, active \ {r})
  OBVIOUS
<1>3. DOMAIN left = DOMAIN people /\ \A i \in DOMAIN people : Crosses(people[i], left[i])
  <2>1. left = [i \in DOMAIN people |-> IF people[i].reg \in active \ {r} /\ people[i].mode = "online"
                                          THEN ToOffline(people[i]) ELSE people[i]]
    BY <1>2 DEF ProjectOnlineToOffline
  <2>2. ASSUME NEW i \in DOMAIN people PROVE Crosses(people[i], left[i])
    <3>1. PICK p : p = people[i] /\ PersonOk(p)
      BY PersonIs
    <3>2. left[i] = p \/ (p.mode = "online" /\ left[i] = ToOffline(p))
      BY <2>1, <3>1
    <3> QED BY <3>1, <3>2, Stays, GoesOffline
  <2> QED BY <2>1, <2>2
<1>4. PICK qs : qs = people'
  OBVIOUS
<1>5. DOMAIN qs = DOMAIN people /\ \A i \in DOMAIN people : Crosses(people[i], qs[i])
  <2>1. CASE r \in active
    BY <1>1, <1>2, <1>3, <1>4, <2>1
  <2>2. CASE r \notin active
    <3>1. qs = [i \in DOMAIN left |-> IF left[i].reg = r /\ left[i].mode = "offline"
                      THEN ToOnline(left[i], HealthClassToBodyParts(left[i].class, i)) ELSE left[i]]
      BY <1>1, <1>2, <1>4, <2>2 DEF ProjectOfflineToOnline
    <3>2. ASSUME NEW i \in DOMAIN people PROVE Crosses(people[i], qs[i])
      <4>1. PICK p : p = left[i] /\ PersonOk(p) /\ Crosses(people[i], p)
        BY <1>3 DEF Crosses
      <4>2. qs[i] = p \/ (p.mode = "offline" /\ qs[i] = ToOnline(p, HealthClassToBodyParts(p.class, i)))
        BY <1>3, <3>1, <4>1
      <4>3. PICK q : q = qs[i]
        OBVIOUS
      <4>4. Crosses(p, q)
        BY <4>1, <4>2, <4>3, Stays, GoesOnline
      <4> QED BY <4>1, <4>3, <4>4, CrossesTwice
    <3> QED BY <1>3, <3>1, <3>2
  <2> QED BY <2>1, <2>2
<1>6. PeopleInv'
  <2>1. UNCHANGED <<chronicle, told, pda>> /\ tick' = tick
    BY DEF SetActiveRegion
  <2> QED BY <1>4, <1>5, <2>1, SamePeople DEF Crosses
<1>7. ASSUME NEW i \in DOMAIN people, qs[i] # people[i]
      PROVE  people[i].reg \in (active \ {r}) \cup ({r} \ active)
  <2>1. left[i] # people[i] => people[i].reg \in active \ {r}
    BY <1>2 DEF ProjectOnlineToOffline
  <2>2. CASE left[i] = people[i]
    <3>1. r \notin active
      BY <1>1, <1>2, <1>4, <1>7, <2>2
    <3>2. qs = ProjectOfflineToOnline(left, r)
      BY <1>1, <1>2, <1>4, <3>1
    <3>3. left[i].reg = r
      BY <1>3, <1>7, <2>2, <3>2 DEF ProjectOfflineToOnline
    <3> QED BY <2>2, <3>1, <3>3
  <2> QED BY <2>1, <2>2
<1>8. PassageKeepsEach
  BY <1>1, <1>4, <1>5, <1>7 DEF PassageKeepsEach, Crosses
<1> QED BY <1>6, <1>8

LEMMA HurtStep ==
  ASSUME PeopleInv, Hurt
  PROVE  PeopleInv' /\ PassageKeepsEach
<1>1. PICK i \in Online, by \in {50, MaxHp}, part \in {"vital", "limb"} :
         people' = [people EXCEPT ![i] =
            IF part = "limb" THEN [@ EXCEPT !.limb = Harm(people[i].limb, by), !.hp = people[i].vital]
            ELSE [@ EXCEPT !.vital = Harm(people[i].vital, by), !.hp = Harm(people[i].vital, by)]]
  BY DEF Hurt
<1>2. PICK p : p = people[i] /\ PersonOk(p) /\ p.mode = "online"
  BY <1>1, PersonIs DEF Online
<1>3. PICK q : q = people'[i]
  OBVIOUS
<1>4. by \in Nat /\ i \in DOMAIN people
  BY DEF MaxHp, Online
<1>5. PICK v, l \in Nat : v = Harm(p.vital, by) /\ l = Harm(p.limb, by) /\ v <= p.vital /\ l <= p.limb
  BY <1>2, <1>4, HarmIs DEF PersonOk
<1>6. \/ q = [p EXCEPT !.limb = l, !.hp = p.vital]
      \/ q = [p EXCEPT !.vital = v, !.hp = v]
  BY <1>1, <1>2, <1>3, <1>4, <1>5
<1>7. DOMAIN people' = DOMAIN people /\ \A j \in DOMAIN people : j # i => people'[j] = people[j]
  BY <1>1
<1>8. /\ DOMAIN q = DOMAIN p /\ q.mode = p.mode /\ q.fac = p.fac /\ q.grp = p.grp /\ q.die = p.die /\ q.reg = p.reg
      /\ q.vital \in Nat /\ q.limb \in Nat /\ q.vital <= p.vital /\ q.limb <= p.limb
  <2>0. {"mode", "fac", "reg", "grp", "at", "die", "foe", "since"} \subseteq DOMAIN p
    BY <1>2 DEF PersonOk
  <2>1. {"vital", "limb", "hp"} \subseteq DOMAIN p
    BY <1>2 DEF PersonOk
  <2>2. PICK x, y \in Nat : x = p.vital /\ y = p.limb
    BY <1>2 DEF PersonOk
  <2>3. CASE q = [p EXCEPT !.limb = l, !.hp = p.vital]
    <3>1. /\ DOMAIN q = DOMAIN p /\ q.mode = p.mode /\ q.fac = p.fac /\ q.grp = p.grp /\ q.die = p.die
          /\ q.reg = p.reg /\ q.vital = x /\ q.limb = l
      BY <2>0, <2>1, <2>2, <2>3
    <3> QED BY <1>5, <2>2, <3>1
  <2>4. CASE q = [p EXCEPT !.vital = v, !.hp = v]
    <3>1. /\ DOMAIN q = DOMAIN p /\ q.mode = p.mode /\ q.fac = p.fac /\ q.grp = p.grp /\ q.die = p.die
          /\ q.reg = p.reg /\ q.vital = v /\ q.limb = y
      BY <2>0, <2>1, <2>2, <2>4
    <3> QED BY <1>5, <2>2, <3>1
  <2> QED BY <1>6, <2>3, <2>4
<1>9. PersonOk(q)
  BY <1>2, <1>8 DEF PersonOk
<1>10. StaysWho(p, q)
  <2>1. p.vital \in Nat /\ p.limb \in Nat
    BY <1>2 DEF PersonOk
  <2>2. NoBetter(BodyPartsToHealthClass(p.vital, p.limb), BodyPartsToHealthClass(q.vital, q.limb))
    BY <1>8, <2>1, Harmed
  <2> QED BY <1>2, <1>8, <2>2 DEF StaysWho, HealthClass
<1>11. PeopleInv'
  <2>1. UNCHANGED <<chronicle, told, pda>> /\ tick' = tick
    BY DEF Hurt, BetweenTicks
  <2> QED BY <1>2, <1>3, <1>7, <1>8, <1>9, <2>1, SamePeople
<1>12. PassageKeepsEach
  <2>1. active' = active
    BY DEF Hurt, BetweenTicks
  <2>2. ASSUME NEW j \in DOMAIN people PROVE StaysWho(people[j], people'[j])
    <3>1. CASE j = i
      BY <1>2, <1>3, <1>10, <3>1
    <3>2. CASE j # i
      BY <1>7, <3>2, PersonIs, Stays
    <3> QED BY <3>1, <3>2
  <2> QED BY <2>1, <2>2, SameEach
<1> QED BY <1>11, <1>12

(* Whoever turns, walks or takes aim changes nothing else. *)
Moves(p, q) ==
  /\ DOMAIN q = DOMAIN p /\ q.mode = p.mode /\ q.fac = p.fac /\ q.grp = p.grp /\ q.die = p.die /\ q.reg = p.reg
  /\ p.mode = "online" => q.vital = p.vital /\ q.limb = p.limb
  /\ p.mode = "offline" => q.class = p.class

LEMMA MovesIs ==
  ASSUME NEW p, PersonOk(p), NEW q, Moves(p, q)
  PROVE  PersonOk(q) /\ StaysWho(p, q)
<1>1. PersonOk(q)
  BY DEF PersonOk, Moves
<1>2. HealthClass(q) = HealthClass(p)
  BY DEF PersonOk, Moves, HealthClass
<1> QED BY <1>1, <1>2 DEF StaysWho, Moves, NoBetter

LEMMA MovesStep ==
  ASSUME PeopleInv, UNCHANGED <<chronicle, told, pda>>, tick' = tick, active' = active,
         DOMAIN people' = DOMAIN people,
         \A i \in DOMAIN people : PersonOk(people[i]) => Moves(people[i], people'[i])
  PROVE  PeopleInv' /\ PassageKeepsEach
<1>1. PICK qs : qs = people'
  OBVIOUS
<1>2. ASSUME NEW i \in DOMAIN people PROVE PersonOk(qs[i]) /\ qs[i].reg = people[i].reg /\ StaysWho(people[i], qs[i])
  <2>1. PICK p, q : p = people[i] /\ q = qs[i] /\ PersonOk(p)
    BY PersonIs
  <2>2. Moves(p, q)
    BY <1>1, <2>1
  <2>3. PersonOk(q) /\ StaysWho(p, q)
    BY <2>1, <2>2, MovesIs
  <2> QED BY <2>1, <2>2, <2>3 DEF Moves
<1>3. PeopleInv'
  BY <1>1, <1>2, SamePeople
<1>4. PassageKeepsEach
  BY <1>1, <1>2, SameEach
<1> QED BY <1>3, <1>4

LEMMA Still ==
  ASSUME NEW p
  PROVE  Moves(p, p)
BY DEF Moves

LEMMA AimsStep ==
  ASSUME PeopleInv, Aims
  PROVE  PeopleInv' /\ PassageKeepsEach
<1>1. PICK i \in Online, f \in DOMAIN people : people' = [people EXCEPT ![i].foe = f, ![i].since = tick]
  BY DEF Aims
<1>2. ASSUME NEW j \in DOMAIN people, PersonOk(people[j]) PROVE Moves(people[j], people'[j])
  <2>1. PICK p, q : p = people[j] /\ q = people'[j]
    OBVIOUS
  <2>2. q = p \/ q = [p EXCEPT !.foe = f, !.since = tick]
    BY <1>1, <2>1
  <2>3. Moves(p, q)
    BY <1>2, <2>1, <2>2 DEF PersonOk, Moves
  <2> QED BY <2>1, <2>3
<1>3. UNCHANGED <<chronicle, told, pda>> /\ tick' = tick /\ active' = active
  BY DEF Aims, BetweenTicks
<1> QED BY <1>1, <1>2, <1>3, MovesStep

LEMMA WalksStep ==
  ASSUME PeopleInv, Walks
  PROVE  PeopleInv' /\ PassageKeepsEach
<1>1. PICK i \in Online, a \in {Road} \cup DOMAIN Bases : people' = [people EXCEPT ![i].at = a]
  BY DEF Walks
<1>2. ASSUME NEW j \in DOMAIN people, PersonOk(people[j]) PROVE Moves(people[j], people'[j])
  <2>1. PICK p, q : p = people[j] /\ q = people'[j]
    OBVIOUS
  <2>2. q = p \/ q = [p EXCEPT !.at = a]
    BY <1>1, <2>1
  <2>3. Moves(p, q)
    BY <1>2, <2>1, <2>2 DEF PersonOk, Moves
  <2> QED BY <2>1, <2>3
<1>3. UNCHANGED <<chronicle, told, pda>> /\ tick' = tick /\ active' = active
  BY DEF Walks, BetweenTicks
<1> QED BY <1>1, <1>2, <1>3, MovesStep

LEMMA ExploresStep ==
  ASSUME PeopleInv, Explores
  PROVE  PeopleInv' /\ PassageKeepsEach
<1>1. PICK i \in Online : people' = [people EXCEPT ![i].at = Portal]
  BY DEF Explores
<1>2. ASSUME NEW j \in DOMAIN people, PersonOk(people[j]) PROVE Moves(people[j], people'[j])
  <2>1. PICK p, q : p = people[j] /\ q = people'[j]
    OBVIOUS
  <2>2. q = p \/ q = [p EXCEPT !.at = Portal]
    BY <1>1, <2>1
  <2>3. Moves(p, q)
    BY <1>2, <2>1, <2>2 DEF PersonOk, Moves
  <2> QED BY <2>1, <2>3
<1>3. UNCHANGED <<chronicle, told, pda>> /\ tick' = tick /\ active' = active
  BY DEF Explores, BetweenTicks
<1> QED BY <1>1, <1>2, <1>3, MovesStep

LEMMA OfflineMovementStep ==
  ASSUME PeopleInv, OfflineMovement
  PROVE  PeopleInv' /\ PassageKeepsEach
<1>1. PICK next \in [IF Processing THEN Processed ELSE {} -> UNION {Moved(people[i], slow'.tick) : i \in Offline}] :
        /\ \A i \in DOMAIN next : next[i] \in Moved(people[i], slow'.tick)
        /\ people' = [i \in DOMAIN people |-> IF i \in DOMAIN next THEN next[i] ELSE people[i]]
  BY DEF OfflineMovement
<1>2. DOMAIN next \subseteq Offline
  BY <1>1 DEF Processed
<1>3. ASSUME NEW j \in DOMAIN people, PersonOk(people[j]) PROVE Moves(people[j], people'[j])
  <2>1. PICK p, q, hour : p = people[j] /\ q = people'[j] /\ hour = slow'.tick
    OBVIOUS
  <2>2. CASE j \notin DOMAIN next
    <3>1. q = p
      BY <1>1, <2>1, <2>2
    <3> QED BY <2>1, <3>1, Still
  <2>3. CASE j \in DOMAIN next
    <3>1. q \in Moved(p, hour) /\ p.mode = "offline"
      <4>1. q \in Moved(p, hour)
        BY <1>1, <2>1, <2>3
      <4>2. j \in Offline
        BY <1>2, <2>3
      <4>3. p.mode # "online"
        BY <2>1, <4>2 DEF Offline, Online
      <4>4. p.mode \in {"online", "offline"}
        BY <1>3, <2>1 DEF PersonOk
      <4> QED BY <4>1, <4>3, <4>4
    <3>2. \/ q = p
          \/ q = [p EXCEPT !.goal = Nowhere]
          \/ \E b : q = [p EXCEPT !.goal = b, !.arrival = hour + LifeCfg.leg]
          \/ q = [p EXCEPT !.at = p.goal, !.goal = Nowhere]
          \/ \E a : q = [p EXCEPT !.at = a]
      BY <3>1 DEF Moved
    <3>3. Moves(p, q)
      BY <1>3, <2>1, <3>1, <3>2 DEF PersonOk, Moves
    <3> QED BY <2>1, <3>3
  <2> QED BY <2>2, <2>3
<1>4. UNCHANGED <<chronicle, told, pda>> /\ tick' = tick /\ active' = active
  BY DEF OfflineMovement
<1> QED BY <1>1, <1>3, <1>4, MovesStep

-----------------------------------------------------------------------------
(* The systems of a tick.                                                  *)

LEMMA StartTickStep ==
  ASSUME PeopleInv, StartTick
  PROVE  PeopleInv' /\ PassageKeepsEach
<1>1. UNCHANGED <<people, chronicle, active, told, pda>> /\ tick' = tick + 1
  BY DEF StartTick
<1>2. EntriesOk(pda.entries, tick')
  <2>1. EntriesOk(pda.entries, tick) /\ tick \in Nat
    BY DEF PeopleInv
  <2>2. PICK es, t, u : es = pda.entries /\ t = tick /\ u = tick' /\ t \in Nat /\ u = t + 1 /\ EntriesOk(es, t)
    BY <1>1, <2>1
  <2>3. \A k \in DOMAIN es : es[k].tick \in Nat /\ es[k].tick <= u
    BY <2>2 DEF EntriesOk
  <2>4. EntriesOk(es, u)
    BY <2>2, <2>3 DEF EntriesOk
  <2> QED BY <2>2, <2>4
<1>3. PeopleInv'
  BY <1>1, <1>2 DEF PeopleInv
<1>4. \A i \in DOMAIN people : StaysWho(people[i], people[i])
  BY PersonIs, Stays
<1>5. PassageKeepsEach
  BY <1>1, <1>4, SameEach
<1> QED BY <1>3, <1>5

LEMMA SpawnsDoneStep ==
  ASSUME PeopleInv, SpawnsDone
  PROVE  PeopleInv' /\ PassageKeepsEach
<1>1. UNCHANGED <<people, chronicle, active, told, pda, tick>>
  BY DEF SpawnsDone
<1> QED BY <1>1, Still, MovesStep

(* People die, one of the systems burying them, and the rest stay as they are. *)
LEMMA DyingStep ==
  ASSUME PeopleInv, NEW n, LivesOk(people, chronicle, n), NEW D, D \subseteq DOMAIN people, NEW cause,
         chronicle' = Buried(chronicle, InOrder(D), cause), people' = Without(people, D),
         UNCHANGED <<tick, pda, active>>,
         told' = told \/ told' = told \o InOrder(D)
  PROVE  PeopleInv' /\ PassageKeepsEach
<1>1. n \in Nat /\ Minted = n /\ D \in SUBSET (1 .. n)
  BY NumbersAre
<1>2. PICK q : q = InOrder(D) /\ q \in Seq(Nat) /\ ToSet(q) = D /\ IsInjective(q)
  BY <1>1, InOrderIs
<1>3. PICK c, d, ps, qs, t, u : /\ c = chronicle /\ d = chronicle' /\ ps = people /\ qs = people'
                               /\ t = told /\ u = told'
  OBVIOUS
<1>4. LivesOk(ps, c, n) /\ ToldOk(t, c) /\ ChronicleOk(c, n)
  BY <1>3 DEF PeopleInv, LivesOk
<1>5. d = Buried(c, q, cause)
  BY <1>2, <1>3
<1>6. ChronicleOk(d, n) /\ DiedIn(c, d, n, D)
  BY <1>2, <1>4, <1>5, BuriedIs
<1>7. DOMAIN qs = DOMAIN ps \ D /\ \A i \in DOMAIN qs : qs[i] = ps[i]
  BY <1>3 DEF Without
<1>8. \A i \in DOMAIN qs : PersonOk(qs[i]) /\ qs[i].reg = ps[i].reg
  BY <1>4, <1>7 DEF LivesOk
<1>9. LivesOk(qs, d, n)
  <2>1. D \subseteq DOMAIN ps
    BY <1>3
  <2> QED BY <1>4, <1>6, <1>7, <1>8, <2>1, LivesGoOn
<1>10. ToldOk(u, d)
  <2>1. CASE u = t
    BY <1>4, <1>6, <2>1, StaysTold
  <2>2. CASE u = t \o q
    <3>1. D \subseteq DOMAIN ps
      BY <1>3
    <3>2. ToldOk(t \o q, d)
      BY <1>2, <1>4, <1>6, <3>1, ToldMore
    <3> QED BY <2>2, <3>2
  <2> QED BY <1>2, <1>3, <2>1, <2>2
<1>11. PeopleInv'
  BY <1>3, <1>9, <1>10 DEF PeopleInv
<1>12. \A i \in DOMAIN people \cap DOMAIN people' : StaysWho(people[i], people'[i])
  BY <1>3, <1>7, PersonIs, Stays
<1>13. PassageKeepsEach
  BY <1>12, SameEach
<1> QED BY <1>11, <1>13

LEMMA NpcDeathCheckStep ==
  ASSUME PeopleInv, NpcDeathCheck
  PROVE  PeopleInv' /\ PassageKeepsEach
<1>1. PICK D : /\ D = {i \in Online : people[i].hp = 0 /\ ~chronicle.records[i].dead}
               /\ chronicle' = Buried(chronicle, InOrder(D), "wounds") /\ people' = Without(people, D)
               /\ told' = told \o InOrder(D)
  BY DEF NpcDeathCheck
<1>2. D \subseteq DOMAIN people
  BY <1>1 DEF Online
<1>3. UNCHANGED <<tick, pda, active>>
  BY DEF NpcDeathCheck
<1>4. PICK n : LivesOk(people, chronicle, n)
  BY DEF PeopleInv
<1> QED BY <1>1, <1>2, <1>3, <1>4, DyingStep

LEMMA AgeNpcsStep ==
  ASSUME PeopleInv, AgeNpcs
  PROVE  PeopleInv' /\ PassageKeepsEach
<1>1. PICK D : /\ D = {i \in Online : tick >= people[i].die}
               /\ chronicle' = Buried(chronicle, InOrder(D), "age") /\ people' = Without(people, D)
  BY DEF AgeNpcs
<1>2. D \subseteq DOMAIN people
  BY <1>1 DEF Online
<1>3. UNCHANGED <<tick, pda, active>> /\ told' = told
  BY DEF AgeNpcs
<1>4. PICK n : LivesOk(people, chronicle, n)
  BY DEF PeopleInv
<1> QED BY <1>1, <1>2, <1>3, <1>4, DyingStep

LEMMA NpcPortalCrossStep ==
  ASSUME PeopleInv, NpcPortalCross
  PROVE  PeopleInv' /\ PassageKeepsEach
<1>1. PICK M, dest : /\ M = {i \in Online : people[i].grp \in Crossing /\ people[i].foe = NoFoe}
                     /\ dest = [i \in M |-> exploring[people[i].grp]]
                     /\ people' = [i \in DOMAIN people |-> IF i \in M
                            THEN [people[i] EXCEPT !.reg = dest[i], !.at = Portal] ELSE people[i]]
                     /\ chronicle' = Visited(M, dest)
  BY Zenon DEF NpcPortalCross
<1>2. UNCHANGED <<tick, told, pda, active>>
  BY DEF NpcPortalCross
<1>3. PICK n : LivesOk(people, chronicle, n)
  BY DEF PeopleInv
<1>4. PICK c, d, ps, qs : c = chronicle /\ d = chronicle' /\ ps = people /\ qs = people'
  OBVIOUS
<1>5. PICK rs, ss : rs = c.records /\ ss = [i \in DOMAIN rs |-> IF i \in M THEN [rs[i] EXCEPT !.seen = dest[i]] ELSE rs[i]]
  OBVIOUS
<1>6. d = [c EXCEPT !.records = ss]
  BY <1>1, <1>4, <1>5 DEF Visited
<1>7. /\ n \in Nat /\ DOMAIN c = {"records", "summary"} /\ DOMAIN rs = 1 .. n
      /\ \A i \in 1 .. n : LifeRecord(rs[i])
      /\ c.summary = Summary(rs)
  BY <1>3, <1>4, <1>5 DEF LivesOk, ChronicleOk
<1>8. DOMAIN d = {"records", "summary"} /\ d.records = ss /\ d.summary = c.summary
  BY <1>6, <1>7
<1>9. ASSUME NEW i \in 1 .. n
      PROVE  /\ LifeRecord(ss[i]) /\ ss[i].fac = rs[i].fac /\ ss[i].dead = rs[i].dead
             /\ ss[i].seen = IF i \in M THEN dest[i] ELSE rs[i].seen
  <2>1. ss[i] = IF i \in M THEN [rs[i] EXCEPT !.seen = dest[i]] ELSE rs[i]
    BY <1>5, <1>7
  <2>2. LifeRecord(rs[i])
    BY <1>7
  <2> QED BY <2>1, <2>2 DEF LifeRecord
<1>10. DOMAIN ss = 1 .. n /\ ss = [i \in 1 .. n |-> ss[i]]
  BY <1>5, <1>7
<1>11. Summary(ss) = Summary(rs)
  <2>1. DOMAIN ss = DOMAIN rs /\ \A i \in DOMAIN rs : ss[i].fac = rs[i].fac /\ ss[i].dead = rs[i].dead
    BY <1>7, <1>9, <1>10
  <2> QED BY <2>1, SummarySame
<1>12. ChronicleOk(d, n)
  <2>1. \A i \in 1 .. n : LifeRecord(ss[i])
    BY <1>9
  <2> QED BY <1>7, <1>8, <1>10, <1>11, <2>1 DEF ChronicleOk
<1>13. AliveIn(d.records) = AliveIn(c.records)
  BY <1>5, <1>7, <1>8, <1>9, <1>10 DEF AliveIn
<1>14. DOMAIN qs = DOMAIN ps
  <2>1. DOMAIN people' = DOMAIN people
    BY <1>1
  <2> QED BY <1>4, <2>1
<1>15. ASSUME NEW i \in DOMAIN ps
       PROVE  /\ PersonOk(qs[i]) /\ StaysWho(ps[i], qs[i])
              /\ qs[i].reg = IF i \in M THEN dest[i] ELSE ps[i].reg
  <2>1. PICK p, q : p = ps[i] /\ q = qs[i] /\ PersonOk(p)
    BY <1>4, PersonIs
  <2>2. q = IF i \in M THEN [p EXCEPT !.reg = dest[i], !.at = Portal] ELSE p
    BY <1>1, <1>4, <2>1
  <2>3. /\ DOMAIN q = DOMAIN p /\ q.mode = p.mode /\ q.fac = p.fac /\ q.grp = p.grp /\ q.die = p.die
        /\ q.reg = IF i \in M THEN dest[i] ELSE p.reg
        /\ p.mode = "online" => q.vital = p.vital /\ q.limb = p.limb
        /\ p.mode = "offline" => q.class = p.class
    BY <2>1, <2>2 DEF PersonOk
  <2>4. PersonOk(q)
    BY <2>1, <2>3 DEF PersonOk
  <2>5. HealthClass(q) = HealthClass(p)
    BY <2>1, <2>3 DEF PersonOk, HealthClass
  <2>6. StaysWho(p, q)
    BY <2>3, <2>5 DEF StaysWho, NoBetter
  <2>7. q.reg = IF i \in M THEN dest[i] ELSE p.reg
    BY <2>3
  <2> QED BY <2>1, <2>4, <2>6, <2>7
<1>16. \A i \in DOMAIN ps : i \in 1 .. n /\ c.records[i].seen = ps[i].reg
  BY <1>3, <1>4, <1>5, <1>7 DEF LivesOk, AliveIn
<1>17. \A i \in DOMAIN qs : PersonOk(qs[i]) /\ d.records[i].seen = qs[i].reg
  BY <1>5, <1>8, <1>9, <1>14, <1>15, <1>16
<1>18. LivesOk(qs, d, n)
  BY <1>3, <1>4, <1>12, <1>13, <1>14, <1>17 DEF LivesOk
<1>19. ToldOk(told, d)
  <2>1. ToldOk(told, c)
    BY <1>4 DEF PeopleInv
  <2>2. \A i \in ToSet(told) : i \in DOMAIN d.records /\ d.records[i].dead
    BY <1>5, <1>7, <1>8, <1>9, <1>10, <2>1 DEF ToldOk
  <2> QED BY <2>1, <2>2 DEF ToldOk
<1>20. PeopleInv'
  BY <1>2, <1>4, <1>18, <1>19 DEF PeopleInv
<1>21. PassageKeepsEach
  BY <1>2, <1>4, <1>14, <1>15, SameEach
<1> QED BY <1>20, <1>21

-----------------------------------------------------------------------------
(* Births.                                                                 *)

Bo == INSTANCE SequenceLemmas WITH Op <- Insert

(* A person born gets the next number and a record. *)
BornIn(c, d, n, r) == (\A i \in 1 .. n : d.records[i] = c.records[i]) /\ d.records[n + 1] = r

LEMMA InsertIs ==
  ASSUME NEW c, NEW n, ChronicleOk(c, n), NEW x, x.id = n + 1, LifeRecord(x.rec), x.rec.dead = FALSE,
         NEW d, d = Insert(c, x)
  PROVE  ChronicleOk(d, n + 1) /\ BornIn(c, d, n, x.rec)
<1>1. PICK rs, g, r : rs = c.records /\ r = x.rec /\ g = r.fac
  OBVIOUS
<1>2. /\ n \in Nat /\ n + 1 \in Nat /\ DOMAIN rs = 1 .. n /\ rs = [i \in 1 .. n |-> rs[i]]
      /\ \A i \in 1 .. n : LifeRecord(rs[i])
      /\ g \in TargetFactions
  BY <1>1 DEF ChronicleOk, LifeRecord
<1>3. PICK s0 : s0 = c.summary
  OBVIOUS
<1>4. s0 = Summary(rs)
  BY <1>1, <1>3 DEF ChronicleOk
<1>5. /\ DOMAIN s0 = {"total", "alive", "by"}
      /\ s0.total = Cardinality(DOMAIN rs) /\ s0.alive = Cardinality(AliveIn(rs))
      /\ s0.by = [f \in TargetFactions |->
            [alive |-> Cardinality(OfFaction(rs, f) \cap AliveIn(rs)),
             dead |-> Cardinality(OfFaction(rs, f) \ AliveIn(rs))]]
  BY <1>4, SummaryIs
<1>6. PICK q : q = [i \in DOMAIN rs \cup {n + 1} |-> IF i = n + 1 THEN r ELSE rs[i]]
  OBVIOUS
<1>7. PICK s : s = [s0 EXCEPT !.total = @ + 1, !.alive = @ + 1, !.by[g].alive = @ + 1]
  OBVIOUS
<1>8. d = [records |-> q, summary |-> s]
  <2>1. n + 1 \notin DOMAIN rs
    BY <1>2
  <2> QED BY <1>1, <1>3, <1>6, <1>7, <2>1 DEF Insert, Counted
<1>9. /\ DOMAIN q = 1 .. n + 1 /\ q = [i \in 1 .. n + 1 |-> q[i]]
      /\ \A i \in 1 .. n : q[i] = rs[i]
      /\ q[n + 1] = r
  BY <1>2, <1>6
<1>10. AliveIn(q) = AliveIn(rs) \cup {n + 1} /\ n + 1 \notin AliveIn(rs)
  <2>1. ~q[n + 1].dead
    BY <1>1, <1>9
  <2>2. n + 1 \in 1 .. n + 1 /\ n + 1 \notin 1 .. n /\ \A i \in 1 .. n + 1 : i \in 1 .. n \/ i = n + 1
    BY <1>2
  <2>3. 1 .. n \subseteq 1 .. n + 1
    BY <1>2
  <2>4. \A i \in 1 .. n + 1 : i \in AliveIn(q) <=> i \in AliveIn(rs) \/ i = n + 1
    BY <1>2, <1>9, <2>1, <2>2 DEF AliveIn
  <2>5. AliveIn(q) \subseteq 1 .. n + 1 /\ AliveIn(rs) \subseteq 1 .. n
    BY <1>2, <1>9 DEF AliveIn
  <2> QED BY <2>2, <2>3, <2>4, <2>5
<1>11. \A f \in TargetFactions : OfFaction(q, f) = IF f = g THEN OfFaction(rs, f) \cup {n + 1} ELSE OfFaction(rs, f)
  <2> SUFFICES ASSUME NEW f \in TargetFactions
               PROVE  OfFaction(q, f) = IF f = g THEN OfFaction(rs, f) \cup {n + 1} ELSE OfFaction(rs, f)
    OBVIOUS
  <2>1. q[n + 1].fac = g
    BY <1>1, <1>9
  <2>2. n + 1 \in 1 .. n + 1 /\ n + 1 \notin 1 .. n /\ \A i \in 1 .. n + 1 : i \in 1 .. n \/ i = n + 1
    BY <1>2
  <2>3. 1 .. n \subseteq 1 .. n + 1
    BY <1>2
  <2>4. \A i \in 1 .. n + 1 : i \in OfFaction(q, f) <=> i \in OfFaction(rs, f) \/ (i = n + 1 /\ f = g)
    BY <1>2, <1>9, <2>1, <2>2 DEF OfFaction
  <2>5. OfFaction(q, f) \subseteq 1 .. n + 1 /\ OfFaction(rs, f) \subseteq 1 .. n
    BY <1>2, <1>9 DEF OfFaction
  <2> QED BY <2>2, <2>3, <2>4, <2>5
<1>12. DOMAIN s = {"total", "alive", "by"} /\ s.total = s0.total + 1 /\ s.alive = s0.alive + 1
       /\ s.by = [s0.by EXCEPT ![g].alive = @ + 1]
  BY <1>5, <1>7
<1>13. s = Summary(q)
  <2>1. s.total = Cardinality(DOMAIN q) /\ s.alive = Cardinality(AliveIn(q))
    <3>1. Cardinality(DOMAIN rs) = n /\ Cardinality(DOMAIN q) = n + 1 /\ IsFiniteSet(AliveIn(rs))
      BY <1>2, <1>9, AllFinite
    <3>2. Cardinality(AliveIn(q)) = Cardinality(AliveIn(rs)) + 1
      BY <1>10, <3>1, FS_AddElement
    <3> QED BY <1>5, <1>12, <3>1, <3>2
  <2>2. ASSUME NEW f \in TargetFactions
        PROVE  s.by[f] = [alive |-> Cardinality(OfFaction(q, f) \cap AliveIn(q)),
                          dead |-> Cardinality(OfFaction(q, f) \ AliveIn(q))]
    <3>0. PICK L, E : L = OfFaction(rs, f) \cap AliveIn(rs) /\ E = OfFaction(rs, f) \ AliveIn(rs)
      OBVIOUS
    <3>1. s0.by[f] = [alive |-> Cardinality(L), dead |-> Cardinality(E)]
      BY <1>5, <3>0
    <3>2. IsFiniteSet(L) /\ Cardinality(L) \in Nat
      BY <1>2, <3>0, GroupsFinite
    <3>3. n + 1 \notin OfFaction(rs, f)
      BY <1>2 DEF OfFaction
    <3>4. CASE f # g
      <4>1. s.by[f] = s0.by[f]
        BY <1>5, <1>12, <3>4
      <4>2. OfFaction(q, f) \cap AliveIn(q) = L /\ OfFaction(q, f) \ AliveIn(q) = E
        BY <1>10, <1>11, <3>0, <3>3, <3>4
      <4> QED BY <3>1, <4>1, <4>2
    <3>5. CASE f = g
      <4>1. s.by[f] = [alive |-> Cardinality(L) + 1, dead |-> Cardinality(E)]
        BY <1>5, <1>12, <3>1, <3>5
      <4>2. OfFaction(q, f) \cap AliveIn(q) = L \cup {n + 1} /\ n + 1 \notin L /\ OfFaction(q, f) \ AliveIn(q) = E
        BY <1>10, <1>11, <3>0, <3>3, <3>5
      <4>3. Cardinality(L \cup {n + 1}) = Cardinality(L) + 1
        BY <3>2, <4>2, FS_AddElement
      <4> QED BY <4>1, <4>2, <4>3
    <3> QED BY <3>4, <3>5
  <2>3. s.by = [f \in TargetFactions |-> s.by[f]]
    BY <1>5, <1>12
  <2>4. s.by = [f \in TargetFactions |-> [alive |-> Cardinality(OfFaction(q, f) \cap AliveIn(q)),
                          dead |-> Cardinality(OfFaction(q, f) \ AliveIn(q))]]
    BY <2>2, <2>3
  <2>5. s = [total |-> s.total, alive |-> s.alive, by |-> s.by]
    <3>1. s0 = [total |-> s0.total, alive |-> s0.alive, by |-> s0.by]
      BY <1>4 DEF Summary
    <3> QED BY <1>7, <1>12, <3>1
  <2> QED BY <2>1, <2>4, <2>5 DEF Summary
<1>14. \A i \in 1 .. n + 1 : LifeRecord(q[i])
  <2>1. \A i \in 1 .. n + 1 : i \in 1 .. n \/ i = n + 1
    BY <1>2
  <2>2. LifeRecord(q[n + 1])
    BY <1>1, <1>9
  <2> QED BY <1>2, <1>9, <2>1, <2>2
<1>15. d.records = q /\ d.summary = s /\ DOMAIN d = {"records", "summary"}
  BY <1>8
<1>16. ChronicleOk(d, n + 1)
  BY <1>2, <1>9, <1>13, <1>14, <1>15 DEF ChronicleOk
<1> QED BY <1>1, <1>9, <1>15, <1>16 DEF BornIn

(* So do several, one after the other. *)
AllBornIn(c, d, n, q, m) ==
  /\ \A i \in 1 .. n : d.records[i] = c.records[i]
  /\ \A k \in 1 .. m : d.records[n + k] = q[k].rec

LEMMA InsertsAre ==
  ASSUME NEW c, NEW n, ChronicleOk(c, n), NEW m \in Nat, NEW E, NEW q \in Seq(E), Len(q) = m,
         \A k \in 1 .. m : q[k].id = n + k /\ LifeRecord(q[k].rec) /\ q[k].rec.dead = FALSE,
         NEW d, d = FoldLeft(Insert, c, q)
  PROVE  ChronicleOk(d, n + m) /\ AllBornIn(c, d, n, q, m)
<1>0. n \in Nat
  BY DEF ChronicleOk
<1>3. d = Bo!Fold(c, q)
  BY DEF Bo!Fold, Bo!FoldLeft, Bo!MapThenFoldSet, Bo!Max, FoldLeft, MapThenFoldSet, Max
<1>4. PICK v : Bo!Folding(v, c, q, m) /\ Bo!Fold(c, q) = v[m]
  BY Len(q) = m, Bo!FoldLeftIs
<1>5. v[0] = c /\ \A k \in 1 .. m : v[k] = Insert(v[k - 1], q[k])
  BY <1>4 DEF Bo!Folding
<1> DEFINE Grown(k) == /\ ChronicleOk(v[k], n + k)
                       /\ \A i \in 1 .. n : v[k].records[i] = c.records[i]
                       /\ \A j \in 1 .. k : v[k].records[n + j] = q[j].rec
           P == {k \in Nat : k <= m => Grown(k)}
<1>6. 0 \in P
  <2>1. n + 0 = n
    BY <1>0
  <2> QED BY <1>5, <2>1
<1>7. ASSUME NEW k \in P PROVE k + 1 \in P
  <2> HIDE DEF Grown
  <2> SUFFICES ASSUME k + 1 <= m PROVE Grown(k + 1)
    OBVIOUS
  <2>1. k \in Nat /\ k <= m /\ k + 1 \in 1 .. m /\ (k + 1) - 1 = k /\ n + (k + 1) = (n + k) + 1
    BY <1>0
  <2>2. Grown(k)
    BY <2>1
  <2> USE DEF Grown
  <2>3. PICK w, z : w = v[k + 1] /\ z = v[k] /\ w = Insert(z, q[k + 1])
    BY <1>5, <2>1
  <2>4. q[k + 1].id = (n + k) + 1 /\ LifeRecord(q[k + 1].rec) /\ q[k + 1].rec.dead = FALSE
    BY <2>1
  <2>5. ChronicleOk(w, (n + k) + 1) /\ (\A i \in 1 .. n + k : w.records[i] = z.records[i])
        /\ w.records[(n + k) + 1] = q[k + 1].rec
    <3>1. ChronicleOk(z, n + k)
      BY <2>2, <2>3
    <3>2. PICK N, x : N = n + k /\ x = q[k + 1]
      OBVIOUS
    <3>3. ChronicleOk(z, N) /\ x.id = N + 1 /\ LifeRecord(x.rec) /\ x.rec.dead = FALSE /\ w = Insert(z, x)
      BY <2>3, <2>4, <3>1, <3>2
    <3>4. ChronicleOk(w, N + 1) /\ (\A i \in 1 .. N : w.records[i] = z.records[i]) /\ w.records[N + 1] = x.rec
      <4> HIDE DEF Grown, P
      <4>1. ChronicleOk(z, N) /\ x.id = N + 1 /\ LifeRecord(x.rec) /\ x.rec.dead = FALSE
        BY <3>3
      <4>2. w = Insert(z, x)
        BY <3>3
      <4>3. ChronicleOk(w, N + 1)
        BY <4>1, <4>2, InsertIs
      <4>4. BornIn(z, w, N, x.rec)
        BY <4>1, <4>2, InsertIs
      <4> QED BY <4>3, <4>4 DEF BornIn
    <3> QED BY <3>2, <3>4
  <2>6. \A i \in 1 .. n : w.records[i] = c.records[i]
    <3>1. \A i \in 1 .. n : i \in 1 .. n + k
      BY <1>0, <2>1
    <3> QED BY <2>2, <2>3, <2>5, <3>1
  <2>7. ASSUME NEW j \in 1 .. k + 1 PROVE w.records[n + j] = q[j].rec
    <3>1. CASE j = k + 1
      BY <2>1, <2>5, <3>1
    <3>2. CASE j # k + 1
      <4>1. j \in 1 .. k /\ n + j \in 1 .. n + k
        BY <1>0, <2>1, <3>2
      <4> QED BY <2>2, <2>3, <2>5, <4>1
    <3> QED BY <3>1, <3>2
  <2> QED BY <2>1, <2>3, <2>5, <2>6, <2>7
<1>8. P = Nat
  <2> HIDE DEF P
  <2>1. P \in SUBSET Nat
    BY DEF P
  <2> QED BY <1>6, <1>7, <2>1, SetInduction
<1>9. Grown(m)
  BY <1>8
<1> QED BY <1>3, <1>4, <1>9 DEF AllBornIn

LEMMA MinOfThree ==
  ASSUME NEW a \in Int, NEW b \in Int, NEW c \in Int
  PROVE  Min({a, b, c}) \in Int
<1>1. \E x \in {a, b, c} : \A y \in {a, b, c} : x <= y
  <2>1. CASE a <= b /\ a <= c
    BY <2>1
  <2>2. CASE b <= a /\ b <= c
    BY <2>2
  <2>3. CASE c <= a /\ c <= b
    BY <2>3
  <2> QED BY <2>1, <2>2, <2>3
<1>2. Min({a, b, c}) \in {a, b, c}
  BY <1>1 DEF Min
<1> QED BY <1>2

(* The people of a region and faction can be counted. *)
LEMMA LiveCountIs ==
  ASSUME NEW n, LivesOk(people, chronicle, n), NEW r, NEW f
  PROVE  LiveCount(r, f) \in Nat
<1>1. n \in Nat /\ {i \in Online : people[i].reg = r /\ people[i].fac = f} \in SUBSET (1 .. n)
  BY NumbersAre DEF Online
<1>2. IsFiniteSet(1 .. n)
  BY <1>1, FS_Interval
<1> QED BY <1>1, <1>2, FS_Subset, FS_CardinalityType DEF LiveCount

LEMMA TargetIs ==
  ASSUME Wanted # {}
  PROVE  LET t == Targets[Min(Wanted)] IN t[1] \in Regions /\ t[2] \in TargetFactions /\ t[3] \in Nat
<1>1. PICK k \in Nat : Len(Targets) = k /\ DOMAIN Targets = 1 .. k
  BY LifeAssumption, LenProperties
<1>2. Wanted \in SUBSET Nat
  BY <1>1 DEF Wanted
<1>3. \E x \in Wanted : \A y \in Wanted : x <= y
  BY <1>2, LeastNumber
<1>4. Min(Wanted) \in Wanted
  BY <1>3 DEF Min
<1>5. Min(Wanted) \in DOMAIN Targets
  BY <1>4 DEF Wanted
<1>6. Targets[Min(Wanted)] \in Regions \X TargetFactions \X Nat
  BY <1>1, <1>5, LifeAssumption
<1> QED BY <1>6

(* The newborn: the next m numbers, each with a record of its own. *)
Extends(c, d, n, m) ==
  DOMAIN d.records = 1 .. n + m /\ \A i \in 1 .. n : d.records[i] = c.records[i]

LEMMA BornAre ==
  ASSUME NEW n, LivesOk(people, chronicle, n), NEW m \in Nat,
         NEW rec, LifeRecord(rec), rec.dead = FALSE,
         NEW born, PersonOk(born), rec.seen = born.reg,
         NEW q, q = [k \in 1 .. m |-> [id |-> n + k, rec |-> rec]],
         NEW d, d = FoldLeft(Insert, chronicle, q),
         NEW qs, qs = [i \in DOMAIN people \cup (n + 1) .. (n + m) |-> IF i \in (n + 1) .. (n + m) THEN born ELSE people[i]]
  PROVE  LivesOk(qs, d, n + m) /\ Extends(chronicle, d, n, m)
<1>0. n \in Nat /\ n + m \in Nat /\ DOMAIN people \subseteq 1 .. n
  BY NumbersAre
<1>1. PICK E : E = {[id |-> n + k, rec |-> rec] : k \in 1 .. m}
  OBVIOUS
<1>2. q \in Seq(E) /\ Len(q) = m /\ \A k \in 1 .. m : q[k].id = n + k /\ q[k].rec = rec
  BY <1>1
<1>3. PICK c : c = chronicle /\ ChronicleOk(c, n)
  BY DEF LivesOk
<1>4. /\ ChronicleOk(d, n + m)
      /\ \A i \in 1 .. n : d.records[i] = c.records[i]
      /\ \A k \in 1 .. m : d.records[n + k] = q[k].rec
  <2>1. \A k \in 1 .. m : q[k].id = n + k /\ LifeRecord(q[k].rec) /\ q[k].rec.dead = FALSE
    BY <1>2
  <2>2. d = FoldLeft(Insert, c, q)
    BY <1>3
  <2>3. ChronicleOk(d, n + m) /\ AllBornIn(c, d, n, q, m)
    BY <1>2, <1>3, <2>1, <2>2, InsertsAre
  <2> QED BY <2>3 DEF AllBornIn
<1>5. DOMAIN d.records = 1 .. n + m /\ DOMAIN c.records = 1 .. n
  BY <1>3, <1>4 DEF ChronicleOk
<1>6. \A i \in (n + 1) .. (n + m) : d.records[i] = rec
  <2> SUFFICES ASSUME NEW i \in (n + 1) .. (n + m) PROVE d.records[i] = rec
    OBVIOUS
  <2>1. PICK k \in 1 .. m : i = n + k
    <3>1. i - n \in 1 .. m /\ i = n + (i - n)
      BY <1>0
    <3> QED BY <3>1
  <2> QED BY <1>2, <1>4, <2>1
<1>7. \A i \in 1 .. n + m : i \in 1 .. n \/ i \in (n + 1) .. (n + m)
  BY <1>0
<1>8. 1 .. n \subseteq 1 .. n + m /\ (n + 1) .. (n + m) \subseteq 1 .. n + m /\ 1 .. n \cap (n + 1) .. (n + m) = {}
  BY <1>0
<1>9. DOMAIN people = {i \in 1 .. n : ~c.records[i].dead}
  BY <1>3, <1>5 DEF LivesOk, AliveIn
<1>10. DOMAIN qs = AliveIn(d.records)
  <2>1. \A i \in 1 .. n + m : ~d.records[i].dead <=> i \in DOMAIN people \/ i \in (n + 1) .. (n + m)
    BY <1>4, <1>6, <1>7, <1>8, <1>9
  <2> QED BY <1>5, <1>8, <1>9, <2>1 DEF AliveIn
<1>11. ASSUME NEW i \in DOMAIN qs PROVE PersonOk(qs[i]) /\ d.records[i].seen = qs[i].reg
  <2>1. CASE i \in (n + 1) .. (n + m)
    BY <1>6, <2>1
  <2>2. CASE i \notin (n + 1) .. (n + m)
    <3>1. i \in DOMAIN people /\ i \in 1 .. n /\ qs[i] = people[i]
      BY <1>0, <2>2
    <3> QED BY <1>3, <1>4, <3>1 DEF LivesOk
  <2> QED BY <2>1, <2>2
<1> QED BY <1>3, <1>4, <1>5, <1>10, <1>11 DEF LivesOk, Extends

LEMMA SpawnOneSquadStep ==
  ASSUME PeopleInv, SpawnOneSquad
  PROVE  PeopleInv' /\ PassageKeepsEach
<1>1. PICK place \in SpawnPlaces(Targets[Min(Wanted)][2], Targets[Min(Wanted)][1]), span \in Spans, size \in SquadSizes :
        LET t == Targets[Min(Wanted)]
            needed == t[3] - LiveCount(t[1], t[2])
            count == Min({size, needed, MaxPeople - Minted})
            ids == (Minted + 1)..(Minted + count)
            born == Person(t[2], t[1], Min(ids), place, tick + span)
            rec == [fac |-> t[2], dead |-> FALSE, cause |-> "none", seen |-> t[1]]
        IN /\ people' = [i \in DOMAIN people \cup ids |-> IF i \in ids THEN born ELSE people[i]]
           /\ chronicle' = FoldLeft(Insert, chronicle, [k \in 1..count |-> [id |-> Minted + k, rec |-> rec]])
  BY DEF SpawnOneSquad
<1>2. PICK n : LivesOk(people, chronicle, n)
  BY DEF PeopleInv
<1>3. n \in Nat /\ Minted = n /\ DOMAIN people \subseteq 1 .. n
  BY <1>2, NumbersAre
<1>4. PICK t : t = Targets[Min(Wanted)]
  OBVIOUS
<1>5. t[1] \in Regions /\ t[2] \in TargetFactions /\ t[3] \in Nat
  BY <1>4, TargetIs DEF SpawnOneSquad, Full
<1>6. PICK count : count = Min({size, t[3] - LiveCount(t[1], t[2]), MaxPeople - n})
  OBVIOUS
<1>7. count \in Int
  <2>1. PICK a, b, c \in Int : a = size /\ b = t[3] - LiveCount(t[1], t[2]) /\ c = MaxPeople - n
    <3>1. LiveCount(t[1], t[2]) \in Nat
      BY <1>2, LiveCountIs
    <3> QED BY <1>1, <1>3, <1>5, <3>1, LifeAssumption
  <2> QED BY <1>6, <2>1, MinOfThree
<1>8. PICK m \in Nat : 1 .. count = 1 .. m /\ (n + 1) .. (n + count) = (n + 1) .. (n + m)
  <2>1. CASE count \in Nat
    BY <2>1
  <2>2. CASE count \notin Nat
    <3>1. 1 .. count = 1 .. 0 /\ (n + 1) .. (n + count) = (n + 1) .. (n + 0)
      BY <1>3, <1>7, <2>2
    <3> QED BY <3>1
  <2> QED BY <2>1, <2>2
<1>9. PICK rec : rec = [fac |-> t[2], dead |-> FALSE, cause |-> "none", seen |-> t[1]]
  OBVIOUS
<1>10. LifeRecord(rec) /\ rec.dead = FALSE /\ rec.seen = t[1]
  BY <1>5, <1>9 DEF LifeRecord
<1>11. PICK born : born = Person(t[2], t[1], Min((n + 1) .. (n + count)), place, tick + span)
  OBVIOUS
<1>12. PersonOk(born) /\ born.reg = t[1]
  BY <1>11 DEF Person, PersonOk, MaxHp
<1>13. PICK ps, qs, c, d : ps = people /\ qs = people' /\ c = chronicle /\ d = chronicle'
  OBVIOUS
<1>14. PICK q : q = [k \in 1 .. m |-> [id |-> n + k, rec |-> rec]]
  OBVIOUS
<1>15. d = FoldLeft(Insert, chronicle, q)
  BY <1>1, <1>3, <1>4, <1>6, <1>8, <1>9, <1>13, <1>14
<1>16. qs = [i \in DOMAIN people \cup (n + 1) .. (n + m) |-> IF i \in (n + 1) .. (n + m) THEN born ELSE people[i]]
  BY <1>1, <1>3, <1>4, <1>6, <1>8, <1>11, <1>13
<1>17. /\ LivesOk(qs, d, n + m)
       /\ \A i \in 1 .. n : d.records[i] = chronicle.records[i]
       /\ DOMAIN d.records = 1 .. n + m
  <2>1. rec.seen = born.reg
    BY <1>10, <1>12
  <2>2. LivesOk(qs, d, n + m) /\ Extends(chronicle, d, n, m)
    BY <1>2, <1>10, <1>12, <1>14, <1>15, <1>16, <2>1, BornAre
  <2> QED BY <2>2 DEF Extends
<1>18. UNCHANGED <<tick, told, pda, active>>
  BY DEF SpawnOneSquad
<1>19. ToldOk(told, d)
  <2>1. ToldOk(told, chronicle) /\ DOMAIN chronicle.records = 1 .. n
    BY <1>2 DEF PeopleInv, LivesOk, ChronicleOk
  <2>2. 1 .. n \subseteq 1 .. n + m
    BY <1>3
  <2>3. \A i \in ToSet(told) : i \in DOMAIN d.records /\ d.records[i].dead
    BY <1>17, <2>1, <2>2 DEF ToldOk
  <2> QED BY <2>1, <2>3 DEF ToldOk
<1>20. PeopleInv'
  BY <1>13, <1>17, <1>18, <1>19 DEF PeopleInv
<1>21. \A i \in DOMAIN people : qs[i] = people[i]
  <2>1. \A i \in 1 .. n : i \notin (n + 1) .. (n + m)
    BY <1>3
  <2> QED BY <1>3, <1>16, <2>1
<1>22. \A i \in DOMAIN people \cap DOMAIN people' : StaysWho(people[i], people'[i])
  BY <1>13, <1>21, PersonIs, Stays
<1>23. PassageKeepsEach
  BY <1>18, <1>22, SameEach
<1> QED BY <1>20, <1>23

-----------------------------------------------------------------------------
(* Combat of the offline tier.                                             *)

Fi == INSTANCE SequenceLemmas WITH Op <- Fight

(* In the middle of the tick's fights: who has fallen has fallen once and  *)
(* not of age, and nobody's health is better than before.                  *)
FightOk(w) ==
  /\ {"class", "foe", "dead", "fallen", "shots"} \subseteq DOMAIN w
  /\ w.class \in [Processed -> Classes]
  /\ w.fallen \in Seq(Processed) /\ IsInjective(w.fallen)
  /\ w.dead = Aged \cup ToSet(w.fallen) /\ Aged \cap ToSet(w.fallen) = {}
  /\ \A i \in Processed : NoBetter(people[i].class, w.class[i])

(* One more, who was not there, keeps a sequence without repetitions. *)
LEMMA InjectiveAppend ==
  ASSUME NEW S, NEW q \in Seq(S), IsInjective(q), NEW e \in S, e \notin ToSet(q)
  PROVE  IsInjective(Append(q, e))
<1>1. PICK n \in Nat : Len(q) = n /\ DOMAIN q = 1 .. n
  BY LenProperties
<1>2. PICK r : r = Append(q, e)
  OBVIOUS
<1>3. DOMAIN r = 1 .. n + 1 /\ (\A i \in 1 .. n : r[i] = q[i]) /\ r[n + 1] = e
  BY <1>1, <1>2, AppendProperties
<1>4. \A i \in 1 .. n : q[i] # e
  BY <1>1 DEF ToSet
<1>5. ASSUME NEW i \in 1 .. n + 1, NEW j \in 1 .. n + 1, r[i] = r[j] PROVE i = j
  <2>1. \A k \in 1 .. n + 1 : k \in 1 .. n \/ k = n + 1
    BY <1>1
  <2>2. CASE i \in 1 .. n /\ j \in 1 .. n
    BY <1>1, <1>3, <1>5, <2>2 DEF IsInjective
  <2>3. CASE i = n + 1 /\ j \in 1 .. n
    BY <1>3, <1>4, <1>5, <2>3
  <2>4. CASE j = n + 1 /\ i \in 1 .. n
    BY <1>3, <1>4, <1>5, <2>4
  <2> QED BY <2>1, <2>2, <2>3, <2>4
<1> QED BY <1>2, <1>3, <1>5 DEF IsInjective

LEMMA HitIs ==
  ASSUME NEW w, FightOk(w), NEW i \in Processed, i \notin w.dead, NEW v, v = HitOffline(w, i)
  PROVE  FightOk(v) /\ v.dead \subseteq w.dead \cup {i}
<1>1. w.class[i] \in Classes /\ NoBetter(people[i].class, w.class[i])
  BY DEF FightOk
<1>2. CASE w.class[i] = "critical"
  <2>1. DegradeHealthClass[w.class[i]] = "dead"
    BY <1>2 DEF DegradeHealthClass
  <2>2. v = [w EXCEPT !.dead = @ \cup {i}, !.fallen = Append(@, i)]
    BY <2>1 DEF HitOffline
  <2>3. v.dead = w.dead \cup {i} /\ v.fallen = Append(w.fallen, i) /\ v.class = w.class /\ DOMAIN v = DOMAIN w
    BY <2>2 DEF FightOk
  <2>4. w.fallen \in Seq(Processed) /\ IsInjective(w.fallen) /\ i \notin ToSet(w.fallen) /\ i \notin Aged
    BY DEF FightOk
  <2>5. IsInjective(Append(w.fallen, i)) /\ Append(w.fallen, i) \in Seq(Processed)
        /\ ToSet(Append(w.fallen, i)) = ToSet(w.fallen) \cup {i}
    BY <2>4, InjectiveAppend, AppendProperties, ToSetOfAppend
  <2> QED BY <2>3, <2>4, <2>5 DEF FightOk
<1>3. CASE w.class[i] # "critical"
  <2>1. PICK c : c = DegradeHealthClass[w.class[i]] /\ c # "dead" /\ c \in Classes /\ NoBetter(people[i].class, c)
    BY <1>1, <1>3 DEF DegradeHealthClass, Classes, NoBetter
  <2>2. v = [w EXCEPT !.class[i] = c]
    BY <2>1 DEF HitOffline
  <2>3. v.dead = w.dead /\ v.fallen = w.fallen /\ v.class = [w.class EXCEPT ![i] = c] /\ DOMAIN v = DOMAIN w
    BY <2>2 DEF FightOk
  <2>4. v.class \in [Processed -> Classes] /\ \A j \in Processed : v.class[j] = IF j = i THEN c ELSE w.class[j]
    BY <2>1, <2>3 DEF FightOk
  <2> QED BY <2>1, <2>3, <2>4 DEF FightOk
<1> QED BY <1>2, <1>3

(* Two people who meet. *)
Bouts(hits) == {[pair |-> p, hits |-> hits[p]] : p \in Pairs}

LEMMA FightIs ==
  ASSUME NEW w, FightOk(w), NEW hits, NEW m \in Bouts(hits), DOMAIN people \subseteq Nat
  PROVE  FightOk(Fight(w, m))
<1>1. PICK p \in Pairs : m.pair = p
  BY DEF Bouts
<1>2. PICK a, b : a = p[1] /\ b = p[2]
  OBVIOUS
<1>3. a \in Processed /\ b \in Processed /\ a < b
  BY <1>1, <1>2 DEF Pairs
<1>4. a \in Nat /\ b \in Nat /\ a # b
  <2>1. a \in Nat /\ b \in Nat
    BY <1>3 DEF Processed, Offline
  <2> QED BY <1>3, <2>1
<1>5. CASE m.hits = {NoFoe} \/ IsDead(w, m.pair[1]) \/ IsDead(w, m.pair[2])
  <2>1. Fight(w, m) = w
    BY <1>5 DEF Fight
  <2> QED BY <2>1
<1>6. CASE ~(m.hits = {NoFoe} \/ IsDead(w, m.pair[1]) \/ IsDead(w, m.pair[2]))
  <2>1. a \notin w.dead /\ b \notin w.dead
    BY <1>1, <1>2, <1>6 DEF IsDead
  <2>2. PICK met : met = [w EXCEPT !.foe[a] = b, !.foe[b] = a, !.shots = TRUE]
    OBVIOUS
  <2>3. DOMAIN met = DOMAIN w /\ met.class = w.class /\ met.dead = w.dead /\ met.fallen = w.fallen
    BY <2>2 DEF FightOk
  <2>4. FightOk(met)
    BY <2>3 DEF FightOk
  <2>5. PICK one : one = IF a \in m.hits THEN HitOffline(met, b) ELSE met
    OBVIOUS
  <2>6. FightOk(one) /\ one.dead \subseteq w.dead \cup {b}
    BY <1>3, <2>1, <2>3, <2>4, <2>5, HitIs
  <2>7. a \notin one.dead
    BY <1>4, <2>1, <2>6
  <2>8. Fight(w, m) = IF b \in m.hits THEN HitOffline(one, a) ELSE one
    BY <1>1, <1>2, <1>6, <2>2, <2>5 DEF Fight, Exchange
  <2> QED BY <1>3, <2>6, <2>7, <2>8, HitIs
<1> QED BY <1>5, <1>6

LEMMA MeetingsAre ==
  ASSUME NEW n \in Nat, Minted = n, NEW hits, DOMAIN hits = Pairs
  PROVE  Meetings(hits) \in Seq(Bouts(hits))
<1> DEFINE Bout(i, j) == IF <<i, j>> \in DOMAIN hits THEN <<[pair |-> <<i, j>>, hits |-> hits[<<i, j>>]]>> ELSE <<>>
           Row(i) == [j \in 1 .. n |-> Bout(i, j)]
           All == [i \in 1 .. n |-> FlattenSeq(Row(i))]
<1>1. ASSUME NEW i \in 1 .. n PROVE FlattenSeq(Row(i)) \in Seq(Bouts(hits))
  <2>1. ASSUME NEW j \in 1 .. n PROVE Bout(i, j) \in Seq(Bouts(hits))
    <3>1. CASE <<i, j>> \in DOMAIN hits
      <4>1. PICK b : b = [pair |-> <<i, j>>, hits |-> hits[<<i, j>>]]
        OBVIOUS
      <4>2. b \in Bouts(hits)
        BY <3>1, <4>1 DEF Bouts
      <4>3. <<b>> \in Seq(Bouts(hits))
        BY <4>2
      <4> QED BY <3>1, <4>1, <4>3
    <3>2. CASE <<i, j>> \notin DOMAIN hits
      BY <3>2, EmptySeq
    <3> QED BY <3>1, <3>2
  <2> HIDE DEF Bout
  <2>2. Row(i) \in Seq(Seq(Bouts(hits)))
    BY <2>1
  <2> HIDE DEF Row
  <2> QED BY <2>2, FlattenType
<1>2. Meetings(hits) = FlattenSeq(All)
  BY DEF Meetings
<1> HIDE DEF Row
<1>3. All \in Seq(Seq(Bouts(hits)))
  BY <1>1
<1> HIDE DEF All
<1> QED BY <1>2, <1>3, FlattenType

LEMMA FoughtIs ==
  ASSUME NEW n \in Nat, Minted = n, DOMAIN people \subseteq Nat, NEW hits, DOMAIN hits = Pairs,
         \A i \in Processed : people[i].class \in Classes
  PROVE  FightOk(Fought(hits))
<1> DEFINE S == Bouts(hits)
           P == {q \in Seq(S) : FightOk(Fi!Fold(Peace, q))}
<1>1. <<>> \in P
  <2>1. FightOk(Peace)
    <3>1. <<>> \in Seq(Processed) /\ ToSet(<<>>) = {} /\ IsInjective(<<>>)
      BY EmptySeq DEF ToSet, IsInjective
    <3> QED BY <3>1 DEF FightOk, Peace, NoBetter
  <2> QED BY <2>1, Fi!FoldEmpty, EmptySeq
<1>2. ASSUME NEW q \in P, NEW m \in S PROVE Append(q, m) \in P
  <2>1. PICK w : w = Fi!Fold(Peace, q) /\ FightOk(w)
    OBVIOUS
  <2>2. Fi!Fold(Peace, Append(q, m)) = Fight(w, m)
    BY <2>1, Fi!FoldAppend
  <2>3. FightOk(Fight(w, m))
    BY <2>1, FightIs
  <2> QED BY <2>2, <2>3, AppendProperties
<1>3. P = Seq(S)
  <2> HIDE DEF P, S
  <2>1. P \in SUBSET Seq(S)
    BY DEF P
  <2> QED BY <1>1, <1>2, <2>1, SeqInduction
<1>4. Meetings(hits) \in P
  BY <1>3, MeetingsAre
<1>5. Fought(hits) = Fi!Fold(Peace, Meetings(hits))
  BY DEF Fought, Fi!Fold, Fi!FoldLeft, Fi!MapThenFoldSet, Fi!Max, FoldLeft, MapThenFoldSet, Max
<1> QED BY <1>4, <1>5

Pu == INSTANCE SequenceLemmas WITH Op <- Push

(* A set of numbers up to n has a largest one. *)
LEMMA LargestUpTo ==
  ASSUME NEW n \in Nat, NEW S \in SUBSET (1 .. n), S # {}
  PROVE  \E k \in S : \A j \in S : j <= k
<1> DEFINE V == {x \in Nat : \E k \in S : x = n - k}
<1>1. V # {}
  <2>1. PICK k \in S : TRUE
    OBVIOUS
  <2>2. n - k \in V
    BY <2>1
  <2> QED BY <2>2
<1>2. PICK x \in V : \A y \in V : x <= y
  <2> HIDE DEF V
  <2>1. V \in SUBSET Nat
    BY DEF V
  <2> QED BY <1>1, <2>1, LeastNumber
<1>3. PICK k \in S : x = n - k
  OBVIOUS
<1>4. ASSUME NEW j \in S PROVE j <= k
  <2>1. n - j \in V /\ j \in Int /\ k \in Int
    BY <1>4
  <2>2. n - k <= n - j
    BY <1>2, <1>3, <2>1
  <2> QED BY <2>1, <2>2
<1> QED BY <1>4

LEMMA PushIs ==
  ASSUME tick \in Nat, NEW log, EntriesOk(log.entries, tick), NEW what,
         what = "gunfire" => ~Cooling(log, ProcessedRegion), NEW l, l = Push(log, what)
  PROVE  EntriesOk(l.entries, tick)
<1>1. PICK es, e, r : /\ es = log.entries
                      /\ e = [seq |-> log.next, tick |-> tick, what |-> what, reg |-> ProcessedRegion]
                      /\ r = Append(es, e)
  OBVIOUS
<1>2. l.entries = r
  BY <1>1 DEF Push
<1>3. PICK S : es \in Seq(S)
  BY <1>1 DEF EntriesOk
<1>4. PICK n \in Nat : Len(es) = n /\ DOMAIN es = 1 .. n
  BY <1>3, LenProperties
<1>5. es \in Seq(S \cup {e})
  BY <1>3
<1>6. r \in Seq(S \cup {e}) /\ DOMAIN r = 1 .. n + 1 /\ (\A i \in 1 .. n : r[i] = es[i]) /\ r[n + 1] = e
  BY <1>1, <1>4, <1>5, AppendProperties
<1>7. e.tick = tick /\ e.what = what /\ e.reg = ProcessedRegion
  BY <1>1
<1>8. \A k \in 1 .. n : es[k].tick \in Nat /\ es[k].tick <= tick
  BY <1>1, <1>4 DEF EntriesOk
<1>9. \A i, j \in 1 .. n : i < j => es[i].tick <= es[j].tick
  BY <1>1, <1>4 DEF EntriesOk
<1>10. \A k \in 1 .. n + 1 : k \in 1 .. n \/ k = n + 1
  OBVIOUS
<1>11. \A k \in 1 .. n + 1 : r[k].tick \in Nat /\ r[k].tick <= tick
  BY <1>6, <1>7, <1>8, <1>10
<1>12. ASSUME NEW i \in 1 .. n + 1, NEW j \in 1 .. n + 1, i < j PROVE r[i].tick <= r[j].tick
  <2>1. i \in 1 .. n
    BY <1>12
  <2>2. CASE j = n + 1
    BY <1>6, <1>7, <1>8, <2>1, <2>2
  <2>3. CASE j # n + 1
    <3>1. j \in 1 .. n
      BY <2>3
    <3> QED BY <1>6, <1>9, <1>12, <2>1, <3>1
  <2> QED BY <2>2, <2>3
<1>13. ASSUME NEW i \in 1 .. n + 1, NEW j \in 1 .. n + 1, i < j, r[i].what = "gunfire", r[j].what = "gunfire", r[i].reg = r[j].reg
       PROVE  r[j].tick - r[i].tick >= LifeCfg.cooldown
  <2>1. i \in 1 .. n
    BY <1>13
  <2>2. CASE j # n + 1
    <3>1. j \in 1 .. n
      BY <2>2
    <3>2. es[i].what = "gunfire" /\ es[j].what = "gunfire" /\ es[i].reg = es[j].reg
      BY <1>6, <1>13, <2>1, <3>1
    <3>3. es[j].tick - es[i].tick >= LifeCfg.cooldown
      BY <1>1, <1>4, <1>13, <2>1, <3>1, <3>2 DEF EntriesOk, Spaced
    <3> QED BY <1>6, <2>1, <3>1, <3>3
  <2>3. CASE j = n + 1
    <3>1. what = "gunfire" /\ ~Cooling(log, ProcessedRegion)
      BY <1>6, <1>7, <1>13, <2>3
    <3>2. PICK Sh : Sh = Shots(es, ProcessedRegion)
      OBVIOUS
    <3>3. i \in Sh /\ Sh \in SUBSET (1 .. n)
      BY <1>4, <1>6, <1>7, <1>13, <2>1, <2>3, <3>2 DEF Shots
    <3>4. PICK k \in Sh : \A x \in Sh : x <= k
      BY <3>3, LargestUpTo
    <3>5. ~(TicksPassed(es[k].tick) < LifeCfg.cooldown)
      BY <1>1, <3>1, <3>2, <3>4 DEF Cooling
    <3>6. PICK t, u \in Nat : t = es[i].tick /\ u = es[k].tick
      BY <1>8, <3>3
    <3>7. i <= k /\ k \in 1 .. n /\ u <= tick
      BY <1>8, <3>3, <3>4, <3>6
    <3>8. t <= u
      <4>1. CASE i = k
        BY <3>6, <4>1
      <4>2. CASE i # k
        <5>1. i < k
          BY <2>1, <3>7, <4>2
        <5> QED BY <1>9, <2>1, <3>6, <3>7, <5>1
      <4> QED BY <4>1, <4>2
    <3>9. tick - u >= LifeCfg.cooldown
      BY <3>5, <3>6, <3>7, LifeAssumption DEF TicksPassed
    <3>10. r[j].tick = tick /\ r[i].tick = t
      BY <1>6, <1>7, <2>1, <2>3, <3>6
    <3>11. PICK c \in Nat : c = LifeCfg.cooldown
      BY LifeAssumption
    <3>12. tick - t >= c
      BY <3>6, <3>8, <3>9, <3>11
    <3> QED BY <3>10, <3>11, <3>12
  <2> QED BY <2>2, <2>3
<1>14. Spaced(r)
  BY <1>6, <1>13 DEF Spaced
<1> QED BY <1>2, <1>6, <1>11, <1>12, <1>14 DEF EntriesOk

(* Reports that are no gunfire may be any number. *)
LEMMA PushesAre ==
  ASSUME tick \in Nat, NEW log, EntriesOk(log.entries, tick), NEW what, what # "gunfire",
         NEW q \in Seq({what}), NEW l, l = FoldLeft(Push, log, q)
  PROVE  EntriesOk(l.entries, tick)
<1> DEFINE P == {p \in Seq({what}) : EntriesOk(Pu!Fold(log, p).entries, tick)}
<1>1. <<>> \in P
  BY Pu!FoldEmpty, EmptySeq
<1>2. ASSUME NEW p \in P, NEW e \in {what} PROVE Append(p, e) \in P
  <2>1. PICK k, m : k = Pu!Fold(log, p) /\ m = Push(k, e) /\ EntriesOk(k.entries, tick)
    OBVIOUS
  <2>2. Pu!Fold(log, Append(p, e)) = m
    BY <2>1, Pu!FoldAppend
  <2>3. EntriesOk(m.entries, tick)
    BY <2>1, PushIs
  <2> QED BY <2>2, <2>3, AppendProperties
<1>3. P = Seq({what})
  <2> HIDE DEF P
  <2>1. P \in SUBSET Seq({what})
    BY DEF P
  <2> QED BY <1>1, <1>2, <2>1, SeqInduction
<1>4. EntriesOk(Pu!Fold(log, q).entries, tick)
  BY <1>3
<1> QED BY <1>4 DEF Pu!Fold, Pu!FoldLeft, Pu!MapThenFoldSet, Pu!Max, FoldLeft, MapThenFoldSet, Max

LEMMA EvictIs ==
  ASSUME tick \in Nat, NEW log, EntriesOk(log.entries, tick), "entries" \in DOMAIN log
  PROVE  EntriesOk(EvictOld(log).entries, tick)
<1>1. PICK es, fresh : es = log.entries /\ fresh = {k \in DOMAIN es : TicksPassed(es[k].tick) <= LifeCfg.age}
  OBVIOUS
<1>2. PICK r : r = IF fresh = {} THEN <<>> ELSE SubSeq(es, Min(fresh), Len(es))
  OBVIOUS
<1>3. EvictOld(log).entries = r
  BY <1>1, <1>2 DEF EvictOld
<1>4. CASE fresh = {}
  <2>1. r = <<>> /\ r \in Seq({}) /\ DOMAIN r = {}
    BY <1>2, <1>4, EmptySeq
  <2> QED BY <1>3, <2>1 DEF EntriesOk, Spaced
<1>5. CASE fresh # {}
  <2>1. PICK S : es \in Seq(S)
    BY <1>1 DEF EntriesOk
  <2>2. PICK n \in Nat : Len(es) = n /\ DOMAIN es = 1 .. n
    BY <2>1, LenProperties
  <2>3. PICK m : m = Min(fresh) /\ m \in 1 .. n
    <3>1. fresh \in SUBSET Nat /\ fresh \in SUBSET (1 .. n)
      BY <1>1, <2>2
    <3>2. \E x \in fresh : \A y \in fresh : x <= y
      BY <1>5, <3>1, LeastNumber
    <3>3. Min(fresh) \in fresh
      BY <3>2 DEF Min
    <3> QED BY <3>1, <3>3
  <2>4. /\ r \in Seq(S) /\ Len(r) = n - m + 1
        /\ \A i \in 1 .. n - m + 1 : r[i] = es[m + i - 1]
    <3>1. r = SubSeq(es, m, n)
      BY <1>2, <1>5, <2>2, <2>3
    <3>2. \A i \in m .. n : es[i] \in S
      BY <2>1, <2>2, <2>3
    <3>3. m \in Int /\ n \in Int /\ m <= n
      BY <2>2, <2>3
    <3>4. /\ SubSeq(es, m, n) \in Seq(S)
          /\ Len(SubSeq(es, m, n)) = IF m <= n THEN n - m + 1 ELSE 0
          /\ \A i \in 1 .. n - m + 1 : SubSeq(es, m, n)[i] = es[m + i - 1]
      BY <3>2, <3>3, SubSeqProperties
    <3> QED BY <3>1, <3>3, <3>4
  <2>5. DOMAIN r = 1 .. n - m + 1
    BY <2>2, <2>3, <2>4
  <2>6. \A i \in 1 .. n - m + 1 : m + i - 1 \in 1 .. n
    BY <2>2, <2>3
  <2>7. \A k \in 1 .. n - m + 1 : r[k].tick \in Nat /\ r[k].tick <= tick
    <3>1. \A k \in 1 .. n : es[k].tick \in Nat /\ es[k].tick <= tick
      BY <1>1, <2>2 DEF EntriesOk
    <3> QED BY <2>4, <2>6, <3>1
  <2>8. ASSUME NEW i \in 1 .. n - m + 1, NEW j \in 1 .. n - m + 1, i < j PROVE m + i - 1 < m + j - 1
    BY <2>2, <2>3, <2>8
  <2>9. ASSUME NEW i \in 1 .. n - m + 1, NEW j \in 1 .. n - m + 1, i < j PROVE r[i].tick <= r[j].tick
    <3>1. PICK x, y \in 1 .. n : x = m + i - 1 /\ y = m + j - 1
      BY <2>6
    <3>2. x < y /\ r[i] = es[x] /\ r[j] = es[y]
      BY <2>4, <2>8, <2>9, <3>1
    <3>3. es[x].tick <= es[y].tick
      BY <1>1, <2>2, <3>2 DEF EntriesOk
    <3> QED BY <3>2, <3>3
  <2>10. ASSUME NEW i \in 1 .. n - m + 1, NEW j \in 1 .. n - m + 1, i < j,
                r[i].what = "gunfire", r[j].what = "gunfire", r[i].reg = r[j].reg
         PROVE  r[j].tick - r[i].tick >= LifeCfg.cooldown
    <3>1. PICK x, y \in 1 .. n : x = m + i - 1 /\ y = m + j - 1
      BY <2>6
    <3>2. x < y /\ r[i] = es[x] /\ r[j] = es[y]
      BY <2>4, <2>8, <2>10, <3>1
    <3>3. es[y].tick - es[x].tick >= LifeCfg.cooldown
      BY <1>1, <2>2, <2>10, <3>2 DEF EntriesOk, Spaced
    <3> QED BY <3>2, <3>3
  <2> QED BY <1>3, <2>4, <2>5, <2>7, <2>9, <2>10 DEF EntriesOk, Spaced
<1> QED BY <1>4, <1>5

LEMMA FoldedLog ==
  ASSUME NEW log, "entries" \in DOMAIN log, NEW S, NEW q \in Seq(S)
  PROVE  "entries" \in DOMAIN FoldLeft(Push, log, q)
<1> DEFINE P == {p \in Seq(S) : "entries" \in DOMAIN Pu!Fold(log, p)}
<1>1. <<>> \in P
  BY Pu!FoldEmpty, EmptySeq
<1>2. ASSUME NEW p \in P, NEW e \in S PROVE Append(p, e) \in P
  <2>1. Pu!Fold(log, Append(p, e)) = Push(Pu!Fold(log, p), e)
    BY Pu!FoldAppend
  <2>2. "entries" \in DOMAIN Push(Pu!Fold(log, p), e)
    BY DEF Push
  <2> QED BY <2>1, <2>2, AppendProperties
<1>3. P = Seq(S)
  <2> HIDE DEF P
  <2>1. P \in SUBSET Seq(S)
    BY DEF P
  <2> QED BY <1>1, <1>2, <2>1, SeqInduction
<1>4. q \in P
  BY <1>3
<1> QED BY <1>4 DEF Pu!Fold, Pu!FoldLeft, Pu!MapThenFoldSet, Pu!Max, FoldLeft, MapThenFoldSet, Max

LEMMA ReportedIs ==
  ASSUME tick \in Nat, NEW log, EntriesOk(log.entries, tick), "entries" \in DOMAIN log,
         NEW w, NEW S, w.fallen \in Seq(S)
  PROVE  LET l == ReportedToPda(log, w) IN EntriesOk(l.entries, tick) /\ "entries" \in DOMAIN l
<1>1. PICK q : q = [k \in DOMAIN w.fallen |-> "death"]
  OBVIOUS
<1>2. q \in Seq({"death"})
  BY <1>1, LenProperties
<1>3. PICK deaths : deaths = FoldLeft(Push, log, q)
  OBVIOUS
<1>4. EntriesOk(deaths.entries, tick) /\ "entries" \in DOMAIN deaths
  <2>1. "death" # "gunfire"
    OBVIOUS
  <2> QED BY <1>2, <1>3, <2>1, PushesAre, FoldedLog
<1>5. PICK shots : shots = IF w.shots /\ ~Cooling(deaths, ProcessedRegion) THEN Push(deaths, "gunfire") ELSE deaths
  OBVIOUS
<1>6. EntriesOk(shots.entries, tick) /\ "entries" \in DOMAIN shots
  <2>1. CASE w.shots /\ ~Cooling(deaths, ProcessedRegion)
    <3>1. shots = Push(deaths, "gunfire")
      BY <1>5, <2>1
    <3>2. EntriesOk(shots.entries, tick)
      BY <1>4, <2>1, <3>1, PushIs
    <3> QED BY <3>1, <3>2 DEF Push
  <2>2. CASE ~(w.shots /\ ~Cooling(deaths, ProcessedRegion))
    BY <1>4, <1>5, <2>2
  <2> QED BY <2>1, <2>2
<1>7. PICK c \in Nat : c = Cardinality(Flipped(w))
  <2>1. Flipped(w) \in SUBSET DOMAIN Bases
    BY DEF Flipped
  <2> QED BY <2>1, LifeAssumption, FS_Subset, FS_CardinalityType
<1>8. PICK f : f = [k \in 1 .. c |-> "flip"]
  OBVIOUS
<1>9. f \in Seq({"flip"})
  BY <1>7, <1>8
<1>10. PICK l : l = FoldLeft(Push, shots, f)
  OBVIOUS
<1>11. EntriesOk(l.entries, tick) /\ "entries" \in DOMAIN l
  <2>1. "flip" # "gunfire"
    OBVIOUS
  <2> QED BY <1>6, <1>9, <1>10, <2>1, PushesAre, FoldedLog
<1>12. ReportedToPda(log, w) = EvictOld(l)
  BY <1>1, <1>3, <1>5, <1>7, <1>8, <1>10 DEF ReportedToPda
<1>13. EntriesOk(EvictOld(l).entries, tick)
  BY <1>11, EvictIs
<1>14. "entries" \in DOMAIN EvictOld(l)
  BY <1>11 DEF EvictOld
<1> QED BY <1>12, <1>13, <1>14

LEMMA AfterIs ==
  ASSUME NEW p, PersonOk(p), NEW i, NEW w,
         p.mode = "offline" /\ w.class[i] \in Classes /\ NoBetter(p.class, w.class[i])
  PROVE  PersonOk(After(p, i, w)) /\ After(p, i, w).reg = p.reg /\ StaysWho(p, After(p, i, w))
<1>1. PICK q, k, f : q = After(p, i, w) /\ k = w.class[i] /\ f = w.foe[i]
  OBVIOUS
<1>2. \/ q = [p EXCEPT !.foe = f, !.since = tick, !.class = k]
      \/ q = [p EXCEPT !.foe = NoFoe]
      \/ q = p
  BY <1>1 DEF After
<1>3. /\ DOMAIN q = DOMAIN p /\ q.mode = "offline" /\ q.fac = p.fac /\ q.grp = p.grp /\ q.die = p.die /\ q.reg = p.reg
      /\ q.class \in {k, p.class}
  BY <1>2 DEF PersonOk
<1>4. p.class \in Classes /\ NoBetter(p.class, q.class) /\ q.class \in Classes
  BY <1>1, <1>3 DEF PersonOk, NoBetter
<1>5. PersonOk(q)
  BY <1>3, <1>4 DEF PersonOk
<1>6. StaysWho(p, q)
  BY <1>3, <1>4 DEF StaysWho, HealthClass
<1> QED BY <1>1, <1>3, <1>5, <1>6

LEMMA SettleStep ==
  ASSUME PeopleInv, NEW n, LivesOk(people, chronicle, n), NEW w, FightOk(w), Settle(w),
         tick' = tick, active' = active
  PROVE  PeopleInv' /\ PassageKeepsEach
<1>1. n \in Nat /\ Minted = n /\ DOMAIN people \subseteq 1 .. n
  BY NumbersAre
<1>2. Processed \subseteq DOMAIN people /\ \A i \in Processed : people[i].mode # "online"
  BY DEF Processed, Offline, Online
<1>3. Processed \in SUBSET Nat /\ Aged \in SUBSET (1 .. n)
  BY <1>1, <1>2 DEF Aged
<1>4. PICK aged : aged = InOrder(Aged) /\ aged \in Seq(Nat) /\ ToSet(aged) = Aged
  BY <1>1, <1>3, InOrderIs
<1>5. PICK fallen : fallen = w.fallen
  OBVIOUS
<1>6. /\ fallen \in Seq(Processed) /\ fallen \in Seq(Nat) /\ IsInjective(fallen)
      /\ w.dead = Aged \cup ToSet(fallen)
  <2>1. fallen \in Seq(Processed) /\ IsInjective(fallen) /\ w.dead = Aged \cup ToSet(fallen)
    BY <1>5 DEF FightOk
  <2>2. PICK k \in Nat : Len(fallen) = k /\ fallen = [i \in 1 .. k |-> fallen[i]] /\ \A i \in 1 .. k : fallen[i] \in Processed
    BY <2>1, LenProperties
  <2>3. \A i \in 1 .. k : fallen[i] \in Nat
    BY <1>3, <2>2
  <2>4. [i \in 1 .. k |-> fallen[i]] \in Seq(Nat)
    BY <2>3
  <2> QED BY <2>1, <2>2, <2>4
<1>7. PICK c, b, d, ps, qs : /\ c = chronicle /\ b = Buried(c, aged, "age") /\ d = chronicle'
                            /\ ps = people /\ qs = people'
  OBVIOUS
<1>8. d = Buried(b, fallen, "wounds")
  BY <1>4, <1>5, <1>7 DEF Settle
<1>9. LivesOk(ps, c, n) /\ ToldOk(told, c) /\ ChronicleOk(c, n)
  BY <1>7 DEF PeopleInv, LivesOk
<1>10. ChronicleOk(b, n) /\ DiedIn(c, b, n, Aged)
  BY <1>4, <1>7, <1>9, BuriedIs
<1>11. ChronicleOk(d, n) /\ DiedIn(b, d, n, ToSet(fallen))
  BY <1>6, <1>8, <1>10, BuriedIs
<1>12. PICK D : D = w.dead /\ D = Aged \cup ToSet(fallen)
  BY <1>6
<1>13. DiedIn(c, d, n, D)
  BY <1>10, <1>11, <1>12, DiedOn
<1>14. D \subseteq DOMAIN ps
  <2>1. ToSet(fallen) \subseteq Processed
    BY <1>6, ToSetOfSeq
  <2>2. Aged \subseteq Processed
    BY DEF Aged
  <2> QED BY <1>2, <1>7, <1>12, <2>1, <2>2
<1>15. qs = [i \in DOMAIN ps \ D |-> IF i \in Processed THEN After(ps[i], i, w) ELSE ps[i]]
  BY <1>7, <1>12 DEF Settle
<1>16. ASSUME NEW i \in DOMAIN qs
       PROVE  PersonOk(qs[i]) /\ qs[i].reg = ps[i].reg /\ StaysWho(ps[i], qs[i])
  <2>1. PICK p : p = ps[i] /\ PersonOk(p) /\ i \in DOMAIN people
    BY <1>7, <1>15, PersonIs
  <2>2. CASE i \notin Processed
    <3>1. qs[i] = p
      BY <1>15, <2>1, <2>2
    <3> QED BY <2>1, <3>1, Stays
  <2>3. CASE i \in Processed
    <3>1. qs[i] = After(p, i, w)
      BY <1>15, <2>1, <2>3
    <3>2. p.mode = "offline"
      <4>1. p.mode # "online"
        BY <1>2, <1>7, <2>1, <2>3
      <4> QED BY <2>1, <4>1 DEF PersonOk
    <3>3. w.class[i] \in Classes /\ NoBetter(p.class, w.class[i])
      BY <1>7, <2>1, <2>3 DEF FightOk
    <3> QED BY <2>1, <3>1, <3>2, <3>3, AfterIs
  <2> QED BY <2>2, <2>3
<1>17. DOMAIN qs = DOMAIN ps \ D
  BY <1>15
<1>18. LivesOk(qs, d, n)
  BY <1>9, <1>11, <1>13, <1>14, <1>16, <1>17, LivesGoOn
<1>19. ToldOk(told \o fallen, d)
  <2>1. ToSet(fallen) \subseteq D
    BY <1>12
  <2> QED BY <1>6, <1>9, <1>11, <1>13, <1>14, <2>1, ToldMore
<1>20. told' = told \o fallen
  BY <1>5 DEF Settle
<1>21. "entries" \in DOMAIN pda' /\ EntriesOk(pda'.entries, tick)
  <2>1. PICK log : log = pda /\ tick \in Nat /\ EntriesOk(log.entries, tick) /\ "entries" \in DOMAIN log
    BY DEF PeopleInv
  <2>2. w.fallen \in Seq(Nat)
    BY <1>5, <1>6
  <2>3. LET l == ReportedToPda(log, w) IN EntriesOk(l.entries, tick) /\ "entries" \in DOMAIN l
    BY <2>1, <2>2, ReportedIs
  <2>4. pda' = ReportedToPda(log, w)
    BY <2>1 DEF Settle
  <2> QED BY <2>3, <2>4
<1>22. PeopleInv'
  <2>1. tick \in Nat
    BY DEF PeopleInv
  <2> QED BY <1>7, <1>18, <1>19, <1>20, <1>21, <2>1 DEF PeopleInv
<1>23. PassageKeepsEach
  BY <1>7, <1>16, SameEach
<1> QED BY <1>22, <1>23

LEMMA OfflineCombatStep ==
  ASSUME PeopleInv, OfflineCombat
  PROVE  PeopleInv' /\ PassageKeepsEach
<1>1. tick' = tick /\ active' = active
  BY DEF OfflineCombat
<1>2. CASE ~Processing
  <2>1. UNCHANGED <<people, chronicle, told, pda>>
    BY <1>2 DEF OfflineCombat
  <2> QED BY <1>1, <2>1, Still, MovesStep
<1>3. CASE Processing
  <2>1. PICK hits : DOMAIN hits = Pairs /\ Settle(Fought(hits))
    BY <1>3 DEF OfflineCombat
  <2>2. PICK n : LivesOk(people, chronicle, n)
    BY DEF PeopleInv
  <2>3. n \in Nat /\ Minted = n /\ DOMAIN people \subseteq Nat
    BY <2>2, NumbersAre
  <2>4. ASSUME NEW i \in Processed PROVE people[i].class \in Classes
    <3>1. i \in DOMAIN people /\ people[i].mode # "online"
      BY DEF Processed, Offline, Online
    <3>2. PersonOk(people[i])
      BY <3>1, PersonIs
    <3> QED BY <3>1, <3>2 DEF PersonOk
  <2>5. FightOk(Fought(hits))
    BY <2>1, <2>3, <2>4, FoughtIs
  <2>6. PICK w : w = Fought(hits)
    OBVIOUS
  <2> QED BY <1>1, <2>1, <2>2, <2>5, <2>6, SettleStep
<1> QED BY <1>2, <1>3

-----------------------------------------------------------------------------
(* The seeded world.                                                       *)

Fl == INSTANCE SequenceLemmas WITH Op <- Fill

LEMMA SeededIs ==
  Seeded \in Seq(Regions \X TargetFactions \X Nat)
<1>1. PICK T : T = Regions \X TargetFactions \X Nat
  OBVIOUS
<1>2. <<>> \in Seq(T) /\ Targets \in Seq(T)
  BY <1>1, LifeAssumption, EmptySeq
<1>3. ASSUME NEW ps \in Seq(T), NEW t \in T PROVE Fill(ps, t) \in Seq(T)
  <2>1. t[1] \in Regions /\ t[2] \in TargetFactions /\ t[3] \in Nat /\ Len(ps) + 1 \in Nat
    BY <1>1, LenProperties
  <2>2. PICK a : a = <<t[1], t[2], Len(ps) + 1>>
    OBVIOUS
  <2>3. a \in T
    <3>1. <<t[1], t[2], Len(ps) + 1>> \in Regions \X TargetFactions \X Nat
      BY <2>1
    <3> QED BY <1>1, <2>2, <3>1
  <2>4. PICK m \in Nat : m = t[3]
    BY <2>1
  <2>5. [k \in 1 .. m |-> a] \in Seq(T)
    BY <2>3
  <2>6. [k \in 1 .. t[3] |-> <<t[1], t[2], Len(ps) + 1>>] = [k \in 1 .. m |-> a]
    BY <2>2, <2>4
  <2> QED BY <2>5, <2>6, ConcatProperties DEF Fill
<1>4. Fl!Fold(<<>>, Targets) \in Seq(T)
  BY <1>2, <1>3, Fl!FoldType
<1>5. Seeded = Fl!Fold(<<>>, Targets)
  BY DEF Seeded, Fl!Fold, Fl!FoldLeft, Fl!MapThenFoldSet, Fl!Max, FoldLeft, MapThenFoldSet, Max
<1> QED BY <1>1, <1>4, <1>5

LEMMA EmptyChronicle ==
  ASSUME NEW c, c = [records |-> <<>>, summary |-> EmptySummary]
  PROVE  ChronicleOk(c, 0)
<1>1. PICK rs, s : rs = c.records /\ s = c.summary
  OBVIOUS
<1>2. rs = <<>> /\ s = EmptySummary /\ DOMAIN c = {"records", "summary"}
  BY <1>1
<1>3. DOMAIN rs = {} /\ 1 .. 0 = {}
  BY <1>2
<1>4. Cardinality({}) = 0
  BY FS_EmptySet
<1>5. AliveIn(rs) = {} /\ \A f : OfFaction(rs, f) = {}
  BY <1>3 DEF AliveIn, OfFaction
<1>6. \A f \in TargetFactions : Cardinality(OfFaction(rs, f) \cap AliveIn(rs)) = 0
                                /\ Cardinality(OfFaction(rs, f) \ AliveIn(rs)) = 0
  <2>1. \A f \in TargetFactions : OfFaction(rs, f) \cap AliveIn(rs) = {} /\ OfFaction(rs, f) \ AliveIn(rs) = {}
    BY <1>5
  <2> QED BY <1>4, <2>1
<1>7. s = Summary(rs)
  BY <1>2, <1>3, <1>4, <1>5, <1>6 DEF Summary, EmptySummary
<1>8. rs = [i \in 1 .. 0 |-> rs[i]]
  BY <1>2, <1>3
<1> QED BY <1>1, <1>2, <1>3, <1>7, <1>8 DEF ChronicleOk

LEMMA PeopleStart ==
  ASSUME PeopleInit
  PROVE  PeopleInv
<1>1. PICK span \in Spans, place \in [DOMAIN Seeded -> DOMAIN Bases \cup {Road}] :
        people = [i \in DOMAIN Seeded |->
                        ToOffline(Person(Seeded[i][2], Seeded[i][1], Seeded[i][3], place[i], span))]
  BY DEF PeopleInit
<1>2. PICK S : S = Seeded /\ S \in Seq(Regions \X TargetFactions \X Nat)
  BY SeededIs
<1>3. PICK m \in Nat : Len(S) = m /\ DOMAIN S = 1 .. m
  BY <1>2, LenProperties
<1>4. \A i \in 1 .. m : S[i][1] \in Regions /\ S[i][2] \in TargetFactions
  <2> SUFFICES ASSUME NEW i \in 1 .. m PROVE S[i][1] \in Regions /\ S[i][2] \in TargetFactions
    OBVIOUS
  <2>1. S[i] \in Regions \X TargetFactions \X Nat
    BY <1>2, <1>3
  <2> QED BY <2>1
<1>5. PICK c : c = [records |-> <<>>, summary |-> EmptySummary]
  OBVIOUS
<1>6. ChronicleOk(c, 0)
  BY <1>5, EmptyChronicle
<1>7. PICK q : q = [i \in 1 .. m |->
         [id |-> i, rec |-> [fac |-> S[i][2], dead |-> FALSE, cause |-> "none", seen |-> S[i][1]]]]
  OBVIOUS
<1>8. PICK d : d = chronicle
  OBVIOUS
<1>9. d = FoldLeft(Insert, c, q)
  BY <1>2, <1>3, <1>5, <1>7, <1>8 DEF PeopleInit
<1>10. \A k \in 1 .. m : /\ q[k].id = k /\ q[k].rec.dead = FALSE /\ q[k].rec.seen = S[k][1] /\ q[k].rec.fac = S[k][2]
                         /\ LifeRecord(q[k].rec)
  BY <1>4, <1>7 DEF LifeRecord
<1>11. PICK E : E = {q[k] : k \in 1 .. m}
  OBVIOUS
<1>12. q \in Seq(E) /\ Len(q) = m
  <2>1. \A k \in 1 .. m : q[k] \in E
    BY <1>11
  <2>2. q = [k \in 1 .. m |-> q[k]]
    BY <1>7
  <2>3. [k \in 1 .. m |-> q[k]] \in Seq(E) /\ Len([k \in 1 .. m |-> q[k]]) = m
    BY <2>1
  <2> QED BY <2>2, <2>3
<1>13. ChronicleOk(d, 0 + m) /\ AllBornIn(c, d, 0, q, m)
  <2>1. \A k \in 1 .. m : q[k].id = 0 + k /\ LifeRecord(q[k].rec) /\ q[k].rec.dead = FALSE
    BY <1>10
  <2> QED BY <1>6, <1>9, <1>12, <2>1, InsertsAre
<1>14. ChronicleOk(d, m) /\ \A k \in 1 .. m : d.records[k] = q[k].rec
  BY <1>13 DEF AllBornIn
<1>15. PICK ps : ps = people
  OBVIOUS
<1>16. DOMAIN ps = 1 .. m
  BY <1>1, <1>2, <1>3, <1>15
<1>17. DOMAIN ps = AliveIn(d.records)
  <2>1. DOMAIN d.records = 1 .. m
    BY <1>14 DEF ChronicleOk
  <2>2. \A k \in 1 .. m : ~d.records[k].dead
    BY <1>10, <1>14
  <2> QED BY <1>16, <2>1, <2>2 DEF AliveIn
<1>18. ASSUME NEW i \in 1 .. m PROVE PersonOk(ps[i]) /\ d.records[i].seen = ps[i].reg
  <2>1. PICK p : p = Person(S[i][2], S[i][1], S[i][3], place[i], span)
    OBVIOUS
  <2>2. PersonOk(p) /\ p.mode = "online" /\ p.reg = S[i][1]
    BY <2>1 DEF Person, PersonOk, MaxHp
  <2>3. ps[i] = ToOffline(p)
    BY <1>1, <1>2, <1>3, <1>15, <2>1
  <2>4. Crosses(p, ToOffline(p))
    BY <2>2, GoesOffline
  <2>5. PersonOk(ps[i]) /\ ps[i].reg = S[i][1]
    BY <2>2, <2>3, <2>4 DEF Crosses
  <2> QED BY <1>10, <1>14, <2>5
<1>19. LivesOk(ps, d, m)
  BY <1>14, <1>16, <1>17, <1>18 DEF LivesOk
<1>20. told = <<>> /\ tick = 0 /\ pda = [next |-> 1, entries |-> <<>>]
  BY DEF PeopleInit
<1>21. ToldOk(told, d)
  <2>1. <<>> \in Seq(Nat) /\ ToSet(<<>>) = {} /\ IsInjective(<<>>)
    BY EmptySeq DEF ToSet, IsInjective
  <2> QED BY <1>20, <2>1 DEF ToldOk
<1>22. "entries" \in DOMAIN pda /\ EntriesOk(pda.entries, tick)
  <2>1. PICK es : es = pda.entries /\ es = <<>>
    BY <1>20
  <2>2. es \in Seq({}) /\ DOMAIN es = {}
    BY <2>1, EmptySeq
  <2>3. EntriesOk(es, tick)
    BY <2>2 DEF EntriesOk, Spaced
  <2> QED BY <1>20, <2>1, <2>3
<1> QED BY <1>8, <1>15, <1>19, <1>20, <1>21, <1>22 DEF PeopleInv

-----------------------------------------------------------------------------

LEMMA PeopleStep ==
  ASSUME PeopleInv, [PeopleNext]_peopleVars
  PROVE  PeopleInv' /\ (UNCHANGED peopleVars \/ PassageKeepsEach)
<1>1. CASE UNCHANGED peopleVars
  BY <1>1 DEF peopleVars, PeopleInv
<1>2. CASE PeopleNext
  BY <1>2, SetActiveRegionStep, HurtStep, AimsStep, WalksStep, ExploresStep, StartTickStep, NpcDeathCheckStep,
     NpcPortalCrossStep, AgeNpcsStep, SpawnOneSquadStep, SpawnsDoneStep, OfflineMovementStep, OfflineCombatStep
     DEF PeopleNext
<1> QED BY <1>1, <1>2

(* The world and its chronicle agree whoever is born, hurt, crosses a      *)
(* portal, goes offline or online, or dies, of wounds, of age or in a      *)
(* fight nobody watched: the living are those on record as alive, where    *)
(* the record saw them last, the running totals are the true counts, each  *)
(* death is announced once, and gunfire is reported at most once per       *)
(* cooldown and region (npc_death_check, npc_portal_cross, age_npcs,       *)
(* spawn_population, offline_combat, LifeChronicle).                       *)
THEOREM PeopleAlwaysMatchRecords == PeopleSpec => []PeopleMatchRecords
<1>1. PeopleInit => PeopleInv
  BY PeopleStart
<1>2. PeopleInv /\ [PeopleNext]_peopleVars => PeopleInv'
  BY PeopleStep
<1>3. PeopleInv => PeopleMatchRecords
  BY PeopleInvMeans
<1> QED BY <1>1, <1>2, <1>3, PTL DEF PeopleSpec

(* No step changes anyone's faction, squad or hour of death, or puts       *)
(* anyone into a better class of health.  Entering a region loses nobody,  *)
(* keeps everyone's region, place, opponent, time of the last sight of it  *)
(* and class of health, and does not touch those of other regions.  Of     *)
(* damage within a class it says nothing                                   *)
(* (project_online_to_offline, project_offline_to_online, offline_combat). *)
THEOREM PassageAlwaysKeepsPeople == PeopleSpec => PassageKeepsPeople
<1>1. PeopleInit => PeopleInv
  BY PeopleStart
<1>2. PeopleInv /\ [PeopleNext]_peopleVars => PeopleInv' /\ [PassageKeepsEach]_peopleVars
  BY PeopleStep
<1> QED BY <1>1, <1>2, PTL DEF PeopleSpec, PassageKeepsPeople

=============================================================================
