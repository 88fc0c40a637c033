-------------------------------- MODULE Body --------------------------------
(***************************************************************************)
(* Wounds, medicine and survival: the commands of world/wounds.rs,         *)
(* world/drugs.rs, world/survival.rs and world/player.rs, and the systems  *)
(* the player schedule runs on every tick, in its order.  "body" is the    *)
(* running world; "replica" is the last snapshot with the journal records  *)
(* written since applied to it, the arms of apply_delta being those of     *)
(* world/persistence.rs.  The systems write no records: they are pure, and *)
(* a load is to derive again what they did.                                *)
(*                                                                         *)
(* The wounds of a body are a function of their ids, which grow in the     *)
(* order of the Vec; its effects are a set, each with the number of the    *)
(* command that gave it, since two alike may be at work.                   *)
(*                                                                         *)
(* Quantities are exact integers in the unit that makes the code's rates   *)
(* whole at 50 ms a tick: hit points in 1/4000, stamina in 1/64, tolerance *)
(* in 1/240, meals in 1/2880, contamination in 1/2000, pain in 1/4.        *)
(***************************************************************************)
EXTENDS Integers, Sequences, FiniteSets, SequencesExt, FiniteSetsExt

CONSTANTS
    Players, Npcs,   \* who can be hurt
    Endurance,       \* the endurance of an NPC, 0..100
    Med,             \* the timings of MedConfig: [bandaged, stitched, infect, clear, warn, severe]
    Laden,           \* whether the pockets are over the weight cap
    SnapshotInterval,
    Menus,           \* bound: the sets of commands a behaviour draws from
    MaxCommands,     \* bound: commands of a behaviour
    MaxBodyTicks          \* bound: ticks of a behaviour

VARIABLES
    clock,           \* SimClock::tick
    body,            \* who |-> the components of the entity
    replica,         \* who |-> the components a load would build
    menu,            \* the commands of this behaviour
    calls            \* how many were given

bodyVars == <<clock, body, replica, menu, calls>>

Patients == Players \cup Npcs
Parts == {"head", "torso", "arm"}
MeterNames == {"hunger", "thirst", "fatigue"}

Hp == 4000
FullHp == 100 * Hp
FullMeal == 100 * 2880
FullRad == 100 * 2000
FullStamina == 100 * 64
NoTick == -1

Below(a, b) == IF a < b THEN a ELSE b
Above(a, b) == IF a > b THEN a ELSE b
ClampTo(v, top) == Below(Above(v, 0), top)
Elapsed(now, since) == Above(now - since, 0)       \* saturating_sub

Healthy == [hp |-> [p \in Parts |-> FullHp], health |-> FullHp,
            limb |-> [p \in Parts |-> "intact"], wounds |-> <<>>, effects |-> {},
            tol |-> [d \in {"painkiller", "morphine", "adrenaline", "stim", "antirad", "antitox"} |-> 0],
            rad |-> 0, tox |-> 0, meal |-> [m \in MeterNames |-> FullMeal],
            stamina |-> FullStamina, pain |-> 0]

VitalMin(b) == Below(b.hp["head"], b.hp["torso"])
Mirrored(b) == [b EXCEPT !.health = VitalMin(b)]
Drain(b, part, loss) == IF loss = 0 THEN b ELSE Mirrored([b EXCEPT !.hp[part] = Above(@ - loss, 0)])
DrainBy(b, toll) == Drain(b, toll.part, toll.loss)

-----------------------------------------------------------------------------
(* Damage and wounds.                                                      *)

SeverityFromDamage(amount) ==
    CASE amount >= 25 -> Below(4 + (amount - 25) \div 15, 5)
      [] amount >= 10 /\ amount < 25 -> Below(1 + (amount - 10) \div 8, 3)
      [] OTHER -> 0

MarkWounded(b, part) == [b EXCEPT !.limb[part] = IF @ = "intact" THEN "wounded" ELSE @]

NewWound(part, sev, now) ==
    [part |-> part, sev |-> sev, treat |-> "untreated", changed |-> now,
     infected |-> FALSE, since |-> NoTick, tied |-> NoTick]

AddWound(b, id, w) ==
    MarkWounded([b EXCEPT !.wounds = [i \in DOMAIN @ \cup {id} |-> IF i = id THEN w ELSE @[i]]], w.part)
SetPart(b, part, current) == Mirrored([b EXCEPT !.hp[part] = current])

-----------------------------------------------------------------------------
(* Treatments.  A treatment takes the wounds of a part in some states to   *)
(* another state; "tied" is what becomes of the tourniquet's timer.        *)

Open == {"untreated", "disinfected"}

Treatments ==
    [bandage    |-> [from |-> Open, to |-> "bandaged"],
     disinfect  |-> [from |-> {"untreated"}, to |-> "disinfected"],
     stitch     |-> [from |-> {"bandaged", "tourniquet", "packed"}, to |-> "stitched"],
     pack       |-> [from |-> Open, to |-> "packed"],
     tourniquet |-> [from |-> Open, to |-> "tourniquet"],
     untie      |-> [from |-> {"tourniquet"}, to |-> "untreated"]]

Treatable(ws, op, part) ==
    {i \in DOMAIN ws : ws[i].part = part /\ ws[i].treat \in Treatments[op].from}

(* Fault model: any bleed takes a bandage. *)
AnyBleed(ws, part) ==
    LET all == Treatable(ws, "bandage", part)
    IN {i \in all : \A j \in all : ws[j].sev < ws[i].sev \/ (ws[j].sev = ws[i].sev /\ i <= j)}

(* The most severe light bleed, the first one among equals. *)
Bandageable(ws, part) ==
    LET light == {i \in Treatable(ws, "bandage", part) : ws[i].sev <= 3}
    IN {i \in light : \A j \in light : ws[j].sev < ws[i].sev \/ (ws[j].sev = ws[i].sev /\ i <= j)}

TreatedBy(ws, op, part) ==
    IF op = "bandage" THEN Bandageable(ws, part) ELSE Treatable(ws, op, part)

(* Fault model: the timer keeps running under a stitch. *)
TimerRunsOn(w, op, now) ==
    CASE op = "tourniquet" -> now [] op = "untie" -> NoTick [] OTHER -> w.tied

Timer(w, op, now) ==
    CASE op = "tourniquet" -> now [] op \in {"stitch", "untie"} -> NoTick [] OTHER -> w.tied

Treat(ws, hit, op, now) ==
    [i \in DOMAIN ws |-> IF i \notin hit THEN ws[i]
        ELSE [ws[i] EXCEPT !.treat = Treatments[op].to, !.changed = now, !.tied = Timer(ws[i], op, now)]]

(* The arm of apply_delta for WoundTreatmentChanged, for each id recorded. *)
ReplayTreat(ws, ids, to, at) ==
    [i \in DOMAIN ws |-> IF i \notin ids THEN ws[i]
        ELSE [ws[i] EXCEPT !.treat = to, !.changed = at, !.tied = IF to = "tourniquet" THEN at ELSE NoTick]]

-----------------------------------------------------------------------------
(* Effects and drugs.                                                      *)

Active(e, now) == Elapsed(now, e.at) < e.dur
HasActive(b, kind, now) == \E e \in b.effects : e.kind = kind /\ Active(e, now)
SumIntensity(b, kinds, now) ==
    MapThenSumSet(LAMBDA e : e.x, {e \in b.effects : e.kind \in kinds /\ Active(e, now)})

Effect(kind, at, dur, x) == [kind |-> kind, at |-> at, dur |-> dur, x |-> x, by |-> calls]
AddEffect(b, e) == [b EXCEPT !.effects = @ \cup {e}]

DrugTable ==
    [painkiller |-> [gain |-> 15, dur |-> 3, x |-> 25, crash |-> "none"],
     morphine   |-> [gain |-> 30, dur |-> 2, x |-> 75, crash |-> "none"],
     adrenaline |-> [gain |-> 50, dur |-> 1, x |-> 1, crash |-> "crash"],
     stim       |-> [gain |-> 20, dur |-> 3, x |-> 3, crash |-> "rebound"],
     antirad    |-> [gain |-> 20, dur |-> 1, x |-> 30, crash |-> "none"],
     antitox    |-> [gain |-> 20, dur |-> 1, x |-> 30, crash |-> "none"]]
CrashTicks == 2
OverdoseTicks == 2
OverdoseThreshold == 75 * 240

Tolerance(b, drug) == Below(b.tol[drug] + DrugTable[drug].gain * 240, 100 * 240)

Overdoses(b, drug, now) == b.tol[drug] > OverdoseThreshold /\ HasActive(b, drug, now)

AddRad(b, x) == [b EXCEPT !.rad = ClampTo(@ + x * 2000, FullRad)]
AddTox(b, x) == [b EXCEPT !.tox = ClampTo(@ + x * 2000, FullRad)]

Revive(b) ==
    IF VitalMin(b) >= 10 * Hp THEN b
    ELSE Mirrored([b EXCEPT !.hp = [p \in Parts |->
            IF p \in {"head", "torso"} THEN Above(@[p], 30 * Hp) ELSE @[p]]])

(* The part of a dose that acts at once. *)
AtOnce(b, drug) ==
    CASE drug = "antirad" -> AddTox(AddRad(b, -30), 5)
      [] drug = "antitox" -> AddTox(b, -30)
      [] drug = "adrenaline" -> Revive(b)
      [] OTHER -> b

Doses(drug, over, now) ==
    IF over THEN {Effect("overdose", now, OverdoseTicks, 1)}
    ELSE LET d == DrugTable[drug]
         IN {Effect(drug, now, d.dur, d.x)}
            \cup IF d.crash = "none" THEN {} ELSE {Effect(d.crash, now + d.dur, CrashTicks, 1)}

(* Everything a dose writes is recorded by value: tolerance, the two       *)
(* contaminations, the parts revived, the effects with their ticks.        *)
Drugged(b, drug, now) ==
    LET over == Overdoses(b, drug, now)
        dosed == [b EXCEPT !.tol[drug] = Tolerance(b, drug)]
    IN [(IF over THEN dosed ELSE AtOnce(dosed, drug)) EXCEPT !.effects = @ \cup Doses(drug, over, now)]
ReplayDose(r, before, after, drug) ==
    LET new == after.effects \ before.effects
        hit == {p \in Parts : after.hp[p] # before.hp[p]}
    IN [Mirrored([r EXCEPT !.hp = [p \in Parts |-> IF p \in hit THEN after.hp[p] ELSE @[p]]])
        EXCEPT !.tol[drug] = after.tol[drug], !.effects = @ \cup new,
               !.rad = IF \E e \in new : e.kind = "antirad" THEN after.rad ELSE @,
               !.tox = IF \E e \in new : e.kind \in {"antirad", "antitox"} THEN after.tox ELSE @]

-----------------------------------------------------------------------------
(* Food and drink: what a profile adds to hunger, thirst, fatigue, the two *)
(* contaminations, and the drug it grants.                                 *)

Profile ==
    [ration       |-> [hunger |-> 30, thirst |-> -5, fatigue |-> 0, rad |-> 0, tox |-> 0, drug |-> "none"],
     freshFood    |-> [hunger |-> 35, thirst |-> 0, fatigue |-> 0, rad |-> 0, tox |-> 0, drug |-> "none"],
     rawMeat      |-> [hunger |-> 20, thirst |-> 0, fatigue |-> 0, rad |-> 0, tox |-> 20, drug |-> "none"],
     cookedMeat   |-> [hunger |-> 40, thirst |-> 0, fatigue |-> 0, rad |-> 0, tox |-> 0, drug |-> "none"],
     contaminated |-> [hunger |-> 30, thirst |-> 0, fatigue |-> 0, rad |-> 30, tox |-> 20, drug |-> "none"],
     fieldRation  |-> [hunger |-> 50, thirst |-> -5, fatigue |-> 0, rad |-> 0, tox |-> 0, drug |-> "none"],
     energyBar    |-> [hunger |-> 15, thirst |-> 0, fatigue |-> 0, rad |-> 0, tox |-> 0, drug |-> "none"],
     dirtyWater   |-> [hunger |-> 0, thirst |-> 50, fatigue |-> 0, rad |-> 15, tox |-> 10, drug |-> "none"],
     cleanWater   |-> [hunger |-> 0, thirst |-> 60, fatigue |-> 0, rad |-> 0, tox |-> 0, drug |-> "none"],
     energyDrink  |-> [hunger |-> 0, thirst |-> 40, fatigue |-> 0, rad |-> 0, tox |-> 0, drug |-> "stim"],
     vodka        |-> [hunger |-> 0, thirst |-> 20, fatigue |-> 0, rad |-> -5, tox |-> 5, drug |-> "none"]]

Consumed(b, p) ==
    AddTox(AddRad([b EXCEPT !.meal = [m \in MeterNames |-> ClampTo(@[m] + p[m] * 2880, FullMeal)]], p.rad), p.tox)

(* A meter is recorded when the profile moves it, and then by its value.   *)
ReplayConsumed(r, after, p) ==
    [r EXCEPT !.meal = [m \in MeterNames |-> IF p[m] # 0 THEN after.meal[m] ELSE @[m]],
              !.rad = IF p.rad # 0 THEN after.rad ELSE @,
              !.tox = IF p.tox # 0 THEN after.tox ELSE @]

-----------------------------------------------------------------------------
(* The systems of the player schedule, in its order.                       *)

DrainSurvival(b) ==
    [b EXCEPT !.meal["hunger"] = Above(@ - 6, 0), !.meal["thirst"] = Above(@ - 8, 0),
              !.meal["fatigue"] = Above(@ - 3, 0)]

Count(P) == IF P THEN 1 ELSE 0

ApplySurvival(b) ==
    LET low == Count(b.meal["hunger"] < 10 * 2880) + Count(b.meal["thirst"] < 20 * 2880)
    IN IF low = 0 THEN b ELSE Drain(b, "torso", 50 * low)

RetireEffects(b, now) == [b EXCEPT !.effects = {e \in @ : Active(e, now)}]
DecayTolerance(b) == [b EXCEPT !.tol = [d \in DOMAIN @ |-> Above(@[d] - 1, 0)]]

Festers(w, now) ==
    /\ ~w.infected
    /\ w.treat = "untreated"
    /\ Elapsed(now, w.changed) >= Med.infect

Infect(w, now) == IF Festers(w, now) THEN [w EXCEPT !.infected = TRUE, !.since = now] ELSE w
Clear(w, now) ==
    IF w.infected /\ Elapsed(now, w.since) >= Med.clear
    THEN [w EXCEPT !.infected = FALSE, !.since = NoTick, !.changed = now] ELSE w

TickInfection(b, now) ==
    LET antibiotics == HasActive(b, "antibiotics", now)
    IN [b EXCEPT !.wounds = [i \in DOMAIN @ |->
            IF antibiotics THEN Clear(Infect(@[i], now), now) ELSE Infect(@[i], now)]]

NecrosisRate(w, now) ==
    CASE w.tied = NoTick -> 0
      [] w.tied # NoTick /\ Elapsed(now, w.tied) < Med.warn -> 0
      [] w.tied # NoTick /\ Elapsed(now, w.tied) >= Med.warn + Med.severe -> 40
      [] OTHER -> 10

(* What the wounds take from their parts, in the order of ids.             *)
Toll(part, loss) == [part |-> part, loss |-> loss]
NoToll == Toll("torso", 0)
TickNecrosis(b, now) ==
    FoldLeft(DrainBy, b, [i \in 1..calls |-> IF i \notin DOMAIN b.wounds THEN NoToll
                              ELSE Toll(b.wounds[i].part, NecrosisRate(b.wounds[i], now))])

BleedMultiplier(who) == IF who \in Npcs THEN 13 - (6 * Endurance[who]) \div 100 ELSE 10

BleedRate(w) ==
    (IF w.treat = "untreated" THEN 10 * w.sev ELSE 0) + (IF w.infected THEN 1 ELSE 0)

ApplyBleed(b, who) ==
    FoldLeft(DrainBy, b, [i \in 1..calls |-> IF i \notin DOMAIN b.wounds THEN NoToll
                              ELSE Toll(b.wounds[i].part, BleedRate(b.wounds[i]) * BleedMultiplier(who))])

HealDue(w, now) ==
    /\ ~w.infected
    /\ \/ w.treat = "bandaged" /\ Elapsed(now, w.changed) >= Med.bandaged
       \/ w.treat = "stitched" /\ Elapsed(now, w.changed) >= Med.stitched

(* Fault model: closing a wound leaves the limb as it was marked. *)
StaysMarked(b) == b

RecomputeLimbs(b) ==
    [b EXCEPT !.limb = [p \in Parts |->
        IF @[p] = "wounded" /\ ~\E i \in DOMAIN b.wounds : b.wounds[i].part = p THEN "intact" ELSE @[p]]]

AgeAndHeal(b, now) ==
    RecomputeLimbs([b EXCEPT !.wounds = [i \in {j \in DOMAIN @ : ~HealDue(@[j], now)} |-> @[i]]])

(* npc_treat_wounds looks for entities that have the components of its     *)
(* query; the spawn bundles give an NPC an "Npc" that holds its id, and no *)
(* NpcId component of its own.                                             *)
Bundle == {"Npc", "Actor", "InFaction", "InRegion", "Position", "Rotation", "Health",
                "BodyParts", "LimbStates", "Wounds", "ActiveEffects", "NpcGoal", "Lifespan",
                "Aggression", "RecentAttackers", "Inventory", "ActiveGoal", "NpcCharacter", "Group"}
(* Fault model: the id of an NPC is found in its bundle. *)
BundleWithId == Bundle \cup {"NpcId"}

SpawnBundle == Bundle
HealQuery == {"NpcId", "InRegion", "Position", "Wounds", "Inventory"}
Tended == {n \in Npcs : HealQuery \subseteq SpawnBundle}

(* A tended NPC treats its worst open bleed with what it carries: a        *)
(* bandage for a light one, a wound pack for a heavy one.                  *)
WorstOpen(ws) ==
    LET open == {i \in DOMAIN ws : ws[i].treat \in Open}
    IN {i \in open : \A j \in open : ws[j].sev < ws[i].sev \/ (ws[j].sev = ws[i].sev /\ i <= j)}

CoverWound(w, now) == [w EXCEPT !.treat = IF w.sev <= 3 THEN "bandaged" ELSE "packed", !.changed = now]
NpcTreatWounds(b, who, now) ==
    IF who \notin Tended THEN b
    ELSE [b EXCEPT !.wounds = [i \in DOMAIN @ |-> IF i \in WorstOpen(@) THEN CoverWound(@[i], now) ELSE @[i]]]

PainWeight(w) ==
    CASE w.treat \in Open -> 20 [] w.treat = "bandaged" -> 10 [] OTHER -> 5
TickPain(b, now) ==
    [b EXCEPT !.pain = ClampTo(MapThenSumSet(LAMBDA i : b.wounds[i].sev * PainWeight(b.wounds[i]), DOMAIN b.wounds)
                             - 4 * SumIntensity(b, {"painkiller", "morphine"}, now), 400)]

Decontaminate(b) == [b EXCEPT !.rad = Above(@ - 2, 0), !.tox = Above(@ - 5, 0)]
TickContamination(b) ==
    LET c == Decontaminate(b)
        high == Count(c.rad > 80 * 2000) + Count(c.tox > 80 * 2000)
    IN IF high = 0 THEN c ELSE Drain(c, "torso", 20 * high)

(* Regeneration is 48 of the unit a tick, halved by want of food or water, *)
(* by pain, by weight and by an overdose, multiplied by 3/2 for a stim.    *)
Halvings(b, now) ==
    Count(b.meal["hunger"] < 30 * 2880 \/ b.meal["thirst"] < 50 * 2880) + Count(b.pain > 200)
    + Count(Laden) + Count(HasActive(b, "overdose", now))
RegenStamina(b, now) ==
    LET stims == SumIntensity(b, {"stim"}, now)
    IN IF HasActive(b, "crash", now) THEN b
       ELSE [b EXCEPT !.stamina = Below(FullStamina,
                @ + (IF stims > 0 THEN (48 * stims) \div 2 ELSE 48) \div 2^Halvings(b, now))]

PlayerSystemsBefore(b, now) == DecayTolerance(RetireEffects(ApplySurvival(DrainSurvival(b)), now))
WoundSystems(b, who, now) == AgeAndHeal(ApplyBleed(TickNecrosis(TickInfection(b, now), now), who), now)
PlayerSystemsAfter(b, now) == RegenStamina(TickContamination(TickPain(b, now)), now)

TickBody(b, who, now) ==
    IF who \in Players
    THEN PlayerSystemsAfter(WoundSystems(PlayerSystemsBefore(b, now), who, now), now)
    ELSE NpcTreatWounds(WoundSystems(b, who, now), who, now)

-----------------------------------------------------------------------------
(* The commands, and what each one does to the world and, through the      *)
(* records it writes, to the world a load builds.                          *)

Do(who, b, r) == /\ body' = [body EXCEPT ![who] = b]
                 /\ replica' = [replica EXCEPT ![who] = r]

ApplyDamage(who, part, amount) ==
    LET b == body[who]
        hurt == SetPart(b, part, ClampTo(b.hp[part] - amount * Hp, FullHp))
        told == SetPart(replica[who], part, hurt.hp[part])
        sev == SeverityFromDamage(amount)
        w == NewWound(part, sev, clock)
    IN IF sev = 0 THEN Do(who, hurt, told)
       ELSE Do(who, AddWound(hurt, calls + 1, w), AddWound(told, calls + 1, w))

HealPart(who, part, amount) ==
    LET healed == SetPart(body[who], part, ClampTo(body[who].hp[part] + amount * Hp, FullHp))
    IN Do(who, healed, SetPart(replica[who], part, healed.hp[part]))

Treatment(who, op, part) ==
    LET ws == body[who].wounds
        hit == TreatedBy(ws, op, part)
    IN /\ hit # {}
       /\ Do(who, [body[who] EXCEPT !.wounds = Treat(@, hit, op, clock)],
                  [replica[who] EXCEPT !.wounds =
                      ReplayTreat(@, hit, Treatments[op].to, clock)])

ApplyAntibiotics(who) ==
    LET e == Effect("antibiotics", clock, Med.clear + 1, 1)
    IN Do(who, AddEffect(body[who], e), AddEffect(replica[who], e))

ApplyDrug(who, drug) ==
    LET after == Drugged(body[who], drug, clock)
    IN Do(who, after, ReplayDose(replica[who], body[who], after, drug))

Consume(who, kind) ==
    LET p == Profile[kind]
        fed == Consumed(body[who], p)
        told == ReplayConsumed(replica[who], fed, p)
        after == IF p.drug = "none" THEN fed ELSE Drugged(fed, p.drug, clock)
    IN Do(who, after, IF p.drug = "none" THEN told ELSE ReplayDose(told, fed, after, p.drug))

SetSurvivalStat(who, meter, value) ==
    Do(who, [body[who] EXCEPT !.meal[meter] = ClampTo(value, FullMeal)],
            [replica[who] EXCEPT !.meal[meter] = ClampTo(value, FullMeal)])

SetStamina(who, value) ==
    Do(who, [body[who] EXCEPT !.stamina = ClampTo(value, FullStamina)],
            [replica[who] EXCEPT !.stamina = ClampTo(value, FullStamina)])

Command(c) ==
    \/ c.op = "hit" /\ ApplyDamage(c.who, c.part, c.x)
    \/ c.op = "heal" /\ HealPart(c.who, c.part, c.x)
    \/ c.op \in DOMAIN Treatments /\ Treatment(c.who, c.op, c.part)
    \/ c.op = "antibiotics" /\ ApplyAntibiotics(c.who)
    \/ c.op = "drug" /\ ApplyDrug(c.who, c.x)
    \/ c.op = "consume" /\ Consume(c.who, c.x)
    \/ c.op = "survival" /\ SetSurvivalStat(c.who, c.part, c.x)
    \/ c.op = "stamina" /\ SetStamina(c.who, c.x)

(* Who gives a command names a part of the body, a drug or a dish there is. *)
WellFormed(c) ==
    /\ c.who \in Patients
    /\ c.op \in {"hit", "heal"} => c.part \in Parts /\ c.x \in Nat
    /\ c.op = "drug" => c.x \in DOMAIN DrugTable
    /\ c.op = "consume" => c.x \in DOMAIN Profile
    /\ c.op = "survival" => c.part \in MeterNames /\ c.x \in Int
ASSUME BodyAssumption ==
    /\ Endurance \in [Npcs -> 0..100]
    /\ Med.clear \in Nat
    /\ \A m \in Menus : \A c \in m : WellFormed(c)

GiveCommand ==
    /\ calls < MaxCommands
    /\ \E c \in menu : Command(c)
    /\ calls' = calls + 1
    /\ UNCHANGED <<clock, menu>>

(* The tick runs the systems with the clock already advanced; a snapshot   *)
(* at its end makes the replica the world itself.                          *)
Tick ==
    /\ clock < MaxBodyTicks
    /\ clock' = clock + 1
    /\ body' = [n \in Patients |-> TickBody(body[n], n, clock')]
    /\ replica' = IF clock' % SnapshotInterval = 0 THEN body' ELSE replica
    /\ UNCHANGED <<menu, calls>>

BodyInit ==
    /\ clock = 0
    /\ body = [n \in Patients |-> Healthy]
    /\ replica = body
    /\ menu \in Menus
    /\ calls = 0

BodyNext == GiveCommand \/ Tick

BodySpec == BodyInit /\ [][BodyNext]_bodyVars

-----------------------------------------------------------------------------
(* Properties.                                                             *)

(* Every writer of wounds and hit points keeps the derived components in   *)
(* step: a limb is marked wounded exactly while it has a wound, Health     *)
(* mirrors the weaker of head and torso, a tourniquet's timer runs exactly *)
(* while the tourniquet is on, and no heavy bleed is under a bandage.      *)
BodyConsistent ==
    \A n \in Patients :
        /\ body[n].health = VitalMin(body[n])
        /\ \A p \in Parts : body[n].limb[p] = "wounded" <=>
               \E i \in DOMAIN body[n].wounds : body[n].wounds[i].part = p
        /\ \A i \in DOMAIN body[n].wounds :
               LET w == body[n].wounds[i]
               IN /\ w.tied # NoTick <=> w.treat = "tourniquet"
                  /\ w.sev >= 4 => w.treat # "bandaged"

SameWound(v, w) == /\ v.part = w.part /\ v.sev = w.sev
                   /\ v.treat = w.treat /\ v.tied = w.tied

(* Whatever the pure systems did since the snapshot, the journal has every *)
(* wound in the state its last treatment gave it and loses none (the ones  *)
(* it has too many are closed and heal again at once); the effects still   *)
(* at work are the same; and the player wakes no worse than he was, since  *)
(* only drains are forgotten.                                              *)
ReplayFollowsTheBody ==
    \A n \in Patients :
        LET b == body[n]
            r == replica[n]
        IN /\ \A i \in DOMAIN b.wounds : i \in DOMAIN r.wounds /\ SameWound(r.wounds[i], b.wounds[i])
           /\ \A i \in DOMAIN r.wounds \ DOMAIN b.wounds : r.wounds[i].treat \in {"bandaged", "stitched"}
           /\ n \in Players => RetireEffects(r, clock).effects = b.effects
           /\ \A p \in Parts : r.hp[p] >= b.hp[p]
           /\ \A m \in MeterNames : r.meal[m] >= b.meal[m]
           /\ \A d \in DOMAIN r.tol : r.tol[d] >= b.tol[d]
           /\ r.rad >= b.rad /\ r.tox >= b.tox
=============================================================================
