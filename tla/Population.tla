----------------------------- MODULE Population -----------------------------
(***************************************************************************)
(* The people of the world in one session: the chronicle of lives, births  *)
(* and deaths in the active region, crossings between regions, and the     *)
(* offline tier, which keeps the people of the other regions as a few      *)
(* fields each.  A tick runs the systems of build_schedule_npc_lifecycle   *)
(* and build_schedule_offline_loot in their order, one step each; between  *)
(* two ticks people are hurt, take aim, walk or set out, and the player    *)
(* enters another region, which turns everyone of the old region into an   *)
(* offline record and back.                                                *)
(*                                                                         *)
(* A position is a place of the region, the places being out of each       *)
(* other's reach.  The random generator of a spawn or of a pair is a       *)
(* choice, the one of a body is seeded by the id and a function of it.     *)
(* Names, looks, inventories and stats are left out.                       *)
(***************************************************************************)
EXTENDS Integers, Sequences, FiniteSets, SequencesExt, FiniteSetsExt

CONSTANTS
    Regions,         \* naturals; every two are joined by a portal
    Bases,           \* place |-> [reg, fac]: the places that are bases
    Targets,         \* PopulationTargets: a sequence of <<region, faction, target>>, in order
    Enemies,         \* sets of two factions that are hostile
    Spans,           \* lifespans, in ticks
    SquadSizes,
    LifeCfg,             \* [process, divisor, leg, stale, cooldown, age, squads, corpse]
    MaxPeople,       \* bound: ids ever minted
    MaxHappened,     \* bound: what happens between the ticks of a behaviour
    MaxTicks         \* bound: ticks of a behaviour

TargetFactions == {Targets[i][2] : i \in DOMAIN Targets}

ASSUME LifeAssumption ==
    /\ Targets \in Seq(Regions \X TargetFactions \X Nat)
    /\ IsFiniteSet(DOMAIN Bases)
    /\ SquadSizes \subseteq Nat /\ MaxPeople \in Int
    /\ LifeCfg.cooldown \in Nat /\ LifeCfg.age \in Nat

VARIABLES
    tick, phase,     \* SimClock and the system that runs next
    people,          \* id |-> the entity, for those in the world
    chronicle,       \* LifeChronicle: [records, summary]
    active,          \* ActiveRegions
    exploring,       \* group |-> destination, the Explore entries of SquadObjectives
    slow,            \* OfflineTierClock: [tick, last]
    corpses,         \* CorpseIndex: <<id, tick>>
    told,            \* ids of the AllyDown events, in order
    pda,             \* PdaEventLog: [next, entries]
    happened         \* bound counters: [events, squads]

peopleVars == <<tick, phase, people, chronicle, active, exploring, slow, corpses, told, pda, happened>>

Road == "road"
Portal == "portal"
Nowhere == "nowhere"
NoFoe == 0
MaxHp == 100

TicksPassed(since) == IF tick >= since THEN tick - since ELSE 0
Minted == Cardinality(DOMAIN chronicle.records)
InOrder(ids) == FlattenSeq([i \in 1..Minted |-> IF i \in ids THEN <<i>> ELSE <<>>])

-----------------------------------------------------------------------------
(* The chronicle.  The summary is kept up to date by insert and mark_dead, *)
(* never computed from the records while the world runs.                   *)

EmptySummary == [total |-> 0, alive |-> 0, by |-> [f \in TargetFactions |-> [alive |-> 0, dead |-> 0]]]
Less(n) == IF n > 0 THEN n - 1 ELSE 0

Unapply(s, rec) ==
    IF rec.dead THEN [s EXCEPT !.total = Less(@), !.by[rec.fac].dead = Less(@)]
    ELSE [s EXCEPT !.total = Less(@), !.alive = Less(@), !.by[rec.fac].alive = Less(@)]
Counted(s, rec) ==
    IF rec.dead THEN [s EXCEPT !.total = @ + 1, !.by[rec.fac].dead = @ + 1]
    ELSE [s EXCEPT !.total = @ + 1, !.alive = @ + 1, !.by[rec.fac].alive = @ + 1]

(* rebuild_summary_cache *)
AliveIn(records) == {i \in DOMAIN records : ~records[i].dead}
OfFaction(records, f) == {i \in DOMAIN records : records[i].fac = f}
Summary(records) ==
    [total |-> Cardinality(DOMAIN records),
     alive |-> Cardinality(AliveIn(records)),
     by |-> [f \in TargetFactions |->
                [alive |-> Cardinality(OfFaction(records, f) \cap AliveIn(records)),
                 dead |-> Cardinality(OfFaction(records, f) \ AliveIn(records))]]]

(* A birth is [id, rec], a death is [id, cause, reg]. *)
Insert(c, birth) ==
    LET id == birth.id  old == c.records IN
    [records |-> [i \in DOMAIN old \cup {id} |-> IF i = id THEN birth.rec ELSE old[i]],
     summary |-> Counted(IF id \in DOMAIN old THEN Unapply(c.summary, old[id]) ELSE c.summary, birth.rec)]

MarkDead(c, d) ==
    IF d.id \notin DOMAIN c.records \/ c.records[d.id].dead THEN c
    ELSE [records |-> [c.records EXCEPT ![d.id] = [@ EXCEPT !.dead = TRUE, !.cause = d.cause, !.seen = d.reg]],
          summary |-> [c.summary EXCEPT !.alive = Less(@),
                          !.by[c.records[d.id].fac] = [alive |-> Less(@.alive), dead |-> @.dead + 1]]]

(* The people of a sequence of ids die of one cause. *)
Buried(c, ids, cause) ==
    FoldLeft(MarkDead, c, [k \in DOMAIN ids |-> [id |-> ids[k], cause |-> cause, reg |-> people[ids[k]].reg]])
Without(ps, ids) == [i \in DOMAIN ps \ ids |-> ps[i]]

-----------------------------------------------------------------------------
(* Online and offline.  A body is the health of the vital parts and of the *)
(* limbs, each at its worst; "hp" is the Health component.                 *)

Online == {i \in DOMAIN people : people[i].mode = "online"}
Offline == DOMAIN people \ Online

(* Fault model: the limbs are not looked at. *)
VitalsOnly(vital, limb) ==
    IF 4 * vital < MaxHp THEN "critical" ELSE IF 4 * vital < 3 * MaxHp THEN "wounded" ELSE "healthy"

BodyPartsToHealthClass(vital, limb) ==
    IF 4 * vital < MaxHp \/ 4 * limb < MaxHp THEN "critical"
    ELSE IF 4 * vital < 3 * MaxHp \/ 4 * limb < 3 * MaxHp THEN "wounded"
    ELSE "healthy"

(* A value of [lo, hi), at one of its ends: the generator is seeded by id. *)
Rolled(id, lo, hi) == IF id % 2 = 0 THEN lo ELSE hi - 1
HealthClassToBodyParts(class, id) ==
    CASE class = "healthy"  -> [vital |-> MaxHp, limb |-> MaxHp]
      [] class = "wounded"  -> [vital |-> MaxHp, limb |-> Rolled(id, 30, 60)]
      [] class = "critical" -> [vital |-> Rolled(id, 10, 20), limb |-> Rolled(id, 10, 40)]

DegradeHealthClass == [healthy |-> "wounded", wounded |-> "critical", critical |-> "dead"]

Person(fac, r, grp, place, die) ==
    [mode |-> "online", fac |-> fac, reg |-> r, grp |-> grp, at |-> place, die |-> die,
     vital |-> MaxHp, limb |-> MaxHp, hp |-> MaxHp, foe |-> NoFoe, since |-> 0]

(* Engaged is the state of an offline person with an opponent.             *)
ToOffline(p) ==
    [mode |-> "offline", fac |-> p.fac, reg |-> p.reg, grp |-> p.grp, at |-> p.at, die |-> p.die,
     class |-> BodyPartsToHealthClass(p.vital, p.limb), foe |-> p.foe, since |-> p.since,
     goal |-> Nowhere, arrival |-> 0]

ToOnline(p, body) ==
    [Person(p.fac, p.reg, p.grp, p.at, p.die) EXCEPT
        !.vital = body.vital, !.limb = body.limb, !.foe = p.foe, !.since = p.since]

ProjectOnlineToOffline(ps, rs) ==
    [i \in DOMAIN ps |-> IF ps[i].reg \in rs /\ ps[i].mode = "online" THEN ToOffline(ps[i]) ELSE ps[i]]
ProjectOfflineToOnline(ps, r) ==
    [i \in DOMAIN ps |-> IF ps[i].reg = r /\ ps[i].mode = "offline"
        THEN ToOnline(ps[i], HealthClassToBodyParts(ps[i].class, i)) ELSE ps[i]]

(* The player enters r: the only region that is active from now on.        *)
SetActiveRegion ==
    /\ phase = "between"
    /\ happened.events < MaxHappened
    /\ happened' = [happened EXCEPT !.events = @ + 1]
    /\ \E r \in Regions :
        /\ active # {r}
        /\ LET left == ProjectOnlineToOffline(people, active \ {r})
           IN people' = IF r \in active THEN left ELSE ProjectOfflineToOnline(left, r)
        /\ active' = {r}
    /\ UNCHANGED <<tick, phase, chronicle, exploring, slow, corpses, told, pda>>

-----------------------------------------------------------------------------
(* What else happens between two ticks: the other systems.                 *)

BetweenTicks ==
    /\ phase = "between"
    /\ happened.events < MaxHappened
    /\ happened' = [happened EXCEPT !.events = @ + 1]
    /\ UNCHANGED <<tick, phase, chronicle, active, slow, corpses, told, pda>>

Harm(n, by) == IF n > by THEN n - by ELSE 0

(* A hit on a vital part is mirrored in Health, one on a limb is not.      *)
Hurt ==
    /\ BetweenTicks
    /\ \E i \in Online, by \in {50, MaxHp}, part \in {"vital", "limb"} :
        LET vital == people[i].vital  limb == people[i].limb IN
        people' = [people EXCEPT ![i] =
            IF part = "limb" THEN [@ EXCEPT !.limb = Harm(limb, by), !.hp = vital]
            ELSE [@ EXCEPT !.vital = Harm(vital, by), !.hp = Harm(vital, by)]]
    /\ UNCHANGED exploring
Aims ==
    /\ BetweenTicks
    /\ \E i \in Online, f \in DOMAIN people :
        /\ {people[i].fac, people[f].fac} \in Enemies /\ people[f].reg = people[i].reg
        /\ people' = [people EXCEPT ![i].foe = f, ![i].since = tick]
    /\ UNCHANGED exploring
Walks ==
    /\ BetweenTicks
    /\ \E i \in Online, p \in {Road} \cup DOMAIN Bases :
        /\ people[i].at # p
        /\ p \in DOMAIN Bases => Bases[p].reg = people[i].reg
        /\ people' = [people EXCEPT ![i].at = p]
    /\ UNCHANGED exploring
(* A squad sets out for another region; the first of it is at the portal.  *)
Explores ==
    /\ BetweenTicks
    /\ \E i \in Online, r \in Regions :
        /\ r # people[i].reg
        /\ exploring' = [exploring EXCEPT ![people[i].grp] = r]
        /\ people' = [people EXCEPT ![i].at = Portal]

-----------------------------------------------------------------------------
(* The lifecycle systems.                                                  *)

Runs(this, next) == phase = this /\ phase' = next

StartTick ==
    /\ Runs("between", "death_check")
    /\ tick < MaxTicks
    /\ tick' = tick + 1
    /\ happened' = [happened EXCEPT !.squads = 0]
    /\ UNCHANGED <<people, chronicle, active, exploring, slow, corpses, told, pda>>

(* Who is already dead in the chronicle is skipped and stays in the world. *)
NpcDeathCheck ==
    /\ Runs("death_check", "portal_cross")
    /\ LET dead == {i \in Online : people[i].hp = 0 /\ ~chronicle.records[i].dead}
       IN /\ chronicle' = Buried(chronicle, InOrder(dead), "wounds")
          /\ people' = Without(people, dead)
          /\ corpses' = corpses \cup {<<i, tick>> : i \in dead}
          /\ told' = told \o InOrder(dead)
    /\ UNCHANGED <<tick, active, exploring, slow, pda, happened>>

(* One member near the portal, in a fight or not, takes along every member *)
(* that is not in a fight, wherever it is.                                 *)
Crossing ==
    {g \in DOMAIN exploring :
        \E i \in Online : /\ people[i].grp = g
                          /\ exploring[g] \in Regions \ {people[i].reg}
                          /\ people[i].at = Portal}

Visited(movers, dest) ==
    [chronicle EXCEPT !.records =
        [i \in DOMAIN @ |-> IF i \in movers THEN [@[i] EXCEPT !.seen = dest[i]] ELSE @[i]]]

NpcPortalCross ==
    /\ Runs("portal_cross", "age")
    /\ LET movers == {i \in Online : people[i].grp \in Crossing /\ people[i].foe = NoFoe}
           dest == [i \in movers |-> exploring[people[i].grp]]
       IN /\ people' = [i \in DOMAIN people |-> IF i \in movers
                            THEN [people[i] EXCEPT !.reg = dest[i], !.at = Portal] ELSE people[i]]
          /\ chronicle' = Visited(movers, dest)
    /\ exploring' = [g \in DOMAIN exploring |-> IF g \in Crossing THEN 0 ELSE exploring[g]]
    /\ UNCHANGED <<tick, active, slow, corpses, told, pda, happened>>

(* age_npcs, then prune_corpse_index *)
AgeNpcs ==
    /\ Runs("age", "spawn")
    /\ LET dead == {i \in Online : tick >= people[i].die}
       IN /\ chronicle' = Buried(chronicle, InOrder(dead), "age")
          /\ people' = Without(people, dead)
          /\ corpses' = {c \in corpses \cup {<<i, tick>> : i \in dead} : TicksPassed(c[2]) < LifeCfg.corpse}
    /\ UNCHANGED <<tick, active, exploring, slow, told, pda, happened>>

(* Births: the first region and faction below target, squad by squad.      *)
HasBase(r) == \E b \in DOMAIN Bases : Bases[b].reg = r
LiveCount(r, f) == Cardinality({i \in Online : people[i].reg = r /\ people[i].fac = f})
Wanted ==
    {i \in DOMAIN Targets :
        /\ Targets[i][1] \in active
        /\ HasBase(Targets[i][1])
        /\ LiveCount(Targets[i][1], Targets[i][2]) < Targets[i][3]}
Full == Wanted = {} \/ happened.squads = LifeCfg.squads \/ Minted = MaxPeople

SpawnPlaces(f, r) ==
    LET own == {b \in DOMAIN Bases : Bases[b].reg = r /\ Bases[b].fac = f}
    IN IF own = {} THEN {Road} ELSE own

SpawnOneSquad ==
    /\ phase = "spawn"
    /\ ~Full
    /\ \E place \in SpawnPlaces(Targets[Min(Wanted)][2], Targets[Min(Wanted)][1]), span \in Spans,
          size \in SquadSizes :
        LET t == Targets[Min(Wanted)]
            needed == t[3] - LiveCount(t[1], t[2])
            count == Min({size, needed, MaxPeople - Minted})
            ids == (Minted + 1)..(Minted + count)
            born == Person(t[2], t[1], Min(ids), place, tick + span)
            rec == [fac |-> t[2], dead |-> FALSE, cause |-> "none", seen |-> t[1]]
        IN /\ people' = [i \in DOMAIN people \cup ids |-> IF i \in ids THEN born ELSE people[i]]
           /\ chronicle' = FoldLeft(Insert, chronicle, [k \in 1..count |-> [id |-> Minted + k, rec |-> rec]])
    /\ happened' = [happened EXCEPT !.squads = @ + 1]
    /\ UNCHANGED <<tick, phase, active, exploring, slow, corpses, told, pda>>

SpawnsDone ==
    /\ Runs("spawn", "offline")
    /\ Full
    /\ UNCHANGED <<tick, people, chronicle, active, exploring, slow, corpses, told, pda, happened>>

-----------------------------------------------------------------------------
(* The offline tier.  Its systems work on one region at a time.            *)

Processing == tick # 0 /\ tick % LifeCfg.process = 0 /\ Offline # {}
ProcessedRegion ==
    LET keys == SetToSortSeq({people[i].reg : i \in Offline}, <)
    IN keys[(tick % Len(keys)) + 1]
Processed == {i \in Offline : people[i].reg = ProcessedRegion}

TickOfflineClock ==
    IF tick - slow.last >= LifeCfg.divisor \/ (slow.last = 0 /\ tick >= LifeCfg.divisor)
    THEN [tick |-> slow.tick + 1, last |-> tick] ELSE slow

(* Bases of one's own first.  A base where one stands may be picked again. *)
OfflineTargets(p) ==
    LET here == {b \in DOMAIN Bases : Bases[b].reg = p.reg}
        own == {b \in here : Bases[b].fac = p.fac}
    IN IF own # {} THEN own ELSE here

Moved(p, clock) ==
    IF p.foe # NoFoe THEN {[p EXCEPT !.goal = Nowhere]}
    ELSE IF p.goal = Nowhere
    THEN IF OfflineTargets(p) = {} THEN {p}
         ELSE {[p EXCEPT !.goal = b, !.arrival = clock + LifeCfg.leg] : b \in OfflineTargets(p)}
    ELSE IF clock >= p.arrival THEN {[p EXCEPT !.at = p.goal, !.goal = Nowhere]}
    ELSE {[p EXCEPT !.at = IF p.at = p.goal THEN @ ELSE Road]}

OfflineMovement ==
    /\ Runs("offline", "combat")
    /\ slow' = TickOfflineClock
    /\ \E next \in [IF Processing THEN Processed ELSE {} -> UNION {Moved(people[i], slow'.tick) : i \in Offline}] :
        /\ \A i \in DOMAIN next : next[i] \in Moved(people[i], slow'.tick)
        /\ people' = [i \in DOMAIN people |-> IF i \in DOMAIN next THEN next[i] ELSE people[i]]
    /\ UNCHANGED <<tick, chronicle, active, exploring, corpses, told, pda, happened>>

(* Combat.  Every hostile pair in reach is met once, in the order of ids.  *)
(* Those on the road are in reach or not.  The aged are dead beforehand.   *)
Aged == {i \in Processed : tick >= people[i].die}
Pairs ==
    {p \in Processed \X Processed :
        p[1] < p[2] /\ {people[p[1]].fac, people[p[2]].fac} \in Enemies /\ people[p[1]].at = people[p[2]].at}
Surely(p) == people[p[1]].at # Road

(* Who of a pair hits: the first, the second, both, neither; or the pair   *)
(* does not meet.                                                          *)
Exchanges(p) == SUBSET {p[1], p[2]} \cup (IF Surely(p) THEN {} ELSE {{NoFoe}})
Meetings(hits) ==
    FlattenSeq([i \in 1..Minted |-> FlattenSeq([j \in 1..Minted |->
        IF <<i, j>> \in DOMAIN hits THEN <<[pair |-> <<i, j>>, hits |-> hits[<<i, j>>]]>> ELSE <<>>])])

HitOffline(w, i) ==
    IF DegradeHealthClass[w.class[i]] = "dead" THEN [w EXCEPT !.dead = @ \cup {i}, !.fallen = Append(@, i)]
    ELSE [w EXCEPT !.class[i] = DegradeHealthClass[@]]

IsDead(w, i) == i \in w.dead
Exchange(w, m) ==
    LET a == m.pair[1]  b == m.pair[2]
        met == [w EXCEPT !.foe[a] = b, !.foe[b] = a, !.shots = TRUE]
        one == IF a \in m.hits THEN HitOffline(met, b) ELSE met
    IN IF b \in m.hits THEN HitOffline(one, a) ELSE one

(* Whoever is hit first still shoots back: the two shots are one moment.   *)
Fight(w, m) ==
    IF m.hits = {NoFoe} \/ IsDead(w, m.pair[1]) \/ IsDead(w, m.pair[2]) THEN w ELSE Exchange(w, m)

Peace == [class |-> [i \in Processed |-> people[i].class], foe |-> [i \in Processed |-> NoFoe],
          dead |-> Aged, fallen |-> <<>>, shots |-> FALSE]
Fought(hits) == FoldLeft(Fight, Peace, Meetings(hits))

(* Combat goes stale when nobody has been met for a while.                 *)
After(p, i, w) ==
    IF w.foe[i] # NoFoe THEN [p EXCEPT !.foe = w.foe[i], !.since = tick, !.class = w.class[i]]
    ELSE IF p.foe # NoFoe /\ TicksPassed(p.since) > LifeCfg.stale THEN [p EXCEPT !.foe = NoFoe]
    ELSE p

(* The PDA: who dies in combat, gunfire unless it was reported lately, and *)
(* every base where at least two hostile people outnumber the others, each *)
(* time the region is processed: the base itself does not change hands.    *)
Push(log, what) ==
    [next |-> log.next + 1,
     entries |-> Append(log.entries, [seq |-> log.next, tick |-> tick, what |-> what, reg |-> ProcessedRegion])]

Shots(entries, r) == {k \in DOMAIN entries : entries[k].what = "gunfire" /\ entries[k].reg = r}
(* Fault model: only the newest entry of the log is looked at. *)
CoolingByNewest(log, r) ==
    \E k \in Shots(log.entries, r) :
        k = Len(log.entries) /\ TicksPassed(log.entries[k].tick) < LifeCfg.cooldown

Cooling(log, r) ==
    \E k \in Shots(log.entries, r) :
        /\ \A j \in Shots(log.entries, r) : j <= k
        /\ TicksPassed(log.entries[k].tick) < LifeCfg.cooldown

Strength(w, f, b) ==
    Cardinality({i \in Processed : people[i].fac = f /\ people[i].at = b /\ ~IsDead(w, i)})
Dominant(w, b) ==
    {f \in TargetFactions : Strength(w, f, b) >= 2 /\ \A g \in TargetFactions : Strength(w, g, b) <= Strength(w, f, b)}
Flipped(w) ==
    {b \in DOMAIN Bases : Bases[b].reg = ProcessedRegion /\ \E f \in Dominant(w, b) : {f, Bases[b].fac} \in Enemies}

EvictOld(log) ==
    LET es == log.entries
        fresh == {k \in DOMAIN es : TicksPassed(es[k].tick) <= LifeCfg.age}
    IN [log EXCEPT !.entries = IF fresh = {} THEN <<>> ELSE SubSeq(es, Min(fresh), Len(es))]

ReportedToPda(log, w) ==
    LET deaths == FoldLeft(Push, log, [k \in DOMAIN w.fallen |-> "death"])
        shots == IF w.shots /\ ~Cooling(deaths, ProcessedRegion) THEN Push(deaths, "gunfire") ELSE deaths
    IN EvictOld(FoldLeft(Push, shots, [k \in 1..Cardinality(Flipped(w)) |-> "flip"]))

Settle(w) ==
    /\ people' = [i \in DOMAIN people \ w.dead |-> IF i \in Processed THEN After(people[i], i, w) ELSE people[i]]
    /\ chronicle' = Buried(Buried(chronicle, InOrder(Aged), "age"), w.fallen, "wounds")
    /\ told' = told \o w.fallen
    /\ pda' = ReportedToPda(pda, w)

OfflineCombat ==
    /\ Runs("combat", "between")
    /\ IF ~Processing THEN UNCHANGED <<people, chronicle, told, pda>>
       ELSE \E hits \in {h \in [Pairs -> UNION {Exchanges(p) : p \in Pairs}] : \A p \in Pairs : h[p] \in Exchanges(p)} :
                Settle(Fought(hits))
    /\ UNCHANGED <<tick, active, exploring, slow, corpses, happened>>

-----------------------------------------------------------------------------
(* bulk_seed_npcs fills every region up to its targets, in squads as big   *)
(* as they come; initial_bulk_seed_npcs then takes everyone offline.  To   *)
(* bound the initial states everyone is given the same span of life.       *)
Fill(ps, t) == IF HasBase(t[1]) THEN ps \o [k \in 1..t[3] |-> <<t[1], t[2], Len(ps) + 1>>] ELSE ps
Seeded == FoldLeft(Fill, <<>>, Targets)

PeopleInit ==
    /\ tick = 0 /\ phase = "between"
    /\ \E span \in Spans, place \in [DOMAIN Seeded -> DOMAIN Bases \cup {Road}] :
        /\ \A i \in DOMAIN Seeded : place[i] \in SpawnPlaces(Seeded[i][2], Seeded[i][1])
        /\ people = [i \in DOMAIN Seeded |->
                        ToOffline(Person(Seeded[i][2], Seeded[i][1], Seeded[i][3], place[i], span))]
    /\ chronicle = FoldLeft(Insert, [records |-> <<>>, summary |-> EmptySummary],
                            [i \in DOMAIN Seeded |->
                                [id |-> i, rec |-> [fac |-> Seeded[i][2], dead |-> FALSE, cause |-> "none", seen |-> Seeded[i][1]]]])
    /\ active = {}
    /\ exploring = [g \in 1..MaxPeople |-> 0]
    /\ slow = [tick |-> 0, last |-> 0]
    /\ corpses = {}
    /\ told = <<>>
    /\ pda = [next |-> 1, entries |-> <<>>]
    /\ happened = [events |-> 0, squads |-> 0]

PeopleNext ==
    \/ SetActiveRegion \/ Hurt \/ Aims \/ Walks \/ Explores
    \/ StartTick \/ NpcDeathCheck \/ NpcPortalCross \/ AgeNpcs \/ SpawnOneSquad \/ SpawnsDone
    \/ OfflineMovement \/ OfflineCombat

PeopleSpec == PeopleInit /\ [][PeopleNext]_peopleVars

-----------------------------------------------------------------------------
(* Properties.                                                             *)

(* The chronicle and the world agree in whatever order people move between *)
(* regions and tiers, fight and die: those in the world are those the      *)
(* chronicle has alive, in the region it saw them last; its running totals *)
(* are what counting the records gives; nobody's death is announced twice; *)
(* and the gunfire of a region is not reported again within the cooldown   *)
(* (LifeChronicle, npc_death_check, offline_combat).                       *)
PeopleMatchRecords ==
    /\ DOMAIN people = {i \in DOMAIN chronicle.records : ~chronicle.records[i].dead}
    /\ \A i \in DOMAIN people : chronicle.records[i].seen = people[i].reg
    /\ chronicle.summary = Summary(chronicle.records)
    /\ IsInjective(told)
    /\ \A i, j \in DOMAIN pda.entries :
        i < j /\ pda.entries[i].what = "gunfire" /\ pda.entries[j].what = "gunfire"
              /\ pda.entries[i].reg = pda.entries[j].reg
            => pda.entries[j].tick - pda.entries[i].tick >= LifeCfg.cooldown

(* The class of someone's health, all that both tiers know of it: the      *)
(* points of a body within a class, wounds and Health do not survive the   *)
(* way there and back.                                                     *)
HealthClass(p) == IF p.mode = "online" THEN BodyPartsToHealthClass(p.vital, p.limb) ELSE p.class

(* What a step may do to someone who is there before and after it.         *)
PassageKeepsEach ==
    /\ active' # active => DOMAIN people' = DOMAIN people
    /\ \A i \in DOMAIN people \cap DOMAIN people' :
        LET p == people[i]  q == people'[i] IN
        /\ <<p.fac, p.grp, p.die>> = <<q.fac, q.grp, q.die>>
        /\ active' # active =>
              /\ <<p.reg, p.at, p.foe, p.since>> = <<q.reg, q.at, q.foe, q.since>>
              /\ HealthClass(p) = HealthClass(q)
              /\ q # p => p.reg \in (active \ active') \cup (active' \ active)
        /\ HealthClass(q) = "healthy" => HealthClass(p) = "healthy"
        /\ HealthClass(p) = "critical" => HealthClass(q) = "critical"

(* Entering a region loses and adds nobody, and what both tiers hold of    *)
(* someone passes unchanged: faction, squad, region, place, opponent and   *)
(* since when, hour of death, and the class of health, though not the      *)
(* damage within the class.  Only people of the region left and of the one *)
(* entered change at all, and no step puts anyone into a better class      *)
(* (project_online_to_offline, project_offline_to_online, offline_combat). *)
PassageKeepsPeople == [][PassageKeepsEach]_peopleVars
=============================================================================
