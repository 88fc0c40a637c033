-------------------------------- MODULE Senses --------------------------------
(***************************************************************************)
(* What people know of their enemies: sight and its decay (npc_aggro.rs),  *)
(* the squads' blackboards (squad_blackboard.rs), the events other squads  *)
(* hear (world_event_bus.rs) and the board of threats (threat_board.rs).   *)
(* A place is a number of 10 m steps along a line; region 1 is active.     *)
(***************************************************************************)
EXTENDS Integers, FiniteSets, SequencesExt

CONSTANTS
    Souls, SoulSquad, SoulSide, HostileSides,  \* people, their squad (0: none), side, and pairs of hostile sides
    SightOf, SoulStart,                   \* sight_radius_for_perception and the first place of each
    SenseCfg,      \* decay, and lifetimes of an enemy heard of, of a shot, of fire, of threats and their board
    Nudges, MaxNudges, MaxBeat

VARIABLES
    beat,       \* SimClock
    step,       \* "quiet", "sensed": what the tick has run
    minds,      \* place, region, Aggro and RecentAttackers of those alive
    memory,     \* SquadBlackboards: an entry's value and the tick it is no longer fresh
    bus,        \* WorldEventQueue
    contact,    \* when a band last had a person in sight or was hit by him
    nudges, nudged

senseVars == <<beat, step, minds, memory, bus, contact, nudges, nudged>>

(* Ids are positive; a squad forgets whom it heard of no later than whom it*)
(* saw (200 ticks are written in the code, 600 are configured).            *)
ASSUME SenseAssumption ==
    /\ Souls \subseteq Nat \ {0} /\ SoulSquad \in [Souls -> Nat] /\ SoulStart \in [Souls -> Int]
    /\ SenseCfg.hearsay \in Nat /\ SenseCfg.decay \in Nat /\ SenseCfg.hearsay <= SenseCfg.decay /\ SenseCfg.decay # 0
    /\ \A s \in Nudges : \A e \in s : (e.e = "walks" => e.x \in Int) /\ (e.e = "hit" => e.damage \in Int)

Alive == DOMAIN minds
SquadIds == {SoulSquad[n] : n \in Souls} \ {0}
Band(n) == IF SoulSquad[n] # 0 THEN SoulSquad[n] ELSE -n
Bands == {Band(n) : n \in Souls}
SquadMembers(q) == {n \in Alive : SoulSquad[n] = q}
Dist(x, y) == IF x < y THEN y - x ELSE x - y
Hostiles(a, b) == {SoulSide[a], SoulSide[b]} \in HostileSides
Empty == <<>>

SenseInit ==
    /\ beat = 1 /\ step = "quiet" /\ bus = {} /\ nudged = 0
    /\ minds = [n \in Souls |-> [x |-> SoulStart[n], reg |-> 1, foe |-> 0, seen |-> 0, hits |-> Empty]]
    /\ memory = [q \in SquadIds |-> Empty]
    /\ contact = [b \in Bands |-> [n \in Souls |-> 0]]
    /\ nudges \in Nudges

-----------------------------------------------------------------------------
(* Blackboards and events                                                  *)

EntryKey(k, n) == [k |-> k, n |-> n]
Enemy == EntryKey("enemy", 0)
Threats == EntryKey("threats", 0)
Entry(value, ttl) == [value |-> value, until |-> beat + ttl]
Swept(board) == Restrict(board, {k \in DOMAIN board : beat < board[k].until})
SetKey(f, key, value) == [k \in DOMAIN f \cup {key} |-> IF k = key THEN value ELSE f[k]]
Write(board, key, value, ttl) == SetKey(board, key, Entry(value, ttl))

(* index_npc_positions: the middle of a squad, and the region of one of it.*)
Centroid(q) == MapThenSumSet(LAMBDA n : minds[n].x, SquadMembers(q)) \div Cardinality(SquadMembers(q))
Listening(q) == \E n \in SquadMembers(q) : minds[n].reg = 1

(* audible_radius_m, audience_for and the cells of 200 m around the event  *)
(* that drain_world_events looks into, fewer than the radius may span.     *)
Radius(e) == CASE e.kind = "sighted" -> 20 [] e.kind = "down" -> 15 [] e.kind = "shot" -> 25
Concerns(e, q) ==
    LET side == SoulSide[CHOOSE n \in SquadMembers(q) : TRUE]
    IN CASE e.kind = "sighted" -> {side, SoulSide[e.who]} \in HostileSides [] e.kind = "down" -> side = SoulSide[e.who] [] OTHER -> TRUE
Heard(e, q) ==
    /\ SquadMembers(q) # {} /\ Listening(q) /\ e.reg = 1 /\ Concerns(e, q)
    /\ Dist(Centroid(q) \div 20, e.x \div 20) <= 1 /\ Dist(Centroid(q), e.x) <= Radius(e)

ActiveEvent(e) == beat <= e.made + 2

(* apply_to_blackboard, for all the events q hears: of several sightings   *)
(* one is the last; a sighting of whom the squad knows of changes nothing. *)
Reported(board, news, q) ==
    LET told == {e \in news : Heard(e, q)}
        shots == {e \in told : e.kind = "shot"}
        ids == {e.who : e \in {d \in told : d.kind = "sighted"}}
        fallen == {EntryKey("down", e.who) : e \in {d \in told : d.kind = "down"}}
        WithFalls == [k \in DOMAIN board \cup fallen |-> IF k \in fallen THEN Entry(0, SenseCfg.decay) ELSE board[k]]
        near == {Dist(Centroid(q), e.x) : e \in shots}
        WithShots == IF shots = {} THEN {WithFalls}
                     ELSE {Write(WithFalls, EntryKey("shot", 0), 0, Max({1, (SenseCfg.shot * (25 - d)) \div 25})) : d \in near}
    IN UNION {IF ids \subseteq {IF Enemy \in DOMAIN b THEN b[Enemy].value ELSE 0} THEN {b}
              ELSE {Write(b, Enemy, t, SenseCfg.hearsay) : t \in ids} : b \in WithShots}

-----------------------------------------------------------------------------
(* sweep_threats: what a squad's members were hit by; a score is damage    *)
(* times recency and proximity, in units of one over threat * 5.  The list *)
(* is in the order of Before; a set here, of which the first is asked for. *)

Recent(n) == Restrict(minds[n].hits, {m \in DOMAIN minds[n].hits : minds[n].hits[m].at + SenseCfg.threat >= beat})
Proximity(q, m) ==
    LET d == IF m \in Alive THEN Min({Dist(minds[m].x, minds[n].x) : n \in {k \in SquadMembers(q) : m \in DOMAIN Recent(k)}}) ELSE 99
    IN IF d <= 3 THEN 5 ELSE IF d >= 8 THEN 0 ELSE 8 - d
Threat(q, m) ==
    LET by == {n \in SquadMembers(q) : minds[n].reg = 1 /\ m \in DOMAIN Recent(n)}
        last == Max({minds[n].hits[m].at : n \in by})
    IN [who |-> m, last |-> last,
        score |-> MapThenSumSet(LAMBDA n : minds[n].hits[m].damage, by) * (SenseCfg.threat - (beat - last)) * Proximity(q, m)]
Before(a, b) == a.score > b.score \/ (a.score = b.score /\ a.who < b.who)
WithThreats(board, q) ==
    LET found == {Threat(q, m) : m \in UNION {DOMAIN Recent(n) : n \in {k \in SquadMembers(q) : minds[k].reg = 1}}}
    IN IF found = {} THEN board ELSE Write(board, Threats, found, SenseCfg.board)

-----------------------------------------------------------------------------
(* npc_aggro                                                               *)

Snapshot == {n \in Alive : minds[n].reg = 1 \/ minds[n].foe # 0}
InSight(a, b) == minds[a].reg = minds[b].reg /\ Dist(minds[a].x, minds[b].x) <= SightOf[a]
Lost(n) == /\ ~(minds[n].foe \in Snapshot /\ InSight(n, minds[n].foe))
           /\ beat - minds[n].seen > SenseCfg.decay
Current(n) == IF n \notin Snapshot \/ Lost(n) THEN 0 ELSE minds[n].foe
Refreshed(n) ==
    IF minds[n].foe = 0 THEN minds[n]
    ELSE IF Lost(n) THEN [minds[n] EXCEPT !.foe = 0, !.seen = 0]
         ELSE IF minds[n].foe \in Snapshot /\ InSight(n, minds[n].foe) THEN [minds[n] EXCEPT !.seen = beat] ELSE minds[n]

(* Who may see whom; whom he does see is up to where he looks and what is  *)
(* between them.                                                           *)
Visible == {p \in Snapshot \X Snapshot : minds[p[1]].reg = 1 /\ Hostiles(p[1], p[2]) /\ InSight(p[1], p[2])}
Acquired(sees) == {p \in sees : Current(p[1]) # p[2]}
TargetsOf(n, sees) ==
    {p[2] : p \in {r \in Acquired(sees) :
        \/ r[1] = n
        \/ n \in Snapshot /\ Current(n) = 0 /\ SoulSquad[n] # 0 /\ SoulSquad[r[1]] = SoulSquad[n]}}
Sighting(p) == [kind |-> "sighted", who |-> p[2], x |-> minds[p[2]].x, reg |-> 1, made |-> beat]
SquadEngaged(q, boards) == q # 0 /\ Enemy \in DOMAIN boards[q] /\ beat < boards[q][Enemy].until


(* The functions that choose one of the values offered for each key, of    *)
(* the order things happen to be in: the last one counts.                  *)
OneOfEach(offers) ==
    LET given == {k \in DOMAIN offers : \E v \in offers[k] : offers[k] = {v}}
        open == DOMAIN offers \ given
    IN {[k \in DOMAIN offers |-> IF k \in given THEN CHOOSE v \in offers[k] : TRUE ELSE f[k]] :
            f \in {g \in [open -> UNION {offers[k] : k \in open}] : \A k \in open : g[k] \in offers[k]}}
OrNone(S) == IF S = {} THEN {0} ELSE S
SeenBy(q, sees) == {p[2] : p \in {r \in Acquired(sees) : SoulSquad[r[1]] = q}}

Boards == OneOfEach([q \in SquadIds |-> Reported(Swept(memory[q]), {e \in bus : ActiveEvent(e)}, q)])
NpcAggro(boards, sees, target, enemy) ==
    /\ minds' = [n \in Alive |->
            LET m == [Refreshed(n) EXCEPT !.hits = IF minds[n].reg = 1 THEN Recent(n) ELSE @]
            IN IF target[n] = 0 THEN m ELSE [m EXCEPT !.foe = target[n], !.seen = beat]]
    /\ memory' = [q \in SquadIds |-> IF enemy[q] = 0 THEN boards[q] ELSE Write(boards[q], Enemy, enemy[q], SenseCfg.decay)]
    /\ bus' = {Sighting(p) : p \in {r \in Acquired(sees) : ~SquadEngaged(SoulSquad[r[1]], boards)}}

Sense ==
    /\ step = "quiet"
    /\ \E heard \in Boards, sees \in SUBSET Visible :
          \E target \in OneOfEach([n \in Alive |-> OrNone(TargetsOf(n, sees))]),
             enemy \in OneOfEach([q \in SquadIds |-> OrNone(SeenBy(q, sees))]) :
                NpcAggro([q \in SquadIds |-> WithThreats(heard[q], q)], sees, target, enemy)
    /\ contact' = [b \in Bands |-> [m \in Souls |->
            IF \E n \in Snapshot : Band(n) = b /\ m \in Snapshot /\ InSight(n, m) THEN beat ELSE contact[b][m]]]
    /\ step' = "sensed"
    /\ UNCHANGED <<beat, nudges, nudged>>

-----------------------------------------------------------------------------
(* apply_threat_priority: the squad's worst attacker takes the place of an *)
(* enemy whose score he passes by half or by two.                          *)

ScoreOf(list, who) == MapThenSumSet(LAMBDA t : t.score, {t \in list : t.who = who})
Dominates(top, current) == 2 * top >= 3 * current \/ top >= current + 10 * SenseCfg.threat
(* Fault model: the attacker counts as seen at the switch. *)
SwitchToAsSeen(m, top) == [m EXCEPT !.foe = top.who, !.seen = beat]

SwitchTo(m, top) == [m EXCEPT !.foe = top.who, !.seen = top.last]

Prioritised(n) ==
    LET board == IF SoulSquad[n] = 0 THEN Empty ELSE memory[SoulSquad[n]]
        list == IF Threats \in DOMAIN board THEN board[Threats].value ELSE {}
        worst == {t \in list : /\ \A u \in list : ~Before(u, t)
                               /\ minds[n].foe # 0 /\ t.who # minds[n].foe
                               /\ Dominates(t.score, ScoreOf(list, minds[n].foe))}
    IN IF worst = {} THEN minds[n] ELSE SwitchTo(minds[n], CHOOSE t \in worst : TRUE)

Prioritise ==
    /\ step = "sensed" /\ beat < MaxBeat
    /\ minds' = [n \in Alive |-> Prioritised(n)]
    /\ step' = "quiet" /\ beat' = beat + 1
    /\ UNCHANGED <<memory, bus, contact, nudges, nudged>>

-----------------------------------------------------------------------------
(* What happened in the tick before: hits (apply_npc_attribution_for_hit), *)
(* deaths (npc_death_check), steps, crossings and shots.                   *)

Hit(n, m, damage) ==
    LET old == minds[n].hits
        new == [damage |-> damage + (IF m \in DOMAIN old THEN old[m].damage ELSE 0), at |-> beat - 1]
    IN /\ minds' = [minds EXCEPT ![n].hits = SetKey(old, m, new),
                                 ![n].seen = IF minds[n].foe = 0 THEN beat - 1 ELSE @,
                                 ![n].foe = IF @ = 0 THEN m ELSE @]
       /\ memory' = IF SoulSquad[n] = 0 THEN memory
                    ELSE [memory EXCEPT ![SoulSquad[n]] = Write(@, EntryKey("fire", 0), 0, SenseCfg.fire - 1)]
       /\ contact' = [contact EXCEPT ![Band(n)][m] = beat - 1]
       /\ UNCHANGED bus

Nudge ==
    /\ step = "quiet" /\ nudged < MaxNudges /\ nudged' = nudged + 1
    /\ \E e \in nudges :
          /\ e.n \in Alive
          /\ \/ e.e = "hit" /\ e.m \in Alive /\ Hit(e.n, e.m, e.damage)
             \/ /\ e.e = "dies" /\ minds' = Restrict(minds, Alive \ {e.n})
                /\ bus' = bus \cup {[kind |-> "down", who |-> e.n, x |-> minds[e.n].x, reg |-> minds[e.n].reg, made |-> beat - 1]}
                /\ UNCHANGED <<memory, contact>>
             \/ /\ e.e = "walks" /\ minds' = [minds EXCEPT ![e.n].x = e.x]
                /\ UNCHANGED <<memory, bus, contact>>
             \/ /\ e.e = "crosses" /\ minds' = [minds EXCEPT ![e.n].reg = 3 - @]
                /\ UNCHANGED <<memory, bus, contact>>
             \/ /\ e.e = "shoots"
                /\ bus' = bus \cup {[kind |-> "shot", who |-> e.n, x |-> minds[e.n].x, reg |-> minds[e.n].reg, made |-> beat - 1]}
                /\ UNCHANGED <<minds, memory, contact>>
          /\ nudges' = nudges \ {e}
    /\ UNCHANGED <<beat, step>>

SenseNext == Sense \/ Prioritise \/ Nudge
SenseSpec == SenseInit /\ [][SenseNext]_senseVars

-----------------------------------------------------------------------------
(* Nobody is engaged, after the senses of a tick, with one whom he and his *)
(* squad have not met within the time aggro decays in, however often the   *)
(* board of threats turns him to an old attacker; and the enemy on a       *)
(* squad's board was met by someone, of whatever squad, within that time,  *)
(* however often squads hear of each other's sightings.                    *)
MindsFollowContact ==
    step = "sensed" =>
        /\ \A n \in Alive : minds[n].foe # 0 => beat - contact[Band(n)][minds[n].foe] <= SenseCfg.decay
        /\ \A q \in SquadIds : Enemy \in DOMAIN memory[q] =>
              \E b \in Bands : beat - contact[b][memory[q][Enemy].value] <= SenseCfg.decay
=============================================================================
