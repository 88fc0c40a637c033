------------------------------- MODULE Tactics -------------------------------
(***************************************************************************)
(* Fighters who have found an enemy: their plans and stances, the cover    *)
(* they claim (npc_tactical.rs, cover.rs), their shots (npc_combat.rs) and *)
(* what the hits do to them (projectiles.rs).  Positions are places; what  *)
(* lies near a place is a constant.  The world is seeded with volumes that *)
(* fire does not destroy, so none is destroyed here.                       *)
(***************************************************************************)
EXTENDS Goap

CONSTANTS
    Fighters, FighterSquad, Foe, Health, RoleOf, Cautious,  \* their squads (0: none), first enemy and health, the role assign gives, the cautious ones
    FighterStart, Steps,     \* where each stands at first, and the places next to a place
    Near,             \* the pairs of places within engage range of each other
    CoverAt, Further,   \* the volumes that shelter at a place from a place, nearest first; those only the cautious look at
    FireLines,            \* the pairs of places with a line of sight of at most 80 m
    Table,            \* what Search finds, for a role, a goal and a state
    FightCfg,              \* the window of suppression and its length, of fire, a plan's age, peeks, the interval and harm of shots
    FightScripts, MaxFightStirs, MaxInstant

VARIABLES
    instant,   \* SimClock
    scene,     \* "aggro", "tactics" or "goals": the systems of a tick that have run
    fighters,  \* the combat components of each who is not despawned
    claims,    \* occupied_by
    settled,   \* the claims of the last tick, of those still engaged
    downed,    \* the DownedAlly entries of a squad's blackboard
    cues, stirred   \* what other systems may yet do, and how often they did

fightVars == <<instant, scene, fighters, claims, settled, downed, cues, stirred>>

Grounds == DOMAIN CoverAt
FightVolumes == UNION {Range(CoverAt[p][q] \o Further[p][q]) : p \in Grounds, q \in Grounds}
Roles == DOMAIN RoleCosts
FightGoals == {{"AT_SAFE_POS"}, {"AT_SAFE_POS", "IN_COVER"}, {"NEAR_ALLY"}, {"IN_COVER"}, {"TARGET_DEAD", "IN_COVER"}, {"TARGET_DEAD"}}
FightStates == {{"HAS_TARGET", "HAS_AMMO"} \cup s : s \in SUBSET {"IN_RANGE", "HAS_LOS", "COVER_AVAILABLE", "IN_COVER"}}

(* Ids are positive, and the search gives names of actions.                *)
ASSUME FightAssumption ==
    /\ IsFiniteSet(Fighters) /\ Fighters \subseteq Nat \ {0}
    /\ Foe \in [Fighters -> Fighters \cup {0}] /\ Health \in [Fighters -> Int] /\ RoleOf \in [Fighters -> Roles]
    /\ FighterStart \in [Fighters -> Grounds] /\ Steps \in [Grounds -> SUBSET Grounds]
    /\ {CoverAt, Further} \subseteq [Grounds -> [Grounds -> Seq(FightVolumes)]]
    /\ \A r \in Roles, g \in FightGoals, s \in FightStates : Table[r][g][s] \in Seq(Seq(DOMAIN Military))
    /\ FightCfg.suppressed \in Nat /\ FightCfg.harm \in Nat /\ FightCfg.peek \in [Roles -> Nat]

Volumes == DOMAIN claims
Nobody == 0
Living == DOMAIN fighters
Live(n) == n \in Living /\ fighters[n].health > 0
Stance(is, vol, until) == [is |-> is, vol |-> vol, until |-> until]
NoStance == Stance("none", 0, 0)
NoPlan == [made |-> FALSE, acts |-> <<>>, since |-> 0, key |-> {}]

FightInit ==
    /\ instant = 1 /\ scene = "aggro" /\ settled = {} /\ stirred = 0
    /\ fighters = [n \in Fighters |-> [where |-> FighterStart[n], health |-> Health[n], foe |-> Foe[n], role |-> "none",
                                       stance |-> NoStance, plan |-> NoPlan, hits |-> [m \in Fighters |-> 0]]]
    /\ claims = [v \in FightVolumes |-> Nobody]
    /\ downed = [q \in Range(FighterSquad) |-> {}]
    /\ cues \in FightScripts

-----------------------------------------------------------------------------
(* What one fighter sees                                                   *)

(* The events of RecentAttackers are one for each attacker, with the tick  *)
(* of the latest hit: hits in the window and distinct attackers are one    *)
(* number, and the threshold of attackers, the smaller, decides.           *)
HitWithin(f, ticks) == {m \in Fighters : f.hits[m] # 0 /\ instant - f.hits[m] < ticks}
IsSuppressed(f) == Cardinality(HitWithin(f, FightCfg.window)) >= 2
TakingFire(f) == HitWithin(f, FightCfg.fire) # {}
Close(f) == <<f.where, fighters[f.foe].where>> \in Near
Role(f) == IF f.role = "none" THEN "Support" ELSE f.role
SquadRetreats(n) == FighterSquad[n] # 0 /\ Cardinality(downed[FighterSquad[n]]) >= 2
MedicCares(n, f) == FighterSquad[n] # 0 /\ downed[FighterSquad[n]] # {} /\ Role(f) = "Medic"
InCover(f) == f.stance.is = "InCover"

(* Fault model: a volume is offered to anyone. *)
IsAnything(v, n) == TRUE
IsFree(v, n) == claims[v] \in {Nobody, n}
NearestCoverFor(n, f) ==
    LET around == CoverAt[f.where][fighters[f.foe].where]
        further == IF n \in Cautious THEN Further[f.where][fighters[f.foe].where] ELSE <<>>
        vols == around \o further
        free == {i \in DOMAIN vols : IsFree(vols[i], n)}
    IN IF free = {} THEN <<>> ELSE <<vols[CHOOSE i \in free : \A j \in free : i <= j]>>

(* The flags the actions and goals speak of, and those a plan is kept for. *)
Flags(f, cover) ==
    {"HAS_TARGET", "HAS_AMMO"}
        \cup (IF cover # <<>> THEN {"COVER_AVAILABLE"} ELSE {})
        \cup (IF Close(f) \/ f.stance.is = "Firing" THEN {"IN_RANGE", "HAS_LOS"} ELSE {})
        \cup (IF InCover(f) THEN {"IN_COVER", "HAS_LOS"} ELSE {})
PlanKey(f, cover) ==
    {k \in {"fire", "low", "suppressed", "cover"} :
        CASE k = "fire" -> TakingFire(f) [] k = "low" -> f.health < 30
          [] k = "suppressed" -> IsSuppressed(f) [] k = "cover" -> cover # <<>>}

NeedsReplan(f, key) ==
    \/ f.plan.acts = <<>>
    \/ instant - f.plan.since > FightCfg.stale
    \/ f.plan.key # key
Planned(n, f, cover, key) ==
    LET goals == CombatGoals(f.health, TakingFire(f), MedicCares(n, f), SquadRetreats(n))
        found == Plan(Flags(f, cover), goals, Table[Role(f)])
    IN IF NeedsReplan(f, key) /\ found # <<>>
       THEN [made |-> TRUE, acts |-> found[1], since |-> instant, key |-> key] ELSE f.plan

-----------------------------------------------------------------------------
(* The next stance                                                         *)

Hide(v, until) == Stance("InCover", v, until)
Fires == Stance("Firing", 0, 0)
CoverOr(cover, otherwise) == IF cover # <<>> THEN Hide(cover[1], 0) ELSE otherwise

ByAction(f, act, cover) ==
    CASE act = "MoveToCover" -> CoverOr(cover, Fires)
      [] act \in {"PeekFromCover", "Shoot", "Suppress"} ->
            IF InCover(f) THEN Hide(f.stance.vol, instant + FightCfg.peek[Role(f)]) ELSE Fires
      [] act = "Advance" ->
            IF Role(f) = "Pointman" /\ f.health > 70 THEN Fires ELSE Stance("Approaching", 0, 0)
      [] act = "Flank" -> Stance("Flanking", 0, 0)
      [] act = "Retreat" -> Stance("Retreating", 0, 0)
      [] act \in {"Reload", "HealAlly"} ->
            IF InCover(f) THEN Hide(f.stance.vol, 0) ELSE CoverOr(cover, Stance("Approaching", 0, 0))

WithoutPlan(f, cover) ==
    IF f.stance.is = "none" THEN Stance("Approaching", 0, 0)
    ELSE IF \/ f.stance.is = "Approaching" /\ Close(f)
            \/ f.stance.is = "Suppressed" /\ instant >= f.stance.until
         THEN IF Role(f) = "Flanker" THEN Stance("Flanking", 0, 0) ELSE CoverOr(cover, Fires)
         ELSE f.stance

NewStance(n, f, acts, cover) ==
    IF SquadRetreats(n) THEN Stance("Retreating", 0, 0)
    ELSE IF IsSuppressed(f) /\ f.stance.is # "Retreating" THEN Stance("Suppressed", 0, instant + FightCfg.suppressed)
    ELSE IF acts # <<>> THEN ByAction(f, Head(acts), cover) ELSE WithoutPlan(f, cover)

(* A first plan is inserted by a command and acted on in the next tick;    *)
(* a later one at once.                                                    *)
Decided(n, f, cover, plan) ==
    LET acts == IF f.plan.made THEN plan.acts ELSE <<>>
        new == NewStance(n, f, acts, cover)
        moved == f.stance.is # new.is
    IN [f EXCEPT !.stance = new,
                 !.plan = IF moved /\ acts # <<>> THEN [plan EXCEPT !.acts = Tail(acts)] ELSE plan]

Engaged(n) == fighters[n].foe # 0
Tactical(n) ==
    LET f == fighters[n]
        cover == NearestCoverFor(n, f)
    IN IF ~Engaged(n) THEN f
       ELSE IF ~Live(f.foe) THEN [f EXCEPT !.stance = NoStance]
            ELSE [Decided(n, f, cover, Planned(n, f, cover, PlanKey(f, cover))) EXCEPT !.role = RoleOf[n]]

(* Releases come before claims, and the last claim of a volume stays.      *)
(* Those who lose their target, or the Aggro, release nothing.             *)
ClaimsOf(new) == {<<new[n].stance.vol, n>> : n \in {m \in Living : Engaged(m) /\ new[m].stance.is = "InCover"}}
Leaving(new) == {n \in Living : Engaged(n) /\ Live(fighters[n].foe) /\ InCover(fighters[n]) /\ new[n].stance.is # "InCover"}
Claimed(old, pushed) ==
    {last \in [Volumes -> Fighters \cup {Nobody}] :
        \A v \in Volumes : IF \E c \in pushed : c[1] = v THEN <<v, last[v]>> \in pushed ELSE last[v] = old[v]}

Adopt(new) ==
    /\ fighters' = new
    /\ settled' = ClaimsOf(new)
    /\ claims' \in Claimed([v \in Volumes |-> IF claims[v] \in Leaving(new) THEN Nobody ELSE claims[v]], settled')
NpcTactical ==
    /\ scene = "aggro"
    /\ Adopt([n \in Living |-> Tactical(n)])
    /\ scene' = "tactics"
    /\ UNCHANGED <<instant, downed, cues, stirred>>

-----------------------------------------------------------------------------
(* Shots, hits and deaths                                                  *)

CanFire(stance) ==
    /\ stance.is # "Retreating"
    /\ stance.is = "Suppressed" => instant >= stance.until
    /\ stance.is = "InCover" => instant < stance.until
Shooters ==
    IF instant % FightCfg.interval # 0 THEN {}
    ELSE {n \in Living : /\ Engaged(n) /\ CanFire(fighters[n].stance) /\ Live(fighters[n].foe)
                         /\ <<fighters[n].where, fighters[fighters[n].foe].where>> \in FireLines}

(* apply_npc_attribution_for_hit, for all who hit n; one of them is the    *)
(* first, whom an n without an enemy turns upon unless he dies of the hit. *)
Struck(n, by, first) ==
    LET f == fighters[n]
        harmed == f.health - FightCfg.harm * Cardinality(by)
    IN IF by = {} THEN f
       ELSE [f EXCEPT !.health = harmed, !.hits = [m \in Fighters |-> IF m \in by THEN instant ELSE f.hits[m]],
                      !.foe = IF f.foe = 0 /\ f.health > FightCfg.harm THEN first ELSE f.foe]

(* The dead are despawned, and their squad told (by an event that the next *)
(* tick drains), before the rounds of this tick fly; whether a round is    *)
(* fired and hits is chance, and it hits in the tick it is fired.          *)
Combat ==
    /\ scene = "tactics"
    /\ \E hitting \in SUBSET Shooters :
          LET left == {n \in Living : fighters[n].health > 0}
              By(n) == {m \in hitting : fighters[m].foe = n}
          IN \E first \in [left -> Fighters] :
                /\ \A n \in left : IF By(n) = {} THEN first[n] = n ELSE first[n] \in By(n)
                /\ fighters' = [n \in left |-> Struck(n, By(n), first[n])]
                /\ settled' = {c \in settled : c[2] \in left}
                /\ downed' = [q \in DOMAIN downed |-> downed[q] \cup {n \in Living \ left : FighterSquad[n] = q}]
    /\ instant < MaxInstant /\ instant' = instant + 1 /\ scene' = "aggro"
    /\ UNCHANGED <<claims, cues, stirred>>

-----------------------------------------------------------------------------
(* What other systems do: npc_aggro finds an enemy before the tactics, it  *)
(* or a pursuit that gets nowhere gives one up, people walk after them,    *)
(* and the event bus tells a squad of a death near it.                     *)

StirFight ==
    /\ stirred < MaxFightStirs /\ stirred' = stirred + 1
    /\ \E c \in cues :
          /\ c.n \in Living
          /\ \/ /\ c.e = "sees" /\ scene = "aggro" /\ ~Engaged(c.n) /\ Live(c.t)
                /\ fighters' = [fighters EXCEPT ![c.n].foe = c.t]
                /\ UNCHANGED settled
             \/ /\ c.e = "loses" /\ Engaged(c.n)
                /\ fighters' = [fighters EXCEPT ![c.n].foe = 0]
                /\ settled' = {k \in settled : k[2] # c.n}
             \/ /\ c.e = "walks" /\ scene = "tactics"
                /\ \E p \in Steps[fighters[c.n].where] : fighters' = [fighters EXCEPT ![c.n].where = p]
                /\ UNCHANGED settled
             \/ /\ c.e = "hears" /\ scene = "aggro" /\ FighterSquad[c.n] # 0
                /\ downed' = [downed EXCEPT ![FighterSquad[c.n]] = @ \cup {c.who}]
                /\ UNCHANGED <<fighters, settled>>
          /\ c.e # "hears" => UNCHANGED downed
          /\ cues' = cues \ {c}
    /\ UNCHANGED <<instant, scene, claims>>

FightNext == NpcTactical \/ Combat \/ StirFight
FightSpec == FightInit /\ [][FightNext]_fightVars

-----------------------------------------------------------------------------
(* No one takes, in a step of the tactics, the volume of one who stays.     *)
Holds(f, v) == InCover(f) /\ f.stance.vol = v
TakenTogether ==
    scene = "aggro" /\ scene' = "tactics" =>
        \A c \in settled, n \in Living :
            c[2] # n /\ Holds(fighters'[c[2]], c[1]) /\ Holds(fighters'[n], c[1]) => Holds(fighters[n], c[1])

(* A volume that someone has held since the last tick, is still in and     *)
(* stays in is not taken by another in a step of the tactics, whatever     *)
(* claims were left behind by those who died, lost their enemy or moved    *)
(* on.  Two who come to a volume in the same tick may share it.            *)
CoverTakenTogether == [][TakenTogether]_fightVars
=============================================================================
