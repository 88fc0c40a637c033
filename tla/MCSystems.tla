------------------------------ MODULE MCSystems ------------------------------
(***************************************************************************)
(* The systems of a tick that touch disjoint state, each on an instance of *)
(* its own.  A behaviour belongs to one part, chosen in the initial state; *)
(* the other parts stay in an initial state of theirs.                     *)
(***************************************************************************)
EXTENDS Body, Squads, Factions, Population, Goals, Tactics, Senses, Mirrors

-----------------------------------------------------------------------------
(* Body: one player and one character of the world; a menu per behaviour.  *)

C(op, who, limb, x) == [op |-> op, who |-> who, part |-> limb, x |-> x]
Treating(who) == {C(op, who, "arm", 0) : op \in {"bandage", "disinfect", "stitch", "pack", "tourniquet", "untie"}}
Wounding(who) == Treating(who) \cup {C("hit", who, "arm", 12), C("hit", who, "arm", 30), C("antibiotics", who, "", 0)}
MCMenus == {Wounding("ann"), {c \in Wounding("bob") : c.op # "stitch"},
   {C("drug", "ann", "", d) : d \in {"adrenaline", "morphine", "antirad", "antitox", "painkiller"}}
     \cup {C("hit", "ann", "torso", 95)},
   {C("consume", "ann", "", f) : f \in {"ration", "contaminated", "energyDrink", "vodka", "dirtyWater"}}
     \cup {C("survival", "ann", "thirst", 57605), C("stamina", "ann", "", 0), C("heal", "ann", "torso", 5)}}
MCEndurance == [bob |-> 50]
MCMed == [bandaged |-> 3, stitched |-> 1, infect |-> 2, clear |-> 1, warn |-> 1, severe |-> 1]

-----------------------------------------------------------------------------
(* Squads: two squads of one faction and a hostile one, an outpost, a camp *)
(* and a field.                                                            *)

MCSquads == 1..3
MCFactionOf == <<"red", "red", "blue">>
MCSize == <<2, 1, 2>>
MCHome == <<"camp", "camp", "wild">>
MCSites == [fort |-> "outpost", camp |-> "camp", wild |-> "field"]
MCFirstOwner == [fort |-> "red", camp |-> "red"]
MCHostilePairs == {{"red", "blue"}}
MCSpots ==
    [guard |-> [red |-> {}, blue |-> {"wild"}], rest |-> [red |-> {}, blue |-> {}],
    route |-> [red |-> {}, blue |-> {"fort"}]]
MCSquadCfg ==
    [interval |-> 3, tenure |-> 4, relief |-> 2, dwell |-> 1, regroup |-> 2, cooldown |-> 2,
    disable |-> 3, stuck |-> 1, reroll |-> 4, term |-> 3, capture |-> 3]

-----------------------------------------------------------------------------
(* Factions: five of the factions of the shipped content, in the order of  *)
(* names (coalition, its vanguard, nomads, raiders, the raiders' smugglers)*)
(* with the scores it declares between them.                               *)

MCDefs == <<0, 1, 0, 0, 4>>
MCDeclared == <<<<1, 2, 50>>, <<1, 4, -100>>, <<2, 3, -50>>, <<4, 3, -100>>>>
MCShifts == {-60, 30000}
(* What factions think of each other before any shift is a score.          *)
ASSUME ContentGivesScores == BaseScore \in [Factions \X Factions -> -I16..(I16 - 1)]

-----------------------------------------------------------------------------
(* Population: two regions, two hostile factions, four people to begin     *)
(* with, one of whom is soon to die of age.                                *)

MCRegions == 1..2
MCBases == [fort |-> [reg |-> 1, fac |-> "red"], mill |-> [reg |-> 2, fac |-> "blue"]]
MCTargets == <<<<1, "red", 1>>, <<2, "blue", 1>>, <<2, "red", 2>>>>
MCEnemies == {{"red", "blue"}}
MCSpans == {3, 9}
MCSquadSizes == {2}
MCLifeCfg ==
    [process |-> 1, divisor |-> 1, leg |-> 1, stale |-> 1, cooldown |-> 2, age |-> 2, squads |-> 1, corpse |-> 2]

-----------------------------------------------------------------------------
(* Goals: three red squads, a loner of theirs, and a hostile loner.        *)

H(e, n) == [e |-> e, n |-> n]
Sees(n, t) == [e |-> "sees", n |-> n, t |-> t]
Post(key, g, x) == [e |-> key, g |-> g, at |-> x]
Task(g, k, route) == [e |-> "task", g |-> g, k |-> k, route |-> route]
MCGoalScripts ==
    {{Post("enemy", 1, 1), Post("enemy", 2, 1), Post("enemy", 3, 1), Post("fire", 1, 1), Post("shot", 2, 1),
      Sees(3, 5), Task(2, "guard", <<0>>), [e |-> "fades", g |-> 1]},
     {Sees(1, 5), [e |-> "focus", g |-> 1, t |-> 5], H("dies", 5), H("dies", 2), H("loses", 1),
      [e |-> "stance", n |-> 1, s |-> "Retreating"], [e |-> "stance", n |-> 1, s |-> "Suppressed"], H("sleeps", 1)},
     {Task(1, "patrol", <<1, 1, 2>>), Task(1, "rest", <<1>>), Task(1, "wander", <<0>>), Sees(2, 5),
      [e |-> "wound", n |-> 1, v |-> 20], H("dies", 5), [e |-> "stance", n |-> 2, s |-> "InCover"]}}
MCFolk == 1..5
MCFolkSquad == <<1, 1, 2, 3, 0>>
MCFolkSide == <<"red", "red", "red", "red", "blue">>
MCTraits ==
    [n \in 1..5 |->
    CASE n = 1 -> {"social", "curious"} [] n = 2 -> {"greedy"} [] n = 3 -> {"disciplined"} [] OTHER -> {}]
MCFolkStart == <<0, 0, 0, 0, 1>>
MCRestSpots == {<<0, "">>}
MCHuntSpots == {<<2, "blue">>}
MCLeeway == {}
MCBaseAt == [c \in {2} |-> "red"]
MCGoalCfg == [delta |-> 20, commit |-> 2, cap |-> 1, timeout |-> 2, budget |-> 2, maxAge |-> 1, pause |-> 1, arrive |-> 25]

-----------------------------------------------------------------------------
(* Tactics: a pointman and a cautious support of one side, a flanker of    *)
(* the other; two volumes, one of which shelters the wood's side as well.  *)

G == INSTANCE GoapSearch
MCTable ==
    [r \in Roles |-> [g \in FightGoals |-> [s \in FightStates |->
        G!Search(s, g, G!CombatActions(G!Military, r), 6)]]]
ASSUME SearchGivesPlans == Table \in [Roles -> [FightGoals -> [FightStates -> Seq(Seq(DOMAIN Military))]]]
MCFighters == 1..3
MCFighterSquad == <<1, 1, 0>>
MCFoe == <<3, 3, 1>>
MCHealth == <<70, 100, 70>>
MCRoleOf == <<"Pointman", "Support", "Flanker">>
MCCautious == {2}
MCFighterStart == <<"lane", "lane", "wood">>
MCSteps == [lane |-> {"yard"}, yard |-> {"lane"}, wood |-> {"yard"}]
MCNear ==
    {<<"yard", "wood">>, <<"wood", "yard">>, <<"yard", "yard">>, <<"lane", "yard">>, <<"yard", "lane">>, <<"lane", "lane">>, <<"wood", "wood">>}
MCFireLines == {"lane", "yard", "wood"} \X {"lane", "yard", "wood"}
MCCoverAt ==
    [lane |-> [lane |-> <<>>, yard |-> <<"wall">>, wood |-> <<"wall">>],
    yard |-> [lane |-> <<"wall">>, yard |-> <<>>, wood |-> <<"barrel", "wall">>],
    wood |-> [lane |-> <<"barrel">>, yard |-> <<"barrel">>, wood |-> <<>>]]
MCFurther ==
    [p \in {"lane", "yard", "wood"} |-> [q \in {"lane", "yard", "wood"} |->
    IF p = "lane" /\ q # "lane" THEN <<"barrel">> ELSE <<>>]]
MCFightCfg ==
    [window |-> 4, suppressed |-> 2, fire |-> 2, stale |-> 4, interval |-> 2, harm |-> 45,
    peek |-> [Pointman |-> 2, Support |-> 2, Flanker |-> 2, Medic |-> 1]]
MCFightScripts ==
    {{[e |-> "loses", n |-> 1], [e |-> "sees", n |-> 1, t |-> 3], [e |-> "loses", n |-> 2], [e |-> "walks", n |-> 2]},
    {[e |-> "walks", n |-> 1], [e |-> "walks", n |-> 3], [e |-> "walks", n |-> 2], [e |-> "loses", n |-> 3]},
    {[e |-> "hears", n |-> 1, who |-> 8], [e |-> "hears", n |-> 1, who |-> 9], [e |-> "walks", n |-> 1]}}

-----------------------------------------------------------------------------
(* Senses: a squad of two and a squad of one against a loner and another.  *)

Knock(n, m, damage) == [e |-> "hit", n |-> n, m |-> m, damage |-> damage]
WalkTo(n, x) == [e |-> "walks", n |-> n, x |-> x]
MCSouls == 1..5
MCSoulSquad == <<1, 1, 2, 0, 0>>
MCSoulSide == <<"red", "red", "red", "blue", "blue">>
MCHostileSides == {{"red", "blue"}}
MCSightOf == <<8, 6, 8, 3, 4>>
MCSoulStart == <<15, 28, 34, 19, 10>>
MCSenseCfg == [decay |-> 2, hearsay |-> 1, shot |-> 2, fire |-> 2, threat |-> 2, board |-> 3]
MCNudges ==
    {{Knock(1, 4, 3), WalkTo(4, 60), H("dies", 4), WalkTo(1, 60)},
    {H("crosses", 1), H("shoots", 4), Knock(3, 4, 1), H("dies", 2)}}

-----------------------------------------------------------------------------
(* Mirrors: a host and one who joins, leaves and joins again.              *)

-----------------------------------------------------------------------------
VARIABLE part     \* which part this behaviour runs

(* A part that does not run is spared the choices of its initial state.    *)
Still ==
    /\ part # "body" => menu = CHOOSE m \in Menus : TRUE
    /\ part # "people" => \A i \in DOMAIN people : people[i].die = CHOOSE s \in Spans : TRUE
    /\ part # "goals" => script = CHOOSE s \in GoalScripts : TRUE
    /\ part # "fight" => cues = CHOOSE s \in FightScripts : TRUE
    /\ part # "senses" => nudges = CHOOSE s \in Nudges : TRUE

Init ==
    /\ part \in {"body", "squads", "factions", "people", "goals", "fight", "senses", "mirror"}
    /\ BodyInit /\ SquadInit /\ FactionInit /\ PeopleInit
    /\ GoalInit /\ FightInit /\ SenseInit /\ MirrorInit
    /\ Still

Next ==
    \/ part = "body" /\ BodyNext /\ UNCHANGED <<part, squadVars, factionVars, peopleVars, goalVars, fightVars, senseVars, mirrorVars>>
    \/ part = "squads" /\ SquadNext /\ UNCHANGED <<part, bodyVars, factionVars, peopleVars, goalVars, fightVars, senseVars, mirrorVars>>
    \/ part = "factions" /\ FactionNext /\ UNCHANGED <<part, bodyVars, squadVars, peopleVars, goalVars, fightVars, senseVars, mirrorVars>>
    \/ part = "people" /\ PeopleNext /\ UNCHANGED <<part, bodyVars, squadVars, factionVars, goalVars, fightVars, senseVars, mirrorVars>>
    \/ part = "goals" /\ GoalNext /\ UNCHANGED <<part, bodyVars, squadVars, factionVars, peopleVars, fightVars, senseVars, mirrorVars>>
    \/ part = "fight" /\ FightNext /\ UNCHANGED <<part, bodyVars, squadVars, factionVars, peopleVars, goalVars, senseVars, mirrorVars>>
    \/ part = "senses" /\ SenseNext /\ UNCHANGED <<part, bodyVars, squadVars, factionVars, peopleVars, goalVars, fightVars, mirrorVars>>
    \/ part = "mirror" /\ MirrorNext /\ UNCHANGED <<part, bodyVars, squadVars, factionVars, peopleVars, goalVars, fightVars, senseVars>>

Spec == Init /\ [][Next]_<<part, bodyVars, squadVars, factionVars, peopleVars, goalVars, fightVars, senseVars, mirrorVars>>
=============================================================================
