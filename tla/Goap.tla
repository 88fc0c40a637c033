--------------------------------- MODULE Goap ---------------------------------
(***************************************************************************)
(* The goals of combat and the choice between them (goap.rs), and the      *)
(* actions they are reached by (goap_actions.rs).  A world state is the    *)
(* set of its flags; a cost is in hundredths, the product of a faction's   *)
(* and a role's tenths.                                                    *)
(***************************************************************************)
EXTENDS Integers, Sequences, FiniteSets, SequencesExt

Action(name, pre, add, del, cost) == [name |-> name, pre |-> pre, add |-> add, del |-> del, cost |-> cost]
CanRun(a, state) == a.pre \subseteq state
Apply(a, state) == (state \cup a.add) \ a.del
Distance(state, goal) == Cardinality((state \ goal) \cup (goal \ state))

(* The costs of the doctrine whose numbers goap_actions' tests give the    *)
(* military, and role_cost_modifier.                                       *)
Military == [Shoot |-> 15, Advance |-> 45, MoveToCover |-> 8, PeekFromCover |-> 8, Flank |-> 25,
             Suppress |-> 15, Retreat |-> 50, Reload |-> 15, HealAlly |-> 15]
RoleCosts ==
    [Pointman |-> [Shoot |-> 8, Advance |-> 6, MoveToCover |-> 15, PeekFromCover |-> 12, Flank |-> 8,
                   Suppress |-> 10, Retreat |-> 20, Reload |-> 10, HealAlly |-> 20],
     Support |-> [Shoot |-> 9, Advance |-> 15, MoveToCover |-> 7, PeekFromCover |-> 8, Flank |-> 15,
                  Suppress |-> 6, Retreat |-> 12, Reload |-> 8, HealAlly |-> 15],
     Flanker |-> [Shoot |-> 10, Advance |-> 8, MoveToCover |-> 10, PeekFromCover |-> 10, Flank |-> 5,
                  Suppress |-> 15, Retreat |-> 10, Reload |-> 10, HealAlly |-> 20],
     Medic |-> [Shoot |-> 15, Advance |-> 15, MoveToCover |-> 8, PeekFromCover |-> 12, Flank |-> 20,
                Suppress |-> 20, Retreat |-> 7, Reload |-> 10, HealAlly |-> 3]]

CombatActions(costs, role) ==
    LET C(name) == costs[name] * RoleCosts[role][name]
        Act(name, pre, add, del) == Action(name, pre, add, del, C(name))
    IN {Act("Shoot", {"HAS_TARGET", "IN_RANGE", "HAS_LOS", "HAS_AMMO"}, {"TARGET_DEAD"}, {}),
        Act("Advance", {"HAS_TARGET"}, {"IN_RANGE", "HAS_LOS"}, {"IN_COVER"}),
        Act("MoveToCover", {"COVER_AVAILABLE"}, {"IN_COVER"}, {}),
        Act("PeekFromCover", {"IN_COVER", "HAS_TARGET"}, {"HAS_LOS", "IN_RANGE"}, {}),
        Act("Flank", {"HAS_TARGET"}, {"IN_RANGE", "HAS_LOS", "IS_FLANKING"}, {"IN_COVER"}),
        Act("Suppress", {"HAS_TARGET", "IN_RANGE", "HAS_LOS", "HAS_AMMO"}, {}, {}),
        Act("Retreat", {}, {"AT_SAFE_POS"}, {"IN_RANGE", "IN_COVER", "HAS_LOS"}),
        Act("Reload", {"IN_COVER"}, {"HAS_AMMO"}, {}),
        Act("HealAlly", {"ALLY_DOWN", "NEAR_ALLY"}, {}, {"ALLY_DOWN"})}

(* The goals of a situation, most urgent first; health in percent.         *)
CombatGoals(health, takingFire, allyDown, squadRetreats) ==
    LET If(c, goal) == IF c THEN <<goal>> ELSE <<>>
    IN If(squadRetreats, {"AT_SAFE_POS"})
       \o If(health < 30, {"AT_SAFE_POS"})
       \o If(health < 60, {"AT_SAFE_POS", "IN_COVER"})
       \o If(allyDown, {"NEAR_ALLY"})
       \o If(takingFire, {"IN_COVER"})
       \o <<{"TARGET_DEAD", "IN_COVER"}, {"TARGET_DEAD"}>>

-----------------------------------------------------------------------------
(* plan: the first goal that is not met and for which a way is found,      *)
(* where way[goal][state] is what the search finds.                        *)
Plan(state, goals, way) ==
    LET G == {i \in DOMAIN goals : ~(goals[i] \subseteq state) /\ way[goals[i]][state] # <<>>}
    IN IF G = {} THEN <<>> ELSE way[goals[CHOOSE i \in G : \A j \in G : i <= j]][state]
=============================================================================
