-------------------------------- MODULE Goals --------------------------------
(***************************************************************************)
(* What each person does: goal_arbitration picks a goal among candidates,  *)
(* tick_npc_goals carries it out.  A tick is Think, then Act; in between,  *)
(* and between ticks, the other systems change what both of them read.     *)
(*                                                                         *)
(* Positions are cells of 50 m in a row, the cells of the responder cap;   *)
(* rest spots are looked for as far as four of them, prey and corpses as   *)
(* far as one, and a walk covers one cell in a tick.  expires_at and       *)
(* created_tick of a goal are written and never read, the scripted claim   *)
(* and Bloodsport have no source, and the intel of other squads never      *)
(* reaches someone without a squad, since the query it needs is empty.     *)
(***************************************************************************)
EXTENDS Integers, Sequences, FiniteSets, SequencesExt

CONSTANTS
    Folk,            \* ids, naturals; in this order the systems visit them
    FolkSquad,         \* npc |-> group id, 0 for none
    FolkSide,            \* npc |-> faction
    Traits,          \* npc |-> set of traits
    FolkStart,           \* npc |-> cell
    RestSpots, HuntSpots,  \* sets of <<cell, faction>>, "" for a spot of nobody's
    Leeway,          \* sets of two factions that are warm or friendly
    BaseAt,           \* cell |-> faction
    CoverCell,           \* cell of the cover volume
    GoalCfg,             \* [delta, commit, cap, timeout, budget, maxAge, pause, arrive]
    GoalScripts,         \* sets of happenings, one for each behaviour
    MaxGoalStirs,        \* bound: happenings of a behaviour
    MaxPace          \* bound: ticks of a behaviour

VARIABLES
    pace,            \* SimClock::tick
    stage,           \* "think" or "act", what the tick does next
    folk,            \* what each has: place, goal, errand, path, Aggro, CombatStance
    boards,          \* SquadBlackboards
    tasks,           \* SquadObjectives
    begun,           \* InteractionAreas::started, of one area
    bodies,          \* CorpseIndex: sets of <<cell, faction>>
    script, stirs

goalVars == <<pace, stage, folk, boards, tasks, begun, bodies, script, stirs>>

Groups == {FolkSquad[n] : n \in Folk} \ {0}
Members(g) == {n \in Folk : FolkSquad[n] = g}
Gap(a, b) == IF a > b THEN a - b ELSE b - a
Top == Max(Folk \cup {0})
Ordered == [i \in 1..Top |-> i]
AddUp(a, b) == a + b

Kind(k, t) == [k |-> k, t |-> t]
Goal(src, kind, prio, commit) == [src |-> src, kind |-> kind, prio |-> prio, commit |-> commit, pp |-> <<>>]
IdleGoal == Goal("Idle", Kind("SoloIdleFsm", 0), 0, 0)
Errand(k, x) == [k |-> k, x |-> x]
NoTask == [kind |-> "none", route |-> <<0>>, idx |-> 1, set |-> 0]

(* The waypoints of a patrol, which may be as close together as they like  *)
(* or the same (register_patrol_route takes any list), or the one place    *)
(* of another objective.                                                   *)
IsRoute(route) == route \in Seq(Int) /\ route # <<>>
WellMeant(h) ==
    /\ h.e \in {"sees", "loses", "dies", "wound", "stance", "sleeps"} => h.n \in Folk
    /\ h.e \in {"fire", "shot", "enemy"} => h.g \in Groups /\ h.at \in Int
    /\ h.e = "task" => h.g \in Groups /\ IsRoute(h.route)
    /\ h.e \in {"fades", "focus"} => h.g \in Groups
ASSUME GoalAssumption ==
    /\ IsFiniteSet(Folk) /\ Folk \subseteq Nat \ {0} /\ FolkStart \in [Folk -> Int]
    /\ \A p \in RestSpots \cup HuntSpots : p[1] \in Int
    /\ IsFiniteSet(DOMAIN BaseAt) /\ DOMAIN BaseAt \subseteq Int /\ CoverCell \in Int
    /\ GoalCfg.cap \in Nat
    /\ \A s \in GoalScripts : \A h \in s : WellMeant(h)

IsUp(w, n) == n \in Folk /\ w[n].up
LiveTarget(w, n, t) == IsUp(w, t) /\ w[t].on = w[n].on
Present(w, g) == {n \in Members(g) : w[n].up}

(* The centroid, CellSum / Cardinality, is within some metres of a cell;   *)
(* it may be that of two.                                                  *)
CellSize == 50
CellSum(w, S) == FoldLeft(AddUp, 0, [i \in 1..Top |-> IF i \in S THEN w[i].x ELSE 0])
NearCell(w, S, cell, metres) == CellSize * Gap(CellSum(w, S), Cardinality(S) * cell) <= metres * Cardinality(S)
SocializeArriveRadius == 22
Arrived(g, cell) == NearCell(folk, Present(folk, g), cell, GoalCfg.arrive)

-----------------------------------------------------------------------------
(* Candidates.  "born" is created_tick, which settles ties.                *)

Cand(src, kind, prio, born) == [src |-> src, kind |-> kind, prio |-> prio, born |-> born]
If(c, s) == IF c THEN s ELSE <<>>

(* personality_bias_for_objective, in percent *)
Bias(kind, trait) ==
    CASE trait = "disciplined" ->
            CASE kind = "patrol" -> 160 [] kind = "guard" -> 190 [] kind \in {"explore", "wander"} -> 75 [] OTHER -> 100
      [] trait = "loyal" -> IF kind = "guard" \/ kind \in {"relieve", "regroup"} THEN 160 ELSE 100
      [] trait = "curious" ->
            CASE kind = "patrol" -> 130 [] kind = "guard" -> 50 [] kind = "investigate" -> 250
              [] kind \in {"explore", "wander"} -> 220 [] OTHER -> 100
      [] trait = "solitary" ->
            CASE kind = "patrol" -> 60 [] kind \in {"explore", "wander"} -> 160
              [] kind \in {"relieve", "regroup"} -> 50 [] OTHER -> 100
      [] trait = "cautious" -> CASE kind = "rest" -> 160 [] kind = "investigate" -> 75 [] OTHER -> 100
      [] trait = "aggressive" -> IF kind \in {"rest", "investigate"} THEN 50 ELSE 100
      [] OTHER -> 100

(* biased_priority: rounded, and at most one below an individual's aggro   *)
Biased(n, kind) ==
    LET scale == 100 ^ Cardinality(Traits[n])
        v == FoldSet(LAMBDA t, p : p * Bias(kind, t), 80, Traits[n])
        r == (2 * v + scale) \div (2 * scale)
    IN IF r > 149 THEN 149 ELSE r

(* The nearest of some spots within reach, the lower cell first.           *)
Nearest(S, x, reach) ==
    LET R == {p \in S : Gap(p, x) <= reach}
    IN IF R = {} THEN <<>>
       ELSE <<CHOOSE p \in R : \A q \in R : Gap(p, x) < Gap(q, x) \/ (Gap(p, x) = Gap(q, x) /\ p <= q)>>

Survival(w, n) ==
    LET spot == Nearest({p[1] : p \in {q \in RestSpots : q[2] \in {"", FolkSide[n]}}}, w[n].x, 4)
    IN If(w[n].vital < 25 /\ spot # <<>>,
          <<Cand("IndividualSurvival", Kind("SeekMedical", spot[1]), 220, pace)>>)

(* The first entry of the squad's threat list draws the whole squad.       *)
Aggros(w, n) ==
    LET own == w[n].aggro[1]
        focus == boards[FolkSquad[n]].focus
        t == IF focus # 0 /\ LiveTarget(w, n, focus) THEN focus ELSE own
    IN IF w[n].aggro = <<>> THEN <<>>
       ELSE If(LiveTarget(w, n, own), <<Cand("IndividualAggro", Kind("PursueTarget", own), 150, w[n].aggro[2])>>
              \o If(FolkSquad[n] # 0, <<Cand("SquadAggro", Kind("PursueTarget", t), 160, w[n].aggro[2])>>))

Responder(n) == IF FolkSquad[n] # 0 THEN <<"squad", FolkSquad[n]>> ELSE <<"solo", n>>
(* Where a goal takes its responder, "" for a goal that takes nobody anywhere. *)
Spot(w, kind) ==
    CASE kind.k = "PursueTarget" -> IF IsUp(w, kind.t) THEN <<w[kind.t].x>> ELSE <<>>
      [] kind.k = "InvestigateAt" -> <<kind.t>>
      [] kind.k = "RegroupOnAlly" -> <<kind.t[2]>>
      [] OTHER -> <<>>
Responds(w, n, kind) ==
    IF Spot(w, kind) = <<>> THEN {} ELSE {[side |-> FolkSide[n], cell |-> Spot(w, kind)[1], who |-> Responder(n)]}
Responders(w) == UNION {Responds(w, n, w[n].goal.kind) : n \in {m \in Folk : w[m].up}}

(* cap_ok: of what a board offers, only the report of an enemy is capped.  *)
CapOk(cell, n, resp) ==
    LET there == {r.who : r \in {q \in resp : q.side = FolkSide[n] /\ q.cell = cell}}
    IN Responder(n) \in there \/ Cardinality(there) < GoalCfg.cap

(* push_blackboard_candidates: the ally of the lowest id, then the places. *)
FromBoard(bb, n, resp) ==
    LET At(key, prio) == <<Cand("BlackboardUrgency", Kind("InvestigateAt", bb[key][1]), prio, bb[key][2])>>
    IN If(bb.down # {},
          LET d == CHOOSE e \in bb.down : \A f \in bb.down : e.id <= f.id
          IN <<Cand("BlackboardUrgency", Kind("RegroupOnAlly", <<d.id, d.at>>), 180, d.born)>>)
       \o If(bb.fire # <<>>, At("fire", 140)) \o If(bb.shot # <<>>, At("shot", 40))
       \o If(bb.enemy # <<>> /\ CapOk(bb.enemy[1], n, resp), At("enemy", 130))

Drives(w, n, task) ==
    LET free == FolkSquad[n] = 0 \/ task.kind \in {"none", "rest", "wander"}
        extra == IF FolkSquad[n] # 0 THEN 5 ELSE 0
        prey == Nearest({p[1] : p \in {q \in HuntSpots : q[2] # FolkSide[n]}}, w[n].x, 1)
        body == Nearest({b[1] : b \in {c \in bodies : c[2] # FolkSide[n] /\ {c[2], FolkSide[n]} \notin Leeway}}, w[n].x, 1)
    IN If("curious" \in Traits[n] /\ free /\ prey # <<>>,
          <<Cand("PersonalityBias", Kind("Hunt", prey[1]), 60 + extra, pace)>>)
       \o If("greedy" \in Traits[n] /\ free /\ body # <<>>,
          <<Cand("PersonalityBias", Kind("Loot", body[1]), 65 + extra, pace)>>)
       \o If(/\ "social" \in Traits[n] /\ task.kind = "rest"
             /\ NearCell(w, Present(w, FolkSquad[n]), task.route[1], SocializeArriveRadius),
          <<Cand("PersonalityBias", Kind("Socialize", task.route[1]), 85, pace)>>)

TaskOf(ts, n) == IF FolkSquad[n] = 0 THEN NoTask ELSE ts[FolkSquad[n]]

Candidates(w, n, resp) ==
    Survival(w, n) \o Aggros(w, n)
    \o If(FolkSquad[n] # 0, FromBoard(boards[FolkSquad[n]], n, resp))
    \o If(TaskOf(tasks, n).kind # "none",
          <<Cand("SquadObjective", Kind("SquadFollowObjective", 0), Biased(n, TaskOf(tasks, n).kind), TaskOf(tasks, n).set)>>)
    \o Drives(w, n, TaskOf(tasks, n))
    \o <<Cand("Idle", Kind("SoloIdleFsm", 0), 0, pace)>>

(* max_by: the last one of the highest priority and, among those, the oldest *)
Beats(a, b) == a.prio > b.prio \/ (a.prio = b.prio /\ a.born <= b.born)
Better(best, c) == IF Beats(c, best) THEN c ELSE best
PickWinner(cs) == FoldLeft(Better, cs[1], cs)

-----------------------------------------------------------------------------
(* goal_arbitration                                                        *)

Adopted(c) == Goal(c.src, c.kind, c.prio, IF c.src = "SquadObjective" THEN pace + GoalCfg.commit ELSE 0)
Same(goal, c) == goal.src = c.src /\ goal.kind = c.kind
Outranks(goal, c) ==
    /\ pace >= goal.commit \/ c.prio >= 140
    /\ c.prio >= goal.prio + GoalCfg.delta

(* Fault model: a goal is only given up for one that outranks it. *)
ResolveByRankOnly(goal, cs, won) == IF ~Same(goal, won) /\ Outranks(goal, won) THEN Adopted(won) ELSE goal

Resolve(goal, cs, won) ==
    IF \E i \in DOMAIN cs : Same(goal, cs[i])
    THEN IF ~Same(goal, won) /\ Outranks(goal, won) THEN Adopted(won) ELSE goal
    ELSE Adopted(won)

(* Fault model: the cap counts those of the last tick only. *)
ThinkApart(w, n) ==
    LET cs == Candidates(w.folk, n, w.resp)
    IN IF ~IsUp(w.folk, n) \/ ~w.folk[n].on THEN w
       ELSE [w EXCEPT !.folk[n].goal = Resolve(@, cs, PickWinner(cs))]

ThinkOne(w, n) ==
    IF ~IsUp(w.folk, n) \/ ~w.folk[n].on THEN w
    ELSE LET cs == Candidates(w.folk, n, w.resp)
             won == PickWinner(cs)
         IN [folk |-> [w.folk EXCEPT ![n].goal = Resolve(@, cs, won)],
             resp |-> w.resp \cup Responds(w.folk, n, won.kind)]

Think ==
    /\ stage = "think" /\ pace < MaxPace
    /\ stage' = "act"
    /\ folk' = FoldLeft(ThinkOne, [folk |-> folk, resp |-> Responders(folk)], Ordered).folk
    /\ UNCHANGED <<pace, boards, tasks, begun, bodies, script, stirs>>

-----------------------------------------------------------------------------
(* tick_npc_goals.  w is the world as this tick has changed it so far, with *)
(* the paths asked for; positions of others are those of the index, taken  *)
(* at the start of the tick.                                               *)

Toward(x, to) == CASE to > x -> x + 1 [] to < x -> x - 1 [] OTHER -> x

(* advance_with_path: a path that is missing, old or leads elsewhere is    *)
(* asked for while the tick's budget lasts, and found when everyone has    *)
(* moved; either way the walk goes on.                                     *)
NeedsPath(path, to) == path = <<>> \/ path[1].to # to \/ pace - path[1].made > GoalCfg.maxAge
Advance(w, n, to) ==
    IF w.folk[n].x = to THEN w
    ELSE LET asks == NeedsPath(w.folk[n].path, to) /\ Cardinality(w.asked) < GoalCfg.budget
         IN [w EXCEPT !.folk[n].x = Toward(@, to),
                      !.asked = IF asks THEN @ \cup {[who |-> n, to |-> to]} ELSE @]
Does(w, n, errand) == [w EXCEPT !.folk[n].errand = errand]

(* PursueTarget: where the stance sends someone whose target is at t.      *)
StandAt(p, t) ==
    CASE p.stance = "InCover" -> CoverCell
      [] p.stance = "Retreating" -> IF t >= p.x THEN p.x - 1 ELSE p.x + 1
      [] p.stance = "Suppressed" -> p.x
      [] OTHER -> t

Pursue(w, n) ==
    LET p == w.folk[n]
        t == p.goal.kind.t
        since == IF p.goal.pp = <<>> THEN [x |-> p.x, at |-> pace] ELSE p.goal.pp[1]
        late == pace - since.at >= GoalCfg.timeout
        stuck == Gap(since.x, folk[t].x) - Gap(p.x, folk[t].x) < 1
        seen == IF late THEN [x |-> p.x, at |-> pace] ELSE since
    IN IF ~LiveTarget(folk, n, t) THEN w
       ELSE IF late /\ stuck
            THEN [w EXCEPT !.folk[n].aggro = <<>>, !.folk[n].goal.pp = <<>>]
            ELSE Does(Advance([w EXCEPT !.folk[n].goal.pp = <<seen>>], n, StandAt(p, folk[t].x)),
                      n, Errand("RestAt", pace + GoalCfg.pause))

(* Fault model: the waypoint is the one the squad had when the tick began. *)
FirstTarget(w, g) == tasks[g].route[tasks[g].idx]
(* squad_target: a member that finds the squad at its waypoint moves the   *)
(* route on, and those after it look at the next one.                      *)
SquadTarget(w, g) == w.tasks[g].route[w.tasks[g].idx]
NextOn(route, i) == (i % Len(route)) + 1
AdvancePatrol(w, g) ==
    IF w.tasks[g].kind # "patrol" THEN w ELSE [w EXCEPT !.tasks[g].idx = NextOn(w.tasks[g].route, @)]

Follow(w, n) ==
    LET g == FolkSquad[n]
        to == SquadTarget(w, g)
        there == Arrived(g, to)
        walked == Advance(w, n, to)
        moved == IF there THEN AdvancePatrol(walked, g) ELSE walked
    IN IF g = 0 \/ TaskOf(w.tasks, n).kind = "none" THEN w
       ELSE IF there
            THEN Does([moved EXCEPT !.begun = IF w.tasks[g].kind = "rest" THEN @ \cup {n} ELSE @],
                      n, Errand("RestAt", pace + GoalCfg.pause))
            ELSE Does(moved, n, Errand("MoveTo", to))

(* InvestigateAt and RegroupOnAlly look where the walk has led, the others *)
(* where it begins.                                                        *)
GoTo(w, n, to) ==
    LET walked == Advance(w, n, to)
    IN Does(walked, n, IF walked.folk[n].x = to THEN Errand("RestAt", pace + GoalCfg.pause) ELSE Errand("MoveTo", to))
SettleAt(w, n, to) ==
    IF w.folk[n].x = to THEN Does(w, n, Errand("RestAt", pace + GoalCfg.pause))
    ELSE Does(Advance(w, n, to), n, Errand("MoveTo", to))

(* pick_solo_target: a base of one's own, else any, else somewhere near.   *)
SoloTarget(n) ==
    LET own == {c \in DOMAIN BaseAt : BaseAt[c] = FolkSide[n]}
        pool == IF own # {} THEN own ELSE DOMAIN BaseAt
    IN IF pool = {} THEN folk[n].x ELSE CHOOSE c \in pool : \A d \in pool : c <= d

SoloIdle(w, n) ==
    LET e == w.folk[n].errand
    IN CASE e.k = "Idle" /\ pace >= e.x -> Does(w, n, Errand("MoveTo", SoloTarget(n)))
         [] e.k = "RestAt" /\ pace >= e.x -> Does(w, n, Errand("Idle", pace + GoalCfg.pause))
         [] e.k = "MoveTo" /\ w.folk[n].x = e.x -> Does(w, n, Errand("RestAt", pace + GoalCfg.pause))
         [] e.k = "MoveTo" /\ w.folk[n].x # e.x -> Advance(w, n, e.x)
         [] OTHER -> w

ActOne(w, n) ==
    LET kind == w.folk[n].goal.kind
    IN IF ~IsUp(w.folk, n) \/ ~w.folk[n].on THEN w
       ELSE CASE kind.k = "PursueTarget" -> Pursue(w, n)
              [] kind.k = "SquadFollowObjective" -> Follow(w, n)
              [] kind.k = "InvestigateAt" -> GoTo(w, n, kind.t)
              [] kind.k = "RegroupOnAlly" -> GoTo(w, n, kind.t[2])
              [] kind.k \in {"Socialize", "Hunt", "Loot", "SeekMedical"} -> SettleAt(w, n, kind.t)
              [] kind.k = "SoloIdleFsm" -> SoloIdle(w, n)

FoundGoals(w) ==
    [n \in Folk |->
        IF \E r \in w.asked : r.who = n
        THEN [w.folk[n] EXCEPT !.path = <<[to |-> (CHOOSE r \in w.asked : r.who = n).to, made |-> pace]>>]
        ELSE w.folk[n]]

Act ==
    /\ stage = "act"
    /\ LET w == FoldLeft(ActOne, [folk |-> folk, tasks |-> tasks, begun |-> begun, asked |-> {}], Ordered)
       IN folk' = FoundGoals(w) /\ tasks' = w.tasks /\ begun' = w.begun
    /\ stage' = "think" /\ pace' = pace + 1
    /\ UNCHANGED <<boards, bodies, script, stirs>>

-----------------------------------------------------------------------------
(* What the other systems do to all this: perception and the threat board, *)
(* wounds and death, the planner, corpses, the tactical stance, and the    *)
(* regions that become active.  Each happening comes once.                 *)

Posted(g, key, v) == [boards EXCEPT ![g][key] = v]

Happens(h) ==
    \/ /\ h.e = "sees" /\ folk[h.n].up
       /\ folk' = [folk EXCEPT ![h.n].aggro = <<h.t, pace>>] /\ UNCHANGED <<boards, tasks, bodies, begun>>
    \/ /\ h.e = "loses"
       /\ folk' = [folk EXCEPT ![h.n].aggro = <<>>] /\ UNCHANGED <<boards, tasks, bodies, begun>>
    \/ /\ h.e = "dies" /\ folk[h.n].up
       /\ folk' = [folk EXCEPT ![h.n].up = FALSE]
       /\ bodies' = bodies \cup {<<folk[h.n].x, FolkSide[h.n]>>}
       /\ boards' = [g \in Groups |->
                        IF FolkSide[CHOOSE m \in Members(g) : TRUE] = FolkSide[h.n]
                        THEN [boards[g] EXCEPT !.down = @ \cup {[id |-> h.n, at |-> folk[h.n].x, born |-> pace]}]
                        ELSE boards[g]]
       /\ UNCHANGED <<tasks, begun>>
    \/ /\ h.e \in {"fire", "shot", "enemy"}
       /\ boards' = Posted(h.g, h.e, <<h.at, pace>>) /\ UNCHANGED <<folk, tasks, bodies, begun>>
    \/ /\ h.e = "fades"
       /\ boards' = [boards EXCEPT ![h.g] = [fire |-> <<>>, shot |-> <<>>, enemy |-> <<>>, down |-> {}, focus |-> 0]]
       /\ UNCHANGED <<folk, tasks, bodies, begun>>
    \/ /\ h.e = "focus" /\ boards' = Posted(h.g, "focus", h.t) /\ UNCHANGED <<folk, tasks, bodies, begun>>
    \/ /\ h.e = "wound" /\ folk' = [folk EXCEPT ![h.n].vital = h.v] /\ UNCHANGED <<boards, tasks, bodies, begun>>
    \/ /\ h.e = "stance" /\ folk' = [folk EXCEPT ![h.n].stance = h.s] /\ UNCHANGED <<boards, tasks, bodies, begun>>
    \/ /\ h.e = "sleeps" /\ folk' = [folk EXCEPT ![h.n].on = ~@] /\ UNCHANGED <<boards, tasks, bodies, begun>>
    \/ /\ h.e = "task"
       /\ tasks' = [tasks EXCEPT ![h.g] = [kind |-> h.k, route |-> h.route, idx |-> 1, set |-> pace]]
       /\ begun' = IF tasks[h.g].kind = "rest" THEN {} ELSE begun
       /\ UNCHANGED <<folk, boards, bodies>>

StirGoals ==
    /\ stage = "think" /\ stirs < MaxGoalStirs
    /\ \E h \in script : Happens(h) /\ script' = script \ {h}
    /\ stirs' = stirs + 1 /\ UNCHANGED <<pace, stage>>

GoalInit ==
    /\ pace = 0 /\ stage = "think" /\ stirs = 0 /\ begun = {} /\ bodies = {}
    /\ folk = [n \in Folk |->
                 [up |-> TRUE, on |-> TRUE, x |-> FolkStart[n], vital |-> 100, goal |-> IdleGoal,
                  errand |-> Errand("Idle", 0), path |-> <<>>, aggro |-> <<>>, stance |-> "none"]]
    /\ boards = [g \in Groups |-> [fire |-> <<>>, shot |-> <<>>, enemy |-> <<>>, down |-> {}, focus |-> 0]]
    /\ tasks = [g \in Groups |-> NoTask]
    /\ script \in GoalScripts

GoalNext ==
    \/ Think
    \/ Act
    \/ StirGoals

GoalSpec == GoalInit /\ [][GoalNext]_goalVars

-----------------------------------------------------------------------------
(* Properties.                                                             *)

(* What a goal is about is still so when it is about to be carried out: a  *)
(* pursued enemy is alive and someone's target, an investigated place is   *)
(* on the squad's board, and so on (goal_arbitration, "orphaned" goals).   *)
Meant(n, kind) ==
    LET g == FolkSquad[n] IN
    CASE kind.k = "PursueTarget" ->
            LiveTarget(folk, n, kind.t) /\ folk[n].aggro # <<>>
            /\ (folk[n].aggro[1] = kind.t \/ boards[g].focus = kind.t)
      [] kind.k = "InvestigateAt" -> \E key \in {"fire", "shot", "enemy"} : boards[g][key] # <<>> /\ boards[g][key][1] = kind.t
      [] kind.k = "RegroupOnAlly" -> \E d \in boards[g].down : d.id = kind.t[1]
      [] kind.k = "SquadFollowObjective" -> tasks[g].kind # "none"
      [] kind.k = "Socialize" -> tasks[g].kind = "rest"
      [] kind.k = "SeekMedical" -> folk[n].vital < 25
      [] kind.k = "Loot" -> \E b \in bodies : b[1] = kind.t
      [] OTHER -> TRUE
GoalsAreMeant == stage = "act" => \A n \in Folk : folk[n].up /\ folk[n].on => Meant(n, folk[n].goal.kind)

Bound(w, side, cell) == {r.who : r \in {q \in Responders(w) : q.side = side /\ q.cell = cell}}
Otherwise(g, cell) ==
    \/ boards[g].fire # <<>> /\ boards[g].fire[1] = cell
    \/ boards[g].shot # <<>> /\ boards[g].shot[1] = cell
    \/ boards[g].down # {} \/ \E n \in Members(g) : folk[n].aggro # <<>>
Joiners(side, cell) ==
    {g \in Groups : /\ <<"squad", g>> \in Bound(folk', side, cell) \ Bound(folk, side, cell)
                    /\ ~Otherwise(g, cell)}
(* The squads that join in an arbitration keep within the cap.             *)
CapHeld ==
    stage = "think" /\ stage' = "act" =>
        \A n \in Folk : \A cell \in {folk[m].x : m \in Folk} :
            LET J == Joiners(FolkSide[n], cell)
            IN J = {} \/ Cardinality(Bound(folk, FolkSide[n], cell)) + Cardinality(J) <= GoalCfg.cap

(* Squads that have no other business at a place than the report of an     *)
(* enemy join those who are there only while these are fewer than the cap, *)
(* however many decide in one tick.                                        *)
CapHolds == [][CapHeld]_goalVars

(* K moves lead a route from where it stands to its i-th waypoint, and the *)
(* squad is at each waypoint it leaves behind.                             *)
Passes(g, i, k) ==
    \E stop \in [0..k -> DOMAIN tasks[g].route] :
        /\ stop[0] = tasks[g].idx /\ stop[k] = i
        /\ \A j \in 1..k : /\ stop[j] = NextOn(tasks[g].route, stop[j - 1])
                           /\ Arrived(g, tasks[g].route[stop[j - 1]])
PassesVisited ==
    stage = "act" => \A g \in Groups :
        /\ tasks'[g].route = tasks[g].route
        /\ \E k \in 0..Cardinality(Members(g)) : Passes(g, tasks'[g].idx, k)

(* A patrol skips no waypoint: in a tick the route is moved past those     *)
(* only at which the squad is, though every member that finds it at one    *)
(* moves the route on, and past one for each member at most.  So of        *)
(* waypoints too far apart to be at two of them it passes one in a tick;   *)
(* of closer ones it may pass several (tick_npc_goals, advance_patrol).    *)
WaypointsVisited == [][PassesVisited]_goalVars
=============================================================================
