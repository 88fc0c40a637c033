------------------------------- MODULE Squads -------------------------------
(***************************************************************************)
(* The squad planner of one active region: objectives, the claims on guard *)
(* posts, the occupancy of a rest area, and the capture of bases.  A step  *)
(* of Begin runs the passes that see every squad (cohesion, early exit,    *)
(* pruning, relief, first objective, drift); then each squad has its turn  *)
(* in the order of ids (Plan); then bases change hands (Finish).  Between  *)
(* two ticks the squads move, fight, scatter, leave the active region or   *)
(* die, and come back.                                                     *)
(*                                                                         *)
(* A position is one of a few places far from each other.  Utilities and   *)
(* noise, which pick a kind of objective, and the random generator, which  *)
(* picks among candidates, are choices; recently_visited only narrows the  *)
(* candidates and is left out.  The claim that try_*_from_activity_points  *)
(* takes on an activity point is dropped again by release_group before the *)
(* turn ends, so it is not a variable.                                     *)
(***************************************************************************)
EXTENDS Integers, Sequences, FiniteSets, SequencesExt, FiniteSetsExt

CONSTANTS
    Squads,          \* group ids, naturals
    FactionOf, Size, \* squad |-> faction, number of members
    Home,            \* squad |-> the place it starts from
    Sites,           \* place |-> "outpost", "camp", "hq", or "field" where no base is
    FirstOwner,      \* place of a base |-> faction
    HostilePairs,    \* sets of two factions
    Standing,        \* factions with territorial standing in the region
    Spots,           \* ("guard", "rest", "route") |-> faction |-> places with activity points
    RestSite, RestRoom,  \* the place of the interaction area and its capacity
    SquadCfg,             \* [interval, tenure, relief, dwell, regroup, cooldown, disable, stuck, reroll, term, capture]
    MaxEvents,       \* bound: what happens between the ticks of a behaviour
    MaxSquadTicks          \* bound: ticks of a behaviour

VARIABLES
    now,             \* SimClock::tick
    at, present, aggroed, spread,    \* NpcPositionIndex and Aggro, per squad
    objective,       \* SquadObjectives::by_group
    posts,           \* GuardPosts::by_key
    owner,           \* InFaction of the bases
    occupants,       \* of the rest area
    taken,           \* taken_rest_anchors and relief_targeted of this tick
    turns,           \* squads whose turn is still to come; {0} when the tick is over
    events

squadVars == <<now, at, present, aggroed, spread, objective, posts, owner, occupants, taken, turns, events>>

ASSUME SquadAssumption ==
    /\ IsFiniteSet(Squads) /\ Squads \subseteq Nat \ {0} /\ Max(Squads) \in Nat
    /\ Home \in [Squads -> DOMAIN Sites]
    /\ RestRoom \in Nat

Places == DOMAIN Sites
BasePlaces == {p \in Places : Sites[p] # "field"}
None == [kind |-> "none"]
Never == -1
Forever == 1000
NoClaim == [by |-> 0]

Held(ps, p) == ps[p] # NoClaim
HeldBy(ps, p, g) == ps[p] # NoClaim /\ ps[p].by = g
Claim(g) == [by |-> g, since |-> now, fac |-> FactionOf[g]]
Moving == {"patrol", "investigate", "explore", "relieve", "wander"}
TicksSince(since) == IF now >= since THEN now - since ELSE 0

(* What a squad is told to do; "post" and "area" say whether the objective *)
(* carries a post_key and an area_id.                                      *)
Shape(kind, route, post, area) == [kind |-> kind, route |-> route, post |-> post, area |-> area]
Wander == Shape("wander", <<>>, FALSE, FALSE)
Term(kind) ==
    CASE kind = "guard" -> Forever [] kind = "regroup" -> now + SquadCfg.regroup [] OTHER -> now + SquadCfg.term

FreshObjective(g) ==
    [kind |-> "wander", route |-> <<>>, post |-> FALSE, area |-> FALSE, exp |-> now + SquadCfg.term,
     set |-> now, arrived |-> Never, disperse |-> FALSE, pos |-> "", ptick |-> 0, stuck |-> "",
     off |-> 0, exit |-> Never, drift |-> FALSE]
Told(o, shape) ==
    [o EXCEPT !.kind = shape.kind, !.route = shape.route, !.post = shape.post, !.area = shape.area,
              !.exp = Term(shape.kind), !.set = now]

(* position_of_objective *)
PositionOf(o) == IF o.kind \in {"wander", "regroup"} \/ o.route = <<>> THEN "" ELSE o.route[1]

-----------------------------------------------------------------------------
(* The passes that see every squad.                                        *)

CoolingDown(o) == o.exit # Never /\ TicksSince(o.exit) < SquadCfg.cooldown
Breaks(o) ==
    \/ o = None
    \/ /\ o.kind # "regroup"
       /\ now >= o.off
       /\ ~(o.kind \in Moving /\ CoolingDown(o))

(* A squad that is scattered regroups where its centre is.  Whatever it    *)
(* held, a post or a place in the rest area, is not given up here.         *)
CohesionPass(objs) ==
    [g \in Squads |->
        IF g \in present \cap spread /\ Size[g] >= 2 /\ Breaks(objs[g])
        THEN Told(IF objs[g] = None THEN FreshObjective(g) ELSE objs[g], Shape("regroup", <<at[g]>>, FALSE, FALSE))
        ELSE objs[g]]

Gathered(o, g) == o.kind = "regroup" /\ g \in present \ spread /\ o.route = <<at[g]>>
RegroupEarlyExitPass(objs) ==
    [g \in Squads |-> IF Gathered(objs[g], g) THEN [objs[g] EXCEPT !.exp = now] ELSE objs[g]]

PruneObjectives(objs) == [g \in Squads |-> IF g \in present THEN objs[g] ELSE None]
PrunePosts(ps) == [p \in Places |-> IF Held(ps, p) /\ ps[p].by \notin present THEN NoClaim ELSE ps[p]]

Arrives(objs, g) ==
    /\ objs[g].kind = "relieve"
    /\ g \notin aggroed
    /\ objs[g].route = <<at[g]>>

(* The squad that had the post is free to wander, whichever post it was    *)
(* guarding; the one that came takes the claim.                            *)
HandleRelief(w, g) ==
    LET p == at[g]
        old == IF Held(w.ps, p) THEN w.ps[p].by ELSE 0
        freed == IF old \in Squads /\ w.objs[old].kind = "guard" /\ w.objs[old].post
                 THEN [w.objs EXCEPT ![old] = [@ EXCEPT !.kind = "wander", !.route = <<>>,
                                               !.post = FALSE, !.exp = now, !.drift = TRUE]]
                 ELSE w.objs
    IN IF g \notin present \/ ~Arrives(w.objs, g) THEN w
       ELSE [objs |-> [freed EXCEPT ![g] = Told(@, Shape("guard", <<p>>, TRUE, FALSE))],
             ps |-> [w.ps EXCEPT ![p] = Claim(g)]]

(* In the order of ids.                                                    *)
HandleReliefArrivals(objs, ps) ==
    FoldLeft(HandleRelief, [objs |-> objs, ps |-> ps], [g \in 1..Max(Squads) |-> g])

(* A squad without objective wanders, and first walks away from its spawn. *)
SeedPass(objs) ==
    [g \in Squads |->
        IF objs[g] = None /\ g \in present \ aggroed
        THEN [FreshObjective(g) EXCEPT !.disperse = TRUE, !.pos = at[g], !.ptick = now] ELSE objs[g]]

(* The legs of a wandering squad end at random points, which are none of   *)
(* the places, so here a leg ends only by its age.  Its age and the        *)
(* squad's lack of progress are counted from the same tick.                *)
DriftPass(objs) ==
    [g \in Squads |->
        CASE objs[g] = None -> None
          [] objs[g] # None /\ objs[g].kind # "wander" -> [objs[g] EXCEPT !.drift = FALSE]
          [] objs[g] # None /\ objs[g].kind = "wander"
             /\ (~objs[g].drift \/ TicksSince(objs[g].ptick) >= SquadCfg.reroll) ->
                [objs[g] EXCEPT !.drift = TRUE, !.ptick = now]
          [] OTHER -> objs[g]]

TakenAtStart(objs) ==
    [rest |-> {objs[g].route[1] : g \in {h \in Squads : objs[h].kind = "rest"}},
     relief |-> {objs[g].route[1] : g \in {h \in Squads : objs[h].kind = "relieve"}}]

Relieved == HandleReliefArrivals(PruneObjectives(RegroupEarlyExitPass(CohesionPass(objective))),
                                 PrunePosts(posts))

TickOver == turns = {0}

Begin ==
    /\ TickOver
    /\ turns' = present
    /\ objective' = DriftPass(SeedPass(Relieved.objs))
    /\ posts' = Relieved.ps
    /\ taken' = TakenAtStart(Relieved.objs)
    /\ UNCHANGED <<now, at, present, aggroed, spread, owner, occupants, events>>

-----------------------------------------------------------------------------
(* The turn of a squad.                                                    *)

(* Dispersal: the squad keeps walking as long as it makes progress and has *)
(* not arrived; it plans again when it has come to a halt for too long.    *)
(* The point it walks to is random: once it has moved it may be there.     *)
WalksOn(o, g) == o # None /\ o.disperse /\ (at[g] # o.pos \/ TicksSince(o.ptick) <= SquadCfg.stuck)
Walk(o, g) == IF at[g] # o.pos THEN [o EXCEPT !.pos = at[g], !.ptick = now] ELSE o
ArrivedAway(o, g) == o # None /\ o.disperse /\ at[g] # o.pos
StopsWalking(o, g) ==
    CASE o = None \/ (o # None /\ ~o.disperse) -> o
      [] ArrivedAway(o, g) -> [o EXCEPT !.disperse = FALSE]
      [] OTHER -> [o EXCEPT !.disperse = FALSE, !.pos = at[g], !.ptick = now]

AtTarget(o, g) == PositionOf(o) = at[g]
Noted(o, g) ==
    [o EXCEPT !.arrived = IF AtTarget(o, g) /\ @ = Never THEN now
                          ELSE IF ~AtTarget(o, g) THEN Never ELSE @]
Stuck(o, g) == ~AtTarget(o, g) /\ o.pos = at[g] /\ TicksSince(o.ptick) > SquadCfg.stuck

(* Stuck detection of the objectives that move: progress is noted, and a   *)
(* squad that makes none for too long loses its objective and may not have *)
(* the same kind next.                                                     *)
Watch(o, g) ==
    IF o = None \/ o.kind \notin Moving THEN o
    ELSE IF at[g] # o.pos \/ AtTarget(o, g) THEN [Noted(o, g) EXCEPT !.pos = at[g], !.ptick = now]
    ELSE IF Stuck(o, g) THEN [Noted(o, g) EXCEPT !.exp = now, !.stuck = o.kind, !.pos = at[g], !.ptick = now]
    ELSE Noted(o, g)

NeedsNew(o, g) ==
    \/ o = None
    \/ o # None /\ o.kind = "guard" /\ o.post
       /\ (~HeldBy(posts, o.route[1], g) \/ TicksSince(posts[o.route[1]].since) >= SquadCfg.tenure)
    \/ o # None /\ o.kind = "investigate" /\ o.arrived # Never /\ TicksSince(o.arrived) >= SquadCfg.dwell
    \/ o # None /\ ~(o.kind = "guard" /\ o.post) /\ o.exp <= now

RegroupFailed(o) == o.kind = "regroup" /\ TicksSince(o.set) >= SquadCfg.regroup

(* The candidates of each kind.  An empty set of candidates makes the      *)
(* squad wander.                                                           *)
Patrols(g) ==
    LET spots == Spots.route[FactionOf[g]]
        own == {p \in BasePlaces : owner[p] = FactionOf[g]}
        pool == IF own # {} THEN own ELSE BasePlaces
    IN IF spots # {} THEN {Shape("patrol", SetToSeq(spots), FALSE, FALSE)}
       ELSE {Shape("patrol", s, FALSE, FALSE) : s \in SetToSeqs(pool)}

(* Fault model: a post another squad holds is offered too. *)
UnpostedAnyway(g) == {p \in BasePlaces : owner[p] = FactionOf[g]}

Unposted(g) ==
    {p \in BasePlaces : owner[p] = FactionOf[g] /\ ~(Held(posts, p) /\ posts[p].by # g)}

ReliefDue(g) ==
    {p \in Places : /\ Held(posts, p)
                    /\ posts[p].fac = FactionOf[g]
                    /\ posts[p].by # g
                    /\ TicksSince(posts[p].since) >= SquadCfg.relief
                    /\ p \notin taken.relief}

CaptureTargets(g) ==
    {p \in BasePlaces : Sites[p] \notin {"hq", "camp"} /\ {FactionOf[g], owner[p]} \in HostilePairs}

(* Without a hostile base the target is a random point, a place as good as *)
(* any.                                                                    *)
Investigations(g) ==
    {Shape("investigate", <<p>>, FALSE, FALSE) : p \in (IF CaptureTargets(g) # {} THEN CaptureTargets(g) ELSE {RestSite})}

Guards(g) ==
    IF FactionOf[g] \notin Standing THEN Investigations(g)
    ELSE IF Spots.guard[FactionOf[g]] # {}
         THEN {Shape("guard", <<p>>, FALSE, FALSE) : p \in Spots.guard[FactionOf[g]]}
    ELSE IF Unposted(g) # {} THEN {Shape("guard", <<p>>, TRUE, FALSE) : p \in Unposted(g)}
    ELSE {Shape("relieve", <<p>>, TRUE, FALSE) : p \in ReliefDue(g)}

(* Fault model: the last place of an area is given out twice. *)
HasRoomForOneMore(g) == occupants <= RestRoom

AreaHasRoom(g) == occupants < RestRoom

Rests(g) ==
    LET camps == {p \in BasePlaces : Sites[p] = "camp"}
        same == {p \in BasePlaces : owner[p] = FactionOf[g] /\ Sites[p] = "outpost"}
        pool == (IF camps # {} THEN camps ELSE same) \ taken.rest
    IN IF Spots.rest[FactionOf[g]] # {}
       THEN {Shape("rest", <<p>>, FALSE, FALSE) : p \in Spots.rest[FactionOf[g]]}
       ELSE IF AreaHasRoom(g) /\ at[g] = RestSite THEN {Shape("rest", <<RestSite>>, FALSE, TRUE)}
       ELSE {Shape("rest", <<p>>, FALSE, FALSE) : p \in pool}

Explorations(g) == {Shape("explore", <<p>>, FALSE, FALSE) : p \in {q \in Places : Sites[q] = "field"}}

(* Weights of the faction, personality and the news on the blackboard make *)
(* a utility of each kind, to which noise is added: any kind may win       *)
(* except the one the squad has just been stuck with.                      *)
Kinds == {"patrol", "guard", "investigate", "rest", "explore", "wander"}
Winners(banned) == Kinds \ {banned}
Built(kind, g) ==
    CASE kind = "patrol" -> Patrols(g) [] kind = "guard" -> Guards(g)
      [] kind = "investigate" -> Investigations(g) [] kind = "rest" -> Rests(g)
      [] kind = "explore" -> Explorations(g) [] kind = "wander" -> {Wander}
PickObjective(banned, g) ==
    UNION {IF Built(k, g) = {} THEN {Wander} ELSE Built(k, g) : k \in Winners(banned)}

LeavesArea(o) == o.kind = "rest" /\ o.area

PostsAfter(old, new, g) ==
    LET left == IF old.kind = "guard" /\ old.post /\ HeldBy(posts, old.route[1], g)
                THEN [posts EXCEPT ![old.route[1]] = NoClaim] ELSE posts
    IN IF new.kind = "guard" /\ new.post THEN [left EXCEPT ![new.route[1]] = Claim(g)] ELSE left

(* The area is reserved while the objective is built, the old place given  *)
(* back afterwards.                                                        *)
OccupantsAfter(old, new) ==
    LET reserved == occupants + IF new.area /\ occupants < RestRoom THEN 1 ELSE 0
    IN reserved - IF LeavesArea(old) /\ reserved > 0 THEN 1 ELSE 0

TakenAfter(new) ==
    [rest |-> taken.rest \cup (IF new.kind = "rest" THEN {new.route[1]} ELSE {}),
     relief |-> taken.relief \cup (IF new.kind = "relieve" THEN {new.route[1]} ELSE {})]

(* Everything a squad whose objective is over does to get the next one.    *)
Replan(old, failed, g) ==
    \E new \in PickObjective(old.stuck, g) :
        /\ objective' = [objective EXCEPT ![g] =
               [Told(old, new) EXCEPT !.stuck = "",
                   !.off = IF failed THEN now + SquadCfg.disable ELSE @,
                   !.exit = IF old.kind = "regroup" THEN now ELSE @]]
        /\ posts' = PostsAfter(old, new, g)
        /\ occupants' = OccupantsAfter(old, new)
        /\ taken' = TakenAfter(new)

Keep(o, g) == /\ objective' = [objective EXCEPT ![g] = o]
              /\ UNCHANGED <<posts, occupants, taken>>

MyTurn(g) == g % SquadCfg.interval = now % SquadCfg.interval /\ g \notin aggroed

Replanned(o, w, g) ==
    IF ~NeedsNew(w, g) THEN Keep(w, g)
    ELSE IF w = None THEN Replan(FreshObjective(g), FALSE, g) ELSE Replan(w, RegroupFailed(w), g)

TurnOf(o, w, g) ==
    \/ ~MyTurn(g) /\ Keep(o, g)
    \/ MyTurn(g) /\ WalksOn(o, g) /\ Keep(Walk(o, g), g)
    \/ MyTurn(g) /\ (~WalksOn(o, g) \/ ArrivedAway(o, g)) /\ Replanned(o, w, g)

PlanSquads ==
    /\ ~TickOver
    /\ \E g \in turns :
          /\ \A h \in turns : g <= h
          /\ TurnOf(objective[g], Watch(StopsWalking(objective[g], g), g), g)
          /\ turns' = turns \ {g}
    /\ UNCHANGED <<now, at, present, aggroed, spread, owner, events>>

-----------------------------------------------------------------------------
(* The rest of the tick: squads walk their patrols, bases change hands.    *)

(* The first member of a squad to find it at its waypoint moves the route  *)
(* on; the others look at the next one, another place.                     *)
Rotated(route) == Append(Tail(route), Head(route))
PatrolAdvanced(o, g) ==
    IF g \in present \ aggroed /\ o.kind = "patrol" /\ o.route # <<>> /\ ~o.disperse /\ o.route[1] = at[g]
    THEN [o EXCEPT !.route = Rotated(@)] ELSE o

FactionStrength(f, p) ==
    MapThenSumSet(LAMBDA g : Size[g], {h \in present : FactionOf[h] = f /\ at[h] = p})
SquadFactions == {FactionOf[g] : g \in Squads}
Captors(p) == {f \in SquadFactions : {f, owner[p]} \in HostilePairs /\ FactionStrength(f, p) >= 2}

(* Ties go to the lower faction id, here the first in the order of Squads. *)
Strongest(S, p) ==
    CHOOSE f \in S : \A e \in S : \/ FactionStrength(e, p) < FactionStrength(f, p)
                                  \/ FactionStrength(e, p) = FactionStrength(f, p)
Flips(p) ==
    /\ now % SquadCfg.capture = 0
    /\ p \in BasePlaces /\ Sites[p] # "hq"
    /\ FactionStrength(owner[p], p) = 0
    /\ Captors(p) # {}

Finish ==
    /\ turns = {}
    /\ now < MaxSquadTicks
    /\ objective' = [g \in Squads |-> IF objective[g] = None THEN None ELSE PatrolAdvanced(objective[g], g)]
    /\ owner' = [p \in BasePlaces |-> IF Flips(p) THEN Strongest(Captors(p), p) ELSE owner[p]]
    /\ posts' = [p \in Places |-> IF Flips(p) THEN NoClaim ELSE posts[p]]
    /\ turns' = {0}
    /\ now' = now + 1
    /\ UNCHANGED <<at, present, aggroed, spread, occupants, taken, events>>

-----------------------------------------------------------------------------
(* What happens to squads between two ticks.                               *)

Between ==
    /\ TickOver
    /\ events < MaxEvents
    /\ events' = events + 1
    /\ UNCHANGED <<now, objective, posts, owner, occupants, taken, turns>>

Moves == /\ Between
         /\ \E g \in present, p \in Places : at[g] # p /\ at' = [at EXCEPT ![g] = p]
         /\ UNCHANGED <<present, aggroed, spread>>
Fights == /\ Between
          /\ \E g \in present : aggroed' = (aggroed \ {g}) \cup ({g} \ aggroed)
          /\ UNCHANGED <<at, present, spread>>
Scatters == /\ Between
            /\ \E g \in present : spread' = (spread \ {g}) \cup ({g} \ spread)
            /\ UNCHANGED <<at, present, aggroed>>
Leaves == /\ Between
          /\ \E g \in Squads : present' = (present \ {g}) \cup ({g} \ present)
          /\ UNCHANGED <<at, aggroed, spread>>

SquadInit ==
    /\ now = 0
    /\ at = Home
    /\ present = Squads
    /\ aggroed = {} /\ spread = {}
    /\ objective = [g \in Squads |-> None]
    /\ posts = [p \in Places |-> NoClaim]
    /\ owner = FirstOwner
    /\ occupants = 0
    /\ taken = [rest |-> {}, relief |-> {}]
    /\ turns = {0}
    /\ events = 0

SquadNext == Begin \/ PlanSquads \/ Finish \/ Moves \/ Fights \/ Scatters \/ Leaves

SquadSpec == SquadInit /\ [][SquadNext]_squadVars

-----------------------------------------------------------------------------
(* Properties.                                                             *)

RestsInArea(o) == o.kind = "rest" /\ o.area
Guarding(g) == objective[g].kind = "guard" /\ objective[g].post

(* The rest area never counts fewer squads than rest in it nor more than   *)
(* it has room for, and a squad whose turn has just passed guards a post   *)
(* only if the claim on it is its own, whatever the relief pass, a base    *)
(* that changed hands or a death did to the claim meanwhile                *)
(* (InteractionAreas::try_reserve and release, GuardPosts).                *)
ClaimsMatchObjectives ==
    /\ occupants \in 0..RestRoom
    /\ Cardinality({g \in Squads : RestsInArea(objective[g])}) <= occupants
    /\ turns = {} => \A g \in present : MyTurn(g) /\ Guarding(g) =>
                           HeldBy(posts, objective[g].route[1], g)

(* A claim that changes hands in a step is taken by one sent to relieve.   *)
PostPassesByRelief ==
    \A p \in Places : Held(posts, p) /\ Held(posts', p) /\ posts'[p].by # posts[p].by =>
        /\ objective[posts'[p].by].kind = "relieve"
        /\ objective[posts'[p].by].route = <<p>>

(* A post passes from one squad to another only when the one that takes it *)
(* was sent to relieve it there: two squads that plan in the same tick     *)
(* never take a post from each other (GuardPosts::claim, handle_relief).   *)
PostsPassByRelief == [][PostPassesByRelief]_squadVars
=============================================================================
