------------------------------ MODULE Factions ------------------------------
(***************************************************************************)
(* The faction registry and the two tables of standings that change while  *)
(* the world runs: the drift between factions and the reputation of each   *)
(* player.  Shifts are journaled as increments, so a load adds them up     *)
(* again on top of the tables of the snapshot.                             *)
(*                                                                         *)
(* A faction is a natural number, its rank in the order of names, which is *)
(* its FactionId; 0 is no faction.                                         *)
(***************************************************************************)
EXTENDS Integers, Sequences, FiniteSets, SequencesExt

CONSTANTS
    Defs,            \* faction |-> its parent, or 0
    Declared,        \* relation entries of the content: a sequence of <<a, b, score>>
    DefaultScore, SelfScore,
    Baseline,        \* player_baseline, or 0
    Steam,           \* players
    Shifts,          \* increments that callers ask for
    I16,             \* 2^15, the bound of a stored increment
    MaxShifts        \* bound: calls in a behaviour

VARIABLES
    drift,           \* RelationDeltas::by_pair
    rep,             \* PlayerReputation::by_player, Unmet where there is no entry
    saved,           \* the tables in the snapshot
    shifts,          \* shift records of the journal since the snapshot
    shifted          \* calls made

factionVars == <<drift, rep, saved, shifts, shifted>>

Factions == DOMAIN Defs
Unmet == I16          \* no entry: a value no increment has
SCORE_MIN == -100
SCORE_MAX == 100
HostileBand == -75       \* band_from_score

Clamp(s) == IF s < SCORE_MIN THEN SCORE_MIN ELSE IF s > SCORE_MAX THEN SCORE_MAX ELSE s
(* Fault model: the stored increment wraps around. *)
Wraps(n) == ((n + I16) % (2 * I16)) - I16

Saturating(n) == IF n < -I16 THEN -I16 ELSE IF n > I16 - 1 THEN I16 - 1 ELSE n

-----------------------------------------------------------------------------
(* build_registry: ids, parents and the pairs with a score of their own;   *)
(* the last entry of a pair counts.                                        *)

(* Fault model: a pair is kept in the order it is given. *)
AsGiven(a, b) == <<a, b>>

CanonicalPair(a, b) == IF a <= b THEN <<a, b>> ELSE <<b, a>>

Accepted ==
    /\ \A f \in Factions : Defs[f] \in Factions \cup {0}
    /\ \A i \in DOMAIN Declared : Declared[i][1] # Declared[i][2] /\ {Declared[i][1], Declared[i][2]} \subseteq Factions
    /\ Baseline \in Factions \cup {0}

OverridesOf(p) == {i \in DOMAIN Declared : CanonicalPair(Declared[i][1], Declared[i][2]) = p}
Overridden(p) == OverridesOf(p) # {}
Override(p) == Clamp(Declared[Max(OverridesOf(p))][3])

(* A faction, its parent, the parent of that and so on. *)
Line[f \in Factions] == IF Defs[f] = 0 THEN <<f>> ELSE <<f>> \o Line[Defs[f]]

(* resolve_with_parent_walk: what the nearest of a faction's line declares *)
Inherited(f, declares, default) ==
    LET own == SelectSeq(Line[f], LAMBDA g : g \in DOMAIN declares)
    IN IF own = <<>> THEN default ELSE declares[own[1]]

(* The pair itself, then a's ancestors against b, then a against b's.      *)
Tried(a, b) ==
    [i \in DOMAIN Line[a] |-> CanonicalPair(Line[a][i], b)]
        \o [i \in 1..(Len(Line[b]) - 1) |-> CanonicalPair(a, Line[b][i + 1])]
Found(a, b) == {i \in DOMAIN Tried(a, b) : Overridden(Tried(a, b)[i])}
BaseScore == [p \in Factions \X Factions |->
    IF Found(p[1], p[2]) = {} THEN DefaultScore
    ELSE Override(Tried(p[1], p[2])[Min(Found(p[1], p[2]))])]

RelationScore(dr, a, b) ==
    IF a = b THEN SelfScore
    ELSE Clamp(Saturating(BaseScore[<<a, b>>] + dr[CanonicalPair(a, b)]))

PlayerScore(dr, rp, s, f) ==
    IF rp[s][f] # Unmet THEN Clamp(rp[s][f])
    ELSE IF Baseline # 0 THEN RelationScore(dr, Baseline, f) ELSE DefaultScore

-----------------------------------------------------------------------------
(* Shifts.  An unknown faction is refused by the caller and skipped by a   *)
(* replay.                                                                 *)

NoDrift == [p \in Factions \X Factions |-> 0]
NoRep == [s \in Steam |-> [f \in Factions |-> Unmet]]

Plus(n, d) == Saturating((IF n = Unmet THEN 0 ELSE n) + d)

(* Fault model: the replay sets what the live call adds. *)
Sets(t, r) ==
    IF ~({r.a, r.b} \subseteq Factions) THEN t
    ELSE IF r.who = "factions" THEN [t EXCEPT !.drift[CanonicalPair(r.a, r.b)] = r.d]
    ELSE [t EXCEPT !.rep[r.who][r.a] = r.d]

(* The arms of apply_delta.                                                *)
ApplyDelta(t, r) ==
    IF ~({r.a, r.b} \subseteq Factions) THEN t
    ELSE IF r.who = "factions" THEN [t EXCEPT !.drift[CanonicalPair(r.a, r.b)] = Plus(@, r.d)]
    ELSE [t EXCEPT !.rep[r.who][r.a] = Plus(@, r.d)]

Tables == [drift |-> drift, rep |-> rep]
Replayed == FoldLeft(ApplyDelta, saved, shifts)

Record(r) ==
    /\ shifted < MaxShifts
    /\ shifted' = shifted + 1
    /\ shifts' = Append(shifts, r)
    /\ UNCHANGED saved

Refuse ==
    /\ shifted < MaxShifts
    /\ shifted' = shifted + 1
    /\ UNCHANGED <<drift, rep, saved, shifts>>

(* Fault model: the shift is stored under the pair as it was named. *)
ShiftedAsGiven(a, b, d) == [drift EXCEPT ![<<a, b>>] = Plus(@, d)]

Shifted(a, b, d) == [drift EXCEPT ![CanonicalPair(a, b)] = Plus(@, d)]

ShiftFactionRelation ==
    \E a, b \in Factions \cup {0}, d \in Shifts :
        IF {a, b} \subseteq Factions
        THEN /\ Record([who |-> "factions", a |-> a, b |-> b, d |-> d])
             /\ drift' = Shifted(a, b, d)
             /\ UNCHANGED rep
        ELSE Refuse

ShiftPlayerRep ==
    \E s \in Steam, f \in Factions \cup {0}, d \in Shifts :
        IF f \in Factions
        THEN /\ Record([who |-> s, a |-> f, b |-> f, d |-> d])
             /\ rep' = [rep EXCEPT ![s][f] = Plus(@, d)]
             /\ UNCHANGED drift
        ELSE Refuse

(* A snapshot takes the tables and the journal starts anew.                *)
Save ==
    /\ shifts # <<>>
    /\ saved' = Tables
    /\ shifts' = <<>>
    /\ UNCHANGED <<drift, rep, shifted>>

FactionInit ==
    /\ Accepted
    /\ drift = NoDrift /\ rep = NoRep
    /\ saved = [drift |-> NoDrift, rep |-> NoRep]
    /\ shifts = <<>>
    /\ shifted = 0

FactionNext == ShiftFactionRelation \/ ShiftPlayerRep \/ Save

FactionSpec == FactionInit /\ [][FactionNext]_factionVars

-----------------------------------------------------------------------------
(* Whoever asks gets the same answer: two factions think the same of each  *)
(* other, inherited scores included, in whatever order shifts named them,  *)
(* and a load, which adds the increments of the journal to the tables of   *)
(* the snapshot, finds the standings that were in memory                   *)
(* (faction_relation_score, apply_delta).  The first half is so for        *)
(* content in which no two factions inherit different scores for each      *)
(* other, as the shipped content (HostProofs!Unambiguous).                 *)
StandingsAgree ==
    /\ \A a, b \in Factions : a < b => RelationScore(drift, a, b) = RelationScore(drift, b, a)
    /\ Replayed = Tables

(* What a step that journals a shift does to every standing.               *)
ShiftKeepsItsSign ==
    shifts' # shifts /\ shifts' # <<>> =>
        LET r == Last(shifts')
            Moved(old, new) == IF r.d >= 0 THEN new >= old ELSE new <= old
        IN /\ \A a, b \in Factions :
                 IF r.who = "factions" /\ {a, b} = {r.a, r.b}
                 THEN Moved(RelationScore(drift, a, b), RelationScore(drift', a, b))
                 ELSE RelationScore(drift', a, b) = RelationScore(drift, a, b)
           /\ \A s \in Steam, f \in Factions : rep[s][f] # Unmet =>
                 IF r.who = s /\ r.a = f
                 THEN Moved(PlayerScore(drift, rep, s, f), PlayerScore(drift', rep', s, f))
                 ELSE PlayerScore(drift', rep', s, f) = PlayerScore(drift, rep, s, f)

(* A shift never moves a standing against its sign, and no shift between   *)
(* two factions moves a standing of a third, for factions and for players  *)
(* who have met them (shift_faction_relation, shift_player_rep).  A        *)
(* player's first shift is left out: it starts from 0, not from the        *)
(* standing the baseline faction gave the player.                          *)
ShiftsKeepTheirSign == [][ShiftKeepsItsSign]_factionVars
=============================================================================
