# Formal models of simn

simn is a multiplayer survival simulation in Rust: a deterministic world
(`crates/simn-sim`, bevy ECS), its save files, a worker thread that owns the
world, a Godot bridge (`crates/simn-godot`), a Steam session layer
(`crates/simn-net`) and an offline terrain pipeline (`crates/simn-terrain`).
This directory holds TLA+ modules translated from that code, TLC
configurations that check them on small instances, and theorems checked by the
TLA+ proof system. Paths below are relative to `src/crates/simn-sim/src/`
unless they say otherwise.

## 1. Inventory

| component | state | operations | what is hard | correct when |
|---|---|---|---|---|
| save journal (`persistence/journal.rs`) | channel of ops, `BufWriter`, file, `pending_bytes` | `open`, `append`, `rotate`, `flush_and_sync`, `shutdown`, the arms of `writer_loop`, `read_journal` | own thread; buffered, written and fsynced are three things; torn tails; half-done rotations | a reload finds the recorded deltas up to some point, without a gap |
| snapshot file (`persistence/snapshot.rs`, `snapshot_writer.rs`) | queue of jobs, temporary file, file under its final name | `enqueue`, write, fsync, rename, `shutdown` | own thread, slow disk, failures only logged | the named file is a complete snapshot and never gets older |
| `Sim` save lifecycle (`world/mod.rs`, `world/tick.rs`) | world, clock, both writers | `record_delta`, `tick`, `roll_snapshot`, `shutdown`, drop, `load` | two files that must belong together, written by two threads; crashes between any two steps | a load gives a prefix of what was played, a clean stop gives all of it |
| worker (`worker/*.rs`) | command, inspect, delta and shutdown channels, published cells, deadline | `send`, `inspect`, `shutdown`, `drain_tick_deltas`, `run_sim_loop` | full channels, a dying worker, starvation, late deadlines | commands run once, in order; callers do not hang; readers see a consistent pair |
| delta replay (`world/persistence.rs`, `delta.rs`) | world, id counters | `serialize_world`, `spawn_serialized`, `apply_delta` | what `apply_delta` does must equal what the live operation did | replay on a snapshot gives the live world; ids are not reused |
| replication (`world/replication.rs`, `simn-net`, `simn-godot/src/sim/mod.rs`) | `last_tick_deltas`, mirror world, lobby, peers, roles | `serialize_snapshot_body`, `apply_external_snapshot`, batches, actions | joins between a change and its batch, refused packets, leaving and coming back, clocks that run on | a mirror that has heard everything agrees with the host |
| crafting, inventory, containers (`world/inventory.rs`, `world/containers.rs`, `inventory_grid.rs`, `systems/crafting.rs`) | grids, queue of jobs, containers | queue, cancel, progress, move, drop, transfer | multi-step transfers with error paths, shared containers | items are neither created nor destroyed |
| weapons and projectiles (`world/weapons.rs`, `world/projectiles.rs`) | magazine, chamber, jam, bullets in flight | load, eject, fire, clear | many legal orders of calls | rounds are conserved, a bullet ends once |
| wounds and survival (`world/wounds.rs`, `systems/wounds.rs`, `systems/meds.rs`, ...) | body parts, limbs, wounds, effects, tolerance, meters | damage, treatments, drugs, food, per-tick decay | long sequences of commands and ticks; the tick writes no deltas | what is derived follows what it is derived from; a replay loses no wound |
| NPC lifecycle (`systems/npc_*.rs`, `offline_tier.rs`, `world/population.rs`) | NPCs, regions, chronicle, offline records | spawn, age, cross portals, die, offline movement and combat | two tiers simulate the same person and hand him over | people and chronicle agree; nobody changes by being handed over |
| squads (`systems/squad_planner/`, `systems/base_capture.rs`) | objectives, guard posts, rest areas, owners of bases | passes over all squads, one turn per squad, capture | claims handed over by relief, dropped by capture and death | claims match objectives |
| goals (`systems/goal_arbitration.rs`, `systems/npc_goals.rs`) | goal, errand, path, blackboards, objectives | candidates, winner, hysteresis, execution | everyone decides and acts in the same tick | what is acted on is still so; caps hold |
| fights (`systems/npc_tactical.rs`, `systems/npc_combat.rs`, `cover.rs`, `goap*.rs`) | plans, stances, claims of cover, hits | plan, stance, claim, shoot | claims left behind by the dead and the moving | a volume in use is not given away |
| perception (`systems/npc_aggro.rs`, `world_event_bus.rs`, `squad_blackboard.rs`, `systems/threat_board.rs`) | Aggro, blackboards, events, threat boards | sight, hearsay, decay, retargeting | four lifetimes that overwrite each other | knowledge follows contact |
| bases and factions (`faction/registry.rs`, `systems/kill_credits.rs`) | relations, drift, reputation | shifts, inheritance, replay | clamping, saturation, order of a pair | both sides agree, shifts keep their sign |
| render snapshots (`snapshot.rs`), navigation, clock, weather, chronicle, PDA log, content registries, terrain, debug tools | | | mostly floating point, geometry, parsing or read-only | see `PROJECT.json` |

How they interact. The main (Godot) thread owns a `SimWorker`; it sends
commands, blocks on inspects and reads two published cells. The worker thread
owns the `Sim`; each tick runs the schedules, whose changes become
`WorldDelta`s. Every delta goes to the journal's channel, from which a second
thread writes, and into `last_tick_deltas`, from which the worker forwards a
batch to the main thread. Every `snapshot_interval` ticks the world is
serialized, queued for a third thread and the journal is rotated.

## 2. Modules

    Records ── Journal ──────┐
        └───── SnapshotFile ─┴─ Persistence ── MCPersistence
                    CrashStore ◄─ (refined by) Persistence
                                Persistence ── PersistenceProofs
    SimWorker ── MCSimWorker
    Grid ── Items ── Inventory ── MCInventory
      │                  └──┬─ InventoryProofs
      ├──── GridProofs ─────┤
      │        ┌────────────┴─ WeaponProofs
      └──── Weapons ── MCWeapons
    Goap ── Tactics ────────────────────────────┐
      └──── GoapSearch ─────────────────────────┤
    Body, Squads, Factions, Population, Goals, ─┼─ MCSystems
    Senses, Mirrors ────────────────────────────┘
    SimWorker, Mirrors, Factions ─────── HostProofs
    Body, Population ─────────────────── PeopleProofs
    Squads, Tactics, Senses, Goals ───── MindProofs
    SequenceLemmas: every proof module but PersistenceProofs

`PROJECT.json` maps every definition that models code to its lines.

**Records** - what the two file modules share: the numbering of deltas and the
counter that bounds I/O errors (`Fault`).

**Journal** - `persistence/journal.rs`. A record is its number; since numbers
are handed out in the order of `append`, the channel, the buffer and the file are
sets of numbers and their order is the order of the numbers. `jop` is the
blocking call in the channel, or its acknowledgement. `jfile` is the file as any
process reads it, `jsync` as the last fsync left it. One action per arm of
`writer_loop`: `WriteRecord`/`WriteFails` (Append), `RotateTruncate`,
`RotateHeader`, `RotateRefused`, `RotateBroken` (Rotate, which is not atomic),
`FlushDone`/`FlushFails`, `IdleFsync` (timeout), `WriterExit`. `Readable` is
`read_journal`, `Replay` the condition in `load_with_content`, `OpenJournal` is
`JournalWriter::open`. `CrashImages` and `PowerImages` say what file a crash of the
process, or of the machine, leaves.

**SnapshotFile** - `persistence/snapshot.rs` and `snapshot_writer.rs`:
`Enqueue`, `WriteTmp` (create, write, fsync the temporary file), `Rename`,
`WriteLost` (any of them fails).

**Persistence** - the simulation thread composed with both: `RecordDelta`, `Tick`
(clock, Tick marker, snapshot when due), `RollSnapshot` and `RollSynchronously`
(the two branches of `roll_snapshot`), `RotateReturns`, `Shutdown`,
`FlushReturns`, `JoinSnapshotWriter`, `DropSim`, `Dropped`, `ProcessCrash`,
`PowerLoss`, `Load`. `phase` is the program counter of the simulation thread
while it waits for a writer.

**CrashStore** - the abstract promise: a history of deltas and a floor. `Record`
appends, `Save` raises the floor to a prefix, `Restart` cuts off a suffix and
never goes below the floor. `Persistence` implements it with the history mapped
to `world` and the floor to the body of the named snapshot (`RefinesStore`).

**SimWorker** - `worker/runtime.rs`: the main thread (`Send`, `CallInspect`,
`InspectReturns`, `SignalShutdown`, `Joined`, `Abandon`, `DrainDeltas`) and
`run_sim_loop`, one action per step at which another thread can get in between
(`pc` names them). `left` is the time left to the deadline; `Elapse` is the
clock, which may advance at any moment, so every tick may be late.

**Grid** - `inventory_grid.rs`, as operators from grid to grid: the footprint
and overlap test, first fit upright before rotated (`Place`), `grant_or_merge`
with what did not fit (`GrantOrMerge`), `consume_from_grid`. The order of the
items is kept because commands and deltas name items by index.

**Items** - a player's belongings (pockets, paper doll, world containers,
crafting queue, the counters of job and container ids) and the arms of
`apply_delta` that change them, one `Apply...` operator each.

**Inventory** - the calls of `Sim` that write those deltas, one action each, with
`Tick` for the two systems that change belongings without a delta. `live` is the
running world; `replica` is the last snapshot with every delta recorded since
applied to it, which is what a load builds (a mirror applies the same arms, but
also runs the player schedule itself).
`RollSnapshot` makes them equal, `Load` goes on from the replica.

`gaps` names what has happened since the snapshot that the journal misses or
misstates. Each tag is a place in the code where the live change and the delta
differ: `hotbar` (`consume_from_hotbar` records nothing), `reorder` (a refused
move pushes its item to the end of the list), `unremoved` (`put_in_container`
records the arrival only), `age` (`take_from_container` places the item with the
present tick and records the old one), `payload` (contents of a container that
is put, dropped or taken: gone live, restored or not by replay), `partial` (a
refused take or put keeps what did fit), `craft` and `perish` (the tick systems),
`spill` (the overflow of a drop). `ReplayFollows` says these are all of them.

**Weapons** - `world/weapons.rs` for a player with one weapon slot, with the
records and the replica as in Inventory, on the same `Grid`. A magazine's state
is an option, as in the code. Its `gaps`: `evicted` (a reload or ejection that
finds no room fails after the magazine has left the weapon), `misfilled` (the
index of a pocket magazine is stale after the rounds were consumed), `unwritten`
(the same, with no item at that index), `npc` (a shot whose shooter is no player
is skipped by replay), `reused` (a projectile id in flight is issued again after
a load, because no arm of `apply_delta` moves that counter).

**Body** - `world/wounds.rs`, `world/drugs.rs`, `world/survival.rs`, the damage of
`world/player.rs` and the player schedule. `GiveCommand` is one call (damage,
heal, six treatments, antibiotics, five drugs, five consumables, the debug
setters), `Tick` the systems of `build_schedule_player` in their order
(`PlayerSystemsBefore`, `WoundSystems`, `PlayerSystemsAfter`; `NpcTreatWounds` for
NPCs, whose query the code never fills, see below). Quantities are integers in
the unit that makes the code's rates whole at 50 ms. `replica` is the last
snapshot with the records since; ticks write none.

**Squads** - `systems/squad_planner/` and `base_capture.rs` for one active region.
`Begin` is everything the planner does for all squads before their turns
(cohesion, regroup exit, pruning, relief, seeding, drift), `Plan` one squad's
turn in the order of ids, `Finish` the capture check. Between ticks squads move,
fight, scatter, leave and come back.

**Factions** - `faction/registry.rs`: the registry as `build_registry` makes it
(canonical pairs, parent walk, clamping on reading), `ShiftFactionRelation`,
`ShiftPlayerRep`, their records and `Save`.

**Population** - `build_schedule_npc_lifecycle` and `build_schedule_offline_loot`,
one step a system, with `SetActiveRegion` projecting people between components
(online) and a few fields (offline), the chronicle with its running summary,
the PDA log with its cooldown, spawns up to the targets.

**Goals** - `goal_arbitration.rs` (`Think`: every NPC in order, candidates from needs,
Aggro, blackboard, corpses and the squad's objective, personality bias, the
responder cap, hysteresis and commitment) and `npc_goals.rs` (`Act`: one arm per
kind of goal, path budget, patrol waypoints, arrivals). `StirGoals` is what
other systems change between two ticks.

**Goap** - the actions and goals of `goap_actions.rs` over sets of facts, and the
choice of the goal (`Plan`). The search of `goap.rs` is recursive and stands apart, in
**GoapSearch**: MCSystems evaluates it once for every role, goal and state, and
Tactics takes the outcome as its constant `Table`.

**Tactics** - `npc_tactical.rs` (`NpcTactical`: plan kept or remade, stance, claim),
`npc_combat.rs` and the hits of `projectiles.rs` (`Combat`), cover claims of `cover.rs`.

**Senses** - `npc_index.rs`, `world_event_bus.rs`, `npc_aggro.rs` and `threat_board.rs` as
`Sense`: sweep, drain of events, decay, visibility, sightings on the boards,
threat boards, then `Prioritise`. `contact` is a history variable: when a band
last saw or was hit by a person.

**Mirrors** - a hosted session in direct mode: the host's frame (`HostFrame`: tick,
drain, broadcast), its own calls (`HostActs`), `HostHears` (join requests and
actions), and of each mate `Join`, `LobbyReady`, `StartMirror`, `SendJoinRequest`,
`MateActs`, `MateHears`, `MateTicks`, `Quit`. Two kinds of delta stand for all: one
sets, one adds. The GDScript that wires the signals is not in the repository;
its calls are taken in any order. `send_p2p_packet` may refuse.

**MCSystems** - the instances. It extends the eight, whose state is disjoint; `part`
picks one of them in the initial state, and the others then stay in an initial state
of theirs: running systems that share nothing side by side would only multiply
states. Every property of the run is the definition of its own module, and the
theorems speak of that same definition.

**PersistenceProofs**, **GridProofs**, **InventoryProofs**, **WeaponProofs** - the theorems
about the modules they are named after (section 4). **HostProofs** - those about what
runs around the world: SimWorker, Mirrors and Factions. **PeopleProofs** - about bodies
and lives: Body and Population. **MindProofs** - about who decides: Squads, Tactics,
Senses and Goals. **SequenceLemmas** - what the proofs share about sequences (ranges,
concatenation, induction from either end) and the left fold of a constant operator
`Op`, unfolded from either end: a journal replayed record by record, a loop over
stacks, the NPCs of a tick one after the other, a chronicle fed births and deaths. A
proof module instantiates it once for every such loop, with the step for `Op`.

Definitions commented "Fault model" are not used by any specification; each is
a plausible wrong version of the definition that follows it, and replacing the
latter by the former makes TLC find the property listed with it under
`mutants` violated.

## 3. Runs

| run | question | bounds | result |
|---|---|---|---|
| `persistence_faults` | is the save recoverable at every moment, under crashes and an I/O error? | 3 records, 2 ticks, snapshot every tick, 2 crashes, 1 error | 7 properties hold, 590k states |
| `persistence_live` | does it implement CrashStore; does everything reach the disk; do stops end? | 3 records, 2 ticks, snapshot every second tick, 1 crash, no error | 3 properties hold, 28k states |
| `persistence_roll` | is everything fsynced safe during a roll, as the journal's documentation says? | as above, 1 crash | violated, see below |
| `persistence_torn` | ... and after a torn record? | snapshots off (interval beyond the clock) | violated |
| `persistence_same_tick` | is a delta never applied to a snapshot that holds it? | snapshot every tick | violated |
| `sim_worker` | do commands, inspects, deltas, published cells and shutdown work under every interleaving? | 3 commands, channel of 2, 1 batch, 3 ticks, deadlines up to 2 periods late | 8 properties hold, 520k states |
| `sim_worker_inspect` | does an inspect see the commands sent before it, as the worker's comment says? | as above | violated |
| `inventory` | do placement, replay, conservation and id uniqueness survive any sequence of calls, ticks, snapshots and loads? | 4 calls, 3 kinds of item (stackable, perishable, a 1x2 container), pockets 2x2, ground 2x1, one recipe of 2 ticks, 2 starts | 5 properties hold, 50k states |
| `inventory_take` | is a refused take without effect, as its comment says? | pockets with room for one unit | violated |
| `inventory_replay` | does a replay add nothing, as `delta.rs` says? | one bolt, no recipes | violated |
| `systems` | see below: do the eight parts keep what they derive, claim, remember and replicate in step? | per part, in MCSystems | 14 properties hold, 308k states |
| `weapons` | do magazines and rounds stay sound, and does replay take the same magazines? | 4 calls, 2 kinds of magazine, 2 of round, pockets 2x3, 2 shots, 3 starts, one with a worn loaded weapon | 3 properties hold, 31k states |

Why these bounds are enough to meet the interesting cases. Three records allow
one before, one inside and one after a snapshot or a torn record; two ticks with
a snapshot at each give two jobs in the snapshot queue at once; two crashes
allow a crash, a load that continues on the left-over journal, and a second
crash. One error at a time, at every place where the code handles one, is
enough for each error path to be taken and continued from. Three commands
overflow a channel of two, one batch overflows the delta channel, and three
ticks make the snapshot pair change once after it first appears.
In `inventory` four calls are enough for an item to be placed, moved away, its
place taken and the item refused and put back, and for a job to be queued,
advanced twice and cancelled; the grids are so small that every placement,
rotation, partial fit and overflow occurs. In `weapons` the third start is one
shot above the wear at which jams begin, and four calls reach a full
pocket with the reload that finds no room, a reload chain over two magazines of
one kind with different contents, and the stale index.

Safety properties of `persistence_faults`:

- `RecoveryHasNoGap`: for every file image a crash at this moment can leave, the
  world the next load builds is the present one with its end cut off.
- `ReplayAppliesOnce`: the replay never applies a delta the snapshot holds
  (unless a tick was snapshotted twice, which `persistence_same_tick` shows can
  go wrong).
- `FsyncedRecordsSurviveWhilePaired`: as long as the journal follows the named
  snapshot, nothing an fsync covered is at risk.
- `PairedOnceDrained`: the two part only while the snapshot queue is busy.
- `CleanStopLosesNothing`: after a stop, with or without `Sim::shutdown`, a load
  gives back exactly the world that was dropped.
- `DurableFloorNeverRetreats`: the named snapshot is never replaced by less.

Properties of `inventory`: `EverythingWellPlaced` (no two items on a cell, none
outside, stacks within limits, in the live world and the replica);
`ReplayFollows` (outside the gaps the replica is the live world, index for
index); `MovesConserve` (no move, refused or not, changes how much there is);
`CraftingCreatesNothing` (no order of crafting calls and ticks raises the worth
of belongings plus locked material, recipes being worth-preserving);
`IdsNeverReissued` (job and container counters never fall, across loads too).
Properties of `weapons`: `MagazinesSound`, `ReplayKeepsArms` and
`RoundsBecomeProjectiles` (rounds leave only as projectiles, one each).

Properties of `systems`, by part:

- *body*: `BodyConsistent` (limbs, health, pain and timers are what wounds and hit
  points make them, after any order of treatments, drugs and ticks),
  `ReplayFollowsTheBody` (a replay loses no wound and no effect and wakes nobody
  worse than he was, though ticks write no records). One player, one NPC, 3
  commands from one of four menus, 4 ticks, a snapshot every 3: enough for a
  wound to be treated, tied, untied, infected, and cleared on either side of a
  snapshot.
- *squads*: `ClaimsMatchObjectives` (a rest area counts at least who rests in it, and
  a squad that has had its turn and guards a post has the claim on it; a claim no
  objective names, such as a regrouping squad's, is allowed), `PostsPassByRelief`. Three squads, two of one
  faction, 7 ticks with a planning turn every third, one event: enough for a
  guard to serve its tenure, be relieved, and lose the base.
- *factions*: `StandingsAgree` (symmetric, and equal after a replay),
  `ShiftsKeepTheirSign`. Five factions of the shipped content, increments next to
  the 16-bit bound.
- *people*: `PeopleMatchRecords` (chronicle, its running totals, announcements and
  the world), `PassageKeepsPeople` (entering a region loses and adds nobody and keeps
  faction, squad, region, place, opponent, hour of death and class of health, not
  the damage within a class; no step heals into a better class). Four people, two regions, 5 ids, 4 ticks, two
  happenings.
- *goals*: `GoalsAreMeant` (what is about to be acted on is still so), `CapHolds`
  (responders to one report), `WaypointsVisited` (a patrol moves on only past
  waypoints it is at). Three squads, five people, cap 1, 3 happenings of one of
  three scripts, 4 ticks. One script has a route that repeats a waypoint, which two
  members pass in one tick.
- *fight*: `CoverTakenTogether` (a volume held since the last tick is not taken by
  another). Three fighters, two volumes, 2 happenings, 5 ticks.
- *senses*: `MindsFollowContact` (a target comes from a contact of his own band
  within the lifetimes, the enemy on a board from one of any band, however often
  squads hear of each other). Five people, two squads, 5 ticks.
- *mirror*: `MirrorsCatchUp`. One mate who joins, leaves and comes back, 2 deltas,
  2 frames, 2 requests, 1 refused packet.

The parts were chosen one by one; each bound is the least at which the fault
models of its properties are found, so that the cases they speak of do occur.
Deadlock checking is off, since the bounds end every part.

The six violations are listed under `findings` with the text of the
documentation they contradict: the roll truncates the journal before the
snapshot is renamed; a torn record hides what is appended after it; two
snapshots of one tick share a label; inspects overtake commands; a take that is
refused for lack of room keeps the units that did fit; an item put into a
container is in both places after a replay.

Fairness. `persistence_live` assumes weak fairness of the journal thread, of the
snapshot thread, and of the simulation thread only while it is inside
`roll_snapshot`, `shutdown` or a drop: these are plain threads in loops that block
only on each other. Nothing is assumed of hosts, users, ticks or crashes.
`sim_worker` assumes that the worker thread runs, that time passes, and that a
blocked main thread goes on when its answer or the join is there. No fairness is
assumed of sends, inspects or shutdown requests.

`sim_worker` and `sim_worker_inspect` switch deadlock checking off: a worker that
has ended and a host that has gone is the end of the program.

## 4. What is proved

All theorems hold for every value of the constants, from the named assumptions
alone; the bounds of the runs are among the constants.

**Persistence**, from `RecordsAssumption` and `PersistenceAssumption` (bounds are
naturals, the interval is positive):

- `TypeCorrect`: `TypeOK` is inductive as it stands; there is a lemma for each
  thread, for what a crash leaves, and one step per action in `NextType`.
- `SnapshotsAlwaysGrow`, `FloorNeverRetreats`. That a rename does not shrink the
  snapshot depends on every job in the queue and on the temporary file.
  `SnapshotsGrow` says that these form a chain between the named snapshot and the
  present world, and that the synchronous fallback runs only when the writer is
  gone and its queue is empty.
- `AlwaysNoGap`, `AlwaysAppliesOnce`, `AlwaysFsyncedSurvive`,
  `AlwaysPairedOnceDrained`, `AlwaysStopsClean`: the five recovery properties of
  `persistence_faults`. They follow from one inductive invariant, `Recovers`,
  whose parts are
    - who waits for whom (`Blocking`): a thread in a roll waits with the world it
      serialized, and the channel is empty once the writer has answered;
    - the order of records over file, buffer and channel (`InOrder`), and of the
      labels of snapshots, headers and tick markers (`Ticks`, `RollsForward`);
    - what every snapshot under way, not only the named one, is: a beginning of
      the world (`Prefixes`), the only one of its tick (`Unique`, `UniqueInRoll`);
    - what the file means for any snapshot whose tick it carries: it continues
      it without a gap (`FilesContinue`), completes it (`Complete`), repeats
      nothing of it (`Once`), and keeps what was fsynced (`Durably`, `SyncReads`);
      and what only an I/O error can break (`Unharmed`).

  It has to speak of all snapshots because the journal may follow any of them
  until the queue is drained, and a crash may come at any point; the exceptions
  (`sameTick`, `faults`) are those of the properties.
- `FilesImplementTheStore`: `Spec /\ [](faults = 0) => RefinesStore`. Each step is a
  step of CrashStore or a stutter (`StepsOfTheStore`); a load maps to `Restart`
  because of `Recovers`. With an I/O error the refinement is false: a record that
  could not be written leaves a hole that a later crash uncovers.
  `FaultlessFilesImplementTheStore` is the case `persistence_live` checks.

**SimWorker** (in `HostProofs`), from `WorkerAssumption`: all six safety properties of the run
`sim_worker`. The invariants, one for each property, on top of `Typed`: `Published`
(how far each cell is behind the clock at each point of a round), `OnTime` (the
deadline against the time since the last two rounds), `Numbered` (dispatched and
waiting commands together are 1, 2, ... without a hole), `Prompt` (a command no
round left behind is missing from the view only for the view of its send and
the one after), `Delivered` (received, channelled and pending deltas ascend, and are
the dispatched commands without the lost batches).

**Grid**, from `GridAssumption` (sides and stack limits are positive), for every
registry, every size of grid and any set of magazine states and inner grids:

- `PlaceKeepsTidy`: first fit puts a lawful stack that has room inside the grid,
  in a rotation it may take, off every other item. It needs that the scan order
  of `First` has a least element (`FirstIsASpot`) and that overlap is symmetric.
- `RemoveKeepsTidy`, `SwapKeepsTidy`, `TakeOneKeepsTidy`, all from `Rearrange`: items of
  a tidy grid, each where it was and none twice, are a tidy grid.
- `GrantKeepsTidy`, `ConsumeKeepsTidy`: the two loops of `inventory_grid.rs`, over all
  stacks and for any amount, by induction over the stacks and the amount.
- `ConsumeAgain`: asking for exactly what was found takes the same units from the
  same stacks. The record of a load carries what was taken, the call what was
  wanted; this is why a replay drains the same stacks.

`Tidy` is the part of the run's `WellPlaced` for one grid. On the way the lemmas also
keep what the items carry (`Carries`) and which stack a grant touched (`Touched`).

**Inventory** (`InventoryProofs`), from `GridAssumption` and `InventoryAssumption`
(sizes are naturals; recipes, salvage and the loads to start from are lists of known
items with natural counts; a container does not stack, as in
`src/content/items/containers.toml`), for every registry, size of grid and number of
calls: all that the run `inventory` asks but conservation.

- `AlwaysWellPlaced`, for live world and replica. The run's `WellPlaced` looks one
  level into a container, which is not inductive: an item taken out of a container of
  containers brings its own contents up a level. What is inductive speaks of all
  depths at once: `Contents` is built level by level (`Level`) and is a fixed point
  (`ContentsAre`, since a grid has finitely many items), so an item of a lawful grid
  carries a lawful grid or nothing (`Carried`). Each helper keeps this; a refused move
  does because what it puts back without a check fitted before (`StoreReturned`,
  from Grid's `Rearrange`).
- `AlwaysReplayFollows`. `IInv`: both worlds are in `Belongings`, they have the same
  counters (`Counts`), and `ReplayFollows`. There is one lemma per action: its record,
  applied to any lawful replica, gives a lawful one with the counters of the live
  world, and applied to the live world gives what the call made, unless the call
  added a gap. The first half is what keeps a replica that has drifted lawful: an arm
  whose index or id names nothing there does nothing. `CancelCraft` needs that the
  jobs of a queue have ids of their own (`IdsApart`): the call removes the job at a
  place, the record every job with the id.
- `NeverReissued`: from the equal counters, since a load goes on from the replica.

**Weapons**, from `GridAssumption` and `WeaponAssumption` (the weapon is in the
registry, capacities are naturals, and the worlds to start from are made by grants,
with a sound magazine in a weapon that starts loaded):

- `AlwaysMagazinesSound` and `AlwaysReplayKeepsArms`. The invariant `IInv`: live and
  replica are lawful worlds (`Typed`; the live one with sound magazines unless a load
  was `misfilled`), a load of which nothing was written was misfilled (`Gapped`),
  and the replica has the live pockets and weapon until a magazine was `evicted` or
  a load `unwritten`, and the live shots until any other gap (`Followed`). A record
  names a magazine only by kind and number of rounds; the replay takes the one the
  player took because a reload takes the fullest and, of equals, the
  first (`BestIsFirstLike`). The two are proved together: sound magazines of the
  replica are those of the live world.

**Factions** (in `HostProofs`):

- `StandingsTyped`, `StandingsAlwaysAgree`, `ShiftsAlwaysKeepTheirSign`. `Content` is what
  the types and the content provide: 16-bit scores, parents that end. The second
  theorem also needs `Unambiguous`, and `BaseScoreSymmetric` shows that symmetry of
  the inherited scores is equivalent to it (section 6): the proof attempt without
  it is what brought the case up. The invariant is that folding the journal over
  the saved tables gives the present ones, saturation included.

**Mirrors** (in `HostProofs`):

- `MirrorsAlwaysCatchUp`, for any number of mates, bounds and refused packets. The
  invariant says, for each mate whose snapshot is in or on its way and who missed
  nothing, what its world becomes once the packets in the queue and the host's
  pending deltas are heard (`Follows`, `Caught`), that what is pending is in the
  host's world already (`Pended`), and that only clients the host knows await
  snapshots (`Role`). `StaysAhead` carries the difference that a snapshot with
  pending deltas causes through any later batch.

**Body** (in `PeopleProofs`), from `BodyAssumption` (endurance within 0..100, natural
amounts, known drugs and food):

- `BodiesStayConsistent` and `ReplayAlwaysFollowsTheBody`, for any number of patients,
  commands and ticks and any snapshot interval. `BodyInv` relates each body to what a
  load would build of it: the same wounds as last treated but for those that healed
  since, which the replica still has as bandaged or stitched; of the replica's
  effects those still at work are the body's; no meter, limb or tolerance of the
  replica is worse (`Agree`). It needs that wounds and effects carry numbers of
  commands already given (`Numbered`), so that no record can hit another one's wound,
  and that the derived fields are what they derive from (`Sound`), which a tick
  restores only because of the order of its systems.

**Population** (in `PeopleProofs`), from `LifeAssumption` (targets name regions and
natural counts, squad sizes and times are naturals, finitely many bases):

- `PeopleAlwaysMatchRecords`. `PeopleInv`: the chronicle has the people 1..n and its
  running totals are the counts (`ChronicleOk`); those in the world are exactly those
  it has alive, each where it saw them last, and whole for the tier he is in
  (`LivesOk`, `PersonOk`); the announced dead are dead and named once (`ToldOk`); the
  PDA log's ticks never go down, none is in the future, and the gunfire of a region
  is spaced (`EntriesOk`). The totals are kept by increments with saturating
  decrements, so the proof must show that nobody is subtracted whom the count does
  not have; deaths and births are folds over any number of people (`MarkDead`,
  `Insert`), a tick's offline combat a fold over any number of meetings, after which
  the fallen are no longer among the living and named once. `Cooling` looks at the
  latest report only; that suffices because of the order of the log.
- `PassageAlwaysKeepsPeople`: from the same invariant, action by action. Region, place,
  opponent and hour of death pass both ways as they are, and people of regions
  neither left nor entered are not touched. Of health it keeps the three classes
  only: the hit points drawn for a class are of that class, but not those that were
  lost, and wounds do not pass at all (section 6).

**Squads** (in `MindProofs`), from `SquadAssumption` (finitely many squads with positive
ids and known homes; a natural number of places to rest):

- `ClaimsAlwaysMatchObjectives`, `PostsAlwaysPassByRelief`. `SquadInv`: orders and claims
  are well formed, the count of the rest area is at least the squads that rest in it
  (a pruned squad leaks its place, so not equal), and in the middle of a tick a
  guard who has had his turn holds his post. The run's property speaks of the end of
  a tick only; between, a guard whose turn is to come may have lost his post to relief.
  It is no claim that every claim has a guard: a regrouping squad keeps its own.

**Tactics** (in `MindProofs`), from `FightAssumption`:

- `CoverAlwaysTakenTogether`, for any number of fighters and volumes and whatever plans
  `Table` holds, so long as they are sequences of known actions. `FightInv`: who was
  settled in a volume at the end of the last tick has its claim, and stands in it
  while he lives; the two-step release (the stance, then the claim) never lets a
  third in between. Two who settle in one volume in the same tick are not excluded
  (section 6), and a claim may outlive its holder.

**Senses** (in `MindProofs`), from `SenseAssumption` (what is heard is forgotten no later
than what is seen):

- `MindsAlwaysFollowContact`, a bound on decay: nobody is engaged with one whom his band
  has not met within the time aggro decays in, nor has a board an enemy that no band
  has met within it. `SenseInv` adds to the property what flows into it: each
  mind's enemy and hits (`MindMet`), each threat and enemy on a board (`BoardMet`) and
  each sighting still on the bus (`EventMet`) is no more recent than the contact it came
  from. During a tick a stronger form holds (`Heeded`), which the sweep at its
  beginning establishes.

**Goals** (in `MindProofs`), from `GoalAssumption` (positive ids, finitely many bases, a
natural cap, reports that name places, routes of any waypoints but not empty):

- `GoalsAreAlwaysMeant`: a kept goal must be among the candidates of this tick, else the
  winner replaces it; each kind of candidate is meant, and the fold over the people
  leaves the goals of those before untouched. `GoalInv` adds that everybody, every
  board and every objective is well formed.
- `CapAlwaysHolds`: the set of responders grows one by one within the fold over the
  people, and a squad with no other business at a cell enters it only through
  `CapOk`, which counts those who entered before it in the same tick.
- `WaypointsAlwaysVisited`: every member of a squad runs the same test in one tick, and
  each that finds the squad at its waypoint moves the route on. The fold over the
  people keeps that, after the first of them, the route has been moved past
  waypoints only at which the squad is, one for each member so far at most. It holds
  for every route, also one whose waypoints repeat or lie closer together than the
  arrive radius, of which several may be passed in one tick (section 6).

Induction: the provers cannot instantiate theorems that take an operator. The
proofs use instead the set of numbers, or of sequences, for which a statement
holds (`SetInduction`, `SeqInduction` in SequenceLemmas), functions that are recursive
rather than operators, and the folds of SequenceLemmas, whose operator is a constant
of the module.

Only model-checked:

- liveness, out of reach of the provers: `RecordsReachTheDisk`, `StopTerminates`,
  `InspectsReturn`, `ShutdownJoins`;
- `MovesConserve` and `CraftingCreatesNothing` of Inventory and
  `RoundsBecomeProjectiles` of Weapons: they compare sums over stacks, grids and
  containers, folds over sets whose independence of the order is itself an
  induction over data;
- the search of GoapSearch, which is recursive. What Tactics needs of it, that it
  gives names of actions, is part of `FightAssumption` and evaluated by TLC for
  the shipped actions.

## 5. What the models leave out

- The content of deltas and of the world in Persistence: a world is the set of
  deltas it reflects. Whether `apply_delta` repeats what the live operation did
  is the question of Inventory and Weapons, for the deltas of items and weapons.
- Inventory and Weapons have one player, and calls come one after the other, as
  they do on the thread that owns the `Sim`. Checks that only refuse a call
  (stations, kits, tools, ranges, unknown ids) are left out, a refused call being
  an action only where it changes something. Salvage yields are chosen from a
  set. Inner grids are counted one level deep. Authored containers, restock and
  corpses are not modelled, nor a container's position (any personal container
  may be the nearest).
- Flight, hits, wear and jam probabilities: wear is a small number, a jam is
  possible whenever its probability is positive.
- The parts of MCSystems are checked apart. Positions are places, steps of 10 m
  or cells of 50 m; utilities, noise, hit chances and random candidates are
  choices; what other systems do is drawn from a script, a small set of
  happenings each of which happens at most once.
- Of replication: worker mode, the unreliable State message, and what a mirror's
  own player schedule computes. Steam delivers reliable packets in order or
  refuses them when sent.
- `npc_join_group`, `npc_migrate`, chatter, destruction of cover, names and
  loadouts, the line-of-sight cache, navigation grids, weather and world time:
  geometry, content or no shared state that a property could relate. The
  terrain pipeline and debug tools are pure input and output.
- Load succeeds: load errors, which make `load_or_new_with_content` delete the
  save and start again, and a fresh world over files that are left over, are not
  actions yet.
- Directory entries are durable once renamed (the code does not fsync the
  directory), and the header that `JournalWriter::open` writes is complete when
  open returns.
- One I/O error at a time is checked (`MaxFaults`), reads never fail.
- A panic inside an inspect or a tick is `TickFails`; only one inspect waits at a
  time because there is one main thread.
- When the worker ends, messages left in its channels are discarded and a
  blocked caller is woken with an error: the crossbeam channel's disconnect
  behaviour, taken as given.
- History variables (`durable`, `dropped`, `rolled`, `sameTick` in Persistence;
  `lost`, `stamp`, `starved`, `since` in SimWorker) exist for the properties and
  guard nothing.

## 6. What modelling brought up

Behaviour of the code that the models reproduce or had to step around, and that
no run asserts away. None of it is a run of its own.

Replication (`simn-godot/src/sim/mod.rs`, `world/replication.rs`):

- `apply_external_snapshot` (replication.rs:135) builds the mirror's world without
  `NpcLastHealTick`, which `npc_treat_wounds` of the mirror's player schedule needs.
- Deltas pending when a snapshot is serialized (sim/mod.rs:4349) reach the mirror
  in the snapshot and in the next batch; additive deltas count twice (`extra`).
- In worker mode a host broadcasts nothing (sim/mod.rs:219).
- `start_mirror` (sim/mod.rs:4230) is a no-op while a world of one's own runs; the
  host's snapshot then goes into a `Sim` that has a journal and save paths.

Bodies: `npc_treat_wounds` (systems/wounds.rs:381) asks for `NpcId` as a component,
which no NPC has (`SpawnBundle`), so NPCs never treat anyone; crash effects of a
drug are active at once (meds.rs:90); antibiotics clear infections without a
record.

Squads and goals: a squad pruned while it rests leaks its place in the area;
`handle_relief_arrivals` does not look whether the guard it relieves is still at
its post; a personality bias can lift an objective to 149, from where hysteresis
keeps fire and visible enemies (140, 160) from preempting it, though
goal_arbitration.rs:41 says these remain above objectives; a
patrol whose consecutive waypoints repeat, such as a closed loop whose last one is
its first, or lie so close that the squad is within the arrive radius of both (25 m,
content/ai/behavior.toml:20, npc_goals.rs:377), is moved on twice or more in one
tick, by one member after the other (npc_goals.rs:1295; world/registration.rs:255
takes any list, the seeded ones have two ends); `expires_at` and `created_tick` of a goal are never read; the
query for squadless intel (goal_arbitration.rs:238) is empty, like the medics'.

Fights: two who pick a volume in one tick stand in it together though cover.rs:162
says claims prevent it; the threshold of three hits never decides, since hits of
one attacker are merged; SaveAlly is unreachable; a kill is credited once per hit
on a body already dead (projectiles.rs:700).

Perception: a dead attacker at the top of the board displaces a living enemy
(threat_board.rs:227); events reach only the neighbouring cells of 200 m, less
than the range of a gunshot; what is heard (200 ticks) overwrites what was seen
(600 ticks).

People: `project_offline_to_online` (offline_tier.rs:540) spawns with full Health and
`Wounds::default()`, so a region that is left and entered again stops every bleed
though offline_tier.rs:47 speaks of one in the projection back: a vital part
projected at 50 comes back at 100, and someone with Health 0 who waits for the death
check comes back with full Health and does not die. An offline exchange can put its
victim down several classes in one tick (offline_tier.rs:1227, 1244) though the
comment at 1084 says one at most. `serialize_world` does not save offline people; offline base flips are
announced again and again and never change the owner; a portal may be crossed
into an inactive region without leaving the online tier, though population.rs:53
calls it an invariant that who is online is in an active region.

Standings: `base_score_with_inheritance` (faction/registry.rs:358) asks the ancestors
of its first argument before those of the second, so if two factions each
inherit a score for the other, from different ancestors and not the same, each
gets a different answer; the shipped content has no such pair. A player's first shift starts from 0, not from the baseline; a cycle
of parents in the content is not detected.

## 7. Plan

1. Load errors and left-over files in *Persistence* (world/mod.rs:380), and
   *Population* across a save and a load.
2. Two players at one container, restock and corpses in *Inventory*.
3. *Goals*, *Squads* and *Senses* composed over one set of positions: today what one
   does to the others is an event of the others.
4. Proofs: the sums behind `MovesConserve`, `CraftingCreatesNothing` and
   `RoundsBecomeProjectiles`, which need a theory of sums over sets first.
