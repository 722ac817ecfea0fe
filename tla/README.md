# Verification of ecu-sunspec

`ecu-sunspec` publishes an APsystems ECU as a SunSpec device: it reads the ECU's
SQLite databases and `/tmp/parameters_app.conf`, keeps one register bank for the
fleet and one per inverter, and turns a few Modbus writes into SQL statements
that the ECU firmware (`main.exe`) carries out over ZigBee. This directory holds
TLA+ specifications of that program, the TLC configurations that check them on
small instances, and proofs for instances of any size.

## Inventory

| Component | State it keeps | Operations |
|---|---|---|
| `ControlsWriter` (`server/controls_writer.go`) | none; one value per write, with a copy of the snapshot | `Apply`: restore, cap, arm or cancel the reversion, connect |
| `Reverter` (`server/reverter.go`) | `timers`: unit ID to `*time.Timer`, under a mutex | `Schedule`, `Cancel`, `Stop`, `fire` (goroutine of an expired timer) |
| `WriteTracker` (`server/write_tracker.go`) | `entries`: (unit ID, model) to result, counter, expected values, deadline | `Track`, `Get`, `Reconcile`, `PruneSettled` |
| 711, 134, 703 writers (`server/freq_droop_writer.go`, `freq_watt_curve_writer.go`, `enter_service_writer.go`) | none | `Apply`: validate, queue a protection parameter, `Track` |
| Routes (`server/profiles.go`) | none | which parameters an inverter family accepts |
| `Server` (`server/server.go`) | `banks` and `snap`, two atomic pointers | `Start`, `Stop`, `refresh`, `buildBanks`, `handleWrite`, reads |
| SQL writer (`source/writer.go`) | one connection to `database.db` | `SetMaxPower`, `RestoreFullPower`, `SetTurnOnOff`, `SetProtectionParam` |
| Snapshot builder and readers (`source/*.go`) | none | `Build` joins the databases and the parameter file |
| Encoders (`sunspec/*.go`) | none | a snapshot to a chain of SunSpec models |
| Configuration (`config/config.go`) | none after `Load` | `Load`, `IsEnabled`, `LocalAllowed`, `AllowsWrite` |
| `main.exe`, the Modbus library | external | the firmware consumes the tables and rewrites the parameter file; the library runs a goroutine per client |

**How they interact.** The library calls `handleWrite` on the client's
goroutine. It loads the bank and then the snapshot, finds the model that covers
the address and calls the model's `Apply`, which executes SQL statements one by
one and, for Model 123, calls the `Reverter`, for Models 711 and 134 the
`WriteTracker`. Every five seconds the refresh loop builds a snapshot,
reconciles and prunes the tracker, and stores banks and snapshot. An expired
timer runs `fire` on a goroutine of its own, which uses the SQL writer again.
Nothing but the two mutexes and the two atomic pointers orders these goroutines.

**What is hard.** A unit ID is a position in the order of the current snapshot,
and timers and tracker entries outlive it. The statements of a write, its timer
call and its tracker call are separate steps. A timer that has expired cannot be
stopped any more. Timers live in memory while caps live in a database. The two
pointers of a refresh are stored one after the other. Each statement can fail,
which ends a loop in the middle. `PROJECT.json` lists these as `hazards`, each
at its line.

**What makes each component correct.**

- `ControlsWriter` and `Reverter`: a cap written with a reversion time is lifted
  if it is not written again, and not otherwise; a unit has one timer; `Cancel`
  and `Stop` reach every timer.
- `WriteTracker`: a tracked write gets an outcome, COMPLETED only if the inverter
  it was meant for reported the value, FAILED long enough for a client to see.
- 711, 134, 703 writers: a refused write changes nothing; an accepted one is
  within the limits and tracked as queued.
- `Server`: a write reaches the inverter whose bank the client read; what is
  acknowledged is done; bank and snapshot come from the same refresh.
- Encoders: the models of a bank form a chain that `findModelInBank` walks to its
  end, one bank per unit ID.
- Configuration: a write is accepted only from a client the file allows.

## Modules

Four groups, which share the pure operators of `WriteRules` and `GridRules`:

| Question | Modules |
|---|---|
| What do concurrent writes of Model 123 and their timers do to the caps? | `Curtailment`, `CurtailmentProofs`, `MCCurtailment` |
| What do clients learn of their writes to Models 711 and 134? | `WriteTracking`, `Outcomes`, `WriteTrackingProofs`, `MCWriteTracking` |
| Which write reaches which inverter, and what can it do there? | `Gateway`, `Device`, `GatewayProofs`, `MCGateway` |
| What do clients read? | `Snapshots`, `Registers`, `Publication`, `DataLemmas`, `RegistersProofs`, `PublicationProofs`, `FleetProofs`, `PointsProofs`, `MCPublication` |

`Curtailment` extends `WriteRules`, `WriteTracking` extends `GridRules`, `Gateway`
extends both and implements `Device`; `WriteTracking` implements `Outcomes`. `Publication` extends `Registers`, which extends
`Snapshots`; it instantiates `WriteRules` as well, to check that the places the
windows of the writers assume are those of the encoded banks.

### `WriteRules`, `GridRules`

Pure operators: `AllowsWrite` with its switches and their defaults, the windows of
the writable models in the two layouts with the 16-bit end, `targetUIDs`, the stages
of a Model 123 write; the registers of the writable parameters, their bounds, the
inverter families and the routes. A client's address is a record of what `AllowsWrite`
asks of it (does it parse, is it loopback, is it on a subnet of the server).

### `Curtailment`

Models `ControlsWriter`, `Reverter`, the statements they execute, the refresh
loop's effect on the fleet, and the shutdown path.

| Model | Code |
|---|---|
| `limit`, `onoff` | `power.limitedpower`, `turn_on_off.set_flag` of `database.db` |
| `snap` | the UIDs of `Server.snap`, in order; empty before the first refresh |
| `pc`, `req`, `targets`, `k` | a handler goroutine inside `Apply`: its stage, its write, the result of `targetUIDs`, the loop index |
| `timer[h]` | a `*time.Timer` and what its closure holds: *armed*; *due* once it expired and its goroutine waits for the mutex; *firing* through its loop |
| `pending` | `Reverter.timers` |
| `leased`, `overtaken` | history: inverters capped under a reversion that was scheduled since; units for which `fire` discarded the handle of another timer |

One SQL statement, one critical section of `Reverter.mu` and one load of the
snapshot is one step. `Receive` chooses a write and fixes the targets,
`CancelReversion`, `RestoreFull`, `ApplyCap`, `ArmOrCancelReversion` and
`ApplyConn` are the stages of `Apply` (a loop takes one step per target),
`ApplyFails` is the early return of any loop. `Expire`, `Fire` and `FireRestore`
are a timer's life, `FireRestoreFails` the logged and forgotten error.
`StopReverter` may happen while handlers and fires are still running, as `Stop`
calls `Reverter.Stop` before it closes the listener.

Left out: time (a timer may expire at any moment after it was armed, so every
order of refreshes and expirations is there, including ones that real
durations make unlikely), `power.flag` (set by every statement, read by
`main.exe` only), and writes that are refused or change nothing.

### `CurtailmentProofs`

The theorems about `Curtailment`; see *Proofs*.

### `WriteTracking`

Models the tracker, the 711 and 134 writers as far as a legal write goes, the
refresh loop in its steps, and the tables shared with `main.exe`.

| Model | Code |
|---|---|
| `queue` | `set_protection_parameters_inverter`, one row per inverter and parameter |
| `held`, `prot` | external: what an inverter runs with; `protection_parameters60code`, what it reported last |
| `entries` | `WriteTracker.entries`: result, counter, the expected value under its code; `age` is the time relative to the deadline: *fresh*, *late* once it passed, *stale* after another refresh interval |
| `stage`, `built` | where `refresh` is, and the snapshot it is working on |
| `drafts` | the local `banks` of `buildBanks`, reduced likewise: the outcomes of the units it has encoded |
| `snap`, `pub` | `Server.snap`; `Server.banks`, reduced to AdptCtlRslt and AdptCtlReq of each unit |
| `pc`, `job` | a handler inside `Apply`: before `SetProtectionParam`, or between it and `Track` |
| `inv`, `param`, `newest` in entries and jobs | history: whom and what the write was for, and whether it is the last one queued |

`Receive` is the validation against the handler's copy of the snapshot (the
over-frequency trip AK must be known and stay half a hertz above the droop start;
`Ena = 1` keeps the AS/NZS mode), `Queue` and `QueueFails` are
`SetProtectionParam`, `TrackWrite` is `Track`. `Build`, `Reconcile`,
`PruneSettled`, `Encode`, `StoreBanks` and `StoreSnap` are the calls of `refresh` in
their order; `Encode` is one unit of the loop of `buildBanks`, with its call of
`tracker.Get`, so that handlers may track a write between two units, or between the last
of them and the store. `Age` is the passing of time for one entry; since the code compares times
only with an entry's own deadline, entries may age independently. `Send` and
`Report` are `main.exe`: an inverter may take or reject what it is sent, and
reports when it likes.

Abstracted: frequencies are hundredths of a hertz, and the tolerance of 0.05 is
five of them for the codes in hertz and none for the others, whose steps are
larger; a write touches one parameter, since read-only registers separate the
writable ones; codes belong to columns as `protection.go` maps them (`profiles.go`
names CA, CF and DC otherwise, so the two files disagree; the tracker follows
`protection.go`); the inverter's family is one that accepts the parameter;
refused writes, which change nothing, are no step. The request counter is
modelled modulo `MaxReq + 1`; the code's is 16 bits wide.

### `Outcomes`

The abstract specification of the tracker: each model of each unit has an outcome, which
a write makes IN_PROGRESS under the next number, a refresh settles once, as COMPLETED or
FAILED, and only then may be forgotten. For the next banks the outcome of each unit is
taken once (`Take`), and what was taken is published together. So the outcomes that
clients read of a unit are ones it had, in their order, and each was taken after the banks
before it were stored; they need not be of one moment, nor current: a write that comes
after its unit was taken is missing from these banks and is in the next. There are no
clients, no inverters, no reports and no deadlines. `WriteTracking` implements it with the
result and the counter of the tracker's entry (`OutcomeOf`), `drafts` for what is taken,
and `pub` as it is.

### `WriteTrackingProofs`

The theorems about `WriteTracking`; see *Proofs*.

### `Gateway`

Models `handleWrite` from the gate to the tables, for all four writers, beside the
refresh loop.

| Model | Code |
|---|---|
| `config` | `Server.cfg.Writes`, fixed when the server starts |
| `cap`, `onoff`, `queue` | the three tables of `database.db` |
| `stage`, `built`, `banks`, `snap` | the refresh: the snapshot of `Build`, the two pointers it stores |
| `scan` | the fleet a client found when it read the chain of models: what its addresses are computed from |
| `pc`, `job` | a handler: the write, the layout of the bank it was looked up in, the snapshot it is carried out against |

`Receive` is the gate and `bankFor`, `LoadSnap` the second load, and then one of
`ApplyControls`, `FailControls`, `ApplyService`, `ApplyGrid` and `Refuse` follows, chosen
by the window (`Candidate`). A refresh can come between any two of these steps, so that a
client, its bank and its snapshot may be of three different fleets. `BuildComplete`
and `BuildPartial` are `Build` with all its queries answered, or without those that failed
(`Failures` is which can fail in one refresh: the limits, the model codes, the protection
rows); the parameter file may hold any of the fleets each time it is read. A bank is
abstracted to its fleet and the caps it shows. One `Apply` is one step: what happens
between its statements is the matter of `Curtailment` and `WriteTracking`. A statement may
fail: then `FailControls` leaves the inverters before it as they were written, caps first
and switches second, and returns the error; the other writers have one statement, which
fails as a refusal.

### `Device`

The abstract specification: all that clients can do to the inverters. One parameter of
one inverter gets a value that is safe for it (its family has the parameter, a delay is
in the regulated range, the droop starts between 50 Hz and half a hertz below the
inverter's trip), or the inverters of one unit get one cap, one switch, or both. It has
no registers, no refreshes and no clients. `Gateway` implements it with the tables as
they are; `Safe`, `Groups` and `Watts` are what its constants stand for.

### `Snapshots`, `Registers`, `Publication`

`Snapshots` is what the sources hold and how `Build` joins them; `Registers` emits both
kinds of bank, every model as the sequence of its registers, and reads them back as
`findModelInBank`, `Contains` and `Slice` do. `Publication` has a refresh as one step
for each source that it reads, while the sources change beside it: a file that does not
parse ends the refresh, a query that fails is an empty table. Its properties are stated
on the registers, as a client would: models are found by walking the chain, and points
by their offsets. Energies, signal strengths, the texts of configuration files and the
bit patterns of floats are left out; currents of floats are tenths.

### `GatewayProofs`, `PublicationProofs`, `FleetProofs`, `PointsProofs`

The theorems about `Gateway` and `Publication`; see *Proofs*. Those of `Publication` are in
three modules: what every bank is, what fleet and units tell of each other, and what single
points say of the measurements and rows they come from, with the range of every register.
`RegistersProofs` has the lemmas about encoders and the walk, `DataLemmas` those about
numbers, sequences, sums and concatenation that the standard proof modules do not state.

## Runs

| Run | Shows |
|---|---|
| `races` | two controllers, of the fleet and of its first unit, failing statements, stops and crashes: types, the map never holds a dead timer, and a running timer outside the map has one cause only |
| `solo` | one controller, all writes, two inverters in a stable order, no failures: a scheduled reversion is never lost, and every leased cap is lifted or rewritten |
| `late_fire` | violation of `SingleTimer`: see *Disagreements* |
| `two_units` | violation of `RestoreCancelsReversion` |
| `failed_restore`, `reordered` | violations of `RevertedWhenSilent`, one for each assumption of `solo` that is dropped |
| `track_stable` | one client, two inverters set up differently, one fleet order: types, the tracker expects the value that was queued last, and COMPLETED and FAILED agree with what the inverter of the write reported; tracker, drafts and published outcomes implement `Outcomes`, with writes tracked while banks are encoded |
| `track_fair` | an inverter that may leave the fleet, refreshes without protection rows: a write in progress is not forgotten, and gets an outcome whatever `main.exe` does |
| `track_nudge` | violation of `CompletedTookEffect` |
| `track_mode` | violation of `RegionIsKept` |
| `serve` | clients, handlers and refreshes with a fleet that changes: nobody writes who may not; caps stay in the range of the ECU; a write stays in its model and at its inverter; what is acknowledged is stored; the handlers implement `Device`; caps come to be shown |
| `publish` | five worlds from noon to morning, sources that change during a refresh: the banks can be walked, the places of the writable models are fixed, and fleet and units tell the same story about power, state, alarms, caps, curves and trips |

**Bounds of `Curtailment`.** One or two inverters are enough for an aggregate to
differ from a unit, and two orders of two inverters for a remapping. `Handle`
bounds the timers that exist at once: `Schedule` waits for a free handle. A unit
needs two (one armed, one late), so two handles serve one unit with one client,
and three handles the two units of the races run. `Requests` bounds what clients
send: the writes the code's comments name (Victron's block write, single
registers, `Ena = 0`, a write over the whole body), with percentages on both
sides of the 20 W floor.

**Bounds of `WriteTracking`.** Two inverters with different rows are enough for an
outcome to be read from the wrong one, and one unit has all the moments at which a write
can meet the encoding of its bank. (Units of different moments in one bank need two units
that are written to: such instances have ten times the states, and `ImplementsOutcomes` is
proved for any number.) `track_stable` writes two values of one
point, so that a later write can replace, or return to, an earlier one, and a
third value that validation refuses for as long as the trip stays where it is.
`MaxReq = 1` makes the counter wrap at every second write. Entries have no other
counter; ages, codes and queues are finite. `track_fair` adds a parameter that is
queued and not tracked, the fleet without the inverter, and the failing query.

**Bounds of `Gateway`.** One client: handlers meet only through the tables, which
one step of `Apply` reads and writes, and through the refresh loop, so a second one adds
writes the tables cannot tell from the first one's. (The interleavings inside `Apply`
are in the other two modules.) Two inverters of different families, one with a power row and a
protection row, one without; the fleet is the first of them or both, so that a unit
leaves and joins between the client's scan, the bank and the snapshot. A refresh that
fails knows the models of the inverters and neither caps nor protection rows: what is
validated against a row then meets none. Nine writes: a cap for the fleet that also
switches it off, and which can fail half-way, a cap lifted for one inverter, a switch
turned on for the other, one over the end of the registers, a delay, a droop on and over the
margin, a parameter the family lacks, a point of the curve. Three configurations: all
switches omitted, writes off for a listed client, open to the list alone. The proofs take all
these bounds away for the properties they cover.

**Bounds of `Publication`.** One refresh: it depends on nothing of an earlier one except
that a failed one leaves the banks, which `TypeOK` and `Published` allow for. Five worlds
follow each other at any moment, so a refresh mixes any that are in order: full and half
protection rows and rows of inverters that left, an empty fleet and a file that is torn,
types with two, four and no panels, an inverter whose identifier the id query leaves out,
phases 1, 2 and 3 in use or undetected, alarms in every vendor word, and offline inverters
with and without telemetry. Values stay small: the clamps
of power and temperature are in `Registers`, and no world reaches them.

**Restrictions, and what breaks without them.** These are behaviours of the code
that its comments do not deny; `PROJECT.json` lists them as hazards.
- `LeaseIsBacked` needs one client: two clients of one unit can interleave so that
  the last cap, written with a reversion, loses its timer.
- `ExpectsLastQueued` needs one client and one fleet order: two handlers may queue
  in one order and track in the other, and after a remapping an entry may wait for
  a write to another inverter.
- `CompletedWasReported` needs one fleet order: a tracker key is a unit ID, and
  the value is compared with whatever inverter has that place.
- `FailedWasNotReported` needs parameters that `protGet` can read; `Hz1`, `Hz2` and
  `Hz3` (DH, DI and CB) always end FAILED.
- `WriteStaysAtItsUnit` needs fleets of which one begins the other. With any two
  orders, a client that scanned one order writes to another inverter under the other: unit
  IDs are places. `WriteStaysInItsModel` and `DeviceSpec` need no such thing.
- `AcknowledgedIsStored` is for inverters that have a row in `power`. The `UPDATE` of one
  that has none changes nothing, and the write is acknowledged all the same.
- `PhasesAddUp` needs the phases in use to be among those shown: the encoder shows as many
  phases as there are, not those that there are. It also needs a power below the register's
  clamp, and a fleet with power at the voltage of a grid.
- `CurveAgreesWithDroop` is for units, and for a fleet of which some inverter has a
  protection row. Otherwise each model of the aggregate takes a row of its own.
- `WriteBackNeverTightens` allows for the rounding of 5 W: caps are written as
  percents of 500 W per panel and read as percents of the rating. In the other direction it
  does not hold, a value written back may loosen the cap.
- Two more are visible in the module and promised by nothing: `refresh` prunes
  before it publishes, so late refreshes can drop an outcome nobody saw, and
  pruning resets the request counter.

**Fairness.** Curtailment's `FairSpec` is weak fairness of each handler that has a
write and of each timer that runs: they are goroutines, which the Go scheduler
runs again, the mutex is never held across a blocking call, and the runtime
delivers an armed timer. WriteTracking's is weak fairness of the handlers, of the
refresh loop and of time. A refresh whose `Build` fails changes nothing and the
ticker starts another, so the assumption is that some refresh keeps succeeding. Gateway's is
weak fairness of the refresh loop, which a ticker starts again and again, and strong
fairness of a refresh whose queries are answered: a query fails because main.exe holds the
database lock, which it does not do every five seconds at the same moment. Without it
the registers may show no cap for ever, since a failed query of the limits is published as
caps lifted. `CapsAreShown` is stated for caps that stop changing, as clients may write
faster than refreshes come. No
fairness is assumed of clients, of `main.exe`, of the inverters, of failures or of
a stop.

## Disagreements between code and comments

The violation runs quote comments that the code does not live up to:

1. `fire` deletes the map entry of its unit even if a later `Schedule` put another
   timer there (`reverter.go:112`). The refreshed cap is lifted although it was
   refreshed, and the discarded timer can no longer be cancelled (`late_fire`).
2. `Ena = 0` on one unit cancels that unit's timer only; the aggregate's timer
   still lifts what the unit is capped to later (`two_units`).
3. A statement that fails after the timer was cancelled, or while it fires, leaves
   a cap with no timer and nothing that tries again (`failed_restore`).
4. When the fleet's order changes, a write to a unit replaces the timer of
   another inverter, whose cap then stays (`reordered`).
5. The tolerance of a match, 0.05 Hz, is five steps of `DbOf`. A write that moves
   the droop start by less is matched by the old value and COMPLETED before it was
   sent, even if the inverter then rejects it (`track_nudge`). A write that returns
   to the reported value while its predecessor is on the way is COMPLETED early for
   the same reason.
6. The AS/NZS mode is preserved from the last report, which `Ena = 0` overwrites
   with 15. The next `Ena = 1` queues 14, the mode of the other regions
   (`track_mode`).

Four more have no run, because they are about wording or about code that nothing
reaches:

7. `server.go:283` says a write "must fall fully inside the body of exactly one of
   these models". The end of the window is computed in 16 bits (`server.go:339`): a write
   whose last register is the last of all ends at 0, passes for Model 123 and is
   acknowledged. It changes nothing, which is proved (`WriteStaysInItsModel`).
8. `profiles.go:169` and `profiles.go:185` call the droop's start CA, its slope CF
   and leave DD unmapped, while `protection.go:61` and the tracker read DC and DD.
9. `config.go:89` says that a missing file disables writes. It yields the zero value,
   in which every switch is omitted, and an omitted switch means enabled.
10. `freqWattCurvePoints` (`profiles.go`) is called from tests only; the Model 134
    writer has offsets of its own.

## Proofs

**`CurtailmentProofs`** proves for every number of clients, inverters and timers
and every set of requests and fleets:

- `TypeCorrect`: `Spec => []TypeOK`. `TypeOK` includes that a handler in a loop
  and a timer in `fire` have a target at their index, which is what makes the
  steps of both loops well defined. It is inductive; `TypeStep` has one step for
  each action, and lemmas state what `Cancel`, `Schedule`, `Advance` and
  `FireAdvance` return.
- `PendingCorrect` and `OrphansCorrect`: the Reverter's map holds only live
  timers of its unit, and a running timer outside the map comes from a late fire.
  Neither is inductive without the other facts: `Stop` of a handle frees it only
  if the map has no second entry for it, which follows from the unit recorded in
  the timer (`PendingIsLive`), so the invariant proved is
  `TypeOK /\ PendingIsLive /\ OrphansAreLateFires`.
- `LeasesCorrect`: with one controller (`OneController`: one client, one order of the
  fleet, no failures, no stop) a scheduled reversion is never lost. The induction
  needs where the promise is at every moment, so `LeaseInv` adds to `LeaseIsBacked` that
  handlers and timers hold what their unit stands for in that order (`TargetsAreFleets`), and
  that what a handler has capped is not leased before it arms the timer (`CappedAreUnleased`).
- `SingleTimerCorrect` and `RestoreCorrect` prove what the runs that violate
  `SingleTimer` and `RestoreCancelsReversion` only suggest: that their causes are the
  only ones. Until a late `fire` has discarded another timer's handle (`overtaken = {}`),
  a unit has one timer, for any clients, failures, stops and crashes; and if moreover one
  client writes to one unit (`OneClient`, `OneUnit`), a restore leaves no timer behind.

**`WriteTrackingProofs`** proves for every number of clients and inverters, every
counter width, and every set of fleets, rows and writes:

- `TypeCorrect`: among others, the counter stays in its register's range.
- `KeptCorrect`: `InProgressIsKept` in full generality: several clients, fleets
  that change, missing rows. It follows from `EntryStep`, which says what any step
  can do to one entry: leave it, drop it once it is settled, keep it for the same
  write, or replace it by a handler's new one.
- `CompletedCorrect` and `FailedCorrect`: for a fleet that keeps its order
  (`SameFleet`), an outcome agrees with what the inverter of the write reported;
  FAILED also needs that every tracked parameter is one `protGet` reads
  (`Verifiable`). Both are hypotheses of the theorems, and restrictions of the run, as
  said above. The step needs that the inverter recorded with an entry is the one at
  its unit's place, so the invariant is `MeantInv`: types, the fleets of both
  snapshots are ones a refresh may find, and each job and each entry is for the
  inverter that some such fleet has at that place, and for a parameter that some
  client writes. It is inductive for any fleets; `SameFleet` then makes the places
  of the entry and of the snapshot the same. TLC found no violation of it on a
  bounded search of an instance with two fleet orders.
- `LastQueuedCorrect`: `ExpectsLastQueued` for one client (`OneClient`) and one fleet
  that lists an inverter once (`SameFleet`, `OnePlaceEach`). An entry may be outdated
  only while its successor is a job between `SetProtectionParam` and `Track`; the
  invariant `NewestInv` says so, and that such a job is for the newest write of its
  parameter.
- `RegionCorrect`: inverters that were set up in the AS/NZS mode keep it as long as no
  client writes `Ena = 0` (`NeverDisabled`), with failing queries and fleets that change.
  `RegionInv` follows the mode through everything that may hold it: the inverter, its
  report, both snapshots, the handlers' copies, the queue. So the write named in
  *Disagreements* is the only cause of what `track_mode` finds.
- `ImplementsOutcomes`: `Spec => OutcomeSpec`, the refinement, with no hypothesis. Time,
  reports, queueing and failures are stutters, `TrackWrite` is `Issue`, `Reconcile`,
  `PruneSettled` and `StoreBanks` are `Settle`, `Forget` and `Publish`, each for all units
  at once, and `Encode` is `Take` of one unit, with writes of any other or of the same
  in between. That a refresh settles and forgets only before it takes outcomes needs that
  there are drafts in its stage `banks` only, which is part of `TypeOK`.

**`GatewayProofs`** proves for any clients, configurations, inverters, fleets and writes,
and, in its first four theorems, with no assumption about how fleets follow each other:

- `TypeCorrect`: among others, that what is queued is a number and what is written to
  `power` is a limit between 20 and 500 W, although the registers of a write are read wherever its window was found.
- `UntouchedCorrect`: a server whose writes are off, or that no client may write to, never
  changes a table. Handlers write two steps after the gate, so the invariant is `GateInv`: if
  the server is locked, the tables are as found and no handler has been let in.
- `StaysInModelCorrect`: a write that means something in its model reaches no other model.
  The windows of the two layouts do overlap (the body of 711 in a unit's chain reaches to
  registers of the fleet's 703), so it rests on `NoCommonPlace`: the addresses at which a
  legal write of two models can begin are apart, in whichever layouts they are taken. The other
  half, writes over the last register, is `WrappedChangesNothing`.
- `ImplementsDevice`: `Spec => DeviceSpec`, the refinement. `StepImplements` maps
  refreshes, scans and refusals to stutters and the three writers to `Control` and `Set`; a
  Model 123 write that fails half-way is a `Control` of its unit's group as well. That
  `Set` is one parameter is `OneParameter`: between any two parameters of a model lies a
  register that clients may not write, so an accepted write names one at most, and no
  write can be queued by half. That a value is safe for the inverter although it was
  validated against a snapshot, whose queries may have failed, needs that what passed without
  the row would have passed with it, and means the same (`AcceptedOfRow`): all of Model 711
  needs the trip that the row has.
- `StaysAtUnitCorrect` and `StoredCorrect` are for fleets of which, of any two, one begins
  the other (`PrefixFleets`): a write to a unit changes the inverter its client found there,
  and an acknowledged write is stored as it was meant, for every inverter of its unit that has
  a row. The handler may hold a bank of one refresh and a snapshot of another, and the client a
  scan of a third. Three facts join them: `TakenAsMeant` (the handler reads the registers of
  the model the client aimed at), `SameLayout` (a legal write is found in the layout
  it was computed from) and `FoundIsMapped` (what a place holds in two such fleets is the same).

**`PublicationProofs`** proves for any contents of the sources, changing at any moment, with
any query failing, and for fleets of any size that unit numbers allow (`SmallFleets`: a file
that parses lists at most 254 inverters; with one more, `uint8(2 + i)` wraps to 0):

- `PlacesCorrect`: the writable models stand where the writers' windows assume.
- `ChainCorrect`: every bank is the chain it should be: a client that adds up lengths
  meets each model once, can read it in one piece, and ends on the end model.
- `CurveCorrect`: Models 711 and 134 tell one story.
- `FleetCapCorrect` (`CapsAreWatts`: the limit column holds natural numbers): the fleet
  counts as uncapped, or wholly open, just if each unit does. The fleet's percentage is a
  quotient of two sums that round down, so it needs that a sum of terms, each at most its
  bound, reaches the sum of the bounds only if each term does (`TotalBounded`).
- `WriteBackCorrect` (`CapsAreSettable`: those numbers are at most 500, the most any write
  of this program stores; a higher one, of another tool, would be tightened by a
  write-back): what is read and written back never tightens the cap but for rounding.

The invariant of all five is `PublishInv`: each bank encodes the snapshot that is stored
beside it, whatever mixture of sources that is, and files and snapshots fit their unit
numbers; the last two add that the caps of a snapshot are of the kind assumed (`CapsInv`).
It is simple, and the theorems are hard for another reason: what a client reads of an encoded bank.
`RegistersProofs` shows it in three steps. Each model is emitted with as many registers as it
declares, whatever the panels, trips and events are. Models laid one after another therefore
chain (`Laid`, `Chained`), with the place of each the sum of the lengths before it. And
`findModelInBank`, from the recursion equation of its walk, finds a model at its place if none
before has its identifier. After that, a point of a bank is a register of a model (`Shows`).

**`FleetProofs`** and **`PointsProofs`** prove what needs more than the chain: what the
registers say. Their hypotheses are about what the sources can hold, and TLC's five worlds
satisfy them.

- `SleepingCorrect` (`TailsAreNatural`: a telegram has no sign): no bank that shows power
  sleeps, and the fleet is connected, asleep or producing just as its units are. With a
  negative power one panel could hide another's, so the hypothesis is needed.
- `AlarmsCorrect`: an alarm of an inverter shows in the fleet's registers, and a unit shows
  its own and no others. A register is a sum of powers of two; that a bit of the sum is the
  bit that was put in is proved by splitting the sum at that bit.
- `WMaxCorrect` (`CapsAreWatts`, `RatingsAreWords`: a catalogued rating fits its register):
  the fleet's WMax is what the ratings and percentages of the units add up to.
- `SumCorrect` (`TailsAreWords`): the fleet's power is that of its connected units, its
  modules are theirs, and Models 114 and 160 show one power for each panel.
- `PhasesCorrect` (`TailsAreWords`): the phases add up to the total current, and that
  current at the shown voltage is the power. The current of a phase is rounded from its
  share of the power, the voltage from the sum of those measured, and the property allows
  for just these roundings, whatever the size of the fleet.
- `TripsCorrect` (`TripsAreSet`: limits and clearances are positive and fit two registers;
  `PercentsFit`: a limit is at most six times the voltage an inverter measures, so that its
  percentage fits a register): a trip curve is enabled just if it has a point, a point has a
  value and a time, and a unit's percentages are its inverter's own limits.
- `TypeCorrect` (`TailsAreWords`, `CapsAreWatts`; `ColumnsAreNumbers`: the columns that
  `Build` reads as numbers are numbers, and identifiers and frequencies fit a register):
  every register of every bank is a word. There is one lemma for each model (`RegsInverter`,
  `RegsTrips`, ..., for the unit `RegsUnit` and for the fleet `RegsFleet`), because each
  encoder keeps its registers in range its own way: some saturate, some wrap, and some
  rely on the range of what they are given.

`FleetIsSumOfUnits` and `WMaxIsSumOfCeilings` compare sums over different sets of different
terms; both are proved by comparing the sums term by term (`TotalsTogether`). The invariants
that are added to `PublishInv` say where a snapshot comes from: `BuiltInv`, that it is
`Build`'s of some file whose tails are as assumed, and `FoundInv`, that each of its parts was
in the sources at some moment, and need not have been there together.

An induction over data cannot be cited here, because the library states it for a predicate
as a parameter. `DataLemmas` states it for a set of numbers (`AllNat`), from the well-ordering
of the naturals; with it, the equations of `FlattenSeq`, of the walk and of the sum over a
fleet (`Total`) are proved for sequences of every length.

The assumptions are the named ones of the modules: fleets are sequences of
inverters, rows and requests are well typed, a counter has at least two values, a write
has 1 to 123 registers and does not go beyond the last one (the library sees to both), and
the sentinels are not data. TLC evaluates them in every run.

**Only model-checked.** `RevertedWhenSilent`, `WritesSettle` and `CapsAreShown` are liveness, which is out of the
provers' reach altogether.
`CompletedTookEffect` is false, see *Disagreements*.

## Not modelled

- Coils and discrete inputs: refused without a look at any state.
- `Load` and `validate` of the configuration, flags and paths: file handling, done once
  before anything runs. What they yield is `config` of `Gateway`.
- The SQL text of the readers and the schema probes; what a query returns, or that it
  fails, is a step of `Publication`. Energies (two sources, no client state), signal
  strengths, texts and the bits of floats.
- The Modbus library, which is a third party's, except for the limits it puts on a write.
  `main.exe` appears as the environment.
- Constant tables (register names, descriptions), formatting and logging.
- Instances that would need a fleet of 254 inverters, where `uint8(2 + i)` wraps; the
  operator `Unit` has the wrap, and no run reaches it.

## Plan

Done: `Curtailment`, `WriteTracking` with `Outcomes`, `Gateway` with `Device`, the
publication of registers, and proofs of the safety properties of the first three and of
all invariants of the fourth. What is left:

1. An abstract lease (capped until, lifted once) that `Curtailment` with one controller
   implements.
2. A discrete clock for "refreshed in time, never lifted".
