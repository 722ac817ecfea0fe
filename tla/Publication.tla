---------------------------- MODULE Publication ----------------------------
(***************************************************************************)
(* One refresh, step by step: Builder.Build reads the parameter file and   *)
(* then the tables of database.db one query at a time while main.exe goes  *)
(* on rewriting them, and the banks that are stored at the end mix what    *)
(* the sources held at different moments. A file that does not parse ends  *)
(* the refresh and leaves the banks; a query that fails is an empty table. *)
(*                                                                         *)
(* The properties read the banks as a client does, register by register:   *)
(* what they say must hold for every mixture.                              *)
(***************************************************************************)
EXTENDS Registers

CONSTANTS
    Worlds,      \* what the sources hold, one after the other
    MaxRefresh   \* bound on the refreshes

ASSUME BoundAssumption == MaxRefresh \in Nat \ {0} /\ Worlds # << >>

VARIABLES
    world,      \* the place in Worlds: main.exe and the ECU write the sources
    pc,         \* the source that the refresh reads next
    got,        \* what it read so far
    snap,       \* Server.snap; Nothing before a refresh succeeds
    banks,      \* Server.banks
    refreshes   \* history: refreshes started

vars == <<world, pc, got, snap, banks, refreshes>>

Now == Worlds[world]

Nothing == [capacity |-> 0, file |-> Garbled,
            limits |-> NoRows, events |-> NoRows, list |-> NoRows, prot |-> NoRows]

\* WriteTracker.Get where no write is tracked: COMPLETED. The outcomes of
\* writes are the matter of WriteTracking.
Untracked == [unit \in 0 .. 255 |-> [rslt |-> 1, req |-> 0]]

----------------------------------------------------------------------------
Init ==
    /\ world = 1
    /\ pc = "idle"
    /\ got = Nothing
    /\ snap = Nothing
    /\ banks = << >>
    /\ refreshes = 0

Change ==
    /\ world < Len(Worlds)
    /\ world' = world + 1
    /\ UNCHANGED <<pc, got, snap, banks, refreshes>>

\* powerALL.conf is read first; if it is no number the capacity stays 0.
StartRefresh ==
    /\ pc = "idle" /\ refreshes < MaxRefresh
    /\ pc' = "file"
    /\ got' = [Nothing EXCEPT !.capacity = IF Now.capacity = Garbled THEN 0 ELSE Now.capacity]
    /\ refreshes' = refreshes + 1
    /\ UNCHANGED <<world, snap, banks>>

ReadParams ==
    /\ pc = "file" /\ FileParses(Now.file)
    /\ pc' = "limits"
    /\ got' = [got EXCEPT !.file = Now.file]
    /\ UNCHANGED <<world, snap, banks, refreshes>>

FailParams ==
    /\ pc = "file" /\ ~FileParses(Now.file)
    /\ pc' = "idle"
    /\ got' = Nothing
    /\ UNCHANGED <<world, snap, banks, refreshes>>

After == [limits |-> "events", events |-> "list", list |-> "prot", prot |-> "publish"]

Query ==
    /\ pc \in DOMAIN After
    /\ \E rows \in {Now[pc], NoRows} : got' = [got EXCEPT ![pc] = rows]
    /\ pc' = After[pc]
    /\ UNCHANGED <<world, snap, banks, refreshes>>

\* The order of two map iterations is open: any pick.
Publish ==
    /\ pc = "publish"
    /\ snap' = Snapshot(got.capacity, got.file, got.limits, got.events, got.list, got.prot)
    /\ \E pick \in Picks(snap') : banks' = BuildBanks(snap', pick, Untracked)
    /\ pc' = "idle"
    /\ got' = Nothing
    /\ UNCHANGED <<world, refreshes>>

Next == Change \/ StartRefresh \/ ReadParams \/ FailParams \/ Query \/ Publish

Spec == Init /\ [][Next]_vars

----------------------------------------------------------------------------
(* Reading a bank.                                                         *)

Rules == INSTANCE WriteRules

Published == banks # << >>
Units == DOMAIN banks \ {1}

Point(bank, id, off) == At(bank, FindModel(bank, id) + 2 + off)
Point32(bank, id, off) == 65536 * Point(bank, id, off) + Point(bank, id, off + 1)

\* The inverter model follows the Common model; 111 to 113 go with it.
InverterID(bank) == At(bank, Base + 70)
Measured(bank, off) == Point(bank, InverterID(bank), off)
MeasuredFloat(bank, off) == Point(bank, InverterID(bank) + 10, off)

OffA == 0
OffAph == 1
OffPhV == 8
OffW == 12
OffSt == 36
OffEvt1 == 38
OffEvtVnd == 42
Has(bank, id) == FindModel(bank, id) # NotFound

\* The models of a bank in their order, around those that not every bank has.
Models(inverter, settings, mppt, vendor) ==
    <<1, inverter, inverter + 10, 114, 120>> \o settings
    \o <<123, 707, 708, 709, 710, 703, 711, 134>> \o mppt \o vendor

Expected(u) ==
    LET fleet == u = 1
        panels == Panels(IF fleet THEN snap.invs ELSE <<snap.invs[u - 1]>>)
    IN  Models(InverterID(banks[u]),
               IF fleet THEN <<121>> ELSE << >>,
               IF panels = << >> \/ DisableMPPT THEN << >> ELSE <<160>>,
               IF fleet /\ snap.invs # << >> THEN <<64202>> ELSE << >>)

\* Sums over the banks of the inverters that pass a test.
UnitSum(P(_), f(_)) ==
    Total([j \in DOMAIN snap.invs |-> IF P(banks[1 + j]) THEN f(banks[1 + j]) ELSE 0])
Every(bank) == TRUE
Connected(bank) == Point(bank, 123, Rules!OffConn) = 1
SomeUnit(P(_)) == \E u \in Units : P(banks[u])

Signed(w) == IF w > 32767 THEN w - 65536 ELSE w
Near(a, b, tolerance) == a - b \in -tolerance .. tolerance

\* The bits of the two registers from an offset of the inverter model on.
BitsAt(bank, off) ==
    {b \in 0 .. 31 : (Measured(bank, off + 1 - b \div 16) \div 2 ^ (b % 16)) % 2 = 1}

\* Model 160: its modules, and one point of one module.
Modules(bank) == IF Has(bank, 160) THEN Point(bank, 160, 6) ELSE 0
ModulePoint(bank, c, off) == Point(bank, 160, 8 + 20 * (c - 1) + off)

----------------------------------------------------------------------------
(* Invariants.                                                             *)

\* What a register holds: 16 bits.
Words == 0 .. 65535

\* The type invariant: every register of every bank is one.
TypeOK ==
    /\ world \in DOMAIN Worlds /\ refreshes \in 0 .. MaxRefresh
    /\ pc \in {"idle", "file", "publish"} \cup DOMAIN After
    /\ \A u \in DOMAIN banks : \A k \in DOMAIN banks[u] : banks[u][k] \in Words

\* A client that adds up the lengths finds these models, each at its place, can
\* read each in one piece, and ends on the end model and on the end of the bank.
Walkable(bank, ids) ==
    LET place(k) == FindModel(bank, ids[k])
        size(k) == 2 + At(bank, place(k) + 1)
        end == place(Len(ids)) + size(Len(ids))
    IN  /\ place(1) = Base + 2
        /\ \A k \in 2 .. Len(ids) : place(k) = place(k - 1) + size(k - 1)
        /\ \A k \in DOMAIN ids : InBank(bank, place(k), size(k))
        /\ Slice(bank, end, 2) = <<EndModelID, 0>> /\ end + 2 = Base + Len(bank)

\* Every bank is the chain of the models it should have: the lengths declared
\* for a fleet of any size are those emitted.
ChainIsWalkable == \A u \in DOMAIN banks : Walkable(banks[u], Expected(u))

\* The models that clients write to stand at the same places in the bank of
\* every fleet and unit, whatever else the bank holds: an address that a client
\* computed once stays that of its register while inverters come and go.
WritablePlacesAreFixed ==
    \A u \in DOMAIN banks : \A k \in DOMAIN Rules!Writables :
        LET m == Rules!Writables[k]
            place == FindModel(banks[u], m)
        IN  /\ place + 2 = Rules!BodyStart(IF u = 1 THEN "fleet" ELSE "unit", m)
            /\ At(banks[u], place + 1) = Rules!BodyLen[m]

\* The fleet's power is that of the units that are connected, its modules are
\* the modules of all units, and Models 114 and 160 show the same panels.
FleetIsSumOfUnits ==
    Published =>
        /\ Signed(Measured(banks[1], OffW)) =
               Clamp(UnitSum(Connected, LAMBDA b : Signed(Measured(b, OffW))), -32760, 32760)
        /\ Modules(banks[1]) = UnitSum(Every, Modules)
        /\ \A u \in DOMAIN banks : \A c \in 1 .. Min({8, Modules(banks[u])}) :
               Point32(banks[u], 114, 32 + 2 * (c - 1)) = ModulePoint(banks[u], c, 11)

\* Both inverter models tell the same state; the fleet sleeps only if every
\* unit does, runs only if one does, and nothing connected that produces sleeps.
SleepingMeansNoPower ==
    Published =>
        LET St(b) == Measured(b, OffSt)
        IN  /\ \A u \in DOMAIN banks :
                   /\ MeasuredFloat(banks[u], 46) = St(banks[u])
                   /\ Connected(banks[u]) /\ Signed(Measured(banks[u], OffW)) > 0
                          => St(banks[u]) = StMPPT
            /\ (St(banks[1]) = StSleep) = ~SomeUnit(LAMBDA b : St(b) # StSleep)
            /\ (St(banks[1]) = StMPPT) = SomeUnit(LAMBDA b : St(b) = StMPPT)
            /\ Connected(banks[1]) = SomeUnit(Connected)

\* An alarm of one inverter, offline or not, is an alarm of the fleet, and no
\* bit of its event string that has a register is lost.
AlarmsSurface ==
    Published =>
        /\ BitsAt(banks[1], OffEvt1) = UNION {BitsAt(banks[u], OffEvt1) : u \in Units}
        /\ \A u \in Units : \A w \in 0 .. 2 :
               LET shown == {b + 32 * w : b \in BitsAt(banks[u], OffEvtVnd + 2 * w)}
               IN  /\ shown = snap.invs[u - 1].events \cap (32 * w .. 32 * w + 31)
                   /\ \A b \in shown : b - 32 * w \in BitsAt(banks[1], OffEvtVnd + 2 * w)

\* The fleet counts as uncapped, or as wholly open, only if each unit does.
FleetCapCoversUnits ==
    Published /\ Units # {} =>
        /\ (Point(banks[1], 123, Rules!OffEna) = 1) = SomeUnit(LAMBDA b : Point(b, 123, Rules!OffEna) = 1)
        /\ (Point(banks[1], 123, Rules!OffPct) = 100) = ~SomeUnit(LAMBDA b : Point(b, 123, Rules!OffPct) # 100)

\* Models 711 and 134 tell one story: the curve is enabled where the droop is
\* and all four points are there. The fleet's models may be of two rows if no
\* inverter of the fleet has one.
CurveAgreesWithDroop ==
    \A u \in DOMAIN banks :
        u # 1 \/ (\E j \in DOMAIN snap.invs : snap.invs[j].uid \in DOMAIN snap.prot) =>
            (Point(banks[u], 134, 1) = 1) =
                (Point(banks[u], 711, 0) = 1 /\ Point(banks[u], 134, 10) = 4)

\* A trip point that counts has a value and a time, the curve is enabled just
\* if it has one, and a unit's voltage percents, taken of the voltage it
\* shows, are voltages of its protection row.
TripsAreUsable ==
    \A u \in DOMAIN banks : \A id \in 707 .. 710 :
        LET bank == banks[u]
            n == Point(bank, id, 8)
            width == IF id \in {707, 708} THEN 3 ELSE 4
            at(k) == 9 + width * (k - 1)
            volts(k) == (Point(bank, id, at(k)) * Measured(bank, OffPhV)) \div 100
        IN  /\ (Point(bank, id, 0) = 1) = (n > 0)
            /\ \A k \in 1 .. n : Point32(bank, id, at(k) + width - 2) > 0
            /\ \A k \in 1 .. n :
                   IF width = 4 THEN Point32(bank, id, at(k)) > 0
                   ELSE u # 1 /\ Measured(bank, OffPhV) > 0 =>
                        \E c \in {"AC", "AQ", "AY", "AD", "AB"} \cap DOMAIN snap.prot[snap.invs[u - 1].uid] :
                            Near(volts(k), 100 * snap.prot[snap.invs[u - 1].uid][c], 100)

\* A client that adds up the phases gets the total current, and the total
\* current at the voltage shown is the power, if the phases in use are the
\* ones shown and neither the power nor the voltage leaves its range. If other
\* phases are in use, their registers are not shown.
PhasesAddUp ==
    Published =>
        LET bank == banks[1]
            amps(ph) == Measured(bank, OffAph + ph - 1)
            shown(ph) == IF amps(ph) = 65535 THEN 0 ELSE amps(ph)
            a == Measured(bank, OffA)
            v == Measured(bank, OffPhV)
            w == Signed(Measured(bank, OffW))
        IN  (\A j \in Online(snap.invs) : PhaseOf(snap.invs[j]) <= PhasesUsed(snap))
            /\ w < 32760 /\ (w = 0 \/ v >= 10) =>
                /\ Near(a, shown(1) + shown(2) + shown(3), 1)
                /\ Near(a * v, 10 * w, a + v)

\* The fleet's WMax (Model 121) is what the ratings (120) and the percentages
\* (123) of the units add up to, if the cap of every inverter is known.
WMaxIsSumOfCeilings ==
    Published /\ (\A j \in DOMAIN snap.invs : snap.invs[j].limit > 0) =>
        LET wmax == Point(banks[1], 121, 0)
            rating(b) == Point(b, 120, 1)
        IN  wmax # 65535 =>
                100 * wmax \in UnitSum(Every, LAMBDA b : rating(b) * Point(b, 123, Rules!OffPct))
                               .. UnitSum(Every, LAMBDA b : rating(b) * (Point(b, 123, Rules!OffPct) + 1))

\* A client that writes back the percentage it read never tightens the cap,
\* but for the rounding of 5 W, where the panels' caps reach the rating. It
\* may loosen it: caps are percents of 500 W, read-backs of the rating.
WriteBackNeverTightens ==
    \A u \in Units :
        LET inv == snap.invs[u - 1]
            pct == Point(banks[u], 123, Rules!OffPct)
        IN  NameplateW(inv) \in 1 .. MaxPanelLimitW * PanelCount(inv) =>
                /\ Rules!PanelWatts(pct) > Cap(inv) - 5
                /\ InvCapPct([inv EXCEPT !.limit = Rules!PanelWatts(pct)]) >= pct
=============================================================================
