----------------------------- MODULE Registers -----------------------------
(***************************************************************************)
(* The register banks: what Encode and EncodePerInverterWithProtection     *)
(* make of a snapshot, register by register, and how a bank is read. Pure  *)
(* operators. A body is written as the sequence of its registers, so that  *)
(* the length a model declares and the registers it emits are two things.  *)
(*                                                                         *)
(* Texts are blanks of their length, except that a unit's serial number    *)
(* starts with its UID. A float32 is two registers with the rounded value, *)
(* currents in tenths; the bit pattern of NaN is kept. Go leaves the order *)
(* of a map open: rows taken from one are parameters of Encode.            *)
(***************************************************************************)
EXTENDS Snapshots

CONSTANTS
    PhaseOption,  \* Options.Phase: 1 .. 3 phases, or 0 to detect them
    DisableMPPT   \* Options.DisableMPPT

ASSUME OptionAssumption == PhaseOption \in 0 .. 3 /\ DisableMPPT \in BOOLEAN

Base == 40000
EndModelID == 65535

Word(v) == v % 65536
Repeat(n, v) == [j \in 1 .. n |-> v]
Zeros(n) == Repeat(n, 0)
NoU16(n) == Repeat(n, 65535)
NoS16(n) == Repeat(n, 32768)
NoU32 == NoU16(2)
NaN == <<32704, 0>>
Acc32(v) == <<Word(v \div 65536), Word(v)>>
Float(v) == Acc32(v)
NaNs(n) == FlattenSeq(Repeat(n, NaN))

Clamp(v, lo, hi) == IF v < lo THEN lo ELSE IF v > hi THEN hi ELSE v
\* Mutant: a value is stored as it is.
U16Stored(v) == v

U16(v) == Clamp(v, 0, 65535)

\* Round(a, b) is a / b, rounded as uint16(x + 0.5) does; 0 of nothing.
Round(a, b) == IF b = 0 THEN 0 ELSE Word((2 * a + b) \div (2 * b))

Bool(b) == IF b THEN 1 ELSE 0
Val(row, c) == IF c \in DOMAIN row THEN row[c] ELSE 0

----------------------------------------------------------------------------
(* Operating state, events and phases.                                     *)

StOff == 1
StSleep == 2
StMPPT == 4
StStandby == 8

\* Mutant: power alone tells the state.
OperatingStateByPower(online, power) == IF power > 0 THEN StMPPT ELSE StSleep

OperatingState(online, power) ==
    IF ~online THEN StSleep ELSE IF power > 0 THEN StMPPT ELSE StStandby

\* Bits of the APsystems event string that raise each bit of Evt1.
Evt1Sources ==
    [b \in 0 .. 15 |->
        CASE b = 0  -> {17}
          [] b = 1  -> {8, 10, 39, 41}
          [] b = 2  -> {19}
          [] b = 4  -> {21}
          [] b = 6  -> {18}
          [] b = 7  -> {16}
          [] b = 8  -> {0, 29, 31}
          [] b = 9  -> {1, 30, 32}
          [] b = 10 -> {2, 4, 6, 23, 33, 35, 37, 44}
          [] b = 11 -> {3, 5, 7, 24, 34, 36, 38, 45}
          [] b = 15 -> {28}
          [] OTHER  -> {}]

MapToEvt1(bits) == {b \in 0 .. 15 : Evt1Sources[b] \cap bits # {}}

\* The 32 bits from bit `from` on, as two registers.
BitWord(bits, from) ==
    Total([k \in 1 .. 16 |-> IF from + k - 1 \in bits THEN 2 ^ (k - 1) ELSE 0])
Bits32(bits, from) == <<BitWord(bits, from + 16), BitWord(bits, from)>>

EventRegisters(bits) ==
    Bits32(MapToEvt1(bits), 0) \o NoU32 \o Bits32(bits, 0)
    \o Bits32(bits, 32) \o Bits32(bits, 64) \o NoU32

PhaseOf(inv) == IF inv.phase \in 1 .. 3 THEN inv.phase ELSE 1

\* detectPhase: the number of phases on which inverters are online.
DetectPhase(s) ==
    LET seen == {PhaseOf(s.invs[j]) : j \in Online(s.invs)}
    IN  IF seen = {} THEN 1 ELSE Cardinality(seen)

PhasesUsed(s) == IF PhaseOption = 0 THEN DetectPhase(s) ELSE PhaseOption

\* Mutant: an inverter whose phase is not known counts for none.
PhaseWKnown(s, ph) ==
    SumAt(s.invs, {j \in Online(s.invs) : s.invs[j].phase = ph}, LAMBDA inv : inv.pac)

\* The power of one phase, from which its current is derived.
PhaseW(s, ph) ==
    SumAt(s.invs, {j \in Online(s.invs) : PhaseOf(s.invs[j]) = ph}, LAMBDA inv : inv.pac)

Amps10(w, volt) == Round(10 * w * volt.n, volt.sum)

----------------------------------------------------------------------------
(* Models 101 to 103 and 111 to 113. Both encodings of the fleet, or of a  *)
(* unit, carry the same measurement.                                       *)

FleetMeasure(s) ==
    [phases |-> PhasesUsed(s),
     a |-> Amps10(PhaseW(s, 1) + PhaseW(s, 2) + PhaseW(s, 3), s.volt),
     phA |-> [ph \in 1 .. 3 |-> Amps10(PhaseW(s, ph), s.volt)],
     v |-> Round(s.volt.sum, s.volt.n), w |-> s.power,
     hz |-> Round(s.freq.sum, s.freq.n), hzFloat |-> Float(Round(s.freq.sum, s.freq.n)),
     temp |-> s.temp, st |-> OperatingState(s.onlineCount > 0, s.power),
     events |-> AggregateEventBits(s)]

UnitMeasure(inv) ==
    LET a == Amps10(inv.pac, [sum |-> inv.vac, n |-> 1])
    IN  [phases |-> 1, a |-> a, phA |-> Repeat(3, a), v |-> inv.vac, w |-> inv.pac,
         hz |-> inv.freq, hzFloat |-> IF inv.freq > 0 THEN Float(inv.freq) ELSE NaN,
         temp |-> inv.temp, st |-> OperatingState(inv.online, inv.pac),
         events |-> inv.events]

\* The value of each phase in use, and the sentinel for the others.
PerPhase(m, values, none) ==
    FlattenSeq([ph \in 1 .. 3 |-> IF ph <= m.phases THEN values[ph] ELSE none])

InverterModel(m) ==
    <<100 + m.phases, 50, m.a>> \o PerPhase(m, [ph \in 1 .. 3 |-> <<m.phA[ph]>>], NoU16(1)) \o <<Word(-1)>>
    \o NoU16(3) \o PerPhase(m, Repeat(3, <<m.v>>), NoU16(1)) \o <<0>>
    \o <<Word(Clamp(m.w, -32760, 32760)), 0, m.hz, Word(-2)>>
    \o <<32768, 0, 32768, 0, 32768, 0>> \o Zeros(3)
    \o <<65535, 0, 65535, 0, 32768, 0>>
    \o <<Word(Clamp(m.temp, -100, 200))>> \o NoS16(3) \o <<0, m.st, 0>>
    \o EventRegisters(m.events)

InverterFloat(m) ==
    <<110 + m.phases, 60>> \o Float(m.a) \o PerPhase(m, [ph \in 1 .. 3 |-> Float(m.phA[ph])], NaN)
    \o NaNs(3) \o PerPhase(m, Repeat(3, Float(m.v)), NaN)
    \o Float(m.w) \o m.hzFloat \o NaNs(3) \o Float(0) \o NaNs(3)
    \o Float(m.temp) \o NaNs(3) \o <<m.st, 0>> \o EventRegisters(m.events)

----------------------------------------------------------------------------
(* Panels: Models 114 and 160, of the fleet or of a single inverter.       *)

Panels(invs) ==
    FlattenSeq([j \in DOMAIN invs |->
        [c \in DOMAIN PanelPowers(invs[j]) |->
            [uid |-> invs[j].uid, vac |-> invs[j].vac, temp |-> invs[j].temp,
             w |-> PanelPowers(invs[j])[c]]]])

\* Mutant: only the channels of the panels are emitted.
DCDataOfPanels(panels, unknown) ==
    <<114, 6 * Len(panels)>> \o FlattenSeq([c \in 1 .. 3 * Len(panels) |-> NaN])

\* Eight channels for the first eight panels. A voltage that is not known is
\* 0 for the fleet and NaN for a unit.
DCData(panels, unknown) ==
    LET Channel(value(_)) ==
            FlattenSeq([c \in 1 .. 8 |-> IF c <= Len(panels) THEN value(panels[c]) ELSE NaN])
    IN  <<114, 48>>
        \o Channel(LAMBDA p : IF p.vac > 0 THEN Float(p.vac) ELSE unknown)
        \o Channel(LAMBDA p : IF p.vac > 0 THEN Float(Round(10 * p.w, p.vac)) ELSE unknown)
        \o Channel(LAMBDA p : Float(p.w))

PanelModule(c, p) ==
    <<c, p.uid>> \o Zeros(7)
    \o <<IF p.vac > 0 THEN Round(10 * p.w, p.vac) ELSE 65535,
         IF p.vac > 0 THEN p.vac ELSE 65535, p.w>>
    \o Acc32(0) \o NoU32 \o <<Word(Clamp(p.temp, -100, 200)), IF p.w > 0 THEN StMPPT ELSE StOff>>
    \o NoU32

\* Mutant: a module is counted without its event word.
MultiMPPTShort(panels) ==
    IF panels = << >> \/ DisableMPPT THEN << >>
    ELSE <<160, 8 + 18 * Len(panels), Word(-1), 0, 0, 0>> \o NoU32 \o <<Len(panels), 65535>>
         \o FlattenSeq([c \in DOMAIN panels |-> PanelModule(c, panels[c])])

\* The model is left out where there is no panel.
MultiMPPT(panels) ==
    IF panels = << >> \/ DisableMPPT THEN << >>
    ELSE <<160, 8 + 20 * Len(panels), Word(-1), 0, 0, 0>> \o NoU32 \o <<Len(panels), 65535>>
         \o FlattenSeq([c \in DOMAIN panels |-> PanelModule(c, panels[c])])

----------------------------------------------------------------------------
(* Ratings, settings and controls.                                         *)

Nameplate(w) ==
    <<120, 26, 4, U16(w), 0, U16(w), 0>> \o NoS16(4) \o <<0, Round(10 * w, 230), Word(-1)>>
    \o Repeat(4, 1000) \o <<Word(-3), 65535, 0, 65535, 0, 65535, 0, 65535, 0, 0>>

FleetNameplate(s) == Nameplate(IF s.capacity > 0 THEN s.capacity ELSE TotalNameplateW(s))

BasicSettings(s, vref) ==
    LET w == TotalLimitedW(s)
    IN  <<121, 30, IF w > 0 /\ w <= 65535 THEN w ELSE 65535,
          IF vref > 0 /\ vref < 65535 THEN vref ELSE 65535>>
        \o NoS16(1) \o NoU16(3) \o NoS16(4) \o NoU16(1) \o NoS16(4) \o NoU16(5)
        \o Zeros(7) \o <<Word(-3), Word(-2), 0>>

\* invCapPct and the flag beside it: 0 stands for no cap.
Cap(inv) == IF inv.limit = 0 THEN MaxPanelLimitW ELSE inv.limit

\* Mutant: the cap of one panel is compared with the rating of them all.
InvCapPctOnePanel(inv) ==
    LET np == NameplateW(inv)
    IN  IF np <= 0 THEN Min({100, (Cap(inv) * 100) \div MaxPanelLimitW})
        ELSE (Min({Cap(inv), np}) * 100) \div np

InvCapPct(inv) ==
    LET np == NameplateW(inv)
        ceiling == Min({Cap(inv) * PanelCount(inv), np})
    IN  IF np <= 0 THEN Min({100, (Cap(inv) * 100) \div MaxPanelLimitW})
        ELSE (ceiling * 100) \div np

Capped(inv) == Cap(inv) < MaxPanelLimitW

Controls(pct, ena, conn) ==
    <<123, 24>> \o NoU16(2) \o <<conn, pct>> \o NoU16(3) \o <<ena, 32768>> \o NoU16(3)
    \o <<0>> \o NoS16(3) \o NoU16(3) \o Zeros(5)

\* Mutant: the fleet counts as capped only if all of it is.
FleetControlsAll(s) ==
    IF s.invs = << >> THEN Controls(100, 0, 0)
    ELSE Controls(SumOver(s.invs, InvCapPct) \div Len(s.invs),
                  Bool(\A j \in DOMAIN s.invs : Capped(s.invs[j])),
                  Bool(\E j \in DOMAIN s.invs : s.invs[j].online))

FleetControls(s) ==
    IF s.invs = << >> THEN Controls(100, 0, 0)
    ELSE Controls(SumOver(s.invs, InvCapPct) \div Len(s.invs),
                  Bool(\E j \in DOMAIN s.invs : Capped(s.invs[j])),
                  Bool(\E j \in DOMAIN s.invs : s.invs[j].online))

UnitControls(inv) == Controls(InvCapPct(inv), Bool(Capped(inv)), Bool(inv.online))

\* The vendor model, left out for an empty fleet.
Vendor(s) ==
    IF s.invs = << >> THEN << >>
    ELSE <<64202, 16 + 10 * Len(s.invs)>> \o Zeros(15) \o <<Len(s.invs)>>
         \o FlattenSeq([j \in DOMAIN s.invs |->
                LET inv == s.invs[j]
                IN  <<j, 0, U16(inv.limit), U16(inv.phase), U16(inv.model), 0,
                      PanelCount(inv), U16(NameplateW(inv)), Bool(inv.online), 0>>])

----------------------------------------------------------------------------
(* Trips, service entry, droop and curve: the row of one inverter.         *)

\* Voltages of the pairs are percents of the voltage measured now, or of 230 V.
PctOfVNom(v, volt) ==
    IF volt.sum = 0 THEN U16((2000000 * v + 230) \div 460)
    ELSE U16((20000 * v * volt.n + volt.sum) \div (2 * volt.sum))

\* The code of a point and that of its clearance; AB is cleared in 600 s.
TripCodes ==
    [LV |-> << <<"AC", "BB">>, <<"AQ", "BD">> >>,
     HV |-> << <<"AY", "BE">>, <<"AD", "BC">>, <<"AB", "AB">> >>,
     LF |-> << <<"AE", "BJ">>, <<"AJ", "BH">> >>,
     HF |-> << <<"AF", "BK">>, <<"AK", "BI">> >>]

\* Mutant: a point is reported although its clearance is not known.
TripPointsUnpaired(row, curve) ==
    LET point(p) == IF p[1] \in DOMAIN row THEN << [val |-> row[p[1]], tms |-> Val(row, p[2])] >>
                    ELSE << >>
    IN  FlattenSeq([c \in DOMAIN TripCodes[curve] |-> point(TripCodes[curve][c])])

TripPoints(row, curve) ==
    LET point(p) ==
            IF p[1] \in DOMAIN row /\ p[2] \in DOMAIN row
            THEN << [val |-> row[p[1]], tms |-> IF p[1] = "AB" THEN 60000 ELSE row[p[2]]] >>
            ELSE << >>
    IN  FlattenSeq([c \in DOMAIN TripCodes[curve] |-> point(TripCodes[curve][c])])

\* One model: a header, the curve that must trip, and two that are empty.
Trip(id, len, width, points) ==
    LET tier == FlattenSeq(points)
    IN  <<id, len, Bool(points # << >>), 0, 1, 3, 1, Word(-2), Word(-2), 1, Len(points)>>
        \o tier \o Zeros(3 * width - Len(tier)) \o Zeros(2 * (1 + 3 * width))

Trips(row, volt) ==
    LET percents(curve) ==
            LET ps == TripPoints(row, curve)
            IN  [k \in DOMAIN ps |-> <<PctOfVNom(ps[k].val, volt)>> \o Acc32(ps[k].tms)]
        hertz(curve) ==
            LET ps == TripPoints(row, curve)
            IN  [k \in DOMAIN ps |-> Acc32(ps[k].val) \o Acc32(ps[k].tms)]
    IN  Trip(707, 38, 3, percents("LV")) \o Trip(708, 38, 3, percents("HV"))
        \o Trip(709, 47, 4, hertz("LF")) \o Trip(710, 47, 4, hertz("HF"))

EnterService(row, volt) ==
    <<703, 17, Bool("AG" \in DOMAIN row), PctOfVNom(Val(row, "BO"), volt), PctOfVNom(Val(row, "BN"), volt)>>
    \o Acc32(Val(row, "BQ")) \o Acc32(Val(row, "BP")) \o Acc32((Val(row, "AG") + 50) \div 100)
    \o Zeros(4) \o NoU32 \o <<Word(-2), Word(-2)>>

DroopModes == {13, 14}

FreqDroop(row, outcome) ==
    <<711, 22, Bool(Val(row, "CV") \in DroopModes), outcome.req, outcome.rslt, 1>>
    \o Zeros(2) \o NoU32 \o <<0, Word(-2), Word(-1), 0>>
    \o Acc32(Max({0, Val(row, "DC") - 5000})) \o NoU32
    \o <<U16(10 * Val(row, "DD")), 65535>> \o Zeros(4)

CurveCodes == <<"DH", "DI", "CB", "CC">>

HasCurve(row) == \A c \in 1 .. 4 : CurveCodes[c] \in DOMAIN row

\* Mutant: the curve is announced as soon as the droop is on.
CurveEnabledByMode(row) == Val(row, "CV") \in DroopModes

CurveEnabled(row) == HasCurve(row) /\ Val(row, "CV") \in DroopModes

FreqWattCurve(row) ==
    LET hz(c) == U16(Val(row, CurveCodes[c]))
    IN  <<134, 68, 1, Bool(CurveEnabled(row))>> \o Zeros(3)
        \o <<1, 20, Word(-2), 0, 0, IF HasCurve(row) THEN 4 ELSE 0>>
        \o <<hz(1), 0, hz(2), 100, hz(3), 100, hz(4), 0>> \o Zeros(45) \o <<100>> \o Zeros(3)

\* aggregateProtection: the row of the first inverter that has one, else any
\* row of the map, else nothing.
AggregateProtection(s) ==
    LET with == {j \in DOMAIN s.invs : s.invs[j].uid \in DOMAIN s.prot}
    IN  IF with # {} THEN {s.prot[s.invs[Min(with)].uid]}
        ELSE IF DOMAIN s.prot # {} THEN {s.prot[u] : u \in DOMAIN s.prot}
        ELSE {NoRows}

----------------------------------------------------------------------------
(* Banks.                                                                  *)

Common(serial, unit) == <<1, 66>> \o Zeros(48) \o <<serial>> \o Zeros(15) \o <<unit, 0>>

\* What Encode leaves to the order of a map, call by call.
Picks(s) ==
    [vref : NominalVRefs(s), trips : AggregateProtection(s), enter : AggregateProtection(s),
     droop : AggregateProtection(s), curve : AggregateProtection(s)]

Encode(s, pick, outcome) ==
    <<21365, 28243>> \o Common(0, 1)
    \o InverterModel(FleetMeasure(s)) \o InverterFloat(FleetMeasure(s))
    \o DCData(Panels(s.invs), Float(0)) \o FleetNameplate(s)
    \o BasicSettings(s, pick.vref) \o FleetControls(s)
    \o Trips(pick.trips, s.volt) \o EnterService(pick.enter, s.volt)
    \o FreqDroop(pick.droop, outcome) \o FreqWattCurve(pick.curve)
    \o MultiMPPT(Panels(s.invs)) \o Vendor(s) \o <<EndModelID, 0>>

\* EncodePerInverterWithProtection.
EncodePerInverter(inv, unit, row, outcome) ==
    LET volt == [sum |-> inv.vac, n |-> 1]
    IN  <<21365, 28243>> \o Common(inv.uid, unit)
        \o InverterModel(UnitMeasure(inv)) \o InverterFloat(UnitMeasure(inv))
        \o DCData(Panels(<<inv>>), NaN) \o Nameplate(NameplateW(inv)) \o UnitControls(inv)
        \o Trips(row, volt) \o EnterService(row, volt)
        \o FreqDroop(row, outcome) \o FreqWattCurve(row)
        \o MultiMPPT(Panels(<<inv>>)) \o <<EndModelID, 0>>

\* buildBanks: the fleet at unit 1, inverters from 2 on. A unit is a byte: a
\* bank takes the place of an earlier one of its unit.
Unit(j) == (1 + j) % 256

BuildBanks(s, pick, outcome) ==
    [u \in {1} \cup {Unit(j) : j \in DOMAIN s.invs} |->
        LET mine == {j \in DOMAIN s.invs : Unit(j) = u}
            inv == s.invs[Max(mine)]
        IN  IF mine = {} THEN Encode(s, pick, outcome[1])
            ELSE EncodePerInverter(inv, u, IF inv.uid \in DOMAIN s.prot THEN s.prot[inv.uid] ELSE NoRows,
                                   outcome[u])]

\* bankFor: a unit that has no bank reads the fleet's.
BankFor(banks, u) == IF u \in DOMAIN banks THEN banks[u] ELSE banks[1]

At(bank, addr) == IF addr - Base + 1 \in DOMAIN bank THEN bank[addr - Base + 1] ELSE 0

\* Bank.Contains, and Bank.Slice of what it lets through.
InBank(bank, addr, count) == count > 0 /\ addr >= Base /\ addr + count <= Base + Len(bank)
Slice(bank, addr, count) == [k \in 1 .. count |-> At(bank, Word(addr + k - 1))]

NotFound == 0

\* findModelInBank: the address of the first model with this ID.
FindModel(bank, id) ==
    LET end == Word(Base + Len(bank))
        walk[cur \in 0 .. 65535] ==
            LET next == Word(cur + 2 + At(bank, Word(cur + 1)))
            IN  IF Word(cur + 1) >= end \/ At(bank, cur) = EndModelID THEN NotFound
                ELSE IF At(bank, cur) = id THEN cur
                ELSE IF next \notin cur + 1 .. end THEN NotFound
                ELSE walk[next]
    IN  walk[Base + 2]
=============================================================================
