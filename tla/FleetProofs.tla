---------------------------- MODULE FleetProofs ----------------------------
(***************************************************************************)
(* Theorems about Publication that relate the bank of the fleet to those   *)
(* of its units, for any contents of the sources and any fleet of at most  *)
(* 254 inverters.                                                          *)
(***************************************************************************)
EXTENDS PublicationProofs

----------------------------------------------------------------------------
(* Where a snapshot comes from.                                            *)

\* The columns behind an inverter's type are from T.
TailsFrom(file, T) == \A r \in DOMAIN file.rows : file.rows[r].tail \in Seq(T)

WorldTails(T) == \A w \in DOMAIN Worlds : FileParses(Worlds[w].file) => TailsFrom(Worlds[w].file, T)

\* They are natural numbers: a telegram has no sign. (The power of a panel that
\* was negative could hide another's.)
TailsAreNatural == WorldTails(Nat)

\* They are words, too: no panel's power or voltage needs more than 16 bits.
TailsAreWords == WorldTails(Words)

\* Every snapshot is Build's, of some sources.
Built(s, T) ==
    \E capacity, file, limits, events, list, prot :
        TailsFrom(file, T) /\ s = Snapshot(capacity, file, limits, events, list, prot)

BuiltInv(T) ==
    /\ pc \in {"limits", "events", "list", "prot", "publish"} => TailsFrom(got.file, T)
    /\ Published => Built(snap, T)

LEMMA InitBuilt == ASSUME NEW T PROVE Init => BuiltInv(T)
BY DEF Init, BuiltInv, Published

\* Every step preserves it.
LEMMA NextBuilt ==
    ASSUME NEW T, WorldTails(T), PublishInv, BuiltInv(T), [Next]_vars PROVE BuiltInv(T)'
<1>1. CASE Change
  BY <1>1 DEF Change, BuiltInv, Published
<1>2. CASE StartRefresh
  BY <1>2 DEF StartRefresh, BuiltInv, Published
<1>3. CASE ReadParams
  <2>1. TailsFrom(Now.file, T)
    BY <1>3 DEF ReadParams, WorldTails, Now, PublishInv
  <2>2. got'.file = Now.file
    BY <1>3 DEF ReadParams, PublishInv, GotInv
  <2>3. TailsFrom(got'.file, T)
    BY <2>1, <2>2
  <2>4. QED
    BY <1>3, <2>3 DEF ReadParams, BuiltInv, Published
<1>4. CASE FailParams
  BY <1>4 DEF FailParams, BuiltInv, Published
<1>5. CASE Query
  <2>1. PICK rows : got' = [got EXCEPT ![pc] = rows]
    BY <1>5 DEF Query
  <2>2. pc \in {"limits", "events", "list", "prot"}
    BY <1>5 DEF Query, After
  <2>3. got'.file = got.file
    BY <2>1, <2>2 DEF PublishInv, GotInv
  <2>4. TailsFrom(got'.file, T)
    BY <2>2, <2>3 DEF BuiltInv
  <2>5. QED
    BY <1>5, <2>4 DEF Query, BuiltInv, Published
<1>6. CASE Publish
  <2>1. TailsFrom(got.file, T)
    BY <1>6 DEF Publish, BuiltInv
  <2>2. snap' = Snapshot(got.capacity, got.file, got.limits, got.events, got.list, got.prot)
    BY <1>6 DEF Publish
  <2>3. Built(snap', T)
    BY <2>1, <2>2 DEF Built
  <2>4. QED
    BY <1>6, <2>3 DEF Publish, BuiltInv
<1>7. CASE UNCHANGED vars
  BY <1>7 DEF vars, BuiltInv, Published
<1>8. QED
  BY <1>1, <1>2, <1>3, <1>4, <1>5, <1>6, <1>7 DEF Next

\* The powers of an inverter's panels are at most four columns of its tail.
LEMMA PowersInAre ==
    ASSUME NEW T, NEW type, NEW tail \in Seq(T)
    PROVE  \E n \in 0 .. 4 : /\ IsSeq(PowersIn(type, tail), n)
                             /\ \A j \in 1 .. n : PowersIn(type, tail)[j] \in T
<1> DEFINE cols == PowerColumns(type, tail)
           v == [c \in DOMAIN cols |-> tail[cols[c]]]
<1>1. PowersIn(type, tail) = v
  BY DEF PowersIn
<1>2. CASE cols = <<2, 4>> /\ Len(tail) >= 5
  <2>1. DOMAIN cols = 1 .. 2 /\ cols[1] = 2 /\ cols[2] = 4
    BY <1>2
  <2>2. tail[2] \in T /\ tail[4] \in T
    BY <1>2
  <2> HIDE DEF cols
  <2>3. IsSeq(v, 2) /\ \A j \in 1 .. 2 : v[j] \in T
    BY <2>1, <2>2 DEF IsSeq
  <2> HIDE DEF v
  <2>4. QED
    BY <1>1, <2>3
<1>3. CASE cols = <<2, 4, 5, 6>> /\ Len(tail) >= 6
  <2>1. DOMAIN cols = 1 .. 4 /\ cols[1] = 2 /\ cols[2] = 4 /\ cols[3] = 5 /\ cols[4] = 6
    BY <1>3
  <2>2. tail[2] \in T /\ tail[4] \in T /\ tail[5] \in T /\ tail[6] \in T
    BY <1>3
  <2> HIDE DEF cols
  <2>3. IsSeq(v, 4) /\ \A j \in 1 .. 4 : v[j] \in T
    BY <2>1, <2>2 DEF IsSeq
  <2> HIDE DEF v
  <2>4. QED
    BY <1>1, <2>3
<1>4. CASE cols = << >>
  <2>1. DOMAIN cols = 1 .. 0
    BY <1>4
  <2> HIDE DEF cols
  <2>2. IsSeq(v, 0) /\ \A j \in 1 .. 0 : v[j] \in T
    BY <2>1 DEF IsSeq
  <2> HIDE DEF v
  <2>3. QED
    BY <1>1, <2>2
<1>5. \/ cols = <<2, 4>> /\ Len(tail) >= 5
      \/ cols = <<2, 4, 5, 6>> /\ Len(tail) >= 6
      \/ cols = << >>
  BY DEF PowerColumns
<1> HIDE DEF cols, v
<1>6. QED
  BY <1>2, <1>3, <1>4, <1>5

\* An inverter that is offline has none.
LEMMA PanelPowersAre ==
    ASSUME NEW T, NEW inv, inv.tail \in Seq(T)
    PROVE  \E n \in 0 .. 4 : /\ IsSeq(PanelPowers(inv), n)
                             /\ \A j \in 1 .. n : PanelPowers(inv)[j] \in T
<1>1. CASE inv.online
  <2>1. PanelPowers(inv) = PowersIn(inv.type, inv.tail)
    BY <1>1 DEF PanelPowers
  <2>2. QED
    BY <2>1, PowersInAre
<1>2. CASE ~inv.online
  <2>1. PanelPowers(inv) = << >>
    BY <1>2 DEF PanelPowers
  <2>2. IsSeq(<< >>, 0)
    BY DEF IsSeq
  <2>3. QED
    BY <2>1, <2>2
<1>3. QED
  BY <1>1, <1>2

\* The power of the panels of a tail of natural numbers is one.
LEMMA ACPowerIs ==
    ASSUME NEW type, NEW tail \in Seq(Nat) PROVE ACPower(type, tail) \in Nat
<1> DEFINE ps == PowersIn(type, tail)
           v == [j \in DOMAIN ps |-> ps[j]]
<1>1. PICK n \in 0 .. 4 : IsSeq(ps, n) /\ \A j \in 1 .. n : ps[j] \in Nat
  BY PowersInAre
<1>2. ACPower(type, tail) = Total(v)
  BY DEF ACPower, SumOver
<1> HIDE DEF ps
<1>3. n \in Nat /\ DOMAIN ps = 1 .. n
  BY <1>1 DEF IsSeq
<1>4. v = [j \in 1 .. n |-> v[j]] /\ \A j \in 1 .. n : v[j] \in Nat
  BY <1>1, <1>3
<1> HIDE DEF v
<1>5. IsSeq(v, n)
  BY <1>3, <1>4, FunctionIsSeq
<1>6. QED
  BY <1>2, <1>3, <1>4, <1>5, TotalPositive

\* The joins leave the telemetry alone.
LEMMA JoinedTelemetry ==
    ASSUME NEW row, row.tail \in Seq(Nat), NEW limits, NEW events, NEW list
    PROVE  LET inv == Joined(ParseInverterLine(row), limits, events, list)
           IN  inv.online = row.online /\ inv.tail = row.tail /\ inv.pac \in Nat
<1> DEFINE inv == ParseInverterLine(row)
           out == Joined(inv, limits, events, list)
<1>1. DOMAIN inv = {"uid", "online", "type", "freq", "temp", "vac", "pac", "tail", "phase",
                    "model", "limit", "events"}
  BY DEF ParseInverterLine
<1>2. inv.online = row.online /\ inv.tail = row.tail /\ inv.pac = ACPower(row.type, row.tail)
  BY DEF ParseInverterLine
<1> HIDE DEF inv
<1> DEFINE a == IF inv.uid \in DOMAIN Listed(list) THEN Listed(list)[inv.uid].phase ELSE 0
           b == IF inv.uid \in DOMAIN Listed(list) THEN Listed(list)[inv.uid].model ELSE 0
           c == IF inv.uid \in DOMAIN limits THEN limits[inv.uid] ELSE 0
           d == IF inv.uid \in DOMAIN events THEN EventBits(events[inv.uid]) ELSE {}
<1>3. out = [inv EXCEPT !.phase = a, !.model = b, !.limit = c, !.events = d]
  BY DEF Joined
<1> HIDE DEF out, a, b, c, d
<1>4. out.online = inv.online /\ out.tail = inv.tail /\ out.pac = inv.pac
  BY <1>1, <1>3
<1>5. ACPower(row.type, row.tail) \in Nat
  BY ACPowerIs
<1>6. QED
  BY <1>2, <1>4, <1>5 DEF out, inv

\* What Build counts and adds up.
Counted(s, n) ==
    /\ \A j \in 1 .. n : s.invs[j].pac \in Nat
    /\ s.onlineCount = Cardinality({j \in 1 .. n : s.invs[j].online})
    /\ s.power = Total([j \in 1 .. n |-> IF s.invs[j].online THEN s.invs[j].pac ELSE 0])

LEMMA BuiltCounts ==
    ASSUME NEW s, Built(s, Nat), NEW n \in Nat, IsSeq(s.invs, n) PROVE Counted(s, n)
<1>1. PICK capacity, file, limits, events, list, prot :
          TailsFrom(file, Nat) /\ s = Snapshot(capacity, file, limits, events, list, prot)
  BY DEF Built
<1> DEFINE row(j) == Joined(ParseInverterLine(file.rows[j]), limits, events, list)
           invs == [j \in DOMAIN file.rows |-> row(j)]
<1>2. /\ s.invs = invs
      /\ s.onlineCount = Cardinality(Online(invs))
      /\ s.power = LiveSystemPowerW(invs)
  BY <1>1 DEF Snapshot
<1>3. /\ Online(s.invs) = {j \in DOMAIN s.invs : s.invs[j].online}
      /\ LiveSystemPowerW(s.invs)
             = Total([j \in DOMAIN s.invs |-> IF j \in Online(s.invs) THEN s.invs[j].pac ELSE 0])
  BY DEF LiveSystemPowerW, SumAt, Online
<1>4. DOMAIN s.invs = 1 .. n
  BY DEF IsSeq
<1>5. \A j \in DOMAIN file.rows : row(j).pac \in Nat
  BY <1>1, JoinedTelemetry DEF TailsFrom
<1> HIDE DEF row
<1>6. \A j \in 1 .. n : s.invs[j].pac \in Nat
  BY <1>2, <1>4, <1>5
<1> HIDE DEF invs
<1>7. QED
  BY <1>2, <1>3, <1>4, <1>6 DEF Counted
----------------------------------------------------------------------------
(* What clients read of a measurement.                                     *)

\* The power, the state and the events, the state as the floats tell it, and any
\* other register of the first of the two models.
ShowsMeasure(bank, m) ==
    /\ Measured(bank, OffW) = Word(Clamp(m.w, -32760, 32760))
    /\ Measured(bank, OffSt) = m.st
    /\ MeasuredFloat(bank, 46) = m.st
    /\ \A k \in 1 .. 12 : Measured(bank, 37 + k) = EventRegisters(m.events)[k]
    /\ \A off \in 0 .. 49 : Measured(bank, off) = InverterModel(m)[off + 3]

\* The chain of a bank shows the measurement that its second and third model
\* were made of.
LEMMA ChainShowsMeasure ==
    ASSUME NEW bank, NEW models, NEW ids, NEW at, NEW n \in Nat, n >= 3,
           Filled(bank, models, at, n), Chained(bank, ids, at, n),
           ids[3] = ids[2] + 10, at[2] = 40070, at[3] = at[2] + 52, at[4] = at[3] + 62,
           NEW m, IsSeq(m.hzFloat, 2), models[2] = InverterModel(m), models[3] = InverterFloat(m)
    PROVE  ShowsMeasure(bank, m)
<1>1. 2 \in 1 .. n /\ 3 \in 1 .. n /\ at[2 + 1] = at[2] + 52 /\ at[3 + 1] = at[3] + 62
  OBVIOUS
<1>2. InverterID(bank) = ids[2]
  <2>1. At(bank, at[2]) = ids[2]
    BY <1>1, ModelPlace
  <2>2. QED
    BY <2>1 DEF InverterID, Base
<1>3. ASSUME NEW off \in Nat, off + 3 <= 52
      PROVE  Measured(bank, off) = InverterModel(m)[off + 3]
  <2> DEFINE i == 2
             w == 52
  <2>1. i \in 1 .. n /\ w \in Nat /\ at[i + 1] = at[i] + w /\ off + 3 <= w
    BY <1>1, <1>3
  <2> HIDE DEF i, w
  <2>2. Point(bank, ids[i], off) = models[i][off + 3]
    BY <2>1, PointIs
  <2>3. QED
    BY <1>2, <2>2 DEF Measured, i
<1>4. MeasuredFloat(bank, 46) = InverterFloat(m)[49]
  <2> DEFINE i == 3
             w == 62
             off == 46
  <2>1. i \in 1 .. n /\ w \in Nat /\ at[i + 1] = at[i] + w /\ off \in Nat /\ off + 3 <= w
    BY <1>1
  <2> HIDE DEF i, w, off
  <2>2. Point(bank, ids[i], off) = models[i][off + 3]
    BY <2>1, PointIs
  <2>3. Point(bank, ids[3], 46) = models[3][46 + 3]
    BY <2>2 DEF i, off
  <2>4. QED
    BY <1>2, <2>3 DEF MeasuredFloat
<1>5. Measured(bank, 12) = InverterModel(m)[15] /\ Measured(bank, 36) = InverterModel(m)[39]
  <2>1. Measured(bank, 12) = InverterModel(m)[12 + 3] /\ Measured(bank, 36) = InverterModel(m)[36 + 3]
    BY <1>3
  <2>2. QED
    BY <2>1
<1>6. /\ InverterModel(m)[15] = Word(Clamp(m.w, -32760, 32760))
      /\ InverterModel(m)[39] = m.st
      /\ \A k \in 1 .. 12 : InverterModel(m)[40 + k] = EventRegisters(m.events)[k]
  BY InverterHolds
<1>7. ASSUME NEW k \in 1 .. 12 PROVE Measured(bank, 37 + k) = EventRegisters(m.events)[k]
  <2>1. Measured(bank, 37 + k) = InverterModel(m)[(37 + k) + 3]
    BY <1>3
  <2>2. (37 + k) + 3 = 40 + k
    OBVIOUS
  <2>3. QED
    BY <1>6, <2>1, <2>2
<1>8. InverterFloat(m)[49] = m.st
  BY InverterFloatHolds
<1>9. QED
  <2>1. \A off \in 0 .. 49 : Measured(bank, off) = InverterModel(m)[off + 3]
    BY <1>3
  <2>2. QED
    BY <1>4, <1>5, <1>6, <1>7, <1>8, <2>1 DEF ShowsMeasure, OffW, OffSt

\* The fleet's bank shows the fleet's measurement
LEMMA FleetShowsMeasure ==
    ASSUME NEW s, NEW n \in Nat, n <= 254, IsSeq(s.invs, n), NEW pick, NEW outcome,
           NEW bank, bank = Encode(s, pick, outcome)
    PROVE  ShowsMeasure(bank, FleetMeasure(s))
<1> DEFINE mppt == HasMPPT(s.invs)
           x == 100 + PhasesUsed(s)
           c == FleetCount(mppt, s.invs # << >>)
           ids == FleetIDs(x, mppt)
           m == FleetMeasure(s)
<1>1. PICK p \in 0 .. 4 * n : IsSeq(Panels(s.invs), p)
  BY PanelsWidth
<1> DEFINE at == FleetPlaces(p, n, mppt)
<1>2. PICK models : IsFleetBank(bank, models, s, p, n, pick, outcome)
  BY <1>1, FleetIsChained
<1>3. /\ Filled(bank, models, at, c) /\ Chained(bank, ids, at, c)
      /\ models[2] = InverterModel(m) /\ models[3] = InverterFloat(m)
  BY <1>2 DEF IsFleetBank
<1>4. c \in Nat /\ c >= 3
  BY DEF FleetCount
<1>5. ids[3] = ids[2] + 10 /\ at[2] = 40070 /\ at[3] = at[2] + 52 /\ at[4] = at[3] + 62
  <2> HIDE DEF mppt, x
  <2>1. QED
    BY DEF FleetIDs, FleetPlaces
<1>6. IsSeq(m.hzFloat, 2)
  BY FloatWidth DEF FleetMeasure
<1> HIDE DEF mppt, x, c, ids, at, m
<1>7. ShowsMeasure(bank, m)
  BY <1>3, <1>4, <1>5, <1>6, ChainShowsMeasure
<1>8. QED
  BY <1>7 DEF m

\* and that of a unit its inverter's.
LEMMA UnitShowsMeasure ==
    ASSUME NEW inv, NEW unit, NEW row, NEW outcome,
           NEW bank, bank = EncodePerInverter(inv, unit, row, outcome)
    PROVE  ShowsMeasure(bank, UnitMeasure(inv)) /\ Point(bank, 120, 1) = U16(NameplateW(inv))
<1> DEFINE c == UnitCount(HasMPPT(<<inv>>))
           ids == UnitIDs
           m == UnitMeasure(inv)
<1>1. PICK p \in 0 .. 4 : IsSeq(Panels(<<inv>>), p)
  <2>1. IsSeq(<<inv>>, 1)
    BY DEF IsSeq
  <2>2. \E p \in 0 .. 4 * 1 : IsSeq(Panels(<<inv>>), p)
    BY <2>1, PanelsWidth
  <2>3. QED
    BY <2>2
<1> DEFINE at == UnitPlaces(p)
<1>2. PICK models : IsUnitBank(bank, models, inv, p, row, outcome)
  BY <1>1, UnitIsChained
<1>3. /\ Filled(bank, models, at, c) /\ Chained(bank, ids, at, c)
      /\ models[2] = InverterModel(m) /\ models[3] = InverterFloat(m)
      /\ models[5] = Nameplate(NameplateW(inv))
  BY <1>2 DEF IsUnitBank
<1>4. c \in Nat /\ c >= 5
  BY DEF UnitCount
<1>5. /\ ids[3] = ids[2] + 10 /\ at[2] = 40070 /\ at[3] = at[2] + 52 /\ at[4] = at[3] + 62
      /\ ids[5] = 120 /\ at[5 + 1] = at[5] + 28
  BY DEF UnitIDs, UnitPlaces
<1>6. IsSeq(m.hzFloat, 2)
  <2>1. IsSeq(NaN, 2) /\ IsSeq(Float(inv.freq), 2)
    BY FloatWidth DEF NaN, IsSeq
  <2>2. QED
    BY <2>1 DEF UnitMeasure
<1> HIDE DEF c, ids, at, m
<1>7. ShowsMeasure(bank, m)
  BY <1>3, <1>4, <1>5, <1>6, ChainShowsMeasure
<1>8. Point(bank, ids[5], 1) = models[5][1 + 3]
  <2>1. 5 \in 1 .. c
    BY <1>4
  <2>2. QED
    BY <1>3, <1>4, <1>5, <2>1, PointIs
<1>9. Nameplate(NameplateW(inv))[4] = U16(NameplateW(inv))
  BY NameplateHolds
<1>10. QED
  BY <1>3, <1>5, <1>7, <1>8, <1>9 DEF m

----------------------------------------------------------------------------
(* Power and state.                                                        *)

\* What a client is told of one unit: the watts, the state, which the floats
\* repeat, and whether there is a connection.
Tells(bank, on, st, w) ==
    /\ Measured(bank, OffW) = Word(Clamp(w, -32760, 32760))
    /\ Measured(bank, OffSt) = st /\ MeasuredFloat(bank, 46) = st
    /\ Connected(bank) <=> on

\* A unit tells of its inverter,
LEMMA UnitTells ==
    ASSUME PublishInv, NEW u \in Units
    PROVE  LET inv == snap.invs[u - 1]
           IN  /\ Tells(banks[u], inv.online, OperatingState(inv.online, inv.pac), inv.pac)
               /\ Point(banks[u], 120, 1) = U16(NameplateW(inv))
<1> DEFINE inv == snap.invs[u - 1]
           m == UnitMeasure(inv)
           bank == banks[u]
<1>1. u \in DOMAIN banks /\ u # 1
  BY DEF Units
<1>2. PICK n \in Nat : EncodesSnapshot(u, n)
  BY <1>1, EachBank
<1>3. PICK row : bank = EncodePerInverter(inv, u, row, Untracked[u])
  BY <1>1, <1>2 DEF EncodesSnapshot
<1> HIDE DEF inv, bank
<1>4. Shows(bank, UnitControls(inv), FreqDroop(row, Untracked[u]), FreqWattCurve(row))
  BY <1>3, UnitShows
<1>5. ShowsMeasure(bank, m) /\ Point(bank, 120, 1) = U16(NameplateW(inv))
  BY <1>3, UnitShowsMeasure
<1>6. m.w = inv.pac /\ m.st = OperatingState(inv.online, inv.pac)
  BY DEF UnitMeasure
<1>7. UnitControls(inv)[5] = Bool(inv.online)
  BY ControlsHold DEF UnitControls
<1>8. Connected(bank) <=> inv.online
  BY <1>4, <1>7 DEF Shows, Connected, Bool
<1> HIDE DEF m
<1>9. Tells(bank, inv.online, OperatingState(inv.online, inv.pac), inv.pac)
  BY <1>5, <1>6, <1>8 DEF Tells, ShowsMeasure
<1>10. QED
  BY <1>5, <1>9 DEF inv, bank

\* and the fleet of all that were counted and added up.
LEMMA FleetTells ==
    ASSUME PublishInv, Published, NEW n \in Nat, IsSeq(snap.invs, n)
    PROVE  Tells(banks[1], \E j \in 1 .. n : snap.invs[j].online,
                 OperatingState(snap.onlineCount > 0, snap.power), snap.power)
<1> DEFINE m == FleetMeasure(snap)
           bank == banks[1]
           on == \E j \in 1 .. n : snap.invs[j].online
<1>1. 1 \in DOMAIN banks
  BY UnitsAre
<1>2. PICK k \in Nat : EncodesSnapshot(1, k)
  BY <1>1, EachBank
<1>3. PICK pick \in Picks(snap) : bank = Encode(snap, pick, Untracked[1])
  BY <1>2 DEF EncodesSnapshot
<1>4. k <= 254 /\ IsSeq(snap.invs, k)
  BY <1>2 DEF EncodesSnapshot
<1> HIDE DEF bank
<1>5. Shows(bank, FleetControls(snap), FreqDroop(pick.droop, Untracked[1]), FreqWattCurve(pick.curve))
  BY <1>3, <1>4, FleetShows
<1>6. ShowsMeasure(bank, m)
  BY <1>3, <1>4, FleetShowsMeasure
<1>7. m.w = snap.power /\ m.st = OperatingState(snap.onlineCount > 0, snap.power)
  BY DEF FleetMeasure
<1>8. Len(snap.invs) = n /\ DOMAIN snap.invs = 1 .. n
  BY DEF IsSeq
<1>9. FleetControls(snap)[5] = Bool(on)
  <2>1. CASE n = 0
    <3>1. snap.invs = << >>
      BY <2>1 DEF IsSeq
    <3>2. FleetControls(snap)[5] = 0
      BY <3>1, ControlsHold DEF FleetControls
    <3>3. ~on
      BY <2>1
    <3>4. QED
      BY <3>2, <3>3 DEF Bool
  <2>2. CASE n > 0
    <3>1. snap.invs # << >>
      BY <1>8, <2>2
    <3> DEFINE pct == SumOver(snap.invs, InvCapPct) \div Len(snap.invs)
               ena == Bool(\E j \in DOMAIN snap.invs : Capped(snap.invs[j]))
               conn == Bool(on)
    <3>2. FleetControls(snap) = Controls(pct, ena, Bool(on))
      BY <1>8, <3>1 DEF FleetControls
    <3> HIDE DEF pct, ena, conn
    <3>3. Controls(pct, ena, conn)[5] = conn
      BY ControlsHold
    <3>4. FleetControls(snap) = Controls(pct, ena, conn)
      BY <3>2 DEF conn
    <3>5. QED
      BY <3>3, <3>4 DEF conn
  <2>3. n = 0 \/ n > 0
    OBVIOUS
  <2> HIDE DEF on
  <2>4. QED
    BY <2>1, <2>2, <2>3
<1> HIDE DEF m, on
<1>10. Connected(bank) <=> on
  BY <1>5, <1>9 DEF Shows, Connected, Bool
<1>11. Tells(bank, on, OperatingState(snap.onlineCount > 0, snap.power), snap.power)
  BY <1>6, <1>7, <1>10 DEF Tells, ShowsMeasure
<1>12. QED
  BY <1>11 DEF bank, on

\* A register of watts, signed as clients take it.
LEMMA WattsShown ==
    ASSUME NEW w \in Nat
    PROVE  /\ Signed(Word(Clamp(w, -32760, 32760))) = (IF w > 32760 THEN 32760 ELSE w)
           /\ Signed(Word(Clamp(w, -32760, 32760))) > 0 <=> w > 0
<1> DEFINE c == IF w > 32760 THEN 32760 ELSE w
<1>1. Clamp(w, -32760, 32760) = c /\ c \in Nat /\ c <= 32760
  BY DEF Clamp
<1> HIDE DEF c
<1>2. c % 65536 = c
  BY <1>1, ModSmall
<1>3. Signed(Word(Clamp(w, -32760, 32760))) = c
  BY <1>1, <1>2 DEF Signed, Word
<1>4. QED
  BY <1>3 DEF c

\* The three states, by whether there is a connection and power.
LEMMA States ==
    ASSUME NEW on, NEW w \in Nat
    PROVE  /\ OperatingState(on, w) = StSleep <=> ~on
           /\ OperatingState(on, w) = StMPPT <=> on /\ w > 0
BY DEF OperatingState, StSleep, StMPPT, StStandby

\* What follows of what a client is told of one unit.
LEMMA TellsState ==
    ASSUME NEW bank, NEW on, NEW w \in Nat, Tells(bank, on, OperatingState(on, w), w)
    PROVE  /\ MeasuredFloat(bank, 46) = Measured(bank, OffSt)
           /\ Signed(Measured(bank, OffW)) > 0 <=> w > 0
           /\ Measured(bank, OffSt) = StSleep <=> ~on
           /\ Measured(bank, OffSt) = StMPPT <=> on /\ w > 0
           /\ Connected(bank) <=> on
<1>1. /\ Measured(bank, OffW) = Word(Clamp(w, -32760, 32760))
      /\ Measured(bank, OffSt) = OperatingState(on, w)
      /\ MeasuredFloat(bank, 46) = OperatingState(on, w)
      /\ Connected(bank) <=> on
  BY DEF Tells
<1>2. Signed(Word(Clamp(w, -32760, 32760))) > 0 <=> w > 0
  BY WattsShown
<1>3. /\ OperatingState(on, w) = StSleep <=> ~on
      /\ OperatingState(on, w) = StMPPT <=> on /\ w > 0
  BY States
<1>4. QED
  BY <1>1, <1>2, <1>3

\* The fleet counts some inverter as online, and has power, as its inverters do.
LEMMA FleetAsUnits ==
    ASSUME NEW s, NEW n \in Nat, IsSeq(s.invs, n), Counted(s, n)
    PROVE  /\ s.power \in Nat
           /\ s.onlineCount > 0 <=> (\E j \in 1 .. n : s.invs[j].online)
           /\ s.power > 0 <=> (\E j \in 1 .. n : s.invs[j].online /\ s.invs[j].pac > 0)
<1> DEFINE v == [j \in 1 .. n |-> IF s.invs[j].online THEN s.invs[j].pac ELSE 0]
<1>1. IsSeq(v, n) /\ \A j \in 1 .. n : v[j] \in Nat
  BY DEF IsSeq, Counted
<1>2. s.power = Total(v)
  BY DEF Counted
<1>3. \A j \in 1 .. n : v[j] > 0 <=> s.invs[j].online /\ s.invs[j].pac > 0
  OBVIOUS
<1> HIDE DEF v
<1>4. /\ s.power \in Nat
      /\ s.power > 0 <=> (\E j \in 1 .. n : s.invs[j].online /\ s.invs[j].pac > 0)
  BY <1>1, <1>2, <1>3, TotalPositive
<1> DEFINE S == {j \in 1 .. n : s.invs[j].online}
<1>5. s.onlineCount > 0 <=> S # {}
  <2>1. IsFiniteSet(1 .. n)
    BY FS_Interval
  <2>2. IsFiniteSet(S)
    BY <2>1, FS_Subset
  <2>3. Cardinality(S) \in Nat /\ (Cardinality(S) = 0 <=> S = {})
    BY <2>2, FS_CardinalityType, FS_EmptySet
  <2>4. s.onlineCount = Cardinality(S)
    BY DEF Counted
  <2> HIDE DEF S
  <2>5. QED
    BY <2>3, <2>4
<1>6. QED
  BY <1>4, <1>5

\* The invariants imply the property.
LEMMA SleepStep ==
    ASSUME PublishInv, BuiltInv(Nat) PROVE SleepingMeansNoPower
<1> DEFINE St(b) == Measured(b, OffSt)
<1> SUFFICES ASSUME Published
             PROVE  /\ \A u \in DOMAIN banks :
                           /\ MeasuredFloat(banks[u], 46) = St(banks[u])
                           /\ Connected(banks[u]) /\ Signed(Measured(banks[u], OffW)) > 0
                                  => St(banks[u]) = StMPPT
                    /\ (St(banks[1]) = StSleep) = ~(\E u \in Units : St(banks[u]) # StSleep)
                    /\ (St(banks[1]) = StMPPT) = (\E u \in Units : St(banks[u]) = StMPPT)
                    /\ Connected(banks[1]) = (\E u \in Units : Connected(banks[u]))
  BY DEF SleepingMeansNoPower, SomeUnit
<1>1. PICK n \in Nat : n <= 254 /\ IsSeq(snap.invs, n) /\ Units = {1 + j : j \in 1 .. n}
  BY UnitsAre
<1>2. Counted(snap, n)
  BY <1>1, BuiltCounts DEF BuiltInv
<1> DEFINE on(j) == snap.invs[j].online
           w(j) == snap.invs[j].pac
<1>3. ASSUME NEW j \in 1 .. n
      PROVE  /\ MeasuredFloat(banks[1 + j], 46) = St(banks[1 + j])
             /\ Signed(Measured(banks[1 + j], OffW)) > 0 <=> w(j) > 0
             /\ St(banks[1 + j]) = StSleep <=> ~on(j)
             /\ St(banks[1 + j]) = StMPPT <=> on(j) /\ w(j) > 0
             /\ Connected(banks[1 + j]) <=> on(j)
  <2>1. 1 + j \in Units /\ (1 + j) - 1 = j
    BY <1>1
  <2>2. Tells(banks[1 + j], on(j), OperatingState(on(j), w(j)), w(j))
    BY <2>1, UnitTells
  <2>3. w(j) \in Nat
    BY <1>2 DEF Counted
  <2> HIDE DEF on, w
  <2>4. QED
    BY <2>2, <2>3, TellsState
<1> DEFINE some == \E j \in 1 .. n : on(j)
<1>4. /\ MeasuredFloat(banks[1], 46) = St(banks[1])
      /\ Signed(Measured(banks[1], OffW)) > 0 <=> (\E j \in 1 .. n : on(j) /\ w(j) > 0)
      /\ St(banks[1]) = StSleep <=> ~some
      /\ St(banks[1]) = StMPPT <=> (\E j \in 1 .. n : on(j) /\ w(j) > 0)
      /\ Connected(banks[1]) <=> some
  <2> DEFINE counted == snap.onlineCount > 0
             p == snap.power
  <2>1. /\ p \in Nat
        /\ counted <=> some
        /\ p > 0 <=> (\E j \in 1 .. n : on(j) /\ w(j) > 0)
    BY <1>1, <1>2, FleetAsUnits
  <2>2. Tells(banks[1], some, OperatingState(counted, p), p)
    BY <1>1, FleetTells
  <2>3. p > 0 => some
    BY <2>1
  <2> HIDE DEF counted, p, some
  <2>4. OperatingState(counted, p) = OperatingState(some, p)
    BY <2>1 DEF OperatingState
  <2>5. Tells(banks[1], some, OperatingState(some, p), p)
    BY <2>2, <2>4
  <2>6. /\ MeasuredFloat(banks[1], 46) = St(banks[1])
        /\ Signed(Measured(banks[1], OffW)) > 0 <=> p > 0
        /\ St(banks[1]) = StSleep <=> ~some
        /\ St(banks[1]) = StMPPT <=> some /\ p > 0
        /\ Connected(banks[1]) <=> some
    BY <2>1, <2>5, TellsState
  <2>7. QED
    BY <2>1, <2>3, <2>6
<1>5. DOMAIN banks = {1} \cup {1 + j : j \in 1 .. n}
  BY <1>1, UnitsAre DEF Units
<1>6. \A u \in DOMAIN banks :
          /\ MeasuredFloat(banks[u], 46) = St(banks[u])
          /\ Connected(banks[u]) /\ Signed(Measured(banks[u], OffW)) > 0 => St(banks[u]) = StMPPT
  <2> TAKE u \in DOMAIN banks
  <2>1. CASE u = 1
    <3> HIDE DEF St, on, w
    <3>1. Connected(banks[1]) /\ Signed(Measured(banks[1], OffW)) > 0 => St(banks[1]) = StMPPT
      BY <1>4
    <3>2. QED
      BY <1>4, <2>1, <3>1
  <2>2. ASSUME NEW j \in 1 .. n, u = 1 + j
        PROVE  /\ MeasuredFloat(banks[u], 46) = St(banks[u])
               /\ Connected(banks[u]) /\ Signed(Measured(banks[u], OffW)) > 0 => St(banks[u]) = StMPPT
    <3> HIDE DEF St, on, w
    <3>1. QED
      BY <1>3, <2>2
  <2>3. u = 1 \/ \E j \in 1 .. n : u = 1 + j
    BY <1>5
  <2> HIDE DEF St
  <2>4. QED
    BY <2>1, <2>2, <2>3
<1> HIDE DEF on, w, St
<1>7. /\ (\E u \in Units : St(banks[u]) # StSleep) <=> some
      /\ (\E u \in Units : St(banks[u]) = StMPPT) <=> (\E j \in 1 .. n : on(j) /\ w(j) > 0)
      /\ (\E u \in Units : Connected(banks[u])) <=> some
  BY <1>1, <1>3
<1>8. (St(banks[1]) = StSleep) = ~(\E u \in Units : St(banks[u]) # StSleep)
  BY <1>4, <1>7
<1>9. (St(banks[1]) = StMPPT) = (\E u \in Units : St(banks[u]) = StMPPT)
  BY <1>4, <1>7
<1>10. Connected(banks[1]) = (\E u \in Units : Connected(banks[u]))
  BY <1>4, <1>7 DEF Connected
<1>11. QED
  BY <1>6, <1>8, <1>9, <1>10

\* Nothing that produces sleeps, and the fleet is in the state of its units, in
\* whatever mixture a refresh reads the file and the tables.
THEOREM SleepingCorrect == SmallFleets /\ TailsAreNatural /\ Spec => []SleepingMeansNoPower
<1> SUFFICES ASSUME SmallFleets, TailsAreNatural PROVE Spec => []SleepingMeansNoPower
  OBVIOUS
<1>1. Spec => []PublishInv
  BY Invariance
<1>2. Init => BuiltInv(Nat)
  BY InitBuilt
<1>3. PublishInv /\ BuiltInv(Nat) /\ [Next]_vars => BuiltInv(Nat)'
  BY NextBuilt DEF TailsAreNatural
<1>4. PublishInv /\ BuiltInv(Nat) => SleepingMeansNoPower
  BY SleepStep
<1>5. QED
  BY <1>1, <1>2, <1>3, <1>4, PTL DEF Spec

----------------------------------------------------------------------------
(* WMax.                                                                   *)

\* A rating fits its register: the catalogue knows no larger inverter.
RatingsAreWords == \A m \in DOMAIN Nameplates : Nameplates[m] <= 65535

\* Where the fleet's WMax is read.
LEMMA FleetShowsWMax ==
    ASSUME NEW s, NEW n \in Nat, n <= 254, IsSeq(s.invs, n), NEW pick, NEW outcome,
           NEW bank, bank = Encode(s, pick, outcome)
    PROVE  Point(bank, 121, 0) = BasicSettings(s, pick.vref)[3]
<1> DEFINE mppt == HasMPPT(s.invs)
           x == 100 + PhasesUsed(s)
           c == FleetCount(mppt, s.invs # << >>)
           ids == FleetIDs(x, mppt)
<1>1. PICK p \in 0 .. 4 * n : IsSeq(Panels(s.invs), p)
  BY PanelsWidth
<1> DEFINE at == FleetPlaces(p, n, mppt)
<1>2. PICK models : IsFleetBank(bank, models, s, p, n, pick, outcome)
  BY <1>1, FleetIsChained
<1>3. /\ Filled(bank, models, at, c) /\ Chained(bank, ids, at, c)
      /\ models[6] = BasicSettings(s, pick.vref)
  BY <1>2 DEF IsFleetBank
<1>4. c \in Nat /\ 6 \in 1 .. c
  BY DEF FleetCount
<1>5. ids[6] = 121 /\ at[6 + 1] = at[6] + 32
  <2> HIDE DEF mppt, x
  <2>1. QED
    BY DEF FleetIDs, FleetPlaces
<1> HIDE DEF mppt, x, c, ids, at
<1>6. Point(bank, ids[6], 0) = models[6][0 + 3]
  BY <1>3, <1>4, <1>5, PointIs
<1>7. QED
  BY <1>3, <1>5, <1>6

\* An inverter's ceiling, in hundredths, is between its percentage of its
\* rating and one percent more.
LEMMA CeilingIs ==
    ASSUME NEW inv, inv.limit \in Nat, inv.limit > 0
    PROVE  /\ LimitedW(inv) \in Nat
           /\ NameplateW(inv) * InvCapPct(inv) <= 100 * LimitedW(inv)
           /\ 100 * LimitedW(inv) <= NameplateW(inv) * (InvCapPct(inv) + 1)
<1> DEFINE np == NameplateW(inv)
           panels == PanelCount(inv)
           d == inv.limit * panels
           pct == InvCapPct(inv)
<1>1. np \in Nat /\ panels \in {0, 2, 4} /\ pct \in 0 .. 100
  BY Ratings, PctIs
<1>2. d \in Nat
  BY <1>1
<1>3. Cap(inv) = inv.limit
  BY DEF Cap
<1>4. LimitedW(inv) = IF np > 0 /\ np < d THEN np ELSE d
  BY DEF LimitedW
<1>5. np = 0 => d = 0
  <2>1. np = 0 => panels = 0
    <3>1. CASE inv.model \in DOMAIN Nameplates
      BY <3>1, NameplateAssumption DEF NameplateW
    <3>2. CASE inv.model \notin DOMAIN Nameplates
      BY <3>2 DEF NameplateW, PanelCount
    <3>3. QED
      BY <3>1, <3>2
  <2>2. panels = 0 => d = 0
    OBVIOUS
  <2>3. QED
    BY <2>1, <2>2
<1> DEFINE ceiling == Min({d, np})
<1>6. np > 0 => pct = (ceiling * 100) \div np
  <2>1. pct = IF np <= 0 THEN Min({100, (Cap(inv) * 100) \div MaxPanelLimitW})
              ELSE (Min({Cap(inv) * panels, np}) * 100) \div np
    BY DEF InvCapPct
  <2>2. pct = IF np <= 0 THEN Min({100, (inv.limit * 100) \div MaxPanelLimitW}) ELSE (ceiling * 100) \div np
    BY <1>3, <2>1
  <2> HIDE DEF np, pct, ceiling
  <2>3. QED
    BY <1>1, <2>2
<1> HIDE DEF np, panels, d, pct
<1>7. ceiling = (IF d <= np THEN d ELSE np) /\ ceiling \in Nat
  BY <1>1, <1>2, MinOfTwo
<1> HIDE DEF ceiling
<1>8. CASE np = 0
  <2>1. LimitedW(inv) = 0
    BY <1>4, <1>5, <1>8
  <2>2. np * pct = 0 /\ np * (pct + 1) = 0
    BY <1>1, <1>8
  <2>3. QED
    BY <2>1, <2>2 DEF np, pct
<1>9. CASE np > 0
  <2>1. LimitedW(inv) = ceiling
    BY <1>1, <1>2, <1>4, <1>7, <1>9
  <2> DEFINE a == ceiling * 100
  <2>2. a \in Nat /\ a = 100 * ceiling
    BY <1>7
  <2> HIDE DEF a
  <2>3. pct = a \div np
    BY <1>6, <1>9 DEF a
  <2>4. np * pct <= a /\ a < np * pct + np
    BY <1>1, <1>9, <2>2, <2>3, Divides
  <2>5. np * pct + np = np * (pct + 1) /\ np * pct \in Nat
    BY <1>1
  <2> DEFINE y == np * pct
             z == np * (pct + 1)
  <2>6. y <= a /\ a < y + np /\ y + np = z /\ y \in Nat
    BY <2>4, <2>5
  <2> HIDE DEF y, z
  <2>7. y <= 100 * ceiling /\ 100 * ceiling <= z
    BY <1>1, <2>2, <2>6
  <2>8. np * pct <= 100 * ceiling /\ 100 * ceiling <= np * (pct + 1)
    BY <2>7 DEF y, z
  <2>9. QED
    BY <1>7, <2>1, <2>8 DEF np, pct
<1>10. QED
  BY <1>1, <1>8, <1>9

\* The invariants imply the property.
LEMMA WMaxStep ==
    ASSUME RatingsAreWords, PublishInv, CapsInv(Nat) PROVE WMaxIsSumOfCeilings
<1> DEFINE rating(b) == Point(b, 120, 1)
           pct(b) == Point(b, 123, Rules!OffPct)
           wmax == Point(banks[1], 121, 0)
           low == Total([j \in DOMAIN snap.invs |-> rating(banks[1 + j]) * pct(banks[1 + j])])
           high == Total([j \in DOMAIN snap.invs |-> rating(banks[1 + j]) * (pct(banks[1 + j]) + 1)])
<1> SUFFICES ASSUME Published, \A j \in DOMAIN snap.invs : snap.invs[j].limit > 0, wmax # 65535
             PROVE  100 * wmax \in low .. high
  BY DEF WMaxIsSumOfCeilings, UnitSum, Every
<1>1. PICK n \in Nat : n <= 254 /\ IsSeq(snap.invs, n) /\ Units = {1 + j : j \in 1 .. n}
  BY UnitsAre
<1>2. DOMAIN snap.invs = 1 .. n
  BY <1>1 DEF IsSeq
<1> DEFINE np(j) == NameplateW(snap.invs[j])
           p(j) == InvCapPct(snap.invs[j])
           l(j) == LimitedW(snap.invs[j])
<1>3. ASSUME NEW j \in 1 .. n
      PROVE  /\ rating(banks[1 + j]) = np(j) /\ pct(banks[1 + j]) = p(j)
             /\ np(j) \in Nat /\ p(j) \in 0 .. 100 /\ l(j) \in Nat
             /\ np(j) * p(j) <= 100 * l(j)
             /\ 100 * l(j) <= np(j) * (p(j) + 1)
  <2>1. 1 + j \in Units /\ (1 + j) - 1 = j
    BY <1>1
  <2>2. rating(banks[1 + j]) = U16(np(j)) /\ pct(banks[1 + j]) = p(j)
    BY <2>1, UnitTells, UnitCapShown
  <2>3. snap.invs[j].limit \in Nat /\ snap.invs[j].limit > 0
    BY <1>2 DEF CapsInv, Rated
  <2>4. np(j) \in Nat /\ np(j) <= 65535
    <3>1. np(j) \in Nat
      BY Ratings
    <3>2. np(j) <= 65535
      BY NameplateAssumption DEF RatingsAreWords, NameplateW
    <3>3. QED
      BY <3>1, <3>2
  <2>5. U16(np(j)) = np(j)
    <3> HIDE DEF np
    <3>1. QED
      BY <2>4 DEF U16, Clamp
  <2>6. /\ l(j) \in Nat
        /\ np(j) * p(j) <= 100 * l(j)
        /\ 100 * l(j) <= np(j) * (p(j) + 1)
    BY <2>3, CeilingIs
  <2>7. p(j) \in 0 .. 100
    BY <2>3, PctIs
  <2> HIDE DEF np, p, l
  <2>8. QED
    BY <2>2, <2>4, <2>5, <2>6, <2>7
<1>4. wmax = Total([j \in 1 .. n |-> l(j)])
  <2>1. 1 \in DOMAIN banks
    BY UnitsAre
  <2>2. PICK k \in Nat : EncodesSnapshot(1, k)
    BY <2>1, EachBank
  <2>3. PICK pick \in Picks(snap) : banks[1] = Encode(snap, pick, Untracked[1])
    BY <2>2 DEF EncodesSnapshot
  <2>4. wmax = BasicSettings(snap, pick.vref)[3]
    BY <1>1, <2>3, FleetShowsWMax
  <2>5. wmax = TotalLimitedW(snap)
    BY <2>4, SettingsHold
  <2>6. QED
    BY <1>2, <2>5 DEF TotalLimitedW, SumOver
<1> DEFINE v == [j \in 1 .. n |-> l(j)]
           hundred == [j \in 1 .. n |-> 100 * l(j)]
           a == [j \in 1 .. n |-> np(j) * p(j)]
           b == [j \in 1 .. n |-> np(j) * (p(j) + 1)]
<1>5. low = Total(a) /\ high = Total(b)
  <2>1. [j \in DOMAIN snap.invs |-> rating(banks[1 + j]) * pct(banks[1 + j])] = a
    BY <1>2, <1>3
  <2>2. [j \in DOMAIN snap.invs |-> rating(banks[1 + j]) * (pct(banks[1 + j]) + 1)] = b
    BY <1>2, <1>3
  <2>3. QED
    BY <2>1, <2>2
<1>6. IsSeq(v, n) /\ IsSeq(hundred, n) /\ IsSeq(a, n) /\ IsSeq(b, n)
  <2> HIDE DEF np, p, l
  <2>1. IsSeq(v, n)
    BY DEF IsSeq
  <2>2. IsSeq(hundred, n)
    BY DEF IsSeq
  <2>3. IsSeq(a, n)
    BY DEF IsSeq
  <2>4. IsSeq(b, n)
    BY DEF IsSeq
  <2> HIDE DEF v, hundred, a, b
  <2>5. QED
    BY <2>1, <2>2, <2>3, <2>4
<1>7. \A j \in 1 .. n : /\ v[j] \in Nat /\ hundred[j] = 100 * v[j] /\ hundred[j] \in Nat
                        /\ a[j] \in Nat /\ b[j] \in Nat
                        /\ a[j] <= hundred[j] /\ hundred[j] <= b[j]
  <2> TAKE j \in 1 .. n
  <2> HIDE DEF np, p, l
  <2>1. np(j) * p(j) \in Nat /\ np(j) * (p(j) + 1) \in Nat
    BY <1>3
  <2>2. QED
    BY <1>3, <2>1
<1>8. wmax = Total(v)
  BY <1>4
<1> HIDE DEF v, hundred, a, b, wmax, low, high
<1>9. Total(v) \in Nat /\ Total(hundred) = 100 * Total(v)
  <2> DEFINE c == 100
  <2>1. c \in Nat /\ \A j \in 1 .. n : v[j] \in Nat /\ hundred[j] = c * v[j]
    BY <1>7
  <2> HIDE DEF c
  <2>2. Total(v) \in Nat /\ Total(hundred) = c * Total(v)
    BY <1>6, <2>1, TotalTimes
  <2>3. QED
    BY <2>2 DEF c
<1>10. Total(a) \in Nat /\ Total(hundred) \in Nat /\ Total(a) <= Total(hundred)
  BY <1>6, <1>7, TotalOrder
<1>11. Total(b) \in Nat /\ Total(hundred) <= Total(b)
  BY <1>6, <1>7, TotalOrder
<1>12. QED
  BY <1>5, <1>8, <1>9, <1>10, <1>11

\* The fleet's WMax is what the ratings and the percentages of its units add up
\* to, for any ratings, caps and numbers of panels.
THEOREM WMaxCorrect ==
    SmallFleets /\ CapsAreWatts /\ RatingsAreWords /\ Spec => []WMaxIsSumOfCeilings
<1> SUFFICES ASSUME SmallFleets, CapsAreWatts, RatingsAreWords PROVE Spec => []WMaxIsSumOfCeilings
  OBVIOUS
<1>1. Spec => []PublishInv
  BY Invariance
<1>2. Init => CapsInv(Nat)
  BY InitCaps
<1>3. PublishInv /\ CapsInv(Nat) /\ [Next]_vars => CapsInv(Nat)'
  BY NextCaps DEF CapsAreWatts
<1>4. PublishInv /\ CapsInv(Nat) => WMaxIsSumOfCeilings
  BY WMaxStep
<1>5. QED
  BY <1>1, <1>2, <1>3, <1>4, PTL DEF Spec

----------------------------------------------------------------------------
(* Panels.                                                                 *)

\* What a client reads of p panels: their number, unless the model is switched
\* off, and the same power in both models.
ShowsPanels(bank, p) ==
    /\ Modules(bank) = IF DisableMPPT THEN 0 ELSE p
    /\ \A c \in 1 .. Min({8, Modules(bank)}) :
           Point32(bank, 114, 32 + 2 * (c - 1)) = ModulePoint(bank, c, 11)

\* The models 114 and 160 of a chain are made of these panels, of which 160 is
\* the model k if there are any.
PanelChain(bank, models, ids, at, n, panels, p, unknown, k) ==
    /\ Filled(bank, models, at, n) /\ Chained(bank, ids, at, n)
    /\ 4 \in 1 .. n /\ ids[4] = 114 /\ at[4 + 1] = at[4] + 50
    /\ models[4] = DCData(panels, unknown) /\ IsSeq(unknown, 2)
    /\ IsSeq(panels, p)
    /\ IF panels # << >> /\ ~DisableMPPT
       THEN /\ k \in 1 .. n /\ ids[k] = 160 /\ at[k + 1] = at[k] + (10 + 20 * p)
            /\ models[k] = MultiMPPT(panels)
       ELSE \A i \in 1 .. n : ids[i] # 160

\* Two registers hold a word.
LEMMA WordOfTwo ==
    ASSUME NEW w \in Words PROVE 65536 * Acc32(w)[1] + Acc32(w)[2] = w
<1>1. w \in Nat /\ w <= 65535
  BY DEF Words
<1>2. w \div 65536 = 0
  <2> DEFINE d == 65536
             q == w \div d
  <2>1. d \in Nat /\ d > 0 /\ w < d
    BY <1>1
  <2> HIDE DEF d
  <2>2. q \in Nat /\ d * q <= w
    BY <1>1, <2>1, Divides
  <2> HIDE DEF q
  <2>3. q = 0
    <3>1. q >= 1 => d * q >= d
      BY <2>1, <2>2
    <3>2. d * q \in Nat
      BY <2>1, <2>2
    <3>3. QED
      BY <1>1, <2>1, <2>2, <3>1, <3>2
  <2>4. QED
    BY <2>3 DEF q, d
<1>3. w % 65536 = w /\ 0 % 65536 = 0
  BY <1>1, ModSmall
<1>4. Acc32(w)[1] = 0 /\ Acc32(w)[2] = w
  BY <1>2, <1>3 DEF Acc32, Word
<1>5. QED
  BY <1>1, <1>4

\* A chain shows its panels.
LEMMA ChainShowsPanels ==
    ASSUME NEW bank, NEW models, NEW ids, NEW at, NEW n \in Nat, NEW panels, NEW p \in Nat,
           NEW unknown, NEW k, PanelChain(bank, models, ids, at, n, panels, p, unknown, k),
           \A c \in 1 .. p : panels[c].w \in Words
    PROVE  ShowsPanels(bank, p)
<1>1. /\ Filled(bank, models, at, n) /\ Chained(bank, ids, at, n)
      /\ 4 \in 1 .. n /\ ids[4] = 114 /\ at[4 + 1] = at[4] + 50
      /\ models[4] = DCData(panels, unknown) /\ IsSeq(unknown, 2)
      /\ IsSeq(panels, p)
  BY DEF PanelChain
<1>2. Len(panels) = p
  BY <1>1 DEF IsSeq
<1>3. CASE panels # << >> /\ ~DisableMPPT
  <2>1. /\ k \in 1 .. n /\ ids[k] = 160 /\ at[k + 1] = at[k] + (10 + 20 * p)
        /\ models[k] = MultiMPPT(panels)
    BY <1>3 DEF PanelChain
  <2> DEFINE m == 10 + 20 * p
  <2>2. m \in Nat
    OBVIOUS
  <2>3. /\ MultiMPPT(panels)[9] = p
        /\ \A c \in 1 .. p : MultiMPPT(panels)[22 + 20 * (c - 1)] = panels[c].w
    BY <1>1, <1>3, MultiMPPTHolds
  <2>4. ASSUME NEW off \in Nat, off + 3 <= m PROVE Point(bank, 160, off) = MultiMPPT(panels)[off + 3]
    <3> HIDE DEF m
    <3>1. at[k + 1] = at[k] + m
      BY <2>1 DEF m
    <3>2. Point(bank, ids[k], off) = models[k][off + 3]
      BY <1>1, <2>1, <2>2, <2>4, <3>1, PointIs
    <3>3. QED
      BY <2>1, <3>2
  <2>5. Point(bank, 160, 6) = p
    <3>1. Point(bank, 160, 6) = MultiMPPT(panels)[6 + 3]
      BY <2>4
    <3>2. QED
      BY <2>3, <3>1
  <2>6. Has(bank, 160)
    <3>1. FindModel(bank, ids[k]) = at[k]
      BY <1>1, <2>1, ModelPlace
    <3>2. k \in 1 .. n + 1
      BY <2>1
    <3>3. at[k] \in Base .. at[n + 1]
      BY <1>1, <3>2 DEF Filled
    <3>4. QED
      BY <2>1, <3>1, <3>3 DEF Has, NotFound, Base
  <2>7. Modules(bank) = p
    BY <2>5, <2>6 DEF Modules
  <2>8. ASSUME NEW c \in 1 .. 8, c \in 1 .. p
        PROVE  Point32(bank, 114, 32 + 2 * (c - 1)) = ModulePoint(bank, c, 11)
    <3>1. ModulePoint(bank, c, 11) = panels[c].w
      <4> DEFINE off == 8 + 20 * (c - 1) + 11
      <4>1. off \in Nat /\ off + 3 <= m /\ off + 3 = 22 + 20 * (c - 1)
        BY <2>8
      <4> HIDE DEF off, m
      <4>2. Point(bank, 160, off) = MultiMPPT(panels)[off + 3]
        BY <2>4, <4>1
      <4>3. Point(bank, 160, off) = panels[c].w
        BY <2>3, <2>8, <4>1, <4>2
      <4>4. QED
        BY <4>3 DEF ModulePoint, off
    <3> DEFINE x == 32 + 2 * (c - 1)
               w == 50
               y == Acc32(panels[c].w)
               dc == DCData(panels, unknown)
    <3>2. dc[35 + 2 * (c - 1)] = y[1] /\ dc[36 + 2 * (c - 1)] = y[2]
      <4>1. IsSeq(unknown, 2) /\ c \in 1 .. 8 /\ c <= Len(panels)
        BY <1>1, <1>2, <2>8
      <4>2. /\ DCData(panels, unknown)[35 + 2 * (c - 1)] = Acc32(panels[c].w)[1]
            /\ DCData(panels, unknown)[36 + 2 * (c - 1)] = Acc32(panels[c].w)[2]
        BY <4>1, DCDataHolds
      <4>3. QED
        BY <4>2
    <3>3. /\ x \in Nat /\ x + 3 <= w /\ x + 1 \in Nat /\ (x + 1) + 3 <= w /\ w \in Nat
          /\ x + 3 = 35 + 2 * (c - 1) /\ (x + 1) + 3 = 36 + 2 * (c - 1)
      OBVIOUS
    <3>4. at[4 + 1] = at[4] + w
      BY <1>1
    <3> HIDE DEF x, w, y
    <3>5. Point(bank, ids[4], x) = models[4][x + 3]
      BY <1>1, <3>3, <3>4, PointIs
    <3>6. Point(bank, ids[4], x + 1) = models[4][(x + 1) + 3]
      BY <1>1, <3>3, <3>4, PointIs
    <3>7. Point32(bank, 114, x) = 65536 * y[1] + y[2]
      BY <1>1, <3>2, <3>3, <3>5, <3>6 DEF Point32, dc
    <3>8. 65536 * y[1] + y[2] = panels[c].w
      BY <2>8, WordOfTwo DEF y
    <3>9. QED
      BY <3>1, <3>7, <3>8 DEF x
  <2>9. Min({8, p}) = IF 8 <= p THEN 8 ELSE p
    BY MinOfTwo
  <2>10. QED
    BY <1>3, <2>7, <2>8, <2>9 DEF ShowsPanels
<1>4. CASE panels = << >> \/ DisableMPPT
  <2>1. \A i \in 1 .. n : ids[i] # 160
    BY <1>4 DEF PanelChain
  <2>2. FindModel(bank, 160) = NotFound
    <3> DEFINE id == 160
    <3>1. \A i \in 1 .. n : ids[i] # id
      BY <2>1
    <3> HIDE DEF id
    <3>2. Ended(bank, ids, at, n) /\ \A i \in 1 .. n : ids[i] # 65535
      BY <1>1 DEF Chained, EndModelID
    <3>3. FindModel(bank, id) = NotFound
      BY <3>1, <3>2, ChainLacks
    <3>4. QED
      BY <3>3 DEF id
  <2>3. Modules(bank) = 0
    BY <2>2 DEF Modules, Has
  <2>4. DisableMPPT \/ p = 0
    BY <1>2, <1>4
  <2>5. Min({8, 0}) = 0
    BY MinOfTwo
  <2>6. QED
    BY <2>3, <2>4, <2>5, OptionAssumption DEF ShowsPanels
<1>5. QED
  BY <1>3, <1>4

\* The fleet's bank shows the panels of all its inverters,
LEMMA FleetShowsPanels ==
    ASSUME NEW s, NEW n \in Nat, n <= 254, IsSeq(s.invs, n), NEW pick, NEW outcome,
           NEW bank, bank = Encode(s, pick, outcome),
           NEW p \in Nat, IsSeq(Panels(s.invs), p), \A c \in 1 .. p : Panels(s.invs)[c].w \in Words
    PROVE  ShowsPanels(bank, p)
<1> DEFINE mppt == HasMPPT(s.invs)
           x == 100 + PhasesUsed(s)
           c == FleetCount(mppt, s.invs # << >>)
           ids == FleetIDs(x, mppt)
           panels == Panels(s.invs)
           unknown == Float(0)
           at == FleetPlaces(p, n, mppt)
<1>1. p <= 4 * n
  <2>1. PICK k \in 0 .. 4 * n : IsSeq(Panels(s.invs), k)
    BY PanelsWidth
  <2>2. k = p
    BY <2>1 DEF IsSeq
  <2>3. QED
    BY <2>1, <2>2
<1>2. PICK models : IsFleetBank(bank, models, s, p, n, pick, outcome)
  BY <1>1, FleetIsChained
<1>3. /\ Filled(bank, models, at, c) /\ Chained(bank, ids, at, c)
      /\ models[4] = DCData(panels, unknown) /\ (mppt => models[15] = MultiMPPT(panels))
  BY <1>2 DEF IsFleetBank
<1>4. c \in Nat /\ c >= 14 /\ c <= 16 /\ (mppt => c >= 15) /\ (~mppt => c <= 15)
  BY DEF FleetCount
<1>5. ids[4] = 114 /\ at[4 + 1] = at[4] + 50
  <2> HIDE DEF mppt, x
  <2>1. QED
    BY DEF FleetIDs, FleetPlaces
<1>6. mppt => ids[15] = 160 /\ at[15 + 1] = at[15] + (10 + 20 * p)
  <2> DEFINE m == 10 + 20 * p
  <2>1. m \in Nat
    OBVIOUS
  <2>2. mppt => at[15] = 40611 /\ at[16] = 40611 + m
    <3> HIDE DEF mppt
    <3>1. QED
      BY DEF FleetPlaces
  <2> HIDE DEF m
  <2>3. mppt => at[15 + 1] = at[15] + m
    <3> HIDE DEF at, mppt
    <3>1. QED
      BY <2>1, <2>2
  <2>4. mppt => ids[15] = 160
    <3> HIDE DEF mppt, x
    <3>1. QED
      BY DEF FleetIDs
  <2>5. QED
    BY <2>3, <2>4 DEF m
<1>7. ~mppt => \A i \in 1 .. c : ids[i] # 160
  <2> SUFFICES ASSUME ~mppt, NEW i \in 1 .. c PROVE ids[i] # 160
    OBVIOUS
  <2>1. x \in {101, 102, 103}
    BY PhasesAreFew
  <2>2. i \in 1 .. 15
    BY <1>4
  <2>3. ids = <<1, x, x + 10, 114, 120, 121, 123, 707, 708, 709, 710, 703, 711, 134, 64202, 64202>>
    BY DEF FleetIDs
  <2>4. x # 160 /\ x + 10 # 160
    BY <2>1
  <2> DEFINE y == x + 10
  <2>5. i = 2 \/ i = 3 \/ i = 1 \/ i \in 4 .. 15
    BY <2>2
  <2>6. ids[2] = x /\ ids[3] = y /\ ids[1] = 1
    <3> HIDE DEF ids
    <3>1. ids = <<1, x, y, 114, 120, 121, 123, 707, 708, 709, 710, 703, 711, 134, 64202, 64202>>
      BY <2>3
    <3> HIDE DEF x, y
    <3>2. QED
      BY <3>1
  <2>7. i \in 4 .. 15 => ids[i] # 160
    <3> HIDE DEF x
    <3>1. ids[4] = 114 /\ ids[5] = 120 /\ ids[6] = 121 /\ ids[7] = 123 /\ ids[8] = 707 /\ ids[9] = 708
      BY <2>3
    <3>2. ids[10] = 709 /\ ids[11] = 710 /\ ids[12] = 703 /\ ids[13] = 711 /\ ids[14] = 134 /\ ids[15] = 64202
      BY <2>3
    <3> HIDE DEF ids
    <3>3. \A q \in 4 .. 9 : ids[q] # 160
      BY <3>1
    <3>4. \A q \in 10 .. 15 : ids[q] # 160
      BY <3>2
    <3>5. i \in 4 .. 15 => i \in 4 .. 9 \/ i \in 10 .. 15
      OBVIOUS
    <3>6. QED
      BY <3>3, <3>4, <3>5
  <2> HIDE DEF x, ids
  <2>8. QED
    BY <2>4, <2>5, <2>6, <2>7
<1>8. IsSeq(unknown, 2)
  BY FloatWidth
<1>9. mppt <=> panels # << >> /\ ~DisableMPPT
  BY DEF HasMPPT
<1> HIDE DEF mppt, x, c, ids, panels, unknown, at
<1>10. 4 \in 1 .. c /\ (mppt => 15 \in 1 .. c)
  BY <1>4
<1> DEFINE k == 15
<1>11. IsSeq(panels, p) /\ \A j \in 1 .. p : panels[j].w \in Words
  BY DEF panels
<1>12. mppt => k \in 1 .. c /\ ids[k] = 160 /\ at[k + 1] = at[k] + (10 + 20 * p) /\ models[k] = MultiMPPT(panels)
  BY <1>3, <1>6, <1>10
<1> HIDE DEF k
<1>13. PanelChain(bank, models, ids, at, c, panels, p, unknown, k)
  BY <1>3, <1>5, <1>7, <1>8, <1>9, <1>10, <1>11, <1>12 DEF PanelChain
<1>14. QED
  BY <1>4, <1>11, <1>13, ChainShowsPanels

\* and a unit's those of its inverter.
LEMMA UnitShowsPanels ==
    ASSUME NEW inv, NEW unit, NEW row, NEW outcome,
           NEW bank, bank = EncodePerInverter(inv, unit, row, outcome),
           NEW p \in Nat, IsSeq(Panels(<<inv>>), p), \A c \in 1 .. p : Panels(<<inv>>)[c].w \in Words
    PROVE  ShowsPanels(bank, p)
<1> DEFINE mppt == HasMPPT(<<inv>>)
           c == UnitCount(mppt)
           ids == UnitIDs
           panels == Panels(<<inv>>)
           unknown == NaN
           at == UnitPlaces(p)
<1>1. p <= 4
  <2>1. IsSeq(<<inv>>, 1)
    BY DEF IsSeq
  <2>2. PICK k \in 0 .. 4 * 1 : IsSeq(Panels(<<inv>>), k)
    BY <2>1, PanelsWidth
  <2>3. k = p
    BY <2>2 DEF IsSeq
  <2>4. QED
    BY <2>2, <2>3
<1>2. PICK models : IsUnitBank(bank, models, inv, p, row, outcome)
  BY <1>1, UnitIsChained
<1>3. /\ Filled(bank, models, at, c) /\ Chained(bank, ids, at, c)
      /\ models[4] = DCData(panels, unknown) /\ (mppt => models[14] = MultiMPPT(panels))
  BY <1>2 DEF IsUnitBank
<1>4. c \in Nat /\ c >= 13 /\ (mppt => c >= 14) /\ (~mppt => c <= 13)
  BY DEF UnitCount
<1>5. ids[4] = 114 /\ at[4 + 1] = at[4] + 50 /\ ids[14] = 160 /\ at[14 + 1] = at[14] + (10 + 20 * p)
  <2> DEFINE m == 20 * p
  <2>1. m \in Nat
    OBVIOUS
  <2>2. at[14] = 40579 /\ at[15] = 40589 + m /\ at[4] = 40184 /\ at[5] = 40234
    BY DEF UnitPlaces
  <2>3. ids[4] = 114 /\ ids[14] = 160
    BY DEF UnitIDs
  <2>4. 10 + 20 * p = 10 + m
    OBVIOUS
  <2> HIDE DEF m, at, ids
  <2>5. QED
    BY <2>1, <2>2, <2>3, <2>4
<1>6. ~mppt => \A i \in 1 .. c : ids[i] # 160
  <2> SUFFICES ASSUME ~mppt, NEW i \in 1 .. c PROVE ids[i] # 160
    OBVIOUS
  <2>1. i \in 1 .. 13
    BY <1>4
  <2>2. QED
    BY <2>1 DEF UnitIDs
<1>7. IsSeq(unknown, 2)
  BY DEF NaN, IsSeq
<1>8. mppt <=> panels # << >> /\ ~DisableMPPT
  BY DEF HasMPPT
<1> HIDE DEF mppt, c, ids, panels, unknown, at
<1>9. 4 \in 1 .. c /\ (mppt => 14 \in 1 .. c)
  BY <1>4
<1> DEFINE k == 14
<1>10. IsSeq(panels, p) /\ \A j \in 1 .. p : panels[j].w \in Words
  BY DEF panels
<1>11. mppt => k \in 1 .. c /\ ids[k] = 160 /\ at[k + 1] = at[k] + (10 + 20 * p) /\ models[k] = MultiMPPT(panels)
  BY <1>3, <1>5, <1>9
<1> HIDE DEF k
<1>12. PanelChain(bank, models, ids, at, c, panels, p, unknown, k)
  BY <1>3, <1>5, <1>6, <1>7, <1>8, <1>9, <1>10, <1>11 DEF PanelChain
<1>13. QED
  BY <1>4, <1>10, <1>12, ChainShowsPanels

\* A sequence over a set is one over a larger set.
LEMMA SeqOver == ASSUME NEW S, NEW T, S \subseteq T, NEW s \in Seq(S) PROVE s \in Seq(T)
<1>1. Len(s) \in Nat /\ s = [i \in 1 .. Len(s) |-> s[i]] /\ \A i \in 1 .. Len(s) : s[i] \in T
  OBVIOUS
<1> DEFINE n == Len(s)
           f == [i \in 1 .. n |-> s[i]]
<1>2. f \in Seq(T)
  BY <1>1
<1>3. QED
  BY <1>1, <1>2

LEMMA WordsAreNatural == Words \subseteq Nat
BY DEF Words

\* What the sources hold in words, they hold in natural numbers.
LEMMA BuiltOfWords == ASSUME NEW s, Built(s, Words) PROVE Built(s, Nat)
<1>1. PICK capacity, file, limits, events, list, prot :
          TailsFrom(file, Words) /\ s = Snapshot(capacity, file, limits, events, list, prot)
  BY DEF Built
<1>2. TailsFrom(file, Nat)
  <2> SUFFICES ASSUME NEW r \in DOMAIN file.rows PROVE file.rows[r].tail \in Seq(Nat)
    BY DEF TailsFrom
  <2>1. file.rows[r].tail \in Seq(Words)
    BY <1>1 DEF TailsFrom
  <2>2. QED
    BY <2>1, WordsAreNatural, SeqOver
<1>3. QED
  BY <1>1, <1>2 DEF Built

\* An inverter of a snapshot has the columns of its line.
LEMMA BuiltTails ==
    ASSUME NEW T, T \subseteq Nat, NEW s, Built(s, T), NEW n \in Nat, IsSeq(s.invs, n)
    PROVE  \A j \in 1 .. n : s.invs[j].tail \in Seq(T)
<1>1. PICK capacity, file, limits, events, list, prot :
          TailsFrom(file, T) /\ s = Snapshot(capacity, file, limits, events, list, prot)
  BY DEF Built
<1> DEFINE row(j) == Joined(ParseInverterLine(file.rows[j]), limits, events, list)
           invs == [j \in DOMAIN file.rows |-> row(j)]
<1>2. s.invs = invs
  BY <1>1 DEF Snapshot
<1>3. DOMAIN s.invs = 1 .. n
  BY DEF IsSeq
<1>4. ASSUME NEW j \in DOMAIN file.rows PROVE row(j).tail \in Seq(T)
  <2>1. file.rows[j].tail \in Seq(T)
    BY <1>1 DEF TailsFrom
  <2>2. file.rows[j].tail \in Seq(Nat)
    BY <2>1, SeqOver
  <2>3. row(j).tail = file.rows[j].tail
    BY <2>2, JoinedTelemetry
  <2> HIDE DEF row
  <2>4. QED
    BY <2>1, <2>3
<1> HIDE DEF row
<1>5. QED
  BY <1>2, <1>3, <1>4

\* A register that is full stays full, whatever of its terms filled theirs.
LEMMA ClampedTotal ==
    ASSUME NEW v, NEW w, NEW n \in Nat, IsSeq(v, n), IsSeq(w, n),
           \A j \in 1 .. n : v[j] \in Nat /\ w[j] = IF v[j] > 32760 THEN 32760 ELSE v[j]
    PROVE  Clamp(Total(w), -32760, 32760) = IF Total(v) > 32760 THEN 32760 ELSE Total(v)
<1> DEFINE full == 32760
           S == {t \in Nat \X Nat \X Nat : t[3] = t[2] \/ (t[3] >= full /\ t[2] >= full)}
<1>1. full \in Nat /\ \A j \in 1 .. n : v[j] \in Nat /\ w[j] = IF v[j] > full THEN full ELSE v[j]
  OBVIOUS
<1> HIDE DEF full
<1>2. <<0, 0, 0>> \in S
  OBVIOUS
<1>3. ASSUME NEW k \in 0 .. n - 1, NEW x, NEW y, <<k, x, y>> \in S
      PROVE  <<k + 1, x + v[k + 1], y + w[k + 1]>> \in S
  <2>1. /\ k \in Nat /\ x \in Nat /\ y \in Nat
        /\ y = x \/ (y >= full /\ x >= full)
    BY <1>3
  <2> DEFINE a == v[k + 1]
             b == w[k + 1]
  <2>2. k + 1 \in 1 .. n
    OBVIOUS
  <2>3. a \in Nat /\ b = IF a > full THEN full ELSE a
    BY <1>1, <2>2
  <2> HIDE DEF a, b
  <2>4. b \in Nat /\ (b = a \/ (a >= full /\ b >= full))
    <3>1. CASE a > full
      BY <1>1, <2>3, <3>1
    <3>2. CASE ~(a > full)
      BY <1>1, <2>3, <3>2
    <3>3. QED
      BY <3>1, <3>2
  <2>5. k + 1 \in Nat /\ x + a \in Nat /\ y + b \in Nat
    BY <2>1, <2>3, <2>4
  <2>6. y + b = x + a \/ (y + b >= full /\ x + a >= full)
    BY <1>1, <2>1, <2>3, <2>4
  <2>7. <<k + 1, x + a, y + b>> \in S
    BY <2>5, <2>6
  <2>8. QED
    BY <2>7 DEF a, b
<1> HIDE DEF S
<1>4. <<n, Total(v), Total(w)>> \in S
  BY <1>2, <1>3, TotalsTogether
<1> DEFINE x == Total(v)
           y == Total(w)
<1>5. x \in Nat /\ y \in Nat /\ (y = x \/ (y >= full /\ x >= full))
  BY <1>4 DEF S
<1> HIDE DEF x, y
<1>6. Clamp(y, -32760, 32760) = IF x > 32760 THEN 32760 ELSE x
  BY <1>5 DEF Clamp, full
<1>7. QED
  BY <1>6 DEF x, y

\* The fleet's power is the sum of its units', up to what a register holds.
LEMMA PowerStep ==
    ASSUME PublishInv, Published, Built(snap, Nat)
    PROVE  Signed(Measured(banks[1], OffW))
               = Clamp(UnitSum(Connected, LAMBDA b : Signed(Measured(b, OffW))), -32760, 32760)
<1> DEFINE W(b) == Signed(Measured(b, OffW))
           sum == Total([j \in DOMAIN snap.invs |->
                            IF Connected(banks[1 + j]) THEN W(banks[1 + j]) ELSE 0])
<1> SUFFICES W(banks[1]) = Clamp(sum, -32760, 32760)
  BY DEF UnitSum
<1>1. PICK n \in Nat : n <= 254 /\ IsSeq(snap.invs, n) /\ Units = {1 + j : j \in 1 .. n}
  BY UnitsAre
<1>2. DOMAIN snap.invs = 1 .. n
  BY <1>1 DEF IsSeq
<1>3. Counted(snap, n)
  BY <1>1, BuiltCounts
<1> DEFINE on(j) == snap.invs[j].online
           pac(j) == snap.invs[j].pac
           v == [j \in 1 .. n |-> IF on(j) THEN pac(j) ELSE 0]
           w == [j \in 1 .. n |-> IF Connected(banks[1 + j]) THEN W(banks[1 + j]) ELSE 0]
<1>4. ASSUME NEW j \in 1 .. n
      PROVE  /\ pac(j) \in Nat
             /\ W(banks[1 + j]) = IF pac(j) > 32760 THEN 32760 ELSE pac(j)
             /\ Connected(banks[1 + j]) <=> on(j)
  <2>1. 1 + j \in Units /\ (1 + j) - 1 = j
    BY <1>1
  <2>2. Tells(banks[1 + j], on(j), OperatingState(on(j), pac(j)), pac(j))
    BY <2>1, UnitTells
  <2>3. pac(j) \in Nat
    BY <1>3 DEF Counted
  <2> HIDE DEF on, pac
  <2>4. QED
    BY <2>2, <2>3, WattsShown DEF Tells
<1>5. W(banks[1]) = IF snap.power > 32760 THEN 32760 ELSE snap.power
  <2>1. Measured(banks[1], OffW) = Word(Clamp(snap.power, -32760, 32760))
    BY <1>1, FleetTells DEF Tells
  <2>2. snap.power \in Nat
    BY <1>1, <1>3, FleetAsUnits
  <2>3. QED
    BY <2>1, <2>2, WattsShown
<1>6. snap.power = Total(v)
  BY <1>3 DEF Counted
<1>7. sum = Total(w)
  BY <1>2
<1>8. IsSeq(v, n) /\ IsSeq(w, n)
  <2> HIDE DEF on, pac, W
  <2>1. IsSeq(v, n)
    BY DEF IsSeq
  <2>2. w = [j \in 1 .. n |-> w[j]]
    OBVIOUS
  <2> HIDE DEF v, w
  <2>3. IsSeq(w, n)
    BY <2>2, FunctionIsSeq
  <2>4. QED
    BY <2>1, <2>3
<1>9. \A j \in 1 .. n : v[j] \in Nat /\ w[j] = IF v[j] > 32760 THEN 32760 ELSE v[j]
  <2> TAKE j \in 1 .. n
  <2>1. /\ v[j] = IF on(j) THEN pac(j) ELSE 0
        /\ w[j] = IF Connected(banks[1 + j]) THEN W(banks[1 + j]) ELSE 0
    OBVIOUS
  <2> HIDE DEF on, pac, W, v, w
  <2>2. CASE on(j)
    BY <1>4, <2>1, <2>2
  <2>3. CASE ~on(j)
    BY <1>4, <2>1, <2>3
  <2>4. QED
    BY <2>2, <2>3
<1> HIDE DEF v, w, sum, W
<1>10. Clamp(Total(w), -32760, 32760) = IF Total(v) > 32760 THEN 32760 ELSE Total(v)
  BY <1>8, <1>9, ClampedTotal
<1>11. QED
  BY <1>5, <1>6, <1>7, <1>10

\* The panels of one inverter.
LEMMA UnitPanels ==
    ASSUME NEW inv, NEW q \in Nat, IsSeq(PanelPowers(inv), q),
           \A i \in 1 .. q : PanelPowers(inv)[i] \in Words
    PROVE  IsSeq(Panels(<<inv>>), q) /\ \A c \in 1 .. q : Panels(<<inv>>)[c].w \in Words
<1> DEFINE invs == <<inv>>
           l == <<q>>
           n == 1
<1>1. n \in Nat /\ IsSeq(invs, n) /\ IsSeq(l, n)
  BY DEF IsSeq
<1>2. \A j \in 1 .. n : IsSeq(PanelPowers(invs[j]), l[j])
  OBVIOUS
<1>3. \A j \in 1 .. n : \A i \in 1 .. l[j] : PanelPowers(invs[j])[i] \in Words
  OBVIOUS
<1>4. Total(l) = q
  <2>1. PICK f : Totals(l, f, n) /\ Total(l) = f[n]
    BY <1>1, TotalIs
  <2>2. f[0] = 0 /\ f[1] = f[0] + l[1]
    BY <2>1 DEF Totals
  <2>3. QED
    BY <2>1, <2>2
<1> HIDE DEF invs, l, n
<1>5. IsSeq(Panels(invs), Total(l)) /\ \A c \in 1 .. Total(l) : Panels(invs)[c].w \in Words
  BY <1>1, <1>2, <1>3, PanelsAre
<1>6. IsSeq(Panels(invs), q) /\ \A c \in 1 .. q : Panels(invs)[c].w \in Words
  BY <1>4, <1>5
<1>7. QED
  BY <1>6 DEF invs

\* What the banks show of the panels that the inverters of a snapshot have.
LEMMA PanelsShown ==
    ASSUME PublishInv, Published, Built(snap, Words), NEW n \in Nat, n <= 254, IsSeq(snap.invs, n),
           Units = {1 + j : j \in 1 .. n}
    PROVE  \E l : /\ IsSeq(l, n) /\ \A j \in 1 .. n : l[j] \in Nat
                  /\ ShowsPanels(banks[1], Total(l))
                  /\ \A j \in 1 .. n : ShowsPanels(banks[1 + j], l[j])
<1> DEFINE pp(j) == PanelPowers(snap.invs[j])
           l == [j \in 1 .. n |-> Len(pp(j))]
<1>1. ASSUME NEW j \in 1 .. n
      PROVE  /\ l[j] \in Nat /\ IsSeq(pp(j), l[j])
             /\ \A i \in 1 .. l[j] : pp(j)[i] \in Words
  <2>1. snap.invs[j].tail \in Seq(Words)
    BY WordsAreNatural, BuiltTails
  <2>2. PICK q \in 0 .. 4 : IsSeq(pp(j), q) /\ \A i \in 1 .. q : pp(j)[i] \in Words
    BY <2>1, PanelPowersAre
  <2>3. l[j] = q
    BY <2>2 DEF IsSeq
  <2> HIDE DEF l, pp
  <2>4. QED
    BY <2>2, <2>3
<1>2. IsSeq(l, n) /\ \A j \in 1 .. n : l[j] \in Nat
  <2>1. l = [j \in 1 .. n |-> l[j]]
    OBVIOUS
  <2> HIDE DEF l, pp
  <2>2. IsSeq(l, n)
    BY <2>1, FunctionIsSeq
  <2>3. QED
    BY <1>1, <2>2
<1> DEFINE p == Total(l)
<1>3. p \in Nat
  <2> HIDE DEF l
  <2>1. QED
    BY <1>2, TotalPositive
<1>4. IsSeq(Panels(snap.invs), p) /\ \A c \in 1 .. p : Panels(snap.invs)[c].w \in Words
  <2>1. /\ \A j \in 1 .. n : IsSeq(PanelPowers(snap.invs[j]), l[j])
        /\ \A j \in 1 .. n : \A i \in 1 .. l[j] : PanelPowers(snap.invs[j])[i] \in Words
    BY <1>1
  <2> HIDE DEF l
  <2>2. QED
    BY <1>2, <2>1, PanelsAre
<1>5. ShowsPanels(banks[1], p)
  <2>1. 1 \in DOMAIN banks
    BY UnitsAre
  <2>2. PICK k \in Nat : EncodesSnapshot(1, k)
    BY <2>1, EachBank
  <2>3. PICK pick \in Picks(snap) : banks[1] = Encode(snap, pick, Untracked[1])
    BY <2>2 DEF EncodesSnapshot
  <2> DEFINE bank == banks[1]
             s == snap
  <2>4. bank = Encode(s, pick, Untracked[1]) /\ IsSeq(s.invs, n)
    BY <2>3
  <2>5. IsSeq(Panels(s.invs), p) /\ \A c \in 1 .. p : Panels(s.invs)[c].w \in Words
    BY <1>4
  <2> HIDE DEF bank, s, p
  <2>6. ShowsPanels(bank, p)
    BY <1>3, <2>4, <2>5, FleetShowsPanels
  <2>7. QED
    BY <2>6 DEF bank
<1>6. ASSUME NEW j \in 1 .. n PROVE ShowsPanels(banks[1 + j], l[j])
  <2> DEFINE u == 1 + j
             inv == snap.invs[u - 1]
             bank == banks[u]
             q == l[j]
  <2>1. u \in Units /\ u \in DOMAIN banks /\ u # 1 /\ u - 1 = j
    BY DEF Units
  <2>2. q \in Nat /\ IsSeq(PanelPowers(inv), q) /\ \A i \in 1 .. q : PanelPowers(inv)[i] \in Words
    BY <1>1, <2>1
  <2> HIDE DEF u
  <2>3. PICK k \in Nat : EncodesSnapshot(u, k)
    BY <2>1, EachBank
  <2>4. PICK row : bank = EncodePerInverter(inv, u, row, Untracked[u])
    BY <2>1, <2>3 DEF EncodesSnapshot
  <2> HIDE DEF inv, bank, q
  <2>5. IsSeq(Panels(<<inv>>), q) /\ \A c \in 1 .. q : Panels(<<inv>>)[c].w \in Words
    BY <2>2, UnitPanels
  <2>6. ShowsPanels(bank, q)
    BY <2>2, <2>4, <2>5, UnitShowsPanels
  <2>7. QED
    BY <2>6 DEF bank, q, u
<1> HIDE DEF l
<1>7. QED
  BY <1>2, <1>5, <1>6

\* The fleet counts the panels of its units, and each bank shows the power of a
\* panel alike in both models.
LEMMA ModulesStep ==
    ASSUME PublishInv, Published, Built(snap, Words)
    PROVE  /\ Modules(banks[1]) = UnitSum(Every, Modules)
           /\ \A u \in DOMAIN banks : \A c \in 1 .. Min({8, Modules(banks[u])}) :
                  Point32(banks[u], 114, 32 + 2 * (c - 1)) = ModulePoint(banks[u], c, 11)
<1>1. PICK n \in Nat : n <= 254 /\ IsSeq(snap.invs, n) /\ Units = {1 + j : j \in 1 .. n}
  BY UnitsAre
<1>2. PICK l : /\ IsSeq(l, n) /\ \A j \in 1 .. n : l[j] \in Nat
               /\ ShowsPanels(banks[1], Total(l))
               /\ \A j \in 1 .. n : ShowsPanels(banks[1 + j], l[j])
  BY <1>1, PanelsShown
<1> DEFINE w == [j \in 1 .. n |-> Modules(banks[1 + j])]
<1>3. UnitSum(Every, Modules) = Total(w)
  <2>1. DOMAIN snap.invs = 1 .. n
    BY <1>1 DEF IsSeq
  <2>2. [j \in DOMAIN snap.invs |-> IF TRUE THEN Modules(banks[1 + j]) ELSE 0] = w
    BY <2>1
  <2> HIDE DEF w
  <2>3. QED
    BY <2>2 DEF UnitSum, Every
<1>4. Modules(banks[1]) = Total(w)
  <2>1. CASE DisableMPPT
    <3>1. Modules(banks[1]) = 0 /\ \A j \in 1 .. n : w[j] = 0
      BY <1>2, <2>1 DEF ShowsPanels
    <3>2. IsSeq(w, n)
      <4>1. w = [j \in 1 .. n |-> w[j]]
        OBVIOUS
      <4> HIDE DEF w
      <4>2. QED
        BY <4>1, FunctionIsSeq
    <3> HIDE DEF w
    <3>3. Total(w) \in Nat /\ (Total(w) > 0 <=> \E j \in 1 .. n : w[j] > 0)
      BY <3>1, <3>2, TotalPositive
    <3>4. Total(w) = 0
      BY <3>1, <3>3
    <3>5. QED
      BY <3>1, <3>4
  <2>2. CASE ~DisableMPPT
    <3>1. Modules(banks[1]) = Total(l) /\ \A j \in 1 .. n : Modules(banks[1 + j]) = l[j]
      BY <1>2, <2>2 DEF ShowsPanels
    <3>2. w = l
      BY <1>2, <3>1 DEF IsSeq
    <3>3. QED
      BY <3>1, <3>2
  <2>3. QED
    BY <2>1, <2>2
<1> DEFINE Alike(b) == \A c \in 1 .. Min({8, Modules(b)}) :
                           Point32(b, 114, 32 + 2 * (c - 1)) = ModulePoint(b, c, 11)
<1>5. ASSUME NEW u \in DOMAIN banks PROVE Alike(banks[u])
  <2>1. u = 1 \/ \E j \in 1 .. n : u = 1 + j
    BY <1>1 DEF Units
  <2>2. \E p : ShowsPanels(banks[u], p)
    BY <1>2, <2>1
  <2>3. QED
    BY <2>2 DEF ShowsPanels
<1>6. QED
  BY <1>3, <1>4, <1>5

LEMMA SumStep == ASSUME PublishInv, BuiltInv(Words) PROVE FleetIsSumOfUnits
<1> DEFINE W(b) == Signed(Measured(b, OffW))
           sum == Total([j \in DOMAIN snap.invs |->
                            IF Connected(banks[1 + j]) THEN W(banks[1 + j]) ELSE 0])
           modules == Total([j \in DOMAIN snap.invs |->
                                IF Every(banks[1 + j]) THEN Modules(banks[1 + j]) ELSE 0])
<1> SUFFICES ASSUME Published
             PROVE  /\ W(banks[1]) = Clamp(sum, -32760, 32760)
                    /\ Modules(banks[1]) = modules
                    /\ \A u \in DOMAIN banks : \A c \in 1 .. Min({8, Modules(banks[u])}) :
                           Point32(banks[u], 114, 32 + 2 * (c - 1)) = ModulePoint(banks[u], c, 11)
  BY DEF FleetIsSumOfUnits, UnitSum
<1>1. Built(snap, Words) /\ Built(snap, Nat)
  BY BuiltOfWords DEF BuiltInv
<1>2. W(banks[1]) = Clamp(sum, -32760, 32760)
  BY <1>1, PowerStep DEF UnitSum
<1>3. /\ Modules(banks[1]) = modules
      /\ \A u \in DOMAIN banks : \A c \in 1 .. Min({8, Modules(banks[u])}) :
             Point32(banks[u], 114, 32 + 2 * (c - 1)) = ModulePoint(banks[u], c, 11)
  BY <1>1, ModulesStep DEF UnitSum
<1>4. QED
  BY <1>2, <1>3

\* The fleet's bank adds up the power and the panels of its units, for any
\* telemetry in words, up to the largest power that a register holds.
THEOREM SumCorrect == SmallFleets /\ TailsAreWords /\ Spec => []FleetIsSumOfUnits
<1> SUFFICES ASSUME SmallFleets, TailsAreWords PROVE Spec => []FleetIsSumOfUnits
  OBVIOUS
<1>1. Spec => []PublishInv
  BY Invariance
<1>2. Init => BuiltInv(Words)
  BY InitBuilt
<1>3. PublishInv /\ BuiltInv(Words) /\ [Next]_vars => BuiltInv(Words)'
  BY NextBuilt DEF TailsAreWords
<1>4. PublishInv /\ BuiltInv(Words) => FleetIsSumOfUnits
  BY SumStep
<1>5. QED
  BY <1>1, <1>2, <1>3, <1>4, PTL DEF Spec

----------------------------------------------------------------------------
(* Alarms.                                                                 *)

\* Two of them hold 32 members.
LEMMA BitsRead ==
    ASSUME NEW bank, NEW off \in Nat, NEW bits, NEW from \in Nat,
           Measured(bank, off) = BitWord(bits, from + 16),
           Measured(bank, off + 1) = BitWord(bits, from)
    PROVE  BitsAt(bank, off) = {b \in 0 .. 31 : from + b \in bits}
<1> SUFFICES ASSUME NEW b \in 0 .. 31
             PROVE  (Measured(bank, off + 1 - b \div 16) \div 2 ^ (b % 16)) % 2 = 1
                        <=> from + b \in bits
  BY DEF BitsAt
<1> DEFINE q == b \div 16
           r == b % 16
<1>1. CASE b \in 0 .. 15
  <2>1. q = 0 /\ r = b
    BY <1>1
  <2>2. off + 1 - 0 = off + 1
    OBVIOUS
  <2>3. (BitWord(bits, from) \div 2 ^ b) % 2 = 1 <=> from + b \in bits
    BY <1>1, BitWordIs
  <2> HIDE DEF q, r
  <2>4. (Measured(bank, off + 1 - q) \div 2 ^ r) % 2 = 1 <=> from + b \in bits
    BY <2>1, <2>2, <2>3
  <2>5. QED
    BY <2>4 DEF q, r
<1>2. CASE b \in 16 .. 31
  <2> DEFINE c == b - 16
             up == from + 16
  <2>1. q = 1 /\ r = c
    BY <1>2
  <2>2. off + 1 - 1 = off /\ c \in 0 .. 15 /\ up \in Nat /\ up + c = from + b
    BY <1>2
  <2> HIDE DEF c, up
  <2>3. (BitWord(bits, up) \div 2 ^ c) % 2 = 1 <=> up + c \in bits
    BY <2>2, BitWordIs
  <2> HIDE DEF q, r
  <2>4. (Measured(bank, off + 1 - q) \div 2 ^ r) % 2 = 1 <=> from + b \in bits
    BY <2>1, <2>2, <2>3 DEF up
  <2>5. QED
    BY <2>4 DEF q, r
<1>3. QED
  BY <1>1, <1>2

\* What a bank shows of the events of a measurement.
LEMMA EventsRead ==
    ASSUME NEW bank, NEW m, ShowsMeasure(bank, m)
    PROVE  /\ BitsAt(bank, OffEvt1) = MapToEvt1(m.events)
           /\ \A w \in 0 .. 2 :
                  {b + 32 * w : b \in BitsAt(bank, OffEvtVnd + 2 * w)}
                      = m.events \cap (32 * w .. 32 * w + 31)
<1> DEFINE B(from) == BitWord(m.events, from)
           M(from) == BitWord(MapToEvt1(m.events), from)
           ev == EventRegisters(m.events)
<1>1. /\ ev[1] = M(16) /\ ev[2] = M(0) /\ ev[5] = B(16) /\ ev[6] = B(0)
      /\ ev[7] = B(48) /\ ev[8] = B(32) /\ ev[9] = B(80) /\ ev[10] = B(64)
  <2>1. /\ 0 + 16 = 16 /\ 32 + 16 = 48 /\ 64 + 16 = 80
    OBVIOUS
  <2>2. ev = <<M(16), M(0)>> \o NoU32 \o <<B(16), B(0)>> \o <<B(48), B(32)>> \o <<B(80), B(64)>> \o NoU32
    BY <2>1 DEF EventRegisters, Bits32
  <2> DEFINE a == M(16)
             b == M(0)
             c == B(16)
             d == B(0)
             e == B(48)
             f == B(32)
             g == B(80)
             h == B(64)
             t == <<a, b>> \o NoU32 \o <<c, d>> \o <<e, f>> \o <<g, h>> \o NoU32
  <2>3. ev = t
    BY <2>2
  <2> HIDE DEF a, b, c, d, e, f, g, h, ev
  <2>4. /\ t[1] = a /\ t[2] = b /\ t[5] = c /\ t[6] = d
        /\ t[7] = e /\ t[8] = f /\ t[9] = g /\ t[10] = h
    BY DEF NoU32, NoU16, Repeat
  <2> HIDE DEF t
  <2>5. QED
    BY <2>3, <2>4 DEF a, b, c, d, e, f, g, h
<1>2. \A k \in 1 .. 12 : Measured(bank, 37 + k) = ev[k]
  BY DEF ShowsMeasure
<1>3. /\ Measured(bank, 38) = M(16) /\ Measured(bank, 39) = M(0)
      /\ Measured(bank, 42) = B(16) /\ Measured(bank, 43) = B(0)
      /\ Measured(bank, 44) = B(48) /\ Measured(bank, 45) = B(32)
      /\ Measured(bank, 46) = B(80) /\ Measured(bank, 47) = B(64)
  <2> HIDE DEF B, M, ev
  <2>1. /\ Measured(bank, 37 + 1) = ev[1] /\ Measured(bank, 37 + 2) = ev[2]
        /\ Measured(bank, 37 + 5) = ev[5] /\ Measured(bank, 37 + 6) = ev[6]
        /\ Measured(bank, 37 + 7) = ev[7] /\ Measured(bank, 37 + 8) = ev[8]
        /\ Measured(bank, 37 + 9) = ev[9] /\ Measured(bank, 37 + 10) = ev[10]
    BY <1>2
  <2>2. QED
    BY <1>1, <2>1
<1>4. ASSUME NEW off \in Nat, NEW bits, NEW from \in Nat,
             Measured(bank, off) = BitWord(bits, from + 16),
             Measured(bank, off + 1) = BitWord(bits, from)
      PROVE  BitsAt(bank, off) = {b \in 0 .. 31 : from + b \in bits}
  BY <1>4, BitsRead
<1>5. BitsAt(bank, 38) = {b \in 0 .. 31 : 0 + b \in MapToEvt1(m.events)}
  BY <1>3, <1>4
<1>6. /\ BitsAt(bank, 42) = {b \in 0 .. 31 : 0 + b \in m.events}
      /\ BitsAt(bank, 44) = {b \in 0 .. 31 : 32 + b \in m.events}
      /\ BitsAt(bank, 46) = {b \in 0 .. 31 : 64 + b \in m.events}
  BY <1>3, <1>4
<1>7. BitsAt(bank, OffEvt1) = MapToEvt1(m.events)
  <2>1. MapToEvt1(m.events) \subseteq 0 .. 15
    BY DEF MapToEvt1
  <2>2. QED
    BY <1>5, <2>1 DEF OffEvt1
<1>8. ASSUME NEW w \in 0 .. 2
      PROVE  {b + 32 * w : b \in BitsAt(bank, OffEvtVnd + 2 * w)}
                 = m.events \cap (32 * w .. 32 * w + 31)
  <2> DEFINE from == 32 * w
  <2>1. from \in Nat /\ BitsAt(bank, OffEvtVnd + 2 * w) = {b \in 0 .. 31 : from + b \in m.events}
    <3>1. w = 0 \/ w = 1 \/ w = 2
      OBVIOUS
    <3>2. QED
      BY <1>6, <3>1 DEF OffEvtVnd
  <2> HIDE DEF from
  <2>2. {b + from : b \in {b \in 0 .. 31 : from + b \in m.events}} = m.events \cap (from .. from + 31)
    <3>1. ASSUME NEW x \in m.events, x \in from .. from + 31
          PROVE  x - from \in 0 .. 31 /\ (x - from) + from = x /\ from + (x - from) = x
      BY <2>1, <3>1
    <3>2. ASSUME NEW b \in 0 .. 31, from + b \in m.events
          PROVE  b + from \in m.events /\ b + from \in from .. from + 31
      BY <2>1, <3>2
    <3>3. QED
      BY <3>1, <3>2
  <2>3. QED
    BY <2>1, <2>2 DEF from
<1>9. QED
  BY <1>7, <1>8

LEMMA AlarmsStep == ASSUME PublishInv PROVE AlarmsSurface
<1> DEFINE Evt(b) == BitsAt(b, OffEvt1)
           Vnd(b, w) == BitsAt(b, OffEvtVnd + 2 * w)
           Shown(b, w) == {k + 32 * w : k \in Vnd(b, w)}
           ev(u) == snap.invs[u - 1].events
<1> SUFFICES ASSUME Published
             PROVE  /\ Evt(banks[1]) = UNION {Evt(banks[u]) : u \in Units}
                    /\ \A u \in Units : \A w \in 0 .. 2 :
                           /\ Shown(banks[u], w) = ev(u) \cap (32 * w .. 32 * w + 31)
                           /\ \A b \in Shown(banks[u], w) : b - 32 * w \in Vnd(banks[1], w)
  BY DEF AlarmsSurface
<1>1. PICK n \in Nat : n <= 254 /\ IsSeq(snap.invs, n) /\ Units = {1 + j : j \in 1 .. n}
  BY UnitsAre
<1>2. DOMAIN snap.invs = 1 .. n
  BY <1>1 DEF IsSeq
<1> DEFINE all == AggregateEventBits(snap)
<1>3. all = UNION {ev(u) : u \in Units}
  <2>1. \A j \in 1 .. n : ev(1 + j) = snap.invs[j].events
    <3>1. \A j \in 1 .. n : (1 + j) - 1 = j
      OBVIOUS
    <3>2. QED
      BY <3>1
  <2> HIDE DEF ev
  <2>2. {ev(u) : u \in Units} = {snap.invs[j].events : j \in 1 .. n}
    BY <1>1, <2>1
  <2>3. QED
    BY <1>2, <2>2 DEF AggregateEventBits
<1>4. /\ Evt(banks[1]) = MapToEvt1(all)
      /\ \A w \in 0 .. 2 : Shown(banks[1], w) = all \cap (32 * w .. 32 * w + 31)
  <2>1. 1 \in DOMAIN banks
    BY UnitsAre
  <2>2. PICK k \in Nat : EncodesSnapshot(1, k)
    BY <2>1, EachBank
  <2>3. PICK pick \in Picks(snap) : banks[1] = Encode(snap, pick, Untracked[1])
    BY <2>2 DEF EncodesSnapshot
  <2> DEFINE m == FleetMeasure(snap)
  <2>4. ShowsMeasure(banks[1], m)
    BY <1>1, <2>3, FleetShowsMeasure
  <2>5. m.events = all
    BY DEF FleetMeasure
  <2> HIDE DEF m, all
  <2>6. QED
    BY <2>4, <2>5, EventsRead
<1>5. ASSUME NEW u \in Units
      PROVE  /\ Evt(banks[u]) = MapToEvt1(ev(u))
             /\ \A w \in 0 .. 2 : Shown(banks[u], w) = ev(u) \cap (32 * w .. 32 * w + 31)
  <2> DEFINE inv == snap.invs[u - 1]
             m == UnitMeasure(inv)
             bank == banks[u]
  <2>1. u \in DOMAIN banks /\ u # 1
    BY DEF Units
  <2>2. PICK k \in Nat : EncodesSnapshot(u, k)
    BY <2>1, EachBank
  <2>3. PICK row : bank = EncodePerInverter(inv, u, row, Untracked[u])
    BY <2>1, <2>2 DEF EncodesSnapshot
  <2>4. m.events = ev(u)
    BY DEF UnitMeasure
  <2> HIDE DEF inv, bank
  <2>5. ShowsMeasure(bank, m)
    BY <2>3, UnitShowsMeasure
  <2> HIDE DEF m, ev
  <2>6. /\ Evt(bank) = MapToEvt1(ev(u))
        /\ \A w \in 0 .. 2 : Shown(bank, w) = ev(u) \cap (32 * w .. 32 * w + 31)
    BY <2>4, <2>5, EventsRead
  <2>7. QED
    BY <2>6 DEF bank
<1> HIDE DEF all, ev
<1>6. Evt(banks[1]) = UNION {Evt(banks[u]) : u \in Units}
  <2> HIDE DEF Evt
  <2>1. {Evt(banks[u]) : u \in Units} = {MapToEvt1(ev(u)) : u \in Units}
    BY <1>5
  <2>2. MapToEvt1(all) = UNION {MapToEvt1(ev(u)) : u \in Units}
    BY <1>3 DEF MapToEvt1
  <2>3. QED
    BY <1>4, <2>1, <2>2
<1>7. ASSUME NEW u \in Units, NEW w \in 0 .. 2, NEW b \in Shown(banks[u], w)
      PROVE  b - 32 * w \in Vnd(banks[1], w)
  <2>1. b \in ev(u) /\ b \in 32 * w .. 32 * w + 31
    BY <1>5
  <2>2. b \in all
    BY <1>3, <2>1
  <2>3. b \in Shown(banks[1], w)
    BY <1>4, <2>1, <2>2
  <2>4. PICK k \in Vnd(banks[1], w) : b = k + 32 * w
    BY <2>3
  <2>5. k \in Int
    BY <2>4 DEF BitsAt
  <2>6. b - 32 * w = k
    BY <2>4, <2>5
  <2>7. QED
    BY <2>4, <2>6
<1>8. QED
  BY <1>5, <1>6, <1>7

\* An alarm of an inverter is seen by a client that reads only the fleet, and a
\* unit shows the alarms of its inverter and no others.
THEOREM AlarmsCorrect == SmallFleets /\ Spec => []AlarmsSurface
<1> SUFFICES ASSUME SmallFleets PROVE Spec => []AlarmsSurface
  OBVIOUS
<1>1. Spec => []PublishInv
  BY Invariance
<1>2. PublishInv => AlarmsSurface
  BY AlarmsStep
<1>3. QED
  BY <1>1, <1>2, PTL
=============================================================================
