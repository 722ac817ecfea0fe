------------------------- MODULE PublicationProofs --------------------------
(***************************************************************************)
(* Theorems about Publication, for any contents of the sources, in any     *)
(* order and mixture, of at most 254 inverters.                            *)
(***************************************************************************)
EXTENDS Publication, RegistersProofs

----------------------------------------------------------------------------
(* The inductive invariant: the banks encode the snapshot beside them.     *)

\* The parameter file never lists more inverters than there are unit
\* numbers from 2 to 255. With one more, unit = uint8(2 + i) wraps to 0; with
\* three more, an inverter takes unit 2 from the first one.
SmallFleets ==
    /\ IsSeq(Worlds, Len(Worlds))
    /\ \A w \in DOMAIN Worlds : FileParses(Worlds[w].file) =>
           \E n \in Nat : n <= 254 /\ IsSeq(Worlds[w].file.rows, n)

\* The rows of a file are so few.
FewRows(file) == \E n \in Nat : n <= 254 /\ IsSeq(file.rows, n)

\* So are the inverters of a snapshot.
Fits(s) == \E n \in Nat : n <= 254 /\ IsSeq(s.invs, n)

\* A refresh that is under way has read a file with few rows.
GotInv ==
    /\ pc \in {"idle", "file", "limits", "events", "list", "prot", "publish"}
    /\ DOMAIN got = {"capacity", "file", "limits", "events", "list", "prot"}
    /\ pc \notin {"idle", "file"} => FewRows(got.file)

\* What is published was built from the snapshot that is published.
BanksInv ==
    Published => Fits(snap) /\ \E pick \in Picks(snap) : banks = BuildBanks(snap, pick, Untracked)

\* The invariant. The banks of a reachable state are not any function: to
\* step from them to the snapshot is what the properties need.
PublishInv == world \in DOMAIN Worlds /\ GotInv /\ BanksInv

\* A snapshot has an inverter for every row of the file.
LEMMA SnapshotFits ==
    ASSUME NEW capacity, NEW file, NEW limits, NEW events, NEW list, NEW prot, FewRows(file)
    PROVE  Fits(Snapshot(capacity, file, limits, events, list, prot))
<1> DEFINE s == Snapshot(capacity, file, limits, events, list, prot)
           row(j) == Joined(ParseInverterLine(file.rows[j]), limits, events, list)
<1>1. PICK n \in Nat : n <= 254 /\ IsSeq(file.rows, n)
  BY DEF FewRows
<1>2. DOMAIN file.rows = 1 .. n
  BY <1>1 DEF IsSeq
<1>3. s.invs = [j \in DOMAIN file.rows |-> row(j)]
  BY DEF Snapshot
<1> HIDE DEF s, row
<1>4. s.invs = [j \in 1 .. n |-> row(j)]
  BY <1>2, <1>3
<1>5. IsSeq(s.invs, n)
  BY <1>4 DEF IsSeq
<1>6. QED
  BY <1>1, <1>5 DEF Fits, s

\* A file that parses has few rows.
LEMMA WorldRows ==
    ASSUME SmallFleets, world \in DOMAIN Worlds, FileParses(Now.file) PROVE FewRows(Now.file)
BY DEF SmallFleets, FewRows, Now

\* The invariant holds before the first refresh.
LEMMA InitPublish == SmallFleets /\ Init => PublishInv
<1> SUFFICES ASSUME SmallFleets, Init PROVE PublishInv
  OBVIOUS
<1>1. world \in DOMAIN Worlds
  <2> DEFINE n == Len(Worlds)
  <2>1. IsSeq(Worlds, n) /\ Worlds # << >> /\ world = 1
    BY BoundAssumption DEF SmallFleets, Init
  <2> HIDE DEF n
  <2>2. DOMAIN Worlds = 1 .. n /\ n # 0 /\ n \in Nat
    BY <2>1 DEF IsSeq
  <2>3. QED
    BY <2>1, <2>2
<1>2. GotInv
  BY DEF Init, GotInv, Nothing
<1>3. BanksInv
  BY DEF Init, BanksInv, Published
<1>4. QED
  BY <1>1, <1>2, <1>3 DEF PublishInv

\* Every step preserves it, whatever the sources hold by then.
LEMMA NextPublish ==
    ASSUME SmallFleets, PublishInv, [Next]_vars PROVE PublishInv'
<1>1. CASE Change
  <2>1. world + 1 \in DOMAIN Worlds
    <3> DEFINE n == Len(Worlds)
    <3>1. IsSeq(Worlds, n) /\ world \in DOMAIN Worlds /\ world < n
      BY <1>1 DEF SmallFleets, PublishInv, Change
    <3> HIDE DEF n
    <3>2. DOMAIN Worlds = 1 .. n /\ n \in Nat
      BY <3>1 DEF IsSeq
    <3>3. QED
      BY <3>1, <3>2
  <2>2. GotInv' /\ BanksInv'
    BY <1>1 DEF Change, PublishInv, GotInv, BanksInv, Published
  <2>3. QED
    BY <1>1, <2>1, <2>2 DEF Change, PublishInv
<1>2. CASE StartRefresh
  <2>1. GotInv'
    BY <1>2 DEF StartRefresh, PublishInv, GotInv, Nothing
  <2>2. QED
    BY <1>2, <2>1 DEF StartRefresh, PublishInv, BanksInv, Published
<1>3. CASE ReadParams
  <2>1. FewRows(Now.file)
    BY <1>3, WorldRows DEF ReadParams, PublishInv
  <2>2. /\ DOMAIN got' = {"capacity", "file", "limits", "events", "list", "prot"}
        /\ got'.file = Now.file
    BY <1>3 DEF ReadParams, PublishInv, GotInv
  <2>3. GotInv'
    BY <1>3, <2>1, <2>2 DEF ReadParams, GotInv
  <2>4. QED
    BY <1>3, <2>3 DEF ReadParams, PublishInv, BanksInv, Published
<1>4. CASE FailParams
  <2>1. GotInv'
    BY <1>4 DEF FailParams, PublishInv, GotInv, Nothing
  <2>2. QED
    BY <1>4, <2>1 DEF FailParams, PublishInv, BanksInv, Published
<1>5. CASE Query
  <2>1. PICK rows : got' = [got EXCEPT ![pc] = rows]
    BY <1>5 DEF Query
  <2>2. pc \in {"limits", "events", "list", "prot"} /\ pc' = After[pc]
    BY <1>5 DEF Query, After
  <2>3. pc' \in {"events", "list", "prot", "publish"}
    BY <2>2 DEF After
  <2>4. FewRows(got.file) /\ DOMAIN got = {"capacity", "file", "limits", "events", "list", "prot"}
    BY <2>2 DEF PublishInv, GotInv
  <2>5. got'.file = got.file /\ DOMAIN got' = DOMAIN got
    BY <2>1, <2>2, <2>4
  <2>6. GotInv'
    BY <2>3, <2>4, <2>5 DEF GotInv
  <2>7. QED
    BY <1>5, <2>6 DEF Query, PublishInv, BanksInv, Published
<1>6. CASE Publish
  <2>1. FewRows(got.file)
    BY <1>6 DEF Publish, PublishInv, GotInv
  <2>2. Fits(snap')
    BY <1>6, <2>1, SnapshotFits DEF Publish
  <2>3. \E pick \in Picks(snap') : banks' = BuildBanks(snap', pick, Untracked)
    BY <1>6 DEF Publish
  <2>4. GotInv'
    BY <1>6 DEF Publish, GotInv, Nothing
  <2>5. QED
    BY <1>6, <2>2, <2>3, <2>4 DEF Publish, PublishInv, BanksInv
<1>7. CASE UNCHANGED vars
  BY <1>7 DEF vars, PublishInv, GotInv, BanksInv, Published
<1>8. QED
  BY <1>1, <1>2, <1>3, <1>4, <1>5, <1>6, <1>7 DEF Next

\* It holds in every reachable state.
LEMMA Invariance ==
    ASSUME SmallFleets PROVE Spec => []PublishInv
<1>1. Init => PublishInv
  BY InitPublish
<1>2. PublishInv /\ [Next]_vars => PublishInv'
  BY NextPublish
<1>3. QED
  BY <1>1, <1>2, PTL DEF Spec

\* What is published at each unit.
EncodesSnapshot(u, n) ==
    /\ n <= 254 /\ IsSeq(snap.invs, n)
    /\ u = 1 => \E pick \in Picks(snap) : banks[u] = Encode(snap, pick, Untracked[1])
    /\ u # 1 => /\ u - 1 \in 1 .. n
                /\ \E row : /\ row = RowShown(snap, snap.invs[u - 1])
                           /\ banks[u] = EncodePerInverter(snap.invs[u - 1], u, row, Untracked[u])

\* Unit 1 shows the fleet, and every other unit its inverter.
LEMMA EachBank ==
    ASSUME PublishInv, NEW u \in DOMAIN banks
    PROVE  \E n \in Nat : EncodesSnapshot(u, n)
<1>1. Published
  BY DEF Published
<1>2. PICK pick \in Picks(snap) : banks = BuildBanks(snap, pick, Untracked)
  BY <1>1 DEF PublishInv, BanksInv
<1>3. PICK n \in Nat : n <= 254 /\ IsSeq(snap.invs, n)
  BY <1>1 DEF PublishInv, BanksInv, Fits
<1>4. CASE u = 1
  <2>1. BuildBanks(snap, pick, Untracked)[1] = Encode(snap, pick, Untracked[1])
    BY <1>3, FleetBank
  <2>2. QED
    BY <1>2, <1>3, <1>4, <2>1 DEF EncodesSnapshot
<1>5. CASE u # 1
  <2>1. /\ u - 1 \in 1 .. n
        /\ \E row : /\ row = RowShown(snap, snap.invs[u - 1])
                   /\ banks[u] = EncodePerInverter(snap.invs[u - 1], u, row, Untracked[u])
    BY <1>2, <1>3, <1>5, UnitBank
  <2>2. QED
    BY <1>3, <1>5, <2>1 DEF EncodesSnapshot
<1>6. QED
  BY <1>4, <1>5

----------------------------------------------------------------------------
(* The places of the models that clients write to.                         *)

\* The property for one bank.
ModelsAt(bank, layout) ==
    \A k \in DOMAIN Rules!Writables :
        LET m == Rules!Writables[k]
            place == FindModel(bank, m)
        IN  /\ place + 2 = Rules!BodyStart(layout, m)
            /\ At(bank, place + 1) = Rules!BodyLen[m]

\* The four models stand at fixed places in the fleet's bank: what varies
\* in length, 160 and 64202, is emitted behind them.
LEMMA FleetPlacesAreThose ==
    ASSUME NEW s, NEW n \in Nat, n <= 254, IsSeq(s.invs, n), NEW pick, NEW outcome
    PROVE  ModelsAt(Encode(s, pick, outcome), "fleet")
<1> DEFINE bank == Encode(s, pick, outcome)
           mppt == HasMPPT(s.invs)
           x == 100 + PhasesUsed(s)
           c == FleetCount(mppt, s.invs # << >>)
           ids == FleetIDs(x, mppt)
<1>1. PICK p \in 0 .. 4 * n : IsSeq(Panels(s.invs), p)
  BY PanelsWidth
<1> DEFINE at == FleetPlaces(p, n, mppt)
<1>2. Chained(bank, ids, at, c)
  <2>1. \E models : IsFleetBank(bank, models, s, p, n, pick, outcome)
    BY <1>1, FleetIsChained
  <2>2. QED
    BY <2>1 DEF IsFleetBank
<1>3. c \in Nat /\ c >= 14
  BY DEF FleetCount
<1>4. /\ ids[7] = 123 /\ ids[12] = 703 /\ ids[13] = 711 /\ ids[14] = 134
      /\ at[7] = 40294 /\ at[8] = 40320
      /\ at[12] = 40498 /\ at[13] = 40517 /\ at[14] = 40541 /\ at[15] = 40611
  <2> HIDE DEF mppt, x
  <2>1. QED
    BY DEF FleetIDs, FleetPlaces
<1> HIDE DEF bank, mppt, x, c, ids, at
<1>5. FindModel(bank, 123) = 40294 /\ At(bank, 40294 + 1) = 24
  <2>1. 7 \in 1 .. c
    BY <1>3
  <2>2. FindModel(bank, ids[7]) = at[7] /\ At(bank, at[7] + 1) = at[7 + 1] - at[7] - 2
    BY <1>2, <1>3, <2>1, ModelPlace
  <2>3. QED
    BY <1>4, <2>2
<1>6. FindModel(bank, 703) = 40498 /\ At(bank, 40498 + 1) = 17
  <2>1. 12 \in 1 .. c
    BY <1>3
  <2>2. FindModel(bank, ids[12]) = at[12] /\ At(bank, at[12] + 1) = at[12 + 1] - at[12] - 2
    BY <1>2, <1>3, <2>1, ModelPlace
  <2>3. QED
    BY <1>4, <2>2
<1>7. FindModel(bank, 711) = 40517 /\ At(bank, 40517 + 1) = 22
  <2>1. 13 \in 1 .. c
    BY <1>3
  <2>2. FindModel(bank, ids[13]) = at[13] /\ At(bank, at[13] + 1) = at[13 + 1] - at[13] - 2
    BY <1>2, <1>3, <2>1, ModelPlace
  <2>3. QED
    BY <1>4, <2>2
<1>8. FindModel(bank, 134) = 40541 /\ At(bank, 40541 + 1) = 68
  <2>1. 14 \in 1 .. c
    BY <1>3
  <2>2. FindModel(bank, ids[14]) = at[14] /\ At(bank, at[14] + 1) = at[14 + 1] - at[14] - 2
    BY <1>2, <1>3, <2>1, ModelPlace
  <2>3. QED
    BY <1>4, <2>2
<1>9. QED
  BY <1>5, <1>6, <1>7, <1>8
  DEF bank, ModelsAt, Rules!Writables, Rules!BodyStart, Rules!BodyLen, Rules!Base16

\* They do in the bank of an inverter.
LEMMA UnitPlacesAreThose ==
    ASSUME NEW inv, NEW unit, NEW row, NEW outcome
    PROVE  ModelsAt(EncodePerInverter(inv, unit, row, outcome), "unit")
<1> DEFINE bank == EncodePerInverter(inv, unit, row, outcome)
           c == UnitCount(HasMPPT(<<inv>>))
           ids == UnitIDs
<1>1. PICK p \in 0 .. 4 : IsSeq(Panels(<<inv>>), p)
  <2>1. IsSeq(<<inv>>, 1)
    BY DEF IsSeq
  <2>2. \E p \in 0 .. 4 * 1 : IsSeq(Panels(<<inv>>), p)
    BY <2>1, PanelsWidth
  <2>3. QED
    BY <2>2
<1> DEFINE at == UnitPlaces(p)
<1>2. Chained(bank, ids, at, c)
  <2>1. \E models : IsUnitBank(bank, models, inv, p, row, outcome)
    BY <1>1, UnitIsChained
  <2>2. QED
    BY <2>1 DEF IsUnitBank
<1>3. c \in Nat /\ c >= 13
  BY DEF UnitCount
<1>4. /\ ids[6] = 123 /\ ids[11] = 703 /\ ids[12] = 711 /\ ids[13] = 134
      /\ at[6] = 40262 /\ at[7] = 40288
      /\ at[11] = 40466 /\ at[12] = 40485 /\ at[13] = 40509 /\ at[14] = 40579
  BY DEF UnitIDs, UnitPlaces
<1> HIDE DEF bank, c, ids, at
<1>5. FindModel(bank, 123) = 40262 /\ At(bank, 40262 + 1) = 24
  <2>1. 6 \in 1 .. c
    BY <1>3
  <2>2. FindModel(bank, ids[6]) = at[6] /\ At(bank, at[6] + 1) = at[6 + 1] - at[6] - 2
    BY <1>2, <1>3, <2>1, ModelPlace
  <2>3. QED
    BY <1>4, <2>2
<1>6. FindModel(bank, 703) = 40466 /\ At(bank, 40466 + 1) = 17
  <2>1. 11 \in 1 .. c
    BY <1>3
  <2>2. FindModel(bank, ids[11]) = at[11] /\ At(bank, at[11] + 1) = at[11 + 1] - at[11] - 2
    BY <1>2, <1>3, <2>1, ModelPlace
  <2>3. QED
    BY <1>4, <2>2
<1>7. FindModel(bank, 711) = 40485 /\ At(bank, 40485 + 1) = 22
  <2>1. 12 \in 1 .. c
    BY <1>3
  <2>2. FindModel(bank, ids[12]) = at[12] /\ At(bank, at[12] + 1) = at[12 + 1] - at[12] - 2
    BY <1>2, <1>3, <2>1, ModelPlace
  <2>3. QED
    BY <1>4, <2>2
<1>8. FindModel(bank, 134) = 40509 /\ At(bank, 40509 + 1) = 68
  <2>1. 13 \in 1 .. c
    BY <1>3
  <2>2. FindModel(bank, ids[13]) = at[13] /\ At(bank, at[13] + 1) = at[13 + 1] - at[13] - 2
    BY <1>2, <1>3, <2>1, ModelPlace
  <2>3. QED
    BY <1>4, <2>2
<1>9. QED
  BY <1>5, <1>6, <1>7, <1>8
  DEF bank, ModelsAt, Rules!Writables, Rules!BodyStart, Rules!BodyLen, Rules!Base16

\* The invariant implies the property.
LEMMA PlacesStep ==
    ASSUME PublishInv PROVE WritablePlacesAreFixed
<1> SUFFICES ASSUME NEW u \in DOMAIN banks
             PROVE  ModelsAt(banks[u], IF u = 1 THEN "fleet" ELSE "unit")
  BY DEF WritablePlacesAreFixed, ModelsAt
<1>1. PICK n \in Nat : EncodesSnapshot(u, n)
  BY EachBank
<1>2. n <= 254 /\ IsSeq(snap.invs, n)
  BY <1>1 DEF EncodesSnapshot
<1>3. CASE u = 1
  <2>1. PICK pick \in Picks(snap) : banks[u] = Encode(snap, pick, Untracked[1])
    BY <1>1, <1>3 DEF EncodesSnapshot
  <2>2. QED
    BY <1>2, <1>3, <2>1, FleetPlacesAreThose
<1>4. CASE u # 1
  <2>1. PICK row : banks[u] = EncodePerInverter(snap.invs[u - 1], u, row, Untracked[u])
    BY <1>1, <1>4 DEF EncodesSnapshot
  <2>2. QED
    BY <1>4, <2>1, UnitPlacesAreThose
<1>5. QED
  BY <1>3, <1>4

\* An address that a client computed once stays that of its register, in the
\* bank of every unit, for any fleet.
THEOREM PlacesCorrect == SmallFleets /\ Spec => []WritablePlacesAreFixed
<1> SUFFICES ASSUME SmallFleets PROVE Spec => []WritablePlacesAreFixed
  OBVIOUS
<1>1. Spec => []PublishInv
  BY Invariance
<1>2. PublishInv => WritablePlacesAreFixed
  BY PlacesStep
<1>3. QED
  BY <1>1, <1>2, PTL

----------------------------------------------------------------------------
(* The chain of the models.                                                *)

\* A list of models is the first n of ids.
Matches(e, ids, n) == IsSeq(e, n) /\ \A k \in 1 .. n : e[k] = ids[k]

\* The models a fleet's bank should have are those of its chain.
LEMMA FleetMatches ==
    ASSUME NEW x, NEW mppt \in BOOLEAN, NEW some \in BOOLEAN
    PROVE  Matches(Models(x, <<121>>, IF mppt THEN <<160>> ELSE << >>, IF some THEN <<64202>> ELSE << >>),
                   FleetIDs(x, mppt), FleetCount(mppt, some))
<1> DEFINE a == IF mppt THEN <<160>> ELSE << >>
           b == IF some THEN <<64202>> ELSE << >>
           e == Models(x, <<121>>, a, b)
           ids == FleetIDs(x, mppt)
<1>1. CASE mppt /\ some
  <2>1. FleetCount(mppt, some) = 16 /\ a = <<160>> /\ b = <<64202>>
    BY <1>1 DEF FleetCount
  <2> DEFINE d == Models(x, <<121>>, <<160>>, <<64202>>)
  <2>2. e = d
    <3> HIDE DEF a, b
    <3>1. QED
      BY <2>1
  <2>3. IsSeq(d, 16)
    BY DEF Models, IsSeq
  <2>4. /\ d[1] = ids[1] /\ d[2] = ids[2] /\ d[3] = ids[3] /\ d[4] = ids[4] /\ d[5] = ids[5]
        /\ d[6] = ids[6] /\ d[7] = ids[7] /\ d[8] = ids[8] /\ d[9] = ids[9] /\ d[10] = ids[10]
        /\ d[11] = ids[11] /\ d[12] = ids[12] /\ d[13] = ids[13] /\ d[14] = ids[14] /\ d[15] = ids[15]
        /\ d[16] = ids[16]
    BY <1>1 DEF Models, FleetIDs
  <2> HIDE DEF d, ids, e
  <2>5. Matches(d, ids, 16)
    BY <2>3, <2>4 DEF Matches
  <2>6. QED
    BY <2>1, <2>2, <2>5 DEF e, ids
<1>2. CASE mppt /\ ~some
  <2>1. FleetCount(mppt, some) = 15 /\ a = <<160>> /\ b = << >>
    BY <1>2 DEF FleetCount
  <2> DEFINE d == Models(x, <<121>>, <<160>>, << >>)
  <2>2. e = d
    <3> HIDE DEF a, b
    <3>1. QED
      BY <2>1
  <2>3. IsSeq(d, 15)
    BY DEF Models, IsSeq
  <2>4. /\ d[1] = ids[1] /\ d[2] = ids[2] /\ d[3] = ids[3] /\ d[4] = ids[4] /\ d[5] = ids[5]
        /\ d[6] = ids[6] /\ d[7] = ids[7] /\ d[8] = ids[8] /\ d[9] = ids[9] /\ d[10] = ids[10]
        /\ d[11] = ids[11] /\ d[12] = ids[12] /\ d[13] = ids[13] /\ d[14] = ids[14] /\ d[15] = ids[15]
    BY <1>2 DEF Models, FleetIDs
  <2> HIDE DEF d, ids, e
  <2>5. Matches(d, ids, 15)
    BY <2>3, <2>4 DEF Matches
  <2>6. QED
    BY <2>1, <2>2, <2>5 DEF e, ids
<1>3. CASE ~mppt /\ some
  <2>1. FleetCount(mppt, some) = 15 /\ a = << >> /\ b = <<64202>>
    BY <1>3 DEF FleetCount
  <2> DEFINE d == Models(x, <<121>>, << >>, <<64202>>)
  <2>2. e = d
    <3> HIDE DEF a, b
    <3>1. QED
      BY <2>1
  <2>3. IsSeq(d, 15)
    BY DEF Models, IsSeq
  <2>4. /\ d[1] = ids[1] /\ d[2] = ids[2] /\ d[3] = ids[3] /\ d[4] = ids[4] /\ d[5] = ids[5]
        /\ d[6] = ids[6] /\ d[7] = ids[7] /\ d[8] = ids[8] /\ d[9] = ids[9] /\ d[10] = ids[10]
        /\ d[11] = ids[11] /\ d[12] = ids[12] /\ d[13] = ids[13] /\ d[14] = ids[14] /\ d[15] = ids[15]
    BY <1>3 DEF Models, FleetIDs
  <2> HIDE DEF d, ids, e
  <2>5. Matches(d, ids, 15)
    BY <2>3, <2>4 DEF Matches
  <2>6. QED
    BY <2>1, <2>2, <2>5 DEF e, ids
<1>4. CASE ~mppt /\ ~some
  <2>1. FleetCount(mppt, some) = 14 /\ a = << >> /\ b = << >>
    BY <1>4 DEF FleetCount
  <2> DEFINE d == Models(x, <<121>>, << >>, << >>)
  <2>2. e = d
    <3> HIDE DEF a, b
    <3>1. QED
      BY <2>1
  <2>3. IsSeq(d, 14)
    BY DEF Models, IsSeq
  <2>4. /\ d[1] = ids[1] /\ d[2] = ids[2] /\ d[3] = ids[3] /\ d[4] = ids[4] /\ d[5] = ids[5]
        /\ d[6] = ids[6] /\ d[7] = ids[7] /\ d[8] = ids[8] /\ d[9] = ids[9] /\ d[10] = ids[10]
        /\ d[11] = ids[11] /\ d[12] = ids[12] /\ d[13] = ids[13] /\ d[14] = ids[14]
    BY <1>4 DEF Models, FleetIDs
  <2> HIDE DEF d, ids, e
  <2>5. Matches(d, ids, 14)
    BY <2>3, <2>4 DEF Matches
  <2>6. QED
    BY <2>1, <2>2, <2>5 DEF e, ids
<1>5. QED
  BY <1>1, <1>2, <1>3, <1>4

\* So are those of an inverter's bank.
LEMMA UnitMatches ==
    ASSUME NEW mppt \in BOOLEAN
    PROVE  Matches(Models(101, << >>, IF mppt THEN <<160>> ELSE << >>, << >>), UnitIDs, UnitCount(mppt))
<1> DEFINE a == IF mppt THEN <<160>> ELSE << >>
           e == Models(101, << >>, a, << >>)
           ids == UnitIDs
<1>1. CASE mppt
  <2>1. UnitCount(mppt) = 14 /\ a = <<160>>
    BY <1>1 DEF UnitCount
  <2> DEFINE d == Models(101, << >>, <<160>>, << >>)
  <2>2. e = d
    <3> HIDE DEF a
    <3>1. QED
      BY <2>1
  <2>3. IsSeq(d, 14)
    BY DEF Models, IsSeq
  <2>4. /\ d[1] = ids[1] /\ d[2] = ids[2] /\ d[3] = ids[3] /\ d[4] = ids[4] /\ d[5] = ids[5]
        /\ d[6] = ids[6] /\ d[7] = ids[7] /\ d[8] = ids[8] /\ d[9] = ids[9] /\ d[10] = ids[10]
        /\ d[11] = ids[11] /\ d[12] = ids[12] /\ d[13] = ids[13] /\ d[14] = ids[14]
    BY <1>1 DEF Models, UnitIDs
  <2> HIDE DEF d, ids, e
  <2>5. Matches(d, ids, 14)
    BY <2>3, <2>4 DEF Matches
  <2>6. QED
    BY <2>1, <2>2, <2>5 DEF e, ids
<1>2. CASE ~mppt
  <2>1. UnitCount(mppt) = 13 /\ a = << >>
    BY <1>2 DEF UnitCount
  <2> DEFINE d == Models(101, << >>, << >>, << >>)
  <2>2. e = d
    <3> HIDE DEF a
    <3>1. QED
      BY <2>1
  <2>3. IsSeq(d, 13)
    BY DEF Models, IsSeq
  <2>4. /\ d[1] = ids[1] /\ d[2] = ids[2] /\ d[3] = ids[3] /\ d[4] = ids[4] /\ d[5] = ids[5]
        /\ d[6] = ids[6] /\ d[7] = ids[7] /\ d[8] = ids[8] /\ d[9] = ids[9] /\ d[10] = ids[10]
        /\ d[11] = ids[11] /\ d[12] = ids[12] /\ d[13] = ids[13]
    BY <1>2 DEF Models, UnitIDs
  <2> HIDE DEF d, ids, e
  <2>5. Matches(d, ids, 13)
    BY <2>3, <2>4 DEF Matches
  <2>6. QED
    BY <2>1, <2>2, <2>5 DEF e, ids
<1>3. QED
  BY <1>1, <1>2

\* A chain can be walked by its declared lengths, from model to model.
LEMMA ChainWalks ==
    ASSUME NEW bank, NEW ids, NEW at, NEW n \in Nat, n >= 1, Chained(bank, ids, at, n),
           NEW e, IsSeq(e, n), \A k \in 1 .. n : e[k] = ids[k]
    PROVE  Walkable(bank, e)
<1>1. \A k \in 1 .. n : FindModel(bank, e[k]) = at[k]
  <2> TAKE k \in 1 .. n
  <2>1. /\ Ended(bank, ids, at, n)
        /\ \A i, j \in 1 .. n : ids[i] = ids[j] => i = j
        /\ \A i \in 1 .. n : ids[i] # 65535
    BY DEF Chained, EndModelID
  <2>2. FindModel(bank, ids[k]) = at[k]
    BY <2>1, ChainFound
  <2>3. QED
    BY <2>2
<1> DEFINE place(k) == FindModel(bank, e[k])
           size(k) == 2 + At(bank, place(k) + 1)
<1>2. /\ at[1] = 40002 /\ IsSeq(bank, at[n + 1] + 2 - 40000) /\ at[n + 1] + 2 <= 65535
      /\ At(bank, at[n + 1]) = 65535 /\ At(bank, at[n + 1] + 1) = 0
      /\ \A k \in 1 .. n + 1 : at[k] \in Nat /\ at[k] >= 40000 /\ at[k] <= at[n + 1]
      /\ \A k \in 1 .. n : /\ at[k] + 2 <= at[k + 1]
                           /\ At(bank, at[k] + 1) = at[k + 1] - at[k] - 2
  BY DEF Chained, Ended, Base, EndModelID
<1>3. \A k \in 1 .. n : place(k) = at[k] /\ size(k) = at[k + 1] - at[k]
  <2> TAKE k \in 1 .. n
  <2>1. place(k) = at[k]
    BY <1>1
  <2>2. At(bank, at[k] + 1) = at[k + 1] - at[k] - 2 /\ at[k] \in Nat /\ at[k + 1] \in Nat
    BY <1>2
  <2>3. QED
    BY <2>1, <2>2
<1> HIDE DEF place, size
<1>4. Len(e) = n /\ DOMAIN e = 1 .. n
  BY DEF IsSeq
<1> DEFINE end == place(n) + size(n)
<1>5. end = at[n + 1] /\ end \in Nat /\ Len(bank) = end + 2 - 40000
  <2>1. Len(bank) = at[n + 1] + 2 - 40000
    BY <1>2 DEF IsSeq
  <2>2. at[n] \in Nat /\ at[n + 1] \in Nat /\ place(n) = at[n] /\ size(n) = at[n + 1] - at[n]
    BY <1>2, <1>3
  <2>3. QED
    BY <2>1, <2>2
<1> HIDE DEF end
<1>6. place(1) = Base + 2
  BY <1>2, <1>3 DEF Base
<1>7. ASSUME NEW k \in 2 .. n PROVE place(k) = place(k - 1) + size(k - 1)
  <2>1. k - 1 \in 1 .. n /\ k \in 1 .. n /\ (k - 1) + 1 = k
    OBVIOUS
  <2>2. /\ place(k - 1) = at[k - 1] /\ size(k - 1) = at[k] - at[k - 1] /\ place(k) = at[k]
        /\ at[k] \in Nat /\ at[k - 1] \in Nat
    BY <1>2, <1>3, <2>1
  <2>3. QED
    BY <2>2
<1>8. ASSUME NEW k \in 1 .. n PROVE InBank(bank, place(k), size(k))
  <2>1. /\ place(k) = at[k] /\ size(k) = at[k + 1] - at[k] /\ at[k] \in Nat /\ at[k + 1] \in Nat
        /\ at[k] + 2 <= at[k + 1] /\ at[k] >= 40000 /\ at[k + 1] <= at[n + 1]
    BY <1>2, <1>3
  <2> DEFINE a == place(k)
             c == size(k)
             l == Len(bank)
  <2>2. c > 0 /\ a >= 40000 /\ a + c <= 40000 + l
    <3>1. /\ l = end + 2 - 40000 /\ end = at[n + 1] /\ end \in Nat
          /\ a = at[k] /\ c = at[k + 1] - at[k]
      BY <1>5, <2>1
    <3> HIDE DEF a, c, l
    <3>2. a + c = at[k + 1] /\ c >= 2
      BY <2>1, <3>1
    <3>3. QED
      BY <2>1, <3>1, <3>2
  <2>3. QED
    BY <2>2 DEF InBank, Base
<1>9. Slice(bank, end, 2) = <<EndModelID, 0>>
  <2>1. end + 1 - 1 = end /\ end + 2 - 1 = end + 1 /\ end + 1 \in Nat
    BY <1>5
  <2>2. end <= 65535 /\ end + 1 <= 65535
    BY <1>2, <1>5
  <2>3. Word(end) = end /\ Word(end + 1) = end + 1
    BY <1>5, <2>1, <2>2, ModSmall DEF Word
  <2>4. At(bank, end) = EndModelID /\ At(bank, end + 1) = 0
    BY <1>2, <1>5 DEF EndModelID
  <2>5. QED
    BY <2>1, <2>3, <2>4 DEF Slice
<1>10. end + 2 = Base + Len(bank)
  BY <1>5 DEF Base
<1>11. QED
  BY <1>4, <1>6, <1>7, <1>8, <1>9, <1>10 DEF Walkable, place, size, end

\* The fleet's bank can be walked.
LEMMA FleetWalk ==
    ASSUME NEW s, NEW n \in Nat, n <= 254, IsSeq(s.invs, n), NEW pick, NEW outcome,
           NEW bank, bank = Encode(s, pick, outcome)
    PROVE  Walkable(bank, Models(InverterID(bank), <<121>>, IF HasMPPT(s.invs) THEN <<160>> ELSE << >>,
                                 IF s.invs # << >> THEN <<64202>> ELSE << >>))
<1> DEFINE mppt == HasMPPT(s.invs)
           some == s.invs # << >>
           x == 100 + PhasesUsed(s)
           c == FleetCount(mppt, some)
           ids == FleetIDs(x, mppt)
           e == Models(x, <<121>>, IF mppt THEN <<160>> ELSE << >>, IF some THEN <<64202>> ELSE << >>)
<1>1. PICK p \in 0 .. 4 * n : IsSeq(Panels(s.invs), p)
  BY PanelsWidth
<1> DEFINE at == FleetPlaces(p, n, mppt)
<1>2. Chained(bank, ids, at, c)
  <2>1. \E models : IsFleetBank(bank, models, s, p, n, pick, outcome)
    BY <1>1, FleetIsChained
  <2>2. QED
    BY <2>1 DEF IsFleetBank
<1>3. c \in Nat /\ c >= 14
  BY DEF FleetCount
<1>4. InverterID(bank) = x
  <2>1. ids[2] = x /\ at[2] = 40070
    <3> HIDE DEF x, mppt
    <3>1. QED
      BY DEF FleetIDs, FleetPlaces
  <2> HIDE DEF ids, at, c, x
  <2>2. At(bank, at[2]) = ids[2]
    <3>1. 2 \in 1 .. c
      BY <1>3
    <3>2. QED
      BY <1>2, <1>3, <3>1, ModelPlace
  <2>3. QED
    BY <2>1, <2>2 DEF InverterID, Base
<1>5. mppt \in BOOLEAN /\ some \in BOOLEAN
  BY DEF HasMPPT
<1> HIDE DEF mppt, some, x
<1>6. Matches(e, ids, c)
  BY <1>5, FleetMatches
<1>7. IsSeq(e, c) /\ \A k \in 1 .. c : e[k] = ids[k]
  BY <1>6 DEF Matches
<1> HIDE DEF ids, at, c, e
<1>8. Walkable(bank, e)
  BY <1>2, <1>3, <1>7, ChainWalks
<1>9. QED
  BY <1>4, <1>8 DEF e, mppt, some

\* An inverter's bank can be walked.
LEMMA UnitWalk ==
    ASSUME NEW inv, NEW unit, NEW row, NEW outcome,
           NEW bank, bank = EncodePerInverter(inv, unit, row, outcome)
    PROVE  Walkable(bank, Models(InverterID(bank), << >>, IF HasMPPT(<<inv>>) THEN <<160>> ELSE << >>, << >>))
<1> DEFINE mppt == HasMPPT(<<inv>>)
           c == UnitCount(mppt)
           ids == UnitIDs
           e == Models(101, << >>, IF mppt THEN <<160>> ELSE << >>, << >>)
<1>1. PICK p \in 0 .. 4 : IsSeq(Panels(<<inv>>), p)
  <2>1. IsSeq(<<inv>>, 1)
    BY DEF IsSeq
  <2>2. \E p \in 0 .. 4 * 1 : IsSeq(Panels(<<inv>>), p)
    BY <2>1, PanelsWidth
  <2>3. QED
    BY <2>2
<1> DEFINE at == UnitPlaces(p)
<1>2. Chained(bank, ids, at, c)
  <2>1. \E models : IsUnitBank(bank, models, inv, p, row, outcome)
    BY <1>1, UnitIsChained
  <2>2. QED
    BY <2>1 DEF IsUnitBank
<1>3. c \in Nat /\ c >= 13
  BY DEF UnitCount
<1>4. InverterID(bank) = 101
  <2>1. ids[2] = 101 /\ at[2] = 40070
    BY DEF UnitIDs, UnitPlaces
  <2> HIDE DEF ids, at, c
  <2>2. At(bank, at[2]) = ids[2]
    <3>1. 2 \in 1 .. c
      BY <1>3
    <3>2. QED
      BY <1>2, <1>3, <3>1, ModelPlace
  <2>3. QED
    BY <2>1, <2>2 DEF InverterID, Base
<1>5. mppt \in BOOLEAN
  BY DEF HasMPPT
<1> HIDE DEF mppt
<1>6. Matches(e, ids, c)
  BY <1>5, UnitMatches
<1>7. IsSeq(e, c) /\ \A k \in 1 .. c : e[k] = ids[k]
  BY <1>6 DEF Matches
<1> HIDE DEF ids, at, c, e
<1>8. Walkable(bank, e)
  BY <1>2, <1>3, <1>7, ChainWalks
<1>9. QED
  BY <1>4, <1>8 DEF e, mppt

\* The invariant implies the property.
LEMMA WalkStep ==
    ASSUME PublishInv PROVE ChainIsWalkable
<1> SUFFICES ASSUME NEW u \in DOMAIN banks PROVE Walkable(banks[u], Expected(u))
  BY DEF ChainIsWalkable
<1>1. PICK n \in Nat : EncodesSnapshot(u, n)
  BY EachBank
<1>2. n <= 254 /\ IsSeq(snap.invs, n)
  BY <1>1 DEF EncodesSnapshot
<1>3. CASE u = 1
  <2>1. PICK pick \in Picks(snap) : banks[u] = Encode(snap, pick, Untracked[1])
    BY <1>1, <1>3 DEF EncodesSnapshot
  <2>2. Expected(u) = Models(InverterID(banks[u]), <<121>>, IF HasMPPT(snap.invs) THEN <<160>> ELSE << >>,
                             IF snap.invs # << >> THEN <<64202>> ELSE << >>)
    <3> DEFINE fleet == u = 1
               invs == IF fleet THEN snap.invs ELSE <<snap.invs[u - 1]>>
               settings == IF fleet THEN <<121>> ELSE << >>
               mppt == IF Panels(invs) = << >> \/ DisableMPPT THEN << >> ELSE <<160>>
               vendor == IF fleet /\ snap.invs # << >> THEN <<64202>> ELSE << >>
    <3>1. Expected(u) = Models(InverterID(banks[u]), settings, mppt, vendor)
      BY DEF Expected
    <3>2. settings = <<121>>
      BY <1>3
    <3>3. vendor = IF snap.invs # << >> THEN <<64202>> ELSE << >>
      BY <1>3
    <3>4. invs = snap.invs
      BY <1>3
    <3>5. mppt = IF HasMPPT(snap.invs) THEN <<160>> ELSE << >>
      <4> HIDE DEF invs
      <4>1. QED
        BY <3>4 DEF HasMPPT
    <3> HIDE DEF settings, mppt, vendor
    <3>6. QED
      BY <3>1, <3>2, <3>3, <3>5
  <2>3. QED
    BY <1>2, <2>1, <2>2, FleetWalk
<1>4. CASE u # 1
  <2>1. PICK row : banks[u] = EncodePerInverter(snap.invs[u - 1], u, row, Untracked[u])
    BY <1>1, <1>4 DEF EncodesSnapshot
  <2>2. Expected(u) = Models(InverterID(banks[u]), << >>,
                             IF HasMPPT(<<snap.invs[u - 1]>>) THEN <<160>> ELSE << >>, << >>)
    <3> DEFINE fleet == u = 1
               invs == IF fleet THEN snap.invs ELSE <<snap.invs[u - 1]>>
               settings == IF fleet THEN <<121>> ELSE << >>
               mppt == IF Panels(invs) = << >> \/ DisableMPPT THEN << >> ELSE <<160>>
               vendor == IF fleet /\ snap.invs # << >> THEN <<64202>> ELSE << >>
    <3>1. Expected(u) = Models(InverterID(banks[u]), settings, mppt, vendor)
      BY DEF Expected
    <3>2. settings = << >>
      BY <1>4
    <3>3. vendor = << >>
      BY <1>4
    <3>4. invs = <<snap.invs[u - 1]>>
      BY <1>4
    <3>5. mppt = IF HasMPPT(<<snap.invs[u - 1]>>) THEN <<160>> ELSE << >>
      <4> HIDE DEF invs
      <4>1. QED
        BY <3>4 DEF HasMPPT
    <3> HIDE DEF settings, mppt, vendor
    <3>6. QED
      BY <3>1, <3>2, <3>3, <3>5
  <2>3. QED
    BY <2>1, <2>2, UnitWalk
<1>5. QED
  BY <1>3, <1>4

\* Every bank that is ever published is the chain of the models it should
\* have, each found at its place and readable in one piece, for any fleet: the
\* lengths that the encoders declare are those they emit.
THEOREM ChainCorrect == SmallFleets /\ Spec => []ChainIsWalkable
<1> SUFFICES ASSUME SmallFleets PROVE Spec => []ChainIsWalkable
  OBVIOUS
<1>1. Spec => []PublishInv
  BY Invariance
<1>2. PublishInv => ChainIsWalkable
  BY WalkStep
<1>3. QED
  BY <1>1, <1>2, PTL

----------------------------------------------------------------------------
(* What clients read.                                                      *)

\* A point of a model of the chain is a register of that model.
LEMMA PointIs ==
    ASSUME NEW bank, NEW models, NEW ids, NEW at, NEW n \in Nat,
           Filled(bank, models, at, n), Chained(bank, ids, at, n),
           NEW i \in 1 .. n, NEW m \in Nat, at[i + 1] = at[i] + m,
           NEW off \in Nat, off + 3 <= m
    PROVE  Point(bank, ids[i], off) = models[i][off + 3]
<1>1. FindModel(bank, ids[i]) = at[i]
  BY ModelPlace
<1> DEFINE j == off + 3
           a == at[i]
           t == models[i]
<1>2. j \in 1 .. m /\ a \in Nat
  <2>1. i \in 1 .. n + 1
    OBVIOUS
  <2>2. a \in Nat
    BY <2>1 DEF Filled, Base
  <2>3. QED
    BY <2>2
<1> HIDE DEF j
<1>3. At(bank, a + j - 1) = t[j]
  BY <1>2, FilledHolds
<1> HIDE DEF a, t
<1>4. a + 2 + off = a + j - 1
  BY <1>2 DEF j
<1>5. QED
  BY <1>1, <1>3, <1>4 DEF Point, a, j, t

\* What a client reads of a bank: the cap, its switch, and the connection; the
\* droop's switch, and the switch and the number of points of the curve.
Shows(bank, controls, droop, curve) ==
    /\ Point(bank, 123, Rules!OffConn) = controls[5]
    /\ Point(bank, 123, Rules!OffPct) = controls[6]
    /\ Point(bank, 123, Rules!OffEna) = controls[10]
    /\ Point(bank, 711, 0) = droop[3]
    /\ Point(bank, 134, 1) = curve[4]
    /\ Point(bank, 134, 10) = curve[13]

\* It reads them of the fleet
LEMMA FleetShows ==
    ASSUME NEW s, NEW n \in Nat, n <= 254, IsSeq(s.invs, n), NEW pick, NEW outcome,
           NEW bank, bank = Encode(s, pick, outcome)
    PROVE  Shows(bank, FleetControls(s), FreqDroop(pick.droop, outcome), FreqWattCurve(pick.curve))
<1> DEFINE mppt == HasMPPT(s.invs)
           x == 100 + PhasesUsed(s)
           c == FleetCount(mppt, s.invs # << >>)
           ids == FleetIDs(x, mppt)
<1>1. PICK p \in 0 .. 4 * n : IsSeq(Panels(s.invs), p)
  BY PanelsWidth
<1> DEFINE at == FleetPlaces(p, n, mppt)
<1>2. PICK models : IsFleetBank(bank, models, s, p, n, pick, outcome)
  BY <1>1, FleetIsChained
<1>3. /\ Filled(bank, models, at, c) /\ Chained(bank, ids, at, c)
      /\ models[7] = FleetControls(s) /\ models[13] = FreqDroop(pick.droop, outcome)
      /\ models[14] = FreqWattCurve(pick.curve)
  BY <1>2 DEF IsFleetBank
<1>4. c \in Nat /\ c >= 14
  BY DEF FleetCount
<1>5. /\ ids[7] = 123 /\ ids[13] = 711 /\ ids[14] = 134
      /\ at[7 + 1] = at[7] + 26 /\ at[13 + 1] = at[13] + 24 /\ at[14 + 1] = at[14] + 70
  <2> HIDE DEF mppt, x
  <2>1. QED
    BY DEF FleetIDs, FleetPlaces
<1> HIDE DEF mppt, x, c, ids, at
<1>6. 7 \in 1 .. c /\ 13 \in 1 .. c /\ 14 \in 1 .. c
  BY <1>4
<1>7. /\ Point(bank, ids[7], 2) = models[7][2 + 3]
      /\ Point(bank, ids[7], 3) = models[7][3 + 3]
      /\ Point(bank, ids[7], 7) = models[7][7 + 3]
  BY <1>3, <1>4, <1>5, <1>6, PointIs
<1>8. Point(bank, ids[13], 0) = models[13][0 + 3]
  BY <1>3, <1>4, <1>5, <1>6, PointIs
<1>9. /\ Point(bank, ids[14], 1) = models[14][1 + 3]
      /\ Point(bank, ids[14], 10) = models[14][10 + 3]
  BY <1>3, <1>4, <1>5, <1>6, PointIs
<1>10. QED
  BY <1>3, <1>5, <1>7, <1>8, <1>9 DEF Shows, Rules!OffConn, Rules!OffPct, Rules!OffEna

\* and of an inverter.
LEMMA UnitShows ==
    ASSUME NEW inv, NEW unit, NEW row, NEW outcome,
           NEW bank, bank = EncodePerInverter(inv, unit, row, outcome)
    PROVE  Shows(bank, UnitControls(inv), FreqDroop(row, outcome), FreqWattCurve(row))
<1> DEFINE c == UnitCount(HasMPPT(<<inv>>))
           ids == UnitIDs
<1>1. PICK p \in 0 .. 4 : IsSeq(Panels(<<inv>>), p)
  <2>1. IsSeq(<<inv>>, 1)
    BY DEF IsSeq
  <2>2. \E p \in 0 .. 4 * 1 : IsSeq(Panels(<<inv>>), p)
    BY <2>1, PanelsWidth
  <2>3. QED
    BY <2>2
<1> DEFINE at == UnitPlaces(p)
<1>2. PICK models : IsUnitBank(bank, models, inv, p, row, outcome)
  BY <1>1, UnitIsChained
<1>3. /\ Filled(bank, models, at, c) /\ Chained(bank, ids, at, c)
      /\ models[6] = UnitControls(inv) /\ models[12] = FreqDroop(row, outcome)
      /\ models[13] = FreqWattCurve(row)
  BY <1>2 DEF IsUnitBank
<1>4. c \in Nat /\ c >= 13
  BY DEF UnitCount
<1>5. /\ ids[6] = 123 /\ ids[12] = 711 /\ ids[13] = 134
      /\ at[6 + 1] = at[6] + 26 /\ at[12 + 1] = at[12] + 24 /\ at[13 + 1] = at[13] + 70
  BY DEF UnitIDs, UnitPlaces
<1> HIDE DEF c, ids, at
<1>6. 6 \in 1 .. c /\ 12 \in 1 .. c /\ 13 \in 1 .. c
  BY <1>4
<1>7. /\ Point(bank, ids[6], 2) = models[6][2 + 3]
      /\ Point(bank, ids[6], 3) = models[6][3 + 3]
      /\ Point(bank, ids[6], 7) = models[6][7 + 3]
  BY <1>3, <1>4, <1>5, <1>6, PointIs
<1>8. Point(bank, ids[12], 0) = models[12][0 + 3]
  BY <1>3, <1>4, <1>5, <1>6, PointIs
<1>9. /\ Point(bank, ids[13], 1) = models[13][1 + 3]
      /\ Point(bank, ids[13], 10) = models[13][10 + 3]
  BY <1>3, <1>4, <1>5, <1>6, PointIs
<1>10. QED
  BY <1>3, <1>5, <1>7, <1>8, <1>9 DEF Shows, Rules!OffConn, Rules!OffPct, Rules!OffEna

\* One row makes both models agree.
LEMMA CurveOfRow ==
    ASSUME NEW bank, NEW controls, NEW row, NEW outcome,
           Shows(bank, controls, FreqDroop(row, outcome), FreqWattCurve(row))
    PROVE  (Point(bank, 134, 1) = 1) = (Point(bank, 711, 0) = 1 /\ Point(bank, 134, 10) = 4)
<1>1. /\ Point(bank, 711, 0) = Bool(Val(row, "CV") \in DroopModes)
      /\ Point(bank, 134, 1) = Bool(CurveEnabled(row))
      /\ Point(bank, 134, 10) = (IF HasCurve(row) THEN 4 ELSE 0)
  BY DroopHolds, CurveHolds DEF Shows
<1> DEFINE mode == Val(row, "CV") \in DroopModes
           has == HasCurve(row)
<1>2. CurveEnabled(row) <=> has /\ mode
  BY DEF CurveEnabled
<1>3. (Point(bank, 711, 0) = 1) <=> mode
  BY <1>1 DEF Bool
<1>4. (Point(bank, 134, 1) = 1) <=> CurveEnabled(row)
  BY <1>1 DEF Bool
<1>5. (Point(bank, 134, 10) = 4) <=> has
  BY <1>1
<1>6. QED
  BY <1>2, <1>3, <1>4, <1>5

\* The invariant implies the property.
LEMMA CurveStep ==
    ASSUME PublishInv PROVE CurveAgreesWithDroop
<1> SUFFICES ASSUME NEW u \in DOMAIN banks,
                    u # 1 \/ (\E j \in DOMAIN snap.invs : snap.invs[j].uid \in DOMAIN snap.prot)
             PROVE  (Point(banks[u], 134, 1) = 1) =
                        (Point(banks[u], 711, 0) = 1 /\ Point(banks[u], 134, 10) = 4)
  BY DEF CurveAgreesWithDroop
<1>1. PICK n \in Nat : EncodesSnapshot(u, n)
  BY EachBank
<1>2. n <= 254 /\ IsSeq(snap.invs, n)
  BY <1>1 DEF EncodesSnapshot
<1>3. CASE u = 1
  <2>1. PICK pick \in Picks(snap) : banks[u] = Encode(snap, pick, Untracked[1])
    BY <1>1, <1>3 DEF EncodesSnapshot
  <2>2. pick.droop \in AggregateProtection(snap) /\ pick.curve \in AggregateProtection(snap)
    BY DEF Picks
  <2>3. \E row : AggregateProtection(snap) = {row}
    <3> DEFINE with == {j \in DOMAIN snap.invs : snap.invs[j].uid \in DOMAIN snap.prot}
               row == snap.prot[snap.invs[Min(with)].uid]
    <3>1. with # {}
      BY <1>3
    <3>2. AggregateProtection(snap) =
              IF with # {} THEN {snap.prot[snap.invs[Min(with)].uid]}
              ELSE IF DOMAIN snap.prot # {} THEN {snap.prot[k] : k \in DOMAIN snap.prot}
              ELSE {NoRows}
      BY DEF AggregateProtection
    <3> HIDE DEF with
    <3>3. AggregateProtection(snap) = {row}
      BY <3>1, <3>2
    <3> HIDE DEF row
    <3>4. QED
      BY <3>3
  <2>4. pick.droop = pick.curve
    BY <2>2, <2>3
  <2>5. Shows(banks[u], FleetControls(snap), FreqDroop(pick.curve, Untracked[1]),
              FreqWattCurve(pick.curve))
    BY <1>2, <2>1, <2>4, FleetShows
  <2>6. QED
    BY <2>5, CurveOfRow
<1>4. CASE u # 1
  <2>1. PICK row : banks[u] = EncodePerInverter(snap.invs[u - 1], u, row, Untracked[u])
    BY <1>1, <1>4 DEF EncodesSnapshot
  <2>2. Shows(banks[u], UnitControls(snap.invs[u - 1]), FreqDroop(row, Untracked[u]),
              FreqWattCurve(row))
    BY <2>1, UnitShows
  <2>3. QED
    BY <2>2, CurveOfRow
<1>5. QED
  BY <1>3, <1>4

\* Clients of the two models are told one story, whatever row is reported and
\* whichever row stands for the fleet.
THEOREM CurveCorrect == SmallFleets /\ Spec => []CurveAgreesWithDroop
<1> SUFFICES ASSUME SmallFleets PROVE Spec => []CurveAgreesWithDroop
  OBVIOUS
<1>1. Spec => []PublishInv
  BY Invariance
<1>2. PublishInv => CurveAgreesWithDroop
  BY CurveStep
<1>3. QED
  BY <1>1, <1>2, PTL

----------------------------------------------------------------------------
(* Caps.                                                                   *)

\* A table of caps from T.
CapsFrom(limits, T) == \A u \in DOMAIN limits : limits[u] \in T

\* An inverter whose cap is from T, or the zero of those that have none.
Rated(inv, T) == {"type", "model", "limit"} \subseteq DOMAIN inv /\ inv.limit \in T

\* Caps stay what the tables hold, through the joins.
CapsInv(T) ==
    /\ pc \in {"events", "list", "prot", "publish"} => CapsFrom(got.limits, T)
    /\ Published => \A j \in DOMAIN snap.invs : Rated(snap.invs[j], T)

\* Build takes it from the power table.
LEMMA JoinedCap ==
    ASSUME NEW T, 0 \in T, NEW row, NEW limits, CapsFrom(limits, T), NEW events, NEW list
    PROVE  Rated(Joined(ParseInverterLine(row), limits, events, list), T)
<1> DEFINE inv == ParseInverterLine(row)
           out == Joined(inv, limits, events, list)
<1>1. DOMAIN inv = {"uid", "online", "type", "freq", "temp", "vac", "pac", "tail", "phase",
                    "model", "limit", "events"}
  BY DEF ParseInverterLine
<1> HIDE DEF inv
<1> DEFINE a == IF inv.uid \in DOMAIN Listed(list) THEN Listed(list)[inv.uid].phase ELSE 0
           b == IF inv.uid \in DOMAIN Listed(list) THEN Listed(list)[inv.uid].model ELSE 0
           c == IF inv.uid \in DOMAIN limits THEN limits[inv.uid] ELSE 0
           d == IF inv.uid \in DOMAIN events THEN EventBits(events[inv.uid]) ELSE {}
<1>2. out = [inv EXCEPT !.phase = a, !.model = b, !.limit = c, !.events = d]
  BY DEF Joined
<1>3. c \in T
  <2>1. CASE inv.uid \in DOMAIN limits
    BY <2>1 DEF CapsFrom
  <2>2. CASE inv.uid \notin DOMAIN limits
    BY <2>2
  <2>3. QED
    BY <2>1, <2>2
<1> HIDE DEF out, a, b, c, d
<1>4. DOMAIN out = DOMAIN inv /\ out.limit = c
  BY <1>1, <1>2
<1>5. QED
  BY <1>1, <1>3, <1>4 DEF Rated, out, inv

\* Every step preserves it.
LEMMA NextCaps ==
    ASSUME NEW T, 0 \in T, \A w \in DOMAIN Worlds : CapsFrom(Worlds[w].limits, T),
           PublishInv, CapsInv(T), [Next]_vars
    PROVE  CapsInv(T)'
<1>1. CASE Change
  BY <1>1 DEF Change, CapsInv, Published
<1>2. CASE StartRefresh
  BY <1>2 DEF StartRefresh, CapsInv, Published
<1>3. CASE ReadParams
  BY <1>3 DEF ReadParams, CapsInv, Published
<1>4. CASE FailParams
  BY <1>4 DEF FailParams, CapsInv, Published
<1>5. CASE Query
  <2>1. PICK rows \in {Now[pc], NoRows} : got' = [got EXCEPT ![pc] = rows]
    BY <1>5 DEF Query
  <2>2. pc \in {"limits", "events", "list", "prot"} /\ pc' \in {"events", "list", "prot", "publish"}
    BY <1>5 DEF Query, After
  <2>3. DOMAIN got = {"capacity", "file", "limits", "events", "list", "prot"}
    BY DEF PublishInv, GotInv
  <2>4. CapsFrom(got'.limits, T)
    <3>1. CASE pc = "limits"
      <4>1. got'.limits = rows
        BY <2>1, <2>3, <3>1
      <4>2. CapsFrom(NoRows, T)
        BY DEF CapsFrom, NoRows
      <4>3. CapsFrom(Now.limits, T)
        BY DEF PublishInv, Now
      <4>4. QED
        BY <2>1, <3>1, <4>1, <4>2, <4>3
    <3>2. CASE pc # "limits"
      <4>1. got'.limits = got.limits
        BY <2>1, <2>2, <2>3, <3>2
      <4>2. QED
        BY <2>2, <3>2, <4>1 DEF CapsInv
    <3>3. QED
      BY <3>1, <3>2
  <2>5. QED
    BY <1>5, <2>4 DEF Query, CapsInv, Published
<1>6. CASE Publish
  <2>1. CapsFrom(got.limits, T)
    BY <1>6 DEF Publish, CapsInv
  <2>2. snap'.invs = [j \in DOMAIN got.file.rows |->
            Joined(ParseInverterLine(got.file.rows[j]), got.limits, got.events, got.list)]
    BY <1>6 DEF Publish, Snapshot
  <2>3. \A j \in DOMAIN snap'.invs : Rated(snap'.invs[j], T)
    BY <2>1, <2>2, JoinedCap
  <2>4. QED
    BY <1>6, <2>3 DEF Publish, CapsInv
<1>7. CASE UNCHANGED vars
  BY <1>7 DEF vars, CapsInv, Published
<1>8. QED
  BY <1>1, <1>2, <1>3, <1>4, <1>5, <1>6, <1>7 DEF Next

\* It holds before the first refresh.
LEMMA InitCaps ==
    ASSUME NEW T PROVE Init => CapsInv(T)
BY DEF Init, CapsInv, Published

\* The caps in the power table are watts,
CapsAreWatts == \A w \in DOMAIN Worlds : CapsFrom(Worlds[w].limits, Nat)

\* or watts that a write of Model 123 could have put there, or none.
CapsAreSettable == \A w \in DOMAIN Worlds : CapsFrom(Worlds[w].limits, 0 .. MaxPanelLimitW)

\* The units besides the fleet's are those of its inverters.
LEMMA UnitsAre ==
    ASSUME PublishInv, Published
    PROVE  \E n \in Nat : /\ n <= 254 /\ IsSeq(snap.invs, n)
                          /\ Units = {1 + j : j \in 1 .. n} /\ 1 \in DOMAIN banks
<1>1. PICK pick \in Picks(snap) : banks = BuildBanks(snap, pick, Untracked)
  BY DEF PublishInv, BanksInv
<1>2. PICK n \in Nat : n <= 254 /\ IsSeq(snap.invs, n)
  BY DEF PublishInv, BanksInv, Fits
<1>3. DOMAIN snap.invs = 1 .. n
  BY <1>2 DEF IsSeq
<1>4. \A j \in 1 .. n : Unit(j) = 1 + j
  BY <1>2 DEF Unit
<1>5. DOMAIN banks = {1} \cup {1 + j : j \in 1 .. n}
  BY <1>1, <1>3, <1>4 DEF BuildBanks
<1>6. Units = {1 + j : j \in 1 .. n}
  BY <1>5 DEF Units
<1>7. QED
  BY <1>2, <1>5, <1>6

\* What a unit's Model 123 shows.
LEMMA UnitCapShown ==
    ASSUME PublishInv, NEW u \in Units
    PROVE  /\ u - 1 \in DOMAIN snap.invs
           /\ Point(banks[u], 123, Rules!OffPct) = InvCapPct(snap.invs[u - 1])
           /\ Point(banks[u], 123, Rules!OffEna) = Bool(Capped(snap.invs[u - 1]))
<1> DEFINE inv == snap.invs[u - 1]
<1>1. u \in DOMAIN banks /\ u # 1
  BY DEF Units
<1>2. PICK n \in Nat : EncodesSnapshot(u, n)
  BY <1>1, EachBank
<1>3. u - 1 \in DOMAIN snap.invs
  BY <1>1, <1>2 DEF EncodesSnapshot, IsSeq
<1>4. PICK row : banks[u] = EncodePerInverter(inv, u, row, Untracked[u])
  BY <1>1, <1>2 DEF EncodesSnapshot
<1> HIDE DEF inv
<1>5. Shows(banks[u], UnitControls(inv), FreqDroop(row, Untracked[u]), FreqWattCurve(row))
  BY <1>4, UnitShows
<1>6. UnitControls(inv)[6] = InvCapPct(inv) /\ UnitControls(inv)[10] = Bool(Capped(inv))
  BY ControlsHold DEF UnitControls
<1>7. QED
  BY <1>3, <1>5, <1>6 DEF Shows, inv

\* What the fleet's Model 123 shows.
LEMMA FleetCapShown ==
    ASSUME PublishInv, Published, NEW n \in Nat, IsSeq(snap.invs, n), n > 0
    PROVE  /\ Point(banks[1], 123, Rules!OffPct) = Total([j \in 1 .. n |-> InvCapPct(snap.invs[j])]) \div n
           /\ (Point(banks[1], 123, Rules!OffEna) = 1) <=> (\E j \in 1 .. n : Capped(snap.invs[j]))
<1>1. 1 \in DOMAIN banks
  BY UnitsAre
<1>2. PICK k \in Nat : EncodesSnapshot(1, k)
  BY <1>1, EachBank
<1>3. PICK pick \in Picks(snap) : banks[1] = Encode(snap, pick, Untracked[1])
  BY <1>2 DEF EncodesSnapshot
<1>4. k <= 254 /\ IsSeq(snap.invs, k)
  BY <1>2 DEF EncodesSnapshot
<1>5. Shows(banks[1], FleetControls(snap), FreqDroop(pick.droop, Untracked[1]), FreqWattCurve(pick.curve))
  BY <1>3, <1>4, FleetShows
<1>6. snap.invs # << >> /\ Len(snap.invs) = n /\ DOMAIN snap.invs = 1 .. n
  BY DEF IsSeq
<1> DEFINE total == SumOver(snap.invs, InvCapPct)
           some == \E j \in DOMAIN snap.invs : Capped(snap.invs[j])
           on == Bool(\E j \in DOMAIN snap.invs : snap.invs[j].online)
<1>7. total = Total([j \in 1 .. n |-> InvCapPct(snap.invs[j])])
  BY <1>6 DEF SumOver
<1>8. FleetControls(snap) = Controls(total \div n, Bool(some), on)
  BY <1>6 DEF FleetControls
<1> HIDE DEF total, some, on
<1>9. FleetControls(snap)[6] = total \div n /\ FleetControls(snap)[10] = Bool(some)
  BY <1>8, ControlsHold
<1>10. (Bool(some) = 1) <=> some
  BY DEF Bool
<1>11. QED
  BY <1>5, <1>6, <1>7, <1>9, <1>10 DEF Shows, some

\* The invariants imply the property.
LEMMA FleetCapStep ==
    ASSUME PublishInv, CapsInv(Nat) PROVE FleetCapCoversUnits
<1> SUFFICES ASSUME Published, Units # {}
             PROVE  /\ (Point(banks[1], 123, Rules!OffEna) = 1)
                           = (\E u \in Units : Point(banks[u], 123, Rules!OffEna) = 1)
                    /\ (Point(banks[1], 123, Rules!OffPct) = 100)
                           = ~(\E u \in Units : Point(banks[u], 123, Rules!OffPct) # 100)
  BY DEF FleetCapCoversUnits, SomeUnit
<1>1. PICK n \in Nat : n <= 254 /\ IsSeq(snap.invs, n) /\ Units = {1 + j : j \in 1 .. n}
  BY UnitsAre
<1>2. n > 0 /\ DOMAIN snap.invs = 1 .. n
  BY <1>1 DEF IsSeq
<1> DEFINE v == [j \in 1 .. n |-> InvCapPct(snap.invs[j])]
<1>3. \A j \in 1 .. n : v[j] \in 0 .. 100
  <2>1. ASSUME NEW j \in 1 .. n PROVE InvCapPct(snap.invs[j]) \in 0 .. 100
    <3>1. snap.invs[j].limit \in Nat
      BY <1>2 DEF CapsInv, Rated
    <3>2. QED
      BY <3>1, PctIs
  <2>2. QED
    BY <2>1
<1>4. IsSeq(v, n)
  BY DEF IsSeq
<1>5. ASSUME NEW j \in 1 .. n
      PROVE  /\ Point(banks[1 + j], 123, Rules!OffPct) = v[j]
             /\ (Point(banks[1 + j], 123, Rules!OffEna) = 1) <=> Capped(snap.invs[j])
  <2>1. 1 + j \in Units /\ (1 + j) - 1 = j
    BY <1>1
  <2>2. /\ Point(banks[1 + j], 123, Rules!OffPct) = InvCapPct(snap.invs[j])
        /\ Point(banks[1 + j], 123, Rules!OffEna) = Bool(Capped(snap.invs[j]))
    BY <2>1, UnitCapShown
  <2>3. QED
    BY <2>2 DEF Bool
<1>6. /\ Point(banks[1], 123, Rules!OffPct) = Total(v) \div n
      /\ (Point(banks[1], 123, Rules!OffEna) = 1) <=> (\E j \in 1 .. n : Capped(snap.invs[j]))
  BY <1>1, <1>2, FleetCapShown
<1> HIDE DEF v
<1>7. (Total(v) \div n = 100) <=> (\A j \in 1 .. n : v[j] = 100)
  <2> DEFINE t == Total(v)
             q == t \div n
  <2>1. t \in 0 .. 100 * n /\ ((t = 100 * n) <=> (\A j \in 1 .. n : v[j] = 100))
    <3> DEFINE b == 100
    <3>1. b \in Nat /\ \A j \in 1 .. n : v[j] \in 0 .. b
      BY <1>3
    <3> HIDE DEF b
    <3>2. t \in 0 .. b * n /\ ((t = b * n) <=> (\A j \in 1 .. n : v[j] = b))
      BY <1>4, <3>1, TotalBounded
    <3>3. QED
      BY <3>2 DEF b
  <2> HIDE DEF t
  <2>2. q \in Nat /\ n * q <= t /\ t < n * q + n
    BY <1>2, <2>1, Divides
  <2> HIDE DEF q
  <2>3. q = 100 => t = 100 * n
    BY <2>1, <2>2
  <2>4. t = 100 * n => q = 100
    <3> SUFFICES ASSUME t = 100 * n PROVE q = 100
      OBVIOUS
    <3>1. q >= 100 /\ q <= 100
      <4>1. t \in Nat /\ n * 100 <= t /\ t <= n * 100
        BY <2>1
      <4>2. QED
        BY <1>2, <4>1, Fitting, NoMore DEF q
    <3>2. QED
      BY <2>2, <3>1
  <2>5. QED
    BY <2>1, <2>3, <2>4 DEF t, q
<1>8. (\E u \in Units : Point(banks[u], 123, Rules!OffEna) = 1)
          <=> (\E j \in 1 .. n : Capped(snap.invs[j]))
  BY <1>1, <1>5
<1>9. (\E u \in Units : Point(banks[u], 123, Rules!OffPct) # 100)
          <=> ~(\A j \in 1 .. n : v[j] = 100)
  BY <1>1, <1>5
<1>10. QED
  BY <1>6, <1>7, <1>8, <1>9

\* The fleet's Model 123 never hides the cap of one of its inverters.
THEOREM FleetCapCorrect == SmallFleets /\ CapsAreWatts /\ Spec => []FleetCapCoversUnits
<1> SUFFICES ASSUME SmallFleets, CapsAreWatts PROVE Spec => []FleetCapCoversUnits
  OBVIOUS
<1>1. Spec => []PublishInv
  BY Invariance
<1>2. Init => CapsInv(Nat)
  BY InitCaps
<1>3. PublishInv /\ CapsInv(Nat) /\ [Next]_vars => CapsInv(Nat)'
  BY NextCaps DEF CapsAreWatts
<1>4. PublishInv /\ CapsInv(Nat) => FleetCapCoversUnits
  BY FleetCapStep
<1>5. QED
  BY <1>1, <1>2, <1>3, <1>4, PTL DEF Spec

\* The invariants imply the property.
LEMMA WriteBackStep ==
    ASSUME PublishInv, CapsInv(0 .. MaxPanelLimitW) PROVE WriteBackNeverTightens
<1> SUFFICES ASSUME NEW u \in Units
             PROVE  LET inv == snap.invs[u - 1]
                        pct == Point(banks[u], 123, Rules!OffPct)
                    IN  NameplateW(inv) \in 1 .. MaxPanelLimitW * PanelCount(inv) =>
                            /\ Rules!PanelWatts(pct) > Cap(inv) - 5
                            /\ InvCapPct([inv EXCEPT !.limit = Rules!PanelWatts(pct)]) >= pct
  BY DEF WriteBackNeverTightens
<1> DEFINE inv == snap.invs[u - 1]
           pct == Point(banks[u], 123, Rules!OffPct)
           w == Rules!PanelWatts(pct)
           back == [inv EXCEPT !.limit = w]
<1>1. SUFFICES ASSUME NameplateW(inv) \in 1 .. 500 * PanelCount(inv)
               PROVE  w > Cap(inv) - 5 /\ InvCapPct(back) >= pct
  BY DEF MaxPanelLimitW
<1>2. pct = InvCapPct(inv) /\ u - 1 \in DOMAIN snap.invs
  BY UnitCapShown
<1>3. Rated(inv, 0 .. MaxPanelLimitW)
  <2>1. Published
    BY DEF Units, Published
  <2>2. QED
    BY <1>2, <2>1 DEF CapsInv
<1> HIDE DEF inv
<1>4. inv.limit \in Nat /\ inv.limit <= 500 /\ {"type", "model", "limit"} \subseteq DOMAIN inv
  <2>1. MaxPanelLimitW = 500 /\ MaxPanelLimitW \in Nat
    BY DEF MaxPanelLimitW
  <2>2. inv.limit \in 0 .. MaxPanelLimitW /\ {"type", "model", "limit"} \subseteq DOMAIN inv
    BY <1>3 DEF Rated
  <2>3. QED
    BY <2>1, <2>2
<1>5. pct \in 0 .. 100
  BY <1>2, <1>4, PctIs
<1> HIDE DEF pct
<1>6. w = (IF 5 * pct < 20 THEN 20 ELSE 5 * pct) /\ w \in Nat \ {0}
  BY <1>5 DEF Rules!PanelWatts, Rules!MaxPanelLimitW, Rules!MinPanelLimitW
<1> HIDE DEF w
<1>7. w > Cap(inv) - 5
  <2>1. pct = 100 \/ Cap(inv) < 5 * pct + 5
    BY <1>1, <1>2, <1>4, PctOf
  <2>2. Cap(inv) \in Nat /\ Cap(inv) <= 500
    BY <1>4, CapIs
  <2>3. QED
    BY <1>5, <1>6, <2>1, <2>2
<1>8. back.limit = w /\ back.type = inv.type /\ back.model = inv.model
  BY <1>4
<1> HIDE DEF back
<1>9. NameplateW(back) = NameplateW(inv) /\ PanelCount(back) = PanelCount(inv) /\ Cap(back) = w
  BY <1>6, <1>8 DEF NameplateW, PanelCount, Cap
<1>10. pct <= InvCapPct(back)
  <2>1. back.limit \in Nat /\ NameplateW(back) \in 1 .. 500 * PanelCount(back) /\ 5 * pct <= Cap(back)
    BY <1>1, <1>5, <1>6, <1>8, <1>9
  <2>2. QED
    BY <1>5, <2>1, PctOf
<1>11. QED
  BY <1>4, <1>5, <1>7, <1>8, <1>9, <1>10, PctIs, <1>6

\* A client that writes back the percentage it read never tightens the cap,
\* for any rating, cap and number of panels.
THEOREM WriteBackCorrect == SmallFleets /\ CapsAreSettable /\ Spec => []WriteBackNeverTightens
<1> SUFFICES ASSUME SmallFleets, CapsAreSettable PROVE Spec => []WriteBackNeverTightens
  OBVIOUS
<1>1. Spec => []PublishInv
  BY Invariance
<1> DEFINE T == 0 .. MaxPanelLimitW
<1>2. 0 \in T /\ \A w \in DOMAIN Worlds : CapsFrom(Worlds[w].limits, T)
  BY DEF CapsAreSettable, MaxPanelLimitW
<1>3. PublishInv /\ CapsInv(T) => WriteBackNeverTightens
  BY WriteBackStep
<1> HIDE DEF T
<1>4. Init => CapsInv(T)
  BY InitCaps
<1>5. PublishInv /\ CapsInv(T) /\ [Next]_vars => CapsInv(T)'
  BY <1>2, NextCaps
<1>6. QED
  BY <1>1, <1>3, <1>4, <1>5, PTL DEF Spec
=============================================================================
