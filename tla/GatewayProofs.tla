--------------------------- MODULE GatewayProofs ---------------------------
(***************************************************************************)
(* Proofs about Gateway, for any clients, configurations, inverters,       *)
(* fleets and frames: type correctness, that a server whose writes are off *)
(* leaves the tables alone, that no write lands in a model it was not      *)
(* meant for, that the handlers implement Device and, where inverters join *)
(* and leave at the end of the fleet, that a write stays at its inverter   *)
(* and is stored as it was meant.                                          *)
(***************************************************************************)
EXTENDS Gateway, TLAPS

----------------------------------------------------------------------------
(* The rules of a write.                                                   *)

\* A percentage is clamped into the caps a panel can be given.
LEMMA PanelWattsRange ==
    ASSUME NEW pct \in Nat
    PROVE  PanelWatts(pct) \in MinPanelLimitW .. MaxPanelLimitW
BY DEF PanelWatts, MinPanelLimitW, MaxPanelLimitW

LEMMA WordIsNat == Word \subseteq Nat
BY DEF Word

LEMMA RegisterIsWord ==
    ASSUME NEW s \in Seq(Word), NEW k \in 1 .. Len(s)
    PROVE  s[k] \in Word /\ s[k] \in Nat
<1>1. s[k] \in Word
  OBVIOUS
<1> QED
  BY <1>1, WordIsNat

\* A field of a write is a register, written or not.
LEMMA FieldRange ==
    ASSUME NEW r, r.regs \in Seq(Word), r.off \in Int, NEW off \in Nat
    PROVE  ReadField(r, off) \in Word
<1> DEFINE k == off - r.off + 1
<1>1. CASE WriteTouches(r, off)
  <2>1. k \in 1 .. Len(r.regs)
    BY <1>1 DEF WriteTouches
  <2>2. r.regs[k] \in Word
    BY <2>1, RegisterIsWord
  <2> QED
    BY <1>1, <2>2 DEF ReadField
<1>2. CASE ~WriteTouches(r, off)
  BY <1>2 DEF ReadField, Word
<1> QED
  BY <1>1, <1>2

\* Where the registers of a parameter begin, and that a second one is the next.
LEMMA FirstRegister ==
    ASSUME NEW p \in Param
    PROVE  LET first == CHOOSE o \in Registers[p] : \A q \in Registers[p] : o <= q
           IN  /\ first \in Registers[p] /\ first \in Nat
               /\ Registers[p] = {first} \/ Registers[p] = {first, first + 1}
<1> DEFINE IsFirst(o) == o \in Registers[p] /\ \A q \in Registers[p] : o <= q
<1>1. \E o : IsFirst(o)
  BY DEF Param, Droop, Curve, Registers
<1>2. \A o : IsFirst(o) =>
           o \in Nat /\ (Registers[p] = {o} \/ Registers[p] = {o, o + 1})
  BY DEF Param, Droop, Curve, Registers
<1>3. IsFirst(CHOOSE o \in Registers[p] : \A q \in Registers[p] : o <= q)
  BY <1>1
<1> QED
  BY <1>2, <1>3

\* The value of a parameter all of whose registers are written is a number.
LEMMA CarriedRange ==
    ASSUME NEW p \in Param, NEW off \in Int, NEW regs \in Seq(Word),
           Registers[p] \subseteq Touched(off, Len(regs))
    PROVE  Carried(off, regs, p) \in Nat
<1> DEFINE first == CHOOSE o \in Registers[p] : \A q \in Registers[p] : o <= q
<1>1. /\ first \in Registers[p] /\ first \in Nat
      /\ Registers[p] = {first} \/ Registers[p] = {first, first + 1}
  BY FirstRegister
<1>2. Carried(off, regs, p) =
          IF Registers[p] = {first} THEN regs[first - off + 1]
          ELSE 65536 * regs[first - off + 1] + regs[first - off + 2]
  BY DEF Carried
<1> HIDE DEF first
<1>3. Len(regs) \in Nat
  OBVIOUS
<1>4. first - off + 1 \in 1 .. Len(regs)
  BY <1>1, <1>3 DEF Touched
<1>5. ASSUME Registers[p] # {first} PROVE first - off + 2 \in 1 .. Len(regs)
  <2>1. first + 1 \in Touched(off, Len(regs))
    BY <1>1, <1>5
  <2> QED
    BY <2>1, <1>1, <1>3, <1>4 DEF Touched
<1>6. regs[first - off + 1] \in Nat
  BY <1>4, RegisterIsWord
<1>7. ASSUME Registers[p] # {first} PROVE regs[first - off + 2] \in Nat
  BY <1>5, <1>7, RegisterIsWord
<1> QED
  BY <1>2, <1>6, <1>7

\* What clients may write of the two models, register by register.
LEMMA WritableRegisters ==
    /\ Writable(711) = {0, 1, 12, 13, 16, 18, 19}
    /\ Writable(134) = {11, 13, 15, 17}
<1> DEFINE Of(ps) == UNION {Registers[p] : p \in ps}
<1>1. /\ {q \in Param : Model(q) = 711} = Droop
      /\ {q \in Param : Model(q) = 134} = Curve
  BY DEF Param, Model, Droop, Curve
<1>2. Of(Droop) = {0, 12, 13, 16, 18, 19}
  BY DEF Registers, Droop
<1>3. Of(Curve) = {11, 13, 15, 17}
  BY DEF Registers, Curve
<1>4. Writable(711) = Of({q \in Param : Model(q) = 711}) \cup {AdptCtlReq}
  BY DEF Writable
<1>5. Writable(134) = Of({q \in Param : Model(q) = 134}) \cup {}
  BY DEF Writable
<1> HIDE DEF Of
<1>6. Writable(711) = Of(Droop) \cup {AdptCtlReq} /\ Writable(134) = Of(Curve) \cup {}
  BY <1>1, <1>4, <1>5
<1> QED
  BY <1>2, <1>3, <1>6 DEF AdptCtlReq

\* Between any two parameters of a model lies a register that is read-only, so
\* a write that is accepted names at most one: there is no write of which one
\* half is queued and the other fails.
LEMMA OneParameter ==
    ASSUME NEW model \in {711, 134}, NEW off \in Int, NEW n \in Nat,
           Touched(off, n) \subseteq Writable(model),
           NEW p \in Named(model, Touched(off, n)),
           NEW q \in Named(model, Touched(off, n))
    PROVE  p = q
<1> DEFINE T == Touched(off, n)
<1>1. /\ p \in Param /\ Model(p) = model /\ Registers[p] \subseteq T
      /\ q \in Param /\ Model(q) = model /\ Registers[q] \subseteq T
  BY DEF Named
<1>2. \A a, b \in T : \A x \in Int : a < x /\ x < b => x \in T
  BY DEF Touched
<1>3. CASE model = 711
  <2>1. 2 \notin T /\ 14 \notin T /\ 17 \notin T
    BY <1>3, WritableRegisters
  <2>2. p \in Droop /\ q \in Droop
    BY <1>1, <1>3 DEF Model
  <2> HIDE DEF T
  <2> QED
    BY <1>1, <1>2, <2>1, <2>2 DEF Droop, Registers
<1>4. CASE model = 134
  <2>1. 12 \notin T /\ 14 \notin T /\ 16 \notin T
    BY <1>4, WritableRegisters
  <2>2. p \in Curve /\ q \in Curve
    BY <1>1, <1>4 DEF Model, Param
  <2> HIDE DEF T
  <2> QED
    BY <1>1, <1>2, <2>1, <2>2 DEF Curve, Registers
<1> QED
  BY <1>3, <1>4

----------------------------------------------------------------------------
(* Type correctness.                                                       *)

\* A handler that has a write: what it is, and where it arrives.
LEMMA JobType ==
    ASSUME TypeOK, NEW c \in Client, ~Ready(c)
    PROVE  /\ job[c].frame \in Frames
           /\ job[c].shown \in Layouts
           /\ job[c].view \in View \cup {NoView}
           /\ scan[c] \in Fleets
<1>1. job[c] \in Job
  BY DEF TypeOK
<1>2. scan[c] \in Fleets
  BY DEF TypeOK
<1> QED
  BY <1>1, <1>2 DEF Job

LEMMA FrameType ==
    ASSUME NEW f \in Frames
    PROVE  /\ f.unit \in 0 .. 255
           /\ f.model \in {123, 703, 711, 134}
           /\ f.off \in Nat
           /\ f.regs \in Seq(Word)
           /\ Len(f.regs) \in 1 .. 123
           /\ BodyStart("fleet", f.model) + f.off + Len(f.regs) <= 65536
BY FramesAssumption DEF Frame

\* The places of the bodies, as numbers.
LEMMA Places ==
    /\ BodyStart("fleet", 123) = 40296 /\ BodyStart("unit", 123) = 40264
    /\ BodyStart("fleet", 703) = 40500 /\ BodyStart("unit", 703) = 40468
    /\ BodyStart("fleet", 711) = 40519 /\ BodyStart("unit", 711) = 40487
    /\ BodyStart("fleet", 134) = 40543 /\ BodyStart("unit", 134) = 40511
BY DEF BodyStart, Base16

LEMMA LayoutType == ASSUME NEW fl, NEW u PROVE LayoutOf(fl, u) \in Layouts
BY DEF LayoutOf, Layouts

LEMMA AddressType ==
    ASSUME TypeOK, NEW c \in Client, ~Ready(c)
    PROVE  /\ Addr(c) \in Nat /\ Count(c) \in 1 .. 123
           /\ Addr(c) + Count(c) <= 65536
           /\ ModelHit(c) # 0 => OffsetHit(c) \in Int
<1>1. /\ job[c].frame \in Frames /\ job[c].shown \in Layouts
  BY JobType
<1> DEFINE f == job[c].frame
<1>2. /\ f.model \in {123, 703, 711, 134} /\ f.off \in Nat
      /\ Len(f.regs) \in 1 .. 123
      /\ BodyStart("fleet", f.model) + f.off + Len(f.regs) <= 65536
  BY <1>1, FrameType
<1>3. Aimed(c) \in Layouts
  BY LayoutType DEF Aimed
<1> HIDE DEF f
<1>4. Addr(c) = BodyStart(Aimed(c), f.model) + f.off /\ Count(c) = Len(f.regs)
  BY DEF Addr, Count, f
<1>5. Addr(c) \in Nat /\ Count(c) \in 1 .. 123 /\ Addr(c) + Count(c) <= 65536
  <2>1. /\ BodyStart(Aimed(c), f.model) \in Nat /\ BodyStart("fleet", f.model) \in Nat
        /\ BodyStart(Aimed(c), f.model) <= BodyStart("fleet", f.model)
    BY <1>2, <1>3, Places DEF Layouts
  <2> DEFINE here == BodyStart(Aimed(c), f.model)
             there == BodyStart("fleet", f.model)
             n == Len(f.regs)
  <2>2. here \in Nat /\ there \in Nat /\ here <= there /\ n \in 1 .. 123 /\ f.off \in Nat
        /\ there + f.off + n <= 65536 /\ Addr(c) = here + f.off /\ Count(c) = n
    BY <2>1, <1>2, <1>4
  <2> HIDE DEF here, there, n
  <2> QED
    BY <2>2
<1>6. ModelHit(c) \in {0, 123, 703, 711, 134}
  BY DEF ModelHit, Candidate
<1>7. ASSUME ModelHit(c) # 0 PROVE OffsetHit(c) \in Int
  BY <1>1, <1>5, <1>6, <1>7, Places DEF OffsetHit, Layouts
<1> QED
  BY <1>5, <1>7

LEMMA InverterType ==
    ASSUME TypeOK, NEW c \in Client, ~Ready(c), job[c].view # NoView, Mapped(c)
    PROVE  InverterOf(c) \in Inverter
<1>1. job[c].view.fleet \in Seq(Inverter)
  BY JobType, FleetsAssumption DEF View
<1>2. job[c].view.fleet[job[c].frame.unit - 1] \in Inverter
  BY <1>1 DEF Mapped
<1> QED
  BY <1>2 DEF InverterOf

LEMMA RowType ==
    ASSUME TypeOK, NEW c \in Client, ~Ready(c), job[c].view # NoView, Mapped(c)
    PROVE  RowOf(c) \in Row
BY InverterType, TablesAssumption DEF RowOf, Row

\* What a grid model queues: the value of a parameter that passed.
LEMMA ValueType ==
    ASSUME NEW row \in Row, NEW p \in Param, NEW v \in Nat
    PROVE  ValueOf(row, p, v) \in Nat
BY DEF ValueOf, ModeDisabled, ModeASNZS, ModeOther, Nominal

LEMMA QueuedType ==
    ASSUME TypeOK, NEW c \in Client, ~Ready(c), job[c].view # NoView, GridAccepts(c),
           ModelHit(c) \in {711, 134},
           NEW p \in Named(ModelHit(c), Touched(OffsetHit(c), Count(c)))
    PROVE  /\ p \in Param /\ Model(p) = ModelHit(c)
           /\ Carried(OffsetHit(c), job[c].frame.regs, p) \in Nat
           /\ ValueOf(RowOf(c), p, Carried(OffsetHit(c), job[c].frame.regs, p)) \in Nat
<1>1. p \in Param /\ Model(p) = ModelHit(c) /\ Registers[p] \subseteq Touched(OffsetHit(c), Count(c))
  BY DEF Named
<1>2. OffsetHit(c) \in Int /\ job[c].frame.regs \in Seq(Word)
  BY AddressType, JobType, FrameType
<1>3. Carried(OffsetHit(c), job[c].frame.regs, p) \in Nat
  BY <1>1, <1>2, CarriedRange DEF Count
<1>4. RowOf(c) \in Row
  BY RowType DEF GridAccepts
<1> QED
  BY <1>1, <1>3, <1>4, ValueType

\* The parts of the type invariant.
TablesType ==
    /\ cap \in [Inverter -> PanelLimit]
    /\ onoff \in [Inverter -> {"on", "off"}]
    /\ queue \in [Inverter \X Setting -> Nat \cup {Null}]

RefreshType ==
    /\ stage \in {"build", "banks", "snap"}
    /\ built \in IF stage = "build" THEN {NoView} ELSE Snapshot
    /\ banks \in Bank \cup {NoView}
    /\ snap \in View \cup {NoView}

ClientsType ==
    /\ scan \in [Client -> Fleets \cup {NoView}]
    /\ pc \in [Client -> {"idle", "snap", "apply", "acked"}]
    /\ job \in [Client -> Job \cup {NoJob}]
    /\ \A c \in Client : IF Ready(c) THEN job[c] = NoJob ELSE job[c] # NoJob /\ scan[c] # NoView

LEMMA TypeParts == TypeOK <=> config \in Configs /\ TablesType /\ RefreshType /\ ClientsType
BY DEF TypeOK, TablesType, RefreshType, ClientsType

LEMMA TypeInit == Init => TypeOK
<1> SUFFICES ASSUME Init PROVE TypeOK
  OBVIOUS
<1>1. config \in Configs /\ TablesType
  BY DEF Init, TablesType, PanelLimit, MinPanelLimitW, MaxPanelLimitW
<1>2. RefreshType
  BY DEF Init, RefreshType
<1>3. ClientsType
  BY DEF Init, ClientsType, Ready
<1> QED
  BY <1>1, <1>2, <1>3, TypeParts

LEMMA CapsReadType ==
    ASSUME TypeOK
    PROVE  CapsRead \in [Inverter -> Caps] /\ NoCaps \in [Inverter -> Caps]
<1>1. cap \in [Inverter -> PanelLimit]
  BY TypeParts DEF TablesType
<1>2. \A w \in PanelLimit : w \in Caps
  BY DEF PanelLimit, Caps, MinPanelLimitW, MaxPanelLimitW
<1>3. 0 \in Caps
  BY DEF Caps
<1>4. \A i \in Inverter : cap[i] \in Caps
  BY <1>1, <1>2
<1>5. CapsRead \in [Inverter -> Caps]
  BY <1>3, <1>4 DEF CapsRead
<1>6. NoCaps \in [Inverter -> Caps]
  BY <1>3 DEF NoCaps
<1> QED
  BY <1>5, <1>6

LEMMA TypeRefresh ==
    ASSUME TypeOK, RefreshStep
    PROVE  TypeOK'
<1>1. config \in Configs /\ TablesType /\ RefreshType /\ ClientsType
  BY TypeParts
<1>2. UNCHANGED <<config, tables, clients>>
  BY DEF RefreshStep, BuildComplete, BuildPartial, StoreBanks, StoreSnap
<1>3. (config \in Configs)' /\ TablesType' /\ ClientsType'
  BY <1>1, <1>2 DEF tables, clients, TablesType, ClientsType, Ready
<1>4. RefreshType'
  <2> USE CapsReadType
  <2>1. CASE BuildComplete
    <3>1. built' \in Snapshot
      BY <2>1 DEF BuildComplete, Snapshot
    <3> QED
      BY <1>1, <2>1, <3>1 DEF BuildComplete, RefreshType
  <2>2. CASE BuildPartial
    <3>1. PICK fleet \in Fleets, failed \in SUBSET Query, caps \in [Inverter -> Caps] :
              built' = [fleet |-> fleet, known |-> Query \ failed, cap |-> caps]
      BY <2>2, TablesAssumption DEF BuildPartial
    <3>2. built' \in Snapshot
      BY <3>1 DEF Snapshot
    <3> QED
      BY <1>1, <2>2, <3>2 DEF BuildPartial, RefreshType
  <2>3. CASE StoreBanks
    <3>1. built \in Snapshot
      BY <1>1, <2>3 DEF StoreBanks, RefreshType
    <3>2. banks' \in Bank
      BY <2>3, <3>1 DEF StoreBanks, Snapshot, Bank
    <3> QED
      BY <1>1, <2>3, <3>1, <3>2 DEF StoreBanks, RefreshType
  <2>4. CASE StoreSnap
    <3>1. built \in Snapshot
      BY <1>1, <2>4 DEF StoreSnap, RefreshType
    <3>2. snap' \in View
      BY <2>4, <3>1 DEF StoreSnap, Snapshot, View
    <3> QED
      BY <1>1, <2>4, <3>2 DEF StoreSnap, RefreshType
  <2> QED
    BY <2>1, <2>2, <2>3, <2>4 DEF RefreshStep
<1> QED
  BY <1>3, <1>4 DEF TypeOK, TablesType, RefreshType, ClientsType

LEMMA TypeClient ==
    ASSUME TypeOK, NEW c \in Client, Scan(c) \/ Receive(c) \/ LoadSnap(c)
    PROVE  TypeOK'
<1>1. config \in Configs /\ TablesType /\ RefreshType /\ ClientsType
  BY TypeParts
<1>2. UNCHANGED <<config, tables, refresh>>
  BY DEF Scan, Receive, LoadSnap
<1>3. (config \in Configs)' /\ TablesType' /\ RefreshType'
  BY <1>1, <1>2 DEF tables, refresh, TablesType, RefreshType
<1>4. ClientsType'
  <2>1. CASE Scan(c)
    <3>1. banks.fleet \in Fleets
      BY <1>1, <2>1 DEF Scan, RefreshType, Bank
    <3>2. banks.fleet # NoView
      BY <3>1, NoneAssumption
    <3> QED
      BY <1>1, <2>1, <3>1, <3>2 DEF Scan, ClientsType, Ready
  <2>2. CASE Receive(c)
    <3>1. PICK f \in Frames : job' = [job EXCEPT ![c] =
              [frame |-> f, shown |-> LayoutOf(banks.fleet, f.unit), view |-> NoView]]
      BY <2>2 DEF Receive
    <3> DEFINE j == [frame |-> f, shown |-> LayoutOf(banks.fleet, f.unit), view |-> NoView]
    <3>2. j \in Job
      BY LayoutType DEF Job
    <3>3. j # NoJob
      BY <3>2, NoneAssumption
    <3>4. job' = [job EXCEPT ![c] = j]
      BY <3>1
    <3> HIDE DEF j
    <3> QED
      BY <1>1, <2>2, <3>2, <3>3, <3>4 DEF Receive, ClientsType, Ready
  <2>3. CASE LoadSnap(c)
    <3> DEFINE j == [job[c] EXCEPT !.view = snap]
    <3>1. job[c] \in Job
      BY <1>1, <2>3 DEF LoadSnap, ClientsType, Ready
    <3>2. j \in Job
      BY <1>1, <3>1 DEF Job, RefreshType
    <3>3. j # NoJob
      BY <3>2, NoneAssumption
    <3>4. job' = [job EXCEPT ![c] = j]
      BY <2>3 DEF LoadSnap
    <3> HIDE DEF j
    <3> QED
      BY <1>1, <2>3, <3>2, <3>3, <3>4 DEF LoadSnap, ClientsType, Ready
  <2> QED
    BY <2>1, <2>2, <2>3
<1> QED
  BY <1>3, <1>4 DEF TypeOK, TablesType, RefreshType, ClientsType

LEMMA FinishType ==
    ASSUME TypeOK, NEW c \in Client, NEW reply \in {"idle", "acked"}, Finish(c, reply), TablesType'
    PROVE  TypeOK'
<1>1. config \in Configs /\ RefreshType /\ ClientsType
  BY TypeParts
<1>2. (config \in Configs)' /\ RefreshType'
  BY <1>1 DEF Finish, refresh, RefreshType
<1>3. ClientsType'
  BY <1>1 DEF Finish, ClientsType, Ready
<1> QED
  BY <1>2, <1>3 DEF TypeOK, TablesType, RefreshType, ClientsType

\* The fields of a write to Model 123, as the writer reads them.
LEMMA ReadType ==
    ASSUME TypeOK, NEW c \in Client, ~Ready(c), ModelHit(c) # 0, NEW off \in Nat
    PROVE  ReadField(AsRead(c), off) \in Word
<1>1. OffsetHit(c) \in Int /\ job[c].frame.regs \in Seq(Word)
  BY AddressType, JobType, FrameType
<1>2. AsRead(c).off = OffsetHit(c) /\ AsRead(c).regs = job[c].frame.regs
  BY DEF AsRead
<1> QED
  BY <1>1, <1>2, FieldRange

LEMMA CapType ==
    ASSUME TypeOK, NEW c \in Client, ~Ready(c), ModelHit(c) # 0
    PROVE  \E w \in PanelLimit : \A targets :
               NewCap(AsRead(c), targets) = [i \in Inverter |-> IF i \in targets \cap PowerRow THEN w ELSE cap[i]]
<1> DEFINE w == IF FirstStage(AsRead(c)) = "cancel" THEN MaxPanelLimitW
                ELSE PanelWatts(ReadField(AsRead(c), OffPct))
<1>1. ReadField(AsRead(c), OffPct) \in Nat
  BY ReadType, WordIsNat DEF OffPct
<1>2. PanelWatts(ReadField(AsRead(c), OffPct)) \in MinPanelLimitW .. MaxPanelLimitW
  BY <1>1, PanelWattsRange
<1>3. MaxPanelLimitW \in MinPanelLimitW .. MaxPanelLimitW
  BY DEF MinPanelLimitW, MaxPanelLimitW
<1>4. w \in PanelLimit
  BY <1>2, <1>3 DEF PanelLimit
<1>5. \A targets : NewCap(AsRead(c), targets) = [i \in Inverter |-> IF i \in targets \cap PowerRow THEN w ELSE cap[i]]
  BY DEF NewCap
<1> HIDE DEF w
<1> QED
  BY <1>4, <1>5

LEMMA TypeApplies ==
    ASSUME TypeOK, NEW c \in Client, Applies(c)
    PROVE  TypeOK'
<1>1. TablesType
  BY TypeParts
<1>2. CASE ApplyControls(c)
  <2>1. ~Ready(c) /\ ModelHit(c) # 0
    BY <1>2 DEF ApplyControls, Arrives, Ready
  <2>2. cap' \in [Inverter -> PanelLimit]
    <3>1. CASE cap' = cap
      BY <1>1, <3>1 DEF TablesType
    <3>2. CASE cap' = NewCap(AsRead(c), Targets(c))
      <4>1. PICK w \in PanelLimit :
                cap' = [i \in Inverter |-> IF i \in Targets(c) \cap PowerRow THEN w ELSE cap[i]]
        BY <2>1, <3>2, CapType
      <4>2. \A i \in Inverter : cap[i] \in PanelLimit
        BY <1>1 DEF TablesType
      <4> QED
        BY <4>1, <4>2
    <3> QED
      BY <1>2, <3>1, <3>2 DEF ApplyControls
  <2>3. onoff' \in [Inverter -> {"on", "off"}]
    <3>1. \A i \in Inverter : onoff[i] \in {"on", "off"}
      BY <1>1 DEF TablesType
    <3>2. NewOnOff(AsRead(c), Targets(c)) \in [Inverter -> {"on", "off"}]
      BY <3>1 DEF NewOnOff
    <3> QED
      BY <1>1, <1>2, <3>2 DEF ApplyControls, TablesType
  <2>4. TablesType' /\ Finish(c, "acked")
    BY <1>1, <1>2, <2>2, <2>3 DEF ApplyControls, TablesType
  <2> QED
    BY <2>4, FinishType
<1>3. CASE ApplyService(c)
  <2>1. ESDly(job[c].frame.regs) \in Nat
    BY <1>3 DEF ApplyService, ServiceAccepts, ServiceRefuses, ReconnectS
  <2>2. queue' \in [Inverter \X Setting -> Nat \cup {Null}]
    BY <1>1, <1>3, <2>1 DEF ApplyService, TablesType
  <2>3. TablesType' /\ Finish(c, "acked")
    BY <1>1, <1>3, <2>2 DEF ApplyService, TablesType
  <2> QED
    BY <2>3, FinishType
<1>4. CASE ApplyGrid(c)
  <2>1. /\ ~Ready(c) /\ job[c].view # NoView /\ GridAccepts(c) /\ ModelHit(c) \in {711, 134}
    BY <1>4 DEF ApplyGrid, Arrives, Ready
  <2> DEFINE named == NamedBy(c)
             Value(p) == ValueOf(RowOf(c), p, Carried(OffsetHit(c), job[c].frame.regs, p))
  <2>2. \A p \in named : Value(p) \in Nat
    BY <2>1, QueuedType DEF NamedBy
  <2>3. queue' = [key \in DOMAIN queue |->
            IF key[1] = InverterOf(c) /\ key[2] \in named THEN Value(key[2]) ELSE queue[key]]
    BY <1>4 DEF ApplyGrid
  <2> HIDE DEF named, Value
  <2>4. DOMAIN queue = Inverter \X Setting /\ \A key \in Inverter \X Setting : queue[key] \in Nat \cup {Null}
    BY <1>1 DEF TablesType
  <2>5. queue' \in [Inverter \X Setting -> Nat \cup {Null}]
    BY <2>2, <2>3, <2>4
  <2>6. TablesType' /\ Finish(c, "acked")
    BY <1>1, <1>4, <2>5 DEF ApplyGrid, TablesType
  <2> QED
    BY <2>6, FinishType
<1> QED
  BY <1>2, <1>3, <1>4 DEF Applies

LEMMA ViewType ==
    ASSUME TypeOK, NEW c \in Client, ~Ready(c), job[c].view # NoView
    PROVE  /\ job[c].view.fleet \in Fleets /\ job[c].view.fleet \in Seq(Inverter)
           /\ job[c].frame.unit \in Nat
<1>1. job[c].view \in View
  BY JobType
<1>2. job[c].view.fleet \in Fleets
  BY <1>1 DEF View
<1>3. job[c].frame.unit \in 0 .. 255
  BY JobType, FrameType
<1>4. job[c].frame.unit \in Nat
  BY <1>3
<1> QED
  BY <1>2, <1>4, FleetsAssumption

\* A write whose statements fail part-way gives some inverters of its unit one
\* cap, and some one switch.
LEMMA FailedControls ==
    ASSUME TypeOK, NEW c \in Client, FailControls(c)
    PROVE  /\ ~Ready(c) /\ job[c].view # NoView /\ Targets(c) # {} /\ Finish(c, "idle")
           /\ UNCHANGED queue
           /\ DOMAIN cap' = Inverter /\ DOMAIN onoff' = Inverter
           /\ \E w \in PanelLimit, s \in {"on", "off"} :
                  \A i \in Inverter :
                      /\ cap'[i] = cap[i] \/ (i \in Targets(c) /\ cap'[i] = w)
                      /\ onoff'[i] = onoff[i] \/ (i \in Targets(c) /\ onoff'[i] = s)
<1> DEFINE order == TargetUIDs(job[c].view.fleet, job[c].frame.unit)
           done(n) == {order[k] : k \in 1 .. n}
           s == IF ReadField(AsRead(c), OffConn) # 0 THEN "on" ELSE "off"
<1>1. /\ ~Ready(c) /\ ModelHit(c) # 0 /\ job[c].view # NoView
      /\ Finish(c, "idle") /\ UNCHANGED queue
  BY DEF FailControls, Arrives, Ready
<1>2. PICK n \in 0 .. Len(order) - 1 :
          \/ cap' = NewCap(AsRead(c), done(n)) /\ UNCHANGED onoff
          \/ /\ cap' = NewCap(AsRead(c), Targets(c)) \/ cap' = cap
             /\ onoff' = NewOnOff(AsRead(c), done(n))
  BY DEF FailControls
<1>3. Targets(c) = {order[k] : k \in 1 .. Len(order)}
  BY DEF Targets
<1>4. Len(order) \in Nat
  <2>1. job[c].view.fleet \in Seq(Inverter) /\ job[c].frame.unit \in Nat
    BY <1>1, ViewType
  <2> QED
    BY <2>1 DEF TargetUIDs
<1> HIDE DEF order
<1>5. \A k \in 1 .. n : k \in 1 .. Len(order)
  BY <1>2, <1>4
<1>6. 1 \in 1 .. Len(order)
  BY <1>2, <1>4
<1>7. done(n) \subseteq Targets(c) /\ Targets(c) # {}
  BY <1>3, <1>5, <1>6
<1> HIDE DEF done
<1>8. PICK w \in PanelLimit : \A T : NewCap(AsRead(c), T)
              = [i \in Inverter |-> IF i \in T \cap PowerRow THEN w ELSE cap[i]]
  BY <1>1, CapType
<1>9. cap \in [Inverter -> PanelLimit] /\ onoff \in [Inverter -> {"on", "off"}]
  BY TypeParts DEF TablesType
<1>10. /\ DOMAIN cap' = Inverter
       /\ \A i \in Inverter : cap'[i] = cap[i] \/ (i \in Targets(c) /\ cap'[i] = w)
  BY <1>2, <1>7, <1>8, <1>9
<1>11. NewOnOff(AsRead(c), done(n)) = [i \in Inverter |-> IF i \in done(n) THEN s ELSE onoff[i]]
  BY DEF NewOnOff
<1>12. s \in {"on", "off"}
  OBVIOUS
<1> HIDE DEF s
<1>13. /\ DOMAIN onoff' = Inverter
       /\ \A i \in Inverter : onoff'[i] = onoff[i] \/ (i \in Targets(c) /\ onoff'[i] = s)
  BY <1>2, <1>7, <1>9, <1>11
<1> QED
  BY <1>1, <1>7, <1>10, <1>12, <1>13

LEMMA TypeFailed ==
    ASSUME TypeOK, NEW c \in Client, FailControls(c)
    PROVE  TypeOK'
<1>1. TablesType
  BY TypeParts
<1>2. PICK w \in PanelLimit, s \in {"on", "off"} :
          \A i \in Inverter : /\ cap'[i] = cap[i] \/ cap'[i] = w
                              /\ onoff'[i] = onoff[i] \/ onoff'[i] = s
  BY FailedControls
<1>3. \A i \in Inverter : cap'[i] \in PanelLimit /\ onoff'[i] \in {"on", "off"}
  BY <1>1, <1>2 DEF TablesType
<1>4. /\ \/ cap' = cap
         \/ \E T : cap' = NewCap(AsRead(c), T)
      /\ onoff' = onoff \/ \E T : onoff' = NewOnOff(AsRead(c), T)
      /\ queue' = queue /\ Finish(c, "idle")
  BY DEF FailControls
<1>5. cap' \in [Inverter -> PanelLimit] /\ onoff' \in [Inverter -> {"on", "off"}]
  <2>1. cap' = [i \in Inverter |-> cap'[i]]
    BY <1>1, <1>4 DEF TablesType, NewCap
  <2>2. onoff' = [i \in Inverter |-> onoff'[i]]
    BY <1>1, <1>4 DEF TablesType, NewOnOff
  <2> QED
    BY <1>3, <2>1, <2>2
<1>6. TablesType'
  BY <1>1, <1>4, <1>5 DEF TablesType
<1> QED
  BY <1>4, <1>6, FinishType

LEMMA TypeRefuse ==
    ASSUME TypeOK, NEW c \in Client, Refuse(c)
    PROVE  TypeOK'
<1>1. TablesType' /\ Finish(c, "idle")
  BY TypeParts DEF Refuse, tables, TablesType
<1> QED
  BY <1>1, FinishType

LEMMA TypeNext ==
    ASSUME TypeOK, [Next]_vars
    PROVE  TypeOK'
<1>1. CASE RefreshStep
  BY <1>1, TypeRefresh
<1>2. ASSUME NEW c \in Client, Scan(c) \/ Receive(c) \/ LoadSnap(c) PROVE TypeOK'
  BY <1>2, TypeClient
<1>3. ASSUME NEW c \in Client, Applies(c) PROVE TypeOK'
  BY <1>3, TypeApplies
<1>4. ASSUME NEW c \in Client, Refuse(c) PROVE TypeOK'
  BY <1>4, TypeRefuse
<1>5. ASSUME NEW c \in Client, FailControls(c) PROVE TypeOK'
  BY <1>5, TypeFailed
<1>6. CASE UNCHANGED vars
  BY <1>6 DEF vars, tables, refresh, clients, TypeOK, Ready
<1> QED
  BY <1>1, <1>2, <1>3, <1>4, <1>5, <1>6 DEF Next

\* Type correctness: for any clients, inverters, fleets and writes, what is
\* stored, published and held by a handler has the kind its readers expect.
THEOREM TypeCorrect == Spec => []TypeOK
<1>1. Init => TypeOK
  BY TypeInit
<1>2. TypeOK /\ [Next]_vars => TypeOK'
  BY TypeNext
<1> QED
  BY <1>1, <1>2, PTL DEF Spec

----------------------------------------------------------------------------
(* The gate. Handlers write later than they were let in, so the invariant  *)
(* also says that nobody has been let in.                                  *)

Locked ==
    \/ config.enabled = "off"
    \/ \A c \in Client : Remote(c) /\ Host[c].addr \notin config.allowList

TablesAsFound ==
    /\ cap = [i \in Inverter |-> MaxPanelLimitW]
    /\ onoff = [i \in Inverter |-> "on"]
    /\ queue = [key \in Inverter \X Setting |-> Null]

NobodyIn == \A c \in Client : Ready(c)

GateInv == TypeOK /\ (Locked => TablesAsFound /\ NobodyIn)

LEMMA LockedRefuses ==
    ASSUME Locked, NEW c \in Client
    PROVE  ~AllowsWrite(config, Host[c])
BY DEF Locked, AllowsWrite, IsOn, Remote

LEMMA GateNext ==
    ASSUME GateInv, [Next]_vars
    PROVE  GateInv'
<1>1. TypeOK'
  BY TypeNext DEF GateInv
<1>2. config' = config
  BY DEF Next, vars, RefreshStep, BuildComplete, BuildPartial, StoreBanks, StoreSnap,
         Scan, Receive, LoadSnap, Applies, ApplyControls, ApplyService, ApplyGrid,
         FailControls, Refuse, Finish
<1>3. ASSUME Locked' PROVE TablesAsFound' /\ NobodyIn'
  <2>1. Locked /\ TablesAsFound /\ NobodyIn
    BY <1>2, <1>3 DEF GateInv, Locked, Remote
  <2>2. \A c \in Client : ~AllowsWrite(config, Host[c])
    BY <2>1, LockedRefuses
  <2>3. ASSUME NEW c \in Client
        PROVE  ~(Receive(c) \/ LoadSnap(c) \/ Applies(c) \/ FailControls(c) \/ Refuse(c))
    BY <2>1, <2>2 DEF NobodyIn, Ready, Receive, LoadSnap, Applies, ApplyControls, ApplyService,
                      ApplyGrid, FailControls, Arrives, Refuse
  <2>4. RefreshStep \/ (\E c \in Client : Scan(c)) \/ UNCHANGED vars
    BY <2>3 DEF Next
  <2>5. UNCHANGED <<tables, pc>>
    BY <2>4 DEF RefreshStep, BuildComplete, BuildPartial, StoreBanks, StoreSnap, Scan, vars, clients
  <2> QED
    BY <2>1, <2>5 DEF TablesAsFound, NobodyIn, Ready, tables
<1> QED
  BY <1>1, <1>3 DEF GateInv

\* A server whose writes are switched off never changes a table, whatever its
\* allow list says and wherever the client is; nor does one that no client may
\* write to. Clients, configurations and writes are arbitrary.
THEOREM UntouchedCorrect == Spec => []UntouchedUnlessAllowed
<1>1. Init => GateInv
  BY TypeInit DEF Init, GateInv, TablesAsFound, NobodyIn, Ready
<1>2. GateInv /\ [Next]_vars => GateInv'
  BY GateNext
<1>3. GateInv => UntouchedUnlessAllowed
  BY DEF GateInv, Locked, TablesAsFound, UntouchedUnlessAllowed
<1> QED
  BY <1>1, <1>2, <1>3, PTL DEF Spec

----------------------------------------------------------------------------
(* Refinement. Steps of a client or of the refresh loop that leave the     *)
(* tables alone are stutters of Device; the three writers take its steps.  *)

\* What a unit stands for is a group, if it stands for anything.
LEMMA TargetsAreAGroup ==
    ASSUME TypeOK, NEW c \in Client, ~Ready(c), job[c].view # NoView, Targets(c) # {}
    PROVE  Targets(c) \in Groups
<1> DEFINE fleet == job[c].view.fleet
           u == job[c].frame.unit
<1>1. fleet \in Fleets /\ fleet \in Seq(Inverter) /\ u \in Nat
  BY ViewType
<1>2. Targets(c) = {TargetUIDs(fleet, u)[n] : n \in 1 .. Len(TargetUIDs(fleet, u))}
  BY DEF Targets
<1> HIDE DEF fleet, u
<1>3. CASE u <= 1
  <2>1. TargetUIDs(fleet, u) = fleet
    BY <1>3 DEF TargetUIDs
  <2> QED
    BY <1>1, <1>2, <2>1 DEF Groups
<1>4. CASE u > 1 /\ u - 1 <= Len(fleet)
  <2>1. TargetUIDs(fleet, u) = << fleet[u - 1] >>
    BY <1>1, <1>4 DEF TargetUIDs
  <2>2. fleet[u - 1] \in Inverter
    BY <1>1, <1>4
  <2>3. Targets(c) = {fleet[u - 1]}
    BY <1>2, <2>1
  <2> QED
    BY <2>2, <2>3 DEF Groups
<1>5. CASE u > 1 /\ u - 1 > Len(fleet)
  <2>1. TargetUIDs(fleet, u) = << >>
    BY <1>1, <1>5 DEF TargetUIDs
  <2>2. Targets(c) = {}
    BY <1>2, <2>1
  <2> QED
    BY <2>2
<1> QED
  BY <1>1, <1>3, <1>4, <1>5

LEMMA TargetType ==
    ASSUME TypeOK, NEW c \in Client, ~Ready(c), job[c].view # NoView
    PROVE  \A i \in Targets(c) : i \in Inverter
<1> SUFFICES ASSUME Targets(c) # {} PROVE \A i \in Targets(c) : i \in Inverter
  OBVIOUS
<1>1. Targets(c) \in Groups
  BY TargetsAreAGroup
<1>2. \A fleet \in Fleets : {fleet[n] : n \in 1 .. Len(fleet)} \subseteq Inverter
  BY FleetsAssumption
<1> QED
  BY <1>1, <1>2 DEF Groups

\* All targets get one cap and one switch.
LEMMA ControlsImplement ==
    ASSUME TypeOK, NEW c \in Client, ApplyControls(c)
    PROVE  \E G \in Groups : D!Control(G)
<1>1. ~Ready(c) /\ ModelHit(c) # 0 /\ job[c].view # NoView /\ Targets(c) # {}
  BY DEF ApplyControls, Arrives, Ready
<1>2. Targets(c) \in Groups
  BY <1>1, TargetsAreAGroup
<1>3. PICK w \in PanelLimit :
          NewCap(AsRead(c), Targets(c))
              = [i \in Inverter |-> IF i \in Targets(c) \cap PowerRow THEN w ELSE cap[i]]
  BY <1>1, CapType
<1>4. \A i \in Inverter : \/ cap'[i] = cap[i]
                          \/ i \in Targets(c) /\ cap'[i] = w
  BY <1>3 DEF ApplyControls
<1> DEFINE s == IF ReadField(AsRead(c), OffConn) # 0 THEN "on" ELSE "off"
<1>5. \A i \in Inverter : \/ onoff'[i] = onoff[i]
                          \/ i \in Targets(c) /\ onoff'[i] = s
  BY DEF ApplyControls, NewOnOff
<1> HIDE DEF s
<1>6. UNCHANGED queue
  BY DEF ApplyControls
<1>7. \A i \in Targets(c) : i \in Inverter
  BY <1>1, TargetType
<1>8. D!Control(Targets(c))
  BY <1>4, <1>5, <1>6, <1>7 DEF D!Control, D!SameFor
<1> QED
  BY <1>2, <1>8

\* So do those that are reached before a statement fails.
LEMMA FailureImplements ==
    ASSUME TypeOK, NEW c \in Client, FailControls(c)
    PROVE  \E G \in Groups : D!Control(G)
<1>1. /\ ~Ready(c) /\ job[c].view # NoView /\ Targets(c) # {} /\ UNCHANGED queue
  BY FailedControls
<1>2. PICK w \in PanelLimit, s \in {"on", "off"} :
          \A i \in Inverter :
              /\ cap'[i] = cap[i] \/ (i \in Targets(c) /\ cap'[i] = w)
              /\ onoff'[i] = onoff[i] \/ (i \in Targets(c) /\ onoff'[i] = s)
  BY FailedControls
<1>3. Targets(c) \in Groups /\ \A i \in Targets(c) : i \in Inverter
  BY <1>1, TargetsAreAGroup, TargetType
<1>4. D!Control(Targets(c))
  BY <1>1, <1>2, <1>3 DEF D!Control, D!SameFor
<1> QED
  BY <1>3, <1>4

LEMMA ServiceImplements ==
    ASSUME TypeOK, NEW c \in Client, ApplyService(c)
    PROVE  \E i \in Inverter, p \in Setting : D!Set(i, p)
<1> DEFINE i == InverterOf(c)
           p == "ESDlyTms"
           v == ESDly(job[c].frame.regs)
<1>1. ~Ready(c) /\ job[c].view # NoView /\ Mapped(c)
  BY DEF ApplyService, ServiceAccepts, Arrives, Ready
<1>2. i \in Inverter /\ p \in Setting
  BY <1>1, InverterType DEF Setting
<1>3. v \in ReconnectS /\ v \in Nat
  <2>1. v \in ReconnectS
    BY DEF ApplyService, ServiceAccepts, ServiceRefuses
  <2> HIDE DEF v
  <2> QED
    BY <2>1 DEF ReconnectS
<1>4. p \notin Param
  BY DEF Param, Droop, Curve
<1>5. queue' = [queue EXCEPT ![<<i, p>>] = v] /\ UNCHANGED <<cap, onoff>>
  BY DEF ApplyService
<1>6. queue \in [Inverter \X Setting -> Nat \cup {Null}]
  BY DEF TypeOK
<1>7. SafeValue(i, p, v)
  BY <1>3 DEF SafeValue
<1> HIDE DEF i, p, v
<1>8. <<i, p, v>> \in Safe
  BY <1>2, <1>3, <1>4, <1>7 DEF Safe
<1>9. queue'[<<i, p>>] = v /\ \A key \in (Inverter \X Setting) \ {<<i, p>>} : queue'[key] = queue[key]
  BY <1>2, <1>5, <1>6
<1> QED
  BY <1>2, <1>5, <1>8, <1>9 DEF D!Set

\* A value that passed against the row of the snapshot passes against that of
\* the inverter, and means the same: what looks at the row at all needs the
\* trip, which a snapshot without rows has not.
LEMMA AcceptedOfRow ==
    ASSUME NEW c \in Client, NEW p \in Param, NEW x, Accepts(RowOf(c), p, x)
    PROVE  /\ Accepts(Reported[InverterOf(c)], p, x)
           /\ ValueOf(RowOf(c), p, x) = ValueOf(Reported[InverterOf(c)], p, x)
<1>1. CASE RowOf(c) = Reported[InverterOf(c)]
  BY <1>1
<1>2. CASE RowOf(c) = [code \in Code |-> Null]
  <2>1. RowOf(c)["AK"] = Null
    BY <1>2 DEF Code
  <2>2. p \notin {"Ena", "RspTms", "DbOf", "KOf"} /\ x > 0
    BY <2>1 DEF Accepts
  <2> QED
    BY <2>2 DEF Accepts, ValueOf
<1> QED
  BY <1>1, <1>2 DEF RowOf

\* And so it is safe for the inverter.
LEMMA AcceptedIsSafe ==
    ASSUME NEW i \in Inverter, NEW p \in Param, NEW x \in Nat,
           Accepts(Reported[i], p, x)
    PROVE  SafeValue(i, p, ValueOf(Reported[i], p, x))
<1>1. p # "ESDlyTms"
  BY DEF Param, Droop, Curve
<1>2. Reported[i]["AK"] \in Nat \cup {Null}
  BY TablesAssumption DEF Row, Code
<1>3. CASE p = "Ena"
  BY <1>3 DEF SafeValue, ValueOf
<1>4. CASE p = "DbOf"
  <2>1. /\ Reported[i]["AK"] # Null /\ Reported[i]["AK"] \in Nat
        /\ x > 0 /\ Nominal + x <= Reported[i]["AK"] - OFMargin
    BY <1>2, <1>4 DEF Accepts
  <2>2. Nominal + x \in Nominal + 1 .. Reported[i]["AK"] - OFMargin
    BY <2>1 DEF Nominal, OFMargin
  <2> QED
    BY <1>4, <2>1, <2>2 DEF SafeValue, ValueOf
<1>5. CASE p = "KOf"
  BY <1>5 DEF SafeValue, ValueOf, Accepts
<1>6. CASE p \notin {"Ena", "DbOf", "KOf"}
  BY <1>1, <1>6 DEF SafeValue, ValueOf, Accepts
<1> QED
  BY <1>3, <1>4, <1>5, <1>6

LEMMA GridImplements ==
    ASSUME TypeOK, NEW c \in Client, ApplyGrid(c)
    PROVE  \/ \E i \in Inverter, p \in Setting : D!Set(i, p)
           \/ UNCHANGED <<cap, onoff, queue>>
<1> DEFINE named == NamedBy(c)
           X(p) == Carried(OffsetHit(c), job[c].frame.regs, p)
           i == InverterOf(c)
<1>1. /\ ~Ready(c) /\ job[c].view # NoView /\ GridAccepts(c) /\ ModelHit(c) \in {711, 134}
      /\ UNCHANGED <<cap, onoff>>
  BY DEF ApplyGrid, Arrives, Ready
<1>2. i \in Inverter
  BY <1>1, InverterType DEF GridAccepts
<1>3. /\ queue' = [key \in DOMAIN queue |->
             IF key[1] = i /\ key[2] \in named THEN ValueOf(RowOf(c), key[2], X(key[2])) ELSE queue[key]]
      /\ queue \in [Inverter \X Setting -> Nat \cup {Null}]
  BY DEF ApplyGrid, TypeOK
<1>4. \A p, q \in named : p = q
  <2>1. OffsetHit(c) \in Int /\ Count(c) \in Nat
    BY <1>1, AddressType
  <2>2. Touched(OffsetHit(c), Count(c)) \subseteq Writable(ModelHit(c))
    BY <1>1 DEF GridAccepts, GridRefuses, Count
  <2> QED
    BY <1>1, <2>1, <2>2, OneParameter DEF NamedBy
<1>5. \A p \in named : /\ p \in Param /\ X(p) \in Nat /\ ValueOf(RowOf(c), p, X(p)) \in Nat
                       /\ Accepts(RowOf(c), p, X(p)) /\ ~Unsupported(FamilyOf(c), p)
  <2>1. \A p \in named : p \in Param /\ X(p) \in Nat /\ ValueOf(RowOf(c), p, X(p)) \in Nat
    BY <1>1, QueuedType DEF NamedBy
  <2>2. \A p \in named : Accepts(RowOf(c), p, X(p)) /\ ~Unsupported(FamilyOf(c), p)
    BY <1>1 DEF GridAccepts, GridRefuses, Count, NamedBy
  <2> QED
    BY <2>1, <2>2
<1>6. CASE named = {}
  <2>1. queue' = queue
    BY <1>3, <1>6
  <2> QED
    BY <1>1, <2>1
<1>7. ASSUME NEW p \in named PROVE \E j \in Inverter, q \in Setting : D!Set(j, q)
  <2> DEFINE v == ValueOf(RowOf(c), p, X(p))
  <2>1. p \in Param /\ p \in Setting /\ v \in Nat /\ X(p) \in Nat
    BY <1>5 DEF Setting
  <2>2. /\ Accepts(Reported[i], p, X(p)) /\ v = ValueOf(Reported[i], p, X(p))
        /\ FamilyOf(c) = FamilyForModel(ModelCode[i])
    <3>1. FamilyOf(c) # "unknown"
      BY <1>5 DEF Unsupported
    <3>2. FamilyOf(c) = FamilyForModel(ModelCode[i])
      BY <3>1 DEF FamilyOf
    <3> QED
      BY <1>5, <3>2, AcceptedOfRow
  <2>3. SafeValue(i, p, v) /\ ~Unsupported(FamilyForModel(ModelCode[i]), p)
    BY <1>2, <1>5, <2>1, <2>2, AcceptedIsSafe
  <2> HIDE DEF v
  <2>4. <<i, p, v>> \in Safe
    BY <1>2, <2>1, <2>3 DEF Safe
  <2>5. queue'[<<i, p>>] = v
    <3>1. <<i, p>> \in DOMAIN queue
      BY <1>2, <1>3, <2>1
    <3> HIDE DEF named, X
    <3> QED
      BY <1>3, <3>1 DEF v
  <2>6. \A key \in (Inverter \X Setting) \ {<<i, p>>} : queue'[key] = queue[key]
    <3>1. \A q \in named : q = p
      BY <1>4
    <3> HIDE DEF named, X
    <3> QED
      BY <1>3, <3>1
  <2> QED
    BY <1>1, <1>2, <2>1, <2>4, <2>5, <2>6 DEF D!Set
<1> HIDE DEF named
<1> QED
  BY <1>6, <1>7

LEMMA StepImplements ==
    ASSUME TypeOK, [Next]_vars
    PROVE  [D!Next]_(D!vars)
<1>1. CASE RefreshStep
  BY <1>1 DEF RefreshStep, BuildComplete, BuildPartial, StoreBanks, StoreSnap, tables, D!vars
<1>2. ASSUME NEW c \in Client, Scan(c) \/ Receive(c) \/ LoadSnap(c) \/ Refuse(c) PROVE UNCHANGED D!vars
  BY <1>2 DEF Scan, Receive, LoadSnap, Refuse, tables, D!vars
<1>3. ASSUME NEW c \in Client, Applies(c) PROVE [D!Next]_(D!vars)
  <2>1. CASE ApplyControls(c)
    BY <2>1, ControlsImplement DEF D!Next
  <2>2. CASE ApplyService(c)
    BY <2>2, ServiceImplements DEF D!Next
  <2>3. CASE ApplyGrid(c)
    BY <2>3, GridImplements DEF D!Next, D!vars
  <2> QED
    BY <1>3, <2>1, <2>2, <2>3 DEF Applies
<1>4. ASSUME NEW c \in Client, FailControls(c) PROVE D!Next
  BY <1>4, FailureImplements DEF D!Next
<1>5. CASE UNCHANGED vars
  BY <1>5 DEF vars, tables, D!vars
<1> QED
  BY <1>1, <1>2, <1>3, <1>4, <1>5 DEF Next

\* The handlers implement Device: whatever clients send, whichever refreshes
\* they meet and however the fleet changes, an inverter is only given safe
\* values, one parameter at a time, and the caps and switches of one group.
THEOREM ImplementsDevice == Spec => DeviceSpec
<1>1. Init => D!Init
  BY DEF Init, D!Init
<1>2. TypeOK /\ [Next]_vars => [D!Next]_(D!vars)
  BY StepImplements
<1> QED
  BY <1>1, <1>2, TypeCorrect, PTL DEF Spec, DeviceSpec, D!Spec

----------------------------------------------------------------------------
(* The windows of the fleet's chain and of a unit's overlap, but what is    *)
(* writable in the one is not in the other. The offsets at which a write    *)
(* of a model can begin:                                                   *)

BeginsAt(m, off, n) ==
    CASE m = 123 -> off >= 0 /\ off + n <= 24
      [] m = 703 -> off = 7
      [] m = 711 -> off \in {0, 1, 12, 13, 16, 18, 19}
      [] m = 134 -> off \in {11, 13, 15, 17}

\* The write to address a of a bank of that layout is one of model m.
BeginsFrom(layout, m, a, n) ==
    /\ layout \in Layouts /\ m \in {123, 703, 711, 134} /\ a \in Nat /\ n \in 1 .. 123
    /\ BeginsAt(m, a - BodyStart(layout, m), n)

\* The addresses at which they begin are apart.
LEMMA PlacesOfBegins ==
    ASSUME NEW layout, NEW m, NEW a, NEW n, BeginsFrom(layout, m, a, n)
    PROVE  /\ m = 123 => a \in 40264 .. 40319
           /\ m = 703 => a \in {40507, 40475}
           /\ m = 711 => a \in {40519, 40520, 40531, 40532, 40535, 40537, 40538,
                                40487, 40488, 40499, 40500, 40503, 40505, 40506}
           /\ m = 134 => a \in {40554, 40556, 40558, 40560, 40522, 40524, 40526, 40528}
           /\ m \in {123, 703, 711, 134}
<1> DEFINE o == a - BodyStart(layout, m)
<1>1. /\ layout \in Layouts /\ m \in {123, 703, 711, 134} /\ a \in Nat /\ n \in 1 .. 123
      /\ BeginsAt(m, o, n)
  BY DEF BeginsFrom
<1>2. CASE m = 123
  <2>1. o >= 0 /\ o + n <= 24
    BY <1>1, <1>2 DEF BeginsAt
  <2>2. o = a - 40296 \/ o = a - 40264
    BY <1>1, <1>2, Places DEF Layouts
  <2> HIDE DEF o
  <2> QED
    BY <1>1, <1>2, <2>1, <2>2
<1>3. CASE m = 703
  <2>1. o = 7
    BY <1>1, <1>3 DEF BeginsAt
  <2>2. o = a - 40500 \/ o = a - 40468
    BY <1>1, <1>3, Places DEF Layouts
  <2> HIDE DEF o
  <2> QED
    BY <1>1, <1>3, <2>1, <2>2
<1>4. CASE m = 711
  <2>1. o \in {0, 1, 12, 13, 16, 18, 19}
    BY <1>1, <1>4 DEF BeginsAt
  <2>2. o = a - 40519 \/ o = a - 40487
    BY <1>1, <1>4, Places DEF Layouts
  <2> HIDE DEF o
  <2> QED
    BY <1>1, <1>4, <2>1, <2>2
<1>5. CASE m = 134
  <2>1. o \in {11, 13, 15, 17}
    BY <1>1, <1>5 DEF BeginsAt
  <2>2. o = a - 40543 \/ o = a - 40511
    BY <1>1, <1>5, Places DEF Layouts
  <2> HIDE DEF o
  <2> QED
    BY <1>1, <1>5, <2>1, <2>2
<1> QED
  BY <1>1, <1>2, <1>3, <1>4, <1>5

LEMMA NoCommonPlace ==
    ASSUME NEW aimed, NEW shown, NEW f, NEW m, NEW a, NEW n,
           BeginsFrom(aimed, f, a, n), BeginsFrom(shown, m, a, n)
    PROVE  m = f
<1> DEFINE P(k) == /\ k = 123 => a \in 40264 .. 40319
                   /\ k = 703 => a \in {40507, 40475}
                   /\ k = 711 => a \in {40519, 40520, 40531, 40532, 40535, 40537, 40538,
                                        40487, 40488, 40499, 40500, 40503, 40505, 40506}
                   /\ k = 134 => a \in {40554, 40556, 40558, 40560, 40522, 40524, 40526, 40528}
                   /\ k \in {123, 703, 711, 134}
<1>1. P(f) /\ P(m)
  BY PlacesOfBegins
<1> QED
  BY <1>1

LEMMA TouchesFirst ==
    ASSUME NEW off \in Int, NEW n \in 1 .. 123
    PROVE  off \in Touched(off, n)
BY DEF Touched

\* The model that is hit begins before the write; unless the end of the write
\* wraps, the write ends in it.
LEMMA HitIsWindow ==
    ASSUME NEW layout, NEW a, NEW n, Candidate(layout, a, n) # 0
    PROVE  /\ Candidate(layout, a, n) \in {123, 703, 711, 134}
           /\ InWindow(layout, Candidate(layout, a, n), a, n)
BY DEF Candidate, Writables

LEMMA WindowBounds ==
    ASSUME NEW layout, NEW m, NEW a \in Nat, NEW n \in 1 .. 123, InWindow(layout, m, a, n)
    PROVE  /\ BodyStart(layout, m) <= a
           /\ a + n <= 65535 => a + n <= BodyStart(layout, m) + BodyLen[m]
<1>1. ASSUME a + n <= 65535 PROVE (a + n) % 65536 = a + n
  BY <1>1
<1> QED
  BY <1>1 DEF InWindow

\* A meaningful write begins where its model can be written.
LEMMA MeantPlace ==
    ASSUME NEW f \in Frames, Meaningful(f)
    PROVE  BeginsAt(f.model, f.off, Len(f.regs))
<1>1. f.model \in {123, 703, 711, 134} /\ f.off \in Nat /\ Len(f.regs) \in 1 .. 123
  BY FrameType
<1>2. CASE f.model = 123
  BY <1>1, <1>2 DEF Meaningful, BeginsAt, BodyLen
<1>3. CASE f.model = 703
  BY <1>1, <1>3 DEF Meaningful, BeginsAt, ServiceRefuses, ESDlyOffset
<1>4. CASE f.model \in {711, 134}
  <2>1. f.off \in Touched(f.off, Len(f.regs))
    <3> DEFINE o == f.off
               n == Len(f.regs)
    <3>1. o \in Int /\ n \in 1 .. 123
      BY <1>1
    <3> HIDE DEF o, n
    <3>2. o \in Touched(o, n)
      BY <3>1, TouchesFirst
    <3> QED
      BY <3>2 DEF o, n
  <2>2. f.off \in Writable(f.model)
    BY <1>4, <2>1 DEF Meaningful
  <2> QED
    <3>1. CASE f.model = 711
      BY <2>2, <3>1, WritableRegisters DEF BeginsAt
    <3>2. CASE f.model = 134
      BY <2>2, <3>2, WritableRegisters DEF BeginsAt
    <3> QED
      BY <1>4, <3>1, <3>2
<1> QED
  BY <1>1, <1>2, <1>3, <1>4

\* So does a write that a writer acknowledges, unless its end wraps: then the
\* body it is taken for begins so far below that no point is touched.
LEMMA AckedPlace ==
    ASSUME TypeOK, NEW c \in Client, Applies(c)
    PROVE  /\ ModelHit(c) \in {123, 703, 711, 134}
           /\ Addr(c) + Count(c) <= 65535 => BeginsAt(ModelHit(c), OffsetHit(c), Count(c))
           /\ Addr(c) + Count(c) > 65535 => ModelHit(c) = 123 /\ OffsetHit(c) > 24
<1>1. ~Ready(c) /\ ModelHit(c) # 0
  BY DEF Applies, ApplyControls, ApplyService, ApplyGrid, Arrives, Ready
<1>2. /\ job[c].shown \in Layouts
      /\ Addr(c) \in Nat /\ Count(c) \in 1 .. 123 /\ Addr(c) + Count(c) <= 65536
      /\ OffsetHit(c) \in Int
  BY <1>1, JobType, AddressType
<1> DEFINE m == ModelHit(c)
           a == Addr(c)
           n == Count(c)
           layout == job[c].shown
           o == OffsetHit(c)
<1>3. /\ ModelHit(c) \in {123, 703, 711, 134}
      /\ BodyStart(job[c].shown, ModelHit(c)) <= Addr(c)
      /\ Addr(c) + Count(c) <= 65535 =>
             Addr(c) + Count(c) <= BodyStart(job[c].shown, ModelHit(c)) + BodyLen[ModelHit(c)]
  <2>1. m \in {123, 703, 711, 134} /\ InWindow(layout, m, a, n)
    BY <1>1, HitIsWindow DEF ModelHit
  <2>2. a \in Nat /\ n \in 1 .. 123
    BY <1>2
  <2> HIDE DEF m, a, n, layout
  <2>3. /\ BodyStart(layout, m) <= a
        /\ a + n <= 65535 => a + n <= BodyStart(layout, m) + BodyLen[m]
    BY <2>1, <2>2, WindowBounds
  <2> QED
    BY <2>1, <2>3 DEF m, a, n, layout
<1>4. OffsetHit(c) = Addr(c) - BodyStart(job[c].shown, ModelHit(c))
  BY DEF OffsetHit
<1>5. ASSUME Addr(c) + Count(c) > 65535 PROVE OffsetHit(c) > 24
  <2>1. BodyStart(job[c].shown, ModelHit(c)) <= 40543
    BY <1>2, <1>3, Places DEF Layouts
  <2>2. BodyStart(job[c].shown, ModelHit(c)) \in Nat
    BY <1>2, <1>3, Places DEF Layouts
  <2> QED
    BY <1>2, <1>4, <1>5, <2>1, <2>2
<1>6. CASE ApplyControls(c)
  <2>1. ModelHit(c) = 123
    BY <1>6 DEF ApplyControls, Arrives
  <2>2. BodyStart(job[c].shown, 123) \in Nat
    BY <1>2, Places DEF Layouts
  <2>3. BodyStart(layout, 123) <= a /\ (a + n <= 65535 => a + n <= BodyStart(layout, 123) + 24)
    BY <1>3, <2>1 DEF BodyLen
  <2>4. o = a - BodyStart(layout, 123) /\ a \in Nat /\ n \in 1 .. 123
    BY <1>2, <1>4, <2>1
  <2> HIDE DEF m, a, n, layout, o
  <2>5. a + n <= 65535 => BeginsAt(123, o, n)
    BY <2>2, <2>3, <2>4 DEF BeginsAt, layout
  <2> QED
    BY <1>3, <1>5, <2>1, <2>5 DEF a, n, o
<1>7. CASE ApplyService(c)
  <2>1. ModelHit(c) = 703 /\ OffsetHit(c) = 7
    BY <1>7 DEF ApplyService, Arrives, ServiceAccepts, ServiceRefuses, ESDlyOffset
  <2> QED
    BY <1>2, <1>5, <2>1 DEF BeginsAt
<1>8. CASE ApplyGrid(c)
  <2>1. /\ ModelHit(c) \in {711, 134}
        /\ Touched(OffsetHit(c), Count(c)) \subseteq Writable(ModelHit(c))
    BY <1>8 DEF ApplyGrid, Arrives, GridAccepts, GridRefuses, Count
  <2>2. OffsetHit(c) \in Touched(OffsetHit(c), Count(c))
    BY <1>2, TouchesFirst
  <2>3. OffsetHit(c) \in Writable(ModelHit(c))
    BY <2>1, <2>2
  <2>4. BeginsAt(m, o, n)
    <3>1. CASE m = 711
      BY <2>3, <3>1, WritableRegisters DEF BeginsAt
    <3>2. CASE m = 134
      BY <2>3, <3>2, WritableRegisters DEF BeginsAt
    <3> QED
      BY <2>1, <3>1, <3>2
  <2>5. o <= 24
    <3>1. CASE m = 711
      BY <2>3, <3>1, WritableRegisters
    <3>2. CASE m = 134
      BY <2>3, <3>2, WritableRegisters
    <3> QED
      BY <2>1, <3>1, <3>2
  <2>6. ~(o > 24)
    BY <1>2, <2>5
  <2> QED
    BY <1>5, <2>1, <2>4, <2>6
<1> QED
  BY <1>6, <1>7, <1>8 DEF Applies

LEMMA MeantIsHit ==
    ASSUME TypeOK, NEW c \in Client, Applies(c), Meaningful(job[c].frame),
           Addr(c) + Count(c) <= 65535
    PROVE  ModelHit(c) = job[c].frame.model
<1>1. ~Ready(c)
  BY DEF Applies, ApplyControls, ApplyService, ApplyGrid, Arrives, Ready
<1>2. /\ job[c].frame \in Frames /\ job[c].shown \in Layouts /\ Aimed(c) \in Layouts
      /\ Addr(c) \in Nat /\ Count(c) \in 1 .. 123
  BY <1>1, JobType, AddressType, LayoutType DEF Aimed
<1>3. /\ job[c].frame.model \in {123, 703, 711, 134} /\ job[c].frame.off \in Nat
      /\ BeginsAt(job[c].frame.model, job[c].frame.off, Count(c))
  BY <1>2, FrameType, MeantPlace DEF Count
<1>4. job[c].frame.off = Addr(c) - BodyStart(Aimed(c), job[c].frame.model)
  <2>1. BodyStart(Aimed(c), job[c].frame.model) \in Nat
    BY <1>2, <1>3, Places DEF Layouts
  <2> QED
    BY <1>2, <1>3, <2>1 DEF Addr
<1>5. ModelHit(c) \in {123, 703, 711, 134} /\ BeginsAt(ModelHit(c), OffsetHit(c), Count(c))
  BY AckedPlace
<1>6. BeginsFrom(Aimed(c), job[c].frame.model, Addr(c), Count(c))
  BY <1>2, <1>3, <1>4 DEF BeginsFrom
<1>7. BeginsFrom(job[c].shown, ModelHit(c), Addr(c), Count(c))
  BY <1>2, <1>5 DEF BeginsFrom, OffsetHit
<1> QED
  BY <1>6, <1>7, NoCommonPlace

\* The end of a write that wraps lets it into Model 123 far behind its points.
LEMMA WrappedChangesNothing ==
    ASSUME TypeOK, NEW c \in Client, Applies(c), Addr(c) + Count(c) > 65535
    PROVE  UNCHANGED tables
<1>1. ModelHit(c) = 123 /\ OffsetHit(c) > 24
  BY AckedPlace
<1>2. ApplyControls(c)
  BY <1>1 DEF Applies, ApplyService, ApplyGrid, Arrives
<1>3. ~Ready(c)
  BY <1>2 DEF ApplyControls, Arrives, Ready
<1>4. OffsetHit(c) \in Int
  BY <1>1, <1>3, AddressType
<1>5. AsRead(c).off > 24 /\ AsRead(c).off \in Int
  BY <1>1, <1>4 DEF AsRead
<1>6. \A off \in 0 .. 24 : ~WriteTouches(AsRead(c), off)
  BY <1>5 DEF WriteTouches
<1>7. /\ ~WriteTouches(AsRead(c), OffConn) /\ ~WriteTouches(AsRead(c), OffPct)
      /\ ~WriteTouches(AsRead(c), OffEna)
  BY <1>6 DEF OffConn, OffPct, OffEna
<1>8. FirstStage(AsRead(c)) = "idle"
  BY <1>7 DEF FirstStage, AfterPower
<1> QED
  BY <1>2, <1>7, <1>8 DEF ApplyControls, tables

\* What a writer leaves alone.
LEMMA OwnTables ==
    ASSUME TypeOK, NEW c \in Client, Applies(c)
    PROVE  /\ ModelHit(c) # 123 => UNCHANGED <<cap, onoff>>
           /\ \A i \in Inverter, p \in Setting : queue'[<<i, p>>] # queue[<<i, p>>] =>
                  IF p = "ESDlyTms" THEN ModelHit(c) = 703 ELSE ModelHit(c) = Model(p)
<1>1. queue \in [Inverter \X Setting -> Nat \cup {Null}]
  BY DEF TypeOK
<1>2. CASE ApplyControls(c)
  BY <1>2 DEF ApplyControls, Arrives
<1>3. CASE ApplyService(c)
  <2>1. /\ ModelHit(c) = 703 /\ UNCHANGED <<cap, onoff>>
        /\ queue' = [queue EXCEPT ![<<InverterOf(c), "ESDlyTms">>] = ESDly(job[c].frame.regs)]
    BY <1>3 DEF ApplyService, Arrives
  <2>2. \A i \in Inverter, p \in Setting : p # "ESDlyTms" => queue'[<<i, p>>] = queue[<<i, p>>]
    BY <1>1, <2>1
  <2> QED
    BY <2>1, <2>2
<1>4. CASE ApplyGrid(c)
  <2> DEFINE named == NamedBy(c)
             Value(p) == ValueOf(RowOf(c), p, Carried(OffsetHit(c), job[c].frame.regs, p))
  <2>1. /\ ModelHit(c) # 123 /\ UNCHANGED <<cap, onoff>>
        /\ queue' = [key \in DOMAIN queue |->
               IF key[1] = InverterOf(c) /\ key[2] \in named THEN Value(key[2]) ELSE queue[key]]
    BY <1>4 DEF ApplyGrid, Arrives
  <2>2. \A p \in named : p \in Param /\ Model(p) = ModelHit(c)
    BY DEF NamedBy, Named
  <2>3. "ESDlyTms" \notin Param
    BY DEF Param, Droop, Curve
  <2> HIDE DEF named, Value
  <2>4. \A i \in Inverter, p \in Setting : p \notin named => queue'[<<i, p>>] = queue[<<i, p>>]
    BY <1>1, <2>1
  <2> QED
    BY <2>1, <2>2, <2>3, <2>4
<1> QED
  BY <1>2, <1>3, <1>4 DEF Applies

\* Only the handler's own step ends its write.
LEMMA AckIsApply ==
    ASSUME TypeOK, [Next]_vars, NEW c \in Client, Acks(c)
    PROVE  Applies(c)
<1>1. pc \in [Client -> {"idle", "snap", "apply", "acked"}] /\ pc[c] = "apply" /\ pc'[c] = "acked"
  BY DEF TypeOK, Acks
<1>2. ~RefreshStep /\ ~UNCHANGED vars
  BY <1>1 DEF RefreshStep, BuildComplete, BuildPartial, StoreBanks, StoreSnap, clients, vars
<1>3. ASSUME NEW d \in Client,
             Scan(d) \/ Receive(d) \/ LoadSnap(d) \/ FailControls(d) \/ Refuse(d)
      PROVE  FALSE
  <2>1. UNCHANGED pc \/ \E r \in {"snap", "apply", "idle"} : pc' = [pc EXCEPT ![d] = r]
    BY <1>3 DEF Scan, Receive, LoadSnap, FailControls, Refuse, Finish
  <2> QED
    BY <1>1, <2>1
<1>4. PICK d \in Client : Applies(d)
  BY <1>2, <1>3 DEF Next
<1>5. pc' = [pc EXCEPT ![d] = "acked"]
  BY <1>4 DEF Applies, ApplyControls, ApplyService, ApplyGrid, Finish
<1>6. c = d
  BY <1>1, <1>5
<1> QED
  BY <1>4, <1>6

\* A write stays in the model it was meant for, for any fleets: whichever
\* chain its address was computed from, whichever bank and snapshot serve it.
\* And one that runs over the end of the registers changes nothing.
THEOREM StaysInModelCorrect == Spec => WriteStaysInItsModel
<1> DEFINE Wraps(c) == Addr(c) + Count(c) > 65535
<1>1. ASSUME TypeOK, [Next]_vars, NEW c \in Client, Acks(c)
      PROVE  InItsModel(c) /\ (Wraps(c) => Changed = {})
  <2>1. Applies(c)
    BY <1>1, AckIsApply
  <2>2. CASE Wraps(c)
    <3>1. UNCHANGED <<cap, onoff, queue>>
      BY <1>1, <2>1, <2>2, WrappedChangesNothing DEF tables
    <3> QED
      BY <3>1 DEF Changed, InItsModel
  <2>3. CASE ~Wraps(c)
    <3>1. ASSUME Meaningful(job[c].frame) PROVE ModelHit(c) = job[c].frame.model
      <4>1. ~Ready(c)
        BY <1>1 DEF Acks, Ready
      <4>2. Addr(c) + Count(c) <= 65535
        BY <1>1, <2>3, <4>1, AddressType
      <4> QED
        BY <1>1, <2>1, <3>1, <4>2, MeantIsHit
    <3>2. InItsModel(c)
      BY <1>1, <2>1, <3>1, OwnTables DEF InItsModel
    <3> QED
      BY <2>3, <3>2
  <2> QED
    BY <2>2, <2>3
<1>2. TypeOK /\ [Next]_vars => \A c \in Client : Acks(c) => InItsModel(c) /\ (Wraps(c) => Changed = {})
  BY <1>1
<1>3. TypeOK /\ [Next]_vars => [\A c \in Client : Acks(c) => InItsModel(c) /\ (Wraps(c) => Changed = {})]_vars
  BY <1>2
<1> QED
  BY <1>3, TypeCorrect, PTL DEF Spec, WriteStaysInItsModel

----------------------------------------------------------------------------
(* Where a write lands, for a fleet that grows and shrinks at its end.     *)

\* Of any two orders of the fleet one begins the other: a place that both
\* have is the same inverter's. Without it a unit is not an inverter.
PrefixFleets ==
    \A f, g \in Fleets : \A n \in (1 .. Len(f)) \cap (1 .. Len(g)) : f[n] = g[n]

\* A unit that a client found, and that the handler finds too, is one inverter.
LEMMA FoundIsMapped ==
    ASSUME TypeOK, PrefixFleets, NEW c \in Client, ~Ready(c), job[c].view # NoView,
           Mapped(c), Aimed(c) = "unit"
    PROVE  scan[c][job[c].frame.unit - 1] = InverterOf(c)
<1>1. scan[c] \in Fleets /\ job[c].view.fleet \in Fleets
  BY JobType, ViewType
<1> DEFINE n == job[c].frame.unit - 1
           f == scan[c]
           g == job[c].view.fleet
<1>2. n \in 1 .. Len(f) /\ n \in 1 .. Len(g)
  BY DEF Aimed, LayoutOf, Mapped
<1> HIDE DEF n, f, g
<1>3. f \in Fleets /\ g \in Fleets
  BY <1>1 DEF f, g
<1>4. n \in (1 .. Len(f)) \cap (1 .. Len(g))
  BY <1>2
<1>5. f[n] = g[n]
  BY <1>3, <1>4 DEF PrefixFleets
<1> QED
  BY <1>5 DEF f, g, n, InverterOf

\* A write to a unit of an inverter has that inverter as its only target.
LEMMA UnitIsTarget ==
    ASSUME TypeOK, NEW c \in Client, ~Ready(c), job[c].view # NoView,
           job[c].frame.unit >= 2, Targets(c) # {}
    PROVE  Mapped(c) /\ Targets(c) = {InverterOf(c)}
<1> DEFINE fleet == job[c].view.fleet
           u == job[c].frame.unit
<1>1. fleet \in Seq(Inverter) /\ u \in Nat /\ u >= 2
  BY ViewType
<1>2. Targets(c) = {TargetUIDs(fleet, u)[n] : n \in 1 .. Len(TargetUIDs(fleet, u))}
  BY DEF Targets
<1>3. (Mapped(c) <=> u - 1 \in 1 .. Len(fleet)) /\ InverterOf(c) = fleet[u - 1]
  BY DEF Mapped, InverterOf
<1> HIDE DEF fleet, u
<1>4. CASE u - 1 <= Len(fleet)
  <2>1. TargetUIDs(fleet, u) = << fleet[u - 1] >>
    BY <1>1, <1>4 DEF TargetUIDs
  <2>2. u - 1 \in 1 .. Len(fleet)
    BY <1>1, <1>4
  <2> QED
    BY <1>2, <1>3, <2>1, <2>2
<1>5. CASE u - 1 > Len(fleet)
  <2>1. TargetUIDs(fleet, u) = << >>
    BY <1>1, <1>5 DEF TargetUIDs
  <2> QED
    BY <1>2, <2>1
<1> QED
  BY <1>1, <1>4, <1>5

\* No writer touches another inverter than the one at the unit's place.
LEMMA ChangesAtUnit ==
    ASSUME TypeOK, NEW c \in Client, Applies(c), job[c].frame.unit >= 2
    PROVE  /\ ~Ready(c) /\ job[c].view # NoView /\ Mapped(c)
           /\ InverterOf(c) \in Inverter
           /\ Changed \subseteq {InverterOf(c)}
<1>1. ~Ready(c) /\ job[c].view # NoView
  BY DEF Applies, ApplyControls, ApplyService, ApplyGrid, Arrives, Ready
<1>2. TablesType
  BY TypeParts
<1>3. CASE ApplyControls(c)
  <2>1. Mapped(c) /\ Targets(c) = {InverterOf(c)}
    BY <1>1, <1>3, UnitIsTarget DEF ApplyControls
  <2>2. /\ cap' = cap \/ cap' = NewCap(AsRead(c), Targets(c))
        /\ onoff' = onoff \/ onoff' = NewOnOff(AsRead(c), Targets(c))
        /\ queue' = queue
    BY <1>3 DEF ApplyControls
  <2>3. \A i \in Inverter : i \notin Targets(c) => cap'[i] = cap[i] /\ onoff'[i] = onoff[i]
    BY <2>2 DEF NewCap, NewOnOff
  <2>4. Changed \subseteq {InverterOf(c)}
    BY <2>1, <2>2, <2>3 DEF Changed
  <2> QED
    BY <1>1, <2>1, <2>4, InverterType
<1>4. CASE ApplyService(c)
  <2>1. /\ Mapped(c) /\ UNCHANGED <<cap, onoff>>
        /\ queue' = [queue EXCEPT ![<<InverterOf(c), "ESDlyTms">>] = ESDly(job[c].frame.regs)]
    BY <1>4 DEF ApplyService, ServiceAccepts
  <2>2. \A i \in Inverter, p \in Setting : i # InverterOf(c) => queue'[<<i, p>>] = queue[<<i, p>>]
    BY <1>2, <2>1 DEF TablesType
  <2>3. Changed \subseteq {InverterOf(c)}
    BY <2>1, <2>2 DEF Changed
  <2> QED
    BY <1>1, <2>1, <2>3, InverterType
<1>5. CASE ApplyGrid(c)
  <2> DEFINE named == NamedBy(c)
             Value(p) == ValueOf(RowOf(c), p, Carried(OffsetHit(c), job[c].frame.regs, p))
  <2>1. /\ Mapped(c) /\ UNCHANGED <<cap, onoff>>
        /\ queue' = [key \in DOMAIN queue |->
               IF key[1] = InverterOf(c) /\ key[2] \in named THEN Value(key[2]) ELSE queue[key]]
    BY <1>5 DEF ApplyGrid, GridAccepts
  <2> HIDE DEF named, Value
  <2>2. \A i \in Inverter, p \in Setting : i # InverterOf(c) => queue'[<<i, p>>] = queue[<<i, p>>]
    BY <1>2, <2>1 DEF TablesType
  <2>3. Changed \subseteq {InverterOf(c)}
    BY <2>1, <2>2 DEF Changed
  <2> QED
    BY <1>1, <2>1, <2>3, InverterType
<1> QED
  BY <1>3, <1>4, <1>5 DEF Applies

LEMMA AtItsUnitStep ==
    ASSUME TypeOK, PrefixFleets, [Next]_vars, NEW c \in Client, Acks(c),
           job[c].frame.unit >= 2
    PROVE  \E i \in Inverter :
              /\ Changed \subseteq {i}
              /\ Aimed(c) = "unit" => i = scan[c][job[c].frame.unit - 1]
<1>1. /\ ~Ready(c) /\ job[c].view # NoView /\ Mapped(c)
      /\ InverterOf(c) \in Inverter
      /\ Changed \subseteq {InverterOf(c)}
  BY AckIsApply, ChangesAtUnit
<1>2. Aimed(c) = "unit" => scan[c][job[c].frame.unit - 1] = InverterOf(c)
  BY <1>1, FoundIsMapped
<1> QED
  BY <1>1, <1>2

\* Where inverters join and leave at the end of the fleet, a write to a unit
\* changes the inverter its client found there and no other, whichever of the
\* fleets address, bank and snapshot were taken from.
THEOREM StaysAtUnitCorrect == PrefixFleets /\ Spec => WriteStaysAtItsUnit
<1>1. PrefixFleets /\ TypeOK /\ [Next]_vars =>
         [\A c \in Client : Acks(c) /\ job[c].frame.unit >= 2 =>
            \E i \in Inverter :
                /\ Changed \subseteq {i}
                /\ Aimed(c) = "unit" => i = scan[c][job[c].frame.unit - 1]]_vars
  BY AtItsUnitStep
<1>2. PrefixFleets => PrefixFleets'
  BY DEF PrefixFleets
<1> QED
  BY <1>1, <1>2, TypeCorrect, PTL DEF Spec, WriteStaysAtItsUnit

----------------------------------------------------------------------------
(* What an acknowledgement says, for such a fleet.                         *)

\* The addresses at which a model can be written differ in the two layouts.
LEMMA SameLayout ==
    ASSUME NEW aimed, NEW shown, NEW m, NEW a, NEW n,
           BeginsFrom(aimed, m, a, n), BeginsFrom(shown, m, a, n)
    PROVE  BodyStart(shown, m) = BodyStart(aimed, m)
<1>1. /\ aimed \in {"fleet", "unit"} /\ shown \in {"fleet", "unit"}
      /\ m \in {123, 703, 711, 134} /\ a \in Nat /\ n \in 1 .. 123
      /\ BeginsAt(m, a - BodyStart(aimed, m), n) /\ BeginsAt(m, a - BodyStart(shown, m), n)
  BY DEF BeginsFrom, Layouts
<1>2. CASE m = 123
  <2>1. /\ a - BodyStart(aimed, 123) >= 0 /\ a - BodyStart(aimed, 123) + n <= 24
        /\ a - BodyStart(shown, 123) >= 0 /\ a - BodyStart(shown, 123) + n <= 24
    BY <1>1, <1>2 DEF BeginsAt
  <2> QED
    BY <1>1, <1>2, <2>1, Places
<1>3. CASE m = 703
  <2>1. a - BodyStart(aimed, 703) = 7 /\ a - BodyStart(shown, 703) = 7
    BY <1>1, <1>3 DEF BeginsAt
  <2> QED
    BY <1>1, <1>3, <2>1, Places
<1>4. CASE m = 711
  <2>1. /\ a - BodyStart(aimed, 711) \in 0 .. 19
        /\ a - BodyStart(shown, 711) \in 0 .. 19
    BY <1>1, <1>4 DEF BeginsAt
  <2> QED
    BY <1>1, <1>4, <2>1, Places
<1>5. CASE m = 134
  <2>1. /\ a - BodyStart(aimed, 134) \in 11 .. 17
        /\ a - BodyStart(shown, 134) \in 11 .. 17
    BY <1>1, <1>5 DEF BeginsAt
  <2> QED
    BY <1>1, <1>5, <2>1, Places
<1> QED
  BY <1>1, <1>2, <1>3, <1>4, <1>5

LEMMA BeginsLow ==
    ASSUME NEW m, NEW off, NEW n, m \in {123, 703, 711, 134}, off \in Nat, n \in 1 .. 123,
           BeginsAt(m, off, n)
    PROVE  off <= 24
<1>1. CASE m = 123
  <2>1. off + n <= 24
    BY <1>1 DEF BeginsAt
  <2> QED
    BY <2>1
<1>2. CASE m = 703
  BY <1>2 DEF BeginsAt
<1>3. CASE m = 711
  BY <1>3 DEF BeginsAt
<1>4. CASE m = 134
  BY <1>4 DEF BeginsAt
<1> QED
  BY <1>1, <1>2, <1>3, <1>4

LEMMA StartsLow ==
    ASSUME NEW layout, NEW m, layout \in Layouts, m \in {123, 703, 711, 134}
    PROVE  BodyStart(layout, m) \in Nat /\ BodyStart(layout, m) <= 40543
<1>1. layout = "fleet" \/ layout = "unit"
  BY DEF Layouts
<1>2. CASE m = 123
  BY <1>1, <1>2, Places
<1>3. CASE m = 703
  BY <1>1, <1>3, Places
<1>4. CASE m = 711
  BY <1>1, <1>4, Places
<1>5. CASE m = 134
  BY <1>1, <1>5, Places
<1> QED
  BY <1>2, <1>3, <1>4, <1>5

\* A meaningful write ends long before the registers do.
LEMMA MeantNeverWraps ==
    ASSUME TypeOK, NEW c \in Client, ~Ready(c), Meaningful(job[c].frame)
    PROVE  Addr(c) + Count(c) <= 65535
<1>1. job[c].frame \in Frames /\ Aimed(c) \in Layouts
  BY JobType, LayoutType DEF Aimed
<1>2. /\ job[c].frame.model \in {123, 703, 711, 134}
      /\ job[c].frame.off \in Nat /\ Count(c) \in 1 .. 123
      /\ BeginsAt(job[c].frame.model, job[c].frame.off, Count(c))
  BY <1>1, FrameType, MeantPlace DEF Count
<1> DEFINE here == BodyStart(Aimed(c), job[c].frame.model)
           m == job[c].frame.model
           o == job[c].frame.off
           n == Count(c)
<1>3. o <= 24
  <2>1. m \in {123, 703, 711, 134} /\ o \in Nat /\ n \in 1 .. 123 /\ BeginsAt(m, o, n)
    BY <1>2
  <2> HIDE DEF m, o, n
  <2> QED
    BY <2>1, BeginsLow
<1>4. here \in Nat /\ here <= 40543
  BY <1>1, <1>2, StartsLow
<1>5. o \in Nat /\ n \in 1 .. 123
  BY <1>2
<1>6. Addr(c) = here + o /\ Count(c) = n
  BY DEF Addr
<1> HIDE DEF here, o, n
<1> QED
  BY <1>3, <1>4, <1>5, <1>6

\* The handler takes the write for what it is: the model and the offset.
LEMMA TakenAsMeant ==
    ASSUME TypeOK, NEW c \in Client, Applies(c), Meaningful(job[c].frame)
    PROVE  ModelHit(c) = job[c].frame.model /\ OffsetHit(c) = job[c].frame.off
<1>1. ~Ready(c)
  BY DEF Applies, ApplyControls, ApplyService, ApplyGrid, Arrives, Ready
<1>2. Addr(c) + Count(c) <= 65535
  BY <1>1, MeantNeverWraps
<1>3. ModelHit(c) = job[c].frame.model
  BY <1>2, MeantIsHit
<1>4. /\ job[c].frame \in Frames /\ job[c].shown \in Layouts /\ Aimed(c) \in Layouts
      /\ Addr(c) \in Nat /\ Count(c) \in 1 .. 123
  BY <1>1, JobType, AddressType, LayoutType DEF Aimed
<1>5. /\ job[c].frame.model \in {123, 703, 711, 134} /\ job[c].frame.off \in Nat
      /\ BeginsAt(job[c].frame.model, job[c].frame.off, Count(c))
  BY <1>4, FrameType, MeantPlace DEF Count
<1>6. BodyStart(Aimed(c), job[c].frame.model) \in Nat
  BY <1>4, <1>5, Places DEF Layouts
<1>7. job[c].frame.off = Addr(c) - BodyStart(Aimed(c), job[c].frame.model)
  BY <1>5, <1>6 DEF Addr
<1>8. BeginsFrom(Aimed(c), job[c].frame.model, Addr(c), Count(c))
  BY <1>4, <1>5, <1>7 DEF BeginsFrom
<1>9. BeginsAt(ModelHit(c), OffsetHit(c), Count(c))
  BY <1>2, AckedPlace
<1>10. BeginsFrom(job[c].shown, job[c].frame.model, Addr(c), Count(c))
  BY <1>3, <1>4, <1>5, <1>9 DEF BeginsFrom, OffsetHit
<1>11. BodyStart(job[c].shown, job[c].frame.model) = BodyStart(Aimed(c), job[c].frame.model)
  BY <1>8, <1>10, SameLayout
<1> QED
  BY <1>3, <1>7, <1>11 DEF OffsetHit

\* Whoever is addressed is a target; alone, if the write is to a unit.
LEMMA AddressedIsTarget ==
    ASSUME TypeOK, PrefixFleets, NEW c \in Client, ~Ready(c), job[c].view # NoView,
           Targets(c) # {} \/ Mapped(c), NEW i \in Addressed(c)
    PROVE  /\ Targets(c) # {} => i \in Targets(c)
           /\ job[c].frame.unit >= 2 => Mapped(c) /\ i = InverterOf(c)
<1>1. job[c].frame.unit \in Nat
  BY ViewType
<1>2. CASE job[c].frame.unit <= 1
  BY <1>1, <1>2 DEF Addressed
<1>3. CASE job[c].frame.unit >= 2
  <2>1. Aimed(c) = "unit" /\ i = scan[c][job[c].frame.unit - 1]
    BY <1>1, <1>3 DEF Addressed
  <2>2. Mapped(c)
    BY <1>3, UnitIsTarget
  <2>3. i = InverterOf(c)
    BY <2>1, <2>2, FoundIsMapped
  <2>4. Targets(c) # {} => Targets(c) = {InverterOf(c)}
    BY <1>3, UnitIsTarget
  <2> QED
    BY <2>2, <2>3, <2>4
<1> QED
  BY <1>1, <1>2, <1>3

\* Model 123: the cap and the switch.
LEMMA ControlsStored ==
    ASSUME TypeOK, PrefixFleets, NEW c \in Client, ApplyControls(c), Meaningful(job[c].frame)
    PROVE  StoredAsMeant(c)
<1> DEFINE f == job[c].frame
           r == [uid |-> f.unit, off |-> f.off, regs |-> f.regs]
<1>1. ~Ready(c) /\ job[c].view # NoView /\ Targets(c) # {} /\ Applies(c)
  BY DEF ApplyControls, Arrives, Ready, Applies
<1>2. ModelHit(c) = f.model /\ OffsetHit(c) = f.off
  BY <1>1, TakenAsMeant
<1>3. f.model = 123 /\ r = AsRead(c)
  BY <1>2 DEF ApplyControls, Arrives, AsRead
<1> SUFFICES ASSUME NEW i \in Addressed(c)
             PROVE  /\ /\ i \in PowerRow /\ WriteTouches(r, OffPct)
                       /\ WriteTouches(r, OffEna) => ReadField(r, OffEna) # 0
                       => cap'[i] = PanelWatts(ReadField(r, OffPct))
                    /\ i \in PowerRow /\ WriteTouches(r, OffEna) /\ ReadField(r, OffEna) = 0
                           => cap'[i] = MaxPanelLimitW
                    /\ WriteTouches(r, OffConn) => (onoff'[i] = "off") = (ReadField(r, OffConn) = 0)
  BY <1>3 DEF StoredAsMeant
<1> HIDE DEF f, r
<1>4. i \in Targets(c)
  BY <1>1, AddressedIsTarget
<1>5. i \in Inverter
  <2>1. job[c].view.fleet \in Seq(Inverter) /\ job[c].frame.unit \in Nat
    BY <1>1, ViewType
  <2> QED
    BY <1>4, <2>1 DEF Targets, TargetUIDs
<1>6. /\ cap' = IF FirstStage(r) \in {"cancel", "cap"} THEN NewCap(r, Targets(c)) ELSE cap
      /\ onoff' = IF WriteTouches(r, OffConn) THEN NewOnOff(r, Targets(c)) ELSE onoff
  BY <1>3 DEF ApplyControls
<1>7. ASSUME i \in PowerRow, WriteTouches(r, OffPct),
             WriteTouches(r, OffEna) => ReadField(r, OffEna) # 0
      PROVE  cap'[i] = PanelWatts(ReadField(r, OffPct))
  <2>1. FirstStage(r) = "cap"
    BY <1>7 DEF FirstStage
  <2> QED
    BY <1>4, <1>5, <1>6, <1>7, <2>1 DEF NewCap
<1>8. ASSUME i \in PowerRow, WriteTouches(r, OffEna), ReadField(r, OffEna) = 0
      PROVE  cap'[i] = MaxPanelLimitW
  <2>1. FirstStage(r) = "cancel"
    BY <1>8 DEF FirstStage
  <2> QED
    BY <1>4, <1>5, <1>6, <1>8, <2>1 DEF NewCap
<1>9. ASSUME WriteTouches(r, OffConn)
      PROVE  (onoff'[i] = "off") = (ReadField(r, OffConn) = 0)
  <2>1. onoff'[i] = IF ReadField(r, OffConn) # 0 THEN "on" ELSE "off"
    BY <1>4, <1>5, <1>6, <1>9 DEF NewOnOff
  <2> QED
    BY <2>1
<1> QED
  BY <1>7, <1>8, <1>9

\* Model 703: the delay.
LEMMA ServiceStored ==
    ASSUME TypeOK, PrefixFleets, NEW c \in Client, ApplyService(c), Meaningful(job[c].frame)
    PROVE  StoredAsMeant(c)
<1>1. ~Ready(c) /\ job[c].view # NoView /\ Mapped(c) /\ Applies(c)
  BY DEF ApplyService, ServiceAccepts, Arrives, Ready, Applies
<1>2. job[c].frame.model = 703 /\ InverterOf(c) \in Inverter
  BY <1>1, TakenAsMeant, InverterType DEF ApplyService, Arrives
<1>3. job[c].frame.unit >= 2
  BY <1>1, ViewType DEF Mapped
<1>4. queue'[<<InverterOf(c), "ESDlyTms">>] = ESDly(job[c].frame.regs)
  BY <1>2 DEF ApplyService, TypeOK, Setting
<1>5. \A i \in Addressed(c) : i = InverterOf(c)
  BY <1>1, <1>3, AddressedIsTarget
<1> QED
  BY <1>2, <1>4, <1>5 DEF StoredAsMeant

\* The grid models: each point, from the row the inverter reported.
LEMMA GridStored ==
    ASSUME TypeOK, PrefixFleets, NEW c \in Client, ApplyGrid(c), Meaningful(job[c].frame)
    PROVE  StoredAsMeant(c)
<1> DEFINE f == job[c].frame
           named == Named(f.model, Touched(f.off, Len(f.regs)))
           X(p) == Carried(f.off, f.regs, p)
           j == InverterOf(c)
<1>1. ~Ready(c) /\ job[c].view # NoView /\ Mapped(c) /\ GridAccepts(c) /\ Applies(c)
  BY DEF ApplyGrid, GridAccepts, Arrives, Ready, Applies
<1>2. /\ ModelHit(c) = f.model /\ OffsetHit(c) = f.off /\ Count(c) = Len(f.regs)
      /\ f.model \in {711, 134}
  BY <1>1, TakenAsMeant DEF ApplyGrid, Arrives, Count
<1>3. j \in Inverter /\ f.unit >= 2
  BY <1>1, InverterType, ViewType DEF Mapped
<1>4. /\ queue' = [key \in DOMAIN queue |->
             IF key[1] = j /\ key[2] \in named THEN ValueOf(RowOf(c), key[2], X(key[2])) ELSE queue[key]]
      /\ queue \in [Inverter \X Setting -> Nat \cup {Null}]
  BY <1>2 DEF ApplyGrid, NamedBy, TypeOK
<1>5. \A p \in named : queue'[<<j, p>>] = ValueOf(Reported[j], p, X(p))
  <2> TAKE p \in named
  <2>1. p \in Param /\ p \in Setting
    BY DEF Named, Setting
  <2>2. ValueOf(RowOf(c), p, X(p)) = ValueOf(Reported[j], p, X(p))
    <3>1. Accepts(RowOf(c), p, X(p))
      BY <1>1, <1>2 DEF GridAccepts, GridRefuses
    <3> QED
      BY <2>1, <3>1, AcceptedOfRow
  <2>3. <<j, p>> \in DOMAIN queue
    BY <1>3, <1>4, <2>1
  <2> HIDE DEF named, X, j
  <2> QED
    BY <1>4, <2>2, <2>3
<1>6. \A i \in Addressed(c) : i = j
  BY <1>1, <1>3, AddressedIsTarget
<1>7. \A i \in Addressed(c) : \A p \in named : queue'[<<i, p>>] = ValueOf(Reported[i], p, X(p))
  BY <1>5, <1>6
<1>8. f.model # 123 /\ f.model # 703
  BY <1>2
<1> QED
  BY <1>7, <1>8 DEF StoredAsMeant

LEMMA StoredStep ==
    ASSUME TypeOK, PrefixFleets, [Next]_vars, NEW c \in Client, Acks(c), Meaningful(job[c].frame)
    PROVE  StoredAsMeant(c)
<1>1. Applies(c)
  BY AckIsApply
<1> QED
  BY <1>1, ControlsStored, ServiceStored, GridStored DEF Applies

\* Where inverters join and leave at the end of the fleet, a write that is
\* acknowledged is stored as its client meant it, for each inverter the client
\* found under the unit: the handler may have met a bank of one refresh and a
\* snapshot of another, and still took the model, the offset, the inverter and
\* the row of protection parameters that the address and the value were for.
THEOREM StoredCorrect == PrefixFleets /\ Spec => AcknowledgedIsStored
<1>1. PrefixFleets /\ TypeOK /\ [Next]_vars =>
         [\A c \in Client : Acks(c) /\ Meaningful(job[c].frame) => StoredAsMeant(c)]_vars
  BY StoredStep
<1>2. PrefixFleets => PrefixFleets'
  BY DEF PrefixFleets
<1> QED
  BY <1>1, <1>2, TypeCorrect, PTL DEF Spec, AcknowledgedIsStored
=============================================================================
