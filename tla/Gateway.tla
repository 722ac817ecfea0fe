------------------------------ MODULE Gateway ------------------------------
(***************************************************************************)
(* The Modbus handler between its clients, the refresh loop and the        *)
(* tables: a client reads the chain of models once and computes addresses  *)
(* from it; handleWrite checks the sender, takes a bank, then a snapshot,  *)
(* looks for the model whose window the write falls in, and lets the       *)
(* writer of that model apply it. The refresh loop stores the banks and    *)
(* then the snapshot of one Build, so that a handler may see the two of    *)
(* different refreshes.                                                    *)
(*                                                                         *)
(* A bank is what a handler uses of it: the fleet and the caps it shows.   *)
(* Its layout is that of WriteRules, which Publication checks against the  *)
(* encoded registers. The statements of one Apply, as many as succeed, are *)
(* one step here; Curtailment and WriteTracking take them apart.           *)
(***************************************************************************)
EXTENDS WriteRules, GridRules

CONSTANTS
    Client,       \* clients, each with one handler goroutine
    Host,         \* what the gate knows of the address of each
    Configs,      \* the configurations the server may be started with
    Inverter,     \* inverter UIDs
    ModelCode,    \* id.model of each inverter
    Reported,     \* protection_parameters60code of each inverter
    PowerRow,     \* inverters that have a row in the power table
    Fleets,       \* the inverter orders of the parameter file
    Frames,       \* the writes that clients send
    Failures,     \* the sets of queries that can fail in one refresh
    NoView, NoJob \* nothing scanned or published; no write under way

Setting == Param \cup {"ESDlyTms"}

\* The limits, the model codes of the inverter list, the protection parameters.
Query == {"limits", "codes", "rows"}

\* A write, as its client means it: a model, a body offset, and the registers.
Frame == [unit : 0 .. 255, model : {123, 703, 711, 134}, off : Nat, regs : Seq(Word)]

Config == [enabled : Switch, allowLocal : Switch, allowList : SUBSET Client]

Facts == [addr : Client, parses : BOOLEAN, loopback : BOOLEAN, local : BOOLEAN]

ASSUME HostAssumption    == Host \in [Client -> Facts] /\ Configs \subseteq Config
ASSUME FleetsAssumption  == Fleets \subseteq Seq(Inverter)
\* The Modbus library refuses a write of no register or of more than 123, and
\* one that goes beyond the last register.
ASSUME FramesAssumption  ==
    \A f \in Frames : f \in Frame /\ Len(f.regs) \in 1 .. 123
        /\ BodyStart("fleet", f.model) + f.off + Len(f.regs) <= 65536
ASSUME TablesAssumption  ==
    /\ ModelCode \in [Inverter -> Nat]
    /\ Reported \in [Inverter -> Row]
    /\ PowerRow \subseteq Inverter
    /\ Failures \subseteq SUBSET Query

VARIABLES
    config,   \* Server.cfg.Writes, fixed from the start
    cap,      \* power.limitedpower
    onoff,    \* turn_on_off.set_flag
    queue,    \* set_protection_parameters_inverter
    stage,    \* where the refresh loop is
    built,    \* the snapshot it works on
    banks,    \* Server.banks: the fleet and the caps they show
    snap,     \* Server.snap: the fleet, and which queries were answered
    scan,     \* the fleet each client found when it read the chains
    pc,       \* where each handler is
    job       \* the write it handles

tables  == <<cap, onoff, queue>>
refresh == <<stage, built, banks, snap>>
clients == <<scan, pc, job>>
vars == <<config, tables, refresh, clients>>

\* The chain under a unit: an inverter's own, or else the fleet's.
LayoutOf(fl, u) == IF u - 1 \in 1 .. Len(fl) THEN "unit" ELSE "fleet"

Caps == 0 .. 65535
PanelLimit == MinPanelLimitW .. MaxPanelLimitW
NoCaps == [i \in Inverter |-> 0]
Snapshot == [fleet : Fleets, cap : [Inverter -> Caps], known : SUBSET Query]
Bank == [fleet : Fleets, cap : [Inverter -> Caps]]
View == [fleet : Fleets, known : SUBSET Query]

\* A write under way: the layout of the bank it was looked up in, the snapshot.
Job == [frame : Frames, shown : Layouts, view : View \cup {NoView}]

ASSUME NoneAssumption ==
    NoView \notin Fleets \cup Bank \cup View \cup Snapshot /\ NoJob \notin Job

----------------------------------------------------------------------------
(* The refresh loop. The parameter file, which main.exe rewrites, may hold  *)
(* any of the fleets when it is read.                                      *)

\* An inverter without a row has no cap.
CapsRead == [i \in Inverter |-> IF i \in PowerRow THEN cap[i] ELSE 0]

\* A refresh in which all queries answer.
BuildComplete ==
    /\ stage = "build"
    /\ \E fleet \in Fleets : built' = [fleet |-> fleet, known |-> Query, cap |-> CapsRead]
    /\ stage' = "banks"
    /\ UNCHANGED <<config, tables, banks, snap, clients>>

\* Some queries fail, and the refresh goes on without what they ask for. (One
\* whose parameter file does not parse is one that has not begun.)
BuildPartial ==
    /\ stage = "build"
    /\ \E fleet \in Fleets, failed \in Failures \ {{}} :
        built' = [fleet |-> fleet, known |-> Query \ failed,
                  cap |-> IF "limits" \in failed THEN NoCaps ELSE CapsRead]
    /\ stage' = "banks"
    /\ UNCHANGED <<config, tables, banks, snap, clients>>

\* Mutant: the banks of the first refresh stay.
StoreBanksOnce ==
    /\ stage = "banks"
    /\ banks' = IF banks = NoView THEN [fleet |-> built.fleet, cap |-> built.cap] ELSE banks
    /\ stage' = "snap"
    /\ UNCHANGED <<config, tables, built, snap, clients>>

StoreBanks ==
    /\ stage = "banks"
    /\ banks' = [fleet |-> built.fleet, cap |-> built.cap]
    /\ stage' = "snap"
    /\ UNCHANGED <<config, tables, built, snap, clients>>

StoreSnap ==
    /\ stage = "snap"
    /\ snap' = [fleet |-> built.fleet, known |-> built.known \ {"limits"}]
    /\ stage' = "build"
    /\ built' = NoView
    /\ UNCHANGED <<config, tables, banks, clients>>

----------------------------------------------------------------------------
(* A client and its handler.                                               *)

Ready(c) == pc[c] \in {"idle", "acked"}

Scan(c) ==
    /\ Ready(c) /\ banks # NoView
    /\ scan' = [scan EXCEPT ![c] = banks.fleet]
    /\ UNCHANGED <<config, tables, refresh, pc, job>>

\* The gate, and bankFor. Before the first refresh every write is refused.
Receive(c) ==
    /\ Ready(c) /\ scan[c] # NoView /\ banks # NoView
    /\ AllowsWrite(config, Host[c])
    /\ \E f \in Frames :
        job' = [job EXCEPT ![c] =
            [frame |-> f, shown |-> LayoutOf(banks.fleet, f.unit), view |-> NoView]]
    /\ pc' = [pc EXCEPT ![c] = "snap"]
    /\ UNCHANGED <<config, tables, refresh, scan>>

LoadSnap(c) ==
    /\ pc[c] = "snap"
    /\ job' = [job EXCEPT ![c].view = snap]
    /\ pc' = [pc EXCEPT ![c] = "apply"]
    /\ UNCHANGED <<config, tables, refresh, scan>>

\* The address a client computed, and what the handler finds there.
Aimed(c) == LayoutOf(scan[c], job[c].frame.unit)
Addr(c) == BodyStart(Aimed(c), job[c].frame.model) + job[c].frame.off
Count(c) == Len(job[c].frame.regs)
ModelHit(c) == Candidate(job[c].shown, Addr(c), Count(c))
OffsetHit(c) == Addr(c) - BodyStart(job[c].shown, ModelHit(c))
AsRead(c) == [uid |-> job[c].frame.unit, off |-> OffsetHit(c), regs |-> job[c].frame.regs]

\* The inverters the write is for, in the handler's snapshot: an inverter
\* alone, for the models that the aggregate does not take.
Targets(c) ==
    LET fl == TargetUIDs(job[c].view.fleet, job[c].frame.unit)
    IN  {fl[n] : n \in 1 .. Len(fl)}

Mapped(c) == job[c].frame.unit - 1 \in 1 .. Len(job[c].view.fleet)
InverterOf(c) == job[c].view.fleet[job[c].frame.unit - 1]

\* What the snapshot knows of it, if the queries were answered.
FamilyOf(c) ==
    IF "codes" \in job[c].view.known THEN FamilyForModel(ModelCode[InverterOf(c)]) ELSE "unknown"
RowOf(c) ==
    IF "rows" \in job[c].view.known THEN Reported[InverterOf(c)] ELSE [code \in Code |-> Null]

Finish(c, reply) ==
    /\ pc' = [pc EXCEPT ![c] = reply]
    /\ job' = [job EXCEPT ![c] = NoJob]
    /\ UNCHANGED <<config, refresh, scan>>

\* Mutant: a lifted cap is what is read of an inverter that has none.
NewCapLiftedToNone(r, targets) ==
    LET w == IF FirstStage(r) = "cancel" THEN 0 ELSE PanelWatts(ReadField(r, OffPct))
    IN  [i \in Inverter |-> IF i \in targets \cap PowerRow THEN w ELSE cap[i]]

\* UPDATE changes the rows that exist; the switch is inserted if it has none.
NewCap(r, targets) ==
    LET w == IF FirstStage(r) = "cancel" THEN MaxPanelLimitW ELSE PanelWatts(ReadField(r, OffPct))
    IN  [i \in Inverter |-> IF i \in targets \cap PowerRow THEN w ELSE cap[i]]

NewOnOff(r, targets) ==
    [i \in Inverter |-> IF i \in targets
                        THEN IF ReadField(r, OffConn) # 0 THEN "on" ELSE "off" ELSE onoff[i]]

Arrives(c, model) == pc[c] = "apply" /\ job[c].view # NoView /\ ModelHit(c) = model

ApplyControls(c) ==
    LET r == AsRead(c)
    IN  /\ Arrives(c, 123) /\ Targets(c) # {}
        /\ cap' = IF FirstStage(r) \in {"cancel", "cap"} THEN NewCap(r, Targets(c)) ELSE cap
        /\ onoff' = IF WriteTouches(r, OffConn) THEN NewOnOff(r, Targets(c)) ELSE onoff
        /\ UNCHANGED queue
        /\ Finish(c, "acked")

\* A statement fails: the inverters before it keep what they were given, and
\* the writer returns the error. The switches come after the caps.
FailControls(c) ==
    LET r == AsRead(c)
        order == TargetUIDs(job[c].view.fleet, job[c].frame.unit)
        capped == FirstStage(r) \in {"cancel", "cap"}
    IN  /\ Arrives(c, 123)
        /\ \E n \in 0 .. Len(order) - 1 :
            LET done == {order[k] : k \in 1 .. n}
            IN  \/ capped /\ cap' = NewCap(r, done) /\ UNCHANGED onoff
                \/ /\ WriteTouches(r, OffConn)
                   /\ cap' = IF capped THEN NewCap(r, Targets(c)) ELSE cap
                   /\ onoff' = NewOnOff(r, done)
        /\ UNCHANGED queue
        /\ Finish(c, "idle")

ServiceAccepts(c) == Mapped(c) /\ ~ServiceRefuses(OffsetHit(c), job[c].frame.regs)

ApplyService(c) ==
    /\ Arrives(c, 703) /\ ServiceAccepts(c)
    /\ queue' = [queue EXCEPT ![<<InverterOf(c), "ESDlyTms">>] = ESDly(job[c].frame.regs)]
    /\ UNCHANGED <<cap, onoff>>
    /\ Finish(c, "acked")

GridAccepts(c) ==
    /\ Mapped(c)
    /\ ~GridRefuses(ModelHit(c), OffsetHit(c), job[c].frame.regs, FamilyOf(c), RowOf(c))

\* The parameter that the write names, if it is not the counter alone.
NamedBy(c) == Named(ModelHit(c), Touched(OffsetHit(c), Count(c)))

ApplyGrid(c) ==
    LET Value(p) == ValueOf(RowOf(c), p, Carried(OffsetHit(c), job[c].frame.regs, p))
    IN  /\ Arrives(c, 711) \/ Arrives(c, 134)
        /\ GridAccepts(c)
        /\ queue' = [key \in DOMAIN queue |->
               IF key[1] = InverterOf(c) /\ key[2] \in NamedBy(c) THEN Value(key[2]) ELSE queue[key]]
        /\ UNCHANGED <<cap, onoff>>
        /\ Finish(c, "acked")

Applies(c) == ApplyControls(c) \/ ApplyService(c) \/ ApplyGrid(c)

\* No snapshot, no model there, no such unit, a write that does not validate, or
\* one of a single statement, which fails.
Refuse(c) ==
    /\ pc[c] = "apply"
    /\ \/ job[c].view = NoView
       \/ Arrives(c, 0)
       \/ Arrives(c, 123) /\ Targets(c) = {}
       \/ Arrives(c, 703)
       \/ (Arrives(c, 711) \/ Arrives(c, 134)) /\ (GridAccepts(c) => NamedBy(c) # {})
    /\ UNCHANGED tables
    /\ Finish(c, "idle")

----------------------------------------------------------------------------
Init ==
    /\ config \in Configs
    /\ cap = [i \in Inverter |-> MaxPanelLimitW]
    /\ onoff = [i \in Inverter |-> "on"]
    /\ queue = [key \in Inverter \X Setting |-> Null]
    /\ stage = "build"
    /\ built = NoView
    /\ banks = NoView
    /\ snap = NoView
    /\ scan = [c \in Client |-> NoView]
    /\ pc = [c \in Client |-> "idle"]
    /\ job = [c \in Client |-> NoJob]

RefreshStep == BuildComplete \/ BuildPartial \/ StoreBanks \/ StoreSnap

Next ==
    \/ RefreshStep
    \/ \E c \in Client : Scan(c) \/ Receive(c) \/ LoadSnap(c) \/ Applies(c) \/ FailControls(c) \/ Refuse(c)

Spec == Init /\ [][Next]_vars

\* The ticker starts refreshes again and again, and a query that fails because
\* the database is locked does not fail every time.
Fairness == WF_vars(RefreshStep) /\ SF_vars(BuildComplete)

FairSpec == Spec /\ Fairness

----------------------------------------------------------------------------
(* Properties.                                                             *)

\* The type invariant: among others, every cap in the power table is one that
\* main.exe accepts, also after a lift.
TypeOK ==
    /\ config \in Configs
    /\ cap \in [Inverter -> PanelLimit]
    /\ onoff \in [Inverter -> {"on", "off"}]
    /\ queue \in [Inverter \X Setting -> Nat \cup {Null}]
    /\ stage \in {"build", "banks", "snap"}
    /\ built \in IF stage = "build" THEN {NoView} ELSE Snapshot
    /\ banks \in Bank \cup {NoView}
    /\ snap \in View \cup {NoView}
    /\ scan \in [Client -> Fleets \cup {NoView}]
    /\ pc \in [Client -> {"idle", "snap", "apply", "acked"}]
    /\ job \in [Client -> Job \cup {NoJob}]
    /\ \A c \in Client : IF Ready(c) THEN job[c] = NoJob ELSE job[c] # NoJob /\ scan[c] # NoView

Remote(c) == ~Host[c].loopback /\ (config.allowLocal = "off" \/ ~Host[c].local)

\* Writes off is off for everyone, listed, local or loopback; and where all
\* clients are remote and none is listed, nothing is ever written.
UntouchedUnlessAllowed ==
    (config.enabled = "off" \/ \A c \in Client : Remote(c) /\ Host[c].addr \notin config.allowList) =>
        /\ cap = [i \in Inverter |-> MaxPanelLimitW]
        /\ onoff = [i \in Inverter |-> "on"]
        /\ queue = [key \in Inverter \X Setting |-> Null]

Acks(c) == pc[c] = "apply" /\ pc'[c] = "acked"

\* What a write can mean: it touches points that its model lets clients write.
Meaningful(f) ==
    CASE f.model = 123 -> f.off + Len(f.regs) <= BodyLen[123]
      [] f.model = 703 -> ~ServiceRefuses(f.off, f.regs)
      [] OTHER -> Touched(f.off, Len(f.regs)) \subseteq Writable(f.model)

Changed ==
    {i \in Inverter : \/ cap'[i] # cap[i] \/ onoff'[i] # onoff[i]
                      \/ \E p \in Setting : queue'[<<i, p>>] # queue[<<i, p>>]}

\* This step changes nothing of a model that c did not mean.
InItsModel(c) ==
    LET f == job[c].frame
        mine(p) == IF p = "ESDlyTms" THEN f.model = 703 ELSE f.model = Model(p)
    IN  Meaningful(f) =>
            /\ f.model # 123 => UNCHANGED <<cap, onoff>>
            /\ \A i \in Inverter, p \in Setting : queue'[<<i, p>>] # queue[<<i, p>>] => mine(p)

\* A client that computed its addresses from one fleet and is served from the
\* bank of another, and by the snapshot of a third, does not write another
\* model than it meant: where the fleet's chain and a unit's overlap, what is
\* writable here is not there. A write over the end of the registers, which
\* the 16-bit end lets into a window, changes nothing.
WriteStaysInItsModel ==
    [][\A c \in Client : Acks(c) =>
        InItsModel(c) /\ (Addr(c) + Count(c) > 65535 => Changed = {})]_vars

\* Where inverters join and leave at the end of the fleet, a write to one unit
\* changes the inverter the client found there and no other, though a unit
\* that left is served the fleet's bank; and never more than one inverter.
WriteStaysAtItsUnit ==
    [][\A c \in Client : Acks(c) /\ job[c].frame.unit >= 2 =>
        \E i \in Inverter :
            /\ Changed \subseteq {i}
            /\ Aimed(c) = "unit" => i = scan[c][job[c].frame.unit - 1]]_vars

\* The inverters that a client finds under the unit it writes to.
Addressed(c) ==
    IF job[c].frame.unit <= 1 THEN Targets(c)
    ELSE IF Aimed(c) = "unit" THEN {scan[c][job[c].frame.unit - 1]} ELSE {}

\* The tables after this step hold what c meant for the inverters it addressed.
StoredAsMeant(c) ==
    LET f == job[c].frame
        r == [uid |-> f.unit, off |-> f.off, regs |-> f.regs]
        value(i, p) == ValueOf(Reported[i], p, Carried(f.off, f.regs, p))
    IN  \A i \in Addressed(c) :
        CASE f.model = 123 ->
                /\ /\ i \in PowerRow /\ WriteTouches(r, OffPct)
                   /\ WriteTouches(r, OffEna) => ReadField(r, OffEna) # 0
                   => cap'[i] = PanelWatts(ReadField(r, OffPct))
                /\ i \in PowerRow /\ WriteTouches(r, OffEna) /\ ReadField(r, OffEna) = 0
                       => cap'[i] = MaxPanelLimitW
                /\ WriteTouches(r, OffConn) => (onoff'[i] = "off") = (ReadField(r, OffConn) = 0)
          [] f.model = 703 -> queue'[<<i, "ESDlyTms">>] = ESDly(f.regs)
          [] OTHER -> \A p \in Named(f.model, Touched(f.off, Len(f.regs))) :
                          queue'[<<i, p>>] = value(i, p)

\* A write that is acknowledged is in the tables as its client meant it: a
\* percentage as watts per panel, lifted if the cap is disabled in the same
\* write, for the inverters that have a row; the switch; each point of the
\* grid models. (An inverter without a row in the power table is acknowledged
\* as well, and nothing is stored.)
AcknowledgedIsStored ==
    [][\A c \in Client : Acks(c) /\ Meaningful(job[c].frame) => StoredAsMeant(c)]_vars

\* What may be queued for an inverter: its firmware knows the parameter, the
\* delay is in the regulated range, and the droop starts above 50 Hz and half
\* a hertz below the inverter's own over-frequency trip.
SafeValue(i, p, v) ==
    CASE p = "ESDlyTms" -> v \in ReconnectS
      [] p = "Ena"  -> v \in {ModeASNZS, ModeOther, ModeDisabled}
      [] p = "DbOf" -> Reported[i]["AK"] # Null /\ v \in Nominal + 1 .. Reported[i]["AK"] - OFMargin
      [] p = "KOf"  -> v \in 100 .. 1500
      [] OTHER -> p = "RspTms" \/ v > 0

Safe ==
    {t \in Inverter \X Setting \X Nat :
        /\ t[2] \in Param => ~Unsupported(FamilyForModel(ModelCode[t[1]]), t[2])
        /\ SafeValue(t[1], t[2], t[3])}

\* The sets of inverters a unit can stand for.
Groups ==
    {{fl[n] : n \in 1 .. Len(fl)} : fl \in Fleets} \cup {{i} : i \in Inverter}

D == INSTANCE Device WITH Watts <- PanelLimit

\* Refinement: whatever the clients send and however the handlers meet the
\* refreshes, the inverters are only given what Device allows.
DeviceSpec == D!Spec

\* Unless the caps change for ever, the registers show the cap of each
\* inverter again and again, whichever refreshes are partial.
CapsAreShown ==
    []<><<TRUE>>_cap
        \/ \A i \in PowerRow : []<>(banks # NoView /\ banks.cap[i] = cap[i])
=============================================================================
