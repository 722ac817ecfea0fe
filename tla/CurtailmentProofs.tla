------------------------- MODULE CurtailmentProofs -------------------------
(***************************************************************************)
(* Theorems about Curtailment, for any number of clients, inverters and    *)
(* timers, any fleets and any writes.                                      *)
(***************************************************************************)
EXTENDS Curtailment, TLAPS

----------------------------------------------------------------------------
(* The operators the model is built from.                                  *)

\* A percentage in a register becomes a limit that SetMaxPower accepts, so
\* its range check never refuses a write that came through applyCap.
LEMMA PanelWattsInRange ==
    ASSUME NEW pct \in Word
    PROVE  PanelWatts(pct) \in MinPanelLimitW .. MaxPanelLimitW
<1> DEFINE p == IF pct > 100 THEN 100 ELSE pct
<1>1. p \in 0 .. 100
  <2>0. pct \in Nat
    BY DEF Word
  <2>1. CASE pct > 100
    BY <2>1 DEF p
  <2>2. CASE ~(pct > 100)
    <3>1. p = pct
      BY <2>2 DEF p
    <3>2. QED
      BY <2>0, <2>2, <3>1
  <2>3. QED
    BY <2>1, <2>2
<1>2. (500 * p) \div 100 \in 0 .. 500
  BY <1>1, SMTT(30)
<1>3. QED
  BY <1>2 DEF PanelWatts, p, MinPanelLimitW, MaxPanelLimitW

\* What a write carries at an offset is a register, or 0.
LEMMA ReadFieldType ==
    ASSUME NEW r \in Requests, NEW off \in Nat
    PROVE  ReadField(r, off) \in Word
<1>1. r \in WriteRequest
  BY RequestsAssumption
<1>2. CASE WriteTouches(r, off)
  BY <1>1, <1>2 DEF ReadField, WriteTouches, WriteRequest
<1>3. CASE ~WriteTouches(r, off)
  BY <1>3 DEF ReadField, Word
<1>4. QED
  BY <1>2, <1>3

\* The targets of a write are inverters of the fleet.
LEMMA TargetUIDsType ==
    ASSUME NEW fleet \in Seq(Inverter), NEW uid \in 0 .. 255
    PROVE  TargetUIDs(fleet, uid) \in Seq(Inverter)
<1>1. CASE uid <= 1
  BY <1>1 DEF TargetUIDs
<1>2. CASE uid > 1 /\ uid - 1 <= Len(fleet)
  <2>1. uid - 1 \in 1 .. Len(fleet)
    BY <1>2
  <2>2. fleet[uid - 1] \in Inverter
    BY <2>1
  <2>3. QED
    BY <1>2, <2>2 DEF TargetUIDs
<1>3. CASE uid > 1 /\ ~(uid - 1 <= Len(fleet))
  BY <1>3 DEF TargetUIDs
<1>4. QED
  BY <1>1, <1>2, <1>3

\* Before the first refresh there is nothing to write to.
LEMMA NoFleetNoTargets ==
    ASSUME NEW uid \in 0 .. 255
    PROVE  TargetUIDs(<< >>, uid) = << >>
<1>1. CASE uid <= 1
  BY <1>1 DEF TargetUIDs
<1>2. CASE ~(uid <= 1)
  <2>1. ~(uid - 1 <= 0)
    BY <1>2
  <2>2. Len(<< >>) = 0
    OBVIOUS
  <2>3. ~(uid - 1 <= Len(<< >>))
    BY <2>1, <2>2
  <2>4. QED
    BY <1>2, <2>3 DEF TargetUIDs
<1>3. QED
  BY <1>1, <1>2

\* Stopping timers leaves each of them as it was, or free.
LEMMA StoppedType ==
    ASSUME timer \in [Handle -> TimerRecord], NEW H
    PROVE  /\ Stopped(H) \in [Handle -> TimerRecord]
           /\ \A h \in Handle : \/ Stopped(H)[h] = timer[h]
                                \/ /\ timer[h].st = "armed"
                                   /\ h \in H
                                   /\ Stopped(H)[h] = FreeTimer
<1>1. FreeTimer \in TimerRecord
  BY DEF FreeTimer, TimerRecord
<1>2. QED
  BY <1>1 DEF Stopped

\* A statement on a power row with a limit in range keeps the tables typed.
LEMMA SetMaxPowerType ==
    ASSUME TablesOK, NEW i \in Inverter,
           NEW w \in MinPanelLimitW .. MaxPanelLimitW,
           SetMaxPower(i, w), UNCHANGED <<onoff, snap>>
    PROVE  TablesOK'
BY DEF TablesOK, SetMaxPower

LEMMA MaxInRange == MaxPanelLimitW \in MinPanelLimitW .. MaxPanelLimitW
BY DEF MinPanelLimitW, MaxPanelLimitW

\* Moving a timer on, or to another state, keeps it a timer.
LEMMA TimerFieldType ==
    ASSUME NEW t \in TimerRecord, NEW n \in Nat,
           NEW state \in {"free", "armed", "due", "firing"}
    PROVE  /\ [t EXCEPT !.k = n] \in TimerRecord
           /\ [t EXCEPT !.st = state] \in TimerRecord
BY DEF TimerRecord

\* Cancel and Schedule keep the timers well formed.
LEMMA CancelType ==
    ASSUME TimersOK, NEW u \in Unit, Cancel(u)
    PROVE  TimersOK'
<1>1. timer' \in [Handle -> TimerRecord]
  BY StoppedType DEF TimersOK, Cancel
<1>2. \A h \in Handle : timer'[h].st # "free" => timer'[h] = timer[h]
  BY StoppedType DEF TimersOK, Cancel, FreeTimer
<1>3. pending' \in [Unit -> Handle \cup {NoTimer}]
  BY DEF TimersOK, Cancel
<1>4. QED
  BY <1>1, <1>2, <1>3 DEF TimersOK

LEMMA ScheduleType ==
    ASSUME TimersOK, NEW u \in Unit, NEW ts \in Seq(Inverter), ts # << >>,
           Schedule(u, ts)
    PROVE  TimersOK'
<1>1. PICK h \in FreeHandles :
          /\ timer' = [Stopped({pending[u]}) EXCEPT ![h] = ArmedTimer(u, ts)]
          /\ pending' = [pending EXCEPT ![u] = h]
  BY DEF Schedule
<1>2. h \in Handle
  BY DEF FreeHandles
<1>3. Len(ts) \in Nat /\ Len(ts) > 0
  OBVIOUS
<1>4. ArmedTimer(u, ts) \in TimerRecord
  <2>1. u \in 0 .. 255
    BY RequestsAssumption DEF Unit, WriteRequest
  <2>2. QED
    BY <2>1 DEF ArmedTimer, TimerRecord
<1>5. Stopped({pending[u]}) \in [Handle -> TimerRecord]
  BY StoppedType DEF TimersOK
<1>6. timer' \in [Handle -> TimerRecord]
  BY <1>1, <1>2, <1>4, <1>5
<1>7. timer'[h] = ArmedTimer(u, ts)
  BY <1>1, <1>2, <1>5
<1>8. \A g \in Handle \ {h} : timer'[g].st # "free" => timer'[g] = timer[g]
  <2>1. \A g \in Handle \ {h} : timer'[g] = Stopped({pending[u]})[g]
    BY <1>1, <1>2, <1>5
  <2>2. \A g \in Handle : Stopped({pending[u]})[g].st # "free"
                            => Stopped({pending[u]})[g] = timer[g]
    BY StoppedType DEF TimersOK, FreeTimer
  <2>3. QED
    BY <2>1, <2>2
<1>9. pending' \in [Unit -> Handle \cup {NoTimer}]
  BY <1>1, <1>2 DEF TimersOK
<1>10. \A g \in Handle : timer'[g].st # "free" =>
            timer'[g].uid \in Unit /\ timer'[g].k \in 1 .. Len(timer'[g].targets)
  <2> SUFFICES ASSUME NEW g \in Handle, timer'[g].st # "free"
      PROVE  timer'[g].uid \in Unit /\ timer'[g].k \in 1 .. Len(timer'[g].targets)
    OBVIOUS
  <2>1. CASE g = h
    BY <2>1, <1>3, <1>7 DEF ArmedTimer
  <2>2. CASE g # h
    BY <2>2, <1>8 DEF TimersOK
  <2>3. QED
    BY <2>1, <2>2
<1>11. QED
  BY <1>6, <1>9, <1>10 DEF TimersOK

\* The end of an iteration of fire: the next target, or the handle is free.
LEMMA FireAdvanceType ==
    ASSUME TimersOK, NEW h \in Handle, timer[h].st = "firing", FireAdvance(h)
    PROVE  TimersOK'
<1>1. /\ timer[h] \in TimerRecord
      /\ timer[h].uid \in Unit
      /\ timer[h].k \in 1 .. Len(timer[h].targets)
  BY DEF TimersOK
<1>2. pending' = pending
  BY DEF FireAdvance
<1>3. CASE timer[h].k < Len(timer[h].targets)
  <2>1. timer' = [timer EXCEPT ![h].k = timer[h].k + 1]
    BY <1>3 DEF FireAdvance
  <2>2. /\ timer[h].k + 1 \in Nat
        /\ timer[h].k + 1 \in 1 .. Len(timer[h].targets)
    BY <1>1, <1>3 DEF TimerRecord
  <2>3. timer' \in [Handle -> TimerRecord]
    BY <1>1, <2>1, <2>2, TimerFieldType DEF TimersOK
  <2>4. /\ \A g \in Handle \ {h} : timer'[g] = timer[g]
        /\ timer'[h].uid = timer[h].uid
        /\ timer'[h].targets = timer[h].targets
        /\ timer'[h].k = timer[h].k + 1
    BY <2>1 DEF TimersOK, TimerRecord
  <2>5. QED
    BY <1>1, <1>2, <2>2, <2>3, <2>4 DEF TimersOK
<1>4. CASE ~(timer[h].k < Len(timer[h].targets))
  <2>1. timer' = [timer EXCEPT ![h] = FreeTimer]
    BY <1>4 DEF FireAdvance
  <2>2. FreeTimer \in TimerRecord /\ FreeTimer.st = "free"
    BY DEF FreeTimer, TimerRecord
  <2>3. QED
    BY <1>2, <2>1, <2>2 DEF TimersOK
<1>5. QED
  BY <1>3, <1>4

\* A handler that leaves a stage, or goes on to its next target.
LEMMA GoToType ==
    ASSUME HandlersOK, NEW c \in Client, NEW stage \in Stages, pc[c] # "idle",
           GoTo(c, stage)
    PROVE  HandlersOK'
<1>1. 1 \in 1 .. Len(targets[c]) /\ req[c] \in Requests
  <2>1. targets[c] \in Seq(Inverter) /\ k[c] \in 1 .. Len(targets[c])
    BY DEF HandlersOK
  <2>2. QED
    BY <2>1 DEF HandlersOK
<1>2. /\ pc' = [pc EXCEPT ![c] = stage]
      /\ k' = [k EXCEPT ![c] = 1]
  BY DEF GoTo
<1>3. pc' \in [Client -> Stages] /\ k' \in [Client -> Nat]
  BY <1>2 DEF HandlersOK
<1>4. CASE stage = "idle"
  <2>1. /\ req' = [req EXCEPT ![c] = NoRequest]
        /\ targets' = [targets EXCEPT ![c] = << >>]
    BY <1>4 DEF GoTo
  <2>2. << >> \in Seq(Inverter)
    OBVIOUS
  <2>3. /\ req' \in [Client -> Requests \cup {NoRequest}]
        /\ targets' \in [Client -> Seq(Inverter)]
    BY <2>1, <2>2 DEF HandlersOK
  <2>4. QED
    BY <1>2, <1>3, <1>4, <2>1, <2>3 DEF HandlersOK
<1>5. CASE stage # "idle"
  <2>1. UNCHANGED <<req, targets>>
    BY <1>5 DEF GoTo
  <2>2. QED
    BY <1>1, <1>2, <1>3, <2>1 DEF HandlersOK
<1>6. QED
  BY <1>4, <1>5

LEMMA AdvanceType ==
    ASSUME HandlersOK, NEW c \in Client, NEW stage \in Stages, pc[c] # "idle",
           Advance(c, stage)
    PROVE  HandlersOK'
<1>1. CASE k[c] < Len(targets[c])
  <2>1. k' = [k EXCEPT ![c] = k[c] + 1] /\ UNCHANGED <<pc, req, targets>>
    BY <1>1 DEF Advance
  <2>2. targets[c] \in Seq(Inverter) /\ k[c] \in 1 .. Len(targets[c])
    BY DEF HandlersOK
  <2>3. k[c] + 1 \in Nat /\ k[c] + 1 \in 1 .. Len(targets[c])
    BY <1>1, <2>2
  <2>4. QED
    BY <2>1, <2>3 DEF HandlersOK
<1>2. CASE ~(k[c] < Len(targets[c]))
  <2>1. GoTo(c, stage)
    BY <1>2 DEF Advance
  <2>2. QED
    BY <2>1, GoToType
<1>3. QED
  BY <1>1, <1>2

LEMMA StageTypes ==
    ASSUME NEW r
    PROVE  /\ FirstStage(r) \in Stages
           /\ AfterCap(r) \in Stages
           /\ AfterPower(r) \in Stages
BY DEF FirstStage, AfterCap, AfterPower, Stages

----------------------------------------------------------------------------
(* Type correctness.                                                       *)

LEMMA TypeInit == Init => TypeOK
<1> SUFFICES ASSUME Init PROVE TypeOK
  OBVIOUS
<1>1. TablesOK
  BY DEF Init, TablesOK, MinPanelLimitW, MaxPanelLimitW
<1>2. HandlersOK
  BY DEF Init, HandlersOK, Stages
<1>3. TimersOK
  <2>1. FreeTimer \in TimerRecord /\ FreeTimer.st = "free"
    BY DEF FreeTimer, TimerRecord
  <2>2. QED
    BY <2>1 DEF Init, TimersOK
<1>4. QED
  BY <1>1, <1>2, <1>3 DEF Init, TypeOK

\* The target a handler or a timer is at.
LEMMA CurrentTarget ==
    ASSUME TypeOK
    PROVE  /\ \A c \in Client : pc[c] # "idle" => targets[c][k[c]] \in Inverter
           /\ \A h \in Handle : timer[h].st # "free" =>
                  timer[h].targets[timer[h].k] \in Inverter
<1>1. ASSUME NEW c \in Client, pc[c] # "idle"
      PROVE  targets[c][k[c]] \in Inverter
  <2>1. targets[c] \in Seq(Inverter) /\ k[c] \in 1 .. Len(targets[c])
    BY <1>1 DEF TypeOK, HandlersOK
  <2>2. QED
    BY <2>1
<1>2. ASSUME NEW h \in Handle, timer[h].st # "free"
      PROVE  timer[h].targets[timer[h].k] \in Inverter
  <2>1. timer[h].targets \in Seq(Inverter)
    BY DEF TypeOK, TimersOK, TimerRecord
  <2>2. timer[h].k \in 1 .. Len(timer[h].targets)
    BY <1>2 DEF TypeOK, TimersOK
  <2>3. QED
    BY <2>1, <2>2
<1>3. QED
  BY <1>1, <1>2

LEMMA TypeStep == TypeOK /\ [Next]_vars => TypeOK'
<1> SUFFICES ASSUME TypeOK, [Next]_vars PROVE TypeOK'
  OBVIOUS
<1> USE DEF TypeOK
<1> DEFINE HistoryOK == /\ leased \in [Inverter -> BOOLEAN]
                        /\ overtaken \subseteq Unit
<1>1. ASSUME NEW c \in Client, Receive(c) PROVE TypeOK'
  <2>1. PICK r \in Requests :
            /\ TargetUIDs(snap, r.uid) # << >>
            /\ FirstStage(r) # "idle"
            /\ pc' = [pc EXCEPT ![c] = FirstStage(r)]
            /\ req' = [req EXCEPT ![c] = r]
            /\ targets' = [targets EXCEPT ![c] = TargetUIDs(snap, r.uid)]
            /\ k' = [k EXCEPT ![c] = 1]
    BY <1>1 DEF Receive
  <2>2. r.uid \in 0 .. 255
    BY RequestsAssumption DEF WriteRequest
  <2>3. TargetUIDs(snap, r.uid) \in Seq(Inverter)
    BY <2>2, TargetUIDsType DEF TablesOK
  <2>4. 1 \in 1 .. Len(TargetUIDs(snap, r.uid))
    BY <2>1, <2>3
  <2>5. /\ pc' \in [Client -> Stages]
        /\ req' \in [Client -> Requests \cup {NoRequest}]
        /\ targets' \in [Client -> Seq(Inverter)]
        /\ k' \in [Client -> Nat]
    BY <2>1, <2>3, StageTypes DEF HandlersOK
  <2>6. HandlersOK'
    BY <2>1, <2>4, <2>5 DEF HandlersOK
  <2>7. QED
    BY <1>1, <2>6 DEF Receive, TablesOK, TimersOK, tables, reverter, history
<1>2. ASSUME NEW c \in Client, CancelReversion(c) PROVE TypeOK'
  <2>1. req[c].uid \in Unit /\ pc[c] # "idle"
    BY <1>2 DEF CancelReversion, HandlersOK, Unit
  <2>2. TimersOK'
    BY <1>2, <2>1, CancelType DEF CancelReversion
  <2>3. HandlersOK'
    BY <1>2, <2>1, GoToType DEF CancelReversion, Stages
  <2>4. QED
    BY <1>2, <2>2, <2>3 DEF CancelReversion, TablesOK, tables, history
<1>3. ASSUME NEW c \in Client, RestoreFull(c) PROVE TypeOK'
  <2>1. pc[c] # "idle" /\ targets[c][k[c]] \in Inverter
    BY <1>3, CurrentTarget DEF RestoreFull
  <2>2. HandlersOK'
    BY <1>3, <2>1, AdvanceType, StageTypes DEF RestoreFull
  <2>3. TablesOK'
    BY <1>3, <2>1, SetMaxPowerType, MaxInRange DEF RestoreFull
  <2>4. HistoryOK'
    BY <1>3, <2>1 DEF RestoreFull, EndLease
  <2>5. QED
    BY <1>3, <2>2, <2>3, <2>4 DEF RestoreFull, TimersOK, reverter
<1>4. ASSUME NEW c \in Client, ApplyCap(c) PROVE TypeOK'
  <2>1. pc[c] # "idle" /\ targets[c][k[c]] \in Inverter
    BY <1>4, CurrentTarget DEF ApplyCap
  <2>2. HandlersOK'
    BY <1>4, <2>1, AdvanceType, StageTypes DEF ApplyCap
  <2>3. PanelWatts(ReadField(req[c], OffPct)) \in MinPanelLimitW .. MaxPanelLimitW
    <3>1. req[c] \in Requests /\ OffPct \in Nat
      BY <2>1 DEF HandlersOK, OffPct
    <3>2. QED
      BY <3>1, ReadFieldType, PanelWattsInRange
  <2>4. TablesOK'
    BY <1>4, <2>1, <2>3, SetMaxPowerType DEF ApplyCap
  <2>5. HistoryOK'
    BY <1>4, <2>1 DEF ApplyCap, EndLease
  <2>6. QED
    BY <1>4, <2>2, <2>4, <2>5 DEF ApplyCap, TimersOK, reverter
<1>5. ASSUME NEW c \in Client, ArmOrCancelReversion(c) PROVE TypeOK'
  <2>1. /\ req[c].uid \in Unit
        /\ pc[c] # "idle"
        /\ targets[c] \in Seq(Inverter)
        /\ k[c] \in 1 .. Len(targets[c])
    BY <1>5 DEF ArmOrCancelReversion, HandlersOK, Unit
  <2>2. targets[c] # << >>
    BY <2>1
  <2>3. TimersOK' /\ leased' \in [Inverter -> BOOLEAN]
    <3>1. CASE NoReversion(ReadField(req[c], OffRvrt))
      BY <1>5, <2>1, <3>1, CancelType DEF ArmOrCancelReversion
    <3>2. CASE ~NoReversion(ReadField(req[c], OffRvrt))
      <4>1. Schedule(req[c].uid, targets[c])
        BY <1>5, <3>2 DEF ArmOrCancelReversion
      <4>2. TimersOK'
        BY <2>1, <2>2, <4>1, ScheduleType
      <4>3. leased' \in [Inverter -> BOOLEAN]
        BY <1>5, <3>2, Zenon DEF ArmOrCancelReversion
      <4>4. QED
        BY <4>2, <4>3
    <3>3. QED
      BY <3>1, <3>2
  <2>4. HandlersOK'
    BY <1>5, <2>1, GoToType, StageTypes DEF ArmOrCancelReversion
  <2>5. QED
    BY <1>5, <2>3, <2>4 DEF ArmOrCancelReversion, TablesOK, tables
<1>6. ASSUME NEW c \in Client, ApplyConn(c) PROVE TypeOK'
  <2>1. pc[c] # "idle" /\ targets[c][k[c]] \in Inverter
    BY <1>6, CurrentTarget DEF ApplyConn
  <2>2. HandlersOK'
    BY <1>6, <2>1, AdvanceType DEF ApplyConn, Stages
  <2>3. TablesOK'
    BY <1>6, <2>1 DEF ApplyConn, TablesOK
  <2>4. QED
    BY <1>6, <2>2, <2>3 DEF ApplyConn, TimersOK, reverter, history
<1>7. ASSUME NEW c \in Client, ApplyFails(c) PROVE TypeOK'
  <2>1. HandlersOK'
    BY <1>7, GoToType DEF ApplyFails, Stages
  <2>2. QED
    BY <1>7, <2>1 DEF ApplyFails, TablesOK, TimersOK, tables, reverter, history
<1>8. ASSUME NEW h \in Handle, Expire(h) PROVE TypeOK'
  <2>1. timer[h] \in TimerRecord /\ timer' = [timer EXCEPT ![h].st = "due"]
    BY <1>8 DEF Expire, TimersOK
  <2>2. timer' \in [Handle -> TimerRecord]
    BY <2>1, TimerFieldType DEF TimersOK
  <2>3. /\ timer[h].st # "free"
        /\ \A g \in Handle : /\ timer'[g].uid = timer[g].uid
                             /\ timer'[g].k = timer[g].k
                             /\ timer'[g].targets = timer[g].targets
                             /\ g # h => timer'[g].st = timer[g].st
    BY <1>8, <2>1 DEF Expire, TimersOK, TimerRecord
  <2>4. TimersOK'
    BY <1>8, <2>2, <2>3 DEF Expire, TimersOK
  <2>5. QED
    BY <1>8, <2>4 DEF Expire, TablesOK, HandlersOK, tables, handlers, history
<1>9. ASSUME NEW h \in Handle, Fire(h) PROVE TypeOK'
  <2>1. timer[h] \in TimerRecord /\ timer' = [timer EXCEPT ![h].st = "firing"]
    BY <1>9 DEF Fire, TimersOK
  <2>2. timer' \in [Handle -> TimerRecord]
    BY <2>1, TimerFieldType DEF TimersOK
  <2>3. /\ timer[h].st # "free"
        /\ \A g \in Handle : /\ timer'[g].uid = timer[g].uid
                             /\ timer'[g].k = timer[g].k
                             /\ timer'[g].targets = timer[g].targets
                             /\ g # h => timer'[g].st = timer[g].st
    BY <1>9, <2>1 DEF Fire, TimersOK, TimerRecord
  <2>4. timer[h].uid \in Unit
    BY <2>3 DEF TimersOK
  <2>5. pending' \in [Unit -> Handle \cup {NoTimer}]
    BY <1>9, <2>4 DEF Fire, TimersOK
  <2>6. TimersOK'
    <3>1. ASSUME NEW g \in Handle, timer'[g].st # "free"
          PROVE  timer'[g].uid \in Unit /\ timer'[g].k \in 1 .. Len(timer'[g].targets)
      <4>1. timer[g].st # "free"
        BY <2>3, <3>1, Zenon
      <4>2. timer[g].uid \in Unit /\ timer[g].k \in 1 .. Len(timer[g].targets)
        BY <4>1 DEF TimersOK
      <4>3. QED
        BY <2>3, <4>2, Zenon
    <3>2. QED
      BY <2>2, <2>5, <3>1 DEF TimersOK
  <2>7. overtaken' \subseteq Unit
    BY <1>9, <2>4 DEF Fire
  <2>8. QED
    BY <1>9, <2>6, <2>7 DEF Fire, TablesOK, HandlersOK, tables, handlers
<1>10. ASSUME NEW h \in Handle, FireRestore(h) PROVE TypeOK'
  <2>1. timer[h].targets[timer[h].k] \in Inverter
    BY <1>10, CurrentTarget DEF FireRestore
  <2>2. TimersOK'
    BY <1>10, FireAdvanceType DEF FireRestore
  <2>3. TablesOK'
    BY <1>10, <2>1, SetMaxPowerType, MaxInRange DEF FireRestore, FireAdvance
  <2>4. HistoryOK'
    BY <1>10, <2>1 DEF FireRestore, FireAdvance, EndLease
  <2>5. QED
    BY <1>10, <2>2, <2>3, <2>4 DEF FireRestore, FireAdvance, HandlersOK, handlers
<1>11. ASSUME NEW h \in Handle, FireRestoreFails(h) PROVE TypeOK'
  <2>1. TimersOK'
    BY <1>11, FireAdvanceType DEF FireRestoreFails
  <2>2. QED
    BY <1>11, <2>1 DEF FireRestoreFails, FireAdvance, TablesOK, HandlersOK, handlers
<1>12. ASSUME Refresh PROVE TypeOK'
  <2>1. snap' \in Seq(Inverter)
    BY <1>12, FleetsAssumption DEF Refresh
  <2>2. QED
    BY <1>12, <2>1 DEF Refresh, TablesOK, HandlersOK, TimersOK, tables,
                       handlers, reverter, history
<1>13. ASSUME StopReverter PROVE TypeOK'
  <2>1. TimersOK'
    BY <1>13, StoppedType DEF StopReverter, TimersOK, FreeTimer
  <2>2. QED
    BY <1>13, <2>1 DEF StopReverter, TablesOK, HandlersOK, tables, handlers, history
<1>14. ASSUME Restart PROVE TypeOK'
  <2>1. FreeTimer \in TimerRecord /\ FreeTimer.st = "free"
    BY DEF FreeTimer, TimerRecord
  <2>2. TimersOK'
    BY <1>14, <2>1 DEF Restart, TimersOK
  <2>3. HandlersOK'
    BY <1>14 DEF Restart, HandlersOK, Stages
  <2>4. TablesOK'
    BY <1>14 DEF Restart, TablesOK, tables
  <2>5. QED
    BY <1>14, <2>2, <2>3, <2>4 DEF Restart
<1>15. CASE UNCHANGED vars
  BY <1>15 DEF vars, TablesOK, HandlersOK, TimersOK, tables, handlers, reverter,
               history
<1>16. QED
  BY <1>1, <1>2, <1>3, <1>4, <1>5, <1>6, <1>7, <1>8, <1>9, <1>10, <1>11, <1>12,
     <1>13, <1>14, <1>15 DEF Next, HandlerStep, TimerStep

\* Type correctness for all constants: in particular no interleaving takes a
\* loop of the ControlsWriter or of fire past the targets it was given.
THEOREM TypeCorrect == Spec => []TypeOK
<1>1. QED
  BY TypeInit, TypeStep, PTL DEF Spec

----------------------------------------------------------------------------
(* The map of the Reverter against the timers that run.                    *)

ReverterInv == PendingIsLive /\ OrphansAreLateFires

LEMMA ReverterInit == Init => ReverterInv
BY DEF Init, ReverterInv, PendingIsLive, OrphansAreLateFires, FreeTimer

\* What stopping the timer of one unit leaves: the entries of the other units
\* are other timers, and no running timer but the stopped one goes away.
LEMMA StopOfUnit ==
    ASSUME TypeOK, ReverterInv, NEW u \in Unit
    PROVE  /\ Stopped({pending[u]}) \in [Handle -> TimerRecord]
           /\ \A v \in Unit \ {u} : pending[v] # NoTimer =>
                  /\ pending[v] \in Handle
                  /\ Stopped({pending[u]})[pending[v]] = timer[pending[v]]
           /\ \A h \in Handle : Stopped({pending[u]})[h].st = "armed" =>
                  /\ Stopped({pending[u]})[h] = timer[h]
                  /\ h # pending[u]
<1> USE DEF TypeOK, TimersOK
<1>1. ASSUME NEW v \in Unit \ {u}, pending[v] # NoTimer
      PROVE  /\ pending[v] \in Handle
             /\ Stopped({pending[u]})[pending[v]] = timer[pending[v]]
  <2>1. pending[v] \in Handle /\ timer[pending[v]].uid = v
    BY <1>1 DEF ReverterInv, PendingIsLive
  <2>2. pending[v] # pending[u]
    BY <1>1, <2>1 DEF ReverterInv, PendingIsLive
  <2>3. QED
    BY <2>1, <2>2 DEF Stopped
<1>2. ASSUME NEW h \in Handle, Stopped({pending[u]})[h].st = "armed"
      PROVE  Stopped({pending[u]})[h] = timer[h] /\ h # pending[u]
  BY <1>2 DEF Stopped, FreeTimer
<1>3. QED
  BY <1>1, <1>2, StoppedType

LEMMA CancelReverter ==
    ASSUME TypeOK, ReverterInv, NEW u \in Unit, Cancel(u), UNCHANGED overtaken
    PROVE  ReverterInv'
<1> USE DEF TypeOK, TimersOK
<1>1. /\ timer' = Stopped({pending[u]})
      /\ pending' = [pending EXCEPT ![u] = NoTimer]
  BY DEF Cancel
<1>2. PendingIsLive'
  BY <1>1, StopOfUnit DEF ReverterInv, PendingIsLive
<1>3. OrphansAreLateFires'
  <2> SUFFICES ASSUME NEW h \in Handle, timer'[h].st = "armed",
                      pending'[timer'[h].uid] # h
      PROVE  timer'[h].uid \in overtaken
    BY DEF OrphansAreLateFires
  <2>1. timer'[h] = timer[h] /\ h # pending[u]
    BY <1>1, StopOfUnit
  <2>2. timer[h].uid \in Unit /\ pending[timer[h].uid] # h
    BY <1>1, <2>1
  <2>3. QED
    BY <2>1, <2>2 DEF ReverterInv, OrphansAreLateFires
<1>4. QED
  BY <1>2, <1>3 DEF ReverterInv

LEMMA ScheduleReverter ==
    ASSUME TypeOK, ReverterInv, NEW u \in Unit, NEW ts, Schedule(u, ts),
           UNCHANGED overtaken
    PROVE  ReverterInv'
<1> USE DEF TypeOK, TimersOK
<1>1. PICK n \in FreeHandles :
          /\ timer' = [Stopped({pending[u]}) EXCEPT ![n] = ArmedTimer(u, ts)]
          /\ pending' = [pending EXCEPT ![u] = n]
  BY DEF Schedule
<1>2. n \in Handle /\ timer[n].st = "free"
  BY DEF FreeHandles
<1>3. Stopped({pending[u]}) \in [Handle -> TimerRecord]
  BY StopOfUnit
<1>4. /\ timer'[n] = ArmedTimer(u, ts)
      /\ \A h \in Handle \ {n} : timer'[h] = Stopped({pending[u]})[h]
  BY <1>1, <1>2, <1>3
<1>5. PendingIsLive'
  <2> SUFFICES ASSUME NEW v \in Unit, pending'[v] # NoTimer
      PROVE  timer'[pending'[v]].st \in {"armed", "due"} /\ timer'[pending'[v]].uid = v
    BY DEF PendingIsLive
  <2>1. CASE v = u
    BY <1>1, <1>4, <2>1 DEF ArmedTimer
  <2>2. CASE v # u
    <3>1. pending'[v] = pending[v]
      BY <1>1, <2>2
    <3>2. pending[v] \in Handle \ {n}
      BY <1>2, <3>1 DEF ReverterInv, PendingIsLive
    <3>3. timer'[pending[v]] = timer[pending[v]]
      BY <1>4, <2>2, <3>1, <3>2, StopOfUnit
    <3>4. QED
      BY <3>1, <3>3 DEF ReverterInv, PendingIsLive
  <2>3. QED
    BY <2>1, <2>2
<1>6. OrphansAreLateFires'
  <2> SUFFICES ASSUME NEW h \in Handle, timer'[h].st = "armed",
                      pending'[timer'[h].uid] # h
      PROVE  timer'[h].uid \in overtaken
    BY DEF OrphansAreLateFires
  <2>1. h # n
    BY <1>1, <1>4 DEF ArmedTimer
  <2>2. timer'[h] = timer[h] /\ h # pending[u]
    BY <1>4, <2>1, StopOfUnit
  <2>3. timer[h].uid \in Unit /\ pending[timer[h].uid] # h
    BY <1>1, <2>2
  <2>4. QED
    BY <2>2, <2>3 DEF ReverterInv, OrphansAreLateFires
<1>7. QED
  BY <1>5, <1>6 DEF ReverterInv

LEMMA ReverterStep == TypeOK /\ ReverterInv /\ [Next]_vars => ReverterInv'
<1> SUFFICES ASSUME TypeOK, ReverterInv, [Next]_vars PROVE ReverterInv'
  OBVIOUS
<1> USE DEF ReverterInv
<1>1. ASSUME NEW c \in Client,
             Receive(c) \/ RestoreFull(c) \/ ApplyCap(c) \/ ApplyConn(c) \/ ApplyFails(c)
      PROVE  ReverterInv'
  BY <1>1 DEF Receive, RestoreFull, ApplyCap, ApplyConn, ApplyFails, reverter,
              history, PendingIsLive, OrphansAreLateFires
<1>2. ASSUME NEW c \in Client, CancelReversion(c) PROVE ReverterInv'
  <2>1. req[c].uid \in Unit
    BY <1>2 DEF CancelReversion, TypeOK, HandlersOK, Unit
  <2>2. QED
    BY <1>2, <2>1, CancelReverter DEF CancelReversion, history
<1>3. ASSUME NEW c \in Client, ArmOrCancelReversion(c) PROVE ReverterInv'
  <2>1. req[c].uid \in Unit
    BY <1>3 DEF ArmOrCancelReversion, TypeOK, HandlersOK, Unit
  <2>2. UNCHANGED overtaken
    BY <1>3 DEF ArmOrCancelReversion
  <2>3. CASE NoReversion(ReadField(req[c], OffRvrt))
    BY <1>3, <2>1, <2>2, <2>3, CancelReverter DEF ArmOrCancelReversion
  <2>4. CASE ~NoReversion(ReadField(req[c], OffRvrt))
    <3>1. Schedule(req[c].uid, targets[c])
      BY <1>3, <2>4 DEF ArmOrCancelReversion
    <3>2. QED
      BY <2>1, <2>2, <3>1, ScheduleReverter
  <2>5. QED
    BY <2>3, <2>4
<1>4. ASSUME NEW h \in Handle, Expire(h) PROVE ReverterInv'
  <2>1. /\ timer[h].st = "armed"
        /\ timer' = [timer EXCEPT ![h].st = "due"]
        /\ UNCHANGED <<pending, overtaken>>
    BY <1>4 DEF Expire, history
  <2>2. /\ timer'[h].st = "due" /\ timer'[h].uid = timer[h].uid
        /\ \A g \in Handle \ {h} : timer'[g] = timer[g]
    BY <2>1 DEF TypeOK, TimersOK, TimerRecord
  <2>3. PendingIsLive'
    BY <2>1, <2>2 DEF PendingIsLive, TypeOK, TimersOK
  <2>4. OrphansAreLateFires'
    BY <2>1, <2>2 DEF OrphansAreLateFires
  <2>5. QED
    BY <2>3, <2>4
<1>5. ASSUME NEW h \in Handle, Fire(h) PROVE ReverterInv'
  <2>1. /\ timer[h].st = "due"
        /\ timer' = [timer EXCEPT ![h].st = "firing"]
        /\ pending' = [pending EXCEPT ![timer[h].uid] = NoTimer]
        /\ overtaken' = IF pending[timer[h].uid] \in {h, NoTimer} THEN overtaken
                        ELSE overtaken \cup {timer[h].uid}
    BY <1>5 DEF Fire
  <2>2. /\ timer'[h].st = "firing" /\ timer'[h].uid = timer[h].uid
        /\ \A g \in Handle \ {h} : timer'[g] = timer[g]
    BY <2>1 DEF TypeOK, TimersOK, TimerRecord
  <2>3. timer[h].uid \in Unit
    BY <2>1 DEF TypeOK, TimersOK
  <2>4. PendingIsLive'
    BY <2>1, <2>2, <2>3 DEF PendingIsLive, TypeOK, TimersOK
  <2>5. OrphansAreLateFires'
    <3> SUFFICES ASSUME NEW g \in Handle, timer'[g].st = "armed",
                        pending'[timer'[g].uid] # g
        PROVE  timer'[g].uid \in overtaken'
      BY DEF OrphansAreLateFires
    <3>1. g # h /\ timer'[g] = timer[g]
      BY <2>2
    <3>2. timer[g].uid \in Unit
      BY <3>1 DEF TypeOK, TimersOK
    <3>3. g # NoTimer
      BY NoneAssumption
    <3>4. CASE pending[timer[g].uid] = g
      <4>1. timer[g].uid = timer[h].uid
        BY <2>1, <2>3, <3>1, <3>2, <3>4 DEF TypeOK, TimersOK
      <4>2. QED
        BY <2>1, <3>1, <3>3, <3>4, <4>1
    <3>5. CASE pending[timer[g].uid] # g
      BY <2>1, <3>1, <3>5 DEF OrphansAreLateFires
    <3>6. QED
      BY <3>4, <3>5
  <2>6. QED
    BY <2>4, <2>5
<1>6. ASSUME NEW h \in Handle, FireRestore(h) \/ FireRestoreFails(h)
      PROVE  ReverterInv'
  <2>1. timer[h].st = "firing" /\ UNCHANGED <<pending, overtaken>>
    BY <1>6 DEF FireRestore, FireRestoreFails, FireAdvance
  <2>2. timer' = IF timer[h].k < Len(timer[h].targets)
                 THEN [timer EXCEPT ![h].k = timer[h].k + 1]
                 ELSE [timer EXCEPT ![h] = FreeTimer]
    BY <1>6 DEF FireRestore, FireRestoreFails, FireAdvance
  <2>3. \A g \in Handle \ {h} : timer'[g] = timer[g]
    BY <2>2 DEF TypeOK, TimersOK
  <2>4. timer'[h].st # "armed"
    <3>1. CASE timer[h].k < Len(timer[h].targets)
      BY <2>1, <2>2, <3>1 DEF TypeOK, TimersOK, TimerRecord
    <3>2. CASE ~(timer[h].k < Len(timer[h].targets))
      BY <2>2, <3>2 DEF TypeOK, TimersOK, FreeTimer
    <3>3. QED
      BY <3>1, <3>2
  <2>5. \A u \in Unit : pending[u] # h
    BY <2>1, NoneAssumption DEF PendingIsLive
  <2>6. PendingIsLive'
    BY <2>1, <2>3, <2>5 DEF PendingIsLive, TypeOK, TimersOK
  <2>7. OrphansAreLateFires'
    BY <2>1, <2>3, <2>4 DEF OrphansAreLateFires
  <2>8. QED
    BY <2>6, <2>7
<1>7. ASSUME Refresh PROVE ReverterInv'
  BY <1>7 DEF Refresh, reverter, history, PendingIsLive, OrphansAreLateFires
<1>8. ASSUME StopReverter PROVE ReverterInv'
  <2>1. /\ timer' = Stopped({pending[u] : u \in Unit})
        /\ pending' = [u \in Unit |-> NoTimer]
        /\ UNCHANGED overtaken
    BY <1>8 DEF StopReverter, history
  <2>2. PendingIsLive'
    BY <2>1 DEF PendingIsLive
  <2>3. OrphansAreLateFires'
    <3> SUFFICES ASSUME NEW h \in Handle, timer'[h].st = "armed"
        PROVE  timer'[h].uid \in overtaken
      BY <2>1 DEF OrphansAreLateFires
    <3>1. timer'[h] = timer[h] /\ h \notin {pending[u] : u \in Unit}
      BY <2>1 DEF Stopped, FreeTimer
    <3>2. timer[h].uid \in Unit
      BY <3>1 DEF TypeOK, TimersOK
    <3>3. QED
      BY <3>1, <3>2 DEF OrphansAreLateFires
  <2>4. QED
    BY <2>2, <2>3
<1>9. ASSUME Restart PROVE ReverterInv'
  BY <1>9 DEF Restart, PendingIsLive, OrphansAreLateFires, FreeTimer
<1>10. CASE UNCHANGED vars
  BY <1>10 DEF vars, reverter, history, PendingIsLive, OrphansAreLateFires
<1>11. QED
  BY <1>1, <1>2, <1>3, <1>4, <1>5, <1>6, <1>7, <1>8, <1>9, <1>10
     DEF Next, HandlerStep, TimerStep

LEMMA ReverterCorrect == Spec => []ReverterInv
<1>1. QED
  BY TypeCorrect, ReverterInit, ReverterStep, PTL DEF Spec

\* Every entry of Reverter.timers is a timer of its unit that has not fired,
\* under every interleaving of handlers, timers, refreshes, stops and crashes.
THEOREM PendingCorrect == Spec => []PendingIsLive
<1>1. ReverterInv => PendingIsLive
  BY DEF ReverterInv
<1>2. QED
  BY <1>1, ReverterCorrect, PTL

\* A timer that runs out of reach of Cancel and Stop is always the doing of a
\* late goroutine of fire, and of nothing else.
THEOREM OrphansCorrect == Spec => []OrphansAreLateFires
<1>1. ReverterInv => OrphansAreLateFires
  BY DEF ReverterInv
<1>2. QED
  BY <1>1, ReverterCorrect, PTL

----------------------------------------------------------------------------
(* No reversion is lost, under one controller.                             *)

\* The conditions under which the code keeps every reversion: one client, a
\* fleet in one order, statements that succeed, and a server that runs on.
\* Each of them is needed: see the restrictions in the README.
OneController ==
    /\ \A c, d \in Client : c = d
    /\ \A f, g \in Fleets : f = g
    /\ ~SqlMayFail
    /\ ~MayStop

\* Timers and handlers hold what their unit stands for, whenever it was read.
TargetsAreFleets ==
    /\ snap = << >> \/ snap \in Fleets
    /\ \A h \in Handle : timer[h].st # "free" =>
           \E f \in Fleets : timer[h].targets = TargetUIDs(f, timer[h].uid)
    /\ \A c \in Client : pc[c] # "idle" =>
           \E f \in Fleets : targets[c] = TargetUIDs(f, req[c].uid)

\* What applyCap has capped so far is under no reversion, until it arms one.
CappedAreUnleased ==
    \A c \in Client :
        /\ pc[c] = "cap" => \A j \in 1 .. k[c] - 1 : ~leased[targets[c][j]]
        /\ pc[c] = "arm" => \A j \in 1 .. Len(targets[c]) : ~leased[targets[c][j]]

LeaseInv == TargetsAreFleets /\ CappedAreUnleased /\ LeaseIsBacked

\* The targets of a slice that a loop which is at a has not passed.
StillIn(ts, a, i) == \E j \in a .. Len(ts) : ts[j] = i

Backed(i) ==
    \/ \E h \in Handle : timer[h].st # "free" /\ StillIn(timer[h].targets, timer[h].k, i)
    \/ \E c \in Client : pc[c] = "restore" /\ StillIn(targets[c], k[c], i)

LEMMA BackedIsBacked == LeaseIsBacked <=> \A i \in Inverter : leased[i] => Backed(i)
BY DEF LeaseIsBacked, Backed, WillLift, WillRestore, StillIn

\* One turn of a loop passes one target.
LEMMA TurnOfLoop ==
    ASSUME NEW ts \in Seq(Inverter), NEW a \in 1 .. Len(ts), NEW i,
           StillIn(ts, a, i), i # ts[a]
    PROVE  a < Len(ts) /\ StillIn(ts, a + 1, i)
<1>1. PICK j \in a .. Len(ts) : ts[j] = i
  BY DEF StillIn
<1>2. Len(ts) \in Nat /\ a \in Nat /\ j \in Int /\ j # a
  BY <1>1
<1>3. j \in a + 1 .. Len(ts)
  BY <1>1, <1>2
<1>4. QED
  BY <1>1, <1>2, <1>3 DEF StillIn

LEMMA AllAreInSlice ==
    ASSUME NEW ts, NEW i
    PROVE  StillIn(ts, 1, i) <=> \E j \in 1 .. Len(ts) : ts[j] = i
BY DEF StillIn

LEMMA StillInSlice ==
    ASSUME NEW ts \in Seq(Inverter), NEW a \in Nat \ {0}, NEW i, StillIn(ts, a, i)
    PROVE  StillIn(ts, 1, i)
BY DEF StillIn

\* A step that neither starts a timer nor takes a write in keeps the targets.
KeptTimers ==
    \A h \in Handle : timer'[h].st # "free" =>
        /\ timer[h].st # "free"
        /\ timer'[h].uid = timer[h].uid
        /\ timer'[h].targets = timer[h].targets

KeptHandlers ==
    \A c \in Client : pc'[c] # "idle" =>
        /\ pc[c] # "idle"
        /\ req'[c] = req[c]
        /\ targets'[c] = targets[c]

LEMMA KeptTargets ==
    ASSUME TargetsAreFleets, KeptTimers, KeptHandlers, snap' = snap
    PROVE  TargetsAreFleets'
BY DEF TargetsAreFleets, KeptTimers, KeptHandlers

\* What Advance does to the handler that takes it, and that it does nothing
\* to the others.
LEMMA AdvanceHandlers ==
    ASSUME TypeOK, NEW c \in Client, NEW stage \in Stages, pc[c] # "idle",
           Advance(c, stage)
    PROVE  /\ KeptHandlers
           /\ \/ /\ k[c] < Len(targets[c])
                 /\ pc'[c] = pc[c] /\ k'[c] = k[c] + 1 /\ targets'[c] = targets[c]
              \/ /\ ~(k[c] < Len(targets[c]))
                 /\ pc'[c] = stage /\ k'[c] = 1
<1> USE DEF TypeOK, HandlersOK
<1>1. CASE k[c] < Len(targets[c])
  BY <1>1 DEF Advance, KeptHandlers
<1>2. CASE ~(k[c] < Len(targets[c]))
  <2>1. /\ pc' = [pc EXCEPT ![c] = stage]
        /\ k' = [k EXCEPT ![c] = 1]
        /\ IF stage = "idle"
           THEN /\ req' = [req EXCEPT ![c] = NoRequest]
                /\ targets' = [targets EXCEPT ![c] = << >>]
           ELSE UNCHANGED <<req, targets>>
    BY <1>2 DEF Advance, GoTo
  <2>2. pc'[c] = stage /\ k'[c] = 1
    BY <2>1
  <2>3. KeptHandlers
    <3>1. CASE stage = "idle"
      BY <2>1, <3>1 DEF KeptHandlers
    <3>2. CASE stage # "idle"
      BY <2>1, <3>2 DEF KeptHandlers
    <3>3. QED
      BY <3>1, <3>2
  <2>4. QED
    BY <1>2, <2>2, <2>3
<1>3. QED
  BY <1>1, <1>2

LEMMA GoToHandlers ==
    ASSUME TypeOK, NEW c \in Client, NEW stage \in Stages, pc[c] # "idle",
           GoTo(c, stage)
    PROVE  KeptHandlers /\ pc'[c] = stage /\ k'[c] = 1
<1> USE DEF TypeOK, HandlersOK
<1>1. /\ pc' = [pc EXCEPT ![c] = stage]
      /\ k' = [k EXCEPT ![c] = 1]
      /\ IF stage = "idle"
         THEN /\ req' = [req EXCEPT ![c] = NoRequest]
              /\ targets' = [targets EXCEPT ![c] = << >>]
         ELSE UNCHANGED <<req, targets>>
  BY DEF GoTo
<1>2. KeptHandlers
  <2>1. CASE stage = "idle"
    BY <1>1, <2>1 DEF KeptHandlers
  <2>2. CASE stage # "idle"
    BY <1>1, <2>2 DEF KeptHandlers
  <2>3. QED
    BY <2>1, <2>2
<1>3. QED
  BY <1>1, <1>2

LEMMA LeaseInit == Init => LeaseInv
BY DEF Init, LeaseInv, TargetsAreFleets, CappedAreUnleased, LeaseIsBacked, FreeTimer

\* A write begins: its targets are those of the fleet.
LEMMA LeaseReceive ==
    ASSUME TypeOK, OneController, LeaseInv, NEW c \in Client, Receive(c)
    PROVE  LeaseInv'
<1>1. PICK r \in Requests :
          /\ TargetUIDs(snap, r.uid) # << >>
          /\ FirstStage(r) # "idle"
          /\ pc' = [pc EXCEPT ![c] = FirstStage(r)]
          /\ req' = [req EXCEPT ![c] = r]
          /\ targets' = [targets EXCEPT ![c] = TargetUIDs(snap, r.uid)]
          /\ k' = [k EXCEPT ![c] = 1]
  BY DEF Receive
<1>2. UNCHANGED <<timer, leased, snap>> /\ pc[c] = "idle"
  BY DEF Receive, reverter, history
<1>3. \A d \in Client : d = c
  BY DEF OneController
<1>4. pc'[c] = FirstStage(r) /\ req'[c] = r /\ k'[c] = 1 /\ targets'[c] = TargetUIDs(snap, r.uid)
  BY <1>1 DEF TypeOK, HandlersOK
<1>5. TargetsAreFleets'
  <2>1. snap # << >>
    <3>1. r.uid \in 0 .. 255
      BY RequestsAssumption DEF WriteRequest
    <3>2. CASE snap = << >>
      <4>1. TargetUIDs(snap, r.uid) = << >>
        BY <3>1, <3>2, NoFleetNoTargets
      <4>2. QED
        BY <1>1, <4>1
    <3>3. QED
      BY <3>2
  <2>2. snap \in Fleets
    BY <2>1 DEF LeaseInv, TargetsAreFleets
  <2>3. QED
    BY <1>2, <1>3, <1>4, <2>2 DEF LeaseInv, TargetsAreFleets
<1>6. CappedAreUnleased'
  <2>1. FirstStage(r) # "arm"
    BY DEF FirstStage, AfterPower
  <2>2. \A j \in 1 .. k'[c] - 1 : FALSE
    BY <1>4
  <2>3. QED
    BY <1>3, <1>4, <2>1, <2>2 DEF CappedAreUnleased
<1>7. LeaseIsBacked'
  <2>1. \A i \in Inverter : leased[i] => \E h \in Handle : WillLift(h, i)
    BY <1>2, <1>3 DEF LeaseInv, LeaseIsBacked, WillRestore
  <2>2. \A i \in Inverter, h \in Handle : WillLift(h, i) => WillLift(h, i)'
    BY <1>2 DEF WillLift
  <2>3. QED
    BY <1>2, <2>1, <2>2 DEF LeaseIsBacked
<1>8. QED
  BY <1>5, <1>6, <1>7 DEF LeaseInv

\* What stopping the timer of one unit leaves behind, and what its targets are.
LEMMA StopOfTargets ==
    ASSUME TypeOK, PendingIsLive, OneController, LeaseInv, NEW c \in Client,
           pc[c] # "idle"
    PROVE  \A h \in Handle :
              \/ Stopped({pending[req[c].uid]})[h] = timer[h]
              \/ /\ Stopped({pending[req[c].uid]})[h] = FreeTimer
                 /\ timer[h].targets = targets[c]
<1> SUFFICES ASSUME NEW h \in Handle, Stopped({pending[req[c].uid]})[h] # timer[h]
    PROVE  /\ Stopped({pending[req[c].uid]})[h] = FreeTimer
           /\ timer[h].targets = targets[c]
  OBVIOUS
<1>1. /\ timer[h].st = "armed"
      /\ h = pending[req[c].uid]
      /\ Stopped({pending[req[c].uid]})[h] = FreeTimer
  BY DEF Stopped
<1>2. req[c].uid \in Unit
  BY DEF TypeOK, HandlersOK, Unit
<1>3. timer[h].uid = req[c].uid
  BY <1>1, <1>2, NoneAssumption DEF PendingIsLive
<1>4. PICK f \in Fleets : timer[h].targets = TargetUIDs(f, timer[h].uid)
  BY <1>1 DEF LeaseInv, TargetsAreFleets
<1>5. PICK g \in Fleets : targets[c] = TargetUIDs(g, req[c].uid)
  BY DEF LeaseInv, TargetsAreFleets
<1>6. f = g
  BY DEF OneController
<1>7. QED
  BY <1>1, <1>3, <1>4, <1>5, <1>6

\* Ena = 0: whatever the cancelled timer was to lift, the handler now restores.
LEMMA LeaseCancelReversion ==
    ASSUME TypeOK, PendingIsLive, OneController, LeaseInv, NEW c \in Client,
           CancelReversion(c)
    PROVE  LeaseInv'
<1>1. /\ pc[c] = "cancel"
      /\ timer' = Stopped({pending[req[c].uid]})
      /\ GoTo(c, "restore")
      /\ UNCHANGED <<snap, leased>>
  BY DEF CancelReversion, Cancel, history
<1>2. KeptHandlers /\ pc'[c] = "restore" /\ k'[c] = 1 /\ targets'[c] = targets[c]
  BY <1>1, GoToHandlers DEF Stages, KeptHandlers
<1>3. \A h \in Handle : \/ timer'[h] = timer[h]
                        \/ /\ timer'[h] = FreeTimer
                           /\ timer[h].targets = targets[c]
  BY <1>1, StopOfTargets
<1>4. TargetsAreFleets'
  <2>1. KeptTimers
    BY <1>3 DEF KeptTimers, FreeTimer
  <2>2. QED
    BY <1>1, <1>2, <2>1, KeptTargets DEF LeaseInv
<1>5. \A d \in Client : d = c
  BY DEF OneController
<1>6. CappedAreUnleased'
  BY <1>2, <1>5 DEF CappedAreUnleased
<1>7. ASSUME NEW i \in Inverter, leased[i] PROVE Backed(i)'
  <2>1. PICK h \in Handle : timer[h].st # "free" /\ StillIn(timer[h].targets, timer[h].k, i)
    BY <1>1, <1>5, <1>7, BackedIsBacked DEF LeaseInv, Backed
  <2>2. CASE timer'[h] = timer[h]
    BY <2>1, <2>2 DEF Backed, StillIn
  <2>3. CASE timer[h].targets = targets[c]
    <3>1. timer[h].targets \in Seq(Inverter) /\ timer[h].k \in Nat \ {0}
      BY <2>1 DEF TypeOK, TimersOK, TimerRecord
    <3>2. StillIn(targets[c], 1, i)
      BY <2>1, <2>3, <3>1, StillInSlice
    <3>3. QED
      BY <1>2, <3>2 DEF Backed, StillIn
  <2>4. QED
    BY <1>3, <2>2, <2>3
<1>8. LeaseIsBacked'
  BY <1>1, <1>7 DEF LeaseIsBacked, Backed, WillLift, WillRestore, StillIn
<1>9. QED
  BY <1>4, <1>6, <1>8 DEF LeaseInv

\* One statement of the loop of Ena = 0.
LEMMA LeaseRestoreFull ==
    ASSUME TypeOK, OneController, LeaseInv, NEW c \in Client, RestoreFull(c)
    PROVE  LeaseInv'
<1>1. /\ pc[c] = "restore"
      /\ leased' = [leased EXCEPT ![targets[c][k[c]]] = FALSE]
      /\ Advance(c, AfterPower(req[c]))
      /\ UNCHANGED <<snap, timer>>
  BY DEF RestoreFull, EndLease, reverter
<1>2. AfterPower(req[c]) \in Stages /\ AfterPower(req[c]) \notin {"cap", "arm"}
  BY StageTypes DEF AfterPower
<1>3. /\ KeptHandlers
      /\ \/ /\ k[c] < Len(targets[c])
            /\ pc'[c] = "restore" /\ k'[c] = k[c] + 1 /\ targets'[c] = targets[c]
         \/ ~(k[c] < Len(targets[c])) /\ pc'[c] = AfterPower(req[c])
  BY <1>1, <1>2, AdvanceHandlers
<1>4. \A d \in Client : d = c
  BY DEF OneController
<1>5. TargetsAreFleets'
  <2>1. KeptTimers
    BY <1>1 DEF KeptTimers
  <2>2. QED
    BY <1>1, <1>3, <2>1, KeptTargets DEF LeaseInv
<1>6. CappedAreUnleased'
  BY <1>2, <1>3, <1>4 DEF CappedAreUnleased
<1>7. ASSUME NEW i \in Inverter, leased'[i] PROVE Backed(i)'
  <2>1. leased[i] /\ i # targets[c][k[c]]
    BY <1>1, <1>7, CurrentTarget DEF TypeOK
  <2>2. Backed(i)
    BY <2>1, BackedIsBacked DEF LeaseInv
  <2>3. CASE \E h \in Handle : timer[h].st # "free"
                               /\ StillIn(timer[h].targets, timer[h].k, i)
    BY <1>1, <2>3 DEF Backed, StillIn
  <2>4. CASE StillIn(targets[c], k[c], i)
    <3>1. targets[c] \in Seq(Inverter) /\ k[c] \in 1 .. Len(targets[c])
      BY <1>1 DEF TypeOK, HandlersOK
    <3>2. k[c] < Len(targets[c]) /\ StillIn(targets[c], k[c] + 1, i)
      BY <2>1, <2>4, <3>1, TurnOfLoop
    <3>3. StillIn(targets'[c], k'[c], i) /\ pc'[c] = "restore"
      BY <1>3, <3>2
    <3>4. QED
      BY <3>3 DEF Backed, StillIn
  <2>5. QED
    BY <1>4, <2>2, <2>3, <2>4 DEF Backed
<1>8. LeaseIsBacked'
  BY <1>7 DEF LeaseIsBacked, Backed, WillLift, WillRestore, StillIn
<1>9. QED
  BY <1>5, <1>6, <1>8 DEF LeaseInv

\* One statement of applyCap: what it capped is under no reversion any more.
LEMMA LeaseApplyCap ==
    ASSUME TypeOK, OneController, LeaseInv, NEW c \in Client, ApplyCap(c)
    PROVE  LeaseInv'
<1>1. /\ pc[c] = "cap"
      /\ leased' = [leased EXCEPT ![targets[c][k[c]]] = FALSE]
      /\ Advance(c, AfterCap(req[c]))
      /\ UNCHANGED <<snap, timer>>
  BY DEF ApplyCap, EndLease, reverter
<1>2. AfterCap(req[c]) \in Stages /\ AfterCap(req[c]) # "cap"
  BY StageTypes DEF AfterCap, AfterPower
<1>3. /\ KeptHandlers
      /\ \/ /\ k[c] < Len(targets[c])
            /\ pc'[c] = "cap" /\ k'[c] = k[c] + 1 /\ targets'[c] = targets[c]
         \/ ~(k[c] < Len(targets[c])) /\ pc'[c] = AfterCap(req[c])
  BY <1>1, <1>2, AdvanceHandlers
<1>4. \A d \in Client : d = c
  BY DEF OneController
<1>5. TargetsAreFleets'
  <2>1. KeptTimers
    BY <1>1 DEF KeptTimers
  <2>2. QED
    BY <1>1, <1>3, <2>1, KeptTargets DEF LeaseInv
<1>6. targets[c] \in Seq(Inverter) /\ k[c] \in 1 .. Len(targets[c])
  BY <1>1 DEF TypeOK, HandlersOK
<1>7. ASSUME NEW j \in 1 .. k[c] PROVE ~leased'[targets[c][j]]
  <2>1. targets[c][j] \in Inverter
    BY <1>6
  <2>2. CASE targets[c][j] = targets[c][k[c]]
    BY <1>1, <2>1, <2>2 DEF TypeOK
  <2>3. CASE targets[c][j] # targets[c][k[c]]
    <3>1. j \in 1 .. k[c] - 1
      BY <1>6, <2>3
    <3>2. ~leased[targets[c][j]]
      BY <1>1, <3>1 DEF LeaseInv, CappedAreUnleased
    <3>3. QED
      BY <1>1, <2>1, <2>3, <3>2 DEF TypeOK
  <2>4. QED
    BY <2>2, <2>3
<1>8. CappedAreUnleased'
  <2>1. CASE /\ k[c] < Len(targets[c])
             /\ pc'[c] = "cap" /\ k'[c] = k[c] + 1 /\ targets'[c] = targets[c]
    <3>1. k'[c] - 1 = k[c]
      BY <1>6, <2>1
    <3>2. QED
      BY <1>4, <1>7, <2>1, <3>1 DEF CappedAreUnleased
  <2>2. CASE ~(k[c] < Len(targets[c])) /\ pc'[c] = AfterCap(req[c])
    <3>1. Len(targets[c]) = k[c]
      BY <1>6, <2>2
    <3>2. pc'[c] = "arm" => targets'[c] = targets[c]
      BY <1>3 DEF KeptHandlers
    <3>3. QED
      BY <1>2, <1>4, <1>7, <2>2, <3>1, <3>2 DEF CappedAreUnleased
  <2>3. QED
    BY <1>3, <2>1, <2>2
<1>9. ASSUME NEW i \in Inverter, leased'[i] PROVE Backed(i)'
  <2>1. leased[i]
    BY <1>1, <1>6, <1>9, CurrentTarget DEF TypeOK
  <2>2. PICK h \in Handle : timer[h].st # "free" /\ StillIn(timer[h].targets, timer[h].k, i)
    BY <1>1, <1>4, <2>1, BackedIsBacked DEF LeaseInv, Backed
  <2>3. QED
    BY <1>1, <2>2 DEF Backed, StillIn
<1>10. LeaseIsBacked'
  BY <1>9 DEF LeaseIsBacked, Backed, WillLift, WillRestore, StillIn
<1>11. QED
  BY <1>5, <1>8, <1>10 DEF LeaseInv

\* The end of a write with a percentage: the timer that is replaced was to
\* lift the targets of the write, which the new one lifts all.
LEMMA LeaseArmOrCancel ==
    ASSUME TypeOK, PendingIsLive, OneController, LeaseInv, NEW c \in Client,
           ArmOrCancelReversion(c)
    PROVE  LeaseInv'
<1> DEFINE u == req[c].uid
           was == Stopped({pending[u]})
<1>1. pc[c] = "arm" /\ GoTo(c, AfterPower(req[c])) /\ UNCHANGED snap
  BY DEF ArmOrCancelReversion
<1>2. AfterPower(req[c]) \in Stages /\ AfterPower(req[c]) \notin {"cap", "arm"}
  BY StageTypes DEF AfterPower
<1>3. KeptHandlers /\ pc'[c] = AfterPower(req[c])
  BY <1>1, <1>2, GoToHandlers
<1>4. \A d \in Client : d = c
  BY DEF OneController
<1>5. \A h \in Handle : \/ was[h] = timer[h]
                        \/ was[h] = FreeTimer /\ timer[h].targets = targets[c]
  BY <1>1, StopOfTargets
<1>6. CappedAreUnleased'
  BY <1>2, <1>3, <1>4 DEF CappedAreUnleased
<1>7. targets[c] \in Seq(Inverter)
  BY DEF TypeOK, HandlersOK
<1>8. \A i \in Inverter : leased[i] =>
          \E h \in Handle : timer[h].st # "free" /\ StillIn(timer[h].targets, timer[h].k, i)
  BY <1>1, <1>4, BackedIsBacked DEF LeaseInv, Backed
<1>9. CASE NoReversion(ReadField(req[c], OffRvrt))
  <2>1. timer' = was /\ leased' = leased
    BY <1>9 DEF ArmOrCancelReversion, Cancel
  <2>2. TargetsAreFleets'
    <3>1. KeptTimers
      <4>1. ASSUME NEW h \in Handle, timer'[h].st # "free" PROVE timer'[h] = timer[h]
        <5> HIDE DEF was
        <5> QED
          BY <1>5, <2>1, <4>1 DEF FreeTimer
      <4>2. QED
        BY <4>1 DEF KeptTimers
    <3>2. QED
      BY <1>1, <1>3, <3>1, KeptTargets DEF LeaseInv
  <2>3. ASSUME NEW i \in Inverter, leased[i] PROVE Backed(i)'
    <3>1. PICK h \in Handle : timer[h].st # "free" /\ StillIn(timer[h].targets, timer[h].k, i)
      BY <1>8, <2>3
    <3>2. CASE was[h] = timer[h]
      BY <2>1, <3>1, <3>2 DEF Backed, StillIn
    <3>3. CASE timer[h].targets = targets[c]
      <4>1. timer[h].targets \in Seq(Inverter) /\ timer[h].k \in Nat \ {0}
        BY <3>1 DEF TypeOK, TimersOK, TimerRecord
      <4>2. StillIn(targets[c], 1, i)
        BY <3>1, <3>3, <4>1, StillInSlice
      <4>3. \A j \in 1 .. Len(targets[c]) : ~leased[targets[c][j]]
        BY <1>1 DEF LeaseInv, CappedAreUnleased
      <4>4. QED
        BY <2>3, <4>2, <4>3 DEF StillIn
    <3>4. QED
      BY <1>5, <3>2, <3>3
  <2>4. LeaseIsBacked'
    BY <2>1, <2>3 DEF LeaseIsBacked, Backed, WillLift, WillRestore, StillIn
  <2>5. QED
    BY <1>6, <2>2, <2>4 DEF LeaseInv
<1>10. CASE ~NoReversion(ReadField(req[c], OffRvrt))
  <2>1. /\ Schedule(u, targets[c])
        /\ leased' = [i \in Inverter |->
               leased[i] \/ \E j \in 1 .. Len(targets[c]) : targets[c][j] = i]
    BY <1>10 DEF ArmOrCancelReversion
  <2>2. PICK n \in FreeHandles : timer' = [was EXCEPT ![n] = ArmedTimer(u, targets[c])]
    BY <2>1 DEF Schedule
  <2>3. n \in Handle /\ timer[n].st = "free"
    BY <2>2 DEF FreeHandles
  <2>4. was \in [Handle -> TimerRecord]
    BY StoppedType DEF TypeOK, TimersOK
  <2>5. /\ timer'[n] = ArmedTimer(u, targets[c])
        /\ \A h \in Handle \ {n} : timer'[h] = was[h]
    <3> HIDE DEF was
    <3> QED
      BY <2>2, <2>3, <2>4
  <2>6. /\ timer'[n].st # "free"
        /\ timer'[n].uid = u
        /\ timer'[n].targets = targets[c]
        /\ timer'[n].k = 1
    BY <2>5 DEF ArmedTimer
  <2>7. TargetsAreFleets'
    <3>1. \E f \in Fleets : targets[c] = TargetUIDs(f, u)
      BY <1>1 DEF LeaseInv, TargetsAreFleets
    <3>2. ASSUME NEW h \in Handle, timer'[h].st # "free"
          PROVE  \E f \in Fleets : timer'[h].targets = TargetUIDs(f, timer'[h].uid)
      <4>1. CASE h = n
        BY <2>6, <3>1, <4>1
      <4>2. CASE h # n
        <5>1. timer'[h] = timer[h]
          <6> HIDE DEF was
          <6> QED
            BY <1>5, <2>5, <3>2, <4>2 DEF FreeTimer
        <5>2. QED
          BY <3>2, <5>1 DEF LeaseInv, TargetsAreFleets
      <4>3. QED
        BY <4>1, <4>2
    <3>3. ASSUME NEW d \in Client, pc'[d] # "idle"
          PROVE  \E f \in Fleets : targets'[d] = TargetUIDs(f, req'[d].uid)
      BY <1>3, <3>3 DEF KeptHandlers, LeaseInv, TargetsAreFleets
    <3>4. QED
      BY <1>1, <3>2, <3>3 DEF LeaseInv, TargetsAreFleets
  <2>8. ASSUME NEW i \in Inverter, StillIn(targets[c], 1, i) PROVE Backed(i)'
    BY <2>3, <2>6, <2>8 DEF Backed, StillIn
  <2>9. ASSUME NEW i \in Inverter, leased[i] PROVE Backed(i)'
    <3>1. PICK h \in Handle : timer[h].st # "free" /\ StillIn(timer[h].targets, timer[h].k, i)
      BY <1>8, <2>9
    <3>2. h # n
      BY <2>3, <3>1
    <3>3. CASE was[h] = timer[h]
      BY <2>5, <3>1, <3>2, <3>3 DEF Backed, StillIn
    <3>4. CASE timer[h].targets = targets[c]
      <4>1. timer[h].targets \in Seq(Inverter) /\ timer[h].k \in Nat \ {0}
        BY <3>1 DEF TypeOK, TimersOK, TimerRecord
      <4>2. StillIn(targets[c], 1, i)
        BY <3>1, <3>4, <4>1, StillInSlice
      <4>3. QED
        BY <2>8, <4>2
    <3>5. QED
      BY <1>5, <3>3, <3>4
  <2>10. ASSUME NEW i \in Inverter, leased'[i] PROVE Backed(i)'
    <3>1. leased[i] \/ StillIn(targets[c], 1, i)
      BY <2>1, <2>10, Zenon DEF StillIn
    <3>2. QED
      BY <2>8, <2>9, <3>1
  <2>11. LeaseIsBacked'
    BY <2>10 DEF LeaseIsBacked, Backed, WillLift, WillRestore, StillIn
  <2>12. QED
    BY <1>6, <2>7, <2>11 DEF LeaseInv
<1>11. QED
  BY <1>9, <1>10

\* A timer that expires or enters fire still has all its targets to lift.
LEMMA LeaseExpireOrFire ==
    ASSUME TypeOK, LeaseInv, NEW h \in Handle, Expire(h) \/ Fire(h)
    PROVE  LeaseInv'
<1>1. /\ UNCHANGED <<snap, pc, req, targets, k, leased>>
      /\ timer[h].st # "free"
      /\ \/ timer' = [timer EXCEPT ![h].st = "due"]
         \/ timer' = [timer EXCEPT ![h].st = "firing"]
  BY DEF Expire, Fire, handlers, history
<1>2. \A g \in Handle :
          /\ timer'[g].st # "free" <=> timer[g].st # "free"
          /\ timer'[g].uid = timer[g].uid
          /\ timer'[g].targets = timer[g].targets
          /\ timer'[g].k = timer[g].k
  <2>1. CASE timer' = [timer EXCEPT ![h].st = "due"]
    BY <1>1, <2>1 DEF TypeOK, TimersOK, TimerRecord
  <2>2. CASE timer' = [timer EXCEPT ![h].st = "firing"]
    BY <1>1, <2>2 DEF TypeOK, TimersOK, TimerRecord
  <2>3. QED
    BY <1>1, <2>1, <2>2
<1>3. TargetsAreFleets'
  <2>1. KeptTimers /\ KeptHandlers
    BY <1>1, <1>2 DEF KeptTimers, KeptHandlers
  <2>2. QED
    BY <1>1, <2>1, KeptTargets DEF LeaseInv
<1>4. CappedAreUnleased'
  BY <1>1 DEF LeaseInv, CappedAreUnleased
<1>5. LeaseIsBacked'
  <2>1. \A i \in Inverter, g \in Handle : WillLift(g, i) => WillLift(g, i)'
    BY <1>2 DEF WillLift
  <2>2. \A i \in Inverter, c \in Client : WillRestore(c, i) => WillRestore(c, i)'
    BY <1>1 DEF WillRestore
  <2>3. QED
    BY <1>1, <2>1, <2>2 DEF LeaseInv, LeaseIsBacked
<1>6. QED
  BY <1>3, <1>4, <1>5 DEF LeaseInv

\* One statement of the loop of fire.
LEMMA LeaseFireRestore ==
    ASSUME TypeOK, LeaseInv, NEW h \in Handle, FireRestore(h)
    PROVE  LeaseInv'
<1>1. /\ timer[h].st = "firing"
      /\ leased' = [leased EXCEPT ![timer[h].targets[timer[h].k]] = FALSE]
      /\ timer' = IF timer[h].k < Len(timer[h].targets)
                  THEN [timer EXCEPT ![h].k = timer[h].k + 1]
                  ELSE [timer EXCEPT ![h] = FreeTimer]
      /\ UNCHANGED <<snap, pc, req, targets, k>>
  BY DEF FireRestore, FireAdvance, EndLease, handlers
<1>2. /\ timer[h] \in TimerRecord
      /\ timer[h].targets \in Seq(Inverter)
      /\ timer[h].k \in 1 .. Len(timer[h].targets)
      /\ timer[h].targets[timer[h].k] \in Inverter
  BY <1>1, CurrentTarget DEF TypeOK, TimersOK, TimerRecord
<1>3. \A g \in Handle \ {h} : timer'[g] = timer[g]
  BY <1>1 DEF TypeOK, TimersOK
<1>4. \/ /\ timer[h].k < Len(timer[h].targets)
         /\ timer'[h].st # "free"
         /\ timer'[h].uid = timer[h].uid
         /\ timer'[h].targets = timer[h].targets
         /\ timer'[h].k = timer[h].k + 1
      \/ /\ ~(timer[h].k < Len(timer[h].targets))
         /\ timer'[h].st = "free"
  <2>1. CASE timer[h].k < Len(timer[h].targets)
    BY <1>1, <1>2, <2>1 DEF TypeOK, TimersOK, TimerRecord
  <2>2. CASE ~(timer[h].k < Len(timer[h].targets))
    BY <1>1, <2>2 DEF TypeOK, TimersOK, FreeTimer
  <2>3. QED
    BY <2>1, <2>2
<1>5. TargetsAreFleets'
  <2>1. KeptTimers /\ KeptHandlers
    BY <1>1, <1>3, <1>4 DEF KeptTimers, KeptHandlers
  <2>2. QED
    BY <1>1, <2>1, KeptTargets DEF LeaseInv
<1>6. ASSUME NEW i \in Inverter, leased'[i]
      PROVE  leased[i] /\ i # timer[h].targets[timer[h].k]
  BY <1>1, <1>2, <1>6 DEF TypeOK
<1>7. CappedAreUnleased'
  <2>1. ASSUME NEW c \in Client, pc[c] # "idle", NEW j \in 1 .. Len(targets[c])
        PROVE  targets[c][j] \in Inverter
    BY DEF TypeOK, HandlersOK
  <2>2. ASSUME NEW c \in Client, pc[c] # "idle"
        PROVE  Len(targets[c]) \in Nat /\ k[c] \in 1 .. Len(targets[c])
    BY <2>2 DEF TypeOK, HandlersOK
  <2>3. ASSUME NEW c \in Client, pc[c] = "cap", NEW j \in 1 .. k[c] - 1
        PROVE  ~leased'[targets[c][j]]
    <3>1. j \in 1 .. Len(targets[c])
      BY <2>2, <2>3
    <3>2. targets[c][j] \in Inverter
      BY <2>1, <2>3, <3>1
    <3>3. QED
      BY <1>6, <2>3, <3>2 DEF LeaseInv, CappedAreUnleased
  <2>4. ASSUME NEW c \in Client, pc[c] = "arm", NEW j \in 1 .. Len(targets[c])
        PROVE  ~leased'[targets[c][j]]
    BY <1>6, <2>1, <2>4 DEF LeaseInv, CappedAreUnleased
  <2>5. QED
    BY <1>1, <2>3, <2>4 DEF CappedAreUnleased
<1>8. ASSUME NEW i \in Inverter, leased'[i] PROVE Backed(i)'
  <2>1. leased[i] /\ i # timer[h].targets[timer[h].k]
    BY <1>6, <1>8
  <2>2. Backed(i)
    BY <2>1, BackedIsBacked DEF LeaseInv
  <2>3. CASE \E c \in Client : pc[c] = "restore" /\ StillIn(targets[c], k[c], i)
    BY <1>1, <2>3 DEF Backed, StillIn
  <2>4. ASSUME NEW g \in Handle, timer[g].st # "free",
               StillIn(timer[g].targets, timer[g].k, i)
        PROVE  Backed(i)'
    <3>1. CASE g = h
      <4>1. timer[h].k < Len(timer[h].targets)
            /\ StillIn(timer[h].targets, timer[h].k + 1, i)
        BY <1>2, <2>1, <2>4, <3>1, TurnOfLoop
      <4>2. timer'[h].st # "free" /\ StillIn(timer'[h].targets, timer'[h].k, i)
        BY <1>4, <4>1
      <4>3. QED
        BY <4>2 DEF Backed, StillIn
    <3>2. CASE g # h
      BY <1>3, <2>4, <3>2 DEF Backed, StillIn
    <3>3. QED
      BY <3>1, <3>2
  <2>5. QED
    BY <2>2, <2>3, <2>4 DEF Backed
<1>9. LeaseIsBacked'
  BY <1>8 DEF LeaseIsBacked, Backed, WillLift, WillRestore, StillIn
<1>10. QED
  BY <1>5, <1>7, <1>9 DEF LeaseInv

LEMMA LeaseStep ==
    TypeOK /\ PendingIsLive /\ OneController /\ LeaseInv /\ [Next]_vars => LeaseInv'
<1> SUFFICES ASSUME TypeOK, PendingIsLive, OneController, LeaseInv, [Next]_vars
    PROVE LeaseInv'
  OBVIOUS
<1>1. ASSUME NEW c \in Client, ApplyConn(c) PROVE LeaseInv'
  <2>1. /\ pc[c] = "conn"
        /\ Advance(c, "idle")
        /\ UNCHANGED <<snap, timer, leased>>
    BY <1>1 DEF ApplyConn, reverter, history
  <2>2. KeptHandlers /\ pc'[c] \in {"conn", "idle"}
    BY <2>1, AdvanceHandlers DEF Stages
  <2>3. \A d \in Client : d = c
    BY DEF OneController
  <2>4. TargetsAreFleets'
    <3>1. KeptTimers
      BY <2>1 DEF KeptTimers
    <3>2. QED
      BY <2>1, <2>2, <3>1, KeptTargets DEF LeaseInv
  <2>5. CappedAreUnleased'
    BY <2>2, <2>3 DEF CappedAreUnleased
  <2>6. LeaseIsBacked'
    <3>1. \A i \in Inverter : leased[i] => \E h \in Handle : WillLift(h, i)
      BY <2>1, <2>3 DEF LeaseInv, LeaseIsBacked, WillRestore
    <3>2. \A i \in Inverter, h \in Handle : WillLift(h, i) => WillLift(h, i)'
      BY <2>1 DEF WillLift
    <3>3. QED
      BY <2>1, <3>1, <3>2 DEF LeaseIsBacked
  <2>7. QED
    BY <2>4, <2>5, <2>6 DEF LeaseInv
<1>2. ASSUME NEW c \in Client, Receive(c) \/ HandlerStep(c) PROVE LeaseInv'
  <2>1. ~ApplyFails(c)
    BY DEF ApplyFails, OneController
  <2>2. QED
    BY <1>1, <1>2, <2>1, LeaseReceive, LeaseCancelReversion, LeaseRestoreFull,
       LeaseApplyCap, LeaseArmOrCancel DEF HandlerStep
<1>3. ASSUME NEW h \in Handle, TimerStep(h) PROVE LeaseInv'
  <2>1. ~FireRestoreFails(h)
    BY DEF FireRestoreFails, OneController
  <2>2. QED
    BY <1>3, <2>1, LeaseExpireOrFire, LeaseFireRestore DEF TimerStep
<1>4. ASSUME Refresh PROVE LeaseInv'
  BY <1>4 DEF Refresh, handlers, reverter, history, LeaseInv, TargetsAreFleets,
              CappedAreUnleased, LeaseIsBacked, WillLift, WillRestore
<1>5. ~StopReverter /\ ~Restart
  BY DEF StopReverter, Restart, OneController
<1>6. CASE UNCHANGED vars
  BY <1>6 DEF vars, handlers, reverter, history, LeaseInv, TargetsAreFleets,
              CappedAreUnleased, LeaseIsBacked, WillLift, WillRestore
<1>7. QED
  BY <1>2, <1>3, <1>4, <1>5, <1>6 DEF Next

\* With one controller and a stable fleet no reversion that was scheduled is
\* ever lost, in whatever order handler, timers and refreshes take their steps.
THEOREM LeasesCorrect == OneController /\ Spec => []LeaseIsBacked
<1>1. LeaseInv => LeaseIsBacked
  BY DEF LeaseInv
<1>2. OneController => OneController'
  BY DEF OneController
<1>3. QED
  BY <1>1, <1>2, TypeCorrect, PendingCorrect, LeaseInit, LeaseStep, PTL DEF Spec

----------------------------------------------------------------------------
(* What the runs that find a violation need, beyond their one cause.       *)

\* Late goroutines of fire are the only way to two running timers: until one
\* has discarded another's handle, Schedule does what its comment says.
THEOREM SingleTimerCorrect == Spec => [](overtaken = {} => SingleTimer)
<1>1. OrphansAreLateFires => (overtaken = {} => SingleTimer)
  BY DEF OrphansAreLateFires, SingleTimer
<1>2. QED
  BY <1>1, OrphansCorrect, PTL

\* One client, whose writes all address the same unit.
OneClient == \A c, d \in Client : c = d
OneUnit   == \A q, r \in Requests : q.uid = r.uid

\* While the only handler restores the targets of a unit, the Reverter has no
\* entry for it.
RestoredHaveNoEntry ==
    \A c \in Client : pc[c] = "restore" => pending[req[c].uid] = NoTimer

LEMMA RestoredStep ==
    TypeOK /\ OneClient /\ RestoredHaveNoEntry /\ [Next]_vars => RestoredHaveNoEntry'
<1> SUFFICES ASSUME TypeOK, OneClient, RestoredHaveNoEntry, [Next]_vars,
                    NEW c \in Client, pc'[c] = "restore"
             PROVE  pending'[req'[c].uid] = NoTimer
  BY DEF RestoredHaveNoEntry
<1> USE DEF TypeOK, TimersOK
<1>1. CASE Receive(c) \/ ArmOrCancelReversion(c) \/ ApplyFails(c)
  <2>1. \A r : FirstStage(r) # "restore" /\ AfterPower(r) \in {"conn", "idle"}
    BY DEF FirstStage, AfterPower
  <2>2. \A s : GoTo(c, s) => pc'[c] = s
    BY DEF GoTo, HandlersOK
  <2>3. CASE Receive(c)
    <3>1. \E r \in Requests : pc'[c] = FirstStage(r)
      BY <2>3 DEF Receive, HandlersOK
    <3>2. QED
      BY <2>1, <3>1
  <2>4. QED
    BY <1>1, <2>1, <2>2, <2>3 DEF ArmOrCancelReversion, ApplyFails
<1>2. CASE CancelReversion(c)
  <2>1. pc[c] = "cancel" /\ Cancel(req[c].uid) /\ GoTo(c, "restore")
    BY <1>2 DEF CancelReversion
  <2>2. req'[c] = req[c] /\ req[c].uid \in Unit
    BY <2>1 DEF GoTo, HandlersOK, Unit
  <2>3. QED
    BY <2>1, <2>2 DEF Cancel
<1>3. CASE RestoreFull(c) \/ ApplyCap(c) \/ ApplyConn(c)
  <2>1. PICK stage \in {"arm", "conn", "idle"} :
            pc[c] # "idle" /\ Advance(c, stage) /\ UNCHANGED pending
    BY <1>3 DEF RestoreFull, ApplyCap, ApplyConn, AfterPower, AfterCap, reverter
  <2>2. pc'[c] = pc[c] /\ req'[c] = req[c]
    BY <2>1, AdvanceHandlers DEF Stages, KeptHandlers
  <2>3. QED
    BY <2>1, <2>2 DEF RestoredHaveNoEntry
<1>4. CASE /\ UNCHANGED handlers
           /\ \A u \in Unit : pending'[u] \in {pending[u], NoTimer}
  <2>1. req[c].uid \in Unit /\ pending[req[c].uid] = NoTimer
    BY <1>4 DEF handlers, RestoredHaveNoEntry, HandlersOK, Unit
  <2>2. QED
    BY <1>4, <2>1 DEF handlers
<1>5. ASSUME NEW h \in Handle, TimerStep(h)
      PROVE  UNCHANGED handlers /\ \A u \in Unit : pending'[u] \in {pending[u], NoTimer}
  BY <1>5 DEF TimerStep, Expire, Fire, FireRestore, FireRestoreFails, FireAdvance
<1>6. ASSUME Refresh \/ StopReverter \/ UNCHANGED vars
      PROVE  UNCHANGED handlers /\ \A u \in Unit : pending'[u] \in {pending[u], NoTimer}
  BY <1>6 DEF Refresh, StopReverter, vars, reverter
<1>7. ASSUME Restart PROVE FALSE
  BY <1>7 DEF Restart
<1>8. ASSUME NEW d \in Client, Receive(d) \/ HandlerStep(d)
      PROVE  Receive(c) \/ HandlerStep(c)
  BY <1>8 DEF OneClient
<1>9. QED
  BY <1>1, <1>2, <1>3, <1>4, <1>5, <1>6, <1>7, <1>8 DEF Next, HandlerStep

\* For one client that writes to one unit, late goroutines of fire are also the
\* only reason why a restore may leave a timer that lifts what it restores.
THEOREM RestoreCorrect ==
    OneClient /\ OneUnit /\ Spec => [](overtaken = {} => RestoreCancelsReversion)
<1>1. Init => RestoredHaveNoEntry
  BY DEF Init, RestoredHaveNoEntry
<1>2. ASSUME TypeOK, OneUnit, RestoredHaveNoEntry, OrphansAreLateFires, overtaken = {}
      PROVE  RestoreCancelsReversion
  <2> SUFFICES ASSUME NEW c \in Client, pc[c] = "restore",
                      NEW h \in Handle, timer[h].st = "armed"
               PROVE  FALSE
    BY <1>2 DEF RestoreCancelsReversion, WillRestore
  <2>1. timer[h].uid \in Unit /\ req[c] \in Requests
    BY <1>2 DEF TypeOK, TimersOK, HandlersOK
  <2>2. timer[h].uid = req[c].uid
    BY <1>2, <2>1 DEF Unit, OneUnit
  <2>3. pending[timer[h].uid] = h
    BY <1>2 DEF OrphansAreLateFires
  <2>4. QED
    BY <1>2, <2>2, <2>3, NoneAssumption DEF RestoredHaveNoEntry
<1>3. OneClient /\ OneUnit => (OneClient /\ OneUnit)'
  BY DEF OneClient, OneUnit
<1>4. QED
  BY <1>1, <1>2, <1>3, RestoredStep, TypeCorrect, OrphansCorrect, PTL DEF Spec
=============================================================================
