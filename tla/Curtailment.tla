---------------------------- MODULE Curtailment ----------------------------
(***************************************************************************)
(* SunSpec Model 123 (immediate controls) as this server implements it:    *)
(* the ControlsWriter that turns one register write into SQL statements on *)
(* database.db, the Reverter that lifts a cap when its reversion time runs *)
(* out, and the refresh loop that replaces the fleet under both.           *)
(*                                                                         *)
(* Processes: one handler goroutine per Modbus client, one goroutine per   *)
(* expired timer, the refresh loop, and the shutdown path. One SQL         *)
(* statement, one critical section of Reverter.mu and one load of the      *)
(* snapshot pointer are one step each. Every UPDATE of a power row also    *)
(* flags it for main.exe, the ECU firmware; what main.exe does with it     *)
(* does not act back on this state, so the flag is left out.               *)
(***************************************************************************)
EXTENDS WriteRules

CONSTANTS
    Client,       \* client connections, each with one handler goroutine
    Inverter,     \* inverter UIDs
    Handle,       \* timer handles (*time.Timer); bounds the live timers
    Fleets,       \* the inverter orders a refresh may publish
    Requests,     \* the writes that clients send
    SqlMayFail,   \* whether a statement can fail (database locked)
    MayStop,      \* whether the server is stopped, or dies and is restarted
    NoRequest,    \* the request of an idle handler
    NoTimer       \* no entry in Reverter.timers

ASSUME FleetsAssumption   == Fleets \subseteq Seq(Inverter)
ASSUME RequestsAssumption == Requests \subseteq WriteRequest
ASSUME SwitchAssumption   == SqlMayFail \in BOOLEAN /\ MayStop \in BOOLEAN
ASSUME NoneAssumption     == NoRequest \notin Requests /\ NoTimer \notin Handle

VARIABLES
    limit,      \* power.limitedpower of each inverter
    onoff,      \* turn_on_off.set_flag of each inverter
    snap,       \* Server.snap: the order of the fleet; << >> before a refresh
    pc,         \* where each handler is in ControlsWriter.Apply
    req,        \* the write it is applying
    targets,    \* the inverters it affects, fixed when the write came in
    k,          \* the target its loop is at
    timer,      \* the timers the runtime knows, with what their closure holds
    pending,    \* Reverter.timers: the handle of each unit
    leased,     \* history: capped under a reversion that was scheduled since
    overtaken   \* history: units for which fire discarded another's handle

tables   == <<limit, onoff>>
handlers == <<pc, req, targets, k>>
reverter == <<timer, pending>>
history  == <<leased, overtaken>>
vars == <<tables, snap, handlers, reverter, history>>

Unit == {r.uid : r \in Requests}

----------------------------------------------------------------------------
(* Timers. A handle is "armed" until it expires, then "due" while the      *)
(* goroutine of fire waits for the mutex, then "firing" through its loop.  *)
(* Stopping a timer that is no longer armed does not stop its goroutine.   *)

FreeTimer == [st |-> "free", uid |-> 0, targets |-> << >>, k |-> 1]

ArmedTimer(u, ts) == [st |-> "armed", uid |-> u, targets |-> ts, k |-> 1]

FreeHandles == {h \in Handle : timer[h].st = "free"}

\* time.Timer.Stop on the handles H.
Stopped(H) ==
    [h \in Handle |-> IF h \in H /\ timer[h].st = "armed" THEN FreeTimer
                                                          ELSE timer[h]]

Cancel(u) ==
    /\ timer' = Stopped({pending[u]})
    /\ pending' = [pending EXCEPT ![u] = NoTimer]

\* Mutant: the timer that is replaced keeps running.
ScheduleKeepsOld(u, ts) ==
    \E h \in FreeHandles :
        /\ timer' = [timer EXCEPT ![h] = ArmedTimer(u, ts)]
        /\ pending' = [pending EXCEPT ![u] = h]

Schedule(u, ts) ==
    \E h \in FreeHandles :
        /\ timer' = [Stopped({pending[u]}) EXCEPT ![h] = ArmedTimer(u, ts)]
        /\ pending' = [pending EXCEPT ![u] = h]

----------------------------------------------------------------------------
(* The tables.                                                             *)

SetMaxPower(i, w) == limit' = [limit EXCEPT ![i] = w]

\* History: a statement on the power row of i ends the lease on it.
EndLease(i) == leased' = [leased EXCEPT ![i] = FALSE]

----------------------------------------------------------------------------
(* A handler goroutine.                                                    *)

GoTo(c, stage) ==
    /\ pc' = [pc EXCEPT ![c] = stage]
    /\ k' = [k EXCEPT ![c] = 1]
    /\ IF stage = "idle"
       THEN /\ req' = [req EXCEPT ![c] = NoRequest]
            /\ targets' = [targets EXCEPT ![c] = << >>]
       ELSE UNCHANGED <<req, targets>>

\* Mutant of Advance: the loop runs one past the slice.
AdvanceTooFar(c, stage) ==
    IF k[c] <= Len(targets[c])
    THEN /\ k' = [k EXCEPT ![c] = @ + 1]
         /\ UNCHANGED <<pc, req, targets>>
    ELSE GoTo(c, stage)

\* The next target, or the next stage when the loop is over.
Advance(c, stage) ==
    IF k[c] < Len(targets[c])
    THEN /\ k' = [k EXCEPT ![c] = @ + 1]
         /\ UNCHANGED <<pc, req, targets>>
    ELSE GoTo(c, stage)

\* A write for which the current snapshot has targets. One that has none is
\* refused, and one that touches no point of interest acknowledged, without
\* a change of state.
Receive(c) ==
    /\ pc[c] = "idle"
    /\ \E r \in Requests :
        /\ TargetUIDs(snap, r.uid) # << >>
        /\ FirstStage(r) # "idle"
        /\ pc' = [pc EXCEPT ![c] = FirstStage(r)]
        /\ req' = [req EXCEPT ![c] = r]
        /\ targets' = [targets EXCEPT ![c] = TargetUIDs(snap, r.uid)]
        /\ k' = [k EXCEPT ![c] = 1]
    /\ UNCHANGED <<tables, snap, reverter, history>>

\* Mutant: Ena = 0 cancels the reversion and leaves the cap.
CancelOnly(c) ==
    /\ pc[c] = "cancel"
    /\ Cancel(req[c].uid)
    /\ GoTo(c, AfterPower(req[c]))
    /\ UNCHANGED <<tables, snap, history>>

CancelReversion(c) ==
    /\ pc[c] = "cancel"
    /\ Cancel(req[c].uid)
    /\ GoTo(c, "restore")
    /\ UNCHANGED <<tables, snap, history>>

RestoreFull(c) ==
    /\ pc[c] = "restore"
    /\ SetMaxPower(targets[c][k[c]], MaxPanelLimitW)
    /\ EndLease(targets[c][k[c]])
    /\ Advance(c, AfterPower(req[c]))
    /\ UNCHANGED <<onoff, snap, reverter, overtaken>>

ApplyCap(c) ==
    /\ pc[c] = "cap"
    /\ SetMaxPower(targets[c][k[c]], PanelWatts(ReadField(req[c], OffPct)))
    /\ EndLease(targets[c][k[c]])
    /\ Advance(c, AfterCap(req[c]))
    /\ UNCHANGED <<onoff, snap, reverter, overtaken>>

ArmOrCancelReversion(c) ==
    /\ pc[c] = "arm"
    /\ IF NoReversion(ReadField(req[c], OffRvrt))
       THEN Cancel(req[c].uid) /\ UNCHANGED leased
       ELSE /\ Schedule(req[c].uid, targets[c])
            /\ leased' = [i \in Inverter |->
                  leased[i] \/ \E j \in 1 .. Len(targets[c]) : targets[c][j] = i]
    /\ GoTo(c, AfterPower(req[c]))
    /\ UNCHANGED <<tables, snap, overtaken>>

ApplyConn(c) ==
    /\ pc[c] = "conn"
    /\ onoff' = [onoff EXCEPT ![targets[c][k[c]]] =
                     IF ReadField(req[c], OffConn) # 0 THEN "on" ELSE "off"]
    /\ Advance(c, "idle")
    /\ UNCHANGED <<limit, snap, reverter, history>>

\* A statement of any of the three loops fails: Apply returns the error at
\* once, leaving the targets already done as they are.
ApplyFails(c) ==
    /\ SqlMayFail
    /\ pc[c] \in {"restore", "cap", "conn"}
    /\ GoTo(c, "idle")
    /\ UNCHANGED <<tables, snap, reverter, history>>

----------------------------------------------------------------------------
(* A timer and its goroutine.                                              *)

Expire(h) ==
    /\ timer[h].st = "armed"
    /\ timer' = [timer EXCEPT ![h].st = "due"]
    /\ UNCHANGED <<tables, snap, handlers, pending, history>>

\* Mutant: fire forgets to delete its entry.
FireKeepsEntry(h) ==
    /\ timer[h].st = "due"
    /\ timer' = [timer EXCEPT ![h].st = "firing"]
    /\ UNCHANGED <<tables, snap, handlers, pending, history>>

\* The critical section of fire: it deletes the entry of its unit, whichever
\* handle is in it.
Fire(h) ==
    /\ timer[h].st = "due"
    /\ timer' = [timer EXCEPT ![h].st = "firing"]
    /\ pending' = [pending EXCEPT ![timer[h].uid] = NoTimer]
    /\ overtaken' = IF pending[timer[h].uid] \in {h, NoTimer} THEN overtaken
                    ELSE overtaken \cup {timer[h].uid}
    /\ UNCHANGED <<tables, snap, handlers, leased>>

\* Mutant: the restore loop of fire stops one inverter early.
FireStopsEarly(h) ==
    /\ timer' = IF timer[h].k + 1 < Len(timer[h].targets)
                THEN [timer EXCEPT ![h].k = timer[h].k + 1]
                ELSE [timer EXCEPT ![h] = FreeTimer]
    /\ UNCHANGED <<onoff, snap, handlers, pending, overtaken>>

FireAdvance(h) ==
    /\ timer' = IF timer[h].k < Len(timer[h].targets)
                THEN [timer EXCEPT ![h].k = timer[h].k + 1]
                ELSE [timer EXCEPT ![h] = FreeTimer]
    /\ UNCHANGED <<onoff, snap, handlers, pending, overtaken>>

FireRestore(h) ==
    /\ timer[h].st = "firing"
    /\ SetMaxPower(timer[h].targets[timer[h].k], MaxPanelLimitW)
    /\ EndLease(timer[h].targets[timer[h].k])
    /\ FireAdvance(h)

\* The error is logged and the loop goes on; nothing retries this target.
FireRestoreFails(h) ==
    /\ SqlMayFail
    /\ timer[h].st = "firing"
    /\ FireAdvance(h)
    /\ UNCHANGED <<limit, leased>>

----------------------------------------------------------------------------
(* The refresh loop and the shutdown path.                                 *)

Refresh ==
    /\ snap' \in Fleets
    /\ UNCHANGED <<tables, handlers, reverter, history>>

\* Server.Stop: Reverter.Stop, while handlers and fire goroutines still run.
StopReverter ==
    /\ MayStop
    /\ timer' = Stopped({pending[u] : u \in Unit})
    /\ pending' = [u \in Unit |-> NoTimer]
    /\ UNCHANGED <<tables, snap, handlers, history>>

\* The process ends, after Stop or by a crash, and is started again: every
\* goroutine and timer is gone, the tables are as they were.
Restart ==
    /\ MayStop
    /\ snap' = << >>
    /\ pc' = [c \in Client |-> "idle"]
    /\ req' = [c \in Client |-> NoRequest]
    /\ targets' = [c \in Client |-> << >>]
    /\ k' = [c \in Client |-> 1]
    /\ timer' = [h \in Handle |-> FreeTimer]
    /\ pending' = [u \in Unit |-> NoTimer]
    /\ overtaken' = {}
    /\ UNCHANGED <<tables, leased>>

----------------------------------------------------------------------------

Init ==
    /\ limit = [i \in Inverter |-> MaxPanelLimitW]
    /\ onoff = [i \in Inverter |-> "on"]
    /\ snap = << >>
    /\ pc = [c \in Client |-> "idle"]
    /\ req = [c \in Client |-> NoRequest]
    /\ targets = [c \in Client |-> << >>]
    /\ k = [c \in Client |-> 1]
    /\ timer = [h \in Handle |-> FreeTimer]
    /\ pending = [u \in Unit |-> NoTimer]
    /\ leased = [i \in Inverter |-> FALSE]
    /\ overtaken = {}

HandlerStep(c) ==
    \/ CancelReversion(c)
    \/ RestoreFull(c)
    \/ ApplyCap(c)
    \/ ArmOrCancelReversion(c)
    \/ ApplyConn(c)
    \/ ApplyFails(c)

TimerStep(h) ==
    \/ Expire(h)
    \/ Fire(h)
    \/ FireRestore(h)
    \/ FireRestoreFails(h)

Next ==
    \/ \E c \in Client : Receive(c) \/ HandlerStep(c)
    \/ \E h \in Handle : TimerStep(h)
    \/ Refresh
    \/ StopReverter
    \/ Restart

Spec == Init /\ [][Next]_vars

\* A handler that has a write and a timer that runs are goroutines: the Go
\* scheduler runs each of them again, the mutex is never held across a
\* blocking call, and the runtime delivers an armed timer. What clients send
\* and when a refresh finds another fleet is left open.
Fairness ==
    /\ \A c \in Client : WF_vars(HandlerStep(c))
    /\ \A h \in Handle : WF_vars(TimerStep(h))

FairSpec == Spec /\ Fairness

----------------------------------------------------------------------------
(* Properties.                                                             *)

Stages == {"idle", "cancel", "restore", "cap", "arm", "conn"}

TimerRecord ==
    [st : {"free", "armed", "due", "firing"}, uid : 0 .. 255,
     targets : Seq(Inverter), k : Nat]

TablesOK ==
    /\ limit \in [Inverter -> MinPanelLimitW .. MaxPanelLimitW]
    /\ onoff \in [Inverter -> {"on", "off"}]
    /\ snap \in Seq(Inverter)

HandlersOK ==
    /\ pc \in [Client -> Stages]
    /\ req \in [Client -> Requests \cup {NoRequest}]
    /\ targets \in [Client -> Seq(Inverter)]
    /\ k \in [Client -> Nat]
    /\ \A c \in Client : pc[c] # "idle" => /\ req[c] \in Requests
                                           /\ k[c] \in 1 .. Len(targets[c])

TimersOK ==
    /\ timer \in [Handle -> TimerRecord]
    /\ \A h \in Handle : timer[h].st # "free" =>
                             /\ timer[h].uid \in Unit
                             /\ timer[h].k \in 1 .. Len(timer[h].targets)
    /\ pending \in [Unit -> Handle \cup {NoTimer}]

\* Type correctness. Beyond the types of the variables: a handler inside
\* Apply and a timer inside fire always have a target to work on, so neither
\* loop of the code can run past its slice.
TypeOK ==
    /\ TablesOK
    /\ HandlersOK
    /\ TimersOK
    /\ leased \in [Inverter -> BOOLEAN]
    /\ overtaken \subseteq Unit

\* An entry of Reverter.timers is a timer of that unit that has not entered
\* the critical section of fire, so Stop of it either prevents the lift or
\* loses only the race for the mutex: no entry is ever left behind.
PendingIsLive ==
    \A u \in Unit : pending[u] # NoTimer =>
        /\ timer[pending[u]].st \in {"armed", "due"}
        /\ timer[pending[u]].uid = u

\* Whatever handlers, refreshes, failures, stops and restarts interleave, a
\* running timer that Cancel and Stop can no longer reach comes from one
\* cause only: a goroutine of fire that waited for the mutex while its unit
\* was scheduled again, and then discarded the new handle.
OrphansAreLateFires ==
    \A h \in Handle :
        timer[h].st = "armed" /\ pending[timer[h].uid] # h
            => timer[h].uid \in overtaken

\* "Schedule starts (or resets) a reversion timer keyed by unit ID": a unit
\* never has two timers running.
SingleTimer ==
    \A g, h \in Handle :
        timer[g].st = "armed" /\ timer[h].st = "armed"
            /\ timer[g].uid = timer[h].uid => g = h

\* Inverters a timer, or a restore loop in progress, is still going to lift.
WillLift(h, i) ==
    /\ timer[h].st # "free"
    /\ \E j \in timer[h].k .. Len(timer[h].targets) : timer[h].targets[j] = i

WillRestore(c, i) ==
    pc[c] = "restore" /\ \E j \in k[c] .. Len(targets[c]) : targets[c][j] = i

\* "WMaxLim_Ena=0 ... cancel any pending reversion": once such a write begins
\* to restore its inverters no timer is running that will lift one of them.
RestoreCancelsReversion ==
    \A c \in Client, h \in Handle, i \in Inverter :
        WillRestore(c, i) /\ timer[h].st = "armed" => ~WillLift(h, i)

\* A reversion that was scheduled for an inverter is never lost: until the cap
\* it protects is written again, some timer, or the restore that cancelled
\* that timer, is still to lift it.
LeaseIsBacked ==
    \A i \in Inverter : leased[i] =>
        \/ \E h \in Handle : WillLift(h, i)
        \/ \E c \in Client : WillRestore(c, i)

\* "If the controller fails to refresh within that window, the cap is lifted":
\* a cap under a reversion does not stay for ever unless it is written again.
RevertedWhenSilent == \A i \in Inverter : leased[i] ~> ~leased[i]
=============================================================================
