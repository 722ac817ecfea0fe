--------------------------- MODULE MCCurtailment ---------------------------
(***************************************************************************)
(* Instances of Curtailment for TLC: two inverters, and the writes that    *)
(* the controllers the code was written for send.                          *)
(***************************************************************************)
EXTENDS Curtailment

CONSTANTS A, B      \* the inverters

Write(uid, off, regs) == [uid |-> uid, off |-> off, regs |-> regs]

\* One write over WMaxLimPct .. WMaxLim_Ena, as Victron's dbus-fronius sends.
CapFor(uid, rvrt) == Write(uid, OffPct, <<50, 0, rvrt, 0, 1>>)

\* WMaxLimPct alone (FC06), WMaxLim_Ena = 0 alone, Conn alone, and a write
\* over the whole body that caps below the floor and disconnects.
CapOnly(uid)  == Write(uid, OffPct, <<50>>)
Lift(uid)     == Write(uid, OffEna, <<0>>)
Connect(uid)  == Write(uid, OffConn, <<1>>)
All(uid)      == Write(uid, OffConn, <<0, 3, 0, 60, 0, 1>>)

\* The fleet as it always is, and the same fleet after main.exe rewrote its
\* parameter file in another order.
OneFleet      == { <<A, B>> }
SoloFleet     == { <<A>> }
ReorderedFleet == { <<A, B>>, <<B, A>> }

\* Everything one controller may send to the fleet and to one unit.
SoloRequests ==
    UNION { {CapFor(u, 60), CapFor(u, 0), CapOnly(u), Lift(u)} : u \in {1, 2} }
        \cup { All(1), Connect(2) }
\* A controller of the fleet that always asks for a reversion.
VictronRequests == { CapFor(1, 60), Lift(1) }
\* The same beside a controller of the first unit, that also switches it on.
RaceRequests == VictronRequests \cup { CapFor(2, 60), Lift(2), Connect(2) }
\* The fleet capped under a reversion, one unit restored.
TwoUnitRequests == { CapFor(1, 60), Lift(2) }
\* One unit, capped with and without a reversion.
UnitRequests == { CapFor(2, 60), CapFor(2, 65535) }
\* One unit, capped under a reversion and restored.
LeaseRequests == { CapFor(2, 60), Lift(2) }
==============
