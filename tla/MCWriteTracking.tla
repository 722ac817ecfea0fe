-------------------------- MODULE MCWriteTracking --------------------------
(***************************************************************************)
(* Instances of WriteTracking for TLC: one or two inverters that have      *)
(* reported their protection parameters, and a few writes.                 *)
(***************************************************************************)
EXTENDS WriteTracking

CONSTANTS A, B      \* the inverters

\* A European and an AS/NZS grid profile, and a row that is not there.
Profile(mode) ==
    [AK |-> 5150, CV |-> mode, DC |-> 5020, DD |-> 400, CG |-> 2,
     DH |-> 4750, DI |-> 4980, CB |-> 5020, CC |-> 5200]
European    == { Profile(ModeOther) }
Australian  == { Profile(ModeASNZS) }
\* Inverters set up differently, and inverters that have not reported yet.
Mixed       == { Profile(ModeOther), [Profile(ModeOther) EXCEPT !.DC = 5040] }
SomeMissing == { Profile(ModeOther), NoReport }

Write(uid, p, v) == [uid |-> uid, param |-> p, value |-> v]

OneFleet     == { <<A, B>> }
SoloFleet    == { <<A>> }
LeavingFleet == { <<A>>, << >> }

\* The second unit: two values of one point, and a deadband that the
\* validation refuses.
StableRequests == { Write(3, "DbOf", 40), Write(3, "DbOf", 60), Write(3, "DbOf", 120) }
\* The droop of one unit beside a point of it that is not tracked.
FairRequests  == { Write(2, "DbOf", 40), Write(2, "RspTms", 5) }
\* A deadband next to the one the inverter has.
NudgeRequests == { Write(2, "DbOf", 23) }
\* The droop switched off and on.
ModeRequests  == { Write(2, "Ena", 0), Write(2, "Ena", 1) }
=============================================================================
