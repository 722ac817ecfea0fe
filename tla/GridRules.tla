----------------------------- MODULE GridRules -----------------------------
(***************************************************************************)
(* The grid-protection parameters that clients may write, through Models   *)
(* 711 (frequency droop), 134 (frequency-watt curve) and 703 (service      *)
(* entry): the registers they are written with, the routes of the inverter *)
(* families, and the validation against what the inverter reported. Pure   *)
(* operators, which WriteTracking and Gateway share.                       *)
(***************************************************************************)
EXTENDS Integers, Sequences

CONSTANT Null     \* a code that was not reported

\* The writable points of the two models. A write carries the register's
\* value: 0 or 1 for Ena, hundredths of Hz above 50 for DbOf, tenths of %/Hz
\* for KOf, seconds for RspTms, hundredths of Hz for the curve points.
Droop == {"Ena", "DbOf", "KOf", "RspTms"}
Curve == {"Hz1", "Hz2", "Hz3", "Hz4"}
Param == Droop \cup Curve

Model(p) == IF p \in Droop THEN 711 ELSE 134

\* The code under which the inverter reports a parameter.
Code == {"AK", "CV", "DC", "DD", "CG", "DH", "DI", "CB", "CC"}

CodeOf ==
    [Ena |-> "CV", DbOf |-> "DC", KOf |-> "DD", RspTms |-> "CG",
     Hz1 |-> "DH", Hz2 |-> "DI", Hz3 |-> "CB", Hz4 |-> "CC"]

Row == [Code -> Nat \cup {Null}]

ASSUME NullAssumption == Null \notin Nat

----------------------------------------------------------------------------
(* Validation of a write against a reported row.                           *)

ModeASNZS == 13
ModeOther == 14
ModeDisabled == 15

Nominal == 5000
OFMargin == 50

\* The value that is queued. Ena = 1 preserves the AS/NZS mode if that is
\* what the inverter reports.
ValueOf(row, p, v) ==
    CASE p = "Ena" -> IF v = 0 THEN ModeDisabled
                      ELSE IF row["CV"] = ModeASNZS THEN ModeASNZS ELSE ModeOther
      [] p = "DbOf" -> Nominal + v
      [] OTHER -> v

\* Mutant: the margin to the trip is forgotten.
AcceptsUpToTrip(row, p, v) ==
    CASE p \in {"Ena", "RspTms"} -> row["AK"] # Null
      [] p = "DbOf" -> row["AK"] # Null /\ v > 0 /\ Nominal + v <= row["AK"]
      [] p = "KOf"  -> row["AK"] # Null /\ v \in 100 .. 1500
      [] OTHER      -> v > 0

\* Model 711 needs the over-frequency trip AK to have been reported, and the
\* droop has to start above 50 Hz and half a hertz below the trip.
Accepts(row, p, v) ==
    CASE p \in {"Ena", "RspTms"} -> row["AK"] # Null
      [] p = "DbOf" -> row["AK"] # Null /\ v > 0 /\ Nominal + v <= row["AK"] - OFMargin
      [] p = "KOf"  -> row["AK"] # Null /\ v \in 100 .. 1500
      [] OTHER      -> v > 0

----------------------------------------------------------------------------
(* Families and routes.                                                    *)

FamilyForModel(code) ==
    CASE code \in {7, 23} -> "YC600"
      [] code \in {8, 24} -> "QS1A"
      [] code \in {5, 6}  -> "YC1000"
      [] code \in {32, 33, 34, 54} -> "DS3"
      [] code \in {41, 48, 49, 50} -> "QT2"
      [] OTHER -> "unknown"

\* routeFor: the parameters for which no path is known to work. All others
\* are queued directly.
Unsupported(family, p) ==
    family = "unknown" \/ (family = "QS1A" /\ p \in {"KOf", "RspTms"})

----------------------------------------------------------------------------
(* The registers of a write, as body offsets.                              *)

Registers ==
    [Ena |-> {0}, DbOf |-> {12, 13}, KOf |-> {16}, RspTms |-> {18, 19},
     Hz1 |-> {11}, Hz2 |-> {13}, Hz3 |-> {15}, Hz4 |-> {17}]

AdptCtlReq == 1

Writable(model) ==
    (UNION {Registers[p] : p \in {q \in Param : Model(q) = model}})
        \cup (IF model = 711 THEN {AdptCtlReq} ELSE {})

Touched(off, n) == off .. off + n - 1

\* The parameters all of whose registers are written.
Named(model, touched) == {p \in Param : Model(p) = model /\ Registers[p] \subseteq touched}

\* One register, or a high and a low word.
Carried(off, regs, p) ==
    LET first == CHOOSE o \in Registers[p] : \A q \in Registers[p] : o <= q
    IN  IF Registers[p] = {first} THEN regs[first - off + 1]
        ELSE 65536 * regs[first - off + 1] + regs[first - off + 2]

\* Apply of FreqDroopWriter and FreqWattCurveWriter refuses a write that
\* touches another register, that names nothing but a half, or one of whose
\* values is out of bounds. The request counter alone is acknowledged.
GridRefuses(model, off, regs, family, row) ==
    LET touched == Touched(off, Len(regs))
        named == Named(model, touched)
    IN  \/ ~(touched \subseteq Writable(model))
        \/ named = {} /\ ~(model = 711 /\ AdptCtlReq \in touched)
        \/ \E p \in named : ~Accepts(row, p, Carried(off, regs, p)) \/ Unsupported(family, p)

\* EnterServiceWriter: the delay alone, both of its words.
ESDlyOffset == 7
ReconnectS == 10 .. 610

ESDly(regs) == 65536 * regs[1] + regs[2]

\* Mutant: the write may be anywhere in the model.
ServiceRefusesValues(off, regs) == Len(regs) # 2 \/ ESDly(regs) \notin ReconnectS

ServiceRefuses(off, regs) ==
    off # ESDlyOffset \/ Len(regs) # 2 \/ ESDly(regs) \notin ReconnectS
=============================================================================
