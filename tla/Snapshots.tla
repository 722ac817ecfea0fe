----------------------------- MODULE Snapshots -----------------------------
(***************************************************************************)
(* What a refresh reads and what it makes of it: the parameter file that   *)
(* main.exe rewrites after each poll, the tables of database.db, and the   *)
(* Snapshot that Builder.Build joins them into. Pure operators; the        *)
(* Publication module reads the sources one after the other.               *)
(*                                                                         *)
(* Units are those of the registers: hundredths of a hertz and of a        *)
(* second, whole volts, watts and degrees. A table is a function from the  *)
(* inverters that have a row, and a protection row a function from the     *)
(* codes that are not NULL, which is what Has says of it. Energies, signal *)
(* strengths and the texts of the configuration files are left out.        *)
(***************************************************************************)
EXTENDS Integers, Sequences, SequencesExt, FiniteSetsExt

CONSTANTS
    UID,        \* inverters, as numbers
    Reserved,   \* those whose identifier the id query leaves out
    Nameplates, \* nameplateByModel: watts of the catalogued model codes
    Garbled     \* a column that is not a number; a file that does not parse

MaxPanelLimitW == 500

ASSUME UIDAssumption       == UID \subseteq 0 .. 65535 /\ Reserved \subseteq UID
ASSUME NameplateAssumption == \A m \in DOMAIN Nameplates : Nameplates[m] \in Nat \ {0}

\* The sum of a sequence of numbers.
Total(v) ==
    LET sum[k \in 0 .. Len(v)] == IF k = 0 THEN 0 ELSE sum[k - 1] + v[k]
    IN  sum[Len(v)]

\* The sum of f over the elements of a sequence, and over those at some places.
SumOver(s, f(_)) == Total([j \in DOMAIN s |-> f(s[j])])
SumAt(s, places, f(_)) == Total([j \in DOMAIN s |-> IF j \in places THEN f(s[j]) ELSE 0])

----------------------------------------------------------------------------
(* An inverter, by its type code.                                          *)

PanelCount(inv) == CASE inv.type \in {"01", "04"} -> 2 [] inv.type = "03" -> 4 [] OTHER -> 0

\* The columns of the tail that hold panel powers, if it is long enough.
PowerColumns(type, tail) ==
    IF type \in {"01", "04"} /\ Len(tail) >= 5 THEN <<2, 4>>
    ELSE IF type = "03" /\ Len(tail) >= 6 THEN <<2, 4, 5, 6>>
    ELSE << >>

PowersIn(type, tail) ==
    [c \in DOMAIN PowerColumns(type, tail) |-> tail[PowerColumns(type, tail)[c]]]

PanelPowers(inv) == IF inv.online THEN PowersIn(inv.type, inv.tail) ELSE << >>

\* guessACFromTail: voltage and power.
ACVoltage(type, tail) == IF PowerColumns(type, tail) = << >> THEN 0 ELSE tail[3]
ACPower(type, tail) == SumOver(PowersIn(type, tail), LAMBDA p : p)

NameplateW(inv) ==
    IF inv.model \in DOMAIN Nameplates THEN Nameplates[inv.model]
    ELSE CASE inv.type = "01" -> 730 [] inv.type = "03" -> 1460 [] inv.type = "04" -> 880
           [] OTHER -> 0

----------------------------------------------------------------------------
(* /tmp/parameters_app.conf: a count and a row per inverter. The row of an *)
(* inverter that did not answer ends after its type, here with no tail.    *)

Short(row) == row.tail = << >>

\* One malformed row is an error of the whole file.
RowParses(row) ==
    IF Short(row) THEN ~row.online
    ELSE row.freq # Garbled /\ \A c \in DOMAIN row.tail : row.tail[c] # Garbled

FileParses(file) ==
    file # Garbled /\ file.count # Garbled /\ \A r \in DOMAIN file.rows : RowParses(file.rows[r])

\* parseInverterLine. What the tables know is joined later. A short row has no
\* telemetry; any other keeps it, also if the inverter is marked as offline.
ParseInverterLine(row) ==
    [uid |-> row.uid, online |-> row.online, type |-> row.type,
     freq |-> IF Short(row) THEN 0 ELSE row.freq,
     temp |-> IF Short(row) THEN 0 ELSE row.tail[1] - 100,
     vac |-> ACVoltage(row.type, row.tail), pac |-> ACPower(row.type, row.tail),
     tail |-> row.tail, phase |-> 0, model |-> 0, limit |-> 0, events |-> {}]

----------------------------------------------------------------------------
(* database.db. A query that fails yields the empty map.                   *)

NoRows == << >>

\* parseEventBits: bits beyond the fourth word are dropped.
EventBits(eve) == eve \cap (0 .. 127)

\* InverterList leaves out identifiers of the form '_1%'.
Listed(list) == [u \in DOMAIN list \ Reserved |-> list[u]]

\* The joins of Build, by the inverter's identifier.
Joined(inv, limits, events, list) ==
    LET meta == Listed(list)
    IN  [inv EXCEPT !.phase = IF inv.uid \in DOMAIN meta THEN meta[inv.uid].phase ELSE 0,
                    !.model = IF inv.uid \in DOMAIN meta THEN meta[inv.uid].model ELSE 0,
                    !.limit = IF inv.uid \in DOMAIN limits THEN limits[inv.uid] ELSE 0,
                    !.events = IF inv.uid \in DOMAIN events THEN EventBits(events[inv.uid]) ELSE {}]

----------------------------------------------------------------------------
(* The snapshot.                                                           *)

\* The places of those that are online.
Online(invs) == {j \in DOMAIN invs : invs[j].online}

\* Mutant: a stale row still counts.
LiveSystemPowerWAll(invs) == SumOver(invs, LAMBDA inv : inv.pac)

LiveSystemPowerW(invs) == SumAt(invs, Online(invs), LAMBDA inv : inv.pac)

\* Averages, over the places that are online and measure something, are kept as
\* their sum and count; they are rounded where emitted.
Average(values, places) ==
    LET known == {j \in places : values[j] > 0}
    IN  [sum |-> Total([j \in DOMAIN values |-> IF j \in known THEN values[j] ELSE 0]),
         n |-> Cardinality(known)]

MaxTemperature(invs) ==
    IF Online(invs) = {} THEN 0 ELSE Max({invs[j].temp : j \in Online(invs)})

\* What Build returns of the sources: the number in powerALL.conf, the file,
\* and the results of the queries.
Snapshot(capacity, file, limits, events, list, prot) ==
    LET invs == [j \in DOMAIN file.rows |->
                    Joined(ParseInverterLine(file.rows[j]), limits, events, list)]
    IN  [capacity |-> IF capacity > 0 THEN capacity ELSE 0,
         invs |-> invs, prot |-> prot,
         count |-> IF file.count = 0 THEN Len(invs) ELSE file.count,
         onlineCount |-> Cardinality(Online(invs)),
         freq |-> Average([j \in DOMAIN invs |-> invs[j].freq], Online(invs)),
         volt |-> Average([j \in DOMAIN invs |-> invs[j].vac], Online(invs)),
         temp |-> MaxTemperature(invs),
         power |-> LiveSystemPowerW(invs)]

TotalNameplateW(s) == SumOver(s.invs, NameplateW)

\* Mutant: the rating is forgotten.
LimitedWOfPanels(inv) == inv.limit * PanelCount(inv)

\* An inverter's ceiling is its cap on all panels, or its rating if that is less.
LimitedW(inv) ==
    LET dc == inv.limit * PanelCount(inv)
        ac == NameplateW(inv)
    IN  IF ac > 0 /\ ac < dc THEN ac ELSE dc

TotalLimitedW(s) == SumOver(s.invs, LimitedW)

\* 110 % of the nominal voltage is the averaged over-voltage limit AB. The
\* first row with one is taken, in the order of a Go map: any of them.
NominalVRefs(s) ==
    LET known == {u \in DOMAIN s.prot : "AB" \in DOMAIN s.prot[u] /\ s.prot[u]["AB"] > 0}
    IN  IF known = {} THEN {0} ELSE {(20 * s.prot[u]["AB"] + 11) \div 22 : u \in known}

\* Mutant: an inverter that is offline raises no alarm.
AggregateEventBitsOnline(s) == UNION {s.invs[j].events : j \in Online(s.invs)}

AggregateEventBits(s) == UNION {s.invs[j].events : j \in DOMAIN s.invs}
=============================================================================
