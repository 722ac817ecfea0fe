--------------------------- MODULE MCPublication ---------------------------
(***************************************************************************)
(* An instance of Publication for TLC: a fleet of a two-panel, a           *)
(* four-panel and an uncatalogued inverter from noon to the night, with    *)
(* the tables changing beside it.                                          *)
(***************************************************************************)
EXTENDS Publication

CONSTANT Unreadable

\* Model codes that sunspec-nameplate.json would list.
Catalogue == 7 :> 600

Row(uid, online, type, freq, tail) ==
    [uid |-> uid, online |-> online, type |-> type, freq |-> freq, tail |-> tail]
Missing(uid, type) == Row(uid, FALSE, type, 0, << >>)

File(rows) == [count |-> Len(rows), rows |-> rows]

World(capacity, file, limits, events, list, prot) ==
    [capacity |-> capacity, file |-> file, limits |-> limits,
     events |-> events, list |-> list, prot |-> prot]

On(phase, model) == [phase |-> phase, model |-> model]

\* A row of which every code is known, one of which half of the pairs are, and
\* one of an inverter that left the fleet.
Full == "AC" :> 184 @@ "BB" :> 150 @@ "AQ" :> 104 @@ "BD" :> 20 @@ "AY" :> 276 @@ "BE" :> 10
        @@ "AD" :> 264 @@ "BC" :> 16 @@ "AB" :> 253 @@ "AE" :> 4750 @@ "BJ" :> 20
        @@ "AJ" :> 4700 @@ "BH" :> 16 @@ "AF" :> 5150 @@ "BK" :> 20 @@ "AK" :> 5200 @@ "BI" :> 16
        @@ "AG" :> 6000 @@ "BO" :> 253 @@ "BN" :> 196 @@ "BQ" :> 5010 @@ "BP" :> 4950
        @@ "CV" :> 14 @@ "DC" :> 5020 @@ "DD" :> 17 @@ "DH" :> 4950 @@ "DI" :> 4980
        @@ "CB" :> 5020 @@ "CC" :> 5150
Half == "AC" :> 180 @@ "BD" :> 20 @@ "AB" :> 255 @@ "AE" :> 4750 @@ "CV" :> 13 @@ "DC" :> 5030
Left == "CV" :> 15 @@ "AK" :> 5200 @@ "BI" :> 16

\* Noon: everything runs, the third inverter is not in the id table's list.
Noon == World(70000,
    File(<<Row(1, TRUE, "01", 4998, <<131, 190, 229, 205, 3>>),
           Row(2, TRUE, "03", 5001, <<135, 210, 233, 180, 160, 170>>),
           Row(9, TRUE, "04", 5000, <<128, 90, 231, 95, 2>>)>>),
    1 :> 250 @@ 2 :> 480 @@ 9 :> 500, 1 :> {} @@ 2 :> {17, 90},
    1 :> On(1, 7) @@ 2 :> On(2, 21) @@ 9 :> On(3, 7), 1 :> Full @@ 2 :> Half)

\* Dusk: one runs idle, one did not answer but keeps its last telemetry, one
\* has no telemetry at all. The four-panel inverter lost its cap.
Dusk == World(0,
    File(<<Row(2, FALSE, "03", 5000, <<128, 40, 228, 30, 30, 20>>),
           Row(1, TRUE, "01", 5003, <<120, 0, 230, 0, 3>>),
           Missing(9, "04")>>),
    1 :> 20 @@ 2 :> 500 @@ 9 :> 137, 2 :> {28, 90} @@ 9 :> {8, 33, 64},
    1 :> On(0, 7) @@ 2 :> On(2, 21), 2 :> Full)

\* Night: the file is being rewritten, then empty; only rows of an inverter
\* that left the fleet and of one that is not in it are there.
Torn == World(Unreadable, Unreadable, 1 :> 20, << >>, 1 :> On(0, 7), 2 :> Half @@ 5 :> Left)

Night == World(2000, File(<< >>), 1 :> 20, << >>, 1 :> On(0, 7), 2 :> Half @@ 5 :> Left)

\* Morning: one inverter of a type without panels is new.
Morning == World(70000,
    File(<<Row(1, TRUE, "01", 5000, <<110, 2, 226, 1, 3>>),
           Row(3, TRUE, "02", 5000, <<110, 7>>)>>),
    1 :> 500 @@ 3 :> 500, << >>, 1 :> On(1, 7) @@ 3 :> On(0, 0), 5 :> Left)

Days == <<Noon, Dusk, Torn, Night, Morning>>
=============================================================================
