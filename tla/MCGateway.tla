----------------------------- MODULE MCGateway -----------------------------
(***************************************************************************)
(* An instance of Gateway for TLC: two inverters, of which the second      *)
(* joins and leaves, and a client that reads and writes.                   *)
(***************************************************************************)
EXTENDS Gateway, TLC

CONSTANTS c1, A, B

\* The client is on the server's subnet.
Hosts == [c \in Client |-> [addr |-> c, parses |-> TRUE, loopback |-> FALSE, local |-> TRUE]]

Gate(enabled, allowLocal, allowList) ==
    [enabled |-> enabled, allowLocal |-> allowLocal, allowList |-> allowList]

\* As shipped; switched off in spite of the list; open to the list alone.
Gates == {Gate("omitted", "omitted", {}), Gate("off", "on", {c1}), Gate("on", "off", {})}

Orders == {<<A>>, <<A, B>>}

Codes == A :> 7 @@ B :> 8

Rows == A :> [code \in Code |-> CASE code = "AK" -> 5200 [] code = "CV" -> 13 [] OTHER -> Null]
     @@ B :> [code \in Code |-> Null]

\* A refresh that knows the inverters' models, but neither caps nor parameters.
Lapses == {{"limits", "rows"}}

F(unit, model, off, regs) == [unit |-> unit, model |-> model, off |-> off, regs |-> regs]

Writes == {
    F(1, 123, OffConn, <<0, 50, 0, 0, 0, 1>>),  \* a cap for the fleet, switched off
    F(2, 123, OffEna, <<0>>),             \* lifted for one inverter
    F(3, 123, OffConn, <<1>>),            \* the other is switched on
    F(1, 123, 25239, <<50>>),             \* over the end of the registers
    F(3, 703, ESDlyOffset, <<0, 60>>),    \* a delay
    F(2, 711, 12, <<0, 150>>),            \* a droop up to the margin
    F(2, 711, 12, <<0, 151>>),            \* and over it
    F(3, 711, 18, <<0, 60>>),             \* a parameter the family lacks
    F(3, 134, 11, <<4980>>)}              \* a point of the curve
=============================================================================
