----------------------------- MODULE WriteRules -----------------------------
(***************************************************************************)
(* How a write is read: who may send it, which model its window falls in,  *)
(* which points it touches, and what a write of Model 123 asks for. Pure   *)
(* operators, which Curtailment and Gateway share.                         *)
(***************************************************************************)
EXTENDS Integers, Sequences

\* Body offsets of the Model 123 points that Apply looks at.
OffConn == 2
OffPct  == 3
OffRvrt == 5
OffEna  == 7

Word == 0 .. 65535

MinPanelLimitW == 20
MaxPanelLimitW == 500

\* A write: the unit it is addressed to, the body offset of its first
\* register, and the registers.
WriteRequest == [uid : 0 .. 255, off : Nat, regs : Seq(Word)]

WriteTouches(r, off) == r.off <= off /\ off - r.off < Len(r.regs)

ReadField(r, off) == IF WriteTouches(r, off) THEN r.regs[off - r.off + 1] ELSE 0

\* Mutant: a unit without an inverter stands for the fleet, as it does in reads.
TargetsOrFleet(fleet, uid) ==
    IF uid - 1 \in 1 .. Len(fleet) THEN << fleet[uid - 1] >> ELSE fleet

\* Unit 0 and 1 address the whole fleet, unit u >= 2 its (u-1)-th inverter.
TargetUIDs(fleet, uid) ==
    IF uid <= 1 THEN fleet
    ELSE IF uid - 1 <= Len(fleet) THEN << fleet[uid - 1] >> ELSE << >>

PanelWatts(pct) ==
    LET p == IF pct > 100 THEN 100 ELSE pct
        w == (MaxPanelLimitW * p) \div 100
    IN  IF w < MinPanelLimitW THEN MinPanelLimitW ELSE w

\* The two encodings of "no reversion".
NoReversion(rvrt) == rvrt = 0 \/ rvrt = 65535

\* The stages of Apply. Ena = 0 wins over a percentage in the same write;
\* Ena = 1 or a reversion time without a percentage leads to no step at all.
AfterPower(r) == IF WriteTouches(r, OffConn) THEN "conn" ELSE "idle"

AfterCap(r) == IF WriteTouches(r, OffRvrt) THEN "arm" ELSE AfterPower(r)

FirstStage(r) ==
    IF WriteTouches(r, OffEna) /\ ReadField(r, OffEna) = 0 THEN "cancel"
    ELSE IF WriteTouches(r, OffPct) THEN "cap"
    ELSE AfterPower(r)

----------------------------------------------------------------------------
(* The gate. A switch of the configuration may be left out, which means   *)
(* on. A host is its address, and what is known of it: whether it parses,  *)
(* is loopback, or lies in a subnet of one of the server's interfaces.     *)

Switch == {"on", "off", "omitted"}

IsOn(switch) == switch # "off"

\* Mutant: the allow list is looked at before the switch.
AllowsListedFirst(config, host) ==
    \/ host.parses /\ host.addr \in config.allowList
    \/ /\ IsOn(config.enabled)
       /\ host.parses
       /\ host.loopback \/ (IsOn(config.allowLocal) /\ host.local)

AllowsWrite(config, host) ==
    /\ IsOn(config.enabled)
    /\ host.parses
    /\ \/ host.loopback
       \/ IsOn(config.allowLocal) /\ host.local
       \/ host.addr \in config.allowList

----------------------------------------------------------------------------
(* Windows. The writable models stand at fixed places of the two kinds of  *)
(* bank, because the models of variable length come after them.            *)

Base16 == 40000

Layouts == {"fleet", "unit"}
Writables == <<123, 703, 711, 134>>
BodyLen == [m \in {123, 703, 711, 134} |->
               CASE m = 123 -> 24 [] m = 703 -> 17 [] m = 711 -> 22 [] m = 134 -> 68]

\* Where the body starts: that of the fleet has Model 121 before it.
BodyStart(layout, m) ==
    Base16 + 2 + (IF layout = "fleet" THEN 32 ELSE 0)
        + CASE m = 123 -> 262 [] m = 703 -> 466 [] m = 711 -> 485 [] m = 134 -> 509

\* Mutant: only the start of the window is compared.
InWindowFrom(layout, m, addr, n) == addr >= BodyStart(layout, m)

\* The end of the write is computed in 16 bits.
InWindow(layout, m, addr, n) ==
    /\ addr >= BodyStart(layout, m)
    /\ (addr + n) % 65536 <= BodyStart(layout, m) + BodyLen[m]

\* The model whose writer gets the write: the first whose window it is in.
Candidate(layout, addr, n) ==
    LET at(k) == InWindow(layout, Writables[k], addr, n)
    IN  CASE at(1) -> 123 [] ~at(1) /\ at(2) -> 703
          [] ~at(1) /\ ~at(2) /\ at(3) -> 711
          [] ~at(1) /\ ~at(2) /\ ~at(3) /\ at(4) -> 134 [] OTHER -> 0
=============================================================================
