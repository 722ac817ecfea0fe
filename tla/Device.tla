------------------------------- MODULE Device -------------------------------
(***************************************************************************)
(* What clients may do to the inverters, and nothing else happens to them: *)
(* one parameter of one inverter gets a safe value, or the inverters that  *)
(* one unit stands for get one cap, one switch, or both. Who asks, through *)
(* which registers and against which refresh does not appear.              *)
(***************************************************************************)
EXTENDS Integers

CONSTANTS
    Inverter,
    Setting,    \* the grid-protection parameters
    Groups,     \* the sets of inverters a unit can stand for
    Watts,      \* the caps a panel can be given
    Safe        \* inverter, parameter and value: what may be queued

VARIABLES
    cap,      \* power.limitedpower of each inverter
    onoff,    \* turn_on_off.set_flag of each inverter
    queue     \* set_protection_parameters_inverter

vars == <<cap, onoff, queue>>

\* What clients can change starts as the installer left it, with nothing queued.
Init ==
    /\ DOMAIN cap = Inverter
    /\ DOMAIN onoff = Inverter
    /\ DOMAIN queue = Inverter \X Setting

\* The members of a group that change get the same.
SameFor(G, old, new) ==
    /\ \A i \in Inverter \ G : new[i] = old[i]
    /\ \A i, j \in G : new[i] # old[i] /\ new[j] # old[j] => new[i] = new[j]

Control(G) ==
    /\ SameFor(G, cap, cap')
    /\ \A i \in G : cap'[i] = cap[i] \/ cap'[i] \in Watts
    /\ SameFor(G, onoff, onoff')
    /\ UNCHANGED queue

Set(i, p) ==
    /\ <<i, p, queue'[<<i, p>>]>> \in Safe
    /\ \A key \in (Inverter \X Setting) \ {<<i, p>>} : queue'[key] = queue[key]
    /\ UNCHANGED <<cap, onoff>>

Next ==
    \/ \E G \in Groups : Control(G)
    \/ \E i \in Inverter, p \in Setting : Set(i, p)

Spec == Init /\ [][Next]_vars
=============================================================================
