------------------------------ MODULE Outcomes ------------------------------
(***************************************************************************)
(* What the outcome registers promise, one model of one unit at a time: a  *)
(* write makes the outcome IN_PROGRESS under the next number, it settles   *)
(* once, COMPLETED or FAILED, and is forgotten only after that. For the    *)
(* next banks the outcome of each unit is taken once, after outcomes have  *)
(* settled; a write may come between any two of these. So the banks of a   *)
(* unit show outcomes it had, in their order, each taken after the banks   *)
(* before were stored, but not those of one moment. Who writes, what an    *)
(* inverter reports and when deadlines pass do not appear.                 *)
(***************************************************************************)
EXTENDS Integers

CONSTANTS
    Unit,
    Key,        \* units and models whose writes have an outcome
    MaxReq      \* the largest number of a write

VARIABLES
    outcome,    \* of the last write of each key
    taken,      \* for the banks that are being built, of the units done
    shown       \* AdptCtlRslt and AdptCtlReq of each unit

vars == <<outcome, taken, shown>>

Untracked == [rslt |-> "UNTRACKED", req |-> 0]
NothingInFlight == [rslt |-> "COMPLETED", req |-> 0]
NothingTaken == [u \in {} |-> {}]

Pending(key) == outcome[key].rslt = "IN_PROGRESS"
Settled(key) == outcome[key].rslt \in {"COMPLETED", "FAILED"}

Init ==
    /\ outcome = [key \in Key |-> Untracked]
    /\ taken = NothingTaken
    /\ shown = [u \in Unit |-> NothingInFlight]

\* A write replaces what came of the one before it.
Issue(key) ==
    /\ outcome' = [outcome EXCEPT ![key] =
           [rslt |-> "IN_PROGRESS", req |-> (outcome[key].req + 1) % (MaxReq + 1)]]
    /\ UNCHANGED <<taken, shown>>

\* One refresh settles some of the writes in progress, each in its own way,
\* before it builds banks.
Settle ==
    /\ taken = NothingTaken
    /\ \E done, lost \in SUBSET {key \in Key : Pending(key)} :
           outcome' = [key \in Key |->
               IF key \in done THEN [rslt |-> "COMPLETED", req |-> outcome[key].req]
               ELSE IF key \in lost THEN [rslt |-> "FAILED", req |-> outcome[key].req]
               ELSE outcome[key]]
    /\ UNCHANGED <<taken, shown>>

Forget ==
    /\ taken = NothingTaken
    /\ \E gone \in SUBSET {key \in Key : Settled(key)} :
           outcome' = [key \in Key |-> IF key \in gone THEN Untracked ELSE outcome[key]]
    /\ UNCHANGED <<taken, shown>>

\* The droop's outcome of a unit that has a bank goes into it.
Take(u) ==
    /\ u \notin DOMAIN taken
    /\ taken' = [v \in DOMAIN taken \cup {u} |->
           IF v # u THEN taken[v]
           ELSE IF outcome[<<u, 711>>] = Untracked THEN NothingInFlight ELSE outcome[<<u, 711>>]]
    /\ UNCHANGED <<outcome, shown>>

Publish ==
    /\ shown' = [u \in Unit |-> IF u \in DOMAIN taken THEN taken[u] ELSE NothingInFlight]
    /\ taken' = NothingTaken
    /\ UNCHANGED outcome

Next ==
    \/ \E key \in Key : Issue(key)
    \/ Settle \/ Forget
    \/ \E u \in Unit : Take(u)
    \/ Publish

Spec == Init /\ [][Next]_vars
=============================================================================
