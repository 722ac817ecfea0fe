--------------------------- MODULE WriteTracking ---------------------------
(***************************************************************************)
(* Writes of grid-protection parameters and their asynchronous outcome: a  *)
(* write to Model 711 (frequency droop) or 134 (frequency-watt curve) is   *)
(* queued in a table for main.exe and tracked; the refresh loop compares   *)
(* what the inverter reports with what was written, and publishes the      *)
(* outcome as AdptCtlRslt of Model 711 beside the counter AdptCtlReq.      *)
(*                                                                         *)
(* Processes: one handler goroutine per Modbus client, the refresh loop,   *)
(* and main.exe, the ECU firmware, which is external. One SQL statement,   *)
(* one critical section of WriteTracker.mu and one store of an atomic      *)
(* pointer are one step each. A legal write touches one parameter, because *)
(* read-only registers separate the writable ones.                         *)
(***************************************************************************)
EXTENDS GridRules

CONSTANTS
    Client,       \* client connections, each with one handler goroutine
    Inverter,     \* inverter UIDs
    Fleets,       \* the inverter orders a refresh may find
    Rows,         \* what an inverter may report at first, one value per code
    Requests,     \* the writes that clients send
    MaxReq,       \* the largest request counter; 65535 in the code
    BuildMayFail, \* whether a refresh, or its protection query, can fail
    NoEntry, NoJob, NoSnapshot

\* Codes of this module that protGet has a case for.
Readable == {"AK", "CV", "DC", "DD", "CC"}

WriteRequest == [uid : 2 .. 255, param : Param, value : Nat]

ASSUME FleetsAssumption   == Fleets \subseteq Seq(Inverter)
ASSUME RowsAssumption     == Rows \subseteq Row
ASSUME RequestsAssumption == Requests \subseteq WriteRequest
ASSUME BoundAssumption    == MaxReq \in Nat \ {0}
ASSUME SwitchAssumption   == BuildMayFail \in BOOLEAN

Unit == {r.uid : r \in Requests}
Key  == Unit \X {711, 134}

\* What the refresh loop reads, what the tracker keeps for a key and returns,
\* and what a handler works on. The last three fields of an entry and the last
\* of a job are history, which the code does not keep: the inverter and the
\* parameter of the write, and whether no later write of them was queued.
Snapshot == [fleet : Seq(Inverter), rows : [Inverter -> Row]]

Result  == {"IN_PROGRESS", "COMPLETED", "FAILED"}
Outcome == [rslt : Result, req : 0 .. MaxReq]
Drafts  == UNION {[done -> Outcome] : done \in SUBSET Unit}

Entry ==
    [rslt : Result, req : 0 .. MaxReq,
     code : Code, value : Nat, age : {"fresh", "late", "stale"},
     inv : Inverter, param : Param, newest : BOOLEAN]

Job ==
    [uid : Unit, inv : Inverter, param : Param, value : Nat, newest : BOOLEAN]

ASSUME NoEntryAssumption    == NoEntry \notin Entry
ASSUME NoSnapshotAssumption == NoSnapshot \notin Snapshot

VARIABLES
    queue,    \* set_protection_parameters_inverter: rows main.exe has to send
    held,     \* the parameters each inverter runs with
    prot,     \* protection_parameters60code: what it last reported
    snap,     \* Server.snap
    pub,      \* Server.banks: AdptCtlRslt and AdptCtlReq of each unit
    entries,  \* WriteTracker.entries
    stage,    \* where the refresh loop is
    built,    \* the snapshot it is working on
    drafts,   \* the outcomes in the banks it is encoding, of the units done
    pc,       \* where each handler is in Apply
    job       \* the parameter it writes, to which inverter

external == <<queue, held, prot>>
refresh  == <<stage, built, drafts, snap, pub>>
handlers == <<pc, job>>
vars == <<external, refresh, entries, handlers>>

NoReport == [c \in Code |-> Null]
NoDrafts == [u \in {} |-> {}]

\* The 2..N+1 numbering, as handlers and tracker use it.
Mapped(s, u) == s # NoSnapshot /\ u - 1 \in 1 .. Len(s.fleet)
InverterOf(s, u) == s.fleet[u - 1]

----------------------------------------------------------------------------
(* The tracker.                                                            *)

\* writeMatchTolerance: 0.05, which is five hundredths of a hertz.
Matches(c, actual, expected) ==
    IF c \in {"DC", "CC"} THEN actual - expected \in -5 .. 5 ELSE actual = expected

MatchesAll(row, e) ==
    e.code \in Readable /\ row[e.code] # Null /\ Matches(e.code, row[e.code], e.value)

\* The age of an entry stands for the time: before its deadline, past it, and
\* past it by more than the grace period of one refresh interval.
Settled(e) == e.rslt # "IN_PROGRESS"

\* What Get returns for a key.
NothingInFlight == [rslt |-> "COMPLETED", req |-> 0]
Get(u) == IF entries[<<u, 711>>] = NoEntry THEN NothingInFlight
          ELSE [rslt |-> entries[<<u, 711>>].rslt, req |-> entries[<<u, 711>>].req]

Counter(key) == IF entries[key] = NoEntry THEN 0 ELSE entries[key].req

KeyOf(j) == <<j.uid, Model(j.param)>>

\* The entry that Track leaves for a write.
Tracked(j) ==
    [rslt |-> "IN_PROGRESS", req |-> (Counter(KeyOf(j)) + 1) % (MaxReq + 1),
     code |-> CodeOf[j.param], value |-> j.value, age |-> "fresh",
     inv |-> j.inv, param |-> j.param, newest |-> j.newest]

\* Mutant: the counter is wider than its register.
TrackNoWrap(j) ==
    entries' = [entries EXCEPT ![KeyOf(j)] =
                    [Tracked(j) EXCEPT !.req = Counter(KeyOf(j)) + 1]]

\* Mutant: a write that is in progress keeps what it expects.
TrackKeepsFirst(j) ==
    LET e == entries[KeyOf(j)]
    IN  entries' = [entries EXCEPT ![KeyOf(j)] =
            IF e # NoEntry /\ ~Settled(e)
            THEN [e EXCEPT !.req = (e.req + 1) % (MaxReq + 1), !.age = "fresh"]
            ELSE Tracked(j)]

Track(j) == entries' = [entries EXCEPT ![KeyOf(j)] = Tracked(j)]

\* Mutant: the tracker counts units from one, as if there were no aggregate.
ReconciledOffByOne(key) ==
    LET e == entries[key]
    IN  IF e = NoEntry THEN e
        ELSE IF Settled(e) THEN e
        ELSE IF Mapped(built, key[1] - 1) /\ MatchesAll(built.rows[InverterOf(built, key[1] - 1)], e)
             THEN [e EXCEPT !.rslt = "COMPLETED"]
        ELSE IF e.age # "fresh" THEN [e EXCEPT !.rslt = "FAILED"]
        ELSE e

\* Mutant: the deadline is looked at first.
ReconciledDeadlineFirst(key) ==
    LET e == entries[key]
    IN  IF e = NoEntry THEN e
        ELSE IF Settled(e) THEN e
        ELSE IF e.age # "fresh" THEN [e EXCEPT !.rslt = "FAILED"]
        ELSE IF Mapped(built, key[1]) /\ MatchesAll(built.rows[InverterOf(built, key[1])], e)
             THEN [e EXCEPT !.rslt = "COMPLETED"]
        ELSE e

\* Mutant: an inverter that left the fleet keeps its entry in progress.
ReconciledMappedOnly(key) ==
    LET e == entries[key]
    IN  IF e = NoEntry THEN e
        ELSE IF Settled(e) \/ ~Mapped(built, key[1]) THEN e
        ELSE IF MatchesAll(built.rows[InverterOf(built, key[1])], e)
             THEN [e EXCEPT !.rslt = "COMPLETED"]
        ELSE IF e.age # "fresh" THEN [e EXCEPT !.rslt = "FAILED"]
        ELSE e

\* Mutant: an outcome that has settled is compared again.
ReconciledAgain(key) ==
    LET e == entries[key]
    IN  IF e = NoEntry THEN e
        ELSE IF Mapped(built, key[1]) /\ MatchesAll(built.rows[InverterOf(built, key[1])], e)
             THEN [e EXCEPT !.rslt = "COMPLETED"]
        ELSE IF e.age # "fresh" THEN [e EXCEPT !.rslt = "FAILED"]
        ELSE e

\* What Reconcile makes of an entry.
Reconciled(key) ==
    LET e == entries[key]
    IN  IF e = NoEntry THEN e
        ELSE IF Settled(e) THEN e
        ELSE IF Mapped(built, key[1]) /\ MatchesAll(built.rows[InverterOf(built, key[1])], e)
             THEN [e EXCEPT !.rslt = "COMPLETED"]
        ELSE IF e.age # "fresh" THEN [e EXCEPT !.rslt = "FAILED"]
        ELSE e

\* Mutant: pruning looks at the deadline only.
PrunableByAge(e) == e.age = "stale"

Prunable(e) == Settled(e) /\ e.age = "stale"

----------------------------------------------------------------------------
(* A handler goroutine: Apply of FreqDroopWriter or FreqWattCurveWriter.    *)

\* Writes of the key that are between the queue and the tracker.
InFlight(key) ==
    {c \in Client : pc[c] # "idle" /\ KeyOf(job[c]) = key}

\* A write that passes validation. A refused one changes nothing.
Receive(c) ==
    /\ pc[c] = "idle"
    /\ \E r \in Requests :
        /\ Mapped(snap, r.uid)
        /\ LET i   == InverterOf(snap, r.uid)
               row == snap.rows[i]
           IN  /\ Accepts(row, r.param, r.value)
               /\ job' = [job EXCEPT ![c] =
                      [uid |-> r.uid, inv |-> i, param |-> r.param,
                       value |-> ValueOf(row, r.param, r.value), newest |-> FALSE]]
    /\ pc' = [pc EXCEPT ![c] = "queue"]
    /\ UNCHANGED <<external, refresh, entries>>

\* History: a write of the same parameter of the same inverter was queued.
Overtaken(w, j) == [w EXCEPT !.newest = w.newest /\ <<w.inv, w.param>> # <<j.inv, j.param>>]

\* SetProtectionParam: INSERT OR REPLACE of the parameter's row. Nothing is
\* expected of RspTms, so it is not tracked.
Queue(c) ==
    /\ pc[c] = "queue"
    /\ queue' = [queue EXCEPT ![job[c].inv][job[c].param] = job[c].value]
    /\ entries' = [key \in Key |->
           IF entries[key] = NoEntry THEN NoEntry ELSE Overtaken(entries[key], job[c])]
    /\ pc' = [pc EXCEPT ![c] = IF job[c].param = "RspTms" THEN "idle" ELSE "track"]
    /\ job' = [d \in Client |->
           IF d = c THEN IF job[c].param = "RspTms" THEN NoJob ELSE [job[c] EXCEPT !.newest = TRUE]
           ELSE IF pc[d] = "track" THEN Overtaken(job[d], job[c]) ELSE job[d]]
    /\ UNCHANGED <<held, prot, refresh>>

\* The statement fails: Apply returns its error.
QueueFails(c) ==
    /\ pc[c] = "queue"
    /\ pc' = [pc EXCEPT ![c] = "idle"]
    /\ job' = [job EXCEPT ![c] = NoJob]
    /\ UNCHANGED <<external, refresh, entries>>

TrackWrite(c) ==
    /\ pc[c] = "track"
    /\ Track(job[c])
    /\ pc' = [pc EXCEPT ![c] = "idle"]
    /\ job' = [job EXCEPT ![c] = NoJob]
    /\ UNCHANGED <<external, refresh>>

----------------------------------------------------------------------------
(* The refresh loop.                                                       *)

\* Builder.Build. The fleet comes from the parameter file, the rows from the
\* database; a failing protection query leaves them empty.
Build ==
    /\ stage = "build"
    /\ \E f \in Fleets, rows \in {prot} \cup
                  (IF BuildMayFail THEN {[i \in Inverter |-> NoReport]} ELSE {}) :
           built' = [fleet |-> f, rows |-> rows]
    /\ stage' = "reconcile"
    /\ UNCHANGED <<external, drafts, snap, pub, entries, handlers>>

Reconcile ==
    /\ stage = "reconcile"
    /\ entries' = [key \in Key |-> Reconciled(key)]
    /\ stage' = "prune"
    /\ UNCHANGED <<external, built, drafts, snap, pub, handlers>>

PruneSettled ==
    /\ stage = "prune"
    /\ entries' = [key \in Key |->
           IF entries[key] = NoEntry THEN NoEntry
           ELSE IF Prunable(entries[key]) THEN NoEntry ELSE entries[key]]
    /\ stage' = "banks"
    /\ UNCHANGED <<external, built, drafts, snap, pub, handlers>>

\* The units that buildBanks has still to encode.
Unencoded == {u \in Unit : Mapped(built, u)} \ DOMAIN drafts

\* buildBanks encodes one unit after the other, and asks for the outcome of each
\* on the way: writes may be tracked between two of them.
Encode(u) ==
    /\ stage = "banks"
    /\ u \in Unencoded /\ \A v \in Unencoded : u <= v
    /\ drafts' = [v \in DOMAIN drafts \cup {u} |-> IF v = u THEN Get(u) ELSE drafts[v]]
    /\ UNCHANGED <<external, stage, built, snap, pub, entries, handlers>>

\* The store of what buildBanks returns. A unit without a bank is answered from
\* the aggregate, whose outcome is that of no write.
StoreBanks ==
    /\ stage = "banks" /\ Unencoded = {}
    /\ pub' = [u \in Unit |-> IF u \in DOMAIN drafts THEN drafts[u] ELSE NothingInFlight]
    /\ drafts' = NoDrafts
    /\ stage' = "snap"
    /\ UNCHANGED <<external, built, snap, entries, handlers>>

StoreSnap ==
    /\ stage = "snap"
    /\ snap' = built
    /\ built' = NoSnapshot
    /\ stage' = "build"
    /\ UNCHANGED <<external, drafts, pub, entries, handlers>>

\* Time passes for an entry. Entries age on their own: only the order of one
\* entry's deadline and the steps of a refresh matters here.
Age(key) ==
    /\ entries[key] # NoEntry
    /\ entries[key].age # "stale"
    /\ entries' = [entries EXCEPT ![key].age =
                       IF entries[key].age = "fresh" THEN "late" ELSE "stale"]
    /\ UNCHANGED <<external, refresh, handlers>>

----------------------------------------------------------------------------
(* main.exe: it sends a queued row, which the inverter takes or rejects,   *)
(* and later stores what the inverter reports.                             *)

Send(i, p) ==
    /\ queue[i][p] # Null
    /\ \/ held' = [held EXCEPT ![i][CodeOf[p]] = queue[i][p]]
       \/ UNCHANGED held
    /\ queue' = [queue EXCEPT ![i][p] = Null]
    /\ UNCHANGED <<prot, refresh, entries, handlers>>

Report(i) ==
    /\ prot' = [prot EXCEPT ![i] = held[i]]
    /\ UNCHANGED <<queue, held, refresh, entries, handlers>>

----------------------------------------------------------------------------

Init ==
    /\ queue = [i \in Inverter |-> [p \in Param |-> Null]]
    /\ held \in [Inverter -> Rows]
    /\ prot = held
    /\ snap = NoSnapshot
    /\ pub = [u \in Unit |-> NothingInFlight]
    /\ entries = [key \in Key |-> NoEntry]
    /\ stage = "build"
    /\ built = NoSnapshot
    /\ drafts = NoDrafts
    /\ pc = [c \in Client |-> "idle"]
    /\ job = [c \in Client |-> NoJob]

HandlerStep(c) == Queue(c) \/ QueueFails(c) \/ TrackWrite(c)

RefreshStep ==
    Build \/ Reconcile \/ PruneSettled \/ (\E u \in Unit : Encode(u)) \/ StoreBanks \/ StoreSnap

Next ==
    \/ \E c \in Client : Receive(c) \/ HandlerStep(c)
    \/ RefreshStep
    \/ \E key \in Key : Age(key)
    \/ \E i \in Inverter : Report(i) \/ \E p \in Param : Send(i, p)

Spec == Init /\ [][Next]_vars

\* The handlers and the refresh loop are goroutines that never wait for each
\* other, and time passes. A refresh that fails is one the loop has not begun:
\* the ticker starts another. Nothing is assumed of clients and of main.exe.
Fairness ==
    /\ \A c \in Client : WF_vars(HandlerStep(c))
    /\ WF_vars(RefreshStep)
    /\ \A key \in Key : WF_vars(Age(key))

FairSpec == Spec /\ Fairness

----------------------------------------------------------------------------
(* Properties.                                                             *)

\* Type correctness: among others, the request counter stays in its range, and
\* the refresh loop has a snapshot wherever it uses one.
TypeOK ==
    /\ queue \in [Inverter -> [Param -> Nat \cup {Null}]]
    /\ held \in [Inverter -> Row]
    /\ prot \in [Inverter -> Row]
    /\ snap \in Snapshot \cup {NoSnapshot}
    /\ pub \in [Unit -> Outcome]
    /\ entries \in [Key -> Entry \cup {NoEntry}]
    /\ stage \in {"build", "reconcile", "prune", "banks", "snap"}
    /\ built \in Snapshot \cup {NoSnapshot}
    /\ stage # "build" => built \in Snapshot
    /\ drafts \in Drafts
    /\ stage # "banks" => drafts = NoDrafts
    /\ pc \in [Client -> {"idle", "queue", "track"}]
    /\ job \in [Client -> Job \cup {NoJob}]
    /\ \A c \in Client : pc[c] # "idle" => job[c] \in Job

Waiting(key) == entries[key] # NoEntry /\ ~Settled(entries[key])

Becomes(key, rslt) ==
    Waiting(key) /\ entries'[key] # NoEntry /\ entries'[key].rslt = rslt

\* A write that is in progress is not forgotten, however refreshes and clients
\* interleave: its entry may pass both deadlines between Reconcile and
\* PruneSettled of one refresh.
InProgressIsKept == [][\A key \in Key : Waiting(key) => entries'[key] # NoEntry]_vars

\* The tracker holds the outcome of the write that took effect: once no write
\* of the unit is under way, what an entry expects is what was queued last.
ExpectsLastQueued ==
    \A key \in Key :
        Waiting(key) /\ InFlight(key) = {} => entries[key].newest

\* The inverter that the write of entry e was queued for reports its value.
Reported(s, e) ==
    LET actual == s.rows[e.inv][e.code]
    IN  actual # Null /\ Matches(e.code, actual, e.value)

\* "Match -> COMPLETED": an outcome becomes COMPLETED only if the inverter the
\* write was queued for reports the value.
CompletedWasReported ==
    [][\A key \in Key : Becomes(key, "COMPLETED") =>
           Reported(built, entries[key])]_vars

\* "Past deadline without match -> FAILED": an outcome becomes FAILED only if
\* that inverter does not report the value.
FailedWasNotReported ==
    [][\A key \in Key : Becomes(key, "FAILED") =>
           ~Reported(built, entries[key])]_vars

\* The outcome that an entry stands for.
OutcomeOf(e) ==
    IF e = NoEntry THEN [rslt |-> "UNTRACKED", req |-> 0] ELSE [rslt |-> e.rslt, req |-> e.req]

O == INSTANCE Outcomes WITH
         outcome <- [key \in Key |-> OutcomeOf(entries[key])], taken <- drafts, shown <- pub

\* Refinement: however handlers, refreshes and inverters interleave, outcomes
\* have the lifecycle of Outcomes. A settled outcome stays what it is, though
\* the inverter may report otherwise later, until a new write or its end. And
\* though a write may be tracked while the banks are encoded, of each unit its
\* clients read outcomes that it had, each of the time between two stores.
OutcomeSpec == O!Spec

\* Every write gets an outcome: once clients stop writing to a key its entry
\* does not stay in progress, whatever main.exe and the inverter do and whether
\* or not the inverter leaves the fleet.
WritesSettle ==
    \A key \in Key : <>[](InFlight(key) = {}) => <>[]~Waiting(key)

\* "publish IN_PROGRESS / COMPLETED / FAILED faithfully": a write that is
\* COMPLETED, with no later one under way, is what the inverter runs with.
CompletedTookEffect ==
    \A key \in Key :
        LET e == entries[key]
        IN  (e # NoEntry /\ InFlight(key) = {}) =>
                (e.rslt = "COMPLETED" => held[e.inv][e.code] = e.value)

\* "preserve current AS/NZS mode": inverters that were set up in the AS/NZS mode
\* never run with the mode of another region.
RegionIsKept ==
    (\A row \in Rows : row["CV"] = ModeASNZS) =>
        \A i \in Inverter : held[i]["CV"] # ModeOther
=============================================================================
