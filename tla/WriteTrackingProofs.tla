------------------------ MODULE WriteTrackingProofs ------------------------
(***************************************************************************)
(* Theorems about WriteTracking, for any number of clients and inverters,  *)
(* any fleets, any reported rows and any writes.                           *)
(***************************************************************************)
EXTENDS WriteTracking, TLAPS

----------------------------------------------------------------------------
(* The operators the model is built from.                                  *)

\* What a row reports and a write carries, once accepted, is a value to queue.
LEMMA ValueOfType ==
    ASSUME NEW row, NEW p \in Param, NEW v \in Nat
    PROVE  ValueOf(row, p, v) \in Nat
BY DEF ValueOf, ModeDisabled, ModeASNZS, ModeOther, Nominal

\* Keys and requests name units of the range the handlers know.
LEMMA UnitType ==
    /\ \A r \in Requests : r \in WriteRequest /\ r.uid \in Unit
    /\ Unit \subseteq 2 .. 255
<1>1. \A r \in Requests : r \in WriteRequest /\ r.uid \in Unit
  BY RequestsAssumption DEF Unit
<1>2. \A r \in WriteRequest : r.uid \in 2 .. 255
  BY DEF WriteRequest
<1>3. QED
  BY <1>1, <1>2 DEF Unit

\* A unit that a snapshot maps stands for an inverter.
LEMMA InverterOfType ==
    ASSUME NEW s \in Snapshot \cup {NoSnapshot}, NEW u \in 2 .. 255, Mapped(s, u)
    PROVE  s \in Snapshot /\ InverterOf(s, u) \in Inverter
BY DEF Mapped, InverterOf, Snapshot

\* Changing a field of an entry or a job keeps it one.
LEMMA EntryFieldType ==
    ASSUME NEW e \in Entry, NEW r \in Result,
           NEW a \in {"fresh", "late", "stale"}, NEW b \in BOOLEAN
    PROVE  /\ [e EXCEPT !.rslt = r] \in Entry
           /\ [e EXCEPT !.age = a] \in Entry
           /\ [e EXCEPT !.newest = b] \in Entry
BY DEF Entry

LEMMA JobFieldType ==
    ASSUME NEW j \in Job, NEW b \in BOOLEAN
    PROVE  [j EXCEPT !.newest = b] \in Job
BY DEF Job

LEMMA OvertakenType ==
    ASSUME NEW j
    PROVE  /\ \A e \in Entry : Overtaken(e, j) \in Entry
           /\ \A i \in Job : Overtaken(i, j) \in Job
<1>1. ASSUME NEW e \in Entry PROVE Overtaken(e, j) \in Entry
  <2>1. (e.newest /\ <<e.inv, e.param>> # <<j.inv, j.param>>) \in BOOLEAN
    OBVIOUS
  <2>2. QED
    BY <2>1, EntryFieldType DEF Overtaken, Result
<1>2. ASSUME NEW i \in Job PROVE Overtaken(i, j) \in Job
  <2>1. (i.newest /\ <<i.inv, i.param>> # <<j.inv, j.param>>) \in BOOLEAN
    OBVIOUS
  <2>2. QED
    BY <2>1, JobFieldType DEF Overtaken
<1>3. QED
  BY <1>1, <1>2

\* The keys of the tracker.
LEMMA KeyType ==
    ASSUME NEW u \in Unit, NEW p \in Param
    PROVE  <<u, Model(p)>> \in Key
BY DEF Key, Model

\* The next request counter fits the register.
LEMMA CounterRange ==
    ASSUME NEW n \in Nat
    PROVE  (n + 1) % (MaxReq + 1) \in 0 .. MaxReq
BY BoundAssumption

\* What Get returns is an outcome, with an entry and without one.
LEMMA NothingInFlightType == NothingInFlight \in Outcome
<1>1. 0 \in 0 .. MaxReq
  BY BoundAssumption
<1>2. QED
  BY <1>1 DEF NothingInFlight, Outcome, Result

LEMMA GetType ==
    ASSUME NEW u \in Unit, entries[<<u, 711>>] \in Entry \cup {NoEntry}
    PROVE  Get(u) \in Outcome
<1> DEFINE e == entries[<<u, 711>>]
<1>1. /\ e \in Entry \cup {NoEntry}
      /\ Get(u) = IF e = NoEntry THEN NothingInFlight
                  ELSE [rslt |-> e.rslt, req |-> e.req]
  BY DEF Get
<1> HIDE DEF e
<1>2. CASE e = NoEntry
  BY <1>1, <1>2, NothingInFlightType
<1>3. CASE e # NoEntry
  <2>1. e.rslt \in Result /\ e.req \in 0 .. MaxReq
    BY <1>1, <1>3 DEF Entry
  <2>2. QED
    BY <1>1, <1>3, <2>1 DEF Outcome
<1>4. QED
  BY <1>2, <1>3

\* A counter is a number, with an entry and without one.
LEMMA CounterType ==
    ASSUME NEW key, entries[key] \in Entry \cup {NoEntry}
    PROVE  Counter(key) \in Nat
<1>1. \A n \in 0 .. MaxReq : n \in Nat
  BY BoundAssumption
<1>2. CASE entries[key] = NoEntry
  BY <1>2 DEF Counter
<1>3. CASE entries[key] \in Entry
  <2>1. entries[key].req \in Nat
    BY <1>1, <1>3 DEF Entry
  <2>2. QED
    BY <2>1 DEF Counter
<1>4. QED
  BY <1>2, <1>3

\* Track makes an entry of a job.
LEMMA TrackedType ==
    ASSUME NEW j \in Job, entries \in [Key -> Entry \cup {NoEntry}]
    PROVE  KeyOf(j) \in Key /\ Tracked(j) \in Entry
<1>1. j.uid \in Unit /\ j.param \in Param
  BY DEF Job
<1>2. KeyOf(j) \in Key
  BY <1>1, KeyType DEF KeyOf
<1>3. Counter(KeyOf(j)) \in Nat
  BY <1>2, CounterType
<1>4. (Counter(KeyOf(j)) + 1) % (MaxReq + 1) \in 0 .. MaxReq
  BY <1>3, CounterRange
<1>5. CodeOf[j.param] \in Code
  BY <1>1 DEF CodeOf, Code, Param, Droop, Curve
<1>6. QED
  BY <1>2, <1>4, <1>5 DEF Tracked, Result, Entry, Job

\* Reconcile makes an entry of an entry.
LEMMA ReconciledType ==
    ASSUME NEW key \in Key, entries[key] \in Entry \cup {NoEntry}
    PROVE  Reconciled(key) \in Entry \cup {NoEntry}
<1> DEFINE e == entries[key]
<1>1. CASE e = NoEntry
  BY <1>1 DEF Reconciled
<1>2. CASE e # NoEntry
  <2>1. e \in Entry
    BY <1>2
  <2>2. /\ [e EXCEPT !.rslt = "COMPLETED"] \in Entry
        /\ [e EXCEPT !.rslt = "FAILED"] \in Entry
    <3> HIDE DEF e
    <3> QED
      BY <2>1, EntryFieldType DEF Result
  <2>3. QED
    BY <1>2, <2>1, <2>2 DEF Reconciled
<1>3. QED
  BY <1>1, <1>2

----------------------------------------------------------------------------
(* Type correctness.                                                       *)

\* Outcomes of no unit, and those of one unit more.
LEMMA NoDraftsType == NoDrafts \in Drafts /\ DOMAIN NoDrafts = {}
<1>1. NoDrafts \in [{} -> Outcome] /\ DOMAIN NoDrafts = {}
  BY DEF NoDrafts
<1>2. {} \in SUBSET Unit
  OBVIOUS
<1>3. QED
  BY <1>1, <1>2 DEF Drafts

LEMMA MoreDraftsType ==
    ASSUME NEW d \in Drafts, NEW u \in Unit, NEW o \in Outcome
    PROVE  [v \in DOMAIN d \cup {u} |-> IF v = u THEN o ELSE d[v]] \in Drafts
<1>1. PICK done \in SUBSET Unit : d \in [done -> Outcome]
  BY DEF Drafts
<1>2. DOMAIN d = done /\ done \cup {u} \in SUBSET Unit
  BY <1>1
<1>3. [v \in done \cup {u} |-> IF v = u THEN o ELSE d[v]] \in [done \cup {u} -> Outcome]
  BY <1>1
<1>4. QED
  BY <1>2, <1>3 DEF Drafts

\* What has been drafted are outcomes of units.
LEMMA DraftType ==
    ASSUME NEW d \in Drafts
    PROVE  \A u \in DOMAIN d : u \in Unit /\ d[u] \in Outcome
BY DEF Drafts

LEMMA TypeInit == Init => TypeOK
<1> SUFFICES ASSUME Init PROVE TypeOK
  OBVIOUS
<1>1. held \in [Inverter -> Row]
  BY RowsAssumption DEF Init
<1>2. QED
  BY <1>1, NothingInFlightType, NoDraftsType DEF Init, TypeOK

LEMMA TypeStep == TypeOK /\ [Next]_vars => TypeOK'
<1> SUFFICES ASSUME TypeOK, [Next]_vars PROVE TypeOK'
  OBVIOUS
<1>1. ASSUME NEW c \in Client, Receive(c) PROVE TypeOK'
  <2>1. PICK r \in Requests :
          /\ Mapped(snap, r.uid)
          /\ job' = [job EXCEPT ![c] =
                [uid |-> r.uid, inv |-> InverterOf(snap, r.uid), param |-> r.param,
                 value |-> ValueOf(snap.rows[InverterOf(snap, r.uid)], r.param, r.value),
                 newest |-> FALSE]]
    BY <1>1 DEF Receive
  <2>2. r.uid \in Unit /\ r.uid \in 2 .. 255 /\ r.param \in Param /\ r.value \in Nat
    BY UnitType DEF WriteRequest
  <2>3. InverterOf(snap, r.uid) \in Inverter
    BY <2>1, <2>2, InverterOfType DEF TypeOK
  <2>4. ValueOf(snap.rows[InverterOf(snap, r.uid)], r.param, r.value) \in Nat
    BY <2>2, ValueOfType
  <2>5. job'[c] \in Job /\ job' \in [Client -> Job \cup {NoJob}]
    BY <2>1, <2>2, <2>3, <2>4 DEF TypeOK, Job
  <2>6. \A d \in Client : d # c => job'[d] = job[d] /\ pc'[d] = pc[d]
    BY <1>1, <2>1 DEF TypeOK, Receive
  <2>7. pc' \in [Client -> {"idle", "queue", "track"}]
    BY <1>1 DEF TypeOK, Receive
  <2>8. \A d \in Client : pc'[d] # "idle" => job'[d] \in Job
    BY <2>5, <2>6 DEF TypeOK
  <2>9. QED
    BY <1>1, <2>5, <2>7, <2>8 DEF TypeOK, Receive, external, refresh
<1>2. ASSUME NEW c \in Client, Queue(c) PROVE TypeOK'
  <2>1. /\ job[c] \in Job
        /\ job[c].inv \in Inverter /\ job[c].param \in Param /\ job[c].value \in Nat
    BY <1>2 DEF TypeOK, Queue, Job
  <2>2. queue' \in [Inverter -> [Param -> Nat \cup {Null}]]
    BY <1>2, <2>1 DEF TypeOK, Queue
  <2>3. entries' \in [Key -> Entry \cup {NoEntry}]
    BY <1>2, OvertakenType DEF TypeOK, Queue
  <2>4. pc' \in [Client -> {"idle", "queue", "track"}]
    BY <1>2 DEF TypeOK, Queue
  <2>5. [job[c] EXCEPT !.newest = TRUE] \in Job
    BY <2>1, JobFieldType
  <2>6. ASSUME NEW d \in Client
        PROVE  job'[d] \in Job \cup {NoJob} /\ (pc'[d] # "idle" => job'[d] \in Job)
    <3>1. CASE d = c
      BY <1>2, <2>5, <3>1 DEF TypeOK, Queue
    <3>2. CASE d # c /\ pc[d] = "track"
      <4>1. job[d] \in Job
        BY <3>2 DEF TypeOK
      <4>2. job'[d] = Overtaken(job[d], job[c])
        BY <1>2, <3>2 DEF Queue
      <4>3. QED
        BY <4>1, <4>2, OvertakenType
    <3>3. CASE d # c /\ pc[d] # "track"
      BY <1>2, <3>3 DEF TypeOK, Queue
    <3>4. QED
      BY <3>1, <3>2, <3>3
  <2>7. job' \in [Client -> Job \cup {NoJob}]
    BY <1>2, <2>6 DEF Queue
  <2>8. QED
    BY <1>2, <2>2, <2>3, <2>4, <2>6, <2>7 DEF TypeOK, Queue, refresh
<1>3. ASSUME NEW c \in Client, QueueFails(c) PROVE TypeOK'
  BY <1>3 DEF TypeOK, QueueFails, external, refresh
<1>4. ASSUME NEW c \in Client, TrackWrite(c) PROVE TypeOK'
  <2>1. job[c] \in Job /\ entries \in [Key -> Entry \cup {NoEntry}]
    BY <1>4 DEF TypeOK, TrackWrite
  <2>2. entries' = [entries EXCEPT ![KeyOf(job[c])] = Tracked(job[c])]
    BY <1>4 DEF TrackWrite, Track
  <2>3. entries' \in [Key -> Entry \cup {NoEntry}]
    BY <2>1, <2>2, TrackedType
  <2>4. QED
    BY <1>4, <2>3 DEF TypeOK, TrackWrite, external, refresh
<1>5. CASE Build
  <2>1. [i \in Inverter |-> NoReport] \in [Inverter -> Row]
    BY DEF NoReport, Row
  <2>2. PICK f \in Fleets, rows \in [Inverter -> Row] : built' = [fleet |-> f, rows |-> rows]
    BY <1>5, <2>1 DEF Build, TypeOK
  <2>3. built' \in Snapshot
    BY <2>2, FleetsAssumption DEF Snapshot
  <2>4. QED
    BY <1>5, <2>3 DEF TypeOK, Build, external, handlers
<1>6. CASE Reconcile
  <2>1. entries' \in [Key -> Entry \cup {NoEntry}]
    BY <1>6, ReconciledType DEF TypeOK, Reconcile
  <2>2. QED
    BY <1>6, <2>1 DEF TypeOK, Reconcile, external, handlers
<1>7. CASE PruneSettled
  <2>1. entries' \in [Key -> Entry \cup {NoEntry}]
    BY <1>7 DEF TypeOK, PruneSettled
  <2>2. QED
    BY <1>7, <2>1 DEF TypeOK, PruneSettled, external, handlers
<1>8. CASE StoreBanks
  <2>1. \A u \in DOMAIN drafts : drafts[u] \in Outcome
    BY DraftType DEF TypeOK
  <2>2. pub' \in [Unit -> Outcome]
    BY <1>8, <2>1, NothingInFlightType DEF StoreBanks
  <2>3. QED
    BY <1>8, <2>2, NoDraftsType DEF TypeOK, StoreBanks, external, handlers
<1>9. CASE StoreSnap
  BY <1>9 DEF TypeOK, StoreSnap, external, handlers
<1>10. ASSUME NEW key \in Key, Age(key) PROVE TypeOK'
  <2>1. PICK a \in {"late", "stale"} : entries' = [entries EXCEPT ![key].age = a]
    BY <1>10 DEF Age
  <2>2. entries[key] \in Entry
    BY <1>10 DEF TypeOK, Age
  <2>3. [entries[key] EXCEPT !.age = a] \in Entry
    BY <2>2, EntryFieldType DEF Result
  <2>4. entries' = [entries EXCEPT ![key] = [entries[key] EXCEPT !.age = a]]
    BY <2>1
  <2>5. entries' \in [Key -> Entry \cup {NoEntry}]
    BY <2>3, <2>4 DEF TypeOK
  <2>6. QED
    BY <1>10, <2>5 DEF TypeOK, Age, external, refresh, handlers
<1>11. ASSUME NEW i \in Inverter, Report(i) PROVE TypeOK'
  BY <1>11 DEF TypeOK, Report, refresh, handlers
<1>12. ASSUME NEW i \in Inverter, NEW p \in Param, Send(i, p) PROVE TypeOK'
  <2>1. queue[i][p] \in Nat
    BY <1>12 DEF TypeOK, Send
  <2>2. CodeOf[p] \in Code
    BY DEF CodeOf, Code, Param, Droop, Curve
  <2>3. held' \in [Inverter -> Row]
    <3>1. CASE held' = [held EXCEPT ![i][CodeOf[p]] = queue[i][p]]
      BY <2>1, <2>2, <3>1 DEF TypeOK, Row
    <3>2. CASE UNCHANGED held
      BY <3>2 DEF TypeOK
    <3>3. QED
      BY <1>12, <3>1, <3>2 DEF Send
  <2>4. queue' \in [Inverter -> [Param -> Nat \cup {Null}]]
    BY <1>12 DEF TypeOK, Send
  <2>5. QED
    BY <1>12, <2>3, <2>4 DEF TypeOK, Send, refresh, handlers
<1>13. CASE UNCHANGED vars
  BY <1>13 DEF TypeOK, vars, external, refresh, handlers
<1>14. ASSUME NEW u \in Unit, Encode(u) PROVE TypeOK'
  <2>1. <<u, 711>> \in Key
    BY DEF Key
  <2>2. entries[<<u, 711>>] \in Entry \cup {NoEntry}
    BY <2>1 DEF TypeOK
  <2>3. Get(u) \in Outcome /\ drafts \in Drafts
    BY <2>2, GetType DEF TypeOK
  <2>4. drafts' = [v \in DOMAIN drafts \cup {u} |-> IF v = u THEN Get(u) ELSE drafts[v]]
    BY <1>14 DEF Encode
  <2>5. drafts' \in Drafts
    BY <2>3, <2>4, MoreDraftsType
  <2>6. QED
    BY <1>14, <2>5 DEF TypeOK, Encode, external, handlers
<1>15. QED
  BY <1>1, <1>2, <1>3, <1>4, <1>5, <1>6, <1>7, <1>8, <1>9, <1>10, <1>11, <1>12, <1>13, <1>14
     DEF Next, HandlerStep, RefreshStep

\* Every variable of the tracker, of the refresh loop and of the handlers
\* keeps its type; the request counter stays in its register.
THEOREM TypeCorrect == Spec => []TypeOK
<1>1. QED
  BY TypeInit, TypeStep, PTL DEF Spec

----------------------------------------------------------------------------
(* What a step can do to an entry.                                         *)

\* Two entries of the same write.
SameWrite(e, f) ==
    f \in Entry /\ f.req = e.req /\ f.inv = e.inv /\ f.code = e.code /\ f.value = e.value

\* Changing the result, the age or the history leaves the write what it was.
LEMMA FieldKeepsWrite ==
    ASSUME NEW e \in Entry, NEW r \in Result,
           NEW a \in {"fresh", "late", "stale"}, NEW b \in BOOLEAN
    PROVE  /\ SameWrite(e, e)
           /\ SameWrite(e, [e EXCEPT !.rslt = r]) /\ [e EXCEPT !.rslt = r].rslt = r
           /\ SameWrite(e, [e EXCEPT !.age = a]) /\ [e EXCEPT !.age = a].rslt = e.rslt
           /\ SameWrite(e, [e EXCEPT !.newest = b]) /\ [e EXCEPT !.newest = b].rslt = e.rslt
BY EntryFieldType DEF SameWrite, Entry

LEMMA OvertakenKeepsWrite ==
    ASSUME NEW e \in Entry, NEW j
    PROVE  SameWrite(e, Overtaken(e, j)) /\ Overtaken(e, j).rslt = e.rslt
<1>1. (e.newest /\ <<e.inv, e.param>> # <<j.inv, j.param>>) \in BOOLEAN
  OBVIOUS
<1>2. QED
  BY <1>1, FieldKeepsWrite DEF Overtaken, Result

\* Reconcile settles an entry in one of two ways or leaves it alone.
LEMMA ReconciledKeepsWrite ==
    ASSUME NEW key \in Key, entries[key] \in Entry
    PROVE  /\ SameWrite(entries[key], Reconciled(key))
           /\ entries[key] # NoEntry
           /\ Reconciled(key).rslt = "COMPLETED" /\ ~Settled(entries[key]) =>
                  Mapped(built, key[1])
                  /\ MatchesAll(built.rows[InverterOf(built, key[1])], entries[key])
           /\ Reconciled(key).rslt = "FAILED" /\ ~Settled(entries[key]) =>
                  ~(Mapped(built, key[1])
                    /\ MatchesAll(built.rows[InverterOf(built, key[1])], entries[key]))
<1> DEFINE e == entries[key]
           match == /\ Mapped(built, key[1])
                    /\ MatchesAll(built.rows[InverterOf(built, key[1])], e)
<1>1. /\ e \in Entry /\ e # NoEntry
      /\ Reconciled(key) = IF Settled(e) THEN e
                           ELSE IF match THEN [e EXCEPT !.rslt = "COMPLETED"]
                           ELSE IF e.age # "fresh" THEN [e EXCEPT !.rslt = "FAILED"]
                           ELSE e
  BY NoEntryAssumption DEF Reconciled
<1>2. /\ SameWrite(e, e)
      /\ SameWrite(e, [e EXCEPT !.rslt = "COMPLETED"])
      /\ SameWrite(e, [e EXCEPT !.rslt = "FAILED"])
      /\ [e EXCEPT !.rslt = "COMPLETED"].rslt = "COMPLETED"
      /\ [e EXCEPT !.rslt = "FAILED"].rslt = "FAILED"
  <2> HIDE DEF e
  <2> QED
    BY <1>1, FieldKeepsWrite DEF Result
<1>3. QED
  <2> HIDE DEF e, match
  <2>1. SameWrite(e, Reconciled(key))
    BY <1>1, <1>2
  <2>2. Reconciled(key).rslt = "COMPLETED" /\ ~Settled(e) => match
    BY <1>1, <1>2 DEF Settled
  <2>3. Reconciled(key).rslt = "FAILED" /\ ~Settled(e) => ~match
    BY <1>1, <1>2 DEF Settled
  <2>4. QED
    BY <1>1, <2>1, <2>2, <2>3 DEF e, match

\* Time passes for one entry, and for the same write.
LEMMA AgeKeepsWrite ==
    ASSUME TypeOK, NEW k \in Key, Age(k), NEW key \in Key
    PROVE  \/ entries'[key] = entries[key]
           \/ /\ entries[key] \in Entry
              /\ SameWrite(entries[key], entries'[key])
              /\ entries'[key].rslt = entries[key].rslt
<1>1. PICK a \in {"late", "stale"} : entries' = [entries EXCEPT ![k].age = a]
  BY DEF Age
<1>2. CASE k # key
  BY <1>1, <1>2 DEF TypeOK
<1>3. CASE k = key
  <2>1. entries[key] \in Entry
    BY <1>3 DEF Age, TypeOK
  <2>2. entries' = [entries EXCEPT ![key] = [entries[key] EXCEPT !.age = a]]
    BY <1>1, <1>3
  <2>3. entries'[key] = [entries[key] EXCEPT !.age = a]
    BY <2>2 DEF TypeOK
  <2>4. /\ SameWrite(entries[key], [entries[key] EXCEPT !.age = a])
        /\ [entries[key] EXCEPT !.age = a].rslt = entries[key].rslt
    <3> DEFINE e == entries[key]
    <3>1. e \in Entry
      BY <2>1
    <3> HIDE DEF e
    <3>2. SameWrite(e, [e EXCEPT !.age = a]) /\ [e EXCEPT !.age = a].rslt = e.rslt
      BY <3>1, FieldKeepsWrite DEF Result
    <3>3. QED
      BY <3>2 DEF e
  <2>5. QED
    BY <2>1, <2>3, <2>4
<1>4. QED
  BY <1>2, <1>3

\* The entry of a key is left alone or absent, dropped by pruning when it is
\* settled, kept for the same write, or replaced by a handler.
LEMMA EntryStep ==
    ASSUME TypeOK, TypeOK', [Next]_vars, NEW key \in Key
    PROVE  \/ entries'[key] = entries[key]
           \/ entries'[key] = NoEntry /\ Settled(entries[key])
           \/ /\ entries[key] \in Entry
              /\ SameWrite(entries[key], entries'[key])
              /\ \/ entries'[key].rslt = entries[key].rslt
                 \/ Reconcile /\ entries'[key] = Reconciled(key)
           \/ \E c \in Client :
                 /\ pc[c] = "track" /\ key = KeyOf(job[c])
                 /\ entries'[key] = Tracked(job[c]) /\ entries'[key] \in Entry
<1> DEFINE Kept    == /\ entries[key] \in Entry
                      /\ SameWrite(entries[key], entries'[key])
                      /\ entries'[key].rslt = entries[key].rslt
           Settles == /\ entries[key] \in Entry
                      /\ SameWrite(entries[key], entries'[key])
                      /\ Reconcile /\ entries'[key] = Reconciled(key)
           Dropped == entries'[key] = NoEntry /\ Settled(entries[key])
           Same    == entries'[key] = entries[key]
           Fresh(c) == /\ pc[c] = "track" /\ key = KeyOf(job[c])
                       /\ entries'[key] = Tracked(job[c]) /\ entries'[key] \in Entry
<1>0. entries[key] \in Entry \cup {NoEntry} /\ entries'[key] \in Entry \cup {NoEntry}
  BY DEF TypeOK
<1>1. ASSUME NEW c \in Client, Queue(c) PROVE Same \/ Kept
  <2>1. CASE entries[key] = NoEntry
    BY <1>1, <2>1 DEF Queue
  <2>2. CASE entries[key] # NoEntry
    <3>1. entries'[key] = Overtaken(entries[key], job[c]) /\ entries[key] \in Entry
      BY <1>0, <1>1, <2>2 DEF Queue
    <3>2. QED
      BY <3>1, OvertakenKeepsWrite
  <2>3. QED
    BY <2>1, <2>2
<1>2. ASSUME NEW c \in Client, TrackWrite(c) PROVE Same \/ Fresh(c)
  <2>1. /\ pc[c] = "track" /\ job[c] \in Job
        /\ entries \in [Key -> Entry \cup {NoEntry}]
        /\ entries' = [entries EXCEPT ![KeyOf(job[c])] = Tracked(job[c])]
    BY <1>2 DEF TypeOK, TrackWrite, Track
  <2>2. CASE key = KeyOf(job[c])
    BY <2>1, <2>2, TrackedType
  <2>3. CASE key # KeyOf(job[c])
    BY <2>1, <2>3
  <2>4. QED
    BY <2>2, <2>3
<1>3. CASE Reconcile
  <2>1. entries'[key] = Reconciled(key)
    BY <1>3 DEF Reconcile
  <2>2. CASE entries[key] \in Entry
    BY <1>3, <2>1, <2>2, ReconciledKeepsWrite
  <2>3. CASE entries[key] = NoEntry
    BY <2>1, <2>3 DEF Reconciled
  <2>4. QED
    BY <1>0, <2>2, <2>3
<1>4. CASE PruneSettled
  <2>1. entries'[key] \in {entries[key], NoEntry}
        /\ (entries'[key] # entries[key] => Settled(entries[key]))
    BY <1>4 DEF PruneSettled, Prunable
  <2>2. QED
    BY <2>1
<1>5. ASSUME NEW k \in Key, Age(k) PROVE Same \/ Kept
  BY <1>5, AgeKeepsWrite
<1>6. CASE UNCHANGED entries
  BY <1>6
<1>7. QED
  BY <1>1, <1>2, <1>3, <1>4, <1>5, <1>6
     DEF Next, HandlerStep, RefreshStep, Receive, QueueFails, Build, Encode, StoreBanks,
         StoreSnap, Report, Send, vars

----------------------------------------------------------------------------
(* A write that is in progress is not forgotten.                           *)

LEMMA KeptStep ==
    TypeOK /\ [Next]_vars =>
        [\A key \in Key : Waiting(key) => entries'[key] # NoEntry]_vars
<1> SUFFICES ASSUME TypeOK, [Next]_vars, NEW key \in Key, Waiting(key)
             PROVE  entries'[key] # NoEntry
  OBVIOUS
<1>1. TypeOK'
  BY TypeStep
<1>2. \A f : SameWrite(entries[key], f) => f # NoEntry
  BY NoEntryAssumption DEF SameWrite
<1>3. \A c \in Client : Tracked(job[c]) \in Entry => Tracked(job[c]) # NoEntry
  BY NoEntryAssumption
<1>4. entries[key] # NoEntry /\ ~Settled(entries[key])
  BY DEF Waiting
<1>5. QED
  BY <1>1, <1>2, <1>3, <1>4, EntryStep

\* However refreshes and any number of clients interleave, and however far a
\* deadline has passed, PruneSettled never drops a write in progress.
THEOREM KeptCorrect == Spec => InProgressIsKept
<1>1. QED
  BY TypeInit, TypeStep, KeptStep, PTL DEF Spec, InProgressIsKept

----------------------------------------------------------------------------
(* Outcomes, for a fleet that keeps its order.                             *)

\* Every refresh finds the inverters in the same order.
SameFleet == \A f, g \in Fleets : f = g

\* Each write is one that protGet can verify, or is not tracked.
Verifiable == \A r \in Requests : r.param = "RspTms" \/ CodeOf[r.param] \in Readable

\* Unit u stood for inverter i in a fleet that a refresh may find.
Meant(u, i) == \E f \in Fleets : u - 1 \in 1 .. Len(f) /\ i = f[u - 1]

FleetsFound ==
    /\ snap # NoSnapshot => snap.fleet \in Fleets
    /\ built # NoSnapshot => built.fleet \in Fleets

JobsMeant ==
    \A c \in Client : pc[c] # "idle" =>
        /\ Meant(job[c].uid, job[c].inv)
        /\ \E r \in Requests : job[c].param = r.param
        /\ pc[c] = "track" => job[c].param # "RspTms"

EntriesMeant ==
    \A key \in Key : entries[key] \in Entry =>
        /\ Meant(key[1], entries[key].inv)
        /\ \E r \in Requests : r.param # "RspTms" /\ entries[key].code = CodeOf[r.param]

MeantInv == TypeOK /\ FleetsFound /\ JobsMeant /\ EntriesMeant

LEMMA MeantInit == Init => FleetsFound /\ JobsMeant /\ EntriesMeant
BY NoEntryAssumption DEF Init, FleetsFound, JobsMeant, EntriesMeant

\* The unit of a write stands for the inverter at its place in the snapshot.
LEMMA MappedIsMeant ==
    ASSUME NEW s, NEW u, Mapped(s, u), s.fleet \in Fleets
    PROVE  Meant(u, InverterOf(s, u))
BY DEF Mapped, Meant, InverterOf

LEMMA FleetsFoundStep ==
    ASSUME MeantInv, [Next]_vars PROVE FleetsFound'
<1>1. CASE Build
  <2>1. PICK f \in Fleets : \E rows : built' = [fleet |-> f, rows |-> rows]
    BY <1>1 DEF Build
  <2>2. built'.fleet \in Fleets /\ snap' = snap
    BY <1>1, <2>1 DEF Build
  <2>3. QED
    BY <2>2 DEF MeantInv, FleetsFound
<1>2. CASE StoreSnap
  BY <1>2 DEF StoreSnap, MeantInv, FleetsFound
<1>3. CASE UNCHANGED <<snap, built>>
  BY <1>3 DEF MeantInv, FleetsFound
<1>4. QED
  BY <1>1, <1>2, <1>3
     DEF Next, HandlerStep, RefreshStep, Receive, Queue, QueueFails, TrackWrite,
         Reconcile, PruneSettled, Encode, StoreBanks, Age, Report, Send, vars, refresh

\* Overtaking changes neither the unit, nor the inverter, nor the parameter.
LEMMA OvertakenJob ==
    ASSUME NEW w \in Job, NEW j
    PROVE  /\ Overtaken(w, j).uid = w.uid
           /\ Overtaken(w, j).inv = w.inv
           /\ Overtaken(w, j).param = w.param
BY DEF Overtaken, Job

LEMMA JobsMeantStep ==
    ASSUME MeantInv, [Next]_vars PROVE JobsMeant'
<1> USE DEF MeantInv
<1> SUFFICES ASSUME NEW d \in Client, pc'[d] # "idle"
             PROVE  /\ Meant(job'[d].uid, job'[d].inv)
                    /\ \E r \in Requests : job'[d].param = r.param
                    /\ pc'[d] = "track" => job'[d].param # "RspTms"
  BY DEF JobsMeant, Meant
<1> DEFINE Kept == /\ pc[d] # "idle"
                   /\ job'[d].uid = job[d].uid
                   /\ job'[d].inv = job[d].inv
                   /\ job'[d].param = job[d].param
                   /\ pc'[d] = "track" => pc[d] = "track" \/ job[d].param # "RspTms"
<1>1. ASSUME NEW c \in Client, Receive(c), d = c
      PROVE  /\ Meant(job'[d].uid, job'[d].inv)
             /\ \E r \in Requests : job'[d].param = r.param
             /\ pc'[d] = "queue"
  <2>1. PICK r \in Requests :
          /\ Mapped(snap, r.uid)
          /\ job' = [job EXCEPT ![c] =
                [uid |-> r.uid, inv |-> InverterOf(snap, r.uid), param |-> r.param,
                 value |-> ValueOf(snap.rows[InverterOf(snap, r.uid)], r.param, r.value),
                 newest |-> FALSE]]
    BY <1>1 DEF Receive
  <2>2. snap.fleet \in Fleets
    BY <2>1 DEF Mapped, FleetsFound
  <2>3. Meant(r.uid, InverterOf(snap, r.uid))
    BY <2>1, <2>2, MappedIsMeant
  <2>4. /\ job'[d].uid = r.uid /\ job'[d].inv = InverterOf(snap, r.uid)
        /\ job'[d].param = r.param
    BY <1>1, <2>1 DEF TypeOK
  <2>5. pc'[d] = "queue"
    BY <1>1 DEF Receive, TypeOK
  <2>6. QED
    BY <2>3, <2>4, <2>5
<1>2. ASSUME NEW c \in Client, Receive(c), d # c PROVE Kept
  <2>1. job'[d] = job[d] /\ pc'[d] = pc[d]
    BY <1>2 DEF Receive, TypeOK
  <2>2. QED
    BY <2>1
<1>3. ASSUME NEW c \in Client, Queue(c) PROVE Kept
  <2>1. CASE d = c
    <3>1. /\ pc[d] # "idle" /\ job[d] \in Job
          /\ pc' = [pc EXCEPT ![c] = IF job[c].param = "RspTms" THEN "idle" ELSE "track"]
      BY <1>3, <2>1 DEF Queue, TypeOK
    <3>2. job[d].param # "RspTms"
      BY <2>1, <3>1 DEF TypeOK
    <3>3. job'[d] = [job[d] EXCEPT !.newest = TRUE]
      BY <1>3, <2>1, <3>2 DEF Queue
    <3>4. QED
      BY <3>1, <3>2, <3>3 DEF Job
  <2>2. CASE d # c
    <3>1. pc'[d] = pc[d]
      BY <1>3, <2>2 DEF Queue, TypeOK
    <3>2. job'[d] = IF pc[d] = "track" THEN Overtaken(job[d], job[c]) ELSE job[d]
      BY <1>3, <2>2 DEF Queue
    <3>3. job[d] \in Job
      BY <3>1 DEF TypeOK
    <3>4. QED
      BY <3>1, <3>2, <3>3, OvertakenJob
  <2>3. QED
    BY <2>1, <2>2
<1>4. ASSUME NEW c \in Client, QueueFails(c) \/ TrackWrite(c) PROVE Kept
  <2>1. job' = [job EXCEPT ![c] = NoJob] /\ pc' = [pc EXCEPT ![c] = "idle"]
    BY <1>4 DEF QueueFails, TrackWrite
  <2>2. d # c
    BY <2>1 DEF TypeOK
  <2>3. job'[d] = job[d] /\ pc'[d] = pc[d]
    BY <2>1, <2>2 DEF TypeOK
  <2>4. QED
    BY <2>3
<1>5. ASSUME UNCHANGED handlers PROVE Kept
  BY <1>5 DEF handlers
<1>6. CASE Kept
  <2>1. /\ Meant(job[d].uid, job[d].inv)
        /\ \E r \in Requests : job[d].param = r.param
        /\ pc[d] = "track" => job[d].param # "RspTms"
    BY <1>6 DEF JobsMeant
  <2>2. /\ Meant(job'[d].uid, job'[d].inv)
        /\ \E r \in Requests : job'[d].param = r.param
    BY <1>6, <2>1
  <2>3. pc'[d] = "track" => job'[d].param # "RspTms"
    BY <1>6, <2>1
  <2>4. QED
    BY <2>2, <2>3
<1>7. CASE \E c \in Client : Receive(c) \/ HandlerStep(c)
  BY <1>1, <1>2, <1>3, <1>4, <1>6, <1>7 DEF HandlerStep
<1>8. QED
  BY <1>5, <1>6, <1>7
     DEF Next, RefreshStep, Build, Reconcile, PruneSettled, Encode, StoreBanks, StoreSnap,
         Age, Report, Send, vars

LEMMA EntriesMeantStep ==
    ASSUME MeantInv, [Next]_vars PROVE EntriesMeant'
<1> USE DEF MeantInv
<1> SUFFICES ASSUME NEW key \in Key, entries'[key] \in Entry
             PROVE  /\ Meant(key[1], entries'[key].inv)
                    /\ \E r \in Requests :
                          r.param # "RspTms" /\ entries'[key].code = CodeOf[r.param]
  BY DEF EntriesMeant, Meant
<1>1. TypeOK'
  BY TypeStep
<1>2. CASE /\ entries[key] \in Entry
           /\ entries'[key].inv = entries[key].inv
           /\ entries'[key].code = entries[key].code
  BY <1>2 DEF EntriesMeant
<1>3. ASSUME NEW c \in Client, pc[c] = "track", key = KeyOf(job[c]),
             entries'[key] = Tracked(job[c])
      PROVE  /\ Meant(key[1], entries'[key].inv)
             /\ \E r \in Requests :
                   r.param # "RspTms" /\ entries'[key].code = CodeOf[r.param]
  <2>1. /\ Meant(job[c].uid, job[c].inv)
        /\ \E r \in Requests : job[c].param = r.param
        /\ job[c].param # "RspTms"
    BY <1>3 DEF JobsMeant
  <2>2. key[1] = job[c].uid
    BY <1>3 DEF KeyOf
  <2>3. entries'[key].inv = job[c].inv /\ entries'[key].code = CodeOf[job[c].param]
    BY <1>3 DEF Tracked
  <2>4. QED
    BY <2>1, <2>2, <2>3
<1>4. \/ entries'[key] = entries[key]
      \/ entries[key] \in Entry /\ SameWrite(entries[key], entries'[key])
      \/ \E c \in Client : /\ pc[c] = "track" /\ key = KeyOf(job[c])
                           /\ entries'[key] = Tracked(job[c])
  BY <1>1, EntryStep, NoEntryAssumption
<1>5. QED
  BY <1>2, <1>3, <1>4 DEF SameWrite

LEMMA MeantStep == MeantInv /\ [Next]_vars => MeantInv'
BY TypeStep, FleetsFoundStep, JobsMeantStep, EntriesMeantStep DEF MeantInv

\* With one order of the fleet, the inverter that Reconcile compares a write
\* with is the one the write was queued for.
LEMMA ComparedIsMeant ==
    ASSUME MeantInv, SameFleet, stage = "reconcile", NEW key \in Key,
           entries[key] \in Entry
    PROVE  Mapped(built, key[1]) /\ InverterOf(built, key[1]) = entries[key].inv
<1>1. built \in Snapshot /\ built.fleet \in Fleets
  <2>1. built \in Snapshot
    BY DEF MeantInv, TypeOK
  <2>2. QED
    BY <2>1, NoSnapshotAssumption DEF MeantInv, FleetsFound
<1>2. PICK f \in Fleets : key[1] - 1 \in 1 .. Len(f) /\ entries[key].inv = f[key[1] - 1]
  BY DEF MeantInv, EntriesMeant, Meant
<1>3. f = built.fleet
  BY <1>1 DEF SameFleet
<1>4. QED
  BY <1>1, <1>2, <1>3, NoSnapshotAssumption DEF Mapped, InverterOf

\* An outcome is decided by Reconcile, by comparing with that inverter.
LEMMA OutcomeStep ==
    ASSUME MeantInv, SameFleet, [Next]_vars, NEW key \in Key, Waiting(key)
    PROVE  LET match == MatchesAll(built.rows[entries[key].inv], entries[key])
           IN  /\ Becomes(key, "COMPLETED") => match
               /\ Becomes(key, "FAILED") => ~match
<1>1. TypeOK /\ TypeOK' /\ entries[key] \in Entry \cup {NoEntry}
  BY TypeStep DEF MeantInv, TypeOK
<1>2. entries[key] \in Entry /\ entries[key].rslt = "IN_PROGRESS"
  BY <1>1 DEF Waiting, Settled
<1>3. ASSUME NEW r \in {"COMPLETED", "FAILED"}, Becomes(key, r)
      PROVE  Reconcile /\ entries'[key] = Reconciled(key)
  <2>1. entries'[key] # NoEntry /\ entries'[key].rslt = r /\ r # "IN_PROGRESS"
    BY <1>3 DEF Becomes
  <2>2. \A c \in Client : Tracked(job[c]).rslt = "IN_PROGRESS"
    BY DEF Tracked
  <2>3. QED
    BY <1>1, <1>2, <2>1, <2>2, EntryStep
<1>4. ASSUME Reconcile, entries'[key] = Reconciled(key)
      PROVE  LET match == MatchesAll(built.rows[entries[key].inv], entries[key])
             IN  /\ entries'[key].rslt = "COMPLETED" => match
                 /\ entries'[key].rslt = "FAILED" => ~match
  <2>1. Mapped(built, key[1]) /\ InverterOf(built, key[1]) = entries[key].inv
    BY <1>2, <1>4, ComparedIsMeant DEF Reconcile
  <2>2. ~Settled(entries[key])
    BY DEF Waiting
  <2>3. QED
    BY <1>2, <1>4, <2>1, <2>2, ReconciledKeepsWrite
<1>5. QED
  BY <1>3, <1>4 DEF Becomes

LEMMA CompletedStep ==
    MeantInv /\ SameFleet /\ [Next]_vars =>
        [\A key \in Key : Becomes(key, "COMPLETED") => Reported(built, entries[key])]_vars
<1> SUFFICES ASSUME MeantInv, SameFleet, [Next]_vars, NEW key \in Key, Becomes(key, "COMPLETED")
             PROVE  Reported(built, entries[key])
  OBVIOUS
<1>1. MatchesAll(built.rows[entries[key].inv], entries[key])
  BY OutcomeStep DEF Becomes
<1>2. QED
  BY <1>1 DEF MatchesAll, Reported

LEMMA FailedStep ==
    MeantInv /\ SameFleet /\ Verifiable /\ [Next]_vars =>
        [\A key \in Key : Becomes(key, "FAILED") => ~Reported(built, entries[key])]_vars
<1> SUFFICES ASSUME MeantInv, SameFleet, Verifiable, [Next]_vars,
                    NEW key \in Key, Becomes(key, "FAILED")
             PROVE  ~Reported(built, entries[key])
  OBVIOUS
<1>1. ~MatchesAll(built.rows[entries[key].inv], entries[key])
  BY OutcomeStep DEF Becomes
<1>2. entries[key] \in Entry
  BY DEF Becomes, Waiting, MeantInv, TypeOK
<1>3. entries[key].code \in Readable
  BY <1>2 DEF MeantInv, EntriesMeant, Verifiable
<1>4. QED
  BY <1>1, <1>3 DEF MatchesAll, Reported

\* While every refresh finds the fleet in the same order, COMPLETED is only
\* published for a value that the inverter of the write has reported.
THEOREM CompletedCorrect == SameFleet /\ Spec => CompletedWasReported
<1>1. Init => MeantInv
  BY TypeInit, MeantInit DEF MeantInv
<1>2. SameFleet => SameFleet'
  BY DEF SameFleet
<1>3. QED
  BY <1>1, <1>2, MeantStep, CompletedStep, PTL DEF Spec, CompletedWasReported

\* If moreover protGet can read every parameter that is tracked, FAILED is only
\* published for a value that the inverter does not report.
THEOREM FailedCorrect == SameFleet /\ Verifiable /\ Spec => FailedWasNotReported
<1>1. Init => MeantInv
  BY TypeInit, MeantInit DEF MeantInv
<1>2. SameFleet /\ Verifiable => (SameFleet /\ Verifiable)'
  BY DEF SameFleet, Verifiable
<1>3. QED
  BY <1>1, <1>2, MeantStep, FailedStep, PTL DEF Spec, FailedWasNotReported

----------------------------------------------------------------------------
(* The tracker expects what was queued last.                               *)

\* The conditions under which queue and tracker agree: one client, since two
\* may queue in one order and track in the other, and a fleet in one order in
\* which an inverter has one place, since an entry is known by its place.
OneClient == \A c, d \in Client : c = d

OnePlaceEach == \A f \in Fleets : \A a, b \in 1 .. Len(f) : f[a] = f[b] => a = b

\* An entry is the newest write of its parameter, or the handler that queued a
\* newer one is about to track it in its place.
EntriesAreNewest ==
    \A key \in Key : entries[key] # NoEntry =>
        /\ entries[key].param # "RspTms"
        /\ key[2] = Model(entries[key].param)
        /\ \/ entries[key].newest
           \/ \E c \in Client : pc[c] = "track" /\ KeyOf(job[c]) = key

JobsAreNewest == \A c \in Client : pc[c] = "track" => job[c].newest

NewestInv == EntriesAreNewest /\ JobsAreNewest

LEMMA NewestInit == Init => NewestInv
BY DEF Init, NewestInv, EntriesAreNewest, JobsAreNewest

\* An inverter has one place, so one unit.
LEMMA OneUnitEach ==
    ASSUME SameFleet, OnePlaceEach, NEW u \in Unit, NEW v \in Unit, NEW i,
           Meant(u, i), Meant(v, i)
    PROVE  u = v
<1>1. PICK f \in Fleets : u - 1 \in 1 .. Len(f) /\ i = f[u - 1]
  BY DEF Meant
<1>2. PICK g \in Fleets : v - 1 \in 1 .. Len(g) /\ i = g[v - 1]
  BY DEF Meant
<1>3. f = g
  BY DEF SameFleet
<1>4. u - 1 = v - 1
  BY <1>1, <1>2, <1>3 DEF OnePlaceEach
<1>5. u \in Int /\ v \in Int
  BY UnitType
<1>6. QED
  BY <1>4, <1>5

\* Reconcile, PruneSettled and time leave the history of an entry alone.
LEMMA FieldKeepsHistory ==
    ASSUME NEW e \in Entry, NEW r \in Result, NEW a \in {"fresh", "late", "stale"}
    PROVE  /\ [e EXCEPT !.rslt = r].newest = e.newest
           /\ [e EXCEPT !.rslt = r].param = e.param
           /\ [e EXCEPT !.age = a].newest = e.newest
           /\ [e EXCEPT !.age = a].param = e.param
BY DEF Entry

LEMMA ReconciledKeepsHistory ==
    ASSUME NEW key \in Key, entries[key] \in Entry
    PROVE  /\ Reconciled(key).newest = entries[key].newest
           /\ Reconciled(key).param = entries[key].param
<1> DEFINE e == entries[key]
<1>1. e \in Entry /\ Reconciled(key) \in
          {e, [e EXCEPT !.rslt = "COMPLETED"], [e EXCEPT !.rslt = "FAILED"]}
  BY NoEntryAssumption DEF Reconciled
<1> HIDE DEF e
<1>2. /\ [e EXCEPT !.rslt = "COMPLETED"].newest = e.newest
      /\ [e EXCEPT !.rslt = "COMPLETED"].param = e.param
      /\ [e EXCEPT !.rslt = "FAILED"].newest = e.newest
      /\ [e EXCEPT !.rslt = "FAILED"].param = e.param
  BY <1>1, FieldKeepsHistory DEF Result
<1>3. Reconciled(key).newest = e.newest /\ Reconciled(key).param = e.param
  BY <1>1, <1>2
<1>4. QED
  BY <1>3 DEF e

LEMMA HistoryKept ==
    ASSUME TypeOK, NEW key \in Key, entries'[key] # NoEntry,
           \/ Reconcile \/ PruneSettled \/ \E k \in Key : Age(k)
           \/ UNCHANGED entries
    PROVE  /\ entries[key] # NoEntry
           /\ entries'[key].newest = entries[key].newest
           /\ entries'[key].param = entries[key].param
<1>1. entries[key] \in Entry \cup {NoEntry}
  BY DEF TypeOK
<1>2. CASE Reconcile
  <2>1. entries'[key] = Reconciled(key)
    BY <1>2 DEF Reconcile
  <2>2. entries[key] # NoEntry
    BY <2>1 DEF Reconciled
  <2>3. QED
    BY <1>1, <2>1, <2>2, ReconciledKeepsHistory
<1>3. CASE PruneSettled
  BY <1>3 DEF PruneSettled
<1>4. ASSUME NEW k \in Key, Age(k)
      PROVE  /\ entries[key] # NoEntry
             /\ entries'[key].newest = entries[key].newest
             /\ entries'[key].param = entries[key].param
  <2>1. PICK a \in {"late", "stale"} : entries' = [entries EXCEPT ![k].age = a]
    BY <1>4 DEF Age
  <2>2. CASE k # key
    BY <2>1, <2>2 DEF TypeOK
  <2>3. CASE k = key
    <3>1. entries[key] # NoEntry /\ entries[key] \in Entry
      BY <1>1, <1>4, <2>3 DEF Age
    <3>2. entries'[key] = [entries[key] EXCEPT !.age = a]
      BY <2>1, <2>3 DEF TypeOK
    <3>3. ASSUME NEW e \in Entry
          PROVE  [e EXCEPT !.age = a].newest = e.newest /\ [e EXCEPT !.age = a].param = e.param
      BY FieldKeepsHistory DEF Result
    <3>4. QED
      BY <3>1, <3>2, <3>3
  <2>4. QED
    BY <2>2, <2>3
<1>5. QED
  BY <1>2, <1>3, <1>4

LEMMA NewestStep ==
    ASSUME MeantInv, NewestInv, SameFleet, OnePlaceEach, OneClient, [Next]_vars
    PROVE  NewestInv'
<1> USE DEF NewestInv
<1>1. ASSUME NEW c \in Client, Queue(c) PROVE NewestInv'
  <2>1. /\ pc[c] = "queue" /\ job[c] \in Job
        /\ \A d \in Client : d = c
    BY <1>1 DEF Queue, MeantInv, TypeOK, OneClient
  <2>2. job[c].param # "RspTms" =>
            /\ pc'[c] = "track"
            /\ job'[c] = [job[c] EXCEPT !.newest = TRUE]
    BY <1>1 DEF Queue, MeantInv, TypeOK
  <2>3. job[c].param # "RspTms" =>
            /\ pc'[c] = "track" /\ job'[c].newest
            /\ job'[c].uid = job[c].uid /\ job'[c].param = job[c].param
    BY <2>1, <2>2 DEF Job
  <2>4. job[c].param = "RspTms" => pc'[c] = "idle"
    BY <1>1 DEF Queue, MeantInv, TypeOK
  <2>5. JobsAreNewest'
    BY <2>1, <2>3, <2>4 DEF JobsAreNewest
  <2>6. ASSUME NEW key \in Key, entries'[key] # NoEntry
        PROVE  /\ entries'[key].param # "RspTms"
               /\ key[2] = Model(entries'[key].param)
               /\ \/ entries'[key].newest
                  \/ \E d \in Client : pc'[d] = "track" /\ KeyOf(job'[d]) = key
    <3> DEFINE e == entries[key]
    <3>1. entries'[key] = Overtaken(e, job[c]) /\ e \in Entry
      BY <1>1, <2>6 DEF Queue, MeantInv, TypeOK
    <3>2. /\ e.newest /\ e.param # "RspTms" /\ key[2] = Model(e.param)
      BY <2>1, <3>1, NoEntryAssumption DEF EntriesAreNewest
    <3>3. /\ entries'[key].param = e.param
          /\ entries'[key].newest <=> <<e.inv, e.param>> # <<job[c].inv, job[c].param>>
      <4> HIDE DEF e
      <4> QED
        BY <3>1, <3>2 DEF Overtaken, Entry
    <3>4. CASE e.inv = job[c].inv /\ e.param = job[c].param
      <4>1. Meant(key[1], e.inv)
        BY <3>1 DEF MeantInv, EntriesMeant
      <4>2. Meant(job[c].uid, job[c].inv)
        BY <2>1 DEF MeantInv, JobsMeant
      <4>3. key[1] \in Unit /\ job[c].uid \in Unit
        BY <2>1 DEF Key, Job
      <4>4. key[1] = job[c].uid
        BY <3>4, <4>1, <4>2, <4>3, OneUnitEach
      <4>5. key = <<job[c].uid, Model(job[c].param)>>
        BY <3>2, <3>4, <4>4 DEF Key
      <4>6. pc'[c] = "track" /\ KeyOf(job'[c]) = key
        BY <2>3, <3>2, <3>4, <4>5 DEF KeyOf
      <4>7. QED
        BY <3>2, <3>3, <4>6
    <3>5. QED
      BY <3>2, <3>3, <3>4
  <2>7. EntriesAreNewest'
    BY <2>6 DEF EntriesAreNewest, KeyOf
  <2>8. QED
    BY <2>5, <2>7
<1>2. ASSUME NEW c \in Client, TrackWrite(c) PROVE NewestInv'
  <2>1. /\ pc[c] = "track" /\ job[c] \in Job
        /\ pc'[c] = "idle"
        /\ entries' = [entries EXCEPT ![KeyOf(job[c])] = Tracked(job[c])]
        /\ \A d \in Client : d = c
    BY <1>2 DEF TrackWrite, Track, MeantInv, TypeOK, OneClient
  <2>2. JobsAreNewest'
    BY <2>1 DEF JobsAreNewest
  <2>3. ASSUME NEW key \in Key, entries'[key] # NoEntry
        PROVE  /\ entries'[key].param # "RspTms"
               /\ key[2] = Model(entries'[key].param)
               /\ entries'[key].newest
    <3>1. CASE key = KeyOf(job[c])
      <4>1. entries'[key] = Tracked(job[c])
        BY <2>1, <3>1 DEF MeantInv, TypeOK
      <4>2. entries'[key].param = job[c].param /\ entries'[key].newest = job[c].newest
        BY <4>1 DEF Tracked
      <4>3. key[2] = Model(job[c].param)
        BY <3>1 DEF KeyOf
      <4>4. job[c].param # "RspTms" /\ job[c].newest
        BY <2>1 DEF MeantInv, JobsMeant, JobsAreNewest
      <4>5. QED
        BY <4>2, <4>3, <4>4
    <3>2. CASE key # KeyOf(job[c])
      <4>1. entries'[key] = entries[key]
        BY <2>1, <3>2 DEF MeantInv, TypeOK
      <4>2. QED
        BY <2>1, <2>3, <3>2, <4>1 DEF EntriesAreNewest
    <3>3. QED
      BY <3>1, <3>2
  <2>4. EntriesAreNewest'
    BY <2>3 DEF EntriesAreNewest
  <2>5. QED
    BY <2>2, <2>4
<1>3. ASSUME NEW c \in Client, Receive(c) \/ QueueFails(c) PROVE NewestInv'
  <2>1. /\ pc[c] # "track" /\ pc'[c] # "track"
        /\ UNCHANGED entries
        /\ \A d \in Client : d = c
    BY <1>3 DEF Receive, QueueFails, MeantInv, TypeOK, OneClient
  <2>2. JobsAreNewest'
    BY <2>1 DEF JobsAreNewest
  <2>3. EntriesAreNewest'
    BY <2>1 DEF EntriesAreNewest
  <2>4. QED
    BY <2>2, <2>3
<1>4. CASE /\ UNCHANGED handlers
           /\ \/ Reconcile \/ PruneSettled \/ \E key \in Key : Age(key)
              \/ UNCHANGED entries
  <2>1. UNCHANGED <<pc, job>> /\ TypeOK
    BY <1>4 DEF handlers, MeantInv
  <2>2. JobsAreNewest'
    BY <2>1 DEF JobsAreNewest
  <2>3. ASSUME NEW key \in Key, entries'[key] # NoEntry
        PROVE  /\ entries'[key].param # "RspTms"
               /\ key[2] = Model(entries'[key].param)
               /\ \/ entries'[key].newest
                  \/ \E c \in Client : pc[c] = "track" /\ KeyOf(job[c]) = key
    <3>1. /\ entries[key] # NoEntry
          /\ entries'[key].newest = entries[key].newest
          /\ entries'[key].param = entries[key].param
      BY <1>4, <2>1, <2>3, HistoryKept
    <3>2. QED
      BY <3>1 DEF EntriesAreNewest
  <2>4. EntriesAreNewest'
    BY <2>1, <2>3 DEF EntriesAreNewest, KeyOf
  <2>5. QED
    BY <2>2, <2>4
<1>5. QED
  BY <1>1, <1>2, <1>3, <1>4
     DEF Next, HandlerStep, RefreshStep, Build, Reconcile, PruneSettled, Encode, StoreBanks,
         StoreSnap, Age, Report, Send, vars

\* With one client and a fleet in one order, whose outcome is published is the
\* write that was queued last, whatever the refresh loop does in between.
THEOREM LastQueuedCorrect ==
    SameFleet /\ OnePlaceEach /\ OneClient /\ Spec => []ExpectsLastQueued
<1>1. Init => MeantInv
  BY TypeInit, MeantInit DEF MeantInv
<1>2. SameFleet /\ OnePlaceEach /\ OneClient => (SameFleet /\ OnePlaceEach /\ OneClient)'
  BY DEF SameFleet, OnePlaceEach, OneClient
<1>3. MeantInv /\ NewestInv => ExpectsLastQueued
  BY DEF NewestInv, EntriesAreNewest, ExpectsLastQueued, Waiting, InFlight
<1>4. QED
  BY <1>1, <1>2, <1>3, MeantStep, NewestInit, NewestStep, PTL DEF Spec

----------------------------------------------------------------------------
(* The region of the inverters.                                            *)

\* No client switches the droop off. The run that loses the region switches it
\* off and on: RegionCorrect says that there is no other way to lose it.
NeverDisabled == \A r \in Requests : ~(r.param = "Ena" /\ r.value = 0)

\* A row from which a write of Ena keeps the AS/NZS mode. A query that failed
\* reports no mode, but no trip either, without which Model 711 is refused.
RegionRow(row) == row["CV"] = ModeASNZS \/ row["AK"] = Null

RegionKnown(s) == s # NoSnapshot => \A i \in Inverter : RegionRow(s.rows[i])

\* The mode in the inverters, in main.exe's tables, in the two snapshots, in the
\* writes of the handlers and in the queue.
RegionHeld == \A i \in Inverter : held[i]["CV"] = ModeASNZS /\ prot[i]["CV"] = ModeASNZS

RegionWritten ==
    \A c \in Client : pc[c] # "idle" /\ job[c].param = "Ena" => job[c].value = ModeASNZS

RegionQueued == \A i \in Inverter : queue[i]["Ena"] \in {Null, ModeASNZS}

RegionInv ==
    RegionHeld /\ RegionKnown(snap) /\ RegionKnown(built) /\ RegionWritten /\ RegionQueued

Australasian == \A row \in Rows : row["CV"] = ModeASNZS

LEMMA RegionInit == Australasian /\ Init => RegionInv
<1> SUFFICES ASSUME Australasian, Init PROVE RegionInv
  OBVIOUS
<1>1. RegionHeld
  BY DEF Init, Australasian, RegionHeld
<1>2. RegionKnown(snap) /\ RegionKnown(built) /\ RegionWritten
  BY DEF Init, RegionKnown, RegionWritten
<1>3. RegionQueued
  BY DEF Init, RegionQueued, Param, Droop
<1>4. QED
  BY <1>1, <1>2, <1>3 DEF RegionInv

\* A write of Ena that is accepted carries the mode of the row.
LEMMA ModeKept ==
    ASSUME NEW row, RegionRow(row), NEW v, v # 0, Accepts(row, "Ena", v)
    PROVE  ValueOf(row, "Ena", v) = ModeASNZS
BY DEF RegionRow, Accepts, ValueOf

\* Of the parameters, Ena alone changes the mode.
LEMMA OnlyEnaIsMode == \A p \in Param : CodeOf[p] = "CV" => p = "Ena"
BY DEF CodeOf, Param, Droop, Curve

LEMMA RegionWrittenStep ==
    ASSUME TypeOK, RegionInv, NeverDisabled, NEW c \in Client,
           Receive(c) \/ HandlerStep(c)
    PROVE  RegionWritten'
<1> SUFFICES ASSUME NEW d \in Client, pc'[d] # "idle", job'[d].param = "Ena"
             PROVE  job'[d].value = ModeASNZS
  BY DEF RegionWritten
<1>1. CASE pc[d] # "idle" /\ job'[d].param = job[d].param /\ job'[d].value = job[d].value
  BY <1>1 DEF RegionInv, RegionWritten
<1>2. CASE d # c /\ ~Queue(c)
  BY <1>1, <1>2 DEF TypeOK, HandlerStep, Receive, QueueFails, TrackWrite
<1>3. CASE Receive(c) /\ d = c
  <2>1. PICK r \in Requests :
          /\ Mapped(snap, r.uid)
          /\ Accepts(snap.rows[InverterOf(snap, r.uid)], r.param, r.value)
          /\ job' = [job EXCEPT ![c] =
                [uid |-> r.uid, inv |-> InverterOf(snap, r.uid), param |-> r.param,
                 value |-> ValueOf(snap.rows[InverterOf(snap, r.uid)], r.param, r.value),
                 newest |-> FALSE]]
    BY <1>3 DEF Receive
  <2> DEFINE row == snap.rows[InverterOf(snap, r.uid)]
  <2>2. job'[c].param = r.param /\ job'[c].value = ValueOf(row, r.param, r.value)
    BY <2>1 DEF TypeOK
  <2>3. r.param = "Ena"
    BY <1>3, <2>2
  <2>4. r.value # 0
    BY <2>3 DEF NeverDisabled
  <2>5. InverterOf(snap, r.uid) \in Inverter
    BY <2>1, UnitType, InverterOfType DEF TypeOK
  <2>6. RegionRow(row)
    BY <2>1, <2>5 DEF RegionInv, RegionKnown, Mapped
  <2>7. Accepts(row, "Ena", r.value)
    BY <2>1, <2>3
  <2>8. ValueOf(row, "Ena", r.value) = ModeASNZS
    BY <2>4, <2>6, <2>7, ModeKept
  <2>9. QED
    BY <1>3, <2>2, <2>3, <2>8
<1>4. CASE Queue(c) /\ d = c
  <2>1. /\ pc[d] # "idle" /\ job[d] \in Job
        /\ pc' = [pc EXCEPT ![c] = IF job[c].param = "RspTms" THEN "idle" ELSE "track"]
    BY <1>4 DEF Queue, TypeOK
  <2>2. job[d].param # "RspTms"
    BY <1>4, <2>1 DEF TypeOK
  <2>3. job'[d] = [job[d] EXCEPT !.newest = TRUE]
    BY <1>4, <2>2 DEF Queue
  <2>4. job'[d].param = job[d].param /\ job'[d].value = job[d].value
    BY <2>1, <2>3 DEF Job
  <2>5. QED
    BY <1>1, <2>1, <2>4
<1>5. CASE Queue(c) /\ d # c
  <2>1. pc'[d] = pc[d]
    BY <1>5 DEF Queue, TypeOK
  <2>2. job'[d] = IF pc[d] = "track" THEN Overtaken(job[d], job[c]) ELSE job[d]
    BY <1>5 DEF Queue
  <2>3. job[d] \in Job
    BY <2>1 DEF TypeOK
  <2>4. job'[d].param = job[d].param /\ job'[d].value = job[d].value
    BY <2>2, <2>3 DEF Overtaken, Job
  <2>5. QED
    BY <1>1, <2>1, <2>4
<1>6. CASE (QueueFails(c) \/ TrackWrite(c)) /\ d = c
  BY <1>6 DEF TypeOK, QueueFails, TrackWrite
<1>7. QED
  BY <1>2, <1>3, <1>4, <1>5, <1>6 DEF HandlerStep

LEMMA RegionStep ==
    TypeOK /\ RegionInv /\ NeverDisabled /\ [Next]_vars => RegionInv'
<1> SUFFICES ASSUME TypeOK, RegionInv, NeverDisabled, [Next]_vars PROVE RegionInv'
  OBVIOUS
<1>1. ASSUME NEW c \in Client, Receive(c) \/ QueueFails(c) \/ TrackWrite(c) PROVE RegionInv'
  <2>1. RegionWritten'
    BY <1>1, RegionWrittenStep DEF HandlerStep
  <2>2. UNCHANGED <<queue, held, prot, snap, built>>
    BY <1>1 DEF Receive, QueueFails, TrackWrite, external, refresh
  <2>3. QED
    BY <2>1, <2>2 DEF RegionInv, RegionHeld, RegionKnown, RegionQueued
<1>2. ASSUME NEW c \in Client, Queue(c) PROVE RegionInv'
  <2>1. RegionWritten'
    BY <1>2, RegionWrittenStep DEF HandlerStep
  <2>2. UNCHANGED <<held, prot, snap, built>>
    BY <1>2 DEF Queue, refresh
  <2>3. ASSUME NEW i \in Inverter PROVE queue'[i]["Ena"] \in {Null, ModeASNZS}
    <3>1. "Ena" \in Param
      BY DEF Param, Droop
    <3>2. job[c].param = "Ena" => job[c].value = ModeASNZS
      BY <1>2 DEF Queue, RegionInv, RegionWritten
    <3>3. queue'[i]["Ena"] = queue[i]["Ena"]
            \/ (job[c].param = "Ena" /\ queue'[i]["Ena"] = job[c].value)
      BY <1>2, <3>1 DEF Queue, TypeOK
    <3>4. QED
      BY <3>2, <3>3 DEF RegionInv, RegionQueued
  <2>4. QED
    BY <2>1, <2>2, <2>3 DEF RegionInv, RegionHeld, RegionKnown, RegionQueued
<1>3. CASE Build
  <2>1. PICK f \in Fleets, rows \in {prot, [i \in Inverter |-> NoReport]} :
            built' = [fleet |-> f, rows |-> rows]
    BY <1>3 DEF Build
  <2>2. \A i \in Inverter : RegionRow(prot[i])
    BY DEF RegionInv, RegionHeld, RegionRow
  <2>3. RegionRow(NoReport)
    BY DEF RegionRow, NoReport, Code
  <2>4. \A i \in Inverter : RegionRow(rows[i])
    BY <2>1, <2>2, <2>3
  <2>5. RegionKnown(built)'
    BY <2>1, <2>4 DEF RegionKnown
  <2>6. QED
    BY <1>3, <2>5 DEF Build, external, handlers, RegionInv, RegionHeld, RegionKnown,
                      RegionWritten, RegionQueued
<1>4. CASE StoreSnap
  BY <1>4 DEF StoreSnap, external, handlers, RegionInv, RegionHeld, RegionKnown,
              RegionWritten, RegionQueued
<1>5. ASSUME NEW i \in Inverter, Report(i) PROVE RegionInv'
  <2>1. RegionHeld'
    BY <1>5 DEF Report, TypeOK, RegionInv, RegionHeld
  <2>2. QED
    BY <1>5, <2>1 DEF Report, refresh, handlers, RegionInv, RegionKnown, RegionWritten,
                      RegionQueued
<1>6. ASSUME NEW i \in Inverter, NEW p \in Param, Send(i, p) PROVE RegionInv'
  <2>1. p = "Ena" => queue[i][p] = ModeASNZS
    BY <1>6 DEF Send, RegionInv, RegionQueued
  <2>2. ASSUME NEW j \in Inverter PROVE held'[j]["CV"] = ModeASNZS
    <3>1. held[j]["CV"] = ModeASNZS
      BY DEF RegionInv, RegionHeld
    <3>2. CASE held' = [held EXCEPT ![i][CodeOf[p]] = queue[i][p]]
      <4>1. held'[j]["CV"] = held[j]["CV"]
              \/ (CodeOf[p] = "CV" /\ held'[j]["CV"] = queue[i][p])
        BY <3>2 DEF TypeOK, Row, Code
      <4>2. QED
        BY <2>1, <3>1, <4>1, OnlyEnaIsMode
    <3>3. CASE UNCHANGED held
      BY <3>1, <3>3
    <3>4. QED
      BY <1>6, <3>2, <3>3 DEF Send
  <2>3. ASSUME NEW j \in Inverter PROVE queue'[j]["Ena"] \in {Null, ModeASNZS}
    <3>1. queue'[j]["Ena"] \in {Null, queue[j]["Ena"]}
      BY <1>6 DEF Send, TypeOK, Param, Droop
    <3>2. QED
      BY <3>1 DEF RegionInv, RegionQueued
  <2>4. QED
    BY <1>6, <2>2, <2>3 DEF Send, refresh, handlers, RegionInv, RegionHeld, RegionKnown,
                            RegionWritten, RegionQueued
<1>7. ASSUME UNCHANGED <<queue, held, prot, snap, built, handlers>> PROVE RegionInv'
  BY <1>7 DEF handlers, RegionInv, RegionHeld, RegionKnown, RegionWritten, RegionQueued
<1>8. QED
  BY <1>1, <1>2, <1>3, <1>4, <1>5, <1>6, <1>7
     DEF Next, HandlerStep, RefreshStep, Reconcile, PruneSettled, Encode, StoreBanks, Age,
         external, refresh, vars

\* Inverters that were set up in the AS/NZS mode keep it, whatever clients
\* write, queries fail and fleets change, as long as no client writes Ena = 0.
THEOREM RegionCorrect == NeverDisabled /\ Spec => []RegionIsKept
<1>1. RegionInv => RegionIsKept
  BY DEF RegionInv, RegionHeld, RegionIsKept, ModeASNZS, ModeOther
<1>2. ~Australasian => RegionIsKept
  BY DEF Australasian, RegionIsKept
<1>3. (Australasian => Australasian') /\ (~Australasian => ~Australasian')
  BY DEF Australasian
<1>4. NeverDisabled => NeverDisabled'
  BY DEF NeverDisabled
<1>5. QED
  BY <1>1, <1>2, <1>3, <1>4, TypeInit, TypeStep, RegionInit, RegionStep, PTL DEF Spec

----------------------------------------------------------------------------
(* Refinement. Receiving, queueing, building, time and main.exe are        *)
(* stutters of Outcomes; tracking, reconciling, pruning, encoding a unit   *)
(* and storing the banks are its five actions.                             *)

\* The outcome register of the whole tracker.
Register == [key \in Key |-> OutcomeOf(entries[key])]

\* Entries of one write with one result have one outcome.
LEMMA OutcomeKept ==
    ASSUME NEW e \in Entry, NEW f, SameWrite(e, f), f.rslt = e.rslt
    PROVE  OutcomeOf(f) = OutcomeOf(e)
<1>1. e # NoEntry /\ f # NoEntry
  BY NoEntryAssumption DEF SameWrite
<1>2. QED
  BY <1>1 DEF OutcomeOf, SameWrite

\* The fields of an outcome.
LEMMA OutcomeFields ==
    /\ OutcomeOf(NoEntry).rslt = "UNTRACKED" /\ OutcomeOf(NoEntry).req = 0
    /\ \A e \in Entry : /\ OutcomeOf(e).rslt = e.rslt /\ OutcomeOf(e).req = e.req
                        /\ OutcomeOf(e) # O!Untracked /\ e # NoEntry
BY NoEntryAssumption DEF OutcomeOf, Entry, Result, O!Untracked

LEMMA TrackImplements ==
    ASSUME TypeOK, NEW c \in Client, TrackWrite(c)
    PROVE  \E key \in Key : O!Issue(key)
<1> DEFINE j == job[c]
           key == KeyOf(j)
<1>1. /\ job[c] \in Job /\ entries \in [Key -> Entry \cup {NoEntry}]
      /\ entries' = [entries EXCEPT ![KeyOf(job[c])] = Tracked(job[c])]
      /\ pub' = pub /\ drafts' = drafts
  BY DEF TypeOK, TrackWrite, Track, refresh
<1>2. KeyOf(job[c]) \in Key /\ Tracked(job[c]) \in Entry
  BY <1>1, TrackedType
<1>3. Counter(KeyOf(job[c])) = OutcomeOf(entries[KeyOf(job[c])]).req
  BY OutcomeFields DEF Counter, OutcomeOf
<1>4. OutcomeOf(Tracked(job[c])) =
          [rslt |-> "IN_PROGRESS", req |-> (OutcomeOf(entries[KeyOf(job[c])]).req + 1) % (MaxReq + 1)]
  <2>1. /\ Tracked(job[c]) # NoEntry
        /\ Tracked(job[c]).rslt = "IN_PROGRESS"
        /\ Tracked(job[c]).req = (Counter(KeyOf(job[c])) + 1) % (MaxReq + 1)
    BY <1>2, OutcomeFields DEF Tracked
  <2>2. QED
    BY <1>3, <2>1 DEF OutcomeOf
<1>5. Register' = [Register EXCEPT ![KeyOf(job[c])] = OutcomeOf(Tracked(job[c]))]
  BY <1>1, <1>2 DEF Register
<1>6. Register[KeyOf(job[c])] = OutcomeOf(entries[KeyOf(job[c])])
  BY <1>2 DEF Register
<1>7. O!Issue(KeyOf(job[c]))
  BY <1>1, <1>4, <1>5, <1>6 DEF O!Issue, Register
<1>8. QED
  BY <1>2, <1>7

LEMMA ReconcileImplements ==
    ASSUME TypeOK, Reconcile
    PROVE  O!Settle
<1> DEFINE Now(key) == OutcomeOf(entries[key])
           Then(key) == OutcomeOf(entries'[key])
           done == {key \in Key : Now(key).rslt = "IN_PROGRESS" /\ Then(key).rslt = "COMPLETED"}
           lost == {key \in Key : Now(key).rslt = "IN_PROGRESS" /\ Then(key).rslt = "FAILED"}
<1>1. ASSUME NEW key \in Key
      PROVE  \/ Then(key) = Now(key)
             \/ /\ Now(key).rslt = "IN_PROGRESS"
                /\ \/ Then(key) = [rslt |-> "COMPLETED", req |-> Now(key).req]
                   \/ Then(key) = [rslt |-> "FAILED", req |-> Now(key).req]
  <2>1. entries'[key] = Reconciled(key) /\ entries[key] \in Entry \cup {NoEntry}
    BY DEF TypeOK, Reconcile
  <2>2. CASE entries[key] = NoEntry
    BY <2>1, <2>2 DEF Reconciled
  <2>3. CASE entries[key] \in Entry
    <3> DEFINE e == entries[key]
               f == Reconciled(key)
    <3>1. e \in Entry /\ SameWrite(e, f)
      BY <2>3, ReconciledKeepsWrite
    <3>2. f = e \/ (~Settled(e) /\ f.rslt \in {"COMPLETED", "FAILED"})
      <4>1. /\ [e EXCEPT !.rslt = "COMPLETED"].rslt = "COMPLETED"
            /\ [e EXCEPT !.rslt = "FAILED"].rslt = "FAILED"
        <5> HIDE DEF e
        <5>1. QED
          BY <3>1, FieldKeepsWrite DEF Result
      <4>2. \/ f = e
            \/ ~Settled(e) /\ f = [e EXCEPT !.rslt = "COMPLETED"]
            \/ ~Settled(e) /\ f = [e EXCEPT !.rslt = "FAILED"]
        BY <3>1, NoEntryAssumption DEF Reconciled
      <4> HIDE DEF e, f
      <4>3. QED
        BY <4>1, <4>2
    <3> HIDE DEF e, f
    <3>3. /\ OutcomeOf(e) = [rslt |-> e.rslt, req |-> e.req]
          /\ OutcomeOf(f) = [rslt |-> f.rslt, req |-> e.req]
      BY <3>1, OutcomeFields, NoEntryAssumption DEF OutcomeOf, SameWrite
    <3>4. \/ OutcomeOf(f) = OutcomeOf(e)
          \/ /\ OutcomeOf(e).rslt = "IN_PROGRESS"
             /\ \/ OutcomeOf(f) = [rslt |-> "COMPLETED", req |-> OutcomeOf(e).req]
                \/ OutcomeOf(f) = [rslt |-> "FAILED", req |-> OutcomeOf(e).req]
      BY <3>2, <3>3 DEF Settled
    <3>5. QED
      BY <2>1, <3>4 DEF e, f
  <2>4. QED
    BY <2>1, <2>2, <2>3
<1>2. \A key \in Key :
          Then(key) = IF key \in done THEN [rslt |-> "COMPLETED", req |-> Now(key).req]
                      ELSE IF key \in lost THEN [rslt |-> "FAILED", req |-> Now(key).req]
                      ELSE Now(key)
  <2> TAKE key \in Key
  <2>1. CASE Now(key).rslt # "IN_PROGRESS"
    <3>1. key \notin done /\ key \notin lost
      BY <2>1
    <3>2. Then(key) = Now(key)
      BY <1>1, <2>1
    <3>3. QED
      BY <3>1, <3>2
  <2>2. CASE Now(key).rslt = "IN_PROGRESS" /\ Then(key) = Now(key)
    <3>1. Then(key).rslt = "IN_PROGRESS"
      BY <2>2
    <3> HIDE DEF Then, Now
    <3>2. key \notin done /\ key \notin lost
      BY <3>1
    <3>3. QED
      BY <2>2, <3>2
  <2>3. CASE Now(key).rslt = "IN_PROGRESS" /\ Then(key) = [rslt |-> "COMPLETED", req |-> Now(key).req]
    <3>1. Then(key).rslt = "COMPLETED"
      BY <2>3
    <3> HIDE DEF Then, Now
    <3>2. key \in done
      BY <2>3, <3>1
    <3>3. QED
      BY <2>3, <3>2
  <2>4. CASE Now(key).rslt = "IN_PROGRESS" /\ Then(key) = [rslt |-> "FAILED", req |-> Now(key).req]
    <3>1. Then(key).rslt = "FAILED"
      BY <2>4
    <3> HIDE DEF Then, Now
    <3>2. key \in lost /\ key \notin done
      BY <2>4, <3>1
    <3>3. QED
      BY <2>4, <3>2
  <2>5. QED
    BY <1>1, <2>1, <2>2, <2>3, <2>4
<1>3. /\ Register' = [key \in Key |-> Then(key)]
      /\ \A key \in Key : Register[key] = Now(key)
  BY DEF Register
<1>4. /\ done \in SUBSET {key \in Key : Register[key].rslt = "IN_PROGRESS"}
      /\ lost \in SUBSET {key \in Key : Register[key].rslt = "IN_PROGRESS"}
  BY <1>3
<1>5. pub' = pub /\ drafts' = drafts /\ drafts = NoDrafts
  BY DEF Reconcile, TypeOK
<1> HIDE DEF done, lost, Now, Then
<1>6. Register' = [key \in Key |->
               IF key \in done THEN [rslt |-> "COMPLETED", req |-> Register[key].req]
               ELSE IF key \in lost THEN [rslt |-> "FAILED", req |-> Register[key].req]
               ELSE Register[key]]
  BY <1>2, <1>3
<1>7. QED
  BY <1>4, <1>5, <1>6 DEF O!Settle, O!Pending, O!NothingTaken, NoDrafts, Register

LEMMA PruneImplements ==
    ASSUME TypeOK, PruneSettled
    PROVE  O!Forget
<1> DEFINE gone == {key \in Key : entries[key] # NoEntry /\ Prunable(entries[key])}
<1>1. \A key \in Key : entries[key] \in Entry \cup {NoEntry}
  BY DEF TypeOK
<1>2. \A key \in Key : entries'[key] = IF key \in gone THEN NoEntry ELSE entries[key]
  BY DEF PruneSettled
<1>3. \A key \in gone : key \in Key /\ Register[key].rslt \in {"COMPLETED", "FAILED"}
  <2> TAKE key \in gone
  <2>1. /\ key \in Key /\ entries[key] \in Entry /\ entries[key].rslt \in Result
        /\ entries[key].rslt # "IN_PROGRESS"
    BY <1>1 DEF Prunable, Settled, Entry
  <2>2. Register[key].rslt = entries[key].rslt
    BY <2>1, OutcomeFields DEF Register
  <2>3. QED
    BY <2>1, <2>2 DEF Result
<1>4. Register' = [key \in Key |-> OutcomeOf(entries'[key])]
  BY DEF Register
<1>5. pub' = pub /\ drafts' = drafts /\ drafts = NoDrafts
  BY DEF PruneSettled, TypeOK
<1>6. OutcomeOf(NoEntry) = O!Untracked
  BY DEF OutcomeOf, O!Untracked
<1> HIDE DEF gone
<1>7. Register' = [key \in Key |-> IF key \in gone THEN O!Untracked ELSE Register[key]]
  BY <1>2, <1>4, <1>6 DEF Register
<1>8. gone \in SUBSET {key \in Key : Register[key].rslt \in {"COMPLETED", "FAILED"}}
  BY <1>3
<1>9. QED
  BY <1>5, <1>7, <1>8 DEF O!Forget, O!Settled, O!NothingTaken, NoDrafts, Register

\* What a unit's bank is given is the outcome of its droop at this moment.
LEMMA EncodeImplements ==
    ASSUME TypeOK, NEW u \in Unit, Encode(u)
    PROVE  O!Take(u)
<1>1. Get(u) = IF Register[<<u, 711>>] # O!Untracked THEN Register[<<u, 711>>]
               ELSE O!NothingInFlight
  <2>1. <<u, 711>> \in Key
    BY DEF Key
  <2>2. /\ Register[<<u, 711>>] = OutcomeOf(entries[<<u, 711>>])
        /\ entries[<<u, 711>>] \in Entry \cup {NoEntry}
    BY <2>1 DEF Register, TypeOK
  <2>3. CASE entries[<<u, 711>>] = NoEntry
    BY <2>2, <2>3 DEF Get, OutcomeOf, NothingInFlight, O!NothingInFlight, O!Untracked
  <2>4. CASE entries[<<u, 711>>] \in Entry
    <3>1. OutcomeOf(entries[<<u, 711>>]) # O!Untracked /\ entries[<<u, 711>>] # NoEntry
      BY <2>4, OutcomeFields
    <3>2. QED
      BY <2>2, <3>1 DEF Get, OutcomeOf
  <2>5. QED
    BY <2>2, <2>3, <2>4
<1>2. /\ u \notin DOMAIN drafts
      /\ drafts' = [v \in DOMAIN drafts \cup {u} |-> IF v = u THEN Get(u) ELSE drafts[v]]
      /\ UNCHANGED <<entries, pub>>
  BY DEF Encode, Unencoded
<1>3. drafts' = [v \in DOMAIN drafts \cup {u} |->
          IF v # u THEN drafts[v]
          ELSE IF Register[<<u, 711>>] = O!Untracked THEN O!NothingInFlight ELSE Register[<<u, 711>>]]
  BY <1>1, <1>2
<1>4. Register' = Register
  BY <1>2 DEF Register
<1>5. QED
  BY <1>2, <1>3, <1>4 DEF O!Take, Register

LEMMA BanksImplement ==
    ASSUME StoreBanks
    PROVE  O!Publish
BY DEF StoreBanks, O!Publish, NothingInFlight, O!NothingInFlight, NoDrafts, O!NothingTaken

\* A step that keeps the write and the result of every entry.
LEMMA KeptIsStutter ==
    ASSUME TypeOK, UNCHANGED <<drafts, pub>>,
           \A key \in Key : \/ entries'[key] = entries[key]
                            \/ /\ entries[key] \in Entry
                               /\ SameWrite(entries[key], entries'[key])
                               /\ entries'[key].rslt = entries[key].rslt
    PROVE  UNCHANGED O!vars
<1>1. \A key \in Key : OutcomeOf(entries'[key]) = OutcomeOf(entries[key])
  BY OutcomeKept
<1>2. Register' = Register
  BY <1>1 DEF Register
<1>3. QED
  BY <1>2 DEF O!vars, Register

LEMMA StepImplements ==
    ASSUME TypeOK, [Next]_vars
    PROVE  [O!Next]_(O!vars)
<1>1. ASSUME NEW c \in Client, TrackWrite(c) PROVE \E key \in Key : O!Issue(key)
  BY <1>1, TrackImplements
<1>2. CASE Reconcile
  BY <1>2, ReconcileImplements DEF O!Next
<1>3. CASE PruneSettled
  BY <1>3, PruneImplements DEF O!Next
<1>4. CASE StoreBanks
  BY <1>4, BanksImplement DEF O!Next
<1>5. ASSUME NEW c \in Client, Queue(c) PROVE UNCHANGED O!vars
  <2>1. UNCHANGED <<drafts, pub>>
    BY <1>5 DEF Queue, refresh
  <2>2. ASSUME NEW key \in Key
        PROVE  \/ entries'[key] = entries[key]
               \/ /\ entries[key] \in Entry
                  /\ SameWrite(entries[key], entries'[key])
                  /\ entries'[key].rslt = entries[key].rslt
    <3>1. CASE entries[key] = NoEntry
      BY <1>5, <3>1 DEF Queue
    <3>2. CASE entries[key] # NoEntry
      <4>1. entries'[key] = Overtaken(entries[key], job[c]) /\ entries[key] \in Entry
        BY <1>5, <3>2 DEF Queue, TypeOK
      <4>2. QED
        BY <4>1, OvertakenKeepsWrite
    <3>3. QED
      BY <3>1, <3>2
  <2>3. QED
    BY <2>1, <2>2, KeptIsStutter
<1>6. ASSUME NEW k \in Key, Age(k) PROVE UNCHANGED O!vars
  <2>1. UNCHANGED <<drafts, pub>>
    BY <1>6 DEF Age, refresh
  <2>2. \A key \in Key :
            \/ entries'[key] = entries[key]
            \/ /\ entries[key] \in Entry
               /\ SameWrite(entries[key], entries'[key])
               /\ entries'[key].rslt = entries[key].rslt
    BY <1>6, AgeKeepsWrite
  <2>3. QED
    BY <2>1, <2>2, KeptIsStutter
<1>7. ASSUME UNCHANGED <<entries, drafts, pub>> PROVE UNCHANGED O!vars
  BY <1>7 DEF O!vars
<1>8. ASSUME NEW u \in Unit, Encode(u) PROVE O!Take(u)
  BY <1>8, EncodeImplements
<1>9. QED
  BY <1>1, <1>2, <1>3, <1>4, <1>5, <1>6, <1>7, <1>8
     DEF Next, HandlerStep, RefreshStep, Receive, QueueFails, Build, StoreSnap,
         Report, Send, refresh, vars, O!Next

\* The tracker implements Outcomes, for any number of clients, any fleets and
\* whatever inverters report: a write is numbered once, settles once and is not
\* forgotten before. Clients read of each unit outcomes that the tracker held
\* for it, in their order, though handlers track writes while banks are encoded.
THEOREM ImplementsOutcomes == Spec => OutcomeSpec
<1>1. Init => O!Init
  BY DEF Init, O!Init, OutcomeOf, O!Untracked, O!NothingInFlight, NothingInFlight,
         O!NothingTaken, NoDrafts
<1>2. TypeOK /\ [Next]_vars => [O!Next]_(O!vars)
  BY StepImplements
<1>3. QED
  BY <1>1, <1>2, TypeCorrect, PTL DEF Spec, OutcomeSpec, O!Spec
=============================================================================
