--------------------------- MODULE SettledProofs ---------------------------
(* The shallow upserts of Shimiko, for any number of clients, names and    *)
(* values: SettledPublished where upserts and the on-demand loop are alone *)
(* and nothing fails.                                                      *)
EXTENDS ReconcileProofs

\* Requests only create or change records, the scheduled loop is off, and there are no
\* faults, crashes or values that the mirrors refuse.  The code knows one apex record.
UpsertsAlone ==
    /\ Operations \subseteq {"upsert", "bulk upsert"}
    /\ ReconcileInterval = 0 /\ MaxFaults = 0 /\ MaxCrashes = 0
    /\ RejectedValues = {} /\ UnlexedNames = {}
    /\ \A a, b \in ApexNames : a = b

-----------------------------------------------------------------------------
(* What then never happens.                                                *)

\* Every upsert is shallow, and one that is for a single record has none left to do
\* once it has saved it.
CalmClient(l) ==
    /\ l.op \in {"none", "upsert", "bulk upsert"}
    /\ l.pc \in {"idle", "connect", "lookup", "write", "finished"}
    /\ l.op = "none" <=> l.pc = "idle"
    /\ l.pc \in {"lookup", "write", "finished"} => l.shallow
    /\ l.op = "upsert" =>
         /\ l.pc \in {"connect", "lookup"} => \E t \in Names : l.todo = {t}
         /\ l.pc \in {"write", "finished"} => l.todo = {}

\* The loop meets no error and deletes nothing.
CalmLoop(l) ==
    /\ ~l.shallow /\ ~l.hasError /\ ~l.returnErrors
    /\ \A n \in Names : ~l.records[n].deleted /\ l.batch[n].action # "DELETE"
    /\ \/ l.op = "none" /\ l.pc \in {"idle", "clear flag"}
       \/ /\ l.op = "fix" /\ l.todo \subseteq {Self}
          /\ l.pc \in {"connect", "lookup", "write", "push", "flush", "finished", "snapshot"}
          /\ l.pc = "write" => l.name = Self /\ l.id = db[Self].id
       \/ /\ l.op = "purge" /\ l.pc \in {"connect", "push", "flush", "finished"}
          /\ l.pc # "connect" => l.todo = {}
       \/ l.op = "update" /\ l.pc \in {"connect", "push", "flush", "finished", "returned"}
       \/ /\ l.op = "public ip"
          /\ l.pc \in {"connect", "lookup", "write", "push", "flush", "finished", "returned"}
          /\ l.pc \in {"connect", "lookup"} => l.todo \subseteq ApexNames
          /\ l.pc = "write" => l.todo = {}

CalmTable == garbled = {} /\ nextId # 0 /\ Live(Self) /\ \A n \in Names : ~db[n].deleted

Calm ==
    /\ CalmTable
    /\ local[Scheduled].pc = "off"
    /\ CalmLoop(local[OnDemand])
    /\ \A c \in Clients : CalmClient(local[c])

-----------------------------------------------------------------------------
(* What is published, or will be.                                          *)

AllPublished == \A n \in Names : Live(n) => Published(n)

\* A shallow request that has saved, or may have saved, a record and will raise the flag.
AboutToAsk(l) == l.pc = "finished" \/ (l.op = "bulk upsert" /\ l.pc \in {"lookup", "write"})

\* A reconcile will read the table.
Pending ==
    \/ onDemandReconcileAll
    \/ \E c \in Clients : AboutToAsk(local[c])
    \/ local[OnDemand].pc = "clear flag" \/ local[OnDemand].op = "fix"

Carries(z) == \A n \in Names : Live(n) => z[n] = db[n].value

\* The same of a zone file, which shows no NS record, and of a session's copy of one,
\* which has one at most until it is saved.
Shows(z) == \A n \in Names : Live(n) => z[n] = Shown(n, db[n].value)
CarriesOrdinary(z) == \A n \in Names \ NSNames : Live(n) => z[n] = db[n].value

\* ReconcilePublicIP saves the apex record and copies it at once, not through the flag.
ApexClaim(l) ==
    /\ l.pc \in {"connect", "lookup", "write", "returned"} => AllPublished
    /\ l.pc \in {"connect", "lookup", "write"} => l.host = 1
    /\ l.pc \in {"lookup", "write"} => l.entries = zone["rem"] /\ l.batch = EmptyBatch
    /\ l.pc \in {"push", "flush", "finished"} =>
         /\ CarriesOrdinary(l.entries)
         /\ \A h \in Hosts : PushedTo(l, h) => Shows(zone[h])
    /\ l.pc \in {"push", "flush"} =>
         \A n \in Names : Live(n) =>
             \/ l.batch[n].action = "NONE" /\ route53[n] = db[n].value
             \/ l.batch[n].action = "UPSERT" /\ l.batch[n].value = db[n].value
    /\ l.pc = "finished" => Carries(route53)

\* If no read is pending, the loop's part of the work is done as far as it has come.
Claim(l) ==
    /\ Exact(l)
    /\ l.op = "none" => AllPublished
    /\ l.op = "public ip" => ApexClaim(l)

SyncInv == Calm /\ (Pending \/ Claim(local[OnDemand]))

-----------------------------------------------------------------------------
LEMMA Goroutines ==
    /\ OnDemand \in Procs /\ Scheduled \in Procs /\ OnDemand # Scheduled
    /\ OnDemand \notin Clients /\ Scheduled \notin Clients /\ Clients \subseteq Procs
BY ConstantsAssumption DEF Procs, Loops, OnDemand, Scheduled

LEMMA NothingFails ==
    ASSUME IInv, UpsertsAlone
    PROVE  ~Fails /\ ~Crash
<1>1. faults \in Nat /\ crashes \in Nat
  BY DEF IInv, TypeOK
<1>2. MaxFaults = 0 /\ MaxCrashes = 0
  BY DEF UpsertsAlone
<1>3. ~(faults < MaxFaults) /\ ~(crashes < MaxCrashes)
  BY <1>1, <1>2
<1> QED
  BY <1>3 DEF Fails, Crash

\* What has to be shown of a step of the loop.
LoopSync ==
    /\ Only(OnDemand) /\ CalmTable' /\ CalmLoop(local[OnDemand])'
    /\ Pending \/ Claim(local[OnDemand]) => Pending' \/ Claim(local[OnDemand])'

LEMMA LoopStepSync ==
    ASSUME SyncInv, LoopSync
    PROVE  SyncInv'
<1>1. local'[Scheduled] = local[Scheduled] /\ \A c \in Clients : local'[c] = local[c]
  BY Goroutines DEF LoopSync, Only
<1> QED
  BY <1>1 DEF SyncInv, LoopSync, Calm, CalmClient

\* A read that is pending stays so, unless this is the loop on its way to it.
LEMMA PendingKept ==
    ASSUME Only(OnDemand), Pending, onDemandReconcileAll => onDemandReconcileAll',
           local[OnDemand].op # "fix", local[OnDemand].pc # "clear flag"
    PROVE  Pending'
<1>1. \A c \in Clients : local'[c] = local[c]
  BY Goroutines DEF Only
<1> QED
  BY <1>1 DEF Pending

-----------------------------------------------------------------------------
(* The clients.                                                            *)

\* A client leaves the mirrors and the loop alone.  If it changes the table it is about
\* to raise the flag, and gives no row another id.
ClientSync(c) ==
    /\ Only(c) /\ CalmClient(local'[c]) /\ UNCHANGED <<zone, garbled, route53>> /\ nextId' # 0
    /\ \/ UNCHANGED db
       \/ /\ AboutToAsk(local'[c])
          /\ \A n \in Names : \/ db'[n] = db[n]
                              \/ /\ db'[n].id # 0 /\ ~db'[n].deleted
                                 /\ db[n].id # 0 => db'[n].id = db[n].id
    /\ AboutToAsk(local[c]) => AboutToAsk(local'[c]) \/ onDemandReconcileAll'
    /\ onDemandReconcileAll => onDemandReconcileAll'

LEMMA ClientStepSync ==
    ASSUME SyncInv, IInv, NEW c \in Clients, ClientSync(c)
    PROVE  SyncInv'
<1>1. local'[OnDemand] = local[OnDemand] /\ local'[Scheduled] = local[Scheduled]
  BY Goroutines DEF ClientSync, Only
<1>2. \A d \in Clients : CalmClient(local'[d])
  BY Goroutines DEF ClientSync, Only, SyncInv, Calm
<1>3. CalmTable'
  BY ConstantsAssumption DEF ClientSync, SyncInv, Calm, CalmTable, Live, HasRow
<1>4. db'[Self].id = db[Self].id
  BY ConstantsAssumption DEF ClientSync, SyncInv, Calm, CalmTable, Live, HasRow
<1>5. CalmLoop(local[OnDemand])'
  BY <1>1, <1>4 DEF SyncInv, Calm, CalmLoop
<1>6. Calm'
  BY <1>1, <1>2, <1>3, <1>5 DEF SyncInv, Calm, CalmClient
<1>7. CASE Pending
  <2>1. ASSUME NEW d \in Clients, AboutToAsk(local[d]) PROVE Pending'
    <3>1. AboutToAsk(local'[d]) \/ onDemandReconcileAll'
      BY <2>1, Goroutines DEF ClientSync, Only
    <3> QED
      BY <3>1 DEF Pending, AboutToAsk
  <2> QED
    BY <1>1, <1>6, <1>7, <2>1 DEF ClientSync, Pending, SyncInv
<1>8. CASE Claim(local[OnDemand]) /\ UNCHANGED db
  <2>1. UNCHANGED <<db, zone, garbled, route53>> /\ local'[OnDemand] = local[OnDemand]
    BY <1>1, <1>8 DEF ClientSync
  <2>2. Exact(local[OnDemand])' = Exact(local[OnDemand])
    BY <2>1 DEF Exact, TableRead, Purging, Updating
  <2>3. AllPublished' = AllPublished
    BY <2>1 DEF AllPublished, Live, HasRow, Published
  <2>4. ApexClaim(local[OnDemand])' = ApexClaim(local[OnDemand])
    BY <2>1, <2>3 DEF ApexClaim, Carries, CarriesOrdinary, Shows, Live, HasRow
  <2> QED
    BY <1>6, <1>8, <2>1, <2>2, <2>3, <2>4 DEF SyncInv, Claim
<1>9. CASE ~UNCHANGED db
  BY <1>6, <1>9 DEF ClientSync, SyncInv, Pending, AboutToAsk
<1> QED
  BY <1>7, <1>8, <1>9 DEF SyncInv

\* The zone file can always be loaded.
LEMMA AlwaysLoadable ==
    ASSUME UpsertsAlone, CalmTable
    PROVE  Loadable
BY DEF UpsertsAlone, CalmTable, Loadable

LEMMA ClientActions ==
    ASSUME IInv, UpsertsAlone, SyncInv, NEW c \in Clients, Step(c) \/ Arrive(c)
    PROVE  \/ OpenSession(c) \/ Lookup(c) \/ UpsertWrite(c) \/ RecordFails(c)
           \/ Respond(c) \/ Request(c)
<1>1. CalmClient(local[c]) /\ c \notin Loops /\ c # OnDemand /\ c # Scheduled
  BY ConstantsAssumption DEF SyncInv, Calm, Loops
<1>2. Loadable /\ ~Fails
  BY AlwaysLoadable, NothingFails DEF SyncInv, Calm
<1>3. CASE SessionStep(c)
  <2>1. ~SessionFails(c)
    BY <1>2 DEF SessionFails
  <2>2. /\ ~OpenPurgeSession(c) /\ ~OpenUpdateSession(c) /\ ~DeleteWrite(c) /\ ~DeleteList(c)
        /\ ~Push(c) /\ ~PushFails(c) /\ ~Flush(c) /\ ~FlushFails(c)
    BY <1>1 DEF CalmClient, OpenPurgeSession, OpenUpdateSession, DeleteWrite, DeleteList, Push,
                PushFails, Flush, FlushFails, At, DeleteOps
  <2> QED
    BY <1>3, <2>1, <2>2 DEF SessionStep
<1>4. ~ReconcileStep(c)
  BY <1>1 DEF CalmClient, ReconcileStep, FixReturns, Snapshot, SnapshotFails, PurgeRow,
              PurgeReturns, UpdateReturns, PublicIP, PublicIPReturns, LoopEnds, Panic,
              EndsInPanic, At
<1>5. ~Tick(c) /\ ~RefreshReply(c)
  BY <1>1 DEF CalmClient, Tick, RefreshReply
<1>6. ~Refresh(c)
  BY DEF Refresh, UpsertsAlone
<1> QED
  BY <1>3, <1>4, <1>5, <1>6 DEF Step, Arrive

LEMMA ClientNext ==
    ASSUME IInv, UpsertsAlone, SyncInv, NEW c \in Clients, Step(c) \/ Arrive(c)
    PROVE  ClientSync(c)
<1>1. /\ CalmClient(local[c]) /\ local[c] \in Local /\ Addressed(local[c]) /\ c \in Procs
      /\ db \in [Names -> Row] /\ nextId \in Nat /\ nextId # 0
  BY Goroutines DEF SyncInv, Calm, CalmTable, IInv, TypeOK
<1>2. CASE OpenSession(c)
  <2>1. PICK failed \in BOOLEAN : Become(c, [local[c] EXCEPT
              !.entries = zone["rem"], !.batch = EmptyBatch, !.pc = "lookup",
              !.shallow = /\ local[c].op \in {"upsert", "bulk upsert"}
                          /\ \A t \in local[c].todo : ExistsInDB(t),
              !.hasError = failed])
    BY <1>2 DEF OpenSession
  <2> DEFINE k == [local[c] EXCEPT
              !.entries = zone["rem"], !.batch = EmptyBatch, !.pc = "lookup",
              !.shallow = /\ local[c].op \in {"upsert", "bulk upsert"}
                          /\ \A t \in local[c].todo : ExistsInDB(t),
              !.hasError = failed]
  <2>2. /\ Become(c, k) /\ k.op = local[c].op /\ k.todo = local[c].todo /\ k.pc = "lookup"
        /\ k.shallow = (/\ local[c].op \in {"upsert", "bulk upsert"}
                        /\ \A t \in local[c].todo : ExistsInDB(t))
    BY <1>1, <2>1 DEF Local
  <2> HIDE DEF k
  <2>3. local[c].pc = "connect" /\ local[c].op \in {"upsert", "bulk upsert"}
    BY <1>1, <1>2 DEF OpenSession, At, CalmClient
  <2>4. k.shallow
    BY <2>2, <2>3, LookedUpType DEF ExistsInDB, IInv
  <2>5. CalmClient(k) /\ ~AboutToAsk(local[c])
    BY <1>1, <2>2, <2>3, <2>4 DEF CalmClient, AboutToAsk
  <2>6. UNCHANGED shared
    BY <1>2 DEF OpenSession
  <2> QED
    BY <1>1, <2>2, <2>5, <2>6, Became DEF ClientSync, shared
<1>3. CASE Lookup(c)
  <2>1. PICK t \in local[c].todo, row \in Row :
          LET l == [local[c] EXCEPT !.todo = @ \ {t}]
          IN Become(c, IF l.op = "fix" /\ row.id = 0 THEN GiveUp(l)
                       ELSE [l EXCEPT !.name = t, !.id = row.id, !.pc = "write"])
    BY <1>3, LookedUpType DEF Lookup, IInv
  <2> DEFINE l == [local[c] EXCEPT !.todo = @ \ {t}]
             k == [l EXCEPT !.name = t, !.id = row.id, !.pc = "write"]
  <2>2. l.op = local[c].op /\ local[c].pc = "lookup" /\ local[c].op # "fix"
    BY <1>1, <1>3 DEF Lookup, At, CalmClient, Local
  <2>3. /\ Become(c, k) /\ k.op = local[c].op /\ k.todo = local[c].todo \ {t}
        /\ k.pc = "write" /\ k.shallow = local[c].shallow
    BY <1>1, <2>1, <2>2 DEF Local
  <2> HIDE DEF k
  <2>4. CalmClient(k) /\ (AboutToAsk(local[c]) => AboutToAsk(k))
    BY <1>1, <2>2, <2>3 DEF CalmClient, AboutToAsk
  <2>5. UNCHANGED shared
    BY <1>3 DEF Lookup
  <2> QED
    BY <1>1, <2>3, <2>4, <2>5, Became DEF ClientSync, shared
<1>4. CASE UpsertWrite(c)
  <2>1. local[c].pc = "write" /\ local[c].shallow /\ local[c].op \in {"upsert", "bulk upsert"}
    BY <1>1, <1>4 DEF UpsertWrite, At, CalmClient
  <2> DEFINE k == Continue(local[c])
  <2>2. /\ Become(c, k) /\ CanSave(local[c].name, local[c].id)
        /\ Save(local[c].name, local[c].id, local[c].value) /\ UNCHANGED <<external, flags>>
    BY <1>4, <2>1 DEF UpsertWrite
  <2>3. /\ k.op = local[c].op /\ k.todo = local[c].todo /\ k.shallow
        /\ k.pc = IF local[c].todo # {} THEN "lookup" ELSE "finished"
    BY <1>1, <2>1 DEF Continue, Local
  <2> HIDE DEF k
  <2>4. CalmClient(k) /\ AboutToAsk(k)
    BY <1>1, <2>1, <2>3 DEF CalmClient, AboutToAsk
  <2>5. local[c].name \in Names /\ local[c].id \in Nat
    BY <1>1, <2>1 DEF Addressed, DeleteOps, Local
  <2>6. /\ nextId' # 0
        /\ \A n \in Names : \/ db'[n] = db[n]
                            \/ /\ db'[n].id # 0 /\ ~db'[n].deleted
                               /\ db[n].id # 0 => db'[n].id = db[n].id
    BY <1>1, <2>2, <2>5 DEF CanSave, Save
  <2> QED
    BY <1>1, <2>2, <2>4, <2>6, Became DEF ClientSync, external, files, flags
<1>5. CASE RecordFails(c)
  <2>1. local[c].pc = "write" /\ Become(c, GiveUp(local[c])) /\ UNCHANGED shared
    BY <1>1, <1>5 DEF RecordFails, CalmClient
  <2>2. local[c].shallow /\ local[c].op \in {"upsert", "bulk upsert"}
    BY <1>1, <2>1 DEF CalmClient
  <2>3. CASE local[c].op = "upsert"
    <3>1. GiveUp(local[c]) = IdleLocal /\ ~AboutToAsk(local[c])
      BY <2>1, <2>3 DEF GiveUp, BulkOps, AboutToAsk
    <3>2. CalmClient(IdleLocal)
      BY DEF CalmClient, IdleLocal
    <3> QED
      BY <1>1, <2>1, <3>1, <3>2, Became DEF ClientSync, shared
  <2>4. CASE local[c].op = "bulk upsert"
    <3> DEFINE m == [local[c] EXCEPT !.hasError = TRUE]
    <3>1. m \in Local /\ m.op = local[c].op /\ m.todo = local[c].todo /\ m.shallow = local[c].shallow
      BY <1>1 DEF Local
    <3>2. GiveUp(local[c]) = Continue(m)
      BY <2>4 DEF GiveUp, BulkOps
    <3> HIDE DEF m
    <3> DEFINE k == Continue(m)
    <3>3. /\ k.op = local[c].op /\ k.todo = local[c].todo /\ k.shallow
          /\ k.pc \in {"lookup", "finished"}
      BY <2>2, <3>1 DEF Continue, Local
    <3> HIDE DEF k
    <3>4. CalmClient(k) /\ AboutToAsk(k)
      BY <2>4, <3>3 DEF CalmClient, AboutToAsk
    <3>5. Become(c, k)
      BY <2>1, <3>2 DEF k
    <3> QED
      BY <1>1, <2>1, <3>4, <3>5, Became DEF ClientSync, shared
  <2> QED
    BY <2>2, <2>3, <2>4
<1>6. CASE Respond(c)
  <2>1. /\ local[c].shallow /\ Become(c, IdleLocal) /\ onDemandReconcileAll'
        /\ UNCHANGED <<table, external>>
    BY <1>1, <1>6 DEF Respond, At, CalmClient
  <2>2. CalmClient(IdleLocal)
    BY DEF CalmClient, IdleLocal
  <2> QED
    BY <1>1, <2>1, <2>2, Became DEF ClientSync, table, external, files
<1>7. CASE Request(c)
  <2> DEFINE k(o, v, T) == [IdleLocal EXCEPT !.pc = "connect", !.op = o,
                                !.names = T, !.todo = T,
                                !.value = IF o \in DeleteOps THEN Absent ELSE v]
  <2>0. PICK o \in Operations \ {"refresh"}, v \in Values, T \in SUBSET Targets :
          /\ Become(c, k(o, v, T))
          /\ T \subseteq IF o \in DeleteOps THEN DeleteNames ELSE UpsertNames
          /\ IF o \in BulkOps THEN T # {} ELSE \E t \in T : T = {t}
    BY <1>7, ConstantsAssumption DEF Request, Targets
  <2>1. /\ Become(c, k(o, v, T)) /\ o \in {"upsert", "bulk upsert"} /\ T \subseteq Names
        /\ IF o \in BulkOps THEN T # {} ELSE \E t \in T : T = {t}
    BY <2>0, ConstantsAssumption DEF UpsertsAlone, DeleteOps
  <2>2. k(o, v, T).op = o /\ k(o, v, T).todo = T /\ k(o, v, T).pc = "connect"
    BY DEF IdleLocal
  <2> HIDE DEF k
  <2>3. CalmClient(k(o, v, T))
    BY <2>1, <2>2 DEF CalmClient, BulkOps
  <2>4. UNCHANGED shared /\ local[c].pc = "idle" /\ ~AboutToAsk(local[c])
    BY <1>7 DEF Request, AboutToAsk
  <2> QED
    BY <1>1, <2>1, <2>3, <2>4, Became DEF ClientSync, shared
<1> QED
  BY <1>2, <1>3, <1>4, <1>5, <1>6, <1>7, ClientActions

-----------------------------------------------------------------------------
(* The on-demand loop.                                                     *)

LEMMA LoopActions ==
    ASSUME IInv, UpsertsAlone, SyncInv, Step(OnDemand)
    PROVE  \/ OnDemandTick \/ OnDemandClear
           \/ OpenSession(OnDemand) \/ Lookup(OnDemand)
           \/ UpsertWrite(OnDemand) \/ RecordFails(OnDemand)
           \/ Push(OnDemand) \/ Flush(OnDemand)
           \/ FixReturns(OnDemand) \/ Snapshot(OnDemand)
           \/ OpenPurgeSession(OnDemand) \/ PurgeReturns(OnDemand)
           \/ OpenUpdateSession(OnDemand) \/ UpdateReturns(OnDemand)
           \/ PublicIP(OnDemand) \/ PublicIPReturns(OnDemand) \/ LoopEnds(OnDemand)
<1>1. CalmLoop(local[OnDemand]) /\ Loadable /\ ~Fails
  BY AlwaysLoadable, NothingFails DEF SyncInv, Calm
<1>2. ~SessionFails(OnDemand) /\ ~PushFails(OnDemand) /\ ~SnapshotFails(OnDemand)
  BY <1>1 DEF SessionFails, PushFails, SnapshotFails
<1>3. ~DeleteWrite(OnDemand) /\ ~DeleteList(OnDemand)
  BY <1>1 DEF CalmLoop, DeleteWrite, DeleteList, At, DeleteOps
<1>4. ~FlushFails(OnDemand)
  <2>1. Acceptable(local[OnDemand].batch)
    BY <1>1 DEF CalmLoop, Acceptable, UpsertsAlone
  <2> QED
    BY <1>1, <2>1 DEF FlushFails
<1>5. ~PurgeRow(OnDemand) /\ ~Panic(OnDemand)
  BY <1>1 DEF CalmLoop, PurgeRow, Panic, EndsInPanic, At
<1>6. ~Respond(OnDemand) /\ ~RefreshReply(OnDemand)
  BY Goroutines DEF Respond, RefreshReply
<1> QED
  BY <1>2, <1>3, <1>4, <1>5, <1>6, Goroutines DEF Step, SessionStep, ReconcileStep, Tick

\* The steps after which a read is still, or again, to come.
LEMMA TickSync ==
    ASSUME IInv, SyncInv, OnDemandTick \/ OnDemandClear
    PROVE  LoopSync
<1>1. CalmTable /\ UNCHANGED <<table, external>> /\ OnDemand \in Procs
  BY Goroutines DEF OnDemandTick, OnDemandClear, SyncInv, Calm
<1>2. CalmTable'
  BY <1>1 DEF CalmTable, table, external, files, Live, HasRow
<1> DEFINE clear == [IdleLocal EXCEPT !.pc = "clear flag"]
<1>3. Become(OnDemand, clear) \/ Become(OnDemand, Reconciling)
  BY DEF OnDemandTick, OnDemandClear
<1>4. /\ CalmLoop(clear)' /\ clear.pc = "clear flag"
      /\ CalmLoop(Reconciling)' /\ Reconciling.op = "fix"
  BY DEF CalmLoop, IdleLocal, Reconciling, ZeroRow, EmptyBatch, NoChange
<1> HIDE DEF clear
<1>5. Only(OnDemand) /\ local'[OnDemand] \in {clear, Reconciling}
  BY <1>1, <1>3, Became
<1> QED
  BY <1>2, <1>4, <1>5 DEF LoopSync, Pending, CalmLoop

\* Once it is past the flag and FixMyself, the loop has to keep what it claims.
Keeps ==
    /\ Only(OnDemand) /\ CalmTable' /\ CalmLoop(local[OnDemand])'
    /\ UNCHANGED onDemandReconcileAll
    /\ \/ local'[OnDemand].op = "fix"
       \/ /\ local[OnDemand].op # "fix" /\ local[OnDemand].pc # "clear flag"
          /\ Claim(local[OnDemand]) => Claim(local[OnDemand])'

LEMMA KeepsSync ==
    ASSUME Keeps
    PROVE  LoopSync
<1>1. CASE local'[OnDemand].op = "fix"
  BY <1>1 DEF Keeps, LoopSync, Pending
<1>2. CASE Pending /\ local'[OnDemand].op # "fix"
  BY <1>2, PendingKept DEF Keeps, LoopSync
<1> QED
  BY <1>1, <1>2 DEF Keeps, LoopSync

\* What is claimed of the mirrors while they and the table stay as they are.
LEMMA ClaimsStay ==
    ASSUME UNCHANGED <<db, zone, garbled, route53>>
    PROVE  /\ AllPublished' <=> AllPublished
           /\ \A z : /\ Carries(z)' <=> Carries(z)
                     /\ Shows(z)' <=> Shows(z)
                     /\ CarriesOrdinary(z)' <=> CarriesOrdinary(z)
BY DEF CalmTable, AllPublished, Carries, Shows, CarriesOrdinary, Live, HasRow, Published

\* What Save leaves of the session's copy.
LEMMA Preamble ==
    ASSUME NEW entries, CarriesOrdinary(entries)
    PROVE  Shows(GenerateZonePreamble(entries))
BY DEF CarriesOrdinary, Shows, Shown, GenerateZonePreamble, CoreDNSDelete

LEMMA OpenKeeps ==
    ASSUME IInv, UpsertsAlone, SyncInv, OpenSession(OnDemand)
    PROVE  Keeps
<1> DEFINE l == local[OnDemand]
<1>1. /\ CalmLoop(l) /\ CalmTable /\ l \in Local /\ OnDemand \in Procs
      /\ UNCHANGED <<db, nextId, zone, garbled, route53, onDemandReconcileAll>>
  BY Goroutines DEF SyncInv, Calm, IInv, TypeOK, OpenSession, shared
<1>2. l.pc = "connect" /\ l.op \in {"fix", "public ip"}
  BY <1>1 DEF OpenSession, At, SessionOps, CalmLoop
<1> DEFINE k == [l EXCEPT
              !.entries = zone["rem"], !.batch = EmptyBatch, !.pc = "lookup",
              !.shallow = /\ l.op \in {"upsert", "bulk upsert"}
                          /\ \A t \in l.todo : ExistsInDB(t),
              !.hasError = FALSE]
<1>3. Become(OnDemand, k)
  BY NothingFails DEF OpenSession
<1>4. /\ k.op = l.op /\ k.pc = "lookup" /\ k.todo = l.todo /\ ~k.shallow /\ ~k.hasError
      /\ k.returnErrors = l.returnErrors /\ k.records = l.records /\ k.host = l.host
      /\ k.entries = zone["rem"] /\ k.batch = EmptyBatch
  BY <1>1, <1>2 DEF Local
<1> HIDE DEF k
<1>5. local'[OnDemand] = k /\ Only(OnDemand)
  BY <1>1, <1>3, Became
<1>6. CalmTable'
  BY <1>1 DEF CalmTable, Live, HasRow
<1>7. \A n \in Names : EmptyBatch[n].action # "DELETE"
  BY DEF EmptyBatch, NoChange
<1>8. CalmLoop(local[OnDemand])'
  BY <1>1, <1>2, <1>4, <1>5, <1>7 DEF CalmLoop
<1>9. CASE l.op = "public ip"
  <2>1. Claim(l) => ApexClaim(l)
    BY <1>9 DEF Claim
  <2>2. Claim(l) => ApexClaim(local[OnDemand])'
    BY <1>1, <1>2, <1>4, <1>5, <2>1, ClaimsStay DEF ApexClaim
  <2>3. Exact(local[OnDemand])'
    BY <1>4, <1>5, <1>9 DEF Exact, InAll
  <2> QED
    BY <1>1, <1>2, <1>4, <1>5, <1>6, <1>8, <1>9, <2>2, <2>3 DEF Keeps, Claim
<1> QED
  BY <1>1, <1>2, <1>4, <1>5, <1>6, <1>8, <1>9 DEF Keeps

LEMMA LookupKeeps ==
    ASSUME IInv, UpsertsAlone, SyncInv, Lookup(OnDemand)
    PROVE  Keeps
<1> DEFINE l == local[OnDemand]
<1>1. /\ CalmLoop(l) /\ CalmTable /\ l \in Local /\ OnDemand \in Procs
      /\ UNCHANGED <<db, nextId, zone, garbled, route53, onDemandReconcileAll>>
  BY Goroutines DEF SyncInv, Calm, IInv, TypeOK, Lookup, shared
<1>2. l.pc = "lookup" /\ l.op \in {"fix", "public ip"}
  BY <1>1 DEF Lookup, At, SessionOps, CalmLoop
<1> DEFINE m(t) == [l EXCEPT !.todo = @ \ {t}]
           row(t) == IF l.op = "fix" THEN First(t) ELSE FirstUnscoped(t)
           k(t) == [m(t) EXCEPT !.name = t, !.id = row(t).id, !.pc = "write"]
<1>3. PICK t \in l.todo :
        Become(OnDemand, IF l.op = "fix" /\ row(t).id = 0 THEN GiveUp(m(t)) ELSE k(t))
  <2>1. ~Fails
    BY NothingFails
  <2>2. \A t \in l.todo : m(t).op = l.op
    BY <1>1 DEF Local
  <2> HIDE DEF k
  <2> QED
    BY <1>2, <2>1, <2>2 DEF Lookup, DeleteOps, k
<1>4. l.op = "fix" => t = Self /\ row(t) = db[Self] /\ row(t).id # 0
  BY <1>1, <1>2, <1>3, ConstantsAssumption DEF CalmLoop, CalmTable, First, Live, HasRow
<1>5. /\ Become(OnDemand, k(t))
      /\ k(t).op = l.op /\ k(t).pc = "write" /\ k(t).todo = l.todo \ {t}
      /\ k(t).name = t /\ k(t).id = row(t).id
      /\ k(t).shallow = l.shallow /\ k(t).hasError = l.hasError
      /\ k(t).returnErrors = l.returnErrors /\ k(t).records = l.records
      /\ k(t).host = l.host /\ k(t).entries = l.entries /\ k(t).batch = l.batch
  BY <1>1, <1>3, <1>4 DEF Local
<1> HIDE DEF m, k, row
<1>6. local'[OnDemand] = k(t) /\ Only(OnDemand)
  BY <1>1, <1>5, Became
<1>7. CalmTable'
  BY <1>1 DEF CalmTable, Live, HasRow
<1>8. l.op = "public ip" => l.todo \ {t} = {}
  BY <1>1, <1>2 DEF CalmLoop, UpsertsAlone
<1>9. CalmLoop(local[OnDemand])'
  BY <1>1, <1>2, <1>4, <1>5, <1>6, <1>8 DEF CalmLoop
<1>10. CASE l.op = "public ip"
  <2>1. Claim(l) => ApexClaim(l)
    BY <1>10 DEF Claim
  <2>2. Claim(l) => ApexClaim(local[OnDemand])'
    BY <1>1, <1>2, <1>5, <1>6, <2>1, ClaimsStay DEF ApexClaim
  <2>3. Exact(local[OnDemand])'
    BY <1>5, <1>6, <1>10 DEF Exact, InAll
  <2> QED
    BY <1>1, <1>2, <1>5, <1>6, <1>7, <1>9, <1>10, <2>2, <2>3 DEF Keeps, Claim
<1> QED
  BY <1>1, <1>2, <1>5, <1>6, <1>7, <1>9, <1>10 DEF Keeps

\* The loop's Upsert carries what it has saved into its own zone file and batch.
LEMMA WriteKeeps ==
    ASSUME IInv, UpsertsAlone, SyncInv, UpsertWrite(OnDemand)
    PROVE  Keeps
<1> DEFINE l == local[OnDemand]
           n0 == l.name
           values == [n \in {n0} |-> l.value]
           saved == [l EXCEPT !.entries = CoreDNSUpsert(@, values),
                              !.batch = Route53Upsert(@, values)]
           k == Continue(saved)
<1>1. /\ CalmLoop(l) /\ CalmTable /\ l \in Local /\ OnDemand \in Procs /\ n0 \in Names
      /\ db \in [Names -> Row] /\ nextId \in Nat /\ l.id \in Nat
      /\ UNCHANGED <<zone, garbled, route53, onDemandReconcileAll>>
  <2>1. Addressed(l) /\ l.op \notin DeleteOps
    BY Goroutines DEF IInv, SyncInv, Calm, CalmLoop, DeleteOps
  <2> QED
    BY <2>1, Goroutines DEF SyncInv, Calm, IInv, TypeOK, Addressed, UpsertWrite, external,
                            files, flags, Local
<1>2. l.pc = "write" /\ l.op \in {"fix", "public ip"} /\ ~l.shallow
  BY <1>1 DEF UpsertWrite, At, SessionOps, CalmLoop, DeleteOps
<1>3. Become(OnDemand, k) /\ CanSave(n0, l.id) /\ Save(n0, l.id, l.value)
  BY <1>2 DEF UpsertWrite
<1>4. /\ values \in [{n0} -> MaybeValue]
      /\ CoreDNSUpsert(l.entries, values) \in Zone /\ Route53Upsert(l.batch, values) \in Batch
  <2>1. values \in [{n0} -> MaybeValue] /\ l.entries \in Zone /\ l.batch \in Batch
    BY <1>1 DEF Local
  <2> QED
    BY <2>1, CoreDNSUpsertType, Route53UpsertType
<1>5. /\ \A n \in Names : CoreDNSUpsert(l.entries, values)[n] = IF n = n0 THEN l.value ELSE l.entries[n]
      /\ \A n \in Names : Route53Upsert(l.batch, values)[n] =
            IF n = n0 THEN [action |-> "UPSERT", value |-> l.value] ELSE l.batch[n]
  BY DEF CoreDNSUpsert, Route53Upsert
<1> HIDE DEF values
<1>6. /\ saved \in Local /\ saved.op = l.op /\ saved.todo = l.todo /\ ~saved.shallow
      /\ saved.hasError = l.hasError /\ saved.returnErrors = l.returnErrors
      /\ saved.records = l.records /\ saved.host = l.host
      /\ saved.entries = CoreDNSUpsert(l.entries, values)
      /\ saved.batch = Route53Upsert(l.batch, values)
  BY <1>1, <1>2, <1>4 DEF Local
<1> HIDE DEF saved
<1>7. /\ k.pc = (IF l.todo # {} THEN "lookup" ELSE "push")
      /\ k.op = l.op /\ k.todo = l.todo /\ ~k.shallow
      /\ k.hasError = l.hasError /\ k.returnErrors = l.returnErrors
      /\ k.records = l.records /\ k.host = l.host
      /\ k.entries = saved.entries /\ k.batch = saved.batch
  BY <1>6 DEF Continue, Local
<1> HIDE DEF k
<1>8. local'[OnDemand] = k /\ Only(OnDemand)
  BY <1>1, <1>3, Became
<1>9. /\ \A n \in Names : n # n0 => db'[n] = db[n]
      /\ db'[n0].value = l.value /\ ~db'[n0].deleted /\ db'[n0].id # 0 /\ nextId' # 0
  BY <1>1, <1>3 DEF Save, CalmTable
<1>10. CalmTable'
  BY <1>1, <1>9, ConstantsAssumption DEF CalmTable, Live, HasRow
<1>11. \A n \in Names : k.batch[n].action # "DELETE"
  <2>1. \A n \in Names : l.batch[n].action # "DELETE"
    BY <1>1 DEF CalmLoop
  <2>2. ASSUME NEW n \in Names PROVE k.batch[n].action # "DELETE"
    <3>1. k.batch[n] = IF n = n0 THEN [action |-> "UPSERT", value |-> l.value] ELSE l.batch[n]
      BY <1>5, <1>6, <1>7
    <3> QED
      BY <2>1, <3>1
  <2> QED
    BY <2>2
<1>12. CalmLoop(local[OnDemand])'
  BY <1>1, <1>2, <1>7, <1>8, <1>11 DEF CalmLoop
<1>13. ASSUME l.op = "public ip", Claim(l)
       PROVE  Claim(local[OnDemand])'
  <2>1. /\ AllPublished /\ l.host = 1 /\ l.entries = zone["rem"] /\ l.batch = EmptyBatch
        /\ k.pc = "push"
    BY <1>1, <1>2, <1>7, <1>13 DEF Claim, ApexClaim, CalmLoop
  <2>2. CarriesOrdinary(local[OnDemand].entries)'
    <3> SUFFICES ASSUME NEW n \in Names \ NSNames, Live(n)'
                 PROVE  k.entries[n] = db'[n].value
      BY <1>8 DEF CarriesOrdinary
    <3>1. CASE n = n0
      BY <1>5, <1>6, <1>7, <1>9, <3>1
    <3>2. CASE n # n0
      <4>1. db'[n] = db[n] /\ Published(n)
        BY <1>9, <2>1, <3>2 DEF AllPublished, Live, HasRow
      <4> QED
        BY <1>5, <1>6, <1>7, <2>1, <3>2, <4>1 DEF Published, Shown, Hosts
    <3> QED
      BY <3>1, <3>2
  <2>3. ASSUME NEW n \in Names, Live(n)'
        PROVE  \/ k.batch[n].action = "NONE" /\ route53'[n] = db'[n].value
               \/ k.batch[n].action = "UPSERT" /\ k.batch[n].value = db'[n].value
    <3>1. k.batch[n] = IF n = n0 THEN [action |-> "UPSERT", value |-> l.value] ELSE NoChange
      BY <1>5, <1>6, <1>7, <2>1 DEF EmptyBatch
    <3>2. CASE n = n0
      BY <1>9, <3>1, <3>2
    <3>3. CASE n # n0
      <4>1. db'[n] = db[n] /\ Published(n)
        BY <1>9, <2>1, <2>3, <3>3 DEF AllPublished, Live, HasRow
      <4> QED
        BY <1>1, <3>1, <3>3, <4>1 DEF Published, NoChange
    <3> QED
      BY <3>2, <3>3
  <2>4. \A h \in Hosts : ~PushedTo(k, h)
    BY <1>7, <2>1 DEF PushedTo
  <2>5. Exact(local[OnDemand])'
    BY <1>7, <1>8, <1>13 DEF Exact, InAll
  <2> QED
    BY <1>7, <1>8, <1>13, <2>1, <2>2, <2>3, <2>4, <2>5 DEF Claim, ApexClaim
<1> QED
  BY <1>1, <1>2, <1>7, <1>8, <1>10, <1>12, <1>13 DEF Keeps

\* A client has created the apex record in between: the loop leaves it to the flag.
LEMMA RecordFailsKeeps ==
    ASSUME IInv, UpsertsAlone, SyncInv, RecordFails(OnDemand)
    PROVE  Keeps
<1> DEFINE l == local[OnDemand]
           k == [l EXCEPT !.pc = "returned"]
<1>1. /\ CalmLoop(l) /\ CalmTable /\ l \in Local /\ OnDemand \in Procs
      /\ UNCHANGED <<db, nextId, zone, garbled, route53, onDemandReconcileAll>>
  BY Goroutines DEF SyncInv, Calm, IInv, TypeOK, RecordFails, shared
<1>2. l.pc = "write" /\ l.op \in {"fix", "public ip"}
  BY <1>1 DEF RecordFails, CalmLoop
<1>3. ~CanSave(l.name, l.id) /\ Become(OnDemand, GiveUp(l))
  BY NothingFails DEF RecordFails
<1>4. l.op = "public ip"
  BY <1>1, <1>2, <1>3 DEF CalmLoop, CanSave
<1>5. Become(OnDemand, k)
  BY <1>3, <1>4 DEF GiveUp, BulkOps
<1>6. /\ k.pc = "returned" /\ k.op = l.op /\ k.todo = l.todo /\ k.shallow = l.shallow
      /\ k.hasError = l.hasError /\ k.returnErrors = l.returnErrors
      /\ k.records = l.records /\ k.batch = l.batch
  BY <1>1 DEF Local
<1> HIDE DEF k
<1>7. local'[OnDemand] = k /\ Only(OnDemand)
  BY <1>1, <1>5, Became
<1>8. CalmTable'
  BY <1>1 DEF CalmTable, Live, HasRow
<1>9. CalmLoop(local[OnDemand])'
  BY <1>1, <1>4, <1>6, <1>7 DEF CalmLoop
<1>10. Claim(l) => ApexClaim(l)
  BY <1>4 DEF Claim
<1>11. Claim(l) => ApexClaim(local[OnDemand])'
  BY <1>1, <1>2, <1>6, <1>7, <1>10, ClaimsStay DEF ApexClaim
<1>12. Exact(local[OnDemand])'
  BY <1>4, <1>6, <1>7 DEF Exact, InAll
<1> QED
  BY <1>1, <1>2, <1>4, <1>6, <1>7, <1>8, <1>9, <1>11, <1>12 DEF Keeps, Claim

\* The copies and the change batch leave the session as it is.
LEMMA CopyCalm ==
    ASSUME IInv, SyncInv, Push(OnDemand) \/ Flush(OnDemand)
    PROVE  /\ Only(OnDemand) /\ SameSession(OnDemand) /\ CalmTable'
           /\ local'[OnDemand].hasError = local[OnDemand].hasError
           /\ CalmLoop(local[OnDemand])'
           /\ local[OnDemand].op \in {"fix", "purge", "update", "public ip"}
<1> DEFINE l == local[OnDemand]
<1>1. /\ CalmLoop(l) /\ CalmTable /\ l \in Local /\ OnDemand \in Procs
      /\ UNCHANGED <<db, nextId>> /\ garbled' \subseteq garbled
  BY Goroutines DEF SyncInv, Calm, IInv, TypeOK, Push, Flush, table, files
<1>2. l.pc \in {"push", "flush"}
  BY DEF Push, Flush
<1> DEFINE next == [l EXCEPT !.host = 2]
           last == [l EXCEPT !.pc = "flush", !.host = 1]
           good == [l EXCEPT !.pc = "finished"]
<1>3. \E k \in {next, last, good} : Become(OnDemand, k)
  BY DEF Push, Flush
<1>4. ASSUME NEW k \in {next, last, good}
      PROVE  /\ k.pc \in {"push", "flush", "finished"}
             /\ k.op = l.op /\ k.todo = l.todo /\ k.shallow = l.shallow
             /\ k.hasError = l.hasError /\ k.returnErrors = l.returnErrors
             /\ k.records = l.records /\ k.batch = l.batch /\ k.entries = l.entries
  BY <1>1, <1>2 DEF Local, Push, Flush
<1> HIDE DEF next, last, good
<1>5. PICK k \in {next, last, good} : local'[OnDemand] = k /\ Only(OnDemand)
  BY <1>1, <1>3, Became
<1>6. CalmTable'
  BY <1>1 DEF CalmTable, Live, HasRow
<1>7. l.op \in {"fix", "purge", "update", "public ip"}
  BY <1>1, <1>2 DEF CalmLoop
<1>8. CalmLoop(local[OnDemand])'
  BY <1>1, <1>2, <1>4, <1>5 DEF CalmLoop
<1> QED
  BY <1>1, <1>4, <1>5, <1>6, <1>7, <1>8 DEF SameSession

LEMMA PushKeeps ==
    ASSUME IInv, SyncInv, Push(OnDemand)
    PROVE  Keeps
<1> DEFINE l == local[OnDemand]
           k == local'[OnDemand]
<1>1. /\ Only(OnDemand) /\ SameSession(OnDemand) /\ k.pc \in {"push", "flush"}
      /\ l.pc = "push" /\ UNCHANGED <<db, route53, onDemandReconcileAll>>
      /\ CalmTable' /\ CalmLoop(local[OnDemand])'
  BY CopyCalm, PushReaches, Goroutines DEF Push, table, flags
<1>2. Exact(l) => Exact(local[OnDemand])'
  BY Goroutines, ExactPush DEF SessionExact
<1>3. l.op \in {"fix", "purge", "update", "public ip"} /\ k.op = l.op
  BY <1>1, CopyCalm DEF SameSession
<1>4. ASSUME l.op = "public ip", ApexClaim(l)
      PROVE  ApexClaim(local[OnDemand])'
  <2>1. /\ CarriesOrdinary(l.entries) /\ \A h \in Hosts : PushedTo(l, h) => Shows(zone[h])
    BY <1>1, <1>4 DEF ApexClaim
  <2>2. \A h \in Hosts : PushedTo(k, h) => Shows(zone'[h])
    BY <2>1, Goroutines, PushReaches, Preamble
  <2>3. (\A h \in Hosts : PushedTo(local[OnDemand], h) => Shows(zone[h]))'
    BY <1>1, <2>2 DEF Shows, Live, HasRow
  <2>4. CarriesOrdinary(local[OnDemand].entries)'
    BY <1>1, <2>1 DEF CarriesOrdinary, Live, HasRow, SameSession
  <2> QED
    BY <1>1, <1>4, <2>3, <2>4 DEF ApexClaim, SameSession, Live, HasRow
<1> QED
  BY <1>1, <1>2, <1>3, <1>4 DEF Keeps, Claim

LEMMA FlushKeeps ==
    ASSUME IInv, SyncInv, Flush(OnDemand)
    PROVE  Keeps
<1> DEFINE l == local[OnDemand]
           k == local'[OnDemand]
<1>1. /\ Only(OnDemand) /\ SameSession(OnDemand) /\ k.hasError = l.hasError
      /\ l.pc = "flush" /\ UNCHANGED <<db, zone, onDemandReconcileAll>>
      /\ route53' = ApplyBatch(l.batch)
      /\ CalmTable' /\ CalmLoop(local[OnDemand])'
  BY CopyCalm DEF Flush, table, files, flags
<1>2. Exact(l) => Exact(local[OnDemand])'
  BY Goroutines, ExactFlush DEF SessionExact
<1>3. l.op \in {"fix", "purge", "update", "public ip"} /\ k.op = l.op /\ k.pc = "finished"
  <2>1. l \in Local /\ local \in [Procs -> Local]
    BY Goroutines DEF IInv, TypeOK
  <2>2. k.pc = "finished"
    BY <2>1, Goroutines DEF Flush, Become, Local
  <2> QED
    BY <1>1, <2>2, CopyCalm DEF SameSession
<1>4. ASSUME l.op = "public ip", ApexClaim(l)
      PROVE  ApexClaim(local[OnDemand])'
  <2>1. /\ CarriesOrdinary(l.entries) /\ \A h \in Hosts : PushedTo(l, h) => Shows(zone[h])
    BY <1>1, <1>4 DEF ApexClaim
  <2>2. (\A h \in Hosts : PushedTo(local[OnDemand], h) => Shows(zone[h]))'
    BY <1>1, <1>3, <2>1 DEF Shows, Live, HasRow, PushedTo
  <2>3. CarriesOrdinary(local[OnDemand].entries)'
    BY <1>1, <2>1 DEF CarriesOrdinary, Live, HasRow, SameSession
  <2>4. Carries(route53)'
    BY <1>1, <1>4 DEF ApexClaim, ApplyBatch, Carries, Live, HasRow
  <2> QED
    BY <1>3, <2>2, <2>3, <2>4 DEF ApexClaim
<1> QED
  BY <1>1, <1>2, <1>3, <1>4 DEF Keeps, Claim

\* FixMyself, the read of the table and the two sessions of ReconcileAll.
LEMMA ReconcileKeeps ==
    ASSUME IInv, SyncInv, FixReturns(OnDemand) \/ PurgeReturns(OnDemand) \/ UpdateReturns(OnDemand)
    PROVE  Keeps
<1> DEFINE l == local[OnDemand]
<1>1. /\ CalmLoop(l) /\ CalmTable /\ l \in Local /\ OnDemand \in Procs
      /\ UNCHANGED <<db, nextId, zone, garbled, route53, onDemandReconcileAll>>
      /\ l.pc = "finished" /\ ~l.hasError /\ ~l.returnErrors
  BY Goroutines DEF SyncInv, Calm, CalmLoop, IInv, TypeOK, FixReturns, PurgeReturns,
                    UpdateReturns, shared, At
<1> DEFINE fixed == [l EXCEPT !.pc = "snapshot", !.returnErrors = l.hasError]
           purged == [l EXCEPT !.pc = "connect", !.op = "update",
                               !.returnErrors = @ \/ l.hasError]
           updated == [l EXCEPT !.pc = "returned", !.returnErrors = @ \/ l.hasError]
<1>2. \/ FixReturns(OnDemand) /\ Become(OnDemand, fixed) /\ l.op = "fix"
      \/ PurgeReturns(OnDemand) /\ Become(OnDemand, purged) /\ l.op = "purge"
      \/ UpdateReturns(OnDemand) /\ Become(OnDemand, updated) /\ l.op = "update"
  BY DEF FixReturns, PurgeReturns, UpdateReturns, At
<1>3. ASSUME NEW k \in {fixed, purged, updated}
      PROVE  /\ k.todo = l.todo /\ k.shallow = l.shallow /\ k.hasError = l.hasError
             /\ ~k.returnErrors /\ k.records = l.records /\ k.batch = l.batch
  BY <1>1 DEF Local
<1>4. /\ fixed.op = l.op /\ fixed.pc = "snapshot"
      /\ purged.op = "update" /\ purged.pc = "connect"
      /\ updated.op = l.op /\ updated.pc = "returned"
  BY <1>1 DEF Local
<1> HIDE DEF fixed, purged, updated
<1>5. CalmTable'
  BY <1>1 DEF CalmTable, Live, HasRow
<1>6. CASE FixReturns(OnDemand) /\ Become(OnDemand, fixed) /\ l.op = "fix"
  <2>1. local'[OnDemand] = fixed /\ Only(OnDemand)
    BY <1>1, <1>6, Became
  <2>2. CalmLoop(local[OnDemand])'
    BY <1>1, <1>3, <1>4, <1>6, <2>1 DEF CalmLoop
  <2> QED
    BY <1>1, <1>4, <1>5, <1>6, <2>1, <2>2 DEF Keeps
<1>7. CASE PurgeReturns(OnDemand) /\ Become(OnDemand, purged) /\ l.op = "purge"
  <2>1. local'[OnDemand] = purged /\ Only(OnDemand)
    BY <1>1, <1>7, Became
  <2>2. CalmLoop(local[OnDemand])'
    BY <1>1, <1>3, <1>4, <2>1 DEF CalmLoop
  <2>3. Exact(l) => Exact(local[OnDemand])'
    BY <1>1, <1>7, ExactReturns DEF SessionExact
  <2> QED
    BY <1>1, <1>4, <1>5, <1>7, <2>1, <2>2, <2>3 DEF Keeps, Claim
<1>8. CASE UpdateReturns(OnDemand) /\ Become(OnDemand, updated) /\ l.op = "update"
  <2>1. local'[OnDemand] = updated /\ Only(OnDemand)
    BY <1>1, <1>8, Became
  <2>2. CalmLoop(local[OnDemand])'
    BY <1>1, <1>3, <1>4, <1>8, <2>1 DEF CalmLoop
  <2>3. Exact(l) => Exact(local[OnDemand])'
    BY <1>1, <1>8, ExactReturns DEF SessionExact
  <2> QED
    BY <1>1, <1>4, <1>5, <1>8, <2>1, <2>2, <2>3 DEF Keeps, Claim
<1> QED
  BY <1>2, <1>6, <1>7, <1>8

\* The read itself: from here on the loop claims, whatever is pending besides.
LEMMA SnapshotSync ==
    ASSUME IInv, SyncInv, Snapshot(OnDemand)
    PROVE  LoopSync
<1> DEFINE l == local[OnDemand]
           k == [l EXCEPT !.pc = "connect", !.op = "purge", !.records = db]
<1>1. /\ CalmLoop(l) /\ CalmTable /\ l \in Local /\ OnDemand \in Procs
      /\ db \in [Names -> Row]
      /\ UNCHANGED <<db, nextId, zone, garbled, route53>>
  BY Goroutines DEF SyncInv, Calm, IInv, TypeOK, Snapshot, shared
<1>2. /\ Become(OnDemand, k)
      /\ k.op = "purge" /\ k.pc = "connect" /\ k.records = db /\ k.batch = l.batch
      /\ k.shallow = l.shallow /\ k.hasError = l.hasError /\ k.returnErrors = l.returnErrors
  BY <1>1 DEF Snapshot, Local
<1> HIDE DEF k
<1>3. local'[OnDemand] = k /\ Only(OnDemand)
  BY <1>1, <1>2, Became
<1>4. CalmTable'
  BY <1>1 DEF CalmTable, Live, HasRow
<1>5. CalmLoop(local[OnDemand])'
  BY <1>1, <1>2, <1>3 DEF CalmLoop, CalmTable
<1>6. Exact(local[OnDemand])'
  BY <1>1, <1>2, <1>3 DEF Exact, TableRead, Purging
<1> QED
  BY <1>2, <1>3, <1>4, <1>5, <1>6 DEF LoopSync, Claim

LEMMA OpenAllKeeps ==
    ASSUME IInv, SyncInv, OpenPurgeSession(OnDemand) \/ OpenUpdateSession(OnDemand)
    PROVE  Keeps
<1> DEFINE l == local[OnDemand]
<1>1. /\ CalmLoop(l) /\ CalmTable /\ l \in Local /\ OnDemand \in Procs
      /\ UNCHANGED <<db, nextId, zone, garbled, route53, onDemandReconcileAll>>
      /\ l.pc = "connect"
  BY Goroutines DEF SyncInv, Calm, CalmLoop, IInv, TypeOK, OpenPurgeSession,
                    OpenUpdateSession, shared, At
<1>2. CalmTable'
  BY <1>1 DEF CalmTable, Live, HasRow
<1>3. Exact(l) => Exact(local[OnDemand])'
  BY <1>1, ExactOpen DEF SessionExact
<1>4. CASE OpenPurgeSession(OnDemand)
  <2> DEFINE gone == {n \in Names : l.records[n].id # 0 /\ l.records[n].deleted}
             k == [l EXCEPT
                   !.entries = CoreDNSDelete(zone["rem"], gone),
                   !.batch = Route53Delete(EmptyBatch, {}),
                   !.shallow = FALSE, !.hasError = FALSE, !.host = 1, !.pc = "push",
                   !.todo = {}, !.returnErrors = @ \/ {} # {}]
  <2>1. gone = {} /\ l.op = "purge"
    BY <1>1, <1>4 DEF CalmLoop, OpenPurgeSession, At
  <2>2. Become(OnDemand, k)
    <3>1. \A u \in SUBSET gone : u = {} /\ gone \ u = {}
      BY <2>1
    <3> QED
      BY <1>4, <3>1 DEF OpenPurgeSession
  <2> HIDE DEF gone
  <2>3. /\ k.op = "purge" /\ k.pc = "push" /\ k.todo = {} /\ k.records = l.records
        /\ ~k.shallow /\ ~k.hasError /\ k.returnErrors = l.returnErrors
        /\ k.batch = Route53Delete(EmptyBatch, {})
    BY <1>1, <2>1 DEF Local
  <2> HIDE DEF k
  <2>4. local'[OnDemand] = k /\ Only(OnDemand)
    BY <1>1, <2>2, Became
  <2>5. \A n \in Names : Route53Delete(EmptyBatch, {})[n].action # "DELETE"
    BY DEF Route53Delete, EmptyBatch, NoChange
  <2>6. CalmLoop(local[OnDemand])'
    BY <1>1, <2>3, <2>4, <2>5 DEF CalmLoop
  <2> QED
    BY <1>1, <1>2, <1>3, <2>1, <2>3, <2>4, <2>6 DEF Keeps, Claim
<1>5. CASE OpenUpdateSession(OnDemand)
  <2> DEFINE kept == {n \in Names : l.records[n].id # 0 /\ ~l.records[n].deleted}
             values == [n \in kept |-> l.records[n].value]
             k == [l EXCEPT
                   !.entries = CoreDNSUpsert(zone["rem"], values),
                   !.batch = Route53Upsert(EmptyBatch, values),
                   !.shallow = FALSE, !.hasError = FALSE, !.host = 1, !.pc = "push",
                   !.todo = {}]
  <2>1. Become(OnDemand, k) /\ l.op = "update"
    BY <1>5 DEF OpenUpdateSession, At
  <2>2. \A n \in Names : Route53Upsert(EmptyBatch, values)[n].action # "DELETE"
    BY DEF Route53Upsert, EmptyBatch, NoChange
  <2> HIDE DEF values
  <2>3. /\ k.op = "update" /\ k.pc = "push" /\ k.records = l.records
        /\ ~k.shallow /\ ~k.hasError /\ k.returnErrors = l.returnErrors
        /\ k.batch = Route53Upsert(EmptyBatch, values)
    BY <1>1, <2>1 DEF Local
  <2> HIDE DEF k
  <2>4. local'[OnDemand] = k /\ Only(OnDemand)
    BY <1>1, <2>1, Became
  <2>5. CalmLoop(local[OnDemand])'
    BY <1>1, <2>2, <2>3, <2>4 DEF CalmLoop
  <2> QED
    BY <1>1, <1>2, <1>3, <2>1, <2>3, <2>4, <2>5 DEF Keeps, Claim
<1> QED
  BY <1>4, <1>5

\* What the loop claims when it has nothing left to copy.
LEMMA ReturnedPublished ==
    ASSUME SyncInv, Claim(local[OnDemand]), local[OnDemand].pc = "returned"
    PROVE  AllPublished
<1>1. CalmLoop(local[OnDemand]) /\ OnDemand \in Procs
  BY Goroutines DEF SyncInv, Calm
<1>2. CASE local[OnDemand].op = "update"
  BY <1>1, <1>2, ExactReturned DEF Claim, CalmLoop, At, AllPublished
<1>3. CASE local[OnDemand].op = "public ip"
  BY <1>3 DEF Claim, ApexClaim
<1> QED
  BY <1>1, <1>2, <1>3 DEF CalmLoop

\* ReconcilePublicIP begins and returns, the loop waits for its next tick.
LEMMA EndKeeps ==
    ASSUME IInv, UpsertsAlone, SyncInv,
           PublicIP(OnDemand) \/ PublicIPReturns(OnDemand) \/ LoopEnds(OnDemand)
    PROVE  Keeps
<1> DEFINE l == local[OnDemand]
<1>1. /\ CalmLoop(l) /\ CalmTable /\ l \in Local /\ OnDemand \in Procs
      /\ UNCHANGED <<db, nextId, zone, garbled, route53, onDemandReconcileAll>>
  BY Goroutines DEF SyncInv, Calm, IInv, TypeOK, PublicIP, PublicIPReturns, LoopEnds, shared,
                    table, external, files
<1>2. CalmTable'
  BY <1>1 DEF CalmTable, Live, HasRow
<1>3. AllPublished => AllPublished'
  BY <1>1, ClaimsStay
<1>4. CASE PublicIP(OnDemand)
  <2> DEFINE k(v) == [IdleLocal EXCEPT !.pc = "connect", !.op = "public ip",
                                       !.names = ApexNames, !.todo = ApexNames, !.value = v]
  <2>1. l.pc = "returned" /\ l.op \in ReconcileOps
    BY <1>4 DEF PublicIP, At
  <2>2. PICK v \in PublicAddresses : Become(OnDemand, k(v))
    BY <1>4, NothingFails DEF PublicIP
  <2>3. /\ k(v).op = "public ip" /\ k(v).pc = "connect" /\ k(v).todo = ApexNames
        /\ k(v).host = 1 /\ ~k(v).shallow /\ ~k(v).hasError /\ ~k(v).returnErrors
        /\ k(v).records = [n \in Names |-> ZeroRow] /\ k(v).batch = EmptyBatch
    BY DEF IdleLocal
  <2> HIDE DEF k
  <2>4. local'[OnDemand] = k(v) /\ Only(OnDemand)
    BY <1>1, <2>2, Became
  <2>5. \A n \in Names : ~ZeroRow.deleted /\ EmptyBatch[n].action # "DELETE"
    BY DEF ZeroRow, EmptyBatch, NoChange
  <2>6. CalmLoop(local[OnDemand])'
    BY <2>3, <2>4, <2>5 DEF CalmLoop
  <2>7. Claim(l) => Claim(local[OnDemand])'
    BY <1>3, <2>1, <2>3, <2>4, ReturnedPublished DEF Claim, ApexClaim, Exact, InAll
  <2>8. l.op # "fix"
    BY <1>1, <2>1 DEF CalmLoop
  <2> QED
    BY <1>1, <1>2, <2>1, <2>4, <2>6, <2>7, <2>8 DEF Keeps
<1>5. CASE PublicIPReturns(OnDemand)
  <2> DEFINE k == [l EXCEPT !.pc = "returned"]
  <2>1. /\ Become(OnDemand, k) /\ l.pc = "finished" /\ l.op = "public ip"
        /\ k.pc = "returned" /\ k.op = l.op /\ k.todo = l.todo
        /\ k.shallow = l.shallow /\ k.hasError = l.hasError
        /\ k.returnErrors = l.returnErrors /\ k.records = l.records /\ k.batch = l.batch
    BY <1>1, <1>5 DEF PublicIPReturns, At, Local
  <2> HIDE DEF k
  <2>2. local'[OnDemand] = k /\ Only(OnDemand)
    BY <1>1, <2>1, Became
  <2>3. CalmLoop(local[OnDemand])'
    BY <1>1, <2>1, <2>2 DEF CalmLoop
  <2>4. ASSUME Claim(l) PROVE Claim(local[OnDemand])'
    <3>1. /\ \A h \in Hosts : PushedTo(l, h) => Shows(zone[h])
          /\ Carries(route53)
      BY <2>1, <2>4 DEF Claim, ApexClaim
    <3>2. \A h \in Hosts : h \notin garbled /\ Shows(zone[h])
      BY <1>1, <2>1, <3>1 DEF PushedTo, CalmLoop, CalmTable
    <3>3. AllPublished
      BY <3>1, <3>2 DEF AllPublished, Published, Carries, Shows
    <3> QED
      BY <1>3, <2>1, <2>2, <3>3 DEF Claim, ApexClaim, Exact, InAll
  <2> QED
    BY <1>1, <1>2, <2>1, <2>2, <2>3, <2>4 DEF Keeps
<1>6. CASE LoopEnds(OnDemand)
  <2>1. /\ l.pc = "returned" /\ local'[OnDemand] = IdleLocal /\ Only(OnDemand)
    BY <1>1, <1>6, Became DEF LoopEnds
  <2>2. /\ IdleLocal.op = "none" /\ IdleLocal.pc = "idle" /\ ~IdleLocal.shallow
        /\ ~IdleLocal.hasError /\ ~IdleLocal.returnErrors
        /\ \A n \in Names : ~IdleLocal.records[n].deleted /\ IdleLocal.batch[n].action # "DELETE"
    BY DEF IdleLocal, ZeroRow, EmptyBatch, NoChange
  <2>3. CalmLoop(local[OnDemand])'
    BY <2>1, <2>2 DEF CalmLoop
  <2>4. Claim(l) => Claim(local[OnDemand])'
    BY <1>3, <2>1, <2>2, ReturnedPublished DEF Claim, Exact, InAll
  <2>5. l.op # "fix"
    BY <1>1, <2>1 DEF CalmLoop
  <2> QED
    BY <1>1, <1>2, <2>1, <2>3, <2>4, <2>5 DEF Keeps
<1> QED
  BY <1>4, <1>5, <1>6

-----------------------------------------------------------------------------
LEMMA SyncInit ==
    ASSUME UpsertsAlone, Init
    PROVE  SyncInv
<1>1. /\ local[OnDemand] = IdleLocal /\ local[Scheduled].pc = "off"
      /\ \A c \in Clients : local[c] = IdleLocal
  BY Goroutines DEF Init, Booted, UpsertsAlone, IdleLocal
<1>2. CalmTable
  BY ConstantsAssumption DEF Init, CalmTable, Live, HasRow, ZeroRow
<1>3. /\ IdleLocal.op = "none" /\ IdleLocal.pc = "idle" /\ ~IdleLocal.shallow
      /\ ~IdleLocal.hasError /\ ~IdleLocal.returnErrors
      /\ \A n \in Names : ~IdleLocal.records[n].deleted /\ IdleLocal.batch[n].action # "DELETE"
  BY DEF IdleLocal, ZeroRow, EmptyBatch, NoChange
<1>4. Calm
  BY <1>1, <1>2, <1>3 DEF Calm, CalmLoop, CalmClient
<1>5. AllPublished
  BY ConstantsAssumption DEF Init, AllPublished, Published, Shown, Hosts, Live, HasRow, ZeroRow
<1>6. Claim(local[OnDemand])
  BY <1>1, <1>3, <1>5 DEF Claim, Exact, InAll
<1> QED
  BY <1>4, <1>6 DEF SyncInv

LEMMA SyncNext ==
    ASSUME UpsertsAlone, IInv, SyncInv, [Next]_vars
    PROVE  SyncInv'
<1>1. ASSUME NEW c \in Clients, Step(c) \/ Arrive(c)
      PROVE  SyncInv'
  BY <1>1, ClientNext, ClientStepSync
<1>2. CASE Step(OnDemand)
  <2>1. LoopSync
    BY <1>2, LoopActions, TickSync, OpenKeeps, LookupKeeps, WriteKeeps, RecordFailsKeeps,
       PushKeeps, FlushKeeps, ReconcileKeeps, SnapshotSync, OpenAllKeeps, EndKeeps, KeepsSync
  <2> QED
    BY <2>1, LoopStepSync
<1>3. ~Step(Scheduled)
  <2>1. local[Scheduled].pc = "off"
    BY DEF SyncInv, Calm
  <2>2. ~SessionStep(Scheduled)
    BY <2>1 DEF SessionStep, OpenSession, OpenPurgeSession, OpenUpdateSession, SessionFails,
                Lookup, UpsertWrite, DeleteWrite, DeleteList, RecordFails, Push, PushFails,
                Flush, FlushFails, At
  <2>3. ~ReconcileStep(Scheduled)
    BY <2>1 DEF ReconcileStep, FixReturns, Snapshot, SnapshotFails, PurgeRow, PurgeReturns,
                UpdateReturns, PublicIP, PublicIPReturns, LoopEnds, Panic, EndsInPanic, At
  <2>4. ~Tick(Scheduled) /\ ~Respond(Scheduled) /\ ~RefreshReply(Scheduled)
    BY <2>1, Goroutines DEF Tick, ScheduledTick, Respond, RefreshReply, At
  <2> QED
    BY <2>2, <2>3, <2>4 DEF Step
<1>4. ~Crash
  BY NothingFails
<1>5. CASE UNCHANGED vars
  <2>1. UNCHANGED <<db, nextId, zone, garbled, route53, onDemandReconcileAll, local>>
    BY <1>5 DEF vars, shared
  <2>2. Calm' /\ (Pending' <=> Pending)
    BY <2>1 DEF SyncInv, Calm, CalmTable, CalmLoop, CalmClient, Live, HasRow, Pending, AboutToAsk
  <2>3. Exact(local[OnDemand])' = Exact(local[OnDemand])
    BY <2>1 DEF Exact, TableRead, Purging, Updating
  <2>4. ApexClaim(local[OnDemand])' = ApexClaim(local[OnDemand])
    BY <2>1, ClaimsStay DEF ApexClaim, Live, HasRow
  <2> QED
    BY <2>1, <2>2, <2>3, <2>4, ClaimsStay DEF SyncInv, Claim
<1> QED
  BY <1>1, <1>2, <1>3, <1>4, <1>5 DEF Next, Procs, Loops

LEMMA SyncSettled ==
    ASSUME SyncInv
    PROVE  SettledPublished
<1> SUFFICES ASSUME Settled PROVE AllPublished
  BY DEF SettledPublished, AllPublished
<1>1. /\ CalmLoop(local[OnDemand]) /\ \A c \in Clients : CalmClient(local[c])
      /\ ~onDemandReconcileAll /\ \A p \in Procs : local[p].pc \in {"idle", "off"}
  BY DEF SyncInv, Calm, Settled
<1>2. local[OnDemand].op = "none" /\ local[OnDemand].pc # "clear flag"
  BY <1>1, Goroutines DEF CalmLoop
<1>3. ~Pending
  BY <1>1, <1>2, Goroutines DEF Pending, AboutToAsk
<1> QED
  BY <1>2, <1>3 DEF SyncInv, Claim

\* For any number of clients, names and values, any addresses of the WAN interface,
\* and with or without the apex record: where clients only upsert, nothing fails and
\* the scheduled loop is off, there is no order of the clients' writes and the
\* on-demand loop's reads and copies after which everything is quiet and a record in
\* the table is not in Route53 and on both CoreDNS hosts (an NS record: in Route53
\* alone, since every Save drops it from the zone file) as the table has it.
THEOREM UpsertsSettle == UpsertsAlone => (Spec => []SettledPublished)
<1> SUFFICES ASSUME UpsertsAlone PROVE Spec => []SettledPublished
  OBVIOUS
<1>1. Init => SyncInv
  BY SyncInit
<1>2. IInv /\ SyncInv /\ [Next]_vars => SyncInv'
  BY SyncNext
<1>3. SyncInv => SettledPublished
  BY SyncSettled
<1> QED
  BY <1>1, <1>2, <1>3, Invariance, PTL DEF Spec

=============================================================================
