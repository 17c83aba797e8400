-------------------------- MODULE ReconcileProofs --------------------------
(* What a ReconcileAll achieves when nothing interferes with it, for every *)
(* value of the constants of Shimiko: ReconcileExact, PurgedIsGone.        *)
EXTENDS ShimikoProofs

InAll(l) == l.op \in {"purge", "update"}

\* The two sessions of ReconcileAll go through no record one by one.
Placed(l) ==
    InAll(l) => l.pc \in {"connect", "push", "flush", "finished", "returned"}

\* What the copy of the table says of a record.
Gone(l, n) == l.records[n].id # 0 /\ l.records[n].deleted
Kept(l, n) == l.records[n].id # 0 /\ ~l.records[n].deleted

\* The copy is the table, but for what has been purged from it since.
TableRead(l) ==
    \A n \in Names : db[n] = l.records[n] \/ (Gone(l, n) /\ db[n] = ZeroRow)

Without(l, z) == \A n \in Names : Gone(l, n) => z[n] = Absent
With(l, z) == \A n \in Names : Kept(l, n) => z[n] = l.records[n].value
InFile(l, z) == \A n \in Names : Kept(l, n) => z[n] = Shown(n, l.records[n].value)

\* The session has copied its zone file to the host.
PushedTo(l, h) ==
    \/ l.pc = "push" /\ h = "rem" /\ l.host = 2
    \/ l.pc \in {"flush", "finished", "returned"} /\ ~l.hasError

Purging(l) ==
    /\ l.pc = "connect" => db = l.records
    /\ l.pc # "connect" => /\ \A n \in l.todo : Gone(l, n)
                           /\ Without(l, l.entries)
                           /\ \A h \in Hosts : PushedTo(l, h) => Without(l, zone[h])

Updating(l) ==
    /\ \A h \in Hosts : Without(l, zone[h])
    /\ l.pc # "connect" =>
         /\ Without(l, l.entries) /\ With(l, l.entries)
         /\ \A n \in Names : Kept(l, n) =>
              l.batch[n].action = "UPSERT" /\ l.batch[n].value = l.records[n].value
         /\ \A h \in Hosts : PushedTo(l, h) => h \notin garbled /\ InFile(l, zone[h])
         /\ l.pc \in {"finished", "returned"} /\ ~l.hasError => With(l, route53)
    /\ l.pc = "returned" => ~l.hasError

\* As long as no error has been noted, every part of ReconcileAll has done its work.
Exact(l) ==
    ~l.returnErrors =>
        /\ InAll(l) => TableRead(l)
        /\ l.op = "purge" => Purging(l)
        /\ l.op = "update" => Updating(l)

\* What the purge will delete for good is out of its zone file, and of those copied to:
\* this whatever errors have been noted before.
Cleaned(l) ==
    l.op = "purge" /\ l.pc \in {"push", "flush", "finished"} =>
        \A n \in l.todo \cap Names :
            /\ l.entries[n] = Absent
            /\ \A h \in Hosts : PushedTo(l, h) => zone[h][n] = Absent

ExactInv ==
    \A p \in Procs : /\ Placed(local[p])
                     /\ alone[p] => Exact(local[p]) /\ Cleaned(local[p])

-----------------------------------------------------------------------------
\* A step of p is interference for everyone else, so only p is left to look at.
LEMMA ExactStep ==
    ASSUME IInv, ExactInv, NEW p \in Procs, Only(p), Observe(p),
           Placed(local'[p]), alone'[p] => Exact(local[p])' /\ Cleaned(local[p])'
    PROVE  ExactInv'
<1>1. ASSUME NEW q \in Procs, q # p PROVE Placed(local'[q]) /\ ~alone'[q]
  BY <1>1 DEF Only, Observe, ExactInv
<1> QED
  BY <1>1 DEF ExactInv, Placed, InAll

\* Nothing is claimed of a goroutine that is outside of ReconcileAll's sessions.
LEMMA OutsideStep ==
    ASSUME IInv, ExactInv, NEW p \in Procs, NEW l, Become(p, l), Observe(p), ~InAll(l)
    PROVE  ExactInv'
<1>1. local'[p] = l /\ Only(p)
  BY Became
<1> QED
  BY <1>1, ExactStep DEF Placed, Exact, InAll, Cleaned

LEMMA StaysAlone ==
    ASSUME NEW p \in Procs, Observe(p), local[p].pc # "snapshot", alone'[p]
    PROVE  alone[p]
BY DEF Observe

-----------------------------------------------------------------------------
(* The steps outside of the sessions of ReconcileAll.                      *)

LEMMA OutsideRecords ==
    ASSUME IInv, ExactInv, NEW p \in Procs, Observe(p),
           \/ OpenSession(p) \/ Lookup(p) \/ UpsertWrite(p)
           \/ DeleteWrite(p) \/ DeleteList(p) \/ RecordFails(p)
    PROVE  ExactInv'
<1>1. local[p] \in Local
  BY DEF IInv, TypeOK
<1>2. ~InAll(local[p])
  BY DEF OpenSession, Lookup, UpsertWrite, DeleteWrite, DeleteList, RecordFails, At,
         SessionOps, DeleteOps, ExactInv, Placed, InAll
<1>3. CASE OpenSession(p) \/ DeleteWrite(p)
  <2>1. CASE OpenSession(p)
    <3>1. PICK failed \in BOOLEAN : Become(p, [local[p] EXCEPT
                !.entries = zone["rem"], !.batch = EmptyBatch, !.pc = "lookup",
                !.shallow = /\ local[p].op \in {"upsert", "bulk upsert"}
                            /\ \A t \in local[p].todo : ExistsInDB(t),
                !.hasError = failed])
      BY <2>1 DEF OpenSession
    <3> DEFINE l == [local[p] EXCEPT
                !.entries = zone["rem"], !.batch = EmptyBatch, !.pc = "lookup",
                !.shallow = /\ local[p].op \in {"upsert", "bulk upsert"}
                            /\ \A t \in local[p].todo : ExistsInDB(t),
                !.hasError = failed]
    <3>2. Become(p, l) /\ l.op = local[p].op
      BY <1>1, <3>1 DEF Local
    <3> HIDE DEF l
    <3> QED
      BY <1>2, <3>2, OutsideStep DEF InAll
  <2>2. CASE DeleteWrite(p)
    <3> DEFINE l == [local[p] EXCEPT !.pc = "list",
                                     !.entries = CoreDNSDelete(@, {local[p].name})]
    <3>1. Become(p, l) /\ l.op = local[p].op
      BY <1>1, <2>2 DEF DeleteWrite, Local
    <3> HIDE DEF l
    <3> QED
      BY <1>2, <3>1, OutsideStep DEF InAll
  <2> QED
    BY <1>3, <2>1, <2>2
<1>4. CASE Lookup(p)
  <2>1. PICK t \in local[p].todo, row \in Row :
          LET l == [local[p] EXCEPT !.todo = @ \ {t}]
          IN Become(p, IF l.op = "fix" /\ row.id = 0 THEN GiveUp(l)
                       ELSE [l EXCEPT !.name = t, !.id = row.id, !.pc = "write"])
    BY <1>4, LookedUpType DEF Lookup, IInv
  <2> DEFINE l == [local[p] EXCEPT !.todo = @ \ {t}]
             found == [l EXCEPT !.name = t, !.id = row.id, !.pc = "write"]
  <2>2. l \in Local /\ l.op = local[p].op /\ found.op = local[p].op
    BY <1>1 DEF Local
  <2>3. GiveUp(l).op \in {local[p].op, "none"}
    BY <2>2, OpKept
  <2>4. Become(p, GiveUp(l)) \/ Become(p, found)
    BY <2>1
  <2>5. found.op = local[p].op
    BY <2>2
  <2> HIDE DEF l, found
  <2> QED
    BY <1>2, <2>3, <2>4, <2>5, OutsideStep DEF InAll
<1>5. CASE UpsertWrite(p) \/ DeleteList(p) \/ RecordFails(p)
  <2>1. PICK k : /\ k.op = local[p].op /\ k \in Local
                 /\ Become(p, Continue(k)) \/ Become(p, GiveUp(k))
    <3>1. CASE RecordFails(p)
      BY <1>1, <3>1 DEF RecordFails
    <3>2. CASE UpsertWrite(p)
      <4> DEFINE values == [n \in {local[p].name} |-> local[p].value]
                 saved == IF local[p].shallow THEN local[p]
                          ELSE [local[p] EXCEPT !.entries = CoreDNSUpsert(@, values),
                                                !.batch = Route53Upsert(@, values)]
      <4>1. values \in [{local[p].name} -> MaybeValue]
        BY <1>1 DEF Local
      <4>2. /\ CoreDNSUpsert(local[p].entries, values) \in Zone
            /\ Route53Upsert(local[p].batch, values) \in Batch
        BY <1>1, <4>1, CoreDNSUpsertType, Route53UpsertType DEF Local
      <4>3. Become(p, Continue(saved))
        BY <3>2 DEF UpsertWrite
      <4> HIDE DEF values
      <4>4. saved \in Local /\ saved.op = local[p].op
        BY <1>1, <4>2 DEF Local
      <4> QED
        BY <4>3, <4>4
    <3>3. CASE DeleteList(p)
      <4> DEFINE k == [local[p] EXCEPT !.batch = Route53Delete(@, {local[p].name})]
      <4>1. Route53Delete(local[p].batch, {local[p].name}) \in Batch
        BY <1>1, Route53DeleteType DEF Local, IInv, TypeOK
      <4>2. k \in Local /\ k.op = local[p].op
        BY <1>1, <4>1 DEF Local
      <4>3. Become(p, Continue(k))
        BY <3>3 DEF DeleteList
      <4> QED
        BY <4>2, <4>3
    <3> QED
      BY <1>5, <3>1, <3>2, <3>3
  <2> QED
    BY <1>2, <2>1, OpKept, OutsideStep DEF InAll
<1> QED
  BY <1>3, <1>4, <1>5

LEMMA OutsideLoops ==
    ASSUME IInv, ExactInv, NEW p \in Procs, Observe(p),
           \/ FixReturns(p) \/ SnapshotFails(p) \/ PublicIP(p) \/ PublicIPReturns(p)
           \/ LoopEnds(p) \/ Tick(p) \/ Respond(p) \/ RefreshReply(p)
           \/ p \in Clients /\ (Request(p) \/ Refresh(p))
    PROVE  ExactInv'
<1>1. local[p] \in Local /\ Addressed(local[p])
  BY DEF IInv, TypeOK
<1>2. CASE FixReturns(p)
  <2> DEFINE l == [local[p] EXCEPT !.pc = "snapshot", !.returnErrors = local[p].hasError]
  <2>1. Become(p, l) /\ l.op = "fix"
    BY <1>1, <1>2 DEF FixReturns, At, Local
  <2> HIDE DEF l
  <2> QED
    BY <2>1, OutsideStep DEF InAll
<1>3. CASE SnapshotFails(p)
  <2> DEFINE l == [local[p] EXCEPT !.pc = "returned", !.returnErrors = TRUE]
  <2>1. Become(p, l) /\ l.op = "fix"
    BY <1>1, <1>3 DEF SnapshotFails, Addressed, Local
  <2> HIDE DEF l
  <2> QED
    BY <2>1, OutsideStep DEF InAll
<1>4. CASE PublicIPReturns(p)
  <2> DEFINE l == [local[p] EXCEPT !.pc = "returned"]
  <2>1. Become(p, l) /\ l.op = "public ip"
    BY <1>1, <1>4 DEF PublicIPReturns, At, Local
  <2> HIDE DEF l
  <2> QED
    BY <2>1, OutsideStep DEF InAll
<1>5. CASE PublicIP(p)
  <2> DEFINE fails == [local[p] EXCEPT !.op = "public ip"]
             asks(v) == [IdleLocal EXCEPT !.pc = "connect", !.op = "public ip",
                                   !.names = ApexNames, !.todo = ApexNames, !.value = v]
  <2>1. Become(p, fails) \/ \E v : Become(p, asks(v))
    BY <1>5 DEF PublicIP
  <2>2. fails.op = "public ip" /\ \A v : asks(v).op = "public ip"
    BY <1>1 DEF IdleLocal, Local
  <2> HIDE DEF fails, asks
  <2> QED
    BY <2>1, <2>2, OutsideStep DEF InAll
<1>6. CASE \/ LoopEnds(p) \/ Tick(p) \/ Respond(p) \/ RefreshReply(p)
           \/ p \in Clients /\ Refresh(p)
  <2> DEFINE clear == [IdleLocal EXCEPT !.pc = "clear flag"]
  <2>1. Become(p, IdleLocal) \/ Become(p, Reconciling) \/ Become(p, clear)
    BY <1>6 DEF LoopEnds, Tick, OnDemandTick, OnDemandClear, ScheduledTick, Respond,
                RefreshReply, Refresh
  <2>2. ~InAll(IdleLocal) /\ ~InAll(Reconciling) /\ ~InAll(clear)
    BY DEF Reconciling, IdleLocal, InAll
  <2> HIDE DEF clear
  <2> QED
    BY <2>1, <2>2, OutsideStep
<1>7. CASE p \in Clients /\ Request(p)
  <2> DEFINE l(o, v, T) == [IdleLocal EXCEPT !.pc = "connect", !.op = o,
                                !.names = T, !.todo = T,
                                !.value = IF o \in DeleteOps THEN Absent ELSE v]
  <2>1. PICK o \in RequestOps, v \in Values, T \in SUBSET Targets : Become(p, l(o, v, T))
    BY <1>7, ConstantsAssumption DEF Request, Targets
  <2>2. l(o, v, T).op = o
    BY DEF IdleLocal
  <2> HIDE DEF l
  <2> QED
    BY <2>1, <2>2, OutsideStep DEF InAll, RequestOps
<1> QED
  BY <1>2, <1>3, <1>4, <1>5, <1>6, <1>7

-----------------------------------------------------------------------------
(* The steps of the sessions.                                              *)

\* What is shown of each: it keeps what its ReconcileAll has achieved.
SessionExact(p) ==
    /\ Only(p) /\ Placed(local'[p])
    /\ Exact(local[p]) => Exact(local[p])'
    /\ Cleaned(local[p]) => Cleaned(local[p])'

LEMMA ExactSnapshot ==
    ASSUME IInv, ExactInv, NEW p \in Procs, Observe(p), Snapshot(p)
    PROVE  ExactInv'
<1> DEFINE l == [local[p] EXCEPT !.pc = "connect", !.op = "purge", !.records = db]
<1>1. Become(p, l) /\ l.pc = "connect" /\ l.op = "purge" /\ l.records = db
  BY DEF Snapshot, IInv, TypeOK, Local
<1>2. UNCHANGED <<db, zone, garbled, route53>>
  BY DEF Snapshot, shared
<1> HIDE DEF l
<1>3. local'[p] = l /\ Only(p)
  BY <1>1, Became
<1> QED
  BY <1>1, <1>2, <1>3, ExactStep DEF Placed, InAll, Exact, TableRead, Purging, Cleaned

\* A part that notes an error has no more to show.
LEMMA ExactError ==
    ASSUME IInv, ExactInv, NEW p \in Procs, Observe(p), SessionFails(p)
    PROVE  ExactInv'
<1>1. local[p] \in Local
  BY DEF IInv, TypeOK
<1>2. CASE InAll(local[p])
  <2> DEFINE l == [local[p] EXCEPT !.pc = "returned", !.returnErrors = TRUE]
  <2>1. Become(p, l) /\ l.pc = "returned" /\ l.returnErrors /\ l.op = local[p].op
    BY <1>1, <1>2 DEF SessionFails, InAll, Local
  <2> HIDE DEF l
  <2>2. local'[p] = l /\ Only(p)
    BY <2>1, Became
  <2> QED
    BY <2>1, <2>2, ExactStep DEF Placed, Exact, Cleaned
<1>3. CASE ~InAll(local[p])
  <2> DEFINE fix == [local[p] EXCEPT !.pc = "snapshot", !.returnErrors = TRUE]
             ip == [local[p] EXCEPT !.pc = "returned"]
  <2>1. Become(p, fix) \/ Become(p, ip) \/ Become(p, IdleLocal)
    BY <1>3 DEF SessionFails, InAll
  <2>2. ~InAll(fix) /\ ~InAll(ip) /\ ~InAll(IdleLocal)
    BY <1>1, <1>3 DEF InAll, IdleLocal, Local
  <2> HIDE DEF fix, ip
  <2> QED
    BY <2>1, <2>2, OutsideStep
<1> QED
  BY <1>2, <1>3

LEMMA ExactOpen ==
    ASSUME IInv, NEW p \in Procs,
           OpenPurgeSession(p) \/ OpenUpdateSession(p)
    PROVE  SessionExact(p)
<1>1. local[p] \in Local /\ zone \in [Hosts -> Zone] /\ "rem" \in Hosts
  BY DEF IInv, TypeOK, Hosts
<1>2. UNCHANGED <<db, zone, garbled, route53>> /\ local[p].pc = "connect"
  BY DEF OpenPurgeSession, OpenUpdateSession, shared, At
<1>4. CASE OpenPurgeSession(p)
  <2> DEFINE gone == {n \in Names : Gone(local[p], n)}
  <2> DEFINE opened(unlisted) == [local[p] EXCEPT
                   !.entries = CoreDNSDelete(zone["rem"], gone),
                   !.batch = Route53Delete(EmptyBatch, gone \ unlisted),
                   !.shallow = FALSE, !.hasError = FALSE, !.host = 1, !.pc = "push",
                   !.todo = gone \ unlisted,
                   !.returnErrors = @ \/ unlisted # {}]
  <2>1. PICK unlisted \in SUBSET gone : Become(p, opened(unlisted))
    BY <1>4 DEF OpenPurgeSession, Gone
  <2>2. /\ opened(unlisted).op = "purge" /\ opened(unlisted).pc = "push" /\ opened(unlisted).host = 1
        /\ opened(unlisted).records = local[p].records
        /\ opened(unlisted).returnErrors = (local[p].returnErrors \/ unlisted # {})
        /\ opened(unlisted).entries = CoreDNSDelete(zone["rem"], gone)
        /\ opened(unlisted).todo = gone \ unlisted
    <3>1. local[p].op = "purge"
      BY <1>4 DEF OpenPurgeSession, At
    <3> HIDE DEF gone
    <3> QED
      BY <1>1, <3>1 DEF Local
  <2> HIDE DEF opened
  <2>3. local'[p] = opened(unlisted) /\ Only(p)
    BY <2>1, Became
  <2> DEFINE l == opened(unlisted)
  <2>4. \A n : Gone(l, n) <=> Gone(local[p], n)
    BY <2>2 DEF Gone
  <2>5. Without(l, l.entries) /\ \A n \in l.todo : Gone(l, n)
    BY <2>2, <2>4 DEF Without, CoreDNSDelete
  <2>6. ~local'[p].returnErrors /\ Exact(local[p]) => TableRead(local[p]) /\ db = local[p].records
    BY <1>2, <1>4, <2>2, <2>3 DEF Exact, InAll, Purging, OpenPurgeSession, At
  <2>7. ~local'[p].returnErrors /\ Exact(local[p]) => TableRead(local[p])'
    BY <1>2, <2>2, <2>3, <2>4, <2>6 DEF TableRead
  <2>8. Purging(local[p])'
    BY <1>2, <2>2, <2>3, <2>5 DEF Purging, PushedTo
  <2>9. Placed(local'[p])
    BY <2>2, <2>3 DEF Placed
  <2>10. Cleaned(local[p])'
    BY <2>2, <2>3 DEF Cleaned, PushedTo, CoreDNSDelete
  <2> QED
    BY <2>2, <2>3, <2>7, <2>8, <2>9, <2>10 DEF SessionExact, Exact
<1>5. CASE OpenUpdateSession(p)
  <2> DEFINE kept == {n \in Names : Kept(local[p], n)}
             values == [n \in kept |-> local[p].records[n].value]
  <2> DEFINE opened == [local[p] EXCEPT
             !.entries = CoreDNSUpsert(zone["rem"], values),
             !.batch = Route53Upsert(EmptyBatch, values),
             !.shallow = FALSE, !.hasError = FALSE, !.host = 1, !.pc = "push",
             !.todo = {}]
             l == opened
  <2>1. Become(p, opened)
    BY <1>5 DEF OpenUpdateSession, Kept
  <2>2. /\ opened.op = "update" /\ opened.pc = "push" /\ opened.host = 1
        /\ opened.records = local[p].records
        /\ opened.returnErrors = local[p].returnErrors
        /\ opened.entries = CoreDNSUpsert(zone["rem"], values)
        /\ opened.batch = Route53Upsert(EmptyBatch, values)
    <3>1. local[p].op = "update"
      BY <1>5 DEF OpenUpdateSession, At
    <3> HIDE DEF values
    <3> QED
      BY <1>1, <3>1 DEF Local
  <2> HIDE DEF opened
  <2>3. local'[p] = opened /\ Only(p)
    BY <2>1, Became
  <2>4. \A n : (Gone(l, n) <=> Gone(local[p], n)) /\ (Kept(l, n) <=> Kept(local[p], n))
    BY <2>2 DEF Gone, Kept
  <2>5. ASSUME NEW n \in Names, Kept(l, n)
        PROVE  /\ l.entries[n] = l.records[n].value
               /\ l.batch[n].action = "UPSERT" /\ l.batch[n].value = l.records[n].value
    BY <2>2, <2>4, <2>5 DEF CoreDNSUpsert, Route53Upsert
  <2>6. ASSUME NEW n \in Names, Gone(l, n) PROVE l.entries[n] = zone["rem"][n]
    <3>1. n \notin kept
      BY <2>4, <2>6 DEF Gone, Kept
    <3> QED
      BY <2>2, <3>1 DEF CoreDNSUpsert
  <2>7. ~l.returnErrors /\ Exact(local[p]) =>
          TableRead(local[p]) /\ \A h \in Hosts : Without(local[p], zone[h])
    BY <1>5, <2>2 DEF Exact, InAll, Updating, OpenUpdateSession, At
  <2>8. ~l.returnErrors /\ Exact(local[p]) => \A h \in Hosts : Without(l, zone[h])
    BY <2>4, <2>7 DEF Without
  <2>9. ~l.returnErrors /\ Exact(local[p]) => Without(l, l.entries)
    BY <1>1, <2>6, <2>8 DEF Without
  <2>10. ~l.returnErrors /\ Exact(local[p]) => TableRead(local[p])'
    BY <1>2, <2>2, <2>3, <2>4, <2>7 DEF TableRead
  <2>11. With(l, l.entries)
    BY <2>5 DEF With
  <2>12. ~l.returnErrors /\ Exact(local[p]) => Updating(local[p])'
    BY <1>2, <2>2, <2>3, <2>5, <2>8, <2>9, <2>11 DEF Updating, PushedTo
  <2>13. Placed(local'[p])
    BY <2>2, <2>3 DEF Placed
  <2> QED
    BY <2>2, <2>3, <2>10, <2>12, <2>13 DEF SessionExact, Exact, Cleaned
<1> QED
  BY <1>4, <1>5

LEMMA HostsOrder == CoreDNSHosts[1] = "rem" /\ CoreDNSHosts[2] = "ram" /\ Hosts = {"rem", "ram"}
BY DEF CoreDNSHosts, Hosts

\* The preamble leaves out what was to go, and NS records.
LEMMA PreambleRows ==
    ASSUME NEW l, NEW z
    PROVE  /\ Without(l, z) => Without(l, GenerateZonePreamble(z))
           /\ With(l, z) => InFile(l, GenerateZonePreamble(z))
BY DEF Without, With, InFile, Shown, GenerateZonePreamble, CoreDNSDelete

\* A copy that breaks off leaves none of what was to go.
LEMMA TornWithout ==
    ASSUME IInv, NEW p \in Procs, Torn(local[p]), NEW k, NEW h \in Hosts,
           Without(k, local[p].entries), Without(k, zone[h])
    PROVE  Without(k, zone'[h])
<1>1. zone \in [Hosts -> Zone]
  BY DEF IInv, TypeOK
<1>2. CASE UNCHANGED zone
  BY <1>2
<1>3. CASE \E kept \in SUBSET Names :
             zone' = [zone EXCEPT ![CoreDNSHosts[local[p].host]] =
                        CoreDNSDelete(GenerateZonePreamble(local[p].entries), Names \ kept)]
  <2>1. PICK kept \in SUBSET Names :
             zone' = [zone EXCEPT ![CoreDNSHosts[local[p].host]] =
                        CoreDNSDelete(GenerateZonePreamble(local[p].entries), Names \ kept)]
    BY <1>3
  <2>2. Without(k, CoreDNSDelete(GenerateZonePreamble(local[p].entries), Names \ kept))
    BY PreambleRows DEF Without, CoreDNSDelete
  <2>3. \/ zone'[h] = CoreDNSDelete(GenerateZonePreamble(local[p].entries), Names \ kept)
        \/ zone'[h] = zone[h]
    BY <1>1, <2>1
  <2> QED
    BY <2>2, <2>3
<1> QED
  BY <1>2, <1>3 DEF Torn, files

\* What a step of the sessions shared by all leaves of the locals.
SameSession(p) ==
    /\ local'[p].op = local[p].op /\ local'[p].todo = local[p].todo
    /\ local'[p].records = local[p].records /\ local'[p].entries = local[p].entries
    /\ local'[p].batch = local[p].batch /\ local'[p].returnErrors = local[p].returnErrors

LEMMA SameRows ==
    ASSUME NEW p, local'[p].records = local[p].records
    PROVE  /\ \A n : Gone(local'[p], n) <=> Gone(local[p], n)
           /\ \A n : Kept(local'[p], n) <=> Kept(local[p], n)
           /\ \A z : Without(local'[p], z) <=> Without(local[p], z)
           /\ \A z : With(local'[p], z) <=> With(local[p], z)
           /\ \A z : InFile(local'[p], z) <=> InFile(local[p], z)
BY DEF Gone, Kept, Without, With, InFile

\* A copy reaches the host that is next, and leaves the other as it is.
LEMMA PushReaches ==
    ASSUME IInv, NEW p \in Procs, Push(p)
    PROVE  /\ Only(p) /\ SameSession(p) /\ local'[p].hasError = local[p].hasError
           /\ local'[p].pc \in {"push", "flush"}
           /\ \A h \in Hosts : zone'[h] = GenerateZonePreamble(local[p].entries) \/ zone'[h] = zone[h]
           /\ \A h \in Hosts : PushedTo(local'[p], h) =>
                \/ zone'[h] = GenerateZonePreamble(local[p].entries) /\ h \notin garbled'
                \/ PushedTo(local[p], h) /\ zone'[h] = zone[h] /\ (h \in garbled' => h \in garbled)
<1>1. /\ local[p] \in Local /\ local[p].pc = "push" /\ UNCHANGED <<db, route53>>
      /\ zone \in [Hosts -> Zone] /\ garbled \subseteq Hosts
  BY DEF IInv, TypeOK, Push, table
<1> DEFINE h0 == CoreDNSHosts[local[p].host]
           next == [local[p] EXCEPT !.host = 2]
           last == [local[p] EXCEPT !.pc = "flush", !.host = 1]
<1>2. /\ zone' = [zone EXCEPT ![h0] = GenerateZonePreamble(local[p].entries)] /\ garbled' = garbled \ {h0}
      /\ \/ local[p].host = 1 /\ Become(p, next)
         \/ local[p].host # 1 /\ Become(p, last)
  BY DEF Push
<1>3. /\ next.pc = "push" /\ next.host = 2 /\ next.hasError = local[p].hasError
      /\ next.op = local[p].op /\ next.todo = local[p].todo
      /\ next.records = local[p].records /\ next.entries = local[p].entries
      /\ next.batch = local[p].batch /\ next.returnErrors = local[p].returnErrors
  BY <1>1 DEF Local
<1>4. /\ last.pc = "flush" /\ last.hasError = local[p].hasError
      /\ last.op = local[p].op /\ last.todo = local[p].todo
      /\ last.records = local[p].records /\ last.entries = local[p].entries
      /\ last.batch = local[p].batch /\ last.returnErrors = local[p].returnErrors
  BY <1>1 DEF Local
<1> HIDE DEF next, last
<1>5. /\ \/ local[p].host = 1 /\ local'[p] = next
         \/ local[p].host # 1 /\ local'[p] = last
      /\ Only(p)
  BY <1>2, Became
<1>6. SameSession(p) /\ local'[p].pc \in {"push", "flush"}
  BY <1>3, <1>4, <1>5 DEF SameSession
<1>7. local[p].host \in {1, 2}
  BY <1>1 DEF Local
<1>8. \A h \in Hosts : zone'[h] = GenerateZonePreamble(local[p].entries) \/ zone'[h] = zone[h]
  BY <1>1, <1>2
<1>9. ASSUME NEW h \in Hosts, PushedTo(local'[p], h)
      PROVE  \/ zone'[h] = GenerateZonePreamble(local[p].entries) /\ h \notin garbled'
             \/ PushedTo(local[p], h) /\ zone'[h] = zone[h] /\ (h \in garbled' => h \in garbled)
  BY <1>1, <1>2, <1>3, <1>4, <1>5, <1>7, <1>9, HostsOrder DEF PushedTo
<1> QED
  BY <1>3, <1>4, <1>5, <1>6, <1>8, <1>9

LEMMA ExactPush ==
    ASSUME IInv, NEW p \in Procs, Push(p) \/ PushFails(p)
    PROVE  SessionExact(p)
<1>1. /\ local[p] \in Local /\ local[p].pc = "push" /\ UNCHANGED <<db, route53>>
      /\ zone \in [Hosts -> Zone] /\ garbled \subseteq Hosts
  BY DEF IInv, TypeOK, Push, PushFails, table
<1>3. CASE PushFails(p)
  <2> DEFINE l == [local[p] EXCEPT !.pc = "flush", !.host = 1, !.hasError = TRUE]
  <2>1. Become(p, l) /\ Torn(local[p])
    BY <1>3 DEF PushFails
  <2>2. /\ l.pc = "flush" /\ l.hasError
        /\ l.op = local[p].op /\ l.todo = local[p].todo
        /\ l.records = local[p].records /\ l.entries = local[p].entries
        /\ l.batch = local[p].batch /\ l.returnErrors = local[p].returnErrors
    BY <1>1 DEF Local
  <2> HIDE DEF l
  <2>3. local'[p] = l /\ Only(p) /\ SameSession(p)
    BY <2>1, <2>2, Became DEF SameSession
  <2>4. ASSUME Exact(local[p]), ~local[p].returnErrors, local[p].op = "purge"
        PROVE  TableRead(local[p])' /\ Purging(local[p])'
    <3>1. TableRead(local[p]) /\ Purging(local[p])
      BY <2>4 DEF Exact, InAll
    <3> QED
      BY <1>1, <2>2, <2>3, <3>1, SameRows DEF TableRead, Purging, PushedTo, SameSession
  <2>5. ASSUME Exact(local[p]), ~local[p].returnErrors, local[p].op = "update"
        PROVE  TableRead(local[p])' /\ Updating(local[p])'
    <3>1. TableRead(local[p]) /\ Updating(local[p])
      BY <2>5 DEF Exact, InAll
    <3>2. \A h \in Hosts : Without(local[p], zone'[h])
      BY <1>1, <2>1, <3>1, TornWithout DEF Updating
    <3> QED
      BY <1>1, <2>2, <2>3, <3>1, <3>2, SameRows DEF TableRead, Updating, PushedTo, SameSession
  <2>6. Cleaned(local[p]) => Cleaned(local[p])'
    BY <1>1, <2>2, <2>3 DEF Cleaned, PushedTo, SameSession
  <2> QED
    BY <2>2, <2>3, <2>4, <2>5, <2>6 DEF SessionExact, Exact, InAll, Placed, SameSession
<1>4. CASE Push(p)
  <2>1. SameSession(p) /\ Only(p) /\ local'[p].pc \in {"push", "flush"}
    BY <1>4, PushReaches
  <2>2. ASSUME Exact(local[p]), ~local[p].returnErrors, local[p].op = "purge"
        PROVE  TableRead(local[p])' /\ Purging(local[p])'
    <3>1. TableRead(local[p]) /\ Purging(local[p])
      BY <2>2 DEF Exact, InAll
    <3>2. \A h \in Hosts : PushedTo(local'[p], h) => Without(local[p], zone'[h])
      BY <1>1, <1>4, <3>1, PushReaches, PreambleRows DEF Purging
    <3> QED
      BY <1>1, <2>1, <3>1, <3>2, SameRows DEF TableRead, Purging, SameSession
  <2>3. ASSUME Exact(local[p]), ~local[p].returnErrors, local[p].op = "update"
        PROVE  TableRead(local[p])' /\ Updating(local[p])'
    <3>1. TableRead(local[p]) /\ Updating(local[p])
      BY <2>3 DEF Exact, InAll
    <3>2. \A h \in Hosts : Without(local[p], zone'[h])
      BY <1>1, <1>4, <3>1, PushReaches, PreambleRows DEF Updating
    <3>3. \A h \in Hosts : PushedTo(local'[p], h) =>
                                h \notin garbled' /\ InFile(local[p], zone'[h])
      BY <1>1, <1>4, <3>1, PushReaches, PreambleRows DEF Updating
    <3>4. TableRead(local[p])'
      BY <1>1, <2>1, <3>1, SameRows DEF TableRead, SameSession
    <3> QED
      BY <1>1, <2>1, <3>1, <3>2, <3>3, <3>4, SameRows DEF Updating, SameSession
  <2>4. ASSUME Cleaned(local[p]), local[p].op = "purge", NEW n \in local[p].todo \cap Names
        PROVE  /\ local[p].entries[n] = Absent
               /\ \A h \in Hosts : PushedTo(local'[p], h) => zone'[h][n] = Absent
    <3>1. /\ local[p].entries[n] = Absent
          /\ \A h \in Hosts : PushedTo(local[p], h) => zone[h][n] = Absent
      BY <1>1, <2>4 DEF Cleaned
    <3>2. GenerateZonePreamble(local[p].entries)[n] = Absent
      BY <3>1 DEF GenerateZonePreamble, CoreDNSDelete
    <3> QED
      BY <1>4, <3>1, <3>2, PushReaches
  <2>5. Cleaned(local[p]) => Cleaned(local[p])'
    BY <2>1, <2>4 DEF Cleaned, SameSession
  <2> QED
    BY <2>1, <2>2, <2>3, <2>5 DEF SessionExact, Exact, InAll, Placed, SameSession
<1> QED
  BY <1>3, <1>4

LEMMA ExactFlush ==
    ASSUME IInv, NEW p \in Procs, Flush(p) \/ FlushFails(p)
    PROVE  SessionExact(p)
<1>1. /\ local[p] \in Local /\ local[p].pc = "flush" /\ UNCHANGED <<db, zone, garbled>>
      /\ Flush(p) => route53' = ApplyBatch(local[p].batch)
  BY DEF IInv, TypeOK, Flush, FlushFails, table, files, shared
<1> DEFINE good == [local[p] EXCEPT !.pc = "finished"]
           bad == [local[p] EXCEPT !.pc = "finished", !.hasError = TRUE]
<1>3. (Flush(p) /\ Become(p, good)) \/ Become(p, bad)
  BY DEF Flush, FlushFails
<1>4. /\ good.pc = "finished" /\ good.hasError = local[p].hasError
      /\ good.op = local[p].op /\ good.todo = local[p].todo
      /\ good.records = local[p].records /\ good.entries = local[p].entries
      /\ good.batch = local[p].batch /\ good.returnErrors = local[p].returnErrors
  BY <1>1 DEF Local
<1>5. /\ bad.pc = "finished" /\ bad.hasError
      /\ bad.op = local[p].op /\ bad.todo = local[p].todo
      /\ bad.records = local[p].records /\ bad.entries = local[p].entries
      /\ bad.batch = local[p].batch /\ bad.returnErrors = local[p].returnErrors
  BY <1>1 DEF Local
<1> HIDE DEF good, bad
<1>6. Only(p) /\ ((Flush(p) /\ local'[p] = good) \/ local'[p] = bad)
  BY <1>3, Became
<1>7. SameSession(p) /\ local'[p].pc = "finished"
  BY <1>4, <1>5, <1>6 DEF SameSession
<1>8. ~local'[p].hasError => ~local[p].hasError /\ Flush(p)
  BY <1>4, <1>5, <1>6
<1>9. \A h : PushedTo(local'[p], h) => PushedTo(local[p], h)
  BY <1>1, <1>7, <1>8 DEF PushedTo
<1>10. ASSUME Exact(local[p]), ~local[p].returnErrors, local[p].op = "purge"
       PROVE  TableRead(local[p])' /\ Purging(local[p])'
  <2>1. TableRead(local[p]) /\ Purging(local[p])
    BY <1>10 DEF Exact, InAll
  <2> QED
    BY <1>1, <1>7, <1>9, <2>1, SameRows DEF TableRead, Purging, SameSession
<1>11. ASSUME Exact(local[p]), ~local[p].returnErrors, local[p].op = "update"
       PROVE  TableRead(local[p])' /\ Updating(local[p])'
  <2>1. TableRead(local[p]) /\ Updating(local[p])
    BY <1>11 DEF Exact, InAll
  <2>2. TableRead(local[p])'
    BY <1>1, <1>7, <2>1, SameRows DEF TableRead, SameSession
  <2>3. ~local'[p].hasError => With(local[p], route53')
    BY <1>1, <1>8, <2>1 DEF Updating, With, ApplyBatch
  <2> QED
    BY <1>1, <1>7, <1>9, <2>1, <2>2, <2>3, SameRows DEF Updating, SameSession
<1>12. Cleaned(local[p]) => Cleaned(local[p])'
  BY <1>1, <1>7, <1>9 DEF Cleaned, SameSession
<1> QED
  BY <1>6, <1>7, <1>10, <1>11, <1>12 DEF SessionExact, Exact, InAll, Placed, SameSession

LEMMA ExactPurgeRow ==
    ASSUME IInv, NEW p \in Procs, PurgeRow(p)
    PROVE  SessionExact(p)
<1>1. /\ local[p] \in Local /\ local[p].pc = "finished" /\ local[p].op = "purge"
      /\ UNCHANGED <<zone, garbled, route53>> /\ db \in [Names -> Row]
  BY DEF IInv, TypeOK, PurgeRow, At, external, files
<1>3. PICK n \in local[p].todo :
        /\ HardDelete(n, local[p].records[n].id) \/ UNCHANGED db
        /\ Become(p, [local[p] EXCEPT !.todo = @ \ {n}])
  BY DEF PurgeRow
<1> DEFINE l == [local[p] EXCEPT !.todo = @ \ {n}]
<1>4. /\ Become(p, l) /\ l.todo = local[p].todo \ {n}
      /\ l.pc = local[p].pc /\ l.op = local[p].op /\ l.host = local[p].host
      /\ l.hasError = local[p].hasError /\ l.returnErrors = local[p].returnErrors
      /\ l.records = local[p].records /\ l.entries = local[p].entries
  BY <1>1, <1>3 DEF Local
<1> HIDE DEF l
<1>5. local'[p] = l /\ Only(p)
  BY <1>4, Became
<1>6. ASSUME Exact(local[p]), ~l.returnErrors
      PROVE  TableRead(local[p])' /\ Purging(local[p])'
  <2>1. TableRead(local[p]) /\ Purging(local[p])
    BY <1>1, <1>4, <1>6 DEF Exact, InAll
  <2>2. Gone(local[p], n)
    BY <1>1, <2>1 DEF Purging
  <2>3. ASSUME NEW m \in Names
        PROVE  db'[m] = db[m] \/ (m = n /\ db'[m] = ZeroRow)
    BY <1>1, <1>3 DEF HardDelete
  <2>4. TableRead(local[p])'
    <3> SUFFICES ASSUME NEW m \in Names
                 PROVE  db'[m] = l.records[m] \/ (Gone(l, m) /\ db'[m] = ZeroRow)
      BY <1>5 DEF TableRead
    <3>1. Gone(l, m) <=> Gone(local[p], m)
      BY <1>4 DEF Gone
    <3> QED
      BY <1>4, <2>1, <2>2, <2>3, <3>1 DEF TableRead
  <2>5. \A h : PushedTo(local'[p], h) => PushedTo(local[p], h)
    BY <1>4, <1>5 DEF PushedTo
  <2> QED
    BY <1>1, <1>4, <1>5, <2>1, <2>4, <2>5, SameRows DEF Purging
<1>7. Cleaned(local[p]) => Cleaned(local[p])'
  BY <1>1, <1>4, <1>5 DEF Cleaned, PushedTo
<1> QED
  BY <1>1, <1>4, <1>5, <1>6, <1>7 DEF SessionExact, Exact, InAll, Placed

LEMMA ExactReturns ==
    ASSUME IInv, NEW p \in Procs, PurgeReturns(p) \/ UpdateReturns(p)
    PROVE  SessionExact(p)
<1>1. /\ local[p] \in Local /\ local[p].pc = "finished"
      /\ UNCHANGED <<db, zone, garbled, route53>>
  BY DEF IInv, TypeOK, PurgeReturns, UpdateReturns, At, shared
<1>3. CASE PurgeReturns(p)
  <2> DEFINE l == [local[p] EXCEPT !.pc = "connect", !.op = "update",
                                   !.returnErrors = @ \/ local[p].hasError]
  <2>1. /\ Become(p, l) /\ l.pc = "connect" /\ l.op = "update"
        /\ l.returnErrors = (local[p].returnErrors \/ local[p].hasError)
        /\ l.records = local[p].records
    BY <1>1, <1>3 DEF PurgeReturns, Local
  <2> HIDE DEF l
  <2>2. local'[p] = l /\ Only(p)
    BY <2>1, Became
  <2>3. ASSUME Exact(local[p]), ~l.returnErrors
        PROVE  TableRead(local[p])' /\ Updating(local[p])'
    <3>1. TableRead(local[p]) /\ Purging(local[p]) /\ ~local[p].hasError
      BY <1>3, <2>1, <2>3 DEF Exact, InAll, PurgeReturns, At
    <3>2. \A h \in Hosts : Without(local[p], zone[h])
      BY <1>1, <3>1 DEF Purging, PushedTo
    <3> QED
      BY <1>1, <2>1, <2>2, <3>1, <3>2, SameRows DEF TableRead, Updating
  <2> QED
    BY <2>1, <2>2, <2>3 DEF SessionExact, Exact, InAll, Placed, Cleaned
<1>4. CASE UpdateReturns(p)
  <2> DEFINE l == [local[p] EXCEPT !.pc = "returned",
                                   !.returnErrors = @ \/ local[p].hasError]
  <2>1. /\ Become(p, l) /\ l.pc = "returned" /\ l.op = "update"
        /\ l.returnErrors = (local[p].returnErrors \/ local[p].hasError)
        /\ l.hasError = local[p].hasError /\ l.batch = local[p].batch
        /\ l.records = local[p].records /\ l.entries = local[p].entries
    BY <1>1, <1>4 DEF UpdateReturns, At, Local
  <2> HIDE DEF l
  <2>2. local'[p] = l /\ Only(p)
    BY <2>1, Became
  <2>3. ASSUME Exact(local[p]), ~l.returnErrors
        PROVE  TableRead(local[p])' /\ Updating(local[p])'
    <3>1. TableRead(local[p]) /\ Updating(local[p]) /\ ~local[p].hasError
      BY <1>4, <2>1, <2>3 DEF Exact, InAll, UpdateReturns, At
    <3>2. \A h \in Hosts : PushedTo(local'[p], h) => PushedTo(local[p], h)
      BY <1>1, <2>1, <2>2 DEF PushedTo
    <3>3. TableRead(local[p])'
      BY <1>1, <2>1, <2>2, <3>1, SameRows DEF TableRead
    <3> QED
      BY <1>1, <2>1, <2>2, <3>1, <3>2, <3>3, SameRows DEF Updating
  <2> QED
    BY <2>1, <2>2, <2>3 DEF SessionExact, Exact, InAll, Placed, Cleaned
<1> QED
  BY <1>3, <1>4

\* A new process is outside of every session.
LEMMA BootedOutside == \A p \in Procs : ~InAll(Booted[p])
BY DEF Booted, Reconciling, IdleLocal, InAll

LEMMA ExactBoot ==
    ASSUME local' = Booted
    PROVE  ExactInv'
BY BootedOutside DEF ExactInv, Placed, Exact, InAll, Cleaned

LEMMA ExactSession ==
    ASSUME IInv, ExactInv, NEW p \in Procs, Observe(p),
           \/ OpenPurgeSession(p) \/ OpenUpdateSession(p) \/ Push(p) \/ PushFails(p)
           \/ Flush(p) \/ FlushFails(p)
           \/ PurgeRow(p) \/ PurgeReturns(p) \/ UpdateReturns(p)
    PROVE  ExactInv'
<1>1. SessionExact(p)
  BY ExactOpen, ExactPush, ExactFlush, ExactPurgeRow, ExactReturns
<1>2. local[p].pc # "snapshot"
  BY DEF OpenPurgeSession, OpenUpdateSession, Push, PushFails, Flush, FlushFails, PurgeRow,
         PurgeReturns, UpdateReturns, At
<1>3. alone'[p] => Exact(local[p]) /\ Cleaned(local[p])
  BY <1>2, StaysAlone DEF ExactInv
<1> QED
  BY <1>1, <1>3, ExactStep DEF SessionExact

LEMMA ExactNext ==
    ASSUME IInv, ExactInv, [Next]_vars
    PROVE  ExactInv'
<1>1. ASSUME NEW p \in Procs, Step(p)
      PROVE  ExactInv'
  <2>1. Observe(p)
    BY <1>1 DEF Step
  <2>2. CASE SessionStep(p)
    BY <2>1, <2>2, OutsideRecords, ExactError, ExactSession DEF SessionStep
  <2>3. CASE Panic(p)
    <3>1. CASE Boot
      BY <3>1, ExactBoot DEF Boot
    <3>2. CASE Become(p, IdleLocal)
      BY <2>1, <3>2, OutsideStep DEF IdleLocal, InAll
    <3> QED
      BY <2>3, <3>1, <3>2 DEF Panic
  <2>4. CASE ReconcileStep(p) /\ ~Panic(p)
    BY <2>1, <2>4, OutsideLoops, ExactSnapshot, ExactSession DEF ReconcileStep
  <2>5. CASE Tick(p) \/ Respond(p) \/ RefreshReply(p)
    BY <2>1, <2>5, OutsideLoops
  <2> QED
    BY <1>1, <2>2, <2>3, <2>4, <2>5 DEF Step
<1>2. ASSUME NEW c \in Clients, Arrive(c)
      PROVE  ExactInv'
  BY <1>2, OutsideLoops DEF Arrive, Procs
<1>3. CASE Crash
  BY <1>3, ExactBoot DEF Crash, Boot
<1>4. CASE UNCHANGED vars
  <2>1. UNCHANGED <<db, zone, garbled, route53, local, alone>>
    BY <1>4 DEF vars, shared, history
  <2> QED
    BY <2>1 DEF ExactInv, Placed, Exact, TableRead, Purging, Updating, Cleaned
<1> QED
  BY <1>1, <1>2, <1>3, <1>4 DEF Next

\* What has been achieved by a ReconcileAll that has returned without an error.
LEMMA ExactReturned ==
    ASSUME NEW p \in Procs, At(p, "returned", {"update"}), Exact(local[p]),
           ~local[p].returnErrors, NEW n \in Names
    PROVE  /\ Live(n) => Published(n)
           /\ ~Live(n) /\ local[p].records[n].id # 0 => \A h \in Hosts : zone[h][n] = Absent
<1>1. TableRead(local[p]) /\ Updating(local[p]) /\ local[p].pc = "returned"
  BY DEF Exact, InAll, At
<1>2. db[n] = local[p].records[n] \/ (Gone(local[p], n) /\ db[n] = ZeroRow)
  BY <1>1 DEF TableRead
<1>3. /\ With(local[p], route53)
      /\ \A h \in Hosts : h \notin garbled /\ InFile(local[p], zone[h]) /\ Without(local[p], zone[h])
  BY <1>1 DEF Updating, PushedTo
<1>4. CASE Live(n)
  <2>1. db[n] = local[p].records[n] /\ Kept(local[p], n)
    BY <1>2, <1>4 DEF Live, HasRow, Kept, ZeroRow
  <2> QED
    BY <1>3, <1>4, <2>1 DEF Published, With, InFile
<1>5. CASE ~Live(n) /\ local[p].records[n].id # 0
  <2>1. Gone(local[p], n)
    BY <1>2, <1>5 DEF Live, HasRow, Gone
  <2> QED
    BY <1>3, <1>5, <2>1 DEF Without
<1> QED
  BY <1>4, <1>5

\* For every set of names and goroutines and every bound on faults: a ReconcileAll
\* which nothing interfered with, and which returns no error, has left the zone
\* files of both hosts and Route53 as the table says, and in neither zone file a
\* record that it found deleted.
THEOREM ReconcileExactHolds == Spec => []ReconcileExact
<1>1. Init => ExactInv
  BY BootedOutside DEF Init, ExactInv, Placed, Exact, InAll, Cleaned
<1>2. IInv /\ ExactInv /\ [Next]_vars => ExactInv'
  BY ExactNext
<1>3. ExactInv => ReconcileExact
  BY ExactReturned DEF ExactInv, ReconcileExact
<1> QED
  BY <1>1, <1>2, <1>3, Invariance, PTL DEF Spec

-----------------------------------------------------------------------------
\* Rows are deleted for good by the purge alone.
LEMMA RowKept ==
    ASSUME IInv, ExactInv, NEW p \in Procs, NEW n \in Names, HasRow(n), ~HasRow(n)',
           \/ Step(p)
           \/ p \in Clients /\ Arrive(p)
    PROVE  PurgeRow(p) /\ n \in local[p].todo
<1>1. db \in [Names -> Row] /\ local[p] \in Local
  BY DEF IInv, TypeOK
<1>2. db'[n].id # db[n].id /\ db'[n].id = 0
  BY DEF HasRow
<1>3. ~UpsertWrite(p)
  <2>1. SUFFICES ASSUME UpsertWrite(p) PROVE FALSE
    OBVIOUS
  <2>2. CanSave(local[p].name, local[p].id) /\ Save(local[p].name, local[p].id, local[p].value)
    BY <2>1 DEF UpsertWrite
  <2>3. CASE n = local[p].name
    <3>1. db[n].id = local[p].id /\ local[p].id # 0
      BY <1>2, <2>2, <2>3 DEF CanSave
    <3> QED
      BY <1>1, <1>2, <2>2, <2>3, <3>1 DEF Save, Row
  <2>4. CASE n # local[p].name
    BY <1>1, <1>2, <2>2, <2>4 DEF Save
  <2> QED
    BY <2>3, <2>4
<1>4. ~DeleteWrite(p)
  BY <1>1, <1>2 DEF DeleteWrite, SoftDelete, Row
<1>5. ASSUME PurgeRow(p) PROVE n \in local[p].todo
  BY <1>1, <1>2, <1>5 DEF PurgeRow, HardDelete
<1>6. UNCHANGED db \/ UpsertWrite(p) \/ DeleteWrite(p) \/ PurgeRow(p)
  <2>1. CASE SessionStep(p)
    BY <2>1 DEF SessionStep, OpenSession, OpenPurgeSession, OpenUpdateSession,
           SessionFails, Lookup, DeleteList, RecordFails, Push, PushFails, Flush, FlushFails,
           shared, table
  <2>2. CASE ReconcileStep(p)
    BY <2>2 DEF ReconcileStep, FixReturns, Snapshot, SnapshotFails, PurgeReturns, UpdateReturns,
           PublicIP, PublicIPReturns, LoopEnds, Panic, Boot, shared, table
  <2>3. CASE Tick(p) \/ Respond(p) \/ RefreshReply(p) \/ Arrive(p)
    BY <2>3 DEF Tick, OnDemandTick, OnDemandClear, ScheduledTick, Respond, RefreshReply, Arrive,
           Request, Refresh, shared, table
  <2> QED
    BY <2>1, <2>2, <2>3 DEF Step
<1> QED
  BY <1>2, <1>3, <1>4, <1>5, <1>6

LEMMA PurgeNext ==
    ASSUME IInv, ExactInv, [Next]_vars, NEW p \in Procs, alone[p], alone'[p],
           NEW n \in Names, HasRow(n), ~HasRow(n)', NEW h \in Hosts
    PROVE  zone[h][n] = Absent
<1>1. PICK q \in Procs : (Step(q) \/ (q \in Clients /\ Arrive(q))) /\ Observe(q)
  <2>1. ~Crash
    BY DEF Crash
  <2>2. ~UNCHANGED vars
    BY DEF vars, shared, HasRow
  <2> QED
    BY <2>1, <2>2 DEF Next, Step, Arrive, Procs
<1>2. q = p
  BY <1>1 DEF Observe
<1>3. PurgeRow(p) /\ n \in local[p].todo
  BY <1>1, <1>2, RowKept
<1>4. At(p, "finished", {"purge"}) /\ ~local[p].hasError
  BY <1>3 DEF PurgeRow
<1> QED
  BY <1>3, <1>4 DEF ExactInv, Cleaned, At, PushedTo

\* In every configuration and whatever fails: a row that a ReconcileAll deletes for
\* good, with nothing interfering since it read the table, is in no zone file.
THEOREM PurgedIsGoneHolds == Spec => PurgedIsGone
<1>1. Init => ExactInv
  BY BootedOutside DEF Init, ExactInv, Placed, Exact, InAll, Cleaned
<1>2. IInv /\ ExactInv /\ [Next]_vars => ExactInv'
  BY ExactNext
<1>3. IInv /\ ExactInv /\ [Next]_vars =>
        [\A p \in Procs : alone[p] /\ alone'[p] =>
            \A n \in Names : HasRow(n) /\ ~HasRow(n)' =>
                \A h \in Hosts : zone[h][n] = Absent]_vars
  BY PurgeNext
<1> QED
  BY <1>1, <1>2, <1>3, Invariance, PTL DEF Spec, PurgedIsGone

=============================================================================
