------------------------- MODULE AcknowledgedProofs -------------------------
(* What keeps a record that was acknowledged in the table, for every value *)
(* of the constants of Shimiko: AcknowledgedUpsertStored where no purge of *)
(* a ReconcileAll can meet a deletion, and in general that only such a     *)
(* purge removes it.  The same description of the steps gives that the     *)
(* table is a RecordStore.                                                 *)
EXTENDS ShimikoProofs

-----------------------------------------------------------------------------
(* How a goroutine's locals l become k, as far as the table is concerned.  *)

Copying == {"push", "flush", "finished"}
OnRecords == {"connect", "lookup", "write", "list"}
WithRecord == {"write", "list"}
Down == {"idle", "off"}

\* The same part of the same request, with fewer records to do.
GoesOn(l, k) ==
    /\ l.pc \notin Down
    /\ k.op = l.op /\ k.names = l.names /\ k.records = l.records /\ k.value = l.value
    /\ k.todo \subseteq l.todo
    /\ k.pc \in WithRecord => k.name \in l.todo \/ (l.pc \in WithRecord /\ k.name = l.name)
    /\ k.pc = "write" => k.name \in l.todo \ k.todo
    /\ k.pc # "connect"
    /\ k.pc \in OnRecords => l.pc \in OnRecords
    /\ k.pc \in Copying => l.pc \in OnRecords \cup Copying
    /\ k.shallow => l.shallow \/ l.op \in {"upsert", "bulk upsert"}
    /\ k.op = "purge" => k.pc \notin OnRecords /\ (k.pc \in Copying => l.pc \in Copying)

Ends(l, k) == l.pc \notin Down /\ k = IdleLocal

\* The next part of a ReconcileAll.
TurnsTo(l, k) ==
    /\ l.op \in ReconcileOps /\ l.pc \notin Down
    /\ k.records \in {l.records, db, IdleLocal.records}
    /\ k.shallow => l.shallow
    /\ \/ /\ k.op = "purge" /\ k.pc = "connect"
          /\ l.pc = "snapshot" /\ k.records = db
       \/ /\ k.op = "purge" /\ k.pc = "push" /\ l.op = "purge" /\ l.pc = "connect"
          /\ k.todo \subseteq {n \in Names : l.records[n].id # 0 /\ l.records[n].deleted}
       \/ k.op = "update" /\ k.pc \in {"connect", "push"}
       \/ k.op = "public ip" /\ k.pc = "returned"
       \/ /\ k.op = "public ip" /\ k.pc = "connect" /\ l.pc = "returned"
          /\ k.todo = ApexNames /\ k.value \in PublicAddresses

\* What any request may delete.
Deletable == IF Operations \cap DeleteOps = {} THEN {} ELSE DeleteNames

\* A request arrives.
Asked(p, k) ==
    /\ p \in Clients /\ k.op \in Operations \ {"refresh"} /\ k.pc = "connect"
    /\ local[p].pc = "idle" /\ (k.op \in DeleteOps \/ k.value \in Values)
    /\ k.todo = k.names /\ ~k.shallow /\ k.records = IdleLocal.records
    /\ IF k.op \in DeleteOps THEN k.names \subseteq Deletable /\ confirmed' = confirmed \ k.names
       ELSE k.names \subseteq UpsertNames

\* A ReconcileAll begins, or the on-demand loop is about to.
Starts(p, l, k) ==
    \/ /\ k = Reconciling /\ l.pc \in {"idle", "clear flag"}
       /\ \/ "refresh" \in Operations
          \/ p = OnDemand /\ l.pc = "clear flag"
          \/ p = Scheduled /\ l.pc = "idle"
    \/ p = OnDemand /\ onDemandReconcileAll /\ k = [IdleLocal EXCEPT !.pc = "clear flag"]

Moved(p, l, k) ==
    GoesOn(l, k) \/ Ends(l, k) \/ TurnsTo(l, k) \/ Asked(p, k) \/ Starts(p, l, k)

\* Any step of p but one that restarts the process.
Moves(p) == Moved(p, local[p], local'[p]) /\ Only(p)

LEMMA ContinueGoesOn ==
    ASSUME NEW l \in Local, NEW k \in Local, l.pc \in OnRecords, k.value = l.value,
           k.op = l.op, k.names = l.names, k.records = l.records, k.shallow = l.shallow,
           k.todo \subseteq l.todo, l.op # "purge"
    PROVE  /\ GoesOn(l, Continue(k))
           /\ GoesOn(l, GiveUp(k)) \/ Ends(l, GiveUp(k))
<1>1. ASSUME NEW m \in Local, m.op = l.op, m.names = l.names, m.records = l.records,
             m.shallow = l.shallow, m.todo \subseteq l.todo, m.value = l.value
      PROVE  GoesOn(l, Continue(m))
  <2> DEFINE c == Continue(m)
  <2>1. /\ c.op = m.op /\ c.names = m.names /\ c.records = m.records
        /\ c.shallow = m.shallow /\ c.todo = m.todo /\ c.value = m.value
        /\ c.pc \in {"lookup", "finished", "push"}
    BY <1>1 DEF Continue, Local
  <2> QED
    BY <1>1, <2>1 DEF GoesOn, WithRecord, OnRecords, Copying, Down
<1>2. CASE k.op \in BulkOps \cup {"fix"}
  <2> DEFINE m == [k EXCEPT !.hasError = TRUE]
  <2>1. /\ m \in Local /\ m.op = k.op /\ m.names = k.names /\ m.records = k.records
        /\ m.shallow = k.shallow /\ m.todo = k.todo /\ m.value = k.value
    BY DEF Local
  <2>2. GiveUp(k) = Continue(m)
    BY <1>2 DEF GiveUp
  <2> HIDE DEF m
  <2> QED
    BY <1>1, <2>1, <2>2
<1>3. CASE k.op = "public ip"
  <2> DEFINE m == [k EXCEPT !.pc = "returned"]
  <2>1. /\ m.op = k.op /\ m.names = k.names /\ m.records = k.records
        /\ m.shallow = k.shallow /\ m.todo = k.todo /\ m.value = k.value /\ m.pc = "returned"
    BY DEF Local
  <2>2. GiveUp(k) = m
    BY <1>3 DEF GiveUp, BulkOps
  <2> HIDE DEF m
  <2> QED
    BY <1>1, <2>1, <2>2 DEF GoesOn, WithRecord, OnRecords, Copying, Down
<1>4. CASE k.op \notin BulkOps \cup {"fix", "public ip"}
  BY <1>1, <1>4 DEF GiveUp, Ends, OnRecords, Down
<1> QED
  BY <1>1, <1>2, <1>3, <1>4

LEMMA UpsertContinues ==
    ASSUME IInv, NEW p \in Procs, UpsertWrite(p)
    PROVE  \E k \in Local :
             /\ k.op = local[p].op /\ k.names = local[p].names /\ k.records = local[p].records
             /\ k.shallow = local[p].shallow /\ k.todo = local[p].todo
             /\ k.value = local[p].value
             /\ Become(p, Continue(k))
<1> DEFINE values == [n \in {local[p].name} |-> local[p].value]
           saved == IF local[p].shallow THEN local[p]
                    ELSE [local[p] EXCEPT !.entries = CoreDNSUpsert(@, values),
                                          !.batch = Route53Upsert(@, values)]
<1>1. local[p] \in Local
  BY DEF IInv, TypeOK
<1>2. values \in [{local[p].name} -> MaybeValue]
  BY <1>1 DEF Local
<1>3. /\ CoreDNSUpsert(local[p].entries, values) \in Zone
      /\ Route53Upsert(local[p].batch, values) \in Batch
  BY <1>1, <1>2, CoreDNSUpsertType, Route53UpsertType DEF Local
<1>4. Become(p, Continue(saved))
  BY DEF UpsertWrite
<1> HIDE DEF values
<1>5. /\ saved \in Local /\ saved.op = local[p].op /\ saved.names = local[p].names
      /\ saved.records = local[p].records /\ saved.shallow = local[p].shallow
      /\ saved.todo = local[p].todo /\ saved.value = local[p].value
  BY <1>1, <1>3 DEF Local
<1> HIDE DEF saved
<1> QED
  BY <1>4, <1>5

LEMMA RecordMoves ==
    ASSUME IInv, NEW p \in Procs,
           \/ OpenSession(p) \/ Lookup(p) \/ UpsertWrite(p)
           \/ DeleteWrite(p) \/ DeleteList(p) \/ RecordFails(p)
    PROVE  Moves(p)
<1>1. local[p] \in Local
  BY DEF IInv, TypeOK
<1>2. local[p].pc \notin Down /\ local[p].pc \in OnRecords
  BY DEF OpenSession, Lookup, UpsertWrite, DeleteWrite, DeleteList, RecordFails, At, Down, OnRecords
<1>3. CASE OpenSession(p)
  <2>1. PICK failed \in BOOLEAN : Become(p, [local[p] EXCEPT
              !.entries = zone["rem"], !.batch = EmptyBatch, !.pc = "lookup",
              !.shallow = /\ local[p].op \in {"upsert", "bulk upsert"}
                          /\ \A t \in local[p].todo : ExistsInDB(t),
              !.hasError = failed])
    BY <1>3 DEF OpenSession
  <2> DEFINE k == [local[p] EXCEPT
              !.entries = zone["rem"], !.batch = EmptyBatch, !.pc = "lookup",
              !.shallow = /\ local[p].op \in {"upsert", "bulk upsert"}
                          /\ \A t \in local[p].todo : ExistsInDB(t),
              !.hasError = failed]
  <2>2. /\ Become(p, k) /\ k.op = local[p].op /\ k.names = local[p].names
        /\ k.records = local[p].records /\ k.todo = local[p].todo /\ k.pc = "lookup"
        /\ k.value = local[p].value
        /\ k.shallow => local[p].op \in {"upsert", "bulk upsert"}
    BY <1>1, <2>1 DEF Local
  <2>3. local[p].op # "purge"
    BY <1>3 DEF OpenSession, At, SessionOps
  <2> HIDE DEF k
  <2> QED
    BY <1>2, <2>2, <2>3, Became DEF Moves, Moved, GoesOn, WithRecord, OnRecords, Copying
<1>4. CASE DeleteWrite(p)
  <2> DEFINE k == [local[p] EXCEPT !.pc = "list",
                                   !.entries = CoreDNSDelete(@, {local[p].name})]
  <2>1. /\ Become(p, k) /\ k.op = local[p].op /\ k.names = local[p].names
        /\ k.records = local[p].records /\ k.todo = local[p].todo /\ k.pc = "list"
        /\ k.name = local[p].name /\ k.shallow = local[p].shallow /\ local[p].pc = "write"
        /\ k.value = local[p].value /\ k.op # "purge"
    BY <1>1, <1>4 DEF DeleteWrite, At, DeleteOps, Local
  <2> HIDE DEF k
  <2> QED
    BY <1>2, <2>1, Became DEF Moves, Moved, GoesOn, WithRecord, OnRecords, Copying
<1>5. CASE Lookup(p)
  <2>1. PICK t \in local[p].todo, row \in Row :
          LET l == [local[p] EXCEPT !.todo = @ \ {t}]
          IN Become(p, IF l.op = "fix" /\ row.id = 0 THEN GiveUp(l)
                       ELSE [l EXCEPT !.name = t, !.id = row.id, !.pc = "write"])
    BY <1>5, LookedUpType DEF Lookup, IInv
  <2> DEFINE l == [local[p] EXCEPT !.todo = @ \ {t}]
             found == [l EXCEPT !.name = t, !.id = row.id, !.pc = "write"]
  <2>2. /\ l \in Local /\ l.op = local[p].op /\ l.names = local[p].names
        /\ l.records = local[p].records /\ l.shallow = local[p].shallow
        /\ l.todo = local[p].todo \ {t} /\ l.value = local[p].value
    BY <1>1 DEF Local
  <2>3. /\ found.op = l.op /\ found.names = l.names /\ found.records = l.records
        /\ found.shallow = l.shallow /\ found.todo = l.todo /\ found.name = t
        /\ found.pc = "write" /\ found.value = l.value
    BY <2>2 DEF Local
  <2>4. Become(p, GiveUp(l)) \/ Become(p, found)
    BY <2>1
  <2>5. local[p].op # "purge"
    BY <1>5 DEF Lookup, At, SessionOps
  <2> HIDE DEF l, found
  <2>6. GoesOn(local[p], found)
    BY <1>2, <2>2, <2>3, <2>5 DEF GoesOn, WithRecord, OnRecords, Copying
  <2>7. GoesOn(local[p], GiveUp(l)) \/ Ends(local[p], GiveUp(l))
    BY <1>1, <1>2, <2>2, <2>5, ContinueGoesOn
  <2> QED
    BY <2>4, <2>6, <2>7, Became DEF Moves, Moved
<1>6. CASE UpsertWrite(p) \/ DeleteList(p)
  <2>1. PICK k \in Local :
          /\ k.op = local[p].op /\ k.names = local[p].names /\ k.records = local[p].records
          /\ k.shallow = local[p].shallow /\ k.todo = local[p].todo
          /\ k.value = local[p].value
          /\ Become(p, Continue(k))
    <3>1. CASE UpsertWrite(p)
      BY <3>1, UpsertContinues
    <3>2. CASE DeleteList(p)
      <4> DEFINE k == [local[p] EXCEPT !.batch = Route53Delete(@, {local[p].name})]
      <4>1. Route53Delete(local[p].batch, {local[p].name}) \in Batch
        BY <1>1, Route53DeleteType DEF Local, IInv, TypeOK
      <4>2. /\ k \in Local /\ k.op = local[p].op /\ k.names = local[p].names
            /\ k.records = local[p].records /\ k.shallow = local[p].shallow
            /\ k.todo = local[p].todo /\ k.value = local[p].value
        BY <1>1, <4>1 DEF Local
      <4>3. Become(p, Continue(k))
        BY <3>2 DEF DeleteList
      <4> HIDE DEF k
      <4> QED
        BY <4>2, <4>3
    <3> QED
      BY <1>6, <3>1, <3>2
  <2>2. local[p].op # "purge"
    BY <1>6 DEF UpsertWrite, DeleteList, At, SessionOps, DeleteOps
  <2>3. GoesOn(local[p], Continue(k))
    BY <1>1, <1>2, <2>1, <2>2, ContinueGoesOn
  <2> QED
    BY <2>1, <2>3, Became DEF Moves, Moved
<1>7. CASE RecordFails(p)
  <2>1. Become(p, GiveUp(local[p]))
    BY <1>7 DEF RecordFails
  <2>2. CASE local[p].op = "purge"
    BY <1>2, <2>1, <2>2, Became DEF GiveUp, BulkOps, Ends, Moves, Moved
  <2>3. CASE local[p].op # "purge"
    <3>1. GoesOn(local[p], GiveUp(local[p])) \/ Ends(local[p], GiveUp(local[p]))
      BY <1>1, <1>2, <2>3, ContinueGoesOn
    <3> QED
      BY <2>1, <3>1, Became DEF Moves, Moved
  <2> QED
    BY <2>2, <2>3
<1> QED
  BY <1>3, <1>4, <1>5, <1>6, <1>7

LEMMA FinishMoves ==
    ASSUME IInv, NEW p \in Procs,
           \/ SessionFails(p) \/ Push(p) \/ PushFails(p) \/ Flush(p) \/ FlushFails(p)
    PROVE  Moves(p)
<1>1. local[p] \in Local
  BY DEF IInv, TypeOK
<1>2. local[p].pc \notin Down
  BY DEF SessionFails, Push, PushFails, Flush, FlushFails, Down
<1>3. CASE SessionFails(p)
  <2> DEFINE fix == [local[p] EXCEPT !.pc = "snapshot", !.returnErrors = TRUE]
             all == [local[p] EXCEPT !.pc = "returned", !.returnErrors = TRUE]
             ip == [local[p] EXCEPT !.pc = "returned"]
  <2>1. Become(p, fix) \/ Become(p, all) \/ Become(p, ip) \/ Become(p, IdleLocal)
    BY <1>3 DEF SessionFails
  <2>2. ASSUME NEW k \in {fix, all, ip}
        PROVE  /\ k.op = local[p].op /\ k.names = local[p].names
               /\ k.records = local[p].records /\ k.todo = local[p].todo
               /\ k.shallow = local[p].shallow /\ k.pc \in {"snapshot", "returned"}
               /\ k.value = local[p].value
    BY <1>1, <2>2 DEF Local
  <2>3. ASSUME NEW k \in {fix, all, ip}
        PROVE  GoesOn(local[p], k)
    <3> HIDE DEF fix, all, ip
    <3> QED
      BY <1>2, <2>2, <2>3 DEF GoesOn, WithRecord, OnRecords, Copying
  <2> HIDE DEF fix, all, ip
  <2> QED
    BY <1>2, <2>1, <2>3, Became DEF Moves, Moved, Ends
<1>4. CASE Push(p) \/ PushFails(p) \/ Flush(p) \/ FlushFails(p)
  <2> DEFINE next == [local[p] EXCEPT !.host = 2]
             last == [local[p] EXCEPT !.pc = "flush", !.host = 1]
             torn == [local[p] EXCEPT !.pc = "flush", !.host = 1, !.hasError = TRUE]
             good == [local[p] EXCEPT !.pc = "finished"]
             bad == [local[p] EXCEPT !.pc = "finished", !.hasError = TRUE]
  <2>1. local[p].pc \in {"push", "flush"}
    BY <1>4 DEF Push, PushFails, Flush, FlushFails
  <2>2. \/ Become(p, next) \/ Become(p, last) \/ Become(p, torn)
        \/ Become(p, good) \/ Become(p, bad)
    BY <1>4 DEF Push, PushFails, Flush, FlushFails
  <2>3. ASSUME NEW k \in {next, last, torn, good, bad}
        PROVE  /\ k.op = local[p].op /\ k.names = local[p].names
               /\ k.records = local[p].records /\ k.todo = local[p].todo
               /\ k.shallow = local[p].shallow /\ k.pc \in {"push", "flush", "finished"}
               /\ k.value = local[p].value
    BY <1>1, <2>1, <2>3 DEF Local
  <2> HIDE DEF next, last, torn, good, bad
  <2>4. ASSUME NEW k \in {next, last, torn, good, bad}
        PROVE  GoesOn(local[p], k)
    BY <1>2, <2>1, <2>3, <2>4 DEF GoesOn, WithRecord, OnRecords, Copying
  <2> QED
    BY <2>2, <2>4, Became DEF Moves, Moved
<1> QED
  BY <1>3, <1>4

LEMMA ReconcileMoves ==
    ASSUME IInv, NEW p \in Procs,
           \/ OpenPurgeSession(p) \/ OpenUpdateSession(p)
           \/ FixReturns(p) \/ Snapshot(p) \/ SnapshotFails(p) \/ PurgeRow(p)
           \/ PurgeReturns(p) \/ UpdateReturns(p) \/ PublicIP(p) \/ PublicIPReturns(p)
           \/ LoopEnds(p) \/ (EndsInPanic(p) /\ Become(p, IdleLocal))
    PROVE  Moves(p)
<1>1. local[p] \in Local /\ Addressed(local[p])
  BY DEF IInv, TypeOK
<1>2. local[p].pc \notin Down
  BY DEF OpenPurgeSession, OpenUpdateSession, FixReturns, Snapshot, SnapshotFails, PurgeRow,
         PurgeReturns, UpdateReturns, PublicIP, PublicIPReturns, LoopEnds, EndsInPanic, At, Down
<1>3. CASE LoopEnds(p) \/ (EndsInPanic(p) /\ Become(p, IdleLocal))
  BY <1>2, <1>3, Became DEF LoopEnds, Moves, Moved, Ends
<1>4. CASE OpenPurgeSession(p)
  <2> DEFINE gone == {n \in Names : local[p].records[n].id # 0 /\ local[p].records[n].deleted}
  <2> DEFINE opened(unlisted) == [local[p] EXCEPT
                   !.entries = CoreDNSDelete(zone["rem"], gone),
                   !.batch = Route53Delete(EmptyBatch, gone \ unlisted),
                   !.shallow = FALSE, !.hasError = FALSE, !.host = 1, !.pc = "push",
                   !.todo = gone \ unlisted,
                   !.returnErrors = @ \/ unlisted # {}]
  <2>1. PICK unlisted \in SUBSET gone : Become(p, opened(unlisted))
    BY <1>4 DEF OpenPurgeSession
  <2>2. local[p].op = "purge" /\ local[p].pc = "connect"
    BY <1>4 DEF OpenPurgeSession, At
  <2> HIDE DEF gone
  <2>3. /\ opened(unlisted).op = "purge" /\ opened(unlisted).records = local[p].records
        /\ opened(unlisted).todo \subseteq gone /\ ~opened(unlisted).shallow
        /\ opened(unlisted).pc = "push"
    BY <1>1, <2>2 DEF Local
  <2>4. gone = {n \in Names : local[p].records[n].id # 0 /\ local[p].records[n].deleted}
    BY DEF gone
  <2> HIDE DEF opened
  <2> QED
    BY <1>2, <2>1, <2>2, <2>3, <2>4, Became DEF Moves, Moved, TurnsTo, ReconcileOps
<1>5. CASE OpenUpdateSession(p)
  <2> DEFINE values == [n \in {m \in Names : local[p].records[m].id # 0
                                              /\ ~local[p].records[m].deleted}
                          |-> local[p].records[n].value]
             k == [local[p] EXCEPT
             !.entries = CoreDNSUpsert(zone["rem"], values),
             !.batch = Route53Upsert(EmptyBatch, values),
             !.shallow = FALSE, !.hasError = FALSE, !.host = 1, !.pc = "push",
             !.todo = {}]
  <2>1. Become(p, k) /\ local[p].op = "update"
    BY <1>5 DEF OpenUpdateSession, At
  <2> HIDE DEF values
  <2>2. k.op = "update" /\ k.pc = "push" /\ k.records = local[p].records /\ ~k.shallow
    BY <1>1, <2>1 DEF Local
  <2> HIDE DEF k
  <2> QED
    BY <1>2, <2>1, <2>2, Became DEF Moves, Moved, TurnsTo, ReconcileOps
<1>6. CASE \/ FixReturns(p) \/ SnapshotFails(p) \/ PurgeRow(p) \/ UpdateReturns(p)
           \/ PublicIPReturns(p)
  <2> DEFINE fix == [local[p] EXCEPT !.pc = "snapshot", !.returnErrors = local[p].hasError]
             failed == [local[p] EXCEPT !.pc = "returned", !.returnErrors = TRUE]
             row(n) == [local[p] EXCEPT !.todo = @ \ {n}]
             update == [local[p] EXCEPT !.pc = "returned",
                                        !.returnErrors = @ \/ local[p].hasError]
             ip == [local[p] EXCEPT !.pc = "returned"]
  <2>1. \/ Become(p, fix) \/ Become(p, failed) \/ Become(p, update) \/ Become(p, ip)
        \/ local[p].pc = "finished" /\ \E n \in local[p].todo : Become(p, row(n))
    BY <1>6 DEF FixReturns, SnapshotFails, PurgeRow, UpdateReturns, PublicIPReturns, At
  <2>2. ASSUME NEW k \in {fix, failed, update, ip}
        PROVE  /\ k.op = local[p].op /\ k.names = local[p].names
               /\ k.records = local[p].records /\ k.todo = local[p].todo
               /\ k.shallow = local[p].shallow /\ k.pc \in {"snapshot", "returned"}
               /\ k.value = local[p].value
    BY <1>1, <2>2 DEF Local
  <2>3. ASSUME NEW n
        PROVE  /\ row(n).op = local[p].op /\ row(n).names = local[p].names
               /\ row(n).records = local[p].records /\ row(n).todo \subseteq local[p].todo
               /\ row(n).shallow = local[p].shallow /\ row(n).pc = local[p].pc
               /\ row(n).name = local[p].name /\ row(n).value = local[p].value
    BY <1>1 DEF Local
  <2> HIDE DEF fix, failed, row, update, ip
  <2>4. ASSUME NEW k \in {fix, failed, update, ip}
        PROVE  GoesOn(local[p], k)
    BY <1>2, <2>2, <2>4 DEF GoesOn, WithRecord, OnRecords, Copying
  <2>5. local[p].pc = "finished" => \A n : GoesOn(local[p], row(n))
    BY <1>2, <2>3 DEF GoesOn, WithRecord, OnRecords, Copying
  <2> QED
    BY <2>1, <2>4, <2>5, Became DEF Moves, Moved
<1>7. CASE Snapshot(p) \/ PurgeReturns(p)
  <2> DEFINE purge == [local[p] EXCEPT !.pc = "connect", !.op = "purge", !.records = db]
             update == [local[p] EXCEPT !.pc = "connect", !.op = "update",
                                        !.returnErrors = @ \/ local[p].hasError]
  <2>1. /\ (Become(p, purge) /\ local[p].pc = "snapshot") \/ Become(p, update)
        /\ local[p].op \in ReconcileOps
    BY <1>1, <1>7 DEF Snapshot, PurgeReturns, At, Addressed, ReconcileOps
  <2>2. /\ purge.op = "purge" /\ purge.records = db /\ purge.pc = "connect"
        /\ purge.shallow = local[p].shallow
        /\ update.op = "update" /\ update.pc = "connect" /\ update.records = local[p].records
        /\ update.shallow = local[p].shallow
    BY <1>1 DEF Local
  <2> HIDE DEF purge, update
  <2> QED
    BY <1>2, <2>1, <2>2, Became DEF Moves, Moved, TurnsTo, ReconcileOps, Copying
<1>8. CASE PublicIP(p)
  <2> DEFINE fails == [local[p] EXCEPT !.op = "public ip"]
             asks(v) == [IdleLocal EXCEPT !.pc = "connect", !.op = "public ip",
                                   !.names = ApexNames, !.todo = ApexNames, !.value = v]
  <2>1. local[p].pc = "returned" /\ (Become(p, fails) \/ \E v \in PublicAddresses : Become(p, asks(v)))
    BY <1>8 DEF PublicIP, At
  <2>2. /\ fails.op = "public ip" /\ fails.pc = local[p].pc /\ fails.records = local[p].records
        /\ fails.shallow = local[p].shallow
        /\ \A v : /\ asks(v).op = "public ip" /\ asks(v).records = IdleLocal.records
                  /\ ~asks(v).shallow /\ asks(v).pc = "connect"
                  /\ asks(v).todo = ApexNames /\ asks(v).value = v
    BY <1>1 DEF IdleLocal, Local
  <2>3. local[p].op \in ReconcileOps
    BY <1>8 DEF PublicIP, At
  <2> HIDE DEF fails, asks
  <2>4. TurnsTo(local[p], fails)
    BY <1>2, <2>1, <2>2, <2>3 DEF TurnsTo
  <2>5. \A v \in PublicAddresses : TurnsTo(local[p], asks(v))
    BY <1>2, <2>1, <2>2, <2>3 DEF TurnsTo
  <2> QED
    BY <2>1, <2>4, <2>5, Became DEF Moves, Moved
<1> QED
  BY <1>3, <1>4, <1>5, <1>6, <1>7, <1>8

LEMMA HandlerMoves ==
    ASSUME IInv, NEW p \in Procs,
           \/ Tick(p) \/ Respond(p) \/ RefreshReply(p)
           \/ (p \in Clients /\ (Request(p) \/ Refresh(p)))
    PROVE  Moves(p)
<1>1. CASE Respond(p) \/ RefreshReply(p)
  BY <1>1, Became DEF Respond, RefreshReply, At, Moves, Moved, Ends, Down
<1>2. CASE Tick(p) \/ (p \in Clients /\ Refresh(p))
  <2> DEFINE clear == [IdleLocal EXCEPT !.pc = "clear flag"]
  <2>1. \/ /\ Become(p, Reconciling) /\ local[p].pc \in {"idle", "clear flag"}
           /\ \/ "refresh" \in Operations
              \/ p = OnDemand /\ local[p].pc = "clear flag"
              \/ p = Scheduled /\ local[p].pc = "idle"
        \/ Become(p, clear) /\ p = OnDemand /\ onDemandReconcileAll
    BY <1>2 DEF Tick, OnDemandTick, OnDemandClear, ScheduledTick, Refresh
  <2>2. Starts(p, local[p], local'[p]) /\ Only(p)
    BY <2>1, Became DEF Starts
  <2> QED
    BY <2>2 DEF Moves, Moved
<1>3. CASE p \in Clients /\ Request(p)
  <2> DEFINE k(o, v, T) == [IdleLocal EXCEPT !.pc = "connect", !.op = o,
                                !.names = T, !.todo = T,
                                !.value = IF o \in DeleteOps THEN Absent ELSE v]
  <2>1. PICK o \in Operations \ {"refresh"}, v \in Values, T \in SUBSET Targets :
          /\ Become(p, k(o, v, T))
          /\ T \subseteq IF o \in DeleteOps THEN DeleteNames ELSE UpsertNames
          /\ confirmed' = IF o \in DeleteOps THEN confirmed \ T ELSE confirmed
    BY <1>3, ConstantsAssumption DEF Request, Targets
  <2>2. /\ k(o, v, T).op = o /\ k(o, v, T).names = T /\ k(o, v, T).todo = T
        /\ k(o, v, T).pc = "connect" /\ ~k(o, v, T).shallow
        /\ k(o, v, T).records = IdleLocal.records
        /\ k(o, v, T).value = IF o \in DeleteOps THEN Absent ELSE v
    BY DEF IdleLocal
  <2>3. local[p].pc = "idle"
    BY <1>3 DEF Request
  <2> HIDE DEF k
  <2> QED
    BY <1>3, <2>1, <2>2, <2>3, Became DEF Moves, Moved, Asked, Deletable
<1> QED
  BY <1>1, <1>2, <1>3

-----------------------------------------------------------------------------
(* What a step does to the table and to what is confirmed.                 *)

\* Whatever p does but for a restart.
Goes(p) ==
    \/ SessionStep(p) \/ ReconcileStep(p) \/ Tick(p) \/ Respond(p) \/ RefreshReply(p)
    \/ p \in Clients /\ (Request(p) \/ Refresh(p))

\* A restarted process has the table as it was.
Restarts == local' = Booted /\ ~onDemandReconcileAll' /\ UNCHANGED <<table, confirmed>>

Raises(n) == db'[n].id # 0 /\ ~db'[n].deleted

TableKept(p) ==
    /\ nextId' # 0
    /\ UpsertWrite(p) => Raises(local[p].name)
    /\ \A n \in Names : \/ db'[n] = db[n]
                        \/ UpsertWrite(p) /\ n = local[p].name
                        \/ DeleteWrite(p) /\ n = local[p].name
                        \/ PurgeRow(p) /\ n \in local[p].todo
    /\ \/ confirmed' \subseteq confirmed
       \/ /\ UpsertWrite(p) /\ local[p].op \in RequestOps /\ ~DeletePending(local[p].name)
          /\ confirmed' \subseteq confirmed \cup {local[p].name}
    /\ onDemandReconcileAll' => onDemandReconcileAll \/ local[p].shallow

LEMMA StepTable ==
    ASSUME IInv, nextId # 0, NEW p \in Procs, Goes(p)
    PROVE  (Moves(p) /\ TableKept(p)) \/ Restarts
<1>1. /\ local[p] \in Local /\ Addressed(local[p]) /\ db \in [Names -> Row] /\ nextId \in Nat
      /\ onDemandReconcileAll \in BOOLEAN
  BY DEF IInv, TypeOK
<1>2. CASE UpsertWrite(p)
  <2>1. Moves(p)
    BY <1>2, RecordMoves
  <2>2. local[p].name \in Names
    BY <1>1, <1>2 DEF UpsertWrite, At, Addressed
  <2>3. Save(local[p].name, local[p].id, local[p].value) /\ UNCHANGED flags
    BY <1>2 DEF UpsertWrite
  <2>4. nextId' # 0 /\ Raises(local[p].name)
        /\ \A n \in Names : db'[n] = db[n] \/ n = local[p].name
    BY <1>1, <2>2, <2>3 DEF Save, Raises
  <2>5. \/ confirmed' \subseteq confirmed
        \/ /\ local[p].op \in RequestOps /\ ~DeletePending(local[p].name)
           /\ confirmed' \subseteq confirmed \cup {local[p].name}
    BY <1>2 DEF UpsertWrite
  <2> QED
    BY <1>2, <2>1, <2>3, <2>4, <2>5 DEF TableKept, flags
<1>3. CASE DeleteWrite(p)
  <2>1. Moves(p)
    BY <1>3, RecordMoves
  <2>2. \A n \in Names : db'[n] = db[n] \/ n = local[p].name
    BY <1>1, <1>3 DEF DeleteWrite, SoftDelete
  <2>3. UNCHANGED <<nextId, confirmed, onDemandReconcileAll>> /\ ~UpsertWrite(p)
    BY <1>3 DEF DeleteWrite, UpsertWrite, At, SessionOps, DeleteOps, flags, quiet
  <2> QED
    BY <1>3, <2>1, <2>2, <2>3 DEF TableKept
<1>4. CASE PurgeRow(p)
  <2>1. Moves(p)
    BY <1>4, ReconcileMoves
  <2>2. UNCHANGED <<nextId, confirmed, onDemandReconcileAll>> /\ ~UpsertWrite(p)
    BY <1>4 DEF PurgeRow, UpsertWrite, At, flags, quiet
  <2>3. \A n \in Names : db'[n] = db[n] \/ n \in local[p].todo
    BY <1>1, <1>4 DEF PurgeRow, HardDelete
  <2> QED
    BY <1>4, <2>1, <2>2, <2>3 DEF TableKept
<1>5. CASE Panic(p)
  <2>1. CASE Become(p, IdleLocal) /\ UNCHANGED <<shared, unread, readFailed, confirmed>>
    <3>1. Moves(p) /\ ~UpsertWrite(p)
      BY <1>5, <2>1, ReconcileMoves DEF Panic, EndsInPanic, UpsertWrite, At
    <3> QED
      BY <2>1, <3>1 DEF TableKept, shared
  <2>2. CASE Boot
    BY <2>2 DEF Boot, Restarts
  <2> QED
    BY <1>5, <2>1, <2>2 DEF Panic
<1>6. CASE Tick(p) \/ Respond(p) \/ RefreshReply(p) \/ (p \in Clients /\ (Request(p) \/ Refresh(p)))
  <2>1. Moves(p)
    BY <1>6, HandlerMoves
  <2>2. ~UpsertWrite(p)
    BY <1>6 DEF Tick, OnDemandTick, OnDemandClear, ScheduledTick, Respond, RefreshReply, Request,
                Refresh, UpsertWrite, At
  <2>3. UNCHANGED table /\ confirmed' \subseteq confirmed
    BY <1>6 DEF Tick, OnDemandTick, OnDemandClear, ScheduledTick, Respond, RefreshReply, Request,
                Refresh, shared, table, quiet
  <2>4. onDemandReconcileAll' => onDemandReconcileAll \/ local[p].shallow
    BY <1>6 DEF Tick, OnDemandTick, OnDemandClear, ScheduledTick, Respond, RefreshReply, Request,
                Refresh, shared
  <2> QED
    BY <2>1, <2>2, <2>3, <2>4 DEF TableKept, table
<1>7. CASE \/ SessionStep(p) /\ ~UpsertWrite(p) /\ ~DeleteWrite(p)
           \/ ReconcileStep(p) /\ ~PurgeRow(p) /\ ~Panic(p)
  <2>1. Moves(p)
    BY <1>7, RecordMoves, FinishMoves, ReconcileMoves DEF SessionStep, ReconcileStep
  <2>2. UNCHANGED <<table, confirmed, onDemandReconcileAll>>
    BY <1>7 DEF SessionStep, ReconcileStep, OpenSession, OpenPurgeSession, OpenUpdateSession,
           SessionFails, Lookup, DeleteList, RecordFails, Push, PushFails, Flush, FlushFails,
           FixReturns, Snapshot, SnapshotFails, PurgeReturns, UpdateReturns, PublicIP,
           PublicIPReturns, LoopEnds, shared, table, flags, quiet
  <2>3. ~UpsertWrite(p)
    BY <1>7 DEF ReconcileStep, UpsertWrite, At, FixReturns, Snapshot, SnapshotFails, PurgeReturns,
                UpdateReturns, PublicIP, PublicIPReturns, LoopEnds
  <2> QED
    BY <2>1, <2>2, <2>3 DEF TableKept, table
<1> QED
  BY <1>2, <1>3, <1>4, <1>5, <1>6, <1>7 DEF Goes, SessionStep, ReconcileStep

LEMMA NextGoes ==
    ASSUME IInv, nextId # 0, [Next]_vars
    PROVE  \/ \E p \in Procs : Goes(p) /\ Moves(p) /\ TableKept(p)
           \/ Restarts
           \/ UNCHANGED <<local, table, confirmed, onDemandReconcileAll>>
<1>1. ASSUME NEW p \in Procs, Goes(p)
      PROVE  \/ Goes(p) /\ Moves(p) /\ TableKept(p)
             \/ Restarts
  BY <1>1, StepTable
<1>2. CASE \E p \in Procs : Step(p)
  BY <1>1, <1>2 DEF Step, Goes
<1>3. CASE \E c \in Clients : Arrive(c)
  BY <1>1, <1>3 DEF Arrive, Goes, Procs
<1>4. CASE Crash
  BY <1>4 DEF Crash, Boot, Restarts
<1>5. CASE UNCHANGED vars
  BY <1>5 DEF vars, shared, history, table
<1> QED
  BY <1>2, <1>3, <1>4, <1>5 DEF Next

-----------------------------------------------------------------------------
(* A deletion never meets a confirmed record.                              *)

\* Only a request deletes, only what it was asked to, and nothing of that is
\* confirmed until it is through.
Deletion(p) ==
    local[p].op \in DeleteOps =>
        /\ p \in Clients
        /\ local[p].todo \subseteq local[p].names
        /\ local[p].pc \in WithRecord => local[p].name \in local[p].names
        /\ local[p].names \cap confirmed = {}

DeletionInv == nextId # 0 /\ \A p \in Procs : Deletion(p)

LEMMA OutsideDeletions ==
    /\ IdleLocal.op \notin DeleteOps /\ Reconciling.op \notin DeleteOps
    /\ [IdleLocal EXCEPT !.pc = "clear flag"].op \notin DeleteOps
    /\ \A p \in Procs : Booted[p].op \notin DeleteOps
BY DEF IdleLocal, Reconciling, Booted, DeleteOps

LEMMA DeletionNext ==
    ASSUME IInv, DeletionInv, [Next]_vars
    PROVE  DeletionInv'
<1>1. CASE \E p \in Procs : Goes(p) /\ Moves(p) /\ TableKept(p)
  <2>1. PICK p \in Procs : Goes(p) /\ Moves(p) /\ TableKept(p)
    BY <1>1
  <2>2. ASSUME NEW q \in Procs \ {p} PROVE Deletion(q)'
    <3>1. local'[q] = local[q] /\ Deletion(q)
      BY <2>1, <2>2 DEF Moves, Only, DeletionInv
    <3>2. local[q].op \in DeleteOps => local[q].names \cap confirmed' = {}
      BY <2>1, <3>1 DEF TableKept, Deletion, DeletePending
    <3> QED
      BY <3>1, <3>2 DEF Deletion
  <2>3. ASSUME local'[p].op \in DeleteOps PROVE Deletion(p)'
    <3>1. CASE GoesOn(local[p], local'[p])
      <4>1. local[p].op \in DeleteOps /\ Deletion(p)
        BY <2>3, <3>1 DEF GoesOn, DeletionInv
      <4>2. confirmed' \subseteq confirmed
        BY <2>1, <4>1 DEF TableKept, UpsertWrite, At, SessionOps
      <4> QED
        BY <3>1, <4>1, <4>2 DEF GoesOn, Deletion
    <3>2. CASE Asked(p, local'[p])
      BY <2>3, <3>2 DEF Asked, Deletion, WithRecord
    <3>3. ~Ends(local[p], local'[p]) /\ ~Starts(p, local[p], local'[p])
      BY <2>3, OutsideDeletions DEF Ends, Starts
    <3>4. ~TurnsTo(local[p], local'[p])
      BY <2>3 DEF TurnsTo, DeleteOps, ReconcileOps
    <3> QED
      BY <2>1, <3>1, <3>2, <3>3, <3>4 DEF Moves, Moved
  <2> QED
    BY <2>1, <2>2, <2>3 DEF DeletionInv, TableKept, Deletion
<1>2. CASE Restarts
  BY <1>2, OutsideDeletions DEF Restarts, DeletionInv, Deletion, table
<1>3. CASE UNCHANGED <<local, table, confirmed>>
  BY <1>3 DEF DeletionInv, Deletion, table
<1> QED
  BY <1>1, <1>2, <1>3, NextGoes DEF DeletionInv

LEMMA DeletionInvariance == Spec => []DeletionInv
<1>1. Init => DeletionInv
  BY OutsideDeletions DEF Init, DeletionInv, Deletion
<1> QED
  BY <1>1, DeletionNext, Invariance, PTL DEF Spec

\* A purge is through with this record.
Purges(n) == \E p \in Procs : PurgeRow(p) /\ n \in local[p].todo

\* Whatever is confirmed stays live in every step but a purge's.
LEMMA LiveKept ==
    ASSUME IInv, DeletionInv, [Next]_vars, NEW n \in confirmed', ~Purges(n),
           n \in confirmed => Live(n)
    PROVE  Live(n)'
<1>1. n \in Names /\ confirmed \subseteq Names
  BY NextInv DEF IInv, TypeOK
<1>2. CASE \E p \in Procs : Goes(p) /\ Moves(p) /\ TableKept(p)
  <2>1. PICK p \in Procs : Goes(p) /\ Moves(p) /\ TableKept(p)
    BY <1>2
  <2>2. CASE UpsertWrite(p) /\ n = local[p].name
    BY <2>1, <2>2 DEF TableKept, Raises, Live, HasRow
  <2>3. CASE ~(UpsertWrite(p) /\ n = local[p].name)
    <3>1. n \in confirmed
      BY <2>1, <2>3 DEF TableKept
    <3>2. ~(DeleteWrite(p) /\ n = local[p].name)
      BY <3>1 DEF DeleteWrite, At, DeletionInv, Deletion, WithRecord
    <3>3. db'[n] = db[n]
      BY <1>1, <2>1, <2>3, <3>2 DEF TableKept, Purges
    <3> QED
      BY <3>1, <3>3 DEF Live, HasRow
  <2> QED
    BY <2>2, <2>3
<1>3. CASE Restarts \/ UNCHANGED <<local, table, confirmed>>
  BY <1>3 DEF Restarts, table, Live, HasRow
<1> QED
  BY <1>2, <1>3, NextGoes DEF DeletionInv

\* For every configuration, faults and crashes included: of what a request saved, and
\* nobody asked to delete, nothing leaves the table but by the purge of a ReconcileAll
\* whose copy of the table has it as deleted.
THEOREM OnlyPurgesLose ==
    Spec => [][\A n \in confirmed \cap confirmed' : Live(n) /\ ~Live(n)' => Purges(n)]_vars
<1>1. IInv /\ DeletionInv /\ [Next]_vars
        => [\A n \in confirmed \cap confirmed' : Live(n) /\ ~Live(n)' => Purges(n)]_vars
  BY LiveKept
<1> QED
  BY <1>1, Invariance, DeletionInvariance, PTL DEF Spec

-----------------------------------------------------------------------------
(* Where a purge has nothing to remove.                                    *)

\* What is soft-deleted, or purged, is never what an upsert has saved.
Disjoint ==
    /\ \A n \in Names \ Deletable : ~db[n].deleted
    /\ confirmed \subseteq UpsertNames
    /\ \A p \in Procs :
         /\ local[p].op \in DeleteOps => local[p].names \subseteq Deletable
         /\ local[p].op \in RequestOps \ DeleteOps =>
              /\ local[p].todo \subseteq UpsertNames
              /\ local[p].pc \in WithRecord => local[p].name \in UpsertNames
         /\ \A n \in Names \ Deletable : ~local[p].records[n].deleted
         /\ local[p].op = "purge" /\ local[p].pc \in Copying => local[p].todo \subseteq Deletable

\* Nothing is ever reconciled.
Unreconciled ==
    /\ ~onDemandReconcileAll /\ local[OnDemand].pc = "idle" /\ local[Scheduled].pc = "off"
    /\ \A p \in Procs : local[p].op \notin ReconcileOps \cup {"upsert", "bulk upsert"}
                       /\ ~local[p].shallow

\* What keeps purges away from upserts: what requests delete they never upsert; or no
\* request leads to a ReconcileAll (an upsert of a record that exists asks for one, an
\* update of acme-dns never does) and the scheduled loop is off.
DeletesOthers == UpsertNames \cap Deletable = {}
ReconcilesNothing ==
    ReconcileInterval = 0 /\ Operations \cap {"upsert", "bulk upsert", "refresh"} = {}

LEMMA IdleFields ==
    /\ \A n \in Names : ~IdleLocal.records[n].deleted
    /\ \A l \in {IdleLocal, [IdleLocal EXCEPT !.pc = "clear flag"],
                 [IdleLocal EXCEPT !.pc = "off"], Reconciling} :
         /\ l.op \in {"none", "fix"} /\ ~l.shallow /\ l.records = IdleLocal.records
         /\ l # Reconciling => l.op = "none"
<1>1. /\ \A n \in Names : ~IdleLocal.records[n].deleted
      /\ IdleLocal.op = "none" /\ ~IdleLocal.shallow
  BY DEF IdleLocal, ZeroRow
<1>2. ASSUME NEW pc
      PROVE  LET l == [IdleLocal EXCEPT !.pc = pc]
             IN l.op = "none" /\ ~l.shallow /\ l.records = IdleLocal.records
  BY DEF IdleLocal
<1>3. /\ Reconciling.op = "fix" /\ ~Reconciling.shallow
      /\ Reconciling.records = IdleLocal.records
  BY DEF Reconciling, IdleLocal
<1> QED
  BY <1>1, <1>2, <1>3

LEMMA DisjointNext ==
    ASSUME IInv, DeletionInv, Disjoint, [Next]_vars
    PROVE  Disjoint'
<1>1. CASE \E p \in Procs : Goes(p) /\ Moves(p) /\ TableKept(p)
  <2>1. PICK p \in Procs : Goes(p) /\ Moves(p) /\ TableKept(p)
    BY <1>1
  <2>2. \A n \in Names \ Deletable : ~db'[n].deleted
    <3> SUFFICES ASSUME NEW n \in Names \ Deletable
                 PROVE  ~db'[n].deleted
      OBVIOUS
    <3>1. ~(DeleteWrite(p) /\ n = local[p].name)
      BY DEF DeleteWrite, At, DeletionInv, Deletion, WithRecord, Disjoint
    <3>2. ~(PurgeRow(p) /\ n \in local[p].todo)
      BY DEF PurgeRow, At, Copying, Disjoint
    <3> QED
      BY <2>1, <3>1, <3>2 DEF TableKept, Raises, Disjoint
  <2>3. confirmed' \subseteq UpsertNames
    BY <2>1 DEF TableKept, UpsertWrite, At, WithRecord, Disjoint
  <2>4. /\ local'[p].op \in DeleteOps => local'[p].names \subseteq Deletable
        /\ local'[p].op \in RequestOps \ DeleteOps =>
              /\ local'[p].todo \subseteq UpsertNames
              /\ local'[p].pc \in WithRecord => local'[p].name \in UpsertNames
        /\ \A n \in Names \ Deletable : ~local'[p].records[n].deleted
        /\ local'[p].op = "purge" /\ local'[p].pc \in Copying => local'[p].todo \subseteq Deletable
    <3>1. CASE GoesOn(local[p], local'[p])
      BY <3>1 DEF GoesOn, Disjoint
    <3>2. CASE Ends(local[p], local'[p]) \/ Starts(p, local[p], local'[p])
      BY <3>2, IdleFields DEF Ends, Starts, DeleteOps, RequestOps
    <3>3. CASE TurnsTo(local[p], local'[p])
      <4>1. local'[p].op \in {"purge", "update", "public ip"}
        BY <3>3 DEF TurnsTo
      <4>2. \A n \in Names \ Deletable : ~local[p].records[n].deleted /\ ~db[n].deleted
        BY DEF Disjoint
      <4>3. \A n \in Names \ Deletable : ~local'[p].records[n].deleted
        BY <3>3, <4>2, IdleFields DEF TurnsTo
      <4>4. ASSUME local'[p].op = "purge", local'[p].pc \in Copying
            PROVE  local'[p].todo \subseteq Deletable
        BY <3>3, <4>2, <4>4 DEF TurnsTo, Copying
      <4> QED
        BY <4>1, <4>3, <4>4 DEF DeleteOps, RequestOps
    <3>4. CASE Asked(p, local'[p])
      BY <3>4, IdleFields DEF Asked, Copying, WithRecord
    <3> QED
      BY <2>1, <3>1, <3>2, <3>3, <3>4 DEF Moves, Moved
  <2> QED
    BY <2>1, <2>2, <2>3, <2>4 DEF Disjoint, Moves, Only
<1>2. CASE Restarts
  <2>1. \A p \in Procs : /\ local'[p].op \in {"none", "fix"}
                         /\ local'[p].records = IdleLocal.records
    BY <1>2, IdleFields DEF Restarts, Booted
  <2> QED
    BY <1>2, <2>1, IdleFields DEF Restarts, Disjoint, DeleteOps, RequestOps, table
<1>3. CASE UNCHANGED <<local, table, confirmed>>
  BY <1>3 DEF Disjoint, table
<1> QED
  BY <1>1, <1>2, <1>3, NextGoes DEF DeletionInv

LEMMA UnreconciledNext ==
    ASSUME IInv, DeletionInv, ReconcilesNothing, Unreconciled, [Next]_vars
    PROVE  Unreconciled'
<1>1. OnDemand \in Procs /\ Scheduled \in Procs /\ OnDemand # Scheduled /\ Clients \cap Loops = {}
  BY ConstantsAssumption DEF Procs, Loops, OnDemand, Scheduled
<1>2. CASE \E p \in Procs : Goes(p) /\ Moves(p) /\ TableKept(p)
  <2>1. PICK p \in Procs : Goes(p) /\ Moves(p) /\ TableKept(p)
    BY <1>2
  <2>2. ~onDemandReconcileAll'
    BY <2>1 DEF TableKept, Unreconciled
  <2>3. ~TurnsTo(local[p], local'[p]) /\ ~Starts(p, local[p], local'[p])
    BY DEF TurnsTo, Starts, Unreconciled, ReconcilesNothing
  <2>4. p \notin Loops
    <3>1. GoesOn(local[p], local'[p]) \/ Ends(local[p], local'[p]) => p \notin Loops
      BY DEF GoesOn, Ends, Down, Unreconciled, Loops
    <3>2. Asked(p, local'[p]) => p \notin Loops
      BY <1>1 DEF Asked
    <3> QED
      BY <2>1, <2>3, <3>1, <3>2 DEF Moves, Moved
  <2>5. /\ local'[p].op \notin ReconcileOps \cup {"upsert", "bulk upsert"}
        /\ ~local'[p].shallow
    <3>1. CASE GoesOn(local[p], local'[p])
      BY <3>1 DEF GoesOn, Unreconciled
    <3>2. CASE Ends(local[p], local'[p])
      BY <3>2 DEF Ends, ReconcileOps, IdleLocal
    <3>3. CASE Asked(p, local'[p])
      BY <3>3, ConstantsAssumption DEF Asked, ReconcilesNothing, RequestOps, ReconcileOps
    <3> QED
      BY <2>1, <2>3, <3>1, <3>2, <3>3 DEF Moves, Moved
  <2> QED
    BY <1>1, <2>1, <2>2, <2>4, <2>5 DEF Unreconciled, Moves, Only, Loops
<1>3. CASE Restarts
  <2>1. \A p \in Procs : local'[p] \in {IdleLocal, [IdleLocal EXCEPT !.pc = "off"]}
    BY <1>3 DEF Restarts, Booted, ReconcilesNothing
  <2>2. local'[OnDemand].pc = "idle" /\ local'[Scheduled].pc = "off"
    BY <1>1, <1>3 DEF Restarts, Booted, ReconcilesNothing, IdleLocal
  <2>3. \A p \in Procs : local'[p].op = "none" /\ ~local'[p].shallow
    BY <2>1 DEF IdleLocal
  <2> QED
    BY <1>3, <2>2, <2>3 DEF Restarts, Unreconciled, ReconcileOps
<1>4. CASE UNCHANGED <<local, onDemandReconcileAll>>
  BY <1>4 DEF Unreconciled
<1> QED
  BY <1>2, <1>3, <1>4, NextGoes DEF DeletionInv

LEMMA InitSeparates ==
    ASSUME Init
    PROVE  Disjoint /\ (ReconcilesNothing => Unreconciled)
<1>1. Disjoint
  <2>1. \A n \in Names : ~db[n].deleted
    BY DEF Init, ZeroRow
  <2>2. \A p \in Procs : /\ local[p].op \in {"none", "fix"}
                         /\ local[p].records = IdleLocal.records
    BY IdleFields DEF Init, Booted
  <2>3. confirmed = {}
    BY DEF Init
  <2> QED
    BY <2>1, <2>2, <2>3, IdleFields DEF Disjoint, DeleteOps, RequestOps
<1>2. ASSUME ReconcilesNothing PROVE Unreconciled
  <2>1. OnDemand \in Procs /\ Scheduled \in Procs /\ OnDemand # Scheduled
    BY DEF Procs, Loops, OnDemand, Scheduled
  <2>2. \A p \in Procs : local[p] \in {IdleLocal, [IdleLocal EXCEPT !.pc = "off"]}
    BY <1>2 DEF Init, Booted, ReconcilesNothing
  <2>3. local[OnDemand].pc = "idle" /\ local[Scheduled].pc = "off"
    BY <1>2, <2>1 DEF Init, Booted, ReconcilesNothing, IdleLocal
  <2>4. \A p \in Procs : local[p].op = "none" /\ ~local[p].shallow
    BY <2>2 DEF IdleLocal
  <2> QED
    BY <2>3, <2>4 DEF Init, Unreconciled, ReconcileOps
<1> QED
  BY <1>1, <1>2

\* Where a purge cannot meet what an upsert has saved, that stays in the table until its
\* deletion is asked for: with any number of requests racing for a name, any errors of
\* the database and any restarts.
THEOREM AcknowledgedStays ==
    DeletesOthers \/ ReconcilesNothing => (Spec => []AcknowledgedUpsertStored)
<1>1. Init => AcknowledgedUpsertStored /\ Disjoint /\ (ReconcilesNothing => Unreconciled)
  BY InitSeparates DEF Init, AcknowledgedUpsertStored
<1>2. ASSUME IInv, DeletionInv, AcknowledgedUpsertStored, [Next]_vars,
             \A n \in confirmed : ~Purges(n)
      PROVE  AcknowledgedUpsertStored'
  <2> SUFFICES ASSUME NEW n \in confirmed' PROVE Live(n)'
    BY DEF AcknowledgedUpsertStored
  <2>1. ~Purges(n) \/ n \notin confirmed
    BY <1>2
  <2>2. n \in confirmed => Live(n)
    BY <1>2 DEF AcknowledgedUpsertStored
  <2>3. CASE n \in confirmed
    BY <1>2, <2>1, <2>2, <2>3, LiveKept
  <2>4. CASE n \notin confirmed
    <3>1. PICK p \in Procs : UpsertWrite(p) /\ n = local[p].name /\ TableKept(p)
      BY <1>2, <2>4, NextGoes DEF DeletionInv, TableKept, Restarts
    <3> QED
      BY <3>1 DEF TableKept, Raises, Live, HasRow
  <2> QED
    BY <2>3, <2>4
<1>3. CASE DeletesOthers
  <2>1. Disjoint => \A n \in confirmed : ~Purges(n)
    BY <1>3 DEF DeletesOthers, Disjoint, Purges, PurgeRow, At, Copying
  <2>2. IInv /\ DeletionInv /\ Disjoint /\ AcknowledgedUpsertStored /\ [Next]_vars
          => Disjoint' /\ AcknowledgedUpsertStored'
    BY <1>2, <2>1, DisjointNext
  <2> QED
    BY <1>1, <2>2, Invariance, DeletionInvariance, PTL DEF Spec
<1>4. CASE ReconcilesNothing
  <2>1. Unreconciled => \A n \in confirmed : ~Purges(n)
    BY DEF Unreconciled, Purges, PurgeRow, At, ReconcileOps
  <2>2. IInv /\ DeletionInv /\ Unreconciled /\ AcknowledgedUpsertStored /\ [Next]_vars
          => Unreconciled' /\ AcknowledgedUpsertStored'
    BY <1>2, <1>4, <2>1, UnreconciledNext
  <2>3. Init => Unreconciled
    BY <1>1, <1>4
  <2> QED
    BY <1>1, <2>2, <2>3, Invariance, DeletionInvariance, PTL DEF Spec
<1> QED
  BY <1>3, <1>4

-----------------------------------------------------------------------------
(* The table is a RecordStore.                                             *)

\* A record is taken off the list before its row is read.
AtHand == \A p \in Procs : local[p].pc = "write" => local[p].name \notin local[p].todo

LEMMA AtHandNext ==
    ASSUME IInv, DeletionInv, AtHand, [Next]_vars
    PROVE  AtHand'
<1>1. IdleLocal.pc = "idle" /\ Reconciling.pc = "connect"
      /\ \A pc : [IdleLocal EXCEPT !.pc = pc].pc = pc
  BY DEF IdleLocal, Reconciling
<1>2. ASSUME NEW p \in Procs, Moves(p), local'[p].pc = "write"
      PROVE  local'[p].name \notin local'[p].todo
  BY <1>1, <1>2 DEF Moves, Moved, GoesOn, Ends, TurnsTo, Asked, Starts
<1>3. Restarts => \A p \in Procs : local'[p].pc # "write"
  BY <1>1 DEF Restarts, Booted
<1> QED
  BY <1>2, <1>3, NextGoes DEF AtHand, Moves, Only, DeletionInv

stored == [n \in Names |-> IF Live(n) THEN db[n].value ELSE Absent]
task == [p \in Procs |-> Task(local[p])]

LEMMA StoreKept ==
    ASSUME UNCHANGED db
    PROVE  UNCHANGED stored
BY DEF stored, Live, HasRow

LEMMA TaskBecomes ==
    ASSUME NEW p \in Procs, Only(p)
    PROVE  task' = [task EXCEPT ![p] = Task(local'[p])]
BY DEF task, Only

LEMMA TaskOf ==
    ASSUME NEW l
    PROVE  /\ l.pc \in Down \cup {"clear flag", "snapshot", "returned"} => Task(l) = NoTask
           /\ l.op \in {"update", "none", "refresh"} => Task(l) = NoTask
           /\ l.pc \in OnRecords \cup Copying =>
                /\ l.op \in DeleteOps => Task(l) = DeleteTask(Ahead(l))
                /\ l.op \in SessionOps \ DeleteOps => Task(l) = WriteTask(Ahead(l), l.value)
                /\ l.op = "purge" => Task(l) = CleanUpTask(ToPurge(l))
BY DEF Task, Down, OnRecords, Copying, DeleteOps, SessionOps

\* What the steps of a RecordStore come down to, for a goroutine whose task becomes t.
LEMMA StoreEnds ==
    ASSUME NEW p \in Procs, UNCHANGED stored, task' = [task EXCEPT ![p] = NoTask]
    PROVE  Store!End(p)
BY DEF Store!End, Store!Becomes, Store!NoTask, NoTask, stored, task

LEMMA StoreTakes ==
    ASSUME NEW p \in Procs, NEW t \in RecordRequests, task[p] = NoTask,
           UNCHANGED stored, task' = [task EXCEPT ![p] = t]
    PROVE  Store!Take(p)
BY DEF Store!Take, Store!Becomes, Store!NoTask, NoTask, stored, task

LEMMA StoreLooks ==
    ASSUME NEW p \in Procs, NEW T \in SUBSET {n \in Names : stored[n] = Absent},
           task[p] = NoTask, UNCHANGED stored, task' = [task EXCEPT ![p] = CleanUpTask(T)]
    PROVE  Store!Look(p)
<1>1. (/\ task[p] = NoTask
       /\ \E U \in SUBSET {n \in Names : stored[n] = Absent} :
             task' = [task EXCEPT ![p] = CleanUpTask(U)]
       /\ UNCHANGED stored) => Store!Look(p)
  BY DEF Store!Look, Store!Becomes, Store!NoTask, NoTask, CleanUpTask, stored, task
<1> QED
  BY <1>1

LEMMA FewerNames ==
    ASSUME NEW kind, NEW T, NEW U, NEW v
    PROVE  LET t == [kind |-> kind, names |-> T, value |-> v]
           IN /\ t.kind = kind /\ t.names = T /\ t.value = v
              /\ [kind |-> kind, names |-> U, value |-> v] = [t EXCEPT !.names = U]
OBVIOUS

LEMMA StoreSkips ==
    ASSUME NEW p \in Procs, NEW kind, NEW T, NEW U \in SUBSET T, NEW v,
           task[p] = [kind |-> kind, names |-> T, value |-> v],
           task' = [task EXCEPT ![p] = [kind |-> kind, names |-> U, value |-> v]],
           UNCHANGED stored
    PROVE  Store!Skip(p)
<1>1. (/\ \E X \in SUBSET task[p].names :
             task' = [task EXCEPT ![p] = [task[p] EXCEPT !.names = X]]
       /\ UNCHANGED stored) => Store!Skip(p)
  BY DEF Store!Skip, Store!Becomes, stored, task
<1>2. /\ task[p].names = T
      /\ [task[p] EXCEPT !.names = U] = [kind |-> kind, names |-> U, value |-> v]
  BY FewerNames
<1> QED
  BY <1>1, <1>2

LEMMA StoreWrites ==
    ASSUME NEW p \in Procs, NEW T, NEW n \in T, NEW v,
           task[p] = [kind |-> "write", names |-> T, value |-> v],
           task' = [task EXCEPT ![p] = [kind |-> "write", names |-> T \ {n}, value |-> v]],
           stored' = [stored EXCEPT ![n] = v]
    PROVE  Store!Write(p, n)
<1>1. (/\ task[p].kind = "write" /\ n \in task[p].names
       /\ stored' = [stored EXCEPT ![n] = task[p].value]
       /\ task' = [task EXCEPT ![p] = [task[p] EXCEPT !.names = @ \ {n}]])
         => Store!Write(p, n)
  BY Zenon DEF Store!Write, Store!DoneWith, Store!Becomes, stored, task
<1>2. /\ task[p].kind = "write" /\ task[p].names = T /\ task[p].value = v
      /\ [task[p] EXCEPT !.names = T \ {n}]
           = [kind |-> "write", names |-> T \ {n}, value |-> v]
  BY FewerNames
<1> QED
  BY <1>1, <1>2

LEMMA StoreRemoves ==
    ASSUME NEW p \in Procs, NEW T, NEW n \in T, NEW kind, NEW v,
           task[p] = [kind |-> kind, names |-> T, value |-> v],
           task' = [task EXCEPT ![p] = [kind |-> kind, names |-> T \ {n}, value |-> v]],
           stored' = [stored EXCEPT ![n] = Absent]
    PROVE  kind \in {"delete", "clean up"} => Store!Remove(p, n)
<1>1. (/\ task[p].kind \in {"delete", "clean up"} /\ n \in task[p].names
       /\ stored' = [stored EXCEPT ![n] = Absent]
       /\ task' = [task EXCEPT ![p] = [task[p] EXCEPT !.names = @ \ {n}]])
         => Store!Remove(p, n)
  BY Zenon DEF Store!Remove, Store!DoneWith, Store!Becomes, stored, task
<1>2. /\ task[p].kind = kind /\ task[p].names = T
      /\ [task[p] EXCEPT !.names = T \ {n}]
           = [kind |-> kind, names |-> T \ {n}, value |-> v]
  BY FewerNames
<1> QED
  BY <1>1, <1>2

LEMMA ReconcilingTask == Task(Reconciling) = WriteTask({Self}, SelfValue)
<1>1. /\ Reconciling.pc = "connect" /\ Reconciling.op = "fix"
      /\ Reconciling.todo = {Self} /\ Reconciling.value = SelfValue
  BY DEF Reconciling, IdleLocal
<1>2. Ahead(Reconciling) = {Self}
  BY <1>1, ConstantsAssumption DEF Ahead
<1> QED
  BY <1>1, <1>2, TaskOf DEF OnRecords, SessionOps, DeleteOps

\* What the locals of a goroutine become where the table stays as it is.
LEMMA MovesRecords ==
    ASSUME IInv, IInv', NEW p \in Procs, Moves(p), UNCHANGED db
    PROVE  Store!End(p) \/ Store!Take(p) \/ Store!Look(p) \/ Store!Skip(p)
<1> DEFINE l == local[p]
           k == local'[p]
<1>1. l \in Local /\ Addressed(l) /\ k \in Local
  BY DEF IInv, TypeOK
<1>2. UNCHANGED stored /\ task' = [task EXCEPT ![p] = Task(k)]
  BY StoreKept, TaskBecomes DEF Moves
<1>3. task[p] = Task(l)
  BY DEF task
<1> HIDE DEF l, k
<1>4. Task(k) = NoTask => Store!End(p)
  BY <1>2, StoreEnds
<1>5. Task(l) = NoTask /\ Task(k) \in RecordRequests => Store!Take(p)
  BY <1>2, <1>3, StoreTakes
<1>6. ASSUME NEW kind, NEW T, NEW U \in SUBSET T, NEW v,
             Task(l) = [kind |-> kind, names |-> T, value |-> v],
             Task(k) = [kind |-> kind, names |-> U, value |-> v]
      PROVE  Store!Skip(p)
  BY <1>2, <1>3, <1>6, StoreSkips
<1>7. CASE GoesOn(l, k)
  <2>1. CASE k.pc \in Down \cup {"clear flag", "snapshot", "returned"}
    BY <1>4, <2>1, TaskOf
  <2>2. CASE k.op \in {"update", "none", "refresh"}
    BY <1>4, <2>2, TaskOf
  <2>3. CASE /\ k.pc \in (OnRecords \ {"connect"}) \cup Copying
             /\ k.op \in SessionOps \cup {"purge"}
    <3>1. l.pc \in OnRecords \cup Copying /\ k.op = l.op /\ k.value = l.value
      BY <1>7, <2>3 DEF GoesOn
    <3>2. Ahead(k) \subseteq Ahead(l)
      BY <1>7 DEF GoesOn, Ahead, OnRecords
    <3>3. k.op = "purge" => ToPurge(k) \subseteq ToPurge(l)
      BY <1>7, <2>3 DEF GoesOn, ToPurge, OnRecords, Copying
    <3>4. CASE k.op \in DeleteOps
      <4>1. Task(l) = DeleteTask(Ahead(l)) /\ Task(k) = DeleteTask(Ahead(k))
        BY <2>3, <3>1, <3>4, TaskOf
      <4> QED
        BY <1>6, <3>2, <4>1 DEF DeleteTask
    <3>5. CASE k.op \in SessionOps \ DeleteOps
      <4>1. Task(l) = WriteTask(Ahead(l), l.value) /\ Task(k) = WriteTask(Ahead(k), l.value)
        BY <2>3, <3>1, <3>5, TaskOf
      <4> QED
        BY <1>6, <3>2, <4>1 DEF WriteTask
    <3>6. CASE k.op = "purge"
      <4>1. Task(l) = CleanUpTask(ToPurge(l)) /\ Task(k) = CleanUpTask(ToPurge(k))
        BY <2>3, <3>1, <3>6, TaskOf
      <4> QED
        BY <1>6, <3>3, <3>6, <4>1 DEF CleanUpTask
    <3> QED
      BY <2>3, <3>4, <3>5, <3>6
  <2>4. k.pc \in PCs \ {"connect"} /\ k.op \in Ops
    BY <1>1, <1>7 DEF Local, GoesOn
  <2> QED
    BY <2>1, <2>2, <2>3, <2>4 DEF PCs, Ops, RequestOps, ReconcileOps, SessionOps, OnRecords,
                                  Copying, Down
<1>8. CASE Ends(l, k)
  BY <1>4, <1>8, TaskOf DEF Ends, IdleLocal, Down
<1>9. CASE TurnsTo(l, k)
  <2>1. CASE k.op = "update" \/ k.pc = "returned"
    BY <1>4, <2>1, TaskOf
  <2>2. CASE k.op = "purge" /\ k.pc = "connect"
    <3> DEFINE gone == {n \in Names : db[n].id # 0 /\ db[n].deleted}
    <3>1. Task(l) = NoTask /\ Task(k) = CleanUpTask(gone)
      BY <1>9, <2>2, TaskOf DEF TurnsTo, ToPurge, OnRecords, PublicIP
    <3>2. gone \subseteq {n \in Names : stored[n] = Absent}
      BY DEF stored, Live
    <3> HIDE DEF gone
    <3> QED
      BY <1>2, <1>3, <3>1, <3>2, StoreLooks
  <2>3. CASE k.op = "purge" /\ k.pc = "push"
    <3>1. Task(l) = CleanUpTask(ToPurge(l)) /\ Task(k) = CleanUpTask(ToPurge(k))
      BY <1>9, <2>3, TaskOf DEF TurnsTo, OnRecords, Copying
    <3>2. ToPurge(k) \subseteq ToPurge(l)
      BY <1>9, <2>3 DEF TurnsTo, ToPurge
    <3> QED
      BY <1>6, <3>1, <3>2 DEF CleanUpTask
  <2>4. CASE k.op = "public ip" /\ k.pc = "connect"
    <3>1. l.pc = "returned" /\ k.todo = ApexNames /\ k.value \in PublicAddresses
      BY <1>9, <2>4 DEF TurnsTo
    <3>2. Ahead(k) = ApexNames
      BY <2>4, <3>1, ConstantsAssumption DEF Ahead
    <3>3. Task(l) = NoTask /\ Task(k) = WriteTask(ApexNames, k.value)
      BY <2>4, <3>1, <3>2, TaskOf DEF OnRecords, SessionOps, DeleteOps
    <3> QED
      BY <1>5, <3>1, <3>3 DEF RecordRequests
  <2> QED
    BY <1>9, <2>1, <2>2, <2>3, <2>4 DEF TurnsTo
<1>10. CASE Asked(p, k)
  <2>1. l.pc = "idle" /\ k.pc = "connect" /\ k.op \in Operations \ {"refresh"}
        /\ k.todo = k.names
    BY <1>10 DEF Asked, l
  <2>2. Task(l) = NoTask /\ Ahead(k) = k.names \cap Names
    BY <2>1, TaskOf DEF Down, Ahead
  <2>3. CASE k.op \in DeleteOps
    <3>1. k.names \subseteq DeleteNames
      BY <1>10, <2>3 DEF Asked, Deletable
    <3>2. Task(k) = DeleteTask(k.names \cap Names)
      BY <2>1, <2>2, <2>3, TaskOf DEF OnRecords
    <3> QED
      BY <1>5, <2>2, <3>1, <3>2 DEF RecordRequests
  <2>4. CASE k.op \notin DeleteOps
    <3>1. k.names \subseteq UpsertNames /\ k.value \in Values
      BY <1>10, <2>4 DEF Asked
    <3>2. k.op \in SessionOps
      BY <2>1, ConstantsAssumption DEF RequestOps, SessionOps
    <3>3. Ahead(k) = k.names
      BY <2>2, <3>1, ConstantsAssumption
    <3>4. Task(k) = WriteTask(k.names, k.value)
      BY <2>1, <2>4, <3>2, <3>3, TaskOf DEF OnRecords
    <3> QED
      BY <1>5, <2>2, <3>1, <3>4 DEF RecordRequests
  <2> QED
    BY <2>3, <2>4
<1>11. CASE Starts(p, l, k)
  <2>1. CASE k = Reconciling /\ l.pc \in {"idle", "clear flag"}
    <3>1. Task(l) = NoTask /\ Task(k) = WriteTask({Self}, SelfValue)
      BY <2>1, TaskOf, ReconcilingTask DEF Down
    <3> QED
      BY <1>5, <3>1 DEF RecordRequests
  <2>2. CASE k = [IdleLocal EXCEPT !.pc = "clear flag"]
    BY <1>4, <2>2, TaskOf DEF IdleLocal
  <2> QED
    BY <1>11, <2>1, <2>2 DEF Starts
<1> QED
  BY <1>7, <1>8, <1>9, <1>10, <1>11 DEF Moves, Moved, l, k

\* A statement about one row changes what is stored under one name.
LEMMA StoredBecomes ==
    ASSUME NEW n \in Names, \A m \in Names \ {n} : db'[m] = db[m]
    PROVE  stored' = [stored EXCEPT ![n] = IF Raises(n) THEN db'[n].value ELSE Absent]
BY DEF stored, Live, HasRow, Raises

LEMMA UpsertIsWrite ==
    ASSUME IInv, AtHand, NEW p \in Procs, UpsertWrite(p), TableKept(p)
    PROVE  \E n \in Names : Store!Write(p, n)
<1> DEFINE l == local[p]
           k == local'[p]
<1>1. /\ l \in Local /\ Addressed(l) /\ l.pc = "write" /\ l.op \in SessionOps \ DeleteOps
      /\ l.name \notin l.todo /\ db \in [Names -> Row]
  BY DEF IInv, TypeOK, AtHand, UpsertWrite, At
<1>2. l.name \in Names
  BY <1>1 DEF Addressed
<1>3. PICK m \in Local : m.op = l.op /\ m.todo = l.todo /\ m.value = l.value
                         /\ Become(p, Continue(m))
  BY UpsertContinues
<1>4. k = Continue(m) /\ Only(p)
  BY <1>3, Became
<1>5. stored' = [stored EXCEPT ![l.name] = l.value]
  <2>1. Save(l.name, l.id, l.value)
    BY DEF UpsertWrite
  <2>2. db'[l.name].value = l.value /\ \A n \in Names \ {l.name} : db'[n] = db[n]
    BY <1>1, <1>2, <2>1 DEF Save
  <2>3. Raises(l.name)
    BY DEF TableKept
  <2> QED
    BY <1>2, <2>2, <2>3, StoredBecomes
<1>6. task' = [task EXCEPT ![p] = Task(k)] /\ task[p] = Task(l)
  BY <1>4, TaskBecomes DEF task
<1> HIDE DEF l, k
<1>7. /\ k.op = l.op /\ k.todo = l.todo /\ k.value = l.value
      /\ k.pc \in {"lookup", "finished", "push"} /\ (k.pc = "lookup" \/ k.todo = {})
  BY <1>3, <1>4 DEF Continue, Local
<1>8. Ahead(k) = Ahead(l) \ {l.name} /\ l.name \in Ahead(l)
  BY <1>1, <1>2, <1>7 DEF Ahead
<1>9. Task(l) = WriteTask(Ahead(l), l.value) /\ Task(k) = WriteTask(Ahead(k), l.value)
  BY <1>1, <1>7, TaskOf DEF OnRecords, Copying
<1>10. /\ task[p] = [kind |-> "write", names |-> Ahead(l), value |-> l.value]
       /\ task' = [task EXCEPT ![p] = [kind |-> "write", names |-> Ahead(l) \ {l.name},
                                       value |-> l.value]]
  BY <1>6, <1>8, <1>9 DEF WriteTask
<1>11. PICK n \in Names : n = l.name
  BY <1>2 DEF l
<1>12. Store!Write(p, n)
  BY <1>5, <1>8, <1>10, <1>11, StoreWrites
<1> QED
  BY <1>12

LEMMA DeleteIsRemove ==
    ASSUME IInv, AtHand, NEW p \in Procs, DeleteWrite(p)
    PROVE  Store!Skip(p) \/ \E n \in Names : Store!Remove(p, n)
<1> DEFINE l == local[p]
           k == [l EXCEPT !.pc = "list", !.entries = CoreDNSDelete(@, {l.name})]
<1>1. /\ l \in Local /\ l.pc = "write" /\ l.op \in DeleteOps /\ l.name \notin l.todo
      /\ db \in [Names -> Row]
  BY DEF IInv, TypeOK, AtHand, DeleteWrite, At
<1>2. Become(p, k) /\ k.op = l.op /\ k.todo = l.todo /\ k.pc = "list"
  BY <1>1 DEF DeleteWrite, Local
<1> HIDE DEF k
<1>3. task' = [task EXCEPT ![p] = Task(k)] /\ task[p] = Task(l)
  BY <1>2, Became, TaskBecomes DEF task
<1>4. SoftDelete(l.name, l.id)
  BY DEF DeleteWrite
<1> HIDE DEF l
<1>5. Ahead(k) = Ahead(l) \ {l.name}
  BY <1>1, <1>2 DEF Ahead
<1>6. Task(l) = DeleteTask(Ahead(l)) /\ Task(k) = DeleteTask(Ahead(k))
  BY <1>1, <1>2, TaskOf DEF OnRecords, Copying
<1>7. CASE UNCHANGED db
  BY <1>3, <1>5, <1>6, <1>7, StoreKept, StoreSkips DEF DeleteTask
<1>8. CASE l.name \in Names /\ db' = [db EXCEPT ![l.name].deleted = TRUE]
  <2>1. PICK n \in Names : n = l.name
    BY <1>8
  <2>2. n \in Ahead(l) /\ Ahead(k) = Ahead(l) \ {n}
    BY <1>1, <1>5, <2>1 DEF Ahead
  <2>3. db'[n].deleted /\ \A m \in Names \ {n} : db'[m] = db[m]
    BY <1>1, <1>8, <2>1 DEF Row
  <2>4. stored' = [stored EXCEPT ![n] = Absent]
    BY <2>3, StoredBecomes DEF Raises
  <2>5. /\ task[p] = [kind |-> "delete", names |-> Ahead(l), value |-> Absent]
        /\ task' = [task EXCEPT ![p] =
                      [kind |-> "delete", names |-> Ahead(l) \ {n}, value |-> Absent]]
    BY <1>3, <1>6, <2>2 DEF DeleteTask
  <2>6. Store!Remove(p, n)
    BY <2>2, <2>4, <2>5, StoreRemoves
  <2> QED
    BY <2>6
<1> QED
  BY <1>4, <1>7, <1>8 DEF SoftDelete

LEMMA PurgeIsRemove ==
    ASSUME IInv, NEW p \in Procs, PurgeRow(p)
    PROVE  Store!Skip(p) \/ \E n \in Names : Store!Remove(p, n)
<1> DEFINE l == local[p]
           k(n) == [l EXCEPT !.todo = @ \ {n}]
<1>1. /\ l \in Local /\ Addressed(l) /\ l.pc = "finished" /\ l.op = "purge"
      /\ db \in [Names -> Row]
  BY DEF IInv, TypeOK, PurgeRow, At
<1>2. PICK n \in l.todo : /\ HardDelete(n, l.records[n].id) \/ UNCHANGED db
                          /\ Become(p, k(n))
  BY DEF PurgeRow
<1>3. k(n).op = l.op /\ k(n).todo = l.todo \ {n} /\ k(n).pc = l.pc
  BY <1>1 DEF Local
<1> HIDE DEF k
<1>4. task' = [task EXCEPT ![p] = Task(k(n))] /\ task[p] = Task(l)
  BY <1>2, Became, TaskBecomes DEF task
<1> HIDE DEF l
<1>5. n \in Names
  BY <1>1 DEF Addressed, DeleteOps
<1>6. Task(l) = CleanUpTask(l.todo) /\ Task(k(n)) = CleanUpTask(l.todo \ {n})
  BY <1>1, <1>3, TaskOf DEF Copying, ToPurge
<1>7. CASE UNCHANGED db
  BY <1>4, <1>6, <1>7, StoreKept, StoreSkips DEF CleanUpTask
<1>8. CASE db' = [db EXCEPT ![n] = ZeroRow]
  <2>1. db'[n].id = 0 /\ \A m \in Names \ {n} : db'[m] = db[m]
    BY <1>1, <1>5, <1>8 DEF ZeroRow
  <2>2. stored' = [stored EXCEPT ![n] = Absent]
    BY <1>5, <2>1, StoredBecomes DEF Raises
  <2>3. /\ task[p] = [kind |-> "clean up", names |-> l.todo, value |-> Absent]
        /\ task' = [task EXCEPT ![p] =
                      [kind |-> "clean up", names |-> l.todo \ {n}, value |-> Absent]]
    BY <1>4, <1>6 DEF CleanUpTask
  <2>4. Store!Remove(p, n)
    BY <2>2, <2>3, StoreRemoves
  <2> QED
    BY <1>5, <2>4
<1> QED
  BY <1>2, <1>7, <1>8 DEF HardDelete

LEMMA BootedTasks ==
    /\ WriteTask({Self}, SelfValue) \in RecordRequests
    /\ \A p \in Procs : Task(Booted[p]) \in {WriteTask({Self}, SelfValue), NoTask}
<1>1. Task(IdleLocal) = NoTask /\ Task([IdleLocal EXCEPT !.pc = "off"]) = NoTask
  BY TaskOf DEF IdleLocal, Down
<1> QED
  BY <1>1, ReconcilingTask DEF Booted, RecordRequests

LEMMA InitRecords ==
    ASSUME Init
    PROVE  Store!Init
<1>1. task \in [Procs -> {WriteTask({Self}, SelfValue)} \cup {NoTask}]
  BY BootedTasks DEF Init, task
<1>2. SelfValue \in {t.value : t \in RecordRequests}
  BY BootedTasks DEF WriteTask
<1>3. stored \in [Names -> {Absent} \cup {t.value : t \in RecordRequests}]
  BY <1>2 DEF Init, stored, ZeroRow
<1> QED
  BY <1>1, <1>3 DEF Store!Init, Store!NoTask, NoTask, stored, task

LEMMA StepRecords ==
    ASSUME IInv, DeletionInv, AtHand, [Next]_vars
    PROVE  [Store!Next]_(Store!vars)
<1>1. IInv'
  BY NextInv
<1>2. CASE \E p \in Procs : Goes(p) /\ Moves(p) /\ TableKept(p)
  <2>1. PICK p \in Procs : Goes(p) /\ Moves(p) /\ TableKept(p)
    BY <1>2
  <2>2. CASE UpsertWrite(p)
    BY <2>1, <2>2, UpsertIsWrite DEF Store!Next
  <2>3. CASE DeleteWrite(p)
    BY <2>3, DeleteIsRemove DEF Store!Next
  <2>4. CASE PurgeRow(p)
    BY <2>4, PurgeIsRemove DEF Store!Next
  <2>5. CASE ~UpsertWrite(p) /\ ~DeleteWrite(p) /\ ~PurgeRow(p)
    <3>1. UNCHANGED db
      BY <1>1, <2>1, <2>5 DEF TableKept, IInv, TypeOK
    <3>2. Store!End(p) \/ Store!Take(p) \/ Store!Look(p) \/ Store!Skip(p)
      BY <1>1, <2>1, <3>1, MovesRecords
    <3> QED
      BY <3>2 DEF Store!Next
  <2> QED
    BY <2>2, <2>3, <2>4, <2>5
<1>3. CASE Restarts
  <2>1. UNCHANGED stored
    BY <1>3, StoreKept DEF Restarts, table
  <2>2. task' \in [Procs -> {WriteTask({Self}, SelfValue)} \cup {NoTask}]
    BY <1>3, BootedTasks DEF Restarts, task
  <2>3. Store!Restart
    BY <2>1, <2>2 DEF Store!Restart, Store!NoTask, NoTask, stored, task
  <2> QED
    BY <2>3 DEF Store!Next
<1>4. CASE UNCHANGED <<local, table, confirmed, onDemandReconcileAll>>
  <2>1. UNCHANGED stored
    BY <1>4, StoreKept DEF table
  <2>2. UNCHANGED task
    BY <1>4 DEF task
  <2> QED
    BY <2>1, <2>2 DEF Store!vars, stored, task
<1> QED
  BY <1>2, <1>3, <1>4, NextGoes DEF DeletionInv

\* Every behaviour of the server, whatever interleaves, fails or restarts, is one of the
\* record store: sessions, ids, mirrors and flags are invisible; a visible value changes
\* only to what a request or loop at work carries, once for each of its names, or goes
\* by a purge of what was deleted when the table was read.
THEOREM ShimikoIsRecordStore == Spec => ImplementsRecordStore
<1>1. Init => AtHand
  BY DEF Init, AtHand, Booted, IdleLocal, Reconciling
<1> QED
  BY <1>1, AtHandNext, InitRecords, StepRecords, Invariance, DeletionInvariance, PTL
     DEF Spec, ImplementsRecordStore, Store!Spec

=============================================================================
