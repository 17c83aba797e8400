--------------------------- MODULE ShimikoProofs ---------------------------
(* Theorems about Shimiko, for every value of its constants. *)
EXTENDS Shimiko, TLAPS

\* Only a request to delete may carry a name that is not a row's, and only FixMyself
\* leads to the read of the table: TypeOK is not inductive without this, since an
\* upsert records the name it saved in confirmed.
Addressed(l) ==
    /\ l.op \notin DeleteOps => l.todo \subseteq Names /\ l.name \in Names
    /\ l.pc = "snapshot" => l.op = "fix"

IInv == TypeOK /\ \A p \in Procs : Addressed(local[p])

-----------------------------------------------------------------------------
(* Lemmas on the operators of the sessions.                                *)

LEMMA CoreDNSUpsertType ==
    ASSUME NEW entries \in Zone, NEW T, NEW values \in [T -> MaybeValue]
    PROVE  CoreDNSUpsert(entries, values) \in Zone
BY DEF CoreDNSUpsert, Zone

LEMMA CoreDNSDeleteType ==
    ASSUME NEW entries \in Zone, NEW T
    PROVE  CoreDNSDelete(entries, T) \in Zone
BY DEF CoreDNSDelete, Zone, MaybeValue

LEMMA PreambleType ==
    ASSUME NEW entries \in Zone
    PROVE  GenerateZonePreamble(entries) \in Zone
BY CoreDNSDeleteType DEF GenerateZonePreamble

LEMMA Route53UpsertType ==
    ASSUME NEW batch \in Batch, NEW T, NEW values \in [T -> MaybeValue]
    PROVE  Route53Upsert(batch, values) \in Batch
BY DEF Route53Upsert, Batch, Change

LEMMA Route53DeleteType ==
    ASSUME NEW batch \in Batch, NEW T, route53 \in Zone
    PROVE  Route53Delete(batch, T) \in Batch
BY DEF Route53Delete, Batch, Change, Zone

LEMMA EmptyBatchType == EmptyBatch \in Batch
BY DEF EmptyBatch, Batch, Change, NoChange, MaybeValue

LEMMA ApplyBatchType ==
    ASSUME NEW batch \in Batch, route53 \in Zone
    PROVE  ApplyBatch(batch) \in Zone
BY DEF ApplyBatch, Batch, Change, Zone, MaybeValue

LEMMA IdleLocalType == IdleLocal \in Local
<1>1. EmptyZone \in Zone /\ EmptyBatch \in Batch
  BY EmptyBatchType DEF EmptyZone, Zone, MaybeValue
<1>2. Self \in Targets /\ Absent \in MaybeValue /\ [n \in Names |-> ZeroRow] \in [Names -> Row]
  BY ConstantsAssumption DEF Targets, MaybeValue, Row, ZeroRow
<1>3. "idle" \in PCs /\ "none" \in Ops
  BY DEF PCs, Ops
<1> QED
  BY <1>1, <1>2, <1>3 DEF IdleLocal, Local

LEMMA ReconcilingType == Reconciling \in Local
<1>1. "connect" \in PCs /\ "fix" \in Ops
  BY DEF PCs, Ops, ReconcileOps
<1>2. {Self} \subseteq Targets /\ SelfValue \in MaybeValue
  BY ConstantsAssumption DEF Targets, MaybeValue
<1> QED
  BY <1>1, <1>2, IdleLocalType DEF Reconciling, Local

LEMMA ContinueType ==
    ASSUME NEW l \in Local
    PROVE  Continue(l) \in Local
BY DEF Continue, Local, PCs

LEMMA GiveUpType ==
    ASSUME NEW l \in Local
    PROVE  GiveUp(l) \in Local
<1>1. [l EXCEPT !.hasError = TRUE] \in Local /\ [l EXCEPT !.pc = "returned"] \in Local
  BY DEF Local, PCs
<1> QED
  BY <1>1, ContinueType, IdleLocalType DEF GiveUp

LEMMA BootedType == Booted \in [Procs -> Local]
<1>1. [IdleLocal EXCEPT !.pc = "off"] \in Local
  BY IdleLocalType DEF Local, PCs
<1> QED
  BY <1>1, IdleLocalType, ReconcilingType DEF Booted

\* What a step does to the goroutines' locals is Become: the new locals are enough.
LEMMA BecomeType ==
    ASSUME IInv, NEW p \in Procs, NEW l \in Local, Addressed(l), Become(p, l)
    PROVE  /\ local' \in [Procs -> Local]
           /\ \A q \in Procs : Addressed(local'[q])
           /\ local'[p] = l
BY DEF IInv, TypeOK, Become, Addressed

LEMMA AddressedIdle == Addressed(IdleLocal) /\ Addressed(Reconciling)
BY ConstantsAssumption DEF Addressed, IdleLocal, Reconciling

LEMMA AddressedContinue ==
    ASSUME NEW l \in Local, Addressed(l)
    PROVE  Addressed(Continue(l)) /\ Addressed(GiveUp(l))
<1>1. /\ [l EXCEPT !.hasError = TRUE] \in Local
      /\ Addressed([l EXCEPT !.hasError = TRUE])
  BY DEF Local, Addressed
<1>2. \A k \in Local : Addressed(k) => Addressed(Continue(k))
  BY DEF Local, Addressed, Continue
<1>3. Addressed([l EXCEPT !.pc = "returned"])
  BY DEF Local, Addressed
<1> QED
  BY <1>1, <1>2, <1>3, AddressedIdle DEF GiveUp

LEMMA FaultsType ==
    ASSUME TypeOK, Works \/ Fails
    PROVE  faults' \in Nat
BY DEF TypeOK, Works, Fails

LEMMA SaveType ==
    ASSUME TypeOK, NEW n \in Names, NEW id \in Nat, NEW v \in MaybeValue, Save(n, id, v)
    PROVE  db' \in [Names -> Row] /\ nextId' \in Nat
BY DEF TypeOK, Save, Row

LEMMA DeleteType ==
    ASSUME TypeOK, NEW n, NEW id, SoftDelete(n, id) \/ HardDelete(n, id)
    PROVE  db' \in [Names -> Row]
<1>1. ZeroRow \in Row
  BY DEF ZeroRow, Row, MaybeValue
<1> QED
  BY <1>1 DEF TypeOK, SoftDelete, HardDelete, Row

LEMMA LookedUpType ==
    ASSUME TypeOK, NEW t
    PROVE  First(t) \in Row /\ FirstUnscoped(t) \in Row /\ ZeroRow \in Row
<1>1. ZeroRow \in Row
  BY DEF ZeroRow, Row, MaybeValue
<1> QED
  BY <1>1 DEF TypeOK, First, FirstUnscoped

LEMMA TornType ==
    ASSUME TypeOK, NEW l \in Local, Torn(l)
    PROVE  zone' \in [Hosts -> Zone] /\ garbled' \subseteq Hosts
<1>1. \A kept \in SUBSET Names :
         CoreDNSDelete(GenerateZonePreamble(l.entries), Names \ kept) \in Zone
  BY PreambleType, CoreDNSDeleteType DEF Local
<1>2. CoreDNSHosts[l.host] \in Hosts
  BY DEF Local, CoreDNSHosts, Hosts
<1> QED
  BY <1>1, <1>2 DEF TypeOK, Torn, files

LEMMA ObserveType ==
    ASSUME NEW p, Observe(p), TypeOK
    PROVE  alone' \in [Procs -> BOOLEAN]
BY DEF Observe, TypeOK

\* Only p has moved.
Only(p) == \A q \in Procs \ {p} : local'[q] = local[q]

LEMMA Became ==
    ASSUME IInv, NEW p \in Procs, NEW l, Become(p, l)
    PROVE  local'[p] = l /\ Only(p)
BY DEF IInv, TypeOK, Become, Only

LEMMA OpKept ==
    ASSUME NEW l \in Local
    PROVE  Continue(l).op = l.op /\ GiveUp(l).op \in {l.op, "none"}
<1>1. \A k \in Local : Continue(k).op = k.op
  BY DEF Continue, Local
<1>2. [l EXCEPT !.hasError = TRUE] \in Local /\ [l EXCEPT !.hasError = TRUE].op = l.op
  BY DEF Local
<1> QED
  BY <1>1, <1>2 DEF GiveUp, IdleLocal, Local

\* What a step changes besides the locals, faults, alone and crashes.
EffectsOK ==
    /\ db \in [Names -> Row] /\ nextId \in Nat
    /\ zone \in [Hosts -> Zone] /\ garbled \subseteq Hosts /\ route53 \in Zone
    /\ onDemandReconcileAll \in BOOLEAN /\ onDemandInProgress \in BOOLEAN
    /\ requests \in Nat /\ unread \subseteq Names /\ confirmed \subseteq Names
    /\ readFailed \in BOOLEAN /\ panicked \in BOOLEAN

\* A step of one goroutine preserves the invariant if the goroutine's new locals are
\* well-formed and so is what it changes.
LEMMA GoroutineStep ==
    ASSUME IInv, NEW p \in Procs, NEW l \in Local, Addressed(l), Become(p, l),
           Works \/ Fails, Observe(p), UNCHANGED crashes, EffectsOK'
    PROVE  IInv'
<1>1. local' \in [Procs -> Local] /\ \A q \in Procs : Addressed(local'[q])
  BY BecomeType
<1>2. faults' \in Nat /\ alone' \in [Procs -> BOOLEAN] /\ crashes' \in Nat
  BY FaultsType, ObserveType DEF IInv, TypeOK
<1> QED
  BY <1>1, <1>2 DEF IInv, TypeOK, EffectsOK, Addressed

LEMMA QuietStep ==
    ASSUME IInv, NEW p \in Procs, NEW l \in Local, Addressed(l), Become(p, l),
           Works \/ Fails, Observe(p), UNCHANGED crashes, UNCHANGED <<shared, quiet>>
    PROVE  IInv'
<1>1. EffectsOK'
  BY DEF IInv, TypeOK, EffectsOK, shared, quiet
<1> QED
  BY <1>1, GoroutineStep

-----------------------------------------------------------------------------
(* Every step of a session, one case per action.                           *)

\* ReconcileAll's sessions begin with all their records applied.
LEMMA OpenedType ==
    ASSUME NEW k \in Local, Addressed(k), NEW e \in Zone, NEW b \in Batch,
           NEW T \in SUBSET Names, NEW errors \in BOOLEAN
    PROVE  LET l == [k EXCEPT !.entries = e, !.batch = b, !.shallow = FALSE,
                              !.hasError = FALSE, !.host = 1, !.pc = "push",
                              !.todo = T, !.returnErrors = errors]
           IN  l \in Local /\ Addressed(l)
<1> DEFINE k1 == [k EXCEPT !.entries = e, !.batch = b, !.shallow = FALSE]
           k2 == [k1 EXCEPT !.hasError = FALSE, !.host = 1, !.pc = "push"]
           l  == [k2 EXCEPT !.todo = T, !.returnErrors = errors]
<1>1. k1 \in Local /\ Addressed(k1)
  BY DEF Local, Addressed
<1> HIDE DEF k1
<1>2. k2 \in Local /\ Addressed(k2)
  <2>1. "push" \in PCs /\ 1 \in 1..2
    BY DEF PCs
  <2> QED
    BY <1>1, <2>1 DEF Local, Addressed
<1> HIDE DEF k2
<1>3. l \in Local /\ Addressed(l)
  BY <1>2 DEF Local, Addressed, Targets
<1> QED
  BY <1>3 DEF k1, k2

LEMMA OpenSessionInv ==
    ASSUME IInv, NEW p \in Procs, Observe(p), UNCHANGED crashes,
           OpenSession(p) \/ OpenPurgeSession(p) \/ OpenUpdateSession(p)
    PROVE  IInv'
<1>1. local[p] \in Local /\ Addressed(local[p]) /\ zone["rem"] \in Zone /\ route53 \in Zone
  BY DEF IInv, TypeOK, Hosts
<1>2. CASE OpenSession(p)
  <2>1. PICK failed \in BOOLEAN :
          /\ Works \/ Fails
          /\ Become(p, [local[p] EXCEPT
                !.entries = zone["rem"], !.batch = EmptyBatch, !.pc = "lookup",
                !.shallow = /\ local[p].op \in {"upsert", "bulk upsert"}
                            /\ \A t \in local[p].todo : ExistsInDB(t),
                !.hasError = failed])
    BY <1>2 DEF OpenSession
  <2> DEFINE l == [local[p] EXCEPT
                !.entries = zone["rem"], !.batch = EmptyBatch, !.pc = "lookup",
                !.shallow = /\ local[p].op \in {"upsert", "bulk upsert"}
                            /\ \A t \in local[p].todo : ExistsInDB(t),
                !.hasError = failed]
  <2>2. l \in Local /\ Addressed(l)
    BY <1>1, EmptyBatchType DEF Local, Addressed, PCs
  <2> QED
    BY <1>2, <2>1, <2>2, QuietStep DEF OpenSession
<1>3. CASE OpenPurgeSession(p)
  <2> DEFINE gone == {n \in Names : local[p].records[n].id # 0 /\ local[p].records[n].deleted}
             l(unlisted, errors) == [local[p] EXCEPT
                   !.entries = CoreDNSDelete(zone["rem"], gone),
                   !.batch = Route53Delete(EmptyBatch, gone \ unlisted),
                   !.shallow = FALSE, !.hasError = FALSE, !.host = 1, !.pc = "push",
                   !.todo = gone \ unlisted,
                   !.returnErrors = errors]
  <2>1. PICK unlisted \in SUBSET gone, errors \in BOOLEAN :
             (Works \/ Fails) /\ Become(p, l(unlisted, errors))
    BY <1>3 DEF OpenPurgeSession
  <2>2. CoreDNSDelete(zone["rem"], gone) \in Zone
    BY <1>1, CoreDNSDeleteType
  <2>3. Route53Delete(EmptyBatch, gone \ unlisted) \in Batch
    BY <1>1, EmptyBatchType, Route53DeleteType
  <2>4. gone \ unlisted \in SUBSET Names
    OBVIOUS
  <2> HIDE DEF gone
  <2>5. l(unlisted, errors) \in Local /\ Addressed(l(unlisted, errors))
    BY <1>1, <2>2, <2>3, <2>4, OpenedType
  <2> QED
    BY <1>3, <2>1, <2>5, QuietStep DEF OpenPurgeSession
<1>4. CASE OpenUpdateSession(p)
  <2> DEFINE kept == {n \in Names : local[p].records[n].id # 0 /\ ~local[p].records[n].deleted}
             values == [n \in kept |-> local[p].records[n].value]
             l == [local[p] EXCEPT
                   !.entries = CoreDNSUpsert(zone["rem"], values),
                   !.batch = Route53Upsert(EmptyBatch, values),
                   !.shallow = FALSE, !.hasError = FALSE, !.host = 1, !.pc = "push",
                   !.todo = {}, !.returnErrors = @]
  <2>1. values \in [kept -> MaybeValue]
    BY <1>1 DEF Local, Row
  <2>2. CoreDNSUpsert(zone["rem"], values) \in Zone
    BY <1>1, <2>1, CoreDNSUpsertType
  <2>3. Route53Upsert(EmptyBatch, values) \in Batch
    BY <2>1, EmptyBatchType, Route53UpsertType
  <2>4. Become(p, l)
    BY <1>1, <1>4 DEF OpenUpdateSession, Local
  <2> HIDE DEF values
  <2>5. l \in Local /\ Addressed(l)
    <3>1. local[p].returnErrors \in BOOLEAN /\ {} \in SUBSET Names
      BY <1>1 DEF Local
    <3> QED
      BY <1>1, <2>2, <2>3, <3>1, OpenedType
  <2> QED
    BY <1>4, <2>4, <2>5, QuietStep DEF OpenUpdateSession
<1> QED
  BY <1>2, <1>3, <1>4

LEMMA RecordInv ==
    ASSUME IInv, NEW p \in Procs, Observe(p), UNCHANGED crashes,
           \/ SessionFails(p) \/ Lookup(p) \/ UpsertWrite(p)
           \/ DeleteWrite(p) \/ DeleteList(p) \/ RecordFails(p)
    PROVE  IInv'
<1>1. local[p] \in Local /\ Addressed(local[p]) /\ zone["rem"] \in Zone /\ route53 \in Zone
  BY DEF IInv, TypeOK, Hosts
<1>2. CASE SessionFails(p)
  <2>1. CASE local[p].op = "fix"
    <3> DEFINE l == [local[p] EXCEPT !.pc = "snapshot", !.returnErrors = TRUE]
    <3>1. l \in Local /\ Addressed(l)
      BY <1>1, <2>1 DEF Local, Addressed, PCs
    <3>2. Become(p, l)
      BY <1>2, <2>1 DEF SessionFails
    <3> QED
      BY <1>2, <3>1, <3>2, QuietStep DEF SessionFails
  <2>2. CASE local[p].op # "fix"
    <3>1. PICK l \in {[local[p] EXCEPT !.pc = "returned", !.returnErrors = TRUE],
                      [local[p] EXCEPT !.pc = "returned"], IdleLocal} : Become(p, l)
      BY <1>2, <2>2 DEF SessionFails
    <3>2. l \in Local /\ Addressed(l)
      BY <1>1, <3>1, IdleLocalType, AddressedIdle DEF Local, Addressed, PCs
    <3> QED
      BY <1>2, <3>1, <3>2, QuietStep DEF SessionFails
  <2> QED
    BY <2>1, <2>2
<1>3. CASE Lookup(p)
  <2>1. PICK t \in local[p].todo, row \in Row :
          LET l == [local[p] EXCEPT !.todo = @ \ {t}]
          IN Become(p, IF l.op = "fix" /\ row.id = 0 THEN GiveUp(l)
                       ELSE [l EXCEPT !.name = t, !.id = row.id, !.pc = "write"])
    BY <1>3, LookedUpType DEF Lookup, IInv
  <2> DEFINE l == [local[p] EXCEPT !.todo = @ \ {t}]
             found == [l EXCEPT !.name = t, !.id = row.id, !.pc = "write"]
  <2>2. l \in Local /\ Addressed(l)
    BY <1>1 DEF Local, Addressed
  <2>3. GiveUp(l) \in Local /\ Addressed(GiveUp(l))
    BY <2>2, GiveUpType, AddressedContinue
  <2>4. found \in Local /\ Addressed(found)
    BY <1>1 DEF Local, Addressed, PCs, Row
  <2>5. Become(p, GiveUp(l)) \/ Become(p, found)
    BY <2>1
  <2> HIDE DEF l, found
  <2> QED
    BY <1>3, <2>3, <2>4, <2>5, QuietStep DEF Lookup
<1>4. CASE UpsertWrite(p)
  <2> DEFINE values == [n \in {local[p].name} |-> local[p].value]
             saved == IF local[p].shallow THEN local[p]
                      ELSE [local[p] EXCEPT !.entries = CoreDNSUpsert(@, values),
                                            !.batch = Route53Upsert(@, values)]
  <2>1. local[p].name \in Names
    BY <1>1, <1>4 DEF UpsertWrite, At, Addressed
  <2>2. values \in [{local[p].name} -> MaybeValue]
    BY <1>1 DEF Local
  <2>3. /\ CoreDNSUpsert(local[p].entries, values) \in Zone
        /\ Route53Upsert(local[p].batch, values) \in Batch
    BY <1>1, <2>2, CoreDNSUpsertType, Route53UpsertType DEF Local
  <2> HIDE DEF values
  <2>4. saved \in Local /\ Addressed(saved)
    BY <1>1, <2>3 DEF Local, Addressed
  <2>5. Become(p, Continue(saved)) /\ Save(local[p].name, local[p].id, local[p].value)
    BY <1>4 DEF UpsertWrite, values
  <2> HIDE DEF saved
  <2>6. Continue(saved) \in Local /\ Addressed(Continue(saved))
    BY <2>4, ContinueType, AddressedContinue
  <2>7. db' \in [Names -> Row] /\ nextId' \in Nat
    BY <1>1, <2>1, <2>5, SaveType DEF Local, IInv
  <2>8. confirmed' \subseteq Names
    BY <1>4, <2>1 DEF UpsertWrite, IInv, TypeOK
  <2>9. EffectsOK'
    BY <1>4, <2>7, <2>8 DEF UpsertWrite, EffectsOK, IInv, TypeOK, external, files, flags
  <2> QED
    BY <1>4, <2>5, <2>6, <2>9, GoroutineStep DEF UpsertWrite
<1>5. CASE DeleteWrite(p)
  <2> DEFINE l == [local[p] EXCEPT !.pc = "list",
                                   !.entries = CoreDNSDelete(@, {local[p].name})]
  <2>1. CoreDNSDelete(local[p].entries, {local[p].name}) \in Zone
    BY <1>1, CoreDNSDeleteType DEF Local
  <2>2. l \in Local /\ Addressed(l)
    BY <1>1, <2>1 DEF Local, Addressed, PCs
  <2>3. EffectsOK'
    BY <1>5, DeleteType DEF DeleteWrite, EffectsOK, IInv, TypeOK, external, files, flags, quiet
  <2> QED
    BY <1>5, <2>2, <2>3, GoroutineStep DEF DeleteWrite
<1>6. CASE DeleteList(p)
  <2> DEFINE l == [local[p] EXCEPT !.batch = Route53Delete(@, {local[p].name})]
  <2>1. Route53Delete(local[p].batch, {local[p].name}) \in Batch
    BY <1>1, Route53DeleteType DEF Local
  <2>2. l \in Local /\ Addressed(l)
    BY <1>1, <2>1 DEF Local, Addressed
  <2>3. Become(p, Continue(l))
    BY <1>6 DEF DeleteList
  <2> HIDE DEF l
  <2>4. Continue(l) \in Local /\ Addressed(Continue(l))
    BY <2>2, ContinueType, AddressedContinue
  <2> QED
    BY <1>6, <2>3, <2>4, QuietStep DEF DeleteList
<1>7. CASE RecordFails(p)
  <2>1. GiveUp(local[p]) \in Local /\ Addressed(GiveUp(local[p]))
    BY <1>1, GiveUpType, AddressedContinue
  <2> QED
    BY <1>7, <2>1, QuietStep DEF RecordFails
<1> QED
  BY <1>2, <1>3, <1>4, <1>5, <1>6, <1>7

LEMMA FinishInv ==
    ASSUME IInv, NEW p \in Procs, Observe(p), UNCHANGED crashes,
           Push(p) \/ PushFails(p) \/ Flush(p) \/ FlushFails(p)
    PROVE  IInv'
<1>1. local[p] \in Local /\ Addressed(local[p])
  BY DEF IInv, TypeOK
<1>2. {"push", "flush", "finished"} \subseteq PCs /\ {1, 2} \subseteq 1..2
  BY DEF PCs
<1>3. CASE Push(p)
  <2>1. PICK l \in {[local[p] EXCEPT !.host = 2], [local[p] EXCEPT !.pc = "flush", !.host = 1]} :
          Become(p, l)
    BY <1>3 DEF Push
  <2>2. l \in Local /\ Addressed(l)
    BY <1>1, <1>2, <2>1 DEF Local, Addressed
  <2>3. zone' \in [Hosts -> Zone] /\ garbled' \subseteq Hosts
    BY <1>1, <1>3, PreambleType DEF Push, IInv, TypeOK, Local
  <2>4. EffectsOK'
    BY <1>3, <2>3 DEF Push, EffectsOK, IInv, TypeOK, table, flags, quiet
  <2> QED
    BY <1>3, <2>1, <2>2, <2>4, GoroutineStep DEF Push
<1>4. CASE PushFails(p)
  <2>1. zone' \in [Hosts -> Zone] /\ garbled' \subseteq Hosts
    BY <1>1, <1>4, TornType DEF PushFails, IInv
  <2>2. EffectsOK'
    BY <1>4, <2>1 DEF PushFails, EffectsOK, IInv, TypeOK, files, table, flags, quiet
  <2> DEFINE l == [local[p] EXCEPT !.pc = "flush", !.host = 1, !.hasError = TRUE]
  <2>3. l \in Local /\ Addressed(l)
    BY <1>1, <1>2 DEF Local, Addressed
  <2> QED
    BY <1>4, <2>2, <2>3, GoroutineStep DEF PushFails
<1>5. CASE Flush(p)
  <2>1. route53' \in Zone
    BY <1>1, <1>5, ApplyBatchType DEF Flush, IInv, TypeOK, Local
  <2>2. [local[p] EXCEPT !.pc = "finished"] \in Local /\ Addressed([local[p] EXCEPT !.pc = "finished"])
    BY <1>1, <1>2 DEF Local, Addressed
  <2>3. EffectsOK'
    BY <1>5, <2>1 DEF Flush, EffectsOK, IInv, TypeOK, files, table, flags, quiet
  <2> QED
    BY <1>5, <2>2, <2>3, GoroutineStep DEF Flush
<1>6. CASE FlushFails(p)
  <2> DEFINE l == [local[p] EXCEPT !.pc = "finished", !.hasError = TRUE]
  <2>1. l \in Local /\ Addressed(l)
    BY <1>1, <1>2 DEF Local, Addressed
  <2> QED
    BY <1>6, <2>1, QuietStep DEF FlushFails
<1> QED
  BY <1>3, <1>4, <1>5, <1>6

-----------------------------------------------------------------------------
(* Every step of ReconcileAll, of the loops, of a handler.                 *)

LEMMA ReconcileInv ==
    ASSUME IInv, NEW p \in Procs, Observe(p), UNCHANGED crashes,
           \/ FixReturns(p) \/ Snapshot(p) \/ SnapshotFails(p) \/ PurgeRow(p)
           \/ PurgeReturns(p) \/ UpdateReturns(p)
    PROVE  IInv'
<1>1. local[p] \in Local /\ Addressed(local[p])
  BY DEF IInv, TypeOK
<1>2. /\ {"snapshot", "connect", "returned"} \subseteq PCs
      /\ {"purge", "update"} \subseteq Ops
  BY DEF PCs, Ops, ReconcileOps
<1>3. CASE FixReturns(p)
  <2> DEFINE l == [local[p] EXCEPT !.pc = "snapshot", !.returnErrors = local[p].hasError]
  <2>1. l \in Local
    BY <1>1, <1>2 DEF Local
  <2>2. Addressed(l)
    BY <1>1, <1>3 DEF Local, Addressed, FixReturns, At
  <2> QED
    BY <1>3, <2>1, <2>2, QuietStep DEF FixReturns
<1>4. CASE Snapshot(p)
  <2> DEFINE l == [local[p] EXCEPT !.pc = "connect", !.op = "purge", !.records = db]
  <2>1. l \in Local
    BY <1>1, <1>2 DEF Local, IInv, TypeOK
  <2>2. Addressed(l)
    BY <1>1, <1>4 DEF Addressed, Local, Snapshot, DeleteOps
  <2>3. EffectsOK'
    BY <1>4 DEF Snapshot, EffectsOK, IInv, TypeOK, shared
  <2> QED
    BY <1>4, <2>1, <2>2, <2>3, GoroutineStep DEF Snapshot
<1>5. CASE SnapshotFails(p)
  <2> DEFINE l == [local[p] EXCEPT !.pc = "returned", !.returnErrors = TRUE]
  <2>1. l \in Local /\ Addressed(l)
    BY <1>1, <1>2 DEF Local, Addressed
  <2>2. EffectsOK'
    BY <1>5 DEF SnapshotFails, EffectsOK, IInv, TypeOK, shared
  <2> QED
    BY <1>5, <2>1, <2>2, GoroutineStep DEF SnapshotFails
<1>6. CASE PurgeRow(p)
  <2>1. PICK n \in local[p].todo :
          /\ HardDelete(n, local[p].records[n].id) \/ UNCHANGED db
          /\ Become(p, [local[p] EXCEPT !.todo = @ \ {n}])
    BY <1>6 DEF PurgeRow
  <2>2. /\ [local[p] EXCEPT !.todo = @ \ {n}] \in Local
        /\ Addressed([local[p] EXCEPT !.todo = @ \ {n}])
    BY <1>1 DEF Local, Addressed
  <2>3. db' \in [Names -> Row]
    BY <2>1, DeleteType DEF IInv, TypeOK
  <2>4. EffectsOK'
    BY <1>6, <2>3 DEF PurgeRow, EffectsOK, IInv, TypeOK, external, files, flags, quiet
  <2> QED
    BY <1>6, <2>1, <2>2, <2>4, GoroutineStep DEF PurgeRow
<1>7. CASE PurgeReturns(p)
  <2>1. PICK e \in BOOLEAN : Become(p, [local[p] EXCEPT !.pc = "connect", !.op = "update",
                                                        !.returnErrors = e])
    BY <1>7 DEF PurgeReturns
  <2> DEFINE l == [local[p] EXCEPT !.pc = "connect", !.op = "update", !.returnErrors = e]
  <2>2. l \in Local
    BY <1>1, <1>2 DEF Local
  <2>3. Addressed(l)
    BY <1>1, <1>7 DEF Addressed, Local, PurgeReturns, At, DeleteOps
  <2> QED
    BY <1>7, <2>1, <2>2, <2>3, QuietStep DEF PurgeReturns
<1>8. CASE UpdateReturns(p)
  <2>1. PICK e \in BOOLEAN : Become(p, [local[p] EXCEPT !.pc = "returned", !.returnErrors = e])
    BY <1>8 DEF UpdateReturns
  <2> DEFINE l == [local[p] EXCEPT !.pc = "returned", !.returnErrors = e]
  <2>2. l \in Local /\ Addressed(l)
    BY <1>1, <1>2 DEF Local, Addressed
  <2> QED
    BY <1>8, <2>1, <2>2, QuietStep DEF UpdateReturns
<1> QED
  BY <1>3, <1>4, <1>5, <1>6, <1>7, <1>8

LEMMA BootedAddressed == \A p \in Procs : Addressed(Booted[p])
<1>1. Addressed([IdleLocal EXCEPT !.pc = "off"])
  BY AddressedIdle, IdleLocalType DEF Addressed, IdleLocal
<1> QED
  BY <1>1, AddressedIdle DEF Booted

LEMMA BootInv ==
    ASSUME IInv, Boot, zone' \in [Hosts -> Zone], garbled' \subseteq Hosts,
           alone' \in [Procs -> BOOLEAN], requests' \in Nat, faults' \in Nat, crashes' \in Nat,
           panicked' \in BOOLEAN
    PROVE  IInv'
BY BootedType, BootedAddressed DEF IInv, TypeOK, Boot, table

LEMMA LoopInv ==
    ASSUME IInv, NEW p \in Procs, Observe(p), UNCHANGED crashes,
           \/ PublicIP(p) \/ PublicIPReturns(p) \/ LoopEnds(p)
           \/ p = OnDemand /\ (OnDemandTick \/ OnDemandClear)
           \/ p = Scheduled /\ ScheduledTick
    PROVE  IInv'
<1>1. local[p] \in Local /\ Addressed(local[p])
  BY DEF IInv, TypeOK
<1>2. {"connect", "returned", "clear flag"} \subseteq PCs /\ "public ip" \in Ops
  BY DEF PCs, Ops
<1>3. CASE PublicIP(p)
  <2>1. CASE \E v \in PublicAddresses :
               Become(p, [IdleLocal EXCEPT !.pc = "connect", !.op = "public ip",
                                           !.names = ApexNames, !.todo = ApexNames, !.value = v])
    <3>1. PICK v \in PublicAddresses :
               Become(p, [IdleLocal EXCEPT !.pc = "connect", !.op = "public ip",
                                           !.names = ApexNames, !.todo = ApexNames, !.value = v])
      BY <2>1
    <3> DEFINE l == [IdleLocal EXCEPT !.pc = "connect", !.op = "public ip",
                                      !.names = ApexNames, !.todo = ApexNames, !.value = v]
    <3>2. ApexNames \subseteq Targets /\ v \in MaybeValue
      BY ConstantsAssumption DEF Targets, MaybeValue
    <3>3. l \in Local
      BY <1>2, <3>2, IdleLocalType DEF Local
    <3>4. Addressed(l)
      BY ConstantsAssumption DEF Addressed, IdleLocal
    <3> QED
      BY <1>3, <3>1, <3>3, <3>4, QuietStep DEF PublicIP
  <2>2. CASE Become(p, [local[p] EXCEPT !.op = "public ip"])
    <3>1. [local[p] EXCEPT !.op = "public ip"] \in Local
      BY <1>1, <1>2 DEF Local
    <3>2. local[p].op \notin DeleteOps /\ local[p].pc = "returned"
      BY <1>3 DEF PublicIP, At, DeleteOps, ReconcileOps
    <3>3. Addressed([local[p] EXCEPT !.op = "public ip"])
      BY <1>1, <3>2 DEF Addressed, Local
    <3> QED
      BY <1>3, <2>2, <3>1, <3>3, QuietStep DEF PublicIP
  <2> QED
    BY <1>3, <2>1, <2>2 DEF PublicIP
<1>4. CASE PublicIPReturns(p)
  <2>1. [local[p] EXCEPT !.pc = "returned"] \in Local /\ Addressed([local[p] EXCEPT !.pc = "returned"])
    BY <1>1, <1>2 DEF Local, Addressed
  <2> QED
    BY <1>4, <2>1, QuietStep DEF PublicIPReturns
<1>5. CASE LoopEnds(p)
  <2>1. EffectsOK'
    BY <1>5 DEF LoopEnds, EffectsOK, IInv, TypeOK, table, external, files, quiet
  <2> QED
    BY <1>5, <2>1, GoroutineStep, IdleLocalType, AddressedIdle DEF LoopEnds
<1>6. CASE p = OnDemand /\ OnDemandTick
  <2>1. EffectsOK'
    BY <1>6 DEF OnDemandTick, EffectsOK, IInv, TypeOK, table, external, files, quiet
  <2>2. [IdleLocal EXCEPT !.pc = "clear flag"] \in Local
    BY <1>2, IdleLocalType DEF Local
  <2>3. Addressed([IdleLocal EXCEPT !.pc = "clear flag"])
    BY ConstantsAssumption DEF Addressed, IdleLocal
  <2> QED
    BY <1>6, <2>1, <2>2, <2>3, GoroutineStep DEF OnDemandTick
<1>7. CASE p = OnDemand /\ OnDemandClear
  <2>1. EffectsOK'
    BY <1>7 DEF OnDemandClear, EffectsOK, IInv, TypeOK, table, external, files, quiet
  <2> QED
    BY <1>7, <2>1, GoroutineStep, ReconcilingType, AddressedIdle DEF OnDemandClear
<1>8. CASE p = Scheduled /\ ScheduledTick
  BY <1>8, QuietStep, ReconcilingType, AddressedIdle DEF ScheduledTick
<1> QED
  BY <1>3, <1>4, <1>5, <1>6, <1>7, <1>8

LEMMA PanicInv ==
    ASSUME IInv, NEW p \in Procs, Observe(p), UNCHANGED crashes, Panic(p)
    PROVE  IInv'
<1>1. CASE p \in Clients /\ Become(p, IdleLocal) /\ UNCHANGED <<shared, unread, readFailed, confirmed>>
  <2>1. EffectsOK'
    BY <1>1 DEF Panic, EffectsOK, IInv, TypeOK, shared
  <2> QED
    BY <1>1, <2>1, GoroutineStep, IdleLocalType, AddressedIdle DEF Panic
<1>2. CASE p \in Loops /\ Boot /\ UNCHANGED files
  <2>1. /\ zone' \in [Hosts -> Zone] /\ garbled' \subseteq Hosts
        /\ requests' \in Nat /\ crashes' \in Nat /\ panicked' \in BOOLEAN
    BY <1>2 DEF Panic, IInv, TypeOK, files
  <2>2. faults' \in Nat /\ alone' \in [Procs -> BOOLEAN]
    BY FaultsType, ObserveType DEF Panic, IInv
  <2> QED
    BY <1>2, <2>1, <2>2, BootInv
<1> QED
  BY <1>1, <1>2 DEF Panic

LEMMA HandlerInv ==
    ASSUME IInv, NEW c \in Procs, Observe(c), UNCHANGED crashes,
           \/ c \in Clients /\ Request(c)
           \/ Refresh(c) \/ Respond(c) \/ RefreshReply(c)
    PROVE  IInv'
<1>1. local[c] \in Local /\ Addressed(local[c])
  BY DEF IInv, TypeOK
<1>2. CASE Request(c)
  <2>1. PICK o \in Operations \ {"refresh"}, v \in Values, T \in SUBSET Targets :
          /\ T \subseteq IF o \in DeleteOps THEN DeleteNames ELSE UpsertNames
          /\ Become(c, [IdleLocal EXCEPT !.pc = "connect", !.op = o, !.names = T, !.todo = T,
                                         !.value = IF o \in DeleteOps THEN Absent ELSE v])
          /\ confirmed' = IF o \in DeleteOps THEN confirmed \ T ELSE confirmed
    <3>1. UpsertNames \subseteq Targets /\ DeleteNames \subseteq Targets
      BY ConstantsAssumption DEF Targets
    <3> QED
      BY <1>2, <3>1 DEF Request
  <2> DEFINE l == [IdleLocal EXCEPT !.pc = "connect", !.op = o, !.names = T, !.todo = T,
                                    !.value = IF o \in DeleteOps THEN Absent ELSE v]
  <2>2. "connect" \in PCs /\ o \in Ops
    BY ConstantsAssumption DEF PCs, Ops
  <2>3. o \notin DeleteOps => T \subseteq Names
    BY <2>1, ConstantsAssumption
  <2>4. (IF o \in DeleteOps THEN Absent ELSE v) \in MaybeValue
    BY DEF MaybeValue
  <2>5. l \in Local
    BY <2>2, <2>3, <2>4, IdleLocalType DEF Local
  <2>6. Addressed(l)
    <3>1. l.op = o /\ l.todo = T /\ l.name = Self /\ l.pc = "connect"
      BY DEF IdleLocal
    <3> QED
      BY <2>3, <3>1, ConstantsAssumption DEF Addressed
  <2>7. EffectsOK'
    <3>1. confirmed' \subseteq Names
      BY <2>1 DEF IInv, TypeOK
    <3>2. requests' = requests + 1 /\ UNCHANGED <<shared, unread, readFailed, panicked>>
      BY <1>2 DEF Request
    <3> QED
      BY <3>1, <3>2 DEF EffectsOK, IInv, TypeOK, shared
  <2> QED
    BY <1>2, <2>1, <2>5, <2>6, <2>7, GoroutineStep DEF Request
<1>3. CASE Refresh(c)
  <2>1. EffectsOK'
    BY <1>3 DEF Refresh, EffectsOK, IInv, TypeOK, shared
  <2> QED
    BY <1>3, <2>1, GoroutineStep, ReconcilingType, AddressedIdle DEF Refresh
<1>4. CASE Respond(c)
  <2>1. EffectsOK'
    BY <1>1, <1>4 DEF Respond, EffectsOK, IInv, TypeOK, Local, table, external, files
  <2> QED
    BY <1>4, <2>1, GoroutineStep, IdleLocalType, AddressedIdle DEF Respond
<1>5. CASE RefreshReply(c)
  <2>1. EffectsOK'
    BY <1>5 DEF RefreshReply, EffectsOK, IInv, TypeOK, shared
  <2> QED
    BY <1>5, <2>1, GoroutineStep, IdleLocalType, AddressedIdle DEF RefreshReply
<1> QED
  BY <1>2, <1>3, <1>4, <1>5

LEMMA CrashInv ==
    ASSUME IInv, Crash
    PROVE  IInv'
<1>1. zone' \in [Hosts -> Zone] /\ garbled' \subseteq Hosts
  BY TornType DEF Crash, IInv, TypeOK, files
<1>2. /\ alone' \in [Procs -> BOOLEAN] /\ requests' \in Nat /\ faults' \in Nat
      /\ crashes' \in Nat /\ panicked' \in BOOLEAN
  BY DEF Crash, IInv, TypeOK
<1> QED
  BY <1>1, <1>2, BootInv DEF Crash

-----------------------------------------------------------------------------
LEMMA InitInv ==
    ASSUME Init
    PROVE  IInv
<1>1. db \in [Names -> Row] /\ nextId \in Nat
  BY ConstantsAssumption DEF Init, Row, ZeroRow, MaybeValue
<1>2. zone \in [Hosts -> Zone] /\ route53 \in Zone
  BY <1>1 DEF Init, Zone, Row
<1>3. local \in [Procs -> Local] /\ \A p \in Procs : Addressed(local[p])
  BY BootedType, BootedAddressed DEF Init
<1> QED
  BY <1>1, <1>2, <1>3 DEF Init, IInv, TypeOK

LEMMA NextInv ==
    ASSUME IInv, [Next]_vars
    PROVE  IInv'
<1>1. CASE \E p \in Procs : Step(p)
  BY <1>1, OpenSessionInv, RecordInv, FinishInv, ReconcileInv, LoopInv, PanicInv, HandlerInv
     DEF Step, SessionStep, ReconcileStep, Tick
<1>2. CASE \E c \in Clients : Arrive(c)
  BY <1>2, HandlerInv DEF Arrive, Procs
<1>3. CASE Crash
  BY <1>3, CrashInv
<1>4. CASE UNCHANGED vars
  BY <1>4 DEF vars, shared, counters, history, IInv, TypeOK, Addressed
<1> QED
  BY <1>1, <1>2, <1>3, <1>4 DEF Next

LEMMA Invariance == Spec => []IInv
<1>1. Init => IInv
  BY InitInv
<1>2. IInv /\ [Next]_vars => IInv'
  BY NextInv
<1> QED
  BY <1>1, <1>2, PTL DEF Spec

\* Whatever the names, values, clients and bounds are: no step, and no restart in the
\* middle of one, leaves a goroutine, the table or a copy of it malformed.
THEOREM TypeCorrect == Spec => []TypeOK
<1>1. IInv => TypeOK
  BY DEF IInv
<1> QED
  BY <1>1, Invariance, PTL

-----------------------------------------------------------------------------
(* NoLostWakeup.  With IInv it is inductive: a goroutine that is about to   *)
(* read stays so until it reads (unread becomes empty), fails to read       *)
(* (readFailed), or dies (the scheduled loop starts over, or is disabled).  *)

ToRead(l) ==
    \/ l.pc \in {"clear flag", "snapshot"}
    \/ l.op = "fix" /\ l.pc \notin {"idle", "off", "returned"}

LEMMA AboutToReadIsLocal ==
    ASSUME NEW p
    PROVE  AboutToRead(p) <=> ToRead(local[p])
BY DEF AboutToRead, ToRead, At

\* A step after which no name is newly unread, and which leaves its goroutine about to
\* read if it was, or raises the flag, loses no wake-up.
LEMMA WakeupKept ==
    ASSUME IInv, NoLostWakeup, NEW p \in Procs, NEW l, Become(p, l),
           unread' = unread, onDemandReconcileAll => onDemandReconcileAll' \/ ToRead(l),
           readFailed' = readFailed, crashes' = crashes, panicked => panicked',
           ToRead(local[p]) => ToRead(l)
    PROVE  NoLostWakeup'
<1>1. local'[p] = l /\ \A q \in Procs \ {p} : local'[q] = local[q]
  BY DEF Become, IInv, TypeOK
<1>2. \A q \in Procs : ToRead(local[q]) => ToRead(local'[q])
  BY <1>1
<1>3. \A q \in Procs : /\ AboutToRead(q) <=> ToRead(local[q])
                       /\ AboutToRead(q)' <=> ToRead(local'[q])
  BY AboutToReadIsLocal DEF AboutToRead, ToRead, At
<1> QED
  BY <1>1, <1>2, <1>3 DEF NoLostWakeup

LEMMA ContinueToRead ==
    ASSUME NEW l \in Local, l.op = "fix"
    PROVE  ToRead(Continue(l)) /\ ToRead(GiveUp(l))
<1>1. \A k \in Local : k.op = "fix" => ToRead(Continue(k))
  BY DEF Continue, ToRead, Local
<1>2. [l EXCEPT !.hasError = TRUE] \in Local /\ [l EXCEPT !.hasError = TRUE].op = "fix"
  BY DEF Local
<1> QED
  BY <1>1, <1>2 DEF GiveUp

\* The steps of a session: only those of FixMyself are of a goroutine about to read.
LEMMA SessionWakeup ==
    ASSUME IInv, NoLostWakeup, NEW p \in Procs, SessionStep(p), UNCHANGED crashes
    PROVE  NoLostWakeup'
<1>1. local[p] \in Local
  BY DEF IInv, TypeOK
<1>2. /\ UNCHANGED <<unread, readFailed, panicked, onDemandReconcileAll>>
  BY DEF SessionStep, OpenSession, OpenPurgeSession, OpenUpdateSession, SessionFails, Lookup,
         UpsertWrite, DeleteWrite, DeleteList, RecordFails, Push, PushFails, Flush, FlushFails,
         shared, quiet, flags
<1>3. \E l : Become(p, l) /\ (ToRead(local[p]) => ToRead(l))
  <2>1. CASE OpenSession(p)
    <3>1. PICK failed \in BOOLEAN :
            Become(p, [local[p] EXCEPT
                !.entries = zone["rem"], !.batch = EmptyBatch, !.pc = "lookup",
                !.shallow = /\ local[p].op \in {"upsert", "bulk upsert"}
                            /\ \A t \in local[p].todo : ExistsInDB(t),
                !.hasError = failed])
      BY <2>1 DEF OpenSession
    <3>2. local[p].pc = "connect"
      BY <2>1 DEF OpenSession, At
    <3> DEFINE l == [local[p] EXCEPT
                !.entries = zone["rem"], !.batch = EmptyBatch, !.pc = "lookup",
                !.shallow = /\ local[p].op \in {"upsert", "bulk upsert"}
                            /\ \A t \in local[p].todo : ExistsInDB(t),
                !.hasError = failed]
    <3>3. l.pc = "lookup" /\ l.op = local[p].op
      BY <1>1 DEF Local
    <3> QED
      BY <3>1, <3>2, <3>3 DEF ToRead
  <2>2. CASE OpenPurgeSession(p) \/ OpenUpdateSession(p)
    <3>1. ~ToRead(local[p])
      BY <2>2 DEF OpenPurgeSession, OpenUpdateSession, ToRead, At
    <3>2. \E l : Become(p, l)
      BY <2>2 DEF OpenPurgeSession, OpenUpdateSession
    <3> QED
      BY <3>1, <3>2
  <2>3. CASE SessionFails(p)
    <3>1. CASE local[p].op = "fix"
      <4> DEFINE l == [local[p] EXCEPT !.pc = "snapshot", !.returnErrors = TRUE]
      <4>1. Become(p, l) /\ l.pc = "snapshot"
        BY <1>1, <2>3, <3>1 DEF SessionFails, Local
      <4> QED
        BY <4>1 DEF ToRead
    <3>2. CASE local[p].op # "fix"
      <4>1. ~ToRead(local[p]) /\ \E l : Become(p, l)
        BY <2>3, <3>2 DEF SessionFails, ToRead
      <4> QED
        BY <4>1
    <3> QED
      BY <3>1, <3>2
  <2>4. CASE Lookup(p)
    <3>1. PICK t \in local[p].todo, row \in Row :
            LET l == [local[p] EXCEPT !.todo = @ \ {t}]
            IN Become(p, IF l.op = "fix" /\ row.id = 0 THEN GiveUp(l)
                         ELSE [l EXCEPT !.name = t, !.id = row.id, !.pc = "write"])
      BY <2>4, LookedUpType DEF Lookup, IInv
    <3> DEFINE l == [local[p] EXCEPT !.todo = @ \ {t}]
               found == [l EXCEPT !.name = t, !.id = row.id, !.pc = "write"]
    <3>2. l \in Local /\ l.op = local[p].op
      BY <1>1 DEF Local
    <3>3. local[p].pc = "lookup"
      BY <2>4 DEF Lookup, At
    <3>4. ToRead(local[p]) => ToRead(GiveUp(l))
      BY <3>2, <3>3, ContinueToRead DEF ToRead
    <3>5. ToRead(local[p]) => ToRead(found)
      BY <1>1, <3>3 DEF ToRead, Local
    <3>6. Become(p, GiveUp(l)) \/ Become(p, found)
      BY <3>1
    <3> HIDE DEF l, found
    <3> QED
      BY <3>4, <3>5, <3>6
  <2>5. CASE UpsertWrite(p)
    <3>1. PICK k \in Local : Become(p, Continue(k)) /\ k.op = local[p].op
      <4> DEFINE values == [n \in {local[p].name} |-> local[p].value]
                 saved == IF local[p].shallow THEN local[p]
                          ELSE [local[p] EXCEPT !.entries = CoreDNSUpsert(@, values),
                                                !.batch = Route53Upsert(@, values)]
      <4>1. values \in [{local[p].name} -> MaybeValue]
        BY <1>1 DEF Local
      <4>2. /\ CoreDNSUpsert(local[p].entries, values) \in Zone
            /\ Route53Upsert(local[p].batch, values) \in Batch
        BY <1>1, <4>1, CoreDNSUpsertType, Route53UpsertType DEF Local
      <4>3. Become(p, Continue(saved))
        BY <2>5 DEF UpsertWrite
      <4> HIDE DEF values
      <4>4. saved \in Local /\ saved.op = local[p].op
        BY <1>1, <4>2 DEF Local
      <4> QED
        BY <4>3, <4>4
    <3>2. local[p].pc = "write"
      BY <2>5 DEF UpsertWrite, At
    <3> QED
      BY <3>1, <3>2, ContinueToRead DEF ToRead
  <2>6. CASE DeleteWrite(p) \/ DeleteList(p)
    <3>1. ~ToRead(local[p])
      BY <2>6 DEF DeleteWrite, DeleteList, ToRead, At, DeleteOps
    <3>2. \E l : Become(p, l)
      BY <2>6 DEF DeleteWrite, DeleteList
    <3> QED
      BY <3>1, <3>2
  <2>7. CASE RecordFails(p)
    BY <1>1, <2>7, ContinueToRead DEF RecordFails, ToRead
  <2>8. CASE Push(p) \/ PushFails(p)
    <3>1. PICK l \in {[local[p] EXCEPT !.host = 2], [local[p] EXCEPT !.pc = "flush", !.host = 1],
                      [local[p] EXCEPT !.pc = "flush", !.host = 1, !.hasError = TRUE]} :
            Become(p, l)
      BY <2>8 DEF Push, PushFails
    <3>2. local[p].pc = "push" /\ l.pc \in {"push", "flush"} /\ l.op = local[p].op
      BY <1>1, <2>8 DEF Push, PushFails, Local
    <3> QED
      BY <3>1, <3>2 DEF ToRead
  <2>9. CASE Flush(p) \/ FlushFails(p)
    <3>1. PICK l \in {[local[p] EXCEPT !.pc = "finished"],
                      [local[p] EXCEPT !.pc = "finished", !.hasError = TRUE]} : Become(p, l)
      BY <2>9 DEF Flush, FlushFails
    <3>2. local[p].pc = "flush" /\ l.pc = "finished" /\ l.op = local[p].op
      BY <1>1, <2>9 DEF Flush, FlushFails, Local
    <3> QED
      BY <3>1, <3>2 DEF ToRead
  <2> QED
    BY <2>1, <2>2, <2>3, <2>4, <2>5, <2>6, <2>7, <2>8, <2>9 DEF SessionStep
<1> QED
  BY <1>2, <1>3, WakeupKept

LEMMA ReconcileWakeup ==
    ASSUME IInv, NoLostWakeup, NEW p \in Procs, ReconcileStep(p), UNCHANGED crashes
    PROVE  NoLostWakeup'
<1>1. local[p] \in Local
  BY DEF IInv, TypeOK
<1>2. CASE FixReturns(p)
  <2> DEFINE l == [local[p] EXCEPT !.pc = "snapshot", !.returnErrors = local[p].hasError]
  <2>1. Become(p, l) /\ l.pc = "snapshot"
    BY <1>1, <1>2 DEF FixReturns, Local
  <2> HIDE DEF l
  <2> QED
    BY <1>2, <2>1, WakeupKept DEF FixReturns, ToRead, shared, quiet
<1>3. CASE Snapshot(p)
  BY <1>3 DEF Snapshot, NoLostWakeup
<1>4. CASE SnapshotFails(p)
  BY <1>4 DEF SnapshotFails, NoLostWakeup
<1>5. CASE \/ PurgeRow(p) \/ PurgeReturns(p) \/ UpdateReturns(p)
           \/ PublicIP(p) \/ PublicIPReturns(p) \/ LoopEnds(p)
  <2>1. ~ToRead(local[p])
    BY <1>5 DEF PurgeRow, PurgeReturns, UpdateReturns, PublicIP, PublicIPReturns, LoopEnds,
                ToRead, At
  <2>2. \E l : Become(p, l)
    BY <1>5 DEF PurgeRow, PurgeReturns, UpdateReturns, PublicIP, PublicIPReturns, LoopEnds
  <2>3. UNCHANGED <<unread, readFailed, panicked, onDemandReconcileAll>>
    BY <1>5 DEF PurgeRow, PurgeReturns, UpdateReturns, PublicIP, PublicIPReturns, LoopEnds,
                shared, flags, quiet
  <2> QED
    BY <2>1, <2>2, <2>3, WakeupKept
<1>6. CASE Panic(p)
  <2>1. CASE p \in Clients /\ Become(p, IdleLocal)
             /\ UNCHANGED <<shared, unread, readFailed, confirmed>>
    <3>1. ~ToRead(local[p])
      BY <1>6 DEF Panic, EndsInPanic, ToRead, At
    <3> QED
      BY <1>6, <2>1, <3>1, WakeupKept DEF Panic, shared
  <2>2. CASE p \in Loops /\ Boot /\ UNCHANGED files
    <3>1. CASE ReconcileInterval = 0
      BY <1>6, <3>1 DEF Panic, NoLostWakeup
    <3>2. CASE ReconcileInterval # 0
      <4>1. Scheduled \in Procs /\ Booted[Scheduled] = Reconciling
        BY <3>2 DEF Booted, Procs, Loops
      <4>2. local'[Scheduled].op = "fix" /\ local'[Scheduled].pc = "connect"
        BY <2>2, <4>1 DEF Boot, Reconciling, IdleLocal
      <4> QED
        BY <4>1, <4>2 DEF NoLostWakeup, AboutToRead, At
    <3> QED
      BY <3>1, <3>2
  <2> QED
    BY <1>6, <2>1, <2>2 DEF Panic
<1> QED
  BY <1>2, <1>3, <1>4, <1>5, <1>6 DEF ReconcileStep

\* The ticks, and the handlers' first and last steps.  The loop takes the request back
\* only when it is itself about to read; a handler renews it after its write.
LEMMA RequestWakeup ==
    ASSUME IInv, NoLostWakeup, NEW p \in Procs, UNCHANGED crashes,
           \/ Tick(p) \/ Respond(p) \/ RefreshReply(p)
           \/ p \in Clients /\ (Request(p) \/ Refresh(p))
    PROVE  NoLostWakeup'
<1>1. local[p] \in Local
  BY DEF IInv, TypeOK
<1>2. ToRead(Reconciling) /\ ToRead([IdleLocal EXCEPT !.pc = "clear flag"])
  BY DEF ToRead, Reconciling, IdleLocal
<1>3. CASE p = OnDemand /\ OnDemandTick
  BY <1>2, <1>3, WakeupKept DEF OnDemandTick, quiet
<1>4. CASE p = OnDemand /\ OnDemandClear
  BY <1>2, <1>4, WakeupKept DEF OnDemandClear, quiet
<1>5. CASE p = Scheduled /\ ScheduledTick
  BY <1>2, <1>5, WakeupKept DEF ScheduledTick, shared, quiet
<1>6. CASE Respond(p) /\ local[p].shallow
  <2>1. onDemandReconcileAll'
    BY <1>6 DEF Respond
  <2> QED
    BY <2>1 DEF NoLostWakeup
<1>7. CASE Respond(p) /\ ~local[p].shallow
  <2>1. ~ToRead(local[p])
    BY <1>7 DEF Respond, ToRead, At, RequestOps
  <2>2. UNCHANGED <<unread, onDemandReconcileAll>>
    BY <1>1, <1>7 DEF Respond, Local, IInv, TypeOK
  <2> QED
    BY <1>7, <2>1, <2>2, WakeupKept DEF Respond
<1>8. CASE RefreshReply(p)
  BY <1>8, WakeupKept DEF RefreshReply, ToRead, shared
<1>9. CASE Request(p)
  <2>1. ~ToRead(local[p]) /\ \E l : Become(p, l)
    BY <1>9 DEF Request, ToRead
  <2> QED
    BY <1>9, <2>1, WakeupKept DEF Request, shared
<1>10. CASE Refresh(p)
  BY <1>2, <1>10, WakeupKept DEF Refresh, shared
<1> QED
  BY <1>3, <1>4, <1>5, <1>6, <1>7, <1>8, <1>9, <1>10 DEF Tick

\* For every set of names, clients and every bound: no upsert that was answered before
\* it was published is forgotten, wherever the loops' clearing of the flag, their
\* reads and the handlers' writes fall.
THEOREM NoLostWakeupHolds == Spec => []NoLostWakeup
<1>1. Init => NoLostWakeup
  BY DEF Init, NoLostWakeup
<1>2. IInv /\ NoLostWakeup /\ [Next]_vars => NoLostWakeup'
  <2> SUFFICES ASSUME IInv, NoLostWakeup, [Next]_vars
               PROVE  NoLostWakeup'
    OBVIOUS
  <2>1. CASE \E p \in Procs : Step(p)
    BY <2>1, SessionWakeup, ReconcileWakeup, RequestWakeup DEF Step
  <2>2. CASE \E c \in Clients : Arrive(c)
    BY <2>2, RequestWakeup DEF Arrive, Procs
  <2>3. CASE Crash
    <3>1. CASE ReconcileInterval = 0
      BY <2>3, <3>1 DEF Crash, NoLostWakeup, IInv, TypeOK
    <3>2. CASE ReconcileInterval # 0
      <4>1. Scheduled \in Procs /\ Booted[Scheduled] = Reconciling
        BY <3>2 DEF Booted, Procs, Loops
      <4>2. local'[Scheduled].op = "fix" /\ local'[Scheduled].pc = "connect"
        BY <2>3, <4>1 DEF Crash, Boot, Reconciling, IdleLocal
      <4> QED
        BY <4>1, <4>2 DEF NoLostWakeup, AboutToRead, At
    <3> QED
      BY <3>1, <3>2
  <2>4. CASE UNCHANGED vars
    BY <2>4 DEF vars, shared, counters, history, NoLostWakeup, AboutToRead, At
  <2> QED
    BY <2>1, <2>2, <2>3, <2>4 DEF Next
<1> QED
  BY <1>1, <1>2, Invariance, PTL DEF Spec

=============================================================================
