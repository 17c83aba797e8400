------------------------------ MODULE Shimiko ------------------------------
(***************************************************************************)
(* The shimiko server (src/shimiko/server, src/shimiko/pkg/persistence):   *)
(* the table of DNS records behind the REST interface, the persistence     *)
(* sessions that copy records to the two CoreDNS hosts and to Route53, and *)
(* the goroutines that reconcile the three.                                *)
(*                                                                         *)
(* Every goroutine that runs a handler or a reconcile is a member of       *)
(* Procs.  A step is one access to something shared: one database          *)
(* statement, one zone file copied from or to a host, one Route53 call,    *)
(* one load or store of an atomic flag; the computation on local data that *)
(* follows it belongs to the step.  No lock protects any of them, in the   *)
(* code or here.                                                           *)
(*                                                                         *)
(* A name stands for a (name, type) pair of the table, a value for the     *)
(* list of resource records stored under it.  Names are the validated ones *)
(* (DNSRecord.Validate); only a DELETE, which the code does not validate,  *)
(* may carry another spelling (AbsoluteName).                              *)
(***************************************************************************)
EXTENDS Naturals, Sequences

CONSTANTS
    Names,              \* (name, type) pairs
    Values,             \* lists of resource records
    Absent,             \* no value
    Clients,            \* request goroutines
    Operations,         \* the kinds of request the clients make
    UpsertNames,        \* what the clients create or change ...
    DeleteNames,        \* ... and what they delete
    Self,               \* the A record of SHIMIKO_CERT_DOMAINS
    SelfValue,          \* this machine's own address
    ApexNames,          \* {} when there is no VYOS_API_TOKEN, else {"@"}
    PublicAddresses,    \* what the WAN interface or the failover list gives
    RejectedValues,     \* values for which Route53 refuses a change batch
    UnlexedNames,       \* those of a type the lexer has no token for (HTTPS, SVCB)
    NSNames,            \* those of type NS
    TornOutcomes,       \* what a copy that breaks off may leave, besides the old file
    ReconcileInterval,  \* SHIMIKO_RECONCILE_INTERVAL, 0 is "disabled"
    MaxRequests, MaxFaults, MaxCrashes  \* bounds on the environment

OnDemand == "on-demand"
Scheduled == "scheduled"
Loops == {OnDemand, Scheduled}
Procs == Clients \cup Loops

RequestOps == {"upsert", "bulk upsert", "delete", "bulk delete", "acme", "refresh"}
ReconcileOps == {"fix", "purge", "update"}
Ops == RequestOps \cup ReconcileOps \cup {"public ip", "none"}
BulkOps == {"bulk upsert", "bulk delete"}
DeleteOps == {"delete", "bulk delete"}

CoreDNSHosts == <<"rem", "ram">>
Hosts == {"rem", "ram"}

\* FullHostname, with the trailing dot Route53 puts after it in a listing.
AbsoluteName(n) == <<n, "sapslaj.xyz.">>
Targets == Names \cup {AbsoluteName(n) : n \in Names}

ASSUME ConstantsAssumption ==
    /\ Absent \notin Values
    /\ Clients \cap Loops = {}
    /\ Operations \subseteq RequestOps
    /\ UpsertNames \subseteq Names /\ DeleteNames \subseteq Targets
    /\ Self \in Names /\ SelfValue \in Values
    /\ ApexNames \subseteq Names /\ PublicAddresses \subseteq Values
    /\ RejectedValues \subseteq Values
    /\ UnlexedNames \subseteq Names
    /\ NSNames \subseteq Names \ ({Self} \cup ApexNames)
    /\ TornOutcomes \subseteq {"partial", "garbled"}
    /\ ReconcileInterval \in Nat
    /\ MaxRequests \in Nat /\ MaxFaults \in Nat /\ MaxCrashes \in Nat
    /\ \A n \in Names : AbsoluteName(n) \notin Names

-----------------------------------------------------------------------------
(* Data.                                                                   *)

MaybeValue == Values \cup {Absent}

\* A row of the table; deleted is "deleted_at is set".  The unique index on
\* (name, type) makes the table a function of the name; id 0 is "no row", and
\* ZeroRow the empty struct gorm leaves behind when it finds none.
Row == [id : Nat, value : MaybeValue, deleted : BOOLEAN]
ZeroRow == [id |-> 0, value |-> Absent, deleted |-> FALSE]

Zone == [Names -> MaybeValue]
EmptyZone == [n \in Names |-> Absent]

Change == [action : {"NONE", "UPSERT", "DELETE"}, value : MaybeValue]
Batch == [Names -> Change]
NoChange == [action |-> "NONE", value |-> Absent]
EmptyBatch == [n \in Names |-> NoChange]

PCs == {"idle", "connect", "lookup", "write", "list", "push", "flush",
        "finished", "clear flag", "snapshot", "returned", "off"}

\* The locals of one goroutine: its place in the code, the request or the part
\* of ReconcileAll it executes, the records of that (names), those still to do
\* (todo), the value for them, the record at hand and the id found for it; the session's
\* zone file, change batch, mode and next host; the errors so far of the request
\* or session (hasError) and of ReconcileAll (returnErrors), and ReconcileAll's
\* copy of the table.
Local == [pc : PCs, op : Ops, names : SUBSET Targets, todo : SUBSET Targets,
          value : MaybeValue, name : Targets, id : Nat,
          entries : Zone, batch : Batch, shallow : BOOLEAN, host : 1..2,
          hasError : BOOLEAN, returnErrors : BOOLEAN,
          records : [Names -> Row]]

IdleLocal == [pc |-> "idle", op |-> "none", names |-> {}, todo |-> {},
              value |-> Absent, name |-> Self, id |-> 0,
              entries |-> EmptyZone, batch |-> EmptyBatch, shallow |-> FALSE, host |-> 1,
              hasError |-> FALSE, returnErrors |-> FALSE,
              records |-> [n \in Names |-> ZeroRow]]

VARIABLES
    db,          \* the sqlite table
    nextId,      \* its AUTOINCREMENT counter
    zone,        \* the zone file on each CoreDNS host
    garbled,     \* hosts whose zone file ends in the middle of an entry
    route53,     \* the hosted zone in Route53
    onDemandReconcileAll, onDemandInProgress,  \* the two atomic.Bool of Server
    local,       \* the goroutines
    requests, faults, crashes,  \* counters behind the bounds
    \* History, read by no action:
    unread,      \* names answered "OK, will be reconciled" and not read since
    readFailed,  \* a ReconcileAll gave up because it could not read the table
    confirmed,   \* names a request saved with no DELETE of them around or since
    alone,       \* a ReconcileAll nothing interfered with since it read the table
    panicked     \* a goroutine dereferenced a nil error

shared == <<db, nextId, zone, garbled, route53, onDemandReconcileAll, onDemandInProgress>>
table == <<db, nextId>>
files == <<zone, garbled>>
external == <<files, route53>>
flags == <<onDemandReconcileAll, onDemandInProgress>>
quiet == <<requests, unread, readFailed, confirmed, panicked>>
counters == <<requests, faults, crashes>>
history == <<unread, readFailed, confirmed, alone, panicked>>
vars == <<shared, local, counters, history>>

TypeOK ==
    /\ db \in [Names -> Row] /\ nextId \in Nat
    /\ zone \in [Hosts -> Zone] /\ garbled \subseteq Hosts /\ route53 \in Zone
    /\ onDemandReconcileAll \in BOOLEAN /\ onDemandInProgress \in BOOLEAN
    /\ local \in [Procs -> Local]
    /\ requests \in Nat /\ faults \in Nat /\ crashes \in Nat
    /\ unread \subseteq Names /\ confirmed \subseteq Names
    /\ readFailed \in BOOLEAN /\ panicked \in BOOLEAN
    /\ alone \in [Procs -> BOOLEAN]

-----------------------------------------------------------------------------
(* Operators on the data.                                                  *)

HasRow(n) == db[n].id # 0
Live(n) == HasRow(n) /\ ~db[n].deleted

\* gorm's First into a nil pointer: the row, or a zero struct if there is none.
\* The scoped form does not see soft-deleted rows.
First(t) == IF t \in Names /\ Live(t) THEN db[t] ELSE ZeroRow
FirstUnscoped(t) == IF t \in Names THEN db[t] ELSE ZeroRow

\* DNSRecord.ExistsInDB: "existing != nil", which First never leaves nil.
ExistsInDB(t) == FirstUnscoped(t) \in Row

\* gorm's Save: INSERT for id 0, else UPDATE of the row that is not deleted, else
\* INSERT ON CONFLICT(id) UPDATE.  Another id under the name violates the index.
CanSave(n, id) == db[n].id \in {0, id}

\* A wrong variant: the deleted mark of the row stays.
SaveKeepsDeleted(n, id, v) ==
    /\ db' = [db EXCEPT ![n] = [id |-> IF id = 0 THEN nextId ELSE id,
                                value |-> v, deleted |-> db[n].deleted]]
    /\ nextId' = IF id = 0 THEN nextId + 1 ELSE nextId

Save(n, id, v) ==
    /\ db' = [db EXCEPT ![n] = [id |-> IF id = 0 THEN nextId ELSE id,
                                value |-> v, deleted |-> FALSE]]
    /\ nextId' = IF id = 0 THEN nextId + 1 ELSE nextId

\* A wrong variant: a row that was not found is no condition.
SoftDeleteUnconditioned(t, id) ==
    db' = [n \in Names |-> IF id = 0 \/ (n = t /\ db[n].id = id)
                           THEN [db[n] EXCEPT !.deleted = TRUE] ELSE db[n]]

\* gorm's soft delete: UPDATE ... SET deleted_at WHERE id = ? AND deleted_at IS NULL.
SoftDelete(t, id) ==
    db' = IF t \in Names /\ id # 0 /\ FirstUnscoped(t).id = id
          THEN [db EXCEPT ![t].deleted = TRUE] ELSE db

\* Unscoped().Delete: DELETE ... WHERE id = ?, whatever deleted_at is by now.
HardDelete(n, id) == db' = IF db[n].id = id THEN [db EXCEPT ![n] = ZeroRow] ELSE db

\* CoreDNS.UpsertRecord and DeleteRecord on the session's copy of the zone file,
\* for several records at once; ShouldReplace is false for equal names.
CoreDNSUpsert(entries, values) ==
    [n \in Names |-> IF n \in DOMAIN values THEN values[n] ELSE entries[n]]
CoreDNSDelete(entries, T) == [n \in Names |-> IF n \in T THEN Absent ELSE entries[n]]

\* CoreDNS.GenerateZonePreamble, run by every Save: the file begins with an SOA and
\* the NS records of the zone itself (left out here), and of the entries every one of
\* these types is dropped, whatever its name.
GenerateZonePreamble(entries) == CoreDNSDelete(entries, NSNames)

\* Route53.UpsertRecord and DeleteRecord on the session's change batch.  The
\* deletion is for the listed record sets whose absolute name is the record's Name.
Route53Upsert(batch, values) ==
    [n \in Names |-> IF n \in DOMAIN values
                     THEN [action |-> "UPSERT", value |-> values[n]] ELSE batch[n]]
Route53Delete(batch, T) ==
    [n \in Names |-> IF route53[n] # Absent /\ AbsoluteName(n) \in T
                     THEN [action |-> "DELETE", value |-> route53[n]] ELSE batch[n]]

\* Route53 applies a batch as a whole: it refuses one with an invalid value, or
\* with a deletion that does not state the current value.
Acceptable(batch) ==
    \A n \in Names : /\ batch[n].action = "UPSERT" => batch[n].value \notin RejectedValues
                     /\ batch[n].action = "DELETE" => batch[n].value = route53[n]
ApplyBatch(batch) ==
    [n \in Names |-> CASE batch[n].action = "NONE" -> route53[n]
                       [] batch[n].action = "UPSERT" -> batch[n].value
                       [] batch[n].action = "DELETE" -> Absent]

-----------------------------------------------------------------------------
(* Steps.                                                                  *)

\* A step uses one of the bounded faults (an outage, an I/O or database error),
\* or none.
Fails == faults < MaxFaults /\ faults' = faults + 1
Works == UNCHANGED faults

At(p, pc, ops) == local[p].pc = pc /\ local[p].op \in ops
Become(p, l) == local' = [local EXCEPT ![p] = l]

\* ReconcileAll begins with FixMyself.
Reconciling == [IdleLocal EXCEPT !.pc = "connect", !.op = "fix", !.names = {Self},
                                 !.todo = {Self}, !.value = SelfValue]

\* The step after a record of a request is done with: the next one, or Finish.
Continue(l) ==
    [l EXCEPT !.pc = IF l.todo # {} THEN "lookup"
                     ELSE IF l.shallow THEN "finished" ELSE "push"]

\* What the caller does when a record fails: a request for one record answers 500
\* at once, without Finish; the bulk handlers and FixMyself note it and go on.
GiveUp(l) ==
    IF l.op \in BulkOps \cup {"fix"} THEN Continue([l EXCEPT !.hasError = TRUE])
    ELSE IF l.op = "public ip" THEN [l EXCEPT !.pc = "returned"]
    ELSE IdleLocal

-----------------------------------------------------------------------------
(* A client's request.                                                     *)

\* A handler decodes and validates its body.
Request(c) ==
    /\ local[c].pc = "idle" /\ requests < MaxRequests
    /\ \E o \in Operations \ {"refresh"}, v \in Values :
       \E T \in SUBSET (IF o \in DeleteOps THEN DeleteNames ELSE UpsertNames) :
          /\ IF o \in BulkOps THEN T # {} ELSE \E t \in T : T = {t}
          /\ Become(c, [IdleLocal EXCEPT !.pc = "connect", !.op = o, !.names = T, !.todo = T,
                                         !.value = IF o \in DeleteOps THEN Absent ELSE v])
          /\ confirmed' = IF o \in DeleteOps THEN confirmed \ T ELSE confirmed
    /\ requests' = requests + 1
    /\ Works /\ UNCHANGED <<shared, unread, readFailed, panicked>>

\* POST /v1/dns-records/refresh runs a ReconcileAll in the request.
Refresh(c) ==
    /\ "refresh" \in Operations
    /\ local[c].pc = "idle" /\ requests < MaxRequests
    /\ Become(c, Reconciling)
    /\ requests' = requests + 1
    /\ Works /\ UNCHANGED <<shared, unread, readFailed, confirmed, panicked>>

\* A wrong variant: no request while a reconcile is in progress.
RespondUnlessInProgress(c) ==
    /\ c \in Clients /\ At(c, "finished", RequestOps)
    /\ LET l == local[c] IN
       /\ onDemandReconcileAll' = (onDemandReconcileAll \/ (l.shallow /\ ~onDemandInProgress))
       /\ unread' = IF l.shallow THEN unread \cup (l.names \cap Names) ELSE unread
    /\ Become(c, IdleLocal)
    /\ Works /\ UNCHANGED <<table, external, onDemandInProgress, requests,
                            readFailed, confirmed, panicked>>

\* After Finish: a shallow request asks for a reconcile; then the answer is sent.
Respond(c) ==
    /\ c \in Clients /\ At(c, "finished", RequestOps)
    /\ LET l == local[c] IN
       /\ onDemandReconcileAll' = (onDemandReconcileAll \/ l.shallow)
       /\ unread' = IF l.shallow THEN unread \cup (l.names \cap Names) ELSE unread
    /\ Become(c, IdleLocal)
    /\ Works /\ UNCHANGED <<table, external, onDemandInProgress, requests,
                            readFailed, confirmed, panicked>>

RefreshReply(c) ==
    /\ c \in Clients /\ local[c].pc = "returned"
    /\ Become(c, IdleLocal)
    /\ Works /\ UNCHANGED <<shared, requests, unread, readFailed, confirmed, panicked>>

-----------------------------------------------------------------------------
(* A persistence session: NewSession, the records, Finish.                 *)

SessionOps == {"upsert", "bulk upsert", "delete", "bulk delete", "acme", "fix", "public ip"}

\* The lexer and the parser accept the zone file of the first host.
Loadable == "rem" \notin garbled /\ \A n \in UnlexedNames : zone["rem"][n] = Absent

\* NewSession loads the zone file of the first host; then the upsert handlers set
\* Shallow.  FixMyself may have no IPv6 address: an error, and it goes on.
OpenSession(p) ==
    /\ At(p, "connect", SessionOps) /\ Loadable
    /\ \E ipv6Fails \in {FALSE} \cup {local[p].op = "fix"} :
          /\ IF ipv6Fails THEN Fails ELSE Works
          /\ Become(p, [local[p] EXCEPT
                !.entries = zone["rem"], !.batch = EmptyBatch, !.pc = "lookup",
                !.shallow = /\ local[p].op \in {"upsert", "bulk upsert"}
                            /\ \A t \in local[p].todo : ExistsInDB(t),
                !.hasError = ipv6Fails])
    /\ UNCHANGED <<shared, quiet>>

\* The first session of ReconcileAll, on its copy of the table: what is soft-deleted
\* goes.  todo is "deleted": the rows whose Route53 listing did not fail.  The
\* listings are part of the step, since they find nothing under a row's short name.
OpenPurgeSession(p) ==
    /\ At(p, "connect", {"purge"}) /\ Loadable
    /\ LET rows == local[p].records
           gone == {n \in Names : rows[n].id # 0 /\ rows[n].deleted}
       IN \E unlisted \in SUBSET gone :
             /\ IF unlisted = {} THEN Works ELSE Fails
             /\ Become(p, [local[p] EXCEPT
                   !.entries = CoreDNSDelete(zone["rem"], gone),
                   !.batch = Route53Delete(EmptyBatch, gone \ unlisted),
                   !.shallow = FALSE, !.hasError = FALSE, !.host = 1, !.pc = "push",
                   !.todo = gone \ unlisted,
                   !.returnErrors = @ \/ unlisted # {}])
    /\ UNCHANGED <<shared, quiet>>

\* A wrong variant: deleted rows are upserted as well.
OpenUpdateSessionAll(p) ==
    /\ At(p, "connect", {"update"}) /\ Loadable
    /\ LET rows == local[p].records
           values == [n \in {m \in Names : rows[m].id # 0} |-> rows[n].value]
       IN Become(p, [local[p] EXCEPT
             !.entries = CoreDNSUpsert(zone["rem"], values),
             !.batch = Route53Upsert(EmptyBatch, values),
             !.shallow = FALSE, !.hasError = FALSE, !.host = 1, !.pc = "push",
             !.todo = {}])
    /\ Works /\ UNCHANGED <<shared, quiet>>

\* Its second session: the rest is upserted.
OpenUpdateSession(p) ==
    /\ At(p, "connect", {"update"}) /\ Loadable
    /\ LET rows == local[p].records
           kept == {n \in Names : rows[n].id # 0 /\ ~rows[n].deleted}
           values == [n \in kept |-> rows[n].value]
       IN Become(p, [local[p] EXCEPT
             !.entries = CoreDNSUpsert(zone["rem"], values),
             !.batch = Route53Upsert(EmptyBatch, values),
             !.shallow = FALSE, !.hasError = FALSE, !.host = 1, !.pc = "push",
             !.todo = {}])
    /\ Works /\ UNCHANGED <<shared, quiet>>

\* The zone file cannot be copied or parsed, or FixMyself gives up before that.
SessionFails(p) ==
    /\ local[p].pc = "connect"
    /\ IF Loadable THEN Fails ELSE Works
    /\ LET l == local[p] IN
       Become(p, CASE l.op = "fix" -> [l EXCEPT !.pc = "snapshot", !.returnErrors = TRUE]
                   [] l.op \in {"purge", "update"} ->
                        [l EXCEPT !.pc = "returned", !.returnErrors = TRUE]
                   [] l.op = "public ip" -> [l EXCEPT !.pc = "returned"]
                   [] OTHER -> IdleLocal)
    /\ UNCHANGED <<shared, quiet>>

\* The next record: Upsert looks for the row even if soft-deleted, Delete and
\* FixMyself only for a live one.  FixMyself then upserts the empty struct it finds
\* in place of a missing row, which is an error.  An error of the query is ignored
\* and looks like a missing row.
Lookup(p) ==
    /\ At(p, "lookup", SessionOps)
    /\ \E t \in local[p].todo :
          LET l == [local[p] EXCEPT !.todo = @ \ {t}]
              stored == IF l.op \in DeleteOps \cup {"fix"} THEN First(t)
                        ELSE FirstUnscoped(t)
          IN \E row \in {stored, ZeroRow} :
                /\ IF row = stored THEN Works ELSE Fails
                /\ Become(p, IF l.op = "fix" /\ row.id = 0 THEN GiveUp(l)
                             ELSE [l EXCEPT !.name = t, !.id = row.id, !.pc = "write"])
    /\ UNCHANGED <<shared, quiet>>

DeletePending(n) == \E c \in Clients : local[c].op \in DeleteOps /\ n \in local[c].names

\* DNSRecord.Upsert from Save on.
UpsertWrite(p) ==
    /\ At(p, "write", SessionOps \ DeleteOps)
    /\ LET l == local[p]
           values == [n \in {l.name} |-> l.value]
       IN /\ CanSave(l.name, l.id) /\ Save(l.name, l.id, l.value)
          /\ Become(p, Continue(IF l.shallow THEN l
                       ELSE [l EXCEPT !.entries = CoreDNSUpsert(@, values),
                                      !.batch = Route53Upsert(@, values)]))
          /\ confirmed' = IF l.op \notin RequestOps \/ DeletePending(l.name) THEN confirmed
                          ELSE confirmed \cup {l.name}
    /\ Works /\ UNCHANGED <<external, flags, requests, unread, readFailed, panicked>>

\* DNSRecord.Delete up to Route53.DeleteRecord ...
DeleteWrite(p) ==
    /\ At(p, "write", DeleteOps)
    /\ SoftDelete(local[p].name, local[p].id)
    /\ Become(p, [local[p] EXCEPT !.pc = "list",
                                  !.entries = CoreDNSDelete(@, {local[p].name})])
    /\ Works /\ UNCHANGED <<nextId, external, flags, quiet>>

\* ... which lists the hosted zone.
DeleteList(p) ==
    /\ At(p, "list", DeleteOps)
    /\ Become(p, Continue([local[p] EXCEPT !.batch = Route53Delete(@, {local[p].name})]))
    /\ Works /\ UNCHANGED <<shared, quiet>>

\* The database refuses the statement (always, if it violates the unique index), or
\* the listing fails.  A deletion that found no row executes no statement.
RecordFails(p) ==
    /\ local[p].pc \in {"write", "list"}
    /\ At(p, "write", DeleteOps) => local[p].id # 0
    /\ LET l == local[p] IN
       /\ IF l.op \notin DeleteOps /\ ~CanSave(l.name, l.id) THEN Works ELSE Fails
       /\ Become(p, GiveUp(l))
    /\ UNCHANGED <<shared, quiet>>

\* A wrong variant: the host is counted on.
PushWithoutReset(p) ==
    /\ local[p].pc = "push"
    /\ LET l == local[p] IN
       /\ zone' = [zone EXCEPT ![CoreDNSHosts[l.host]] = GenerateZonePreamble(l.entries)]
       /\ garbled' = garbled \ {CoreDNSHosts[l.host]}
       /\ Become(p, IF l.host = 1 THEN [l EXCEPT !.host = 2]
                    ELSE [l EXCEPT !.pc = "flush", !.host = 3])
    /\ Works /\ UNCHANGED <<table, route53, flags, quiet>>

\* CoreDNS.Save renders the entries under a new preamble and copies the file to one
\* host after the other.
Push(p) ==
    /\ local[p].pc = "push"
    /\ LET l == local[p] IN
       /\ zone' = [zone EXCEPT ![CoreDNSHosts[l.host]] = GenerateZonePreamble(l.entries)]
       /\ garbled' = garbled \ {CoreDNSHosts[l.host]}
       /\ Become(p, IF l.host = 1 THEN [l EXCEPT !.host = 2]
                    ELSE [l EXCEPT !.pc = "flush", !.host = 1])
    /\ Works /\ UNCHANGED <<table, route53, flags, quiet>>

\* An interrupted copy may leave a part of the file on the host, which ends between
\* two entries or within one.
Torn(l) ==
    LET host == CoreDNSHosts[l.host] IN
    \/ UNCHANGED files
    \/ /\ "partial" \in TornOutcomes
       /\ \E kept \in SUBSET Names :
             zone' = [zone EXCEPT ![host] =
                         CoreDNSDelete(GenerateZonePreamble(l.entries), Names \ kept)]
       /\ garbled' = garbled \ {host}
    \/ /\ "garbled" \in TornOutcomes
       /\ garbled' = garbled \cup {host} /\ UNCHANGED zone

\* A failed copy ends CoreDNS.Save; Finish still flushes the change batch.
PushFails(p) ==
    /\ local[p].pc = "push" /\ Fails
    /\ Torn(local[p])
    /\ Become(p, [local[p] EXCEPT !.pc = "flush", !.host = 1, !.hasError = TRUE])
    /\ UNCHANGED <<table, route53, flags, quiet>>

\* Route53.FlushChangeBatch; an empty batch is not sent.
Flush(p) ==
    /\ local[p].pc = "flush" /\ Acceptable(local[p].batch)
    /\ route53' = ApplyBatch(local[p].batch)
    /\ Become(p, [local[p] EXCEPT !.pc = "finished"])
    /\ Works /\ UNCHANGED <<table, files, flags, quiet>>

FlushFails(p) ==
    /\ local[p].pc = "flush" /\ local[p].batch # EmptyBatch
    /\ IF Acceptable(local[p].batch) THEN Fails ELSE Works
    /\ Become(p, [local[p] EXCEPT !.pc = "finished", !.hasError = TRUE])
    /\ UNCHANGED <<shared, quiet>>

-----------------------------------------------------------------------------
(* ReconcileAll.                                                           *)

FixReturns(p) ==
    /\ At(p, "finished", {"fix"})
    /\ Become(p, [local[p] EXCEPT !.pc = "snapshot", !.returnErrors = local[p].hasError])
    /\ Works /\ UNCHANGED <<shared, quiet>>

\* The table is read once, soft-deleted rows included.
Snapshot(p) ==
    /\ local[p].pc = "snapshot"
    /\ Become(p, [local[p] EXCEPT !.pc = "connect", !.op = "purge", !.records = db])
    /\ unread' = {}
    /\ Works /\ UNCHANGED <<shared, requests, readFailed, confirmed, panicked>>

SnapshotFails(p) ==
    /\ local[p].pc = "snapshot" /\ Fails
    /\ Become(p, [local[p] EXCEPT !.pc = "returned", !.returnErrors = TRUE])
    /\ readFailed' = TRUE
    /\ UNCHANGED <<shared, requests, unread, confirmed, panicked>>

\* A wrong variant: rows are deleted after an error too.
PurgeRowRegardless(p) ==
    /\ At(p, "finished", {"purge"})
    /\ \E n \in local[p].todo :
          /\ \/ Works /\ HardDelete(n, local[p].records[n].id)
             \/ Fails /\ UNCHANGED db
          /\ Become(p, [local[p] EXCEPT !.todo = @ \ {n}])
    /\ UNCHANGED <<nextId, external, flags, quiet>>

\* After a Finish without error each of "deleted" is deleted for good; a failure of
\* that is logged, and joined to the errors as the nil err of Finish.
PurgeRow(p) ==
    /\ At(p, "finished", {"purge"}) /\ ~local[p].hasError
    /\ \E n \in local[p].todo :
          /\ \/ Works /\ HardDelete(n, local[p].records[n].id)
             \/ Fails /\ UNCHANGED db
          /\ Become(p, [local[p] EXCEPT !.todo = @ \ {n}])
    /\ UNCHANGED <<nextId, external, flags, quiet>>

PurgeReturns(p) ==
    /\ At(p, "finished", {"purge"})
    /\ local[p].hasError \/ local[p].todo = {}
    /\ Become(p, [local[p] EXCEPT !.pc = "connect", !.op = "update",
                                  !.returnErrors = @ \/ local[p].hasError])
    /\ Works /\ UNCHANGED <<shared, quiet>>

\* The end of ReconcileAll asks the nil error of its last Finish for its text when
\* an earlier part has failed.
EndsInPanic(p) ==
    At(p, "finished", {"update"}) /\ local[p].returnErrors /\ ~local[p].hasError

UpdateReturns(p) ==
    /\ At(p, "finished", {"update"}) /\ ~EndsInPanic(p)
    /\ Become(p, [local[p] EXCEPT !.pc = "returned",
                                  !.returnErrors = @ \/ local[p].hasError])
    /\ Works /\ UNCHANGED <<shared, quiet>>

-----------------------------------------------------------------------------
(* RunServer's loops, the process.                                         *)

\* Every second: a requested reconcile is marked in progress, then the request is
\* taken back, then ReconcileAll runs.
OnDemandTick ==
    /\ local[OnDemand].pc = "idle" /\ onDemandReconcileAll
    /\ onDemandInProgress' = TRUE
    /\ Become(OnDemand, [IdleLocal EXCEPT !.pc = "clear flag"])
    /\ Works /\ UNCHANGED <<table, external, onDemandReconcileAll, quiet>>

OnDemandClear ==
    /\ local[OnDemand].pc = "clear flag"
    /\ onDemandReconcileAll' = FALSE
    /\ Become(OnDemand, Reconciling)
    /\ Works /\ UNCHANGED <<table, external, onDemandInProgress, quiet>>

\* Every ReconcileInterval, unless an on-demand reconcile is in progress by now.
ScheduledTick ==
    /\ local[Scheduled].pc = "idle" /\ ~onDemandInProgress
    /\ Become(Scheduled, Reconciling)
    /\ Works /\ UNCHANGED <<shared, quiet>>

\* ReconcilePublicIP follows ReconcileAll in both loops: the router is asked for the
\* address of the apex, which may fail.
PublicIP(p) ==
    /\ p \in Loops /\ At(p, "returned", ReconcileOps) /\ ApexNames # {}
    /\ \/ Works /\ \E v \in PublicAddresses :
             Become(p, [IdleLocal EXCEPT !.pc = "connect", !.op = "public ip",
                                         !.names = ApexNames, !.todo = ApexNames, !.value = v])
       \/ Fails /\ Become(p, [local[p] EXCEPT !.op = "public ip"])
    /\ UNCHANGED <<shared, quiet>>

PublicIPReturns(p) ==
    /\ At(p, "finished", {"public ip"})
    /\ Become(p, [local[p] EXCEPT !.pc = "returned"])
    /\ Works /\ UNCHANGED <<shared, quiet>>

\* A wrong variant: the request flag goes with the mark.
LoopEndsClearingFlag(p) ==
    /\ p \in Loops /\ local[p].pc = "returned"
    /\ ApexNames = {} \/ local[p].op = "public ip"
    /\ Become(p, IdleLocal)
    /\ onDemandInProgress' = (onDemandInProgress /\ p # OnDemand)
    /\ onDemandReconcileAll' = (onDemandReconcileAll /\ p # OnDemand)
    /\ Works /\ UNCHANGED <<table, external, quiet>>

\* A wrong variant: the mark stays.
LoopEndsInProgress(p) ==
    /\ p \in Loops /\ local[p].pc = "returned"
    /\ ApexNames = {} \/ local[p].op = "public ip"
    /\ Become(p, IdleLocal)
    /\ Works /\ UNCHANGED <<shared, quiet>>

LoopEnds(p) ==
    /\ p \in Loops /\ local[p].pc = "returned"
    /\ ApexNames = {} \/ local[p].op = "public ip"
    /\ Become(p, IdleLocal)
    /\ onDemandInProgress' = (onDemandInProgress /\ p # OnDemand)
    /\ Works /\ UNCHANGED <<table, external, onDemandReconcileAll, quiet>>

\* A wrong variant: the first reconcile waits for a tick.
BootedWithoutReconcile == [p \in Procs |->
    IF p = Scheduled /\ ReconcileInterval = 0 THEN [IdleLocal EXCEPT !.pc = "off"]
    ELSE IdleLocal]

\* A new process: no goroutine, flags down; the scheduled loop begins with a
\* reconcile, or ends at once.
Booted == [p \in Procs |-> IF p # Scheduled THEN IdleLocal
                           ELSE IF ReconcileInterval # 0 THEN Reconciling
                           ELSE [IdleLocal EXCEPT !.pc = "off"]]

Boot ==
    /\ local' = Booted
    /\ onDemandReconcileAll' = FALSE /\ onDemandInProgress' = FALSE
    /\ unread' = {n \in Names : HasRow(n)}
    /\ UNCHANGED <<table, route53, readFailed, confirmed>>

\* The process dies, perhaps in the middle of a copy, and systemd starts it again.
Crash ==
    /\ crashes < MaxCrashes /\ crashes' = crashes + 1
    /\ UNCHANGED files \/ \E p \in Procs : local[p].pc = "push" /\ Torn(local[p])
    /\ Boot /\ alone' = [p \in Procs |-> FALSE]
    /\ UNCHANGED <<requests, faults, panicked>>

\* A panic in a request is recovered by the middleware; in a loop it ends the process.
Panic(p) ==
    /\ EndsInPanic(p) /\ panicked' = TRUE
    /\ \/ p \in Clients /\ Become(p, IdleLocal)
          /\ UNCHANGED <<shared, unread, readFailed, confirmed>>
       \/ p \in Loops /\ Boot /\ UNCHANGED files
    /\ Works /\ UNCHANGED requests

-----------------------------------------------------------------------------
Init ==
    /\ db = [n \in Names |-> IF n = Self THEN [id |-> 1, value |-> SelfValue, deleted |-> FALSE]
                             ELSE ZeroRow]
    /\ nextId = 2
    /\ zone = [h \in Hosts |-> [n \in Names |-> db[n].value]] /\ garbled = {}
    /\ route53 = [n \in Names |-> db[n].value]
    /\ onDemandReconcileAll = FALSE /\ onDemandInProgress = FALSE
    /\ local = Booted
    /\ requests = 0 /\ faults = 0 /\ crashes = 0
    /\ unread = {} /\ readFailed = FALSE /\ confirmed = {} /\ panicked = FALSE
    /\ alone = [p \in Procs |-> FALSE]

\* What a goroutine does by itself once a request has arrived or a tick is due.
SessionStep(p) ==
    \/ OpenSession(p) \/ OpenPurgeSession(p) \/ OpenUpdateSession(p) \/ SessionFails(p)
    \/ Lookup(p) \/ UpsertWrite(p) \/ DeleteWrite(p) \/ DeleteList(p) \/ RecordFails(p)
    \/ Push(p) \/ PushFails(p) \/ Flush(p) \/ FlushFails(p)

ReconcileStep(p) ==
    \/ FixReturns(p) \/ Snapshot(p) \/ SnapshotFails(p) \/ PurgeRow(p) \/ PurgeReturns(p)
    \/ UpdateReturns(p) \/ PublicIP(p) \/ PublicIPReturns(p) \/ LoopEnds(p) \/ Panic(p)

Tick(p) ==
    \/ p = OnDemand /\ (OnDemandTick \/ OnDemandClear)
    \/ p = Scheduled /\ ScheduledTick

\* A reconcile is alone from its Snapshot on as long as no other goroutine steps.
Observe(p) ==
    alone' = [q \in Procs |->
        /\ q = p
        /\ \/ alone[p]
           \/ local[p].pc = "snapshot"
              /\ \A r \in Procs \ {p} : local[r].pc \in {"idle", "off"}]

Step(p) ==
    /\ SessionStep(p) \/ ReconcileStep(p) \/ Tick(p) \/ Respond(p) \/ RefreshReply(p)
    /\ Observe(p) /\ UNCHANGED crashes

Arrive(c) == (Request(c) \/ Refresh(c)) /\ Observe(c) /\ UNCHANGED crashes

Next == (\E p \in Procs : Step(p)) \/ (\E c \in Clients : Arrive(c)) \/ Crash

\* The Go scheduler runs every goroutine and time.Tick keeps ticking; clients need
\* not send anything.
Fairness == \A p \in Procs : WF_vars(Step(p))

Spec == Init /\ [][Next]_vars /\ Fairness

-----------------------------------------------------------------------------
(* Properties.                                                             *)

\* A zone file shows a record's value, but nothing of an NS record: no Save keeps it.
Shown(n, v) == IF n \in NSNames THEN Absent ELSE v

Published(n) == /\ \A h \in Hosts : h \notin garbled /\ zone[h][n] = Shown(n, db[n].value)
                /\ route53[n] = db[n].value

Settled == /\ ~onDemandReconcileAll
           /\ \A p \in Procs : local[p].pc \in {"idle", "off"}

\* This goroutine will read the table before it does anything else with it.
AboutToRead(p) ==
    \/ local[p].pc \in {"clear flag", "snapshot"}
    \/ At(p, local[p].pc, {"fix"}) /\ local[p].pc \notin {"idle", "off", "returned"}

\* No reconcile request is lost: while an upsert that was answered without being
\* published has not been read by a ReconcileAll, one is requested or about to read
\* the table.  The loop clears the flag before it reads, an upsert sets it after it
\* writes.  Exceptions: the read itself failed (nobody repeats it), or the process
\* restarted with the scheduled loop disabled.
NoLostWakeup ==
    unread # {} =>
        \/ onDemandReconcileAll
        \/ \E p \in Procs : AboutToRead(p)
        \/ readFailed
        \/ ReconcileInterval = 0 /\ (crashes > 0 \/ panicked)

\* With upserts and the on-demand loop alone, nothing failing: when all is quiet
\* Route53 and, but for NS records, the two CoreDNS hosts carry the newest value of
\* every record, however the upserts fell between the loop's reads and copies.
SettledPublished == Settled => \A n \in Names : Live(n) => Published(n)

\* What README.md:244-246 says of every record: it is synchronised to rem and ram too.
SettledOnHosts ==
    Settled => \A n \in Names, h \in Hosts : Live(n) => zone[h][n] = db[n].value

\* A ReconcileAll that nothing interfered with since it read the table, and that
\* reports no error, leaves every live record published (an NS record in Route53
\* alone) and no record it found deleted in a zone file.
ReconcileExact ==
    \A p \in Procs :
        At(p, "returned", {"update"}) /\ alone[p] /\ ~local[p].returnErrors =>
            \A n \in Names :
                /\ Live(n) => Published(n)
                /\ ~Live(n) /\ local[p].records[n].id # 0 =>
                      \A h \in Hosts : zone[h][n] = Absent

\* A ReconcileAll that nothing interfered with since it read the table deletes a row
\* for good only when the record is in no zone file any more, whatever failed: with
\* the row gone nobody would ever take it out.
PurgedIsGone ==
    [][\A p \in Procs : alone[p] /\ alone'[p] =>
          \A n \in Names : HasRow(n) /\ ~HasRow(n)' =>
              \A h \in Hosts : zone[h][n] = Absent]_vars

\* What a request saved, as every upsert answered OK did, stays in the table until
\* somebody asks for its deletion.
AcknowledgedUpsertStored == \A n \in confirmed : Live(n)

\* Once clients, outages and crashes are over, every live record ends up, and stays,
\* published (an NS record in Route53 alone): what concurrent sessions overwrote, a
\* copy that broke off, a request that died with the process.
Converges == <>[](\A n \in Names : Live(n) => Published(n))

-----------------------------------------------------------------------------
(* The table seen as a RecordStore.                                        *)

WriteTask(T, v) == [kind |-> "write", names |-> T, value |-> v]
DeleteTask(T) == [kind |-> "delete", names |-> T, value |-> Absent]
CleanUpTask(T) == [kind |-> "clean up", names |-> T, value |-> Absent]
NoTask == [kind |-> "none", names |-> {}, value |-> Absent]

\* What clients ask for, and what FixMyself and ReconcilePublicIP do.
RecordRequests ==
    {WriteTask(T, v) : T \in SUBSET UpsertNames, v \in Values}
    \cup {DeleteTask(T) : T \in SUBSET (DeleteNames \cap Names)}
    \cup {WriteTask({Self}, SelfValue)}
    \cup {WriteTask(ApexNames, v) : v \in PublicAddresses}

\* The records whose statement is still to come.
Ahead(l) ==
    {n \in Names : \/ l.pc \in {"connect", "lookup", "write", "list"} /\ n \in l.todo
                   \/ l.pc = "write" /\ n = l.name}

\* The soft-deleted rows of the copy, until the session has decided what to purge.
ToPurge(l) ==
    IF l.pc = "connect" THEN {n \in Names : l.records[n].id # 0 /\ l.records[n].deleted}
    ELSE l.todo

Task(l) ==
    IF l.pc \in {"idle", "off", "clear flag", "snapshot", "returned"} THEN NoTask
    ELSE IF l.op \in DeleteOps THEN DeleteTask(Ahead(l))
    ELSE IF l.op \in SessionOps THEN WriteTask(Ahead(l), l.value)
    ELSE IF l.op = "purge" THEN CleanUpTask(ToPurge(l))
    ELSE NoTask

Store == INSTANCE RecordStore WITH
    Workers <- Procs, Requests <- RecordRequests, AtStart <- {WriteTask({Self}, SelfValue)},
    stored <- [n \in Names |-> IF Live(n) THEN db[n].value ELSE Absent],
    task <- [p \in Procs |-> Task(local[p])]

\* Statement by statement, whatever interleaves, fails or restarts: a visible value
\* changes only by a request or loop at work at that time, to what this one carries,
\* once for each of its names; or by a purge of what was deleted when the table was
\* read.  Nothing else is ever written, and no record reappears by itself.
ImplementsRecordStore == Store!Spec

=============================================================================
