# A TLA+ model of shimiko and its surroundings

The repository holds the Pulumi programs of a homelab and one server written for
it: **shimiko** (`src/shimiko`), which keeps the DNS records of `sapslaj.xyz` in a
sqlite table, copies them to two CoreDNS hosts (`rem`, `ram`) and to Route53, keeps
the apex record at the current public address, answers acme-dns clients and
renews its own certificate. The rest are programs that declare resources, and two
providers written for them. A deployment is a concurrent program too: its operations run
in any order the dependencies leave open, fail, are cut off and are run again. This
directory models the server, the deployment of all machine stacks, and the two
providers.

## 1. Inventory

| Part | State | Operations | Interacts with |
| --- | --- | --- | --- |
| REST handlers (`server/server_routes.go`) | the request, a persistence session | upsert, bulk upsert, delete, bulk delete, refresh, acme-dns update; read-only ones | the table; a session; the flag `OnDemandReconcileAll` |
| record table (`pkg/persistence/dns_record.go`, `persistence.go`) | rows with a soft-delete mark, unique by (name, type) | `ExistsInDB`, `Upsert`, `Delete`, `Validate` | sqlite through gorm |
| persistence session (`persistence_session.go`, `coredns.go`, `route53.go`) | a copy of rem's zone file, a change batch, `Shallow` | `NewSession`, `UpsertRecord`, `DeleteRecord`, `Finish` | scp to rem and ram, the Route53 API |
| reconciliation (`server/server.go`) | two atomic flags, the locals of a run | the on-demand and the scheduled loop, `ReconcileAll`, `FixMyself`, `ReconcilePublicIP` | all of the above, the VyOS router |
| certificates (`server/tls.go`) | account, key and certificate files | at startup: reuse, renew or obtain | an ACME server through lego, its own acme-dns |
| zone file library (`pkg/zonefile`) | none (functions) | lex, parse, tokenize, render | `coredns.go` |
| command line (`cmd`) | none | `server`, `sync` | the server, a session |
| web page (`static/index.html`) | the records shown and edited | load, save, delete | the REST interface |
| ZonePop (`zonepop-config.lua`) | none between cycles | lease and host sources, forward and reverse endpoints | the router, the REST interface |
| `DNSRecordProvider.ts` | Pulumi's state of a record | check, diff, create, update, delete, read | the REST interface |
| `RotatingAccessKey.ts` | Pulumi's state of an IAM key | create, delete | AWS; the services that hold the key |
| machine components (`mid/*.ts`) | none | declare files, packages, units and containers, with what they wait for and what triggers them | the mid provider through ssh |
| machine stacks (`*/index.ts`) | Pulumi's state, the machine | `pulumi up`, again and again | the components, AWS, Proxmox |
| `proxmox-vm` | hooks of the traits | create a VM, look its address up, register it | Proxmox, the router's leases, DNS records |
| `unifi_ssl_import.sh.njk` | a checksum file, the keystore | import when changed | systemd timer |
| `hack/pulumi_cleanup.py` | none | list, decide, remove | Pulumi's states |
| `k8s`, `infisical`, workflows | none | declare resources | Kubernetes, Infisical, Gitea |

What is hard to test here:

* **Interleaving without locks.** Handlers, `ReconcileAll` in a request and the two
  loops all run a read-modify-write of the same zone file, look rows up in one
  statement and change them in the next, and work for minutes on one copy of
  the table. The only coordination is two atomic flags.
* **Partial failure.** A session writes rem, then ram, then Route53; each may fail
  alone, a copy may break off. A batch is refused as a whole.
* **Crash and restart.** The request for a reconcile lives in memory; systemd
  restarts the process.
* **Libraries that behave otherwise than the code reads.** gorm's `First` allocates
  the struct behind a nil pointer, so "not found" never looks like nil; `Save`
  revives a soft-deleted row.
* **Order and triggers of a deployment.** A `dependsOn` that is missing fails on a new
  machine only, and only in some orders; a trigger that is missing leaves a service with
  an old file until something else restarts it.
* **State against reality.** What Pulumi records and what the machine, the DNS server or
  IAM has part company when an operation is cut off between the two.
* **Liveness.** The mirrors are repaired by the scheduled loop only, which skips its
  turn while a flag is up.

What makes each part correct, in short: the table keeps what was acknowledged;
a session moves the mirrors towards the table; a reconcile leaves them exact;
no request for a reconcile is lost; errors are reported and repaired later; what
is deleted disappears everywhere; the certificate in use is valid and belongs to
its key; text survives a cycle of the zone file library; a provider's state
agrees with the server's; everything is on the machine when it is needed, and a
service runs with what the program says; no service holds a key that was deleted.
`PROJECT.json` lists each hazard at its line with the
property that covers it. Several of them are not hazards only but happen in the code as it is. Where a
property excepts such a case by name (`KnownUnordered`, `KnownUnwatched`, `Stuck`, `doubtful`, `stray`,
`Crowded`, ...) it says that there is no other; it does not catch the case itself, and the hazard
has a note instead of a property.

## 2. Modules

| Module | What it is |
| --- | --- |
| `Shimiko` | handlers, sessions, loops, restarts: the core |
| `ShimikoProofs` | theorems about `Shimiko`: type correctness, `NoLostWakeup` |
| `ReconcileProofs` | `ReconcileExact`, `PurgedIsGone` |
| `RecordStore` | what the table promises: a store of values by name, and tasks on it |
| `AcknowledgedProofs` | what leaves the table: `OnlyPurgesLose`, `AcknowledgedUpsertStored`; that `Shimiko` implements `RecordStore` |
| `SettledProofs` | `SettledPublished` |
| `MCShimiko` + `MCShimiko_*.cfg` | instances for TLC |
| `CertificateStore` | keys and certificate of the HTTPS listener, through starts |
| `CertificateStoreProofs` | theorems about `CertificateStore` |
| `MCCertificateStore` + `MCCertificateStore_*.cfg` | instances for TLC |
| `MidComponents` | the machine components as graphs of resources |
| `Stacks` | the machine stacks as graphs, in the same notation |
| `Deployment` | ups of such graphs: any order, faults, edits, repetition |
| `DeploymentProofs` | theorems about `Deployment`, for every graph |
| `MCDeployment` + `MCDeployment_*.cfg` | `Deployment` on all of `Stacks` and `MidComponents` |
| `DNSRecordProvider`, `DNSRecordProviderProofs`, `MCDNSRecordProvider` | the dynamic provider for DNS records |
| `AccessKeys`, `AccessKeysProofs`, `MCAccessKeys` | IAM keys and the services that hold them |

A definition whose comment calls it a wrong variant is a plausible mistake in the
definition after it, used to see that a property would notice; nothing else refers to it.

### Shimiko

Processes are goroutines: one per client request (`Clients`), the on-demand loop and
the scheduled loop of `RunServer`. `local[p]` holds the locals of a goroutine, `pc`
its place in the code:

    idle -> connect -> lookup -> write [-> list] -> ... -> push -> flush -> finished -> idle

`ReconcileAll` is the same machine run three times: `op = "fix"` (FixMyself), then
`snapshot` (the one read of the table), `op = "purge"` and `op = "update"` (its two
sessions), then `returned`. A loop continues with `op = "public ip"`.

| Code | Model |
| --- | --- |
| table `dns_records`, soft deletion, unique index | `db : Names -> Row`; `id = 0` is no row |
| zone files of rem and ram, hosted zone | `zone`, `route53` |
| `Server.OnDemandReconcileAll`, `...InProgress` | two variables |
| `NewSession` | `OpenSession`, `OpenPurgeSession`, `OpenUpdateSession`, `SessionFails` |
| `CoreDNS.LoadData` refusing a file | `Loadable`; `garbled` holds the hosts with a cut entry |
| `DNSRecord.Upsert` | `Lookup`, `UpsertWrite` (one statement each) |
| `DNSRecord.Delete` | `Lookup`, `DeleteWrite`, `DeleteList` |
| `PersistenceSession.Finish` | `Push` once per host, `PushFails`, `Flush`, `FlushFails` |
| `CoreDNS.GenerateZonePreamble`, run by every save | `GenerateZonePreamble`: drops the records of `NSNames` |
| `ReconcileAll` | `Refresh` or a tick, then `FixReturns`, `Snapshot`, `PurgeRow`, `PurgeReturns`, `UpdateReturns` |
| its `err.Error()` with a nil error | `EndsInPanic`, `Panic` |
| `RunServer`'s loops | `OnDemandTick`, `OnDemandClear`, `ScheduledTick`, `PublicIP`, `LoopEnds` |
| systemd | `Crash`, `Boot` |

A step is one access to something shared; what the code then does with its own
data belongs to the step. The order in which a handler goes through a list of
records is left open. A name stands for a (name, type) pair and is valid, except
that a deletion may carry the absolute spelling, which the code accepts. A value
stands for the records under a name; texts, TTLs and the preamble's own SOA and NS
records are left out. What writing the preamble does to the entries is in the model: every save
of a zone file drops all NS records, so a record of that type is in Route53 alone (`Shown`). gorm and Route53 are modelled from their use: `First`, `Save`, `SoftDelete`,
`HardDelete`, `Acceptable`, `ApplyBatch`. The Booleans `alone`, `readFailed`,
`panicked` and the sets `unread`, `confirmed` are history: no guard reads them.

`RecordStore` is the abstract specification of the table: workers with tasks to write, delete or clean
up a set of names, which they carry out name by name, each at most once, or leave out; no rows, ids, sessions,
mirrors or loops. The mapping shows as `stored` the value of each live row, and as the task of a
goroutine the records whose statement is still to come (`Ahead`), or for a purge the soft-deleted rows of
its copy (`ToPurge`). `UpsertWrite` is `Write`; `DeleteWrite` and `PurgeRow` are `Remove`, or `Skip` if they
match no row; `Snapshot` is `Look`; arrivals, `FixMyself` and the apex record are `Take`; `Crash` is `Restart`.
A purge may remove what was written after it looked: that is the loss `acknowledged` shows, and all that can be promised.

### CertificateStore

One process at a time starts, reads or makes the account key, the key and the
certificate, and opens the HTTPS listener; `pc` is the file it has come to. `file`
says of each file whether it is missing, torn or whole. `GetOrGeneratePrivateKey` is
`ReadKey`, `CreateKey` (truncation) and `WriteKey`; the two functions for the certificate
share `ReadCertificate` and `NeedsRegenerate`, and differ in what `Obtain` makes.
`Listen` is `StartTLS` reading both files. Every failure ends the process (`Fail`); a
later `Start` may find another configuration. The composition with `Shimiko` is by
its `Boot`: while no start succeeds, nothing of the server runs.

### MidComponents, Stacks, Deployment

The resources of a component or a stack are a function from their names to records:
`on` and `refresh` are what the program tells Pulumi (`dependsOn`, outputs used,
`triggers.refresh`), `needs` and `reads` are what the operation asks of the machine,
read off its paths, owners, commands and units: the directory of a file, the user that owns
it, the package of a service, what systemd or the daemon loads at a start. `once` marks a
command that fails on its own earlier work. One definition stands for a part of one source
file; a component inside a stack is one resource. Of the commands that operations run, git and curl count as
needs where another resource of the stack installs them. sudo does not, as the connection itself uses it, and
the node exporter takes curl or wget.

`Deployment` is the machine and the state under an engine (external: Pulumi with the mid
provider). Its actions for a resource that may start are `Same`, `Apply`, `Fail` (something
needed is missing, or the work is there already), `CutOff` (the machine has changed, the state
has not) and `Fault`; `Edit`, `Begin`, `End` are the operator's. `recorded`, `stamp` and `seen`
are the state, with a `lastChanged` per resource and those its triggers referred to;
`machine` and `loaded` are what is there and what each service holds. `settled` and
`missed` are history.

`MCDeployment` joins all graphs and lists, machine by machine, the pairs for which the code
has no order (`KnownUnordered`) or no trigger (`KnownUnwatched`): the properties say that there
are no others. A behaviour looks at one *slice*: a resource, one thing it needs or reads, and
all they wait for.

### DNSRecordProvider

`program` are the inputs, `outs` what Pulumi records, `replaced` what it has still to delete,
`rows` the server's rows. One action per method of the provider and outcome: `Check`, `Same`,
`Create`, `Update`, `Fault` (refused, or stored with the answer lost), `Delete`, `DeleteReplaced`,
`Read`. The server is `DNSRecord.Upsert` and `Delete` seen from outside: an upsert without a ttl keeps
the ttl of the row, also that of a deleted one; deleting what is not there succeeds.
The engine's order is external: creations and updates, then deletions. `doubtful` and `stray` are
history: the keys for which nobody but a refresh can know what the server has.

### AccessKeys

`key` is what the state records, `keys` what IAM has, `held` what each service was started
with. `Create`, `Refused` (quota), `CutOff` and `Delete` are the provider, `Deploy` the container
or unit with the key in its environment. The keys of `shimiko/index.ts` are those of the AWS
provider, replaced and deleted alike.

## 3. Runs

| Run | Question | Outcome |
| --- | --- | --- |
| `upserts` | Two clients, upserts and bulk upserts, the on-demand loop and the apex record: is a wake-up lost, is anything stale once all is quiet? | no |
| `reconcile` | An ordinary and an NS record, one fault at any point: is a `ReconcileAll` that nothing interferes with and that reports no error exact? Does it delete rows of records that are still in a zone file? Is the table a `RecordStore`? | yes; no; yes |
| `table` | acme-dns updates and deletions racing for a name: does what was saved stay? | yes |
| `convergence` | Production setting, a request, a fault and a crash anywhere: do the mirrors converge? | yes |
| `acknowledged` | The same as `table` with the purge of a reconcile in the race | the record is lost |
| `ns_records` | Is an NS record that was answered OK in the zone files once all is quiet? | no |
| `certificates` | Does the listener get a matching, timely certificate for its domains, whatever earlier starts left? Does a server come up once faults are over? | yes; yes, if no write broke off |
| `deployment_order` | Does any resource of any stack or component lack something it needs, in any order? | only the listed pairs |
| `deployment_updates` | After edits, faults and cut-offs: does every service hold what the program says? | yes, but for the listed pairs |
| `deployment_converges` | Do repeated ups succeed? | yes, unless a `once` command was cut off |
| `dns_records` | Records declared, changed, renamed, taken over, dropped: does the server follow? | yes, outside `doubtful`, `stray` and the restless |
| `access_keys` | Is a service ever left with a deleted key, does a key leak, do ups succeed? | no, no, unless IAM is full |

`acknowledged` and `ns_records` contradict what the repository's README says of shimiko; the findings in
`PROJECT.json` quote the line.

**Bounds.** `MaxRequests`, `MaxFaults` and `MaxCrashes` bound what the environment does;
the program's own steps are not bounded. Two names suffice for one record to be
disturbed by work on another, the second being shimiko's own (`reconcile` adds an NS record); two values
distinguish stale from fresh; two clients and two loops give every pair of
racing sessions, three requests a creation, a deletion and a re-creation. A
fault may strike any step that leaves the process. What an interrupted copy leaves
(`TornOutcomes`) is the old file (all that `reconcile` has, while the theorem `ReconcileExactHolds`
has every kind), any part of the new one that ends between two entries (`convergence`, `table`), or a file
that ends within an entry (`table`). `convergence` leaves the last out: after such a copy no session opens any more (the line "foo I" is refused by
the parser, and every session begins by loading the file), so nothing is published
again. `table` also has a value that Route53 refuses. Database ids grow with the requests
only. `SYMMETRY` permutes the clients in runs without a liveness property.
Runs with `ReconcileInterval = 0` stop when the requests are used up, hence
`CHECK_DEADLOCK FALSE`; `convergence` checks deadlock.

In `CertificateStore` a unit of time is 20 days (`RenewBelow = 2`); three crashes and a
fault let three starts break off one after the other under different
configurations. `Serves` excepts the behaviours in which a file stays torn for good:
after a write that broke off no start succeeds (below) until somebody deletes the file, and
nobody deletes the key.

`Deployment` is about all 19 stacks and 15 components. `deployment_order` checks every slice, of up to 30
resources (180 slices, all there are), without edits and faults. `deployment_updates`
takes the slices of a service and a thing it reads, of up to 8 resources, with one edit and one fault
anywhere: 37 of 43, the larger ones being three of eris and those of misc, hoshino and Selfheal's timer.
`deployment_converges` takes the 100 slices of up to 4, since liveness costs most. Larger
slices add resources that wait in a chain; the theorems below hold for
all sizes. Two edits of one resource would matter only if an edit could be taken back, and
versions only grow: a program that returns to an earlier version after an operation was cut off
is not looked at here, but is in `DNSRecordProvider`. Every applied operation is taken to change
`lastChanged`.

`dns_records` has two resources and two names that are accepted, one that is not, three edits,
two faults and a refresh: a name can be given up, taken over and taken back, with a
cut-off in between. `access_keys` has two keys on one user and one on another, two replacements, a
cut-off and a key revoked by hand.

**Limits of what holds.** Met while modelling, and in the model although few have a run of
their own: one value that Route53 refuses keeps every other record out of Route53
too, since a reconcile sends one batch; `FixMyself` reports an error for a domain
without an A record where it means to log "skipping", because `First` never leaves
the pointer nil; a certificate is reused although its key was deleted and made anew,
and the listener then refuses the pair at every start; a self-signed certificate
with an IP address as a further domain is made anew at every start; a
certificate of another issuer is kept as long as it is in date. Further:

* `Route53.DeleteRecord` compares the stored short name with the listed absolute one
  (`route53.go:197`), so a record set survives the deletion and, later, its row. `ReconcileExact`
  therefore speaks of the zone files only.
* Two overlapping `ReconcileAll` can leave a record in a zone file whose row is gone
  (`server.go:513`): an older copy of the table publishes it after a newer one has purged it.
  `Converges` is about live records for that reason.
* `ReconcileAll` calls `err.Error()` with the error of its last part, which may be nil
  (`server.go:533`): `EndsInPanic`, `Panic`.
* Validation accepts HTTPS and SVCB, for which the lexer has no token (`lexer.go:17`): a record of
  these types closes the zone file to later sessions (`UnlexedNames`, `Loadable`; empty in the runs).
* Validation accepts NS too, and every save of a zone file drops all NS records
  (`coredns.go:416`; `NSNames`, the run `ns_records`). `SettledPublished`, `ReconcileExact` and
  `Converges` expect such a record in Route53 alone.
* A key or certificate file that was cut off within a write makes every later start panic
  (`tls.go:114`): the exception in `Serves`.
* Operations that need what another one brings and do not wait for it (`KnownUnordered`): the zone files of
  rem and ram their directory; the users of aqua and playboy a group that a package creates; zigbee2mqtt's clone
  on playboy git; shimiko's restore the NAS mount; bell's configuration its owner; garm the
  Kubernetes provider; and several commands the curl that the Vector component installs. Each may
  fail an up of a new machine, and succeeds in a later one.
* `Swap` writes 1024 MB whatever size is asked for; the timers of `DockerHost`'s housekeeper and of
  `Selfheal` are declared and never started. Neither is in the model of an up.
* A DNS record that loses its ttl, or all addresses with `noopOnEmpty`, differs at every up; a
  renamed resource, or a name handed to another one, loses its record to the deletion of the old one.
* Nothing rotates the keys: `expiresAt` is never read, no caller passes a trigger, and the two
  keys of the user `shimiko` (`iamKeyZonepop` is one) leave no place for a replacement.

**Fairness.** `WF_vars(Step(p))` for each goroutine: the Go scheduler runs them all, and
`time.Tick` keeps ticking. Arrivals of requests and crashes get none. A
step that may fail is fair as a whole, and faults are finite: outages end.
`Deployment`, `DNSRecordProvider` and `AccessKeys` assume that ups are repeated and go on (`WF_vars(GoesOn)`),
and strong fairness of applying what can be applied: Pulumi starts all operations that may start
at once, so that one which fails does not keep another from ever starting. An operation of `Deployment` that fails does so
after the up has passed over what has nothing to do (the last guard of `Fail`): that takes no operation on
the machine, and otherwise an up could end, each time, before it comes to the one that would help.
Edits and faults get none.

**Converges** is about live records only; a record whose row is gone is nobody's
(see the limits above). Under a scheduled loop it holds even when a crash drops a
request or a copy breaks off between two entries, since the table survives and every reconcile
rewrites everything.

## 4. Proofs

`ShimikoProofs` holds for all names, values, clients and bounds that satisfy
`ConstantsAssumption`.

* `TypeCorrect`: `Spec => []TypeOK`. `TypeOK` is not inductive: an upsert adds the name at
  hand to `confirmed`, and only a deletion may hold a name that is no row's. `IInv` adds
  that (`Addressed`), and that `snapshot` is reached from `FixMyself` only. Lemmas say what
  each helper returns (`CoreDNSUpsertType`, `SaveType`, ...); `GoroutineStep` says that a step
  preserves `IInv` if the new locals and what else changes are well-formed, and
  each action supplies just that.
* `NoLostWakeupHolds`: `Spec => []NoLostWakeup`. With `IInv` it is inductive. `WakeupKept` says when a
  step loses nothing; the sessions' steps keep a goroutine that is about to read
  in `FixMyself` or move it to the read (`SessionWakeup`), the read empties `unread`
  (`ReconcileWakeup`), a handler raises the flag in the step that adds a name
  (`RequestWakeup`), and a restart starts the scheduled loop with a reconcile.

`ReconcileProofs`: `ReconcileExactHolds`, `Spec => []ReconcileExact`, in every configuration. `ExactInv` says of
a goroutine that was alone since its read what each part of `ReconcileAll` has achieved, as long as it has noted
no error: `TableRead` (its copy is the table, but for what it has purged since), `Purging` (what was deleted is in
no zone file that this session has copied) and `Updating` (what is kept is in its zone file and batch, on the hosts
copied to, and after the flush in Route53). A step of anybody else ends `alone`, so only the goroutine's own steps
remain (`ExactStep`). For Route53 and the files `Shown` says what is to be seen of a record; `PreambleRows` is
what a save leaves of the entries. `PurgedIsGoneHolds`, an action property, rests on `Cleaned`: on the hosts a purge
session has copied to, none of the records it is to delete is left, and it gets to the rows only when it
has copied to all.

`AcknowledgedProofs`: `OnlyPurgesLose`, an action property of every configuration: what a request saved, and nobody asked to
delete, leaves the table by a purge and by no other step. `DeletionInv` says that whoever is about to delete a name
has it unconfirmed. Hence `AcknowledgedStays`: `AcknowledgedUpsertStored` holds if no name is both upserted and
deleted (`DeletesOthers`), or if nothing is upserted or refreshed and the scheduled loop is off, so that nobody reconciles
(`ReconcilesNothing`, the case of the run `table`). Some such hypothesis is needed: the run `acknowledged` has neither, and
loses a record.

The same module has `ShimikoIsRecordStore`, `Spec => ImplementsRecordStore`, the refinement, for every configuration. Every step
but a restart is described once, by what it does to the goroutine's locals (`Moves`: it goes on with fewer records, ends, turns
to the next part of `ReconcileAll`, is asked, or starts) and to the table (`TableKept`). `MovesRecords` maps the steps that
leave the table alone, `UpsertIsWrite`, `DeleteIsRemove` and `PurgeIsRemove` the three statements. The one invariant
needed besides is `AtHand`, that the record at hand is off the list: without it a name could be written twice. What it rules
out: a statement that touches a record nobody is at work on, a value no request carried, a record that comes back.

`SettledProofs`: `UpsertsSettle`, `UpsertsAlone => (Spec => []SettledPublished)`. The hypothesis is what the property is said to be
about: upserts and the on-demand loop alone, nothing failing, which includes that no record is of a type
the lexer does not know. `SyncInv` has two halves. `Calm` lists what then
never happens: no error, no deletion, every upsert shallow, the scheduled loop off. The other half is a disjunction: a read
of the table is `Pending` (the flag is up, a request will raise it, or the loop is between taking it back and its
read), or the loop's `Claim` holds, which is `Exact` of `ReconcileProofs` with the table of now, and `ApexClaim` for
`ReconcilePublicIP`, which saves a record and copies it without the flag. A client that changes the table makes a read pending
(`ClientStepSync`), the loop's read makes its claim true (`SnapshotSync`), its other steps keep it (`Keeps`).

`CertificateStoreProofs` has `TypeCorrect`; `ServedInDateHolds` and `ServedDomainsHolds` from
`DateInv` (from its choice on the certificate is suitable, and time passes only while
it is served); `PairLoadsHolds` from `KeyInv`, under the assumption that nobody deletes
the key: a certificate file exists only once the key file is complete, and then
neither the key nor what the certificate says of it changes.

`DeploymentProofs` is about `Deployment` with any graph, so about every stack that may be written.
* `TypeCorrect`, from `Types` (`TypeOK` flattened, with the slice closed under waiting).
* `OrderedMissesNothing`: `Covers => (Spec => []MissesOnlyUnordered)`. `Covers` says that what a resource
  needs is behind it or listed, a condition on the graph alone. `Order` is the invariant: what the
  state records is on the machine, and what an up is through with, and all behind it, is there.
* `WatchedStaysFresh`: `Watches => (Spec => []FreshAfterUp)`. `Fresh` relates the recorded triggers to what the
  service holds: they agree because one operation sets both, also after a cut-off, where the next
  up finds the old trigger recorded and applies again.

`DNSRecordProviderProofs`: `TypeCorrect`; `OnlyThoseRestless` from `Through` (what an up is through with
agrees with the program); `SettledIsServed` from `Served` (a key with one owner that is not doubtful has
the row its outputs describe); `SettledLeavesNoOrphans` from `Accounted` (every live row has an
owner, waits to be deleted, or is stray).

`AccessKeysProofs`: `TypeCorrect`, `HeldKeysAlive`, `SettledLeaksNothing` from `IInv`: a recorded key is of one resource,
alive and not to be deleted; deletions begin when every service holds the recorded key; every key at
IAM is recorded, to be deleted or an orphan.

Only model-checked: the `Converges` of all modules and `Serves`, since liveness under fairness is out of the
prover's reach.

## 5. Plan

1. *(done)* `Shimiko`, its runs, type correctness and the wake-up.
2. *(done)* `RecordStore`, the safety of the table in the abstract, and that `Shimiko` implements it. That the
   mirrors eventually show it is `Converges`.
3. *(done)* `CertificateStore` (`tls.go`).
4. *(done)* `MidComponents`, `Stacks`, `Deployment`: the order and triggers of all machine stacks.
5. *(done)* `DNSRecordProvider`, `AccessKeys`.
6. `ZoneFile` (`pkg/zonefile`, `coredns.go` 308-543): tokens, entries and the
   load-format-save cycle as functions, checked against a reference over bounded inputs.
7. `RecordValidation`: `Validate`, the bulk upsert that stores what it reports as
   invalid, renaming by `_id`, the listing's ten pages.
8. `MachineSetup` (traits, host lookup), `CertificateImport`, `StateCleanup`, `ZonePop`.
9. *(done)* Proofs of all invariants, action properties and refinements that a run checks.

## 6. Not modelled, and why

Text formats, logs and traces, HTTP framing and the read-only handlers: no property is
about them. Environment parsing: no state. Kubernetes components, secrets and workflows:
single declarations handed to engines outside the repository, with no order or trigger of their
own. Of the stacks: networks, policies, instances and DNS zones in the clouds, which Pulumi orders by
their outputs alone, and what files and commands contain. Virtual machines: their traits are
synchronous hooks, and the host lookup is a loop of requests to the router; planned. The components
planned above are listed as `not_modelled` until their module exists.
