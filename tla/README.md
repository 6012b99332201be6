# A TLA+ development for lynceus

lynceus watches PostgreSQL servers.  A *collector* beside each server samples
it and ships snapshots over a websocket; an *ingestion server* stores them in
ClickHouse and evaluates checks; an *API server* shows the results and keeps
configuration, with a tamper-evident audit log, in PostgreSQL.  This directory
holds specifications of the parts whose correctness depends on interleaving,
failure, order or thresholds, TLC configurations that check them on small
instances, and machine-checked proofs about eighteen of the modules.

## The system

| Part | State | Operations | Talks to |
|---|---|---|---|
| Audit chain (`internal/store/config.go`, `audit_hash.go`, `api/audit.go`) | `audit_log`: id, prev_hash, row_hash, entry, time; a sequence; an advisory lock | AppendAudit(Returning), appendAuditTx, VerifyChain, ListAudit, the audit page | called by every audited write |
| Audited writes (`capability_policy.go`, `saved_scripts.go`, `api/scripts*.go`) | `capability_policy`, `saved_scripts`, bound to entries by `audit_chain_id` | SetCapabilityPolicy, DeleteCapabilityPolicy, ApplyCapabilityPoliciesBatch, CreateScript, SetScriptScope, DeleteScript, the lists of scripts | audit chain, read replica |
| Policy distribution (`api/capabilities.go`, `collector/policy_refresh.go`, `caps/gate.go`) | the collector's gate | handlePolicySnapshot, FetchPolicySnapshot, Replace, Allowed, AllowedStrict | HTTP from collector to API, replica of the config database |
| Discovered capabilities (`caps/probes.go`, `discovered_capability.go`) | `discovered_capability` | Discover, UpsertDiscoveredCapabilities, the matrix and the page | the monitored server, policy |
| Policy resolution (`policyresolve/flatten.go`) | none (pure) | Flatten | would feed the batch write |
| Ingestion (`ingest/server.go`, `collector/shipper.go`) | connections, token buckets, ClickHouse tables, dead-letter queue | Send, handle, persistSnapshot, limiterFor, parkDLQ | websocket, ClickHouse |
| Statistics store (`store/chstats*.go`) | tables, a materialized view, TTLs, merges | writes per table, queries for the newest of each object | ingestion, checks, every page |
| Checks (`checks/`, `advisor/`, `chstats_checksmutes.go`, `api/checks.go`) | results, mutes, an advisory lock | RunOnce, the checks themselves, SetMute, ClearMute, the checks screen | ClickHouse, PostgreSQL (the lock), notifier |
| Plans (`logparse/`, `planextract/`, `insight/`, `chstats_plans.go`, the pages of advice) | `query_plans`, `insights` | Classify, Extract, the detectors, TopPlansByQuery, ListPlanKeys | log tail, pages |
| Log tail (`collector/logsource.go`, `log_pipeline.go`) | open file, inode, offset | Read, reopenIfRotated, Drain | the log file and logrotate, Send |
| Collector loop (`cmd/collector/main.go`, `activity_aggregator.go`, `fanout.go`) | tickers, the aggregator's buckets | refreshPolicy, runFull, sampleActivity, flushActivity, shipConnections, runLogTail | all of the collector's parts |
| Catalog readers (`collector/*_reader.go`, `inventory.go`) | none that outlives a read | Read | the monitored server, the gate |
| Console and T2 reads (`api/console.go`, `console/`, `t2_read.go`) | a ring of recent runs per actor and cluster | run, hand-off, restore, export, ReadT2QueryStats | audit chain, grants, an executor that is a stub |
| Migrations (`migrate.go`, `chmigrate.go`, `chsecurity.go`) | `schema_migrations`, T2 isolation | Migrate, ApplyClickHouseMigrations, OpenStats | both databases, at start |
| Fleet registry and health (`store/fleet.go`, `fleetview/`, `api/fleet.go`) | clusters, instances, the home of each server | BackfillFleet, CreateCluster, CreateInstance, AssignServerToInstance; the dashboard, overviews and lists | both stores |
| Shell and navigation (`scope/`, `web/nav.go`, `web/shell.go`, `api/shell.go`, `scripts_detail.go`) | what a tab was given: links with a scope | every GET, the run card, the hand-off to the console | the registry |

What is hard here: appenders on several API replicas share one hash chain;
audit entry and row are mostly two transactions; schedulers on several
ingestion replicas share a session lock that outlives a broken connection;
the hand-over of a snapshot is fourteen writes behind one acknowledgement
that may be lost; policy reaches the collector through three queries of a
replica and a refresh that may fail; the log is rotated while it is read;
migrations run at once with nothing that locks them; pages are put together by
dozens of reads at different moments, of which any may fail; and literal text
must not leave without its gate and its audit entry.  `PROJECT.json` lists these
hazards at their lines with the properties that would catch them going wrong.

What makes each part correct:

* audit chain: one list, linked, in id order; success means recorded; failure
  releases the lock; the verifier, and the page above it, are right about what they see;
* audited writes: nothing changes before its entry; the row names its entry;
  only the owner or an admin; nobody sees what was not shared; the log can be replayed;
* policy: raw text needs both switches, statistics follow the policy in effect,
  a switch that is thrown takes effect, and four scopes flatten to what they say;
* discovery: a verdict was true of some moment, and a page shows what was stored;
* ingestion: acknowledged means stored; limits per server hold and isolate;
  the collector is never stuck;
* statistics store: the newest of each object is what is judged, whatever arrives in
  which order; deltas once, first sightings kept;
* checks: one evaluator at a time; mutes silence; what is stored is what was
  announced; the lock comes free; worse readings never give weaker verdicts;
* log tail: every byte once, no event twice, none of a torn CSV record, no standstill;
* collector loop: no sample counted twice, none lost without a failure, the peak
  never understated, the query budget kept, every cycle ends;
* readers: what was there all the time is read, no row twice, from allowed schemas only;
* console: what is shown has its entry, and its gate was open;
* migrations: whoever serves has the whole schema, and everyone serves in the end;
* registry: runs of the backfill leave alone what was linked before them;
* pages: never rosier than the state was all the while, never of another server;
  a tab stays where its user put it.

## Modules

| Module | Models | Correspondence |
|---|---|---|
| `AuditRow` | a row, its hash, VerifyChain | a hash is the tuple of what it binds, so equal hashes mean equal content (collision freedom); `VerifyChain` returns the Go index, -1 for intact |
| `AuditLog` | what the log promises (abstract) | a list that grows, an answer that may be lost |
| `AuditChain` | AppendAuditReturning, step by step | one action per statement: `Begin`, `Lock`, `ReadTail`, `DrawId`, `Insert`, `Commit`, `Return`; `Rollback` at any of them; the sequence is not undone |
| `AuditChainProofs` | theorems about `AuditChain` and `AuditPage` | |
| `AuditPage` | handleAuditPage and its HTMX refilter | `OpenPage` reads the grid, `Verify` the verdict, `ReadTip` the newest id, each of the table of that moment; `Arrive` brings a row, with or without a gap; `Harm` is the storage's; an error of a read leaves its part empty |
| `AuditedWrites` | the six writers, and who sees which script | appending is one step (allowed by theorem `Refinement`); `BeginTx`/`CommitTx` are the two that hold the audit lock over their row writes; `Replicate` moves the replica; an answer may be lost at every step; `savedScripts` is the list, `Visible` the page of one script |
| `AuditedWritesProofs` | theorems about `AuditedWrites` | |
| `PolicyGate` | policy, API answer, gate, reader | `ListCapabilityPolicies`, `ServerT2Enabled`, `EffectiveCapability` are the answer's three queries, with `ChangePolicy` between them; `Refresh` is gate.Replace; `Read` is Reader.Read's two gate checks |
| `Capabilities` | Discover, the table, the matrix and the page | `Ask` and `AskFails` are one query of a probe, with `ServerChanges` between; `Upsert` is the write-back; `FillCell` and `ListServer` are the reads that a matrix and a page are made of |
| `PolicyGateProofs` | theorems about `PolicyGate`, `Capabilities` and `Browse` | |
| `PolicyFlatten` | Flatten | operators over policies, entities and labels |
| `Delivery` | what Send promises (abstract) | stored before told; an error leaves it open |
| `Ingest` | Send and the receiver | one process; a snapshot stands for its connection and handler; `Write` is one row set's insert; `Expire` is the handler's deadline; `Restart` kills handlers and limiters |
| `IngestProofs` | theorems about `Ingest` and `StatsStore` | |
| `StatsStore` | from an observation to what a check is given | `Collect` takes what a full cycle or a look at connections finds; `Insert` is one write of persistSnapshot, in its order; `WriteFails` ends a snapshot; `Merge` and `Expire` are ClickHouse's; `SightFresh` compares the queries with what was delivered |
| `ChecksScheduler` | RunOnce on several replicas, mutes, the screen | the lock belongs to a session: `SessionLost` breaks it, `Crash` kills a process, `SessionReaped` ends the session on the server |
| `ChecksSchedulerProofs` | theorems about `ChecksScheduler`, `CheckRules`, `PlanRules` and `PolicyFlatten` | |
| `CheckRules` | every check and advisor | one operator per rule: the rank of its finding for a reading |
| `PlanRules` | records to plans to insights and recommendations | `ParseStream`, `ExtractPlans`, `DetectAll`, `RecommendIndexes` and one operator per detector; a comparison of a condition says how its column is written, and `Matches` and `Word` are what the pattern `colCmp` reads of it |
| `Rules` | the three modules above put to the test | a behaviour makes a reading worse, logs another plan or adds a policy |
| `CollectorLoop` | main's select loop, a full cycle under RunBounded, the aggregator, what the fleet view and the page of waits read | `pc` and `arm` are the goroutine's place; `FullTick`, `Acquire`, `Finish`, `ShipFull`, `SkipFull` are runFull and its readers; `Sample`, `Flush`, `ShipConnections` and their failing or empty cases are the other arms; a Send is `Delivery`'s, composed by INSTANCE; `Elapse` fills the tickers' channels; `Restart` is any end of the process, which drops the aggregator |
| `LogTail` | FileTail, framing, Drain | the server writes a stream of bytes, a file holds an interval of it; `StatSame`/`StatOther`/`Open`/`ReadChunk` are the system calls of one Read, with writes, renames and truncations between them; `Parses` says which chunks the CSV reader refuses, `Ship` sends an event of each record that begins in the chunk and those that are made of a fragment at its start (`FragmentEvents`) |
| `LogTailProofs` | theorems about `LogTail`, `Readers` and `CollectorLoop` | |
| `Readers` | the inventory and the statistics readers | `Query` is one query, which sees the catalog of its moment; `Change` creates, drops or moves a relation; `Parents` is the outer join with `pg_inherits`, `HeadOf` the text before the first dot; `QueryFails` returns nothing, or the rows so far |
| `T2Access` | the console in several tabs, and T2Reader | one action per store call of a request (`CheckGrant`, `LoadScript`, `Resolve`, `Execute`, `Audit`, `HandOut` ...); `ChangeGate` turns any switch between two; the ring of runs is a sequence per key; the grant service is external |
| `T2AccessProofs` | theorems about `T2Access` and `AdvicePages` | |
| `Startup` | the start of every process | `ApplyStatement` and `RecordVersion` are the two halves of a ClickHouse file, which nothing joins; `ExecuteConfig`, `RecordConfig`, `CommitConfig` are a transaction per file; `Die` and `Restart` at any point; `Provision` may fail without failing the start |
| `StartupProofs` | theorems about `Startup` and `FleetView` | |
| `FleetView` | the registry, BackfillFleet, and the pages of health | `CreateCluster`, `CreateInstance`, `AssignServerToInstance` are the statements of the store, issued by hand (`Administer`) and by several runs of BackfillFleet (`SelectPending`, `BackfillCluster`, `BackfillInstance`, `BackfillAssign`, `BackfillStops`). A page is a program of reads: `ServerIDsForCluster`, `ReadChecks`, `ReadInsights`, `Judge`, `Render`; for a list `RollUp`, and for each node `ServerIDsForInstance` and `RollUpNode`; every read may fail |
| `AdvicePages` | plans as they are written and read | `WriteQueryPlans` brings plans late, twice or out of order; `OpenByKeys`, `ReadPlans`, `WeighTables`, `Show` are a page |
| `Browse` | a tab | a page keeps the links it was rendered with; `FollowNav`, `PickScope`, `ChooseRange`, `PickChip`, `SelectTarget`, `HandOff` follow them while `RegistryChanges` goes on |

Modules named `MC...` give the constants their values for TLC.  Some hold several
instances: `MCAuditChain` has `AuditPage` beside the chain, `MCPolicyGate` has
`Capabilities` and `Browse` beside the gate, `MCLogTail` has `Readers` beside the tail,
`MCStartup` has `FleetView` beside the processes that start, `MCT2Access` has
`AdvicePages` beside the tabs.  They share no state: the initial state
says, by `about`, which of them a behaviour is about, and the others
stand still, so one run checks each of them on all of its own behaviours.  `MCIngest` has
`StatsStore` beside `Ingest` and a specification for each (`IngestSpec`, `StoreSpec`),
`MCChecks` likewise `Rules` beside the scheduler (`ChecksSpec`, `DecisionsSpec`), and
`MCLogTail` also has `CollectorLoop`, with a specification of its own (`LoopSpec`).

Each component module has a few *variants*: a definition with a mistake the
code could have made, with which a property must fail.

## Runs

Bounds are small because every property is about two or three actors meeting;
each is large enough for the case it is about to happen.

| Run | Bound | Shows |
|---|---|---|
| `audit_chain` | 2 appenders, 3 ids, 2 times, 2 entries; a page of 2 rows over up to 3 | every interleaving of two appends with rollbacks and lost answers, two or three rows long: enough for a gap, a window in the middle, a removed row between two others. Two appenders suffice for a fork: a third would wait for the same lock. Clocks may disagree. Any row may be altered or removed before, between and after the page's three reads |
| `audited_writes` | 3 calls, 2 policy keys, up to 2 scripts, 2 actors | three calls make two writers of a key with a third between them; calls are symmetric |
| `policy_gate` | 1 server and database, all 54 policies; 7 capabilities, one pass, 2 changes, 1 failed question; 2 clusters of one name, 3 nodes, 2 databases, 3 changes of the registry | policy changes at every point of any number of refreshes; a change of the server before and after any question; a tab that follows any number of links. Names that clash, and a database with a colon in its name, are there from the start |
| `ingest` | 3 snapshots of 2 servers, burst 1, 1 refill | two handlers of one server race for one token while another server's is undisturbed; one snapshot has two row sets, one has one, one none |
| `checks` | 2 replicas, 2 servers, 1 alert, 2 rounds each | a broken session in one replica while the other takes over; a failure on the first of two servers |
| `log_tail` | 8 bytes in lines of two, a record of three lines and one of one, chunks of 7 bytes, 3 files; a table with two parents, its index and a TOAST table in an allowed schema, an ignored one and one with a dot in its name, 2 moves under a reader | partial lines, records cut by time and by size, a chunk of middle lines only, two rotations; an object that is created, dropped or moved before and after any query, of which any may fail or break off |
| `collector_loop` | 3 keys (two of one wait), 2 readers for 1 slot, buckets of 2 samples, time up to 4, 2 flushes, 2 starts | a bucket may be flushed in parts, lost or stored after an error, and followed by a new process; one reader waits for the other's slot. Two flushes suffice for two parts of a bucket |
| `t2_access` | 2 tabs of one actor, 2 clusters, a ring of one run, 2 audit entries; 6 plans, 2 copies, 3 rows, 2 keys listed | a run in one tab between the steps of a run, export or read in the other; every gate of the first cluster opens and closes at any step; a plan that arrives late or twice between any two reads of a page |
| `startup` | 2 API replicas and 2 migrators, 2 files in each database, the first of two statements, 2 deaths; 2 servers, one with a named database, any registry of up to 2 clusters and 2 instances (one of those that differ only in numbering), 2 backfills, 2 changes or runs, and one page (another begins from the same states) | two processes inside one file at once, and one that dies between the file's statements and its record; two servers in one instance, two instances in one cluster, two clusters; a finding that comes or goes, or a server that is moved, between any two reads; two runs of BackfillFleet with one list |
| `stats_store` | 1 server, 5 tables, 3 snapshots, 2 in flight, time up to 3, TTL 1 | two handlers that fill their tables in any order; a snapshot that stops half way; an object that is gone in the next one |
| `decisions` | readings on both sides of every threshold; logs of 2 plans of one or two nodes, with filters that are plain, cast, quoted, or dropped; 3 policies of 9 | every pair of adjacent readings; every conflict of two scopes, with a third policy that decides it |
| `stats_throughput` | as `stats_store` | the one property the code does not have (below) |

A property of a run may be the conjunction of several named ones: `StoredAsAnnounced`
contains `MuteSilences`, `EventOnce` contains `ReadIsPrefix`, `CsvWhole` and `FragmentsApart`, `GateFollowsPolicy`
what raw text and statistics need, `HarmSeen` is `TamperShown` and
`PageCovered`, `CountedOnce` contains `WaitsTrue`, `OwnerOrAdmin` contains
`SharedOnPurpose`, `PlaceKept` is `ScopeKept`, `LinksLead` and `RanWhereShown`.
The type invariants (`TypeOK`) hold in the runs too; they are stated for the
proofs, and no run spends its time on them.

`CHECK_DEADLOCK FALSE` appears where the bound lets the system stop: ids run
out, all snapshots were sent, all calls have returned, the path has no file any
more, every process serves, a case is fully judged.  The other runs check for deadlock.

### Where the code and a statement about it part

`stats_throughput` is listed as a finding: counters of pg_stat_statements are
cumulative, each full snapshot stores them as they are, and `ThroughputForServers`
adds up all rows of a window, which `types.go:14` calls "the aggregate query
volume"; whatever was executed before the first snapshot is counted once for every one.

Seven further configurations are kept for their counterexamples, each found in
seconds with `tlc -config <cfg> <module>` (`-continue` where there are two):

| Configuration | Module | Says | The code |
|---|---|---|---|
| `MCAuditGap` | `MCAuditChain` | `IntactChainVerifies`: an untampered chain verifies | a rolled-back append burns an id, and VerifyChain calls the gap tampering; `VerifyExact` shows that this is its only false alarm on a whole walk |
| | | `CountExact`: `audit.go:36-37`, "id-as-count, valid because audit ids are contiguous from 1" | an id burned before the first row, or between the verdict and the tip, is counted as an event |
| `MCAuditedBinding` | `MCAuditedWrites` | `0006_saved_scripts.sql:13-14`: `audit_chain_id` names the last scope change | it may name an older one: two changes append in one order and update in the other |
| `MCCollectorPeak` | `MCLogTail` | `PeakShown`: `types.go:26-27`, the peak of the most recent bucket | a bucket flushed in two parts is two rows, and their peaks are added; `PeakNotMissed` shows that it is never too low |
| | | `PerBucket`: `web/waits.templ:3`, "avg per bucket" | the divisor counts rows: one per database, state and part of a bucket |
| `MCLogSplit` | `LogTail` | `NeverSplits`: `logsource.go:22-23`, a chunk "never splits a record" | it may begin and end within one |
| `MCBackfillRace` | `MCStartup` | `LinkedOnce`: a server that has an instance is moved by no run; `fleet.go:199`, "Idempotent: only NULL-instance_id rows are processed" | two runs that both found a server without an instance make a cluster each, and the update of the later one (`fleet.go:65`), which does not ask for NULL, moves the server; `BackfillIdempotent` says what holds |
| `MCChecksScreen` | `MCChecks` | the screen shows what fires | an alert that cleared stays on the screen |
| `MCT2Pages` | `MCT2Access` | the pages of a result are of one run | a paging link shows the latest run of the actor on the cluster, which may be another tab's |

### Observed besides, and part of the models

* A chunk that begins inside a record gives events of a fragment: the rest of a stderr
  record, or each line from the middle of a CSV record that is a row by itself, is
  classified `log.unclassified` and shipped (`classifier.go:37`, `framework.go:64`), with no
  severity or time of its own.  Where the quotes of the fragment do not pair, the whole
  chunk is dropped with an error, and the records in it with it (`log_pipeline.go:46-49`).
* Readers other than the inventory return the rows they have when a query breaks off
  (`table_stats_reader.go:129`, `index_stats_reader.go:109`, `freeze_age_reader.go:137`), and
  a full cycle ships them as if they were all (`cmd/collector/main.go:130-172`).
* The inventory cuts `schema.table` at its first dot to decide whether a parent may be
  named (`inventory.go:155`), where "we must not leak a filtered name": a parent in the
  ignored schema `app.old` is named if `app` is allowed.  A table with two parents is listed
  with each.
* The index advisor reads columns off the text of a condition.  Of `(status)::text = $1::text`
  it reads `text`, and of a quoted name nothing, where the comment has "the op-less left
  identifier of each comparison is the column" (`advisor/index.go:20-21`).
* An info alone does not make a cluster unhealthy, and it has no card on the dashboard
  (`api/fleet.go:112-119`); it is among the items to attend to, so that the dashboard is not
  all clear.  The overview and the lists of clusters and of databases say it.
* The policy answer's two switches may come from different moments and never have
  held together; each did hold during the request.  A write that outlasts the
  handler's deadline leaves its frame unparked.
* The overview of a cluster drops errors of the reads behind its issues and says healthy
  (`scoped_overview.go:149`), and the list of clusters shows an error as a fleet
  without clusters (`clusters.go:52`): `NeverRosier` excepts these two, and only where a
  read failed.  When nobody is connected nothing is shipped, so the newest batch of
  connections stays the last that had something in it (`cmd/collector/main.go:238`).
  The API serves without the T2 row policy when provisioning it fails (`open.go:65`),
  as the comment there means it to.
* Cluster and node names are not unique.  A run that is handed to the console by
  names may land on another cluster of that name, and a run in a node's scope on
  another node of that name, since the target is resolved by name; `RanWhereShown`
  says what remains true.  A READY run card may name a node and a database that have
  no server in common: nothing runs, and nothing says so.
* A console that was opened by a cluster's name knows its scope, and the shell around
  it does not: the range control then leads to `/console` without a scope, a 404, where
  `web/shell.go` says it "keeps the user on that screen".  `LoadHref`
  `/console?script=<id>` carries neither scope nor cluster, a 404 too.  On the
  pages of a query and of a script the range falls back to `/`.
* Links of a screen's body (sort, chips, expand) drop the scope.  At fleet scope a query's
  link leads to `/plan` without a server, an empty plan.  A fleet card links to
  `?scope=<id>` without a kind, which parses as the fleet.  The sidebar is built from
  `DefaultEngines`, the routes from the configuration.
* Advice: the key limit is in the order of server and fingerprint over all servers, so
  those late in the order are not looked at; duplicates of a redelivered plan use up
  the depth; the index page merges tables of one name of several servers; a drilldown's
  server is the last key that matched, where its comment says the first.
* Discovery: `Declared` lists seven capabilities that no probe is for and that get
  INTERNAL, and so are disabled in the matrix though their readers run by default; some
  errors give NO_ROLE or NOT_INSTALLED instead of PROBE_ERROR; an OR of two answers
  may be no although one or the other always held, so `PassHonest` speaks of each.

## Fairness

* `AuditChain`: a transaction that can run its next statement does (weak fairness of
  `Statement`), and a client that keeps asking for the lock gets it (strong fairness
  of `Lock`, the queue of PostgreSQL's lock manager).  No call needs to begin and
  no statement has to fail.
* `PolicyGate`: weak fairness of the collector's loop.  A request is answered or
  fails; the code sets no timeout there, so this is an assumption.
  `KillSwitchStops` also assumes, in its statement, that refreshes stop failing.
* `Ingest`: a deadline passes, and a call that cannot succeed any more returns.
  Nothing is assumed of ClickHouse: `SendReturns` needs the deadline.
* `ChecksScheduler`: a replica's round goes on while it is alive, and the database
  ends the session of a client that is gone.
* `CollectorLoop`: a goroutine that has its slot, or finds one free, goes on, and
  PostgreSQL answers each reader with rows or an error.  Nothing is assumed of
  the tickers, of Send or of restarts.
* `LogTail`: the log ticker fires and system calls return.
* `Startup`: a process that runs goes on, and whatever deployed it starts it again.
  Failures and deaths are bounded; without that nothing would ever serve.

The other modules state safety only: a request of a page may end at any read.

## Proofs

The proofs hold for every value of the constants that satisfies the modules' `ASSUME`s,
which TLC evaluates on each run: that bounds are numbers, that "nobody" is not a
client, that a list names nothing twice, that a line fits into a chunk.  Every theorem
about all behaviours follows one plan: an invariant `IInv` of which TLC had found the
parts true, `Inductive` (it holds at first and every action keeps it, action by
action and part by part), and consequences.  The properties are seldom inductive as they stand:

| Module | Theorems (properties of the runs in brackets) | Why the property alone is not inductive, and what `IInv` adds |
|---|---|---|
| `AuditChainProofs` | `MutualExclusion`, `ChainIntact` (`ChainLinked`), `IdsInOrder`, `TailReadStable`, `AckedDurable`, `VerifierExact` (`VerifyExact`), `Refinement` (`ImplementsAuditLog`) | that the inserted row continues the chain follows from the tail being unchanged since it was read (`TailStable`), which follows from the lock (`OneAppender`), which follows from where each client is |
| | `TamperSeen` (`HarmSeen`) | of the chain it is a consequence: every window is a run of the chain (`WindowIsRun`), the first altered row is where the hash and what it binds part (`AlteredRow`, `HashBinds`). Of the page `PageInv` is inductive: harm that breaks no link leaves only rows that were written (`Seen`), and the three reads are of one table unless something came between (`Shown`) |
| `AuditedWritesProofs` | `Rightful` (`OwnerOrAdmin`), `Replayable` (`ReplayMatches`), `Audited` (`AuditedChange`), `Gone` (`GoneForGood`) | a call changes rows after its entry, so the entry must be known to be its own and its only one (`Handled`, `Entries`); permission was read in the replica, so what the replica shows must once have been in the table (`Tables`) |
| `PolicyGateProofs` | `Follows` (`GateFollowsPolicy`) | evidence is followed from the answer being put together (`AnswerGrounded`) to the gate made of it, many refreshes old perhaps (`GateGrounded`), to the reading (`ReadCurrent`) |
| | `ShownHonest` (`DiscoveryHonest`) | each answer of a pass was true of a moment of its own; `PassInv` says which answers there are at each place of the pass and what each was true of, `SheetInv` the same of each cell of a matrix and each server of a page |
| | `TabKept` (`PlaceKept`) | the page in a tab may be old: it is not the registry that answers for its links but what the page was made of (`PageGood`: offers and targets of clusters there were, and clusters stay), and a scope survives being a link only if it is one that text can mean (`Good`, `RoundTrip`) |
| `IngestProofs` | `Delivered` (`AckOrPark`), `Limited` (`RateBounded`), `Refinement` (`ImplementsDelivery`) | what a collector is told depends on where the handler is (`Handlers`); the limit needs an account of what a bucket gave out and still holds (`Account`) |
| | `SeenFresh` (`SightFresh`) | the tables of two snapshots fill in any order, so what a read finds newest is not what was written last: a row is of a snapshot that has it (`OfSnapshots`), comes and goes with its whole batch (`Whole`), stays while it is kept (`Kept`), and no two snapshots of a table are of one moment (`Moments`) |
| | `CountsOnce` (`DeltasOnce`) | a row of the totals is known by its snapshot and its key alone, by whichever tier it came (`Known`), and is there while what it was made of is kept (`Counted`): that there is one, not two and not none, follows. Two windows share no row, so their calls add up (`CallsAdd`) |
| | `FirstSeenStays` (`FirstSeenKept`) | no first day lies in the future (`Sightings`), so the earliest row of an object stays the earliest when it is seen again, and its day survives a merge (`EarliestStays`) |
| `ChecksSchedulerProofs` | `Exclusive` (`OneEvaluator`), `Faithful` (`StoredAsAnnounced`) | rounds overlap when a session is lost; what keeps them apart is not the lock but their stamps (`Stamped`), under which a replica finds what it announced itself (`Announced`) and no row yet (`Unwritten`) |
| | `NeverWeaker` (`WorseNeverWeaker`) | every rule's rank grows with what it weighs (`BandsGrow`, and one lemma for each kind of reading), so whatever was found of a reading is found of a worse one (`JudgedWorse`, `FoundWorse`); `CaseOK` says what a case can be |
| | `Flattened` (`FourTiers`) | of each level the policies at the top decide (`ResolvedIs`, `RowIs`), or nothing does and the level has no row (`RefusedIs`, `Disagree`), a database's precede all others (`Narrowest`), and rows and conflicts depend on which policies there are, not on their order (`FlattenAlike`) |
| | `PlansAdvised` (`FilterAdvised`) | `PlansOK`, that the log has records only, is inductive and says nothing of advice. Of what is made of a log: the plans shipped are exactly those of the records that parse and are classified as plans (`ShippedPlans`, `ClassifyPlan`), the columns of a candidate are the words that the pattern reads off its filter (`ColumnsOnce`), which are the columns written plainly and types of casts (`WordsAre`), a filter's scan is served by a candidate that names its statement (`FilterServed`), and candidates depend on which plans there are, not on their order (`AdviceOfPlans`, `ReversePlans`) |
| | `DiagnosedAlike` (`OneDiagnosis`) | of a reading the rules of its kind exclude each other (`FoundOnce`, `SettingOnce`, `SettingsAgree`); of a plan so do the pairs of detectors (`PairsDiffer`). The spills add up to no less than each of them, and to nothing only if there is none (`TotalHolds`), so the plan is as bad as its worst sort (`SortInSpill`) and has a cause (`SpillHasCause`); the power of two that holds the largest spill is found, and its half does not (`Recommended`) |
| `LogTailProofs` | `DeliveredOnce` (`EventOnce`) | that nothing is returned twice needs that files hold disjoint intervals (`Disk`), that the newest is unread until it is opened (`Unread`) and how far each was read (`ReadOf`); an event begins at a byte that was returned and is not in the chunk in hand (`ShippedOf`), and of a CSV record that was delivered all bytes were returned before and nothing else was made of them (`WholeOf`), so a chunk with its middle lines cannot come |
| | `ReadsExact` (`ReadExact`) | of what stayed where it was while a reader reads, `Awaits` says at each query: listed, with every parent that stayed, or its query is to come; no two queries still to be made list the same relation (`Queue`), nor one that is listed (`Past`), and within one query the rows of a table differ in the parent (`Alone`); an index is where its table is (`Follows`). Rows that break off are some of an answer, of which all this holds too |
| | `BudgetKept` | the slots in use are counted by the readers that run, so that a cycle starts with none (`DoneSlots`) |
| | `SamplesOnce` (`CountedOnce`), `PeakNeverMissed` (`PeakNotMissed`) | rows say nothing of what is still held, and a flush turns the one into the other: of each start and key, what was shipped and what is held add up to what was observed, or less once a process died (`Counts`), and when nothing of it is missing some row has its peak. It needs that the aggregator has one bucket of a start and a key (`Sound`) and that no two samples are of one time (`Noted`). The page of waits adds up rows over databases and parts: sums over parts (`TotalParts`), in proportion (`TotalScaled`) and under a bound (`TotalBound`) |
| `T2AccessProofs` | `Audits` (`EgressAudited`), `Gates` (`EgressGated`) | gates change between the calls of a request: at each call, what is in the log and which gates were found open (`AuditedAt`, `GatedAt`); and a ring filled by other tabs has only audited runs of its key (`Rings`) |
| | `Current` (`PagesCurrent`) | a page is only as good as what was there when it was opened, and that changes while it is read: nothing of it is lost (`TablesGood`), so of each key that is owed, `ReadsGood` says at each read that it is still to be read, could not be, or has its newest plan (the rows that are newer than the newest are too few to push it off the page: `TopHasNewest`) |
| `StartupProofs` | `Complete` (`SchemaComplete`) | nothing is locked: a version is recorded by a process that ran the whole file (`ReplicaOf`), and a migrator past the objects of a file is alone in there (`Alone`) |
| | `Registered` (`BackfillIdempotent`) | a run moves a server only while it has it on its list, and to an instance of the cluster that it made for it: `RegInv` has this of every run (`RunOk`), whatever the others and an administrator do in between, since the registry only grows (`Grown`) |
| | `PagesHonest` (`NeverRosier`) | a page says what it owes only when it is shown; `Cover` says it at each of its reads: a cluster is still to come, is being read, or has its card, and of the one being read which findings are in hand, and of each of its nodes likewise. It needs where the reads can stand (`PageOk`), and that a finding which lasts is of a server that stays in its instance, and stays among the insights that are read for its cluster (`Seen`), whichever servers are moved |

`Inductive`, and `TypeCorrect` where typing is part of it, are theorems of each module too.
The two refinements map initial states to initial states and each step to a step or a
stutter.  The page has one timestamp (`Times <- {1}` in `MCAuditChain`), so harm to a time
alone is the chain's part of `HarmSeen`.  Of `StatsStore`,
`MCIngest` assumes that the retention is a number, that a snapshot has finitely many rows, and
that a table is filled by full cycles or by looks at connections, never by both, as the
collector's two loops fill theirs.  All
else in these statements is arbitrary.  Of `FleetView`, `MCStartup` assumes that there are
finitely many servers; of `Readers`, `MCLogTail` assumes what PostgreSQL's catalog says: an
index is on a table, a table on nothing, and parents are relations, of tables only; of `CollectorLoop`, that a bucket has some
width, that there are finitely many readers and kinds of backends, and that a load is a
number for each kind; of `Browse`, `MCPolicyGate` assumes that ids
and what is between the colons of a text are strings and that every node has a name, as
`BackfillFleet` (`fleet.go:224`) gives it one; of `AdvicePages`, `MCT2Access` assumes that there
are finitely many plans, that servers are counted from 1, that times are numbers and that at
least one plan of a key is read; of `Rules`, `MCChecks` assumes that a reading has the fields
and the numbers of its kind, that a policy has one of the four scopes and a number for a
priority, that a connection is to a database, whose name is never empty
(`current_database()`, `flatten.go:86`), that a node of a plan has its fields, its conditions
names, types and operators that are strings, a sequential
scan a table and a spill less than a terabyte (the bound `MaxMB` of the powers of two), and
that `fsync` and `full_page_writes` are on or off, as PostgreSQL has them.  A log may have any
number of plans of any such nodes; the trees of `LogRecords` have one node or two, which the
lemmas about one plan (`PlanOnce`, `ColumnsOnce`, `TotalHolds`, `Recommended`) do not need.

The prover does not read every form: `Window` is a recursive function rather than a
`SelectSeq`, whose definition takes an operator; names of questions have no spaces, and the
name that is not there is `Blank`, not empty text; that a word of the code is a string is
told to it (`Word`).  A sum is the size of a set, a pair for each unit that is added up
(`CallsOf`, `Total`), rather than a fold, so that it can be proved about.

What a recursive function or a concatenation of a whole sequence computes is reached without
an induction over an operator: `UpTo` takes the set of the numbers for which a claim holds,
`Recursion` gives the function that a number of steps makes, and `FlattenRuns`, `FlattenSet`
and `OnlySet` say what is in a flattened sequence, `TotalRuns` what is in a sum.

Only model-checked is liveness (`AppendEnds`, `SendReturns`, `KillSwitchStops`, `LockFreed`,
`CatchesUp`, `CycleEnds`, `EventuallyServes`): the proof system does not do `ENABLED`, and so
no fairness.  Every other property of the passing runs is stated by a theorem.

## Not modelled

* Generated code: `snapshot.pb.go` and the `_templ.go` files are 17,752 of the
  37,088 lines of Go outside the tests.  They translate messages and
  templates and decide nothing.  Of the hand-written lines more than half are
  mapped to definitions.
* View models: labels, colours, ages, sorting and searching of rows, sparklines,
  figures of a card; declarations of types; configuration from the environment;
  handlers that only fetch and render.
* The readers of settings, of the xmin horizon, of connections and of activity are a
  query each behind the same gate; `StatsStore` and `CollectorLoop` have what they read.
* The cards of nodes on a cluster's overview; and who calls the operations of the
  registry: nothing outside the tests calls `BackfillFleet` or creates clusters so far, so
  `Administer` and the runs come in any order.
* The text of conditions: a name that ends in "in" or "between" before IS NULL, say, gives
  the advisor a part of itself, since the pattern needs no space there.
* ClickHouse beyond inserts, merges, expiry and the materialized view; the size of
  messages; the text of hashes and JSON; SQL normalisation beyond that what
  cannot be parsed is dropped.
* A collector that restarts while tailing (it reads the whole file again), several
  ingestion processes (each has its own limiters), and skewed clocks of mutes.
* Login and tokens, TLS, test fixtures.

## Plan

All components of the plan are modelled and checked, and what they promise in every state
and at every step is proved.  Two promises are weaker than one would wish, because the code
gives no more: runs of the backfill side by side may move a server (`MCBackfillRace`), and of
plan keys beyond the limit of a page `PagesCurrent` claims nothing.  What is left to TLC is liveness.  Of the hazards listed, one has
no property: a row that says firing stays on the screen after the alert has cleared
(`internal/api/checks.go:60`), since no check stores a row when it clears.
