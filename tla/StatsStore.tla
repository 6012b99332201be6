----------------------------- MODULE StatsStore -----------------------------
(***************************************************************************)
(* The stats store between the collector and whoever reads it: what the    *)
(* catalog readers of internal/collector observe, the rows that            *)
(* persistSnapshot (internal/ingest/server.go) makes of it, table by       *)
(* table, and the reads of internal/store/chstats*.go that the checks and  *)
(* the pages are built on.                                                 *)
(*                                                                         *)
(* One collector ships at a time, but a Send that timed out leaves its     *)
(* handler writing: the tables of two snapshots fill in any order, and a   *)
(* write that fails leaves the rest of its snapshot unwritten (Ingest).    *)
(* ClickHouse merges and expires rows whenever it likes.                   *)
(*                                                                         *)
(* A row is known by its key (a relation, a setting, a pid, a fingerprint) *)
(* and by the snapshot it is of.  What else it says is left out but for    *)
(* the calls of a query statistic: pg_stat_statements counts them since it *)
(* was reset, and the reader ships what it reads.  Two snapshots of a kind *)
(* are not taken in the same second.                                       *)
(***************************************************************************)
EXTENDS Integers, FiniteSets, Sequences

CONSTANTS Servers,
          Domains,      \* the tables that take part
          Observations, \* Observations[kind]: contents a snapshot may have
          TTL,          \* days of retention, of all tables but query_stats_t2
          RawTTL,       \* and of query_stats_t2
          MaxTime,      \* bound: time passes up to here
          MaxSnapshots, \* bound: snapshots shipped
          MaxCalls,     \* bound: calls that a monitored server executes
          InFlight      \* bound: snapshots being written at the same time

\* The tables of a snapshot and the order in which they are written.
WriteOrder ==
  [query_stats |-> 1, query_stats_t2 |-> 2, query_plans |-> 3, insights |-> 4,
   schema_objects |-> 5, table_stats |-> 6, log_events |-> 7, freeze_ages |-> 8,
   xmin_horizon |-> 9, index_stats |-> 10, settings |-> 11, connection_samples |-> 12,
   blocking_edges |-> 13]

Kinds == {"full", "connections"}

\* Tables of which the newest row of every key is read, and tables of which the
\* newest batch is.
PerKey   == {"table_stats", "index_stats", "freeze_ages", "settings"}
Batched  == {"xmin_horizon", "connection_samples", "blocking_edges"}

VARIABLES
  now,     \* time
  calls,   \* calls[s]: the counter of pg_stat_statements on s
  snaps,   \* snaps[m]: the snapshots taken
  todo,    \* todo[m]: the tables of m still to be written
  written, \* history: the tables of m that were written: <<m, table>>
  rows,    \* the rows of all tables but schema_objects
  objects  \* the rows of schema_objects

vars == <<now, calls, snaps, todo, written, rows, objects>>

Taken == 1..Len(snaps)

-----------------------------------------------------------------------------
(* Variants of the definitions below, each with a mistake the code could   *)
(* have made; substituted for the original, a property must fail.          *)

\* ORDER BY collected_at, without DESC.
NewerAscending(r, o) == r.at < o.at

\* Only the rows of tier 2 are inserted; there is no view.
InsertedPlain(new) == new

\* Rows of an object are merged as a ReplacingMergeTree merges them.
MergedLast(a, b) ==
  [a EXCEPT !.first = IF a.last > b.last THEN a.first ELSE b.first,
            !.last = IF a.last > b.last THEN a.last ELSE b.last]

-----------------------------------------------------------------------------
Init ==
  /\ now = 1 /\ calls = [s \in Servers |-> 0]
  /\ snaps = << >> /\ todo = << >> /\ written = {}
  /\ rows = {} /\ objects = {}

Tick ==
  /\ now < MaxTime
  /\ now' = now + 1
  /\ UNCHANGED <<calls, snaps, todo, written, rows, objects>>

\* A query is executed on a monitored server.
Execute(s) ==
  /\ calls[s] < MaxCalls
  /\ calls' = [calls EXCEPT ![s] = @ + 1]
  /\ UNCHANGED <<now, snaps, todo, written, rows, objects>>

Busy == {m \in Taken : todo[m] # {}}

\* The readers' results become a snapshot that is sent; a reader that is gated
\* off or fails contributes nothing.  The connections are shipped only if there
\* is a sample or an edge.
Collect(s, kind, content) ==
  LET some == {d \in Domains : content[d] # {}} IN
  /\ \A m \in Taken : ~(snaps[m].server = s /\ snaps[m].kind = kind /\ snaps[m].at = now)
  /\ kind = "connections" => some # {}
  /\ Len(snaps) < MaxSnapshots /\ Cardinality(Busy) < InFlight
  /\ snaps' = Append(snaps, [server |-> s, kind |-> kind, at |-> now,
                             content |-> content, calls |-> calls[s]])
  /\ todo' = Append(todo, some)
  /\ UNCHANGED <<now, calls, written, rows, objects>>

-----------------------------------------------------------------------------
(* Writes.                                                                 *)

\* The rows of tier t that snapshot m makes of what it has under d.
RowsOf(m, d, t) ==
  {[table |-> d, server |-> snaps[m].server, at |-> snaps[m].at,
    key |-> k, calls |-> snaps[m].calls, tier |-> t, from |-> m] :
     k \in snaps[m].content[d]}

snapshotToRows(m)    == RowsOf(m, "query_stats", 1)
snapshotToRawRows(m) == RowsOf(m, "query_stats_t2", 2)

\* The materialized view: a tier 2 row without its text is a tier 1 row.
Projected(r) == [r EXCEPT !.table = "query_stats", !.tier = 1]

Inserted(new) ==
  new \cup {Projected(r) : r \in {x \in new : x.table = "query_stats_t2"}}

\* schema_objects is stamped with the time of the write.
snapshotToSchemaObjects(m) ==
  {[server |-> snaps[m].server, key |-> k, first |-> now, last |-> now] :
     k \in snaps[m].content["schema_objects"]}

Batch(m, d) ==
  CASE d = "query_stats" -> snapshotToRows(m) [] d = "query_stats_t2" -> snapshotToRawRows(m)
    [] OTHER -> RowsOf(m, d, 1)

Insert(m, d) ==
  IF d = "schema_objects"
  THEN objects' = objects \cup snapshotToSchemaObjects(m) /\ UNCHANGED rows
  ELSE rows' = rows \cup Inserted(Batch(m, d)) /\ UNCHANGED objects

\* The table of snapshot m that is written next.
Due(m) == {d \in todo[m] : \A e \in todo[m] : WriteOrder[d] <= WriteOrder[e]}

\* One batch: all the rows of a table, or none.
Write(m) ==
  \E d \in Due(m) :
    /\ Insert(m, d)
    /\ written' = written \cup {<<m, d>>}
    /\ todo' = [todo EXCEPT ![m] = @ \ {d}]
    /\ UNCHANGED <<now, calls, snaps>>

\* A write fails, and no other of the snapshot is made.  What failed may have
\* been the view, with the tier 2 rows in.
WriteFails(m) ==
  \E d \in Due(m) :
    /\ todo' = [todo EXCEPT ![m] = {}]
    /\ rows' \in {rows} \cup
         (IF d = "query_stats_t2" THEN {rows \cup snapshotToRawRows(m)} ELSE {})
    /\ UNCHANGED <<now, calls, snaps, written, objects>>

-----------------------------------------------------------------------------
(* What ClickHouse does by itself.                                         *)

Retention(d) == IF d = "query_stats_t2" THEN RawTTL ELSE TTL

\* A merge drops the rows of a table whose time is over.
Expire ==
  /\ \E o \in rows :
       /\ now - o.at > Retention(o.table)
       /\ rows' = rows \ {r \in rows : r.table = o.table /\ r.at = o.at}
  /\ UNCHANGED <<now, calls, snaps, todo, written, objects>>

Merged(a, b) ==
  [a EXCEPT !.first = IF a.first < b.first THEN a.first ELSE b.first,
            !.last = IF a.last > b.last THEN a.last ELSE b.last]

\* AggregatingMergeTree: two rows of a key become one.
Merge ==
  /\ \E a, b \in objects :
       /\ a # b /\ a.server = b.server /\ a.key = b.key
       /\ objects' = (objects \ {a, b}) \cup {Merged(a, b)}
  /\ UNCHANGED <<now, calls, snaps, todo, written, rows>>

Next ==
  \/ \E s \in Servers, kind \in Kinds : \E c \in Observations[kind] : Collect(s, kind, c)
  \/ \E m \in Taken : Write(m) \/ WriteFails(m)
  \/ \E s \in Servers : Execute(s)
  \/ Tick \/ Expire \/ Merge

Spec == Init /\ [][Next]_vars

-----------------------------------------------------------------------------
(* Reads.                                                                  *)

\* TopQueries, Throughput, QPSBuckets, plans and insights: [since, until).
InWindow(d, ss, since, until) ==
  {r \in rows : r.table = d /\ r.server \in ss /\ r.at >= since /\ r.at < until /\ r.tier = 1}

\* ThroughputForServers, QPSBucketsForServers and TopQueries: SUM(calls), which
\* is how many calls there are in the rows.
CallsOf(some) == UNION {{r} \X (1..r.calls) : r \in some}

ThroughputForServers(ss, since, until) ==
  Cardinality(CallsOf(InWindow("query_stats", ss, since, until)))

Newer(r, o) == r.at > o.at

Mine(d, s, asOf) == {r \in rows : r.table = d /\ r.server = s /\ r.at <= asOf /\ r.tier = 1}

NewestPerKey(d, s, asOf) ==
  {r \in Mine(d, s, asOf) : ~\E o \in Mine(d, s, asOf) : o.key = r.key /\ Newer(o, r)}

NewestBatch(d, s, asOf) ==
  {r \in Mine(d, s, asOf) : ~\E o \in Mine(d, s, asOf) : Newer(o, r)}

LatestTableStats(s, asOf)        == NewestPerKey("table_stats", s, asOf)
LatestFreezeAges(s, asOf)        == NewestPerKey("freeze_ages", s, asOf)
LatestSettings(s, asOf)          == NewestPerKey("settings", s, asOf)
LatestIndexStats(s, asOf)        == NewestPerKey("index_stats", s, asOf)
LatestXminHorizon(s, asOf)       == NewestBatch("xmin_horizon", s, asOf)
LatestConnectionSamples(s, asOf) == NewestBatch("connection_samples", s, asOf)
LatestBlockingEdges(s, asOf)     == NewestBatch("blocking_edges", s, asOf)

\* assembleInput: what the checks of a server are evaluated on.
assembleInput(s, asOf) ==
  [table_stats |-> LatestTableStats(s, asOf), freeze_ages |-> LatestFreezeAges(s, asOf),
   xmin_horizon |-> LatestXminHorizon(s, asOf), settings |-> LatestSettings(s, asOf),
   connection_samples |-> LatestConnectionSamples(s, asOf),
   blocking_edges |-> LatestBlockingEdges(s, asOf), index_stats |-> LatestIndexStats(s, asOf)]

\* RecentServerIDs: the servers that the checks are evaluated for.
RecentServerIDs(since) == {r.server : r \in {x \in rows : x.table = "table_stats" /\ x.at >= since}}

\* The object inventory: when the object was first seen, and last.
FirstSeen(s, k) ==
  LET mine == {o \in objects : o.server = s /\ o.key = k} IN
  IF mine = {} THEN 0 ELSE CHOOSE t \in {o.first : o \in mine} : \A o \in mine : t <= o.first

-----------------------------------------------------------------------------
(* Properties.                                                             *)

Stored(m, d) == <<m, d>> \in written /\ now - snaps[m].at <= TTL

\* Whatever the order in which tables were filled, and whichever snapshots broke
\* off, the checks of a server see of every object nothing older than what was
\* written, and of its connections one look, whole, and the newest written.
SightFresh ==
  \A s \in RecentServerIDs(0), d \in Domains \cap (PerKey \cup Batched) :
    LET sight == assembleInput(s, now)[d] IN
    /\ \A m \in Taken : snaps[m].server = s /\ Stored(m, d) =>
         \A k \in snaps[m].content[d] :
           \E r \in sight : r.at >= snaps[m].at /\ (d \in PerKey => r.key = k)
    /\ \A r \in sight : now - r.at <= TTL =>
         IF d \in PerKey THEN \A o \in sight : r.key = o.key => r = o
         ELSE {o.key : o \in sight} = snaps[r.from].content[d]

\* A query statistic that was stored counts once in the totals of tier 1,
\* whichever tier it came by and though its text is gone long before, and a
\* window that is cut in two counts what the whole does.
DeltasOnce ==
  /\ \A m \in Taken, d \in Domains \cap {"query_stats", "query_stats_t2"} :
       Stored(m, d) =>
         \A k \in snaps[m].content[d] :
           Cardinality({r \in InWindow("query_stats", {snaps[m].server}, 0, now + 1) :
                          r.from = m /\ r.key = k}) = 1
  /\ \A cut \in 0..now :
       ThroughputForServers(Servers, 0, cut) + ThroughputForServers(Servers, cut, now + 1)
         = ThroughputForServers(Servers, 0, now + 1)

\* The day an object was first seen stays what it was, through later sightings
\* and merges (0012_schema_objects.sql: "first_seen must never be silently
\* dropped").
DayKept == \A o \in objects : FirstSeen(o.server, o.key)' = FirstSeen(o.server, o.key)

FirstSeenKept == [][DayKept]_vars

\* internal/store/types.go:14 "Throughput is the aggregate query volume for a
\* server set over a window": it is not more than what was ever executed.
ThroughputIsVolume == \A s \in Servers : ThroughputForServers({s}, 0, now + 1) <= calls[s]
=============================================================================
