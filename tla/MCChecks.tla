------------------------------ MODULE MCChecks ------------------------------
(* What the ingestion server makes of what it has: the scheduler of the     *)
(* checks, with two replicas, two servers and one alert; and in behaviours  *)
(* of their own the rules that decide (Rules), on readings around every     *)
(* threshold, on plans of one node or two, and on policies of all scopes    *)
(* for two servers of different databases.                                  *)
EXTENDS ChecksScheduler, Sequences, TLC

CONSTANTS Readings, Nodes, Tables, ScopedPolicies, Graph, MaxPlans, MaxPolicies

VARIABLE subject

Decide == INSTANCE Rules

\* What an observation of a kind says.
Says(kind) ==
  CASE kind = "connection" -> {"state", "activeSeconds", "stateSeconds"}
    [] kind = "edge"       -> {"waitSeconds"}
    [] kind = "index"      -> {"valid", "primary", "unique", "scans", "size"}
    [] kind = "table"      -> {"live", "dead", "modified", "sinceAutovacuum"}
    [] kind = "freeze"     -> {"xid", "mxid"}
    [] kind = "horizon"    -> {"present", "age"}
    [] kind = "recommendation" -> {"seqScans", "size"}
    [] OTHER -> {}

Words == {"state", "valid", "primary", "unique", "present"}

KindsOfReading ==
  {"connection", "edge", "index", "table", "freeze", "horizon", "recommendation", "setting"}

ASSUME ReadingsAssumption ==
  \A kind \in DOMAIN Readings :
    /\ kind \in KindsOfReading
    /\ kind # "setting" => \A o \in Readings[kind] :
         DOMAIN o = Says(kind) /\ \A f \in Says(kind) \ Words : o[f] \in Int

\* A policy has one of the four scopes, and a connection has a database.
ASSUME PoliciesAssumption ==
  /\ \A p \in ScopedPolicies :
       /\ p.scope \in {"fleet", "group", "instance", "database"} /\ p.priority \in Int
       /\ \A t \in p.toggles : t.enabled \in BOOLEAN
  /\ \A s \in DOMAIN Graph : Graph[s].database # Decide!F!NoDatabase

\* The fields of a node of a plan.  A sequential scan is of a table, and no node
\* spills a terabyte.
Fields == {"type", "parent", "relation", "planRows", "rows", "loops", "removed", "sortSpace",
           "sortKB", "batches", "peakKB", "direction", "conds"}

Terms == [col : STRING, left : {"plain", "cast", "other"}, type : STRING, op : STRING]
Conds == [parses : BOOLEAN, quoteLeft : BOOLEAN, terms : Seq(Terms)]

Terabyte == 1024 * Decide!P!MaxMB

ASSUME NodesAssumption ==
  \A n \in Nodes :
    /\ DOMAIN n = Fields
    /\ n.type = "Seq Scan" => n.relation # ""
    /\ \A kb \in {n.sortKB, n.peakKB} : kb \in Nat /\ kb < Terabyte
    /\ n.conds \in Seq(Conds)

\* fsync and full_page_writes are switches.
ASSUME SettingsAssumption ==
  "setting" \in DOMAIN Readings =>
    \A o \in Readings["setting"] : o.name \in {"fsync", "full_page_writes"} => o.value \in {"on", "off"}

Conns == [state : {"active", "idle in transaction", "idle in transaction (aborted)", "idle"},
          activeSeconds : {0, 299, 300, 900, 901}, stateSeconds : {0, 300, 899, 900}]
Edges == [waitSeconds : {0, 59, 60, 61}]
Indexes == [valid : BOOLEAN, primary : BOOLEAN, unique : BOOLEAN,
            scans : {0, 50, 51}, size : {1023, 1024, 97656, 97657}]
Rels == [live : {0, 1000, 10000}, dead : {0, 999, 1000, 2050, 2051, 4101, 10000},
         modified : {0, 999, 1000, 5000}, sinceAutovacuum : {0, 24, 25}]
Freezes == [xid : {0, 499999999, 500000000, 1500000000}, mxid : {0, 500000000, 1499999999, 1500000000}]
Horizons == [present : BOOLEAN, age : {0, 49999999, 50000000, 500000000}]
Recommendations == [seqScans : {0, 99999, 100000}, size : {0, 97656, 97657}]

Setting(n, values, units) ==
  [name : {n}, value : values, unit : units, source : {"default", "configuration file"}]
Settings ==
  UNION {Setting(n, {"on", "off"}, {""}) :
           n \in {"autovacuum", "track_counts", "track_activities", "fsync", "full_page_writes", "track_io_timing"}}
    \cup Setting("synchronous_commit", {"on", "off", "local", "remote_write"}, {""})
    \cup Setting("shared_buffers", {16384, 16385}, {"8kB"}) \cup Setting("work_mem", {4096, 4097}, {"kB"})
    \cup Setting("work_mem", {1}, {"GB", "pages"}) \cup Setting("maintenance_work_mem", {65536}, {"kB"})
    \cup Setting("default_statistics_target", {99, 100}, {""})
    \cup Setting("autovacuum_vacuum_cost_limit", {200}, {""})
    \cup Setting("autovacuum_vacuum_scale_factor", {5, 20}, {""}) \cup Setting("random_page_cost", {110, 400}, {""})

MCReadings ==
  [connection |-> Conns, edge |-> Edges, index |-> Indexes, table |-> Rels, freeze |-> Freezes,
   horizon |-> Horizons, recommendation |-> Recommendations, setting |-> Settings]

-----------------------------------------------------------------------------
Cond(parses, quote, terms) == [parses |-> parses, quoteLeft |-> quote, terms |-> terms]
Term(left, col, type, op) == [col |-> col, left |-> left, type |-> type, op |-> op]
On(col, op) == Term("plain", col, "", op)

Plain == [parent |-> 0, relation |-> "", planRows |-> 10, rows |-> 10, loops |-> 1, removed |-> 0,
          sortSpace |-> "", sortKB |-> 0, batches |-> 0, peakKB |-> 0, direction |-> "", conds |-> << >>]
Node(type, with) ==
  [f \in DOMAIN Plain \cup {"type"} |->
     IF f = "type" THEN type ELSE IF f \in DOMAIN with THEN with[f] ELSE Plain[f]]

\* Scans with a filter on two columns, on one, on one that is cast or cannot be
\* told; a sort and a hash on disk; a limit and a loop over what they scan; an index.
MCNodes ==
  {Node("Seq Scan", [relation |-> "t", removed |-> 99990,
                     conds |-> <<Cond(TRUE, FALSE, <<On("b", "<"), On("a", "="), On("b", ">")>>)>>]),
   Node("Seq Scan", [relation |-> "t", planRows |-> 20000, conds |-> <<Cond(TRUE, FALSE, <<On("a", "=")>>)>>]),
   Node("Sort", [sortSpace |-> "Disk", sortKB |-> 40000, rows |-> 5000]),
   Node("Limit", [rows |-> 10]),
   Node("Nested Loop", [planRows |-> 100000]),
   Node("Seq Scan", [parent |-> 1, relation |-> "u", rows |-> 2000,
                     conds |-> <<Cond(FALSE, FALSE, <<On("c", "=")>>), Cond(TRUE, TRUE, <<On("d", "=")>>),
                                Cond(TRUE, FALSE, <<Term("other", "E", "", "="), On("f", "@>")>>)>>]),
   Node("Seq Scan", [parent |-> 1, relation |-> "t", loops |-> 1000,
                     conds |-> <<Cond(TRUE, FALSE, <<On("a", "="), Term("cast", "g", "text", "=")>>),
                                Cond(FALSE, FALSE, <<On("c", "=")>>)>>]),
   Node("Index Scan", [parent |-> 1, relation |-> "t", removed |-> 5000, direction |-> "Forward"]),
   Node("Bitmap Heap Scan", [parent |-> 1, relation |-> "t", removed |-> 200000]),
   Node("Hash", [parent |-> 1, batches |-> 8, peakKB |-> 65536])}

MCTables == [t \in {"t"} |-> [size |-> 200000, seqScans |-> 100000]]

-----------------------------------------------------------------------------
Policy(scope, priority, selector, database, toggles) ==
  [scope |-> scope, priority |-> priority, selector |-> selector, database |-> database, toggles |-> toggles]

Toggle(enabled) == [cap |-> "plans", enabled |-> enabled]

MCPolicies ==
  {Policy("fleet", 0, {}, "", {Toggle(TRUE)}), Policy("fleet", 1, {}, "", {Toggle(FALSE)}),
   Policy("group", 0, {"g"}, "", {Toggle(FALSE)}), Policy("group", 0, {"g"}, "", {Toggle(TRUE)}),
   Policy("instance", 0, {"g", "i"}, "", {Toggle(TRUE)}), Policy("instance", 1, {"i"}, "", {Toggle(FALSE)}),
   Policy("database", 0, {"g"}, "x", {Toggle(FALSE)}), Policy("database", 0, {}, "x", {Toggle(TRUE)}),
   Policy("database", 1, {}, "z", {Toggle(TRUE)})}

MCGraph == [s \in {"s1", "s2"} |->
  IF s = "s1" THEN [database |-> "x", labels |-> {"g", "i"}] ELSE [database |-> "y", labels |-> {"g"}]]

-----------------------------------------------------------------------------
\* What is at rest has nothing.
NoReadings == << >>
NoGraph    == << >>

ChecksInit == Init /\ subject = Decide!Logged(<< >>)
ChecksNext == Next /\ UNCHANGED subject
ChecksSpec == ChecksInit /\ [][ChecksNext]_<<vars, subject>> /\ Fairness

DecisionsInit == Init /\ Decide!Init
DecisionsNext == Decide!Next /\ UNCHANGED vars
DecisionsSpec == DecisionsInit /\ [][DecisionsNext]_<<vars, subject>>

\* One cause has one diagnosis (Rules, of internal/checks, internal/advisor and
\* internal/insight).
OneDiagnosis == Decide!OneDiagnosis

\* Every filter of a logged plan is advised on once (Rules, of planextract and
\* insight).
FilterAdvised == Decide!FilterAdvised

\* Policies of four scopes decide as the two stored levels do (Rules, of
\* policyresolve.Flatten).
FourTiers == Decide!FourTiers

\* What was found of a thing is found of it, no less grave, when it got worse
\* (Rules, of the checks' and the advisors' thresholds).
WorseNeverWeaker == Decide!WorseNeverWeaker
=============================================================================
