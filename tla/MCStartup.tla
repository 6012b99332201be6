----------------------------- MODULE MCStartup ------------------------------
(* Startup with two replicas, two migrators, two files in either database; *)
(* and, in behaviours of their own when all have started, the fleet        *)
(* registry that was migrated and the pages of it (FleetView), over two    *)
(* servers, one of which has a database with a name, in every registry of  *)
(* up to two clusters and two instances, with two runs of BackfillFleet.   *)
EXTENDS Startup, FiniteSets

CONSTANTS Servers, Named, Backfills, Severities, TopInsights, MaxClusters, MaxChanges

VARIABLES clusters, instances, home, backfill, firing, insights, changes, page, lasting

fleet == <<clusters, instances, home, backfill, firing, insights, changes, page, lasting>>

Fleet == INSTANCE FleetView

ASSUME ServersAssumption == TopInsights \in Nat /\ MaxClusters \in Nat

MCStatements == <<<<"table", "view">>, <<"column">>>>
MCProvisions == <<"ttl", "policy">>
MCSeverities == [checks |-> {"critical", "info"}, insights |-> {"medium"}]

\* A behaviour is about the processes that start, or about the pages that are
\* served afterwards.
VARIABLE about

Started ==
  /\ at = [p \in Processes |-> Call(IF p \in Replicas THEN "serve" ELSE "done", 1, 1)]
  /\ schema = UNION {{v} \X DOMAIN Statements[v] : v \in Files}
  /\ versions = Files /\ secured = {Provisions[i] : i \in 1..Len(Provisions)}
  /\ applied = [v \in 1..ConfigFiles |-> v] /\ recorded = 1..ConfigFiles
  /\ deaths = 0

\* Of registries that differ only in how they number clusters and instances, one.
Numbered ==
  /\ \A i, j \in DOMAIN instances : i < j => instances[i] <= instances[j]
  /\ \A i \in DOMAIN instances : instances[i] > 1 => \E j \in 1..(i - 1) : instances[j] = instances[i] - 1
  /\ \A s \in Servers : home[s] > 1 => \E t \in Servers : home[t] = home[s] - 1

MCInit ==
  /\ Fleet!Init /\ Numbered
  /\ \/ about = "processes" /\ Init /\ clusters = << >>
     \/ about = "pages" /\ Started

\* One page: another begins from the same states as the first may.
MCNext ==
  \/ about = "processes" /\ Next /\ UNCHANGED <<about, fleet>>
  \/ about = "pages" /\ page.shown = "nothing" /\ Fleet!Next /\ UNCHANGED <<about, vars>>

MCSpec == MCInit /\ [][MCNext]_<<vars, about, fleet>> /\ Fairness

\* A page is never rosier than its cluster was all the while it was read
\* (FleetView, of fetchFleet and handleClusterScopedOverview).
NeverRosier == Fleet!NeverRosier

\* BackfillFleet may be run again, and beside itself (FleetView).
BackfillIdempotent == [][Fleet!BackfillStep]_fleet

\* Its runs do not keep out of each other's way (FleetView).
LinkedOnce == Fleet!LinkedOnce
=============================================================================
