------------------------------ MODULE FleetView ------------------------------
(***************************************************************************)
(* The fleet registry of internal/store/fleet.go and the pages that judge  *)
(* its health: the dashboard (fleetview.BuildFleetView), the overview of   *)
(* one cluster (scoped_overview.go), and the lists of clusters, of nodes   *)
(* and of databases (fleetview/summary.go).  A page is put together by     *)
(* many reads of two stores, each at its own moment; meanwhile checks fire *)
(* and clear, insights arrive, and servers are given instances: by hand,   *)
(* and by runs of BackfillFleet, of which nothing keeps two apart.         *)
(*                                                                         *)
(* The pages read the registry from a replica: as nothing else they show   *)
(* comes from the primary, a lag of it is a change that happens later.     *)
(***************************************************************************)
EXTENDS Integers, Sequences, FiniteSets, FiniteSetsExt

CONSTANTS Servers,
          Named,         \* servers whose database has a name
          Backfills,     \* processes that may run BackfillFleet
          Severities,    \* what checks and insights call their severities
          TopInsights,   \* insights read per cluster; 50 in the code
          MaxClusters,   \* bound: clusters, and instances, ever created
          MaxChanges     \* bound: changes of checks, insights and registry, runs begun

VARIABLES clusters,    \* the names of the clusters, in the order of creation
          instances,   \* the cluster of each instance, in the order of creation
          home,        \* home[s]: the server's instance, or Unlinked
          backfill,    \* where each run of BackfillFleet stands
          firing,      \* check findings neither ok nor muted
          insights,    \* newest first
          changes,
          page,        \* the page being built or shown
          lasting      \* findings to be seen ever since its first read

registry == <<clusters, instances, home, backfill>>
findings == <<firing, insights, changes>>
vars == <<registry, findings, page, lasting>>

Unlinked == 0

Given == "given"     \* any name that is not a server's

NoPage == [kind |-> "none", pc |-> "idle", left |-> {}, at |-> 0, nodes |-> {}, node |-> 0,
           ids |-> {}, unread |-> {}, found |-> {}, named |-> FALSE, attention |-> {},
           card |-> << >>, rows |-> << >>, failed |-> FALSE, shown |-> "nothing"]

Lists == {"clusters", "nodes", "databases"}

Idle == [pc |-> "idle", todo |-> {}, name |-> Given, at |-> 0]

\* Some servers were linked before, in whatever clusters.
Init ==
  /\ \E n \in 0..MaxClusters : clusters = [c \in 1..n |-> Given]
  /\ \E n \in 0..MaxClusters : instances \in [1..n -> DOMAIN clusters]
  /\ home \in [Servers -> {Unlinked} \cup DOMAIN instances]
  /\ backfill = [b \in Backfills |-> Idle]
  /\ firing = {} /\ insights = << >> /\ changes = 0
  /\ page = NoPage /\ lasting = {}

-----------------------------------------------------------------------------
(* Severities: the words of checks and of insights on one scale.           *)

\* normSev, NormalizeSeverity.
normSev(word) ==
  IF word \in {"critical", "high"} THEN 3 ELSE IF word \in {"warning", "medium"} THEN 2 ELSE 1

\* The worst that is open, 0 for nothing.
Worst(found) == Max({0} \cup {normSev(x.severity) : x \in found})

\* Infos do not degrade health: deriveHealth, nodeRollup, nodeRowVM.
deriveHealth(found) == IF Worst(found) > 1 THEN Worst(found) ELSE 0

\* rollupLine and HealthLine tell them from nothing.
Health(kind, found) == IF kind \in {"fleet", "nodes"} THEN deriveHealth(found) ELSE Worst(found)

-----------------------------------------------------------------------------
(* The stores.                                                             *)

ClusterOf(s) == IF home[s] = Unlinked THEN 0 ELSE instances[home[s]]

ServerIDs(c) == {s \in Servers : ClusterOf(s) = c}

InstanceServerIDs(i) == {s \in Servers : home[s] = i}

LatestChecksResults(s) == {x \in firing : x.server = s}

TopInsightsForServers(all, ids) ==
  LET own == {i \in DOMAIN all : all[i].server \in ids}
  IN {all[i] : i \in {j \in own : Cardinality(own \cap 1..j) <= TopInsights}}

\* What a page that was read in one moment would show.
Visible(fired, all) ==
  {x \in fired : home[x.server] # Unlinked}
    \cup UNION {TopInsightsForServers(all, ServerIDs(c)) : c \in DOMAIN clusters}

\* An evaluation, a mute or an unmute changes what is open.
CheckChanges ==
  /\ changes < MaxChanges
  /\ \E s \in Servers, w \in Severities.checks :
       LET x == [kind |-> "check", server |-> s, severity |-> w] IN
       /\ firing' = IF x \in firing THEN firing \ {x} ELSE firing \cup {x}
       /\ lasting' = lasting \cap Visible(firing', insights)
  /\ changes' = changes + 1
  /\ UNCHANGED <<registry, insights, page>>

InsightArrives ==
  /\ changes < MaxChanges
  /\ \E s \in Servers, w \in Severities.insights :
       /\ insights' = <<[kind |-> "insight", server |-> s, severity |-> w]>> \o insights
       /\ lasting' = lasting \cap Visible(firing, insights')
  /\ changes' = changes + 1
  /\ UNCHANGED <<registry, firing, page>>

-----------------------------------------------------------------------------
(* The operations of the registry; each is a statement of its own.         *)

CreateCluster(name) ==
  /\ Len(clusters) < MaxClusters /\ clusters' = Append(clusters, name)
  /\ UNCHANGED <<instances, home, lasting>>

CreateInstance(c) ==
  /\ Len(instances) < MaxClusters /\ instances' = Append(instances, c)
  /\ UNCHANGED <<clusters, home, lasting>>

\* Whoever reads a page can ask for what belongs to the same instance all the
\* while, and of insights, which are cut off, if no server left the cluster.
Stays(x) ==
  LET c == ClusterOf(x.server) IN
  /\ home'[x.server] = home[x.server]
  /\ x.kind = "insight" => \A s \in ServerIDs(c) : ClusterOf(s)' = c

AssignServerToInstance(s, i) ==
  /\ home' = [home EXCEPT ![s] = i] /\ UNCHANGED <<clusters, instances, firing, insights>>
  /\ lasting' = {x \in lasting \cap Visible(firing, insights)' : Stays(x)}

\* Clusters of several instances, and instances of several servers, are made by
\* hand.
Administer ==
  /\ changes < MaxChanges
  /\ \/ CreateCluster(Given)
     \/ \E c \in DOMAIN clusters : CreateInstance(c)
     \/ \E s \in Servers, i \in DOMAIN instances : AssignServerToInstance(s, i)
  /\ changes' = changes + 1
  /\ UNCHANGED <<backfill, firing, insights, page>>

-----------------------------------------------------------------------------
(* BackfillFleet: a cluster of one for every server that has no instance   *)
(* when the run begins.                                                    *)

\* A variant: all servers are selected.
PendingAll == Servers

Pending == {s \in Servers : home[s] = Unlinked}

Through(todo) ==
  [pc |-> IF todo = {} THEN "idle" ELSE "cluster", todo |-> todo, name |-> Given, at |-> 0]

SelectPending(b) ==
  /\ backfill[b].pc = "idle" /\ Pending # {} /\ changes < MaxChanges
  /\ backfill' = [backfill EXCEPT ![b] = Through(Pending)]
  /\ changes' = changes + 1
  /\ UNCHANGED <<clusters, instances, home, firing, insights, page, lasting>>

BackfillCluster(b) ==
  /\ backfill[b].pc = "cluster"
  /\ \E s \in backfill[b].todo :
       /\ CreateCluster(s)
       /\ backfill' = [backfill EXCEPT ![b] =
            [pc |-> "instance", todo |-> @.todo, name |-> s, at |-> Len(clusters')]]
  /\ UNCHANGED <<findings, page>>

BackfillInstance(b) ==
  /\ backfill[b].pc = "instance" /\ CreateInstance(backfill[b].at)
  /\ backfill' = [backfill EXCEPT ![b] =
       [pc |-> "assign", todo |-> @.todo, name |-> @.name, at |-> Len(instances')]]
  /\ UNCHANGED <<findings, page>>

BackfillAssign(b) ==
  /\ backfill[b].pc = "assign" /\ AssignServerToInstance(backfill[b].name, backfill[b].at)
  /\ backfill' = [backfill EXCEPT ![b] = Through(@.todo \ {@.name})]
  /\ UNCHANGED <<findings, page>>

\* A statement fails, or the process dies: what was committed stays.
BackfillStops(b) ==
  /\ backfill[b].pc # "idle"
  /\ backfill' = [backfill EXCEPT ![b] = Idle]
  /\ UNCHANGED <<clusters, instances, home, findings, page, lasting>>

BackfillFleet(b) ==
  \/ SelectPending(b) \/ BackfillCluster(b) \/ BackfillInstance(b) \/ BackfillAssign(b)
  \/ BackfillStops(b)

-----------------------------------------------------------------------------
(* The pages.                                                              *)

\* A variant: the cards of a dashboard that was only half read are shown.
SwallowedRead(p) == [p EXCEPT !.pc = "idle", !.left = {}, !.shown = "page", !.failed = TRUE]

\* fetchFleet: an error of BuildFleetView is a panel that says so.
FleetError(p) == [p EXCEPT !.pc = "idle", !.shown = "error", !.failed = TRUE]

\* fetchClusters, fetchNodes, fetchDatabasesList: a list without a row.
ListError(p) == [p EXCEPT !.pc = "idle", !.shown = "empty", !.card = << >>, !.failed = TRUE]

\* The card or the line of cluster c, the row of instance c.
Put(card, c, health) ==
  [x \in DOMAIN card \cup {c} |-> IF x = c THEN health ELSE card[x]]

\* An error of GetClusterDetail is a 404; one of the reads for the issues is
\* dropped, and what was found until then with it: nothing is open.
OverviewError(p) ==
  IF p.pc = "detail" THEN [p EXCEPT !.pc = "idle", !.shown = "not found", !.failed = TRUE]
  ELSE [p EXCEPT !.pc = "idle", !.shown = "page", !.failed = TRUE, !.card = Put(@, p.at, 0)]

Open(p) ==
  /\ page.pc = "idle" /\ page' = p
  /\ lasting' = Visible(firing, insights)
  /\ UNCHANGED <<registry, findings>>

OpenFleet == Open([NoPage EXCEPT !.kind = "fleet", !.pc = "summaries"])

OpenList == \E k \in Lists : Open([NoPage EXCEPT !.kind = k, !.pc = "summaries"])

OpenOverview ==
  \E c \in DOMAIN clusters : Open([NoPage EXCEPT !.kind = "overview", !.pc = "detail", !.at = c])

Reading(pc) == page.pc = pc /\ UNCHANGED <<registry, findings, lasting>>

\* Which clusters there are.  What else ListClusterSummaries reads for the
\* dashboard is for the figures on the cards.
ListClusters ==
  /\ Reading("summaries")
  /\ page' = [page EXCEPT !.pc = "cluster", !.left = DOMAIN clusters]

NextCluster ==
  /\ Reading("cluster") /\ page.left # {}
  /\ \E c \in page.left : page' = [page EXCEPT !.pc = "servers", !.left = @ \ {c}, !.at = c]

GetClusterDetail ==
  /\ Reading("detail")
  /\ page' = [page EXCEPT !.pc = "servers"]

ServerIDsForCluster ==
  /\ Reading("servers")
  /\ page' = [page EXCEPT !.pc = "checks", !.ids = ServerIDs(page.at), !.unread = ServerIDs(page.at)]

\* The servers of a cluster, or of a node, one after the other.
ReadChecks ==
  /\ Reading("checks") \/ Reading("node checks")
  /\ \E s \in page.unread :
       page' = [page EXCEPT !.unread = @ \ {s}, !.found = @ \cup LatestChecksResults(s)]

\* rollupOpenChecks: the line of a cluster in a list.
RollUp ==
  /\ Reading("checks") /\ page.unread = {} /\ page.kind \in Lists
  /\ page' = [page EXCEPT !.card = Put(@, page.at, Health(page.kind, page.found)),
                          !.pc = IF page.kind = "clusters" THEN "cluster" ELSE "instances",
                          !.ids = {}, !.found = {}]

ListInstances ==
  /\ Reading("instances")
  /\ page' = [page EXCEPT !.pc = "node", !.nodes = {i \in DOMAIN instances : instances[i] = page.at}]

\* ListNodeGroups reads the checks of each node once more.
ServerIDsForInstance ==
  /\ Reading("node") /\ page.kind = "nodes"
  /\ \E i \in page.nodes :
       page' = [page EXCEPT !.pc = "node checks", !.nodes = @ \ {i}, !.node = i,
                            !.ids = InstanceServerIDs(i), !.unread = InstanceServerIDs(i)]

RollUpNode ==
  /\ Reading("node checks") /\ page.unread = {}
  /\ page' = [page EXCEPT !.rows = Put(@, page.node, Health("nodes", page.found)),
                          !.pc = "node", !.node = 0, !.ids = {}, !.found = {}]

\* ListDatabaseGroups looks for databases with a name.
ListServerStreams ==
  /\ Reading("node") /\ page.kind = "databases"
  /\ \E i \in page.nodes :
       page' = [page EXCEPT !.nodes = @ \ {i}, !.named = @ \/ InstanceServerIDs(i) \cap Named # {}]

\* fetchDatabasesList leaves out a cluster that has none.
EndGroup ==
  /\ Reading("node") /\ page.nodes = {}
  /\ LET listed == page.kind = "nodes" \/ page.named IN
     page' = [page EXCEPT !.pc = "cluster", !.named = FALSE,
                          !.card = [c \in IF listed THEN DOMAIN @ ELSE DOMAIN @ \ {page.at} |-> @[c]]]

ReadInsights ==
  /\ Reading("checks") /\ page.unread = {} /\ page.kind \notin Lists
  /\ page' = [page EXCEPT !.pc = "judge", !.found = @ \cup TopInsightsForServers(insights, page.ids)]

\* The items to attend to, or the issues of a cluster, and the card of the
\* cluster; on the overview it is the line at the top.
Judge ==
  /\ Reading("judge")
  /\ page' = [page EXCEPT !.card = Put(@, page.at, Health(page.kind, page.found)),
                          !.attention = @ \cup page.found, !.ids = {}, !.found = {},
                          !.pc = IF page.kind = "fleet" THEN "cluster" ELSE "idle",
                          !.shown = IF page.kind = "fleet" THEN @ ELSE "page"]

\* The dashboard is all clear if there is nothing to attend to; it has cards only
\* of clusters whose health is not 0.
Render ==
  /\ Reading("cluster") /\ page.left = {}
  /\ page' = [page EXCEPT !.pc = "idle", !.shown = "page"]

ReadFails ==
  /\ page.pc \in {"summaries", "servers", "checks", "detail", "instances", "node", "node checks"}
  /\ page' = [IF page.kind = "fleet" THEN FleetError(page)
              ELSE IF page.kind = "overview" THEN OverviewError(page) ELSE ListError(page)
              EXCEPT !.ids = {}, !.unread = {}, !.found = {}]
  /\ UNCHANGED <<registry, findings, lasting>>

Next ==
  \/ CheckChanges \/ InsightArrives \/ Administer
  \/ \E b \in Backfills : BackfillFleet(b)
  \/ OpenFleet \/ OpenList \/ OpenOverview \/ ListClusters \/ NextCluster \/ GetClusterDetail
  \/ ServerIDsForCluster \/ ReadChecks \/ RollUp \/ ListInstances \/ ServerIDsForInstance
  \/ RollUpNode \/ ListServerStreams \/ EndGroup \/ ReadInsights \/ Judge \/ Render \/ ReadFails

Spec == Init /\ [][Next]_vars

-----------------------------------------------------------------------------
\* A page is never rosier than its cluster.  What could be seen of a server that
\* stayed in its instance, all the while the page was put together, is on it: of
\* the dashboard among what needs attention, infos too, so that it is all clear
\* only if nothing was open throughout, a failing store included; among the issues
\* of an overview; and in the health of the cluster's card or line and of the
\* node's row, as that or as something worse.  Cards, and the list of nodes, are
\* about what is worse than an info; lists are about checks and the clusters they
\* list; the overview is held to it when no read failed.
Claims(x) ==
  CASE page.kind = "fleet" -> TRUE
    [] page.kind = "overview" -> ClusterOf(x.server) = page.at /\ ~page.failed
    [] OTHER -> /\ x.kind = "check" /\ (page.kind = "databases" => x.server \in Named)
                /\ page.kind = "nodes" => normSev(x.severity) > 1

Shown(x, health, key) == key \in DOMAIN health /\ health[key] >= normSev(x.severity)

NeverRosier ==
  page.shown = "page" =>
    \A x \in {y \in lasting : Claims(y)} :
      /\ page.kind \in {"fleet", "overview"} => x \in page.attention
      /\ page.kind # "fleet" \/ normSev(x.severity) > 1 => Shown(x, page.card, ClusterOf(x.server))
      /\ page.kind = "nodes" => Shown(x, page.rows, home[x.server])

\* Linked, and on the list of no run that is under way.
Settled == {s \in Servers : home[s] # Unlinked /\ \A b \in Backfills : s \notin backfill[b].todo}

\* However many runs of BackfillFleet there are, side by side or one after the
\* other, and wherever they stop: once a server is linked and no run that saw it
\* without an instance is left, no run ever selects it, moves it, or makes a
\* cluster for it again; and a run links a server only to a cluster made for it.
BackfillStep ==
  /\ Settled \subseteq Settled'
  /\ backfill' # backfill =>
       /\ \A s \in Settled : home'[s] = home[s]
       /\ \A c \in DOMAIN clusters' \ DOMAIN clusters : clusters'[c] \notin Settled
       /\ \A s \in Servers : home'[s] # home[s] => clusters'[ClusterOf(s)'] = s

BackfillIdempotent == [][BackfillStep]_vars

\* What does not hold of two runs at once: a server that has an instance is moved
\* by no run.
LinkedOnce ==
  [][backfill' # backfill => \A s \in Servers : home[s] # Unlinked => home'[s] = home[s]]_vars
=============================================================================
