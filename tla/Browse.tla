------------------------------- MODULE Browse -------------------------------
(***************************************************************************)
(* One tab of a user of the web interface: the screens of server.go, the   *)
(* scope that the links of the shell carry from screen to screen           *)
(* (internal/scope, web/nav.go, web/shell.go, api/shell.go), the chips of  *)
(* the SQL console and the run card of a saved script, which hands its     *)
(* choice to the console by names.  Meanwhile the fleet registry           *)
(* (store/fleet.go) grows and servers are assigned to other nodes.         *)
(*                                                                         *)
(* A screen stands for its path.  Text with colons, as an encoded scope or *)
(* the name of a database, is the sequence of what is between them.  What  *)
(* the screens show besides their links is in FleetView, AdvicePages,      *)
(* Capabilities and T2Access; the range and the words typed into a search  *)
(* box narrow what is shown and are left out.                              *)
(***************************************************************************)
EXTENDS Integers, Sequences, Functions

CONSTANTS Order,         \* the ids of all clusters, as ListClusters orders them
          Nodes, Servers,
          ClusterName,   \* by cluster; names need not differ
          ClusterOf,     \* by node
          NodeName,      \* by node
          DatabaseName,  \* by server, << >> if it has none
          FirstHome,     \* where the servers are at first
          Verticals,     \* those of "search" and "cache" that are served
          Addresses,     \* what is typed: [screen, scope]
          MaxMoves       \* bound: changes of the registry

VARIABLES clusters,  \* those created
          nodes,     \* likewise
          home,      \* home[s]: the node of a server, or NoNode
          moves,
          page,      \* what the tab shows, with the links it was rendered with
          card,      \* the run card of a script's page
          picked,    \* the scope the user chose last: in the shell, in the console
          ran        \* what the last step ran on a server, if it did

registry == <<clusters, nodes, home, moves>>
vars == <<registry, page, card, picked, ran>>

Blank == "blank"   \* of a name or an id: the empty string
NoNode == Blank
NoName == << >>

-----------------------------------------------------------------------------
(* Scopes.                                                                 *)

At(kind, cluster, rest) == [kind |-> kind, cluster |-> cluster, rest |-> rest]
Fleet == At("fleet", NoName, NoName)
Cluster(c) == At("cluster", <<c>>, NoName)
NodeScope(n) == At("node", <<ClusterOf[n]>>, <<n>>)

Encode(sc) ==
  CASE sc.kind = "cluster"  -> <<"cluster">> \o sc.cluster
    [] sc.kind = "node"     -> <<"node">> \o sc.cluster \o sc.rest
    [] sc.kind = "pooler"   -> <<"pooler">> \o sc.rest
    [] sc.kind = "database" -> <<"db">> \o sc.cluster \o sc.rest
    [] sc.kind = "fleet"    -> NoName

\* A variant: the name of a database is what follows the last colon.
ParseLast(raw) ==
  CASE Len(raw) > 1 /\ Head(raw) = "cluster" -> At("cluster", Tail(raw), NoName)
    [] Len(raw) > 2 /\ Head(raw) = "node"    -> At("node", <<raw[2]>>, SubSeq(raw, 3, Len(raw)))
    [] Len(raw) > 1 /\ Head(raw) = "pooler"  -> At("pooler", NoName, Tail(raw))
    [] Len(raw) > 2 /\ Head(raw) = "db"      -> At("database", <<raw[2]>>, <<raw[Len(raw)]>>)
    [] OTHER -> Fleet

Parse(raw) ==
  CASE Len(raw) > 1 /\ Head(raw) = "cluster" -> At("cluster", Tail(raw), NoName)
    [] Len(raw) > 2 /\ Head(raw) = "node"    -> At("node", <<raw[2]>>, SubSeq(raw, 3, Len(raw)))
    [] Len(raw) > 1 /\ Head(raw) = "pooler"  -> At("pooler", NoName, Tail(raw))
    [] Len(raw) > 2 /\ Head(raw) = "db"      -> At("database", <<raw[2]>>, SubSeq(raw, 3, Len(raw)))
    [] OTHER -> Fleet

-----------------------------------------------------------------------------
(* Screens and links.                                                      *)

Search == {"searchdomains", "searchnodes"}
Cache  == {"cacheclusters", "cachereplicasets", "cachenodes"}
Queries == {"topqueries", "insights", "plans"}
Advisors == {"indexadvisor", "vacuumadvisor"}
Low == Queries \cup Advisors \cup {"console", "scripts", "checks", "capabilities"}

\* BuildNav: what the sidebar links to, without what is marked SOON.  The
\* engines are DefaultEngines, which has neither search nor cache.
BuildNav(sc) ==
  CASE sc.kind = "cluster"  -> Low \cup {"clusterdetail", "nodes", "databases", "configadvisor", "waits"}
    [] sc.kind = "node"     -> Low \cup {"nodes", "configadvisor", "waits"}
    [] sc.kind = "pooler"   -> {"nodes", "configadvisor", "scripts", "checks"}
    [] sc.kind = "database" -> Low \cup {"databases"}
    [] sc.kind = "fleet"    -> {"fleet", "clusters", "nodes", "databases", "scripts"}

\* The screens with a path of their own; for any other it is that of the landing.
ScreenPath ==
  Low \cup Search \cup Cache \cup
    {"fleet", "clusters", "nodes", "databases", "clusterdetail", "configadvisor", "waits"}
Path(screen) == IF screen \in ScreenPath THEN screen ELSE "fleet"

\* A request: the scope it carries, and the names handed to the console.
Get(screen, raw) == [screen |-> screen, scope |-> raw, name |-> Blank, node |-> Blank, db |-> NoName]

NavHref(sc, screen) == Get(Path(screen), Encode(sc))

scopeOverviewScreen(sc) ==
  CASE sc.kind = "cluster" -> "clusterdetail"
    [] sc.kind \in {"node", "pooler"} -> "nodes"
    [] sc.kind = "database" -> "databases"
    [] OTHER -> "fleet"

ScopeHref(sc) == NavHref(sc, scopeOverviewScreen(sc))

\* A variant: the scope is forgotten.
RangeScreenOnly(sc, screen) == Get(Path(screen), NoName)

\* Where a choice of a range leads: the same screen and scope.
RangeOptions(sc, screen) == Get(Path(screen), Encode(sc))

-----------------------------------------------------------------------------
(* The registry, and what is read of it.                                   *)

NoRun == << >>
NothingRuns == ran' = NoRun

Clusters == Range(Order)
ListInstances(c) == {n \in nodes : <<ClusterOf[n]>> = c}
ListServerStreams(n) == {s \in Servers : home[s] = n}
DatabasesAt(ns) == {DatabaseName[s] : s \in UNION {ListServerStreams(n) : n \in ns}} \ {NoName}

\* The picker: every cluster, with its nodes and the databases of these; a
\* list that cannot be read is left out with what hangs on it.
scopeOptions(lost) ==
  IF <<"clusters", Blank>> \in lost THEN {}
  ELSE UNION {LET ns == IF <<"instances", c>> \in lost THEN {} ELSE ListInstances(<<c>>)
                  ss == {n \in ns : <<"streams", n>> \notin lost}
              IN {Cluster(c)} \cup {NodeScope(n) : n \in ns}
                   \cup {At("database", <<c>>, d) : d \in DatabasesAt(ss)} : c \in clusters}

Reads == {<<"clusters", Blank>>} \cup ({"instances"} \X clusters) \cup ({"streams"} \X nodes)
Lost == {{}} \cup {{r} : r \in Reads}

CreateCluster ==
  \E c \in Clusters \ clusters :
    clusters' = clusters \cup {c} /\ UNCHANGED <<nodes, home>>

CreateInstance ==
  \E n \in Nodes \ nodes :
    ClusterOf[n] \in clusters /\ nodes' = nodes \cup {n} /\ UNCHANGED <<clusters, home>>

AssignServerToInstance ==
  \E s \in Servers, n \in nodes :
    home[s] # n /\ home' = [home EXCEPT ![s] = n] /\ UNCHANGED <<clusters, nodes>>

RegistryChanges ==
  /\ moves < MaxMoves /\ moves' = moves + 1
  /\ CreateCluster \/ CreateInstance \/ AssignServerToInstance
  /\ NothingRuns
  /\ UNCHANGED <<page, card, picked>>

-----------------------------------------------------------------------------
(* The console's target.                                                   *)

\* A page without a link of ours: an error, or the blank tab.
NotFound == [screen |-> "404", scope |-> Fleet, offers |-> {}, console |-> << >>]
NoCard == [target |-> << >>, node |-> Blank, db |-> NoName, nodes |-> {}, dbs |-> {}]
\* consoleClusterFromQuery: the cluster of the scope, which must exist, else
\* the first of the name, which becomes the scope; Fleet if there is none.
IsNamed(i, name) == Order[i] \in clusters /\ ClusterName[Order[i]] = name
Named(name) ==
  {Order[i] : i \in {j \in DOMAIN Order : IsNamed(j, name) /\ \A k \in 1..j - 1 : ~IsNamed(k, name)}}
ClusterFromQuery(q) ==
  LET sc == Parse(q.scope) IN
  IF sc.cluster # NoName THEN IF \E c \in clusters : sc.cluster = <<c>> THEN sc ELSE Fleet
  ELSE IF q.name # Blank /\ Named(q.name) # {} THEN Cluster(CHOOSE c \in Named(q.name) : TRUE) ELSE Fleet

\* resolveConsoleTarget: the servers of that database on a node of that name.
resolveConsoleTarget(cluster, node, db) ==
  {s \in Servers : /\ db # NoName /\ DatabaseName[s] = db
                   /\ \E n \in ListInstances(cluster) : home[s] = n /\ NodeName[n] = node}

\* buildConsoleVM: the axis a scope fixes has one value and no link.
Console(q) ==
  LET sc == ClusterFromQuery(q)
      ns == ListInstances(sc.cluster)
      own == {n \in ns : sc.rest = <<n>>}
  IN [scope |-> sc, name |-> q.name,
      node |-> IF sc.kind # "node" THEN q.node ELSE IF own = {} THEN Blank ELSE NodeName[CHOOSE n \in own : TRUE],
      db |-> IF sc.kind = "database" THEN sc.rest ELSE q.db,
      nodes |-> IF sc.kind = "node" THEN {} ELSE {NodeName[n] : n \in ns},
      dbs |-> IF sc.kind = "database" THEN {} ELSE DatabasesAt(ns)]

\* consoleChipHref: both axes, and the scope.
Chip(k, node, db) == [Get("console", Encode(k.scope)) EXCEPT !.node = node, !.db = db]
consoleChips(k) == {Chip(k, n, k.db) : n \in k.nodes} \cup {Chip(k, k.node, d) : d \in k.dbs}

Ran(sc, node, db) ==
  {NoRun} \cup {[scope |-> sc, node |-> node, db |-> db, server |-> s, at |-> home[s]] :
                  s \in resolveConsoleTarget(sc.cluster, node, db)}

-----------------------------------------------------------------------------
(* Requests.                                                               *)

\* The handlers that answer with a page.
Answers(q) ==
  CASE q.screen \in Search -> "search" \in Verticals
    [] q.screen \in Cache  -> "cache" \in Verticals
    [] q.screen = "clusterdetail" ->
         LET sc == Parse(q.scope) IN sc.kind = "cluster" /\ \E c \in clusters : sc.cluster = <<c>>
    [] q.screen = "console" -> ClusterFromQuery(q) # Fleet
    [] OTHER -> TRUE

\* buildShellView: the scope is that of the request, whatever the console makes of it.
\* The picker is read apart.  Handlers of some screens give up when a read of
\* their own fails.
Page(q, lost) ==
  [screen |-> q.screen, scope |-> Parse(q.scope), offers |-> scopeOptions(lost),
   console |-> IF q.screen = "console" THEN Console(q) ELSE << >>]

GivingUp == {"console", "clusterdetail", "scripts", "scriptdetail"}

Shown(q) ==
  {Page(q, lost) : lost \in IF Answers(q) THEN Lost ELSE {}}
    \cup (IF Answers(q) /\ q.screen \notin GivingUp THEN {} ELSE {NotFound})

\* chosen: the scope the user means to be at.
Open(q, chosen) ==
  /\ page' \in Shown(q)
  /\ card' = NoCard
  /\ picked' = [shell |-> chosen,
                console |-> IF q.screen = "console" THEN ClusterFromQuery(q) ELSE Fleet]
  /\ UNCHANGED registry

TypeAddress ==
  /\ NothingRuns
  /\ page = NotFound
  /\ \E a \in Addresses : Open(Get(a.screen, a.scope), Parse(a.scope))

Rendered == page # NotFound

FollowNav ==
  /\ NothingRuns
  /\ Rendered
  /\ \E screen \in BuildNav(page.scope) : Open(NavHref(page.scope, screen), picked.shell)

ChooseRange ==
  /\ NothingRuns
  /\ Rendered
  /\ Open(RangeOptions(page.scope, page.screen), picked.shell)

\* The picker, and the button of a row; the scope is cleared by the logo.
PickScope ==
  /\ NothingRuns
  /\ Rendered
  /\ \E sc \in page.offers \cup {Fleet} : Open(ScopeHref(sc), sc)

\* handleScopeOptions: the list is read again while the user types.
SearchScope ==
  /\ Rendered
  /\ \E lost \in Lost : page' = [page EXCEPT !.offers = scopeOptions(lost)]
  /\ NothingRuns
  /\ UNCHANGED <<registry, card, picked>>

\* The links of a screen's body carry no scope: sort and filter, the
\* drill-down of a query of some cluster, a script's page.
Bodies == {"topqueries", "insights", "plans", "checks", "indexadvisor"}
FollowBody ==
  /\ NothingRuns
  /\ Rendered
  /\ \/ page.screen \in Bodies /\ Open(Get(page.screen, NoName), Fleet)
     \/ page.screen \in Bodies \ {"checks"} /\ Open(Get("querydetail", NoName), Fleet)
     \/ page.screen = "scripts" /\ Open(Get("scriptdetail", NoName), Fleet)

\* A chip swaps the console's body; the shell around it stays.
PickChip ==
  /\ page.screen = "console"
  /\ \E q \in consoleChips(page.console) :
       \/ Answers(q) /\ page' = [page EXCEPT !.console = [Console(q) EXCEPT !.name = page.console.name]]
       \/ page' = NotFound
  /\ NothingRuns
  /\ UNCHANGED <<registry, card, picked>>

\* handleConsoleRun, with the target the body shows.
RunStatement ==
  /\ page.screen = "console"
  /\ ran' \in Ran(page.console.scope, page.console.node, page.console.db)
  /\ UNCHANGED <<registry, page, card, picked>>

-----------------------------------------------------------------------------
(* The run card.                                                           *)

\* ListScriptTargets: names only.
ScriptTargets ==
  {[cluster |-> ClusterName[ClusterOf[home[s]]], node |-> NodeName[home[s]], db |-> DatabaseName[s]] :
     s \in {t \in Servers : home[t] # NoNode}}

scriptTargetOptions ==
  {<<"cluster", t.cluster, NoName>> : t \in ScriptTargets}
    \cup {<<"node", t.cluster, t.node>> : t \in ScriptTargets}
    \cup {<<"db", t.cluster, t.db>> : t \in {u \in ScriptTargets : u.db # NoName}}

\* buildScriptRunVM, with what was chosen so far.
RunCard(target, node, db) ==
  LET own == {t \in ScriptTargets : t.cluster = target[2]}
      ns == IF target[1] = "node" THEN {target[3]} ELSE {t.node : t \in own}
      ds == IF target[1] = "db" THEN {target[3]} ELSE {t.db : t \in own} \ {NoName}
  IN [target |-> target, nodes |-> ns, dbs |-> ds,
      node |-> IF target[1] = "node" THEN target[3] ELSE IF node \in ns THEN node ELSE Blank,
      db |-> IF target[1] = "db" THEN target[3] ELSE IF db \in ds THEN db ELSE NoName]

OnCard(c) ==
  /\ page.screen = "scriptdetail"
  /\ card' = c
  /\ NothingRuns
  /\ UNCHANGED <<registry, page, picked>>

SelectTarget == \E t \in scriptTargetOptions : OnCard(RunCard(t, Blank, NoName))

\* runChips: the target, and both choices.
PickRunChip ==
  \/ \E n \in card.nodes : OnCard(RunCard(card.target, n, card.db))
  \/ \E d \in card.dbs   : OnCard(RunCard(card.target, card.node, d))

RunReady == card.node # Blank /\ card.db # NoName

consoleHandoffURL ==
  [Get("console", NoName) EXCEPT !.name = card.target[2], !.node = card.node, !.db = card.db]

\* handleConsolePage with run=1: runs first, if a grant is active.
HandOff ==
  /\ RunReady
  /\ Open(consoleHandoffURL, Fleet)
  /\ ran' \in Ran(ClusterFromQuery(consoleHandoffURL), card.node, card.db)

-----------------------------------------------------------------------------
Init ==
  /\ home = FirstHome /\ nodes = Range(home) \ {NoNode}
  /\ clusters = {ClusterOf[n] : n \in nodes} /\ moves = 0
  /\ page = NotFound /\ card = NoCard /\ ran = NoRun
  /\ picked = [shell |-> Fleet, console |-> Fleet]

Next ==
  \/ RegistryChanges
  \/ TypeAddress \/ FollowNav \/ ChooseRange \/ PickScope \/ SearchScope \/ FollowBody
  \/ PickChip \/ RunStatement \/ SelectTarget \/ PickRunChip \/ HandOff

Spec == Init /\ [][Next]_vars

-----------------------------------------------------------------------------
\* The shell, and the body of the console, are at the scope the user chose,
\* whatever links were followed since: databases whose names have a colon included.
ScopeKept ==
  Rendered =>
    /\ page.scope = picked.shell
    /\ page.screen = "console" => page.console.scope = picked.console

\* The links of the shell and the console's chips, as the page was rendered; but
\* not the ranges of a console that was opened by a cluster's name, which the
\* shell does not know.
Links ==
  {NavHref(page.scope, x) : x \in BuildNav(page.scope)}
    \cup {ScopeHref(sc) : sc \in page.offers \cup {Fleet}}
    \cup (IF page.screen # "console" THEN {RangeOptions(page.scope, page.screen)}
          ELSE consoleChips(page.console)
                 \cup IF page.console.name # Blank THEN {} ELSE {RangeOptions(page.scope, "console")})

Known(sc) == sc.cluster # NoName => \E c \in clusters : sc.cluster = <<c>>

\* No link of a page whose cluster there is is dead, however old the page.
LinksLead == Rendered /\ Known(page.scope) => \A q \in Links : Answers(q)

\* What a console runs, it runs on a node of the cluster and of the node that
\* its scope fixes, or of a cluster with the name that was handed to it.
RanWhereShown ==
  ran # NoRun =>
    /\ <<ClusterOf[ran.at]>> = ran.scope.cluster
    /\ NodeName[ran.at] = ran.node /\ DatabaseName[ran.server] = ran.db
    /\ ran.scope.kind = "node" => \A n \in Nodes : ran.scope.rest = <<n>> => NodeName[n] = ran.node
    /\ ran.scope.kind = "database" => ran.scope.rest = ran.db

\* A tab stays where its user put it: the scope is kept, links lead somewhere, and
\* what runs, runs where the page says.
PlaceKept == ScopeKept /\ LinksLead /\ RanWhereShown
=============================================================================
