---------------------------- MODULE MCPolicyGate ----------------------------
(* One policy on its way to one collector (PolicyGate); and, in behaviours  *)
(* of their own, what Discover finds of a server, and the matrix and page   *)
(* that show it (Capabilities): one extension, every probe, and one reader  *)
(* that no probe is for; and a tab of the interface that the matrix is part *)
(* of (Browse): two clusters of one name, each with a node of one name, and *)
(* a database whose name has a colon.                                       *)
EXTENDS PolicyGate, Sequences

CONSTANTS Declared, Extensions, Watched, Listed, Databases, ServerLevel, Facts0,
          MaxChanges, MaxFailures, MaxPasses

VARIABLES facts, pass, moments, found, rows, sheet, meantime, changes, failures

discovery == <<facts, pass, moments, found, rows, sheet, meantime, changes, failures>>

Discovery == INSTANCE Capabilities WITH policy <- rows

\* Every extension and every probe is of a declared capability, which an error is
\* not; capabilities and servers are listed once.
ASSUME DeclaredAssumption ==
  /\ Declared \in Seq(STRING)
  /\ Extensions \cup Discovery!Probed \subseteq {Declared[i] : i \in DOMAIN Declared}
  /\ Extensions \cap (Discovery!Probed \cup {"error"}) = {}
ASSUME ListedAssumption ==
  /\ Listed \in Seq(STRING)
  /\ \A i, j \in DOMAIN Listed : Listed[i] = Listed[j] => i = j

MCDeclared ==
  <<"pg_stat_statements", "auto_explain", "pg_stat_activity_full_read", "log_destination",
    "server_version", "role_permissions", "settings">>

MCListed == <<"s1", "s2">>

\* A server with most of it, and one with what the first has not.
MCFacts0 ==
  {{"pg_stat_statements", "version_12", "pg_monitor", "log_files", "preload", "threshold"},
   {"rolsuper", "pg_read_all_stats", "collector"}}

CONSTANTS Order, Nodes, Servers, ClusterName, ClusterOf, NodeName, DatabaseName, FirstHome,
          Verticals, Addresses, MaxMoves

VARIABLES clusters, nodes, home, moves, page, card, picked, ran

browser == <<clusters, nodes, home, moves, page, card, picked, ran>>

Browser == INSTANCE Browse

\* Ids and parts of names are strings; every node has a name, as BackfillFleet
\* gives it one.
ASSUME BrowseAssumption ==
  /\ Order \in Seq(STRING) /\ Nodes \subseteq STRING
  /\ ClusterOf \in [Nodes -> STRING] /\ \A n \in Nodes : NodeName[n] # Browser!Blank
  /\ DatabaseName \in [Servers -> Seq(STRING)]
  /\ FirstHome \in [Servers -> Nodes \cup {Browser!NoNode}]
  /\ \A a \in Addresses : a.scope \in Seq(STRING)

MCOrder == <<"c1", "c2">>
MCClusterName == [c \in {"c1", "c2"} |-> "app"]
MCClusterOf == [n \in Nodes |-> IF n = "n2" THEN "c2" ELSE "c1"]
MCNodeName == [n \in Nodes |-> IF n = "n3" THEN "db-2" ELSE "db-1"]
MCDatabaseName == [s \in Servers |-> IF s = "app" THEN <<"app">> ELSE <<"app", "x">>]
MCFirstHome == [s \in Servers |-> IF s = "app" THEN "n1" ELSE "blank"]
MCAddresses ==
  [screen : {"fleet", "console", "clusterdetail", "searchnodes", "cachenodes"},
   scope : {<< >>, <<"pooler", "p">>, <<"cluster", "c1">>, <<"cluster", "c2">>, <<"node", "c1">>}]

\* A behaviour is about the gate, about discovery, or about a tab.
VARIABLE about

ResetGate ==
  /\ policy = [t2 |-> FALSE, rawText |-> "absent", default |-> "absent", db |-> "absent"]
  /\ api = NoRequest /\ pc = "refresh" /\ gate = EmptyGate /\ read = "none"
  /\ seen = {} /\ basis = {}

MCInit ==
  /\ Discovery!Init /\ Browser!Init
  /\ \/ about = "gate" /\ Init
     \/ about \in {"discovery", "tab"} /\ ResetGate

MCNext ==
  \/ about = "gate" /\ Next /\ UNCHANGED <<about, discovery, browser>>
  \/ about = "discovery" /\ Discovery!Next /\ UNCHANGED <<about, vars, browser>>
  \/ about = "tab" /\ Browser!Next /\ UNCHANGED <<about, vars, discovery>>

MCSpec == MCInit /\ [][MCNext]_<<vars, about, discovery, browser>> /\ WF_vars(about = "gate" /\ Collect)

\* What Discover finds and what the matrix and the page show of it is true of
\* some moment (Capabilities).
DiscoveryHonest == Discovery!DiscoveryHonest

\* A tab stays where its user put it (Browse, of the shell and the run card).
PlaceKept == Browser!PlaceKept
=============================================================================
