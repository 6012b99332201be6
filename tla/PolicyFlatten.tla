---------------------------- MODULE PolicyFlatten ----------------------------
(***************************************************************************)
(* internal/policyresolve: the capability policies of four scopes (fleet,  *)
(* group, instance, database) flattened to the two levels that are stored, *)
(* a row for all of a server and a row for one of its databases.           *)
(*                                                                         *)
(* A policy is [scope, priority, selector, database, toggles], selector a  *)
(* set of labels and toggles a set of [cap, enabled]; the graph maps a     *)
(* server to [database, labels].  A row for all of a server has database   *)
(* NoDatabase.                                                             *)
(***************************************************************************)
EXTENDS Integers, Sequences

NoDatabase == ""

tierRank(scope) ==
  CASE scope = "database" -> 4 [] scope = "instance" -> 3 [] scope = "group" -> 2 [] OTHER -> 1

\* matches: the labels, and for a database policy the connection's database.
matches(p, e) ==
  /\ p.selector \subseteq e.labels
  /\ p.scope = "database" => p.database = e.database

\* Toggles of one capability that apply to a server, in the order of policies.
Candidate(p, t) == [tier |-> tierRank(p.scope), priority |-> p.priority, enabled |-> t.enabled]

Candidates(policies, e, cap, scopes) ==
  UNION {{[policy |-> i, of |-> Candidate(policies[i], t)] : t \in {u \in policies[i].toggles : u.cap = cap}} :
           i \in {j \in DOMAIN policies : policies[j].scope \in scopes /\ matches(policies[j], e)}}

Above(a, b) == a.tier > b.tier \/ (a.tier = b.tier /\ a.priority > b.priority)

\* A variant: of the candidates the first decides, and no two are in conflict.
resolveFirst(cands) ==
  LET top == {c \in cands : ~\E d \in cands : Above(d.of, c.of)}
  IN {c.of.enabled : c \in {x \in top : \A d \in top : x.policy <= d.policy}}

\* resolvePrecedence: the narrowest tier, in it the highest priority; refused
\* when these do not agree.
resolvePrecedence(cands) ==
  {c.of.enabled : c \in {x \in cands : ~\E d \in cands : Above(d.of, x.of)}}

Broad == {"fleet", "group", "instance"}

Row(server, database, cap, enabled) ==
  [server |-> server, database |-> database, cap |-> cap, enabled |-> enabled]

\* The two levels of a server: which scopes make the row, and its database.
Levels(e) == {[scopes |-> Broad, database |-> NoDatabase],
              [scopes |-> {"database"}, database |-> e.database]}

Capabilities(policies) == {t.cap : t \in UNION {policies[i].toggles : i \in DOMAIN policies}}

\* A level that was resolved, and one that was refused.
Resolved(cands) == cands # {} /\ \A a, b \in resolvePrecedence(cands) : a = b

Agreed(values) == CHOOSE v \in values : TRUE

RowsOf(policies, s, e, cap) ==
  {Row(s, l.database, cap, Agreed(resolvePrecedence(Candidates(policies, e, cap, l.scopes)))) :
     l \in {m \in Levels(e) : Resolved(Candidates(policies, e, cap, m.scopes))}}

Rows(policies, graph) ==
  UNION {RowsOf(policies, x[1], graph[x[1]], x[2]) : x \in (DOMAIN graph) \X Capabilities(policies)}

Refused(policies, graph) ==
  {x \in (DOMAIN graph) \X Capabilities(policies) :
     \E l \in Levels(graph[x[1]]) :
       \E a, b \in resolvePrecedence(Candidates(policies, graph[x[1]], x[2], l.scopes)) : a # b}

\* deadRowConflicts: a database policy for a database that nobody serves.
DeadRows(policies, graph) ==
  {<<NoDatabase, t.cap>> : t \in
     UNION {policies[i].toggles :
       i \in {j \in DOMAIN policies :
         policies[j].scope = "database" /\ ~\E s \in DOMAIN graph : matches(policies[j], graph[s])}}}

Flatten(policies, graph) ==
  [rows |-> Rows(policies, graph),
   conflicts |-> Refused(policies, graph) \cup DeadRows(policies, graph)]
=============================================================================
