---------------------------- MODULE Capabilities ----------------------------
(***************************************************************************)
(* Which capabilities a monitored server has: the probes of internal/caps, *)
(* query by query over a server that changes meanwhile, the table they are *)
(* stored in (internal/store/discovered_capability.go), and the matrix of  *)
(* the API that crosses it with policy (internal/api/capabilities.go), and *)
(* the page of capabilities (scoped_overview.go).                          *)
(*                                                                         *)
(* Only tests call Discover and UpsertDiscoveredCapabilities so far; they  *)
(* are composed here as their comments say they will be.  Details, which   *)
(* never leave the collector, are left out.                                *)
(***************************************************************************)
EXTENDS Integers, Sequences, FiniteSets, SequencesExt

CONSTANTS Declared,    \* the capabilities, in their order
          Extensions,  \* those that are an extension
          Watched,     \* those whose policy changes
          Listed,      \* the servers of the page's scope, in order
          Databases,   \* whose probes are stored, ServerLevel among them
          ServerLevel, \* the server's own, NULL in the table
          Facts0,      \* what may hold of a server at first
          MaxChanges, MaxFailures, MaxPasses   \* bounds

VARIABLES facts,    \* what holds of the server while it is probed
          pass,     \* the pass of Discover under way
          moments,  \* history: all that held during it
          found,    \* found[s][db]: the rows of discovered_capability
          policy,   \* policy[c]: the server's row of a watched capability
          sheet,    \* the matrix, or the page, that is being made
          meantime, \* history: all the policies and rows while it was made
          changes, failures

probing == <<facts, pass, moments, found>>
showing == <<policy, sheet, meantime>>
vars == <<probing, showing, changes, failures>>

Probed == {"server_version", "role_permissions", "pg_stat_activity_full_read",
           "log_destination", "auto_explain"}
ScopeServers == ToSet(Listed)

Facts == Extensions \cup
  {"version_12", "pg_monitor", "pg_read_all_stats", "rolsuper", "log_files", "collector", "preload", "threshold"}

\* What a server must have for a capability: all of one of these.
Needs(c) ==
  CASE c = "server_version" -> {{"version_12"}}
    [] c = "role_permissions" -> {{"pg_monitor"}, {"rolsuper"}}
    [] c = "pg_stat_activity_full_read" -> {{"pg_read_all_stats"}, {"rolsuper"}}
    [] c = "log_destination" -> {{"log_files"}, {"collector"}}
    [] c = "auto_explain" -> {{"preload", "threshold"}}
    [] OTHER -> {{c}}

\* The queries of Discover, probe by probe; a fact is read by asking for it.
Queries ==
  <<"extensions", "version_12", "pg_monitor", "pg_read_all_stats", "rolsuper",
    "read_all_stats_again", "rolsuper_again", "log_files", "collector", "preload", "threshold">>

Fact(q) == IF q = "read_all_stats_again" THEN "pg_read_all_stats"
           ELSE IF q = "rolsuper_again" THEN "rolsuper" ELSE q

NoPass(n) == [n |-> n, at |-> "none", said |-> << >>, set |-> << >>]
NoSheet == [kind |-> "none", server |-> "none", todo |-> << >>, rows |-> << >>, final |-> {}, skipped |-> {}]

Init ==
  /\ facts = {}
  /\ pass = NoPass(0) /\ moments = {}
  /\ found = [s \in ScopeServers |-> [db \in Databases |-> << >>]]
  /\ policy = [c \in Watched |-> "absent"]
  /\ sheet = NoSheet /\ meantime = {}
  /\ changes = 0 /\ failures = 0

-----------------------------------------------------------------------------
(* The world: the server's administrator, and operators of policy.         *)

\* The probes and the pages meet only in the table, and so a server changes only
\* between the questions, and a policy and a page only before them or after.
Quiet == pass.at \in {"none", "write"}

\* What a page may have seen of the two tables.
World(p, f) == [policy |-> p, rows |-> [s \in ScopeServers |-> f[s][ServerLevel]]]

Meanwhile(p, f) == IF sheet.kind = "none" THEN {} ELSE meantime \cup {World(p, f)}

ServerChanges ==
  /\ changes < MaxChanges /\ ~Quiet
  /\ \E f \in Facts : facts' = (facts \ {f}) \cup ({f} \ facts)
  /\ moments' = moments \cup {facts'}
  /\ changes' = changes + 1
  /\ UNCHANGED <<pass, found, showing, failures>>

PolicyChanges ==
  /\ changes < MaxChanges /\ Quiet
  /\ \E c \in Watched, v \in {"absent", "on", "off"} : policy' = [policy EXCEPT ![c] = v]
  /\ meantime' = Meanwhile(policy', found)
  /\ changes' = changes + 1
  /\ UNCHANGED <<probing, sheet, failures>>

-----------------------------------------------------------------------------
(* The probes.                                                             *)

Status(available, reason) == [available |-> available, reason |-> reason]

pick(avail, yes, no) == Status(avail, IF avail THEN yes ELSE no)

\* An answer is the set of what was found, or an error.
Error == {"error"}
Failed(q) == q \in DOMAIN pass.said /\ pass.said[q] = Error
Said(q) == Fact(q) \in pass.said[q]

ErrToCode == Status(FALSE, "PROBE_ERROR")

\* All extensions in one query: an error while its rows come is not noticed,
\* and what had not come yet is not installed.
ProbeExtensions(c) ==
  IF Failed("extensions") THEN ErrToCode
  ELSE pick(c \in pass.said["extensions"], "INSTALLED", "NOT_INSTALLED")

ProbeServerVersion ==
  IF Failed("version_12") THEN ErrToCode
  ELSE pick(Said("version_12"), "VERSION_OK", "VERSION_BELOW_BASELINE")

\* An error of one of the questions is taken for a no.
ProbeRolePermissions ==
  pick(Said("pg_monitor") \/ Said("rolsuper"), "ROLE_OK", "NO_ROLE")

ProbeStatActivityFullRead ==
  IF Failed("read_all_stats_again") THEN ErrToCode
  ELSE pick(Said("read_all_stats_again") \/ Said("rolsuper_again"), "ROLE_OK", "NO_ROLE")

ProbeLogDestination ==
  IF Failed("log_files") \/ Failed("collector") THEN ErrToCode
  ELSE pick(Said("log_files") \/ Said("collector"), "LOG_REACHABLE", "LOG_UNREACHABLE")

\* A variant: the threshold is not looked at.
AutoExplainPreloaded ==
  IF Failed("preload") THEN ErrToCode ELSE pick(Said("preload"), "INSTALLED", "NOT_PRELOADED")

ProbeAutoExplain ==
  IF Failed("preload") \/ Failed("threshold") THEN ErrToCode
  ELSE IF ~Said("preload") THEN Status(FALSE, "NOT_PRELOADED")
  ELSE pick(Said("threshold"), "INSTALLED", "DISABLED")

\* What Discover returns: an entry for every declared capability.
Discovered ==
  [c \in ToSet(Declared) |->
     CASE c \in Extensions -> ProbeExtensions(c)
       [] c = "server_version" -> ProbeServerVersion
       [] c = "role_permissions" -> ProbeRolePermissions
       [] c = "pg_stat_activity_full_read" -> ProbeStatActivityFullRead
       [] c = "log_destination" -> ProbeLogDestination
       [] c = "auto_explain" -> ProbeAutoExplain
       [] OTHER -> Status(FALSE, "INTERNAL")]

\* The questions that are not asked after this answer: a probe is over at its
\* first error, and auto_explain's when it is not preloaded.
After(q, a) ==
  CASE q = "read_all_stats_again" /\ a = Error -> "log_files"
    [] q = "log_files" /\ a = Error -> "preload"
    [] q = "preload" /\ "preload" \notin a -> "end"
    [] q = "threshold" -> "end"
    [] OTHER -> Queries[1 + CHOOSE i \in DOMAIN Queries : Queries[i] = q]

Answer(q, a) ==
  pass' = [pass EXCEPT !.at = After(q, a), !.said = [x \in DOMAIN @ \cup {q} |-> IF x = q THEN a ELSE @[x]]]

Discover ==
  /\ pass.at = "none" /\ pass.n < MaxPasses /\ sheet.kind = "none"
  /\ pass' = [n |-> pass.n + 1, at |-> Queries[1], said |-> << >>, set |-> << >>]
  /\ facts' \in Facts0 /\ moments' = {facts'}
  /\ UNCHANGED <<found, showing, changes, failures>>

Asking == ~Quiet /\ pass.at # "end" /\ UNCHANGED <<facts, moments, found, showing, changes>>

\* SHOW of a setting of auto_explain is an error while it is not loaded.
Shown(q) == q = "threshold" => "preload" \in facts

Ask ==
  /\ Asking
  /\ Answer(pass.at, IF pass.at = "extensions" THEN facts \cap Extensions
                     ELSE IF Shown(pass.at) THEN facts \cap {Fact(pass.at)} ELSE Error)
  /\ UNCHANGED failures

AskFails ==
  /\ Asking /\ failures < MaxFailures
  /\ \/ Answer(pass.at, Error)
     \/ pass.at = "extensions" /\ \E some \in SUBSET (facts \cap Extensions) : Answer(pass.at, some)
  /\ failures' = failures + 1

\* Discover returns.
Conclude ==
  /\ pass.at = "end"
  /\ pass' = [pass EXCEPT !.at = "write", !.said = << >>, !.set = Discovered]
  /\ facts' = {} /\ moments' = {}
  /\ UNCHANGED <<found, showing, changes, failures>>

\* UpsertDiscoveredCapabilities: one transaction for all the rows of a key.  Which
\* server and database the pass was of plays no part before.
Upsert ==
  /\ pass.at = "write"
  /\ \E s \in ScopeServers, db \in Databases : found' = [found EXCEPT ![s][db] = pass.set]
  /\ pass' = NoPass(pass.n)
  /\ meantime' = Meanwhile(policy, found')
  /\ UNCHANGED <<facts, moments, policy, sheet, changes, failures>>

\* The transaction fails, or the process ends.
PassLost ==
  /\ pass.at # "none"
  /\ pass' = NoPass(pass.n) /\ facts' = {} /\ moments' = {}
  /\ UNCHANGED <<found, showing, changes, failures>>

-----------------------------------------------------------------------------
(* The matrix and the page.                                                *)

Rows(s) == found[s][ServerLevel]

Available(rows) == {c \in DOMAIN rows : rows[c].available}

\* handleCapabilityMatrix: the rows of the server, then for every capability
\* its policy.
OpenMatrix ==
  /\ sheet.kind = "none" /\ Quiet
  /\ \E s \in ScopeServers :
       sheet' = [NoSheet EXCEPT !.kind = "matrix", !.server = s, !.rows = Rows(s), !.todo = Declared]
  /\ meantime' = {World(policy, found)}
  /\ UNCHANGED <<probing, policy, changes, failures>>

Policy(c) == IF c \in Watched THEN policy[c] ELSE "absent"

\* No policy is for it.
Effective(setting) == setting # "off"

FillCell ==
  /\ sheet.kind = "matrix" /\ sheet.todo # << >>
  /\ LET c == Head(sheet.todo) IN
     sheet' = [sheet EXCEPT
       !.todo = Tail(@),
       !.final = IF c \in Available(sheet.rows) /\ Effective(Policy(c)) THEN @ \cup {c} ELSE @]
  /\ UNCHANGED <<probing, policy, meantime, changes, failures>>

\* handleCapabilitiesPage: what any server of the scope has; one that cannot be
\* read is passed over.
OpenPage ==
  /\ sheet.kind = "none" /\ Quiet
  /\ sheet' = [NoSheet EXCEPT !.kind = "page", !.todo = Listed]
  /\ meantime' = {World(policy, found)}
  /\ UNCHANGED <<probing, policy, changes, failures>>

ListServer ==
  /\ sheet.kind = "page" /\ sheet.todo # << >>
  /\ \/ sheet' = [sheet EXCEPT !.todo = Tail(@), !.final = @ \cup Available(Rows(Head(sheet.todo)))]
     \/ sheet' = [sheet EXCEPT !.todo = Tail(@), !.skipped = @ \cup {Head(sheet.todo)}]
  /\ UNCHANGED <<probing, policy, meantime, changes, failures>>

\* The answer, or a 500.
Close ==
  /\ sheet.kind # "none" /\ (sheet.kind = "page" => sheet.todo = << >>)
  /\ sheet' = NoSheet /\ meantime' = {}
  /\ UNCHANGED <<probing, policy, changes, failures>>

Next ==
  \/ ServerChanges \/ PolicyChanges
  \/ Discover \/ Ask \/ AskFails \/ Conclude \/ Upsert \/ PassLost
  \/ OpenMatrix \/ FillCell \/ OpenPage \/ ListServer \/ Close

Spec == Init /\ [][Next]_vars

-----------------------------------------------------------------------------
Had(m, c) == \E all \in Needs(c) : all \subseteq m

\* A verdict is no guess: of a verdict that says something of the server, in a
\* pass without an error.
Definite(status) == status.reason \notin {"PROBE_ERROR", "INTERNAL"} /\ failures = 0

\* The verdicts of a pass, made of answers of a dozen moments, are honest: what is
\* stored as available was so at some moment of the pass; and of what is not,
\* nothing that would have sufficed was there all the time.
PassHonest ==
  pass.at = "end" =>
    \A c \in Extensions \cup Probed :
      IF Discovered[c].available THEN \E m \in moments : Had(m, c)
      ELSE Definite(Discovered[c]) => \A all \in Needs(c) : \E m \in moments : ~(all \subseteq m)

\* And what is shown of them is: of what a page shows there was a moment when it
\* was stored as available, and in the matrix one when it was not disabled; and what
\* was so all the time is shown, but for a server that could not be read.
DiscoveryHonest ==
  /\ PassHonest
  /\ sheet.kind = "matrix" /\ sheet.todo = << >> =>
       \A c \in ToSet(Declared) :
         LET on == {Effective(w.policy[c]) : w \in IF c \in Watched THEN meantime ELSE {}}
             there == {(c \in Available(w.rows[sheet.server])) : w \in meantime} IN
         IF c \in sheet.final THEN TRUE \in there /\ on # {FALSE} ELSE FALSE \in there \/ FALSE \in on
  /\ sheet.kind = "page" /\ sheet.todo = << >> =>
       \A c \in ToSet(Declared) :
         LET there(s) == {(c \in Available(w.rows[s])) : w \in meantime} IN
         IF c \in sheet.final THEN \E s \in ScopeServers \ sheet.skipped : TRUE \in there(s)
         ELSE \A s \in ScopeServers \ sheet.skipped : FALSE \in there(s)
=============================================================================
