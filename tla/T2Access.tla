------------------------------ MODULE T2Access ------------------------------
(***************************************************************************)
(* The two ways in which the API hands out literal (tier 2) data: the SQL  *)
(* console (internal/api/console.go over internal/console), and T2Reader   *)
(* (internal/store/t2_read.go).  A request is a sequence of store calls,   *)
(* each of which may fail; grants, kill switches, policies and the scope   *)
(* of scripts change between them, and an actor has several tabs.          *)
(*                                                                         *)
(* The audit log is a list that an append joins in one step, with an       *)
(* answer that may be lost (AuditLog, which AuditChain implements).  The   *)
(* grant service is external: the code has its interface and a stub.       *)
(***************************************************************************)
EXTENDS Integers, Sequences

CONSTANTS Actors,
          Clusters,
          Streams,    \* (node, database) pairs with a collector: servers
          ClusterOf,  \* ClusterOf[s]: the cluster that stream s belongs to
          Scripts,    \* saved scripts
          Moving,     \* gates that open and close; the others are open
          Tabs,       \* requests in flight, one per tab
          Asks,       \* Asks[t]: the requests that tab t sends
          Capacity,   \* runs that NewSessions keeps per key
          MaxAudit    \* bound: entries in the audit log

ASSUME ClusterAssumption == ClusterOf \in [Streams -> Clusters]
ASSUME SizesAssumption == Capacity \in Nat \ {0} /\ MaxAudit \in Nat
ASSUME AsksAssumption ==
  Asks \in [Tabs -> SUBSET
         [kind : {"run", "handoff", "view", "export", "read"}, actor : Actors,
          cluster : Clusters, stream : Streams, script : Scripts, sql : {"typed", "blank"}]]
ASSUME ScriptsAssumption == {"typed", "blank"} \cap Scripts = {}

VARIABLES
  open,      \* the gates that are open: see GatesOf
  audit,     \* the tier 2 entries of the audit log
  sessions,  \* sessions[k]: ids of the runs kept for key k, newest first
  tab,       \* tab[t]: the request of tab t
  pc,        \* pc[t]: the next call of that request
  out,       \* out[t]: what it handed out
  held       \* history: gates that held at some moment of the request

vars == <<open, audit, sessions, tab, pc, out, held>>

Kinds   == {"run", "handoff", "view", "page", "export", "read"}
Nothing == [what |-> "nothing", run |-> 0, entry |-> 0]
Keys    == Actors \X Clusters

Grant(q)      == <<"grant", q.actor, q.cluster>>       \* an active session grant
Switch(q)     == <<"t2", q.stream>>                    \* servers.t2_enabled
Capability(q) == <<"capability", q.stream>>            \* EffectiveCapability
Sight(q)      == <<"script", q.actor, q.script>>       \* GetVisibleScript

\* The gates that request q has to pass.
GatesOf(q) ==
  CASE q.kind = "run" -> {Grant(q), Switch(q)}
    [] q.kind = "handoff" -> {Grant(q), Switch(q), Sight(q)}
    [] q.kind = "read" -> {Switch(q), Capability(q)}
    [] OTHER -> {Grant(q)}

AllGates == UNION {GatesOf(q) : q \in UNION {Asks[t] : t \in Tabs}}

-----------------------------------------------------------------------------
(* Variants of the definitions below, each with a mistake the code could   *)
(* have made; substituted for the original, a property must fail.          *)

\* The ring of runs is kept per actor.
sessionKeyOfActor(q) == <<q.actor, CHOOSE c \in Clusters : TRUE>>

\* An export trusts the grant of the run it exports.
RefusedButExport(q) == q.kind # "export" /\ Grant(q) \notin open

-----------------------------------------------------------------------------
\* The key under which the ring of runs is kept.
sessionKey(q) == <<q.actor, q.cluster>>

Idle == [kind |-> "none"]

Init ==
  /\ open = AllGates \ Moving
  /\ audit = << >>
  /\ sessions = [k \in Keys |-> << >>]
  /\ tab = [t \in Tabs |-> Idle]
  /\ pc = [t \in Tabs |-> "idle"]
  /\ out = [t \in Tabs |-> Nothing]
  /\ held = [t \in Tabs |-> {}]

Goto(t, next) == pc' = [pc EXCEPT ![t] = next]

\* A request that ends without handing anything out leaves nothing behind.
End(t) ==
  /\ Goto(t, "idle")
  /\ tab' = [tab EXCEPT ![t] = Idle]
  /\ held' = [held EXCEPT ![t] = {}]

\* The next call of the request; it changes nothing else.
Continue(t, next) ==
  /\ IF next = "idle" THEN End(t) ELSE Goto(t, next) /\ UNCHANGED <<tab, held>>
  /\ UNCHANGED <<open, audit, sessions, out>>

\* The request of a hand-off goes on to render the page; any other ends.
GiveUp(q) == IF q.kind = "handoff" THEN "view" ELSE "idle"

Start(q, t) ==
  /\ tab' = [tab EXCEPT ![t] = q]
  /\ out' = [out EXCEPT ![t] = Nothing]
  /\ held' = [held EXCEPT ![t] = GatesOf(q) \cap open]
  /\ Goto(t, CASE q.kind = "read" -> "t2gate"
               [] q.kind \in {"view", "page"} -> "view"
               [] OTHER -> "grant")
  /\ UNCHANGED <<open, audit, sessions>>

\* A request arrives: a statement that was typed (or is blank) or a script to
\* run, a page that shows the latest run or restores one of the history, an
\* export, or a read through the gateway.
Begin(t) ==
  /\ pc[t] = "idle"
  /\ \E ask \in Asks[t], restore \in 0..Len(audit) :
       /\ ask.kind # "view" => restore = 0
       /\ Start([kind |-> ask.kind, actor |-> ask.actor, cluster |-> ask.cluster,
                 stream |-> ask.stream, script |-> ask.script, sql |-> ask.sql,
                 restore |-> restore, from |-> 0, began |-> Len(audit), entry |-> 0], t)

\* The next page of what the tab shows: the link carries scope, node, database
\* and page, and not the run (consolePagedHref).
BeginPage(t) ==
  /\ pc[t] = "idle" /\ out[t].what = "result"
  /\ Start([tab[t] EXCEPT !.kind = "page", !.restore = 0, !.sql = "blank",
                          !.from = out[t].run, !.began = Len(audit), !.entry = 0], t)

-----------------------------------------------------------------------------
(* The calls of a request.                                                 *)

Refused(q) == Grant(q) \notin open

\* ActiveGrant, before a run, a hand-off or an export.
CheckGrant(t) ==
  LET q == tab[t] IN
  /\ pc[t] = "grant"
  /\ Continue(t, IF Refused(q) THEN IF q.kind = "export" THEN "idle" ELSE "view"
                 ELSE CASE q.kind = "run" -> "resolve"
                        [] q.kind = "handoff" -> "load"
                        [] q.kind = "export" -> "latest")

\* GetVisibleScript: a script that is not there or not visible is no script.
LoadScript(t) ==
  LET q == tab[t]
      seen == Sight(q) \in open IN
  /\ pc[t] = "load"
  /\ tab' = [tab EXCEPT ![t].sql = IF seen THEN q.script ELSE "blank"]
  /\ Goto(t, IF seen THEN "resolve" ELSE "view")
  /\ UNCHANGED <<open, audit, sessions, out, held>>

\* resolveConsoleTarget within the cluster, with the stream's kill switch.
Resolve(t) ==
  LET q == tab[t] IN
  /\ pc[t] = "resolve"
  /\ Continue(t, IF ClusterOf[q.stream] = q.cluster /\ q.sql # "blank" /\ Switch(q) \in open
                 THEN "execute" ELSE "view")

Execute(t) == pc[t] = "execute" /\ Continue(t, "audit")

\* The cached run that an export is about.
TakeLatest(t) ==
  LET runs == sessions[sessionKey(tab[t])] IN
  /\ pc[t] = "latest"
  /\ IF runs = << >> THEN Continue(t, "idle")
     ELSE /\ tab' = [tab EXCEPT ![t].from = Head(runs)]
          /\ Goto(t, "audit")
          /\ UNCHANGED <<open, audit, sessions, out, held>>

Entry(q) ==
  [act |-> CASE q.kind = "export" -> "export" [] q.kind = "read" -> "read" [] OTHER -> "execute",
   actor |-> q.actor, cluster |-> ClusterOf[q.stream], stream |-> q.stream,
   run |-> IF q.kind = "export" THEN q.from ELSE 0]

\* AppendAuditReturning succeeds.
Audit(t) ==
  LET q == tab[t] IN
  /\ pc[t] = "audit" /\ Len(audit) < MaxAudit
  /\ audit' = Append(audit, Entry(q))
  /\ tab' = [tab EXCEPT ![t].entry = Len(audit) + 1]
  /\ Goto(t, CASE q.kind = "export" -> "stream" [] q.kind = "read" -> "select"
               [] OTHER -> "cache")
  /\ UNCHANGED <<open, sessions, out, held>>

\* It fails, or only its answer is lost: what was executed is withheld.
AuditFails(t) ==
  /\ pc[t] = "audit"
  /\ \/ UNCHANGED audit
     \/ Len(audit) < MaxAudit /\ audit' = Append(audit, Entry(tab[t]))
  /\ IF tab[t].kind = "handoff" THEN Goto(t, "view") /\ UNCHANGED <<tab, held>> ELSE End(t)
  /\ UNCHANGED <<open, sessions, out>>

\* Sessions.Append: prepend and trim.
Cache(t) ==
  LET k == sessionKey(tab[t])
      runs == <<tab[t].entry>> \o sessions[k] IN
  /\ pc[t] = "cache"
  /\ sessions' = [sessions EXCEPT
                    ![k] = SubSeq(runs, 1, IF Len(runs) > Capacity THEN Capacity ELSE Len(runs))]
  /\ Goto(t, "view")
  /\ UNCHANGED <<open, audit, tab, out, held>>

\* buildConsoleVM checks the grant of the page it renders.
View(t) ==
  /\ pc[t] = "view"
  /\ Continue(t, IF Refused(tab[t]) THEN "idle" ELSE "look")

HandOut(t, what, run) ==
  /\ out' = [out EXCEPT ![t] = [what |-> what, run |-> run, entry |-> tab[t].entry]]
  /\ Goto(t, "idle")
  /\ UNCHANGED <<open, audit, sessions, tab, held>>

\* Sessions.Get of the run to restore, else Sessions.Latest.
Look(t) ==
  LET q == tab[t]
      runs == sessions[sessionKey(q)]
      found == IF q.restore = 0 THEN runs # << >>
               ELSE \E i \in 1..Len(runs) : runs[i] = q.restore IN
  /\ pc[t] = "look"
  /\ IF found THEN HandOut(t, "result", IF q.restore = 0 THEN Head(runs) ELSE q.restore)
     ELSE Continue(t, "idle")

Stream(t) == pc[t] = "stream" /\ HandOut(t, "export", tab[t].from)

\* ReadT2QueryStats: the kill switch, the capability, the entry, the SELECT.
CheckT2(t) ==
  /\ pc[t] = "t2gate"
  /\ Continue(t, IF Switch(tab[t]) \in open THEN "capability" ELSE "idle")

CheckCapability(t) ==
  /\ pc[t] = "capability"
  /\ Continue(t, IF Capability(tab[t]) \in open THEN "audit" ELSE "idle")

Select(t) == pc[t] = "select" /\ HandOut(t, "rows", 0)

\* A call fails.
Fail(t) ==
  \/ /\ pc[t] \in {"grant", "load", "resolve", "execute"}
     /\ Continue(t, GiveUp(tab[t]))
  \/ /\ pc[t] \in {"view", "t2gate", "capability", "select"}
     /\ Continue(t, "idle")

-----------------------------------------------------------------------------
(* What others do meanwhile.                                               *)

\* A grant is given, expires or is revoked; a kill switch, a capability policy
\* or the scope of a script changes.
ChangeGate ==
  \E x \in Moving :
    /\ open' = (open \ {x}) \cup ({x} \ open)
    /\ held' = [t \in Tabs |-> IF pc[t] = "idle" THEN held[t]
                               ELSE held[t] \cup (GatesOf(tab[t]) \cap open')]
    /\ UNCHANGED <<audit, sessions, tab, pc, out>>

\* The API process dies; requests and the ring of runs with it.
Restart ==
  /\ sessions' = [k \in Keys |-> << >>]
  /\ pc' = [t \in Tabs |-> "idle"]
  /\ tab' = [t \in Tabs |-> Idle]
  /\ out' = [t \in Tabs |-> Nothing]
  /\ held' = [t \in Tabs |-> {}]
  /\ UNCHANGED <<open, audit>>

Handle(t) ==
  \/ CheckGrant(t) \/ LoadScript(t) \/ Resolve(t) \/ Execute(t)
  \/ TakeLatest(t) \/ Audit(t) \/ AuditFails(t) \/ Cache(t)
  \/ View(t) \/ Look(t) \/ Stream(t)
  \/ CheckT2(t) \/ CheckCapability(t) \/ Select(t) \/ Fail(t)

Next ==
  \/ \E t \in Tabs : Begin(t) \/ BeginPage(t) \/ Handle(t)
  \/ ChangeGate \/ Restart

Spec == Init /\ [][Next]_vars

-----------------------------------------------------------------------------
(* Properties.                                                             *)

Request ==
  [kind : Kinds, actor : Actors, cluster : Clusters, stream : Streams,
   script : Scripts, sql : Scripts \cup {"typed", "blank"},
   restore : 0..MaxAudit, from : 0..MaxAudit, began : 0..MaxAudit, entry : 0..MaxAudit]

TypeOK ==
  /\ open \subseteq AllGates \cup Moving
  /\ Len(audit) <= MaxAudit
  /\ \A k \in Keys : Len(sessions[k]) <= Capacity
  /\ tab \in [Tabs -> Request \cup {Idle}]
  /\ \A t \in Tabs : held[t] # {} => held[t] \subseteq GatesOf(tab[t])

\* The run i is one that the actor of q executed in the cluster of q.
RunOf(q, i) ==
  /\ i \in 1..Len(audit)
  /\ audit[i].act = "execute" /\ audit[i].actor = q.actor /\ audit[i].cluster = q.cluster

\* An entry of the request itself, made before it handed anything out.
EntryOf(q, act, i) ==
  /\ i \in (q.began + 1)..Len(audit)
  /\ audit[i].act = act /\ audit[i].actor = q.actor

\* Every literal that leaves is in the audit log: a result that is shown is of
\* a run this actor executed in this cluster and that was audited; an export
\* and a read of the gateway have an entry of their own besides.
EgressAudited ==
  \A t \in Tabs :
    LET q == tab[t] IN
    /\ out[t].what \in {"result", "export"} => RunOf(q, out[t].run)
    /\ out[t].what = "export" =>
         EntryOf(q, "export", out[t].entry) /\ audit[out[t].entry].run = out[t].run
    /\ out[t].what = "rows" =>
         EntryOf(q, "read", out[t].entry) /\ audit[out[t].entry].stream = q.stream

\* Nothing leaves and nothing is executed but while its gates were open: the
\* grant at some moment of the request (a grant that ended before the request
\* began is worth nothing, though the result is still cached), for a run and a
\* read also the kill switch, for a hand-off the script's visibility.
EgressGated ==
  \A t \in Tabs :
    LET q == tab[t]
        executed == pc[t] \in {"audit", "cache"} /\ q.kind \in {"run", "handoff"} IN
    /\ executed \/ out[t].what \in {"result", "export"} => Grant(q) \in held[t]
    /\ executed \/ out[t].what = "rows" => Switch(q) \in held[t]
    /\ executed /\ q.kind = "handoff" => Sight(q) \in held[t]
    /\ out[t].what = "rows" => Capability(q) \in held[t]

\* internal/console/session.go:8-10: a Run is kept "so pagination, export and
\* history-restore read back the full result": the next page is of the run
\* whose page was shown.
PagesOfOneRun ==
  \A t \in Tabs :
    tab[t].kind = "page" /\ out[t].what = "result" => out[t].run = tab[t].from
=============================================================================
