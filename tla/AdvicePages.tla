---------------------------- MODULE AdvicePages ----------------------------
(***************************************************************************)
(* What is read of the plans (internal/store/chstats_plans.go) for advice: *)
(* the pages of insights, of the index and the vacuum advisor, of a plan,  *)
(* of a query and its fragment (internal/api), and the index alerts of the *)
(* scheduler (assembleInput).  A page lists the keys that have a plan and  *)
(* then reads every key on its own, as of the moment it was opened, while  *)
(* collectors go on delivering: late, twice, or not in order.              *)
(*                                                                         *)
(* Servers and fingerprints are numbers, in the order of their strings.    *)
(* What is concluded from the plans that were read is in PlanRules.        *)
(***************************************************************************)
EXTENDS Integers, Sequences, FiniteSets

CONSTANTS Plans,      \* captured plans: [server, fp, at, tier], no two of a key at once
          Members,    \* the servers of the cluster, in the order they are listed
          MonthWindow, DayWindow, \* how far pages look back
          MaxKeys,    \* keys that are listed; 200 in the code
          Depths,     \* plans read of a key; 10, 5 on the page of a plan, 1 of a fragment
          MaxNow,     \* bound: the clock
          MaxCopies,  \* bound: deliveries of a plan
          MaxRows     \* bound: rows of plans

VARIABLES today,   \* the clock
          copies,  \* copies[p]: rows of plan p
          view,    \* the page that is being made
          opened   \* history: copies when it was opened

vars == <<today, copies, view, opened>>

PlanServers == {p.server : p \in Plans}
KeyOf(p) == [server |-> p.server, fp |-> p.fp]
Keys == {KeyOf(p) : p \in Plans}

\* Pages that read every key, and those that weigh tables besides.
ByKeys == {"insights", "index", "alerts", "query"}
TablePages == {"index", "vacuum", "alerts"}

NoView == [kind |-> "none", of |-> [server |-> 0, fp |-> 0], asOf |-> 0, listed |-> {}, todo |-> {},
           got |-> {}, skipped |-> {}, servers |-> {}, weighed |-> {}, link |-> 0, pc |-> "none"]

Nothing == [p \in Plans |-> 0]

Init ==
  /\ today = MonthWindow /\ copies = Nothing
  /\ view = NoView /\ opened = Nothing

-----------------------------------------------------------------------------
(* The store.                                                              *)

\* WriteQueryPlans: a tier of 0 is stored as 1.
Tier(p) == IF p.tier = 0 THEN 1 ELSE p.tier

\* Rows captured in [asOf - days, asOf), of tier 1.
In(p, asOf, days) == asOf - days <= p.at /\ p.at < asOf /\ Tier(p) = 1

Matching(table, asOf, days) == {p \in Plans : table[p] > 0 /\ In(p, asOf, days)}

Rows(table, ps) == Cardinality(UNION {{p} \X (1..table[p]) : p \in ps})

\* A variant: the oldest first.
TopPlansOldest(k, asOf, days, limit) ==
  LET own == {p \in Matching(copies, asOf, days) : KeyOf(p) = k}
  IN {p \in own : Rows(copies, {q \in own : q.at < p.at}) < limit}

\* TopPlansByQuery: the newest rows of a key; what was delivered twice counts twice.
TopPlansByQuery(k, asOf, days, limit) ==
  LET own == {p \in Matching(copies, asOf, days) : KeyOf(p) = k}
  IN {p \in own : Rows(copies, {q \in own : q.at > p.at}) < limit}

Before(k, l) == k.server < l.server \/ (k.server = l.server /\ k.fp < l.fp)

\* ListPlanKeys: the first keys by server and fingerprint, whatever their plans' age.
ListPlanKeys(table, asOf) ==
  LET all == {KeyOf(p) : p \in Matching(table, asOf, MonthWindow)}
  IN {k \in all : Cardinality({l \in all : Before(l, k)}) < MaxKeys}

\* A snapshot with plans is stored, all of them or none; it may be an old one,
\* or one that was stored before.
WriteQueryPlans ==
  /\ \E ps \in SUBSET Plans :
       /\ Cardinality(ps) \in {1, 2} /\ \A p \in ps : p.at <= today + 1 /\ copies[p] < MaxCopies
       /\ \A p, q \in ps : p.server = q.server
       /\ Rows(copies, Plans) + Cardinality(ps) <= MaxRows
       /\ copies' = [p \in Plans |-> IF p \in ps THEN copies[p] + 1 ELSE copies[p]]
  /\ UNCHANGED <<today, view, opened>>

Tick ==
  /\ today < MaxNow
  /\ today' = today + 1
  /\ UNCHANGED <<copies, view, opened>>

-----------------------------------------------------------------------------
(* The pages.                                                              *)

Open(v) ==
  /\ view.pc = "none"
  /\ view' = [v EXCEPT !.asOf = today] /\ opened' = copies
  /\ UNCHANGED <<today, copies>>

\* Of the keys, alerts are about those of one server, and a query's page about
\* those of one fingerprint; then it makes the page of insights once more.
Wanted(kind, of, k) ==
  CASE kind = "alerts" -> k.server = of.server
    [] kind = "query"  -> k.fp = of.fp
    [] OTHER           -> TRUE

\* fetchInsights, fetchIndexAdvice, fetchVacuumAdvice, fetchDrilldown and the
\* index advice of assembleInput.
OpenByKeys ==
  \E kind \in ByKeys \cup {"vacuum"} : \E of \in (IF kind \in {"alerts", "query"} THEN Keys ELSE {NoView.of}) :
    LET listed == ListPlanKeys(copies, today) IN
    Open([NoView EXCEPT
      !.kind = kind, !.of = of, !.listed = listed,
      !.todo = IF kind = "vacuum" THEN {} ELSE {k \in listed : Wanted(kind, of, k)},
      !.servers = IF kind = "vacuum" THEN {k.server : k \in listed}
                  ELSE IF kind = "alerts" THEN {of.server} ELSE {},
      !.pc = IF kind = "query" THEN "own" ELSE "keys"])

\* The keys cannot be listed: a page without a row, no index alerts; the page
\* of a query goes on to its insights.
ListFails ==
  \E kind \in ByKeys \cup {"vacuum"} : \E of \in (IF kind \in {"alerts", "query"} THEN Keys ELSE {NoView.of}) :
    Open([NoView EXCEPT !.kind = kind, !.of = of, !.pc = IF kind = "query" THEN "own" ELSE "keys"])

\* fetchPlan, and handleClusterQueryDrilldown: the first server that has a plan.
OpenPlan == \E k \in Keys : Open([NoView EXCEPT !.kind = "plan", !.of = k, !.todo = {k}, !.pc = "keys"])

OpenFragment ==
  \E f \in {k.fp : k \in Keys} :
    Open([NoView EXCEPT !.kind = "fragment", !.of.fp = f, !.pc = "keys",
                        !.todo = {[server |-> Members[i], fp |-> f] : i \in DOMAIN Members}])

Depth(kind) ==
  CASE kind = "plan" -> Depths[2] [] kind = "fragment" -> Depths[3] [] OTHER -> Depths[1]

\* Keys are read as they were listed, those of a fragment in the order of the servers.
Listed(server) == CHOOSE i \in DOMAIN Members : Members[i] = server
Sooner(k, l) == IF view.kind = "fragment" THEN Listed(k.server) < Listed(l.server) ELSE Before(k, l)

Reading(pc, k) ==
  /\ view.pc = pc /\ k \in view.todo
  /\ \A l \in view.todo \ {k} : Sooner(k, l)
  /\ UNCHANGED <<today, copies, opened>>

Window(kind) == IF kind = "fragment" THEN DayWindow ELSE MonthWindow

\* A fragment is done with the first server that has a plan.
Rest(k, got) == IF view.kind = "fragment" /\ got # {} THEN {} ELSE view.todo \ {k}

ReadPlans ==
  \E k \in view.todo :
    /\ Reading("keys", k)
    /\ LET got == TopPlansByQuery(k, view.asOf, Window(view.kind), Depth(view.kind))
       IN view' = [view EXCEPT !.got = @ \cup got, !.todo = Rest(k, got),
                               !.servers = IF view.kind = "index" THEN @ \cup {k.server} ELSE @]

\* A key that cannot be read is left out, and its server with it.
ReadFails ==
  \E k \in view.todo :
    /\ Reading("keys", k)
    /\ view' = [view EXCEPT !.skipped = @ \cup {k}, !.todo = @ \ {k}]

\* The plans of a query are counted on all servers; the link is to the last one,
\* whether it has a plan or not.
CountPlans ==
  \E k \in view.todo :
    /\ Reading("own", k)
    /\ view' = [view EXCEPT !.todo = @ \ {k}, !.link = k.server]

\* fetchInsights lists the keys anew, as of a moment of its own.
InsightsOfQuery ==
  /\ view.pc = "own" /\ view.todo = {}
  /\ LET listed == ListPlanKeys(copies, today) IN
     view' = [view EXCEPT !.pc = "keys", !.todo = listed, !.listed = @ \cup listed, !.asOf = today]
  /\ opened' = copies
  /\ UNCHANGED <<today, copies>>

InsightsFail ==
  /\ view.pc = "own" /\ view.todo = {}
  /\ view' = [view EXCEPT !.pc = "keys", !.skipped = view.listed]
  /\ UNCHANGED <<today, copies, opened>>

\* LatestTableStats of a server, in whatever order the servers come; an error
\* leaves its tables without sizes.
WeighTables ==
  /\ view.pc = "keys" /\ view.todo = {} /\ view.kind \in TablePages
  /\ \E s \in view.servers :
       \E weighed \in {view.weighed, view.weighed \cup {s}} :
         view' = [view EXCEPT !.servers = @ \ {s}, !.weighed = weighed]
  /\ UNCHANGED <<today, copies, opened>>

Complete == view.pc = "keys" /\ view.todo = {} /\ (view.kind \in TablePages => view.servers = {})

Show ==
  /\ Complete
  /\ view' = NoView /\ opened' = Nothing
  /\ UNCHANGED <<today, copies>>

Next ==
  \/ WriteQueryPlans \/ Tick
  \/ OpenByKeys \/ ListFails \/ OpenPlan \/ OpenFragment
  \/ ReadPlans \/ ReadFails \/ CountPlans \/ InsightsOfQuery \/ InsightsFail \/ WeighTables \/ Show

Spec == Init /\ [][Next]_vars

-----------------------------------------------------------------------------
Newest(ps) == {p \in ps : \A q \in ps : q.at <= p.at}

\* The keys whose plans a page owes its reader: those it is about, of those that
\* were there when it was opened.
Owed ==
  IF view.kind = "plan" THEN {view.of}
  ELSE IF view.kind = "vacuum" THEN {}
  ELSE {k \in view.listed \cap ListPlanKeys(opened, view.asOf) : Wanted(view.kind, view.of, k)}

\* What is shown: of all that was read, a query's page keeps its fingerprint.
Shown == {p \in view.got : view.kind = "query" => p.fp = view.of.fp}

\* Advice is current and nobody else's: whatever is delivered late or twice while
\* a page is read, it has of every key it is about the newest plan there was when
\* it was opened, or a newer one, unless that key could not be read; nothing of
\* another key, of a plan with literals or from outside its window; the alerts of
\* a server weigh no other server's plans and tables, and no page the tables of a
\* server that it has not listed; and a query's link is to a server that ran it.
PagesCurrent ==
  Complete =>
    /\ \A k \in Owed \ view.skipped :
         \A p \in Newest({q \in Matching(opened, view.asOf, MonthWindow) : KeyOf(q) = k}) :
           \E q \in Shown : KeyOf(q) = k /\ q.at >= p.at
    /\ \A p \in Shown :
         /\ In(p, view.asOf, Window(view.kind))
         /\ IF view.kind = "fragment" THEN p.fp = view.of.fp ELSE KeyOf(p) \in Owed
    /\ Cardinality({p.server : p \in Shown}) > 1 => view.kind \notin {"plan", "fragment", "alerts"}
    /\ view.weighed \subseteq (IF view.kind = "alerts" THEN {view.of.server} ELSE {k.server : k \in view.listed})
    /\ view.link # 0 => [server |-> view.link, fp |-> view.of.fp] \in view.listed
=============================================================================
