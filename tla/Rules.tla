-------------------------------- MODULE Rules --------------------------------
(***************************************************************************)
(* The decisions that need no store and no clock, put to the test: the     *)
(* rules for observations (CheckRules) and plans (PlanRules), and the      *)
(* flattening of scoped policies (PolicyFlatten).  The only variable holds *)
(* the case at hand; a step makes a reading worse, logs another plan, or   *)
(* adds a policy.                                                          *)
(***************************************************************************)
EXTENDS Integers, FiniteSets, Sequences, SequencesExt

CONSTANTS Readings,     \* Readings[kind]: observations of a kind
          Nodes,        \* nodes of plans, as they are logged
          Tables,       \* what is known of the size of the tables
          ScopedPolicies, Graph,
          MaxPlans,     \* bound: plans of a case
          MaxPolicies   \* bound: policies of a case

C == INSTANCE CheckRules
P == INSTANCE PlanRules
F == INSTANCE PolicyFlatten

VARIABLE subject

Kinds == DOMAIN Readings

Observation(kind, o) == [is |-> "observation", kind |-> kind, of |-> o]
Logged(events)       == [is |-> "plans", of |-> events]
Policies(ps)         == [is |-> "policies", of |-> ps]

Init ==
  \/ \E kind \in Kinds : \E o \in Readings[kind] : subject = Observation(kind, o)
  \/ subject = Logged(<< >>)
  \/ subject = Policies(<< >>)

\* The readings that a rule weighs, and whether less of it is the worse.
Up == {"activeSeconds", "stateSeconds", "waitSeconds", "size", "seqScans", "dead",
       "modified", "xid", "mxid", "age"}
Down == {"scans"}

NoBetter(a, b) ==
  \A f \in DOMAIN a :
    IF f \in Up THEN b[f] >= a[f] ELSE IF f \in Down THEN b[f] <= a[f] ELSE b[f] = a[f]

\* Another observation of the same thing finds it worse.
Worsen ==
  /\ subject.is = "observation" /\ subject.kind # "setting"
  /\ \E o \in Readings[subject.kind] :
       NoBetter(subject.of, o) /\ o # subject.of
       /\ subject' = Observation(subject.kind, o)

\* auto_explain logs another plan, of one node or of two, or one in the text
\* format; or a record comes that is none, or that cannot be parsed.
Record(looks, parses, statement, shape, nodes) ==
  [parses |-> parses, severity |-> "LOG", looks |-> looks, statement |-> statement,
   body |-> [shape |-> shape, queryText |-> "q2", nodes |-> nodes]]

PlanRecord(statement, shape, nodes) == Record({"auto_explain.plan"}, TRUE, statement, shape, nodes)

Trees == {<<n>> : n \in {x \in Nodes : x.parent = 0}}
           \cup {<<n, m>> : n \in {x \in Nodes : x.parent = 0}, m \in {x \in Nodes : x.parent = 1}}

LogRecords ==
  {PlanRecord(of.statement, of.shape, of.tree) :
     of \in [statement : {"", "q1", "q2"}, shape : {"object", "text"}, tree : Trees]}
    \cup {Record({"auto_explain.plan"}, FALSE, "q1", "text", << >>),
          Record({"query.duration"}, TRUE, "q1", "text", << >>),
          Record({"error.syntax"}, TRUE, "q1", "text", << >>)}

LogPlan ==
  /\ subject.is = "plans" /\ Len(subject.of) < MaxPlans
  /\ \E rec \in LogRecords : subject' = Logged(Append(subject.of, rec))

AddPolicy ==
  /\ subject.is = "policies" /\ Len(subject.of) < MaxPolicies
  /\ \E p \in ScopedPolicies : subject' = Policies(Append(subject.of, p))

Next == Worsen \/ LogPlan \/ AddPolicy

Spec == Init /\ [][Next]_subject

-----------------------------------------------------------------------------
(* Observations.                                                           *)

\* What was found of a thing is still found, at least as bad, when all its
\* readings got worse: no band of a rule, and no exception, opens a gap.
WorseNeverWeaker ==
  [][subject.is = "observation" =>
       \A x \in C!Eval(subject.kind, subject.of) :
         \E y \in C!Eval(subject.kind, subject'.of) : y.rule = x.rule /\ y.rank >= x.rank]_subject

\* The alerts and the pages of the advisors judge the same facts with
\* thresholds of their own, and agree: on freeze ages, and on the settings
\* that put data at risk.  Part of OneDiagnosis.
EnginesAgree ==
  subject.is = "observation" =>
    LET o == subject.of IN
    /\ subject.kind = "freeze" => C!Wraparound(o) = C!FreezeAdvice(o)
    /\ subject.kind = "setting" /\ o.name \in {"fsync", "full_page_writes", "synchronous_commit"} =>
         {x.rank : x \in C!SettingChecks(o)} = {C!ConfigAdvice(o)} \ {C!None}

-----------------------------------------------------------------------------
(* Plans.                                                                  *)

Shipped == P!ExtractPlans(P!ParseStream(subject.of))

Rank(insights, kind, k) == {x.rank : x \in {y \in insights : y.kind = kind /\ y.at = k}}

\* One cause, one diagnosis, the same in alerts and advice: an index is not both invalid and unused, a
\* connection not both busy and idle, a setting is one check's, a scan that
\* discards is either for the planner to index or an index that misses, and a
\* bad estimate is a table's or a join's.  And the spills of a plan add up:
\* the plan is at least as bad as its worst sort, and the memory recommended
\* holds its largest spill, while half of it would not.
OneDiagnosis ==
  /\ EnginesAgree
  /\ subject.is = "observation" /\ subject.kind # "table" /\ subject.kind # "freeze" =>
       Cardinality({x \in C!Eval(subject.kind, subject.of) : x.rule # "config"}) <= 1
  /\ subject.is = "plans" => \A i \in DOMAIN Shipped :
       LET n == Shipped[i].nodes
           found == P!DetectAll(Shipped[i]) IN
       /\ \A k \in DOMAIN n : \A pair \in {{"slow_scan", "inefficient_index"}, {"stale_stats", "mis_estimate"}} :
            Cardinality({x.kind : x \in {y \in found : y.at = k /\ y.kind \in pair}}) <= 1
       /\ \A k \in DOMAIN n : \A r \in Rank(found, "disk_sort", k) :
            n[k].sortKB >= 1024 => \E t \in Rank(found, "disk_spill", 0) : t >= r
       /\ Rank(found, "disk_spill", 0) # {} =>
            /\ \E k \in DOMAIN n : Rank(found, "disk_sort", k) \cup Rank(found, "hash_batches", k) # {}
            /\ \A k \in DOMAIN n : P!Spilled(n[k]) < P!RecommendedMB(n) * 1024
            /\ P!RecommendedMB(n) > 1 => \E k \in DOMAIN n : P!Spilled(n[k]) >= P!RecommendedMB(n) * 512

\* What a filter compares plainly; and what may be taken for columns besides.
Plainly(cond) == {t.col : t \in {u \in ToSet(cond) : u.left = "plain" /\ u.op \in P!CmpOps}}
CastTo(cond)  == {t.type : t \in {u \in ToSet(cond) : u.left = "cast"}}

\* Every filter of a sequential scan that can be told without its literals and
\* compares a column written plainly, in any plan that was logged as JSON and
\* whatever else was logged around it, is advised on: for all such columns, and
\* nothing but types of columns that are cast with them; once, with the statement
\* of its own plan among those it serves, and whatever the order the plans were
\* logged in; a plan that another hides is not lost.
FilterAdvised ==
  subject.is = "plans" =>
    LET advice == P!RecommendIndexes(Shipped, Tables)
        plans == {rec \in ToSet(subject.of) :
                    rec.parses /\ "auto_explain.plan" \in rec.looks /\ rec.body.shape = "object"}
    IN
    /\ \A rec \in plans : \A i \in DOMAIN rec.body.nodes :
         LET n == P!convert(rec.body.nodes[i])
             own == {a \in advice :
                       /\ a.candidate.relation = n.relation
                       /\ Plainly(n.cond) \subseteq ToSet(a.candidate.columns)
                       /\ ToSet(a.candidate.columns) \subseteq Plainly(n.cond) \cup CastTo(n.cond)}
             statement == IF rec.statement # "" THEN rec.statement ELSE rec.body.queryText
         IN n.type = "Seq Scan" /\ Plainly(n.cond) # {} => \E a \in own : statement \in a.fingerprints
    /\ advice = P!RecommendIndexes(Reverse(Shipped), Tables)
    /\ \A a, b \in advice : a.candidate = b.candidate => a = b

-----------------------------------------------------------------------------
(* Policies.                                                               *)

\* What the gate of a server resolves from the rows: its database's, then all
\* the server's, then enabled.
Gate(rows, s, cap) ==
  LET level(db) == {r \in rows : r.server = s /\ r.cap = cap /\ r.database = db} IN
  IF level(Graph[s].database) # {} THEN {r.enabled : r \in level(Graph[s].database)}
  ELSE IF level(F!NoDatabase) # {} THEN {r.enabled : r \in level(F!NoDatabase)}
  ELSE {TRUE}

\* The policies that apply to s and that no other that applies is narrower than,
\* or as narrow and of a higher priority.
Deciding(ps, s, cap) ==
  LET own == {i \in DOMAIN ps : F!matches(ps[i], Graph[s]) /\ \E t \in ps[i].toggles : t.cap = cap}
      before(j, i) == LET a == F!tierRank(ps[j].scope)
                          b == F!tierRank(ps[i].scope)
                      IN a > b \/ (a = b /\ ps[j].priority > ps[i].priority)
  IN {i \in own : ~\E j \in own : before(j, i)}

\* Where what policies of these positions say is stored.
StoredAt(ps, positions, s) ==
  IF \E i \in positions : ps[i].scope = "database" THEN Graph[s].database ELSE F!NoDatabase

\* The two stored levels decide as the four scopes do: a server's gate for a
\* capability is what its deciding policies say when they agree, whatever the
\* order of the policies; when they do not, it is surfaced and no row is made
\* of them; and no row is about a database that is not the server's own.
FourTiers ==
  subject.is = "policies" =>
    LET ps  == subject.of
        out == F!Flatten(ps, Graph) IN
    /\ \A s \in DOMAIN Graph, cap \in F!Capabilities(ps) :
         LET deciding == Deciding(ps, s, cap)
             says == {t.enabled : t \in {u \in UNION {ps[i].toggles : i \in deciding} : u.cap = cap}}
         IN IF Cardinality(says) > 1
            THEN /\ <<s, cap>> \in out.conflicts
                 /\ \A r \in out.rows : r.server = s /\ r.cap = cap =>
                      r.database # StoredAt(ps, deciding, s)
            ELSE says # {} => Gate(out.rows, s, cap) = says
    /\ out = F!Flatten(Reverse(ps), Graph)
    /\ \A r \in out.rows : r.database \in {F!NoDatabase, Graph[r.server].database}
    /\ \A a, b \in out.rows : a.server = b.server /\ a.database = b.database /\ a.cap = b.cap => a = b
=============================================================================
