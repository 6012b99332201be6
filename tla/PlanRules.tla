------------------------------ MODULE PlanRules ------------------------------
(***************************************************************************)
(* What is made of the plans that auto_explain logs: the classification of *)
(* log records (internal/logparse), the extraction of internal/planextract *)
(* which drops whatever could hold a literal, the detectors of             *)
(* internal/insight, and the index advisor of internal/advisor/index.go.   *)
(*                                                                         *)
(* A record is [parses, severity, looks, statement, body]: whether its     *)
(* line can be parsed, the patterns that its message matches, the          *)
(* statement logged with it ("" in a format that has none), and what is    *)
(* left of the message without the prefix of a plan.                       *)
(*                                                                         *)
(* A plan is [fp, nodes]: a fingerprint ("" if none could be computed) and *)
(* its nodes in the order of the walk, each with the position of its       *)
(* parent (0 at the root).  Of a condition only the comparisons matter: a  *)
(* sequence of [col, left, type, op], where left says how the column is    *)
(* written: plainly, cast to a type, or so that no word stands before the  *)
(* operator; of an operator that begins like a known one, as <@ does, op   *)
(* is the known one.  Row counts are per loop, as PostgreSQL logs them,    *)
(* and spills are in kB.                                                   *)
(***************************************************************************)
EXTENDS Integers, Sequences, FiniteSets, FiniteSetsExt, SequencesExt

CR == INSTANCE CheckRules

None   == 0
Low    == 1
Medium == 2
High   == 3

Banded(x, medium, high) == IF x >= high THEN High ELSE IF x >= medium THEN Medium ELSE Low

Children(nodes, k) == {c \in 1..Len(nodes) : nodes[c].parent = k}

Root(nodes) == CHOOSE k \in 1..Len(nodes) : nodes[k].parent = 0

\* The elements at some positions, in their order.
Only(seq, positions) ==
  FlattenSeq([i \in DOMAIN seq |-> IF i \in positions THEN <<seq[i]>> ELSE << >>])

-----------------------------------------------------------------------------
(* Log records.                                                            *)

Always(type) == [type |-> type, errorsOnly |-> FALSE]
OfErrors(type) == [type |-> type, errorsOnly |-> TRUE]

\* In the order in which they are tried.
DefaultRules ==
  <<Always("auto_explain.plan"), Always("query.duration"),
    Always("connection.authorized"), Always("connection.received"),
    Always("connection.disconnected"), OfErrors("connection.auth_failed"),
    Always("checkpoint.starting"), Always("checkpoint.completed"),
    Always("vacuum.autovacuum_completed"), Always("vacuum.completed"),
    OfErrors("lock.deadlock_detected"), Always("lock.acquired_after_wait"),
    OfErrors("query.canceled_due_to_timeout"),
    OfErrors("error.constraint_violation"), OfErrors("error.syntax"),
    Always("temp_file.created")>>

isError(rec) == rec.severity \in {"ERROR", "FATAL"}

Classify(rec) ==
  LET matching == {i \in DOMAIN DefaultRules :
                     /\ DefaultRules[i].type \in rec.looks
                     /\ DefaultRules[i].errorsOnly => isError(rec)}
  IN IF matching = {} THEN "log.unclassified" ELSE DefaultRules[Min(matching)].type

Parsed(records) == Only(records, {i \in DOMAIN records : records[i].parses})

\* A variant, with a mistake: the payload of a record that does not parse is kept.
ParseStreamSkewed(records) ==
  LET parsed == Parsed(records)
  IN [events   |-> [i \in DOMAIN parsed |-> Classify(parsed[i])],
      payloads |-> [i \in DOMAIN records |-> [statement |-> records[i].statement, body |-> records[i].body]]]

\* ParseStream: of every record that parses an event and a payload, in two
\* sequences of the same length.
ParseStream(records) ==
  LET parsed == Parsed(records)
  IN [events   |-> [i \in DOMAIN parsed |-> Classify(parsed[i])],
      payloads |-> [i \in DOMAIN parsed |-> [statement |-> parsed[i].statement, body |-> parsed[i].body]]]

-----------------------------------------------------------------------------
(* Extraction.                                                             *)

\* NormalizeCondition: what cannot be parsed, or keeps a quote, is dropped.
NormalizeCondition(cond) == IF cond.parses /\ ~cond.quoteLeft THEN cond.terms ELSE << >>

\* normalizeConds: the filter, the index, hash, join and recheck conditions.
normalizeConds(raw) == FlattenSeq([i \in DOMAIN raw.conds |-> NormalizeCondition(raw.conds[i])])

\* convert: the fields of a node one by one, the text not among them.
convert(raw) ==
  [f \in (DOMAIN raw \ {"conds"}) \cup {"cond"} |->
     IF f = "cond" THEN normalizeConds(raw) ELSE raw[f]]

\* Extract: a body that is JSON, an object or an array of one, with a plan.
Extract(body, fp) ==
  IF body.shape \in {"object", "array"} /\ body.nodes # << >>
  THEN <<[fp |-> fp, nodes |-> [k \in DOMAIN body.nodes |-> convert(body.nodes[k])]]>>
  ELSE << >>

\* planFingerprint: of the statement logged with the plan, or of the text in it.
planFingerprint(payload) ==
  IF payload.statement # "" THEN payload.statement ELSE payload.body.queryText

\* ExtractPlans: of the events of a log chunk and the payloads beside them.
ExtractPlans(chunk) ==
  FlattenSeq([i \in DOMAIN chunk.events |->
    IF chunk.events[i] = "auto_explain.plan" /\ chunk.payloads[i].body.shape # "blank"
    THEN Extract(chunk.payloads[i].body, planFingerprint(chunk.payloads[i])) ELSE << >>])

-----------------------------------------------------------------------------
(* Detectors: rank of what they find at a node, None if nothing.           *)

Removed(n) == n.removed * n.loops
Kept(n)    == n.rows * n.loops
Scanned(n) == Kept(n) + Removed(n)

\* slowScanSeverity: at most 1% kept, 5%, 10%.
SelectivityRank(n) ==
  IF 100 * n.rows <= n.rows + n.removed THEN High
  ELSE IF 20 * n.rows <= n.rows + n.removed THEN Medium ELSE Low

Discards(n) ==
  n.loops > 0 /\ n.removed > 0 /\ Scanned(n) >= 1000 /\ 10 * n.rows <= n.rows + n.removed

SlowScan(n) == IF n.type = "Seq Scan" /\ Discards(n) THEN SelectivityRank(n) ELSE None

InefficientIndex(n) ==
  IF n.type \in {"Index Scan", "Index Only Scan", "Bitmap Heap Scan"} /\ Discards(n)
  THEN SelectivityRank(n) ELSE None

MostlyRemoved(n) == n.loops > 0 /\ Removed(n) >= 1000 /\ Removed(n) > Kept(n)

LossyBitmap(n) ==
  IF n.type = "Bitmap Heap Scan" /\ MostlyRemoved(n)
  THEN Banded(Removed(n), 100000, 1000000) ELSE None

WrongIndexOrderBy(n) ==
  IF n.type \in {"Index Scan", "Index Scan Backward"} /\ n.direction # "" /\ MostlyRemoved(n)
  THEN Banded(Removed(n), 100000, 1000000) ELSE None

DiskSort(n) ==
  IF n.type = "Sort" /\ n.sortSpace = "Disk" THEN Banded(n.sortKB, 32768, 262144) ELSE None

HashBatches(n) == IF n.type = "Hash" /\ n.batches > 1 THEN Banded(n.batches, 8, 64) ELSE None

\* estimateRatio: by how much the estimate is off, one way or the other.
Divergence(n) ==
  LET hi == CR!Worst(n.planRows, n.rows)
      lo == IF n.planRows < n.rows THEN n.planRows ELSE n.rows
  IN [hi |-> hi, lo |-> IF lo < 1 THEN 1 ELSE lo]

Misestimated(n) ==
  LET d == Divergence(n) IN
  IF n.loops <= 0 \/ d.hi < 100 * d.lo \/ (n.planRows < 1000 /\ n.rows < 1000) THEN None
  ELSE IF d.hi >= 1000 * d.lo THEN High ELSE Medium

StaleStats(nodes, k) ==
  IF Children(nodes, k) = {} /\ nodes[k].relation # "" THEN Misestimated(nodes[k]) ELSE None

MisEstimate(nodes, k) == IF Children(nodes, k) # {} THEN Misestimated(nodes[k]) ELSE None

LargeOffset(nodes, k) ==
  LET produced  == MapThenSumSet(LAMBDA c : Kept(nodes[c]), Children(nodes, k))
      discarded == produced - Kept(nodes[k])
  IN IF nodes[k].type = "Limit" /\ Kept(nodes[k]) > 0 /\ discarded >= 1000
     THEN Banded(discarded, 10000, 100000) ELSE None

NestedLoop(nodes, k) ==
  LET loops == Max({0} \cup {nodes[c].loops : c \in Children(nodes, k)}) IN
  IF nodes[k].type = "Nested Loop" /\ loops >= 1000 /\ Kept(nodes[k]) >= 1
  THEN Banded(loops, 100000, 1000000) ELSE None

\* What a node wrote to disk.
Spilled(n) ==
  IF n.type = "Sort" /\ n.sortSpace = "Disk" THEN n.sortKB
  ELSE IF n.type = "Hash" /\ n.batches > 1 THEN n.peakKB ELSE 0

TotalSpill(nodes) ==
  LET upTo[k \in 0..Len(nodes)] == IF k = 0 THEN 0 ELSE upTo[k - 1] + Spilled(nodes[k])
  IN upTo[Len(nodes)]

\* DiskSpillDetector: once per plan.
DiskSpill(nodes) ==
  IF TotalSpill(nodes) >= 1024 THEN Banded(TotalSpill(nodes), 32768, 262144) ELSE None

\* Bound: the largest power of two that is tried, a terabyte.
MaxMB == 1048576

PowersOfTwo ==
  {1, 2, 4, 8, 16, 32, 64, 128, 256, 512, 1024, 2048, 4096, 8192, 16384, 32768, 65536,
   131072, 262144, 524288, MaxMB}

\* nextPow2MB of the largest spill: the work_mem that is recommended, in MB.
RecommendedMB(nodes) ==
  LET largest == Max({0} \cup {Spilled(nodes[k]) : k \in DOMAIN nodes}) IN
  Min({mb \in PowersOfTwo : mb * 1024 > largest})

Insight(kind, at, rank) == [kind |-> kind, at |-> at, rank |-> rank]

\* DetectAll: every detector over one plan; 0 stands for the plan as a whole.
DetectAll(plan) ==
  LET n == plan.nodes IN
  {x \in {Insight("slow_scan", k, SlowScan(n[k])) : k \in DOMAIN n}
     \cup {Insight("disk_sort", k, DiskSort(n[k])) : k \in DOMAIN n}
     \cup {Insight("hash_batches", k, HashBatches(n[k])) : k \in DOMAIN n}
     \cup {Insight("inefficient_index", k, InefficientIndex(n[k])) : k \in DOMAIN n}
     \cup {Insight("stale_stats", k, StaleStats(n, k)) : k \in DOMAIN n}
     \cup {Insight("mis_estimate", k, MisEstimate(n, k)) : k \in DOMAIN n}
     \cup {Insight("large_offset", k, LargeOffset(n, k)) : k \in DOMAIN n}
     \cup {Insight("lossy_bitmap", k, LossyBitmap(n[k])) : k \in DOMAIN n}
     \cup {Insight("nested_loop", k, NestedLoop(n, k)) : k \in DOMAIN n}
     \cup {Insight("wrong_index_order_by", k, WrongIndexOrderBy(n[k])) : k \in DOMAIN n}
     \cup {Insight("disk_spill", 0, DiskSpill(n))} : x.rank # None}

-----------------------------------------------------------------------------
(* The index advisor.                                                      *)

RangeOps == {"<", ">", "<=", ">=", "between"}

CmpOps == {"=", "<>", "!=", "~~", "in"} \cup RangeOps

\* colCmp: the word before the operator, which is a column where it is written
\* plainly, and the type where it is cast, as in (status)::text = $1::text; no word
\* stands there after a quoted name, a call or an index, and not every operator
\* is known.
Matches(term) == term.left # "other" /\ term.op \in CmpOps

Word(term) == IF term.left = "cast" THEN term.type ELSE term.col

\* filterColumns: every word once, by its first comparison, equalities first.
filterColumns(cond) ==
  LET words  == [i \in DOMAIN cond |-> Word(cond[i])]
      read   == {i \in DOMAIN cond : Matches(cond[i])}
      first  == {i \in read : \A j \in read : j < i => words[j] # words[i]}
      ranges == {i \in first : cond[i].op \in RangeOps}
  IN Only(words, first \ ranges) \o Only(words, ranges)

\* The sequential scans of a plan whose filter an index could serve.
Servable(plan) ==
  {k \in DOMAIN plan.nodes :
     /\ plan.nodes[k].type = "Seq Scan" /\ plan.nodes[k].relation # ""
     /\ filterColumns(plan.nodes[k].cond) # << >>}

Candidate(n) == [relation |-> n.relation, columns |-> filterColumns(n.cond)]

Candidates(plans) ==
  UNION {{Candidate(plans[i].nodes[k]) : k \in Servable(plans[i])} : i \in DOMAIN plans}

\* RecommendIndexes, before it is sorted: the candidates with the fingerprints
\* that ask for them and the size and scans of the table of that name.
RecommendIndexes(plans, tables) ==
  {[candidate |-> c,
    fingerprints |-> {plans[i].fp : i \in
       {j \in DOMAIN plans : \E k \in Servable(plans[j]) : Candidate(plans[j].nodes[k]) = c}} \ {""},
    size |-> IF c.relation \in DOMAIN tables THEN tables[c.relation].size ELSE 0,
    seqScans |-> IF c.relation \in DOMAIN tables THEN tables[c.relation].seqScans ELSE 0] :
     c \in Candidates(plans)}
=============================================================================
