----------------------------- MODULE CheckRules -----------------------------
(***************************************************************************)
(* The rules of internal/checks and internal/advisor: what they make of    *)
(* one observation of a monitored server.  A rule gives the rank of the    *)
(* finding, 0 for none.  The two packages judge some of the same facts,    *)
(* each with thresholds of its own: checks raise alerts, advisors fill     *)
(* pages.                                                                  *)
(*                                                                         *)
(* Sizes are in whole kB.  A part of a table (0.2 of its rows) is written  *)
(* as a product, as in 5 * dead > live.                                    *)
(***************************************************************************)
EXTENDS Integers, Sequences

None     == 0
Info     == 1   \* advisors: low
Warning  == 2   \* medium
Critical == 3   \* high

Worst(x, y) == IF x >= y THEN x ELSE y

-----------------------------------------------------------------------------
(* Variants of the definitions below, each with a mistake the code could   *)
(* have made; substituted for the original, a property must fail.          *)

\* The bands leave out what is exactly critical.
BandedGap(x, warn, crit) ==
  IF x > crit THEN Critical ELSE IF x >= warn /\ x < crit THEN Warning ELSE None

\* An invalid index is never scanned: it looks unused as well.
UnusedIndexAll(x) ==
  IF x.primary \/ x.unique \/ x.scans > 50 \/ x.size < 1024 THEN None
  ELSE IF x.size >= 97657 THEN Warning ELSE Info

-----------------------------------------------------------------------------
Banded(x, warn, crit) ==
  IF x >= crit THEN Critical ELSE IF x >= warn THEN Warning ELSE None

\* MultiXact ages are forgotten.
FreezeAdviceXid(f) == Banded(f.xid, 500000000, 1500000000)

-----------------------------------------------------------------------------
(* Connections and locks.                                                  *)

LongRunningActive(c) ==
  IF c.state = "active" THEN Banded(c.activeSeconds, 300, 900) ELSE None

InTransaction == {"idle in transaction", "idle in transaction (aborted)"}

IdleInTransaction(c) ==
  IF c.state \in InTransaction THEN Banded(c.stateSeconds, 300, 900) ELSE None

Blocking(e) == IF e.waitSeconds >= 60 THEN Critical ELSE Warning

-----------------------------------------------------------------------------
(* Indexes.                                                                *)

InvalidIndex(x) == IF x.valid THEN None ELSE Warning

\* Invalid ones are InvalidIndex's, and constraints need theirs.
UnusedIndex(x) ==
  IF ~x.valid \/ x.primary \/ x.unique \/ x.scans > 50 \/ x.size < 1024 THEN None
  ELSE IF x.size >= 97657 THEN Warning ELSE Info

MissingIndex(rec) == IF rec.seqScans >= 100000 /\ rec.size >= 97657 THEN Warning ELSE Info

-----------------------------------------------------------------------------
(* Vacuum and freezing.                                                    *)

\* Dead rows beyond autovacuum's own trigger, 50 + 0.2 * live.
VacuumFrequency(t) ==
  LET trigger == 250 + t.live IN   \* five times the trigger
  IF t.dead < 1000 \/ 5 * t.dead <= trigger THEN None
  ELSE IF 5 * t.dead > 2 * trigger THEN Critical ELSE Warning

Bloat(t) ==
  IF t.dead < 1000 \/ 5 * t.dead < t.live + t.dead THEN None
  ELSE IF 5 * t.dead >= 2 * (t.live + t.dead) THEN Critical ELSE Warning

StaleStatistics(t) ==
  IF t.modified < Worst(t.live \div 10, 1000) THEN None
  ELSE IF t.live > 0 /\ t.modified >= t.live \div 2 THEN Critical ELSE Warning

Day == 24
Never == 0

\* t.sinceAutovacuum in hours, Never when there was none.
AutovacuumLag(t) ==
  IF t.dead < 10000 \/ ~(t.sinceAutovacuum = Never \/ t.sinceAutovacuum > Day) THEN None
  ELSE IF t.sinceAutovacuum = Never THEN Critical ELSE Warning

Wraparound(f) == Banded(Worst(f.xid, f.mxid), 500000000, 1500000000)

FreezeAdvice(f) == Banded(Worst(f.xid, f.mxid), 500000000, 1500000000)

\* x.present: some backend, slot or prepared transaction holds the horizon.
XminHorizon(x) == IF x.present THEN Banded(x.age, 50000000, 500000000) ELSE None

-----------------------------------------------------------------------------
(* Settings: [name, value, unit, source], the value a word or a number.    *)

Off(s) == s.value # "on"

\* boolFlagRule: which check owns the setting, when it is bad, how bad.
FlagRules ==
  {[check |-> "disabled_features", name |-> "autovacuum", rank |-> Critical],
   [check |-> "disabled_features", name |-> "track_counts", rank |-> Critical],
   [check |-> "disabled_features", name |-> "track_activities", rank |-> Warning],
   [check |-> "fsync", name |-> "fsync", rank |-> Critical],
   [check |-> "fsync", name |-> "full_page_writes", rank |-> Critical],
   [check |-> "fsync", name |-> "synchronous_commit", rank |-> Warning],
   [check |-> "stats", name |-> "track_io_timing", rank |-> Info]}

\* Of synchronous_commit only "off" loses what was committed.
Bad(rule, s) == IF rule.name = "synchronous_commit" THEN s.value = "off" ELSE Off(s)

EvalFlags(s) == {r \in FlagRules : r.name = s.name /\ Bad(r, s)}

\* settingBytes, in kB and rounded up; 0 for a unit it does not know.
UnitKB(unit) ==
  CASE unit = "kB" -> 1 [] unit = "8kB" -> 8 [] unit = "16kB" -> 16
    [] unit = "MB" -> 1024 [] unit = "GB" -> 1024 * 1024 [] OTHER -> 0

AtMostKB(s, limit) ==
  IF s.unit \in {"", "B"} THEN s.value <= limit * 1024
  ELSE UnitKB(s.unit) > 0 /\ s.value <= limit \div UnitKB(s.unit)

SizeRules(s) ==
  IF s.name = "shared_buffers" /\ AtMostKB(s, 128 * 1024)
  THEN {[check |-> "shared_buffers", name |-> s.name, rank |-> Warning]}
  ELSE IF s.name = "work_mem" /\ AtMostKB(s, 4 * 1024)
  THEN {[check |-> "work_mem", name |-> s.name, rank |-> Info]}
  ELSE IF s.name = "default_statistics_target" /\ s.value < 100
  THEN {[check |-> "stats", name |-> s.name, rank |-> Info]}
  ELSE {}

SettingChecks(s) == EvalFlags(s) \cup SizeRules(s)

\* ConfigAdvice: what is unsafe however it was set, and what nobody has tuned.
\* Factors and costs are in hundredths.
ConfigAdvice(s) ==
  CASE s.name \in {"fsync", "full_page_writes"} -> IF s.value = "off" THEN Critical ELSE None
    [] s.name = "synchronous_commit" -> IF s.value = "off" THEN Warning ELSE None
    [] s.name = "shared_buffers" -> IF s.source = "default" THEN Warning ELSE None
    [] s.name \in {"work_mem", "maintenance_work_mem", "autovacuum_vacuum_cost_limit"} ->
         IF s.source = "default" THEN Info ELSE None
    [] s.name = "autovacuum_vacuum_scale_factor" -> IF s.value >= 20 THEN Warning ELSE None
    [] s.name = "random_page_cost" -> IF s.value >= 400 THEN Info ELSE None
    [] OTHER -> None

-----------------------------------------------------------------------------
(* Run: every check over one observation of a kind.                        *)

Found(rule, rank) == [rule |-> rule, rank |-> rank]

Judged(kind, o) ==
  CASE kind = "connection" ->
         {Found("long_running_active", LongRunningActive(o)),
          Found("idle_in_transaction", IdleInTransaction(o))}
    [] kind = "edge" -> {Found("blocking", Blocking(o))}
    [] kind = "index" ->
         {Found("invalid_index", InvalidIndex(o)), Found("unused_index", UnusedIndex(o))}
    [] kind = "table" ->
         {Found("insufficient_frequency", VacuumFrequency(o)), Found("bloat", Bloat(o)),
          Found("performance", StaleStatistics(o)), Found("activity", AutovacuumLag(o))}
    [] kind = "freeze" ->
         {Found("wraparound", Wraparound(o)), Found("freezing", FreezeAdvice(o))}
    [] kind = "horizon" -> {Found("xmin_horizon", XminHorizon(o))}
    [] kind = "recommendation" -> {Found("missing_index", MissingIndex(o))}
    [] kind = "setting" ->
         {Found(r.check, r.rank) : r \in SettingChecks(o)} \cup {Found("config", ConfigAdvice(o))}

\* The findings of an observation: results and advice alike.
Eval(kind, o) == {x \in Judged(kind, o) : x.rank # None}
=============================================================================
