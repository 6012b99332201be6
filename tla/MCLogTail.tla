----------------------------- MODULE MCLogTail ------------------------------
(* What a collector does beside a monitored server.  LogTail with two       *)
(* records: one of three lines, which is read as a whole or in parts, and   *)
(* one of a single line; and, in behaviours of their own, the readers of    *)
(* the catalog (Readers) over a table with two parents, an index and a      *)
(* TOAST table, in an allowed, an ignored and an ignored schema with a dot  *)
(* in its name, and the collector's loop (CollectorLoop) with three keys,   *)
(* two of them of one wait in two databases, and two readers that share one *)
(* slot.                                                                    *)
EXTENDS LogTail

CONSTANTS Relations, Shapes, Schemas, HeadOf, SystemSchemas, Included, Ignored, MaxChanges

CONSTANTS Keys, WaitOf, Loads, Width, Readers, QueryStats, Budget, MaxTime, MaxFlushes, MaxBoots

VARIABLES schema, reader, gate, next, out, result, before, ever, changes

catalog == <<schema, reader, gate, next, out, result, before, ever, changes>>

Catalog == INSTANCE Readers

VARIABLES clock, phase, due, stage, arm, fetching, sem, buckets, body, snaps, boots,
          fate, stored, observed

loop == <<clock, phase, due, stage, arm, fetching, sem, buckets, body, snaps, boots,
          fate, stored, observed>>

Loop == INSTANCE CollectorLoop WITH pc <- stage, reader <- fetching

ASSUME WidthAssumption == Width \in Nat \ {0}
ASSUME QueryAssumption == IsFiniteSet(Readers) /\ QueryStats \in Readers
ASSUME LoadsAssumption == IsFiniteSet(Keys) /\ Loads \subseteq [Keys -> Nat]
ASSUME BoundsAssumption == {MaxTime, MaxFlushes} \subseteq Nat /\ MaxBoots \in Nat \ {0} /\ Budget \in Int

\* Indexes are on tables, and these on nothing; tables have parents, which are
\* relations; no relation is called none.
ASSUME CatalogAssumption ==
  /\ Catalog!None \notin Relations
  /\ \A r \in Relations :
       /\ Shapes[r].kind = "i" => Shapes[r].of # Catalog!None
       /\ Shapes[r].of # Catalog!None =>
            Shapes[r].of \in Relations /\ Shapes[Shapes[r].of].of = Catalog!None
       /\ Shapes[r].parents \subseteq Relations
       /\ Shapes[r].parents # {} => Shapes[r].kind \in {"r", "p", "f"}

Shape(kind, of, parents) == [kind |-> kind, of |-> of, parents |-> parents]

MCShapes == [r \in {"whole", "other", "part", "index", "toast"} |->
  CASE r \in {"whole", "other"} -> Shape("r", "none", {})
    [] r = "part" -> Shape("r", "none", {"whole", "other"})
    [] r = "index" -> Shape("i", "part", {}) [] r = "toast" -> Shape("t", "none", {})]

MCHeadOf == [s \in {"app", "private", "app.old"} |-> IF s = "app.old" THEN "app" ELSE s]

MCKeys   == {"k1", "k2", "k3"}
MCLoads  == {[k \in MCKeys |-> IF k = "k1" THEN 4 ELSE 0], [k \in MCKeys |-> 1]}
MCWaitOf == [k \in MCKeys |-> IF k = "k3" THEN "cpu" ELSE "io"]

-----------------------------------------------------------------------------
\* A behaviour is about the log, or about the catalog, or about the loop.
VARIABLE about

NoCatalog ==
  /\ schema = [r \in Relations |-> Catalog!Absent]
  /\ reader = "inventory" /\ ~gate

MCInit ==
  /\ Init /\ Catalog!Init /\ Loop!Init
  /\ \/ about = "log" /\ NoCatalog
     \/ about = "catalog" /\ format = "csv"

MCNext ==
  \/ about = "log" /\ Next /\ UNCHANGED <<about, catalog, loop>>
  \/ about = "catalog" /\ Catalog!Next /\ UNCHANGED <<about, vars, loop>>

MCSpec ==
  /\ MCInit /\ [][MCNext]_<<vars, about, catalog, loop>>
  /\ WF_vars(about = "log" /\ Collect)

LoopInit == Init /\ format = "csv" /\ Catalog!Init /\ NoCatalog /\ about = "loop" /\ Loop!Init
LoopNext == Loop!Next /\ UNCHANGED <<vars, about, catalog>>
LoopSpec == LoopInit /\ [][LoopNext]_<<vars, about, catalog, loop>> /\ Loop!Fairness

\* A reader returns what was there, not twice, and of allowed schemas only (Readers,
\* of InventoryReader.Read and the other catalog readers).
ReadExact == Catalog!ReadExact

\* No sample is counted twice, and none lost without a failure (CollectorLoop, of
\* the aggregator, its flushes and the reads of chstats_activity.go).
CountedOnce == Loop!CountedOnce

\* The peak that is shown is never too low (CollectorLoop, of
\* ActivitySummaryForServers).
PeakNotMissed == Loop!PeakNotMissed

\* A full cycle ends (CollectorLoop, of runFull and RunBounded).
CycleEnds == Loop!CycleEnds

\* What a comment says of the peak, and the page of its averages (CollectorLoop).
PeakShown == Loop!PeakShown
PerBucket == Loop!PerBucket
=============================================================================
