------------------------------ MODULE MCIngest ------------------------------
(* What is sent, and the store that it is written to; each in behaviours   *)
(* of its own, while the other rests.                                      *)
(*                                                                         *)
(* Ingest with three snapshots: two of one server, whose burst is one, and *)
(* one of another server.  StatsStore with one server: a query, two tables,*)
(* two connections.                                                        *)
EXTENDS Ingest, TLC

CONSTANTS s1, s2, m1, m2, m3

CONSTANTS Domains, Observations, TTL, RawTTL, MaxTime, MaxSnapshots, MaxCalls, InFlight

VARIABLES now, calls, snaps, todo, written, rows, objects

store == <<now, calls, snaps, todo, written, rows, objects>>

Store == INSTANCE StatsStore

ASSUME DomainsAssumption == Domains \subseteq DOMAIN Store!WriteOrder
\* A snapshot has finitely many rows.
ASSUME RowsAssumption ==
  \A k \in Store!Kinds : \A c \in Observations[k], d \in Domains : IsFiniteSet(c[d])
ASSUME TTLAssumption == TTL \in Nat /\ RawTTL \in Nat /\ RawTTL <= TTL

\* A table that checks read is filled by the full cycles or by the looks at
\* connections, which the collector makes at an interval of their own.
ASSUME KindsAssumption ==
  \A d \in Domains \cap (Store!PerKey \cup Store!Batched), k, l \in Store!Kinds :
    \A b \in Observations[k], c \in Observations[l] : b[d] # {} /\ c[d] # {} => k = l

-----------------------------------------------------------------------------
MCServers   == {s1, s2}
MCSnapshots == {m1, m2, m3}
MCServerOf  == m1 :> s1 @@ m2 :> s1 @@ m3 :> s2
MCContent   == m1 :> <<"query_stats_raw", "settings">>
            @@ m2 :> <<"query_plans">>
            @@ m3 :> << >>

\* What is at rest has nothing.
NoServers      == << >>
NoObservations == [full |-> {}, connections |-> {}]

MCDomains == {"query_stats", "query_stats_t2", "schema_objects", "table_stats", "connection_samples"}

Holding(qs, raw, objs, tables, samples) ==
  [d \in MCDomains |->
     CASE d = "query_stats" -> qs [] d = "query_stats_t2" -> raw
       [] d = "schema_objects" -> objs [] d = "table_stats" -> tables
       [] d = "connection_samples" -> samples]

\* A full cycle in tier 1, and one in tier 2 when a table is gone; a look at the
\* connections that finds two or one.
MCObservations ==
  [full |-> {Holding({"q"}, {}, {"t"}, {"t", "u"}, {}),
             Holding({}, {"q"}, {"t"}, {"t"}, {})},
   connections |-> {Holding({}, {}, {}, {}, {"p", "o"}),
                    Holding({}, {}, {}, {}, {"p"})}]

-----------------------------------------------------------------------------
MCInit == Init /\ Store!Init

IngestNext == Next /\ UNCHANGED store
IngestSpec == MCInit /\ [][IngestNext]_<<vars, store>> /\ Fairness

StoreNext == Store!Next /\ UNCHANGED vars
StoreSpec == MCInit /\ [][StoreNext]_<<vars, store>>

\* Whatever the order in which tables were filled, the checks of a server see
\* what was written (StatsStore, of persistSnapshot and chstats*.go).
SightFresh == Store!SightFresh

\* A query statistic counts once in the totals (StatsStore, of the materialized
\* view and TopQueries).
DeltasOnce == Store!DeltasOnce

\* The day of the first sighting stays (StatsStore, of 0012_schema_objects.sql).
FirstSeenKept == [][Store!DayKept]_store

\* The volume of a window is not more than was executed (StatsStore, of
\* ThroughputForServers).
ThroughputIsVolume == Store!ThroughputIsVolume
=============================================================================
