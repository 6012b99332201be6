----------------------------- MODULE MCT2Access -----------------------------
(* What the pages show of statements and plans.  T2Access with one stream  *)
(* in each of two clusters, and two tabs; and, in behaviours of their own, *)
(* the pages without literals (AdvicePages) over the plans of two servers. *)
EXTENDS T2Access, FiniteSets, TLC

CONSTANTS Plans, Members, MonthWindow, DayWindow, MaxKeys, Depths, MaxNow, MaxCopies, MaxRows

VARIABLES today, copies, view, opened

advice == <<today, copies, view, opened>>

Advice == INSTANCE AdvicePages

\* Servers have numbers from 1 on; a window is in days; of a key at least one plan
\* is read.
ASSUME AdviceAssumption ==
  /\ IsFiniteSet(Plans) /\ MonthWindow \in Nat /\ DayWindow \in Nat
  /\ \A p \in Plans : p.at \in Int /\ p.server \in Nat \ {0}
  /\ \A i \in 1..3 : Depths[i] \in Nat \ {0}

CONSTANTS c1, c2, s1, s2, u1, u2, a1

MCClusters  == {c1, c2}
MCStreams   == {s1, s2}
MCClusterOf == s1 :> c1 @@ s2 :> c2
MCScripts   == {"script"}
MCTabs      == {u1, u2}

Ask(kind, c, s, sql) ==
  [kind |-> kind, actor |-> a1, cluster |-> c, stream |-> s, script |-> "script", sql |-> sql]

MCAsks ==
  u1 :> {Ask("run", c1, s1, "typed"), Ask("run", c1, s1, "blank"), Ask("run", c1, s2, "typed"),
         Ask("handoff", c1, s1, "blank"), Ask("view", c1, s1, "blank"),
         Ask("export", c1, s1, "blank"), Ask("read", c1, s1, "blank")}
  @@ u2 :> {Ask("run", c1, s1, "typed"), Ask("run", c2, s2, "typed")}

\* The gates of the second cluster stay open.
MCMoving == GatesOf(Ask("handoff", c1, s1, "blank")) \cup GatesOf(Ask("read", c1, s1, "blank"))

-----------------------------------------------------------------------------
Plan(server, fp, at, tier) == [server |-> server, fp |-> fp, at |-> at, tier |-> tier]

MCPlans == {Plan(1, 1, 0, 0), Plan(1, 1, 2, 1), Plan(1, 1, 3, 1), Plan(1, 2, 1, 1), Plan(1, 2, 2, 2),
            Plan(2, 1, 2, 0)}
MCMembers == <<2, 1>>
MCDepths == <<2, 2, 1>>

\* A behaviour is about the tabs, or about the pages of advice.
VARIABLE about

MCInit == Init /\ Advice!Init /\ about \in {"tabs", "advice"}

MCNext ==
  \/ about = "tabs" /\ Next /\ UNCHANGED <<about, advice>>
  \/ about = "advice" /\ Advice!Next /\ UNCHANGED <<about, vars>>

MCSpec == MCInit /\ [][MCNext]_<<vars, about, advice>>

\* Pages of advice show the newest plans there were, and no other server's
\* (AdvicePages, of TopPlansByQuery and the handlers that read it).
PagesCurrent == Advice!PagesCurrent
=============================================================================
