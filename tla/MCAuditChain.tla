---------------------------- MODULE MCAuditChain ----------------------------
(* AuditChain with two appenders, two entries, two timestamps, three ids;   *)
(* and, in behaviours of their own, the audit page (AuditPage) over a table *)
(* of up to three rows that arrive with gaps.                               *)
EXTENDS AuditChain, TLC

CONSTANTS c1, c2, e1, e2

MCClients == {c1, c2}
MCEntries == {e1, e2}
MCTimes   == 1..2

CONSTANTS Filters, MaxShown, MaxRows

VARIABLES table, written, harmed, page

\* All rows; those of one actor and one day; those of a day without any.
MCFilters ==
  {[entries |-> MCEntries, since |-> 0, until |-> 0], [entries |-> {e1}, since |-> 1, until |-> 1],
   [entries |-> MCEntries, since |-> 2, until |-> 0]}

reader == <<table, written, harmed, page>>

\* The page's rows are all of one day.
Page == INSTANCE AuditPage WITH Times <- {1}

\* A behaviour is about the appenders, or about the page.
VARIABLE about

MCInit ==
  /\ Page!Init
  /\ \/ about = "chain" /\ Init
     \/ /\ about = "page" /\ Init
        /\ \A c \in Clients : entry[c] = e1 /\ at[c] = 1

MCNext ==
  \/ about = "chain" /\ Next /\ UNCHANGED <<about, reader>>
  \/ about = "page" /\ Page!Next /\ UNCHANGED <<about, vars>>

MCFairness ==
  \A c \in Clients : WF_vars(about = "chain" /\ Statement(c)) /\ SF_vars(about = "chain" /\ Lock(c))

MCSpec == MCInit /\ [][MCNext]_<<vars, about, reader>> /\ MCFairness

\* Tampering is shown: by the verifier, of every table that appenders leave
\* (AuditChain), and by the page that calls it (AuditPage, of handleAuditPage).
HarmSeen == TamperShown /\ Page!PageCovered

\* The banner's count is the number of events (AuditPage).
CountExact == Page!CountExact
=============================================================================
