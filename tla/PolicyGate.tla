----------------------------- MODULE PolicyGate -----------------------------
(***************************************************************************)
(* How capability policy reaches a collector and gates what it ships:      *)
(* handlePolicySnapshot of the API (internal/api/capabilities.go) with the *)
(* three queries it makes, FetchPolicySnapshot                             *)
(* (internal/collector/policy_refresh.go), the Gate (internal/caps/gate.go)*)
(* and the query-statistics Reader (internal/collector/reader.go) in the   *)
(* full-snapshot branch of the collector's loop (cmd/collector/main.go).   *)
(*                                                                         *)
(* Policy is what a read replica of the config database shows: the API     *)
(* reads through it, and a change shows there some time after it commits.  *)
(* Each of the API's queries is a statement of its own and may run on      *)
(* another moment of the replica.  There is one monitored server and one   *)
(* collector, connected to one database; the collector's goroutine does    *)
(* one thing at a time.                                                    *)
(***************************************************************************)
EXTENDS Integers, FiniteSets

\* A capability_policy row: not there, or its "enabled" column.
Setting == {"absent", "on", "off"}

\* The facts a snapshot depends on.
Policy == [t2      : BOOLEAN,   \* servers.t2_enabled
           rawText : Setting,   \* query_text_t2, server-wide row
           default : Setting,   \* pg_stat_statements, server-wide row
           db      : Setting]   \* pg_stat_statements, row of the database

\* GateKey values for the collector's database: not in the map, or a value.
Gate == [stats : Setting, raw : Setting]

EmptyGate == [stats |-> "absent", raw |-> "absent"]

VARIABLES
  policy,   \* what the read replica shows now
  api,      \* the API's handler for the collector's request
  pc,       \* where the collector's goroutine is
  gate,     \* the collector's gate
  read,     \* what Reader.Read returned in this cycle: nothing, t1 or raw rows
  seen,     \* history: Facts shown since the pending request was sent
  basis     \* history: those of the request the gate was made from

vars == <<policy, api, pc, gate, read, seen, basis>>

\* The database's row of pg_stat_statements wins over the server's.
Effective(rows) == IF rows.db # "absent" THEN rows.db ELSE rows.default

\* What a policy p says, for the histories.
Facts(p) ==
  LET both == p.t2 /\ p.rawText = "on"
      on   == Effective(p) # "off"
  IN  {f \in {"t2", "rawText", "notBoth", "stats", "noStats"} :
         \/ f = "t2" /\ p.t2
         \/ f = "rawText" /\ p.rawText = "on"
         \/ f = "notBoth" /\ ~both
         \/ f = "stats" /\ on
         \/ f = "noStats" /\ ~on}

\* The reply the handler builds: the entries of pg_stat_statements, and the
\* one entry of query_text_t2 with what it is made from.
NoRequest == [at |-> "none", stats |-> "absent", raw |-> FALSE]

Goto(l) == pc' = l

-----------------------------------------------------------------------------
(* Variants of the definitions below, each with a mistake the code could   *)
(* have made; substituted for the original, a property must fail.          *)

\* Fail-open for every capability.
AllowedStrictOpen(value) == value # "off"

\* Raw text is dropped from the reply altogether.
RawEnabledNever(t2, row) == FALSE

\* One pass over the entries, and the server-wide row came last.
ResolveOnePass(rows) == IF rows.default # "absent" THEN rows.default ELSE rows.db

\* The JSON value goes into the map as it is spelt.
SnapshotText(r) == [stats |-> r.stats, raw |-> IF r.raw THEN "true" ELSE "false"]

\* A raw gate that is open stays open until the process ends.
GateSticky(r) ==
  [stats |-> r.stats, raw |-> IF r.raw \/ gate.raw = "on" THEN "on" ELSE "off"]

-----------------------------------------------------------------------------
Init ==
  /\ policy \in Policy
  /\ api = NoRequest
  /\ pc = "refresh"
  /\ gate = EmptyGate
  /\ read = "none"
  /\ seen = {}
  /\ basis = {}

\* Someone changes one fact, through the API, a reconcile or the database.
ChangePolicy ==
  /\ \/ policy' = [policy EXCEPT !.t2 = ~@]
     \/ \E v \in Setting :
          \/ policy' = [policy EXCEPT !.rawText = v]
          \/ policy' = [policy EXCEPT !.default = v]
          \/ policy' = [policy EXCEPT !.db = v]
  /\ policy' # policy
  /\ seen' = IF pc = "fetching" THEN seen \cup Facts(policy') ELSE seen
  /\ UNCHANGED <<api, pc, gate, read, basis>>

\* FetchPolicySnapshot sends its request.
Fetch ==
  /\ pc = "refresh"
  /\ Goto("fetching")
  /\ api' = [NoRequest EXCEPT !.at = "list"]
  /\ seen' = Facts(policy)
  /\ UNCHANGED <<policy, gate, read, basis>>

\* No connection, a query of the handler that fails (500), a reply that does
\* not decode: the gate stays as it is.
FetchFails ==
  /\ pc \in {"refresh", "fetching"}
  /\ Goto("full")
  /\ api' = NoRequest
  /\ seen' = {}
  /\ UNCHANGED <<policy, gate, read, basis>>

\* The two passes of FetchPolicySnapshot over the entries it received.
Resolve(rows) == IF rows.db # "absent" THEN rows.db ELSE rows.default

\* ListCapabilityPolicies; the row of query_text_t2 is passed over.  What the
\* collector makes of the other entries depends on them alone.
ListCapabilityPolicies ==
  /\ pc = "fetching" /\ api.at = "list"
  /\ api' = [api EXCEPT !.at = "t2", !.stats = Resolve(policy)]
  /\ UNCHANGED <<policy, pc, gate, read, seen, basis>>

ServerT2Enabled ==
  /\ pc = "fetching" /\ api.at = "t2"
  /\ api' = [api EXCEPT !.at = "capability", !.raw = policy.t2]
  /\ UNCHANGED <<policy, pc, gate, read, seen, basis>>

\* The entry handlePolicySnapshot adds for query_text_t2.
RawEnabled(t2, row) == t2 /\ row = "on"

\* EffectiveCapability(serverID, "", query_text_t2): false if there is no row.
EffectiveCapability ==
  /\ pc = "fetching" /\ api.at = "capability"
  /\ api' = [api EXCEPT !.at = "reply", !.raw = RawEnabled(@, policy.rawText)]
  /\ UNCHANGED <<policy, pc, gate, read, seen, basis>>

\* The map FetchPolicySnapshot makes of the reply.
Snapshot(r) == [stats |-> r.stats, raw |-> IF r.raw THEN "on" ELSE "off"]

\* The reply arrives: gate.Replace.
Refresh ==
  /\ pc = "fetching" /\ api.at = "reply"
  /\ gate' = Snapshot(api)
  /\ basis' = seen
  /\ api' = NoRequest
  /\ seen' = {}
  /\ Goto("full")
  /\ UNCHANGED <<policy, read>>

Allowed(value) == value # "off"

AllowedStrict(value) == value = "on"

\* Reader.Read of the full snapshot that follows the refresh.
Read ==
  /\ pc = "full"
  /\ read' = IF ~Allowed(gate.stats) THEN "nothing"
             ELSE IF AllowedStrict(gate.raw) THEN "raw" ELSE "t1"
  /\ Goto("idle")
  /\ UNCHANGED <<policy, api, gate, seen, basis>>

\* fullTicker.C
Tick ==
  /\ pc = "idle"
  /\ Goto("refresh")
  /\ read' = "none"
  /\ UNCHANGED <<policy, api, gate, seen, basis>>

\* The collector restarts with an empty gate.
Restart ==
  /\ Goto("refresh")
  /\ gate' = EmptyGate
  /\ api' = NoRequest
  /\ read' = "none"
  /\ seen' = {}
  /\ basis' = {}
  /\ UNCHANGED policy

\* The collector's goroutine and the API's handler.
Collect ==
  \/ Fetch \/ FetchFails \/ ListCapabilityPolicies \/ ServerT2Enabled
  \/ EffectiveCapability \/ Refresh \/ Read \/ Tick

Next == ChangePolicy \/ Collect \/ Restart

Spec == Init /\ [][Next]_vars

\* The loop goes on: a request is answered or fails.
Fairness == WF_vars(Collect)

FairSpec == Spec /\ Fairness

-----------------------------------------------------------------------------
(* Properties.                                                             *)

\* Type invariant of the policy path.
TypeOK ==
  /\ policy \in Policy
  /\ api \in [at : {"none", "list", "t2", "capability", "reply"},
              stats : Setting, raw : BOOLEAN]
  /\ pc \in {"refresh", "fetching", "full", "idle"}
  /\ gate \in Gate
  /\ read \in {"none", "nothing", "t1", "raw"}
  /\ seen \cup basis \subseteq {"t2", "rawText", "notBoth", "stats", "noStats"}

\* Nobody loses raw text they enabled: while both switches stay on for the
\* whole of the last answered request, raw text is what a reading returns.
RawIfBothStay ==
  pc = "idle" /\ read = "t1" => basis = {} \/ "notBoth" \in basis

\* Part of GateFollowsPolicy: raw text is read only under a gate made from an answer, and while that
\* answer was being made the kill switch was on at some moment, and so was
\* the policy: neither alone lets raw text out, however the three queries
\* interleave with changes, and a collector without an answer reads none.
\* Nor does anyone lose the raw text they enabled.
RawNeedsBoth ==
  /\ pc = "idle" /\ read = "raw" => {"t2", "rawText"} \subseteq basis
  /\ RawIfBothStay

\* The other part: collection stops only because the policy in effect for the
\* database disabled it, and goes on only because it did not (or because no
\* answer has come yet): a failed refresh changes neither.
StatsFollowPolicy ==
  pc = "idle" =>
    /\ read = "nothing" => "noStats" \in basis
    /\ read \in {"t1", "raw"} => basis = {} \/ "stats" \in basis

\* What a full snapshot holds follows policy as it was while the answer its gate
\* was made of was put together by three queries: raw text needs the kill switch
\* and the policy, and statistics stop and go on as their policy says.
GateFollowsPolicy == RawNeedsBoth /\ StatsFollowPolicy

\* The kill switch works: once it stays off and refreshes succeed, raw text
\* stops for good, however often the collector restarts meanwhile.
KillSwitchStops ==
  <>[]~policy.t2 /\ <>[][~FetchFails]_vars => <>[](read # "raw")

=============================================================================
