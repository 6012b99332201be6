-------------------------- MODULE PolicyGateProofs --------------------------
(***************************************************************************)
(* Proofs about PolicyGate.  That raw text is read only under both         *)
(* switches is a matter of three queries at three moments and of a gate    *)
(* that may be many refreshes old; the invariant follows the evidence from *)
(* the answer that is being put together (AnswerGrounded) to the gate that *)
(* was made of it (GateGrounded) and to what the last reading did.         *)
(*                                                                         *)
(* And about Capabilities, by the same plan: of every answer of a pass     *)
(* there was a moment that it was true of (PassInv: which answers there    *)
(* are at each place of the pass, and of what), and of every cell or       *)
(* server of a page that is being made, a moment when the tables showed it *)
(* (SheetInv).                                                             *)
(*                                                                         *)
(* And about Browse: a scope comes back from the link that it was made     *)
(* into (RoundTrip), a page is good for what it was rendered from          *)
(* (PageGood), and so its links answer however old it is.                  *)
(***************************************************************************)
EXTENDS MCPolicyGate, SequenceTheorems, TLAPS

\* While a request is pending its history holds what the replica shows now.
Witnessed ==
  IF pc = "fetching" THEN api.at # "none" /\ Facts(policy) \subseteq seen
  ELSE api = NoRequest /\ seen = {}

\* Every part of the pending answer was so at some moment of the request.
AnswerGrounded ==
  /\ api.at \in {"t2", "capability", "reply"} =>
       (IF api.stats = "off" THEN "noStats" ELSE "stats") \in seen
  /\ api.at = "capability" /\ api.raw => "t2" \in seen
  /\ api.at = "reply" /\ api.raw => {"t2", "rawText"} \subseteq seen
  /\ api.at \in {"capability", "reply"} /\ ~api.raw => "notBoth" \in seen

\* So was the gate, unless it is the empty one, which lets statistics through.
GateGrounded ==
  /\ gate.raw = "on" => {"t2", "rawText"} \subseteq basis
  /\ gate.raw # "on" => basis = {} \/ "notBoth" \in basis
  /\ gate.stats = "off" => "noStats" \in basis
  /\ gate.stats # "off" => basis = {} \/ "stats" \in basis

ReadUnder(g) ==
  IF ~Allowed(g.stats) THEN "nothing" ELSE IF AllowedStrict(g.raw) THEN "raw" ELSE "t1"

\* The gate has not changed since the reading.
ReadCurrent == pc = "idle" => read = ReadUnder(gate)

IInv == TypeOK /\ Witnessed /\ AnswerGrounded /\ GateGrounded /\ ReadCurrent

-----------------------------------------------------------------------------
(* Facts about policies.                                                   *)

LEMMA FactsOfPolicy ==
  ASSUME NEW p \in Policy
  PROVE  /\ Facts(p) \subseteq {"t2", "rawText", "notBoth", "stats", "noStats"}
         /\ "t2" \in Facts(p) <=> p.t2
         /\ "rawText" \in Facts(p) <=> p.rawText = "on"
         /\ "notBoth" \in Facts(p) <=> ~(p.t2 /\ p.rawText = "on")
         /\ "stats" \in Facts(p) <=> Effective(p) # "off"
         /\ "noStats" \in Facts(p) <=> Effective(p) = "off"
BY DEF Facts

\* The collector resolves the two levels as the policy means them.
LEMMA ResolveEffective ==
  ASSUME NEW p \in Policy
  PROVE  Resolve(p) = Effective(p) /\ Resolve(p) \in Setting
BY DEF Resolve, Effective, Policy

-----------------------------------------------------------------------------
LEMMA InitIInv == Init => IInv
<1> SUFFICES ASSUME Init PROVE IInv
  OBVIOUS
<1>1. TypeOK
  BY DEF Init, TypeOK, NoRequest, EmptyGate, Gate, Setting
<1>2. Witnessed /\ AnswerGrounded /\ GateGrounded /\ ReadCurrent
  BY DEF Init, Witnessed, AnswerGrounded, GateGrounded, ReadCurrent, NoRequest, EmptyGate
<1> QED BY <1>1, <1>2 DEF IInv

LEMMA StepTypeOK ==
  ASSUME TypeOK, [Next]_vars
  PROVE  TypeOK'
<1> USE DEF TypeOK, NoRequest, EmptyGate, Goto
<1>1. CASE UNCHANGED vars
  BY <1>1 DEF vars
<1>2. CASE ChangePolicy
  <2>1. policy' \in Policy
    BY <1>2 DEF ChangePolicy, Policy, Setting
  <2> QED BY <1>2, <2>1, FactsOfPolicy DEF ChangePolicy
<1>3. CASE Fetch
  BY <1>3, FactsOfPolicy DEF Fetch, Setting
<1>4. CASE FetchFails
  BY <1>4 DEF FetchFails, Setting
<1>5. CASE ListCapabilityPolicies
  BY <1>5, ResolveEffective DEF ListCapabilityPolicies
<1>6. CASE ServerT2Enabled
  BY <1>6 DEF ServerT2Enabled, Policy
<1>7. CASE EffectiveCapability
  BY <1>7 DEF EffectiveCapability, RawEnabled
<1>8. CASE Refresh
  BY <1>8 DEF Refresh, Snapshot, Gate, Setting
<1>9. CASE Read
  BY <1>9 DEF Read
<1>10. CASE Tick
  BY <1>10 DEF Tick
<1>11. CASE Restart
  BY <1>11 DEF Restart, Gate, Setting
<1> QED
  BY <1>1, <1>2, <1>3, <1>4, <1>5, <1>6, <1>7, <1>8, <1>9, <1>10, <1>11 DEF Next, Collect

\* Whatever the policy does, what an answer says was so while it was made.
LEMMA StepGrounded ==
  ASSUME IInv, [Next]_vars
  PROVE  (Witnessed /\ AnswerGrounded /\ GateGrounded /\ ReadCurrent)'
<1> USE DEF IInv, TypeOK, Witnessed, AnswerGrounded, GateGrounded, ReadCurrent, NoRequest,
            EmptyGate, Goto
<1>1. CASE UNCHANGED vars
  BY <1>1 DEF vars, ReadUnder
<1>2. CASE ChangePolicy
  BY <1>2 DEF ChangePolicy, ReadUnder
<1>3. CASE Fetch
  BY <1>3 DEF Fetch
<1>4. CASE FetchFails
  BY <1>4 DEF FetchFails
<1>5. CASE ListCapabilityPolicies
  BY <1>5, FactsOfPolicy, ResolveEffective DEF ListCapabilityPolicies
<1>6. CASE ServerT2Enabled
  BY <1>6, FactsOfPolicy DEF ServerT2Enabled
<1>7. CASE EffectiveCapability
  BY <1>7, FactsOfPolicy DEF EffectiveCapability, RawEnabled
<1>8. CASE Refresh
  BY <1>8 DEF Refresh, Snapshot
<1>9. CASE Read
  BY <1>9 DEF Read, ReadUnder
<1>10. CASE Tick
  BY <1>10 DEF Tick
<1>11. CASE Restart
  BY <1>11 DEF Restart
<1> QED
  BY <1>1, <1>2, <1>3, <1>4, <1>5, <1>6, <1>7, <1>8, <1>9, <1>10, <1>11 DEF Next, Collect

-----------------------------------------------------------------------------
\* Every reachable state satisfies the inductive invariant.
THEOREM Inductive == Spec => []IInv
<1>1. IInv /\ [Next]_vars => IInv'
  BY StepTypeOK, StepGrounded DEF IInv
<1> QED BY InitIInv, <1>1, PTL DEF Spec

\* Type correctness of the policy path.
THEOREM TypeCorrect == Spec => []TypeOK
BY Inductive, PTL DEF IInv

\* Raw text is read only if both switches were on while the answer was made, and
\* statistics stop and go on as their policy said, however the three queries
\* interleave with changes, failed refreshes and restarts.
THEOREM Follows == Spec => []GateFollowsPolicy
<1>1. IInv => GateFollowsPolicy
  BY DEF IInv, GateGrounded, ReadCurrent, ReadUnder, Allowed, AllowedStrict,
         GateFollowsPolicy, RawNeedsBoth, RawIfBothStay, StatsFollowPolicy
<1> QED BY Inductive, <1>1, PTL
-----------------------------------------------------------------------------
(* Discovery: what the answers of a pass were true of, and what a matrix   *)
(* or a page that is being made was.                                       *)

PassShape == pass = [n |-> pass.n, at |-> pass.at, said |-> pass.said, set |-> pass.set]

Asking == {"extensions", "version_12", "pg_monitor", "pg_read_all_stats", "rolsuper",
           "read_all_stats_again", "rolsuper_again", "log_files", "collector", "preload", "threshold"}
Places == Asking \cup {"end"}

\* Which questions have an answer when a place is reached.
Answered ==
  LET s == DOMAIN pass.said
      past(places) == pass.at \in Places \ places
      start == {"extensions", "version_12", "pg_monitor", "pg_read_all_stats", "rolsuper"}
      both == {"read_all_stats_again", "rolsuper_again"}
      logs == {"log_files", "collector"}
  IN /\ past({"extensions"}) => "extensions" \in s
     /\ past({"extensions", "version_12"}) => "version_12" \in s
     /\ past({"extensions", "version_12", "pg_monitor"}) => "pg_monitor" \in s
     /\ past(start) => "rolsuper" \in s
     /\ past(start \cup {"read_all_stats_again"}) => "read_all_stats_again" \in s
     /\ past(start \cup both) =>
          "rolsuper_again" \in s \/ pass.said["read_all_stats_again"] = {"error"}
     /\ past(start \cup both \cup {"log_files"}) => "log_files" \in s
     /\ past(start \cup both \cup logs) => "collector" \in s \/ pass.said["log_files"] = {"error"}
     /\ past(start \cup both \cup logs \cup {"preload"}) => "preload" \in s
     /\ pass.at = "end" => "threshold" \in s \/ "preload" \notin pass.said["preload"]

\* An answer was true of one moment, or is an error.
TrueOnce(q, a) ==
  IF q = "extensions"
    THEN \/ a = {"error"} /\ failures # 0
         \/ \E m \in moments : a \subseteq m \cap Extensions /\ (failures = 0 => a = m \cap Extensions)
    ELSE \/ a = {"error"} /\ (failures = 0 => q = "threshold")
         \/ \E m \in moments : a = m \cap {Discovery!Fact(q)} /\ (q = "threshold" => "preload" \in m)

PassTrue ==
  pass.at \in Places =>
    /\ facts \in moments
    /\ Answered
    /\ \A q \in DOMAIN pass.said : \A a : a = pass.said[q] => TrueOnce(q, a)

PassInv ==
  /\ PassShape /\ failures \in Nat
  /\ pass.at \in Places \cup {"none", "write"}
  /\ PassTrue

Stored(w, s, c) == c \in Discovery!Available(w.rows[s])

Here == Discovery!World(rows, found)

SheetShape ==
  /\ sheet = [kind |-> sheet.kind, server |-> sheet.server, todo |-> sheet.todo, rows |-> sheet.rows,
              final |-> sheet.final, skipped |-> sheet.skipped]
  /\ sheet.kind \in {"none", "matrix", "page"}
  /\ sheet.kind # "none" => Here \in meantime

Left == {sheet.todo[i] : i \in DOMAIN sheet.todo}

\* Of the matrix: the rows were stored once, and a cell that is filled agrees with
\* them and with one policy.
MatrixTrue ==
  sheet.kind = "matrix" =>
    /\ sheet.todo \in Seq(STRING)
    /\ \E w \in meantime : w.rows[sheet.server] = sheet.rows
    /\ \A c \in sheet.final :
         /\ c \in Discovery!Available(sheet.rows)
         /\ c \in Watched => \E w \in meantime : Discovery!Effective(w.policy[c])
    /\ \A c \in {Declared[i] : i \in DOMAIN Declared} \ (sheet.final \cup Left) :
         \/ c \notin Discovery!Available(sheet.rows)
         \/ c \in Watched /\ \E w \in meantime : ~Discovery!Effective(w.policy[c])

\* Of the page: the servers that were read, each at a moment of its own.
Done == {Listed[i] : i \in DOMAIN Listed} \ (sheet.skipped \cup Left)

PageTrue ==
  sheet.kind = "page" =>
    /\ sheet.todo \in Seq(STRING) /\ Left \subseteq {Listed[i] : i \in DOMAIN Listed}
    /\ \A i, j \in DOMAIN sheet.todo : sheet.todo[i] = sheet.todo[j] => i = j
    /\ sheet.skipped \cap Left = {}
    /\ \A c \in sheet.final : \E s \in Done : \E w \in meantime : Stored(w, s, c)
    /\ \A s \in Done : \A c \in {Declared[i] : i \in DOMAIN Declared} \ sheet.final :
         \E w \in meantime : ~Stored(w, s, c)

SheetInv == SheetShape /\ MatrixTrue /\ PageTrue

-----------------------------------------------------------------------------
LEMMA QueryOrder ==
  /\ Discovery!Queries[1] = "extensions"
  /\ \A a : /\ Discovery!After("extensions", a) = "version_12"
            /\ Discovery!After("version_12", a) = "pg_monitor"
            /\ Discovery!After("pg_monitor", a) = "pg_read_all_stats"
            /\ Discovery!After("pg_read_all_stats", a) = "rolsuper"
            /\ Discovery!After("rolsuper", a) = "read_all_stats_again"
            /\ a = {"error"} => Discovery!After("read_all_stats_again", a) = "log_files"
            /\ a # {"error"} => Discovery!After("read_all_stats_again", a) = "rolsuper_again"
            /\ Discovery!After("rolsuper_again", a) = "log_files"
            /\ a = {"error"} => Discovery!After("log_files", a) = "preload"
            /\ a # {"error"} => Discovery!After("log_files", a) = "collector"
            /\ Discovery!After("collector", a) = "preload"
            /\ "preload" \in a => Discovery!After("preload", a) = "threshold"
            /\ "preload" \notin a => Discovery!After("preload", a) = "end"
            /\ Discovery!After("threshold", a) = "end"
<1> DEFINE Q == Discovery!Queries
<1>1. /\ DOMAIN Q = 1..11
      /\ Q[1] = "extensions" /\ Q[2] = "version_12" /\ Q[3] = "pg_monitor"
      /\ Q[4] = "pg_read_all_stats" /\ Q[5] = "rolsuper" /\ Q[6] = "read_all_stats_again"
      /\ Q[7] = "rolsuper_again" /\ Q[8] = "log_files" /\ Q[9] = "collector"
      /\ Q[10] = "preload" /\ Q[11] = "threshold"
  BY DEF Discovery!Queries
<1> HIDE DEF Q
<1> DEFINE Following(q) == Q[1 + CHOOSE j \in DOMAIN Q : Q[j] = q]
<1>2. ASSUME NEW k \in 1..10, \A j \in 1..11 : Q[j] = Q[k] => j = k
      PROVE  Following(Q[k]) = Q[k + 1]
  <2> DEFINE c == CHOOSE j \in DOMAIN Q : Q[j] = Q[k]
  <2>1. k \in 1..11
    OBVIOUS
  <2>2. c \in DOMAIN Q /\ Q[c] = Q[k]
    BY <1>1, <2>1
  <2>3. c = k
    BY <1>1, <1>2, <2>2
  <2>4. Following(Q[k]) = Q[1 + c]
    OBVIOUS
  <2> HIDE DEF c, Following
  <2>5. 1 + c = k + 1
    BY <2>3
  <2> QED BY <2>4, <2>5
<1>3. \A j \in 1..11 : \/ j = 1 \/ j = 2 \/ j = 3 \/ j = 4 \/ j = 5 \/ j = 6
                       \/ j = 7 \/ j = 8 \/ j = 9 \/ j = 10 \/ j = 11
  OBVIOUS
<1>4. ASSUME NEW k \in 1..10 PROVE \A j \in 1..11 : Q[j] = Q[k] => j = k
  <2>1. \/ k = 1 \/ k = 2 \/ k = 3 \/ k = 4 \/ k = 5 \/ k = 6
        \/ k = 7 \/ k = 8 \/ k = 9 \/ k = 10
    OBVIOUS
  <2> QED BY <1>1, <1>3, <2>1
<1> HIDE DEF Following
<1>5. /\ Following("extensions") = "version_12"
      /\ Following("version_12") = "pg_monitor"
      /\ Following("pg_monitor") = "pg_read_all_stats"
      /\ Following("pg_read_all_stats") = "rolsuper"
      /\ Following("rolsuper") = "read_all_stats_again"
      /\ Following("read_all_stats_again") = "rolsuper_again"
      /\ Following("rolsuper_again") = "log_files"
      /\ Following("log_files") = "collector"
      /\ Following("collector") = "preload"
      /\ Following("preload") = "threshold"
  <2>1. \A k \in 1..10 : Following(Q[k]) = Q[k + 1]
    BY <1>2, <1>4
  <2>2. /\ Following(Q[1]) = Q[2]
        /\ Following(Q[2]) = Q[3]
        /\ Following(Q[3]) = Q[4]
        /\ Following(Q[4]) = Q[5]
        /\ Following(Q[5]) = Q[6]
        /\ Following(Q[6]) = Q[7]
        /\ Following(Q[7]) = Q[8]
        /\ Following(Q[8]) = Q[9]
        /\ Following(Q[9]) = Q[10]
        /\ Following(Q[10]) = Q[11]
    BY <2>1
  <2> QED BY <1>1, <2>2
<1>6. \A q, a : Discovery!After(q, a) =
        CASE q = "read_all_stats_again" /\ a = {"error"} -> "log_files"
          [] q = "log_files" /\ a = {"error"} -> "preload"
          [] q = "preload" /\ "preload" \notin a -> "end"
          [] q = "threshold" -> "end"
          [] OTHER -> Following(q)
  BY DEF Discovery!After, Discovery!Error, Following, Q
<1> QED BY <1>1, <1>5, <1>6 DEF Q

\* What was true of a moment stays so.
LEMMA TrueStays ==
  ASSUME NEW q, NEW a, failures \in Nat, failures' \in Nat, failures' >= failures,
         moments \subseteq moments', TrueOnce(q, a)
  PROVE  TrueOnce(q, a)'
<1>1. failures # 0 => failures' # 0
  OBVIOUS
<1> QED BY <1>1 DEF TrueOnce

LEMMA PassAnswer ==
  ASSUME PassInv, NEW q \in Asking, pass.at = q, NEW a, Discovery!Answer(q, a),
         UNCHANGED <<moments, facts>>, failures' \in {failures, failures + 1}, TrueOnce(q, a)'
  PROVE  PassInv'
<1>1. PICK s : s = [x \in (DOMAIN pass.said) \cup {q} |-> IF x = q THEN a ELSE pass.said[x]]
  OBVIOUS
<1>2. pass' = [pass EXCEPT !.at = Discovery!After(q, a), !.said = s]
  BY <1>1 DEF Discovery!Answer
<1>3. /\ PassShape /\ pass.at \in Places /\ facts \in moments /\ Answered
      /\ \A x \in DOMAIN pass.said : \A v : v = pass.said[x] => TrueOnce(x, v)
      /\ failures \in Nat /\ failures' \in Nat /\ failures' >= failures
  BY DEF PassInv, PassTrue, Places
<1>4. /\ pass' = [n |-> pass.n, at |-> Discovery!After(q, a), said |-> s, set |-> pass.set]
      /\ pass'.at = Discovery!After(q, a) /\ pass'.said = s
  <2>1. pass = [n |-> pass.n, at |-> pass.at, said |-> pass.said, set |-> pass.set]
    BY <1>3 DEF PassShape
  <2> QED BY <1>2, <2>1
<1>5. /\ DOMAIN s = (DOMAIN pass.said) \cup {q} /\ s[q] = a
      /\ \A x \in DOMAIN pass.said : x # q => s[x] = pass.said[x]
  BY <1>1
<1>6. pass'.at \in Places /\ Answered'
  <2>1. CASE q = "extensions"
    <3>1. Discovery!After("extensions", a) = "version_12"
      BY QueryOrder
    <3>2. pass'.at = "version_12"
      BY <1>4, <2>1, <3>1
    <3> QED BY <1>3, <1>4, <1>5, <2>1, <3>2 DEF Answered, Asking, Places
  <2>2. CASE q = "version_12"
    <3>1. Discovery!After("version_12", a) = "pg_monitor"
      BY QueryOrder
    <3>2. pass'.at = "pg_monitor"
      BY <1>4, <2>2, <3>1
    <3> QED BY <1>3, <1>4, <1>5, <2>2, <3>2 DEF Answered, Asking, Places
  <2>3. CASE q = "pg_monitor"
    <3>1. Discovery!After("pg_monitor", a) = "pg_read_all_stats"
      BY QueryOrder
    <3>2. pass'.at = "pg_read_all_stats"
      BY <1>4, <2>3, <3>1
    <3> QED BY <1>3, <1>4, <1>5, <2>3, <3>2 DEF Answered, Asking, Places
  <2>4. CASE q = "pg_read_all_stats"
    <3>1. Discovery!After("pg_read_all_stats", a) = "rolsuper"
      BY QueryOrder
    <3>2. pass'.at = "rolsuper"
      BY <1>4, <2>4, <3>1
    <3> QED BY <1>3, <1>4, <1>5, <2>4, <3>2 DEF Answered, Asking, Places
  <2>5. CASE q = "rolsuper"
    <3>1. Discovery!After("rolsuper", a) = "read_all_stats_again"
      BY QueryOrder
    <3>2. pass'.at = "read_all_stats_again"
      BY <1>4, <2>5, <3>1
    <3> QED BY <1>3, <1>4, <1>5, <2>5, <3>2 DEF Answered, Asking, Places
  <2>6. CASE q = "read_all_stats_again"
    <3>1. /\ a = {"error"} => Discovery!After("read_all_stats_again", a) = "log_files"
          /\ a # {"error"} => Discovery!After("read_all_stats_again", a) = "rolsuper_again"
      BY QueryOrder
    <3>2. /\ a = {"error"} => pass'.at = "log_files"
          /\ a # {"error"} => pass'.at = "rolsuper_again"
      BY <1>4, <2>6, <3>1
    <3> QED BY <1>3, <1>4, <1>5, <2>6, <3>2 DEF Answered, Asking, Places
  <2>7. CASE q = "rolsuper_again"
    <3>1. Discovery!After("rolsuper_again", a) = "log_files"
      BY QueryOrder
    <3>2. pass'.at = "log_files"
      BY <1>4, <2>7, <3>1
    <3> QED BY <1>3, <1>4, <1>5, <2>7, <3>2 DEF Answered, Asking, Places
  <2>8. CASE q = "log_files"
    <3>1. /\ a = {"error"} => Discovery!After("log_files", a) = "preload"
          /\ a # {"error"} => Discovery!After("log_files", a) = "collector"
      BY QueryOrder
    <3>2. /\ a = {"error"} => pass'.at = "preload"
          /\ a # {"error"} => pass'.at = "collector"
      BY <1>4, <2>8, <3>1
    <3> QED BY <1>3, <1>4, <1>5, <2>8, <3>2 DEF Answered, Asking, Places
  <2>9. CASE q = "collector"
    <3>1. Discovery!After("collector", a) = "preload"
      BY QueryOrder
    <3>2. pass'.at = "preload"
      BY <1>4, <2>9, <3>1
    <3> QED BY <1>3, <1>4, <1>5, <2>9, <3>2 DEF Answered, Asking, Places
  <2>10. CASE q = "preload"
    <3>1. /\ "preload" \in a => Discovery!After("preload", a) = "threshold"
          /\ "preload" \notin a => Discovery!After("preload", a) = "end"
      BY QueryOrder
    <3>2. /\ "preload" \in a => pass'.at = "threshold"
          /\ "preload" \notin a => pass'.at = "end"
      BY <1>4, <2>10, <3>1
    <3> QED BY <1>3, <1>4, <1>5, <2>10, <3>2 DEF Answered, Asking, Places
  <2>11. CASE q = "threshold"
    <3>1. Discovery!After("threshold", a) = "end"
      BY QueryOrder
    <3>2. pass'.at = "end"
      BY <1>4, <2>11, <3>1
    <3> QED BY <1>3, <1>4, <1>5, <2>11, <3>2 DEF Answered, Asking, Places
  <2> QED BY <2>1, <2>2, <2>3, <2>4, <2>5, <2>6, <2>7, <2>8, <2>9, <2>10, <2>11 DEF Asking
<1>7. ASSUME NEW x \in DOMAIN s, NEW v, v = s[x] PROVE TrueOnce(x, v)'
  <2>1. CASE x = q
    BY <1>5, <1>7, <2>1
  <2>2. CASE x # q
    <3>1. TrueOnce(x, v)
      BY <1>3, <1>5, <1>7, <2>2
    <3> QED BY <1>3, <3>1, TrueStays
  <2> QED BY <2>1, <2>2
<1>8. PassTrue'
  BY <1>3, <1>4, <1>6, <1>7 DEF PassTrue
<1> QED BY <1>3, <1>4, <1>6, <1>8 DEF PassInv, PassShape

LEMMA PassRests ==
  ASSUME PassInv, UNCHANGED <<facts, pass, moments, failures>>
  PROVE  PassInv'
<1>1. ASSUME pass.at \in Places, NEW x \in DOMAIN pass.said, NEW v, v = pass.said[x] PROVE TrueOnce(x, v)'
  BY <1>1, TrueStays DEF PassInv, PassTrue
<1> QED BY <1>1 DEF PassInv, PassTrue, PassShape, Answered

LEMMA PassSteps == PassInv /\ Discovery!Next => PassInv'
<1> SUFFICES ASSUME PassInv, Discovery!Next PROVE PassInv'
  OBVIOUS
<1> USE DEF PassInv
<1>1. CASE Discovery!ServerChanges
  <2>1. /\ UNCHANGED <<pass, failures>> /\ facts' \in moments' /\ moments \subseteq moments'
        /\ pass.at \in Places
    BY <1>1 DEF Discovery!ServerChanges, Discovery!Quiet
  <2>2. ASSUME NEW x \in DOMAIN pass.said, NEW v, v = pass.said[x] PROVE TrueOnce(x, v)'
    BY <2>1, <2>2, TrueStays DEF PassTrue
  <2> QED BY <2>1, <2>2 DEF PassTrue, PassShape, Answered
<1>2. CASE Discovery!Discover
  <2>1. /\ pass' = [n |-> pass.n + 1, at |-> "extensions", said |-> << >>, set |-> << >>]
        /\ facts' \in moments' /\ failures' = failures
    BY <1>2, QueryOrder DEF Discovery!Discover
  <2>2. DOMAIN pass'.said = {} /\ pass'.at = "extensions"
    BY <2>1
  <2> QED BY <2>1, <2>2 DEF PassTrue, PassShape, Answered, Places, Asking
<1>3. ASSUME Discovery!Ask \/ Discovery!AskFails PROVE PassInv'
  <2>1. /\ pass.at \in Asking /\ facts \in moments /\ UNCHANGED <<moments, facts>>
        /\ failures' \in {failures, failures + 1}
    BY <1>3 DEF Discovery!Ask, Discovery!AskFails, Discovery!Asking, Discovery!Quiet, PassTrue, Places
  <2>2. PICK q \in Asking : q = pass.at
    BY <2>1
  <2>3. CASE Discovery!Ask
    <3>1. PICK a : /\ Discovery!Answer(q, a) /\ failures' = failures
                   /\ a = IF q = "extensions" THEN facts \cap Extensions
                          ELSE IF Discovery!Shown(q) THEN facts \cap {Discovery!Fact(q)} ELSE {"error"}
      BY <2>2, <2>3 DEF Discovery!Ask, Discovery!Error
    <3>2. TrueOnce(q, a)'
      <4>1. CASE q = "extensions"
        BY <2>1, <3>1, <4>1 DEF TrueOnce
      <4>2. CASE q # "extensions"
        BY <2>1, <3>1, <4>2 DEF TrueOnce, Discovery!Shown
      <4> QED BY <4>1, <4>2
    <3> QED BY <2>1, <2>2, <3>1, <3>2, PassAnswer
  <2>4. CASE Discovery!AskFails
    <3>1. PICK a : /\ Discovery!Answer(q, a) /\ failures' = failures + 1
                   /\ a = {"error"} \/ (q = "extensions" /\ a \in SUBSET (facts \cap Extensions))
      BY <2>2, <2>4 DEF Discovery!AskFails, Discovery!Error
    <3>2. failures' # 0
      BY <3>1
    <3>3. TrueOnce(q, a)'
      BY <2>1, <3>1, <3>2 DEF TrueOnce
    <3> QED BY <2>1, <2>2, <3>1, <3>3, PassAnswer
  <2> QED BY <1>3, <2>3, <2>4
<1>4. ASSUME Discovery!Conclude \/ Discovery!Upsert \/ Discovery!PassLost PROVE PassInv'
  <2>1. /\ pass' = [n |-> pass'.n, at |-> pass'.at, said |-> pass'.said, set |-> pass'.set]
        /\ pass'.at \in {"none", "write"} /\ failures' = failures
    <3>1. pass = [n |-> pass.n, at |-> pass.at, said |-> pass.said, set |-> pass.set]
      BY DEF PassShape
    <3>2. CASE Discovery!Conclude
      BY <3>1, <3>2 DEF Discovery!Conclude
    <3>3. CASE Discovery!Upsert \/ Discovery!PassLost
      BY <3>3 DEF Discovery!Upsert, Discovery!PassLost, Discovery!NoPass
    <3> QED BY <1>4, <3>2, <3>3
  <2> QED BY <2>1 DEF PassTrue, PassShape, Places, Asking
<1>5. ASSUME UNCHANGED <<facts, pass, moments, failures>> PROVE PassInv'
  BY <1>5, PassRests
<1> QED
  BY <1>1, <1>2, <1>3, <1>4, <1>5
     DEF Discovery!Next, Discovery!PolicyChanges, Discovery!OpenMatrix, Discovery!FillCell,
         Discovery!OpenPage, Discovery!ListServer, Discovery!Close, Discovery!probing

\* The verdicts of a pass that is over are honest.
LEMMA PassIsHonest == PassInv => Discovery!PassHonest
<1> DEFINE Honest(c, v) ==
             IF v.available
               THEN \E m \in moments : \E all \in Discovery!Needs(c) : all \subseteq m
               ELSE v.reason \notin {"PROBE_ERROR", "INTERNAL"} /\ failures = 0 =>
                      \A all \in Discovery!Needs(c) : \E m \in moments : ~(all \subseteq m)
<1> SUFFICES ASSUME PassInv, pass.at = "end", NEW c \in Extensions \cup Discovery!Probed
             PROVE  Honest(c, Discovery!Discovered[c])
  BY DEF Discovery!PassHonest, Discovery!Definite, Discovery!Had
<1>A. ASSUME NEW yes, NEW no, NEW avail \in BOOLEAN,
             avail => \E m \in moments : \E all \in Discovery!Needs(c) : all \subseteq m,
             ~avail /\ failures = 0 => \A all \in Discovery!Needs(c) : \E m \in moments : ~(all \subseteq m)
      PROVE  Honest(c, Discovery!pick(avail, yes, no))
  <2>1. Discovery!pick(avail, yes, no).available = avail
    BY DEF Discovery!pick, Discovery!Status
  <2> QED BY <1>A, <2>1
<1>B. Honest(c, Discovery!ErrToCode)
  BY DEF Discovery!ErrToCode, Discovery!Status
<1> HIDE DEF Honest
<1>1. /\ Answered
      /\ \A x \in DOMAIN pass.said : TrueOnce(x, pass.said[x])
  BY DEF PassInv, PassTrue, Places
<1>2. c \in Discovery!ToSet(Declared)
  BY DeclaredAssumption DEF Discovery!ToSet
\* An answer to one of these questions that lacks a fact was true of a moment
\* without it, and one that has it, of a moment with it.
<1>3. ASSUME NEW q \in DOMAIN pass.said, q # "extensions", NEW f, f = Discovery!Fact(q), f # "error"
      PROVE  /\ Discovery!Said(q) <=> f \in pass.said[q]
             /\ f \in pass.said[q] =>
                  \E m \in moments : f \in m /\ (q = "threshold" => "preload" \in m)
             /\ f \notin pass.said[q] /\ failures = 0 /\ pass.said[q] # {"error"} =>
                  \E m \in moments : f \notin m
             /\ failures = 0 /\ q # "threshold" => pass.said[q] # {"error"}
             /\ f \in pass.said[q] => pass.said[q] # {"error"}
             /\ Discovery!Failed(q) <=> pass.said[q] = {"error"}
  <2>1. Discovery!Said(q) <=> f \in pass.said[q]
    BY <1>3 DEF Discovery!Said
  <2>2. Discovery!Failed(q) <=> pass.said[q] = {"error"}
    BY DEF Discovery!Failed, Discovery!Error
  <2>3. \/ pass.said[q] = {"error"} /\ (failures = 0 => q = "threshold")
        \/ \E m \in moments : pass.said[q] = m \cap {f} /\ (q = "threshold" => "preload" \in m)
    BY <1>1, <1>3 DEF TrueOnce
  <2> QED BY <1>3, <2>1, <2>2, <2>3
<1>4. CASE c \in Extensions
  <2>1. Discovery!Discovered[c] = Discovery!ProbeExtensions(c) /\ Discovery!Needs(c) = {{c}}
    BY <1>2, <1>4, DeclaredAssumption DEF Discovery!Discovered, Discovery!Needs, Discovery!Probed
  <2>2. /\ "extensions" \in DOMAIN pass.said
        /\ \/ pass.said["extensions"] = {"error"} /\ failures # 0
           \/ \E m \in moments : /\ pass.said["extensions"] \subseteq m \cap Extensions
                                 /\ failures = 0 => pass.said["extensions"] = m \cap Extensions
    BY <1>1 DEF Answered, Places, TrueOnce
  <2>3. c # "error"
    BY <1>4, DeclaredAssumption
  <2>4. CASE Discovery!Failed("extensions")
    BY <1>B, <2>1, <2>4 DEF Discovery!ProbeExtensions
  <2>5. CASE ~Discovery!Failed("extensions")
    <3>1. Discovery!Discovered[c] =
            Discovery!pick(c \in pass.said["extensions"], "INSTALLED", "NOT_INSTALLED")
      BY <2>1, <2>5 DEF Discovery!ProbeExtensions
    <3>2. PICK n \in moments : /\ pass.said["extensions"] \subseteq n \cap Extensions
                               /\ failures = 0 => pass.said["extensions"] = n \cap Extensions
      BY <2>2, <2>5 DEF Discovery!Failed, Discovery!Error
    <3>3. /\ c \in pass.said["extensions"] => {c} \subseteq n
          /\ c \notin pass.said["extensions"] /\ failures = 0 => ~({c} \subseteq n)
      BY <1>4, <3>2
    <3>4. /\ c \in pass.said["extensions"] =>
               \E m \in moments : \E all \in Discovery!Needs(c) : all \subseteq m
          /\ ~(c \in pass.said["extensions"]) /\ failures = 0 =>
               \A all \in Discovery!Needs(c) : \E m \in moments : ~(all \subseteq m)
      BY <2>1, <3>3
    <3> DEFINE has == c \in pass.said["extensions"]
    <3>5. has \in BOOLEAN
      OBVIOUS
    <3> HIDE DEF has
    <3>6. Honest(c, Discovery!pick(has, "INSTALLED", "NOT_INSTALLED"))
      BY <1>A, <3>4, <3>5 DEF has
    <3> QED BY <3>1, <3>6 DEF has
  <2> QED BY <2>4, <2>5
<1>5. CASE c = "server_version"
  <2>1. Discovery!Discovered[c] = Discovery!ProbeServerVersion /\ Discovery!Needs(c) = {{"version_12"}}
    BY <1>2, <1>5, DeclaredAssumption DEF Discovery!Discovered, Discovery!Needs, Discovery!Probed
  <2>2. "version_12" \in DOMAIN pass.said /\ Discovery!Fact("version_12") = "version_12"
    BY <1>1 DEF Answered, Places, Asking, Discovery!Fact
  <2>3. /\ Discovery!Said("version_12") => \E m \in moments : {"version_12"} \subseteq m
        /\ ~Discovery!Said("version_12") /\ failures = 0 => \E m \in moments : ~({"version_12"} \subseteq m)
    BY <1>3, <2>2
  <2>4. Discovery!Said("version_12") \in BOOLEAN
    BY DEF Discovery!Said
  <2>5. /\ Discovery!Said("version_12") =>
             \E m \in moments : \E all \in Discovery!Needs(c) : all \subseteq m
        /\ ~(Discovery!Said("version_12")) /\ failures = 0 =>
             \A all \in Discovery!Needs(c) : \E m \in moments : ~(all \subseteq m)
    BY <2>1, <2>3
  <2>6. Honest(c, Discovery!pick(Discovery!Said("version_12"), "VERSION_OK", "VERSION_BELOW_BASELINE"))
    BY <1>A, <2>4, <2>5
  <2> QED BY <1>B, <2>1, <2>6 DEF Discovery!ProbeServerVersion
<1>6. CASE c = "role_permissions"
  <2>1. /\ Discovery!Discovered[c] = Discovery!ProbeRolePermissions
        /\ Discovery!Needs(c) = {{"pg_monitor"}, {"rolsuper"}}
    BY <1>2, <1>6, DeclaredAssumption DEF Discovery!Discovered, Discovery!Needs, Discovery!Probed
  <2>2. /\ "pg_monitor" \in DOMAIN pass.said /\ Discovery!Fact("pg_monitor") = "pg_monitor"
        /\ "rolsuper" \in DOMAIN pass.said /\ Discovery!Fact("rolsuper") = "rolsuper"
    BY <1>1 DEF Answered, Places, Asking, Discovery!Fact
  <2>3. /\ Discovery!Said("pg_monitor") => \E m \in moments : {"pg_monitor"} \subseteq m
        /\ Discovery!Said("rolsuper") => \E m \in moments : {"rolsuper"} \subseteq m
        /\ ~Discovery!Said("pg_monitor") /\ failures = 0 => \E m \in moments : ~({"pg_monitor"} \subseteq m)
        /\ ~Discovery!Said("rolsuper") /\ failures = 0 => \E m \in moments : ~({"rolsuper"} \subseteq m)
    BY <1>3, <2>2
  <2>4. /\ (Discovery!Said("pg_monitor") \/ Discovery!Said("rolsuper")) =>
             \E m \in moments : \E all \in Discovery!Needs(c) : all \subseteq m
        /\ ~(Discovery!Said("pg_monitor") \/ Discovery!Said("rolsuper")) /\ failures = 0 =>
             \A all \in Discovery!Needs(c) : \E m \in moments : ~(all \subseteq m)
    BY <2>1, <2>3
  <2>5. Honest(c, Discovery!pick(Discovery!Said("pg_monitor") \/ Discovery!Said("rolsuper"), "ROLE_OK", "NO_ROLE"))
    BY <1>A, <2>4
  <2> QED BY <2>1, <2>5 DEF Discovery!ProbeRolePermissions
<1>7. CASE c = "pg_stat_activity_full_read"
  <2>1. /\ Discovery!Discovered[c] = Discovery!ProbeStatActivityFullRead
        /\ Discovery!Needs(c) = {{"pg_read_all_stats"}, {"rolsuper"}}
    BY <1>2, <1>7, DeclaredAssumption DEF Discovery!Discovered, Discovery!Needs, Discovery!Probed
  <2>2. /\ "read_all_stats_again" \in DOMAIN pass.said
        /\ Discovery!Fact("read_all_stats_again") = "pg_read_all_stats"
        /\ \/ "rolsuper_again" \in DOMAIN pass.said
           \/ pass.said["read_all_stats_again"] = {"error"}
        /\ Discovery!Fact("rolsuper_again") = "rolsuper"
    BY <1>1 DEF Answered, Places, Asking, Discovery!Fact
  <2>3. CASE Discovery!Failed("read_all_stats_again")
    BY <1>B, <2>1, <2>3 DEF Discovery!ProbeStatActivityFullRead
  <2>4. CASE ~Discovery!Failed("read_all_stats_again")
    <3>1. /\ Discovery!Said("read_all_stats_again") => \E m \in moments : {"pg_read_all_stats"} \subseteq m
          /\ ~Discovery!Said("read_all_stats_again") /\ failures = 0 =>
               \E m \in moments : ~({"pg_read_all_stats"} \subseteq m)
          /\ pass.said["read_all_stats_again"] # {"error"}
      BY <1>3, <2>2, <2>4
    <3>2. /\ Discovery!Said("rolsuper_again") => \E m \in moments : {"rolsuper"} \subseteq m
          /\ ~Discovery!Said("rolsuper_again") /\ failures = 0 => \E m \in moments : ~({"rolsuper"} \subseteq m)
      BY <1>3, <2>2, <3>1
    <3>3. /\ (Discovery!Said("read_all_stats_again") \/ Discovery!Said("rolsuper_again")) =>
               \E m \in moments : \E all \in Discovery!Needs(c) : all \subseteq m
          /\ ~(Discovery!Said("read_all_stats_again") \/ Discovery!Said("rolsuper_again")) /\ failures = 0 =>
               \A all \in Discovery!Needs(c) : \E m \in moments : ~(all \subseteq m)
      <4>1. /\ Discovery!Said("read_all_stats_again") => \E m \in moments : {"pg_read_all_stats"} \subseteq m
            /\ ~Discovery!Said("read_all_stats_again") /\ failures = 0 =>
                 \E m \in moments : ~({"pg_read_all_stats"} \subseteq m)
        BY <3>1
      <4> QED BY <2>1, <3>2, <4>1
    <3>4. Honest(c, Discovery!pick(Discovery!Said("read_all_stats_again") \/ Discovery!Said("rolsuper_again"), "ROLE_OK", "NO_ROLE"))
      BY <1>A, <3>3
    <3> QED BY <2>1, <2>4, <3>4 DEF Discovery!ProbeStatActivityFullRead
  <2> QED BY <2>3, <2>4
<1>8. CASE c = "log_destination"
  <2>1. /\ Discovery!Discovered[c] = Discovery!ProbeLogDestination
        /\ Discovery!Needs(c) = {{"log_files"}, {"collector"}}
    BY <1>2, <1>8, DeclaredAssumption DEF Discovery!Discovered, Discovery!Needs, Discovery!Probed
  <2>2. /\ "log_files" \in DOMAIN pass.said /\ Discovery!Fact("log_files") = "log_files"
        /\ "collector" \in DOMAIN pass.said \/ pass.said["log_files"] = {"error"}
        /\ Discovery!Fact("collector") = "collector"
    BY <1>1 DEF Answered, Places, Asking, Discovery!Fact
  <2>3. CASE Discovery!Failed("log_files") \/ Discovery!Failed("collector")
    BY <1>B, <2>1, <2>3 DEF Discovery!ProbeLogDestination
  <2>4. CASE ~(Discovery!Failed("log_files") \/ Discovery!Failed("collector"))
    <3>1. pass.said["log_files"] # {"error"}
      BY <2>2, <2>4 DEF Discovery!Failed, Discovery!Error
    <3>2. "collector" \in DOMAIN pass.said
      BY <2>2, <3>1
    <3>5. /\ Discovery!Said("log_files") => \E m \in moments : {"log_files"} \subseteq m
          /\ ~Discovery!Said("log_files") /\ failures = 0 => \E m \in moments : ~({"log_files"} \subseteq m)
      <4>1. Discovery!Said("log_files") <=> "log_files" \in pass.said["log_files"]
        BY <1>3, <2>2
      <4>2. /\ "log_files" \in pass.said["log_files"] => \E m \in moments : "log_files" \in m
            /\ "log_files" \notin pass.said["log_files"] /\ failures = 0 =>
                 \E m \in moments : "log_files" \notin m
        BY <1>3, <2>2, <3>1
      <4> QED BY <4>1, <4>2
    <3>6. /\ Discovery!Said("collector") => \E m \in moments : {"collector"} \subseteq m
          /\ ~Discovery!Said("collector") /\ failures = 0 => \E m \in moments : ~({"collector"} \subseteq m)
      BY <1>3, <2>2, <3>2
    <3>3. /\ (Discovery!Said("log_files") \/ Discovery!Said("collector")) =>
               \E m \in moments : \E all \in Discovery!Needs(c) : all \subseteq m
          /\ ~(Discovery!Said("log_files") \/ Discovery!Said("collector")) /\ failures = 0 =>
               \A all \in Discovery!Needs(c) : \E m \in moments : ~(all \subseteq m)
      BY <2>1, <3>5, <3>6
    <3>4. Honest(c, Discovery!pick(Discovery!Said("log_files") \/ Discovery!Said("collector"), "LOG_REACHABLE", "LOG_UNREACHABLE"))
      BY <1>A, <3>3
    <3> QED BY <2>1, <2>4, <3>4 DEF Discovery!ProbeLogDestination
  <2> QED BY <2>3, <2>4
<1>9. CASE c = "auto_explain"
  <2>1. /\ Discovery!Discovered[c] = Discovery!ProbeAutoExplain
        /\ Discovery!Needs(c) = {{"preload", "threshold"}}
    BY <1>2, <1>9, DeclaredAssumption DEF Discovery!Discovered, Discovery!Needs, Discovery!Probed
  <2>2. /\ "preload" \in DOMAIN pass.said /\ Discovery!Fact("preload") = "preload"
        /\ "threshold" \in DOMAIN pass.said \/ "preload" \notin pass.said["preload"]
        /\ Discovery!Fact("threshold") = "threshold"
    BY <1>1 DEF Answered, Places, Asking, Discovery!Fact
  <2>3. CASE Discovery!Failed("preload") \/ Discovery!Failed("threshold")
    BY <1>B, <2>1, <2>3 DEF Discovery!ProbeAutoExplain
  <2>4. CASE ~(Discovery!Failed("preload") \/ Discovery!Failed("threshold"))
    <3> DEFINE both == {"preload", "threshold"}
    <3>1. /\ Discovery!Said("preload") <=> "preload" \in pass.said["preload"]
          /\ ~Discovery!Said("preload") /\ failures = 0 => \E m \in moments : ~(both \subseteq m)
      BY <1>3, <2>2, <2>4
    <3>2. CASE ~Discovery!Said("preload")
      <4>1. Discovery!Discovered[c] = Discovery!pick(FALSE, "INSTALLED", "NOT_PRELOADED")
        BY <2>1, <2>4, <3>2 DEF Discovery!ProbeAutoExplain, Discovery!pick
      <4>2. failures = 0 => \A all \in Discovery!Needs(c) : \E m \in moments : ~(all \subseteq m)
        BY <2>1, <3>1, <3>2
      <4> QED BY <1>A, <4>1, <4>2
    <3>3. CASE Discovery!Said("preload")
      <4>1. Discovery!Discovered[c] = Discovery!pick(Discovery!Said("threshold"), "INSTALLED", "DISABLED")
        BY <2>1, <2>4, <3>3 DEF Discovery!ProbeAutoExplain
      <4>2. "threshold" \in DOMAIN pass.said /\ pass.said["threshold"] # {"error"}
        BY <2>2, <2>4, <3>1, <3>3 DEF Discovery!Failed, Discovery!Error
      <4>3. /\ Discovery!Said("threshold") => \E m \in moments : both \subseteq m
            /\ ~Discovery!Said("threshold") /\ failures = 0 => \E m \in moments : ~(both \subseteq m)
        BY <1>3, <2>2, <4>2
      <4>4. Discovery!Said("threshold") \in BOOLEAN
        BY DEF Discovery!Said
      <4> QED BY <1>A, <2>1, <4>1, <4>3, <4>4
    <3> QED BY <3>2, <3>3
  <2> QED BY <2>3, <2>4
<1> QED BY <1>4, <1>5, <1>6, <1>7, <1>8, <1>9 DEF Discovery!Probed

-----------------------------------------------------------------------------
\* What is left of a list once its head is done.
LEMMA OneLess ==
  ASSUME NEW q \in Seq(STRING), q # << >>
  PROVE  /\ Tail(q) \in Seq(STRING)
         /\ Head(q) \in {q[i] : i \in DOMAIN q}
         /\ {q[i] : i \in DOMAIN q} = {Head(q)} \cup {Tail(q)[i] : i \in DOMAIN Tail(q)}
         /\ (\A i, j \in DOMAIN q : q[i] = q[j] => i = j) =>
              /\ \A i, j \in DOMAIN Tail(q) : Tail(q)[i] = Tail(q)[j] => i = j
              /\ Head(q) \notin {Tail(q)[i] : i \in DOMAIN Tail(q)}
<1>1. /\ Len(q) \in Nat \ {0} /\ DOMAIN q = 1..Len(q) /\ Head(q) = q[1]
      /\ Tail(q) \in Seq(STRING) /\ DOMAIN Tail(q) = 1..(Len(q) - 1)
      /\ \A i \in 1..(Len(q) - 1) : Tail(q)[i] = q[i + 1]
  OBVIOUS
<1>2. {q[i] : i \in DOMAIN q} \subseteq {Head(q)} \cup {Tail(q)[i] : i \in DOMAIN Tail(q)}
  <2>1. ASSUME NEW i \in 1..Len(q), i # 1 PROVE q[i] \in {Tail(q)[j] : j \in DOMAIN Tail(q)}
    <3>1. i - 1 \in 1..(Len(q) - 1) /\ (i - 1) + 1 = i
      BY <1>1, <2>1
    <3> QED BY <1>1, <3>1
  <2> QED BY <1>1, <2>1
<1>3. {Head(q)} \cup {Tail(q)[i] : i \in DOMAIN Tail(q)} \subseteq {q[i] : i \in DOMAIN q}
  <2>1. ASSUME NEW i \in 1..(Len(q) - 1) PROVE Tail(q)[i] \in {q[j] : j \in DOMAIN q}
    <3>1. i + 1 \in 1..Len(q)
      BY <1>1
    <3> QED BY <1>1, <3>1
  <2> QED BY <1>1, <2>1
<1>4. ASSUME \A i, j \in DOMAIN q : q[i] = q[j] => i = j
      PROVE  /\ \A i, j \in DOMAIN Tail(q) : Tail(q)[i] = Tail(q)[j] => i = j
             /\ Head(q) \notin {Tail(q)[i] : i \in DOMAIN Tail(q)}
  <2>1. \A i \in 1..(Len(q) - 1) : i + 1 \in 1..Len(q) /\ i + 1 # 1
    BY <1>1
  <2> QED BY <1>1, <1>4, <2>1
<1> QED BY <1>1, <1>2, <1>3, <1>4

\* A matrix or a page outlives what changes meanwhile.
LEMMA SheetStays ==
  ASSUME SheetInv, sheet' = sheet,
         sheet.kind # "none" => meantime \subseteq meantime' /\ Here' \in meantime'
  PROVE  SheetInv'
<1>1. SheetShape'
  BY DEF SheetInv, SheetShape
<1>2. MatrixTrue'
  <2> SUFFICES ASSUME sheet.kind = "matrix" PROVE MatrixTrue'
    BY DEF MatrixTrue
  <2>1. Left' = Left /\ meantime \subseteq meantime'
    BY DEF Left
  <2> QED BY <2>1 DEF SheetInv, MatrixTrue
<1>3. PageTrue'
  <2> SUFFICES ASSUME sheet.kind = "page" PROVE PageTrue'
    BY DEF PageTrue
  <2>1. Left' = Left /\ Done' = Done /\ meantime \subseteq meantime'
    BY DEF Left, Done
  <2> QED BY <2>1 DEF SheetInv, PageTrue
<1> QED BY <1>1, <1>2, <1>3 DEF SheetInv

LEMMA MatrixSteps ==
  ASSUME SheetInv, Discovery!OpenMatrix \/ Discovery!FillCell
  PROVE  SheetInv'
<1>1. CASE Discovery!OpenMatrix
  <2>1. PICK s \in Discovery!ScopeServers :
          /\ sheet' = [kind |-> "matrix", server |-> s, todo |-> Declared, rows |-> found[s][ServerLevel],
                       final |-> {}, skipped |-> {}]
          /\ meantime' = {Here} /\ rows' = rows /\ found' = found
    BY <1>1 DEF Discovery!OpenMatrix, Discovery!NoSheet, Discovery!Rows, Discovery!probing, Here
  <2>2. Here' = Here /\ Here.rows[s] = found[s][ServerLevel]
    BY <2>1 DEF Here, Discovery!World
  <2>3. Left' = {Declared[i] : i \in DOMAIN Declared}
    BY <2>1 DEF Left
  <2>4. SheetShape'
    BY <2>1, <2>2 DEF SheetShape
  <2>5. MatrixTrue'
    BY <2>1, <2>2, <2>3, DeclaredAssumption DEF MatrixTrue
  <2>6. PageTrue'
    BY <2>1 DEF PageTrue
  <2> QED BY <2>4, <2>5, <2>6 DEF SheetInv
<1>2. CASE Discovery!FillCell
  <2> DEFINE c == Head(sheet.todo)
             ticked == c \in Discovery!Available(sheet.rows) /\ Discovery!Effective(Discovery!Policy(c))
  <2>1. /\ sheet.kind = "matrix" /\ sheet.todo # << >>
        /\ sheet' = [sheet EXCEPT !.todo = Tail(@), !.final = IF ticked THEN @ \cup {c} ELSE @]
        /\ rows' = rows /\ found' = found /\ meantime' = meantime
    BY <1>2 DEF Discovery!FillCell, Discovery!probing
  <2>2. /\ sheet = [kind |-> sheet.kind, server |-> sheet.server, todo |-> sheet.todo, rows |-> sheet.rows,
                    final |-> sheet.final, skipped |-> sheet.skipped]
        /\ Here' = Here /\ Here \in meantime /\ Here.policy = rows
    BY <2>1 DEF SheetInv, SheetShape, Here, Discovery!World
  <2>3. /\ SheetShape' /\ sheet'.kind = "matrix" /\ sheet'.server = sheet.server /\ sheet'.rows = sheet.rows
        /\ sheet'.todo = Tail(sheet.todo)
        /\ sheet'.final = IF ticked THEN sheet.final \cup {c} ELSE sheet.final
    BY <2>1, <2>2 DEF SheetShape
  <2>4. /\ sheet.todo \in Seq(STRING)
        /\ \E w \in meantime : w.rows[sheet.server] = sheet.rows
        /\ \A d \in sheet.final :
             /\ d \in Discovery!Available(sheet.rows)
             /\ d \in Watched => \E w \in meantime : Discovery!Effective(w.policy[d])
        /\ \A d \in {Declared[i] : i \in DOMAIN Declared} \ (sheet.final \cup Left) :
             \/ d \notin Discovery!Available(sheet.rows)
             \/ d \in Watched /\ \E w \in meantime : ~Discovery!Effective(w.policy[d])
    BY <2>1 DEF SheetInv, MatrixTrue
  <2>5. Tail(sheet.todo) \in Seq(STRING) /\ Left = {c} \cup Left'
    <3>1. PICK q \in Seq(STRING) : q = sheet.todo
      BY <2>4
    <3>2. Left = {q[i] : i \in DOMAIN q} /\ Left' = {Tail(q)[i] : i \in DOMAIN Tail(q)} /\ c = Head(q)
      BY <2>3, <3>1 DEF Left
    <3> QED BY <2>1, <3>1, <3>2, OneLess
  <2>6. ticked /\ c \in Watched => Discovery!Effective(Here.policy[c])
    BY <2>2 DEF Discovery!Policy
  <2>7. ~ticked => \/ c \notin Discovery!Available(sheet.rows)
                   \/ c \in Watched /\ ~Discovery!Effective(Here.policy[c])
    BY <2>2 DEF Discovery!Policy, Discovery!Effective
  <2> HIDE DEF ticked, c
  <2>8. \A d \in sheet'.final :
          /\ d \in Discovery!Available(sheet.rows)
          /\ d \in Watched => \E w \in meantime : Discovery!Effective(w.policy[d])
    BY <2>2, <2>3, <2>4, <2>6 DEF ticked
  <2>9. ASSUME NEW d \in {Declared[i] : i \in DOMAIN Declared} \ (sheet'.final \cup Left')
        PROVE  \/ d \notin Discovery!Available(sheet.rows)
               \/ d \in Watched /\ \E w \in meantime : ~Discovery!Effective(w.policy[d])
    <3>1. CASE d = c
      <4>1. ~ticked
        BY <2>3, <2>9, <3>1
      <4> QED BY <2>2, <2>7, <3>1, <4>1
    <3>2. CASE d # c
      <4>1. d \notin sheet.final \cup Left
        BY <2>3, <2>5, <2>9, <3>2
      <4> QED BY <2>4, <2>9, <4>1
    <3> QED BY <3>1, <3>2
  <2>10. MatrixTrue'
    BY <2>1, <2>3, <2>4, <2>5, <2>8, <2>9 DEF MatrixTrue
  <2>11. PageTrue'
    BY <2>3 DEF PageTrue
  <2> QED BY <2>3, <2>10, <2>11 DEF SheetInv
<1> QED BY <1>1, <1>2

LEMMA PageSteps ==
  ASSUME SheetInv, Discovery!OpenPage \/ Discovery!ListServer
  PROVE  SheetInv'
<1>1. CASE Discovery!OpenPage
  <2>1. /\ sheet' = [kind |-> "page", server |-> "none", todo |-> Listed, rows |-> << >>,
                     final |-> {}, skipped |-> {}]
        /\ meantime' = {Here} /\ rows' = rows /\ found' = found
    BY <1>1 DEF Discovery!OpenPage, Discovery!NoSheet, Discovery!probing, Here
  <2>2. Here' = Here
    BY <2>1 DEF Here
  <2>3. Left' = {Listed[i] : i \in DOMAIN Listed} /\ Done' = {}
    BY <2>1 DEF Left, Done
  <2>4. SheetShape' /\ MatrixTrue'
    BY <2>1, <2>2 DEF SheetShape, MatrixTrue
  <2>5. PageTrue'
    BY <2>1, <2>3, ListedAssumption DEF PageTrue
  <2> QED BY <2>4, <2>5 DEF SheetInv
<1>2. CASE Discovery!ListServer
  <2>1. PICK q, s : q = sheet.todo /\ s = Head(q)
    OBVIOUS
  <2> DEFINE has == Discovery!Available(found[s][ServerLevel])
  <2>2. /\ sheet.kind = "page" /\ q # << >>
        /\ \/ sheet' = [sheet EXCEPT !.todo = Tail(@), !.final = @ \cup has]
           \/ sheet' = [sheet EXCEPT !.todo = Tail(@), !.skipped = @ \cup {s}]
        /\ rows' = rows /\ found' = found /\ meantime' = meantime
    BY <1>2, <2>1 DEF Discovery!ListServer, Discovery!probing, Discovery!Rows
  <2>3. /\ sheet = [kind |-> sheet.kind, server |-> sheet.server, todo |-> sheet.todo, rows |-> sheet.rows,
                    final |-> sheet.final, skipped |-> sheet.skipped]
        /\ Here' = Here /\ Here \in meantime
    BY <2>2 DEF SheetInv, SheetShape, Here
  <2>4. /\ SheetShape' /\ sheet'.kind = "page" /\ sheet'.todo = Tail(q)
        /\ \/ sheet'.final = sheet.final \cup has /\ sheet'.skipped = sheet.skipped
           \/ sheet'.final = sheet.final /\ sheet'.skipped = sheet.skipped \cup {s}
    BY <2>1, <2>2, <2>3 DEF SheetShape
  <2>5. /\ q \in Seq(STRING) /\ Left \subseteq {Listed[i] : i \in DOMAIN Listed}
        /\ \A i, j \in DOMAIN q : q[i] = q[j] => i = j
        /\ sheet.skipped \cap Left = {}
        /\ \A c \in sheet.final : \E x \in Done : \E w \in meantime : Stored(w, x, c)
        /\ \A x \in Done : \A c \in {Declared[i] : i \in DOMAIN Declared} \ sheet.final :
             \E w \in meantime : ~Stored(w, x, c)
    BY <2>1, <2>2 DEF SheetInv, PageTrue
  <2>6. /\ Left = {q[i] : i \in DOMAIN q} /\ Left' = {Tail(q)[i] : i \in DOMAIN Tail(q)}
    BY <2>1, <2>4 DEF Left
  <2>7. /\ Left = {s} \cup Left' /\ s \notin Left'
        /\ Tail(q) \in Seq(STRING)
        /\ \A i, j \in DOMAIN Tail(q) : Tail(q)[i] = Tail(q)[j] => i = j
    BY <2>1, <2>2, <2>5, <2>6, OneLess
  <2>8. /\ s \in {Listed[i] : i \in DOMAIN Listed} /\ s \notin sheet.skipped
        /\ sheet'.skipped \cap Left' = {} /\ Left' \subseteq {Listed[i] : i \in DOMAIN Listed}
    BY <2>4, <2>5, <2>7
  <2>9. \A c : Stored(Here, s, c) <=> c \in has
    BY <2>8 DEF Stored, Here, Discovery!World, Discovery!ScopeServers, Discovery!ToSet
  <2>10. PICK done : done = Done
    OBVIOUS
  <2>11. /\ done = {Listed[i] : i \in DOMAIN Listed} \ (sheet.skipped \cup Left)
         /\ Done' = {Listed[i] : i \in DOMAIN Listed} \ (sheet'.skipped \cup Left')
    BY <2>10 DEF Done
  <2> HIDE DEF has
  <2>12. /\ \A c \in sheet'.final : \E x \in Done' : \E w \in meantime : Stored(w, x, c)
         /\ \A x \in Done' : \A c \in {Declared[i] : i \in DOMAIN Declared} \ sheet'.final :
              \E w \in meantime : ~Stored(w, x, c)
    <3>1. CASE sheet'.final = sheet.final \cup has /\ sheet'.skipped = sheet.skipped
      <4>1. Done' = done \cup {s}
        BY <2>7, <2>8, <2>11, <3>1
      <4>2. ASSUME NEW c \in sheet'.final PROVE \E x \in Done' : \E w \in meantime : Stored(w, x, c)
        <5>1. CASE c \in sheet.final
          BY <2>5, <2>10, <4>1, <5>1
        <5>2. CASE c \in has
          BY <2>3, <2>9, <4>1, <5>2
        <5> QED BY <3>1, <4>2, <5>1, <5>2
      <4>3. ASSUME NEW x \in Done', NEW c \in {Declared[i] : i \in DOMAIN Declared} \ sheet'.final
            PROVE  \E w \in meantime : ~Stored(w, x, c)
        <5>1. CASE x \in done
          BY <2>5, <2>10, <3>1, <4>3, <5>1
        <5>2. CASE x = s
          BY <2>3, <2>9, <3>1, <4>3, <5>2
        <5> QED BY <4>1, <4>3, <5>1, <5>2
      <4> QED BY <4>2, <4>3
    <3>2. CASE sheet'.final = sheet.final /\ sheet'.skipped = sheet.skipped \cup {s}
      <4>1. Done' = done
        BY <2>7, <2>11, <3>2
      <4> QED BY <2>5, <2>10, <3>2, <4>1
    <3> QED BY <2>4, <3>1, <3>2
  <2>13. PageTrue'
    BY <2>2, <2>4, <2>7, <2>8, <2>12 DEF PageTrue
  <2>14. MatrixTrue'
    BY <2>4 DEF MatrixTrue
  <2> QED BY <2>4, <2>13, <2>14 DEF SheetInv
<1> QED BY <1>1, <1>2

LEMMA SheetSteps == SheetInv /\ Discovery!Next => SheetInv'
<1> SUFFICES ASSUME SheetInv, Discovery!Next PROVE SheetInv'
  OBVIOUS
<1>1. CASE Discovery!PolicyChanges \/ Discovery!Upsert
  <2>1. sheet' = sheet /\ (sheet.kind # "none" => meantime' = meantime \cup {Here'})
    BY <1>1 DEF Discovery!PolicyChanges, Discovery!Upsert, Discovery!Meanwhile, Discovery!probing, Here
  <2> QED BY <2>1, SheetStays
<1>2. CASE Discovery!OpenMatrix \/ Discovery!FillCell
  BY <1>2, MatrixSteps
<1>3. CASE Discovery!OpenPage \/ Discovery!ListServer
  BY <1>3, PageSteps
<1>4. CASE Discovery!Close
  <2>1. sheet' = [kind |-> "none", server |-> "none", todo |-> << >>, rows |-> << >>,
                  final |-> {}, skipped |-> {}]
    BY <1>4 DEF Discovery!Close, Discovery!NoSheet
  <2> QED BY <2>1 DEF SheetInv, SheetShape, MatrixTrue, PageTrue
<1>5. CASE \/ Discovery!ServerChanges \/ Discovery!Discover \/ Discovery!Ask \/ Discovery!AskFails
           \/ Discovery!Conclude \/ Discovery!PassLost
  <2>1. UNCHANGED <<found, rows, sheet, meantime>>
    BY <1>5 DEF Discovery!ServerChanges, Discovery!Discover, Discovery!Ask, Discovery!AskFails,
                Discovery!Conclude, Discovery!PassLost, Discovery!Asking, Discovery!showing
  <2> QED BY <2>1, SheetStays DEF SheetInv, SheetShape, Here
<1> QED BY <1>1, <1>2, <1>3, <1>4, <1>5 DEF Discovery!Next

\* What a finished matrix or page shows is honest.
LEMMA SheetIsHonest ==
  ASSUME SheetInv, Discovery!PassHonest
  PROVE  Discovery!DiscoveryHonest
<1> DEFINE all == {Declared[i] : i \in DOMAIN Declared}
           scope == {Listed[i] : i \in DOMAIN Listed}
<1>1. /\ Discovery!ToSet(Declared) = all
      /\ Discovery!ScopeServers = scope
  BY DEF Discovery!ToSet, Discovery!ScopeServers
<1>2. ASSUME sheet.todo = << >> PROVE Left = {}
  BY <1>2 DEF Left
<1>3. ASSUME sheet.kind = "matrix", sheet.todo = << >>, NEW c \in all
      PROVE  LET on == {Discovery!Effective(w.policy[c]) : w \in IF c \in Watched THEN meantime ELSE {}}
                 there == {(c \in Discovery!Available(w.rows[sheet.server])) : w \in meantime}
             IN  IF c \in sheet.final THEN TRUE \in there /\ on # {FALSE} ELSE FALSE \in there \/ FALSE \in on
  <2> DEFINE On(w) == Discovery!Effective(w.policy[c])
             There(w) == c \in Discovery!Available(w.rows[sheet.server])
             on == {On(w) : w \in IF c \in Watched THEN meantime ELSE {}}
             there == {There(w) : w \in meantime}
  <2>1. /\ \E w \in meantime : w.rows[sheet.server] = sheet.rows
        /\ c \in sheet.final => /\ c \in Discovery!Available(sheet.rows)
                                /\ c \in Watched => \E w \in meantime : On(w)
        /\ c \notin sheet.final => \/ c \notin Discovery!Available(sheet.rows)
                                   \/ c \in Watched /\ \E w \in meantime : ~On(w)
    BY <1>2, <1>3 DEF SheetInv, MatrixTrue
  <2>2. PICK w0 \in meantime : w0.rows[sheet.server] = sheet.rows
    BY <2>1
  <2>3. There(w0) <=> c \in Discovery!Available(sheet.rows)
    BY <2>2
  <2>4. \A w : On(w) \in BOOLEAN /\ There(w) \in BOOLEAN
    BY DEF Discovery!Effective
  <2> HIDE DEF On, There
  <2>5. CASE c \in sheet.final
    <3>1. There(w0) = TRUE
      BY <2>1, <2>3, <2>4, <2>5
    <3>2. TRUE \in there
      BY <3>1
    <3>3. on # {FALSE}
      <4>1. CASE c \in Watched
        <5>1. PICK w \in meantime : On(w) = TRUE
          BY <2>1, <2>4, <2>5, <4>1
        <5>2. TRUE \in on
          BY <4>1, <5>1
        <5> QED BY <5>2
      <4>2. CASE c \notin Watched
        <5>1. on = {}
          BY <4>2
        <5> QED BY <5>1
      <4> QED BY <4>1, <4>2
    <3> QED BY <2>5, <3>2, <3>3 DEF On, There
  <2>6. CASE c \notin sheet.final
    <3>1. CASE c \notin Discovery!Available(sheet.rows)
      <4>1. There(w0) = FALSE
        BY <2>3, <2>4, <3>1
      <4>2. FALSE \in there
        BY <4>1
      <4> QED BY <2>6, <4>2 DEF On, There
    <3>2. CASE c \in Watched /\ \E w \in meantime : ~On(w)
      <4>1. PICK w \in meantime : On(w) = FALSE
        BY <2>4, <3>2
      <4>2. FALSE \in on
        BY <3>2, <4>1
      <4> QED BY <2>6, <4>2 DEF On, There
    <3> QED BY <2>1, <2>6, <3>1, <3>2
  <2> QED BY <2>5, <2>6
<1>4. ASSUME sheet.kind = "page", sheet.todo = << >>, NEW c \in all
      PROVE  LET there(s) == {(c \in Discovery!Available(w.rows[s])) : w \in meantime}
             IN  IF c \in sheet.final THEN \E s \in scope \ sheet.skipped : TRUE \in there(s)
                 ELSE \A s \in scope \ sheet.skipped : FALSE \in there(s)
  <2> DEFINE There(w, s) == c \in Discovery!Available(w.rows[s])
             there(s) == {There(w, s) : w \in meantime}
  <2>1. Done = scope \ sheet.skipped
    BY <1>2, <1>4 DEF Done
  <2>2. /\ c \in sheet.final => \E s \in Done : \E w \in meantime : There(w, s)
        /\ c \notin sheet.final => \A s \in Done : \E w \in meantime : ~There(w, s)
    BY <1>4 DEF SheetInv, PageTrue, Stored
  <2>3. \A w, s : There(w, s) \in BOOLEAN
    OBVIOUS
  <2> HIDE DEF There
  <2>4. CASE c \in sheet.final
    <3>1. PICK s \in Done : \E w \in meantime : There(w, s) = TRUE
      BY <2>2, <2>3, <2>4
    <3>2. TRUE \in there(s)
      BY <3>1
    <3> QED BY <2>1, <2>4, <3>2 DEF There
  <2>5. CASE c \notin sheet.final
    <3>1. ASSUME NEW s \in Done PROVE FALSE \in there(s)
      <4>1. PICK w \in meantime : There(w, s) = FALSE
        BY <2>2, <2>3, <2>5
      <4> QED BY <4>1
    <3> QED BY <2>1, <2>5, <3>1 DEF There
  <2> QED BY <2>4, <2>5
<1> QED BY <1>1, <1>3, <1>4 DEF Discovery!DiscoveryHonest

\* What Discover finds of a server, and what the matrix and the page of
\* capabilities show of what is stored, was true of some moment while it was asked
\* or made: of every number of capabilities, servers and changes.
THEOREM ShownHonest == MCSpec => []DiscoveryHonest
<1>1. MCInit => PassInv /\ SheetInv
  <2> SUFFICES ASSUME MCInit PROVE PassInv /\ SheetInv
    OBVIOUS
  <2>1. /\ pass = [n |-> 0, at |-> "none", said |-> << >>, set |-> << >>] /\ failures = 0
        /\ sheet = [kind |-> "none", server |-> "none", todo |-> << >>, rows |-> << >>,
                    final |-> {}, skipped |-> {}]
    BY DEF MCInit, Discovery!Init, Discovery!NoPass, Discovery!NoSheet
  <2>2. PassInv
    BY <2>1 DEF PassInv, PassShape, PassTrue, Places, Asking
  <2>3. SheetInv
    BY <2>1 DEF SheetInv, SheetShape, MatrixTrue, PageTrue
  <2> QED BY <2>2, <2>3
<1>2. PassInv /\ SheetInv /\ [MCNext]_<<vars, about, discovery, browser>> => PassInv' /\ SheetInv'
  <2> SUFFICES ASSUME PassInv, SheetInv, [MCNext]_<<vars, about, discovery, browser>>
               PROVE  PassInv' /\ SheetInv'
    OBVIOUS
  <2>1. Discovery!Next \/ UNCHANGED discovery
    BY DEF MCNext
  <2>2. CASE Discovery!Next
    BY <2>2, PassSteps, SheetSteps
  <2>3. CASE UNCHANGED discovery
    <3>1. UNCHANGED <<facts, pass, moments, found, rows, sheet, meantime, failures>>
      BY <2>3 DEF discovery
    <3>2. PassInv'
      BY <3>1, PassRests
    <3>3. SheetInv'
      BY <3>1, SheetStays DEF SheetInv, SheetShape, Here
    <3> QED BY <3>2, <3>3
  <2> QED BY <2>1, <2>2, <2>3
<1>3. PassInv /\ SheetInv => DiscoveryHonest
  BY PassIsHonest, SheetIsHonest DEF DiscoveryHonest
<1> QED BY <1>1, <1>2, <1>3, PTL DEF MCSpec


-----------------------------------------------------------------------------
(* Browse: scopes.                                                         *)

\* Strings; those of the code are named, of which the provers know no more
\* than that they differ.
Word == STRING \cup {"cluster", "node", "pooler", "db"}
Text == Seq(Word) \ {<< >>}

\* What the text of a link or of the address bar can mean.
Good(sc) ==
  \/ sc = Browser!Fleet
  \/ \E c \in Text : sc = Browser!At("cluster", c, << >>)
  \/ \E c \in Word : \E rest \in Text : sc = Browser!At("node", <<c>>, rest)
  \/ \E rest \in Text : sc = Browser!At("pooler", << >>, rest)
  \/ \E c \in Word : \E rest \in Text : sc = Browser!At("database", <<c>>, rest)

LEMMA GoodKinds ==
  ASSUME NEW sc, Good(sc)
  PROVE  /\ sc.kind \in {"fleet", "cluster", "node", "pooler", "database"}
         /\ sc.kind \in {"cluster", "node", "database"} => sc.cluster # << >>
<1> USE DEF Browser!Fleet, Browser!At, Browser!NoName
<1>1. CASE sc = Browser!Fleet
  BY <1>1
<1>2. ASSUME NEW c \in Text, sc = Browser!At("cluster", c, << >>)
      PROVE  sc.kind = "cluster" /\ sc.cluster # << >>
  BY <1>2 DEF Text
<1>3. ASSUME NEW rest, sc = Browser!At("pooler", << >>, rest)
      PROVE  sc.kind = "pooler"
  BY <1>3
<1>4. ASSUME NEW kind \in {"node", "database"}, NEW c, NEW rest, sc = Browser!At(kind, <<c>>, rest)
      PROVE  sc.kind = kind /\ sc.cluster # << >>
  BY <1>4
<1> QED BY <1>1, <1>2, <1>3, <1>4 DEF Good

LEMMA ParseGood ==
  ASSUME NEW raw \in Seq(Word)
  PROVE  Good(Browser!Parse(raw))
<1> USE DEF Browser!Parse, Browser!NoName, Text
<1>1. CASE Len(raw) > 1 /\ Head(raw) = "cluster"
  <2>1. Tail(raw) \in Text
    BY <1>1
  <2>2. Browser!Parse(raw) = Browser!At("cluster", Tail(raw), << >>)
    BY <1>1
  <2> QED BY <2>1, <2>2 DEF Good
<1>2. CASE Len(raw) > 2 /\ Head(raw) \in {"node", "db"}
  <2>1. PICK rest : rest = SubSeq(raw, 3, Len(raw))
    OBVIOUS
  <2>2. \A i \in 3..Len(raw) : raw[i] \in Word
    OBVIOUS
  <2>3. rest \in Seq(Word) /\ Len(rest) = Len(raw) - 2
    BY <1>2, <2>1, <2>2, SubSeqProperties
  <2>4. rest \in Text /\ raw[2] \in Word
    <3>1. Len(rest) > 0
      BY <1>2, <2>3
    <3> QED BY <1>2, <2>3, <3>1
  <2>5. CASE Head(raw) = "node"
    <3>1. Browser!Parse(raw) = Browser!At("node", <<raw[2]>>, rest)
      BY <1>2, <2>1, <2>5
    <3> QED BY <2>4, <3>1 DEF Good
  <2>6. CASE Head(raw) = "db"
    <3>1. Browser!Parse(raw) = Browser!At("database", <<raw[2]>>, rest)
      BY <1>2, <2>1, <2>6
    <3> QED BY <2>4, <3>1 DEF Good
  <2> QED BY <1>2, <2>5, <2>6
<1>3. CASE Len(raw) > 1 /\ Head(raw) = "pooler"
  <2>1. Tail(raw) \in Text
    BY <1>3
  <2>2. Browser!Parse(raw) = Browser!At("pooler", << >>, Tail(raw))
    BY <1>3
  <2> QED BY <2>1, <2>2 DEF Good
<1> QED BY <1>1, <1>2, <1>3 DEF Good

LEMMA SingleIn ==
  ASSUME NEW S, NEW x \in S
  PROVE  <<x>> \in Seq(S)
OBVIOUS

LEMMA PrefixedIn ==
  ASSUME NEW S, NEW word \in S, NEW rest \in Seq(S), rest # << >>, NEW raw, raw = <<word>> \o rest
  PROVE  /\ raw \in Seq(S) /\ raw # << >> /\ Len(raw) > 1 /\ Len(raw) = Len(rest) + 1
         /\ Head(raw) = word /\ raw[1] = word /\ Tail(raw) = rest
         /\ \A i \in 1..Len(rest) : raw[i + 1] = rest[i]
<1>1. Len(rest) \in Nat /\ Len(rest) # 0
  BY EmptySeq, LenProperties
<1>2. <<word>> \in Seq(S) /\ Len(<<word>>) = 1 /\ <<word>>[1] = word
  OBVIOUS
<1>3. /\ raw \in Seq(S) /\ Len(raw) = 1 + Len(rest)
      /\ \A i \in 1..1 + Len(rest) : raw[i] = IF i <= 1 THEN <<word>>[i] ELSE rest[i - 1]
  BY <1>1, <1>2, ConcatProperties
<1>4. Head(raw) = word /\ raw[1] = word /\ Len(raw) > 1 /\ raw # << >>
  BY <1>1, <1>2, <1>3
<1>5. \A i \in 1..Len(rest) : raw[i + 1] = rest[i]
  BY <1>1, <1>3
<1>6. Tail(raw) \in Seq(S) /\ Len(Tail(raw)) = Len(rest)
  BY <1>1, <1>3, <1>4, HeadTailProperties
<1>7. \A i \in 1..Len(rest) : Tail(raw)[i] = raw[i + 1]
  BY <1>3, <1>4, <1>6, HeadTailProperties
<1>8. Tail(raw) = rest
  BY <1>1, <1>5, <1>6, <1>7, SeqEqual
<1> QED BY <1>1, <1>3, <1>4, <1>5, <1>8

Heads(raw, word, rest) ==
  /\ raw \in Text /\ Len(raw) > 1 /\ Len(raw) = Len(rest) + 1
  /\ Head(raw) = word /\ raw[1] = word /\ Tail(raw) = rest
  /\ \A i \in 1..Len(rest) : raw[i + 1] = rest[i]

LEMMA Prefixed ==
  ASSUME NEW word \in Word, NEW rest \in Text, NEW raw, raw = <<word>> \o rest
  PROVE  Heads(raw, word, rest)
<1>1. rest \in Seq(Word) /\ rest # << >>
  BY DEF Text
<1>2. /\ raw \in Seq(Word) /\ raw # << >> /\ Len(raw) > 1 /\ Len(raw) = Len(rest) + 1
      /\ Head(raw) = word /\ raw[1] = word /\ Tail(raw) = rest
      /\ \A i \in 1..Len(rest) : raw[i + 1] = rest[i]
  BY <1>1, PrefixedIn
<1> QED BY <1>2 DEF Text, Heads

Splits(raw, word, c, rest) ==
  /\ raw \in Seq(Word) /\ Len(raw) > 2 /\ Head(raw) = word /\ raw[2] = c
  /\ SubSeq(raw, 3, Len(raw)) = rest

LEMMA PrefixedTwice ==
  ASSUME NEW word \in Word, NEW c \in Word, NEW rest \in Text, NEW raw, raw = <<word>> \o <<c>> \o rest
  PROVE  Splits(raw, word, c, rest)
<1>1. PICK own : own = <<c>> \o rest
  OBVIOUS
<1>2. /\ own \in Text /\ Len(own) = Len(rest) + 1 /\ own[1] = c
      /\ \A i \in 1..Len(rest) : own[i + 1] = rest[i]
  <2>1. Heads(own, c, rest)
    BY <1>1, Prefixed
  <2> QED BY <2>1 DEF Heads
<1>3. raw = <<word>> \o own
  <2>1. <<word>> \in Seq(Word) /\ <<c>> \in Seq(Word) /\ rest \in Seq(Word)
    BY SingleIn DEF Text
  <2> QED BY <1>1, <2>1, ConcatAssociative
<1>4. /\ raw \in Text /\ Len(raw) = Len(own) + 1 /\ Head(raw) = word
      /\ \A i \in 1..Len(own) : raw[i + 1] = own[i]
  <2>1. own \in Text
    BY <1>2
  <2>2. Heads(raw, word, own)
    BY <1>3, <2>1, Prefixed
  <2> QED BY <2>2 DEF Heads
<1>5. PICK n \in Nat : n = Len(rest) /\ n > 0 /\ Len(own) = n + 1 /\ Len(raw) = n + 2
  BY <1>2, <1>4 DEF Text
<1>6. /\ \A i \in 1..n + 1 : own[i] = raw[i + 1]
      /\ \A i \in 1..n : rest[i] = own[i + 1]
  BY <1>2, <1>4, <1>5
<1>7. raw[2] = c
  <2>1. raw[1 + 1] = own[1]
    BY <1>5, <1>6
  <2>2. raw[2] = own[1]
    BY <2>1
  <2> QED BY <1>2, <2>2
<1>8. \A i \in 1..n : rest[i] = raw[i + 2]
  BY <1>5, <1>6
<1>9. SubSeq(raw, 3, Len(raw)) = rest
  <2>1. PICK tail : tail = SubSeq(raw, 3, n + 2)
    OBVIOUS
  <2>2. \A i \in 3..n + 2 : raw[i] \in Word
    BY <1>4, <1>5 DEF Text
  <2>3. tail \in Seq(Word) /\ Len(tail) = n /\ \A i \in 1..n : tail[i] = raw[3 + i - 1]
    BY <1>5, <2>1, <2>2, SubSeqProperties
  <2>4. \A i \in 1..n : tail[i] = rest[i]
    BY <1>5, <1>8, <2>3
  <2>5. tail = rest
    BY <1>5, <2>3, <2>4, SeqEqual DEF Text
  <2> QED BY <1>5, <2>1, <2>5
<1>10. raw \in Seq(Word) /\ Len(raw) > 2
  BY <1>4, <1>5 DEF Text
<1> QED BY <1>4, <1>7, <1>9, <1>10 DEF Splits

\* A link leads back to the scope that it was made of.
LEMMA RoundTrip ==
  ASSUME NEW sc, Good(sc)
  PROVE  Browser!Parse(Browser!Encode(sc)) = sc /\ Browser!Encode(sc) \in Seq(Word)
<1> USE DEF Browser!Parse, Browser!Encode, Browser!At, Browser!Fleet, Browser!NoName
<1>0. "cluster" \in Word /\ "node" \in Word /\ "pooler" \in Word /\ "db" \in Word
  BY DEF Word
<1>1. CASE sc = Browser!Fleet
  BY <1>1
<1>2. ASSUME NEW c \in Text, sc = Browser!At("cluster", c, << >>)
      PROVE  Browser!Parse(Browser!Encode(sc)) = sc /\ Browser!Encode(sc) \in Seq(Word)
  <2>1. PICK raw : raw = <<"cluster">> \o c
    OBVIOUS
  <2>2. raw \in Text /\ Len(raw) > 1 /\ Head(raw) = "cluster" /\ Tail(raw) = c
    BY <1>0, <2>1, Prefixed DEF Heads
  <2> QED BY <1>2, <2>1, <2>2 DEF Text
<1>3. ASSUME NEW rest \in Text, sc = Browser!At("pooler", << >>, rest)
      PROVE  Browser!Parse(Browser!Encode(sc)) = sc /\ Browser!Encode(sc) \in Seq(Word)
  <2>1. PICK raw : raw = <<"pooler">> \o rest
    OBVIOUS
  <2>2. raw \in Text /\ Len(raw) > 1 /\ Head(raw) = "pooler" /\ Tail(raw) = rest
    BY <1>0, <2>1, Prefixed DEF Heads
  <2> QED BY <1>3, <2>1, <2>2 DEF Text
<1>4. ASSUME NEW c \in Word, NEW rest \in Text, sc = Browser!At("node", <<c>>, rest)
      PROVE  Browser!Parse(Browser!Encode(sc)) = sc /\ Browser!Encode(sc) \in Seq(Word)
  <2>1. PICK word : word = "node"
    OBVIOUS
  <2>2. PICK raw : raw = <<word>> \o <<c>> \o rest
    OBVIOUS
  <2>3. word \in Word
    BY <1>0, <2>1
  <2>4. Splits(raw, word, c, rest)
    BY <2>2, <2>3, PrefixedTwice
  <2> QED BY <1>4, <2>1, <2>2, <2>4 DEF Splits
<1>5. ASSUME NEW c \in Word, NEW rest \in Text, sc = Browser!At("database", <<c>>, rest)
      PROVE  Browser!Parse(Browser!Encode(sc)) = sc /\ Browser!Encode(sc) \in Seq(Word)
  <2>1. PICK word : word = "db"
    OBVIOUS
  <2>2. PICK raw : raw = <<word>> \o <<c>> \o rest
    OBVIOUS
  <2>3. word \in Word
    BY <1>0, <2>1
  <2>4. Splits(raw, word, c, rest)
    BY <2>2, <2>3, PrefixedTwice
  <2> QED BY <1>5, <2>1, <2>2, <2>4 DEF Splits
<1> QED BY <1>1, <1>2, <1>3, <1>4, <1>5 DEF Good

-----------------------------------------------------------------------------
(* Browse: what a page that is shown can be relied on for.                 *)

Exists(sc, cs) == \E c \in cs : sc.cluster = <<c>>

Offered(sc, cs) == Good(sc) /\ (sc.kind = "cluster" => Exists(sc, cs))

\* The console has a target, and what its scope fixes is fixed.
ConsoleGood(k, cs) ==
  /\ Good(k.scope) /\ Exists(k.scope, cs)
  /\ k.scope.kind = "node" =>
       k.node = Browser!Blank \/ \A n \in Nodes : k.scope.rest = <<n>> => NodeName[n] = k.node
  /\ k.scope.kind = "database" => k.db = k.scope.rest

PageShape(p) == p = [screen |-> p.screen, scope |-> p.scope, offers |-> p.offers, console |-> p.console]

PageGood(p, cs) ==
  /\ PageShape(p) /\ Good(p.scope)
  /\ \A sc \in p.offers : Offered(sc, cs)
  /\ p.screen \in Browser!Search => "search" \in Verticals
  /\ p.screen \in Browser!Cache => "cache" \in Verticals
  /\ p.screen = "clusterdetail" => p.scope.kind = "cluster"
  /\ p.screen = "console" =>
       /\ ConsoleGood(p.console, cs)
       /\ p.console.name = Browser!Blank => Exists(p.scope, cs)

RunsThere(r) ==
  /\ <<ClusterOf[r.at]>> = r.scope.cluster
  /\ NodeName[r.at] = r.node /\ DatabaseName[r.server] = r.db
  /\ r.scope.kind = "node" => \A n \in Nodes : r.scope.rest = <<n>> => NodeName[n] = r.node
  /\ r.scope.kind = "database" => r.scope.rest = r.db

RegistryGood == clusters \subseteq Word /\ nodes \subseteq Nodes

PageInv == \A p, cs : p = page /\ cs = clusters /\ p # Browser!NotFound => PageGood(p, cs)

TabInv == RegistryGood /\ PageInv /\ Browser!ScopeKept /\ Browser!RanWhereShown

LEMMA SeqOfMore ==
  ASSUME NEW S, NEW T, S \subseteq T, NEW s \in Seq(S)
  PROVE  s \in Seq(T)
OBVIOUS

LEMMA WordsOfNames ==
  /\ Nodes \subseteq Word /\ Browser!Clusters \subseteq Word
  /\ \A n \in Nodes : ClusterOf[n] \in Word
  /\ \A s \in Servers : DatabaseName[s] \in Seq(Word)
  /\ \A a \in Addresses : a.scope \in Seq(Word)
<1>1. STRING \subseteq Word
  BY DEF Word
<1>2. ASSUME NEW s \in Seq(STRING)
      PROVE  s \in Seq(Word)
  BY <1>1, SeqOfMore
<1>3. Nodes \subseteq Word /\ \A n \in Nodes : ClusterOf[n] \in Word
  BY <1>1, BrowseAssumption
<1>4. \A s \in Servers : DatabaseName[s] \in Seq(Word)
  BY <1>2, BrowseAssumption
<1>5. \A a \in Addresses : a.scope \in Seq(Word)
  BY <1>2, BrowseAssumption
<1>6. Browser!Clusters \subseteq Word
  <2>1. \A i \in DOMAIN Order : Order[i] \in STRING
    BY BrowseAssumption
  <2> QED BY <1>1, <2>1 DEF Browser!Clusters, Browser!Range
<1> QED BY <1>3, <1>4, <1>5, <1>6

LEMMA ClusterGood ==
  ASSUME NEW c \in Word
  PROVE  Good(Browser!Cluster(c))
<1>1. <<c>> \in Text
  BY SingleIn DEF Text
<1> QED BY <1>1 DEF Good, Browser!Cluster, Browser!NoName

LEMMA OffersGood ==
  ASSUME RegistryGood, NEW lost, NEW sc \in Browser!scopeOptions(lost)
  PROVE  Offered(sc, clusters)
<1>1. PICK c \in clusters :
        \/ sc = Browser!Cluster(c)
        \/ \E n \in nodes : sc = Browser!NodeScope(n)
        \/ \E d \in Browser!DatabasesAt(nodes) : sc = Browser!At("database", <<c>>, d)
  <2>1. ASSUME NEW ns, ns \subseteq nodes
        PROVE  Browser!DatabasesAt(ns) \subseteq Browser!DatabasesAt(nodes)
    BY <2>1 DEF Browser!DatabasesAt
  <2>2. PICK c \in clusters :
          \E ns, ss : /\ ns \subseteq nodes /\ ss \subseteq nodes
                     /\ sc \in {Browser!Cluster(c)} \cup {Browser!NodeScope(n) : n \in ns}
                           \cup {Browser!At("database", <<c>>, d) : d \in Browser!DatabasesAt(ss)}
    <3>1. sc \in UNION {LET ns == IF <<"instances", c>> \in lost THEN {} ELSE Browser!ListInstances(<<c>>)
                           ss == {n \in ns : <<"streams", n>> \notin lost}
                       IN {Browser!Cluster(c)} \cup {Browser!NodeScope(n) : n \in ns}
                            \cup {Browser!At("database", <<c>>, d) : d \in Browser!DatabasesAt(ss)} : c \in clusters}
      BY DEF Browser!scopeOptions
    <3>2. \A c \in clusters : (IF <<"instances", c>> \in lost THEN {} ELSE Browser!ListInstances(<<c>>)) \subseteq nodes
      BY DEF Browser!ListInstances
    <3> QED BY <3>1, <3>2
  <2> QED BY <2>1, <2>2
<1>2. CASE sc = Browser!Cluster(c)
  <2>1. Good(sc)
    BY <1>2, ClusterGood DEF RegistryGood
  <2>2. Exists(sc, clusters)
    BY <1>2 DEF Exists, Browser!Cluster, Browser!At
  <2> QED BY <2>1, <2>2 DEF Offered
<1>3. ASSUME NEW n \in nodes, sc = Browser!NodeScope(n)
      PROVE  Offered(sc, clusters)
  <2>1. n \in Word /\ ClusterOf[n] \in Word
    BY WordsOfNames DEF RegistryGood
  <2>2. <<n>> \in Text
    BY <2>1, SingleIn DEF Text
  <2>3. sc = Browser!At("node", <<ClusterOf[n]>>, <<n>>)
    BY <1>3 DEF Browser!NodeScope
  <2>4. Good(sc)
    BY <2>1, <2>2, <2>3 DEF Good
  <2> QED BY <2>3, <2>4 DEF Offered, Browser!At
<1>4. ASSUME NEW d \in Browser!DatabasesAt(nodes), sc = Browser!At("database", <<c>>, d)
      PROVE  Offered(sc, clusters)
  <2>1. d \in Text
    <3>1. \E s \in Servers : d = DatabaseName[s] /\ d # << >>
      BY DEF Browser!DatabasesAt, Browser!ListServerStreams, Browser!NoName
    <3> QED BY <3>1, WordsOfNames DEF Text
  <2>2. c \in Word
    BY DEF RegistryGood
  <2>3. Good(sc)
    BY <1>4, <2>1, <2>2 DEF Good
  <2> QED BY <1>4, <2>3 DEF Offered, Browser!At
<1> QED BY <1>1, <1>2, <1>3, <1>4

\* The target of a console that answers.
LEMMA FromQuery ==
  ASSUME RegistryGood, NEW q, q.scope \in Seq(Word), NEW sc, sc = Browser!ClusterFromQuery(q),
         sc # Browser!Fleet
  PROVE  Good(sc) /\ Exists(sc, clusters) /\ (q.name = Browser!Blank => sc = Browser!Parse(q.scope))
<1>1. PICK own : own = Browser!Parse(q.scope)
  OBVIOUS
<1>2. Good(own)
  BY <1>1, ParseGood
<1>3. CASE own.cluster # Browser!NoName
  <2>1. sc = own /\ \E c \in clusters : own.cluster = <<c>>
    BY <1>1, <1>3 DEF Browser!ClusterFromQuery
  <2> QED BY <1>1, <1>2, <2>1 DEF Exists
<1>4. CASE own.cluster = Browser!NoName
  <2>1. PICK c \in Browser!Named(q.name) : sc = Browser!Cluster(c) /\ q.name # Browser!Blank
    BY <1>1, <1>4 DEF Browser!ClusterFromQuery
  <2>2. c \in clusters
    BY <2>1 DEF Browser!Named, Browser!IsNamed
  <2>3. Good(sc)
    BY <2>1, <2>2, ClusterGood DEF RegistryGood
  <2>4. sc.cluster = <<c>>
    BY <2>1 DEF Browser!Cluster, Browser!At
  <2> QED BY <2>1, <2>2, <2>3, <2>4 DEF Exists
<1> QED BY <1>3, <1>4

\* A link to a console of a cluster that there is answers, at the scope it was made of.
LEMMA KnownAnswers ==
  ASSUME NEW sc, Good(sc), Exists(sc, clusters), NEW q, q.scope = Browser!Encode(sc)
  PROVE  Browser!ClusterFromQuery(q) = sc /\ sc # Browser!Fleet
<1>1. Browser!Parse(q.scope) = sc
  BY RoundTrip
<1>2. sc.cluster # Browser!NoName
  BY DEF Exists, Browser!NoName
<1>3. Browser!ClusterFromQuery(q) = sc
  BY <1>1, <1>2 DEF Browser!ClusterFromQuery, Exists
<1> QED BY <1>2, <1>3 DEF Browser!Fleet, Browser!At, Browser!NoName

LEMMA ConsoleIsGood ==
  ASSUME RegistryGood, NEW q, q.scope \in Seq(Word), Browser!ClusterFromQuery(q) # Browser!Fleet,
         NEW k, k = Browser!Console(q)
  PROVE  /\ ConsoleGood(k, clusters) /\ k.name = q.name
         /\ k.scope = Browser!ClusterFromQuery(q)
<1>1. PICK sc : sc = Browser!ClusterFromQuery(q)
  OBVIOUS
<1>2. PICK own : own = {n \in Browser!ListInstances(sc.cluster) : sc.rest = <<n>>}
  OBVIOUS
<1>3. /\ k.scope = sc /\ k.name = q.name
      /\ k.node = IF sc.kind # "node" THEN q.node
                  ELSE IF own = {} THEN Browser!Blank ELSE NodeName[CHOOSE n \in own : TRUE]
      /\ k.db = IF sc.kind = "database" THEN sc.rest ELSE q.db
  BY <1>1, <1>2 DEF Browser!Console
<1>4. Good(sc) /\ Exists(sc, clusters)
  BY <1>1, FromQuery
<1>5. ASSUME sc.kind = "node", own # {}, NEW n \in Nodes, sc.rest = <<n>>
      PROVE  NodeName[n] = k.node
  <2>1. PICK m : m = CHOOSE n1 \in own : TRUE
    OBVIOUS
  <2>2. m \in own
    BY <1>5, <2>1
  <2>3. <<m>> = <<n>>
    BY <1>2, <1>5, <2>2
  <2>4. m = n
    BY <2>3
  <2> QED BY <1>3, <1>5, <2>1, <2>4
<1> QED BY <1>1, <1>3, <1>4, <1>5 DEF ConsoleGood

\* A page that a request is answered with.
LEMMA ShownGood ==
  ASSUME RegistryGood, NEW q, q.scope \in Seq(Word), NEW p \in Browser!Shown(q), p # Browser!NotFound
  PROVE  /\ PageGood(p, clusters) /\ p.scope = Browser!Parse(q.scope)
         /\ p.screen = q.screen
         /\ p.screen = "console" => p.console.scope = Browser!ClusterFromQuery(q)
<1>1. PICK lost : p = Browser!Page(q, lost) /\ Browser!Answers(q)
  BY DEF Browser!Shown
<1>2. p = [screen |-> q.screen, scope |-> Browser!Parse(q.scope), offers |-> Browser!scopeOptions(lost),
           console |-> IF q.screen = "console" THEN Browser!Console(q) ELSE << >>]
  BY <1>1 DEF Browser!Page
<1>3. /\ p.screen = q.screen /\ p.scope = Browser!Parse(q.scope) /\ PageShape(p)
      /\ p.offers = Browser!scopeOptions(lost)
      /\ p.screen = "console" => p.console = Browser!Console(q)
  BY <1>2 DEF PageShape
<1>4. Good(p.scope)
  BY <1>3, ParseGood
<1>5. \A sc \in p.offers : Offered(sc, clusters)
  BY <1>3, OffersGood
<1>6. /\ p.screen \in Browser!Search => "search" \in Verticals
      /\ p.screen \in Browser!Cache => "cache" \in Verticals
      /\ p.screen = "clusterdetail" => p.scope.kind = "cluster"
      /\ p.screen = "console" => Browser!ClusterFromQuery(q) # Browser!Fleet
  BY <1>1, <1>3 DEF Browser!Answers, Browser!Search, Browser!Cache
<1>7. ASSUME p.screen = "console"
      PROVE  /\ ConsoleGood(p.console, clusters) /\ p.console.name = q.name
             /\ p.console.scope = Browser!ClusterFromQuery(q)
  BY <1>3, <1>6, <1>7, ConsoleIsGood
<1>8. ASSUME p.screen = "console", p.console.name = Browser!Blank
      PROVE  Exists(p.scope, clusters)
  BY <1>3, <1>6, <1>7, <1>8, FromQuery
<1> QED BY <1>3, <1>4, <1>5, <1>6, <1>7, <1>8 DEF PageGood

LEMMA GoodLater ==
  ASSUME NEW cs, NEW ds, cs \subseteq ds, NEW p, PageGood(p, cs)
  PROVE  PageGood(p, ds)
<1>1. \A sc : Exists(sc, cs) => Exists(sc, ds)
  BY DEF Exists
<1>2. \A sc : Offered(sc, cs) => Offered(sc, ds)
  BY <1>1 DEF Offered
<1>3. \A k : ConsoleGood(k, cs) => ConsoleGood(k, ds)
  BY <1>1 DEF ConsoleGood
<1> QED BY <1>1, <1>2, <1>3 DEF PageGood

\* The links of such a page.
LEMMA LinksAnswer ==
  ASSUME Browser!Rendered, Browser!Known(page.scope), PageGood(page, clusters)
  PROVE  \A q \in Browser!Links : Browser!Answers(q)
<1>1. Good(page.scope)
  BY DEF PageGood
<1>2. page.scope.cluster # << >> => Exists(page.scope, clusters)
  BY DEF Browser!Known, Browser!NoName, Exists
<1>3. ASSUME NEW sc, Good(sc), NEW x, x \in Browser!ScreenPath, NEW q, q = Browser!NavHref(sc, x),
             x \in Browser!Search => "search" \in Verticals,
             x \in Browser!Cache => "cache" \in Verticals,
             x = "clusterdetail" => sc.kind = "cluster" /\ Exists(sc, clusters),
             x = "console" => Exists(sc, clusters)
      PROVE  Browser!Answers(q)
  <2>1. q.screen = x /\ q.scope = Browser!Encode(sc)
    BY <1>3 DEF Browser!NavHref, Browser!Get, Browser!Path
  <2>2. Browser!Parse(q.scope) = sc
    BY <1>3, <2>1, RoundTrip
  <2>3. x = "console" => Browser!ClusterFromQuery(q) # Browser!Fleet
    BY <1>3, <2>1, KnownAnswers
  <2> QED BY <1>3, <2>1, <2>2, <2>3 DEF Browser!Answers, Exists, Browser!Search, Browser!Cache
<1>4. ASSUME NEW x \in Browser!BuildNav(page.scope)
      PROVE  Browser!Answers(Browser!NavHref(page.scope, x))
  <2>1. page.scope.kind \in {"fleet", "cluster", "node", "pooler", "database"}
    BY <1>1, GoodKinds
  <2>2. x \in Browser!ScreenPath /\ x \notin Browser!Search /\ x \notin Browser!Cache
    BY <2>1 DEF Browser!BuildNav, Browser!ScreenPath, Browser!Search, Browser!Cache, Browser!Low,
                Browser!Queries, Browser!Advisors
  <2>3. x = "clusterdetail" => page.scope.kind = "cluster"
    BY <2>1 DEF Browser!BuildNav, Browser!Low, Browser!Queries, Browser!Advisors
  <2>4. x = "console" => page.scope.kind \in {"cluster", "node", "database"}
    BY <2>1 DEF Browser!BuildNav, Browser!Low, Browser!Queries, Browser!Advisors
  <2>5. page.scope.kind \in {"cluster", "node", "database"} => page.scope.cluster # << >>
    BY <1>1, GoodKinds
  <2> QED BY <1>1, <1>2, <1>3, <2>2, <2>3, <2>4, <2>5
<1>5. ASSUME NEW sc \in page.offers \cup {Browser!Fleet}
      PROVE  Browser!Answers(Browser!ScopeHref(sc))
  <2>1. Good(sc) /\ (sc.kind = "cluster" => Exists(sc, clusters))
    BY DEF PageGood, Offered, Good, Browser!Fleet, Browser!At
  <2>2. PICK x : x = Browser!scopeOverviewScreen(sc)
    OBVIOUS
  <2>3. /\ x \in {"clusterdetail", "nodes", "databases", "fleet"}
        /\ x = "clusterdetail" => sc.kind = "cluster"
    BY <2>1, <2>2 DEF Browser!scopeOverviewScreen, Good, Browser!Fleet, Browser!At
  <2>4. x \in Browser!ScreenPath /\ x \notin Browser!Search /\ x \notin Browser!Cache /\ x # "console"
    BY <2>3 DEF Browser!ScreenPath, Browser!Search, Browser!Cache
  <2>5. Browser!Answers(Browser!NavHref(sc, x))
    BY <1>3, <2>1, <2>3, <2>4
  <2> QED BY <2>2, <2>5 DEF Browser!ScopeHref
<1>6. ASSUME NEW q, q = Browser!RangeOptions(page.scope, page.screen),
             page.screen = "console" => Exists(page.scope, clusters)
      PROVE  Browser!Answers(q)
  <2>1. CASE page.screen \in Browser!ScreenPath
    <3>1. q = Browser!NavHref(page.scope, page.screen)
      BY <1>6 DEF Browser!RangeOptions, Browser!NavHref
    <3>2. page.screen = "clusterdetail" => page.scope.kind = "cluster" /\ Exists(page.scope, clusters)
      <4>1. page.scope.kind = "cluster" => page.scope.cluster # << >>
        BY <1>1, GoodKinds
      <4> QED BY <1>2, <4>1 DEF PageGood
    <3>3. /\ page.screen \in Browser!Search => "search" \in Verticals
          /\ page.screen \in Browser!Cache => "cache" \in Verticals
      BY DEF PageGood
    <3>4. PICK x : x = page.screen
      OBVIOUS
    <3> QED BY <1>1, <1>3, <1>6, <2>1, <3>1, <3>2, <3>3, <3>4
  <2>2. CASE page.screen \notin Browser!ScreenPath
    <3>1. q.screen = "fleet"
      BY <1>6, <2>2 DEF Browser!RangeOptions, Browser!Get, Browser!Path
    <3> QED BY <3>1 DEF Browser!Answers, Browser!Search, Browser!Cache
  <2> QED BY <2>1, <2>2
<1>7. ASSUME page.screen = "console", NEW q \in Browser!consoleChips(page.console)
      PROVE  Browser!Answers(q)
  <2>1. q.screen = "console" /\ q.scope = Browser!Encode(page.console.scope)
    BY DEF Browser!consoleChips, Browser!Chip, Browser!Get
  <2>2. Good(page.console.scope) /\ Exists(page.console.scope, clusters)
    BY <1>7 DEF PageGood, ConsoleGood
  <2>3. PICK sc : sc = page.console.scope
    OBVIOUS
  <2>4. Browser!ClusterFromQuery(q) # Browser!Fleet
    BY <2>1, <2>2, <2>3, KnownAnswers
  <2> QED BY <2>1, <2>4 DEF Browser!Answers, Browser!Search, Browser!Cache
<1>8. page.screen = "console" /\ page.console.name = Browser!Blank => Exists(page.scope, clusters)
  BY DEF PageGood
<1> QED BY <1>4, <1>5, <1>6, <1>7, <1>8 DEF Browser!Links

\* What runs with a target that its scope allows, runs there.
LEMMA RunsWhereShown ==
  ASSUME RegistryGood, NEW sc, NEW node, NEW db, NEW r \in Browser!Ran(sc, node, db), r # Browser!NoRun,
         sc.kind = "node" => node = Browser!Blank \/ \A n \in Nodes : sc.rest = <<n>> => NodeName[n] = node,
         sc.kind = "database" => db = sc.rest
  PROVE  RunsThere(r)
<1>1. PICK s \in Browser!resolveConsoleTarget(sc.cluster, node, db) :
        r = [scope |-> sc, node |-> node, db |-> db, server |-> s, at |-> home[s]]
  BY DEF Browser!Ran
<1>2. /\ r.scope = sc /\ r.node = node /\ r.db = db /\ r.server = s /\ r.at = home[s]
  BY <1>1
<1>3. DatabaseName[s] = db
  BY <1>1 DEF Browser!resolveConsoleTarget
<1>4. PICK n \in nodes : home[s] = n /\ <<ClusterOf[n]>> = sc.cluster /\ NodeName[n] = node
  BY <1>1 DEF Browser!resolveConsoleTarget, Browser!ListInstances
<1>5. node # Browser!Blank
  BY <1>4, BrowseAssumption DEF RegistryGood
<1> QED BY <1>2, <1>3, <1>4, <1>5 DEF RunsThere

-----------------------------------------------------------------------------
(* Browse: the steps of a tab.                                             *)

\* Whatever is opened at the scope that its link carries.
LEMMA OpenKeeps ==
  ASSUME RegistryGood, NEW q, NEW chosen, q.scope \in Seq(Word), Browser!Parse(q.scope) = chosen,
         Browser!Open(q, chosen)
  PROVE  RegistryGood' /\ PageInv' /\ Browser!ScopeKept'
<1> USE DEF Browser!Open
<1>1. UNCHANGED <<clusters, nodes, home>>
  BY DEF Browser!registry
<1>2. RegistryGood'
  BY <1>1 DEF RegistryGood
<1>3. PICK p : p = page' /\ p \in Browser!Shown(q)
  OBVIOUS
<1>4. PICK cs : cs = clusters /\ cs = clusters'
  BY <1>1
<1>5. PICK shown : shown = picked' /\ shown.shell = chosen
                   /\ (q.screen = "console" => shown.console = Browser!ClusterFromQuery(q))
  OBVIOUS
<1>6. CASE p = Browser!NotFound
  BY <1>2, <1>3, <1>6 DEF PageInv, Browser!ScopeKept, Browser!Rendered
<1>7. CASE p # Browser!NotFound
  <2>1. /\ PageGood(p, clusters) /\ p.scope = Browser!Parse(q.scope) /\ p.screen = q.screen
        /\ p.screen = "console" => p.console.scope = Browser!ClusterFromQuery(q)
    BY <1>3, <1>7, ShownGood
  <2>2. PageInv'
    BY <1>3, <1>4, <2>1 DEF PageInv
  <2>3. Browser!ScopeKept'
    BY <1>3, <1>5, <2>1 DEF Browser!ScopeKept
  <2> QED BY <1>2, <2>2, <2>3
<1> QED BY <1>6, <1>7

\* An address that was typed, and the links of a page.
LEMMA OpenStep ==
  ASSUME TabInv, Browser!TypeAddress \/ Browser!FollowNav \/ Browser!ChooseRange
                   \/ Browser!PickScope \/ Browser!FollowBody
  PROVE  RegistryGood' /\ PageInv' /\ Browser!ScopeKept'
<1>1. RegistryGood
  BY DEF TabInv
<1>2. ASSUME Browser!Rendered
      PROVE  PageGood(page, clusters) /\ Good(page.scope) /\ page.scope = picked.shell
  <2>1. PICK p, cs : p = page /\ cs = clusters
    OBVIOUS
  <2>2. PageGood(p, cs)
    BY <1>2, <2>1 DEF TabInv, PageInv, Browser!Rendered
  <2>3. Good(p.scope)
    BY <2>2 DEF PageGood
  <2> QED BY <1>2, <2>1, <2>2, <2>3 DEF TabInv, Browser!ScopeKept
\* At a scope that is named in full.
<1>3. ASSUME NEW q, NEW sc, Good(sc), q.scope = Browser!Encode(sc), Browser!Open(q, sc)
      PROVE  RegistryGood' /\ PageInv' /\ Browser!ScopeKept'
  BY <1>1, <1>3, RoundTrip, OpenKeeps
<1>4. CASE Browser!TypeAddress
  <2>1. PICK a \in Addresses : Browser!Open(Browser!Get(a.screen, a.scope), Browser!Parse(a.scope))
    BY <1>4 DEF Browser!TypeAddress
  <2>2. PICK q : q = Browser!Get(a.screen, a.scope)
    OBVIOUS
  <2>3. q.scope = a.scope /\ q.scope \in Seq(Word)
    BY <2>2, WordsOfNames DEF Browser!Get
  <2> QED BY <1>1, <2>1, <2>2, <2>3, OpenKeeps
<1>5. CASE Browser!FollowNav
  <2>1. PICK q, sc : sc = page.scope /\ sc = picked.shell /\ Browser!Open(q, sc)
                     /\ \E screen : q = Browser!NavHref(sc, screen)
    BY <1>2, <1>5 DEF Browser!FollowNav
  <2>2. q.scope = Browser!Encode(sc)
    BY <2>1 DEF Browser!NavHref, Browser!Get
  <2> QED BY <1>2, <1>3, <1>5, <2>1, <2>2 DEF Browser!FollowNav
<1>6. CASE Browser!ChooseRange
  <2>1. PICK q, sc : sc = page.scope /\ sc = picked.shell /\ Browser!Open(q, sc)
                     /\ \E screen : q = Browser!RangeOptions(sc, screen)
    BY <1>2, <1>6 DEF Browser!ChooseRange
  <2>2. q.scope = Browser!Encode(sc)
    BY <2>1 DEF Browser!RangeOptions, Browser!Get
  <2> QED BY <1>2, <1>3, <1>6, <2>1, <2>2 DEF Browser!ChooseRange
<1>7. CASE Browser!PickScope
  <2>1. PICK sc \in page.offers \cup {Browser!Fleet} : Browser!Open(Browser!ScopeHref(sc), sc)
    BY <1>7 DEF Browser!PickScope
  <2>2. Good(sc)
    <3>1. PageGood(page, clusters)
      BY <1>2, <1>7 DEF Browser!PickScope
    <3> QED BY <2>1, <3>1 DEF PageGood, Offered, Good
  <2>3. PICK q : q = Browser!ScopeHref(sc)
    OBVIOUS
  <2>4. q.scope = Browser!Encode(sc)
    BY <2>3 DEF Browser!ScopeHref, Browser!NavHref, Browser!Get
  <2> QED BY <1>3, <2>1, <2>2, <2>3, <2>4
<1>8. CASE Browser!FollowBody
  <2>1. PICK q : Browser!Open(q, Browser!Fleet) /\ q.scope = << >>
    BY <1>8 DEF Browser!FollowBody, Browser!Get, Browser!NoName
  <2>2. Good(Browser!Fleet) /\ q.scope = Browser!Encode(Browser!Fleet)
    BY <2>1 DEF Good, Browser!Encode, Browser!Fleet, Browser!At, Browser!NoName
  <2> QED BY <1>3, <2>1, <2>2
<1> QED BY <1>4, <1>5, <1>6, <1>7, <1>8

\* The registry only grows.
LEMMA RegistryStep ==
  ASSUME TabInv, Browser!RegistryChanges
  PROVE  RegistryGood' /\ PageInv' /\ Browser!ScopeKept'
<1>1. clusters \subseteq clusters' /\ clusters' \subseteq clusters \cup Browser!Clusters
  BY DEF Browser!RegistryChanges, Browser!CreateCluster, Browser!CreateInstance,
         Browser!AssignServerToInstance
<1>2. nodes' \subseteq nodes \cup Nodes
  BY DEF Browser!RegistryChanges, Browser!CreateCluster, Browser!CreateInstance,
         Browser!AssignServerToInstance
<1>3. UNCHANGED <<page, picked>>
  BY DEF Browser!RegistryChanges
<1>4. RegistryGood'
  BY <1>1, <1>2, WordsOfNames DEF TabInv, RegistryGood
<1>5. PageInv'
  <2>1. PICK p, cs, ds : p = page /\ p = page' /\ cs = clusters /\ ds = clusters'
    BY <1>3
  <2>2. p # Browser!NotFound => PageGood(p, cs)
    BY <2>1 DEF TabInv, PageInv
  <2>3. p # Browser!NotFound => PageGood(p, ds)
    BY <1>1, <2>1, <2>2, GoodLater
  <2> QED BY <2>1, <2>3 DEF PageInv
<1>6. Browser!ScopeKept'
  BY <1>3 DEF TabInv, Browser!ScopeKept, Browser!Rendered
<1> QED BY <1>4, <1>5, <1>6

LEMMA SearchStep ==
  ASSUME TabInv, Browser!SearchScope
  PROVE  RegistryGood' /\ PageInv' /\ Browser!ScopeKept'
<1>1. PICK lost, p, next, cs :
        /\ p = page /\ next = page' /\ cs = clusters /\ cs = clusters'
        /\ next = [p EXCEPT !.offers = Browser!scopeOptions(lost)]
  BY DEF Browser!SearchScope, Browser!registry
<1>2. PageGood(p, cs)
  BY <1>1 DEF TabInv, PageInv, Browser!SearchScope, Browser!Rendered
<1>3. /\ PageShape(next) /\ next.offers = Browser!scopeOptions(lost) /\ next.screen = p.screen
      /\ next.scope = p.scope /\ next.console = p.console
  BY <1>1, <1>2 DEF PageGood, PageShape
<1>4. \A sc \in next.offers : Offered(sc, cs)
  BY <1>1, <1>3, OffersGood DEF TabInv
<1>5. PageGood(next, cs)
  BY <1>2, <1>3, <1>4 DEF PageGood
<1>6. PageInv'
  BY <1>1, <1>5 DEF PageInv
<1>7. UNCHANGED <<clusters, nodes, picked>>
  BY DEF Browser!SearchScope, Browser!registry
<1>8. RegistryGood'
  BY <1>7 DEF TabInv, RegistryGood
<1>9. Browser!ScopeKept'
  BY <1>1, <1>3, <1>7 DEF TabInv, Browser!ScopeKept, Browser!Rendered, Browser!SearchScope
<1> QED BY <1>6, <1>8, <1>9

\* A chip leads to a console at the scope of the one it is on.
LEMMA ChipStep ==
  ASSUME TabInv, Browser!PickChip
  PROVE  RegistryGood' /\ PageInv' /\ Browser!ScopeKept'
<1>1. UNCHANGED <<clusters, nodes, picked>> /\ page.screen = "console"
  BY DEF Browser!PickChip, Browser!registry
<1>2. RegistryGood' /\ RegistryGood
  BY <1>1 DEF TabInv, RegistryGood
<1>3. CASE page' = Browser!NotFound
  BY <1>2, <1>3 DEF PageInv, Browser!ScopeKept, Browser!Rendered
<1>4. CASE page' # Browser!NotFound
  <2>1. PICK q, k, p, next, cs :
          /\ p = page /\ next = page' /\ cs = clusters /\ cs = clusters'
          /\ q \in Browser!consoleChips(p.console) /\ Browser!Answers(q) /\ k = Browser!Console(q)
          /\ next = [p EXCEPT !.console = [k EXCEPT !.name = p.console.name]]
    BY <1>1, <1>4 DEF Browser!PickChip
  <2>2. p.screen = "console" /\ p # Browser!NotFound
    BY <1>1, <2>1 DEF Browser!NotFound
  <2>3. PageGood(p, cs)
    BY <2>1, <2>2 DEF TabInv, PageInv
  <2>4. PICK sc : sc = p.console.scope /\ Good(sc) /\ Exists(sc, cs)
    BY <2>2, <2>3 DEF PageGood, ConsoleGood
  <2>5. q.screen = "console" /\ q.scope = Browser!Encode(sc)
    BY <2>1, <2>4 DEF Browser!consoleChips, Browser!Chip, Browser!Get
  <2>6. Browser!ClusterFromQuery(q) = sc /\ sc # Browser!Fleet /\ q.scope \in Seq(Word)
    BY <2>1, <2>4, <2>5, KnownAnswers, RoundTrip
  <2>7. ConsoleGood(k, cs) /\ k.scope = sc
    BY <1>2, <2>1, <2>6, ConsoleIsGood
  <2>8. PICK new : new = [k EXCEPT !.name = p.console.name]
    OBVIOUS
  <2>9. /\ new.name = p.console.name /\ new.scope = k.scope /\ new.node = k.node /\ new.db = k.db
    BY <2>1, <2>8 DEF Browser!Console
  <2>10. ConsoleGood(new, cs)
    BY <2>7, <2>9 DEF ConsoleGood
  <2>11. /\ PageShape(next) /\ next.console = new /\ next.screen = p.screen
         /\ next.scope = p.scope /\ next.offers = p.offers
    BY <2>1, <2>3, <2>8 DEF PageGood, PageShape
  <2>12. PageGood(next, cs)
    BY <2>2, <2>3, <2>9, <2>10, <2>11 DEF PageGood
  <2>13. PageInv'
    BY <2>1, <2>12 DEF PageInv
  <2>14. Browser!ScopeKept'
    BY <1>1, <2>1, <2>2, <2>4, <2>7, <2>9, <2>11 DEF TabInv, Browser!ScopeKept, Browser!Rendered
  <2> QED BY <1>2, <2>13, <2>14
<1> QED BY <1>3, <1>4

\* What the last step ran.
LEMMA RunStep ==
  ASSUME TabInv, NEW r, r = ran', r # Browser!NoRun, Browser!RunStatement \/ Browser!HandOff
  PROVE  RunsThere(r)
<1>1. RegistryGood
  BY DEF TabInv
<1>2. CASE Browser!RunStatement
  <2>1. PICK p, k, cs : p = page /\ k = p.console /\ cs = clusters /\ p.screen = "console"
                        /\ r \in Browser!Ran(k.scope, k.node, k.db)
    BY <1>2 DEF Browser!RunStatement
  <2>2. PageGood(p, cs)
    BY <2>1 DEF TabInv, PageInv, Browser!NotFound
  <2>3. ConsoleGood(k, cs)
    BY <2>1, <2>2 DEF PageGood
  <2>4. PICK sc, node, db : sc = k.scope /\ node = k.node /\ db = k.db
    OBVIOUS
  <2> QED BY <1>1, <2>1, <2>3, <2>4, RunsWhereShown DEF ConsoleGood
<1>3. CASE Browser!HandOff
  <2>1. PICK q, sc, node, db : /\ q = Browser!consoleHandoffURL /\ sc = Browser!ClusterFromQuery(q)
                              /\ r \in Browser!Ran(sc, node, db)
    BY <1>3 DEF Browser!HandOff
  <2>2. Browser!Parse(q.scope) = Browser!Fleet
    BY <2>1 DEF Browser!consoleHandoffURL, Browser!Get, Browser!Parse, Browser!NoName
  <2>3. sc.kind \in {"cluster", "fleet"}
    BY <2>1, <2>2 DEF Browser!ClusterFromQuery, Browser!Cluster, Browser!Fleet, Browser!At, Browser!NoName
  <2> QED BY <1>1, <2>1, <2>3, RunsWhereShown
<1> QED BY <1>2, <1>3

LEMMA TabStep ==
  ASSUME TabInv, Browser!Next \/ UNCHANGED browser
  PROVE  TabInv'
<1> DEFINE Kept == RegistryGood' /\ PageInv' /\ Browser!ScopeKept'
<1>1. ASSUME UNCHANGED <<clusters, nodes, page, picked>>
      PROVE  Kept
  BY <1>1 DEF TabInv, RegistryGood, PageInv, Browser!ScopeKept, Browser!Rendered
<1>2. CASE Browser!Next
  <2>1. CASE Browser!RegistryChanges
    <3>1. ran' = Browser!NoRun
      BY <2>1 DEF Browser!RegistryChanges, Browser!NothingRuns
    <3> QED BY <2>1, <3>1, RegistryStep DEF TabInv, Browser!RanWhereShown
  <2>2. CASE Browser!TypeAddress \/ Browser!FollowNav \/ Browser!ChooseRange
                   \/ Browser!PickScope \/ Browser!FollowBody
    <3>1. ran' = Browser!NoRun
      BY <2>2 DEF Browser!TypeAddress, Browser!FollowNav, Browser!ChooseRange, Browser!PickScope,
                  Browser!FollowBody, Browser!NothingRuns
    <3> QED BY <2>2, <3>1, OpenStep DEF TabInv, Browser!RanWhereShown
  <2>3. CASE Browser!SearchScope
    <3>1. ran' = Browser!NoRun
      BY <2>3 DEF Browser!SearchScope, Browser!NothingRuns
    <3> QED BY <2>3, <3>1, SearchStep DEF TabInv, Browser!RanWhereShown
  <2>4. CASE Browser!PickChip
    <3>1. ran' = Browser!NoRun
      BY <2>4 DEF Browser!PickChip, Browser!NothingRuns
    <3> QED BY <2>4, <3>1, ChipStep DEF TabInv, Browser!RanWhereShown
  <2>5. CASE Browser!SelectTarget \/ Browser!PickRunChip
    <3>1. ran' = Browser!NoRun /\ UNCHANGED <<clusters, nodes, page, picked>>
      BY <2>5 DEF Browser!SelectTarget, Browser!PickRunChip, Browser!OnCard, Browser!NothingRuns,
                  Browser!registry
    <3> QED BY <1>1, <3>1 DEF TabInv, Browser!RanWhereShown
  <2>6. CASE Browser!RunStatement \/ Browser!HandOff
    <3>1. Kept
      <4>1. CASE Browser!RunStatement
        <5>1. UNCHANGED <<clusters, nodes, page, picked>>
          BY <4>1 DEF Browser!RunStatement, Browser!registry
        <5> QED BY <1>1, <5>1
      <4>2. CASE Browser!HandOff
        <5>1. PICK q : q = Browser!consoleHandoffURL
          OBVIOUS
        <5>2. Browser!Open(q, Browser!Fleet)
          BY <4>2, <5>1 DEF Browser!HandOff
        <5>3. q.scope = << >> /\ q.scope \in Seq(Word) /\ Browser!Parse(q.scope) = Browser!Fleet
          BY <5>1 DEF Browser!consoleHandoffURL, Browser!Get, Browser!Parse, Browser!NoName
        <5> QED BY <5>2, <5>3, OpenKeeps DEF TabInv
      <4> QED BY <2>6, <4>1, <4>2
    <3>2. Browser!RanWhereShown'
      <4>1. PICK r : r = ran'
        OBVIOUS
      <4>2. r # Browser!NoRun => RunsThere(r)
        BY <2>6, <4>1, RunStep
      <4> QED BY <4>1, <4>2 DEF Browser!RanWhereShown, RunsThere
    <3> QED BY <3>1, <3>2 DEF TabInv
  <2> QED BY <1>2, <2>1, <2>2, <2>3, <2>4, <2>5, <2>6 DEF Browser!Next
<1>3. CASE UNCHANGED browser
  <2>1. UNCHANGED <<clusters, nodes, page, picked, ran>>
    BY <1>3 DEF browser
  <2> QED BY <1>1, <2>1 DEF TabInv, Browser!RanWhereShown
<1> QED BY <1>2, <1>3

\* Whatever links are followed, and however the registry grows meanwhile, the
\* shell and the console stay at the scope that was chosen, the links of a page
\* whose cluster there is lead somewhere, and a statement runs where its page says
\* (internal/scope, api/shell.go, api/console.go).
THEOREM TabKept == Browser!Spec => []PlaceKept
<1>1. Browser!Init => TabInv
  <2> SUFFICES ASSUME Browser!Init
               PROVE  TabInv
    OBVIOUS
  <2>1. page = Browser!NotFound /\ ran = Browser!NoRun
    BY DEF Browser!Init
  <2>2. nodes \subseteq Nodes
    <3>1. nodes = {FirstHome[s] : s \in DOMAIN FirstHome} \ {Browser!NoNode}
      BY DEF Browser!Init, Browser!Range
    <3> QED BY <3>1, BrowseAssumption
  <2>3. clusters \subseteq Word
    <3>1. clusters = {ClusterOf[n] : n \in nodes}
      BY DEF Browser!Init
    <3> QED BY <2>2, <3>1, WordsOfNames
  <2> QED BY <2>1, <2>2, <2>3 DEF TabInv, RegistryGood, PageInv, Browser!ScopeKept, Browser!Rendered,
                                  Browser!RanWhereShown
<1>2. TabInv /\ [Browser!Next]_(Browser!vars) => TabInv'
  BY TabStep DEF browser, Browser!vars, Browser!registry
<1>3. TabInv => PlaceKept
  <2> SUFFICES ASSUME TabInv
               PROVE  PlaceKept
    OBVIOUS
  <2>1. Browser!Rendered => PageGood(page, clusters)
    <3>1. PICK p, cs : p = page /\ cs = clusters
      OBVIOUS
    <3> QED BY <3>1 DEF TabInv, PageInv, Browser!Rendered
  <2>2. Browser!LinksLead
    BY <2>1, LinksAnswer DEF Browser!LinksLead
  <2> QED BY <2>2 DEF TabInv, PlaceKept, Browser!PlaceKept
<1> QED BY <1>1, <1>2, <1>3, PTL DEF Browser!Spec
=============================================================================
