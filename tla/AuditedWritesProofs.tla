------------------------ MODULE AuditedWritesProofs ------------------------
(***************************************************************************)
(* Proofs about AuditedWrites, for any calls, keys, scripts and requests.  *)
(* An entry is made by one call, of what that call was asked for, and a    *)
(* call writes only what its own entry says (Entries, Handled); who asked  *)
(* for it was found allowed in the replica, and what the replica shows was *)
(* once in the table (Owned, Logged), whose owners never change.           *)
(***************************************************************************)
EXTENDS AuditedWrites, TLAPS

Row(n) == {NoRow} \cup [value : Values, id : 0..n, by : Users]

MayChange(actor, s) == creator[s] # NoUser /\ actor \in Admins \cup {creator[s]}

\* What a call is about to do, and that it may.
HandledOf(c) ==
  /\ pc[c] = "append" => req[c].op \in {"scope", "drop"}
  /\ pc[c] = "commit" => req[c].op \in {"delete", "batch"}
  /\ pc[c] = "write" =>
       /\ req[c].op \in {"set", "scope", "drop"}
       /\ rec[c] \in 1..Len(log) /\ log[rec[c]] = Entry(c)
  /\ pc[c] \in {"append", "write"} =>
       \A s \in Scripts : s \in Target(req[c]) => MayChange(req[c].by, s)

\* An entry is its call's only one.
EntryOf(i) ==
  /\ log[i].request = req[log[i].call]
  /\ pc[log[i].call] \in {"write", "done", "failed"}
  /\ pc[log[i].call] = "write" => rec[log[i].call] = i
  /\ \A s \in Scripts : Touches(i, s) => MayChange(log[i].request.by, s)

Handled == \A c \in Calls : HandledOf(c)
Entries == \A i \in 1..Len(log) : EntryOf(i)

\* A script's row is its creator's.
Owned(t) == \A s \in Scripts : t[s] # NoRow => t[s].by = creator[s]

\* A row with an entry's id says what the entry says.
Logged(t) ==
  \A k \in Keys : t[k] # NoRow /\ t[k].id # 0 => <<k, t[k].value>> \in log[t[k].id].request.puts

Tables == Owned(rows) /\ Owned(replica) /\ Logged(rows) /\ Logged(replica)

IInv == TypeOK /\ Handled /\ Entries /\ Tables /\ ReplayMatches

-----------------------------------------------------------------------------
(* Requests, and what carrying one out does to the rows.                   *)

LEMMA RequestFacts ==
  ASSUME NEW r \in Requests
  PROVE  /\ r.op \in Ops /\ r.puts \subseteq Keys \X Values /\ r.dels \subseteq Keys /\ r.by \in Users
         /\ Target(r) \subseteq Keys
         /\ \A p, q \in r.puts : p[1] = q[1] => p = q
         /\ r.op \in {"set", "delete", "batch"} => Target(r) \cap Scripts = {}
         /\ r.op = "scope" => r.dels = {}
         /\ r.op = "drop" => r.puts = {}
<1>1. r \in Request
  BY RequestsAssumption
<1>2. r.op \in Ops /\ r.puts \subseteq Keys \X Values /\ r.dels \subseteq Keys /\ r.by \in Users
  BY <1>1 DEF Request
<1>3. Target(r) \subseteq Keys
  BY <1>2 DEF Target
<1> QED BY <1>2, <1>3, RequestsAssumption DEF Target

LEMMA PutFacts ==
  ASSUME NEW r \in Requests, NEW t, NEW i, NEW k \in Keys
  PROVE  /\ k \in r.dels => Put(t, r, i)[k] = NoRow
         /\ k \notin Target(r) => Put(t, r, i)[k] = t[k]
         /\ \A v \in Values : k \notin r.dels /\ <<k, v>> \in r.puts =>
              Put(t, r, i)[k] =
                [value |-> v, id |-> i, by |-> IF k \in Scripts THEN t[k].by ELSE r.by]
<1>1. k \in r.dels => Put(t, r, i)[k] = NoRow
  BY DEF Put
<1>2. ASSUME k \notin Target(r) PROVE Put(t, r, i)[k] = t[k]
  <2>1. k \notin r.dels /\ ~ \E v \in Values : <<k, v>> \in r.puts
    <3>1. \A v : <<k, v>>[1] = k
      OBVIOUS
    <3> QED BY <1>2, <3>1 DEF Target
  <2> QED BY <2>1 DEF Put
<1>3. ASSUME NEW v \in Values, k \notin r.dels, <<k, v>> \in r.puts
      PROVE  Put(t, r, i)[k] =
               [value |-> v, id |-> i, by |-> IF k \in Scripts THEN t[k].by ELSE r.by]
  <2>1. \A w \in Values : <<k, w>> \in r.puts => w = v
    BY <1>3, RequestFacts
  <2>2. (CHOOSE w \in Values : <<k, w>> \in r.puts) = v
    BY <1>3, <2>1
  <2> QED BY <1>3, <2>2 DEF Put
<1> QED BY <1>1, <1>2, <1>3

\* Every row changes from t to n as request r with id i says, and a script's
\* only if it is there.
Carried(t, n, r, i) ==
  \A k \in Keys :
    \/ k \notin Target(r) /\ n[k] = t[k]
    \/ k \in r.dels /\ n[k] = NoRow
    \/ \E v \in Values, u \in Users :
         /\ <<k, v>> \in r.puts /\ n[k] = [value |-> v, id |-> i, by |-> u]
         /\ k \in Scripts => t[k] # NoRow /\ t[k].by = u

LEMMA Carry ==
  ASSUME NEW r \in Requests, NEW n \in Nat, NEW t \in [Keys -> Row(n)], NEW i,
         \A s \in Scripts : s \in Target(r) \ r.dels => t[s] # NoRow
  PROVE  Carried(t, Put(t, r, i), r, i)
<1> SUFFICES ASSUME NEW k \in Keys, k \in Target(r), k \notin r.dels
             PROVE  \E v \in Values, u \in Users :
                      /\ <<k, v>> \in r.puts /\ Put(t, r, i)[k] = [value |-> v, id |-> i, by |-> u]
                      /\ k \in Scripts => t[k] # NoRow /\ t[k].by = u
  BY PutFacts DEF Carried
<1>1. PICK v \in Values : <<k, v>> \in r.puts
  BY RequestFacts DEF Target
<1>2. Put(t, r, i)[k] = [value |-> v, id |-> i, by |-> IF k \in Scripts THEN t[k].by ELSE r.by]
  BY <1>1, PutFacts
<1>3. k \in Scripts => t[k] # NoRow /\ t[k].by \in Users
  BY DEF Row
<1>4. r.by \in Users
  BY RequestFacts
<1> QED BY <1>1, <1>2, <1>3, <1>4

LEMMA CarriedType ==
  ASSUME NEW r \in Requests, NEW n \in Nat, NEW m \in Nat, n <= m,
         NEW t \in [Keys -> Row(n)], NEW i \in 0..m, NEW z,
         z = Put(t, r, i), Carried(t, z, r, i)
  PROVE  z \in [Keys -> Row(m)]
<1>1. \A k \in Keys : z[k] \in Row(m)
  <2> TAKE k \in Keys
  <2>1. t[k] \in Row(m)
    BY DEF Row
  <2>2. ASSUME NEW v \in Values, NEW u \in Users, z[k] = [value |-> v, id |-> i, by |-> u]
        PROVE  z[k] \in Row(m)
    BY <2>2 DEF Row
  <2>3. NoRow \in Row(m)
    BY DEF Row
  <2> QED BY <2>1, <2>2, <2>3 DEF Carried
<1> QED BY <1>1 DEF Put

-----------------------------------------------------------------------------
(* The steps, by what they change.                                         *)

Moves(c)  == GetScript(c) \/ Refuse(c) \/ BeginTx(c) \/ Fail(c)
Writes(c) == Upsert(c) \/ UpdateScope(c) \/ DeleteRow(c)

LEMMA Actions ==
  ASSUME [Next]_vars
  PROVE  \/ UNCHANGED vars
         \/ \E c \in Calls :
              Moves(c) \/ AppendAudit(c) \/ Writes(c) \/ CommitTx(c) \/ CreateScript(c)
         \/ Replicate
BY DEF Next, Moves, Writes

\* TypeOK, in the form the lemmas above want.
LEMMA Types ==
  ASSUME TypeOK
  PROVE  /\ Len(log) \in Nat
         /\ rows \in [Keys -> Row(Len(log))] /\ replica \in [Keys -> Row(Len(log))]
         /\ \A c \in Calls : req[c] \in Requests
BY DEF TypeOK, Row

LEMMA MoveStep ==
  ASSUME TypeOK, NEW c \in Calls, Moves(c)
  PROVE  /\ UNCHANGED <<log, tables, req, rec>>
         /\ holder' \in Calls \cup {NoCall}
         /\ pc[c] \in {"new", "append", "write", "commit"}
         /\ \/ pc' = [pc EXCEPT ![c] = "failed"] /\ ended' = [ended EXCEPT ![c] = Len(log)]
            \/ /\ pc' = [pc EXCEPT ![c] = "append"] /\ ended' = ended
               /\ req[c].op \in {"scope", "drop"} /\ pc[c] = "new"
               /\ \A s \in Target(req[c]) : Permitted(s, req[c].by)
            \/ /\ pc' = [pc EXCEPT ![c] = "commit"] /\ ended' = ended
               /\ req[c].op \in {"delete", "batch"} /\ pc[c] = "new"
BY DEF Moves, GetScript, Refuse, BeginTx, Fail, Goto, Return, TypeOK

LEMMA AppendStep ==
  ASSUME TypeOK, Handled, NEW c \in Calls, AppendAudit(c)
  PROVE  /\ UNCHANGED <<holder, tables, req>>
         /\ log' = Append(log, Entry(c)) /\ rec' = [rec EXCEPT ![c] = Len(log) + 1]
         /\ req[c].op \in {"set", "scope", "drop"} /\ pc[c] \in {"new", "append"}
         /\ \A s \in Scripts : s \in Target(req[c]) => MayChange(req[c].by, s)
         /\ \/ pc' = [pc EXCEPT ![c] = "write"] /\ ended' = ended
            \/ pc' = [pc EXCEPT ![c] = "failed"] /\ ended' = [ended EXCEPT ![c] = Len(log)]
<1>1. pc[c] = "append" \/ (pc[c] = "new" /\ req[c].op = "set")
  BY DEF AppendAudit
<1>2. HandledOf(c)
  BY DEF Handled
<1>3. req[c] \in Requests
  BY Types
<1>4. \A s \in Scripts : s \in Target(req[c]) => MayChange(req[c].by, s)
  BY <1>1, <1>2, <1>3, RequestFacts DEF HandledOf
<1>5. req[c].op \in {"set", "scope", "drop"} /\ pc[c] \in {"new", "append"}
  BY <1>1, <1>2 DEF HandledOf
<1> QED BY <1>4, <1>5 DEF AppendAudit, NewId, Goto, Return

LEMMA WriteStep ==
  ASSUME TypeOK, Handled, NEW c \in Calls, Writes(c)
  PROVE  /\ UNCHANGED <<log, holder, replica, creator, req, rec>> /\ pc[c] = "write"
         /\ \E how \in {"done", "failed"} : pc' = [pc EXCEPT ![c] = how]
         /\ ended' = [ended EXCEPT ![c] = Len(log)]
         /\ \/ rows' = rows /\ pc' = [pc EXCEPT ![c] = "failed"]
            \/ /\ rows' = Put(rows, req[c], rec[c])
               /\ Carried(rows, rows', req[c], rec[c])
<1> DEFINE r == req[c]
<1>1. r \in Requests /\ Len(log) \in Nat /\ rows \in [Keys -> Row(Len(log))]
  BY Types
<1> HIDE DEF r
<1>2. ASSUME \A s \in Scripts : s \in Target(r) \ r.dels => rows[s] # NoRow
      PROVE  Carried(rows, Put(rows, r, rec[c]), r, rec[c])
  BY <1>1, <1>2, Carry
<1>3. CASE Upsert(c)
  <2>1. Target(r) \cap Scripts = {}
    BY <1>1, <1>3, RequestFacts DEF Upsert, r
  <2> QED BY <1>2, <1>3, <2>1 DEF Upsert, Goto, Return, r
<1>4. CASE UpdateScope(c)
  <2>1. CASE \A s \in Target(r) : rows[s] # NoRow
    BY <1>2, <1>4, <2>1 DEF UpdateScope, Goto, Return, r
  <2>2. CASE ~ \A s \in Target(r) : rows[s] # NoRow
    BY <1>4, <2>2 DEF UpdateScope, Goto, Return, r
  <2> QED BY <2>1, <2>2
<1>5. CASE DeleteRow(c)
  <2>1. Target(r) \ r.dels = {}
    <3>1. r.puts = {}
      BY <1>1, <1>5, RequestFacts DEF DeleteRow, r
    <3> QED BY <3>1 DEF Target
  <2> QED BY <1>2, <1>5, <2>1 DEF DeleteRow, Goto, Return, r
<1> QED BY <1>3, <1>4, <1>5 DEF Writes

LEMMA CommitStep ==
  ASSUME TypeOK, Handled, NEW c \in Calls, CommitTx(c)
  PROVE  /\ UNCHANGED <<replica, creator, req, rec>> /\ pc[c] = "commit"
         /\ log' = Append(log, Entry(c)) /\ holder' = NoCall
         /\ \E how \in {"done", "failed"} : pc' = [pc EXCEPT ![c] = how]
         /\ ended' = [ended EXCEPT ![c] = Len(log)]
         /\ rows' = Put(rows, req[c], Len(log) + 1)
         /\ Carried(rows, rows', req[c], Len(log) + 1)
         /\ Target(req[c]) \cap Scripts = {}
<1> DEFINE r == req[c]
<1>1. r \in Requests /\ Len(log) \in Nat /\ rows \in [Keys -> Row(Len(log))]
  BY Types
<1>2. r.op \in {"delete", "batch"}
  BY DEF CommitTx, Handled, HandledOf
<1> HIDE DEF r
<1>3. Target(r) \cap Scripts = {}
  BY <1>1, <1>2, RequestFacts
<1>4. Carried(rows, Put(rows, r, Len(log) + 1), r, Len(log) + 1)
  BY <1>1, <1>3, Carry
<1> QED BY <1>3, <1>4 DEF CommitTx, NewId, Goto, Return, r

LEMMA CreateStep ==
  ASSUME TypeOK, NEW c \in Calls, CreateScript(c)
  PROVE  /\ UNCHANGED <<log, holder, replica, req, rec>>
         /\ pc[c] = "new" /\ \E how \in {"done", "failed"} : pc' = [pc EXCEPT ![c] = how]
         /\ ended' = [ended EXCEPT ![c] = Len(log)]
         /\ \E s \in Scripts, v \in Values, u \in Users :
              /\ creator[s] = NoUser /\ creator' = [creator EXCEPT ![s] = u]
              /\ rows' = [rows EXCEPT ![s] = [value |-> v, id |-> 0, by |-> u]]
<1>1. req[c].by \in Users
  BY Types, RequestFacts
<1>2. PICK s \in Scripts :
        /\ \A t \in Scripts : creator[t] = NoUser <=> t >= s
        /\ creator' = [creator EXCEPT ![s] = req[c].by]
        /\ \E v \in Values :
             rows' = [rows EXCEPT ![s] = [value |-> v, id |-> 0, by |-> req[c].by]]
  BY DEF CreateScript
<1>3. s >= s
  BY RequestsAssumption DEF Scripts
<1>4. creator[s] = NoUser
  BY <1>2, <1>3
<1>5. \E v \in Values, u \in Users :
        /\ creator[s] = NoUser /\ creator' = [creator EXCEPT ![s] = u]
        /\ rows' = [rows EXCEPT ![s] = [value |-> v, id |-> 0, by |-> u]]
  BY <1>1, <1>2, <1>4
<1> QED BY <1>5 DEF CreateScript, Goto, Return

\* What every step keeps: the entries there are, and the creators.
LEMMA Keeps ==
  ASSUME TypeOK, Handled, [Next]_vars
  PROVE  /\ req' = req /\ Len(log') \in Nat /\ Len(log) \in Nat /\ Len(log) <= Len(log')
         /\ \A i \in 1..Len(log) : log'[i] = log[i]
         /\ \A s \in Scripts : creator[s] # NoUser => creator'[s] = creator[s]
         /\ creator' \in [Scripts -> Users \cup {NoUser}]
<1>1. log \in Seq([request : Requests, call : Calls]) /\ creator \in [Scripts -> Users \cup {NoUser}]
  BY DEF TypeOK
<1>2. ASSUME NEW c \in Calls, log' = Append(log, Entry(c)) \/ log' = log
      PROVE  /\ Len(log') \in Nat /\ Len(log) \in Nat /\ Len(log) <= Len(log')
             /\ \A i \in 1..Len(log) : log'[i] = log[i]
  BY <1>1, <1>2
<1>3. ASSUME NEW c \in Calls, Moves(c) \/ AppendAudit(c) \/ Writes(c) \/ CommitTx(c)
      PROVE  creator' = creator /\ req' = req /\ (log' = Append(log, Entry(c)) \/ log' = log)
  BY <1>3, MoveStep, AppendStep, WriteStep, CommitStep DEF tables
<1>4. ASSUME NEW c \in Calls, CreateScript(c)
      PROVE  /\ req' = req /\ log' = log /\ creator' \in [Scripts -> Users \cup {NoUser}]
             /\ \A s \in Scripts : creator[s] # NoUser => creator'[s] = creator[s]
  BY <1>1, <1>4, CreateStep
<1>5. CASE UNCHANGED vars \/ Replicate
  BY <1>1, <1>5 DEF vars, tables, Replicate
<1> QED BY <1>1, <1>2, <1>3, <1>4, <1>5, Actions

Places == {"new", "append", "write", "commit", "done", "failed"}

LEMMA CallTypes ==
  ASSUME TypeOK, NEW c \in Calls, \E l \in Places : pc' = [pc EXCEPT ![c] = l],
         ended' = ended \/ ended' = [ended EXCEPT ![c] = Len(log)]
  PROVE  pc' \in [Calls -> Places] /\ ended' \in [Calls -> 0..Len(log)]
<1>1. pc \in [Calls -> Places] /\ ended \in [Calls -> 0..Len(log)]
  BY DEF TypeOK, Places
<1>2. Len(log) \in 0..Len(log)
  BY Types
<1> QED BY <1>1, <1>2

LEMMA StepTypeOK ==
  ASSUME TypeOK, Handled, [Next]_vars
  PROVE  TypeOK'
<1> DEFINE T(t, l) == t \in [Keys -> Row(Len(l))]
           Counts(l) == rec' \in [Calls -> 0..Len(l)] /\ ended' \in [Calls -> 0..Len(l)]
<1>0. ASSUME log' \in Seq([request : Requests, call : Calls]),
             holder' \in Calls \cup {NoCall}, T(rows', log'), T(replica', log'),
             pc' \in [Calls -> Places],
             Counts(log')
      PROVE  TypeOK'
  BY <1>0, Keeps DEF TypeOK, Row, Places
<1>1. /\ T(rows, log) /\ T(replica, log) /\ Len(log) \in Nat
      /\ \A c \in Calls : Entry(c) \in [request : Requests, call : Calls]
  BY Types DEF Entry
<1>2. CASE UNCHANGED vars
  BY <1>2 DEF vars, tables, TypeOK
<1>3. ASSUME NEW c \in Calls, Moves(c) PROVE TypeOK'
  <2>1. UNCHANGED <<log, tables, req, rec>> /\ holder' \in Calls \cup {NoCall}
    BY <1>3, MoveStep
  <2>2. pc' \in [Calls -> Places] /\ ended' \in [Calls -> 0..Len(log)]
    BY <1>3, MoveStep, CallTypes DEF Places
  <2> QED BY <2>1, <2>2 DEF tables, TypeOK, Places
<1>4. ASSUME NEW c \in Calls, log' = Append(log, Entry(c))
      PROVE  /\ log' \in Seq([request : Requests, call : Calls]) /\ Len(log') = Len(log) + 1
             /\ 0..Len(log) \subseteq 0..Len(log') /\ Len(log) + 1 \in 0..Len(log')
             /\ \A t : T(t, log) => T(t, log')
  <2>1. log' \in Seq([request : Requests, call : Calls]) /\ Len(log') = Len(log) + 1
    BY <1>1, <1>4 DEF TypeOK
  <2>2. 0..Len(log) \subseteq 0..Len(log') /\ Len(log) + 1 \in 0..Len(log')
    BY <1>1, <2>1
  <2>3. Row(Len(log)) \subseteq Row(Len(log'))
    BY <2>2 DEF Row
  <2> QED BY <2>1, <2>2, <2>3
<1>5. ASSUME NEW c \in Calls, AppendAudit(c) PROVE TypeOK'
  <2>1. log' = Append(log, Entry(c)) /\ UNCHANGED <<holder, tables, req>>
    BY <1>5, AppendStep
  <2>2. pc' \in [Calls -> Places] /\ ended' \in [Calls -> 0..Len(log)]
    BY <1>5, AppendStep, CallTypes DEF Places
  <2>3. rec' \in [Calls -> 0..Len(log')]
    BY <1>4, <1>5, <2>1, AppendStep DEF TypeOK
  <2>4. Counts(log') /\ T(rows', log') /\ T(replica', log')
    BY <1>1, <1>4, <2>1, <2>2, <2>3 DEF tables
  <2>5. log' \in Seq([request : Requests, call : Calls])
    BY <1>4, <2>1
  <2> HIDE DEF T, Counts
  <2> QED BY <1>0, <2>1, <2>2, <2>4, <2>5 DEF TypeOK
<1>6. ASSUME NEW c \in Calls, Writes(c) PROVE TypeOK'
  <2>1. UNCHANGED <<log, holder, replica, creator, req, rec>>
    BY <1>6, WriteStep
  <2>2. pc' \in [Calls -> Places] /\ ended' \in [Calls -> 0..Len(log)]
    BY <1>6, WriteStep, CallTypes DEF Places
  <2>3. T(rows', log)
    <3>1. rec[c] \in 0..Len(log) /\ req[c] \in Requests
      BY DEF TypeOK
    <3>2. CASE rows' = Put(rows, req[c], rec[c]) /\ Carried(rows, rows', req[c], rec[c])
      BY <1>1, <3>1, <3>2, CarriedType
    <3> QED BY <1>1, <1>6, <3>2, WriteStep
  <2> QED BY <2>1, <2>2, <2>3 DEF Row, TypeOK, Places
<1>7. ASSUME NEW c \in Calls, CommitTx(c) PROVE TypeOK'
  <2>1. log' = Append(log, Entry(c)) /\ UNCHANGED <<replica, req, rec>> /\ holder' = NoCall
    BY <1>7, CommitStep
  <2>2. pc' \in [Calls -> Places] /\ ended' \in [Calls -> 0..Len(log)]
    BY <1>7, CommitStep, CallTypes DEF Places
  <2>3. T(rows', log')
    <3>1. Len(log) + 1 \in 0..Len(log') /\ req[c] \in Requests /\ Len(log) <= Len(log')
          /\ Len(log') \in Nat
      BY <1>1, <1>4, <2>1 DEF TypeOK
    <3> QED BY <1>1, <1>7, <3>1, CommitStep, CarriedType
  <2>4. Counts(log') /\ T(replica', log')
    BY <1>1, <1>4, <2>1, <2>2 DEF TypeOK
  <2>5. log' \in Seq([request : Requests, call : Calls])
    BY <1>4, <2>1
  <2> HIDE DEF T, Counts
  <2> QED BY <1>0, <2>1, <2>2, <2>3, <2>4, <2>5
<1>8. ASSUME NEW c \in Calls, CreateScript(c) PROVE TypeOK'
  <2>1. UNCHANGED <<log, holder, replica, req, rec>>
    BY <1>8, CreateStep
  <2>2. pc' \in [Calls -> Places] /\ ended' \in [Calls -> 0..Len(log)]
    BY <1>8, CreateStep, CallTypes DEF Places
  <2>3. T(rows', log)
    <3>1. PICK s \in Scripts, v \in Values, u \in Users :
            rows' = [rows EXCEPT ![s] = [value |-> v, id |-> 0, by |-> u]]
      BY <1>8, CreateStep
    <3>2. [value |-> v, id |-> 0, by |-> u] \in Row(Len(log))
      BY <1>1 DEF Row
    <3> QED BY <1>1, <3>1, <3>2
  <2>4. creator' \in [Scripts -> Users \cup {NoUser}]
    BY Keeps
  <2> QED BY <2>1, <2>2, <2>3, <2>4 DEF Row, TypeOK, Places
<1>9. CASE Replicate
  BY <1>9 DEF Replicate, TypeOK
<1> QED BY <1>2, <1>3, <1>5, <1>6, <1>7, <1>8, <1>9, Actions
-----------------------------------------------------------------------------
(* The calls and their entries.                                            *)

LEMMA Elements ==
  ASSUME NEW S, NEW s \in Seq(S), NEW i \in 1..Len(s)
  PROVE  s[i] \in S
OBVIOUS

\* A call's step is not another's.
LEMMA OtherCalls ==
  ASSUME TypeOK, Handled, NEW c \in Calls,
         Moves(c) \/ AppendAudit(c) \/ Writes(c) \/ CommitTx(c) \/ CreateScript(c),
         NEW q \in Calls, q # c
  PROVE  pc'[q] = pc[q] /\ rec'[q] = rec[q] /\ ended'[q] = ended[q]
<1>0. /\ pc = [d \in Calls |-> pc[d]] /\ rec = [d \in Calls |-> rec[d]]
      /\ ended = [d \in Calls |-> ended[d]]
  BY DEF TypeOK
<1>1. CASE Moves(c)
  BY <1>0, <1>1, MoveStep
<1>2. CASE AppendAudit(c)
  BY <1>0, <1>2, AppendStep
<1>3. CASE Writes(c)
  BY <1>0, <1>3, WriteStep
<1>4. CASE CommitTx(c)
  BY <1>0, <1>4, CommitStep
<1>5. CASE CreateScript(c)
  BY <1>0, <1>5, CreateStep
<1> QED BY <1>1, <1>2, <1>3, <1>4, <1>5

LEMMA MayChangeKept ==
  ASSUME TypeOK, Handled, [Next]_vars, NEW s \in Scripts, NEW u, MayChange(u, s)
  PROVE  creator'[s] # NoUser /\ u \in Admins \cup {creator'[s]}
BY Keeps DEF MayChange

LEMMA HandledKept ==
  ASSUME TypeOK, Handled, [Next]_vars, NEW q \in Calls, pc'[q] = pc[q], rec'[q] = rec[q]
  PROVE  HandledOf(q)'
<1>1. HandledOf(q)
  BY DEF Handled
<1>2. Entry(q)' = Entry(q) /\ req'[q] = req[q]
  BY Keeps DEF Entry
<1>3. ASSUME pc[q] = "write" PROVE rec'[q] \in 1..Len(log') /\ log'[rec'[q]] = Entry(q)
  BY <1>1, <1>3, Keeps DEF HandledOf
<1>4. ASSUME pc[q] \in {"append", "write"}, NEW s \in Scripts, s \in Target(req[q])
      PROVE  creator'[s] # NoUser /\ req[q].by \in Admins \cup {creator'[s]}
  BY <1>1, <1>4, MayChangeKept DEF HandledOf
<1> QED BY <1>1, <1>2, <1>3, <1>4 DEF HandledOf, MayChange

LEMMA StepHandled ==
  ASSUME TypeOK, Handled, Tables, [Next]_vars
  PROVE  Handled'
<1>1. CASE UNCHANGED vars \/ Replicate
  <2>1. pc' = pc /\ rec' = rec
    BY <1>1 DEF vars, Replicate
  <2> QED BY <2>1, HandledKept DEF Handled
<1>2. ASSUME NEW c \in Calls, pc'[c] \in {"done", "failed"} PROVE HandledOf(c)'
  BY <1>2 DEF HandledOf
<1>3. ASSUME NEW c \in Calls, Moves(c) PROVE HandledOf(c)'
  <2>0. pc \in [Calls -> Places] /\ req' = req /\ UNCHANGED tables
    BY <1>3, MoveStep DEF TypeOK, Places
  <2>1. CASE pc' = [pc EXCEPT ![c] = "failed"]
    BY <1>2, <2>0, <2>1
  <2>2. CASE /\ pc' = [pc EXCEPT ![c] = "append"] /\ req[c].op \in {"scope", "drop"}
             /\ \A s \in Target(req[c]) : Permitted(s, req[c].by)
    <3>1. ASSUME NEW s \in Scripts, s \in Target(req[c]) PROVE MayChange(req[c].by, s)
      <4>1. replica[s] # NoRow /\ (replica[s].by = req[c].by \/ req[c].by \in Admins)
        BY <2>2, <3>1 DEF Permitted
      <4>2. s \in Keys
        BY DEF Keys
      <4>3. replica[s].by \in Users /\ replica[s].by = creator[s]
        BY <4>1, <4>2, Types DEF Row, Tables, Owned
      <4> QED BY <4>1, <4>3, RequestsAssumption DEF MayChange
    <3> QED BY <2>0, <2>2, <3>1 DEF HandledOf, MayChange, tables
  <2>3. CASE pc' = [pc EXCEPT ![c] = "commit"] /\ req[c].op \in {"delete", "batch"}
    BY <2>0, <2>3 DEF HandledOf
  <2> QED BY <1>3, <2>1, <2>2, <2>3, MoveStep
<1>4. ASSUME NEW c \in Calls, AppendAudit(c) PROVE HandledOf(c)'
  <2>0. pc \in [Calls -> Places] /\ req' = req /\ UNCHANGED tables /\ Entry(c)' = Entry(c)
    BY <1>4, AppendStep DEF TypeOK, Places, Entry
  <2>1. CASE pc' = [pc EXCEPT ![c] = "failed"]
    BY <1>2, <2>0, <2>1
  <2>2. CASE pc' = [pc EXCEPT ![c] = "write"]
    <3>1. /\ req[c].op \in {"set", "scope", "drop"} /\ rec'[c] = Len(log) + 1
          /\ \A s \in Scripts : s \in Target(req[c]) => MayChange(req[c].by, s)
          /\ log' = Append(log, Entry(c))
      BY <1>4, AppendStep DEF TypeOK
    <3>2. rec'[c] \in 1..Len(log') /\ log'[rec'[c]] = Entry(c)
      BY <3>1 DEF TypeOK
    <3> QED BY <2>0, <2>2, <3>1, <3>2 DEF HandledOf, MayChange, tables
  <2> QED BY <1>4, <2>1, <2>2, AppendStep
<1>5. ASSUME NEW c \in Calls, Writes(c) \/ CommitTx(c) \/ CreateScript(c) PROVE HandledOf(c)'
  <2>1. pc'[c] \in {"done", "failed"}
    BY <1>5, WriteStep, CommitStep, CreateStep, SMTT(30) DEF TypeOK
  <2> QED BY <1>2, <2>1
<1>6. ASSUME NEW c \in Calls,
             Moves(c) \/ AppendAudit(c) \/ Writes(c) \/ CommitTx(c) \/ CreateScript(c)
      PROVE  Handled'
  <2>1. ASSUME NEW q \in Calls, q # c PROVE HandledOf(q)'
    BY <1>6, <2>1, OtherCalls, HandledKept
  <2>2. HandledOf(c)'
    BY <1>3, <1>4, <1>5, <1>6
  <2> QED BY <2>1, <2>2 DEF Handled
<1> QED BY <1>1, <1>6, Actions

\* What there is of call c in the log when it makes a step.
LEMMA EntriesOf ==
  ASSUME TypeOK, Handled, Entries, NEW c \in Calls, NEW i \in 1..Len(log), log[i].call = c,
         Moves(c) \/ AppendAudit(c) \/ Writes(c) \/ CommitTx(c) \/ CreateScript(c)
  PROVE  /\ Moves(c) \/ Writes(c)
         /\ pc[c] = "write" /\ rec[c] = i /\ log[i] = Entry(c) /\ log[i].request = req[c]
         /\ pc'[c] \in {"done", "failed"} /\ ended'[c] = Len(log)
<1>1. pc[c] \in {"write", "done", "failed"} /\ (pc[c] = "write" => rec[c] = i)
  BY DEF Entries, EntryOf
<1>2. pc[c] \in {"new", "append", "write", "commit"}
  BY MoveStep, AppendStep, WriteStep, CommitStep, CreateStep
<1>3. rec[c] = i /\ pc[c] = "write" /\ (Moves(c) \/ Writes(c))
  BY <1>1, <1>2, AppendStep, CommitStep, CreateStep
<1>4. log[i] = Entry(c)
  BY <1>3 DEF Handled, HandledOf
<1>5. pc'[c] \in {"done", "failed"} /\ ended'[c] = Len(log)
  <2>1. pc = [d \in Calls |-> pc[d]] /\ ended = [d \in Calls |-> ended[d]]
    BY DEF TypeOK
  <2>2. \E how \in {"done", "failed"} : pc' = [pc EXCEPT ![c] = how]
    BY <1>3, MoveStep, WriteStep
  <2>3. ended' = [ended EXCEPT ![c] = Len(log)]
    BY <1>3, MoveStep, WriteStep
  <2> QED BY <2>1, <2>2, <2>3
<1> QED BY <1>3, <1>4, <1>5 DEF Entry

\* An entry that is made by a step is that of its call.
LEMMA NewEntry ==
  ASSUME TypeOK, Handled, [Next]_vars, NEW i \in 1..Len(log'), i \notin 1..Len(log)
  PROVE  /\ i = Len(log) + 1 /\ Len(log') = i
         /\ \E c \in Calls : /\ AppendAudit(c) \/ CommitTx(c)
                             /\ log'[i] = Entry(c) /\ log'[i].call = c /\ log'[i].request = req[c]
<1>0. log \in Seq([request : Requests, call : Calls])
  BY DEF TypeOK
<1>1. ASSUME NEW c \in Calls, AppendAudit(c) \/ CommitTx(c)
      PROVE  log' = Append(log, Entry(c))
  BY <1>1, AppendStep, CommitStep
<1>2. ASSUME NEW c \in Calls, Moves(c) \/ Writes(c) \/ CreateScript(c) PROVE log' = log
  BY <1>2, MoveStep, WriteStep, CreateStep
<1>3. UNCHANGED vars \/ Replicate => log' = log
  BY DEF vars, Replicate
<1>4. PICK c \in Calls : AppendAudit(c) \/ CommitTx(c)
  BY <1>2, <1>3, Actions
<1>5. i = Len(log) + 1 /\ Len(log') = i /\ log'[i] = Entry(c)
  BY <1>0, <1>1, <1>4
<1> QED BY <1>4, <1>5 DEF Entry

LEMMA StepEntries ==
  ASSUME TypeOK, Handled, Entries, [Next]_vars
  PROVE  Entries'
<1> SUFFICES ASSUME NEW i \in 1..Len(log') PROVE EntryOf(i)'
  BY DEF Entries
<1>1. CASE i \in 1..Len(log)
  <2>1. log'[i] = log[i] /\ req' = req /\ EntryOf(i) /\ log[i].call \in Calls
    <3>1. log \in Seq([request : Requests, call : Calls])
      BY DEF TypeOK
    <3>2. log[i] \in [request : Requests, call : Calls]
      BY <1>1, <3>1, Elements
    <3> QED BY <1>1, <3>2, Keeps DEF Entries
  <2>2. ASSUME NEW s \in Scripts, Touches(i, s)'
        PROVE  creator'[s] # NoUser /\ log[i].request.by \in Admins \cup {creator'[s]}
    BY <2>1, <2>2, MayChangeKept DEF EntryOf, Touches
  <2>3. \/ pc'[log[i].call] \in {"done", "failed"}
        \/ pc'[log[i].call] = pc[log[i].call] /\ rec'[log[i].call] = rec[log[i].call]
    <3>1. CASE UNCHANGED vars \/ Replicate
      BY <3>1 DEF vars, Replicate
    <3>2. ASSUME NEW c \in Calls,
                 Moves(c) \/ AppendAudit(c) \/ Writes(c) \/ CommitTx(c) \/ CreateScript(c)
          PROVE  \/ pc'[log[i].call] \in {"done", "failed"}
                 \/ pc'[log[i].call] = pc[log[i].call] /\ rec'[log[i].call] = rec[log[i].call]
      BY <1>1, <2>1, <3>2, OtherCalls, EntriesOf
    <3> QED BY <3>1, <3>2, Actions
  <2> QED BY <2>1, <2>2, <2>3 DEF EntryOf, MayChange
<1>2. CASE i \notin 1..Len(log)
  <2>1. PICK c \in Calls : /\ AppendAudit(c) \/ CommitTx(c)
                           /\ log'[i].call = c /\ log'[i].request = req[c]
    BY <1>2, NewEntry
  <2>2. /\ pc'[c] \in {"write", "done", "failed"} /\ (pc'[c] = "write" => rec'[c] = i)
        /\ \A s \in Scripts : s \in Target(req[c]) => MayChange(req[c].by, s)
    <3>1. i = Len(log) + 1
      BY <1>2, NewEntry
    <3>2. CASE AppendAudit(c)
      BY <3>1, <3>2, AppendStep DEF TypeOK
    <3>3. CASE CommitTx(c)
      BY <3>1, <3>3, CommitStep DEF TypeOK
    <3> QED BY <2>1, <3>2, <3>3
  <2>3. ASSUME NEW s \in Scripts, s \in Target(req[c])
        PROVE  creator'[s] # NoUser /\ req[c].by \in Admins \cup {creator'[s]}
    BY <2>2, <2>3, MayChangeKept
  <2> QED BY <2>1, <2>2, <2>3, Keeps DEF EntryOf, MayChange, Touches
<1> QED BY <1>1, <1>2
-----------------------------------------------------------------------------
(* The tables.                                                             *)

LEMMA StepTables ==
  ASSUME TypeOK, Handled, Tables, [Next]_vars
  PROVE  Tables'
<1> DEFINE O(t) == \A s \in Scripts : t[s] # NoRow => t[s].by = creator'[s]
           L(t) == \A k \in Keys : t[k] # NoRow /\ t[k].id # 0 =>
                     <<k, t[k].value>> \in log'[t[k].id].request.puts
<1>1. ASSUME NEW t \in [Keys -> Row(Len(log))], Owned(t) PROVE O(t)
  <2> SUFFICES ASSUME NEW s \in Scripts, t[s] # NoRow PROVE t[s].by = creator'[s]
    OBVIOUS
  <2>1. t[s].by \in Users /\ t[s].by = creator[s]
    BY <1>1 DEF Row, Owned, Keys
  <2> QED BY <2>1, Keeps, RequestsAssumption
<1>2. ASSUME NEW t \in [Keys -> Row(Len(log))], Logged(t) PROVE L(t)
  <2> SUFFICES ASSUME NEW k \in Keys, t[k] # NoRow, t[k].id # 0
               PROVE  <<k, t[k].value>> \in log'[t[k].id].request.puts
    OBVIOUS
  <2>1. t[k].id \in 1..Len(log)
    BY Types DEF Row
  <2> QED BY <1>2, <2>1, Keeps DEF Logged
<1>3. O(rows) /\ O(replica) /\ L(rows) /\ L(replica)
  BY <1>1, <1>2, Types DEF Tables
<1>4. ASSUME O(rows'), L(rows'), replica' = replica \/ replica' = rows PROVE Tables'
  BY <1>3, <1>4 DEF Tables, Owned, Logged
<1>5. ASSUME NEW c \in Calls, NEW i, Carried(rows, rows', req[c], i), log'[i] = Entry(c)
      PROVE  O(rows') /\ L(rows')
  <2>1. Entry(c).request = req[c]
    BY DEF Entry
  <2>2. ASSUME NEW s \in Scripts, rows'[s] # NoRow PROVE rows'[s].by = creator'[s]
    <3>1. s \in Keys
      BY DEF Keys
    <3>2. \/ rows'[s] = rows[s] /\ rows[s].by = creator'[s]
          \/ \E v \in Values, u \in Users :
               rows'[s] = [value |-> v, id |-> i, by |-> u] /\ rows[s] # NoRow /\ rows[s].by = u
      BY <1>3, <1>5, <2>2, <3>1 DEF Carried
    <3>3. rows[s] # NoRow => rows[s].by = creator'[s]
      BY <1>3
    <3>4. ASSUME NEW v \in Values, NEW u \in Users,
                 rows'[s] = [value |-> v, id |-> i, by |-> u]
          PROVE  rows'[s].by = u
      BY <3>4
    <3> QED BY <3>2, <3>3, <3>4
  <2>3. ASSUME NEW k \in Keys, rows'[k] # NoRow, rows'[k].id # 0
        PROVE  <<k, rows'[k].value>> \in log'[rows'[k].id].request.puts
    <3>1. \/ rows'[k] = rows[k]
          \/ \E v \in Values, u \in Users :
               <<k, v>> \in req[c].puts /\ rows'[k] = [value |-> v, id |-> i, by |-> u]
      BY <1>5, <2>3 DEF Carried
    <3>2. CASE rows'[k] = rows[k]
      BY <1>3, <2>3, <3>2
    <3>3. ASSUME NEW v \in Values, NEW u \in Users,
                 <<k, v>> \in req[c].puts, rows'[k] = [value |-> v, id |-> i, by |-> u]
          PROVE  <<k, rows'[k].value>> \in log'[rows'[k].id].request.puts
      BY <1>5, <2>1, <3>3
    <3> QED BY <3>1, <3>2, <3>3
  <2> QED BY <2>2, <2>3
<1>6. CASE UNCHANGED vars \/ Replicate
  <2>1. rows' = rows /\ (replica' = replica \/ replica' = rows)
    BY <1>6 DEF vars, tables, Replicate
  <2> HIDE DEF O, L
  <2> QED BY <1>3, <1>4, <2>1
<1>7. ASSUME NEW c \in Calls, Moves(c) \/ AppendAudit(c) PROVE Tables'
  <2>1. rows' = rows /\ replica' = replica
    BY <1>7, MoveStep, AppendStep DEF tables
  <2> HIDE DEF O, L
  <2> QED BY <1>3, <1>4, <2>1
<1>8. ASSUME NEW c \in Calls, Writes(c) PROVE Tables'
  <2>1. replica' = replica /\ log' = log /\ pc[c] = "write"
    BY <1>8, WriteStep
  <2>2. log'[rec[c]] = Entry(c)
    BY <2>1 DEF Handled, HandledOf
  <2>3. rows' = rows \/ Carried(rows, rows', req[c], rec[c])
    BY <1>8, WriteStep
  <2> HIDE DEF O, L
  <2> QED BY <1>3, <1>4, <1>5, <2>1, <2>2, <2>3
<1>9. ASSUME NEW c \in Calls, CommitTx(c) PROVE Tables'
  <2>1. replica' = replica /\ log' = Append(log, Entry(c))
        /\ Carried(rows, rows', req[c], Len(log) + 1)
    BY <1>9, CommitStep
  <2>2. log'[Len(log) + 1] = Entry(c)
    BY <2>1 DEF TypeOK
  <2> HIDE DEF O, L
  <2> QED BY <1>4, <1>5, <2>1, <2>2
<1>10. ASSUME NEW c \in Calls, CreateScript(c) PROVE Tables'
  <2>1. replica' = replica /\ log' = log
    BY <1>10, CreateStep
  <2>2. PICK s \in Scripts, v \in Values, u \in Users :
          /\ creator[s] = NoUser /\ creator' = [creator EXCEPT ![s] = u]
          /\ rows' = [rows EXCEPT ![s] = [value |-> v, id |-> 0, by |-> u]]
    BY <1>10, CreateStep
  <2>3. \A k \in Keys : rows'[k] = IF k = s THEN [value |-> v, id |-> 0, by |-> u] ELSE rows[k]
    BY <2>2, Types DEF Keys
  <2>4. creator'[s] = u
    BY <2>2 DEF TypeOK
  <2>5. O(rows')
    BY <1>3, <2>3, <2>4 DEF Keys
  <2>6. L(rows')
    BY <1>3, <2>3
  <2> HIDE DEF O, L
  <2> QED BY <1>4, <2>1, <2>5, <2>6
<1> QED BY <1>6, <1>7, <1>8, <1>9, <1>10, Actions
-----------------------------------------------------------------------------
(* Replaying the log.                                                      *)

LEMMA PutAgain ==
  ASSUME NEW r \in Requests, NEW t, NEW i, NEW k \in Target(r), NEW z, z = Put(t, r, i)
  PROVE  Put(z, r, i)[k] = z[k]
<1>0. k \in Keys
  BY RequestFacts
<1>1. CASE k \in r.dels
  BY <1>0, <1>1, PutFacts
<1>2. CASE k \notin r.dels
  <2>1. PICK v \in Values : <<k, v>> \in r.puts
    BY <1>2, RequestFacts DEF Target
  <2>2. z[k] = [value |-> v, id |-> i, by |-> IF k \in Scripts THEN t[k].by ELSE r.by]
    BY <1>0, <1>2, <2>1, PutFacts
  <2>3. Put(z, r, i)[k] =
          [value |-> v, id |-> i, by |-> IF k \in Scripts THEN z[k].by ELSE r.by]
    BY <1>0, <1>2, <2>1, PutFacts
  <2> QED BY <2>2, <2>3
<1> QED BY <1>1, <1>2

\* Entry i of key k is what the row must agree with.
Settled(k, i) ==
  /\ Touches(i, k) /\ pc[log[i].call] = "done"
  /\ \A j \in (1..Len(log)) \ {i} : Touches(j, k) =>
       pc[log[j].call] \in {"done", "failed"} /\ ended[log[j].call] < i

\* The step of a call that has no entry of key k, when entry i decides k.
LEMMA ElsewhereKept ==
  ASSUME TypeOK, Handled, Entries, NEW c \in Calls, NEW k \in Keys, NEW i \in 1..Len(log),
         Moves(c) \/ AppendAudit(c) \/ Writes(c) \/ CommitTx(c) \/ CreateScript(c),
         Touches(i, k), Settled(k, i)',
         \A j \in 1..Len(log) : log[j].call = c => ~Touches(j, k)
  PROVE  rows'[k] = rows[k]
<1>0. Len(log) \in Nat /\ [Next]_vars
  BY Types DEF Next, Moves, Writes
<1>1. CASE Moves(c) \/ AppendAudit(c)
  BY <1>1, MoveStep, AppendStep DEF tables
<1>2. CASE Writes(c)
  <2>1. rec[c] \in 1..Len(log) /\ log[rec[c]] = Entry(c)
    BY <1>2, WriteStep DEF Handled, HandledOf
  <2>2. log[rec[c]].call = c /\ log[rec[c]].request = req[c]
    BY <2>1 DEF Entry
  <2>3. k \notin Target(req[c])
    BY <2>1, <2>2 DEF Touches
  <2>4. req[c] \in Requests
    BY Types
  <2>5. rows' = rows \/ rows' = Put(rows, req[c], rec[c])
    BY <1>2, WriteStep
  <2> QED BY <2>3, <2>4, <2>5, PutFacts
<1>3. CASE CommitTx(c)
  <2>1. log' = Append(log, Entry(c)) /\ rows' = Put(rows, req[c], Len(log) + 1)
    BY <1>3, CommitStep
  <2>2. ended'[c] = Len(log)
    BY <1>3, CommitStep DEF TypeOK
  <2> PICK n \in Nat : n = Len(log) + 1
    BY <1>0
  <2>3. n \in (1..Len(log')) \ {i} /\ log'[n] = Entry(c)
    BY <1>0, <2>1 DEF TypeOK
  <2>4. Entry(c).call = c /\ Entry(c).request = req[c]
    BY DEF Entry
  <2>5. ASSUME k \in Target(req[c]) PROVE FALSE
    <3>1. Touches(n, k)'
      BY <2>3, <2>4, <2>5 DEF Touches
    <3>2. ended'[c] < i
      BY <2>3, <2>4, <3>1 DEF Settled
    <3> QED BY <1>0, <2>2, <3>2
  <2>6. req[c] \in Requests
    BY Types
  <2> QED BY <2>1, <2>5, <2>6, PutFacts
<1>4. CASE CreateScript(c)
  <2>1. PICK s \in Scripts, v \in Values, u \in Users :
          creator[s] = NoUser /\ rows' = [rows EXCEPT ![s] = [value |-> v, id |-> 0, by |-> u]]
    BY <1>4, CreateStep
  <2>2. k # s
    BY <2>1 DEF Entries, EntryOf, MayChange
  <2> QED BY <2>1, <2>2, Types
<1> QED BY <1>1, <1>2, <1>3, <1>4

LEMMA StepReplay ==
  ASSUME TypeOK, Handled, Entries, ReplayMatches, [Next]_vars
  PROVE  ReplayMatches'
<1> SUFFICES ASSUME NEW k \in Keys, NEW i \in 1..Len(log'), Settled(k, i)'
             PROVE  rows'[k] = Put(rows', log'[i].request, i)[k]
  BY DEF ReplayMatches, Settled
<1>0. Len(log) \in Nat /\ Len(log') \in Nat /\ Len(log) <= Len(log')
  BY Keeps
<1>1. CASE i \notin 1..Len(log)
  <2>1. i = Len(log) + 1
    BY <1>1, NewEntry
  <2>2. PICK c \in Calls : /\ AppendAudit(c) \/ CommitTx(c)
                           /\ log'[i].call = c /\ log'[i].request = req[c]
    BY <1>1, NewEntry
  <2>3. pc'[c] = "done" /\ k \in Target(req[c])
    BY <2>2 DEF Settled, Touches
  <2>4. ~AppendAudit(c)
    BY <2>3, AppendStep DEF TypeOK
  <2>5. rows' = Put(rows, req[c], i) /\ req[c] \in Requests
    BY <2>1, <2>2, <2>4, CommitStep, Types
  <2> QED BY <2>2, <2>3, <2>5, PutAgain
<1>2. CASE i \in 1..Len(log)
  <2>1. \A j \in 1..Len(log) : log'[j] = log[j] /\ j \in 1..Len(log')
    BY <1>0, Keeps
  <2>2. \A j \in 1..Len(log) : Touches(j, k)' <=> Touches(j, k)
    BY <2>1 DEF Touches
  <2>3. Touches(i, k) /\ log'[i] = log[i] /\ log[i].request \in Requests
    <3>1. log \in Seq([request : Requests, call : Calls])
      BY DEF TypeOK
    <3>2. log[i] \in [request : Requests, call : Calls]
      BY <1>2, <3>1, Elements
    <3> QED BY <1>2, <2>1, <2>2, <3>2 DEF Settled
  <2>4. ASSUME rows'[k] = rows[k],
               \A j \in 1..Len(log) : Touches(j, k) =>
                 pc'[log[j].call] = pc[log[j].call] /\ ended'[log[j].call] = ended[log[j].call]
        PROVE  rows'[k] = Put(rows', log'[i].request, i)[k]
    <3>1. Settled(k, i)
      BY <1>2, <2>1, <2>2, <2>3, <2>4 DEF Settled
    <3>2. rows[k] = Put(rows, log[i].request, i)[k]
      BY <1>2, <3>1 DEF ReplayMatches, Settled
    <3>3. Put(rows, log[i].request, i)[k] = Put(rows', log[i].request, i)[k]
      BY <2>4 DEF Put
    <3> QED BY <2>3, <2>4, <3>2, <3>3
  <2>5. CASE UNCHANGED vars \/ Replicate
    <3>1. rows' = rows /\ pc' = pc /\ ended' = ended
      BY <2>5 DEF vars, tables, Replicate
    <3> QED BY <2>4, <3>1
  <2>6. ASSUME NEW c \in Calls,
               Moves(c) \/ AppendAudit(c) \/ Writes(c) \/ CommitTx(c) \/ CreateScript(c)
        PROVE  rows'[k] = Put(rows', log'[i].request, i)[k]
    <3>1. ASSUME NEW j \in 1..Len(log), log[j].call = c, Touches(j, k)
          PROVE  rows'[k] = Put(rows', log'[i].request, i)[k]
      <4>1. /\ Moves(c) \/ Writes(c)
            /\ rec[c] = j /\ log[j].request = req[c]
            /\ pc'[c] \in {"done", "failed"} /\ ended'[c] = Len(log)
        BY <2>6, <3>1, EntriesOf
      <4>2. j = i
        <5>1. CASE j # i
          <6>1. ended'[c] < i
            BY <2>1, <2>2, <3>1, <5>1 DEF Settled
          <6> QED BY <1>0, <1>2, <4>1, <6>1
        <5> QED BY <5>1
      <4>3. pc'[c] = "done"
        BY <2>3, <3>1, <4>2 DEF Settled
      <4>4. ~Moves(c)
        BY <4>3, MoveStep DEF TypeOK
      <4>5. rows' = Put(rows, req[c], i)
        <5>1. pc' # [pc EXCEPT ![c] = "failed"]
          BY <4>3 DEF TypeOK
        <5> QED BY <4>1, <4>2, <4>4, <5>1, WriteStep
      <4> QED BY <2>3, <3>1, <4>1, <4>2, <4>5, PutAgain DEF Touches
    <3>2. ASSUME \A j \in 1..Len(log) : log[j].call = c => ~Touches(j, k)
          PROVE  rows'[k] = Put(rows', log'[i].request, i)[k]
      <4>1. rows'[k] = rows[k]
        BY <1>2, <2>3, <2>6, <3>2, ElsewhereKept
      <4>2. ASSUME NEW j \in 1..Len(log), Touches(j, k)
            PROVE  pc'[log[j].call] = pc[log[j].call] /\ ended'[log[j].call] = ended[log[j].call]
        <5>1. log \in Seq([request : Requests, call : Calls])
          BY DEF TypeOK
        <5>2. log[j] \in [request : Requests, call : Calls]
          BY <5>1, Elements
        <5>3. log[j].call \in Calls /\ log[j].call # c
          BY <3>2, <4>2, <5>2
        <5> QED BY <2>6, <5>3, OtherCalls
      <4> QED BY <2>4, <4>1, <4>2
    <3> QED BY <3>1, <3>2
  <2> QED BY <2>5, <2>6, Actions
<1> QED BY <1>1, <1>2
-----------------------------------------------------------------------------
LEMMA InitIInv == Init => IInv
<1> SUFFICES ASSUME Init PROVE IInv
  OBVIOUS
<1>1. PICK n \in 0..MaxScripts, u \in Users, v \in Values :
        /\ creator = [s \in Scripts |-> IF s <= n THEN u ELSE NoUser]
        /\ rows = [k \in Keys |-> IF k \in Scripts /\ k <= n
                                  THEN [value |-> v, id |-> 0, by |-> u] ELSE NoRow]
  BY DEF Init
<1>2. log = << >> /\ Len(log) = 0 /\ 1..Len(log) = {} /\ 0..Len(log) = {0}
  BY DEF Init
<1>3. TypeOK
  <2>1. rows \in [Keys -> Row(0)] /\ replica \in [Keys -> Row(0)]
    BY <1>1 DEF Init, Row
  <2> QED BY <1>1, <1>2, <2>1 DEF Init, TypeOK, Row
<1>4. Handled /\ Entries
  BY <1>2 DEF Init, Handled, HandledOf, Entries
<1>5. Tables
  <2>1. Owned(rows) /\ Logged(rows)
    BY <1>1 DEF Owned, Logged, NoRow, Keys
  <2>2. CASE replica = rows
    BY <2>1, <2>2 DEF Tables, Owned, Logged
  <2>3. CASE replica = [k \in Keys |-> NoRow]
    BY <2>1, <2>3 DEF Tables, Owned, Logged, Keys
  <2> QED BY <2>2, <2>3 DEF Init
<1>6. ReplayMatches
  BY <1>2 DEF ReplayMatches
<1> QED BY <1>3, <1>4, <1>5, <1>6 DEF IInv

\* The invariant: each call has at most one entry, of what it was asked for
\* and may do, and the rows say what the entries they point to say.
THEOREM Inductive == Spec => []IInv
<1>1. ASSUME IInv, [Next]_vars PROVE IInv'
  BY <1>1, StepTypeOK, StepHandled, StepEntries, StepTables, StepReplay DEF IInv
<1> QED BY InitIInv, <1>1, PTL DEF Spec

\* The log, the rows and the calls keep their types.
THEOREM TypeCorrect == Spec => []TypeOK
BY Inductive, PTL DEF IInv

\* Whoever is refused by the replica's word leaves nothing in the log, and an
\* old answer of the replica never makes another one the owner.
THEOREM Rightful == Spec => []OwnerOrAdmin
<1>1. ASSUME IInv PROVE OwnerOrAdmin
  <2>1. ASSUME NEW i \in 1..Len(log), NEW s \in Scripts, Touches(i, s)
        PROVE  log[i].request.by \in Admins \cup {creator[s]}
    BY <1>1, <2>1 DEF IInv, Entries, EntryOf, MayChange
  <2>2. SharedOnPurpose
    <3> SUFFICES ASSUME NEW u \in Users, NEW s \in Scripts, replica[s] # NoRow,
                        replica[s].value \in Shared \/ replica[s].by = u
                 PROVE  IF replica[s].by = u THEN u = creator[s]
                        ELSE \E v \in Shared :
                               \/ replica[s].id = 0 /\ replica[s].value = v
                               \/ replica[s].id # 0 /\ <<s, v>> \in log[replica[s].id].request.puts
      BY DEF SharedOnPurpose, Mine, savedScripts, Visible
    <3>1. replica[s].by = creator[s]
      BY <1>1 DEF IInv, Tables, Owned
    <3>2. replica[s].id # 0 => <<s, replica[s].value>> \in log[replica[s].id].request.puts
      BY <1>1 DEF IInv, Tables, Logged, Keys
    <3> QED BY <3>1, <3>2
  <2> QED BY <2>1, <2>2 DEF OwnerOrAdmin
<1> QED BY Inductive, <1>1, PTL

\* The log can be replayed, although three of the six calls write their row
\* after the transaction of the entry, in any order.
THEOREM Replayable == Spec => []ReplayMatches
BY Inductive, PTL DEF IInv

\* No row changes but as an entry says that a call in progress has made.
THEOREM Audited == Spec => AuditedChange
<1> DEFINE Change == \A k \in Keys : rows'[k] # rows[k] =>
       \/ k \in Scripts /\ rows[k] = NoRow /\ rows'[k].id = 0
       \/ \E i \in 1..Len(log') :
            /\ pc[log'[i].call] \in {"write", "commit"}
            /\ IF rows'[k] = NoRow
               THEN k \in log'[i].request.dels
               ELSE <<k, rows'[k].value>> \in log'[i].request.puts /\ rows'[k].id = i
<1>1. ASSUME IInv, [Next]_vars PROVE Change
  <2>0. TypeOK /\ Handled /\ Tables
    BY <1>1 DEF IInv
  <2>1. ASSUME NEW c \in Calls, NEW i \in 1..Len(log'), pc[c] \in {"write", "commit"},
               log'[i] = Entry(c), Carried(rows, rows', req[c], i)
        PROVE  Change
    <3> SUFFICES ASSUME NEW k \in Keys, rows'[k] # rows[k]
                 PROVE  IF rows'[k] = NoRow
                        THEN k \in log'[i].request.dels
                        ELSE <<k, rows'[k].value>> \in log'[i].request.puts /\ rows'[k].id = i
      BY <2>1 DEF Entry
    <3>1. log'[i].request = req[c]
      BY <2>1 DEF Entry
    <3>2. CASE k \in req[c].dels /\ rows'[k] = NoRow
      BY <3>1, <3>2
    <3>3. ASSUME NEW v \in Values, NEW u \in Users, <<k, v>> \in req[c].puts,
                 rows'[k] = [value |-> v, id |-> i, by |-> u]
          PROVE  rows'[k] # NoRow /\ rows'[k].value = v /\ rows'[k].id = i
      BY <3>3, RequestsAssumption DEF NoRow
    <3> QED BY <2>1, <3>1, <3>2, <3>3 DEF Carried
  <2>2. CASE UNCHANGED vars \/ Replicate
    BY <2>2 DEF vars, tables, Replicate
  <2>3. ASSUME NEW c \in Calls, Moves(c) \/ AppendAudit(c) PROVE Change
    BY <2>0, <2>3, MoveStep, AppendStep DEF tables
  <2>4. ASSUME NEW c \in Calls, Writes(c) PROVE Change
    <3>1. /\ log' = log /\ pc[c] = "write" /\ rec[c] \in 1..Len(log) /\ log[rec[c]] = Entry(c)
          /\ rows' = rows \/ Carried(rows, rows', req[c], rec[c])
      BY <2>0, <2>4, WriteStep DEF Handled, HandledOf
    <3> HIDE DEF Change
    <3>2. rows' = rows => Change
      BY DEF Change
    <3> QED BY <2>1, <3>1, <3>2
  <2>5. ASSUME NEW c \in Calls, CommitTx(c) PROVE Change
    <3>1. /\ log' = Append(log, Entry(c)) /\ pc[c] = "commit"
          /\ Carried(rows, rows', req[c], Len(log) + 1)
      BY <2>0, <2>5, CommitStep
    <3>2. Len(log) + 1 \in 1..Len(log') /\ log'[Len(log) + 1] = Entry(c)
      BY <2>0, <3>1 DEF TypeOK
    <3> HIDE DEF Change
    <3> QED BY <2>1, <3>1, <3>2
  <2>6. ASSUME NEW c \in Calls, CreateScript(c) PROVE Change
    <3>1. PICK s \in Scripts, v \in Values, u \in Users :
            creator[s] = NoUser /\ rows' = [rows EXCEPT ![s] = [value |-> v, id |-> 0, by |-> u]]
      BY <2>0, <2>6, CreateStep
    <3>2. rows[s] = NoRow /\ rows'[s].id = 0
      <4>1. s \in Keys
        BY DEF Keys
      <4>2. rows[s] # NoRow => rows[s].by \in Users /\ rows[s].by = NoUser
        BY <2>0, <3>1, <4>1, Types DEF Row, Tables, Owned
      <4> QED BY <2>0, <3>1, <4>1, <4>2, Types, RequestsAssumption
    <3> QED BY <2>0, <3>1, <3>2, Types
  <2> HIDE DEF Change
  <2> QED BY <1>1, <2>2, <2>3, <2>4, <2>5, <2>6, Actions
<1> QED BY Inductive, <1>1, PTL DEF Spec, AuditedChange

\* A deleted script stays deleted, whatever call on it was under way.
THEOREM Gone == Spec => GoneForGood
<1> DEFINE Stays == \A s \in Scripts : creator[s] # NoUser /\ rows[s] = NoRow => rows'[s] = NoRow
<1>1. ASSUME IInv, [Next]_vars PROVE Stays
  <2>0. TypeOK /\ Handled
    BY <1>1 DEF IInv
  <2>1. ASSUME NEW c \in Calls, NEW i, Carried(rows, rows', req[c], i) PROVE Stays
    BY <2>1 DEF Carried, Keys
  <2>2. CASE UNCHANGED vars \/ Replicate
    BY <2>2 DEF vars, tables, Replicate
  <2>3. ASSUME NEW c \in Calls,
               Moves(c) \/ AppendAudit(c) \/ Writes(c) \/ CommitTx(c) \/ CreateScript(c)
        PROVE  Stays
    <3>1. CASE Moves(c) \/ AppendAudit(c)
      BY <2>0, <3>1, MoveStep, AppendStep DEF tables
    <3>2. CASE Writes(c) \/ CommitTx(c)
      <4>1. rows' = rows \/ \E i : Carried(rows, rows', req[c], i)
        BY <2>0, <3>2, WriteStep, CommitStep
      <4> QED BY <2>1, <4>1
    <3>3. CASE CreateScript(c)
      <4>1. PICK s \in Scripts, v \in Values, u \in Users :
              creator[s] = NoUser /\ rows' = [rows EXCEPT ![s] = [value |-> v, id |-> 0, by |-> u]]
        BY <2>0, <3>3, CreateStep
      <4> QED BY <2>0, <4>1, Types DEF Keys
    <3> QED BY <2>3, <3>1, <3>2, <3>3
  <2> HIDE DEF Stays
  <2> QED BY <1>1, <2>2, <2>3, Actions
<1> QED BY Inductive, <1>1, PTL DEF Spec, GoneForGood
=============================================================================
