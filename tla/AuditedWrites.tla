--------------------------- MODULE AuditedWrites ---------------------------
(***************************************************************************)
(* Writes to the config database that leave an audit entry:                *)
(* SetCapabilityPolicy, DeleteCapabilityPolicy and                         *)
(* ApplyCapabilityPoliciesBatch (internal/store/capability_policy.go) and  *)
(* CreateScript, SetScriptScope and DeleteScript                           *)
(* (internal/store/saved_scripts.go).                                      *)
(*                                                                         *)
(* Three of them append the entry in a transaction of its own and then     *)
(* write the row in another statement, without the audit lock; a delete of *)
(* a policy and a batch do both in one transaction, under the lock until   *)
(* it commits.  Such a transaction is seen to happen when it commits: the  *)
(* row locks it holds make every other write of its rows wait.  Appending  *)
(* alone is one step, as Refinement in AuditChainProofs allows; an id is   *)
(* the entry's place in the chain.                                         *)
(*                                                                         *)
(* A script's owner is looked up through a read replica, which shows some  *)
(* earlier state of the tables; so is what the pages of scripts show       *)
(* (internal/api/scripts.go).  All users are of one team.                  *)
(***************************************************************************)
EXTENDS Integers, Sequences, FiniteSets

CONSTANTS Calls,      \* calls of the six functions
          PolicyKeys, \* keys of capability_policy
          MaxScripts, \* bound: ids saved_scripts ever gives out
          Values,     \* what a row says: enabled or not, or a scope
          Shared,     \* the scopes whose scripts everyone sees
          Users,      \* actors
          Admins,     \* those with isAdmin
          NoCall,     \* no call
          NoUser,     \* no actor
          Requests    \* what the calls may ask for

Ops == {"set", "delete", "batch", "create", "scope", "drop"}

Scripts == 1..MaxScripts
Keys    == PolicyKeys \cup Scripts

\* puts pairs keys with their new values, dels are keys to be deleted.
Request == [op : Ops, puts : SUBSET (Keys \X Values), dels : SUBSET Keys, by : Users]

ASSUME RequestsAssumption ==
  /\ MaxScripts \in Nat \ {0} /\ Admins \subseteq Users /\ Shared \subseteq Values
  /\ PolicyKeys \cap Scripts = {}
  /\ NoCall \notin Calls /\ NoUser \notin Users
  /\ \A r \in Requests :
       /\ r \in Request
       /\ \A p, q \in r.puts : p[1] = q[1] => p = q
       /\ r.op = "scope" => \E s \in Scripts, v \in Values : r.puts = {<<s, v>>} /\ r.dels = {}
       /\ r.op = "drop" => \E s \in Scripts : r.puts = {} /\ r.dels = {s}
       /\ r.op \in {"set", "delete", "batch"} =>
            {p[1] : p \in r.puts} \cup r.dels \subseteq PolicyKeys

NoRow  == [value |-> "none", id |-> 0, by |-> NoUser]

VARIABLES
  log,      \* the audit entries, oldest first: a request and its call
  holder,   \* the call whose transaction holds the audit lock
  rows,     \* rows[k]: value, audit_chain_id, and set_by or owner
  replica,  \* the rows the replica shows
  creator,  \* history: creator[s]: who created script s
  pc,       \* pc[c]: where call c is
  req,      \* req[c]: what it was asked for
  rec,      \* rec[c]: the id its entry was given
  ended     \* history: ended[c]: entries before the step it returned in

tables == <<rows, replica, creator>>
vars   == <<log, holder, tables, pc, req, rec, ended>>

Goto(c, l) == pc' = [pc EXCEPT ![c] = l]

\* The call returns; an answer that is lost is an error.
Return(c, how) ==
  /\ Goto(c, how)
  /\ ended' = [ended EXCEPT ![c] = Len(log)]

\* What the rows are once request r with the audit id i is carried out.
Put(t, r, i) ==
  [k \in Keys |->
     IF k \in r.dels THEN NoRow
     ELSE IF \E v \in Values : <<k, v>> \in r.puts
     THEN [value |-> CHOOSE v \in Values : <<k, v>> \in r.puts,
           id |-> i,
           by |-> IF k \in Scripts THEN t[k].by ELSE r.by]
     ELSE t[k]]

Target(r) == {p[1] : p \in r.puts} \cup r.dels

-----------------------------------------------------------------------------
(* Variants of the definitions below, each with a mistake the code could   *)
(* have made; substituted for the original, a property must fail.          *)

\* The id of the sequence's next value, not of the entry.
NewIdNext == Len(log) + 2

\* The row is bound to the newest entry of the chain.
UpsertBindsNewest(c) ==
  /\ pc[c] = "write" /\ req[c].op = "set"
  /\ rows' = Put(rows, req[c], Len(log))
  /\ \E how \in {"done", "failed"} : Goto(c, how)
  /\ ended' = [ended EXCEPT ![c] = Len(log)]
  /\ UNCHANGED <<log, holder, replica, creator, req, rec>>

\* ON CONFLICT DO NOTHING.
UpsertDoesNothing(c) ==
  /\ pc[c] = "write" /\ req[c].op = "set"
  /\ rows' = [k \in Keys |-> IF rows[k] # NoRow THEN rows[k]
                             ELSE Put(rows, req[c], rec[c])[k]]
  /\ \E how \in {"done", "failed"} : Goto(c, how)
  /\ ended' = [ended EXCEPT ![c] = Len(log)]
  /\ UNCHANGED <<log, holder, replica, creator, req, rec>>

\* The scope change inserts the row if it is missing.
UpdateScopeUpserts(c) ==
  /\ pc[c] = "write" /\ req[c].op = "scope"
  /\ rows' = Put(rows, req[c], rec[c])
  /\ \E how \in {"done", "failed"} : Goto(c, how)
  /\ ended' = [ended EXCEPT ![c] = Len(log)]
  /\ UNCHANGED <<log, holder, replica, creator, req, rec>>

\* Whoever may see the script may change it.
PermittedIfFound(s, actor) == replica[s] # NoRow

-----------------------------------------------------------------------------
\* Some scripts exist, of one owner, and the replica may not show them yet.
Init ==
  /\ log = << >>
  /\ holder = NoCall
  /\ \E n \in 0..MaxScripts, u \in Users, v \in Values :
       /\ creator = [s \in Scripts |-> IF s <= n THEN u ELSE NoUser]
       /\ rows = [k \in Keys |->
                    IF k \in Scripts /\ k <= n
                    THEN [value |-> v, id |-> 0, by |-> u] ELSE NoRow]
  /\ replica \in {rows, [k \in Keys |-> NoRow]}
  /\ pc = [c \in Calls |-> "new"]
  /\ req \in [Calls -> Requests]
  /\ rec = [c \in Calls |-> 0]
  /\ ended = [c \in Calls |-> 0]

-----------------------------------------------------------------------------
(* SetCapabilityPolicy, SetScriptScope and DeleteScript append first ...   *)

Permitted(s, actor) ==
  replica[s] # NoRow /\ (replica[s].by = actor \/ actor \in Admins)

\* GetScript and the check of its owner.
GetScript(c) ==
  /\ pc[c] = "new" /\ req[c].op \in {"scope", "drop"}
  /\ \A s \in Target(req[c]) : Permitted(s, req[c].by)
  /\ Goto(c, "append")
  /\ UNCHANGED <<log, holder, tables, req, rec, ended>>

\* ErrScriptNotFound, ErrScriptForbidden.
Refuse(c) ==
  /\ pc[c] = "new" /\ req[c].op \in {"scope", "drop"}
  /\ \E s \in Target(req[c]) : ~Permitted(s, req[c].by)
  /\ Return(c, "failed")
  /\ UNCHANGED <<log, holder, tables, req, rec>>

Entry(c) == [request |-> req[c], call |-> c]

NewId == Len(log) + 1

\* AppendAuditReturning: the answer may be lost, the entry stays.
AppendAudit(c) ==
  /\ \/ pc[c] = "append"
     \/ pc[c] = "new" /\ req[c].op = "set"
  /\ holder = NoCall
  /\ log' = Append(log, Entry(c))
  /\ rec' = [rec EXCEPT ![c] = NewId]
  /\ \/ Goto(c, "write") /\ UNCHANGED ended
     \/ Return(c, "failed")
  /\ UNCHANGED <<holder, tables, req>>

(* ... and then write the row.                                             *)

\* INSERT ... ON CONFLICT DO UPDATE.
Upsert(c) ==
  /\ pc[c] = "write" /\ req[c].op = "set"
  /\ rows' = Put(rows, req[c], rec[c])
  /\ \E how \in {"done", "failed"} : Return(c, how)
  /\ UNCHANGED <<log, holder, replica, creator, req, rec>>

\* UPDATE: a row that is gone by now is pgx.ErrNoRows.
UpdateScope(c) ==
  /\ pc[c] = "write" /\ req[c].op = "scope"
  /\ IF \A s \in Target(req[c]) : rows[s] # NoRow
     THEN /\ rows' = Put(rows, req[c], rec[c])
          /\ \E how \in {"done", "failed"} : Return(c, how)
     ELSE Return(c, "failed") /\ UNCHANGED rows
  /\ UNCHANGED <<log, holder, replica, creator, req, rec>>

\* DELETE: a row that is gone by now is no error.
DeleteRow(c) ==
  /\ pc[c] = "write" /\ req[c].op = "drop"
  /\ rows' = Put(rows, req[c], rec[c])
  /\ \E how \in {"done", "failed"} : Return(c, how)
  /\ UNCHANGED <<log, holder, replica, creator, req, rec>>

-----------------------------------------------------------------------------
(* DeleteCapabilityPolicy and ApplyCapabilityPoliciesBatch.                *)

\* Begin, and pg_advisory_xact_lock.
BeginTx(c) ==
  /\ pc[c] = "new" /\ req[c].op \in {"delete", "batch"}
  /\ holder = NoCall
  /\ holder' = c
  /\ Goto(c, "commit")
  /\ UNCHANGED <<log, tables, req, rec, ended>>

\* appendAuditTx, the upserts, the deletes, Commit.
CommitTx(c) ==
  /\ pc[c] = "commit"
  /\ log' = Append(log, Entry(c))
  /\ rows' = Put(rows, req[c], NewId)
  /\ holder' = NoCall
  /\ \E how \in {"done", "failed"} : Return(c, how)
  /\ UNCHANGED <<replica, creator, req, rec>>

-----------------------------------------------------------------------------
\* CreateScript: no entry.  The sequence never gives an id out twice.
CreateScript(c) ==
  /\ pc[c] = "new" /\ req[c].op = "create"
  /\ \E s \in Scripts :
       /\ \A t \in Scripts : creator[t] = NoUser <=> t >= s
       /\ creator' = [creator EXCEPT ![s] = req[c].by]
       /\ \E v \in Values :
            rows' = [rows EXCEPT ![s] = [value |-> v, id |-> 0, by |-> req[c].by]]
  /\ \E how \in {"done", "failed"} : Return(c, how)
  /\ UNCHANGED <<log, holder, replica, req, rec>>

\* Any call fails where it is: its context ends, or a statement returns an
\* error.  An open transaction is rolled back.
Fail(c) ==
  /\ pc[c] \in {"new", "append", "write", "commit"}
  /\ holder' = IF holder = c THEN NoCall ELSE holder
  /\ Return(c, "failed")
  /\ UNCHANGED <<log, tables, req, rec>>

\* The replica catches up, with everything or with less.
Replicate ==
  /\ replica # rows
  /\ replica' = rows
  /\ UNCHANGED <<log, holder, rows, creator, pc, req, rec, ended>>

Next ==
  \/ \E c \in Calls :
       \/ GetScript(c) \/ Refuse(c) \/ AppendAudit(c)
       \/ Upsert(c) \/ UpdateScope(c) \/ DeleteRow(c)
       \/ BeginTx(c) \/ CommitTx(c) \/ CreateScript(c) \/ Fail(c)
  \/ Replicate

Spec == Init /\ [][Next]_vars

-----------------------------------------------------------------------------
(* The pages of scripts.                                                   *)

\* ListVisibleScripts and GetVisibleScript: a script of the owner alone is not
\* there for anyone else, admins included.
Visible(s, viewer) ==
  replica[s] # NoRow /\ (replica[s].value \in Shared \/ replica[s].by = viewer)

savedScripts(viewer) == {s \in Scripts : Visible(s, viewer)}

\* Those whose scope the viewer is offered to change.
Mine(viewer) == {s \in savedScripts(viewer) : replica[s].by = viewer}

-----------------------------------------------------------------------------
(* Properties.                                                             *)

Touches(i, k) == k \in Target(log[i].request)

\* Type invariant of the log, the tables and the calls.
TypeOK ==
  /\ log \in Seq([request : Requests, call : Calls])
  /\ holder \in Calls \cup {NoCall}
  /\ {rows, replica} \subseteq
       [Keys -> {NoRow} \cup [value : Values, id : 0..Len(log), by : Users]]
  /\ creator \in [Scripts -> Users \cup {NoUser}]
  /\ pc \in [Calls -> {"new", "append", "write", "commit", "done", "failed"}]
  /\ req \in [Calls -> Requests]
  /\ rec \in [Calls -> 0..Len(log)]
  /\ ended \in [Calls -> 0..Len(log)]

\* No row of either table changes or disappears without an entry that a call
\* still in progress has put into the log and that says just this, and a row
\* that stays carries that entry's id: nothing is done before it is audited.
\* Only a script's creation leaves no entry.
AuditedChange ==
  [][\A k \in Keys : rows'[k] # rows[k] =>
       \/ k \in Scripts /\ rows[k] = NoRow /\ rows'[k].id = 0
       \/ \E i \in 1..Len(log') :
            /\ pc[log'[i].call] \in {"write", "commit"}
            /\ IF rows'[k] = NoRow
               THEN k \in log'[i].request.dels
               ELSE <<k, rows'[k].value>> \in log'[i].request.puts /\ rows'[k].id = i]_vars

\* What others see of a script was made for them, or shared since in a change
\* that is in the log; its owner is offered no one else's.
SharedOnPurpose ==
  \A u \in Users : \A s \in savedScripts(u) :
    IF s \in Mine(u) THEN u = creator[s]
    ELSE \E v \in Shared :
           \/ replica[s].id = 0 /\ replica[s].value = v
           \/ replica[s].id # 0 /\ <<s, v>> \in log[replica[s].id].request.puts

\* Only the owner or an admin gets as far as an audited change of a script,
\* although the owner is read from a replica that may show an old state, and
\* nobody else sees what was not shared.
OwnerOrAdmin ==
  /\ \A i \in 1..Len(log) : \A s \in Scripts :
       Touches(i, s) => log[i].request.by \in Admins \cup {creator[s]}
  /\ SharedOnPurpose

\* A deleted script does not come back, neither through a scope change that
\* was under way nor through a new script with its id.
GoneForGood ==
  [][\A s \in Scripts : creator[s] # NoUser /\ rows[s] = NoRow => rows'[s] = NoRow]_vars

\* The log can be replayed: where the last entry of a key is of a call that
\* succeeded, and every other call on the key had returned before that entry
\* was made, the table shows what the entry says.
ReplayMatches ==
  \A k \in Keys, i \in 1..Len(log) :
    /\ Touches(i, k)
    /\ pc[log[i].call] = "done"
    /\ \A j \in (1..Len(log)) \ {i} : Touches(j, k) =>
         pc[log[j].call] \in {"done", "failed"} /\ ended[log[j].call] < i
    => rows[k] = Put(rows, log[i].request, i)[k]

-----------------------------------------------------------------------------
\* internal/store/migrations/config/0006_saved_scripts.sql:13-14:
\* "audit_chain_id binds a live row to the audit entry for its LAST scope
\* change".  Two changes may append in one order and update in the other.
BoundToLast ==
  \A s \in Scripts, i \in 1..Len(log) :
    /\ rows[s] # NoRow
    /\ Touches(i, s) /\ log[i].request.op = "scope" /\ pc[log[i].call] = "done"
    => rows[s].id >= i
=============================================================================
