------------------------------ MODULE Startup -------------------------------
(***************************************************************************)
(* How the databases come to have their schema.                            *)
(*                                                                         *)
(* Every replica of a service opens the stats backend before it serves     *)
(* (OpenStats, internal/store/open.go): it applies the ClickHouse files    *)
(* one statement at a time, with no transaction (chmigrate.go), and then   *)
(* provisions the tier 2 isolation, whose failure it only logs             *)
(* (chsecurity.go).  The configuration database is migrated by Migrate     *)
(* (migrate.go), one transaction per file, from whatever process calls it. *)
(* Nothing locks any of this: several replicas and several migrators run   *)
(* it at the same time, and each may die between any two statements.       *)
(*                                                                         *)
(* A version is the index of a file in lexical order.  A process that      *)
(* returns an error ends (log.Fatal) and is started again by whatever      *)
(* deployed it.                                                            *)
(***************************************************************************)
EXTENDS Integers, Sequences

CONSTANTS Replicas,    \* processes that call OpenStats
          Migrators,   \* processes that call ApplyConfigMigrations
          Statements,  \* Statements[v]: the statements of ClickHouse file v
          ConfigFiles, \* number of configuration files
          Provisions,  \* the statements of ProvisionCHSecurity, in order
          MaxDeaths    \* bound: processes that fail or are killed

ASSUME FilesAssumption ==
  /\ {Len(Statements), ConfigFiles, Len(Provisions)} \subseteq Nat \ {0} /\ MaxDeaths \in Nat
  /\ DOMAIN Statements = 1..Len(Statements)
  /\ \A v \in DOMAIN Statements : Len(Statements[v]) \in Nat
ASSUME ProcessesAssumption == Replicas \cap Migrators = {}

VARIABLES
  at,        \* at[p]: the next call of process p
  schema,    \* ClickHouse statements that took effect: <<version, index>>
  versions,  \* ClickHouse versions with a row in schema_migrations
  secured,   \* provisioning statements that took effect
  applied,   \* configuration files whose transaction committed, in order
  recorded,  \* configuration versions in schema_migrations
  deaths     \* processes that failed or were killed

vars == <<at, schema, versions, secured, applied, recorded, deaths>>

Processes == Replicas \cup Migrators
Files     == DOMAIN Statements

\* A call: what it does, in which file, and which statement of it.
Call(what, file, i) == [what |-> what, file |-> file, i |-> i]

Serving(r) == at[r].what = "serve"

First(p) == Call("check", 1, 1)

-----------------------------------------------------------------------------
(* Variants of the definitions below, each with a mistake the code could   *)
(* have made; substituted for the original, a property must fail.          *)

\* The version is recorded with the first statement of its file.
ApplyRecordsFirst(r) ==
  LET c == at[r] IN
  /\ c.what = "apply" /\ c.i <= Len(Statements[c.file])
  /\ schema' = schema \cup {<<c.file, c.i>>}
  /\ versions' = versions \cup {c.file}
  /\ at' = [at EXCEPT ![r].i = c.i + 1]
  /\ UNCHANGED <<secured, applied, recorded, deaths>>

\* Configuration files are run whether they are recorded or not.
CheckConfigNever(m) ==
  /\ at[m].what = "check"
  /\ at' = [at EXCEPT ![m] = Call("execute", at[m].file, 1)]
  /\ UNCHANGED <<schema, versions, secured, applied, recorded, deaths>>

-----------------------------------------------------------------------------
Init ==
  /\ at = [p \in Processes |-> First(p)]
  /\ schema = {} /\ versions = {} /\ secured = {}
  /\ applied = << >> /\ recorded = {}
  /\ deaths = 0

Goto(p, call) == at' = [at EXCEPT ![p] = call]

\* A process is killed, or a call of it fails (creating schema_migrations at the
\* same time as another may); whatever it had not committed is gone.
Die(p) ==
  /\ at[p].what # "failed" /\ deaths < MaxDeaths
  /\ deaths' = deaths + 1
  /\ Goto(p, Call("failed", 1, 1))
  /\ UNCHANGED <<schema, versions, secured, applied, recorded>>

Restart(p) ==
  /\ at[p].what = "failed"
  /\ Goto(p, First(p))
  /\ UNCHANGED <<schema, versions, secured, applied, recorded, deaths>>

-----------------------------------------------------------------------------
(* ApplyClickHouseMigrations, then ProvisionCHSecurity.                    *)

NextFile(c) ==
  IF c.file < Len(Statements) THEN Call("check", c.file + 1, 1)
  ELSE Call("provision", 1, 1)

\* A version with a row in schema_migrations is skipped.
CheckVersion(r) ==
  LET c == at[r] IN
  /\ c.what = "check"
  /\ Goto(r, IF c.file \in versions THEN NextFile(c) ELSE Call("apply", c.file, 1))
  /\ UNCHANGED <<schema, versions, secured, applied, recorded, deaths>>

\* The next statement of the file.  Each may be run again: IF NOT EXISTS.
ApplyStatement(r) ==
  LET c == at[r] IN
  /\ c.what = "apply" /\ c.i <= Len(Statements[c.file])
  /\ schema' = schema \cup {<<c.file, c.i>>}
  /\ at' = [at EXCEPT ![r].i = c.i + 1]
  /\ UNCHANGED <<versions, secured, applied, recorded, deaths>>

RecordVersion(r) ==
  LET c == at[r] IN
  /\ c.what = "apply" /\ c.i > Len(Statements[c.file])
  /\ versions' = versions \cup {c.file}
  /\ Goto(r, NextFile(c))
  /\ UNCHANGED <<schema, secured, applied, recorded, deaths>>

NextProvision(c) ==
  IF c.i < Len(Provisions) THEN Call("provision", 1, c.i + 1) ELSE Call("serve", 1, 1)

Provision(r) ==
  LET c == at[r] IN
  /\ c.what = "provision"
  /\ secured' = secured \cup {Provisions[c.i]}
  /\ Goto(r, NextProvision(c))
  /\ UNCHANGED <<schema, versions, applied, recorded, deaths>>

\* A statement that fails ends the provisioning and not the start.
ProvisionFails(r) ==
  /\ at[r].what = "provision" /\ deaths < MaxDeaths
  /\ deaths' = deaths + 1
  /\ Goto(r, Call("serve", 1, 1))
  /\ UNCHANGED <<schema, versions, secured, applied, recorded>>

-----------------------------------------------------------------------------
(* Migrate: a transaction applies a file and records its version.          *)

NextConfig(c) ==
  IF c.file < ConfigFiles THEN Call("check", c.file + 1, 1) ELSE Call("done", 1, 1)

CheckConfig(m) ==
  LET c == at[m] IN
  /\ c.what = "check"
  /\ Goto(m, IF c.file \in recorded THEN NextConfig(c) ELSE Call("execute", c.file, 1))
  /\ UNCHANGED <<schema, versions, secured, applied, recorded, deaths>>

\* Begin and execute the file.  Its objects are unique by name: it waits for a
\* transaction that is creating them, and fails if they are there.
ExecuteConfig(m) ==
  LET c == at[m] IN
  /\ c.what = "execute"
  /\ \A o \in Migrators : ~(at[o].what \in {"record", "commit"} /\ at[o].file = c.file)
  /\ Goto(m, IF \E i \in 1..Len(applied) : applied[i] = c.file THEN Call("failed", 1, 1)
             ELSE Call("record", c.file, 1))
  /\ UNCHANGED <<schema, versions, secured, applied, recorded, deaths>>

RecordConfig(m) ==
  /\ at[m].what = "record"
  /\ Goto(m, Call("commit", at[m].file, 1))
  /\ UNCHANGED <<schema, versions, secured, applied, recorded, deaths>>

CommitConfig(m) ==
  LET c == at[m] IN
  /\ c.what = "commit"
  /\ applied' = Append(applied, c.file)
  /\ recorded' = recorded \cup {c.file}
  /\ Goto(m, NextConfig(c))
  /\ UNCHANGED <<schema, versions, secured, deaths>>

Open(r) ==
  \/ CheckVersion(r) \/ ApplyStatement(r) \/ RecordVersion(r)
  \/ Provision(r) \/ ProvisionFails(r)

Migrate(m) ==
  CheckConfig(m) \/ ExecuteConfig(m) \/ RecordConfig(m) \/ CommitConfig(m)

Next ==
  \/ \E r \in Replicas : Open(r)
  \/ \E m \in Migrators : Migrate(m)
  \/ \E p \in Processes : Die(p) \/ Restart(p)

\* The services are deployed: a process that has not ended goes on, and one
\* that has is started again.
Fairness ==
  /\ \A r \in Replicas : WF_vars(Open(r)) /\ WF_vars(Restart(r))
  /\ \A m \in Migrators : WF_vars(Migrate(m)) /\ WF_vars(Restart(m))

Spec == Init /\ [][Next]_vars /\ Fairness

-----------------------------------------------------------------------------
(* Properties.                                                             *)

\* A version that is recorded will be skipped for good, so it must have taken
\* effect: whatever died in between, and whoever ran the same file at the same
\* time, no recorded file has a statement missing, no configuration file is
\* applied twice or out of order, and a replica serves only when its schema is
\* complete, and secured unless a statement failed.
SchemaComplete ==
  /\ \A v \in versions : \A i \in 1..Len(Statements[v]) : <<v, i>> \in schema
  /\ \A r \in Replicas : Serving(r) => Files \subseteq versions
  /\ \A r \in Replicas : Serving(r) /\ deaths = 0 =>
       secured = {Provisions[i] : i \in 1..Len(Provisions)}
  /\ applied = [v \in 1..Len(applied) |-> v]
  /\ recorded = 1..Len(applied)

\* Races and crashes only delay: every replica serves in the end, and the
\* configuration database is migrated.
EventuallyServes ==
  /\ \A r \in Replicas : <>[]Serving(r)
  /\ \A m \in Migrators : <>[](at[m].what = "done")
=============================================================================
