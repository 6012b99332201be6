--------------------------- MODULE StartupProofs ---------------------------
(***************************************************************************)
(* Proofs about Startup, for any number of replicas and migrators, any     *)
(* files and any number of deaths.  Nothing is locked: what makes the race *)
(* of the replicas harmless is that a version is recorded by one that ran  *)
(* all of its file itself (ReplicaOf), and that of the migrators that one  *)
(* which is past the objects of a file is alone in there (Alone).          *)
(*                                                                         *)
(* And proofs about FleetView, for any servers, findings and reads that    *)
(* fail: a run of BackfillFleet links servers that were unlinked when it   *)
(* began, each to a cluster made for it (RegInv), and each read of a page  *)
(* leaves of every finding that it is shown, has been read, or that its    *)
(* cluster or its node is still to come (Cover).                           *)
(***************************************************************************)
EXTENDS MCStartup, FiniteSetTheorems, TLAPS

\* What a replica has done or found done when it is at call c.
ReplicaOf(r) ==
  LET c == at[r] IN
  /\ c \in [what : {"check", "apply", "provision", "serve", "failed"}, file : Files, i : Nat \ {0}]
  /\ c.what \in {"check", "apply"} => \A v \in Files : v < c.file => v \in versions
  /\ c.what = "apply" =>
       /\ c.i <= Len(Statements[c.file]) + 1
       /\ \A i \in 1..Len(Statements[c.file]) : i < c.i => <<c.file, i>> \in schema
  /\ c.what \in {"provision", "serve"} => Files \subseteq versions
  /\ c.what = "provision" =>
       /\ c.i <= Len(Provisions)
       /\ deaths = 0 => \A i \in 1..Len(Provisions) : i < c.i => Provisions[i] \in secured
  /\ c.what = "serve" /\ deaths = 0 => \A i \in 1..Len(Provisions) : Provisions[i] \in secured

\* A migrator is at a file whose predecessors are all applied, and in the
\* transaction of one that is not.
MigratorOf(m) ==
  LET c == at[m] IN
  /\ c \in [what : {"check", "execute", "record", "commit", "done", "failed"},
            file : 1..ConfigFiles, i : Nat \ {0}]
  /\ c.what \in {"check", "execute", "record", "commit"} => c.file <= Len(applied) + 1
  /\ c.what \in {"record", "commit"} => c.file = Len(applied) + 1

InTx(m) == at[m].what \in {"record", "commit"}

Alone == \A m, o \in Migrators : InTx(m) /\ InTx(o) => m = o

Recorded ==
  /\ versions \subseteq Files
  /\ \A v \in versions : \A i \in 1..Len(Statements[v]) : <<v, i>> \in schema
  /\ secured \subseteq {Provisions[i] : i \in 1..Len(Provisions)}
  /\ deaths \in Nat
  /\ applied \in Seq(Nat) /\ applied = [v \in 1..Len(applied) |-> v]
  /\ recorded = 1..Len(applied)

IInv ==
  /\ at = [p \in Processes |-> at[p]]
  /\ \A r \in Replicas : ReplicaOf(r)
  /\ \A m \in Migrators : MigratorOf(m)
  /\ Alone /\ Recorded

-----------------------------------------------------------------------------
LEMMA InitIInv == Init => IInv
<1> SUFFICES ASSUME Init PROVE IInv
  OBVIOUS
<1>1. /\ \A p \in Processes : at[p] = [what |-> "check", file |-> 1, i |-> 1]
      /\ Len(applied) = 0 /\ 1 \in Files /\ 1 \in 1..ConfigFiles /\ ~ \E v \in Files : v < 1
  BY FilesAssumption DEF Init, First, Call, Files
<1>2. \A r \in Replicas : ReplicaOf(r)
  BY <1>1 DEF ReplicaOf, Processes
<1>3. (\A m \in Migrators : MigratorOf(m)) /\ Alone
  BY <1>1 DEF MigratorOf, Alone, InTx, Processes
<1>4. Recorded
  BY DEF Init, Recorded
<1> QED BY <1>2, <1>3, <1>4 DEF Init, IInv

\* Only the one process that makes the step moves.
LEMMA Moves ==
  ASSUME IInv, [Next]_vars
  PROVE  \/ UNCHANGED vars
         \/ \E p \in Processes :
              /\ \A q \in Processes : q # p => at'[q] = at[q]
              /\ at' = [q \in Processes |-> at'[q]]
              /\ \/ p \in Replicas /\ Open(p)
                 \/ p \in Migrators /\ Migrate(p)
                 \/ Die(p) \/ Restart(p)
<1>1. ASSUME NEW p \in Processes, NEW x, at' = [at EXCEPT ![p] = x]
      PROVE  /\ \A q \in Processes : q # p => at'[q] = at[q]
             /\ at' = [q \in Processes |-> at'[q]]
  BY <1>1 DEF IInv
<1>2. ASSUME NEW r \in Replicas, Open(r) PROVE \E x : at' = [at EXCEPT ![r] = x]
  BY <1>2 DEF Open, CheckVersion, ApplyStatement, RecordVersion, Provision, ProvisionFails, Goto
<1>3. ASSUME NEW m \in Migrators, Migrate(m) PROVE \E x : at' = [at EXCEPT ![m] = x]
  BY <1>3 DEF Migrate, CheckConfig, ExecuteConfig, RecordConfig, CommitConfig, Goto
<1>4. ASSUME NEW p \in Processes, Die(p) \/ Restart(p) PROVE \E x : at' = [at EXCEPT ![p] = x]
  BY <1>4 DEF Die, Restart, Goto
<1> QED BY <1>1, <1>2, <1>3, <1>4 DEF Next, Processes

\* Nothing that was done is undone.
LEMMA Grows ==
  ASSUME IInv, [Next]_vars
  PROVE  /\ schema \subseteq schema' /\ versions \subseteq versions' /\ secured \subseteq secured'
         /\ deaths' \in Nat /\ (deaths' = 0 => deaths = 0)
<1>1. deaths \in Nat
  BY DEF IInv, Recorded
<1>2. CASE UNCHANGED vars
  BY <1>1, <1>2 DEF vars
<1>3. ASSUME NEW r \in Replicas, Open(r)
      PROVE  /\ schema \subseteq schema' /\ versions \subseteq versions' /\ secured \subseteq secured'
             /\ deaths' \in Nat /\ (deaths' = 0 => deaths = 0)
  BY <1>1, <1>3 DEF Open, CheckVersion, ApplyStatement, RecordVersion, Provision, ProvisionFails
<1>4. ASSUME NEW m \in Migrators, Migrate(m) PROVE UNCHANGED <<schema, versions, secured, deaths>>
  BY <1>4 DEF Migrate, CheckConfig, ExecuteConfig, RecordConfig, CommitConfig
<1>5. ASSUME NEW p \in Processes, Die(p) \/ Restart(p)
      PROVE  /\ UNCHANGED <<schema, versions, secured>>
             /\ deaths' \in Nat /\ (deaths' = 0 => deaths = 0)
  BY <1>1, <1>5 DEF Die, Restart
<1> QED BY <1>1, <1>2, <1>3, <1>4, <1>5 DEF Next

\* So what is true of a process that stands still stays true.
LEMMA ReplicaKept ==
  ASSUME IInv, [Next]_vars, NEW r \in Replicas, at'[r] = at[r]
  PROVE  ReplicaOf(r)'
<1>1. ReplicaOf(r)
  BY DEF IInv
<1> QED BY <1>1, Grows DEF ReplicaOf

\* A replica goes on, having found or made the version of its file.
LEMMA NextFileOf ==
  ASSUME IInv, [Next]_vars, NEW r \in Replicas, at[r].what \in {"check", "apply"},
         at[r].file \in versions', at'[r] = NextFile(at[r])
  PROVE  ReplicaOf(r)'
<1> DEFINE c == at[r]
<1>1. ReplicaOf(r)
  BY DEF IInv
<1>2. /\ Len(Statements) \in Nat \ {0} /\ c.file \in 1..Len(Statements)
      /\ \A v \in Files : v < c.file => v \in versions'
  BY <1>1, FilesAssumption, Grows DEF ReplicaOf, Files
<1>3. \A v \in Files : v <= c.file => v \in versions'
  BY <1>2, FilesAssumption DEF Files
<1>4. CASE c.file < Len(Statements)
  <2>1. at'[r] = [what |-> "check", file |-> c.file + 1, i |-> 1] /\ c.file + 1 \in Files
    BY <1>2, <1>4, FilesAssumption DEF NextFile, Call, Files
  <2>2. \A v \in Files : v < c.file + 1 => v \in versions'
    BY <1>2, <1>3, FilesAssumption DEF Files
  <2> QED BY <2>1, <2>2 DEF ReplicaOf
<1>5. CASE ~(c.file < Len(Statements))
  <2>1. at'[r] = [what |-> "provision", file |-> 1, i |-> 1] /\ 1 \in Files
    BY <1>2, <1>5, FilesAssumption DEF NextFile, Call, Files
  <2>2. Files \subseteq versions'
    BY <1>2, <1>3, <1>5, FilesAssumption DEF Files
  <2>3. 1 <= Len(Provisions) /\ ~ \E i \in 1..Len(Provisions) : i < 1
    BY FilesAssumption
  <2> QED BY <2>1, <2>2, <2>3 DEF ReplicaOf
<1> QED BY <1>4, <1>5

LEMMA OpenReplica ==
  ASSUME IInv, [Next]_vars, NEW r \in Replicas, Open(r)
  PROVE  ReplicaOf(r)'
<1> DEFINE c == at[r]
<1>0. ReplicaOf(r) /\ at = [p \in Processes |-> at[p]] /\ r \in Processes /\ Recorded
  BY DEF IInv, Processes
<1>1. CASE CheckVersion(r)
  <2>1. at'[r] = (IF c.file \in versions THEN NextFile(c) ELSE Call("apply", c.file, 1))
    BY <1>0, <1>1 DEF CheckVersion, Goto
  <2>2. CASE c.file \in versions
    BY <1>1, <2>1, <2>2, NextFileOf, Grows DEF CheckVersion
  <2>3. CASE c.file \notin versions
    <3>1. at'[r] = [what |-> "apply", file |-> c.file, i |-> 1] /\ c.file \in Files
      BY <1>0, <2>1, <2>3 DEF Call, ReplicaOf
    <3>2. 1 <= Len(Statements[c.file]) + 1
          /\ ~ \E i \in 1..Len(Statements[c.file]) : i < 1
      BY <3>1, FilesAssumption DEF Files
    <3>3. \A v \in Files : v < c.file => v \in versions'
      BY <1>0, <1>1, Grows DEF ReplicaOf, CheckVersion
    <3> QED BY <3>1, <3>2, <3>3 DEF ReplicaOf
  <2> QED BY <2>2, <2>3
<1>2. CASE ApplyStatement(r)
  <2>1. /\ c.what = "apply" /\ c.i <= Len(Statements[c.file])
        /\ schema' = schema \cup {<<c.file, c.i>>} /\ versions' = versions
    BY <1>2 DEF ApplyStatement
  <2>2. c \in [what : {"check", "apply", "provision", "serve", "failed"}, file : Files, i : Nat \ {0}]
    BY <1>0 DEF ReplicaOf
  <2>3. at'[r] = [what |-> "apply", file |-> c.file, i |-> c.i + 1]
    BY <1>0, <1>2, <2>1, <2>2 DEF ApplyStatement
  <2>4. /\ \A v \in Files : v < c.file => v \in versions
        /\ \A i \in 1..Len(Statements[c.file]) : i < c.i => <<c.file, i>> \in schema
    BY <1>0, <2>1 DEF ReplicaOf
  <2>5. Len(Statements[c.file]) \in Nat
    BY <2>2, FilesAssumption DEF Files
  <2>6. \A i \in 1..Len(Statements[c.file]) : i < c.i + 1 => <<c.file, i>> \in schema'
    BY <2>1, <2>2, <2>4, <2>5
  <2>7. c.i + 1 <= Len(Statements[c.file]) + 1 /\ c.i + 1 \in Nat \ {0}
    BY <2>1, <2>2, <2>5
  <2> QED BY <2>1, <2>2, <2>3, <2>4, <2>6, <2>7 DEF ReplicaOf
<1>3. CASE RecordVersion(r)
  <2>1. c.what = "apply" /\ c.file \in versions' /\ at'[r] = NextFile(c)
    BY <1>0, <1>3 DEF RecordVersion, Goto
  <2> QED BY <2>1, NextFileOf
<1>4. CASE Provision(r)
  <2>1. /\ c.what = "provision" /\ secured' = secured \cup {Provisions[c.i]}
        /\ versions' = versions /\ deaths' = deaths /\ at'[r] = NextProvision(c)
    BY <1>0, <1>4 DEF Provision, Goto
  <2>2. /\ Files \subseteq versions /\ c.i \in Nat \ {0} /\ c.i <= Len(Provisions)
        /\ deaths = 0 => \A i \in 1..Len(Provisions) : i < c.i => Provisions[i] \in secured
    BY <1>0, <2>1 DEF ReplicaOf
  <2>3. deaths = 0 => \A i \in 1..Len(Provisions) : i <= c.i => Provisions[i] \in secured'
    BY <2>1, <2>2, FilesAssumption
  <2>4. 1 \in Files
    BY FilesAssumption DEF Files
  <2>5. CASE c.i < Len(Provisions)
    <3>1. at'[r] = [what |-> "provision", file |-> 1, i |-> c.i + 1]
      BY <2>1, <2>5 DEF NextProvision, Call
    <3>2. c.i + 1 \in Nat \ {0} /\ c.i + 1 <= Len(Provisions)
          /\ \A i \in 1..Len(Provisions) : i < c.i + 1 => i <= c.i
      BY <2>2, <2>5, FilesAssumption
    <3> QED BY <2>1, <2>2, <2>3, <2>4, <3>1, <3>2 DEF ReplicaOf
  <2>6. CASE ~(c.i < Len(Provisions))
    <3>1. at'[r] = [what |-> "serve", file |-> 1, i |-> 1]
      BY <2>1, <2>6 DEF NextProvision, Call
    <3>2. \A i \in 1..Len(Provisions) : i <= c.i
      BY <2>2, <2>6, FilesAssumption
    <3> QED BY <2>1, <2>2, <2>3, <2>4, <3>1, <3>2 DEF ReplicaOf
  <2> QED BY <2>5, <2>6
<1>5. CASE ProvisionFails(r)
  <2>1. /\ c.what = "provision" /\ deaths' = deaths + 1 /\ versions' = versions
        /\ at'[r] = [what |-> "serve", file |-> 1, i |-> 1]
    BY <1>0, <1>5 DEF ProvisionFails, Goto, Call
  <2>2. Files \subseteq versions /\ deaths' # 0 /\ 1 \in Files
    BY <1>0, <2>1, FilesAssumption DEF ReplicaOf, Recorded, Files
  <2> QED BY <2>1, <2>2 DEF ReplicaOf
<1> QED BY <1>1, <1>2, <1>3, <1>4, <1>5 DEF Open

LEMMA StepReplicas ==
  ASSUME IInv, [Next]_vars
  PROVE  \A r \in Replicas : ReplicaOf(r)'
<1> TAKE r \in Replicas
<1>0. r \in Processes /\ r \notin Migrators /\ at = [p \in Processes |-> at[p]]
  BY ProcessesAssumption DEF Processes, IInv
<1>1. CASE at'[r] = at[r]
  BY <1>1, ReplicaKept
<1>2. CASE Open(r)
  BY <1>2, OpenReplica
<1>3. CASE Die(r) \/ Restart(r)
  <2>1. at'[r] = Call("failed", 1, 1) \/ at'[r] = Call("check", 1, 1)
    BY <1>0, <1>3 DEF Die, Restart, Goto, First
  <2>2. 1 \in Files /\ ~ \E v \in Files : v < 1
    BY FilesAssumption DEF Files
  <2> QED BY <2>1, <2>2 DEF ReplicaOf, Call
<1>4. UNCHANGED vars => at'[r] = at[r]
  BY DEF vars
<1> QED BY <1>0, <1>1, <1>2, <1>3, <1>4, Moves

-----------------------------------------------------------------------------
(* The migrators.                                                          *)

\* What a migrator's step does, file by file.
LEMMA MigrateSteps ==
  ASSUME IInv, NEW m \in Migrators, Migrate(m)
  PROVE  /\ UNCHANGED <<schema, versions, secured, deaths>>
         /\ \/ /\ at[m].what = "check" /\ UNCHANGED <<applied, recorded>>
               /\ \/ at[m].file \in recorded /\ at'[m] = NextConfig(at[m])
                  \/ at'[m] = [what |-> "execute", file |-> at[m].file, i |-> 1]
            \/ /\ at[m].what = "execute" /\ UNCHANGED <<applied, recorded>>
               /\ \/ at'[m] = [what |-> "failed", file |-> 1, i |-> 1]
                  \/ /\ at'[m] = [what |-> "record", file |-> at[m].file, i |-> 1]
                     /\ \A o \in Migrators : InTx(o) => at[o].file # at[m].file
                     /\ \A i \in 1..Len(applied) : applied[i] # at[m].file
            \/ /\ at[m].what = "record" /\ UNCHANGED <<applied, recorded>>
               /\ at'[m] = [what |-> "commit", file |-> at[m].file, i |-> 1]
            \/ /\ at[m].what = "commit" /\ at'[m] = NextConfig(at[m])
               /\ applied' = Append(applied, at[m].file)
               /\ recorded' = recorded \cup {at[m].file}
<1>1. at = [p \in Processes |-> at[p]] /\ m \in Processes
  BY DEF IInv, Processes
<1>2. CASE CheckConfig(m)
  BY <1>1, <1>2 DEF CheckConfig, Goto, Call
<1>3. CASE ExecuteConfig(m)
  BY <1>1, <1>3 DEF ExecuteConfig, Goto, Call, InTx
<1>4. CASE RecordConfig(m)
  BY <1>1, <1>4 DEF RecordConfig, Goto, Call
<1>5. CASE CommitConfig(m)
  BY <1>1, <1>5 DEF CommitConfig, Goto
<1> QED BY <1>2, <1>3, <1>4, <1>5 DEF Migrate

\* The files applied are the first ones, one more after a commit.
LEMMA StepApplied ==
  ASSUME IInv, [Next]_vars
  PROVE  /\ applied' \in Seq(Nat) /\ applied' = [v \in 1..Len(applied') |-> v]
         /\ recorded' = 1..Len(applied')
         /\ \/ Len(applied') = Len(applied)
            \/ /\ Len(applied') = Len(applied) + 1
               /\ \E m \in Migrators : at[m].what = "commit" /\ at'[m] = NextConfig(at[m])
<1>0. applied \in Seq(Nat) /\ applied = [v \in 1..Len(applied) |-> v] /\ recorded = 1..Len(applied)
      /\ Len(applied) \in Nat
  BY DEF IInv, Recorded
<1>1. ASSUME UNCHANGED <<applied, recorded>> PROVE
         /\ applied' \in Seq(Nat) /\ applied' = [v \in 1..Len(applied') |-> v]
         /\ recorded' = 1..Len(applied') /\ Len(applied') = Len(applied)
  BY <1>0, <1>1
<1>2. ASSUME NEW m \in Migrators, at[m].what = "commit",
             applied' = Append(applied, at[m].file),
             recorded' = recorded \cup {at[m].file}
      PROVE  /\ applied' \in Seq(Nat) /\ applied' = [v \in 1..Len(applied') |-> v]
             /\ recorded' = 1..Len(applied') /\ Len(applied') = Len(applied) + 1
  <2>1. at[m].file = Len(applied) + 1
    BY <1>2 DEF IInv, MigratorOf
  <2>2. Len(applied') = Len(applied) + 1 /\ applied' \in Seq(Nat)
    BY <1>0, <1>2, <2>1
  <2>3. applied' = [v \in 1..Len(applied') |-> v]
    <3>1. \A v \in 1..Len(applied) : applied[v] = v
      BY <1>0
    <3>2. \A v \in 1..(Len(applied) + 1) : applied'[v] = v
      BY <1>0, <1>2, <2>1, <3>1
    <3> QED BY <2>2, <3>2
  <2>4. recorded' = 1..(Len(applied) + 1)
    BY <1>0, <1>2, <2>1
  <2> QED BY <2>2, <2>3, <2>4
<1>3. ASSUME NEW r \in Replicas, Open(r) PROVE UNCHANGED <<applied, recorded>>
  BY <1>3 DEF Open, CheckVersion, ApplyStatement, RecordVersion, Provision, ProvisionFails
<1>4. ASSUME NEW p \in Processes, Die(p) \/ Restart(p) PROVE UNCHANGED <<applied, recorded>>
  BY <1>4 DEF Die, Restart
<1>5. UNCHANGED vars => UNCHANGED <<applied, recorded>>
  BY DEF vars
<1>6. ASSUME NEW m \in Migrators, Migrate(m)
      PROVE  \/ UNCHANGED <<applied, recorded>>
             \/ /\ at[m].what = "commit" /\ at'[m] = NextConfig(at[m])
                /\ applied' = Append(applied, at[m].file)
                /\ recorded' = recorded \cup {at[m].file}
  BY <1>6, MigrateSteps
<1> QED BY <1>1, <1>2, <1>3, <1>4, <1>5, <1>6 DEF Next

LEMMA NextConfigOf ==
  ASSUME IInv, NEW m \in Migrators, NEW n \in Nat, at[m].file <= n,
         at'[m] = NextConfig(at[m]), n = Len(applied')
  PROVE  MigratorOf(m)' /\ ~InTx(m)'
<1>1. at[m].file \in 1..ConfigFiles /\ ConfigFiles \in Nat \ {0}
  BY FilesAssumption DEF IInv, MigratorOf
<1>2. CASE at[m].file < ConfigFiles
  <2>1. at'[m] = [what |-> "check", file |-> at[m].file + 1, i |-> 1]
        /\ at[m].file + 1 \in 1..ConfigFiles /\ at[m].file + 1 <= n + 1
    BY <1>1, <1>2 DEF NextConfig, Call
  <2> QED BY <2>1 DEF MigratorOf, InTx
<1>3. CASE ~(at[m].file < ConfigFiles)
  <2>1. at'[m] = [what |-> "done", file |-> 1, i |-> 1] /\ 1 \in 1..ConfigFiles
    BY <1>1, <1>3 DEF NextConfig, Call
  <2> QED BY <2>1 DEF MigratorOf, InTx
<1> QED BY <1>2, <1>3

\* The migrator that makes the step, and whether it is in a transaction then.
LEMMA MigrateOne ==
  ASSUME IInv, [Next]_vars, NEW m \in Migrators, Migrate(m)
  PROVE  /\ MigratorOf(m)'
         /\ InTx(m)' => InTx(m) \/ \A o \in Migrators : ~InTx(o)
<1> DEFINE c == at[m]
<1>0. /\ c.file \in 1..ConfigFiles /\ Len(applied) \in Nat /\ recorded = 1..Len(applied)
      /\ \A i \in 1..Len(applied) : applied[i] = i
      /\ ConfigFiles \in Nat \ {0}
  BY FilesAssumption DEF IInv, MigratorOf, Recorded
<1>1. /\ c.what \in {"check", "execute", "record", "commit"} => c.file <= Len(applied) + 1
      /\ c.what \in {"record", "commit"} => c.file = Len(applied) + 1
  BY DEF IInv, MigratorOf
<1>2. CASE c.what = "check" /\ applied' = applied /\ c.file \in recorded /\ at'[m] = NextConfig(c)
  BY <1>0, <1>2, NextConfigOf
<1>3. CASE /\ c.what = "check" /\ applied' = applied
           /\ at'[m] = [what |-> "execute", file |-> c.file, i |-> 1]
  BY <1>0, <1>1, <1>3 DEF MigratorOf, InTx
<1>4. CASE at'[m] = [what |-> "failed", file |-> 1, i |-> 1]
  BY <1>0, <1>4 DEF MigratorOf, InTx
<1>5. CASE /\ c.what = "execute" /\ applied' = applied
           /\ at'[m] = [what |-> "record", file |-> c.file, i |-> 1]
           /\ \A o \in Migrators : InTx(o) => at[o].file # c.file
           /\ \A i \in 1..Len(applied) : applied[i] # c.file
  <2>1. c.file = Len(applied) + 1
    BY <1>0, <1>1, <1>5
  <2>2. \A o \in Migrators : InTx(o) => at[o].file = Len(applied) + 1
    BY DEF IInv, MigratorOf, InTx
  <2> QED BY <1>0, <1>5, <2>1, <2>2 DEF MigratorOf, InTx
<1>6. CASE /\ c.what = "record" /\ applied' = applied
           /\ at'[m] = [what |-> "commit", file |-> c.file, i |-> 1]
  BY <1>0, <1>1, <1>6 DEF MigratorOf, InTx
<1>7. CASE c.what = "commit" /\ applied' = Append(applied, c.file) /\ at'[m] = NextConfig(c)
  <2>1. Len(applied') = Len(applied) + 1 /\ Len(applied') \in Nat
    BY <1>0, <1>7 DEF IInv, Recorded
  <2> QED BY <1>0, <1>1, <1>7, <2>1, NextConfigOf
<1> QED BY <1>2, <1>3, <1>4, <1>5, <1>6, <1>7, MigrateSteps

\* One that stands still does not see a file committed that it is in.
LEMMA MigratorKept ==
  ASSUME IInv, [Next]_vars, NEW m \in Migrators, at'[m] = at[m]
  PROVE  MigratorOf(m)'
<1>0. MigratorOf(m) /\ Len(applied) \in Nat
  BY DEF IInv, Recorded
<1>1. CASE Len(applied') = Len(applied)
  BY <1>0, <1>1 DEF MigratorOf
<1>2. ASSUME Len(applied') = Len(applied) + 1,
             NEW o \in Migrators, at[o].what = "commit", at'[o] = NextConfig(at[o])
      PROVE  MigratorOf(m)'
  <2>1. m # o
    BY <1>2 DEF NextConfig, Call
  <2>2. ~InTx(m)
    BY <1>2, <2>1 DEF IInv, Alone, InTx
  <2>3. at[m].file <= Len(applied) + 1 => at[m].file <= Len(applied') + 1
    BY <1>0, <1>2 DEF MigratorOf
  <2> QED BY <1>0, <2>2, <2>3 DEF MigratorOf, InTx
<1> QED BY <1>1, <1>2, StepApplied

LEMMA StepMigrators ==
  ASSUME IInv, [Next]_vars
  PROVE  (\A m \in Migrators : MigratorOf(m)') /\ Alone'
<1>0. \A m \in Migrators : m \in Processes /\ m \notin Replicas
  BY ProcessesAssumption DEF Processes
<1>1. ASSUME NEW p \in Processes, Die(p) \/ Restart(p), p \in Migrators
      PROVE  MigratorOf(p)' /\ ~InTx(p)'
  <2>1. at'[p] = Call("failed", 1, 1) \/ at'[p] = Call("check", 1, 1)
    BY <1>1 DEF Die, Restart, Goto, First, IInv
  <2>2. applied' = applied /\ Len(applied) \in Nat /\ 1 \in 1..ConfigFiles
    BY <1>1, FilesAssumption DEF Die, Restart, IInv, Recorded
  <2> QED BY <2>1, <2>2 DEF MigratorOf, InTx, Call
<1>2. ASSUME UNCHANGED at PROVE (\A m \in Migrators : MigratorOf(m)') /\ Alone'
  BY <1>2, MigratorKept DEF IInv, Alone, InTx
<1>3. ASSUME NEW p \in Processes, \A q \in Processes : q # p => at'[q] = at[q],
             p \in Migrators => /\ MigratorOf(p)'
                                /\ InTx(p)' => InTx(p) \/ \A o \in Migrators : ~InTx(o)
      PROVE  (\A m \in Migrators : MigratorOf(m)') /\ Alone'
  <2>1. \A m \in Migrators : m # p => at'[m] = at[m]
    BY <1>0, <1>3
  <2>2. \A m \in Migrators : MigratorOf(m)'
    BY <1>3, <2>1, MigratorKept
  <2>3. \A m \in Migrators : m # p => (InTx(m)' <=> InTx(m))
    BY <2>1 DEF InTx
  <2>4. ASSUME NEW m \in Migrators, NEW o \in Migrators, InTx(m)', InTx(o)' PROVE m = o
    BY <1>3, <2>3, <2>4 DEF IInv, Alone
  <2> QED BY <2>2, <2>4 DEF Alone
<1>4. ASSUME NEW p \in Processes, \A q \in Processes : q # p => at'[q] = at[q],
             \/ p \in Replicas /\ Open(p)
             \/ p \in Migrators /\ Migrate(p)
             \/ Die(p) \/ Restart(p)
      PROVE  (\A m \in Migrators : MigratorOf(m)') /\ Alone'
  BY <1>0, <1>1, <1>3, <1>4, MigrateOne
<1>5. UNCHANGED vars => UNCHANGED at
  BY DEF vars
<1> QED BY <1>2, <1>4, <1>5, Moves

-----------------------------------------------------------------------------
LEMMA StepRecorded ==
  ASSUME IInv, [Next]_vars
  PROVE  Recorded'
<1>0. Recorded
  BY DEF IInv
<1>1. /\ applied' \in Seq(Nat) /\ applied' = [v \in 1..Len(applied') |-> v]
      /\ recorded' = 1..Len(applied') /\ deaths' \in Nat
  BY StepApplied, Grows
<1>2. ASSUME UNCHANGED <<schema, versions, secured>> PROVE Recorded'
  BY <1>0, <1>1, <1>2 DEF Recorded
<1>3. ASSUME NEW r \in Replicas, Open(r) PROVE Recorded'
  <2>1. ReplicaOf(r)
    BY DEF IInv
  <2>2. CASE CheckVersion(r) \/ ProvisionFails(r)
    BY <1>2, <2>2 DEF CheckVersion, ProvisionFails
  <2>3. CASE ApplyStatement(r)
    BY <1>0, <1>1, <2>3 DEF ApplyStatement, Recorded
  <2>4. CASE RecordVersion(r)
    <3>1. /\ at[r].what = "apply" /\ at[r].i > Len(Statements[at[r].file])
          /\ versions' = versions \cup {at[r].file} /\ UNCHANGED <<schema, secured>>
      BY <2>4 DEF RecordVersion
    <3>2. at[r].file \in Files /\ at[r].i \in Nat /\ Len(Statements[at[r].file]) \in Nat
      BY <2>1, FilesAssumption DEF ReplicaOf, Files
    <3>3. \A i \in 1..Len(Statements[at[r].file]) : <<at[r].file, i>> \in schema
      BY <2>1, <3>1, <3>2 DEF ReplicaOf
    <3> QED BY <1>0, <1>1, <3>1, <3>2, <3>3 DEF Recorded
  <2>5. CASE Provision(r)
    <3>1. /\ at[r].what = "provision" /\ secured' = secured \cup {Provisions[at[r].i]}
          /\ UNCHANGED <<schema, versions>>
      BY <2>5 DEF Provision
    <3>2. at[r].i \in 1..Len(Provisions)
      BY <2>1, <3>1, FilesAssumption DEF ReplicaOf
    <3> QED BY <1>0, <1>1, <3>1, <3>2 DEF Recorded
  <2> QED BY <1>3, <2>2, <2>3, <2>4, <2>5 DEF Open
<1>4. ASSUME NEW m \in Migrators, Migrate(m) PROVE Recorded'
  BY <1>2, <1>4, MigrateSteps
<1>5. ASSUME NEW p \in Processes, Die(p) \/ Restart(p) PROVE Recorded'
  BY <1>2, <1>5 DEF Die, Restart
<1>6. UNCHANGED vars => Recorded'
  BY <1>2 DEF vars
<1> QED BY <1>3, <1>4, <1>5, <1>6 DEF Next

\* The invariant: a replica has run what it is about to record, and a migrator
\* in a transaction is alone and at the first file that is not applied.
THEOREM Inductive == Spec => []IInv
<1>1. ASSUME IInv, [Next]_vars PROVE IInv'
  <2>1. at' = [p \in Processes |-> at'[p]]
    BY <1>1, Moves DEF IInv, vars
  <2> QED BY <1>1, <2>1, StepReplicas, StepMigrators, StepRecorded DEF IInv
<1> QED BY InitIInv, <1>1, PTL DEF Spec

\* However many processes run the migrations at the same time and die in them,
\* what is recorded is there, in order and once, and nobody serves without.
THEOREM Complete == Spec => []SchemaComplete
<1>1. ASSUME IInv PROVE SchemaComplete
  <2>1. ASSUME NEW r \in Replicas, Serving(r)
        PROVE  /\ Files \subseteq versions
               /\ deaths = 0 => secured = {Provisions[i] : i \in 1..Len(Provisions)}
    <3>1. ReplicaOf(r) /\ secured \subseteq {Provisions[i] : i \in 1..Len(Provisions)}
      BY <1>1 DEF IInv, Recorded
    <3>2. deaths = 0 => \A i \in 1..Len(Provisions) : Provisions[i] \in secured
      BY <2>1, <3>1 DEF ReplicaOf, Serving
    <3>3. Files \subseteq versions
      BY <2>1, <3>1 DEF ReplicaOf, Serving
    <3> QED BY <3>1, <3>2, <3>3
  <2> QED BY <1>1, <2>1 DEF SchemaComplete, IInv, Recorded
<1> QED BY Inductive, <1>1, PTL

-----------------------------------------------------------------------------
(* FleetView: the registry.                                                *)

Names == Servers \cup {Fleet!Given}

Runs == [pc : {"idle", "cluster", "instance", "assign"}, todo : SUBSET Servers, name : Names, at : Nat]

\* A run of BackfillFleet holds a server that is on its list, and the cluster
\* and the instance that it made for it.
RunOk(r) ==
  /\ r.pc \in {"instance", "assign"} => r.name \in r.todo
  /\ r.pc = "instance" => r.at \in 1..Len(clusters) /\ clusters[r.at] = r.name
  /\ r.pc = "assign" => r.at \in 1..Len(instances) /\ clusters[instances[r.at]] = r.name

RegInv ==
  /\ clusters \in Seq(Names)
  /\ instances \in Seq(1..Len(clusters))
  /\ home \in [Servers -> 0..Len(instances)]
  /\ backfill \in [Backfills -> Runs]
  /\ \A b \in Backfills : RunOk(backfill[b])

\* What is in the registry stays in it.
Grown ==
  /\ Len(clusters') >= Len(clusters)
  /\ \A c \in 1..Len(clusters) : c \in 1..Len(clusters') /\ clusters'[c] = clusters[c]
  /\ \A i \in 1..Len(instances) : i \in 1..Len(instances') /\ instances'[i] = instances[i]

LEMMA InitRegInv == Fleet!Init => RegInv
<1> SUFFICES ASSUME Fleet!Init PROVE RegInv
  OBVIOUS
<1>1. PICK n \in Nat : clusters = [c \in 1..n |-> Fleet!Given]
  BY ServersAssumption DEF Fleet!Init
<1>2. clusters \in Seq(Names) /\ Len(clusters) = n /\ DOMAIN clusters = 1..n
  BY <1>1 DEF Names
<1>3. PICK k \in Nat : instances \in [1..k -> 1..n]
  BY <1>2, ServersAssumption DEF Fleet!Init
<1>4. instances \in Seq(1..n) /\ Len(instances) = k /\ DOMAIN instances = 1..k
  BY <1>3
<1>5. home \in [Servers -> 0..k]
  BY <1>4 DEF Fleet!Init, Fleet!Unlinked
<1>6. \A b \in Backfills : backfill[b] = [pc |-> "idle", todo |-> {}, name |-> Fleet!Given, at |-> 0]
  BY DEF Fleet!Init, Fleet!Idle
<1>7. backfill \in [Backfills -> Runs]
  BY DEF Fleet!Init, Fleet!Idle, Names, Runs
<1> QED BY <1>2, <1>4, <1>5, <1>6, <1>7 DEF RegInv, RunOk

LEMMA ClusterCreated ==
  ASSUME RegInv, NEW name \in Names, Fleet!CreateCluster(name)
  PROVE  /\ clusters' \in Seq(Names) /\ Len(clusters') = Len(clusters) + 1
         /\ clusters'[Len(clusters')] = name /\ Grown
         /\ instances' \in Seq(1..Len(clusters')) /\ UNCHANGED <<instances, home, lasting>>
<1>1. clusters \in Seq(Names) /\ clusters' = Append(clusters, name) /\ UNCHANGED <<instances, home, lasting>>
  BY DEF Fleet!CreateCluster, RegInv
<1>2. /\ clusters' \in Seq(Names) /\ Len(clusters') = Len(clusters) + 1 /\ Len(clusters) \in Nat
      /\ clusters'[Len(clusters')] = name
      /\ \A c \in 1..Len(clusters) : clusters'[c] = clusters[c]
  BY <1>1
<1>3. instances \in Seq(1..Len(clusters'))
  <2>1. 1..Len(clusters) \subseteq 1..Len(clusters')
    BY <1>2
  <2>2. instances \in [1..Len(instances) -> 1..Len(clusters)] /\ Len(instances) \in Nat
    BY DEF RegInv
  <2>3. instances \in [1..Len(instances) -> 1..Len(clusters')]
    BY <2>1, <2>2
  <2> QED BY <2>2, <2>3
<1> QED BY <1>1, <1>2, <1>3 DEF Grown

LEMMA InstanceCreated ==
  ASSUME RegInv, NEW c \in 1..Len(clusters), Fleet!CreateInstance(c)
  PROVE  /\ instances' \in Seq(1..Len(clusters')) /\ Len(instances') = Len(instances) + 1
         /\ instances'[Len(instances')] = c /\ Grown
         /\ UNCHANGED <<clusters, home, lasting>>
<1>1. /\ instances \in Seq(1..Len(clusters)) /\ instances' = Append(instances, c)
      /\ UNCHANGED <<clusters, home, lasting>> /\ Len(clusters) \in Nat
  BY DEF Fleet!CreateInstance, RegInv
<1>2. /\ instances' \in Seq(1..Len(clusters)) /\ Len(instances') = Len(instances) + 1
      /\ instances'[Len(instances')] = c /\ Len(instances) \in Nat
      /\ \A i \in 1..Len(instances) : instances'[i] = instances[i]
  BY <1>1
<1> QED BY <1>1, <1>2 DEF Grown

LEMMA ServerAssigned ==
  ASSUME RegInv, NEW s \in Servers, NEW i \in 1..Len(instances), Fleet!AssignServerToInstance(s, i)
  PROVE  /\ UNCHANGED <<clusters, instances>> /\ Grown
         /\ home' \in [Servers -> 0..Len(instances')] /\ home'[s] = i
         /\ \A t \in Servers : t # s => home'[t] = home[t]
BY DEF Fleet!AssignServerToInstance, RegInv, Grown

\* A run that is where it was is as good in a registry that has grown.
LEMMA RunStays ==
  ASSUME RegInv, Grown, NEW b \in Backfills, backfill'[b] = backfill[b]
  PROVE  RunOk(backfill[b])'
<1>1. RunOk(backfill[b]) /\ instances \in Seq(1..Len(clusters))
  BY DEF RegInv
<1>2. \A i \in 1..Len(instances) : instances[i] \in 1..Len(clusters)
  BY <1>1
<1> QED BY <1>1, <1>2 DEF RunOk, Grown

LEMMA SelectRegInv ==
  ASSUME RegInv, NEW b \in Backfills, Fleet!SelectPending(b)
  PROVE  RegInv' /\ Fleet!BackfillStep
<1> DEFINE r == Fleet!Through(Fleet!Pending)
<1>1. backfill' = [backfill EXCEPT ![b] = r] /\ UNCHANGED <<clusters, instances, home>>
  BY DEF Fleet!SelectPending
<1>2. Fleet!Pending \subseteq Servers /\ \A s \in Fleet!Pending : home[s] = 0
  BY DEF Fleet!Pending, Fleet!Unlinked
<1>3. r.pc \in {"idle", "cluster"} /\ r.todo = Fleet!Pending
      /\ r \in Runs
  <2> HIDE DEF Fleet!Pending
  <2> QED BY <1>2 DEF Names, Runs, Fleet!Through
<1> HIDE DEF r
<1>4. Grown
  BY <1>1 DEF Grown, RegInv
<1>5. RegInv'
  <2>1. ASSUME NEW d \in Backfills PROVE RunOk(backfill[d])'
    <3>1. CASE d = b
      BY <1>1, <1>3, <3>1 DEF RunOk, RegInv
    <3>2. CASE d # b
      BY <1>1, <1>4, <3>2, RunStays DEF RegInv
    <3> QED BY <3>1, <3>2
  <2> QED BY <1>1, <1>3, <2>1 DEF RegInv
<1>6. Fleet!Settled \subseteq Fleet!Settled'
  <2>1. ASSUME NEW s \in Fleet!Settled, NEW d \in Backfills PROVE s \notin backfill'[d].todo
    BY <1>1, <1>2, <1>3, <2>1 DEF Fleet!Settled, Fleet!Unlinked, RegInv
  <2> QED BY <1>1, <2>1 DEF Fleet!Settled
<1> QED BY <1>1, <1>5, <1>6 DEF Fleet!BackfillStep

LEMMA ClusterRegInv ==
  ASSUME RegInv, NEW b \in Backfills, Fleet!BackfillCluster(b)
  PROVE  RegInv' /\ Grown /\ UNCHANGED <<home, lasting>> /\ Fleet!BackfillStep
<1>1. PICK s \in backfill[b].todo :
        /\ Fleet!CreateCluster(s)
        /\ backfill' = [backfill EXCEPT ![b] = [pc |-> "instance", todo |-> @.todo, name |-> s, at |-> Len(clusters')]]
  BY DEF Fleet!BackfillCluster
<1>2. s \in Servers /\ s \in Names /\ backfill[b] \in Runs /\ backfill[b].todo \subseteq Servers
  BY <1>1 DEF RegInv, Names, Runs
<1>3. /\ clusters' \in Seq(Names) /\ Len(clusters') = Len(clusters) + 1
      /\ clusters'[Len(clusters')] = s /\ Grown
      /\ instances' \in Seq(1..Len(clusters')) /\ UNCHANGED <<instances, home, lasting>>
  BY <1>1, <1>2, ClusterCreated
<1>4. PICK r : /\ backfill' = [backfill EXCEPT ![b] = r]
               /\ r = [pc |-> "instance", todo |-> backfill[b].todo, name |-> s, at |-> Len(clusters')]
  BY <1>1 DEF RegInv
<1>5. Len(clusters') \in Nat /\ Len(clusters') \in 1..Len(clusters') /\ Len(clusters) \in Nat
  BY <1>3 DEF RegInv
<1>6. RegInv'
  <2>1. ASSUME NEW d \in Backfills PROVE RunOk(backfill[d])'
    <3>1. CASE d = b
      BY <1>1, <1>3, <1>4, <1>5, <3>1 DEF RunOk, RegInv
    <3>2. CASE d # b
      BY <1>3, <1>4, <3>2, RunStays DEF RegInv
    <3> QED BY <3>1, <3>2
  <2>2. backfill' \in [Backfills -> Runs]
    <3>1. r \in Runs
      BY <1>2, <1>4, <1>5 DEF Runs
    <3> QED BY <1>4, <3>1 DEF RegInv
  <2> QED BY <1>3, <2>1, <2>2 DEF RegInv
<1>7. \A d \in Backfills : backfill'[d].todo = backfill[d].todo
  BY <1>4 DEF RegInv
<1>8. Fleet!Settled \subseteq Fleet!Settled' /\ s \notin Fleet!Settled
  BY <1>1, <1>3, <1>7 DEF Fleet!Settled
<1>9. DOMAIN clusters' \ DOMAIN clusters = {Len(clusters')}
  <2>1. DOMAIN clusters = 1..Len(clusters) /\ DOMAIN clusters' = 1..Len(clusters')
    BY <1>3 DEF RegInv
  <2> QED BY <1>3, <1>5, <2>1
<1> QED BY <1>3, <1>6, <1>8, <1>9 DEF Fleet!BackfillStep

LEMMA InstanceRegInv ==
  ASSUME RegInv, NEW b \in Backfills, Fleet!BackfillInstance(b)
  PROVE  RegInv' /\ Grown /\ UNCHANGED <<home, lasting>> /\ Fleet!BackfillStep
<1> DEFINE c == backfill[b].at
           s == backfill[b].name
<1>1. /\ backfill[b].pc = "instance" /\ Fleet!CreateInstance(c)
      /\ backfill' = [backfill EXCEPT ![b] =
                      [pc |-> "assign", todo |-> @.todo, name |-> @.name, at |-> Len(instances')]]
  BY DEF Fleet!BackfillInstance
<1>2. c \in 1..Len(clusters) /\ clusters[c] = s /\ s \in backfill[b].todo
      /\ backfill[b] \in Runs /\ backfill[b].todo \subseteq Servers /\ s \in Names
  BY <1>1 DEF RegInv, RunOk, Runs
<1>3. /\ instances' \in Seq(1..Len(clusters')) /\ Len(instances') = Len(instances) + 1
      /\ instances'[Len(instances')] = c /\ Grown
      /\ UNCHANGED <<clusters, home, lasting>>
  BY <1>1, <1>2, InstanceCreated
<1>4. PICK r : /\ backfill' = [backfill EXCEPT ![b] = r]
               /\ r = [pc |-> "assign", todo |-> backfill[b].todo, name |-> s, at |-> Len(instances')]
  BY <1>1 DEF RegInv
<1> HIDE DEF c, s
<1>5. Len(instances') \in Nat /\ Len(instances') \in 1..Len(instances') /\ Len(instances) \in Nat
  BY <1>3 DEF RegInv
<1>6. RegInv'
  <2>1. ASSUME NEW d \in Backfills PROVE RunOk(backfill[d])'
    <3>1. CASE d = b
      BY <1>2, <1>3, <1>4, <1>5, <3>1 DEF RunOk, RegInv
    <3>2. CASE d # b
      BY <1>3, <1>4, <3>2, RunStays DEF RegInv
    <3> QED BY <3>1, <3>2
  <2>2. backfill' \in [Backfills -> Runs]
    <3>1. r \in Runs
      BY <1>2, <1>4, <1>5 DEF Runs
    <3> QED BY <1>4, <3>1 DEF RegInv
  <2>3. home' \in [Servers -> 0..Len(instances')]
    BY <1>3, <1>5 DEF RegInv
  <2> QED BY <1>3, <2>1, <2>2, <2>3 DEF RegInv
<1>7. \A d \in Backfills : backfill'[d].todo = backfill[d].todo
  BY <1>4 DEF RegInv
<1>8. Fleet!Settled \subseteq Fleet!Settled'
  BY <1>3, <1>7 DEF Fleet!Settled
<1> QED BY <1>3, <1>6, <1>8 DEF Fleet!BackfillStep

LEMMA AssignRegInv ==
  ASSUME RegInv, NEW b \in Backfills, Fleet!BackfillAssign(b)
  PROVE  /\ RegInv' /\ Grown /\ Fleet!BackfillStep
         /\ \E s \in Servers, i \in 1..Len(instances) : Fleet!AssignServerToInstance(s, i)
<1>1. PICK s, i, todo : s = backfill[b].name /\ i = backfill[b].at /\ todo = backfill[b].todo
  OBVIOUS
<1>2. /\ backfill[b].pc = "assign" /\ Fleet!AssignServerToInstance(s, i)
      /\ backfill' = [backfill EXCEPT ![b] = Fleet!Through(todo \ {s})]
  BY <1>1 DEF Fleet!BackfillAssign
<1>3. i \in 1..Len(instances) /\ clusters[instances[i]] = s /\ s \in todo /\ todo \subseteq Servers
  BY <1>1, <1>2 DEF RegInv, RunOk, Runs
<1>4. /\ UNCHANGED <<clusters, instances>> /\ Grown
      /\ home' \in [Servers -> 0..Len(instances')] /\ home'[s] = i
      /\ \A t \in Servers : t # s => home'[t] = home[t]
  BY <1>2, <1>3, ServerAssigned
<1>5. PICK rest, pc : /\ rest = todo \ {s} /\ pc \in {"idle", "cluster"}
                      /\ Fleet!Through(rest) = [pc |-> pc, todo |-> rest, name |-> Fleet!Given, at |-> 0]
  BY DEF Fleet!Through
<1>6. PICK r : /\ r = [pc |-> pc, todo |-> rest, name |-> Fleet!Given, at |-> 0]
               /\ backfill' = [backfill EXCEPT ![b] = r]
  BY <1>2, <1>5
<1>7. RegInv'
  <2>1. ASSUME NEW d \in Backfills PROVE RunOk(backfill[d])'
    <3>1. CASE d = b
      BY <1>5, <1>6, <3>1 DEF RunOk, RegInv
    <3>2. CASE d # b
      BY <1>4, <1>6, <3>2, RunStays DEF RegInv
    <3> QED BY <3>1, <3>2
  <2>2. r \in Runs
    BY <1>3, <1>5, <1>6 DEF Names, Runs
  <2> QED BY <1>4, <1>6, <2>1, <2>2 DEF RegInv
<1>8. \A d \in Backfills : backfill'[d].todo \subseteq backfill[d].todo
  BY <1>1, <1>5, <1>6 DEF RegInv
<1>9. s \notin Fleet!Settled
  BY <1>1, <1>3 DEF Fleet!Settled
<1>10. i # 0 /\ s \in Servers
  BY <1>3
<1>11. Fleet!Settled \subseteq Fleet!Settled' /\ \A t \in Fleet!Settled : home'[t] = home[t]
  BY <1>4, <1>8, <1>9 DEF Fleet!Settled
<1>12. ASSUME NEW t \in Servers, home'[t] # home[t] PROVE clusters'[Fleet!ClusterOf(t)'] = t
  <2>1. t = s
    BY <1>4, <1>12
  <2>2. Fleet!ClusterOf(t)' = instances'[i]
    BY <1>4, <1>10, <2>1 DEF Fleet!ClusterOf, Fleet!Unlinked
  <2> QED BY <1>3, <1>4, <2>1, <2>2
<1>13. Fleet!BackfillStep
  BY <1>4, <1>11, <1>12 DEF Fleet!BackfillStep
<1> QED BY <1>2, <1>3, <1>4, <1>7, <1>10, <1>13

LEMMA StopRegInv ==
  ASSUME RegInv, NEW b \in Backfills, Fleet!BackfillStops(b)
  PROVE  RegInv' /\ Fleet!BackfillStep
<1>1. /\ backfill' = [backfill EXCEPT ![b] = Fleet!Idle]
      /\ UNCHANGED <<clusters, instances, home>>
  BY DEF Fleet!BackfillStops
<1>2. PICK r : r = Fleet!Idle /\ r.pc = "idle" /\ r.todo = {} /\ r \in Runs
  <2>1. Fleet!Idle.pc = "idle" /\ Fleet!Idle.todo = {} /\ Fleet!Idle \in Runs
    BY DEF Fleet!Idle, Names, Runs
  <2> QED BY <2>1
<1>3. Grown
  BY <1>1 DEF Grown, RegInv
<1>4. RegInv'
  <2>1. ASSUME NEW d \in Backfills PROVE RunOk(backfill[d])'
    <3>1. CASE d = b
      BY <1>1, <1>2, <3>1 DEF RunOk, RegInv
    <3>2. CASE d # b
      BY <1>1, <1>3, <3>2, RunStays DEF RegInv
    <3> QED BY <3>1, <3>2
  <2> QED BY <1>1, <1>2, <2>1 DEF RegInv
<1>5. \A d \in Backfills : backfill'[d].todo \subseteq backfill[d].todo
  BY <1>1, <1>2 DEF RegInv
<1>6. Fleet!Settled \subseteq Fleet!Settled'
  BY <1>1, <1>5 DEF Fleet!Settled
<1> QED BY <1>1, <1>4, <1>6 DEF Fleet!BackfillStep

\* What is done by hand is no business of the runs.
LEMMA AdministerRegInv ==
  ASSUME RegInv, Fleet!Administer
  PROVE  /\ RegInv' /\ Grown /\ Fleet!BackfillStep
         /\ \/ UNCHANGED <<home, lasting>>
            \/ \E s \in Servers, i \in 1..Len(instances) : Fleet!AssignServerToInstance(s, i)
<1>1. /\ UNCHANGED backfill
      /\ \/ Fleet!CreateCluster(Fleet!Given)
         \/ \E c \in 1..Len(clusters) : Fleet!CreateInstance(c)
         \/ \E s \in Servers, i \in 1..Len(instances) : Fleet!AssignServerToInstance(s, i)
  BY DEF Fleet!Administer, RegInv
<1>2. ASSUME Grown, clusters' \in Seq(Names), instances' \in Seq(1..Len(clusters')),
             home' \in [Servers -> 0..Len(instances')],
             \A s \in Servers : home[s] # 0 => home'[s] # 0
      PROVE  RegInv' /\ Fleet!BackfillStep
  <2>1. \A d \in Backfills : RunOk(backfill[d])'
    BY <1>1, <1>2, RunStays
  <2>2. RegInv'
    BY <1>1, <1>2, <2>1 DEF RegInv
  <2>3. Fleet!Settled \subseteq Fleet!Settled'
    BY <1>1, <1>2 DEF Fleet!Settled, Fleet!Unlinked
  <2> QED BY <1>1, <2>2, <2>3 DEF Fleet!BackfillStep
<1>3. CASE Fleet!CreateCluster(Fleet!Given)
  <2>1. /\ clusters' \in Seq(Names) /\ Grown
        /\ instances' \in Seq(1..Len(clusters')) /\ UNCHANGED <<instances, home, lasting>>
    BY <1>3, ClusterCreated DEF Names
  <2> QED BY <1>2, <2>1 DEF RegInv
<1>4. ASSUME NEW c \in 1..Len(clusters), Fleet!CreateInstance(c)
      PROVE  RegInv' /\ Grown /\ Fleet!BackfillStep /\ UNCHANGED <<home, lasting>>
  <2>1. /\ instances' \in Seq(1..Len(clusters')) /\ Len(instances') = Len(instances) + 1
        /\ Grown /\ UNCHANGED <<clusters, home, lasting>>
    BY <1>4, InstanceCreated
  <2>2. home' \in [Servers -> 0..Len(instances')] /\ clusters' \in Seq(Names)
    BY <2>1 DEF RegInv
  <2> QED BY <1>2, <2>1, <2>2
<1>5. ASSUME NEW s \in Servers, NEW i \in 1..Len(instances), Fleet!AssignServerToInstance(s, i)
      PROVE  RegInv' /\ Grown /\ Fleet!BackfillStep
  <2>1. /\ UNCHANGED <<clusters, instances>> /\ Grown
        /\ home' \in [Servers -> 0..Len(instances')] /\ home'[s] = i
        /\ \A t \in Servers : t # s => home'[t] = home[t]
    BY <1>5, ServerAssigned
  <2>2. i # 0
    OBVIOUS
  <2>3. \A t \in Servers : home[t] # 0 => home'[t] # 0
    BY <2>1, <2>2
  <2>4. clusters' \in Seq(Names) /\ instances' \in Seq(1..Len(clusters'))
    BY <2>1 DEF RegInv
  <2> QED BY <1>2, <2>1, <2>3, <2>4
<1> QED BY <1>1, <1>3, <1>4, <1>5

\* Everything but these leaves the registry alone.
LEMMA Others ==
  ASSUME [Fleet!Next]_Fleet!vars
  PROVE  \/ UNCHANGED Fleet!registry
         \/ Fleet!Administer \/ \E b \in Backfills : Fleet!BackfillFleet(b)
<1> USE DEF Fleet!Next, Fleet!vars, Fleet!registry, Fleet!findings
<1>1. CASE Fleet!CheckChanges \/ Fleet!InsightArrives
  BY <1>1 DEF Fleet!CheckChanges, Fleet!InsightArrives
<1>2. CASE Fleet!OpenFleet \/ Fleet!OpenList \/ Fleet!OpenOverview
  BY <1>2 DEF Fleet!OpenFleet, Fleet!OpenList, Fleet!OpenOverview, Fleet!Open
<1>3. CASE \/ Fleet!ListClusters \/ Fleet!NextCluster \/ Fleet!GetClusterDetail
           \/ Fleet!ServerIDsForCluster \/ Fleet!ReadChecks \/ Fleet!RollUp
  BY <1>3 DEF Fleet!Reading, Fleet!ListClusters, Fleet!NextCluster, Fleet!GetClusterDetail,
     Fleet!ServerIDsForCluster, Fleet!ReadChecks, Fleet!RollUp
<1>4. CASE \/ Fleet!ListInstances \/ Fleet!ServerIDsForInstance \/ Fleet!RollUpNode
           \/ Fleet!ListServerStreams \/ Fleet!EndGroup
  BY <1>4 DEF Fleet!Reading, Fleet!ListInstances, Fleet!ServerIDsForInstance, Fleet!RollUpNode,
     Fleet!ListServerStreams, Fleet!EndGroup
<1>5. CASE Fleet!ReadInsights \/ Fleet!Judge \/ Fleet!Render \/ Fleet!ReadFails
  BY <1>5 DEF Fleet!Reading, Fleet!ReadInsights, Fleet!Judge, Fleet!Render, Fleet!ReadFails
<1> QED BY <1>1, <1>2, <1>3, <1>4, <1>5

LEMMA BackfillRegInv ==
  ASSUME RegInv, NEW b \in Backfills, Fleet!BackfillFleet(b)
  PROVE  /\ RegInv' /\ Grown /\ Fleet!BackfillStep
         /\ \/ UNCHANGED <<home, lasting>>
            \/ \E s \in Servers, i \in 1..Len(instances) : Fleet!AssignServerToInstance(s, i)
<1>1. CASE Fleet!SelectPending(b) \/ Fleet!BackfillStops(b)
  <2>1. UNCHANGED <<clusters, instances, home, lasting>>
    BY <1>1 DEF Fleet!SelectPending, Fleet!BackfillStops
  <2>2. Grown
    BY <2>1 DEF Grown, RegInv
  <2> QED BY <1>1, <2>1, <2>2, SelectRegInv, StopRegInv
<1>2. CASE Fleet!BackfillCluster(b)
  BY <1>2, ClusterRegInv
<1>3. CASE Fleet!BackfillInstance(b)
  BY <1>3, InstanceRegInv
<1>4. CASE Fleet!BackfillAssign(b)
  BY <1>4, AssignRegInv
<1> QED BY <1>1, <1>2, <1>3, <1>4 DEF Fleet!BackfillFleet

LEMMA StepRegInv ==
  ASSUME RegInv, [Fleet!Next]_Fleet!vars
  PROVE  RegInv' /\ Fleet!BackfillStep
<1>1. CASE UNCHANGED Fleet!registry
  BY <1>1 DEF RegInv, RunOk, Fleet!BackfillStep, Fleet!Settled, Fleet!registry
<1> QED BY <1>1, Others, AdministerRegInv, BackfillRegInv

\* However many runs of BackfillFleet there are, and wherever they stop: a server
\* that is linked and on no run's list is selected, moved and given a cluster by no
\* run, and a run links a server only to a cluster made for it.
THEOREM Registered == Fleet!Spec => BackfillIdempotent
<1>1. Fleet!Spec => []RegInv
  BY InitRegInv, StepRegInv, PTL DEF Fleet!Spec
<1>2. RegInv /\ [Fleet!Next]_Fleet!vars => [Fleet!BackfillStep]_fleet
  BY StepRegInv
<1> QED BY <1>1, <1>2, PTL DEF Fleet!Spec, BackfillIdempotent

-----------------------------------------------------------------------------
(* FleetView: the pages.                                                   *)

Checked(fired) == \A x \in fired : x.kind = "check" /\ x.server \in Servers

Found == [kind : {"insight"}, server : Servers, severity : Severities.insights]

\* x is there to be seen in the cluster of its server.
SeenIn(x, fired, all) ==
  /\ x.server \in Servers /\ home[x.server] # 0
  /\ x.kind \in {"check", "insight"}
  /\ x.kind = "check" => x \in fired
  /\ x.kind = "insight" =>
       x \in Fleet!TopInsightsForServers(all, Fleet!ServerIDs(Fleet!ClusterOf(x.server)))

Seen ==
  /\ Checked(firing) /\ insights \in Seq(Found)
  /\ \A x \in lasting : SeenIn(x, firing, insights)

Fields == {"kind", "pc", "left", "at", "nodes", "node", "ids", "unread", "found", "named",
           "attention", "card", "rows", "failed", "shown"}

\* Where the reads of a page can stand, inside a cluster or inside its nodes.
InNodes == {"instances", "node", "node checks"}

InCluster == {"servers", "checks", "judge"} \cup InNodes

PageOk ==
  /\ page = [f \in Fields |-> page[f]]
  /\ page.pc \in {"summaries", "cluster"} => page.kind \in {"fleet"} \cup Fleet!Lists
  /\ page.pc = "judge" => page.kind \in {"fleet", "overview"}
  /\ page.pc = "detail" => page.kind = "overview"
  /\ page.pc \in {"servers", "checks"} => page.kind \in {"fleet", "overview"} \cup Fleet!Lists
  /\ page.pc \in InNodes => page.kind \in {"nodes", "databases"}
  /\ page.pc = "node checks" => page.kind = "nodes"
  /\ page.pc # "idle" => page.shown = "nothing" /\ ~page.failed

\* What a page has to show of a finding x in cluster c, on instance i.
CardOk(x, c) ==
  page.kind # "fleet" \/ Fleet!normSev(x.severity) > 1 => Fleet!Shown(x, page.card, c)

Done(x, c, i) ==
  /\ page.kind \in {"fleet", "overview"} => x \in page.attention
  /\ CardOk(x, c)
  /\ page.kind = "nodes" => Fleet!Shown(x, page.rows, i)

Read(x) == x.server \in page.ids /\ (x.kind = "check" => x.server \in page.unread \/ x \in page.found)

\* How far the page is with it.
CoverOf(x, c, i) ==
  /\ page.shown = "page" => Done(x, c, i)
  /\ page.pc = "cluster" => c \in page.left \/ Done(x, c, i)
  /\ page.pc \in InCluster => c = page.at \/ c \in page.left \/ Done(x, c, i)
  /\ c = page.at /\ page.pc = "checks" =>
       Read(x) /\ (x.kind = "insight" => page.ids \subseteq Fleet!ServerIDs(c))
  /\ c = page.at /\ page.pc = "judge" => x \in page.found
  /\ c = page.at /\ page.pc \in InNodes => CardOk(x, c)
  /\ c = page.at /\ page.pc \in {"node", "node checks"} =>
       \/ i \in page.nodes
       \/ page.kind = "nodes" /\ Fleet!Shown(x, page.rows, i)
            /\ (page.pc = "node checks" => i # page.node)
       \/ page.kind = "databases" /\ page.named
       \/ page.pc = "node checks" /\ i = page.node /\ Read(x)
  /\ c # page.at /\ page.pc \in {"node", "node checks"} =>
       i \notin page.nodes /\ (page.pc = "node checks" => i # page.node)

Cover ==
  \A x \in lasting : Fleet!Claims(x) =>
    \A c, i : c = Fleet!ClusterOf(x.server) /\ i = home[x.server] => CoverOf(x, c, i)

FleetInv == RegInv /\ Seen /\ PageOk /\ Cover

LEMMA WorstShown ==
  ASSUME NEW found, NEW x \in found, NEW kind,
         kind \in {"fleet", "nodes"} => Fleet!normSev(x.severity) > 1
  PROVE  Fleet!Health(kind, found) >= Fleet!normSev(x.severity)
<1> DEFINE S == {0} \cup {Fleet!normSev(y.severity) : y \in found}
<1>1. S \subseteq {0, 1, 2, 3} /\ 0 \in S /\ Fleet!normSev(x.severity) \in S
  BY DEF Fleet!normSev
<1> HIDE DEF S
<1>2. \E m \in S : \A y \in S : m >= y
  <2>1. CASE 3 \in S
    BY <1>1, <2>1
  <2>2. CASE 3 \notin S /\ 2 \in S
    BY <1>1, <2>2
  <2>3. CASE 3 \notin S /\ 2 \notin S /\ 1 \in S
    BY <1>1, <2>3
  <2>4. CASE 3 \notin S /\ 2 \notin S /\ 1 \notin S
    BY <1>1, <2>4
  <2> QED BY <2>1, <2>2, <2>3, <2>4
<1>3. Fleet!Worst(found) \in S /\ \A y \in S : Fleet!Worst(found) >= y
  BY <1>2 DEF Fleet!Worst, Fleet!Max, S
<1>4. /\ Fleet!Worst(found) \in {0, 1, 2, 3} /\ Fleet!normSev(x.severity) \in {0, 1, 2, 3}
      /\ Fleet!Worst(found) >= Fleet!normSev(x.severity)
  <2> HIDE DEF Fleet!Worst
  <2> QED BY <1>1, <1>3
<1> QED BY <1>4 DEF Fleet!Health, Fleet!deriveHealth

\* Of more servers, an insight is no nearer to the top.
LEMMA FewerAbove ==
  ASSUME NEW all \in Seq(Found), NEW some, NEW ids, ids \subseteq some,
         NEW x \in Fleet!TopInsightsForServers(all, some), x.server \in ids
  PROVE  x \in Fleet!TopInsightsForServers(all, ids)
<1> DEFINE Own(set) == {i \in DOMAIN all : all[i].server \in set}
<1>1. PICK i \in Own(some) : x = all[i] /\ Fleet!Cardinality(Own(some) \cap 1..i) <= TopInsights
  BY DEF Fleet!TopInsightsForServers
<1>2. i \in Own(ids) /\ Own(ids) \cap 1..i \subseteq Own(some) \cap 1..i /\ i \in Nat
  BY <1>1
<1> HIDE DEF Own
<1>3. IsFiniteSet(1..i)
  BY <1>2, FS_Interval
<1>4. /\ IsFiniteSet(Own(some) \cap 1..i)
      /\ Own(some) \cap 1..i \subseteq 1..i
  BY <1>3, FS_Subset
<1>5. /\ Cardinality(Own(ids) \cap 1..i) <= Cardinality(Own(some) \cap 1..i)
      /\ Cardinality(Own(ids) \cap 1..i) \in Nat /\ Cardinality(Own(some) \cap 1..i) \in Nat
  BY <1>2, <1>4, FS_Subset, FS_CardinalityType
<1>6. \A T : Fleet!Cardinality(T) = Cardinality(T)
  BY DEF Fleet!Cardinality, Cardinality
<1>7. Fleet!Cardinality(Own(ids) \cap 1..i) <= TopInsights
  BY <1>1, <1>5, <1>6, ServersAssumption
<1> QED BY <1>1, <1>2, <1>7 DEF Fleet!TopInsightsForServers, Own

LEMMA VisibleSeen ==
  ASSUME RegInv, NEW fired, NEW all \in Seq(Found), Checked(fired), NEW x \in Fleet!Visible(fired, all)
  PROVE  SeenIn(x, fired, all)
<1>1. CASE x \in fired /\ home[x.server] # 0
  BY <1>1 DEF Checked, SeenIn
<1>2. ASSUME NEW c \in DOMAIN clusters, x \in Fleet!TopInsightsForServers(all, Fleet!ServerIDs(c))
      PROVE  SeenIn(x, fired, all)
  <2>1. PICK i \in DOMAIN all : x = all[i] /\ x.server \in Fleet!ServerIDs(c)
    BY <1>2 DEF Fleet!TopInsightsForServers
  <2>2. x \in Found
    BY <2>1
  <2>3. Fleet!ClusterOf(x.server) = c /\ x.server \in Servers /\ x.kind = "insight"
    BY <2>1, <2>2 DEF Fleet!ServerIDs, Found
  <2>4. c # 0
    BY DEF RegInv
  <2>5. home[x.server] # 0
    BY <2>3, <2>4 DEF Fleet!ClusterOf, Fleet!Unlinked
  <2> QED BY <1>2, <2>3, <2>5 DEF SeenIn
<1> QED BY <1>1, <1>2 DEF Fleet!Visible, Fleet!Unlinked

\* A server that is linked has a cluster.
LEMMA Linked ==
  ASSUME RegInv, NEW s \in Servers, home[s] # 0
  PROVE  /\ home[s] \in 1..Len(instances) /\ Fleet!ClusterOf(s) = instances[home[s]]
         /\ Fleet!ClusterOf(s) \in 1..Len(clusters)
<1>1. home[s] \in 1..Len(instances) /\ instances \in Seq(1..Len(clusters))
  BY DEF RegInv
<1>2. Fleet!ClusterOf(s) = instances[home[s]]
  BY DEF Fleet!ClusterOf, Fleet!Unlinked
<1> QED BY <1>1, <1>2

LEMMA InitFleetInv == Fleet!Init => FleetInv
<1> SUFFICES ASSUME Fleet!Init PROVE FleetInv
  OBVIOUS
<1>1. /\ page = Fleet!NoPage /\ lasting = {} /\ firing = {} /\ insights = << >>
  BY DEF Fleet!Init
<1>2. page.pc = "idle" /\ page.shown = "nothing"
      /\ page = [f \in Fields |-> page[f]]
  BY <1>1 DEF Fleet!NoPage, Fields
<1>3. PageOk
  BY <1>2 DEF PageOk, InNodes
<1> QED BY <1>1, <1>3, InitRegInv DEF FleetInv, Seen, Cover, Checked

\* What a step that leaves the registry alone, or only reads, has to show.
LEMMA StillSeen ==
  ASSUME FleetInv, UNCHANGED <<Fleet!registry, Fleet!findings, lasting>>
  PROVE  RegInv' /\ Seen'
<1>1. UNCHANGED <<clusters, instances, home, backfill, firing, insights, lasting>>
  BY DEF Fleet!registry, Fleet!findings
<1>2. RegInv'
  BY <1>1 DEF FleetInv, RegInv, RunOk
<1>3. Seen'
  <2>1. ASSUME NEW x \in lasting' PROVE SeenIn(x, firing, insights)'
    <3>1. SeenIn(x, firing, insights)
      BY <1>1 DEF FleetInv, Seen
    <3> QED BY <1>1, <3>1 DEF SeenIn, Fleet!TopInsightsForServers, Fleet!ServerIDs, Fleet!ClusterOf
  <2> QED BY <1>1, <2>1 DEF FleetInv, Seen, Checked
<1> QED BY <1>2, <1>3

\* While the page stays, and the servers of what is still owed do.
LEMMA PageStays ==
  ASSUME FleetInv, UNCHANGED page, lasting' \subseteq lasting,
         \A x \in lasting' :
           /\ home'[x.server] = home[x.server]
           /\ Fleet!ClusterOf(x.server)' = Fleet!ClusterOf(x.server)
           /\ x.kind = "insight" =>
                \A s \in Fleet!ServerIDs(Fleet!ClusterOf(x.server)) :
                  Fleet!ClusterOf(s)' = Fleet!ClusterOf(x.server)
  PROVE  PageOk' /\ Cover'
<1>1. PageOk'
  BY DEF FleetInv, PageOk
<1>2. ASSUME NEW x \in lasting', Fleet!Claims(x)', NEW c, NEW i,
             c = Fleet!ClusterOf(x.server)', i = home'[x.server]
      PROVE  CoverOf(x, c, i)'
  <2>1. c = Fleet!ClusterOf(x.server) /\ i = home[x.server]
    BY <1>2
  <2>2. Fleet!Claims(x)
    BY <1>2, <2>1 DEF Fleet!Claims
  <2>3. CoverOf(x, c, i)
    BY <1>2, <2>1, <2>2 DEF FleetInv, Cover
  <2>4. Done(x, c, i)' = Done(x, c, i) /\ Read(x)' = Read(x) /\ CardOk(x, c)' = CardOk(x, c)
    BY DEF Done, CardOk, Read
  <2>5. x.kind = "insight" /\ page.ids \subseteq Fleet!ServerIDs(c)
          => page'.ids \subseteq Fleet!ServerIDs(c)'
    BY <1>2, <2>1 DEF Fleet!ServerIDs
  <2> QED BY <2>3, <2>4, <2>5 DEF CoverOf
<1> QED BY <1>1, <1>2 DEF Cover

\* Checks and insights change: what is no longer there is not held against a page.
LEMMA FindingsFleetInv ==
  ASSUME FleetInv, Fleet!CheckChanges \/ Fleet!InsightArrives
  PROVE  FleetInv'
<1>1. UNCHANGED <<clusters, instances, home, backfill, page>>
  BY DEF Fleet!CheckChanges, Fleet!InsightArrives, Fleet!registry
<1>2. lasting' = lasting \cap Fleet!Visible(firing', insights')
  <2>1. CASE Fleet!CheckChanges
    BY <2>1 DEF Fleet!CheckChanges
  <2>2. CASE Fleet!InsightArrives
    BY <2>2 DEF Fleet!InsightArrives
  <2> QED BY <2>1, <2>2
<1>3. Checked(firing') /\ insights' \in Seq(Found)
  <2>1. CASE Fleet!CheckChanges
    <3>1. PICK x : /\ x.kind = "check" /\ x.server \in Servers
                   /\ firing' \subseteq firing \cup {x} /\ insights' = insights
      BY <2>1 DEF Fleet!CheckChanges
    <3> QED BY <3>1 DEF FleetInv, Seen, Checked
  <2>2. CASE Fleet!InsightArrives
    <3>1. PICK x \in Found : insights' = <<x>> \o insights /\ firing' = firing
      BY <2>2 DEF Fleet!InsightArrives, Found
    <3> QED BY <3>1 DEF FleetInv, Seen
  <2> QED BY <2>1, <2>2
<1>4. RegInv'
  BY <1>1 DEF FleetInv, RegInv, RunOk
<1>5. ASSUME NEW x \in lasting' PROVE SeenIn(x, firing, insights)'
  <2>1. PICK fired, all : fired = firing' /\ all = insights'
    OBVIOUS
  <2>2. SeenIn(x, fired, all)
    BY <1>2, <1>3, <2>1, VisibleSeen DEF FleetInv
  <2> QED BY <1>1, <2>1, <2>2 DEF SeenIn, Fleet!TopInsightsForServers, Fleet!ServerIDs, Fleet!ClusterOf
<1>6. \A s : Fleet!ClusterOf(s)' = Fleet!ClusterOf(s)
  BY <1>1 DEF Fleet!ClusterOf
<1>7. PageOk' /\ Cover'
  BY <1>1, <1>2, <1>6, PageStays DEF Fleet!ServerIDs
<1> QED BY <1>3, <1>4, <1>5, <1>7 DEF FleetInv, Seen, Checked

\* A server gets an instance: what is still owed is of those that stay, and of
\* insights of clusters that nobody left.
LEMMA AssignedSeen ==
  ASSUME FleetInv, RegInv', NEW t \in Servers, NEW k \in 1..Len(instances),
         Fleet!AssignServerToInstance(t, k), NEW x \in lasting'
  PROVE  /\ x \in lasting /\ SeenIn(x, firing, insights)'
         /\ home'[x.server] = home[x.server]
         /\ Fleet!ClusterOf(x.server)' = Fleet!ClusterOf(x.server)
         /\ x.kind = "insight" =>
              \A s \in Fleet!ServerIDs(Fleet!ClusterOf(x.server)) :
                Fleet!ClusterOf(s)' = Fleet!ClusterOf(x.server)
<1>1. /\ UNCHANGED <<clusters, instances, firing, insights>>
      /\ x \in lasting /\ x \in Fleet!Visible(firing, insights)' /\ Fleet!Stays(x)
  BY DEF Fleet!AssignServerToInstance
<1>2. /\ home'[x.server] = home[x.server]
      /\ x.kind = "insight" =>
           \A s \in Fleet!ServerIDs(Fleet!ClusterOf(x.server)) :
             Fleet!ClusterOf(s)' = Fleet!ClusterOf(x.server)
  BY <1>1 DEF Fleet!Stays
<1>3. Fleet!ClusterOf(x.server)' = Fleet!ClusterOf(x.server)
  BY <1>1, <1>2 DEF Fleet!ClusterOf
<1>4. SeenIn(x, firing, insights)
  BY <1>1 DEF FleetInv, Seen
<1>5. /\ x.server \in Servers /\ home'[x.server] # 0 /\ x.kind \in {"check", "insight"}
      /\ x.kind = "check" => x \in firing'
  BY <1>1, <1>2, <1>4 DEF SeenIn
<1>6. ASSUME x.kind = "insight"
      PROVE  x \in Fleet!TopInsightsForServers(insights, Fleet!ServerIDs(Fleet!ClusterOf(x.server)))'
  <2>1. x \notin firing'
    BY <1>1, <1>6 DEF FleetInv, Seen, Checked
  <2>2. PICK c \in DOMAIN clusters' : x \in Fleet!TopInsightsForServers(insights, Fleet!ServerIDs(c))'
    BY <1>1, <2>1 DEF Fleet!Visible
  <2>3. x.server \in Fleet!ServerIDs(c)'
    BY <2>2 DEF Fleet!TopInsightsForServers
  <2>4. Fleet!ClusterOf(x.server)' = c
    BY <2>3 DEF Fleet!ServerIDs
  <2> QED BY <2>2, <2>4
<1> QED BY <1>1, <1>2, <1>3, <1>5, <1>6 DEF SeenIn

LEMMA RegistryFleetInv ==
  ASSUME FleetInv, Fleet!Administer \/ \E b \in Backfills : Fleet!BackfillFleet(b)
  PROVE  FleetInv'
<1>1. /\ RegInv' /\ Grown
      /\ \/ UNCHANGED <<home, lasting>>
         \/ \E s \in Servers, i \in 1..Len(instances) : Fleet!AssignServerToInstance(s, i)
  BY AdministerRegInv, BackfillRegInv DEF FleetInv
<1>2. UNCHANGED <<firing, insights, page>>
  <2>1. CASE Fleet!Administer
    BY <2>1 DEF Fleet!Administer
  <2>2. ASSUME NEW b \in Backfills, Fleet!BackfillFleet(b) PROVE UNCHANGED <<firing, insights, page>>
    BY <2>2 DEF Fleet!BackfillFleet, Fleet!SelectPending, Fleet!BackfillCluster, Fleet!BackfillInstance,
       Fleet!BackfillAssign, Fleet!BackfillStops, Fleet!findings
  <2> QED BY <2>1, <2>2
<1>3. CASE UNCHANGED <<home, lasting>>
  <2>1. ASSUME NEW s \in Servers PROVE Fleet!ClusterOf(s)' = Fleet!ClusterOf(s)
    <3>1. home[s] \in 0..Len(instances)
      BY DEF FleetInv, RegInv
    <3>2. CASE home[s] = 0
      BY <1>3, <3>2 DEF Fleet!ClusterOf, Fleet!Unlinked
    <3>3. CASE home[s] # 0
      <4>1. home[s] \in 1..Len(instances)
        BY <3>3, <3>1 DEF FleetInv, RegInv
      <4>2. instances'[home[s]] = instances[home[s]]
        BY <1>1, <4>1 DEF Grown
      <4> QED BY <1>3, <4>2 DEF Fleet!ClusterOf
    <3> QED BY <3>2, <3>3
  <2>2. ASSUME NEW x \in lasting'
        PROVE  /\ SeenIn(x, firing, insights)' /\ home'[x.server] = home[x.server]
               /\ Fleet!ClusterOf(x.server)' = Fleet!ClusterOf(x.server)
               /\ x.kind = "insight" =>
                    \A s \in Fleet!ServerIDs(Fleet!ClusterOf(x.server)) :
                      Fleet!ClusterOf(s)' = Fleet!ClusterOf(x.server)
    <3>1. SeenIn(x, firing, insights) /\ x.server \in Servers
      BY <1>3, <2>2 DEF FleetInv, Seen, SeenIn
    <3>2. PICK c : c = Fleet!ClusterOf(x.server) /\ c = Fleet!ClusterOf(x.server)'
      BY <2>1, <3>1
    <3>3. Fleet!ServerIDs(c)' = Fleet!ServerIDs(c) /\ \A s \in Fleet!ServerIDs(c) : Fleet!ClusterOf(s)' = c
      BY <2>1 DEF Fleet!ServerIDs
    <3>4. x.kind = "insight" => x \in Fleet!TopInsightsForServers(insights, Fleet!ServerIDs(c))
      BY <3>1, <3>2 DEF SeenIn
    <3>5. x.kind = "insight" => x \in Fleet!TopInsightsForServers(insights, Fleet!ServerIDs(c))'
      BY <1>2, <3>3, <3>4 DEF Fleet!TopInsightsForServers
    <3>6. SeenIn(x, firing, insights)'
      BY <1>2, <1>3, <3>1, <3>2, <3>5 DEF SeenIn
    <3> QED BY <1>3, <3>2, <3>3, <3>6
  <2>3. PageOk' /\ Cover'
    BY <1>2, <1>3, <2>2, PageStays
  <2> QED BY <1>1, <1>2, <2>2, <2>3 DEF FleetInv, Seen, Checked
<1>4. ASSUME NEW s \in Servers, NEW i \in 1..Len(instances), Fleet!AssignServerToInstance(s, i)
      PROVE  FleetInv'
  <2>1. lasting' \subseteq lasting
    BY <1>4 DEF Fleet!AssignServerToInstance
  <2>2. PageOk' /\ Cover'
    BY <1>1, <1>2, <1>4, <2>1, AssignedSeen, PageStays
  <2>3. \A x \in lasting' : SeenIn(x, firing, insights)'
    BY <1>1, <1>4, AssignedSeen
  <2> QED BY <1>1, <1>2, <2>2, <2>3 DEF FleetInv, Seen, Checked
<1> QED BY <1>1, <1>3, <1>4

\* A page that is opened owes what can be seen, and shows nothing yet.
LEMMA OpenFleetInv ==
  ASSUME FleetInv, Fleet!OpenFleet \/ Fleet!OpenList \/ Fleet!OpenOverview
  PROVE  FleetInv'
<1>1. PICK p : Fleet!Open(p) /\ \/ p = [Fleet!NoPage EXCEPT !.kind = "fleet", !.pc = "summaries"]
                                \/ \E k \in Fleet!Lists :
                                     p = [Fleet!NoPage EXCEPT !.kind = k, !.pc = "summaries"]
                                \/ \E c \in DOMAIN clusters :
                                     p = [Fleet!NoPage EXCEPT !.kind = "overview", !.pc = "detail", !.at = c]
  BY DEF Fleet!OpenFleet, Fleet!OpenList, Fleet!OpenOverview
<1>2. /\ UNCHANGED <<clusters, instances, home, backfill, firing, insights, changes>>
      /\ page' = p /\ lasting' = Fleet!Visible(firing, insights)
  BY <1>1 DEF Fleet!Open, Fleet!registry, Fleet!findings
<1>3. /\ p = [f \in Fields |-> p[f]] /\ p.shown = "nothing" /\ p.failed = FALSE
      /\ \/ p.pc = "summaries" /\ p.kind \in {"fleet"} \cup Fleet!Lists
         \/ p.pc = "detail" /\ p.kind = "overview"
  <2> USE DEF Fleet!NoPage, Fields
  <2>1. CASE p = [Fleet!NoPage EXCEPT !.kind = "fleet", !.pc = "summaries"]
    BY <2>1
  <2>2. ASSUME NEW k \in Fleet!Lists, p = [Fleet!NoPage EXCEPT !.kind = k, !.pc = "summaries"]
        PROVE  /\ p = [f \in Fields |-> p[f]] /\ p.shown = "nothing"
               /\ p.failed = FALSE /\ p.pc = "summaries" /\ p.kind = k
    BY <2>2
  <2>3. ASSUME NEW c \in DOMAIN clusters,
               p = [Fleet!NoPage EXCEPT !.kind = "overview", !.pc = "detail", !.at = c]
        PROVE  /\ p = [f \in Fields |-> p[f]] /\ p.shown = "nothing"
               /\ p.failed = FALSE /\ p.pc = "detail" /\ p.kind = "overview"
    BY <2>3
  <2> HIDE DEF Fleet!NoPage, Fields
  <2> QED BY <1>1, <2>1, <2>2, <2>3
<1>4. RegInv'
  BY <1>2 DEF FleetInv, RegInv, RunOk
<1>5. Seen'
  <2>1. ASSUME NEW x \in lasting' PROVE SeenIn(x, firing, insights)'
    <3>1. SeenIn(x, firing, insights)
      BY <1>2, <2>1, VisibleSeen DEF FleetInv, Seen
    <3> QED BY <1>2, <3>1 DEF SeenIn, Fleet!TopInsightsForServers, Fleet!ServerIDs, Fleet!ClusterOf
  <2> QED BY <1>2, <2>1 DEF FleetInv, Seen, Checked
<1>6. PageOk'
  BY <1>2, <1>3 DEF PageOk, InNodes
<1>7. Cover'
  BY <1>2, <1>3, ZenonT(30) DEF Cover, CoverOf, InCluster, InNodes
<1> QED BY <1>4, <1>5, <1>6, <1>7 DEF FleetInv

\* What is owed while a page is read was owed before the read.
LEMMA StillClaims ==
  ASSUME UNCHANGED <<home, instances>>, page'.kind = page.kind,
         page'.kind = "overview" => page'.at = page.at,
         ~page.failed, NEW x, Fleet!Claims(x)'
  PROVE  Fleet!Claims(x)
BY DEF Fleet!Claims, Fleet!ClusterOf

\* A read of a page has to keep what it owes of each finding.
LEMMA CoverStep ==
  ASSUME FleetInv, UNCHANGED <<home, instances, lasting>>, page'.kind = page.kind,
         page'.kind = "overview" => page'.at = page.at, ~page.failed,
         ASSUME NEW x \in lasting, Fleet!Claims(x), NEW c, NEW i, SeenIn(x, firing, insights),
                c = Fleet!ClusterOf(x.server), i = home[x.server], CoverOf(x, c, i)
         PROVE  CoverOf(x, c, i)'
  PROVE  Cover'
<1>1. ASSUME NEW x \in lasting', Fleet!Claims(x)', NEW c, NEW i,
             c = Fleet!ClusterOf(x.server)', i = home'[x.server]
      PROVE  CoverOf(x, c, i)'
  <2>1. x \in lasting /\ c = Fleet!ClusterOf(x.server) /\ i = home[x.server]
    BY <1>1 DEF Fleet!ClusterOf
  <2>2. Fleet!Claims(x)
    BY <1>1, StillClaims
  <2>3. CoverOf(x, c, i) /\ SeenIn(x, firing, insights)
    BY <2>1, <2>2 DEF FleetInv, Cover, Seen
  <2> QED BY <2>1, <2>2, <2>3
<1> QED BY <1>1 DEF Cover

LEMMA ListClustersInv ==
  ASSUME FleetInv, Fleet!ListClusters
  PROVE  PageOk' /\ Cover'
<1>1. /\ page.pc = "summaries" /\ page' = [page EXCEPT !.pc = "cluster", !.left = DOMAIN clusters]
      /\ UNCHANGED <<home, instances, clusters, lasting>> /\ page = [f \in Fields |-> page[f]]
  BY DEF Fleet!ListClusters, Fleet!Reading, Fleet!registry, FleetInv, PageOk
<1>2. /\ page' = [f \in Fields |-> page'[f]]
      /\ page'.pc = "cluster" /\ page'.left = DOMAIN clusters /\ page'.kind = page.kind
      /\ page'.at = page.at /\ page'.shown = page.shown /\ page'.failed = page.failed
  BY <1>1 DEF Fields
<1>3. page.kind \in {"fleet"} \cup Fleet!Lists /\ page.shown = "nothing" /\ ~page.failed
  BY <1>1 DEF FleetInv, PageOk
<1>4. PageOk'
  BY <1>2, <1>3 DEF PageOk, InNodes
<1>5. ASSUME NEW x \in lasting, NEW c, NEW i, SeenIn(x, firing, insights),
             c = Fleet!ClusterOf(x.server)
      PROVE  CoverOf(x, c, i)'
  <2>1. c \in 1..Len(clusters)
    BY <1>5, Linked DEF FleetInv, SeenIn
  <2>2. c \in DOMAIN clusters
    BY <2>1 DEF FleetInv, RegInv
  <2> QED BY <1>2, <1>3, <2>2 DEF CoverOf, InCluster, InNodes
<1>6. Cover'
  BY <1>1, <1>2, <1>3, <1>5, CoverStep
<1> QED BY <1>4, <1>6

LEMMA NextClusterInv ==
  ASSUME FleetInv, Fleet!NextCluster
  PROVE  PageOk' /\ Cover'
<1>1. PICK at1 \in page.left :
        page' = [page EXCEPT !.pc = "servers", !.left = @ \ {at1}, !.at = at1]
  BY DEF Fleet!NextCluster
<1>2. page.pc = "cluster" /\ UNCHANGED <<home, instances, lasting>> /\ page = [f \in Fields |-> page[f]]
  BY DEF Fleet!NextCluster, Fleet!Reading, Fleet!registry, FleetInv, PageOk
<1>3. /\ page' = [f \in Fields |-> page'[f]]
      /\ page'.pc = "servers" /\ page'.left = page.left \ {at1} /\ page'.kind = page.kind
      /\ page'.at = at1 /\ page'.card = page.card /\ page'.rows = page.rows
      /\ page'.attention = page.attention /\ page'.shown = page.shown /\ page'.failed = page.failed
  BY <1>1, <1>2 DEF Fields
<1>4. page.kind \in {"fleet"} \cup Fleet!Lists /\ page.shown = "nothing" /\ ~page.failed
  BY <1>2 DEF FleetInv, PageOk
<1>5. PageOk'
  BY <1>3, <1>4 DEF PageOk, InNodes
<1>6. ASSUME NEW x \in lasting, NEW c, NEW i, CoverOf(x, c, i)
      PROVE  CoverOf(x, c, i)'
  <2>1. Done(x, c, i)' = Done(x, c, i)
    BY <1>3 DEF Done, CardOk, Fleet!Shown
  <2>2. c \in page.left \/ Done(x, c, i)
    BY <1>2, <1>6 DEF CoverOf
  <2> QED BY <1>3, <1>4, <2>1, <2>2 DEF CoverOf, InCluster, InNodes
<1>7. Cover'
  BY <1>2, <1>3, <1>4, <1>6, CoverStep DEF Fleet!Lists
<1> QED BY <1>5, <1>7

LEMMA DetailInv ==
  ASSUME FleetInv, Fleet!GetClusterDetail
  PROVE  PageOk' /\ Cover'
<1>1. /\ page.pc = "detail" /\ page' = [page EXCEPT !.pc = "servers"]
      /\ UNCHANGED <<home, instances, lasting>> /\ page = [f \in Fields |-> page[f]]
  BY DEF Fleet!GetClusterDetail, Fleet!Reading, Fleet!registry, FleetInv, PageOk
<1>2. /\ page' = [f \in Fields |-> page'[f]]
      /\ page'.pc = "servers" /\ page'.left = page.left /\ page'.kind = page.kind
      /\ page'.at = page.at /\ page'.shown = page.shown /\ page'.failed = page.failed
  BY <1>1 DEF Fields
<1>3. page.kind = "overview" /\ page.shown = "nothing" /\ ~page.failed
  BY <1>1 DEF FleetInv, PageOk
<1>4. PageOk'
  BY <1>2, <1>3 DEF PageOk, InNodes
<1>5. ASSUME NEW x \in lasting, Fleet!Claims(x), NEW c, NEW i, c = Fleet!ClusterOf(x.server)
      PROVE  CoverOf(x, c, i)'
  <2>1. c = page.at
    BY <1>3, <1>5 DEF Fleet!Claims
  <2> QED BY <1>2, <1>3, <2>1 DEF CoverOf, InCluster, InNodes
<1>6. Cover'
  BY <1>1, <1>2, <1>3, <1>5, CoverStep
<1> QED BY <1>4, <1>6

LEMMA ServersInv ==
  ASSUME FleetInv, Fleet!ServerIDsForCluster
  PROVE  PageOk' /\ Cover'
<1>1. PICK ids : ids = Fleet!ServerIDs(page.at)
  OBVIOUS
<1>2. /\ page.pc = "servers" /\ page' = [page EXCEPT !.pc = "checks", !.ids = ids, !.unread = ids]
      /\ UNCHANGED <<home, instances, lasting>> /\ page = [f \in Fields |-> page[f]]
  BY <1>1 DEF Fleet!ServerIDsForCluster, Fleet!Reading, Fleet!registry, FleetInv, PageOk
<1>3. /\ page' = [f \in Fields |-> page'[f]]
      /\ page'.pc = "checks" /\ page'.left = page.left /\ page'.kind = page.kind
      /\ page'.at = page.at /\ page'.card = page.card /\ page'.rows = page.rows
      /\ page'.attention = page.attention /\ page'.shown = page.shown
      /\ page'.failed = page.failed /\ page'.ids = ids /\ page'.unread = ids
  BY <1>2 DEF Fields
<1>4. /\ page.kind \in {"fleet", "overview"} \cup Fleet!Lists
      /\ page.shown = "nothing" /\ ~page.failed
  BY <1>2 DEF FleetInv, PageOk
<1>5. PageOk'
  BY <1>3, <1>4 DEF PageOk, InNodes
<1>6. ASSUME NEW x \in lasting, NEW c, NEW i, SeenIn(x, firing, insights),
             c = Fleet!ClusterOf(x.server), CoverOf(x, c, i)
      PROVE  CoverOf(x, c, i)'
  <2>1. Done(x, c, i)' = Done(x, c, i)
    BY <1>3 DEF Done, CardOk, Fleet!Shown
  <2>2. c = page.at \/ c \in page.left \/ Done(x, c, i)
    BY <1>2, <1>6 DEF CoverOf, InCluster
  <2>3. c = page.at => x.server \in ids
    BY <1>1, <1>6 DEF SeenIn, Fleet!ServerIDs
  <2>4. c = page.at => Read(x)'
    BY <1>3, <2>3 DEF Read
  <2>5. c = page.at => ids \subseteq Fleet!ServerIDs(c)'
    BY <1>1, <1>2 DEF Fleet!ServerIDs, Fleet!ClusterOf
  <2> QED BY <1>3, <1>4, <2>1, <2>2, <2>4, <2>5 DEF CoverOf, InCluster, InNodes
<1>7. Cover'
  BY <1>2, <1>3, <1>4, <1>6, CoverStep
<1> QED BY <1>5, <1>7

LEMMA ReadChecksInv ==
  ASSUME FleetInv, Fleet!ReadChecks
  PROVE  PageOk' /\ Cover'
<1>1. PICK s \in page.unread :
        page' = [page EXCEPT !.unread = @ \ {s}, !.found = @ \cup Fleet!LatestChecksResults(s)]
  BY DEF Fleet!ReadChecks
<1>2. /\ page.pc \in {"checks", "node checks"} /\ UNCHANGED <<home, instances, lasting>>
      /\ page = [f \in Fields |-> page[f]]
  BY DEF Fleet!ReadChecks, Fleet!Reading, Fleet!registry, FleetInv, PageOk
<1>3. /\ page' = [f \in Fields |-> page'[f]]
      /\ page'.pc = page.pc /\ page'.left = page.left /\ page'.kind = page.kind
      /\ page'.at = page.at /\ page'.card = page.card /\ page'.rows = page.rows
      /\ page'.attention = page.attention /\ page'.shown = page.shown
      /\ page'.failed = page.failed /\ page'.ids = page.ids /\ page'.unread = page.unread \ {s}
      /\ page'.nodes = page.nodes /\ page'.node = page.node /\ page'.named = page.named
      /\ page'.found = page.found \cup Fleet!LatestChecksResults(s)
  BY <1>1, <1>2 DEF Fields
<1>4. ~page.failed
  BY <1>2 DEF FleetInv, PageOk
<1>5. PageOk'
  BY <1>2, <1>3 DEF FleetInv, PageOk
<1>6. ASSUME NEW x \in lasting, NEW c, NEW i, SeenIn(x, firing, insights),
             c = Fleet!ClusterOf(x.server), CoverOf(x, c, i)
      PROVE  CoverOf(x, c, i)'
  <2>1. Done(x, c, i)' = Done(x, c, i) /\ CardOk(x, c)' = CardOk(x, c)
    BY <1>3 DEF Done, CardOk, Fleet!Shown
  <2>2. x.kind = "check" /\ x.server = s => x \in Fleet!LatestChecksResults(s)
    BY <1>6 DEF SeenIn, Fleet!LatestChecksResults
  <2>3. Read(x) => Read(x)'
    BY <1>3, <2>2 DEF Read
  <2>4. page.ids \subseteq Fleet!ServerIDs(c) => page'.ids \subseteq Fleet!ServerIDs(c)'
    BY <1>2, <1>3 DEF Fleet!ServerIDs, Fleet!ClusterOf
  <2>5. Fleet!Shown(x, page.rows, i)' = Fleet!Shown(x, page.rows, i)
    BY <1>3 DEF Fleet!Shown
  <2> QED BY <1>2, <1>3, <1>6, <2>1, <2>3, <2>4, <2>5 DEF CoverOf, InCluster, InNodes
<1>7. Cover'
  BY <1>2, <1>3, <1>4, <1>6, CoverStep
<1> QED BY <1>5, <1>7

\* The line of a cluster: all its checks were read.
LEMMA RollUpInv ==
  ASSUME FleetInv, Fleet!RollUp
  PROVE  PageOk' /\ Cover'
<1>1. PICK at1, value, card, pc :
        /\ at1 = page.at /\ value = Fleet!Health(page.kind, page.found)
        /\ card = Fleet!Put(page.card, at1, value)
        /\ pc = IF page.kind = "clusters" THEN "cluster" ELSE "instances"
  OBVIOUS
<1>2. /\ page' = [page EXCEPT !.card = card, !.pc = pc, !.ids = {}, !.found = {}]
      /\ page.pc = "checks" /\ page.unread = {} /\ page.kind \in Fleet!Lists
      /\ UNCHANGED <<home, instances, lasting>> /\ page = [f \in Fields |-> page[f]]
  BY <1>1 DEF Fleet!RollUp, Fleet!Reading, Fleet!registry, FleetInv, PageOk
<1>3. /\ page' = [f \in Fields |-> page'[f]]
      /\ page'.pc = pc /\ page'.left = page.left /\ page'.kind = page.kind
      /\ page'.at = page.at /\ page'.card = card /\ page'.rows = page.rows
      /\ page'.attention = page.attention /\ page'.shown = page.shown
      /\ page'.failed = page.failed
  BY <1>2 DEF Fields
<1>4. /\ page.shown = "nothing" /\ ~page.failed
      /\ pc \in {"cluster", "instances"} /\ (pc = "instances" <=> page.kind \in {"nodes", "databases"})
  BY <1>1, <1>2 DEF FleetInv, PageOk, Fleet!Lists
<1>5. PageOk'
  BY <1>2, <1>3, <1>4 DEF PageOk, InNodes
<1>6. /\ DOMAIN card = DOMAIN page.card \cup {at1} /\ card[at1] = value
      /\ \A k \in DOMAIN page.card : k # at1 => card[k] = page.card[k]
  BY <1>1 DEF Fleet!Put
<1>7. ASSUME NEW x \in lasting, Fleet!Claims(x), NEW c, NEW i, SeenIn(x, firing, insights),
             c = Fleet!ClusterOf(x.server), CoverOf(x, c, i)
      PROVE  CoverOf(x, c, i)'
  <2>1. /\ x.kind = "check" /\ page.kind \in {"clusters", "nodes", "databases"}
        /\ page.kind = "nodes" => Fleet!normSev(x.severity) > 1
    BY <1>2, <1>7 DEF Fleet!Claims, Fleet!Lists
  <2>2. CASE c = at1
    <3>1. x \in page.found
      BY <1>1, <1>2, <1>7, <2>1, <2>2 DEF CoverOf, Read
    <3>2. value >= Fleet!normSev(x.severity)
      BY <1>1, <2>1, <3>1, WorstShown
    <3>3. Fleet!Shown(x, page.card, c)'
      BY <1>3, <1>6, <2>2, <3>2 DEF Fleet!Shown
    <3>4. CardOk(x, c)' /\ (page.kind = "clusters" => Done(x, c, i)')
      BY <1>3, <2>1, <3>3 DEF CardOk, Done
    <3> QED BY <1>1, <1>3, <1>4, <2>1, <2>2, <3>4 DEF CoverOf, InCluster, InNodes
  <2>3. CASE c # at1
    <3>1. Fleet!Shown(x, page.card, c)' = Fleet!Shown(x, page.card, c)
      BY <1>3, <1>6, <2>3 DEF Fleet!Shown
    <3>2. Done(x, c, i)' = Done(x, c, i)
      BY <1>3, <3>1 DEF Done, CardOk, Fleet!Shown
    <3>3. c \in page.left \/ Done(x, c, i)
      BY <1>1, <1>2, <1>7, <2>3 DEF CoverOf, InCluster
    <3> QED BY <1>1, <1>3, <1>4, <2>3, <3>2, <3>3 DEF CoverOf, InCluster, InNodes
  <2> QED BY <2>2, <2>3
<1>8. Cover'
  BY <1>2, <1>3, <1>4, <1>7, CoverStep
<1> QED BY <1>5, <1>8

LEMMA ListInstancesInv ==
  ASSUME FleetInv, Fleet!ListInstances
  PROVE  PageOk' /\ Cover'
<1>1. PICK nodes : nodes = {i \in DOMAIN instances : instances[i] = page.at}
  OBVIOUS
<1>2. /\ page.pc = "instances" /\ page' = [page EXCEPT !.pc = "node", !.nodes = nodes]
      /\ UNCHANGED <<home, instances, lasting>> /\ page = [f \in Fields |-> page[f]]
  BY <1>1 DEF Fleet!ListInstances, Fleet!Reading, Fleet!registry, FleetInv, PageOk
<1>3. /\ page' = [f \in Fields |-> page'[f]]
      /\ page'.pc = "node" /\ page'.left = page.left /\ page'.kind = page.kind
      /\ page'.at = page.at /\ page'.card = page.card /\ page'.rows = page.rows
      /\ page'.attention = page.attention /\ page'.shown = page.shown
      /\ page'.failed = page.failed /\ page'.nodes = nodes
  BY <1>2 DEF Fields
<1>4. page.kind \in {"nodes", "databases"} /\ page.shown = "nothing" /\ ~page.failed
  BY <1>2 DEF FleetInv, PageOk, InNodes
<1>5. PageOk'
  BY <1>3, <1>4 DEF PageOk, InNodes
<1>6. ASSUME NEW x \in lasting, NEW c, NEW i, SeenIn(x, firing, insights),
             c = Fleet!ClusterOf(x.server), i = home[x.server], CoverOf(x, c, i)
      PROVE  CoverOf(x, c, i)'
  <2>1. Done(x, c, i)' = Done(x, c, i) /\ CardOk(x, c)' = CardOk(x, c)
    BY <1>3 DEF Done, CardOk, Fleet!Shown
  <2>2. i \in 1..Len(instances) /\ instances[i] = c
    BY <1>6, Linked DEF FleetInv, SeenIn
  <2>3. i \in DOMAIN instances
    BY <2>2 DEF FleetInv, RegInv
  <2>4. c = page.at <=> i \in nodes
    BY <1>1, <2>2, <2>3
  <2> QED BY <1>2, <1>3, <1>4, <1>6, <2>1, <2>4 DEF CoverOf, InCluster, InNodes
<1>7. Cover'
  BY <1>2, <1>3, <1>4, <1>6, CoverStep
<1> QED BY <1>5, <1>7

LEMMA NodeInv ==
  ASSUME FleetInv, Fleet!ServerIDsForInstance
  PROVE  PageOk' /\ Cover'
<1>1. PICK k, ids : /\ k \in page.nodes /\ ids = Fleet!InstanceServerIDs(k)
                    /\ page' = [page EXCEPT !.pc = "node checks", !.nodes = @ \ {k}, !.node = k,
                                            !.ids = ids, !.unread = ids]
  BY DEF Fleet!ServerIDsForInstance
<1>2. /\ page.pc = "node" /\ page.kind = "nodes" /\ page = [f \in Fields |-> page[f]]
      /\ UNCHANGED <<home, instances, lasting>>
  BY DEF Fleet!ServerIDsForInstance, Fleet!Reading, Fleet!registry, FleetInv, PageOk
<1>3. /\ page' = [f \in Fields |-> page'[f]]
      /\ page'.pc = "node checks" /\ page'.left = page.left /\ page'.kind = page.kind
      /\ page'.at = page.at /\ page'.card = page.card /\ page'.rows = page.rows
      /\ page'.attention = page.attention /\ page'.shown = page.shown
      /\ page'.failed = page.failed /\ page'.nodes = page.nodes \ {k} /\ page'.node = k
      /\ page'.ids = ids /\ page'.unread = ids
  BY <1>1, <1>2 DEF Fields
<1>4. page.shown = "nothing" /\ ~page.failed
  BY <1>2 DEF FleetInv, PageOk
<1>5. PageOk'
  BY <1>2, <1>3, <1>4 DEF PageOk, InNodes
<1>6. ASSUME NEW x \in lasting, NEW c, NEW i, SeenIn(x, firing, insights),
             c = Fleet!ClusterOf(x.server), i = home[x.server], CoverOf(x, c, i)
      PROVE  CoverOf(x, c, i)'
  <2>1. Done(x, c, i)' = Done(x, c, i) /\ CardOk(x, c)' = CardOk(x, c)
    BY <1>3 DEF Done, CardOk, Fleet!Shown
  <2>2. Fleet!Shown(x, page.rows, i)' = Fleet!Shown(x, page.rows, i)
    BY <1>3 DEF Fleet!Shown
  <2>3. i = k => x.server \in ids
    BY <1>1, <1>6 DEF SeenIn, Fleet!InstanceServerIDs
  <2>4. i = k => Read(x)'
    BY <1>3, <2>3 DEF Read
  <2>5. CASE c = page.at
    <3>1. CardOk(x, c) /\ (i \in page.nodes \/ Fleet!Shown(x, page.rows, i))
      BY <1>2, <1>6, <2>5 DEF CoverOf, InNodes
    <3>2. \/ i \in page'.nodes
          \/ i # k /\ Fleet!Shown(x, page.rows, i)'
          \/ i = k /\ Read(x)'
      BY <1>3, <2>2, <2>4, <3>1
    <3> QED BY <1>2, <1>3, <1>4, <2>1, <2>5, <3>1, <3>2 DEF CoverOf, InCluster, InNodes
  <2>6. CASE c # page.at
    <3>1. /\ i # k /\ i \notin page.nodes
          /\ c \in page.left \/ Done(x, c, i)
      BY <1>1, <1>2, <1>6, <2>6 DEF CoverOf, InCluster, InNodes
    <3> QED BY <1>3, <1>4, <2>1, <2>6, <3>1 DEF CoverOf, InCluster, InNodes
  <2> QED BY <2>5, <2>6
<1>7. Cover'
  BY <1>2, <1>3, <1>4, <1>6, CoverStep
<1> QED BY <1>5, <1>7

\* The row of a node: all its checks were read.
LEMMA RollUpNodeInv ==
  ASSUME FleetInv, Fleet!RollUpNode
  PROVE  PageOk' /\ Cover'
<1>1. PICK k, value, rows :
        /\ k = page.node /\ value = Fleet!Health("nodes", page.found)
        /\ rows = Fleet!Put(page.rows, k, value)
  OBVIOUS
<1>2. /\ page' = [page EXCEPT !.rows = rows, !.pc = "node", !.node = 0, !.ids = {}, !.found = {}]
      /\ page.pc = "node checks" /\ page.unread = {} /\ page = [f \in Fields |-> page[f]]
      /\ UNCHANGED <<home, instances, lasting>>
  BY <1>1 DEF Fleet!RollUpNode, Fleet!Reading, Fleet!registry, FleetInv, PageOk
<1>3. /\ page' = [f \in Fields |-> page'[f]]
      /\ page'.pc = "node" /\ page'.left = page.left /\ page'.kind = page.kind
      /\ page'.at = page.at /\ page'.card = page.card /\ page'.rows = rows
      /\ page'.attention = page.attention /\ page'.shown = page.shown
      /\ page'.failed = page.failed /\ page'.nodes = page.nodes
  BY <1>2 DEF Fields
<1>4. page.shown = "nothing" /\ ~page.failed /\ page.kind = "nodes"
  BY <1>2 DEF FleetInv, PageOk
<1>5. PageOk'
  BY <1>3, <1>4 DEF PageOk, InNodes
<1>6. /\ DOMAIN rows = DOMAIN page.rows \cup {k} /\ rows[k] = value
      /\ \A j \in DOMAIN page.rows : j # k => rows[j] = page.rows[j]
  BY <1>1 DEF Fleet!Put
<1>7. ASSUME NEW x \in lasting, Fleet!Claims(x), NEW c, NEW i, SeenIn(x, firing, insights),
             i = home[x.server], CoverOf(x, c, i)
      PROVE  CoverOf(x, c, i)'
  <2>1. x.kind = "check" /\ Fleet!normSev(x.severity) > 1
    BY <1>4, <1>7 DEF Fleet!Claims
  <2>2. x \in page.found => value >= Fleet!normSev(x.severity)
    BY <1>1, <2>1, WorstShown
  <2>3. i = k /\ x \in page.found => Fleet!Shown(x, page.rows, i)'
    BY <1>3, <1>6, <2>2 DEF Fleet!Shown
  <2>4. i # k => Fleet!Shown(x, page.rows, i)' = Fleet!Shown(x, page.rows, i)
    BY <1>3, <1>6 DEF Fleet!Shown
  <2>5. CardOk(x, c)' = CardOk(x, c)
    BY <1>3 DEF CardOk, Fleet!Shown
  <2>6. CASE c = page.at
    <3>1. \/ i \in page.nodes
          \/ i # k /\ Fleet!Shown(x, page.rows, i)
          \/ i = k /\ x \in page.found
      BY <1>1, <1>2, <1>4, <1>7, <2>1, <2>6 DEF CoverOf, Read
    <3>2. i \in page'.nodes \/ Fleet!Shown(x, page.rows, i)'
      BY <1>3, <2>3, <2>4, <3>1
    <3>3. CardOk(x, c)
      BY <1>2, <1>7, <2>6 DEF CoverOf, InNodes
    <3> QED BY <1>3, <1>4, <2>5, <2>6, <3>2, <3>3 DEF CoverOf, InCluster, InNodes
  <2>7. CASE c # page.at
    <3>1. /\ i # k /\ i \notin page.nodes
          /\ c \in page.left \/ Done(x, c, i)
      BY <1>1, <1>2, <1>7, <2>7 DEF CoverOf, InCluster, InNodes
    <3>2. Done(x, c, i)' = Done(x, c, i)
      BY <1>3, <2>4, <2>5, <3>1 DEF Done
    <3> QED BY <1>3, <1>4, <2>7, <3>1, <3>2 DEF CoverOf, InCluster, InNodes
  <2> QED BY <2>6, <2>7
<1>8. Cover'
  BY <1>2, <1>3, <1>4, <1>7, CoverStep
<1> QED BY <1>5, <1>8

\* A stream of an instance with a name, or none.
LEMMA StreamsInv ==
  ASSUME FleetInv, Fleet!ListServerStreams
  PROVE  PageOk' /\ Cover'
<1>1. PICK k, named : /\ k \in page.nodes
                      /\ named <=> page.named \/ Fleet!InstanceServerIDs(k) \cap Named # {}
                      /\ page' = [page EXCEPT !.nodes = @ \ {k}, !.named = named]
  BY DEF Fleet!ListServerStreams
<1>2. /\ page.pc = "node" /\ page.kind = "databases" /\ page = [f \in Fields |-> page[f]]
      /\ UNCHANGED <<home, instances, lasting>>
  BY DEF Fleet!ListServerStreams, Fleet!Reading, Fleet!registry, FleetInv, PageOk
<1>3. /\ page' = [f \in Fields |-> page'[f]]
      /\ page'.pc = "node" /\ page'.left = page.left /\ page'.kind = page.kind
      /\ page'.at = page.at /\ page'.card = page.card /\ page'.rows = page.rows
      /\ page'.attention = page.attention /\ page'.shown = page.shown
      /\ page'.failed = page.failed /\ page'.nodes = page.nodes \ {k} /\ page'.named = named
  BY <1>1, <1>2 DEF Fields
<1>4. page.shown = "nothing" /\ ~page.failed
  BY <1>2 DEF FleetInv, PageOk
<1>5. PageOk'
  BY <1>2, <1>3, <1>4 DEF PageOk, InNodes
<1>6. ASSUME NEW x \in lasting, Fleet!Claims(x), NEW c, NEW i, SeenIn(x, firing, insights),
             i = home[x.server], CoverOf(x, c, i)
      PROVE  CoverOf(x, c, i)'
  <2>1. Done(x, c, i)' = Done(x, c, i) /\ CardOk(x, c)' = CardOk(x, c)
    BY <1>3 DEF Done, CardOk, Fleet!Shown
  <2>2. x.server \in Named
    BY <1>2, <1>6 DEF Fleet!Claims
  <2>3. i = k => named
    BY <1>1, <1>6, <2>2 DEF SeenIn, Fleet!InstanceServerIDs
  <2>4. page.named => named
    BY <1>1
  <2>5. c = page.at => i \in page'.nodes \/ named
    BY <1>2, <1>3, <1>6, <2>3, <2>4 DEF CoverOf
  <2> QED BY <1>2, <1>3, <1>4, <1>6, <2>1, <2>5 DEF CoverOf, InCluster, InNodes
<1>7. Cover'
  BY <1>2, <1>3, <1>4, <1>6, CoverStep
<1> QED BY <1>5, <1>7

\* The last node was read; of databases, a cluster may be left out.
LEMMA EndGroupInv ==
  ASSUME FleetInv, Fleet!EndGroup
  PROVE  PageOk' /\ Cover'
<1>1. PICK at1, listed, old, card :
        /\ at1 = page.at /\ old = page.card
        /\ listed <=> page.kind = "nodes" \/ page.named
        /\ card = [c \in IF listed THEN DOMAIN old ELSE DOMAIN old \ {at1} |-> old[c]]
  OBVIOUS
<1>2. /\ page' = [page EXCEPT !.pc = "cluster", !.named = FALSE, !.card = card]
      /\ page.pc = "node" /\ page.nodes = {} /\ page = [f \in Fields |-> page[f]]
      /\ UNCHANGED <<home, instances, lasting>>
  BY <1>1 DEF Fleet!EndGroup, Fleet!Reading, Fleet!registry, FleetInv, PageOk
<1>3. /\ page' = [f \in Fields |-> page'[f]]
      /\ page'.pc = "cluster" /\ page'.left = page.left /\ page'.kind = page.kind
      /\ page'.at = page.at /\ page'.card = card /\ page'.rows = page.rows
      /\ page'.attention = page.attention /\ page'.shown = page.shown
      /\ page'.failed = page.failed
  BY <1>2 DEF Fields
<1>4. page.shown = "nothing" /\ ~page.failed /\ page.kind \in {"nodes", "databases"}
  BY <1>2 DEF FleetInv, PageOk, InNodes
<1>5. PageOk'
  BY <1>3, <1>4 DEF PageOk, InNodes, Fleet!Lists
<1>6. ASSUME NEW c, c # at1 \/ listed
      PROVE  (c \in DOMAIN card <=> c \in DOMAIN old) /\ (c \in DOMAIN card => card[c] = old[c])
  BY <1>1, <1>6
<1>7. ASSUME NEW x \in lasting, NEW c, NEW i, CoverOf(x, c, i)
      PROVE  CoverOf(x, c, i)'
  <2>1. CASE c = at1
    <3>1. CardOk(x, c) /\ listed
      BY <1>1, <1>2, <1>4, <1>7, <2>1 DEF CoverOf, InNodes
    <3>2. CardOk(x, c)'
      BY <1>1, <1>3, <1>6, <3>1 DEF CardOk, Fleet!Shown
    <3>3. page.kind = "nodes" => Fleet!Shown(x, page.rows, i)
      BY <1>1, <1>2, <1>7, <2>1 DEF CoverOf
    <3>4. Fleet!Shown(x, page.rows, i)' = Fleet!Shown(x, page.rows, i)
      BY <1>3 DEF Fleet!Shown
    <3>5. Done(x, c, i)'
      BY <1>3, <1>4, <3>2, <3>3, <3>4 DEF Done
    <3> QED BY <1>3, <1>4, <3>5 DEF CoverOf, InCluster, InNodes
  <2>2. CASE c # at1
    <3>1. c \in page.left \/ Done(x, c, i)
      BY <1>1, <1>2, <1>7, <2>2 DEF CoverOf, InCluster, InNodes
    <3>2. Fleet!Shown(x, page.card, c)' = Fleet!Shown(x, page.card, c)
      BY <1>1, <1>3, <1>6, <2>2 DEF Fleet!Shown
    <3>3. Done(x, c, i)' = Done(x, c, i)
      BY <1>3, <3>2 DEF Done, CardOk, Fleet!Shown
    <3> QED BY <1>3, <1>4, <3>1, <3>3 DEF CoverOf, InCluster, InNodes
  <2> QED BY <2>1, <2>2
<1>8. Cover'
  BY <1>2, <1>3, <1>4, <1>7, CoverStep
<1> QED BY <1>5, <1>8


LEMMA ReadInsightsInv ==
  ASSUME FleetInv, Fleet!ReadInsights
  PROVE  PageOk' /\ Cover'
<1>1. PICK all, ids, top : /\ all = insights /\ ids = page.ids
                           /\ top = Fleet!TopInsightsForServers(all, ids)
  OBVIOUS
<1>2. /\ page.pc = "checks" /\ page.unread = {} /\ page.kind \notin Fleet!Lists
      /\ page' = [page EXCEPT !.pc = "judge", !.found = @ \cup top]
      /\ UNCHANGED <<home, instances, lasting>> /\ page = [f \in Fields |-> page[f]]
  BY <1>1 DEF Fleet!ReadInsights, Fleet!Reading, Fleet!registry, FleetInv, PageOk
<1>3. /\ page' = [f \in Fields |-> page'[f]]
      /\ page'.pc = "judge" /\ page'.left = page.left /\ page'.kind = page.kind
      /\ page'.at = page.at /\ page'.card = page.card /\ page'.rows = page.rows
      /\ page'.attention = page.attention /\ page'.shown = page.shown
      /\ page'.failed = page.failed /\ page'.found = page.found \cup top
  BY <1>2 DEF Fields
<1>4. /\ page.shown = "nothing" /\ ~page.failed /\ page.kind \in {"fleet", "overview"}
  BY <1>2 DEF FleetInv, PageOk
<1>5. PageOk'
  BY <1>3, <1>4 DEF PageOk, InNodes
<1>6. ASSUME NEW x \in lasting, NEW c, NEW i, SeenIn(x, firing, insights),
             c = Fleet!ClusterOf(x.server), CoverOf(x, c, i)
      PROVE  CoverOf(x, c, i)'
  <2>1. Done(x, c, i)' = Done(x, c, i)
    BY <1>3 DEF Done, CardOk, Fleet!Shown
  <2>2. c = page.at \/ c \in page.left \/ Done(x, c, i)
    BY <1>2, <1>6 DEF CoverOf, InCluster
  <2>3. CASE c = page.at
    <3>1. x.server \in ids /\ (x.kind = "check" => x \in page.found)
      BY <1>1, <1>2, <1>6, <2>3 DEF CoverOf, Read
    <3>2. ASSUME x.kind = "insight" PROVE x \in top
      <4>1. PICK some : some = Fleet!ServerIDs(c)
        OBVIOUS
      <4>2. x \in Fleet!TopInsightsForServers(all, some)
        BY <1>1, <1>6, <3>2, <4>1 DEF SeenIn
      <4>3. ids \subseteq some
        BY <1>1, <1>2, <1>6, <2>3, <3>2, <4>1 DEF CoverOf
      <4>4. all \in Seq(Found)
        BY <1>1 DEF FleetInv, Seen
      <4> QED BY <1>1, <3>1, <4>2, <4>3, <4>4, FewerAbove
    <3>3. x \in page'.found
      BY <1>3, <1>6, <3>1, <3>2 DEF SeenIn
    <3> QED BY <1>3, <1>4, <2>3, <3>3 DEF CoverOf, InCluster, InNodes
  <2>4. CASE c # page.at
    BY <1>3, <1>4, <2>1, <2>2, <2>4 DEF CoverOf, InCluster, InNodes
  <2> QED BY <2>3, <2>4
<1>7. Cover'
  BY <1>2, <1>3, <1>4, <1>6, CoverStep
<1> QED BY <1>5, <1>7

\* Checks and insights of the cluster were read.
LEMMA JudgeInv ==
  ASSUME FleetInv, Fleet!Judge
  PROVE  PageOk' /\ Cover'
<1>1. PICK at1, value, card, pc, shown :
        /\ at1 = page.at /\ value = Fleet!Health(page.kind, page.found)
        /\ card = Fleet!Put(page.card, at1, value)
        /\ pc = IF page.kind = "fleet" THEN "cluster" ELSE "idle"
        /\ shown = IF page.kind = "fleet" THEN page.shown ELSE "page"
  OBVIOUS
<1>2. /\ page.pc = "judge" /\ UNCHANGED <<home, instances, lasting>> /\ page = [f \in Fields |-> page[f]]
      /\ page' = [page EXCEPT !.card = card, !.attention = @ \cup page.found, !.ids = {}, !.found = {},
                              !.pc = pc, !.shown = shown]
  BY <1>1 DEF Fleet!Judge, Fleet!Reading, Fleet!registry, FleetInv, PageOk
<1>3. /\ page' = [f \in Fields |-> page'[f]]
      /\ page'.pc = pc /\ page'.left = page.left /\ page'.kind = page.kind
      /\ page'.at = page.at /\ page'.card = card /\ page'.rows = page.rows
      /\ page'.attention = page.attention \cup page.found /\ page'.shown = shown
      /\ page'.failed = page.failed
  BY <1>2 DEF Fields
<1>4. /\ ~page.failed
      /\ \/ page.kind = "fleet" /\ pc = "cluster" /\ shown = "nothing"
         \/ page.kind = "overview" /\ pc = "idle" /\ shown = "page"
  BY <1>1, <1>2 DEF FleetInv, PageOk
<1>5. PageOk'
  BY <1>3, <1>4 DEF PageOk, InNodes
<1>6. /\ DOMAIN card = DOMAIN page.card \cup {at1} /\ card[at1] = value
      /\ \A k \in DOMAIN page.card : k # at1 => card[k] = page.card[k]
  BY <1>1 DEF Fleet!Put
<1>7. ASSUME NEW x \in lasting, Fleet!Claims(x), NEW c, NEW i, SeenIn(x, firing, insights),
             c = Fleet!ClusterOf(x.server), CoverOf(x, c, i)
      PROVE  CoverOf(x, c, i)'
  <2>1. Done(x, c, i)' <=> /\ x \in page'.attention
                           /\ page.kind # "fleet" \/ Fleet!normSev(x.severity) > 1
                                => Fleet!Shown(x, card, c)
    BY <1>3, <1>4 DEF Done, CardOk
  <2>2. CASE c = at1
    <3>1. x \in page.found
      BY <1>1, <1>2, <1>7, <2>2 DEF CoverOf
    <3>2. page.kind # "fleet" \/ Fleet!normSev(x.severity) > 1 => value >= Fleet!normSev(x.severity)
      BY <1>1, <1>4, <3>1, WorstShown
    <3>3. Done(x, c, i)'
      BY <1>3, <1>6, <2>1, <2>2, <3>1, <3>2 DEF Fleet!Shown
    <3> QED BY <1>3, <1>4, <3>3 DEF CoverOf, InCluster, InNodes
  <2>3. CASE c # at1
    <3>1. page.kind = "fleet"
      BY <1>1, <1>4, <1>7, <2>3 DEF Fleet!Claims
    <3>2. c \in page.left \/ Done(x, c, i)
      BY <1>1, <1>2, <1>7, <2>3 DEF CoverOf, InCluster
    <3>3. Done(x, c, i) => Done(x, c, i)'
      BY <1>3, <1>6, <2>1, <2>3, <3>1 DEF Done, CardOk, Fleet!Shown
    <3> QED BY <1>3, <1>4, <3>1, <3>2, <3>3 DEF CoverOf, InCluster, InNodes
  <2> QED BY <2>2, <2>3
<1>8. Cover'
  BY <1>2, <1>3, <1>4, <1>7, CoverStep
<1> QED BY <1>5, <1>8

LEMMA RenderInv ==
  ASSUME FleetInv, Fleet!Render
  PROVE  PageOk' /\ Cover'
<1>1. /\ page.pc = "cluster" /\ page.left = {} /\ UNCHANGED <<home, instances, lasting>>
      /\ page' = [page EXCEPT !.pc = "idle", !.shown = "page"] /\ page = [f \in Fields |-> page[f]]
  BY DEF Fleet!Render, Fleet!Reading, Fleet!registry, FleetInv, PageOk
<1>2. /\ page' = [f \in Fields |-> page'[f]]
      /\ page'.pc = "idle" /\ page'.left = page.left /\ page'.kind = page.kind
      /\ page'.at = page.at /\ page'.card = page.card /\ page'.rows = page.rows
      /\ page'.attention = page.attention /\ page'.shown = "page" /\ page'.failed = page.failed
  BY <1>1 DEF Fields
<1>3. ~page.failed
  BY <1>1 DEF FleetInv, PageOk
<1>4. PageOk'
  BY <1>2 DEF PageOk, InNodes
<1>5. ASSUME NEW x \in lasting, NEW c, NEW i, CoverOf(x, c, i)
      PROVE  CoverOf(x, c, i)'
  <2>1. Done(x, c, i)' = Done(x, c, i)
    BY <1>2 DEF Done, CardOk, Fleet!Shown
  <2>2. Done(x, c, i)
    BY <1>1, <1>5 DEF CoverOf
  <2> QED BY <1>2, <2>1, <2>2 DEF CoverOf, InCluster, InNodes
<1>6. Cover'
  BY <1>1, <1>2, <1>3, <1>5, CoverStep
<1> QED BY <1>4, <1>6

\* A read that fails leaves an error, an empty list, or an overview that
\* nothing is asked of.
LEMMA ReadFailsInv ==
  ASSUME FleetInv, Fleet!ReadFails
  PROVE  PageOk' /\ Cover'
<1>1. PICK p : /\ p = IF page.kind = "fleet" THEN Fleet!FleetError(page)
                      ELSE IF page.kind = "overview" THEN Fleet!OverviewError(page)
                      ELSE Fleet!ListError(page)
               /\ page' = [p EXCEPT !.ids = {}, !.unread = {}, !.found = {}]
  BY DEF Fleet!ReadFails
<1>2. page = [f \in Fields |-> page[f]]
  BY DEF FleetInv, PageOk
<1>3. /\ p = [f \in Fields |-> p[f]] /\ p.pc = "idle" /\ p.kind = page.kind /\ p.failed = TRUE
      /\ p.shown = "page" => p.kind = "overview"
  <2>1. CASE page.kind = "fleet"
    <3>1. p = [page EXCEPT !.pc = "idle", !.shown = "error", !.failed = TRUE]
      BY <1>1, <2>1 DEF Fleet!FleetError
    <3> QED BY <1>2, <2>1, <3>1 DEF Fields
  <2>2. CASE page.kind = "overview"
    <3>1. PICK shown, card :
            p = [page EXCEPT !.pc = "idle", !.shown = shown, !.failed = TRUE, !.card = card]
      <4>1. CASE page.pc = "detail"
        <5>1. p = [page EXCEPT !.pc = "idle", !.shown = "not found", !.failed = TRUE]
          BY <1>1, <2>2, <4>1 DEF Fleet!OverviewError
        <5>2. p = [page EXCEPT !.pc = "idle", !.shown = "not found", !.failed = TRUE, !.card = page.card]
          BY <1>2, <5>1 DEF Fields
        <5> QED BY <5>2
      <4>2. CASE page.pc # "detail"
        BY <1>1, <2>2, <4>2 DEF Fleet!OverviewError
      <4> QED BY <4>1, <4>2
    <3> QED BY <1>2, <2>2, <3>1 DEF Fields
  <2>3. CASE page.kind \notin {"fleet", "overview"}
    <3>1. p = [page EXCEPT !.pc = "idle", !.shown = "empty", !.card = << >>, !.failed = TRUE]
      BY <1>1, <2>3 DEF Fleet!ListError
    <3> QED BY <1>2, <2>3, <3>1 DEF Fields
  <2> QED BY <2>1, <2>2, <2>3
<1>4. /\ page' = [f \in Fields |-> page'[f]]
      /\ page'.pc = "idle" /\ page'.kind = page.kind /\ page'.shown = p.shown /\ page'.failed = TRUE
  BY <1>1, <1>3 DEF Fields
<1>5. PageOk'
  BY <1>4 DEF PageOk, InNodes
<1>6. ASSUME NEW x, Fleet!Claims(x)' PROVE page'.shown # "page"
  BY <1>3, <1>4, <1>6 DEF Fleet!Claims
<1>7. Cover'
  BY <1>4, <1>6 DEF Cover, CoverOf, InCluster, InNodes
<1> QED BY <1>5, <1>7

LEMMA StepFleetInv == FleetInv /\ [Fleet!Next]_Fleet!vars => FleetInv'
<1> SUFFICES ASSUME FleetInv, [Fleet!Next]_Fleet!vars PROVE FleetInv'
  OBVIOUS
<1>1. CASE Fleet!ReadFails
  <2>1. UNCHANGED <<Fleet!registry, Fleet!findings, lasting>>
    BY <1>1 DEF Fleet!ReadFails
  <2> QED BY <1>1, <2>1, StillSeen, ReadFailsInv DEF FleetInv
<1>2. ASSUME NEW pc, Fleet!Reading(pc), PageOk' /\ Cover' PROVE FleetInv'
  <2>1. UNCHANGED <<Fleet!registry, Fleet!findings, lasting>>
    BY <1>2 DEF Fleet!Reading
  <2> QED BY <1>2, <2>1, StillSeen DEF FleetInv
<1>3. CASE Fleet!ListClusters \/ Fleet!NextCluster \/ Fleet!GetClusterDetail
  BY <1>2, <1>3, ListClustersInv, NextClusterInv, DetailInv
     DEF Fleet!ListClusters, Fleet!NextCluster, Fleet!GetClusterDetail
<1>4. CASE Fleet!ServerIDsForCluster \/ Fleet!ReadChecks \/ Fleet!RollUp
  BY <1>2, <1>4, ServersInv, ReadChecksInv, RollUpInv
     DEF Fleet!ServerIDsForCluster, Fleet!ReadChecks, Fleet!RollUp
<1>5. CASE Fleet!ListInstances \/ Fleet!ServerIDsForInstance \/ Fleet!RollUpNode
  BY <1>2, <1>5, ListInstancesInv, NodeInv, RollUpNodeInv
     DEF Fleet!ListInstances, Fleet!ServerIDsForInstance, Fleet!RollUpNode
<1>6. CASE Fleet!ListServerStreams \/ Fleet!EndGroup
  BY <1>2, <1>6, StreamsInv, EndGroupInv DEF Fleet!ListServerStreams, Fleet!EndGroup
<1>7. CASE Fleet!ReadInsights \/ Fleet!Judge \/ Fleet!Render
  BY <1>2, <1>7, ReadInsightsInv, JudgeInv, RenderInv
     DEF Fleet!ReadInsights, Fleet!Judge, Fleet!Render
<1>8. CASE UNCHANGED Fleet!vars
  <2>1. /\ UNCHANGED <<Fleet!registry, Fleet!findings, page, lasting>>
        /\ UNCHANGED <<home, instances>>
    BY <1>8 DEF Fleet!vars, Fleet!registry
  <2>2. \A s : Fleet!ClusterOf(s)' = Fleet!ClusterOf(s)
    BY <2>1 DEF Fleet!ClusterOf
  <2>3. PageOk' /\ Cover'
    BY <2>1, <2>2, PageStays DEF Fleet!ServerIDs
  <2> QED BY <2>1, <2>3, StillSeen DEF FleetInv
<1> QED BY <1>1, <1>3, <1>4, <1>5, <1>6, <1>7, <1>8, FindingsFleetInv, RegistryFleetInv, OpenFleetInv
    DEF Fleet!Next

\* What could be seen of a server all the while a page was put together, the page
\* shows: among its items, in the health of its card or line and in that of its
\* node's row, as that or as something worse.  So for any number of clusters, of
\* instances in them and of servers on those; whatever checks fire and clear,
\* whatever insights arrive, whoever links servers meanwhile, and whichever reads
\* fail.
THEOREM PagesHonest == Fleet!Spec => []NeverRosier
<1>1. FleetInv => NeverRosier
  <2> SUFFICES ASSUME FleetInv, page.shown = "page", NEW x \in lasting, Fleet!Claims(x)
               PROVE  Done(x, Fleet!ClusterOf(x.server), home[x.server])
    BY DEF NeverRosier, Fleet!NeverRosier, Done, CardOk
  <2> QED BY DEF FleetInv, Cover, CoverOf
<1> QED BY <1>1, InitFleetInv, StepFleetInv, PTL DEF Fleet!Spec
=============================================================================
