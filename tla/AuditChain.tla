----------------------------- MODULE AuditChain -----------------------------
(***************************************************************************)
(* Concurrent appenders of the audit log: AppendAuditReturning,            *)
(* appendAuditTx and the transactions of ApplyCapabilityPoliciesBatch and  *)
(* DeleteCapabilityPolicy that call it (internal/store/config.go,          *)
(* capability_policy.go).  A client is a goroutine of some API replica     *)
(* that runs one such transaction at a time; PostgreSQL keeps the table,   *)
(* the id sequence and the advisory lock.  A step of a client is one SQL   *)
(* statement.  Transactions run at READ COMMITTED (pgx.TxOptions{}), so    *)
(* each statement sees the rows committed before it started.               *)
(*                                                                         *)
(* Any statement may fail, and so may the client: a constraint, a lost     *)
(* connection, a cancelled request context.  The deferred Rollback, or the *)
(* server when the connection is gone, then undoes the transaction and     *)
(* releases its lock - but nextval is not transactional and its id is not  *)
(* given back.                                                             *)
(***************************************************************************)
EXTENDS AuditRow, FiniteSets

CONSTANTS Clients,   \* goroutines that append, over all API replicas
          NoClient,  \* the lock's holder when nobody holds it
          MaxId      \* bound: ids handed out, or still to be, never pass it

ASSUME ClientsAssumption == NoClient \notin Clients /\ IsFiniteSet(Clients)
ASSUME MaxIdAssumption == MaxId \in Nat

VARIABLES
  rows,    \* committed rows of audit_log, in the order of their commits
  seq,     \* last value of the sequence behind audit_log.id
  lock,    \* holder of pg_advisory_xact_lock(auditLockKey)
  pc,      \* pc[c]: the last statement of c's transaction that succeeded
  entry,   \* entry[c]: the AuditEntry c appends
  prev,    \* prev[c]: the tail hash c has read
  nextID,  \* nextID[c]: the id c has drawn
  at,      \* at[c]: the timestamp c has taken
  acked    \* <<id, entry>> of the records returned to callers without error

vars == <<rows, seq, lock, pc, entry, prev, nextID, at, acked>>

\* A transaction's progress; "committed" is a caller about to be answered.
Stages  == {"idle", "begun", "locked", "tail", "numbered", "inserted", "committed"}
Holding == {"locked", "tail", "numbered", "inserted"}

\* Transactions that may still draw an id.
Undrawn == {c \in Clients : pc[c] \in {"begun", "locked", "tail"}}

Release(c) == lock' = IF lock = c THEN NoClient ELSE lock

-----------------------------------------------------------------------------
(* Variants of the definitions below, each with a mistake the code could   *)
(* have made; substituted for the original, a property must fail.          *)

\* ORDER BY at instead of ORDER BY id.
TailHashByTime(t) ==
  IF t = << >> THEN Genesis
  ELSE t[CHOOSE i \in 1..Len(t) : \A j \in 1..Len(t) : t[j].at <= t[i].at].hash

\* A shared advisory lock.
LockShared(c) ==
  /\ pc[c] = "begun"
  /\ lock' = c
  /\ pc' = [pc EXCEPT ![c] = "locked"]
  /\ UNCHANGED <<rows, seq, entry, prev, nextID, at, acked>>

\* The timestamp comes from a clock that has not been set.
DrawIdNoClock(c) ==
  /\ pc[c] = "tail"
  /\ seq' = seq + 1
  /\ nextID' = [nextID EXCEPT ![c] = seq + 1]
  /\ at' = [at EXCEPT ![c] = 0]
  /\ pc' = [pc EXCEPT ![c] = "numbered"]
  /\ UNCHANGED <<rows, lock, entry, prev, acked>>

\* The insert is sent again when the answer to COMMIT is lost.
CommitRetried(c) ==
  /\ pc[c] = "inserted"
  /\ rows' = Append(rows, NewRow(nextID[c], prev[c], entry[c], at[c]))
  /\ Release(c)
  /\ \E heard \in {"committed", "inserted"} : pc' = [pc EXCEPT ![c] = heard]
  /\ UNCHANGED <<seq, entry, prev, nextID, at, acked>>

\* A session lock (pg_advisory_lock): the pooled connection keeps it.
RollbackKeepsLock(c) ==
  /\ pc[c] \in {"begun", "locked", "tail", "numbered", "inserted"}
  /\ pc' = [pc EXCEPT ![c] = "idle"]
  /\ UNCHANGED <<rows, seq, lock, entry, prev, nextID, at, acked>>

\* The error of the insert or the commit is dropped.
RollbackUnnoticed(c) ==
  /\ pc[c] \in {"begun", "locked", "tail", "numbered", "inserted"}
  /\ Release(c)
  /\ pc' = [pc EXCEPT ![c] = IF @ = "inserted" THEN "committed" ELSE "idle"]
  /\ UNCHANGED <<rows, seq, entry, prev, nextID, at, acked>>

-----------------------------------------------------------------------------
TailHash(t) == IF t = << >> THEN Genesis ELSE t[Len(t)].hash

Init ==
  /\ rows = << >>
  /\ seq = 0
  /\ lock = NoClient
  /\ pc = [c \in Clients |-> "idle"]
  /\ entry \in [Clients -> Entries]
  /\ prev = [c \in Clients |-> Genesis]
  /\ nextID = [c \in Clients |-> 0]
  /\ at \in [Clients -> Times]
  /\ acked = {}

\* pool.BeginTx
Begin(c) ==
  /\ pc[c] = "idle"
  /\ seq + Cardinality(Undrawn) < MaxId
  /\ pc' = [pc EXCEPT ![c] = "begun"]
  /\ \E e \in Entries : entry' = [entry EXCEPT ![c] = e]
  /\ UNCHANGED <<rows, seq, lock, prev, nextID, at, acked>>

\* SELECT pg_advisory_xact_lock(auditLockKey): waits until the lock is free.
Lock(c) ==
  /\ pc[c] = "begun"
  /\ lock = NoClient
  /\ lock' = c
  /\ pc' = [pc EXCEPT ![c] = "locked"]
  /\ UNCHANGED <<rows, seq, entry, prev, nextID, at, acked>>

\* SELECT row_hash FROM audit_log ORDER BY id DESC LIMIT 1
ReadTail(c) ==
  /\ pc[c] = "locked"
  /\ prev' = [prev EXCEPT ![c] = TailHash(rows)]
  /\ pc' = [pc EXCEPT ![c] = "tail"]
  /\ UNCHANGED <<rows, seq, lock, entry, nextID, at, acked>>

\* SELECT nextval(...), then time.Now() of the replica c runs on: nothing
\* ties one replica's clock to another's.
DrawId(c) ==
  /\ pc[c] = "tail"
  /\ seq' = seq + 1
  /\ nextID' = [nextID EXCEPT ![c] = seq + 1]
  /\ \E t \in Times : at' = [at EXCEPT ![c] = t]
  /\ pc' = [pc EXCEPT ![c] = "numbered"]
  /\ UNCHANGED <<rows, lock, entry, prev, acked>>

\* INSERT INTO audit_log; the row is c's alone until it commits.  The
\* statements a batch or a delete runs after it do not touch audit_log.
Insert(c) ==
  /\ pc[c] = "numbered"
  /\ pc' = [pc EXCEPT ![c] = "inserted"]
  /\ UNCHANGED <<rows, seq, lock, entry, prev, nextID, at, acked>>

\* COMMIT: the row becomes visible and the lock is released.  The client
\* learns it, or the answer is lost and tx.Commit returns an error.
Commit(c) ==
  /\ pc[c] = "inserted"
  /\ rows' = Append(rows, NewRow(nextID[c], prev[c], entry[c], at[c]))
  /\ Release(c)
  /\ \E heard \in {"committed", "idle"} : pc' = [pc EXCEPT ![c] = heard]
  /\ UNCHANGED <<seq, entry, prev, nextID, at, acked>>

\* Return rec, nil to the caller.
Return(c) ==
  /\ pc[c] = "committed"
  /\ pc' = [pc EXCEPT ![c] = "idle"]
  /\ acked' = acked \cup {<<nextID[c], entry[c]>>}
  /\ UNCHANGED <<rows, seq, lock, entry, prev, nextID, at>>

\* A statement fails or the client is gone: ROLLBACK, and an error.
Rollback(c) ==
  /\ pc[c] \in {"begun", "locked", "tail", "numbered", "inserted"}
  /\ Release(c)
  /\ pc' = [pc EXCEPT ![c] = "idle"]
  /\ UNCHANGED <<rows, seq, entry, prev, nextID, at, acked>>

Statement(c) ==
  Lock(c) \/ ReadTail(c) \/ DrawId(c) \/ Insert(c) \/ Commit(c) \/ Return(c)

Step(c) == Statement(c) \/ Rollback(c)

Next == \E c \in Clients : Begin(c) \/ Step(c)

Spec == Init /\ [][Next]_vars

\* A transaction that can run its next statement does, and PostgreSQL grants
\* a contended advisory lock in the order of the requests, so that a client
\* that keeps asking is served (strong fairness of Lock).  Nothing makes a
\* statement fail: a client that waits is not rescued by its own Rollback.
Fairness ==
  \A c \in Clients : WF_vars(Statement(c)) /\ SF_vars(Lock(c))

FairSpec == Spec /\ Fairness

-----------------------------------------------------------------------------
(* Properties.                                                             *)

\* Type invariant of the appenders' state and the audit_log table.
TypeOK ==
  /\ rows \in Seq(Row)
  /\ seq \in Nat
  /\ lock \in Clients \cup {NoClient}
  /\ pc \in [Clients -> Stages]
  /\ entry \in [Clients -> Entries]
  /\ prev \in [Clients -> Digest]
  /\ nextID \in [Clients -> Nat]
  /\ at \in [Clients -> Times]
  /\ acked \subseteq Nat \X Entries

\* The advisory lock serialises appenders: whoever is between reading the
\* tail and committing holds it, so no two transactions are there at once.
OneAppender == \A c \in Clients : pc[c] \in Holding <=> lock = c

\* Every committed row carries the hash of the row committed before it, and
\* a hash of its own fields: no two appenders ever chain to the same tail.
ChainLinked ==
  \A i \in 1..Len(rows) :
    /\ rows[i].prev = IF i = 1 THEN Genesis ELSE rows[i-1].hash
    /\ ~HashMismatch(rows, i)

\* Ids grow in commit order, so ORDER BY id is the order of the chain, the
\* tail query returns the last committed row, and no id is used twice.
IdsIncrease ==
  \A i, j \in 1..Len(rows) : i < j => rows[i].id < rows[j].id

\* From reading the tail to committing, nothing else commits and nothing
\* else draws an id: the tail read is still the tail when the row built on
\* it lands, and its id is above every id in the table.
TailStable ==
  /\ \A i \in 1..Len(rows) : rows[i].id <= seq
  /\ \A c \in Clients :
       /\ pc[c] \in {"tail", "numbered", "inserted"} => prev[c] = TailHash(rows)
       /\ pc[c] \in {"numbered", "inserted"} =>
            nextID[c] = seq /\ \A i \in 1..Len(rows) : rows[i].id < seq

Contiguous(t) == \A k \in 2..Len(t) : t[k].id = t[k-1].id + 1

\* What a whole-table VerifyChain can complain about in a table only these
\* appenders wrote: an id that a rolled-back transaction burned, nothing
\* else.  The place it names is the first row after a missing id.
VerifyExact ==
  /\ VerifyChain(rows) = -1 <=> Contiguous(rows)
  /\ VerifyChain(rows) # -1 =>
       LET k == VerifyChain(rows) + 1
       IN  IdGap(rows, k) /\ Contiguous(SubSeq(rows, 1, k-1))

\* A bounded VerifyChain reports an untouched table only because an id is
\* missing or because the replicas' clocks disagree: with contiguous ids
\* and timestamps that never decrease, every window verifies.
WindowVerifies ==
  (/\ Contiguous(rows)
   /\ \A k \in 2..Len(rows) : rows[k-1].at <= rows[k].at) =>
     \A since, until \in Times : VerifyChain(Window(rows, since, until)) = -1

\* Tables that differ from t in row i: a field changed under its hash, or
\* changed with the hash computed anew.
Altered(t, i) ==
  (UNION {{[t EXCEPT ![i].entry = e],
           [t EXCEPT ![i] = NewRow(t[i].id, t[i].prev, e, t[i].at)]}
            : e \in Entries \ {t[i].entry}})
    \cup {[t EXCEPT ![i].at = a] : a \in Times \ {t[i].at}}

Without(t, i) == SubSeq(t, 1, i-1) \o SubSeq(t, i+1, Len(t))

\* A table that storage lost or changed is reported, at that row or the next
\* one: any changed field, and any row missing between two others.  (A last
\* row that is missing, or changed together with its hash, leaves a shorter
\* or another valid chain: a walk cannot see that.)
ChangeReported ==
  \A i \in 1..Len(rows) :
    /\ \A t \in Altered(rows, i) :
         HashMismatch(t, i) \/ i < Len(rows) =>
           VerifyChain(t) # -1 /\ VerifyChain(t) <= i
    /\ 1 < i /\ i < Len(rows) => VerifyChain(Without(rows, i)) # -1

\* Tampering is shown, and nothing else is, however the table is cut.
TamperShown == WindowVerifies /\ ChangeReported

\* A caller told that its entry was appended finds it in the log, once and
\* under the id it was given, however many appends failed around it.
AckedRecorded ==
  \A a \in acked :
    \E i \in 1..Len(rows) :
      /\ rows[i].id = a[1] /\ rows[i].entry = a[2]
      /\ \A j \in 1..Len(rows) \ {i} : rows[j].id # a[1]

\* Every transaction ends: a holder that fails releases the lock, so nobody
\* waits for ever behind it.
AppendEnds == \A c \in Clients : pc[c] = "begun" ~> pc[c] = "idle"

\* The appenders implement the abstract log of AuditLog.
AbsLog == [i \in 1..Len(rows) |-> rows[i].entry]

AbsPhase ==
  [c \in Clients |-> IF pc[c] = "idle" THEN "idle"
                     ELSE IF pc[c] = "committed" THEN "recorded" ELSE "submitted"]

Abstract == INSTANCE AuditLog WITH log <- AbsLog, phase <- AbsPhase

\* Each entry joins the log at most once, only while its caller waits, and
\* before its caller is answered.
ImplementsAuditLog == Abstract!Spec

\* internal/store/config.go:280 says of VerifyChain that it "returns (-1,
\* "", nil) when the chain is intact", and internal/api/audit.go:36-37
\* counts on ids being "contiguous from 1".  A transaction that fails after
\* nextval refutes both: the next row that commits is called a gap.
IntactChainVerifies == VerifyChain(rows) = -1
=============================================================================
