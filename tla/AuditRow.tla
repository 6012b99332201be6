------------------------------ MODULE AuditRow ------------------------------
(***************************************************************************)
(* Rows of the audit_log table, their hash, and the verifier that walks    *)
(* them: internal/store/audit_hash.go and VerifyChain in                   *)
(* internal/store/config.go.                                               *)
(*                                                                         *)
(* SHA-256 is taken to be free of collisions.  hashAuditRow hashes a       *)
(* layout in which every field has a fixed width or a length prefix, and   *)
(* the layout starts with the previous row's hash, so a digest stands for  *)
(* exactly one sequence of rows.  A digest is therefore modelled by that   *)
(* sequence: the genesis value is the empty one and hashing a row appends  *)
(* the row's fields to the digest it is chained to.                        *)
(***************************************************************************)
EXTENDS Integers, Sequences

CONSTANTS Entries,   \* what a caller asks to record (actor, action, detail)
          Times      \* values of the "at" column, naturals

ASSUME TimesAssumption == Times \subseteq Nat

Payload == [id : Nat, entry : Entries, at : Times]
Digest  == Seq(Payload)
Row     == [id : Nat, entry : Entries, at : Times, prev : Digest, hash : Digest]

Genesis == << >>

hashAuditRow(id, prev, entry, at) ==
  Append(prev, [id |-> id, entry |-> entry, at |-> at])

\* The row appendAuditTx inserts once it knows id, prev and at.
NewRow(id, prev, entry, at) ==
  [id |-> id, entry |-> entry, at |-> at, prev |-> prev,
   hash |-> hashAuditRow(id, prev, entry, at)]

-----------------------------------------------------------------------------
(* The three tests VerifyChain makes on the k-th row of a walk t.  The     *)
(* walk stops at the first row that fails one, so every earlier row has    *)
(* passed and expectedPrev is the hash of row k-1.                         *)
IdRepeats(t, k) == k > 1 /\ t[k].id <= t[k-1].id   \* a mistake to notice

IdGap(t, k) == k > 1 /\ t[k].id # t[k-1].id + 1

\* A mistake to notice: every walk is expected to start at genesis.
PrevMismatchFromGenesis(t, k) ==
  IF k = 1 THEN t[1].prev # Genesis ELSE t[k].prev # t[k-1].hash

PrevMismatch(t, k) ==
  IF k = 1 THEN t[1].id = 1 /\ t[1].prev # Genesis
           ELSE t[k].prev # t[k-1].hash

\* A mistake to notice: the timestamp is not compared.
HashMismatchNoTime(t, k) ==
  \A a \in Times : t[k].hash # hashAuditRow(t[k].id, t[k].prev, t[k].entry, a)

HashMismatch(t, k) ==
  t[k].hash # hashAuditRow(t[k].id, t[k].prev, t[k].entry, t[k].at)

Inconsistent(t, k) == IdGap(t, k) \/ PrevMismatch(t, k) \/ HashMismatch(t, k)

\* The ordinal VerifyChain returns: -1, or the 0-based place of the first
\* inconsistent row.
VerifyChain(t) ==
  IF \A k \in 1..Len(t) : ~Inconsistent(t, k)
    THEN -1
    ELSE (CHOOSE k \in 1..Len(t) :
            Inconsistent(t, k) /\ \A j \in 1..(k-1) : ~Inconsistent(t, j)) - 1

\* The rows a bounded call reads: at >= since AND at <= until, by id.
Window(t, since, until) ==
  LET UpTo[k \in 0..Len(t)] ==
        IF k = 0 THEN << >>
        ELSE IF since <= t[k].at /\ t[k].at <= until THEN Append(UpTo[k - 1], t[k])
        ELSE UpTo[k - 1]
  IN UpTo[Len(t)]
=============================================================================
