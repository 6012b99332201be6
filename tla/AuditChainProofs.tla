-------------------------- MODULE AuditChainProofs --------------------------
(***************************************************************************)
(* Proofs about AuditChain, for any clients, entries, timestamps and bound *)
(* on ids.  The inductive invariant IInv says that the advisory lock picks *)
(* one appender (OneAppender), that what this appender has read is still   *)
(* so (TailStable) and that the table is a chain (ChainLinked,             *)
(* IdsIncrease).  None of the last three is inductive alone: a commit      *)
(* keeps the chain because the tail was stable, the tail is stable because *)
(* only one client can commit.                                             *)
(*                                                                         *)
(* And about what shows tampering: the verifier on every window of the     *)
(* table and on every table with an altered or removed row, and the page   *)
(* (PageInv): a table that was harmed and in which no link is broken still *)
(* has only rows that were written (Seen), and what the page says of them  *)
(* is of the table that it read last (Shown).                              *)
(***************************************************************************)
EXTENDS MCAuditChain, FiniteSetTheorems, SequenceTheorems, WellFoundedInduction, TLAPS

\* Answered entries are rows, and so is the entry about to be answered.
Answerable ==
  /\ \A a \in acked : \E i \in 1..Len(rows) : rows[i].id = a[1] /\ rows[i].entry = a[2]
  /\ \A c \in Clients : pc[c] = "committed" =>
       \E i \in 1..Len(rows) : rows[i].id = nextID[c] /\ rows[i].entry = entry[c]

\* Ids start at one, so that a row with the first id is the first row.
FromOne ==
  /\ \A i \in 1..Len(rows) : rows[i].id >= 1
  /\ \A c \in Clients : pc[c] \in {"numbered", "inserted"} => nextID[c] >= 1

IInv ==
  /\ TypeOK /\ OneAppender /\ TailStable
  /\ ChainLinked /\ IdsIncrease /\ FromOne /\ Answerable

-----------------------------------------------------------------------------
(* Facts about rows and digests.                                           *)

LEMMA DigestType ==
  ASSUME NEW id \in Nat, NEW p \in Digest, NEW e \in Entries, NEW a \in Times
  PROVE  hashAuditRow(id, p, e, a) \in Digest
BY DEF hashAuditRow, Digest, Payload

LEMMA NewRowType ==
  ASSUME NEW id \in Nat, NEW p \in Digest, NEW e \in Entries, NEW a \in Times
  PROVE  NewRow(id, p, e, a) \in Row
BY DigestType DEF NewRow, Row

LEMMA TailHashType ==
  ASSUME NEW t \in Seq(Row)
  PROVE  TailHash(t) \in Digest
<1>1. CASE t = << >>
  BY <1>1 DEF TailHash, Genesis, Digest
<1>2. CASE t # << >>
  <2>1. Len(t) \in 1..Len(t)
    BY <1>2
  <2>2. t[Len(t)] \in Row
    BY <2>1
  <2> QED BY <1>2, <2>2 DEF TailHash, Row
<1> QED BY <1>1, <1>2

LEMMA RowType ==
  ASSUME TypeOK, NEW i \in 1..Len(rows)
  PROVE  rows[i] \in Row /\ rows[i].id \in Nat
<1>1. rows[i] \in Row
  BY DEF TypeOK
<1> QED BY <1>1 DEF Row

-----------------------------------------------------------------------------
LEMMA InitIInv == Init => IInv
<1> SUFFICES ASSUME Init PROVE IInv
  OBVIOUS
<1>1. TypeOK
  BY DEF Init, TypeOK, Stages, Digest, Genesis
<1>2. OneAppender
  BY ClientsAssumption DEF Init, OneAppender, Holding
<1>3. TailStable /\ ChainLinked /\ IdsIncrease /\ FromOne /\ Answerable
  BY DEF Init, TailStable, ChainLinked, IdsIncrease, FromOne, Answerable
<1> QED BY <1>1, <1>2, <1>3 DEF IInv

\* Each step keeps the types.
LEMMA StepTypeOK ==
  ASSUME TypeOK, [Next]_vars
  PROVE  TypeOK'
<1> USE DEF TypeOK
<1>1. CASE UNCHANGED vars
  BY <1>1 DEF vars
<1>2. ASSUME NEW c \in Clients, Begin(c) PROVE TypeOK'
  BY <1>2 DEF Begin, Stages
<1>3. ASSUME NEW c \in Clients, Lock(c) PROVE TypeOK'
  BY <1>3 DEF Lock, Stages
<1>4. ASSUME NEW c \in Clients, ReadTail(c) PROVE TypeOK'
  BY <1>4, TailHashType DEF ReadTail, Stages
<1>5. ASSUME NEW c \in Clients, DrawId(c) PROVE TypeOK'
  BY <1>5 DEF DrawId, Stages
<1>6. ASSUME NEW c \in Clients, Insert(c) PROVE TypeOK'
  BY <1>6 DEF Insert, Stages
<1>7. ASSUME NEW c \in Clients, Commit(c) PROVE TypeOK'
  <2>1. NewRow(nextID[c], prev[c], entry[c], at[c]) \in Row
    BY NewRowType
  <2>2. rows' \in Seq(Row)
    BY <1>7, <2>1 DEF Commit
  <2>3. pc' \in [Clients -> Stages] /\ lock' \in Clients \cup {NoClient}
    BY <1>7 DEF Commit, Release, Stages
  <2> QED BY <1>7, <2>2, <2>3 DEF Commit
<1>8. ASSUME NEW c \in Clients, Return(c) PROVE TypeOK'
  BY <1>8 DEF Return, Stages
<1>9. ASSUME NEW c \in Clients, Rollback(c) PROVE TypeOK'
  BY <1>9 DEF Rollback, Release, Stages
<1> QED
  BY <1>1, <1>2, <1>3, <1>4, <1>5, <1>6, <1>7, <1>8, <1>9 DEF Next, Step, Statement

\* Type correctness of every reachable state.
THEOREM TypeCorrect == Spec => []TypeOK
<1>1. Init => TypeOK
  BY InitIInv DEF IInv
<1>2. TypeOK /\ [Next]_vars => TypeOK'
  BY StepTypeOK
<1> QED BY <1>1, <1>2, PTL DEF Spec

-----------------------------------------------------------------------------
\* The lock's holder is exactly the client between lock and commit.
LEMMA StepOneAppender ==
  ASSUME TypeOK, OneAppender, [Next]_vars
  PROVE  OneAppender'
<1> USE ClientsAssumption DEF OneAppender, TypeOK, Holding, Stages
<1>1. CASE UNCHANGED vars
  BY <1>1 DEF vars
<1>2. ASSUME NEW c \in Clients, Begin(c) PROVE OneAppender'
  BY <1>2 DEF Begin
<1>3. ASSUME NEW c \in Clients, Lock(c) PROVE OneAppender'
  BY <1>3 DEF Lock
<1>4. ASSUME NEW c \in Clients, ReadTail(c) PROVE OneAppender'
  BY <1>4 DEF ReadTail
<1>5. ASSUME NEW c \in Clients, DrawId(c) PROVE OneAppender'
  BY <1>5 DEF DrawId
<1>6. ASSUME NEW c \in Clients, Insert(c) PROVE OneAppender'
  BY <1>6 DEF Insert
<1>7. ASSUME NEW c \in Clients, Commit(c) PROVE OneAppender'
  BY <1>7 DEF Commit, Release
<1>8. ASSUME NEW c \in Clients, Return(c) PROVE OneAppender'
  BY <1>8 DEF Return
<1>9. ASSUME NEW c \in Clients, Rollback(c) PROVE OneAppender'
  BY <1>9 DEF Rollback, Release
<1> QED
  BY <1>1, <1>2, <1>3, <1>4, <1>5, <1>6, <1>7, <1>8, <1>9 DEF Next, Step, Statement

\* Only the holder reads, draws or commits, so the others' reads do not age.
LEMMA StepTailStable ==
  ASSUME TypeOK, OneAppender, TailStable, [Next]_vars
  PROVE  TailStable'
<1> USE DEF TailStable, TypeOK
<1>1. CASE UNCHANGED vars
  BY <1>1 DEF vars
<1>2. ASSUME NEW c \in Clients, Begin(c) PROVE TailStable'
  BY <1>2 DEF Begin
<1>3. ASSUME NEW c \in Clients, Lock(c) PROVE TailStable'
  BY <1>3 DEF Lock
<1>4. ASSUME NEW c \in Clients, ReadTail(c) PROVE TailStable'
  BY <1>4 DEF ReadTail
<1>5. ASSUME NEW c \in Clients, DrawId(c) PROVE TailStable'
  <2>1. \A d \in Clients : d # c => pc[d] \notin Holding
    BY <1>5 DEF DrawId, OneAppender, Holding
  <2>2. \A i \in 1..Len(rows) : rows[i].id \in Nat
    BY RowType
  <2> QED BY <1>5, <2>1, <2>2 DEF DrawId, Holding
<1>6. ASSUME NEW c \in Clients, Insert(c) PROVE TailStable'
  BY <1>6 DEF Insert
<1>7. ASSUME NEW c \in Clients, Commit(c) PROVE TailStable'
  <2>1. \A d \in Clients : d # c => pc'[d] \notin Holding
    BY <1>7 DEF Commit, OneAppender, Holding
  <2>2. pc'[c] \notin Holding
    BY <1>7 DEF Commit, Holding
  <2> DEFINE r == NewRow(nextID[c], prev[c], entry[c], at[c])
  <2>3. rows' = Append(rows, r) /\ r \in Row /\ r.id = nextID[c]
    BY <1>7, NewRowType DEF Commit, NewRow
  <2>4. \A i \in 1..Len(rows') : rows'[i].id <= seq
    <3>1. nextID[c] = seq
      BY <1>7 DEF Commit
    <3> HIDE DEF r
    <3> QED BY <2>3, <3>1
  <2> QED BY <1>7, <2>1, <2>2, <2>4 DEF Commit, Holding
<1>8. ASSUME NEW c \in Clients, Return(c) PROVE TailStable'
  BY <1>8 DEF Return
<1>9. ASSUME NEW c \in Clients, Rollback(c) PROVE TailStable'
  BY <1>9 DEF Rollback
<1> QED
  BY <1>1, <1>2, <1>3, <1>4, <1>5, <1>6, <1>7, <1>8, <1>9 DEF Next, Step, Statement

\* Only Commit touches the table.
LEMMA RowsChange ==
  ASSUME TypeOK, [Next]_vars
  PROVE  \/ rows' = rows
         \/ \E c \in Clients : Commit(c)
BY DEF Next, vars, Step, Statement, Begin, Lock, ReadTail, DrawId, Insert, Return, Rollback

\* A commit appends one row, built on the tail and numbered above it.
LEMMA CommitAppends ==
  ASSUME TypeOK, TailStable, NEW c \in Clients, Commit(c)
  PROVE  LET r == NewRow(nextID[c], prev[c], entry[c], at[c])
         IN  /\ r \in Row
             /\ rows' \in Seq(Row) /\ Len(rows') = Len(rows) + 1
             /\ \A i \in 1..Len(rows) : rows'[i] = rows[i]
             /\ rows'[Len(rows) + 1] = r
             /\ r.prev = TailHash(rows)
             /\ r.hash = hashAuditRow(r.id, r.prev, r.entry, r.at)
             /\ r.id = nextID[c] /\ r.entry = entry[c]
             /\ \A i \in 1..Len(rows) : rows[i].id < r.id
<1> DEFINE r == NewRow(nextID[c], prev[c], entry[c], at[c])
<1>1. r \in Row
  BY NewRowType DEF TypeOK
<1>2. rows' = Append(rows, r) /\ rows \in Seq(Row)
  BY DEF Commit, TypeOK
<1>3. /\ r.prev = TailHash(rows)
      /\ r.hash = hashAuditRow(r.id, r.prev, r.entry, r.at)
      /\ r.id = nextID[c] /\ r.entry = entry[c]
  BY DEF NewRow, Commit, TailStable
<1>4. \A i \in 1..Len(rows) : rows[i].id < r.id
  BY <1>3 DEF Commit, TailStable
<1> HIDE DEF r
<1>5. /\ rows' \in Seq(Row) /\ Len(rows') = Len(rows) + 1
      /\ \A i \in 1..Len(rows) : rows'[i] = rows[i]
      /\ rows'[Len(rows) + 1] = r
  BY <1>1, <1>2
<1> QED BY <1>1, <1>3, <1>4, <1>5 DEF r

LEMMA StepChainLinked ==
  ASSUME TypeOK, TailStable, ChainLinked, [Next]_vars
  PROVE  ChainLinked'
<1>1. CASE rows' = rows
  BY <1>1 DEF ChainLinked, HashMismatch
<1>2. ASSUME NEW c \in Clients, Commit(c) PROVE ChainLinked'
  <2> DEFINE n == Len(rows) + 1
  <2>1. n \in Nat \ {0} /\ Len(rows) \in Nat /\ Len(rows') = n
    BY <1>2, CommitAppends DEF TypeOK
  <2> SUFFICES ASSUME NEW i \in 1..n
               PROVE  /\ rows'[i].prev = IF i = 1 THEN Genesis ELSE rows'[i-1].hash
                      /\ ~HashMismatch(rows', i)
    BY <2>1 DEF ChainLinked, HashMismatch
  <2>2. CASE i < n
    <3>1. i \in 1..Len(rows) /\ rows'[i] = rows[i]
      BY <1>2, <2>1, <2>2, CommitAppends
    <3>2. i # 1 => rows'[i-1] = rows[i-1]
      BY <1>2, <2>1, <2>2, CommitAppends
    <3> QED BY <3>1, <3>2 DEF ChainLinked, HashMismatch
  <2>3. CASE i = n
    <3>1. rows'[n].prev = TailHash(rows) /\ ~HashMismatch(rows', n)
      BY <1>2, CommitAppends DEF HashMismatch
    <3>2. CASE rows = << >>
      BY <2>3, <3>1, <3>2 DEF TailHash
    <3>3. CASE rows # << >>
      <4>1. n # 1 /\ n - 1 = Len(rows) /\ Len(rows) \in 1..Len(rows)
        BY <2>1, <3>3 DEF TypeOK
      <4>2. rows'[n-1] = rows[Len(rows)]
        BY <1>2, <4>1, CommitAppends
      <4>3. TailHash(rows) = rows'[n-1].hash
        BY <3>3, <4>2 DEF TailHash
      <4> QED BY <2>3, <3>1, <4>1, <4>3
    <3> QED BY <3>2, <3>3
  <2> QED BY <2>1, <2>2, <2>3
<1> QED BY <1>1, <1>2, RowsChange

LEMMA StepIdsIncrease ==
  ASSUME TypeOK, TailStable, IdsIncrease, [Next]_vars
  PROVE  IdsIncrease'
<1>1. CASE rows' = rows
  BY <1>1 DEF IdsIncrease
<1>2. ASSUME NEW c \in Clients, Commit(c) PROVE IdsIncrease'
  <2>1. Len(rows) \in Nat
    BY DEF TypeOK
  <2>2. /\ Len(rows') = Len(rows) + 1
        /\ \A i \in 1..Len(rows) : rows'[i] = rows[i] /\ rows[i].id < rows'[Len(rows) + 1].id
    BY <1>2, CommitAppends
  <2> SUFFICES ASSUME NEW i \in 1..(Len(rows) + 1), NEW j \in 1..(Len(rows) + 1), i < j
               PROVE  rows'[i].id < rows'[j].id
    BY <2>2 DEF IdsIncrease
  <2>3. CASE j = Len(rows) + 1
    BY <2>1, <2>2, <2>3
  <2>4. CASE j < Len(rows) + 1
    BY <2>1, <2>2, <2>4 DEF IdsIncrease
  <2> QED BY <2>1, <2>3, <2>4
<1> QED BY <1>1, <1>2, RowsChange

LEMMA StepFromOne ==
  ASSUME TypeOK, TailStable, FromOne, [Next]_vars
  PROVE  FromOne'
<1> USE DEF FromOne
<1>1. CASE UNCHANGED vars
  BY <1>1 DEF vars
<1>2. ASSUME NEW c \in Clients, DrawId(c) PROVE FromOne'
  BY <1>2 DEF DrawId, TypeOK
<1>3. ASSUME NEW c \in Clients, Commit(c) PROVE FromOne'
  <2>1. \A i \in 1..Len(rows') : rows'[i].id >= 1
    <3>1. nextID[c] >= 1 /\ Len(rows) \in Nat
      BY <1>3 DEF Commit, TypeOK
    <3> QED BY <1>3, <3>1, CommitAppends
  <2> QED BY <1>3, <2>1 DEF Commit, TypeOK
<1>4. ASSUME NEW c \in Clients,
             Begin(c) \/ Lock(c) \/ ReadTail(c) \/ Insert(c) \/ Return(c) \/ Rollback(c)
      PROVE  FromOne'
  BY <1>4 DEF Begin, Lock, ReadTail, Insert, Return, Rollback, TypeOK
<1> QED
  BY <1>1, <1>2, <1>3, <1>4 DEF Next, Step, Statement

LEMMA StepAnswerable ==
  ASSUME TypeOK, TailStable, Answerable, [Next]_vars
  PROVE  Answerable'
<1> USE DEF Answerable
<1>1. CASE UNCHANGED vars
  BY <1>1 DEF vars
<1>2. ASSUME NEW c \in Clients, Begin(c) PROVE Answerable'
  BY <1>2 DEF Begin, TypeOK
<1>3. ASSUME NEW c \in Clients, Lock(c) PROVE Answerable'
  BY <1>3 DEF Lock, TypeOK
<1>4. ASSUME NEW c \in Clients, ReadTail(c) PROVE Answerable'
  BY <1>4 DEF ReadTail, TypeOK
<1>5. ASSUME NEW c \in Clients, DrawId(c) PROVE Answerable'
  BY <1>5 DEF DrawId, TypeOK
<1>6. ASSUME NEW c \in Clients, Insert(c) PROVE Answerable'
  BY <1>6 DEF Insert, TypeOK
<1>7. ASSUME NEW c \in Clients, Commit(c) PROVE Answerable'
  <2>1. /\ Len(rows) \in Nat /\ Len(rows') = Len(rows) + 1
        /\ \A i \in 1..Len(rows) : i \in 1..Len(rows') /\ rows'[i] = rows[i]
    BY <1>7, CommitAppends DEF TypeOK
  <2>2. /\ Len(rows') \in 1..Len(rows')
        /\ rows'[Len(rows')].id = nextID[c] /\ rows'[Len(rows')].entry = entry[c]
    BY <1>7, <2>1, CommitAppends
  <2>3. /\ UNCHANGED <<acked, nextID, entry>>
        /\ \A d \in Clients : d # c => pc'[d] = pc[d]
    BY <1>7 DEF Commit, TypeOK
  <2>4. \A a \in acked' : \E i \in 1..Len(rows') :
           rows'[i].id = a[1] /\ rows'[i].entry = a[2]
    BY <2>1, <2>3
  <2>5. ASSUME NEW d \in Clients, pc'[d] = "committed"
        PROVE  \E i \in 1..Len(rows') :
                 rows'[i].id = nextID'[d] /\ rows'[i].entry = entry'[d]
    <3>1. CASE d = c
      BY <2>2, <2>3, <3>1
    <3>2. CASE d # c
      BY <2>1, <2>3, <2>5, <3>2
    <3> QED BY <3>1, <3>2
  <2> QED BY <2>4, <2>5
<1>8. ASSUME NEW c \in Clients, Return(c) PROVE Answerable'
  <2>1. /\ UNCHANGED <<rows, nextID, entry>>
        /\ \A d \in Clients : pc'[d] = "committed" => pc[d] = "committed"
    BY <1>8 DEF Return, TypeOK
  <2>2. ASSUME NEW a \in acked'
        PROVE  \E i \in 1..Len(rows) : rows[i].id = a[1] /\ rows[i].entry = a[2]
    <3>1. CASE a \in acked
      BY <3>1
    <3>2. CASE a = <<nextID[c], entry[c]>>
      BY <1>8, <3>2 DEF Return
    <3> QED BY <1>8, <2>2, <3>1, <3>2 DEF Return
  <2> QED BY <2>1, <2>2
<1>9. ASSUME NEW c \in Clients, Rollback(c) PROVE Answerable'
  BY <1>9 DEF Rollback, TypeOK
<1> QED
  BY <1>1, <1>2, <1>3, <1>4, <1>5, <1>6, <1>7, <1>8, <1>9 DEF Next, Step, Statement

-----------------------------------------------------------------------------
LEMMA StepIInv == IInv /\ [Next]_vars => IInv'
BY StepTypeOK, StepOneAppender, StepTailStable, StepChainLinked,
   StepIdsIncrease, StepFromOne, StepAnswerable DEF IInv

\* Every reachable state satisfies the inductive invariant.
THEOREM Inductive == Spec => []IInv
BY InitIInv, StepIInv, PTL DEF Spec

\* The advisory lock serialises the appenders.
THEOREM MutualExclusion == Spec => []OneAppender
BY Inductive, PTL DEF IInv

\* The table is a hash chain in id order, whatever fails or interleaves.
THEOREM ChainIntact == Spec => []ChainLinked
BY Inductive, PTL DEF IInv

THEOREM IdsInOrder == Spec => []IdsIncrease
BY Inductive, PTL DEF IInv

\* What an appender has read stays so until its row lands.
THEOREM TailReadStable == Spec => []TailStable
BY Inductive, PTL DEF IInv

\* An acknowledged entry is in the table, under its own id, exactly once.
THEOREM AckedDurable == Spec => []AckedRecorded
<1>1. IInv => AckedRecorded
  <2> SUFFICES ASSUME IInv, NEW a \in acked,
                      NEW i \in 1..Len(rows), rows[i].id = a[1], rows[i].entry = a[2],
                      NEW j \in 1..Len(rows) \ {i}
               PROVE  rows[j].id # a[1]
    BY DEF IInv, Answerable, AckedRecorded
  <2>1. rows[i].id \in Nat /\ rows[j].id \in Nat
    BY RowType DEF IInv
  <2>2. i < j \/ j < i
    BY DEF IInv, TypeOK
  <2> QED BY <2>1, <2>2 DEF IInv, IdsIncrease
<1> QED BY Inductive, <1>1, PTL

-----------------------------------------------------------------------------
(* The verifier on a table these appenders wrote.                          *)

LEMMA OnlyGaps ==
  ASSUME IInv, NEW k \in 1..Len(rows)
  PROVE  Inconsistent(rows, k) <=> IdGap(rows, k)
<1>1. ~HashMismatch(rows, k) /\ ~PrevMismatch(rows, k)
  BY DEF IInv, ChainLinked, PrevMismatch
<1> QED BY <1>1 DEF Inconsistent

\* A walk that meets an inconsistent row has a first one.
LEMMA FirstFault ==
  ASSUME NEW t, Len(t) \in Nat, NEW k \in 1..Len(t), Inconsistent(t, k)
  PROVE  \E m \in 1..Len(t) :
           Inconsistent(t, m) /\ \A j \in 1..(m-1) : ~Inconsistent(t, j)
<1> DEFINE T == {m \in 1..Len(t) : Inconsistent(t, m)}
           R == OpToRel(<, Nat)
<1>1. T \subseteq Nat /\ T # {}
  OBVIOUS
<1>2. PICK m \in T : \A j \in T : ~(<<j, m>> \in R)
  BY <1>1, NatLessThanWellFounded, WFMin
<1>3. \A j \in T : ~(j < m)
  BY <1>1, <1>2 DEF OpToRel
<1>4. m \in 1..Len(t) /\ Inconsistent(t, m)
  OBVIOUS
<1>5. ASSUME NEW j \in 1..(m-1) PROVE ~Inconsistent(t, j)
  <2>1. j \in 1..Len(t) /\ j < m
    BY <1>4
  <2> QED BY <1>3, <2>1
<1> QED BY <1>4, <1>5

THEOREM VerifierExact == Spec => []VerifyExact
<1>1. ASSUME IInv PROVE VerifyExact
  <2>1. Len(rows) \in Nat
    BY <1>1 DEF IInv, TypeOK
  <2>2. Contiguous(rows) <=> \A k \in 1..Len(rows) : ~IdGap(rows, k)
    BY <2>1 DEF Contiguous, IdGap
  <2>3. CASE Contiguous(rows)
    <3>1. \A k \in 1..Len(rows) : ~Inconsistent(rows, k)
      BY <1>1, <2>2, <2>3, OnlyGaps
    <3> QED BY <2>3, <3>1 DEF VerifyExact, VerifyChain
  <2>4. CASE ~Contiguous(rows)
    <3> DEFINE First(k) == Inconsistent(rows, k)
                           /\ \A j \in 1..(k-1) : ~Inconsistent(rows, j)
               k == CHOOSE m \in 1..Len(rows) : First(m)
    <3>1. PICK b \in 1..Len(rows) : Inconsistent(rows, b)
      BY <1>1, <2>2, <2>4, OnlyGaps
    <3>2. \E m \in 1..Len(rows) : First(m)
      BY <2>1, <3>1, FirstFault
    <3>3. k \in 1..Len(rows) /\ First(k)
      BY <3>2
    <3>4. VerifyChain(rows) = k - 1
      BY <3>1 DEF VerifyChain
    <3> HIDE DEF k
    <3>5. VerifyChain(rows) # -1 /\ VerifyChain(rows) + 1 = k
      BY <2>1, <3>3, <3>4
    <3>6. IdGap(rows, k)
      BY <1>1, <3>3, OnlyGaps
    <3>7. Contiguous(SubSeq(rows, 1, k-1))
      <4>1. \A j \in 1..(k-1) : j \in 1..Len(rows) /\ ~IdGap(rows, j)
        BY <1>1, <2>1, <3>3, OnlyGaps
      <4>2. /\ Len(SubSeq(rows, 1, k-1)) = k - 1
            /\ \A j \in 1..(k-1) : SubSeq(rows, 1, k-1)[j] = rows[j]
        BY <1>1, <2>1, <3>3 DEF IInv, TypeOK
      <4> QED BY <2>1, <3>3, <4>1, <4>2, SMTT(30) DEF Contiguous, IdGap
    <3> QED BY <2>4, <3>5, <3>6, <3>7 DEF VerifyExact
  <2> QED BY <2>3, <2>4
<1> QED BY Inductive, <1>1, PTL

-----------------------------------------------------------------------------
(* The verifier on a window of the table.  Window is a recursive function; *)
(* that there is such a function (WindowDefined) and what it returns for   *)
(* timestamps in order (WindowIsRun) is shown at the first number for      *)
(* which it would fail.                                                    *)

Longer(t, since, until, k, shorter) ==
  IF k = 0 THEN << >>
  ELSE IF since <= t[k].at /\ t[k].at <= until THEN Append(shorter[k - 1], t[k])
  ELSE shorter[k - 1]

LEMMA WindowDefined ==
  ASSUME NEW t, Len(t) \in Nat, NEW since, NEW until
  PROVE  \E w : /\ w = [k \in 0..Len(t) |-> Longer(t, since, until, k, w)]
                /\ Window(t, since, until) = w[Len(t)]
<1> DEFINE Chain(n, w) == w = [k \in 0..n |-> Longer(t, since, until, k, w)]
           Fails == {n \in Nat : ~\E w : Chain(n, w)}
           R == OpToRel(<, Nat)
<1>1. Fails = {}
  <2> SUFFICES ASSUME Fails # {} PROVE FALSE
    OBVIOUS
  <2>1. PICK m \in Fails : \A j \in Fails : ~(<<j, m>> \in R)
    BY NatLessThanWellFounded, WFMin
  <2>2. m \in Nat /\ \A j \in Nat : j < m => \E w : Chain(j, w)
    BY <2>1 DEF OpToRel
  <2>3. CASE m = 0
    <3> DEFINE w == [k \in 0..0 |-> << >>]
    <3>1. Chain(0, w)
      BY DEF Longer
    <3> QED BY <2>1, <2>3, <3>1
  <2>4. CASE m # 0
    <3>1. m - 1 \in Nat /\ m - 1 < m
      BY <2>2, <2>4
    <3>2. PICK v : Chain(m - 1, v)
      BY <2>2, <3>1
    <3> DEFINE w == [k \in 0..m |-> Longer(t, since, until, k, v)]
    <3>3. ASSUME NEW k \in 0..m PROVE Longer(t, since, until, k, v) = Longer(t, since, until, k, w)
      <4>1. CASE k = 0
        BY <4>1 DEF Longer
      <4>2. CASE k # 0
        <5>1. k - 1 \in 0..(m - 1) /\ k - 1 \in 0..m
          BY <2>2, <4>2
        <5>2. v[k - 1] = w[k - 1]
          BY <3>2, <5>1
        <5> QED BY <4>2, <5>2 DEF Longer
      <4> QED BY <4>1, <4>2
    <3>4. Chain(m, w)
      BY <3>3
    <3> QED BY <2>1, <3>4
  <2> QED BY <2>3, <2>4
<1>2. PICK w : Chain(Len(t), w)
  BY <1>1
<1> DEFINE UpTo == CHOOSE u : u = [k \in 0..Len(t) |->
             IF k = 0 THEN << >>
             ELSE IF since <= t[k].at /\ t[k].at <= until THEN Append(u[k - 1], t[k])
             ELSE u[k - 1]]
<1>3. Window(t, since, until) = UpTo[Len(t)]
  BY DEF Window
<1>4. UpTo = [k \in 0..Len(t) |-> Longer(t, since, until, k, UpTo)]
  BY <1>2 DEF Longer
<1> QED BY <1>3, <1>4

\* Of the first k rows, w has a run, which ends with the k-th or before a row
\* that is too late.
RunUpTo(t, until, k, w) ==
  /\ w \in Seq(Row)
  /\ w # << >> =>
       \E a \in Nat :
         /\ a + Len(w) <= k
         /\ \A j \in 1..Len(w) : w[j] = t[a + j]
         /\ a + Len(w) = k \/ t[k].at > until

LEMMA WindowIsRun ==
  ASSUME NEW t \in Seq(Row), NEW since \in Nat, NEW until \in Nat,
         \A k \in 2..Len(t) : t[k-1].at <= t[k].at
  PROVE  RunUpTo(t, until, Len(t), Window(t, since, until))
<1>1. Len(t) \in Nat /\ \A k \in 1..Len(t) : t[k] \in Row /\ t[k].at \in Nat
  <2>1. Len(t) \in Nat /\ \A k \in 1..Len(t) : t[k] \in Row
    OBVIOUS
  <2>2. \A r \in Row : r.at \in Nat
    BY TimesAssumption DEF Row
  <2> QED BY <2>1, <2>2
<1>2. PICK w : /\ w = [k \in 0..Len(t) |-> Longer(t, since, until, k, w)]
               /\ Window(t, since, until) = w[Len(t)]
  BY <1>1, WindowDefined, SMTT(30)
\* The end of a run that goes on: its last row was early enough, the next is not
\* earlier.
<1> DEFINE Right(k) == RunUpTo(t, until, k, w[k]) /\ (k # 0 /\ w[k] # << >> => since <= t[k].at)
           Fails == {k \in 0..Len(t) : ~Right(k)}
           R == OpToRel(<, Nat)
<1>3. Right(0)
  <2>1. w[0] = << >>
    BY <1>1, <1>2 DEF Longer
  <2> QED BY <2>1 DEF RunUpTo
<1>4. ASSUME NEW k \in 1..Len(t), Right(k - 1) PROVE Right(k)
  <2>1. k - 1 \in 0..Len(t) /\ k \in 0..Len(t) /\ k \in Nat /\ k # 0
    BY <1>1
  <2>2. w[k] = Longer(t, since, until, k, w)
    BY <1>2, <2>1
  <2> DEFINE s == w[k - 1]
  <2>3. s \in Seq(Row)
    BY <1>4 DEF RunUpTo
  <2>4. t[k] \in Row /\ t[k].at \in Nat
    BY <1>1
  <2>5. CASE since <= t[k].at /\ t[k].at <= until
    <3>1. w[k] = Append(s, t[k])
      BY <2>1, <2>2, <2>5 DEF Longer
    <3>2. w[k] \in Seq(Row) /\ Len(w[k]) = Len(s) + 1 /\ w[k][Len(s) + 1] = t[k]
          /\ \A j \in 1..Len(s) : w[k][j] = s[j]
      BY <2>3, <2>4, <3>1
    <3>3. PICK a \in Nat : a + Len(s) = k - 1 /\ \A j \in 1..Len(s) : s[j] = t[a + j]
      <4>1. CASE s = << >>
        <5>1. k - 1 \in Nat /\ Len(s) = 0
          BY <2>1, <4>1
        <5> QED BY <5>1
      <4>2. CASE s # << >>
        <5>1. PICK a \in Nat : /\ a + Len(s) <= k - 1
                               /\ \A j \in 1..Len(s) : s[j] = t[a + j]
                               /\ a + Len(s) = k - 1 \/ t[k - 1].at > until
          BY <1>4, <4>2 DEF RunUpTo
        <5>2. k - 1 # 0
          <6>1. Len(s) \in Nat /\ Len(s) # 0
            BY <2>3, <4>2
          <6> QED BY <5>1, <6>1
        <5>3. t[k - 1].at <= t[k].at /\ t[k - 1].at \in Nat
          BY <1>1, <2>1, <5>2
        <5>4. ~(t[k - 1].at > until)
          BY <2>4, <2>5, <5>3
        <5> QED BY <5>1, <5>4
      <4> QED BY <4>1, <4>2
    <3>4. a + Len(w[k]) = k
      BY <2>1, <2>3, <3>2, <3>3
    <3>5. \A j \in 1..Len(w[k]) : w[k][j] = t[a + j]
      <4> SUFFICES ASSUME NEW j \in 1..Len(w[k]) PROVE w[k][j] = t[a + j]
        OBVIOUS
      <4>1. CASE j = Len(s) + 1
        BY <2>1, <2>3, <3>2, <3>3, <4>1
      <4>2. CASE j # Len(s) + 1
        <5>1. j \in 1..Len(s)
          BY <2>3, <3>2, <4>2
        <5> QED BY <3>2, <3>3, <5>1
      <4> QED BY <4>1, <4>2
    <3>6. a + Len(w[k]) <= k
      BY <2>1, <3>4
    <3> HIDE DEF s
    <3>7. RunUpTo(t, until, k, w[k])
      BY <3>2, <3>4, <3>5, <3>6 DEF RunUpTo
    <3> QED BY <2>5, <3>7
  <2>6. CASE ~(since <= t[k].at /\ t[k].at <= until)
    <3>1. w[k] = s
      BY <2>1, <2>2, <2>6 DEF Longer
    <3>2. CASE s = << >>
      BY <2>3, <3>1, <3>2 DEF RunUpTo
    <3>3. CASE s # << >>
      <4>1. PICK a \in Nat : /\ a + Len(s) <= k - 1
                             /\ \A j \in 1..Len(s) : s[j] = t[a + j]
                             /\ a + Len(s) = k - 1 \/ t[k - 1].at > until
        BY <1>4, <3>3 DEF RunUpTo
      <4>2. Len(s) \in Nat /\ k - 1 # 0
        <5>1. Len(s) \in Nat /\ Len(s) # 0
          BY <2>3, <3>3
        <5> QED BY <4>1, <5>1
      <4>3. since <= t[k - 1].at /\ t[k - 1].at <= t[k].at /\ t[k - 1].at \in Nat
        BY <1>1, <1>4, <2>1, <3>3, <4>2
      <4>4. since <= t[k].at /\ t[k].at > until
        BY <2>4, <2>6, <4>3
      <4>5. a + Len(s) <= k
        BY <2>1, <4>1, <4>2
      <4> QED BY <2>3, <3>1, <4>1, <4>4, <4>5 DEF RunUpTo
    <3> QED BY <3>2, <3>3
  <2> QED BY <2>5, <2>6
<1> HIDE DEF Right
<1>5. Fails = {}
  <2> SUFFICES ASSUME Fails # {} PROVE FALSE
    OBVIOUS
  <2>1. Fails \subseteq Nat
    BY <1>1
  <2>2. PICK m \in Fails : \A j \in Fails : ~(<<j, m>> \in R)
    BY <2>1, NatLessThanWellFounded, WFMin
  <2>3. m \in 0..Len(t) /\ ~Right(m) /\ \A j \in Fails : ~(j < m)
    BY <2>1, <2>2 DEF OpToRel
  <2>4. m \in 1..Len(t) /\ m - 1 \in 0..Len(t) /\ m - 1 < m
    BY <1>1, <1>3, <2>3
  <2>5. Right(m - 1)
    BY <2>3, <2>4
  <2> QED BY <1>4, <2>3, <2>4, <2>5
<1>6. Right(Len(t))
  BY <1>1, <1>5
<1> QED BY <1>2, <1>6 DEF Right

\* With contiguous ids and clocks in order, no window of an untouched table is
\* taken for a changed one.
LEMMA WindowsVerify == IInv => WindowVerifies
<1> SUFFICES ASSUME IInv, Contiguous(rows),
                    \A k \in 2..Len(rows) : rows[k-1].at <= rows[k].at,
                    NEW since \in Times, NEW until \in Times
             PROVE  VerifyChain(Window(rows, since, until)) = -1
  BY DEF WindowVerifies
<1> DEFINE w == Window(rows, since, until)
<1>1. rows \in Seq(Row) /\ since \in Nat /\ until \in Nat /\ Len(rows) \in Nat
  BY TimesAssumption DEF IInv, TypeOK
<1>2. RunUpTo(rows, until, Len(rows), w)
  BY <1>1, WindowIsRun
<1> HIDE DEF w
<1>3. SUFFICES ASSUME NEW k \in 1..Len(w) PROVE ~Inconsistent(w, k)
  BY DEF VerifyChain, w
<1>4. Len(w) \in Nat /\ w # << >>
  BY <1>2 DEF RunUpTo
<1>5. PICK a \in Nat : a + Len(w) <= Len(rows) /\ \A j \in 1..Len(w) : w[j] = rows[a + j]
  BY <1>2, <1>4 DEF RunUpTo
<1> DEFINE i == a + k
<1>6. i \in 1..Len(rows) /\ w[k] = rows[i]
  BY <1>1, <1>4, <1>5
<1>7. k # 1 => k - 1 \in 1..Len(w) /\ w[k-1] = rows[i-1] /\ i # 1 /\ i \in 2..Len(rows)
  BY <1>1, <1>4, <1>5
<1>8. ~HashMismatch(w, k)
  BY <1>6 DEF IInv, ChainLinked, HashMismatch
<1>9. ~IdGap(w, k)
  BY <1>4, <1>6, <1>7 DEF Contiguous, IdGap
<1>10. ~PrevMismatch(w, k)
  <2>1. rows[i].prev = IF i = 1 THEN Genesis ELSE rows[i-1].hash
    BY <1>6 DEF IInv, ChainLinked
  <2>2. CASE k # 1
    BY <1>6, <1>7, <2>1, <2>2 DEF PrevMismatch
  <2>3. CASE k = 1
    <3>1. CASE i = 1
      BY <1>6, <2>1, <2>3, <3>1 DEF PrevMismatch
    <3>2. CASE i # 1
      <4>1. 1 \in 1..Len(rows) /\ 1 < i
        BY <1>1, <1>6, <3>2
      <4>2. rows[1].id < rows[i].id /\ rows[1].id >= 1
        BY <1>6, <4>1 DEF IInv, IdsIncrease, FromOne
      <4>3. rows[1].id \in Nat /\ rows[i].id \in Nat
        BY <1>6, <4>1, RowType DEF IInv
      <4>4. w[1].id # 1
        BY <1>6, <2>3, <4>2, <4>3
      <4> QED BY <2>3, <4>4 DEF PrevMismatch
    <3> QED BY <3>1, <3>2
  <2> QED BY <2>2, <2>3
<1> QED BY <1>8, <1>9, <1>10 DEF Inconsistent

\* The verifier objects at the first fault or before.
LEMMA FaultFound ==
  ASSUME NEW t, Len(t) \in Nat, NEW k \in 1..Len(t), Inconsistent(t, k)
  PROVE  VerifyChain(t) \in Nat /\ VerifyChain(t) <= k - 1
<1> DEFINE First(m) == Inconsistent(t, m) /\ \A j \in 1..(m-1) : ~Inconsistent(t, j)
           f == CHOOSE m \in 1..Len(t) : First(m)
<1>1. \E m \in 1..Len(t) : First(m)
  BY FirstFault
<1>2. f \in 1..Len(t) /\ First(f)
  BY <1>1
<1>3. VerifyChain(t) = f - 1
  BY DEF VerifyChain
<1> HIDE DEF f
<1>4. f <= k
  BY <1>2
<1> QED BY <1>2, <1>3, <1>4

\* Hashes of different rows differ.
LEMMA HashBinds ==
  ASSUME NEW T, NEW p \in Seq(T), NEW q \in Seq(T), NEW id, NEW e, NEW a, NEW f, NEW b,
         [id |-> id, entry |-> e, at |-> a] \in T, [id |-> id, entry |-> f, at |-> b] \in T,
         hashAuditRow(id, p, e, a) = hashAuditRow(id, q, f, b)
  PROVE  p = q /\ e = f /\ a = b
<1> DEFINE x == [id |-> id, entry |-> e, at |-> a]
           y == [id |-> id, entry |-> f, at |-> b]
<1>1. x.entry = e /\ y.entry = f /\ x.at = a /\ y.at = b
  OBVIOUS
<1>2. x \in T /\ y \in T /\ Append(p, x) = Append(q, y)
  BY DEF hashAuditRow
<1> HIDE DEF x, y
<1>3. x = y /\ p = q
  BY <1>2, AppendInjective
<1> QED BY <1>1, <1>3

\* A table that is altered in row i, and how.
LEMMA AlteredRow ==
  ASSUME rows \in Seq(Row), NEW i \in 1..Len(rows), NEW t \in Altered(rows, i)
  PROVE  /\ Len(t) = Len(rows)
         /\ \A j \in 1..Len(rows) : j # i => t[j] = rows[j]
         /\ t[i].id = rows[i].id /\ t[i].prev = rows[i].prev
         /\ t[i].entry \in Entries /\ t[i].at \in Times
         /\ <<t[i].entry, t[i].at>> # <<rows[i].entry, rows[i].at>>
<1>1. rows[i] \in Row
  OBVIOUS
<1>2. /\ rows[i].entry \in Entries /\ rows[i].at \in Times
      /\ rows[i] = [id |-> rows[i].id, entry |-> rows[i].entry, at |-> rows[i].at,
                    prev |-> rows[i].prev, hash |-> rows[i].hash]
  BY <1>1 DEF Row
\* In each case one row is put in the place of another.
<1>3. PICK r : /\ t = [rows EXCEPT ![i] = r]
               /\ r.id = rows[i].id /\ r.prev = rows[i].prev
               /\ r.entry \in Entries /\ r.at \in Times
               /\ <<r.entry, r.at>> # <<rows[i].entry, rows[i].at>>
  <2>1. CASE \E e \in Entries \ {rows[i].entry} : t = [rows EXCEPT ![i].entry = e]
    <3>1. PICK e \in Entries \ {rows[i].entry} : t = [rows EXCEPT ![i].entry = e]
      BY <2>1
    <3>2. t = [rows EXCEPT ![i] = [rows[i] EXCEPT !.entry = e]]
      BY <3>1
    <3> DEFINE r == [rows[i] EXCEPT !.entry = e]
    <3>3. r.id = rows[i].id /\ r.prev = rows[i].prev /\ r.entry = e /\ r.at = rows[i].at
      BY <1>2
    <3> HIDE DEF r
    <3> QED BY <1>2, <3>1, <3>2, <3>3 DEF r
  <2>2. CASE \E e \in Entries \ {rows[i].entry} :
               t = [rows EXCEPT ![i] = NewRow(rows[i].id, rows[i].prev, e, rows[i].at)]
    <3>1. PICK e \in Entries \ {rows[i].entry} :
             t = [rows EXCEPT ![i] = NewRow(rows[i].id, rows[i].prev, e, rows[i].at)]
      BY <2>2
    <3> DEFINE r == NewRow(rows[i].id, rows[i].prev, e, rows[i].at)
    <3>2. r.id = rows[i].id /\ r.prev = rows[i].prev /\ r.entry = e /\ r.at = rows[i].at
      BY DEF NewRow
    <3> HIDE DEF r
    <3> QED BY <1>2, <3>1, <3>2 DEF r
  <2>3. CASE \E a \in Times \ {rows[i].at} : t = [rows EXCEPT ![i].at = a]
    <3>1. PICK a \in Times \ {rows[i].at} : t = [rows EXCEPT ![i].at = a]
      BY <2>3
    <3>2. t = [rows EXCEPT ![i] = [rows[i] EXCEPT !.at = a]]
      BY <3>1
    <3> DEFINE r == [rows[i] EXCEPT !.at = a]
    <3>3. r.id = rows[i].id /\ r.prev = rows[i].prev /\ r.entry = rows[i].entry /\ r.at = a
      BY <1>2
    <3> HIDE DEF r
    <3> QED BY <1>2, <3>1, <3>2, <3>3 DEF r
  <2> DEFINE F(e) == [rows EXCEPT ![i].entry = e]
             G(e) == [rows EXCEPT ![i] = NewRow(rows[i].id, rows[i].prev, e, rows[i].at)]
             H(a) == [rows EXCEPT ![i].at = a]
             E == Entries \ {rows[i].entry}
             A == Times \ {rows[i].at}
  <2>4. t \in (UNION {{F(e), G(e)} : e \in E}) \cup {H(a) : a \in A}
    BY DEF Altered
  <2> HIDE DEF F, G, H, E, A
  <2>5. (\E e \in E : t = F(e) \/ t = G(e)) \/ \E a \in A : t = H(a)
    <3>1. CASE t \in {H(a) : a \in A}
      BY <3>1, Zenon
    <3>2. CASE t \in UNION {{F(e), G(e)} : e \in E}
      <4>1. PICK s \in {{F(e), G(e)} : e \in E} : t \in s
        BY <3>2, Zenon
      <4>2. PICK e \in E : s = {F(e), G(e)}
        BY <4>1, Zenon
      <4> QED BY <4>1, <4>2, Zenon
    <3> QED BY <2>4, <3>1, <3>2
  <2> QED BY <2>1, <2>2, <2>3, <2>5 DEF F, G, H, E, A
<1>4. /\ Len(t) = Len(rows) /\ t[i] = r
      /\ \A j \in 1..Len(rows) : j # i => t[j] = rows[j]
  BY <1>3
<1> QED BY <1>3, <1>4

\* What the storage did to row i is seen there or at the next row.
LEMMA ChangesReported == IInv => ChangeReported
<1> SUFFICES ASSUME IInv, NEW i \in 1..Len(rows)
             PROVE  /\ \A t \in Altered(rows, i) :
                         HashMismatch(t, i) \/ i < Len(rows) =>
                           VerifyChain(t) # -1 /\ VerifyChain(t) <= i
                    /\ 1 < i /\ i < Len(rows) => VerifyChain(Without(rows, i)) # -1
  BY DEF ChangeReported
<1>1. rows \in Seq(Row) /\ Len(rows) \in Nat
  BY DEF IInv, TypeOK
<1>2. ASSUME NEW t \in Altered(rows, i), HashMismatch(t, i) \/ i < Len(rows)
      PROVE  VerifyChain(t) # -1 /\ VerifyChain(t) <= i
  <2>1. Len(t) = Len(rows) /\ \A j \in 1..Len(rows) : j # i => t[j] = rows[j]
    BY <1>1, AlteredRow
  <2>2. CASE HashMismatch(t, i)
    <3>1. i \in 1..Len(t) /\ Inconsistent(t, i)
      BY <2>1, <2>2 DEF Inconsistent
    <3>2. VerifyChain(t) \in Nat /\ VerifyChain(t) <= i - 1
      BY <1>1, <2>1, <3>1, FaultFound
    <3> QED BY <1>1, <3>2
  <2>3. CASE ~HashMismatch(t, i) /\ i < Len(rows)
    <3>1. i + 1 \in 1..Len(t) /\ i + 1 # i /\ i + 1 > 1
      BY <1>1, <2>1, <2>3
    <3>2. t[i + 1].prev = hashAuditRow(rows[i].id, rows[i].prev, rows[i].entry, rows[i].at)
      <4>1. t[i + 1].prev = rows[i].hash
        BY <1>1, <2>1, <3>1 DEF IInv, ChainLinked
      <4>2. rows[i].hash = hashAuditRow(rows[i].id, rows[i].prev, rows[i].entry, rows[i].at)
        BY DEF IInv, ChainLinked, HashMismatch
      <4> QED BY <4>1, <4>2
    <3>3. t[i].hash = hashAuditRow(t[i].id, t[i].prev, t[i].entry, t[i].at)
      BY <2>3 DEF HashMismatch
    <3>4. /\ t[i].id = rows[i].id /\ t[i].prev = rows[i].prev
          /\ t[i].entry \in Entries /\ t[i].at \in Times
          /\ <<t[i].entry, t[i].at>> # <<rows[i].entry, rows[i].at>>
      BY <1>1, AlteredRow
    <3>5. t[i + 1].prev # t[i].hash
      <4>1. rows[i] \in Row
        BY <1>1
      <4>2. /\ rows[i].prev \in Seq(Payload)
            /\ [id |-> rows[i].id, entry |-> rows[i].entry, at |-> rows[i].at] \in Payload
            /\ [id |-> rows[i].id, entry |-> t[i].entry, at |-> t[i].at] \in Payload
        BY <3>4, <4>1 DEF Row, Digest, Payload
      <4> QED BY <3>2, <3>3, <3>4, <4>2, HashBinds
    <3>6. Inconsistent(t, i + 1)
      BY <1>1, <3>1, <3>5 DEF Inconsistent, PrevMismatch
    <3>7. VerifyChain(t) \in Nat /\ VerifyChain(t) <= (i + 1) - 1
      BY <1>1, <2>1, <3>1, <3>6, FaultFound
    <3> QED BY <3>7
  <2> QED BY <1>2, <2>2, <2>3
<1>3. ASSUME 1 < i, i < Len(rows) PROVE VerifyChain(Without(rows, i)) # -1
  <2> DEFINE t == Without(rows, i)
  <2>1. Len(t) = Len(rows) - 1 /\ t[i - 1] = rows[i - 1] /\ t[i] = rows[i + 1]
    <3>1. /\ SubSeq(rows, 1, i - 1) \in Seq(Row) /\ Len(SubSeq(rows, 1, i - 1)) = i - 1
          /\ SubSeq(rows, 1, i - 1)[i - 1] = rows[i - 1]
      BY <1>1, <1>3
    <3>2. /\ SubSeq(rows, i + 1, Len(rows)) \in Seq(Row)
          /\ Len(SubSeq(rows, i + 1, Len(rows))) = Len(rows) - i
          /\ SubSeq(rows, i + 1, Len(rows))[1] = rows[i + 1]
      BY <1>1, <1>3
    <3> DEFINE u == SubSeq(rows, 1, i - 1)
               v == SubSeq(rows, i + 1, Len(rows))
    <3>3. t = u \o v
      BY DEF Without
    <3> HIDE DEF t, u, v
    <3>4. /\ u \in Seq(Row) /\ Len(u) = i - 1 /\ u[i - 1] = rows[i - 1]
          /\ v \in Seq(Row) /\ Len(v) = Len(rows) - i /\ v[1] = rows[i + 1]
      BY <3>1, <3>2 DEF u, v
    <3>5. Len(t) = Len(rows) - 1
      BY <1>1, <3>3, <3>4
    <3>6. t[i - 1] = u[i - 1] /\ t[i] = v[1]
      BY <1>1, <1>3, <3>3, <3>4
    <3> QED BY <3>4, <3>5, <3>6
  <2>2. i \in 1..Len(t) /\ Len(t) \in Nat
    BY <1>1, <1>3, <2>1
  <2>3. rows[i - 1].id < rows[i].id /\ rows[i].id < rows[i + 1].id
    BY <1>1, <1>3 DEF IInv, IdsIncrease
  <2>4. i - 1 \in 1..Len(rows) /\ i + 1 \in 1..Len(rows)
    BY <1>1, <1>3
  <2>5. rows[i - 1].id \in Nat /\ rows[i].id \in Nat /\ rows[i + 1].id \in Nat
    BY <2>4, RowType DEF IInv
  <2>6. IdGap(t, i)
    BY <1>3, <2>1, <2>3, <2>5 DEF IdGap
  <2> HIDE DEF t
  <2>7. VerifyChain(t) # -1
    BY <2>2, <2>6, FaultFound DEF Inconsistent
  <2> QED BY <2>7 DEF t
<1> QED BY <1>2, <1>3

-----------------------------------------------------------------------------
(* The audit page.  Whatever the storage does to a row that was written    *)
(* leaves a fault that later rows do not heal (Seen), so that a verdict    *)
(* that comes after the grid covers it (Shown); an id in the grid is not   *)
(* above the newest of a table that only grows.                            *)

PageRows == {table[i] : i \in 1..Len(table)}

\* A row whose fields are not those of its hash, or the next of one whose hash is
\* not the one it was chained to.
Fault(t, k) == Page!HashMismatch(t, k) \/ (k > 1 /\ t[k].prev # t[k-1].hash)

Broken(t) == \E k \in 1..Len(t) : Fault(t, k)

PageStates ==
  [at : {"none", "verify", "tip", "shown"}, shown : SUBSET Page!Row,
   verified : BOOLEAN, count : Nat, fresh : BOOLEAN]

PageType ==
  /\ table \in Seq(Page!Row) /\ harmed \in BOOLEAN
  /\ page \in PageStates

Linked ==
  ~harmed => /\ ~Broken(table)
             /\ PageRows \subseteq written
             /\ page.shown \subseteq PageRows

Seen == Broken(table) \/ PageRows \subseteq written

Shown ==
  /\ page.at \in {"verify", "tip"} => page.fresh
  /\ page.at = "verify" => Broken(table) \/ page.shown \subseteq written
  /\ page.at \in {"tip", "shown"} /\ page.verified /\ page.fresh => page.shown \subseteq written
  /\ page.at = "shown" /\ page.fresh /\ page.count # 0 /\ ~harmed =>
       \A row \in page.shown : row.id <= page.count

PageInv == PageType /\ Linked /\ Seen /\ Shown

LEMMA PageNewRow ==
  ASSUME NEW id \in Nat, NEW p \in Page!Digest, NEW e \in Entries, NEW a \in {1}
  PROVE  LET r == Page!NewRow(id, p, e, a)
         IN  /\ r \in Page!Row
             /\ r.id = id /\ r.entry = e /\ r.at = a /\ r.prev = p
             /\ r.hash = Page!hashAuditRow(id, p, e, a)
BY DEF Page!NewRow, Page!Row, Page!Digest, Page!Payload, Page!hashAuditRow

LEMMA PageFault ==
  ASSUME PageType, Broken(table)
  PROVE  Page!VerifyChain(table) # -1
<1>1. Len(table) \in Nat
  BY DEF PageType
<1>2. PICK k \in 1..Len(table) : Page!Inconsistent(table, k)
  BY <1>1 DEF Broken, Fault, Page!Inconsistent, Page!PrevMismatch
<1>3. Inconsistent(table, k)
  BY <1>2 DEF Inconsistent, IdGap, PrevMismatch, HashMismatch, hashAuditRow, Genesis, Page!Genesis,
       Page!Inconsistent, Page!IdGap, Page!PrevMismatch, Page!HashMismatch, Page!hashAuditRow
<1>4. Page!VerifyChain(table) = VerifyChain(table)
  BY DEF VerifyChain, Page!VerifyChain, Inconsistent, IdGap, PrevMismatch, HashMismatch, hashAuditRow, Genesis, Page!Genesis,
       Page!Inconsistent, Page!IdGap, Page!PrevMismatch, Page!HashMismatch, Page!hashAuditRow
<1> QED BY <1>1, <1>3, <1>4, FaultFound

LEMMA PageTable ==
  ASSUME PageType
  PROVE  /\ Len(table) \in Nat /\ DOMAIN table = 1..Len(table)
         /\ \A i \in 1..Len(table) :
              /\ table[i] \in Page!Row
              /\ table[i].id \in Nat /\ table[i].entry \in Entries /\ table[i].at = 1
              /\ table[i].prev \in Page!Digest /\ table[i].hash \in Page!Digest
<1>1. table \in Seq(Page!Row)
  BY DEF PageType
<1>2. \A r \in Page!Row : /\ r.id \in Nat /\ r.entry \in Entries /\ r.at = 1
                          /\ r.prev \in Page!Digest /\ r.hash \in Page!Digest
  BY DEF Page!Row
<1> QED BY <1>1, <1>2

LEMMA PageArrive ==
  ASSUME PageInv, Page!Arrive
  PROVE  PageInv'
<1>1. PICK burned \in {0, 1}, e \in Entries, t \in {1} :
        LET row == Page!NewRow(Page!LastId + 1 + burned, Page!LastHash, e, t)
        IN  table' = Append(table, row) /\ written' = written \cup {row}
  BY DEF Page!Arrive
<1> DEFINE row == Page!NewRow(Page!LastId + 1 + burned, Page!LastHash, e, t)
<1>2. table \in Seq(Page!Row) /\ Len(table) \in Nat
  BY DEF PageInv, PageType
<1>3. Page!LastId \in Nat /\ Page!LastHash \in Page!Digest
  <2>1. CASE table = << >>
    BY <2>1 DEF Page!LastId, Page!LastHash, Page!Genesis, Page!Digest
  <2>2. CASE table # << >>
    <3>1. Len(table) \in 1..Len(table)
      BY <1>2, <2>2
    <3> QED BY <2>2, <3>1, PageTable DEF PageInv, Page!LastId, Page!LastHash
  <2> QED BY <2>1, <2>2
<1>4. /\ row \in Page!Row /\ row.prev = Page!LastHash
      /\ row.hash = Page!hashAuditRow(row.id, row.prev, row.entry, row.at)
  BY <1>3, PageNewRow
<1> HIDE DEF row
<1>5. /\ table' \in Seq(Page!Row) /\ Len(table') = Len(table) + 1
      /\ table'[Len(table) + 1] = row
      /\ \A i \in 1..Len(table) : table'[i] = table[i]
  BY <1>1, <1>2, <1>4 DEF row
<1>6. UNCHANGED <<harmed, page>> /\ written' = written \cup {row}
  BY <1>1 DEF Page!Arrive, row
<1>7. PageRows' = PageRows \cup {row}
  BY <1>2, <1>5 DEF PageRows
<1>8. ASSUME NEW k \in 1..Len(table) PROVE Fault(table', k) <=> Fault(table, k)
  <2>1. table'[k] = table[k] /\ (k > 1 => table'[k-1] = table[k-1])
    BY <1>2, <1>5
  <2> QED BY <2>1 DEF Fault, Page!HashMismatch
<1>9. Broken(table) => Broken(table')
  <2>1. \A k \in 1..Len(table) : k \in 1..Len(table')
    BY <1>2, <1>5
  <2> QED BY <1>8, <2>1 DEF Broken
<1>10. Broken(table') => Broken(table)
  <2> SUFFICES ASSUME NEW k \in 1..Len(table'), Fault(table', k)
               PROVE  Broken(table)
    BY DEF Broken
  <2>1. CASE k = Len(table) + 1
    <3>1. ~Page!HashMismatch(table', k)
      BY <1>4, <1>5, <2>1 DEF Page!HashMismatch
    <3>2. k > 1 => table # << >> /\ table'[k-1] = table[Len(table)]
      BY <1>2, <1>5, <2>1
    <3>3. k > 1 => table'[k].prev = table'[k-1].hash
      BY <1>4, <1>5, <2>1, <3>2 DEF Page!LastHash
    <3> QED BY <3>1, <3>3 DEF Fault
  <2>2. CASE k # Len(table) + 1
    <3>1. k \in 1..Len(table)
      BY <1>2, <1>5, <2>2
    <3> QED BY <1>8, <3>1 DEF Broken
  <2> QED BY <2>1, <2>2
<1>11. PageType'
  BY <1>5, <1>6 DEF PageInv, PageType
<1>12. Linked' /\ Seen' /\ Shown'
  BY <1>6, <1>7, <1>9, <1>10 DEF PageInv, Linked, Seen, Shown
<1> QED BY <1>11, <1>12 DEF PageInv

\* A row in the place of another of an intact table, with other fields: it is not
\* that of its hash, or that of the next row's.
LEMMA PutWrong ==
  ASSUME PageInv, ~harmed, NEW i \in 1..Len(table), NEW r \in Page!Row,
         table' = [table EXCEPT ![i] = r],
         r.id = table[i].id /\ r.prev = table[i].prev /\ r.entry # table[i].entry,
         \/ r.hash = table[i].hash
         \/ i < Len(table) /\ r.hash = Page!hashAuditRow(r.id, r.prev, r.entry, r.at)
  PROVE  table' \in Seq(Page!Row) /\ Broken(table')
<1>1. table \in Seq(Page!Row) /\ Len(table) \in Nat /\ ~Broken(table)
  BY DEF PageInv, PageType, Linked
<1>2. /\ table' \in Seq(Page!Row) /\ Len(table') = Len(table)
      /\ table'[i] = r /\ \A j \in 1..Len(table) : j # i => table'[j] = table[j]
  BY <1>1
<1>3. table[i].hash = Page!hashAuditRow(table[i].id, table[i].prev, table[i].entry, table[i].at)
  <2>1. ~Fault(table, i)
    BY <1>1 DEF Broken
  <2> QED BY <2>1 DEF Fault, Page!HashMismatch
<1>4. table[i].hash # Page!hashAuditRow(r.id, r.prev, r.entry, r.at)
  <2>1. /\ table[i].prev \in Seq(Page!Payload)
        /\ table[i].id \in Nat /\ table[i].entry \in Entries /\ table[i].at \in {1}
        /\ r.entry \in Entries /\ r.at \in {1}
    BY PageTable DEF PageInv, Page!Row, Page!Digest
  <2>2. /\ [id |-> table[i].id, entry |-> table[i].entry, at |-> table[i].at] \in Page!Payload
        /\ [id |-> table[i].id, entry |-> r.entry, at |-> r.at] \in Page!Payload
    BY <2>1 DEF Page!Payload
  <2>3. hashAuditRow(table[i].id, table[i].prev, table[i].entry, table[i].at)
          # hashAuditRow(table[i].id, table[i].prev, r.entry, r.at)
    BY <2>1, <2>2, HashBinds
  <2> QED BY <1>3, <2>3 DEF hashAuditRow, Page!hashAuditRow
<1>5. CASE r.hash = table[i].hash
  <2>1. Fault(table', i)
    BY <1>2, <1>4, <1>5 DEF Fault, Page!HashMismatch
  <2> QED BY <1>2, <2>1 DEF Broken
<1>6. CASE i < Len(table) /\ r.hash # table[i].hash
  <2>1. i + 1 \in 1..Len(table) /\ i + 1 # i /\ i + 1 > 1 /\ (i + 1) - 1 = i
    BY <1>1, <1>6
  <2>2. table[i + 1].prev = table[i].hash
    BY <1>1, <2>1 DEF Broken, Fault
  <2>3. table'[i + 1].prev # table'[(i + 1) - 1].hash
    BY <1>2, <1>6, <2>1, <2>2
  <2> QED BY <1>2, <2>1, <2>3 DEF Broken, Fault
<1> QED BY <1>2, <1>4, <1>5, <1>6

LEMMA PageHarm ==
  ASSUME PageInv, Page!Harm
  PROVE  PageInv'
<1>1. ~harmed /\ harmed' = TRUE /\ UNCHANGED <<written, page>>
  BY DEF Page!Harm
<1>2. table \in Seq(Page!Row) /\ Len(table) \in Nat /\ PageRows \subseteq written
  BY <1>1 DEF PageInv, PageType, Linked
<1>3. PICK i \in 1..Len(table) :
        \/ \E e \in Entries \ {table[i].entry} :
             \/ table' = [table EXCEPT ![i].entry = e]
             \/ /\ i < Len(table)
                /\ table' = [table EXCEPT ![i] = Page!NewRow(table[i].id, table[i].prev, e, table[i].at)]
        \/ \E t \in {1} \ {table[i].at} : table' = [table EXCEPT ![i].at = t]
        \/ table' = SubSeq(table, 1, i - 1) \o SubSeq(table, i + 1, Len(table))
  BY PageTable DEF PageInv, Page!Harm
<1>4. /\ table[i] \in Page!Row /\ table[i].id \in Nat /\ table[i].entry \in Entries
      /\ table[i].at = 1 /\ table[i].prev \in Page!Digest /\ table[i].hash \in Page!Digest
  BY PageTable DEF PageInv
<1>5. table' \in Seq(Page!Row) /\ (Broken(table') \/ PageRows' \subseteq written)
  <2>1. ASSUME NEW e \in Entries \ {table[i].entry}, table' = [table EXCEPT ![i].entry = e]
        PROVE  table' \in Seq(Page!Row) /\ Broken(table')
    <3> DEFINE r == [table[i] EXCEPT !.entry = e]
    <3>1. table' = [table EXCEPT ![i] = r]
      BY <2>1
    <3>2. /\ r \in Page!Row /\ r.id = table[i].id /\ r.prev = table[i].prev
          /\ r.entry = e /\ r.hash = table[i].hash
      BY <1>4 DEF Page!Row
    <3> HIDE DEF r
    <3> QED BY <1>1, <3>1, <3>2, PutWrong
  <2>2. ASSUME NEW e \in Entries \ {table[i].entry}, i < Len(table),
               table' = [table EXCEPT ![i] = Page!NewRow(table[i].id, table[i].prev, e, table[i].at)]
        PROVE  table' \in Seq(Page!Row) /\ Broken(table')
    <3> DEFINE r == Page!NewRow(table[i].id, table[i].prev, e, table[i].at)
    <3>1. table' = [table EXCEPT ![i] = r]
      BY <2>2
    <3>2. /\ r \in Page!Row /\ r.id = table[i].id /\ r.prev = table[i].prev
          /\ r.entry = e /\ r.hash = Page!hashAuditRow(r.id, r.prev, r.entry, r.at)
      BY <1>4, PageNewRow
    <3> HIDE DEF r
    <3> QED BY <1>1, <2>2, <3>1, <3>2, PutWrong
  <2>3. ASSUME table' = SubSeq(table, 1, i - 1) \o SubSeq(table, i + 1, Len(table))
        PROVE  table' \in Seq(Page!Row) /\ PageRows' \subseteq PageRows
    <3> DEFINE u == SubSeq(table, 1, i - 1)
               v == SubSeq(table, i + 1, Len(table))
    <3>1. /\ u \in Seq(Page!Row) /\ Len(u) = i - 1
          /\ \A j \in 1..Len(u) : u[j] = table[j] /\ j \in 1..Len(table)
      BY <1>2
    <3>2. /\ v \in Seq(Page!Row) /\ Len(v) = Len(table) - i
          /\ \A j \in 1..Len(v) : v[j] = table[i + j] /\ i + j \in 1..Len(table)
      BY <1>2
    <3>3. table' = u \o v
      BY <2>3
    <3> HIDE DEF u, v
    <3>4. /\ table' \in Seq(Page!Row) /\ Len(table') = Len(u) + Len(v)
          /\ \A j \in 1..Len(table') :
               table'[j] = IF j <= Len(u) THEN u[j] ELSE v[j - Len(u)]
      <4>1. table' \in Seq(Page!Row) /\ Len(table') = Len(u) + Len(v)
        BY <3>1, <3>2, <3>3, ConcatProperties
      <4>2. \A j \in 1..(Len(u) + Len(v)) :
              (u \o v)[j] = IF j <= Len(u) THEN u[j] ELSE v[j - Len(u)]
        BY <3>1, <3>2, ConcatProperties
      <4> QED BY <3>3, <4>1, <4>2
    <3>5. ASSUME NEW j \in 1..Len(table') PROVE table'[j] \in PageRows
      <4>1. CASE j <= Len(u)
        <5>1. j \in 1..Len(u) /\ table'[j] = u[j]
          BY <1>2, <3>1, <3>2, <3>4, <4>1
        <5> QED BY <3>1, <5>1 DEF PageRows
      <4>2. CASE ~(j <= Len(u))
        <5>1. j - Len(u) \in 1..Len(v) /\ table'[j] = v[j - Len(u)]
          BY <1>2, <3>1, <3>2, <3>4, <4>2
        <5> QED BY <3>2, <5>1 DEF PageRows
      <4> QED BY <4>1, <4>2
    <3> QED BY <3>4, <3>5 DEF PageRows
  <2>4. ~\E t \in {1} \ {table[i].at} : table' = [table EXCEPT ![i].at = t]
    BY <1>4
  <2> QED BY <1>2, <1>3, <2>1, <2>2, <2>3, <2>4
<1>6. PageType'
  BY <1>1, <1>5 DEF PageInv, PageType
<1>7. Linked' /\ Seen' /\ Shown'
  BY <1>1, <1>2, <1>5 DEF PageInv, Linked, Seen, Shown
<1> QED BY <1>6, <1>7 DEF PageInv

\* A grid is made of rows of the table.
LEMMA GridOfRows ==
  ASSUME PageType, NEW f, NEW limit
  PROVE  Page!ListAudit(f, limit) \subseteq PageRows /\ PageRows \subseteq Page!Row
<1>1. Page!ListAudit(f, limit) \subseteq PageRows
  BY PageTable DEF Page!ListAudit, PageRows
<1>2. PageRows \subseteq Page!Row
  BY PageTable DEF PageRows
<1> QED BY <1>1, <1>2

LEMMA PageOpened ==
  ASSUME PageInv, Page!OpenPage
  PROVE  PageInv'
<1>1. PICK grid : /\ grid \subseteq PageRows /\ PageRows \subseteq Page!Row
                  /\ page' = [Page!NoPage EXCEPT !.at = "verify", !.shown = grid]
  BY GridOfRows DEF PageInv, Page!OpenPage, Page!fetchAudit
<1>2. /\ page'.at = "verify" /\ page'.shown = grid /\ page'.fresh = TRUE
      /\ page' \in PageStates
      /\ UNCHANGED <<table, written, harmed>>
  BY <1>1 DEF Page!NoPage, Page!OpenPage, Page!At, PageStates
<1>3. PageRows' = PageRows /\ Broken(table') = Broken(table)
  BY <1>2 DEF PageRows, Broken
<1> QED BY <1>1, <1>2, <1>3 DEF PageInv, PageType, Linked, Seen, Shown

LEMMA PageVerified ==
  ASSUME PageInv, Page!Verify
  PROVE  PageInv'
<1>1. PICK heard \in BOOLEAN :
        page' = [page EXCEPT !.at = "tip", !.verified = heard /\ Page!VerifyChain(table) = -1]
  BY DEF Page!Verify
<1>2. /\ page.at = "verify" /\ UNCHANGED <<table, written, harmed>>
      /\ page \in PageStates
  BY DEF Page!Verify, Page!At, PageInv, PageType
<1>3. /\ page'.at = "tip" /\ page'.shown = page.shown /\ page'.fresh = page.fresh
      /\ page'.verified \in BOOLEAN
      /\ page'.verified => Page!VerifyChain(table) = -1
      /\ page' \in PageStates
  BY <1>1, <1>2 DEF PageStates
<1>4. PageRows' = PageRows /\ Broken(table') = Broken(table)
  BY <1>2 DEF PageRows, Broken
<1>5. page'.verified => page.shown \subseteq written
  BY <1>2, <1>3, PageFault DEF PageInv, Shown
<1> QED BY <1>2, <1>3, <1>4, <1>5 DEF PageInv, PageType, Linked, Seen, Shown

\* The instance brings a Cardinality of its own.
LEMMA SameCardinality == \A S : Page!Cardinality(S) = Cardinality(S)
BY DEF Page!Cardinality, Cardinality

\* The newest row, if it was read.
LEMMA TipIsNewest ==
  ASSUME PageType, NEW row \in Page!ListAudit(Page!NoFilter, 1)
  PROVE  row \in PageRows /\ \A r \in PageRows : r.id <= row.id
<1> DEFINE own == {table[i] : i \in {j \in DOMAIN table : Page!Matches(table[j], Page!NoFilter)}}
           above == {r \in own : r.id > row.id}
<1>1. own = PageRows
  <2>1. \A j \in DOMAIN table : Page!Matches(table[j], Page!NoFilter)
    BY PageTable DEF Page!Matches, Page!NoFilter
  <2> QED BY <2>1, PageTable DEF PageRows
<1>2. row \in {x \in own : Cardinality({r \in own : r.id > x.id}) < 1}
  <2>1. Page!ListAudit(Page!NoFilter, 1) = {x \in own : Cardinality({r \in own : r.id > x.id}) < 1}
    BY SameCardinality DEF Page!ListAudit
  <2> HIDE DEF own
  <2> QED BY <2>1
<1>3. IsFiniteSet(above)
  <2>1. IsFiniteSet(1..Len(table))
    BY PageTable, FS_Interval
  <2>2. table \in Surjection(1..Len(table), PageRows)
    BY PageTable DEF Surjection, PageRows, PageType
  <2>3. IsFiniteSet(PageRows)
    BY <2>1, <2>2, FS_Surjection
  <2> QED BY <1>1, <2>3, FS_Subset
<1> HIDE DEF own
<1>4. above = {}
  BY <1>2, <1>3, FS_CardinalityType, FS_EmptySet
<1>5. \A r \in PageRows : r.id \in Nat
  BY PageTable DEF PageRows
<1> QED BY <1>1, <1>2, <1>4, <1>5

LEMMA PageTip ==
  ASSUME PageInv, Page!ReadTip
  PROVE  PageInv'
<1>1. PICK tip \in {Page!ListAudit(Page!NoFilter, 1), {}} :
        page' = [page EXCEPT !.at = "shown",
                             !.count = IF tip = {} THEN 0 ELSE (CHOOSE row \in tip : TRUE).id]
  BY DEF Page!ReadTip
<1> DEFINE n == IF tip = {} THEN 0 ELSE (CHOOSE row \in tip : TRUE).id
<1>2. /\ page.at = "tip" /\ UNCHANGED <<table, written, harmed>>
      /\ page \in PageStates
  BY DEF Page!ReadTip, Page!At, PageInv, PageType
<1>3. n = 0 \/ (n \in Nat /\ \A r \in PageRows : r.id <= n)
  <2>1. CASE tip = {}
    BY <2>1
  <2>2. CASE tip # {}
    <3>1. PICK row \in tip : n = row.id
      BY <2>2
    <3>2. row \in PageRows /\ \A r \in PageRows : r.id <= row.id
      BY <2>2, <3>1, TipIsNewest DEF PageInv
    <3>3. row.id \in Nat
      BY <3>2, PageTable DEF PageInv, PageRows
    <3> QED BY <3>1, <3>2, <3>3
  <2> QED BY <2>1, <2>2
<1> HIDE DEF n
<1>4. page' = [page EXCEPT !.at = "shown", !.count = n]
  BY <1>1 DEF n
<1>5. /\ page'.at = "shown" /\ page'.shown = page.shown /\ page'.fresh = page.fresh
      /\ page'.verified = page.verified /\ page'.count = n
      /\ page' \in PageStates
  <2>1. n \in Nat
    BY <1>3
  <2> QED BY <1>2, <1>4, <2>1 DEF PageStates
<1>6. PageRows' = PageRows /\ Broken(table') = Broken(table)
  BY <1>2 DEF PageRows, Broken
<1>7. n # 0 /\ ~harmed => \A row \in page.shown : row.id <= n
  BY <1>3 DEF PageInv, Linked
<1> QED BY <1>2, <1>5, <1>6, <1>7 DEF PageInv, PageType, Linked, Seen, Shown

LEMMA PageFiltered ==
  ASSUME PageInv, Page!FilterGrid
  PROVE  PageInv'
<1>1. PICK grid : /\ grid \subseteq PageRows /\ PageRows \subseteq Page!Row
                  /\ page' = [page EXCEPT !.shown = grid, !.fresh = FALSE]
  BY GridOfRows DEF PageInv, Page!FilterGrid, Page!fetchAudit
<1>2. /\ page.at = "shown" /\ UNCHANGED <<table, written, harmed>>
      /\ page \in PageStates
  BY DEF Page!FilterGrid, Page!At, PageInv, PageType
<1>3. /\ page'.at = "shown" /\ page'.shown = grid /\ page'.fresh = FALSE
      /\ page' \in PageStates
  BY <1>1, <1>2 DEF PageStates
<1>4. PageRows' = PageRows /\ Broken(table') = Broken(table)
  BY <1>2 DEF PageRows, Broken
<1> QED BY <1>1, <1>2, <1>3, <1>4 DEF PageInv, PageType, Linked, Seen, Shown

LEMMA PageSteps == PageInv /\ [Page!Next]_(Page!vars) => PageInv'
<1> SUFFICES ASSUME PageInv, [Page!Next]_(Page!vars) PROVE PageInv'
  OBVIOUS
<1>1. CASE UNCHANGED Page!vars
  <2>1. PageRows' = PageRows /\ Broken(table') = Broken(table) /\ UNCHANGED <<table, written, harmed, page>>
    BY <1>1 DEF Page!vars, PageRows, Broken
  <2> QED BY <2>1 DEF PageInv, PageType, Linked, Seen, Shown
<1>2. CASE Page!Leave
  <2>1. /\ UNCHANGED <<table, written, harmed>>
        /\ page' \in PageStates /\ page'.at = "none" /\ page'.shown = {}
    BY <1>2 DEF Page!Leave, Page!At, Page!NoPage, PageStates
  <2>2. PageRows' = PageRows /\ Broken(table') = Broken(table)
    BY <2>1 DEF PageRows, Broken
  <2> QED BY <2>1, <2>2 DEF PageInv, PageType, Linked, Seen, Shown
<1> QED
  BY <1>1, <1>2, PageArrive, PageHarm, PageOpened, PageVerified, PageTip, PageFiltered DEF Page!Next

\* Tampering is shown, by the verifier and by the page that calls it: in every
\* state of the appenders, and of a page over a table that rows come to and that
\* the storage may harm.
THEOREM TamperSeen == MCSpec => []HarmSeen
<1>1. MCInit => IInv /\ PageInv
  <2> SUFFICES ASSUME MCInit PROVE PageInv
    BY InitIInv DEF MCInit
  <2>1. /\ table = << >> /\ written = {} /\ harmed = FALSE
        /\ page \in PageStates /\ page.at = "none" /\ page.shown = {}
    BY DEF MCInit, Page!Init, Page!NoPage, PageStates
  <2>2. table \in Seq(Page!Row) /\ PageRows = {} /\ ~Broken(table)
    BY <2>1 DEF PageRows, Broken
  <2> QED BY <2>1, <2>2 DEF PageInv, PageType, Linked, Seen, Shown
<1>2. IInv /\ PageInv /\ [MCNext]_<<vars, about, reader>> => IInv' /\ PageInv'
  <2> SUFFICES ASSUME IInv, PageInv, [MCNext]_<<vars, about, reader>> PROVE IInv' /\ PageInv'
    OBVIOUS
  <2>1. [Next]_vars /\ [Page!Next]_(Page!vars)
    BY DEF MCNext, reader, Page!vars
  <2> QED BY <2>1, StepIInv, PageSteps
<1>3. IInv => TamperShown
  BY WindowsVerify, ChangesReported DEF TamperShown
<1>4. PageInv => Page!PageCovered
  BY DEF PageInv, Linked, Shown, Page!PageCovered
<1> QED BY <1>1, <1>2, <1>3, <1>4, PTL DEF MCSpec, HarmSeen

-----------------------------------------------------------------------------
(* The appenders implement AuditLog.                                       *)

LEMMA CommitRecords ==
  ASSUME TypeOK, TailStable, NEW c \in Clients, Commit(c)
  PROVE  AbsLog' = Append(AbsLog, entry[c])
<1>1. /\ Len(rows) \in Nat /\ Len(rows') = Len(rows) + 1
      /\ \A i \in 1..Len(rows) : rows'[i] = rows[i]
      /\ rows'[Len(rows) + 1].entry = entry[c]
  BY CommitAppends DEF TypeOK
<1>2. AbsLog \in Seq(Entries) /\ Len(AbsLog) = Len(rows) /\ entry[c] \in Entries
  <2>1. \A i \in 1..Len(rows) : rows[i].entry \in Entries
    BY RowType DEF Row
  <2> QED BY <1>1, <2>1 DEF AbsLog, TypeOK
<1> DEFINE new == Append(AbsLog, entry[c])
<1>3. /\ new \in Seq(Entries) /\ Len(new) = Len(rows) + 1
      /\ \A i \in 1..Len(rows) : new[i] = AbsLog[i]
      /\ new[Len(rows) + 1] = entry[c]
  BY <1>2
<1>4. new = [i \in 1..(Len(rows) + 1) |-> new[i]]
  BY <1>3
<1> HIDE DEF new
<1>5. \A i \in 1..(Len(rows) + 1) : new[i] = rows'[i].entry
  BY <1>1, <1>3 DEF AbsLog
<1>6. AbsLog' = new
  BY <1>1, <1>4, <1>5 DEF AbsLog
<1> QED BY <1>6 DEF new

LEMMA StepRefines ==
  ASSUME TypeOK, TailStable, [Next]_vars
  PROVE  [Abstract!Next]_(Abstract!vars)
<1> USE DEF Abstract!vars, TypeOK, Stages
<1>1. CASE UNCHANGED vars
  BY <1>1 DEF vars, AbsLog, AbsPhase
<1>2. ASSUME NEW c \in Clients, Begin(c) PROVE Abstract!Submit(c)
  <2>1. AbsLog' = AbsLog
    BY <1>2 DEF Begin, AbsLog
  <2>2. AbsPhase[c] = "idle" /\ AbsPhase' = [AbsPhase EXCEPT ![c] = "submitted"]
    BY <1>2 DEF Begin, AbsPhase
  <2> QED BY <1>2, <2>1, <2>2 DEF Begin, Abstract!Submit
<1>3. ASSUME NEW c \in Clients,
             Lock(c) \/ ReadTail(c) \/ DrawId(c) \/ Insert(c)
      PROVE  UNCHANGED Abstract!vars
  <2>1. UNCHANGED <<AbsLog, entry>>
    BY <1>3 DEF AbsLog, Lock, ReadTail, DrawId, Insert
  <2>2. AbsPhase' = AbsPhase
    BY <1>3 DEF AbsPhase, Lock, ReadTail, DrawId, Insert
  <2> QED BY <2>1, <2>2
<1>4. ASSUME NEW c \in Clients, Commit(c) PROVE Abstract!Record(c)
  <2>1. AbsPhase[c] = "submitted"
    BY <1>4 DEF Commit, AbsPhase
  <2>2. \/ AbsPhase' = [AbsPhase EXCEPT ![c] = "recorded"]
        \/ AbsPhase' = [AbsPhase EXCEPT ![c] = "idle"]
    BY <1>4 DEF Commit, AbsPhase
  <2>3. UNCHANGED entry
    BY <1>4 DEF Commit
  <2> QED BY <1>4, <2>1, <2>2, <2>3, CommitRecords DEF Abstract!Record
<1>5. ASSUME NEW c \in Clients, Return(c) PROVE Abstract!Acknowledge(c)
  <2>1. AbsPhase[c] = "recorded" /\ AbsPhase' = [AbsPhase EXCEPT ![c] = "idle"]
    BY <1>5 DEF Return, AbsPhase
  <2> QED BY <1>5, <2>1 DEF Return, AbsLog, Abstract!Acknowledge
<1>6. ASSUME NEW c \in Clients, Rollback(c) PROVE Abstract!Fail(c)
  <2>1. AbsPhase[c] = "submitted" /\ AbsPhase' = [AbsPhase EXCEPT ![c] = "idle"]
    BY <1>6 DEF Rollback, AbsPhase
  <2> QED BY <1>6, <2>1 DEF Rollback, AbsLog, Abstract!Fail
<1> QED
  BY <1>1, <1>2, <1>3, <1>4, <1>5, <1>6 DEF Next, Step, Statement, Abstract!Next

LEMMA InitRefines == Init => Abstract!Init
<1> SUFFICES ASSUME Init PROVE Abstract!Init
  OBVIOUS
<1>1. AbsLog = << >>
  BY DEF Init, AbsLog
<1>2. AbsPhase = [c \in Clients |-> "idle"]
  BY DEF Init, AbsPhase
<1> QED BY <1>1, <1>2 DEF Init, Abstract!Init

\* Each entry joins the log at most once, while its caller waits for it, and
\* a caller that is answered has been recorded.
THEOREM Refinement == Spec => ImplementsAuditLog
<1>1. IInv /\ [Next]_vars => [Abstract!Next]_(Abstract!vars)
  BY StepRefines DEF IInv
<1> QED
  BY InitRefines, Inductive, <1>1, PTL DEF Spec, ImplementsAuditLog, Abstract!Spec
=============================================================================
