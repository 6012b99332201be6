---------------------------- MODULE IngestProofs ----------------------------
(***************************************************************************)
(* Proofs about Ingest, for any servers, snapshots, row sets and bursts,   *)
(* and about the StatsStore that it writes to, for any tables.             *)
(*                                                                         *)
(* What a collector is told depends on where the handler is, so the        *)
(* invariant relates the two (Handlers): a handler that has not answered   *)
(* has parked nothing, an answer is never taken back, and "normal" is      *)
(* given only when all is stored.  The two bounds of the limiter follow    *)
(* from one account (Account): what a bucket has given out and what it     *)
(* still holds add up to no more than was ever put in, and to at least a   *)
(* whole burst.  Neither bound is inductive without the tokens.            *)
(***************************************************************************)
EXTENDS MCIngest, FiniteSetTheorems, TLAPS

\* Where m's handler is, what it answered and what it left in the tables.
HandlerOf(m) ==
  /\ send[m] = "unsent" => pc[m] = "none"
  /\ pc[m] \in Running \cup {"none"} <=> code[m] = "open"
  /\ pc[m] = "park" <=> reason[m] # "none"
  /\ code[m] = "normal" => stored[m] = Len(Content[m])
  /\ send[m] = "ok" => code[m] = "normal"
  /\ \A why \in Reasons : <<m, why>> \in dlq => code[m] \notin {"open", "normal"}

Handlers == \A m \in Snapshots : HandlerOf(m)

Left(s) == IF tokens[s] = -1 THEN 0 ELSE tokens[s]

\* What went through a server's buckets and what is left in the last one.
AccountOf(s) ==
  /\ admitted[s] + Left(s) <= RateBurst * buckets[s] + refills[s]
  /\ tokens[s] # -1 => RateBurst <= admitted[s] + tokens[s]

Account == \A s \in Servers : AccountOf(s)

IInv == TypeOK /\ Handlers /\ Account /\ LimitedByOwn

-----------------------------------------------------------------------------
LEMMA ContentLengths == \A m \in Snapshots : Len(Content[m]) \in Nat
BY SnapshotsAssumption

LEMMA InitIInv == Init => IInv
<1> SUFFICES ASSUME Init PROVE IInv
  OBVIOUS
<1>1. TypeOK
  BY BucketAssumption, ContentLengths DEF Init, TypeOK, Running, Reasons
<1>2. Handlers
  BY DEF Init, Handlers, HandlerOf, Running
<1>3. Account /\ LimitedByOwn
  BY BucketAssumption DEF Init, Account, AccountOf, Left, LimitedByOwn
<1> QED BY <1>1, <1>2, <1>3 DEF IInv

LEMMA StepTypeOK ==
  ASSUME TypeOK, Handlers, [Next]_vars
  PROVE  TypeOK'
<1> USE BucketAssumption, SnapshotsAssumption, ContentLengths DEF TypeOK, handler, limits
<1>1. CASE UNCHANGED vars
  BY <1>1 DEF vars
<1>2. ASSUME NEW m \in Snapshots, Send(m) \/ SendFails(m) PROVE TypeOK'
  BY <1>2 DEF Send, SendFails, Goto, Running
<1>3. ASSUME NEW m \in Snapshots, Hear(m) PROVE TypeOK'
  BY <1>3 DEF Hear, HearNormal, HearOther, GiveUp
<1>4. ASSUME NEW m \in Snapshots, ReadFails(m) \/ Accept(m) PROVE TypeOK'
  BY <1>4 DEF ReadFails, Accept, Answer, Goto
<1>5. ASSUME NEW m \in Snapshots, ReadMalformed(m) \/ RateLimited(m) PROVE TypeOK'
  BY <1>5 DEF ReadMalformed, RateLimited, ParkFor, Goto, Running, Reasons
<1>6. ASSUME NEW m \in Snapshots, Allow(m) PROVE TypeOK'
  <2>1. ServerOf[m] \in Servers
    OBVIOUS
  <2>2. Available(ServerOf[m]) \in 1..RateBurst /\ NewBucket(ServerOf[m]) \in Nat
    BY <1>6, <2>1 DEF Allow, Bucket, Available, NewBucket
  <2>3. tokens' \in [Servers -> -1..RateBurst]
    BY <1>6, <2>1, <2>2 DEF Allow, Bucket
  <2>4. admitted' \in [Servers -> Nat] /\ buckets' \in [Servers -> Nat]
    BY <1>6, <2>1, <2>2, SMTT(30) DEF Allow, Bucket
  <2> QED BY <1>6, <2>3, <2>4 DEF Allow, Goto, Running
<1>7. ASSUME NEW m \in Snapshots, Write(m) PROVE TypeOK'
  <2>1. stored' = [stored EXCEPT ![m] = @ + 1] /\ stored[m] + 1 <= Len(Content[m])
    BY <1>7 DEF Write
  <2>2. stored' \in [Snapshots -> Nat] /\ \A k \in Snapshots : stored'[k] <= Len(Content[k])
    BY <2>1, SMTT(30)
  <2> QED BY <1>7, <2>2 DEF Write
<1>8. ASSUME NEW m \in Snapshots, WriteFails(m) PROVE TypeOK'
  <2>1. PICK n \in {0, 1} : stored' = [stored EXCEPT ![m] = @ + n]
    BY <1>8 DEF WriteFails
  <2>2. stored[m] + n <= Len(Content[m])
    BY <1>8 DEF WriteFails
  <2>3. stored' \in [Snapshots -> Nat] /\ \A k \in Snapshots : stored'[k] <= Len(Content[k])
    BY <2>1, <2>2, SMTT(30)
  <2> QED BY <1>8, <2>3 DEF WriteFails, ParkFor, Goto, Running, Reasons
<1>9. ASSUME NEW m \in Snapshots, Park(m) \/ ParkFails(m) PROVE TypeOK'
  <2>1. reason[m] \in Reasons
    BY <1>9 DEF Park, ParkFails, Handlers, HandlerOf
  <2>2. CloseCode(m) \in {"bad_payload", "try_again", "internal"}
    BY <2>1 DEF CloseCode, Reasons
  <2>3. dlq' \subseteq Snapshots \X Reasons
    BY <1>9, <2>1 DEF Park, ParkFails
  <2>4. code' \in [Snapshots -> {"open", "normal", "try_again", "bad_payload",
                                 "internal", "dropped"}]
    BY <1>9, <2>2 DEF Park, ParkFails, Answer
  <2> QED BY <1>9, <2>3, <2>4 DEF Park, ParkFails, Answer, Goto
<1>10. ASSUME NEW m \in Snapshots, Expire(m) PROVE TypeOK'
  BY <1>10 DEF Expire
<1>11. ASSUME NEW s \in Servers, Refill(s) PROVE TypeOK'
  BY <1>11, SMTT(30) DEF Refill
<1>12. CASE Restart
  <2>1. /\ pc' \in [Snapshots -> Running \cup {"none", "done"}]
        /\ code' \in [Snapshots -> {"open", "normal", "try_again", "bad_payload",
                                  "internal", "dropped"}]
    BY <1>12 DEF Restart
  <2>2. reason' \in [Snapshots -> Reasons \cup {"none"}]
    BY <1>12 DEF Restart
  <2>3. expired' \in [Snapshots -> BOOLEAN] /\ tokens' \in [Servers -> -1..RateBurst]
    BY <1>12 DEF Restart
  <2> QED BY <1>12, <2>1, <2>2, <2>3 DEF Restart
<1> QED
  BY <1>1, <1>2, <1>3, <1>4, <1>5, <1>6, <1>7, <1>8, <1>9, <1>10, <1>11, <1>12
     DEF Next, Handle

-----------------------------------------------------------------------------
(* What the sender is told.                                                *)

\* A step of m's sender or handler leaves the others alone.
LEMMA OthersUntouched ==
  ASSUME TypeOK, NEW m \in Snapshots, NEW k \in Snapshots \ {m},
         Send(m) \/ SendFails(m) \/ Hear(m) \/ Handle(m) \/ Expire(m)
  PROVE  /\ send'[k] = send[k] /\ pc'[k] = pc[k] /\ code'[k] = code[k]
         /\ reason'[k] = reason[k] /\ stored'[k] = stored[k]
         /\ \A why \in Reasons : <<k, why>> \in dlq' <=> <<k, why>> \in dlq
<1> USE DEF TypeOK, handler, limits, Goto, Answer, ParkFor
<1>1. CASE Send(m) \/ SendFails(m) \/ Hear(m) \/ Expire(m)
  BY <1>1 DEF Send, SendFails, Hear, HearNormal, HearOther, GiveUp, Expire
<1>2. CASE ReadFails(m) \/ ReadMalformed(m) \/ Allow(m) \/ RateLimited(m) \/ Accept(m)
  BY <1>2 DEF ReadFails, ReadMalformed, Allow, RateLimited, Accept
<1>3. CASE Write(m) \/ WriteFails(m)
  BY <1>3 DEF Write, WriteFails
<1>4. CASE Park(m) \/ ParkFails(m)
  BY <1>4 DEF Park, ParkFails
<1> QED BY <1>1, <1>2, <1>3, <1>4 DEF Handle

\* Answers and parked rows follow the handler's place.
LEMMA StepHandlers ==
  ASSUME TypeOK, Handlers, [Next]_vars
  PROVE  Handlers'
<1> USE ContentLengths DEF HandlerOf, Running, Reasons, handler, limits
<1>1. CASE UNCHANGED vars
  BY <1>1 DEF vars, Handlers
<1>2. ASSUME NEW m \in Snapshots,
             Send(m) \/ SendFails(m) \/ Hear(m) \/ Handle(m) \/ Expire(m),
             HandlerOf(m)'
      PROVE  Handlers'
  <2>1. ASSUME NEW k \in Snapshots, k # m PROVE HandlerOf(k)'
    <3>1. HandlerOf(k)
      BY DEF Handlers
    <3>2. /\ send'[k] = send[k] /\ pc'[k] = pc[k] /\ code'[k] = code[k]
          /\ reason'[k] = reason[k] /\ stored'[k] = stored[k]
          /\ \A why \in Reasons : <<k, why>> \in dlq' <=> <<k, why>> \in dlq
      BY <1>2, <2>1, OthersUntouched
    <3> QED BY <3>1, <3>2
  <2> HIDE DEF HandlerOf
  <2> QED BY <1>2, <2>1 DEF Handlers
<1>3. ASSUME NEW m \in Snapshots,
             Send(m) \/ SendFails(m) \/ Hear(m) \/ Handle(m) \/ Expire(m)
      PROVE  HandlerOf(m)'
  <2> USE DEF Handlers, TypeOK, Goto
  <2>1. CASE Send(m) \/ SendFails(m)
    BY <2>1 DEF Send, SendFails
  <2>2. CASE Hear(m)
    BY <2>2 DEF Hear, HearNormal, HearOther, GiveUp
  <2>3. CASE ReadFails(m)
    BY <2>3 DEF ReadFails, Answer
  <2>4. CASE Accept(m)
    BY <2>4 DEF Accept, Answer, Persisted
  <2>5. CASE ReadMalformed(m) \/ RateLimited(m)
    BY <2>5 DEF ReadMalformed, RateLimited, ParkFor
  <2>6. CASE Allow(m)
    BY <2>6 DEF Allow
  <2>7. CASE Write(m)
    BY <2>7 DEF Write
  <2>8. CASE WriteFails(m)
    BY <2>8 DEF WriteFails, ParkFor
  <2>9. CASE Park(m) \/ ParkFails(m)
    <3>1. CloseCode(m) \in {"bad_payload", "try_again", "internal"}
      BY <2>9 DEF Park, ParkFails, CloseCode
    <3>2. /\ pc'[m] = "done" /\ code'[m] = CloseCode(m) /\ reason'[m] = "none"
          /\ send'[m] = send[m] /\ send[m] # "ok" /\ send[m] # "unsent"
      BY <2>9 DEF Park, ParkFails, Answer
    <3> QED BY <3>1, <3>2
  <2>10. CASE Expire(m)
    BY <2>10 DEF Expire
  <2> QED
    BY <1>3, <2>1, <2>2, <2>3, <2>4, <2>5, <2>6, <2>7, <2>8, <2>9, <2>10 DEF Handle
<1>4. ASSUME NEW s \in Servers, Refill(s) PROVE Handlers'
  BY <1>4 DEF Refill, Handlers
<1>5. CASE Restart
  BY <1>5 DEF Restart, Handlers, TypeOK
<1> QED
  BY <1>1, <1>2, <1>3, <1>4, <1>5 DEF Next

-----------------------------------------------------------------------------
(* The limiter.                                                            *)

\* Only these steps touch the account.
LEMMA LimitsChange ==
  ASSUME [Next]_vars
  PROVE  \/ UNCHANGED limits
         \/ \E m \in Snapshots : Allow(m)
         \/ \E s \in Servers : Refill(s)
         \/ Restart
BY DEF Next, vars, limits, Hear, Handle, Send, SendFails, HearNormal, HearOther, GiveUp,
       ReadFails, ReadMalformed, RateLimited, Write, WriteFails, Accept, Park, ParkFails,
       Expire

\* A new bucket adds a whole burst to what was put in.
LEMMA NewBurst ==
  ASSUME NEW b \in Nat
  PROVE  RateBurst * b \in Nat /\ RateBurst * (b + 1) = RateBurst * b + RateBurst
BY BucketAssumption

LEMMA StepAccount ==
  ASSUME TypeOK, Account, [Next]_vars
  PROVE  Account'
<1> USE BucketAssumption, SnapshotsAssumption DEF TypeOK, AccountOf, Left
<1>1. CASE UNCHANGED limits
  BY <1>1 DEF limits, Account
<1>2. ASSUME NEW m \in Snapshots, Allow(m) PROVE Account'
  <2>1. PICK s \in Servers : s = ServerOf[m]
    OBVIOUS
  <2>2. /\ tokens'[s] = Available(s) - 1 /\ admitted'[s] = admitted[s] + 1
        /\ buckets'[s] = buckets[s] + NewBucket(s) /\ refills'[s] = refills[s]
        /\ Available(s) \in 1..RateBurst
    BY <1>2, <2>1 DEF Allow, Bucket, Available
  <2>3. \A t \in Servers \ {s} :
          /\ tokens'[t] = tokens[t] /\ admitted'[t] = admitted[t]
          /\ buckets'[t] = buckets[t] /\ refills'[t] = refills[t]
    BY <1>2, <2>1 DEF Allow, Bucket
  <2>4. \A t \in Servers \ {s} : AccountOf(t)'
    BY <2>3 DEF Account
  <2>5. CASE tokens[s] = -1
    <3>1. RateBurst * buckets'[s] = RateBurst * buckets[s] + RateBurst
          /\ RateBurst * buckets[s] \in Nat
      BY <2>1, <2>2, <2>5, NewBurst DEF NewBucket
    <3>2. /\ tokens'[s] = RateBurst - 1
          /\ admitted[s] <= RateBurst * buckets[s] + refills[s]
      BY <2>1, <2>2, <2>5, NewBurst DEF Available, Account
    <3>3. admitted[s] + 1 + (RateBurst - 1)
            <= RateBurst * buckets[s] + RateBurst + refills[s]
      BY <2>1, <3>1, <3>2, SMTT(30)
    <3>4. Left(s)' = RateBurst - 1 /\ RateBurst <= admitted[s] + 1 + (RateBurst - 1)
      BY <2>1, <3>2
    <3>5. AccountOf(s)'
      BY <2>2, <3>1, <3>2, <3>3, <3>4
    <3> QED BY <2>4, <3>5 DEF Account
  <2>6. CASE tokens[s] # -1
    <3>1. tokens'[s] = tokens[s] - 1 /\ buckets'[s] = buckets[s]
      BY <2>1, <2>2, <2>6 DEF Available, NewBucket
    <3>2. RateBurst * buckets[s] \in Nat /\ AccountOf(s)
      BY <2>1, NewBurst DEF Account
    <3>3. AccountOf(s)'
      BY <2>1, <2>2, <2>6, <3>1, <3>2, SMTT(30)
    <3> QED BY <2>4, <3>3 DEF Account
  <2> QED BY <2>5, <2>6
<1>3. ASSUME NEW s \in Servers, Refill(s) PROVE Account'
  <2>1. /\ tokens'[s] = tokens[s] + 1 /\ tokens[s] # -1 /\ refills'[s] = refills[s] + 1
        /\ admitted' = admitted /\ buckets' = buckets
        /\ \A t \in Servers \ {s} : tokens'[t] = tokens[t] /\ refills'[t] = refills[t]
    BY <1>3 DEF Refill
  <2>2. \A t \in Servers \ {s} : AccountOf(t)'
    BY <2>1 DEF Account
  <2>3. RateBurst * buckets[s] \in Nat /\ AccountOf(s)
    BY NewBurst DEF Account
  <2>4. AccountOf(s)'
    BY <2>1, <2>3, SMTT(30)
  <2> QED BY <2>2, <2>4 DEF Account
<1>4. CASE Restart
  <2> SUFFICES ASSUME NEW s \in Servers PROVE AccountOf(s)'
    BY DEF Account
  <2>1. RateBurst * buckets[s] \in Nat /\ AccountOf(s) /\ Left(s) \in Nat
    BY NewBurst DEF Account
  <2>2. /\ tokens'[s] = -1 /\ admitted'[s] = admitted[s]
        /\ refills'[s] = refills[s] /\ buckets'[s] = buckets[s]
    BY <1>4 DEF Restart
  <2> QED BY <2>1, <2>2
<1> QED BY <1>1, <1>2, <1>3, <1>4, LimitsChange

\* Who is turned away met an empty bucket, and an empty bucket gave out a burst.
LEMMA StepLimitedByOwn ==
  ASSUME TypeOK, Handlers, Account, LimitedByOwn, [Next]_vars
  PROVE  LimitedByOwn'
<1> USE SnapshotsAssumption DEF LimitedByOwn
<1>1. ASSUME NEW s \in Servers PROVE admitted'[s] >= admitted[s] /\ {admitted[s], admitted'[s]} \subseteq Nat
  <2>1. CASE UNCHANGED limits
    BY <2>1 DEF limits, TypeOK
  <2>2. ASSUME NEW m \in Snapshots, Allow(m) PROVE admitted'[s] >= admitted[s]
    BY <2>2 DEF Allow, TypeOK
  <2>3. CASE Restart \/ \E t \in Servers : Refill(t)
    BY <2>3 DEF Restart, Refill, TypeOK
  <2>4. {admitted[s], admitted'[s]} \subseteq Nat
    BY StepTypeOK, SMTT(30) DEF TypeOK
  <2> QED BY <2>1, <2>2, <2>3, <2>4, LimitsChange
<1>2. ASSUME NEW m \in Snapshots,
             <<m, "rate_limited">> \in dlq' \/ reason'[m] = "rate_limited"
      PROVE  \/ <<m, "rate_limited">> \in dlq \/ reason[m] = "rate_limited"
             \/ RateLimited(m)
  <2> USE DEF TypeOK, Running, handler, limits
  <2>1. CASE UNCHANGED <<reason, dlq>>
    BY <1>2, <2>1
  <2>2. ASSUME NEW d \in Snapshots, ReadMalformed(d) \/ WriteFails(d)
        PROVE  reason[m] = "rate_limited" \/ <<m, "rate_limited">> \in dlq
    BY <1>2, <2>2 DEF ReadMalformed, WriteFails, ParkFor
  <2>3. ASSUME NEW d \in Snapshots, RateLimited(d)
        PROVE  reason[m] = "rate_limited" \/ <<m, "rate_limited">> \in dlq \/ d = m
    BY <1>2, <2>3 DEF RateLimited, ParkFor
  <2>4. ASSUME NEW d \in Snapshots, Park(d) \/ ParkFails(d)
        PROVE  reason[m] = "rate_limited" \/ <<m, "rate_limited">> \in dlq
    BY <1>2, <2>4 DEF Park, ParkFails
  <2>5. CASE Restart
    BY <1>2, <2>5 DEF Restart
  <2> QED
    BY <2>1, <2>2, <2>3, <2>4, <2>5
       DEF Next, vars, Hear, Handle, Send, SendFails, HearNormal, HearOther, GiveUp,
           ReadFails, Allow, Write, Accept, Expire, Refill
<1>3. ASSUME NEW m \in Snapshots, RateLimited(m) PROVE admitted[ServerOf[m]] >= RateBurst
  BY <1>3, BucketAssumption DEF RateLimited, Bucket, Available, Account, AccountOf, TypeOK
<1> SUFFICES ASSUME NEW m \in Snapshots,
                    <<m, "rate_limited">> \in dlq' \/ reason'[m] = "rate_limited"
             PROVE  admitted'[ServerOf[m]] >= RateBurst
  OBVIOUS
<1>4. ServerOf[m] \in Servers /\ admitted[ServerOf[m]] >= RateBurst
  BY <1>2, <1>3
<1> QED BY <1>1, <1>4, BucketAssumption

-----------------------------------------------------------------------------
\* Every reachable state satisfies the inductive invariant.
THEOREM Inductive == Spec => []IInv
<1>1. IInv /\ [Next]_vars => IInv'
  BY StepTypeOK, StepHandlers, StepAccount, StepLimitedByOwn DEF IInv
<1> QED BY InitIInv, <1>1, PTL DEF Spec

\* Type correctness of connections, tables and limiters.
THEOREM TypeCorrect == Spec => []TypeOK
BY Inductive, PTL DEF IInv

\* A delivered snapshot is stored whole, and is not parked as well, whatever
\* write fails, deadline passes or restart kills which handler.
THEOREM Delivered == Spec => []AckOrPark
<1>1. IInv => AckOrPark
  BY DEF IInv, Handlers, HandlerOf, AckOrPark
<1> QED BY Inductive, <1>1, PTL

\* No server gets more through than its own buckets held, and none is turned
\* away before it used a burst of its own.
THEOREM Limited == Spec => []RateBounded
<1>1. IInv => RateBounded
  <2> SUFFICES ASSUME IInv, NEW s \in Servers
               PROVE  admitted[s] <= RateBurst * buckets[s] + refills[s]
    BY DEF IInv, RateBounded
  <2>1. Left(s) \in Nat /\ admitted[s] \in Nat /\ refills[s] \in Nat
        /\ RateBurst * buckets[s] \in Nat
    BY BucketAssumption, NewBurst DEF IInv, TypeOK, Left
  <2> QED BY <2>1 DEF IInv, Account, AccountOf
<1> QED BY Inductive, <1>1, PTL

-----------------------------------------------------------------------------
(* The hand-over implements Delivery.                                      *)

LEMMA InitRefines == Init => Abstract!Init
BY DEF Init, Fate, Abstract!Init

\* A sender's step is a step of its call, a write one of the store, and all
\* that the handler does besides is hidden.
LEMMA StepRefines ==
  ASSUME TypeOK, Handlers, [Next]_vars
  PROVE  [Abstract!Next]_<<Fate, stored>>
<1> USE ContentLengths DEF TypeOK, Running, handler, limits
<1>1. CASE UNCHANGED <<send, stored>>
  BY <1>1 DEF Fate
<1>2. ASSUME NEW m \in Snapshots, Send(m) PROVE Abstract!Send(m)
  BY <1>2 DEF Send, Fate, Abstract!Send
<1>3. ASSUME NEW m \in Snapshots, SendFails(m) PROVE Abstract!Fail(m)
  BY <1>3 DEF SendFails, Fate, Abstract!Fail
<1>4. ASSUME NEW m \in Snapshots, HearNormal(m) PROVE Abstract!Succeed(m)
  BY <1>4 DEF HearNormal, Fate, Handlers, HandlerOf, Abstract!Succeed
<1>5. ASSUME NEW m \in Snapshots, HearOther(m) \/ GiveUp(m) PROVE Abstract!Fail(m)
  BY <1>5 DEF HearOther, GiveUp, Fate, Abstract!Fail
<1>6. ASSUME NEW m \in Snapshots, Write(m) \/ WriteFails(m)
      PROVE  Abstract!Store(m) \/ UNCHANGED <<Fate, stored>>
  <2>1. pc[m] = "persist" /\ stored[m] < Len(Content[m])
    BY <1>6 DEF Write, WriteFails
  <2>2. Fate[m] \in {"sending", "failed"} /\ Fate' = Fate
    <3>1. send' = send
      BY <1>6 DEF Write, WriteFails
    <3>2. send[m] \in {"sent", "failed"}
      BY <2>1 DEF Handlers, HandlerOf
    <3> QED BY <3>1, <3>2 DEF Fate
  <2>3. stored' = [stored EXCEPT ![m] = @ + 1] \/ stored' = stored
    BY <1>6 DEF Write, WriteFails
  <2> QED BY <2>1, <2>2, <2>3 DEF Abstract!Store
<1> QED
  BY <1>1, <1>2, <1>3, <1>4, <1>5, <1>6
     DEF Next, vars, Hear, Handle, ReadFails, ReadMalformed, Allow, RateLimited, Accept,
         Park, ParkFails, Expire, Refill, Restart, Abstract!Next

\* The collector may take Send for an atomic hand-over with an ambiguous error.
THEOREM Refinement == Spec => ImplementsDelivery
<1>1. IInv /\ [Next]_vars => [Abstract!Next]_<<Fate, stored>>
  BY StepRefines DEF IInv
<1> QED
  BY InitRefines, Inductive, <1>1, PTL DEF Spec, ImplementsDelivery, Abstract!Spec
-----------------------------------------------------------------------------
(* The store that snapshots are written to, for any servers, tables,       *)
(* observations and retention.  The tables of two snapshots fill in any    *)
(* order, and so what a read finds newest is not what was written last.    *)
(* What holds throughout: a row is of a snapshot that has it (OfSnapshots) *)
(* and comes and goes with its batch (Whole), which is there while it is   *)
(* kept (Kept); and no two snapshots of a table are of one moment          *)
(* (Moments).                                                              *)

\* The tables of which the newest rows are read.
Sighted == {"table_stats", "index_stats", "freeze_ages", "settings",
            "xmin_horizon", "connection_samples", "blocking_edges"}

StoreAssumption ==
  /\ TTL \in Nat
  /\ \A d \in Domains \cap Sighted, k, l \in Store!Kinds : \A b \in Observations[k], c \in Observations[l] :
       b[d] # {} /\ c[d] # {} => k = l

Snaps == [server : Servers, kind : Store!Kinds, at : Nat,
          content : UNION {Observations[k] : k \in Store!Kinds}, calls : Nat]

StoreType ==
  /\ now \in Nat /\ calls \in [Servers -> Nat]
  /\ snaps \in Seq(Snaps)
  /\ \A m \in 1..Len(snaps) : snaps[m].at <= now /\ snaps[m].content \in Observations[snaps[m].kind]
  /\ \A w \in written : w[1] \in 1..Len(snaps)

Moments ==
  \A m, n \in 1..Len(snaps) :
    snaps[m].server = snaps[n].server /\ snaps[m].kind = snaps[n].kind /\ snaps[m].at = snaps[n].at => m = n

OfSnapshots ==
  \A r \in rows : r.table \in Sighted => r.from \in 1..Len(snaps) /\ r \in Store!RowsOf(r.from, r.table, 1)

Whole ==
  \A m \in 1..Len(snaps), d \in Sighted :
    Store!RowsOf(m, d, 1) \cap rows # {} => Store!RowsOf(m, d, 1) \subseteq rows

Kept ==
  \A m \in 1..Len(snaps), d \in Sighted : Store!Stored(m, d) => Store!RowsOf(m, d, 1) \subseteq rows

StoreInv == StoreType /\ Moments /\ OfSnapshots /\ Whole /\ Kept

LEMMA SightedTables == Sighted = Store!PerKey \cup Store!Batched
BY DEF Sighted, Store!PerKey, Store!Batched

LEMMA StoreAssumed == StoreAssumption
BY TTLAssumption, KindsAssumption, SightedTables DEF StoreAssumption

LEMMA RowFacts ==
  ASSUME NEW m, NEW d, NEW r \in Store!RowsOf(m, d, 1)
  PROVE  /\ r.table = d /\ r.server = snaps[m].server /\ r.at = snaps[m].at /\ r.from = m
         /\ r.tier = 1 /\ r.key \in snaps[m].content[d]
         /\ r = [table |-> d, server |-> snaps[m].server, at |-> snaps[m].at, key |-> r.key,
                 calls |-> snaps[m].calls, tier |-> 1, from |-> m]
BY DEF Store!RowsOf

LEMMA SnapFacts ==
  ASSUME StoreType
  PROVE  /\ Len(snaps) \in Nat /\ DOMAIN snaps = 1..Len(snaps)
         /\ \A m \in 1..Len(snaps) :
              /\ snaps[m] \in Snaps /\ snaps[m].at \in Nat /\ snaps[m].at <= now
              /\ snaps[m].kind \in Store!Kinds /\ snaps[m].content \in Observations[snaps[m].kind]
<1>1. snaps \in Seq(Snaps)
  BY DEF StoreType
<1>2. \A m \in 1..Len(snaps) : snaps[m] \in Snaps
  BY <1>1
<1> QED BY <1>1, <1>2 DEF StoreType, Snaps

\* A number that is the greatest.
LEMMA Newest ==
  ASSUME NEW n \in Nat, NEW S \in SUBSET (0..n), S # {}
  PROVE  \E x \in S : \A y \in S : y <= x
<1> DEFINE T == {n - x : x \in S}
           R == OpToRel(<, Nat)
<1>1. T \in SUBSET Nat /\ T # {}
  <2>1. \A x \in S : n - x \in Nat
    OBVIOUS
  <2>2. PICK x : x \in S
    OBVIOUS
  <2>3. n - x \in T
    BY <2>2
  <2> QED BY <2>1, <2>3
<1>2. PICK m \in T : \A j \in T : ~(<<j, m>> \in R)
  BY <1>1, NatLessThanWellFounded, WFMin
<1>3. \A j \in T : ~(j < m)
  BY <1>1, <1>2 DEF OpToRel
<1>4. PICK x \in S : m = n - x
  OBVIOUS
<1>5. ASSUME NEW y \in S PROVE y <= x
  <2>1. n - y \in T /\ n - y \in Int /\ m \in Int /\ x \in Int /\ y \in Int
    BY <1>4
  <2>2. ~(n - y < m)
    BY <1>3, <2>1
  <2> QED BY <1>4, <2>1, <2>2
<1> QED BY <1>5

LEMMA StoreRests ==
  ASSUME StoreAssumption, StoreInv, UNCHANGED <<snaps, written, rows>>,
         now' \in {now, now + 1}, calls' \in [Servers -> Nat]
  PROVE  StoreInv'
<1>1. \A m, d : Store!RowsOf(m, d, 1)' = Store!RowsOf(m, d, 1)
  BY DEF Store!RowsOf
<1>2. StoreType'
  <2>1. now \in Nat /\ now' \in Nat /\ now <= now'
    BY DEF StoreInv, StoreType
  <2>2. \A m \in 1..Len(snaps) : snaps[m].at \in Nat /\ snaps[m].at <= now'
    BY <2>1, SnapFacts DEF StoreInv
  <2> QED BY <2>1, <2>2 DEF StoreInv, StoreType
<1>3. Moments' /\ OfSnapshots' /\ Whole'
  BY <1>1 DEF StoreInv, Moments, OfSnapshots, Whole
<1>4. Kept'
  <2>1. ASSUME NEW m \in 1..Len(snaps), NEW d, Store!Stored(m, d)' PROVE Store!Stored(m, d)
    <3>1. snaps[m].at \in Nat /\ now \in Nat /\ TTL \in Nat
      BY SnapFacts DEF StoreInv, StoreType, StoreAssumption
    <3> QED BY <2>1, <3>1 DEF Store!Stored
  <2> QED BY <1>1, <2>1 DEF StoreInv, Kept
<1> QED BY <1>2, <1>3, <1>4 DEF StoreInv

LEMMA StoreCollects ==
  ASSUME StoreAssumption, StoreInv, NEW s \in Servers, NEW kind \in Store!Kinds,
         NEW c \in Observations[kind], Store!Collect(s, kind, c)
  PROVE  StoreInv'
<1>0. PICK n : n = Len(snaps) + 1
  OBVIOUS
<1> DEFINE new == [server |-> s, kind |-> kind, at |-> now, content |-> c, calls |-> calls[s]]
<1>1. /\ snaps' = Append(snaps, new) /\ UNCHANGED <<now, calls, written, rows>>
      /\ \A m \in 1..Len(snaps) : ~(snaps[m].server = s /\ snaps[m].kind = kind /\ snaps[m].at = now)
  BY DEF Store!Collect, Store!Taken
<1>2. /\ new \in Snaps /\ now \in Nat /\ new.server = s /\ new.kind = kind /\ new.at = now /\ new.content = c
  BY DEF StoreInv, StoreType, Snaps
<1> HIDE DEF new
<1>3. /\ snaps' \in Seq(Snaps) /\ Len(snaps) \in Nat /\ Len(snaps') = n /\ snaps'[n] = new
      /\ \A m \in 1..Len(snaps) : snaps'[m] = snaps[m]
      /\ 1..n = (1..Len(snaps)) \cup {n} /\ n \notin 1..Len(snaps)
  BY <1>0, <1>1, <1>2 DEF StoreInv, StoreType
<1>4. StoreType'
  <2>1. \A m \in 1..n : snaps'[m].at <= now /\ snaps'[m].content \in Observations[snaps'[m].kind]
    <3>1. ASSUME NEW m \in 1..Len(snaps)
          PROVE  snaps'[m].at <= now /\ snaps'[m].content \in Observations[snaps'[m].kind]
      BY <1>3 DEF StoreInv, StoreType
    <3>2. snaps'[n].at <= now /\ snaps'[n].content \in Observations[snaps'[n].kind]
      BY <1>2, <1>3
    <3> QED BY <1>3, <3>1, <3>2
  <2>2. \A w \in written : w[1] \in 1..n
    BY <1>3 DEF StoreInv, StoreType
  <2> QED BY <1>1, <1>3, <2>1, <2>2 DEF StoreInv, StoreType
<1>5. Moments'
  <2>1. ASSUME NEW m \in 1..n, NEW o \in 1..n, snaps'[m].server = snaps'[o].server,
               snaps'[m].kind = snaps'[o].kind, snaps'[m].at = snaps'[o].at
        PROVE  m = o
    <3>1. CASE m \in 1..Len(snaps) /\ o \in 1..Len(snaps)
      BY <1>3, <2>1, <3>1 DEF StoreInv, Moments
    <3>2. CASE m = n /\ o \in 1..Len(snaps)
      BY <1>1, <1>2, <1>3, <2>1, <3>2
    <3>3. CASE o = n /\ m \in 1..Len(snaps)
      BY <1>1, <1>2, <1>3, <2>1, <3>3
    <3>4. CASE m = n /\ o = n
      BY <3>4
    <3> QED BY <1>3, <3>1, <3>2, <3>3, <3>4
  <2> QED BY <1>3, <2>1 DEF Moments
<1>6. \A m \in 1..Len(snaps) : \A d : Store!RowsOf(m, d, 1)' = Store!RowsOf(m, d, 1)
  BY <1>3 DEF Store!RowsOf
<1>7. OfSnapshots'
  BY <1>1, <1>3, <1>6 DEF StoreInv, OfSnapshots
\* The new snapshot has no rows yet.
<1>8. \A d \in Sighted : Store!RowsOf(n, d, 1)' \cap rows = {}
  <2>1. ASSUME NEW d \in Sighted, NEW r \in rows, r \in Store!RowsOf(n, d, 1)' PROVE FALSE
    <3>1. r.table = d /\ r.from = n
      BY <2>1 DEF Store!RowsOf
    <3> QED BY <1>3, <2>1, <3>1 DEF StoreInv, OfSnapshots
  <2> QED BY <2>1
<1>9. Whole'
  <2>1. ASSUME NEW m \in 1..n, NEW d \in Sighted, Store!RowsOf(m, d, 1)' \cap rows # {}
        PROVE  Store!RowsOf(m, d, 1)' \subseteq rows
    <3>1. m \in 1..Len(snaps)
      BY <1>3, <1>8, <2>1
    <3> QED BY <1>6, <2>1, <3>1 DEF StoreInv, Whole
  <2> QED BY <1>1, <1>3, <2>1 DEF Whole
<1>10. Kept'
  <2>1. ASSUME NEW m \in 1..n, NEW d \in Sighted, Store!Stored(m, d)'
        PROVE  Store!RowsOf(m, d, 1)' \subseteq rows
    <3>1. <<m, d>> \in written /\ now - snaps'[m].at <= TTL
      BY <1>1, <2>1 DEF Store!Stored
    <3>2. m \in 1..Len(snaps)
      BY <3>1 DEF StoreInv, StoreType
    <3>3. Store!Stored(m, d)
      BY <1>3, <3>1, <3>2 DEF Store!Stored
    <3> QED BY <1>6, <3>2, <3>3 DEF StoreInv, Kept
  <2> QED BY <1>1, <1>3, <2>1 DEF Kept
<1> QED BY <1>4, <1>5, <1>7, <1>9, <1>10 DEF StoreInv

\* Only the batch of a table of which the newest is read changes what is read.
LEMMA StoreInserts ==
  ASSUME StoreAssumption, StoreInv, NEW m \in 1..Len(snaps), Store!Write(m) \/ Store!WriteFails(m)
  PROVE  StoreInv'
<1>2. UNCHANGED <<now, calls, snaps>>
  BY DEF Store!Write, Store!WriteFails
<1>3. \A n, d : Store!RowsOf(n, d, 1)' = Store!RowsOf(n, d, 1)
  BY <1>2 DEF Store!RowsOf
<1>4. \E e, more :
        /\ rows' = rows \cup more
        /\ \/ e \in Sighted /\ more = Store!RowsOf(m, e, 1)
           \/ \A r \in more : r.table \notin Sighted
        /\ \/ written' = written \cup {<<m, e>>} /\ (e \in Sighted => more = Store!RowsOf(m, e, 1))
           \/ written' = written
  <2>1. ASSUME NEW e, Store!Insert(m, e), written' = written \cup {<<m, e>>}
        PROVE  \E more :
                 /\ rows' = rows \cup more
                 /\ \/ e \in Sighted /\ more = Store!RowsOf(m, e, 1)
                    \/ \A r \in more : r.table \notin Sighted
                 /\ e \in Sighted => more = Store!RowsOf(m, e, 1)
    <3>1. CASE e = "schema_objects"
      <4>1. rows' = rows \cup {} /\ e \notin Sighted
        BY <2>1, <3>1 DEF Store!Insert, Sighted
      <4> QED BY <4>1
    <3>2. CASE e \in Sighted
      <4>1. Store!Batch(m, e) = Store!RowsOf(m, e, 1) /\ e # "schema_objects" /\ e # "query_stats_t2"
        BY <3>2 DEF Store!Batch, Sighted
      <4>2. Store!Inserted(Store!RowsOf(m, e, 1)) = Store!RowsOf(m, e, 1)
        <5>1. \A r \in Store!RowsOf(m, e, 1) : r.table # "query_stats_t2"
          BY <4>1, RowFacts
        <5> QED BY <5>1 DEF Store!Inserted
      <4>3. rows' = rows \cup Store!RowsOf(m, e, 1)
        BY <2>1, <4>1, <4>2 DEF Store!Insert
      <4> QED BY <3>2, <4>3
    <3>3. CASE e # "schema_objects" /\ e \notin Sighted
      <4>1. rows' = rows \cup Store!Inserted(Store!Batch(m, e))
        BY <2>1, <3>3 DEF Store!Insert
      <4>2. ASSUME NEW r \in Store!Batch(m, e) PROVE r.table = e \/ r.table = "query_stats_t2" \/ r.table = "query_stats"
        BY <4>2 DEF Store!Batch, Store!snapshotToRows, Store!snapshotToRawRows, Store!RowsOf
      <4>3. ASSUME NEW r \in Store!Inserted(Store!Batch(m, e)) PROVE r.table \notin Sighted
        <5>1. CASE r \in Store!Batch(m, e)
          BY <3>3, <4>2, <5>1 DEF Sighted
        <5>2. CASE r \notin Store!Batch(m, e)
          <6>1. PICK x \in Store!Batch(m, e) : r = [x EXCEPT !.table = "query_stats", !.tier = 1]
            BY <4>3, <5>2 DEF Store!Inserted, Store!Projected
          <6>2. PICK d, u, k : x = [table |-> d, server |-> snaps[m].server, at |-> snaps[m].at,
                                    key |-> k, calls |-> snaps[m].calls, tier |-> u, from |-> m]
            BY <6>1 DEF Store!Batch, Store!snapshotToRows, Store!snapshotToRawRows, Store!RowsOf
          <6> QED BY <6>1, <6>2 DEF Sighted
        <5> QED BY <5>1, <5>2
      <4> QED BY <3>3, <4>1, <4>3
    <3> QED BY <3>1, <3>2, <3>3
  <2>2. CASE Store!Write(m)
    <3>1. PICK e : Store!Insert(m, e) /\ written' = written \cup {<<m, e>>}
      BY <2>2 DEF Store!Write
    <3> QED BY <2>1, <3>1
  <2>3. CASE Store!WriteFails(m)
    <3>1. \A r \in Store!snapshotToRawRows(m) : r.table \notin Sighted
      BY DEF Store!snapshotToRawRows, Store!RowsOf, Sighted
    <3>2. \E more \in {{}, Store!snapshotToRawRows(m)} : rows' = rows \cup more /\ written' = written
      BY <2>3 DEF Store!WriteFails
    <3>3. PICK more \in {{}, Store!snapshotToRawRows(m)} : rows' = rows \cup more /\ written' = written
      BY <3>2
    <3>4. \A r \in more : r.table \notin Sighted
      BY <3>1, <3>3
    <3> QED BY <3>3, <3>4
  <2> QED BY <2>2, <2>3
<1>1. PICK e, more :
        /\ rows' = rows \cup more
        /\ \/ e \in Sighted /\ more = Store!RowsOf(m, e, 1)
           \/ \A r \in more : r.table \notin Sighted
        /\ \/ written' = written \cup {<<m, e>>} /\ (e \in Sighted => more = Store!RowsOf(m, e, 1))
           \/ written' = written
  BY <1>4
<1>5. StoreType'
  BY <1>2, <1>1 DEF StoreInv, StoreType
<1>6. Moments'
  BY <1>2 DEF StoreInv, Moments
<1>7. \A r \in more : r.table \in Sighted => r \in Store!RowsOf(m, r.table, 1) /\ r.from = m
  BY <1>1, RowFacts
<1>8. OfSnapshots'
  BY <1>2, <1>3, <1>1, <1>7 DEF StoreInv, OfSnapshots
<1>9. Whole'
  <2>1. ASSUME NEW n \in 1..Len(snaps), NEW d \in Sighted, NEW r \in Store!RowsOf(n, d, 1), r \in rows'
        PROVE  Store!RowsOf(n, d, 1) \subseteq rows'
    <3>1. r.table = d /\ r.from = n
      BY RowFacts
    <3>2. CASE r \in rows
      BY <1>1, <2>1, <3>2 DEF StoreInv, Whole
    <3>3. CASE r \in more
      <4>1. e \in Sighted /\ more = Store!RowsOf(m, e, 1)
        BY <1>1, <3>1, <3>3
      <4>2. n = m /\ d = e
        BY <3>1, <3>3, <4>1, RowFacts
      <4> QED BY <1>1, <4>1, <4>2
    <3> QED BY <1>1, <2>1, <3>2, <3>3
  <2> QED BY <1>2, <1>3, <2>1 DEF Whole
<1>10. Kept'
  <2>1. ASSUME NEW n \in 1..Len(snaps), NEW d \in Sighted, Store!Stored(n, d)'
        PROVE  Store!RowsOf(n, d, 1) \subseteq rows'
    <3>1. <<n, d>> \in written' /\ now - snaps[n].at <= TTL
      BY <1>2, <2>1 DEF Store!Stored
    <3>2. CASE <<n, d>> \in written
      BY <1>1, <3>1, <3>2 DEF StoreInv, Kept, Store!Stored
    <3>3. CASE <<n, d>> \notin written
      <4>1. n = m /\ d = e /\ more = Store!RowsOf(m, e, 1)
        BY <1>1, <3>1, <3>3
      <4> QED BY <1>1, <4>1
    <3> QED BY <3>2, <3>3
  <2> QED BY <1>2, <1>3, <2>1 DEF Kept
<1> QED BY <1>5, <1>6, <1>8, <1>9, <1>10 DEF StoreInv

LEMMA StoreExpires ==
  ASSUME StoreAssumption, StoreInv, Store!Expire
  PROVE  StoreInv'
<1>1. PICK o \in rows : /\ now - o.at > Store!Retention(o.table)
                        /\ rows' = rows \ {r \in rows : r.table = o.table /\ r.at = o.at}
  BY DEF Store!Expire
<1>2. UNCHANGED <<now, calls, snaps, written>>
  BY DEF Store!Expire
<1>3. \A n, d : Store!RowsOf(n, d, 1)' = Store!RowsOf(n, d, 1)
  BY <1>2 DEF Store!RowsOf
<1>4. StoreType' /\ Moments'
  BY <1>2 DEF StoreInv, StoreType, Moments
<1>5. OfSnapshots'
  BY <1>1, <1>2, <1>3 DEF StoreInv, OfSnapshots
\* A batch goes as a whole.
<1>6. ASSUME NEW m \in 1..Len(snaps), NEW d \in Sighted, Store!RowsOf(m, d, 1) \subseteq rows
      PROVE  IF o.table = d /\ o.at = snaps[m].at
             THEN Store!RowsOf(m, d, 1) \cap rows' = {}
             ELSE Store!RowsOf(m, d, 1) \subseteq rows'
  <2>1. \A r \in Store!RowsOf(m, d, 1) : r.table = d /\ r.at = snaps[m].at
    BY RowFacts
  <2> QED BY <1>1, <1>6, <2>1
<1>7. Whole'
  <2>1. ASSUME NEW m \in 1..Len(snaps), NEW d \in Sighted, Store!RowsOf(m, d, 1) \cap rows' # {}
        PROVE  Store!RowsOf(m, d, 1) \subseteq rows'
    <3>1. Store!RowsOf(m, d, 1) \subseteq rows
      BY <1>1, <2>1 DEF StoreInv, Whole
    <3> QED BY <1>6, <2>1, <3>1
  <2> QED BY <1>2, <1>3, <2>1 DEF Whole
<1>8. Kept'
  <2>1. ASSUME NEW m \in 1..Len(snaps), NEW d \in Sighted, Store!Stored(m, d)'
        PROVE  Store!RowsOf(m, d, 1) \subseteq rows'
    <3>1. Store!Stored(m, d) /\ now - snaps[m].at <= TTL
      BY <1>2, <2>1 DEF Store!Stored
    <3>2. Store!RowsOf(m, d, 1) \subseteq rows
      BY <3>1 DEF StoreInv, Kept
    <3>3. ~(o.table = d /\ o.at = snaps[m].at)
      <4>1. Store!Retention(d) = TTL
        BY DEF Store!Retention, Sighted
      <4>2. snaps[m].at \in Nat /\ now \in Nat /\ TTL \in Nat
        BY SnapFacts DEF StoreInv, StoreType, StoreAssumption
      <4> QED BY <1>1, <3>1, <4>1, <4>2
    <3> QED BY <1>6, <3>2, <3>3
  <2> QED BY <1>2, <1>3, <2>1 DEF Kept
<1> QED BY <1>4, <1>5, <1>7, <1>8 DEF StoreInv

LEMMA StoreSteps == StoreAssumption /\ StoreInv /\ [Store!Next]_(Store!vars) => StoreInv'
<1> SUFFICES ASSUME StoreAssumption, StoreInv, [Store!Next]_(Store!vars) PROVE StoreInv'
  OBVIOUS
<1>0. calls \in [Servers -> Nat]
  BY DEF StoreInv, StoreType
<1>1. CASE UNCHANGED Store!vars
  BY <1>0, <1>1, StoreRests DEF Store!vars
<1>2. ASSUME NEW s \in Servers, NEW kind \in Store!Kinds, NEW c \in Observations[kind], Store!Collect(s, kind, c)
      PROVE  StoreInv'
  BY <1>2, StoreCollects
<1>3. ASSUME NEW m \in Store!Taken, Store!Write(m) \/ Store!WriteFails(m) PROVE StoreInv'
  BY <1>3, StoreInserts DEF Store!Taken
<1>4. ASSUME NEW s \in Servers, Store!Execute(s) PROVE StoreInv'
  <2>1. calls' \in [Servers -> Nat]
    BY <1>0, <1>4 DEF Store!Execute
  <2> QED BY <1>4, <2>1, StoreRests DEF Store!Execute
<1>5. CASE Store!Tick
  BY <1>0, <1>5, StoreRests DEF Store!Tick
<1>6. CASE Store!Expire
  BY <1>6, StoreExpires
<1>7. CASE Store!Merge
  BY <1>0, <1>7, StoreRests DEF Store!Merge
<1> QED BY <1>1, <1>2, <1>3, <1>4, <1>5, <1>6, <1>7 DEF Store!Next

\* Of rows that are read there is a newest, of one key or of all.
LEMMA NewestRow ==
  ASSUME StoreInv, NEW d, NEW s, NEW S \in SUBSET Store!Mine(d, s, now), d \in Sighted, NEW x \in S
  PROVE  \E r \in S : /\ \A o \in S : o.at <= r.at
                      /\ x.at <= r.at
<1> DEFINE Ats == {o.at : o \in S}
<1>1. \A o \in S : o.at \in 0..now
  <2>1. ASSUME NEW o \in S PROVE o.at \in 0..now
    <3>1. o \in rows /\ o.table = d /\ o.at <= now
      BY DEF Store!Mine
    <3>2. o.from \in 1..Len(snaps) /\ o \in Store!RowsOf(o.from, d, 1)
      BY <3>1 DEF StoreInv, OfSnapshots
    <3>3. o.at = snaps[o.from].at /\ snaps[o.from].at \in Nat
      BY <3>2, RowFacts, SnapFacts DEF StoreInv
    <3> QED BY <3>1, <3>3 DEF StoreInv, StoreType
  <2> QED BY <2>1
<1>2. Ats \in SUBSET (0..now) /\ Ats # {} /\ now \in Nat
  BY <1>1 DEF StoreInv, StoreType
<1>3. PICK a \in Ats : \A b \in Ats : b <= a
  BY <1>2, Newest
<1>4. PICK r \in S : r.at = a
  BY <1>3
<1> QED BY <1>3, <1>4

LEMMA StoreIsFresh ==
  ASSUME StoreAssumption, StoreInv
  PROVE  Store!SightFresh
<1> SUFFICES ASSUME NEW s, NEW d \in Domains \cap (Store!PerKey \cup Store!Batched),
                    NEW sight, sight = Store!assembleInput(s, now)[d]
             PROVE  /\ \A m \in 1..Len(snaps) : snaps[m].server = s /\ Store!Stored(m, d) =>
                         \A k \in snaps[m].content[d] :
                           \E r \in sight : r.at >= snaps[m].at /\ (d \in Store!PerKey => r.key = k)
                    /\ \A r \in sight : now - r.at <= TTL =>
                         IF d \in Store!PerKey THEN \A o \in sight : r.key = o.key => r = o
                         ELSE {o.key : o \in sight} = snaps[r.from].content[d]
  BY DEF Store!SightFresh, Store!Taken
<1> DEFINE mine == Store!Mine(d, s, now)
<1>1. d \in Domains \cap Sighted
  BY SightedTables
<1>2. sight = IF d \in Store!PerKey THEN Store!NewestPerKey(d, s, now) ELSE Store!NewestBatch(d, s, now)
  BY DEF Store!assembleInput, Store!LatestTableStats, Store!LatestFreezeAges, Store!LatestSettings,
         Store!LatestIndexStats, Store!LatestXminHorizon, Store!LatestConnectionSamples,
         Store!LatestBlockingEdges, Store!PerKey, Store!Batched
<1>3. \A r : r \in sight <=> r \in mine /\ ~\E o \in mine : (d \in Store!PerKey => o.key = r.key) /\ o.at > r.at
  BY <1>2 DEF Store!NewestPerKey, Store!NewestBatch, Store!Newer
\* What a row that is read says of its snapshot.
<1>4. ASSUME NEW r \in mine
      PROVE  /\ r \in rows /\ r.from \in 1..Len(snaps) /\ r \in Store!RowsOf(r.from, d, 1)
             /\ snaps[r.from].server = s /\ r.at = snaps[r.from].at /\ r.at \in Nat
             /\ r.key \in snaps[r.from].content[d]
             /\ snaps[r.from].kind \in Store!Kinds /\ snaps[r.from].content \in Observations[snaps[r.from].kind]
  <2>1. r \in rows /\ r.table = d /\ r.server = s
    BY DEF Store!Mine
  <2>2. r.from \in 1..Len(snaps) /\ r \in Store!RowsOf(r.from, d, 1)
    BY <1>1, <2>1 DEF StoreInv, OfSnapshots
  <2> QED BY <2>1, <2>2, RowFacts, SnapFacts DEF StoreInv
\* One moment, one snapshot.
<1>5. ASSUME NEW r \in mine, NEW o \in mine, r.at = o.at PROVE r.from = o.from
  <2>1. snaps[r.from].content[d] # {} /\ snaps[o.from].content[d] # {}
    BY <1>4
  <2>2. snaps[r.from].kind = snaps[o.from].kind
    BY <1>1, <1>4, <2>1 DEF StoreAssumption
  <2> QED BY <1>4, <1>5, <2>2 DEF StoreInv, Moments
<1>6. ASSUME NEW m \in 1..Len(snaps), snaps[m].server = s, Store!RowsOf(m, d, 1) \subseteq rows
      PROVE  Store!RowsOf(m, d, 1) \subseteq mine
  <2>1. snaps[m].at <= now
    BY SnapFacts DEF StoreInv
  <2> QED BY <1>6, <2>1, RowFacts DEF Store!Mine
<1>7. ASSUME NEW m \in 1..Len(snaps), snaps[m].server = s, Store!Stored(m, d), NEW k \in snaps[m].content[d]
      PROVE  \E r \in sight : r.at >= snaps[m].at /\ (d \in Store!PerKey => r.key = k)
  <2>1. PICK x : x = [table |-> d, server |-> snaps[m].server, at |-> snaps[m].at,
                      key |-> k, calls |-> snaps[m].calls, tier |-> 1, from |-> m]
    OBVIOUS
  <2>2. x \in Store!RowsOf(m, d, 1) /\ x.at = snaps[m].at /\ x.key = k
    BY <2>1 DEF Store!RowsOf
  <2>3. x \in mine
    BY <1>1, <1>6, <1>7, <2>2 DEF StoreInv, Kept
  <2>4. PICK S : S = {o \in mine : d \in Store!PerKey => o.key = k}
    OBVIOUS
  <2>5. PICK r \in S : (\A o \in S : o.at <= r.at) /\ x.at <= r.at
    BY <1>1, <2>2, <2>3, <2>4, NewestRow
  <2>6. ASSUME NEW o \in mine, d \in Store!PerKey => o.key = r.key, o.at > r.at PROVE FALSE
    <3>1. o \in S /\ o.at \in Nat /\ r.at \in Nat
      BY <1>4, <2>4, <2>6
    <3> QED BY <2>5, <2>6, <3>1
  <2>7. r \in sight
    BY <1>3, <2>4, <2>6
  <2>8. r.at \in Nat /\ snaps[m].at \in Nat
    BY <1>4, <2>2, <2>3, <2>4
  <2> QED BY <2>2, <2>4, <2>5, <2>7, <2>8
<1>8. ASSUME NEW r \in sight, d \in Store!PerKey, NEW o \in sight, r.key = o.key PROVE r = o
  <2>1. r \in mine /\ o \in mine /\ ~(o.at > r.at) /\ ~(r.at > o.at)
    BY <1>3, <1>8
  <2>2. r.at = o.at
    BY <1>4, <2>1
  <2>3. r.from = o.from
    BY <1>5, <2>1, <2>2
  <2> QED BY <1>4, <1>8, <2>1, <2>3, RowFacts
<1>9. ASSUME NEW r \in sight, d \notin Store!PerKey PROVE {o.key : o \in sight} = snaps[r.from].content[d]
  <2>1. r \in mine
    BY <1>3
  <2>2. ASSUME NEW o \in sight PROVE o.key \in snaps[r.from].content[d]
    <3>1. o \in mine /\ ~(o.at > r.at) /\ ~(r.at > o.at)
      BY <1>3, <1>9
    <3>2. r.at = o.at
      BY <1>4, <2>1, <3>1
    <3>3. r.from = o.from
      BY <1>5, <2>1, <3>1, <3>2
    <3> QED BY <1>4, <3>1, <3>3
  <2>3. ASSUME NEW k \in snaps[r.from].content[d] PROVE \E o \in sight : o.key = k
    <3>1. Store!RowsOf(r.from, d, 1) \subseteq mine
      <4>1. Store!RowsOf(r.from, d, 1) \cap rows # {}
        BY <1>4, <2>1
      <4> QED BY <1>1, <1>4, <1>6, <2>1, <4>1 DEF StoreInv, Whole
    <3>2. PICK o \in Store!RowsOf(r.from, d, 1) : o.key = k /\ o.at = snaps[r.from].at
      <4>1. PICK m : m = r.from
        OBVIOUS
      <4>2. PICK o : o = [table |-> d, server |-> snaps[m].server, at |-> snaps[m].at,
                          key |-> k, calls |-> snaps[m].calls, tier |-> 1, from |-> m]
        OBVIOUS
      <4>3. o \in Store!RowsOf(m, d, 1) /\ o.key = k /\ o.at = snaps[m].at
        BY <2>3, <4>1, <4>2 DEF Store!RowsOf
      <4> QED BY <4>1, <4>3
    <3>3. o.at = r.at
      BY <1>4, <2>1, <3>2
    <3>4. o \in sight
      BY <1>3, <1>9, <3>1, <3>3
    <3> QED BY <3>2, <3>4
  <2> QED BY <2>2, <2>3
<1> QED BY <1>7, <1>8, <1>9

\* The checks of a server see of every object nothing older than what was written,
\* and of its connections one look, whole: of any number of snapshots whose tables
\* fill in any order, break off and expire (persistSnapshot and the reads of
\* internal/store).
THEOREM SeenFresh == Store!Spec => []SightFresh
<1>1. Store!Init => StoreInv
  <2> SUFFICES ASSUME Store!Init PROVE StoreInv
    OBVIOUS
  <2>1. /\ now = 1 /\ calls = [s \in Servers |-> 0] /\ snaps = << >> /\ written = {} /\ rows = {}
        /\ Len(snaps) = 0 /\ snaps \in Seq(Snaps)
    BY DEF Store!Init
  <2>2. 1..Len(snaps) = {}
    BY <2>1
  <2> QED BY <2>1, <2>2 DEF StoreInv, StoreType, Moments, OfSnapshots, Whole, Kept
<1>2. StoreInv /\ [Store!Next]_(Store!vars) => StoreInv'
  BY StoreSteps, StoreAssumed
<1>3. StoreInv => SightFresh
  BY StoreIsFresh, StoreAssumed DEF SightFresh
<1> QED BY <1>1, <1>2, <1>3, PTL DEF Store!Spec

-----------------------------------------------------------------------------
(* The day of the first sighting.  A sighting is never from the future, so *)
(* that a later one is not an earlier first.                               *)

Sightings == \A o \in objects : o = [server |-> o.server, key |-> o.key, first |-> o.first, last |-> o.last]
                                /\ o.first \in Nat /\ o.first <= now /\ o.last \in Nat

ObjectInv == now \in Nat /\ Sightings

Of(s, k, some) == {o \in some : o.server = s /\ o.key = k}

Earliest(f, some) == (\E o \in some : o.first = f) /\ \A o \in some : f <= o.first

\* The least of the first days is what is read.
LEMMA FirstIsLeast ==
  ASSUME NEW some, some # {}, \A o \in some : o.first \in Nat
  PROVE  /\ \E f \in Nat : Earliest(f, some)
         /\ \A f \in Nat : Earliest(f, some) =>
              (CHOOSE t \in {o.first : o \in some} : \A o \in some : t <= o.first) = f
<1> DEFINE firsts == {o.first : o \in some}
           R == OpToRel(<, Nat)
<1>1. firsts \in SUBSET Nat /\ firsts # {}
  OBVIOUS
<1>2. PICK f \in firsts : \A g \in firsts : ~(<<g, f>> \in R)
  BY <1>1, NatLessThanWellFounded, WFMin
<1>3. \A g \in firsts : ~(g < f)
  BY <1>1, <1>2 DEF OpToRel
<1>4. ASSUME NEW g \in firsts PROVE f <= g
  <2>1. g \in Nat /\ f \in Nat
    BY <1>1
  <2> QED BY <1>3, <2>1
<1>5. Earliest(f, some)
  BY <1>4 DEF Earliest
<1>6. ASSUME NEW e \in Nat, Earliest(e, some)
      PROVE  (CHOOSE t \in {o.first : o \in some} : \A o \in some : t <= o.first) = e
  <2> DEFINE c == CHOOSE t \in firsts : \A o \in some : t <= o.first
  <2>1. e \in firsts /\ \A o \in some : e <= o.first
    BY <1>6 DEF Earliest
  <2>2. c \in firsts /\ \A o \in some : c <= o.first
    BY <2>1
  <2>3. c <= e /\ e <= c /\ c \in Nat
    BY <1>1, <1>6, <2>1, <2>2 DEF Earliest
  <2> QED BY <2>3
<1> QED BY <1>1, <1>5, <1>6

\* A row of the objects is there, written with this time, or two merged.
LEMMA ObjectSteps ==
  ASSUME [Store!Next]_(Store!vars)
  PROVE  \/ objects' = objects /\ now' \in {now, now + 1}
         \/ now' = now /\ \E m \in Store!Taken : objects' = objects \cup Store!snapshotToSchemaObjects(m)
         \/ /\ now' = now
            /\ \E a, b \in objects :
                 /\ a.server = b.server /\ a.key = b.key
                 /\ objects' = (objects \ {a, b}) \cup {Store!Merged(a, b)}
<1>1. CASE UNCHANGED Store!vars
  BY <1>1 DEF Store!vars
<1>2. CASE \E s \in Servers, kind \in Store!Kinds : \E c \in Observations[kind] : Store!Collect(s, kind, c)
  BY <1>2 DEF Store!Collect
<1>3. CASE \E m \in Store!Taken : Store!Write(m)
  BY <1>3 DEF Store!Write, Store!Insert
<1>4. CASE \E m \in Store!Taken : Store!WriteFails(m)
  BY <1>4 DEF Store!WriteFails
<1>5. CASE \E s \in Servers : Store!Execute(s)
  BY <1>5 DEF Store!Execute
<1>6. CASE Store!Tick
  BY <1>6 DEF Store!Tick
<1>7. CASE Store!Expire
  BY <1>7 DEF Store!Expire
<1>8. CASE Store!Merge
  BY <1>8 DEF Store!Merge
<1> QED BY <1>1, <1>2, <1>3, <1>4, <1>5, <1>6, <1>7, <1>8 DEF Store!Next

LEMMA MergedRow ==
  ASSUME ObjectInv, NEW a \in objects, NEW b \in objects
  PROVE  Store!Merged(a, b) = [server |-> a.server, key |-> a.key,
                               first |-> IF a.first < b.first THEN a.first ELSE b.first,
                               last |-> IF a.last > b.last THEN a.last ELSE b.last]
<1>1. a = [server |-> a.server, key |-> a.key, first |-> a.first, last |-> a.last]
  BY DEF ObjectInv, Sightings
<1>2. PICK f, l : /\ f = IF a.first < b.first THEN a.first ELSE b.first
                  /\ l = IF a.last > b.last THEN a.last ELSE b.last
  OBVIOUS
<1>3. [a EXCEPT !.first = f, !.last = l] = [server |-> a.server, key |-> a.key, first |-> f, last |-> l]
  <2>1. PICK s, k, x, y : a = [server |-> s, key |-> k, first |-> x, last |-> y]
    BY <1>1
  <2>2. a.server = s /\ a.key = k
    BY <2>1
  <2>3. [a EXCEPT !.first = f, !.last = l] = [server |-> s, key |-> k, first |-> f, last |-> l]
    <3>1. PICK one : one = [a EXCEPT !.first = f]
      OBVIOUS
    <3>2. one = [server |-> s, key |-> k, first |-> f, last |-> y]
      BY <2>1, <3>1
    <3>3. [one EXCEPT !.last = l] = [server |-> s, key |-> k, first |-> f, last |-> l]
      BY <3>2
    <3> QED BY <3>1, <3>3
  <2> QED BY <2>2, <2>3
<1>4. Store!Merged(a, b) = [a EXCEPT !.first = f, !.last = l]
  BY <1>2 DEF Store!Merged
<1> QED BY <1>2, <1>3, <1>4

LEMMA SightingsStay == ObjectInv /\ [Store!Next]_(Store!vars) => ObjectInv'
<1> SUFFICES ASSUME ObjectInv, [Store!Next]_(Store!vars) PROVE ObjectInv'
  OBVIOUS
<1>1. now \in Nat /\ now' \in Nat /\ now <= now'
  <2>1. now' \in {now, now + 1}
    BY ObjectSteps
  <2> QED BY <2>1 DEF ObjectInv
<1>2. ASSUME NEW o \in objects'
      PROVE  /\ o = [server |-> o.server, key |-> o.key, first |-> o.first, last |-> o.last]
             /\ o.first \in Nat /\ o.first <= now /\ o.last \in Nat
  <2>0. CASE o \in objects
    BY <2>0 DEF ObjectInv, Sightings
  <2>1. CASE \E m \in Store!Taken : o \in Store!snapshotToSchemaObjects(m)
    <3>1. PICK m \in Store!Taken : o \in Store!snapshotToSchemaObjects(m)
      BY <2>1
    <3> QED BY <1>1, <3>1 DEF Store!snapshotToSchemaObjects
  <2>2. CASE \E a, b \in objects : o = Store!Merged(a, b)
    <3>1. PICK a \in objects, b \in objects : o = Store!Merged(a, b)
      BY <2>2
    <3>2. {a.first, b.first, a.last, b.last} \subseteq Nat /\ a.first <= now /\ b.first <= now
      BY DEF ObjectInv, Sightings
    <3>3. o = [server |-> a.server, key |-> a.key,
               first |-> IF a.first < b.first THEN a.first ELSE b.first,
               last |-> IF a.last > b.last THEN a.last ELSE b.last]
      BY <3>1, MergedRow
    <3> QED BY <3>2, <3>3
  <2> QED BY <2>0, <2>1, <2>2, ObjectSteps
<1>3. ASSUME NEW o \in objects'
      PROVE  /\ o = [server |-> o.server, key |-> o.key, first |-> o.first, last |-> o.last]
             /\ o.first \in Nat /\ o.first <= now' /\ o.last \in Nat
  BY <1>1, <1>2
<1> QED BY <1>1, <1>3 DEF ObjectInv, Sightings

\* The earliest row of an object is the earliest after a step.
LEMMA EarliestStays ==
  ASSUME ObjectInv, [Store!Next]_(Store!vars), NEW s, NEW k, NEW f \in Nat, Earliest(f, Of(s, k, objects))
  PROVE  Earliest(f, Of(s, k, objects'))
<1>1. PICK x \in Of(s, k, objects) : x.first = f
  BY DEF Earliest
<1>2. \A o \in Of(s, k, objects) : f <= o.first
  BY DEF Earliest
<1>3. \A o \in objects : o.first \in Nat /\ o.first <= now
  BY DEF ObjectInv, Sightings
<1>4. now \in Nat /\ f <= now
  BY <1>1, <1>3 DEF ObjectInv, Of
<1>5. CASE objects' = objects
  BY <1>5
<1>6. CASE \E m \in Store!Taken : objects' = objects \cup Store!snapshotToSchemaObjects(m)
  <2>1. PICK m \in Store!Taken : objects' = objects \cup Store!snapshotToSchemaObjects(m)
    BY <1>6
  <2>2. x \in Of(s, k, objects')
    BY <2>1 DEF Of
  <2>3. ASSUME NEW y \in Of(s, k, objects') PROVE f <= y.first
    <3>1. CASE y \in objects
      BY <1>2, <3>1 DEF Of
    <3>2. CASE y \in Store!snapshotToSchemaObjects(m)
      BY <1>4, <3>2 DEF Store!snapshotToSchemaObjects
    <3> QED BY <2>1, <3>1, <3>2 DEF Of
  <2> QED BY <1>1, <2>2, <2>3 DEF Earliest
<1>7. CASE \E a, b \in objects : /\ a.server = b.server /\ a.key = b.key
                                 /\ objects' = (objects \ {a, b}) \cup {Store!Merged(a, b)}
  <2>1. PICK a \in objects, b \in objects : /\ a.server = b.server /\ a.key = b.key
                                            /\ objects' = (objects \ {a, b}) \cup {Store!Merged(a, b)}
    BY <1>7
  <2>2. PICK c : c = Store!Merged(a, b)
    OBVIOUS
  <2>3. /\ c.server = a.server /\ c.key = a.key
        /\ c.first = IF a.first < b.first THEN a.first ELSE b.first
    BY <2>2, MergedRow
  <2>4. a.first \in Nat /\ b.first \in Nat
    BY <1>3
  <2>5. objects' = (objects \ {a, b}) \cup {c}
    BY <2>1, <2>2
  <2>6. \E y \in Of(s, k, objects') : y.first = f
    <3>1. CASE x \notin {a, b}
      BY <1>1, <2>5, <3>1 DEF Of
    <3>2. CASE x \in {a, b}
      <4>1. a \in Of(s, k, objects) /\ b \in Of(s, k, objects)
        BY <2>1, <3>2 DEF Of
      <4>2. c.first = f
        BY <1>1, <1>2, <2>3, <2>4, <3>2, <4>1
      <4> QED BY <2>3, <2>5, <4>1, <4>2 DEF Of
    <3> QED BY <3>1, <3>2
  <2>7. ASSUME NEW y \in Of(s, k, objects') PROVE f <= y.first
    <3>1. CASE y \in objects
      BY <1>2, <3>1 DEF Of
    <3>2. CASE y = c
      <4>1. a \in Of(s, k, objects) /\ b \in Of(s, k, objects)
        BY <2>1, <2>3, <3>2 DEF Of
      <4> QED BY <1>2, <2>3, <3>2, <4>1
    <3> QED BY <2>5, <3>1, <3>2 DEF Of
  <2> QED BY <2>6, <2>7 DEF Earliest
<1> QED BY <1>5, <1>6, <1>7, ObjectSteps

\* The day an object was first seen stays what it was, however often it is seen
\* again and however ClickHouse merges its rows (snapshotToSchemaObjects,
\* 0012_schema_objects.sql).
THEOREM FirstSeenStays == Store!Spec => FirstSeenKept
<1>1. Store!Init => ObjectInv
  BY DEF Store!Init, ObjectInv, Sightings
<1>2. ObjectInv /\ [Store!Next]_(Store!vars) => ObjectInv'
  BY SightingsStay
<1>3. ObjectInv /\ ObjectInv' /\ [Store!Next]_(Store!vars)
        => [Store!DayKept]_store
  <2> SUFFICES ASSUME ObjectInv, ObjectInv', [Store!Next]_(Store!vars), NEW o \in objects
               PROVE  Store!FirstSeen(o.server, o.key)' = Store!FirstSeen(o.server, o.key)
    BY DEF Store!DayKept, Store!vars, store
  <2>1. PICK s, k : s = o.server /\ k = o.key
    OBVIOUS
  <2>2. o \in Of(s, k, objects)
    BY <2>1 DEF Of
  <2>3. \A y \in Of(s, k, objects) : y.first \in Nat
    BY DEF ObjectInv, Sightings, Of
  <2>4. PICK f \in Nat : Earliest(f, Of(s, k, objects))
    BY <2>2, <2>3, FirstIsLeast
  <2>5. Store!FirstSeen(s, k) = f
    <3>1. PICK some : some = Of(s, k, objects)
      OBVIOUS
    <3>2. (CHOOSE t \in {y.first : y \in some} : \A y \in some : t <= y.first) = f /\ some # {}
      BY <2>2, <2>3, <2>4, <3>1, FirstIsLeast
    <3> QED BY <3>1, <3>2 DEF Store!FirstSeen, Of
  <2>6. Earliest(f, Of(s, k, objects'))
    BY <2>4, EarliestStays
  <2>7. Store!FirstSeen(s, k)' = f
    <3>1. PICK some : some = Of(s, k, objects')
      OBVIOUS
    <3>2. some # {} /\ \A y \in some : y.first \in Nat
      BY <2>6, <3>1 DEF Earliest, ObjectInv, Sightings, Of
    <3>3. (CHOOSE t \in {y.first : y \in some} : \A y \in some : t <= y.first) = f
      BY <2>6, <3>1, <3>2, FirstIsLeast
    <3> QED BY <3>1, <3>2, <3>3 DEF Store!FirstSeen, Of
  <2> QED BY <2>1, <2>5, <2>7
<1> QED BY <1>1, <1>2, <1>3, PTL DEF Store!Spec, FirstSeenKept

-----------------------------------------------------------------------------
(* Counting.  A row of the table of totals is known by its snapshot and its *)
(* key alone (Known), by whichever tier it came; it is there while what it  *)
(* was made of is kept (Counted); and the rows are finitely many (Finite),  *)
(* so that the calls in them can be counted.                                *)

Tiers == {"query_stats", "query_stats_t2"}

Statistic(m, k) ==
  [table |-> "query_stats", server |-> snaps[m].server, at |-> snaps[m].at,
   key |-> k, calls |-> snaps[m].calls, tier |-> 1, from |-> m]

Known ==
  \A r \in rows : r.table = "query_stats" =>
    r.from \in 1..Len(snaps) /\ r = Statistic(r.from, r.key)

Counted ==
  \A m \in 1..Len(snaps), d \in Domains \cap Tiers :
    Store!Stored(m, d) => \A k \in snaps[m].content[d] : Statistic(m, k) \in rows

Finite ==
  /\ IsFiniteSet(rows)
  /\ \A m \in 1..Len(snaps), e \in Domains : IsFiniteSet(snaps[m].content[e])

\* What is still to be written of a snapshot is of the tables that take part.
Tasks == todo \in Seq(SUBSET Domains) /\ Len(todo) = Len(snaps)

CountInv == Known /\ Counted /\ Finite /\ Tasks

LEMMA StatisticFacts ==
  ASSUME NEW m, NEW k
  PROVE  /\ Statistic(m, k).table = "query_stats" /\ Statistic(m, k).from = m /\ Statistic(m, k).key = k
         /\ Statistic(m, k).at = snaps[m].at /\ Statistic(m, k).server = snaps[m].server
         /\ Statistic(m, k).calls = snaps[m].calls /\ Statistic(m, k).tier = 1
BY DEF Statistic

\* A row of either tier that is inserted leaves its statistic in the table.
LEMMA Projects ==
  ASSUME NEW m, NEW k
  PROVE  Store!Projected([table |-> "query_stats_t2", server |-> snaps[m].server, at |-> snaps[m].at,
                          key |-> k, calls |-> snaps[m].calls, tier |-> 2, from |-> m]) = Statistic(m, k)
<1>1. PICK s, t, c : s = snaps[m].server /\ t = snaps[m].at /\ c = snaps[m].calls
  OBVIOUS
<1>2. PICK raw : raw = [table |-> "query_stats_t2", server |-> s, at |-> t, key |-> k, calls |-> c, tier |-> 2, from |-> m]
  OBVIOUS
<1>3. PICK half : half = [raw EXCEPT !.table = "query_stats"]
  OBVIOUS
<1>4. half = [table |-> "query_stats", server |-> s, at |-> t, key |-> k, calls |-> c, tier |-> 2, from |-> m]
  BY <1>2, <1>3
<1>5. [half EXCEPT !.tier = 1] = [table |-> "query_stats", server |-> s, at |-> t, key |-> k, calls |-> c, tier |-> 1, from |-> m]
  BY <1>4
<1>6. [raw EXCEPT !.table = "query_stats", !.tier = 1] = [half EXCEPT !.tier = 1]
  BY <1>3
<1> QED BY <1>1, <1>2, <1>5, <1>6 DEF Store!Projected, Statistic

\* What a snapshot has under a table makes finitely many rows.
LEMMA FiniteRows ==
  ASSUME NEW m, NEW d, NEW t, IsFiniteSet(snaps[m].content[d])
  PROVE  IsFiniteSet(Store!RowsOf(m, d, t))
<1> DEFINE keys == snaps[m].content[d]
           row(k) == [table |-> d, server |-> snaps[m].server, at |-> snaps[m].at,
                      key |-> k, calls |-> snaps[m].calls, tier |-> t, from |-> m]
           make == [k \in keys |-> row(k)]
<1>1. make \in Surjection(keys, Store!RowsOf(m, d, t))
  BY DEF Surjection, Store!RowsOf
<1> QED BY <1>1, FS_Surjection

\* An insert into a table that takes part adds finitely many rows, to the totals
\* only statistics of its snapshot, and of a tier all of those.
LEMMA InsertedRows ==
  ASSUME NEW m \in 1..Len(snaps), NEW d \in Domains, Finite, Store!Insert(m, d)
  PROVE  /\ IsFiniteSet(rows') /\ rows \subseteq rows'
         /\ \A r \in rows' \ rows : r.table = "query_stats" => r = Statistic(m, r.key) /\ r.from = m
         /\ d \in Tiers => \A k \in snaps[m].content[d] : Statistic(m, k) \in rows'
<1> DEFINE new == Store!Batch(m, d)
           raw == {x \in new : x.table = "query_stats_t2"}
           proj == [x \in raw |-> Store!Projected(x)]
<1>1. CASE d = "schema_objects"
  BY <1>1 DEF Store!Insert, Finite, Tiers
<1>2. CASE d # "schema_objects"
  <2>1. rows' = rows \cup (new \cup {Store!Projected(x) : x \in raw})
    BY <1>2 DEF Store!Insert, Store!Inserted
  <2>2. PICK t \in {1, 2} : /\ new = Store!RowsOf(m, d, t)
                            /\ d = "query_stats" => t = 1
                            /\ d = "query_stats_t2" => t = 2
    BY DEF Store!Batch, Store!snapshotToRows, Store!snapshotToRawRows
  <2>3. IsFiniteSet(new)
    BY <2>2, FiniteRows DEF Finite
  <2>4. IsFiniteSet({Store!Projected(x) : x \in raw})
    <3>1. IsFiniteSet(raw)
      BY <2>3, FS_Subset
    <3>2. proj \in Surjection(raw, {Store!Projected(x) : x \in raw})
      BY DEF Surjection
    <3> QED BY <3>1, <3>2, FS_Surjection
  <2>5. IsFiniteSet(rows')
    BY <2>1, <2>3, <2>4, FS_Union DEF Finite
  <2>6. \A x \in new : \E k \in snaps[m].content[d] :
          x = [table |-> d, server |-> snaps[m].server, at |-> snaps[m].at,
               key |-> k, calls |-> snaps[m].calls, tier |-> t, from |-> m]
    BY <2>2 DEF Store!RowsOf
  <2>7. \A x \in raw : \E k \in snaps[m].content[d] : Store!Projected(x) = Statistic(m, k)
    <3>1. ASSUME NEW x \in raw PROVE \E k \in snaps[m].content[d] : Store!Projected(x) = Statistic(m, k)
      <4>1. PICK k \in snaps[m].content[d] :
              x = [table |-> d, server |-> snaps[m].server, at |-> snaps[m].at,
                   key |-> k, calls |-> snaps[m].calls, tier |-> t, from |-> m]
        BY <2>6
      <4>2. d = "query_stats_t2"
        BY <4>1
      <4>3. Store!Projected(x) = Statistic(m, k)
        BY <2>2, <4>1, <4>2, Projects
      <4> QED BY <4>3
    <3> QED BY <3>1
  <2>8. ASSUME NEW r \in rows' \ rows, r.table = "query_stats" PROVE r = Statistic(m, r.key) /\ r.from = m
    <3>1. \E k : r = Statistic(m, k)
      <4>1. CASE r \in new
        <5>1. PICK k \in snaps[m].content[d] :
                r = [table |-> d, server |-> snaps[m].server, at |-> snaps[m].at,
                     key |-> k, calls |-> snaps[m].calls, tier |-> t, from |-> m]
          BY <2>6, <4>1
        <5>2. d = "query_stats"
          BY <2>8, <5>1
        <5> QED BY <2>2, <5>1, <5>2 DEF Statistic
      <4>2. CASE r \notin new
        <5>1. PICK x \in raw : r = Store!Projected(x)
          BY <2>1, <2>8, <4>2
        <5> QED BY <2>7, <5>1
      <4> QED BY <4>1, <4>2
    <3> QED BY <3>1, StatisticFacts
  <2>9. ASSUME d \in Tiers, NEW k \in snaps[m].content[d] PROVE Statistic(m, k) \in rows'
    <3>1. PICK x : x = [table |-> d, server |-> snaps[m].server, at |-> snaps[m].at,
                        key |-> k, calls |-> snaps[m].calls, tier |-> t, from |-> m]
      OBVIOUS
    <3>2. x \in new /\ x.table = d
      BY <2>2, <3>1 DEF Store!RowsOf
    <3>3. CASE d = "query_stats"
      BY <2>1, <2>2, <3>1, <3>2, <3>3 DEF Statistic
    <3>4. CASE d = "query_stats_t2"
      <4>1. Store!Projected(x) = Statistic(m, k) /\ x \in raw
        BY <2>2, <3>1, <3>2, <3>4, Projects
      <4> QED BY <2>1, <4>1
    <3> QED BY <2>9, <3>3, <3>4 DEF Tiers
  <2> QED BY <2>1, <2>5, <2>8, <2>9
<1> QED BY <1>1, <1>2

\* Nothing else changes what is counted: time only ends what is kept.
LEMMA CountRests ==
  ASSUME StoreAssumption, StoreInv, CountInv, UNCHANGED <<snaps, written, rows, todo>>,
         now' \in {now, now + 1}
  PROVE  CountInv'
<1>1. \A m, k : Statistic(m, k)' = Statistic(m, k)
  BY DEF Statistic
<1>2. ASSUME NEW m \in 1..Len(snaps), NEW d, Store!Stored(m, d)' PROVE Store!Stored(m, d)
  <2>1. snaps[m].at \in Nat /\ now \in Nat /\ TTL \in Nat
    BY SnapFacts DEF StoreInv, StoreType, StoreAssumption
  <2> QED BY <1>2, <2>1 DEF Store!Stored
<1> QED BY <1>1, <1>2 DEF CountInv, Known, Counted, Finite, Tasks

LEMMA CountCollects ==
  ASSUME StoreInv, CountInv, NEW s \in Servers, NEW kind \in Store!Kinds, NEW c \in Observations[kind],
         Store!Collect(s, kind, c)
  PROVE  CountInv'
<1>1. /\ snaps' = Append(snaps, [server |-> s, kind |-> kind, at |-> now, content |-> c, calls |-> calls[s]])
      /\ \E some \in SUBSET Domains : todo' = Append(todo, some)
      /\ UNCHANGED <<now, written, rows>>
  BY DEF Store!Collect
<1>2. PICK one : snaps' = Append(snaps, one) /\ one.content = c
  BY <1>1
<1>3. PICK some \in SUBSET Domains : todo' = Append(todo, some)
  BY <1>1
<1>4. PICK n \in Nat : n = Len(snaps)
  BY SnapFacts DEF StoreInv
<1>5. /\ Len(snaps') = n + 1 /\ snaps'[n + 1] = one
      /\ \A m \in 1..n : snaps'[m] = snaps[m]
  BY <1>2, <1>4 DEF StoreInv, StoreType
<1>6. \A m \in 1..n : \A k : Statistic(m, k)' = Statistic(m, k)
  BY <1>5 DEF Statistic
<1>7. Known'
  BY <1>1, <1>4, <1>5, <1>6 DEF CountInv, Known
<1>8. ASSUME NEW m \in 1..(n + 1), NEW d \in Domains \cap Tiers, Store!Stored(m, d)',
             NEW k \in snaps'[m].content[d]
      PROVE  Statistic(m, k)' \in rows'
  <2>1. <<m, d>> \in written /\ now - snaps'[m].at <= TTL
    BY <1>1, <1>8 DEF Store!Stored
  <2>2. m \in 1..n
    BY <1>4, <2>1 DEF StoreInv, StoreType
  <2>3. Store!Stored(m, d) /\ k \in snaps[m].content[d]
    BY <1>5, <1>8, <2>1, <2>2 DEF Store!Stored
  <2> QED BY <1>1, <1>4, <1>6, <2>2, <2>3 DEF CountInv, Counted
<1>9. Counted'
  BY <1>5, <1>8 DEF Counted
<1>10. Finite'
  <2>1. ASSUME NEW m \in 1..(n + 1), NEW d \in Domains PROVE IsFiniteSet(snaps'[m].content[d])
    <3>1. CASE m \in 1..n
      BY <1>4, <1>5, <3>1 DEF CountInv, Finite
    <3>2. CASE m = n + 1
      BY <1>2, <1>5, <3>2, RowsAssumption
    <3> QED BY <1>4, <3>1, <3>2
  <2> QED BY <1>1, <1>5, <2>1 DEF CountInv, Finite
<1>11. Tasks'
  BY <1>3, <1>4, <1>5 DEF CountInv, Tasks
<1> QED BY <1>7, <1>9, <1>10, <1>11 DEF CountInv

LEMMA CountWrites ==
  ASSUME StoreInv, CountInv, NEW m \in 1..Len(snaps), Store!Write(m) \/ Store!WriteFails(m)
  PROVE  CountInv'
<1>1. PICK d \in Store!Due(m) :
        \/ /\ Store!Insert(m, d) /\ written' = written \cup {<<m, d>>}
           /\ todo' = [todo EXCEPT ![m] = @ \ {d}] /\ UNCHANGED <<now, snaps>>
        \/ /\ todo' = [todo EXCEPT ![m] = {}] /\ UNCHANGED <<now, snaps, written>>
           /\ rows' \in {rows} \cup
                (IF d = "query_stats_t2" THEN {rows \cup Store!snapshotToRawRows(m)} ELSE {})
  BY DEF Store!Write, Store!WriteFails
<1>2. d \in Domains /\ todo[m] \in SUBSET Domains
  BY <1>1 DEF CountInv, Tasks, Store!Due
<1>3. \A n, k : Statistic(n, k)' = Statistic(n, k)
  BY <1>1 DEF Statistic
<1>4. Tasks'
  BY <1>1, <1>2 DEF CountInv, Tasks
<1>5. CASE Store!Insert(m, d) /\ written' = written \cup {<<m, d>>} /\ UNCHANGED <<now, snaps>>
  <2>1. /\ IsFiniteSet(rows') /\ rows \subseteq rows'
        /\ \A r \in rows' \ rows : r.table = "query_stats" => r = Statistic(m, r.key) /\ r.from = m
        /\ d \in Tiers => \A k \in snaps[m].content[d] : Statistic(m, k) \in rows'
    BY <1>2, <1>5, InsertedRows DEF CountInv
  <2>2. Known'
    <3>1. ASSUME NEW r \in rows', r.table = "query_stats"
          PROVE  r.from \in 1..Len(snaps) /\ r = Statistic(r.from, r.key)
      <4>1. CASE r \in rows
        BY <3>1, <4>1 DEF CountInv, Known
      <4>2. CASE r \notin rows
        <5>1. r = Statistic(m, r.key) /\ r.from = m
          BY <2>1, <3>1, <4>2
        <5>2. Statistic(r.from, r.key) = Statistic(m, r.key)
          BY <5>1
        <5> QED BY <5>1, <5>2
      <4> QED BY <4>1, <4>2
    <3> QED BY <1>3, <1>5, <3>1 DEF Known
  <2>3. Counted'
    <3>1. ASSUME NEW n \in 1..Len(snaps), NEW e \in Domains \cap Tiers, Store!Stored(n, e)',
                 NEW k \in snaps[n].content[e]
          PROVE  Statistic(n, k) \in rows'
      <4>1. <<n, e>> \in written' /\ now - snaps[n].at <= TTL
        BY <1>5, <3>1 DEF Store!Stored
      <4>2. CASE <<n, e>> \in written
        BY <2>1, <3>1, <4>1, <4>2 DEF CountInv, Counted, Store!Stored
      <4>3. CASE <<n, e>> \notin written
        <5>1. n = m /\ e = d
          BY <1>5, <4>1, <4>3
        <5> QED BY <2>1, <3>1, <5>1
      <4> QED BY <4>2, <4>3
    <3> QED BY <1>3, <1>5, <3>1 DEF Counted
  <2>4. Finite'
    BY <1>5, <2>1 DEF CountInv, Finite
  <2> QED BY <1>4, <2>2, <2>3, <2>4 DEF CountInv
<1>6. CASE /\ UNCHANGED <<now, snaps, written>>
           /\ rows' \in {rows} \cup
                (IF d = "query_stats_t2" THEN {rows \cup Store!snapshotToRawRows(m)} ELSE {})
  <2>1. /\ rows \subseteq rows' /\ IsFiniteSet(rows')
        /\ \A r \in rows' \ rows : r.table # "query_stats"
    <3>1. CASE rows' = rows
      BY <3>1 DEF CountInv, Finite
    <3>2. CASE d = "query_stats_t2" /\ rows' = rows \cup Store!snapshotToRawRows(m)
      <4>1. IsFiniteSet(Store!snapshotToRawRows(m))
        BY <1>2, <3>2, FiniteRows DEF CountInv, Finite, Store!snapshotToRawRows
      <4>2. \A r \in Store!snapshotToRawRows(m) : r.table # "query_stats"
        BY DEF Store!snapshotToRawRows, Store!RowsOf
      <4>3. IsFiniteSet(rows')
        BY <3>2, <4>1, FS_Union DEF CountInv, Finite
      <4> QED BY <3>2, <4>2, <4>3
    <3> QED BY <1>6, <3>1, <3>2
  <2>2. Known'
    BY <1>3, <1>6, <2>1 DEF CountInv, Known
  <2>3. \A n, e : Store!Stored(n, e)' = Store!Stored(n, e)
    BY <1>6 DEF Store!Stored
  <2>4. Counted'
    BY <1>3, <1>6, <2>1, <2>3 DEF CountInv, Counted
  <2>5. Finite'
    BY <1>6, <2>1 DEF CountInv, Finite
  <2> QED BY <1>4, <2>2, <2>4, <2>5 DEF CountInv
<1> QED BY <1>1, <1>5, <1>6

\* What is kept does not expire.
LEMMA CountExpires ==
  ASSUME StoreAssumption, StoreInv, CountInv, Store!Expire
  PROVE  CountInv'
<1>1. PICK o \in rows : /\ now - o.at > Store!Retention(o.table)
                        /\ rows' = rows \ {r \in rows : r.table = o.table /\ r.at = o.at}
  BY DEF Store!Expire
<1>2. UNCHANGED <<now, snaps, todo, written>>
  BY DEF Store!Expire
<1>3. \A m, k : Statistic(m, k)' = Statistic(m, k)
  BY <1>2 DEF Statistic
<1>4. Known' /\ Tasks'
  BY <1>1, <1>2, <1>3 DEF CountInv, Known, Tasks
<1>5. Finite'
  <2>1. IsFiniteSet(rows')
    BY <1>1, FS_Subset DEF CountInv, Finite
  <2> QED BY <1>2, <2>1 DEF CountInv, Finite
<1>6. ASSUME NEW m \in 1..Len(snaps), NEW d \in Domains \cap Tiers, Store!Stored(m, d)',
             NEW k \in snaps[m].content[d]
      PROVE  Statistic(m, k) \in rows'
  <2>1. Store!Stored(m, d) /\ now - snaps[m].at <= TTL
    BY <1>2, <1>6 DEF Store!Stored
  <2>2. Statistic(m, k) \in rows
    BY <1>6, <2>1 DEF CountInv, Counted
  <2>3. Store!Retention("query_stats") = TTL
    BY DEF Store!Retention
  <2>4. ~(o.table = "query_stats" /\ o.at = snaps[m].at)
    <3>1. snaps[m].at \in Nat /\ now \in Nat /\ TTL \in Nat
      BY SnapFacts DEF StoreInv, StoreType, StoreAssumption
    <3> QED BY <1>1, <2>1, <2>3, <3>1
  <2> QED BY <1>1, <2>2, <2>4, StatisticFacts
<1>7. Counted'
  BY <1>2, <1>3, <1>6 DEF Counted
<1> QED BY <1>4, <1>5, <1>7 DEF CountInv

LEMMA CountSteps == StoreAssumption /\ StoreInv /\ CountInv /\ [Store!Next]_(Store!vars) => CountInv'
<1> SUFFICES ASSUME StoreAssumption, StoreInv, CountInv, [Store!Next]_(Store!vars) PROVE CountInv'
  OBVIOUS
<1>1. CASE UNCHANGED Store!vars
  BY <1>1, CountRests DEF Store!vars
<1>2. ASSUME NEW s \in Servers, NEW kind \in Store!Kinds, NEW c \in Observations[kind], Store!Collect(s, kind, c)
      PROVE  CountInv'
  BY <1>2, CountCollects
<1>3. ASSUME NEW m \in Store!Taken, Store!Write(m) \/ Store!WriteFails(m) PROVE CountInv'
  BY <1>3, CountWrites DEF Store!Taken
<1>4. ASSUME NEW s \in Servers, Store!Execute(s) PROVE CountInv'
  BY <1>4, CountRests DEF Store!Execute
<1>5. CASE Store!Tick
  BY <1>5, CountRests DEF Store!Tick
<1>6. CASE Store!Expire
  BY <1>6, CountExpires
<1>7. CASE Store!Merge
  BY <1>7, CountRests DEF Store!Merge
<1> QED BY <1>1, <1>2, <1>3, <1>4, <1>5, <1>6, <1>7 DEF Store!Next

\* The calls of two sets of rows that share none add up.
LEMMA CallsAdd ==
  ASSUME NEW A, NEW B, IsFiniteSet(A), IsFiniteSet(B), A \cap B = {},
         \A r \in A \cup B : r.calls \in Nat
  PROVE  Cardinality(Store!CallsOf(A)) + Cardinality(Store!CallsOf(B))
           = Cardinality(Store!CallsOf(A \cup B))
<1> DEFINE pairs(r) == {r} \X (1..r.calls)
<1>1. ASSUME NEW S, IsFiniteSet(S), \A r \in S : r.calls \in Nat PROVE IsFiniteSet(Store!CallsOf(S))
  <2>1. ASSUME NEW r \in S PROVE IsFiniteSet(pairs(r))
    <3>1. IsFiniteSet(1..r.calls)
      BY <1>1, FS_Interval
    <3>2. IsFiniteSet({r})
      BY FS_Singleton
    <3> QED BY <3>1, <3>2, FS_Product
  <2> DEFINE each == {pairs(r) : r \in S}
             of == [r \in S |-> pairs(r)]
  <2>2. of \in Surjection(S, each)
    BY DEF Surjection
  <2>3. IsFiniteSet(each)
    BY <1>1, <2>2, FS_Surjection
  <2> QED BY <2>1, <2>3, FS_UNION DEF Store!CallsOf
<1>2. Store!CallsOf(A \cup B) = Store!CallsOf(A) \cup Store!CallsOf(B)
  BY DEF Store!CallsOf
<1>3. Store!CallsOf(A) \cap Store!CallsOf(B) = {}
  <2>1. ASSUME NEW x \in Store!CallsOf(A), x \in Store!CallsOf(B) PROVE FALSE
    <3>1. PICK r \in A : x \in pairs(r)
      BY DEF Store!CallsOf
    <3>2. PICK o \in B : x \in pairs(o)
      BY <2>1 DEF Store!CallsOf
    <3>3. x[1] = r /\ x[1] = o
      BY <3>1, <3>2
    <3> QED BY <3>3
  <2> QED BY <2>1
<1>4. IsFiniteSet(Store!CallsOf(A)) /\ IsFiniteSet(Store!CallsOf(B))
  BY <1>1
<1>5. Cardinality(Store!CallsOf(A \cup B))
        = Cardinality(Store!CallsOf(A)) + Cardinality(Store!CallsOf(B)) - Cardinality({})
  <2>1. PICK X, Y : X = Store!CallsOf(A) /\ Y = Store!CallsOf(B)
    OBVIOUS
  <2>2. Cardinality(X \cup Y) = Cardinality(X) + Cardinality(Y) - Cardinality(X \cap Y)
    BY <1>4, <2>1, FS_Union
  <2> QED BY <1>2, <1>3, <2>1, <2>2
<1>6. Cardinality(Store!CallsOf(A)) \in Nat /\ Cardinality(Store!CallsOf(B)) \in Nat /\ Cardinality({}) = 0
  BY <1>4, FS_CardinalityType, FS_EmptySet
<1> QED BY <1>5, <1>6

\* Cardinality is that of FiniteSets, whichever module counts.
LEMMA Counting == \A S : Store!Cardinality(S) = Cardinality(S)
BY DEF Store!Cardinality, Cardinality

LEMMA CountedInTotals ==
  ASSUME StoreInv, CountInv
  PROVE  Store!DeltasOnce
<1> DEFINE window(a, b) == Store!InWindow("query_stats", Servers, a, b)
<1>1. now \in Nat
  BY DEF StoreInv, StoreType
<1>2. ASSUME NEW r \in rows, r.table = "query_stats"
      PROVE  /\ r.from \in 1..Len(snaps) /\ r.server = snaps[r.from].server
             /\ r.at \in Nat /\ r.at <= now /\ r.calls \in Nat /\ r.tier = 1
  <2>1. r.from \in 1..Len(snaps) /\ r = Statistic(r.from, r.key)
    BY <1>2 DEF CountInv, Known
  <2>2. /\ r.server = snaps[r.from].server /\ r.at = snaps[r.from].at /\ r.calls = snaps[r.from].calls
        /\ r.tier = 1
    BY <2>1, StatisticFacts
  <2>3. snaps[r.from] \in Snaps /\ snaps[r.from].at \in Nat /\ snaps[r.from].at <= now
    BY <2>1, SnapFacts DEF StoreInv
  <2>4. snaps[r.from].calls \in Nat
    BY <2>3 DEF Snaps
  <2> QED BY <2>1, <2>2, <2>3, <2>4
<1>3. ASSUME NEW m \in 1..Len(snaps), NEW d \in Domains \cap Tiers, Store!Stored(m, d),
             NEW k \in snaps[m].content[d]
      PROVE  Cardinality({r \in Store!InWindow("query_stats", {snaps[m].server}, 0, now + 1) :
                            r.from = m /\ r.key = k}) = 1
  <2> DEFINE own == {r \in Store!InWindow("query_stats", {snaps[m].server}, 0, now + 1) :
                       r.from = m /\ r.key = k}
  <2>1. Statistic(m, k) \in rows
    BY <1>3 DEF CountInv, Counted
  <2>2. Statistic(m, k) \in own
    <3>1. snaps[m].at \in Nat /\ snaps[m].at <= now
      BY SnapFacts DEF StoreInv
    <3> QED BY <1>1, <2>1, <3>1, StatisticFacts DEF Store!InWindow
  <2>3. ASSUME NEW r \in own PROVE r = Statistic(m, k)
    <3>1. r \in rows /\ r.table = "query_stats" /\ r.from = m /\ r.key = k
      BY DEF Store!InWindow
    <3>2. r = Statistic(r.from, r.key)
      BY <3>1 DEF CountInv, Known
    <3> QED BY <3>1, <3>2
  <2>4. own = {Statistic(m, k)}
    BY <2>2, <2>3
  <2> QED BY <2>4, FS_Singleton
<1>4. ASSUME NEW cut \in 0..now
      PROVE  Cardinality(Store!CallsOf(window(0, cut))) + Cardinality(Store!CallsOf(window(cut, now + 1)))
               = Cardinality(Store!CallsOf(window(0, now + 1)))
  <2>1. window(0, now + 1) = window(0, cut) \cup window(cut, now + 1)
    BY <1>1, <1>2 DEF Store!InWindow
  <2>2. window(0, cut) \cap window(cut, now + 1) = {}
    BY <1>1, <1>2 DEF Store!InWindow
  <2>3. IsFiniteSet(window(0, cut)) /\ IsFiniteSet(window(cut, now + 1))
    BY FS_Subset DEF CountInv, Finite, Store!InWindow
  <2>4. \A r \in window(0, cut) \cup window(cut, now + 1) : r.calls \in Nat
    BY <1>2 DEF Store!InWindow
  <2> HIDE DEF window
  <2> QED BY <2>1, <2>2, <2>3, <2>4, CallsAdd
<1>5. \A m \in Store!Taken, d \in Domains \cap {"query_stats", "query_stats_t2"} :
        Store!Stored(m, d) => \A k \in snaps[m].content[d] :
          Store!Cardinality({r \in Store!InWindow("query_stats", {snaps[m].server}, 0, now + 1) :
                               r.from = m /\ r.key = k}) = 1
  BY <1>3, Counting DEF Tiers, Store!Taken
<1>6. \A cut \in 0..now :
        Store!ThroughputForServers(Servers, 0, cut) + Store!ThroughputForServers(Servers, cut, now + 1)
          = Store!ThroughputForServers(Servers, 0, now + 1)
  BY <1>4, Counting DEF Store!ThroughputForServers
<1> QED BY <1>5, <1>6 DEF Store!DeltasOnce

\* A query statistic that was stored counts once in the totals, whichever tier it
\* came by and though its text is gone long before, and a window that is cut in two
\* counts what the whole does: for any snapshots, servers and retention (persistSnapshot,
\* the materialized view of tier 1, ThroughputForServers).
THEOREM CountsOnce == Store!Spec => []DeltasOnce
<1>1. Store!Init => StoreInv /\ CountInv
  <2> SUFFICES ASSUME Store!Init PROVE StoreInv /\ CountInv
    OBVIOUS
  <2>1. /\ now = 1 /\ calls = [s \in Servers |-> 0] /\ snaps = << >> /\ written = {} /\ rows = {}
        /\ todo = << >> /\ Len(snaps) = 0 /\ Len(todo) = 0 /\ snaps \in Seq(Snaps)
        /\ todo \in Seq(SUBSET Domains)
    BY DEF Store!Init
  <2>2. 1..Len(snaps) = {}
    BY <2>1
  <2>3. StoreInv
    BY <2>1, <2>2 DEF StoreInv, StoreType, Moments, OfSnapshots, Whole, Kept
  <2>4. CountInv
    BY <2>1, <2>2, FS_EmptySet DEF CountInv, Known, Counted, Finite, Tasks
  <2> QED BY <2>3, <2>4
<1>2. StoreInv /\ CountInv /\ [Store!Next]_(Store!vars) => (StoreInv /\ CountInv)'
  BY StoreSteps, CountSteps, StoreAssumed
<1>3. StoreInv /\ CountInv => DeltasOnce
  BY CountedInTotals DEF DeltasOnce
<1> QED BY <1>1, <1>2, <1>3, PTL DEF Store!Spec

=============================================================================
