------------------------------- MODULE Ingest -------------------------------
(***************************************************************************)
(* Shipping a snapshot: Shipper.Send of the collectors                     *)
(* (internal/collector/shipper.go) and the websocket receiver of one       *)
(* ingestion process, handle, persistSnapshot, persistExtendedRows,        *)
(* limiterFor and parkDLQ (internal/ingest/server.go).                     *)
(*                                                                         *)
(* One connection carries one snapshot, so a snapshot stands for its       *)
(* connection and its handler goroutine.  The websocket library is         *)
(* modelled by what the two sides use of it: Close returns nil to the      *)
(* collector only when the peer's close code is StatusNormalClosure, gives *)
(* up after a few seconds, and Read fails on a message longer than the     *)
(* library's read limit, which the server leaves at its default.  The      *)
(* handler's context is cut off from the connection once it is hijacked:   *)
(* it ends by its deadline only.                                           *)
(*                                                                         *)
(* persistSnapshot makes up to fourteen writes in a fixed order, one for   *)
(* each row set that is not empty: Content[m] lists those of snapshot m.   *)
(***************************************************************************)
EXTENDS Integers, Sequences, FiniteSets

CONSTANTS Servers,     \* monitored servers
          Snapshots,   \* snapshots shipped
          ServerOf,    \* ServerOf[m]: m's server_id
          Content,     \* Content[m]: m's row sets, in the order of the writes
          RateBurst,   \* capacity of a server's token bucket
          MaxRefills   \* bound: tokens that time adds to each bucket

ASSUME BucketAssumption == RateBurst \in Nat \ {0} /\ MaxRefills \in Nat

\* The order of the writes of persistSnapshot and persistExtendedRows.
WriteOrder ==
  <<"query_stats", "query_stats_raw", "activity_buckets", "query_plans",
    "insights", "schema_objects", "table_stats", "log_events", "freeze_ages",
    "xmin_horizon", "index_stats", "settings", "connection_samples",
    "blocking_edges">>

InWriteOrder(c) ==
  \A i, j \in 1..Len(c) : i < j =>
    \E p, q \in 1..Len(WriteOrder) :
      p < q /\ WriteOrder[p] = c[i] /\ WriteOrder[q] = c[j]

ASSUME SnapshotsAssumption ==
  /\ ServerOf \in [Snapshots -> Servers]
  /\ \A m \in Snapshots : Content[m] \in Seq(STRING) /\ InWriteOrder(Content[m])

VARIABLES
  send,      \* send[m]: the call of Send as its caller sees it
  pc,        \* pc[m]: where m's handler is
  code,      \* code[m]: the close code the handler sent, or what became of it
  expired,   \* expired[m]: the handler's context has passed its deadline
  stored,    \* stored[m]: how many of m's row sets are in ClickHouse
  reason,    \* reason[m]: why the handler parks m
  dlq,       \* rows of the dlq table: <<m, reason>>
  tokens,    \* tokens[s]: the bucket of s's limiter; -1: no limiter yet
  refills,   \* refills[s]: tokens time has added to s's bucket
  admitted,  \* history: admitted[s]: snapshots of s the limiter allowed
  buckets    \* history: buckets[s]: how often s's bucket was made

handler == <<pc, code, reason, dlq>>
limits  == <<tokens, refills, admitted, buckets>>
vars    == <<send, handler, expired, stored, limits>>

Reasons == {"unmarshal", "rate_limited", "write"}
Running == {"accepted", "persist", "park"}

Goto(m, l) == pc' = [pc EXCEPT ![m] = l]

\* The handler returns, and its context ends with it.  Its deferred CloseNow
\* drops a connection that has not been closed with a code.
Answer(m, c) ==
  /\ Goto(m, "done")
  /\ code' = [code EXCEPT ![m] = c]
  /\ expired' = [expired EXCEPT ![m] = FALSE]

\* parkDLQ comes next, with this reason.
ParkFor(m, why) ==
  /\ Goto(m, "park")
  /\ reason' = [reason EXCEPT ![m] = why]
  /\ UNCHANGED code

-----------------------------------------------------------------------------
(* Variants of the definitions below, each with a mistake the code could   *)
(* have made; substituted for the original, a property must fail.          *)

\* The new limiter is not put into the map.
AllowedFresh(s) == RateBurst

\* The snapshot is acknowledged as soon as the first write is done.
PersistedEarly(m) == stored[m] >= 1

\* An error of the store is answered like a success.
CloseCodeSwapped(m) ==
  CASE reason[m] = "unmarshal"    -> "bad_payload"
    [] reason[m] = "rate_limited" -> "try_again"
    [] reason[m] = "write"        -> "normal"

\* Every server draws on the bucket of the first one.
BucketShared(m) == CHOOSE s \in Servers : TRUE

\* The deadline covers the read only.
ExpireReadOnly(m) ==
  /\ pc[m] = "accepted" /\ ~expired[m]
  /\ expired' = [expired EXCEPT ![m] = TRUE]
  /\ UNCHANGED <<send, handler, stored, limits>>

\* A row set that is empty is written like the others.
WriteEmpty(m) ==
  /\ pc[m] = "persist" /\ ~expired[m]
  /\ stored[m] < Len(WriteOrder)
  /\ stored' = [stored EXCEPT ![m] = @ + 1]
  /\ UNCHANGED <<send, handler, expired, limits>>

-----------------------------------------------------------------------------
Init ==
  /\ send = [m \in Snapshots |-> "unsent"]
  /\ pc = [m \in Snapshots |-> "none"]
  /\ code = [m \in Snapshots |-> "open"]
  /\ expired = [m \in Snapshots |-> FALSE]
  /\ stored = [m \in Snapshots |-> 0]
  /\ reason = [m \in Snapshots |-> "none"]
  /\ dlq = {}
  /\ tokens = [s \in Servers |-> -1]
  /\ refills = [s \in Servers |-> 0]
  /\ admitted = [s \in Servers |-> 0]
  /\ buckets = [s \in Servers |-> 0]

-----------------------------------------------------------------------------
(* The collector.                                                          *)

\* Send: Dial succeeds and the message is written; the receiver's handler
\* has accepted the connection and waits in conn.Read.
Send(m) ==
  /\ send[m] = "unsent"
  /\ send' = [send EXCEPT ![m] = "sent"]
  /\ Goto(m, "accepted")
  /\ UNCHANGED <<code, reason, dlq, expired, stored, limits>>

\* Send: Marshal, Dial (the token is refused, say) or Write fails.
SendFails(m) ==
  /\ send[m] = "unsent"
  /\ send' = [send EXCEPT ![m] = "failed"]
  /\ UNCHANGED <<handler, expired, stored, limits>>

\* conn.Close sees the server's close frame.
HearNormal(m) ==
  /\ send[m] = "sent" /\ code[m] = "normal"
  /\ send' = [send EXCEPT ![m] = "ok"]
  /\ UNCHANGED <<handler, expired, stored, limits>>

HearOther(m) ==
  /\ send[m] = "sent"
  /\ code[m] \in {"try_again", "bad_payload", "internal", "dropped"}
  /\ send' = [send EXCEPT ![m] = "failed"]
  /\ UNCHANGED <<handler, expired, stored, limits>>

\* conn.Close gives up before the handler has answered, or the answer is
\* lost with the connection.
GiveUp(m) ==
  /\ send[m] = "sent" /\ code[m] \in {"open", "normal"}
  /\ send' = [send EXCEPT ![m] = "failed"]
  /\ UNCHANGED <<handler, expired, stored, limits>>

-----------------------------------------------------------------------------
(* The ingestion server.                                                   *)

\* conn.Read fails: the deadline, a connection that breaks, or a message
\* over the read limit.  The handler returns without parking anything.
ReadFails(m) ==
  /\ pc[m] = "accepted"
  /\ Answer(m, "dropped")
  /\ UNCHANGED <<send, reason, dlq, stored, limits>>

\* proto.Unmarshal fails: the sender is not a collector of this version.
ReadMalformed(m) ==
  /\ pc[m] = "accepted" /\ ~expired[m]
  /\ ParkFor(m, "unmarshal")
  /\ UNCHANGED <<send, dlq, expired, stored, limits>>

Bucket(m) == ServerOf[m]

\* limiterFor: what a server's bucket holds, once it has one.
Available(s) == IF tokens[s] = -1 THEN RateBurst ELSE tokens[s]

NewBucket(s) == IF tokens[s] = -1 THEN 1 ELSE 0

\* conn.Read returns the frame, proto.Unmarshal a snapshot, and
\* limiterFor(snap.ServerId).Allow() a token.
Allow(m) ==
  LET s == Bucket(m) IN
  /\ pc[m] = "accepted" /\ ~expired[m] /\ Available(s) > 0
  /\ tokens' = [tokens EXCEPT ![s] = Available(s) - 1]
  /\ buckets' = [buckets EXCEPT ![s] = @ + NewBucket(s)]
  /\ admitted' = [admitted EXCEPT ![ServerOf[m]] = @ + 1]
  /\ Goto(m, "persist")
  /\ UNCHANGED <<send, code, reason, dlq, expired, stored, refills>>

\* As above, but the bucket is empty.
RateLimited(m) ==
  /\ pc[m] = "accepted" /\ ~expired[m] /\ Available(Bucket(m)) = 0
  /\ ParkFor(m, "rate_limited")
  /\ UNCHANGED <<send, dlq, expired, stored, limits>>

\* The next write of persistSnapshot or persistExtendedRows.
Write(m) ==
  /\ pc[m] = "persist" /\ ~expired[m]
  /\ stored[m] < Len(Content[m])
  /\ stored' = [stored EXCEPT ![m] = @ + 1]
  /\ UNCHANGED <<send, handler, expired, limits>>

\* A write returns an error.  ClickHouse may have applied it all the same.
WriteFails(m) ==
  /\ pc[m] = "persist" /\ stored[m] < Len(Content[m])
  /\ \E n \in {0, 1} : stored' = [stored EXCEPT ![m] = @ + n]
  /\ ParkFor(m, "write")
  /\ UNCHANGED <<send, dlq, expired, limits>>

Persisted(m) == stored[m] = Len(Content[m])

\* Every write is done: conn.Close(StatusNormalClosure).
Accept(m) ==
  /\ pc[m] = "persist" /\ Persisted(m)
  /\ Answer(m, "normal")
  /\ UNCHANGED <<send, reason, dlq, stored, limits>>

CloseCode(m) ==
  CASE reason[m] = "unmarshal"    -> "bad_payload"
    [] reason[m] = "rate_limited" -> "try_again"
    [] reason[m] = "write"        -> "internal"

\* parkDLQ, then Close.
Park(m) ==
  /\ pc[m] = "park" /\ ~expired[m]
  /\ dlq' = dlq \cup {<<m, reason[m]>>}
  /\ reason' = [reason EXCEPT ![m] = "none"]
  /\ Answer(m, CloseCode(m))
  /\ UNCHANGED <<send, stored, limits>>

\* parkDLQ fails: the context it shares with the read and the writes is over,
\* or ClickHouse refuses the row.  The error is logged.
ParkFails(m) ==
  /\ pc[m] = "park"
  /\ reason' = [reason EXCEPT ![m] = "none"]
  /\ Answer(m, CloseCode(m))
  /\ UNCHANGED <<send, dlq, stored, limits>>

-----------------------------------------------------------------------------
(* Time and failures.                                                      *)

\* context.WithTimeout(r.Context(), ReadTimeout), set before the read, ends.
Expire(m) ==
  /\ pc[m] \in Running /\ ~expired[m]
  /\ expired' = [expired EXCEPT ![m] = TRUE]
  /\ UNCHANGED <<send, handler, stored, limits>>

\* The token bucket fills with time, up to its capacity.
Refill(s) ==
  /\ tokens[s] \in 0..(RateBurst - 1) /\ refills[s] < MaxRefills
  /\ tokens' = [tokens EXCEPT ![s] = @ + 1]
  /\ refills' = [refills EXCEPT ![s] = @ + 1]
  /\ UNCHANGED <<send, handler, expired, stored, admitted, buckets>>

\* The process is restarted.  Shutdown does not wait for hijacked
\* connections: the handlers die where they are, and so do the limiters.
Restart ==
  /\ \E m \in Snapshots : pc[m] \in Running
  /\ pc' = [m \in Snapshots |-> IF pc[m] \in Running THEN "done" ELSE pc[m]]
  /\ code' = [m \in Snapshots |-> IF pc[m] \in Running THEN "dropped" ELSE code[m]]
  /\ expired' = [m \in Snapshots |-> FALSE]
  /\ reason' = [m \in Snapshots |-> IF pc[m] \in Running THEN "none" ELSE reason[m]]
  /\ tokens' = [s \in Servers |-> -1]
  /\ UNCHANGED <<send, dlq, stored, refills, admitted, buckets>>

Hear(m) == HearNormal(m) \/ HearOther(m) \/ GiveUp(m)

Handle(m) ==
  \/ ReadFails(m) \/ ReadMalformed(m) \/ Allow(m) \/ RateLimited(m)
  \/ Write(m) \/ WriteFails(m) \/ Accept(m) \/ Park(m)
  \/ ParkFails(m)

Next ==
  \/ \E m \in Snapshots :
       Send(m) \/ SendFails(m) \/ Hear(m) \/ Handle(m) \/ Expire(m)
  \/ \E s \in Servers : Refill(s)
  \/ Restart

Spec == Init /\ [][Next]_vars

\* A deadline passes; a call that has failed, or cannot succeed any more
\* because its context has ended, returns.  Nothing makes ClickHouse answer
\* a call whose context still runs, and nothing is assumed of GiveUp.
Fairness ==
  \A m \in Snapshots :
    /\ WF_vars(Expire(m))
    /\ WF_vars(expired[m] /\ Handle(m))
    /\ WF_vars(HearNormal(m) \/ HearOther(m))

FairSpec == Spec /\ Fairness

-----------------------------------------------------------------------------
(* Properties.                                                             *)

\* Type invariant of the connections, the tables and the limiters.
TypeOK ==
  /\ send \in [Snapshots -> {"unsent", "sent", "ok", "failed"}]
  /\ pc \in [Snapshots -> Running \cup {"none", "done"}]
  /\ code \in [Snapshots -> {"open", "normal", "try_again", "bad_payload",
                             "internal", "dropped"}]
  /\ expired \in [Snapshots -> BOOLEAN]
  /\ stored \in [Snapshots -> Nat]
  /\ \A m \in Snapshots : stored[m] <= Len(Content[m])
  /\ reason \in [Snapshots -> Reasons \cup {"none"}]
  /\ dlq \subseteq Snapshots \X Reasons
  /\ tokens \in [Servers -> -1..RateBurst]
  /\ refills \in [Servers -> Nat]
  /\ admitted \in [Servers -> Nat]
  /\ buckets \in [Servers -> Nat]

\* What a collector was told is delivered is stored whole and is not in the
\* dead-letter queue as well: acknowledged and parked exclude each other.
AckOrPark ==
  \A m \in Snapshots :
    code[m] = "normal" \/ send[m] = "ok" =>
      stored[m] = Len(Content[m]) /\ \A why \in Reasons : <<m, why>> \notin dlq

\* One server's flood never costs another: a snapshot is turned away only
\* after its own server had used a whole burst.
LimitedByOwn ==
  \A m \in Snapshots :
    <<m, "rate_limited">> \in dlq \/ reason[m] = "rate_limited" =>
      admitted[ServerOf[m]] >= RateBurst

\* A server's collectors never get more snapshots through than its bucket
\* ever held, however their handlers interleave and however often the
\* process is restarted; and no other server pays for it.
RateBounded ==
  /\ \A s \in Servers : admitted[s] <= RateBurst * buckets[s] + refills[s]
  /\ LimitedByOwn

\* However long ClickHouse keeps the handler waiting, a collector's call of
\* Send that has written its message comes back: the collector's only
\* goroutine is not stuck behind it.
SendReturns == \A m \in Snapshots : send[m] = "sent" ~> send[m] \in {"ok", "failed"}

\* The collector may see Send as an atomic hand-over with an ambiguous error.
Fate == [m \in Snapshots |->
           IF send[m] = "sent" THEN "sending" ELSE send[m]]

Abstract == INSTANCE Delivery WITH fate <- Fate, stored <- stored

ImplementsDelivery == Abstract!Spec
=============================================================================
