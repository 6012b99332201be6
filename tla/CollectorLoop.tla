--------------------------- MODULE CollectorLoop ---------------------------
(***************************************************************************)
(* The collector's only goroutine (main of cmd/collector/main.go): the     *)
(* select over its tickers, a full cycle with its readers under a query    *)
(* budget (RunBounded of internal/collector/fanout.go), and the samples of *)
(* pg_stat_activity that are folded into buckets                           *)
(* (internal/collector/activity_aggregator.go), flushed, shipped, stored   *)
(* and read back by ActivitySummaryForServers, and by WaitEventHistogram   *)
(* for the page of waits (internal/store/chstats_activity.go, api/waits.go)*)
(*                                                                         *)
(* Shipping is the hand-over that Delivery promises and Ingest implements: *)
(* an error says nothing of what was stored, or still will be.  Policy     *)
(* refresh is PolicyGate's; the log arm, there when a log path is set, is  *)
(* LogTail's.                                                              *)
(*                                                                         *)
(* A unit of time is the sampling period; a bucket, and the period of the  *)
(* flush ticker, are Width units.  Buckets start at multiples of Width,    *)
(* the ticker when the process does, and the loop may serve either ticker  *)
(* late.  Keys are the kinds of active backends (database, wait event).    *)
(***************************************************************************)
EXTENDS Integers, FiniteSets, FiniteSetsExt

CONSTANTS Keys,       \* database, wait event type and wait event
          WaitOf,     \* WaitOf[k]: the wait of a key, without its database
          Loads,      \* the samples taken: how many backends of each key
          Width,      \* sampling periods in a bucket
          Readers,    \* the readers of a full cycle
          QueryStats, \* the one whose failure skips the ship
          Budget,     \* LYNCEUS_QUERY_BUDGET
          MaxTime,    \* bound: time passes up to here
          MaxFlushes, \* bound: activity snapshots shipped
          MaxBoots    \* bound: starts of the process

VARIABLES
  clock,     \* time
  phase,     \* the flush ticker fires when clock % Width = phase
  due,       \* the tickers whose channel holds a tick
  pc,        \* where the goroutine is
  arm,       \* what it is shipping, or reading, and will go on after
  reader,    \* reader[i]: reader i in this full cycle
  sem,       \* slots of RunBounded's channel in use
  buckets,   \* the aggregator's map
  body,      \* body[m]: buckets that activity snapshot m carries
  snaps,     \* activity snapshots handed to Send so far
  boots,     \* starts of the process
  fate,      \* Delivery: what the collector knows of snapshot m
  stored,    \* Delivery: row sets of m in ClickHouse
  observed   \* history: <<time, key, count>> folded into the aggregator

cycle    == <<reader, sem>>
activity == <<buckets, body, observed>>
delivery == <<fate, stored>>
process  == <<phase, due, boots>>
vars     == <<clock, process, pc, arm, cycle, activity, snaps, delivery>>

Snapshots == 1..MaxFlushes

\* The hand-over of the activity snapshots, each stored by one insert.
D == INSTANCE Delivery WITH Content <- [m \in Snapshots |-> <<"rows">>]

Tickers == {"sample", "flush"}
Arms    == {"boot", "full", "activity", "connections"}

Running == {i \in Readers : reader[i] = "running"}

\* budget < 1 is clamped to 1.
Slots == IF Budget < 1 THEN 1 ELSE Budget

BucketStart(t) == t - (t % Width)

\* What numbers add up to: a pair for each unit of each.
Total(weight) == Cardinality(UNION {{x} \X (1..weight[x]) : x \in DOMAIN weight})

-----------------------------------------------------------------------------
(* Variants of the definitions below, each with a mistake the code could   *)
(* have made; substituted for the original, a property must fail.          *)

\* A reader starts without a slot.
AcquireAtOnce(i) ==
  /\ pc = "read" /\ reader[i] = "waiting"
  /\ reader' = [reader EXCEPT ![i] = "running"]
  /\ sem' = sem + 1
  /\ UNCHANGED <<clock, process, pc, arm, activity, snaps, delivery>>

\* A reader that fails returns before its slot is given back.
FinishLeaks(i) ==
  /\ reader[i] = "running"
  /\ \E r \in {"ok", "failed"} :
       /\ reader' = [reader EXCEPT ![i] = r]
       /\ sem' = IF r = "ok" THEN sem - 1 ELSE sem
  /\ UNCHANGED <<clock, process, pc, arm, activity, snaps, delivery>>

\* CountMax follows the last sample.
FoldLast(b, n) ==
  [b EXCEPT !.samples = @ + 1, !.sum = @ + n, !.max = n]

\* Buckets whose Send failed are put back, to be shipped again.
SendErrRetries ==
  /\ pc = "send" /\ arm = "activity"
  /\ D!Fail(snaps)
  /\ buckets' = buckets \cup body[snaps]
  /\ pc' = "connections"
  /\ UNCHANGED <<clock, process, arm, cycle, body, snaps, observed>>

-----------------------------------------------------------------------------
(* The aggregator.                                                         *)

NewBucket(start, k) ==
  [start |-> start, key |-> k, samples |-> 0, sum |-> 0, max |-> 0]

Fold(b, n) ==
  [b EXCEPT !.samples = @ + 1, !.sum = @ + n, !.max = IF n > @ THEN n ELSE @]

\* Observe: f[k] backends of key k, and no sample for a key with none.
Observe(start, f) ==
  LET mine == {b \in buckets : b.start = start /\ f[b.key] > 0}
      fresh == {NewBucket(start, k) :
                  k \in {k \in Keys : f[k] > 0 /\ \A b \in mine : b.key # k}}
  IN  (buckets \ mine) \cup {Fold(b, f[b.key]) : b \in mine \cup fresh}

-----------------------------------------------------------------------------
\* The cycle's variables end with it.
NewCycle == reader' = [i \in Readers |-> "waiting"]

StartProcess ==
  /\ pc' = "read" /\ arm' = "boot"
  /\ NewCycle /\ sem' = 0
  /\ due' = {} /\ phase' = 0
  /\ buckets' = {}

Init ==
  /\ clock = 0 /\ phase = 0 /\ due = {} /\ boots = 1
  /\ pc = "read" /\ arm = "boot"
  /\ reader = [i \in Readers |-> "waiting"] /\ sem = 0
  /\ buckets = {} /\ body = [m \in Snapshots |-> {}] /\ snaps = 0
  /\ D!Init
  /\ observed = {}

\* Send begins with a snapshot whose contents are not looked at here, and the
\* goroutine waits for it.
Ship(what) ==
  /\ pc' = "send" /\ arm' = what
  /\ UNCHANGED <<clock, process, sem, activity, snaps, delivery>>

\* Where the goroutine goes after runFull, flushActivity or shipConnections.
\* The tickers are made when the first samples have been taken.
After ==
  CASE arm = "boot" -> "sample"
    [] arm = "activity" -> "connections"
    [] OTHER -> "select"

-----------------------------------------------------------------------------
(* A full cycle: runFull and RunBounded.                                   *)

FullTick ==
  /\ pc = "select"
  /\ pc' = "read" /\ arm' = "full"
  /\ UNCHANGED <<clock, process, cycle, activity, snaps, delivery>>

\* sem <- struct{}{}
Acquire(i) ==
  /\ pc = "read" /\ reader[i] = "waiting" /\ sem < Slots
  /\ reader' = [reader EXCEPT ![i] = "running"]
  /\ sem' = sem + 1
  /\ UNCHANGED <<clock, process, pc, arm, activity, snaps, delivery>>

\* Run returns, and the deferred receive frees the slot.
Finish(i) ==
  /\ reader[i] = "running"
  /\ \E r \in {"ok", "failed"} : reader' = [reader EXCEPT ![i] = r]
  /\ sem' = sem - 1
  /\ UNCHANGED <<clock, process, pc, arm, activity, snaps, delivery>>

AllDone == \A i \in Readers : reader[i] \in {"ok", "failed"}

\* wg.Wait returns; errs[0] = nil.
ShipFull ==
  /\ pc = "read" /\ AllDone /\ reader[QueryStats] = "ok"
  /\ Ship(arm)
  /\ NewCycle

\* wg.Wait returns; errs[0] # nil: nothing is shipped.
SkipFull ==
  /\ pc = "read" /\ AllDone /\ reader[QueryStats] = "failed"
  /\ pc' = After
  /\ NewCycle
  /\ UNCHANGED <<clock, process, arm, sem, activity, snaps, delivery>>

-----------------------------------------------------------------------------
(* The other arms.                                                         *)

\* The end of sampleActivity: the loop, with new tickers after the first.
Sampled ==
  /\ pc' = "select" /\ arm' = "full"
  /\ due' = due \ {"sample"}
  /\ phase' = IF pc = "sample" THEN clock % Width ELSE phase
  /\ UNCHANGED <<clock, boots, cycle, body, snaps, delivery>>

AtSample == pc = "sample" \/ (pc = "select" /\ "sample" \in due)

Sample ==
  /\ AtSample
  /\ \E f \in Loads :
       /\ buckets' = Observe(BucketStart(clock), f)
       /\ observed' = observed \cup
                        {<<clock, k, f[k]>> : k \in {k \in Keys : f[k] > 0}}
  /\ Sampled

\* The reader fails: return without Observe.
SampleFails == AtSample /\ Sampled /\ UNCHANGED <<buckets, observed>>

AtFlush == pc = "select" /\ "flush" \in due

\* flushActivity: Flush empties the map before Send is called.
Flush ==
  /\ AtFlush /\ buckets # {} /\ snaps < MaxFlushes
  /\ snaps' = snaps + 1
  /\ body' = [body EXCEPT ![snaps + 1] = buckets]
  /\ buckets' = {}
  /\ D!Send(snaps + 1)
  /\ due' = due \ {"flush"}
  /\ pc' = "send" /\ arm' = "activity"
  /\ UNCHANGED <<clock, phase, boots, cycle, observed>>

\* flushActivity has nothing to ship and returns.
FlushNothing ==
  /\ AtFlush /\ buckets = {}
  /\ due' = due \ {"flush"}
  /\ pc' = "connections"
  /\ UNCHANGED <<clock, phase, boots, arm, cycle, activity, snaps, delivery>>

ShipConnections ==
  /\ pc = "connections"
  /\ Ship("connections")
  /\ UNCHANGED reader

\* The connections reader fails or finds nothing.
NoConnections ==
  /\ pc = "connections"
  /\ pc' = "select"
  /\ UNCHANGED <<clock, process, arm, cycle, activity, snaps, delivery>>

\* Send returns nil, or an error that is only logged.
SendReturns ==
  /\ pc = "send" /\ arm # "activity"
  /\ pc' = After
  /\ UNCHANGED <<clock, process, arm, cycle, activity, snaps, delivery>>

SendOk ==
  /\ pc = "send" /\ arm = "activity"
  /\ D!Succeed(snaps)
  /\ pc' = After
  /\ UNCHANGED <<clock, process, arm, cycle, activity, snaps>>

SendErr ==
  /\ pc = "send" /\ arm = "activity"
  /\ D!Fail(snaps)
  /\ pc' = After
  /\ UNCHANGED <<clock, process, arm, cycle, activity, snaps>>

-----------------------------------------------------------------------------
(* Time, the ingestion server, and the end of the process.                 *)

\* A ticker's channel holds one tick: one that comes before the last was
\* taken is dropped.
Elapse ==
  /\ clock < MaxTime
  /\ clock' = clock + 1
  /\ due' = IF arm = "boot" THEN {}
            ELSE due \cup {"sample"} \cup
                   (IF (clock + 1) % Width = phase THEN {"flush"} ELSE {})
  /\ UNCHANGED <<phase, boots, pc, arm, cycle, activity, snaps, delivery>>

Store(m) ==
  /\ D!Store(m)
  /\ UNCHANGED <<clock, process, pc, arm, cycle, activity, snaps>>

\* The process is killed; a new one starts in a later period.
Restart ==
  /\ boots < MaxBoots /\ clock < MaxTime
  /\ boots' = boots + 1
  /\ clock' = clock + 1
  /\ IF pc = "send" /\ arm = "activity" THEN D!Fail(snaps) ELSE UNCHANGED delivery
  /\ StartProcess
  /\ UNCHANGED <<body, snaps, observed>>

Loop ==
  \/ FullTick \/ ShipFull \/ SkipFull
  \/ Sample \/ SampleFails \/ Flush \/ FlushNothing
  \/ ShipConnections \/ NoConnections
  \/ SendReturns \/ SendOk \/ SendErr

Next ==
  \/ Loop
  \/ \E i \in Readers : Acquire(i) \/ Finish(i)
  \/ \E m \in Snapshots : Store(m)
  \/ Elapse \/ Restart

Spec == Init /\ [][Next]_vars

\* A goroutine that can go on does, and PostgreSQL answers each reader.
Fairness ==
  /\ \A i \in Readers : WF_vars(Acquire(i)) /\ WF_vars(Finish(i))
  /\ WF_vars(ShipFull \/ SkipFull)

FairSpec == Spec /\ Fairness

-----------------------------------------------------------------------------
(* What the fleet view reads: ActivitySummaryForServers.                   *)

snapshotToActivityBuckets(m) == {[snap |-> m, bucket |-> b] : b \in body[m]}

\* Rows of activity_buckets, which merges nothing: two parts of a bucket
\* stay two rows.
Rows == UNION {snapshotToActivityBuckets(m) : m \in {m \in Snapshots : stored[m] = 1}}

Newest == Max({r.bucket.start : r \in Rows})

\* SUM(count_max) over the rows of the most recent bucket.
ActiveConns ==
  Total([r \in {x \in Rows : x.bucket.start = Newest} |-> r.bucket.max])

\* WaitEventHistogram: by wait, whatever the database, COUNT(*) is of rows.  The
\* window reaches a week back.
WaitEventHistogram ==
  [w \in {WaitOf[r.bucket.key] : r \in Rows} |->
     LET own == {r \in Rows : WaitOf[r.bucket.key] = w}
     IN  [total |-> Total([r \in own |-> r.bucket.sum]), buckets |-> Cardinality(own)]]

\* fetchWaits: of each wait its average and its share, and the wait on top.
fetchWaits ==
  LET h == WaitEventHistogram
      all == Total([w \in DOMAIN h |-> h[w].total])
  IN  [avg   |-> [w \in DOMAIN h |-> h[w].total \div h[w].buckets],
       width |-> [w \in DOMAIN h |-> (h[w].total * 100) \div all],
       top   |-> {w \in DOMAIN h : \A v \in DOMAIN h : h[v].total <= h[w].total}]

-----------------------------------------------------------------------------
(* Properties.                                                             *)

Bucket == [start : 0..MaxTime, key : Keys, samples : Nat, sum : Nat, max : Nat]

\* Type invariant; the slots in use are those of the running readers, never
\* more than the budget.
TypeOK ==
  /\ clock \in 0..MaxTime /\ phase \in 0..(Width - 1)
  /\ due \subseteq Tickers
  /\ pc \in {"read", "sample", "select", "send", "connections"}
  /\ arm \in Arms
  /\ reader \in [Readers -> {"waiting", "running", "ok", "failed"}]
  /\ sem = Cardinality(Running) /\ sem <= Slots
  /\ buckets \subseteq Bucket
  /\ body \in [Snapshots -> SUBSET Bucket]
  /\ snaps \in 0..MaxFlushes /\ boots \in 1..MaxBoots
  /\ fate \in [Snapshots -> D!Fates] /\ stored \in [Snapshots -> {0, 1}]

Samples(start, k) == {o \in observed : BucketStart(o[1]) = start /\ o[2] = k}
RowsOf(start, k)  == {r \in Rows : r.bucket.start = start /\ r.bucket.key = k}
BucketStarts == {BucketStart(t) : t \in 0..MaxTime}

Seen(start, k) ==
  [samples |-> Cardinality(Samples(start, k)),
   sum     |-> Total([o \in Samples(start, k) |-> o[3]])]

Told(rows) ==
  [samples |-> Total([r \in rows |-> r.bucket.samples]),
   sum     |-> Total([r \in rows |-> r.bucket.sum])]

Pending(start, k) ==
  {[snap |-> 0, bucket |-> b] : b \in {b \in buckets : b.start = start /\ b.key = k}}

Parts == [start : BucketStarts, key : Keys]

Waits == {WaitOf[k] : k \in Keys}
Observed(w) == Total([o \in {x \in observed : WaitOf[x[2]] = w} |-> o[3]])

\* While nothing is lost the page of waits says what was observed: all the time
\* waited, the greatest wait on top, and the average no more than any bucket had.
WaitsTrue ==
  LET page == fetchWaits
      ofBucket(w, start) == Total([k \in {x \in Keys : WaitOf[x] = w} |-> Seen(start, k).sum])
  IN  /\ \A w \in DOMAIN page.avg : \E start \in BucketStarts : page.avg[w] \in 1..ofBucket(w, start)
      /\ Total(page.width) <= 100
      /\ (\A start \in BucketStarts, k \in Keys : Told(RowsOf(start, k)) = Seen(start, k)) =>
           /\ DOMAIN page.avg = {WaitOf[o[2]] : o \in observed}
           /\ \A w \in page.top : \A v \in Waits : Observed(v) <= Observed(w)

\* No sample is counted twice, whatever failed and however often the process
\* was restarted; and none is lost while no process died, every Send was
\* answered and none failed.
CountedOnce ==
  /\ \A part \in Parts :
       LET seen == Seen(part.start, part.key)
           told == Told(RowsOf(part.start, part.key))
       IN  /\ told.samples <= seen.samples /\ told.sum <= seen.sum
           /\ boots = 1 /\ (\A m \in 1..snaps : fate[m] = "ok") =>
                Told(RowsOf(part.start, part.key) \cup Pending(part.start, part.key)) = seen
  /\ WaitsTrue

AllTold(start) ==
  \A k \in Keys : Told(RowsOf(start, k)) = Seen(start, k)

Active(t) == Total([o \in {x \in observed : x[1] = t} |-> o[3]])

\* The number the fleet view shows is never below the most backends that were
\* active at once in the newest bucket, once all of its samples arrived -
\* in however many parts, and around whatever restarts.
PeakNotMissed ==
  Rows # {} /\ AllTold(Newest) =>
    \A t \in 0..MaxTime :
      BucketStart(t) = Newest => Active(t) <= ActiveConns

\* A full cycle comes to its end: every reader gets a slot sooner or later,
\* whichever of the others fail.
CycleEnds == pc = "read" ~> pc # "read"

-----------------------------------------------------------------------------
\* web/waits.templ:3: the average is "avg per bucket"; but there is a row for
\* every database, and one for each part of a bucket that was flushed in two.
PerBucket ==
  \A w \in DOMAIN WaitEventHistogram :
    WaitEventHistogram[w].buckets =
      Cardinality({r.bucket.start : r \in {x \in Rows : WaitOf[x.bucket.key] = w}})

PeakOf(k) ==
  LET counts == {o[3] : o \in Samples(Newest, k)}
  IN  IF counts = {} THEN 0 ELSE Max(counts)

\* internal/store/types.go:26-27: ActivitySummary holds the "peak active
\* connections in the most recent bucket"; each key's peak is count_max, and
\* the keys are summed.  A flush that is served late leaves two rows of one
\* bucket and key, whose peaks are added as well.
PeakShown ==
  Rows # {} => ActiveConns <= Total([k \in Keys |-> PeakOf(k)])
=============================================================================
