-------------------------- MODULE ChecksScheduler --------------------------
(***************************************************************************)
(* The checks scheduler of the ingestion replicas: Run and RunOnce of      *)
(* internal/checks/scheduler.go, with the mutes and results it shares with *)
(* the API through ClickHouse (internal/store/chstats_checksmutes.go) and  *)
(* the Checks screen that reads them (internal/api/checks.go).             *)
(*                                                                         *)
(* The advisory lock belongs to a PostgreSQL session, one connection of    *)
(* the replica's pool held for the round.  Nothing looks at that session   *)
(* again until pg_advisory_unlock, so a replica whose session has ended    *)
(* goes on with its round while another one may take the lock.             *)
(*                                                                         *)
(* What the checks find is a function of stored statistics that the        *)
(* collectors change at any time: the alerts found are any set of alerts.  *)
(* The code makes a result only for a check that fires (no Check returns   *)
(* StatusOK), so a result is an alert: a check id and an object.           *)
(***************************************************************************)
EXTENDS Integers, FiniteSets

CONSTANTS Replicas,    \* ingestion processes, each with one scheduler
          NumServers,  \* monitored servers; RecentServerIDs sorts them by id
          Alerts,      \* pairs of a check and an object
          Nobody,      \* the lock is free
          Ghost,       \* the lock is held by a session whose client is gone
          MaxRounds    \* bound: rounds that get the lock

ASSUME HoldersAssumption == {Nobody, Ghost} \cap Replicas = {} /\ Nobody # Ghost
ASSUME BoundsAssumption == NumServers \in Nat \ {0} /\ MaxRounds \in Nat

Servers == 1..NumServers

VARIABLES
  lock,     \* holder of schedulerLockKey: a replica's live session, or not
  pc,       \* pc[r]: where replica r is in RunOnce
  at,       \* at[r]: "now" of r's round, the evaluated_at of its rows
  srv,      \* srv[r]: the server r evaluates
  loop,     \* loop[r]: the variables of the loop's body
  clock,    \* wall clock, one tick per round; replicas agree on it
  mutes,    \* mutes[s]: mutes in force (latest version, not a tombstone,
            \* muted_until in the future)
  results,  \* rows of checks_results
  offered,  \* history: <<at, s, a>> handed to the notifier
  steady    \* history: steady[r]: <<s, a>> muted since r's round began

round == <<pc, at, srv, loop, steady>>
vars  == <<lock, round, clock, mutes, results, offered>>

ResultRow == [server : Servers, alert : Alerts, at : Nat, muted : BOOLEAN]

\* results of Run; what ListMutes answered and whether it did; the results
\* the loop has still to look at.
LoopVars == [found : SUBSET Alerts, mutes : SUBSET Alerts, ok : BOOLEAN,
             pending : SUBSET Alerts]
NoLoop == [found |-> {}, mutes |-> {}, ok |-> TRUE, pending |-> {}]

\* Where a replica is inside a round.
Evaluating == {"assemble", "mutes", "notify", "unlock"}

Goto(r, l) == pc' = [pc EXCEPT ![r] = l]

BeginRound(r) ==
  /\ clock' = clock + 1
  /\ at' = [at EXCEPT ![r] = clock + 1]
  /\ steady' = [steady EXCEPT ![r] = UNION {{s} \X mutes[s] : s \in Servers}]
  /\ Goto(r, "assemble")
  /\ UNCHANGED <<srv, loop, mutes, results, offered>>

EndRound(r) ==
  /\ Goto(r, "idle")
  /\ at' = [at EXCEPT ![r] = 0]
  /\ srv' = [srv EXCEPT ![r] = 1]
  /\ loop' = [loop EXCEPT ![r] = NoLoop]
  /\ steady' = [steady EXCEPT ![r] = {}]

\* return err, or the loop is over: the deferred calls are next.
LeaveLoop(r) ==
  /\ Goto(r, "unlock")
  /\ loop' = [loop EXCEPT ![r] = NoLoop]
  /\ UNCHANGED srv

\* The end of the loop's body.
NextServer(r) ==
  IF srv[r] < NumServers THEN
    /\ srv' = [srv EXCEPT ![r] = @ + 1]
    /\ loop' = [loop EXCEPT ![r] = NoLoop]
    /\ Goto(r, "assemble")
  ELSE LeaveLoop(r)

isMuted(r, a) == a \in loop[r].mutes

Row(r, a, m) == [server |-> srv[r], alert |-> a, at |-> at[r], muted |-> m]

-----------------------------------------------------------------------------
(* Variants of the definitions below, each with a mistake the code could   *)
(* have made; substituted for the original, a property must fail.          *)

\* The answer of pg_try_advisory_lock is not looked at.
TryLockUnchecked(r) ==
  /\ pc[r] = "idle" /\ clock < MaxRounds
  /\ lock' = IF lock = Nobody THEN r ELSE lock
  /\ BeginRound(r)

\* Mutes are read once, for the first server, and kept for the others.
ListMutesOnce(r) ==
  /\ pc[r] = "mutes"
  /\ loop' = [loop EXCEPT ![r] =
                [@ EXCEPT !.mutes = mutes[1], !.pending = loop[r].found]]
  /\ Goto(r, "notify")
  /\ UNCHANGED <<lock, at, srv, clock, mutes, results, offered, steady>>

\* The flag is looked up again when the rows are written.
ResultRowsMutedNow(r) == {Row(r, a, a \in mutes[srv[r]]) : a \in loop[r].found}

\* A failed write returns before the unlock is deferred.
WriteFailedKeepsLock(r) ==
  /\ pc[r] = "notify" /\ loop[r].pending = {}
  /\ EndRound(r)
  /\ UNCHANGED <<lock, clock, mutes, results, offered>>

\* A failed assembleInput does not stop the results of the server before it
\* from being looked at again.
AssembleFailedPast(r) ==
  /\ pc[r] = "assemble"
  /\ srv' = [srv EXCEPT ![r] = @ + 1]
  /\ UNCHANGED <<lock, pc, at, loop, clock, mutes, results, offered, steady>>

-----------------------------------------------------------------------------
Init ==
  /\ lock = Nobody
  /\ pc = [r \in Replicas |-> "idle"]
  /\ at = [r \in Replicas |-> 0]
  /\ srv = [r \in Replicas |-> 1]
  /\ loop = [r \in Replicas |-> NoLoop]
  /\ clock = 0
  /\ mutes \in [Servers -> SUBSET Alerts]
  /\ results = {}
  /\ offered = {}
  /\ steady = [r \in Replicas |-> {}]

\* A tick, or the call before the first: pg_try_advisory_lock on a pooled
\* connection answers true.  A round that does not get the lock, or gets no
\* connection, changes nothing and is not a step.
TryLock(r) ==
  /\ pc[r] = "idle" /\ clock < MaxRounds
  /\ lock = Nobody
  /\ lock' = r
  /\ BeginRound(r)

\* The lock was granted but the answer is lost: the broken connection is
\* destroyed, its session lives on until PostgreSQL notices.
TryLockUnheard(r) ==
  /\ pc[r] = "idle" /\ clock < MaxRounds
  /\ lock = Nobody
  /\ lock' = Ghost
  /\ UNCHANGED <<round, clock, mutes, results, offered>>

\* RecentServerIDs fails: return err.
ServersFailed(r) ==
  /\ pc[r] = "assemble" /\ srv[r] = 1
  /\ LeaveLoop(r)
  /\ UNCHANGED <<lock, at, clock, mutes, results, offered, steady>>

\* assembleInput and Run.
Assemble(r) ==
  /\ pc[r] = "assemble"
  /\ \E F \in SUBSET Alerts : loop' = [loop EXCEPT ![r].found = F]
  /\ Goto(r, "mutes")
  /\ UNCHANGED <<lock, at, srv, clock, mutes, results, offered, steady>>

\* assembleInput fails: log and continue with the next server.
AssembleFailed(r) ==
  /\ pc[r] = "assemble"
  /\ NextServer(r)
  /\ UNCHANGED <<lock, at, clock, mutes, results, offered, steady>>

\* mutes, _ := ListMutes: an error leaves no mutes.
ListMutes(r) ==
  /\ pc[r] = "mutes"
  /\ \E ok \in BOOLEAN :
       loop' = [loop EXCEPT ![r] =
                 [@ EXCEPT !.mutes = IF ok THEN mutes[srv[r]] ELSE {},
                           !.ok = ok, !.pending = loop[r].found]]
  /\ Goto(r, "notify")
  /\ UNCHANGED <<lock, at, srv, clock, mutes, results, offered, steady>>

\* One result of the loop: a firing one that is not muted goes to the
\* notifier, whose error is only logged.
Notify(r) ==
  /\ pc[r] = "notify"
  /\ \E a \in loop[r].pending :
       /\ loop' = [loop EXCEPT ![r].pending = @ \ {a}]
       /\ offered' = offered \cup
            (IF isMuted(r, a) THEN {} ELSE {<<at[r], srv[r], a>>})
  /\ UNCHANGED <<lock, pc, at, srv, clock, mutes, results, steady>>

ResultRows(r) == {Row(r, a, isMuted(r, a)) : a \in loop[r].found}

\* WriteChecksResults: one batch for the server.
WriteChecksResults(r) ==
  /\ pc[r] = "notify" /\ loop[r].pending = {}
  /\ results' = results \cup ResultRows(r)
  /\ NextServer(r)
  /\ UNCHANGED <<lock, at, clock, mutes, offered, steady>>

\* The write returns an error, applied or not: return err, the servers left
\* are not evaluated.
WriteFailed(r) ==
  /\ pc[r] = "notify" /\ loop[r].pending = {}
  /\ results' \in {results, results \cup ResultRows(r)}
  /\ LeaveLoop(r)
  /\ UNCHANGED <<lock, at, clock, mutes, offered, steady>>

\* defer pg_advisory_unlock, its error dropped: if the session is gone there
\* is nothing left to release, and Release destroys the dead connection.
Unlock(r) ==
  /\ pc[r] = "unlock"
  /\ lock' = IF lock = r THEN Nobody ELSE lock
  /\ EndRound(r)
  /\ UNCHANGED <<clock, mutes, results, offered>>

-----------------------------------------------------------------------------
(* The environment.                                                        *)

\* The session that holds the lock ends under the replica: terminated by the
\* server, or cut off so that the server has yet to notice.
SessionLost(r) ==
  /\ lock = r
  /\ \E h \in {Nobody, Ghost} : lock' = h
  /\ UNCHANGED <<round, clock, mutes, results, offered>>

\* The process stops or crashes (ctx is the process's context).
Crash(r) ==
  /\ pc[r] \in Evaluating
  /\ lock' = IF lock = r THEN Ghost ELSE lock
  /\ EndRound(r)
  /\ UNCHANGED <<clock, mutes, results, offered>>

\* PostgreSQL notices that the holder's client is gone.
SessionReaped ==
  /\ lock = Ghost
  /\ lock' = Nobody
  /\ UNCHANGED <<round, clock, mutes, results, offered>>

\* handleChecksMute of some API replica: SetMute.
SetMute(s, a) ==
  /\ a \notin mutes[s]
  /\ mutes' = [mutes EXCEPT ![s] = @ \cup {a}]
  /\ UNCHANGED <<lock, round, clock, results, offered>>

\* handleChecksMute: ClearMute; or the mute's 24 hours are over.
ClearMute(s, a) ==
  /\ a \in mutes[s]
  /\ mutes' = [mutes EXCEPT ![s] = @ \ {a}]
  /\ steady' = [r \in Replicas |-> steady[r] \ {<<s, a>>}]
  /\ UNCHANGED <<lock, pc, at, srv, loop, clock, results, offered>>

Evaluate(r) ==
  \/ Assemble(r) \/ AssembleFailed(r) \/ ServersFailed(r) \/ ListMutes(r)
  \/ Notify(r) \/ WriteChecksResults(r) \/ WriteFailed(r)
  \/ Unlock(r)

Next ==
  \/ \E r \in Replicas :
       TryLock(r) \/ TryLockUnheard(r) \/ Evaluate(r) \/ SessionLost(r) \/ Crash(r)
  \/ SessionReaped
  \/ \E s \in Servers, a \in Alerts : SetMute(s, a) \/ ClearMute(s, a)

Spec == Init /\ [][Next]_vars

\* A round that has started runs, and TCP keepalive ends dead sessions.
Fairness ==
  /\ \A r \in Replicas : WF_vars(Evaluate(r))
  /\ WF_vars(SessionReaped)

FairSpec == Spec /\ Fairness

-----------------------------------------------------------------------------
(* Properties.                                                             *)

\* Type invariant of the scheduler replicas and of the shared tables.
TypeOK ==
  /\ lock \in Replicas \cup {Nobody, Ghost}
  /\ pc \in [Replicas -> Evaluating \cup {"idle"}]
  /\ at \in [Replicas -> 0..clock]
  /\ srv \in [Replicas -> Servers]
  /\ loop \in [Replicas -> LoopVars]
  /\ clock \in 0..MaxRounds
  /\ mutes \in [Servers -> SUBSET Alerts]
  /\ results \subseteq ResultRow
  /\ offered \subseteq Nat \X Servers \X Alerts
  /\ steady \in [Replicas -> SUBSET (Servers \X Alerts)]

\* Two replicas never evaluate at once unless a session was lost: the lock is
\* held by the replica whose session is alive, no round starts while another
\* holder's session lives, and rounds that do overlap have distinct stamps,
\* so their rows never share a key.
OneEvaluator ==
  /\ \A r \in Replicas : lock = r => pc[r] \in Evaluating
  /\ \A r, q \in Replicas :
       r # q /\ pc[r] \in Evaluating /\ pc[q] \in Evaluating =>
         at[r] # at[q] /\ (lock = r => at[q] < at[r])

\* A mute that was in force when the round began and still is silences its
\* alert, whichever server is evaluated and whoever toggles other mutes
\* meanwhile - provided ListMutes answered.
MuteSilences ==
  \A r \in Replicas :
    pc[r] = "notify" /\ loop[r].ok =>
      \A a \in Alerts : <<srv[r], a>> \in steady[r] =>
                          <<at[r], srv[r], a>> \notin offered

\* What is stored agrees with what was announced: an unmuted result was
\* offered to the notifier in its own round before it was stored, a muted one
\* was not, whatever failed or was toggled in between; and what a standing
\* mute covers is not announced at all.
StoredAsAnnounced ==
  /\ MuteSilences
  /\ \A row \in results :
       row.muted <=> <<row.at, row.server, row.alert>> \notin offered

\* The lock does not stay taken: whether its holder finishes, fails half way,
\* loses its session or dies, another replica can take a later tick.
LockFreed == lock # Nobody ~> lock = Nobody

-----------------------------------------------------------------------------
\* fetchChecks: firing rows of LatestChecksResults, the newest row per alert,
\* over the last day.  (The model's rounds all lie within that day.)
Screen(s) == {a \in Alerts : \E row \in results : row.server = s /\ row.alert = a}

\* internal/api/checks.go:58-59: "Only FIRING checks belong on this screen -
\* filter before counting so "N FIRING" is accurate and the "all healthy"
\* empty state is reachable."  Yet a round that no longer finds an alert
\* writes nothing about it, and its last row goes on saying that it fires.
ScreenAccurate ==
  [][\A r \in Replicas, s \in Servers :
       lock = r /\ s = srv[r] /\ WriteChecksResults(r) =>
         Screen(s)' \subseteq loop[r].found]_vars
=============================================================================
