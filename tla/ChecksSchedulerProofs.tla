------------------------ MODULE ChecksSchedulerProofs ------------------------
(***************************************************************************)
(* Proofs about ChecksScheduler, for any replicas, servers, alerts and     *)
(* number of rounds, and about Rules, for any readings, policies and nodes *)
(* of plans.                                                               *)
(*                                                                         *)
(* Rounds may overlap when a session is lost, so what                      *)
(* keeps them apart is not the lock but their stamps: no two evaluating    *)
(* replicas share one (OneEvaluator), and none of what is stored or        *)
(* announced bears a later one than the clock (Stamped).  Under its own    *)
(* stamp a replica finds what it announced itself of the server at hand    *)
(* (Announced), and no row yet (Unwritten), whatever the others do.        *)
(***************************************************************************)
EXTENDS MCChecks, Sequences, FiniteSetTheorems, WellFoundedInduction, TLAPS

\* Nothing is from the future.
Stamped ==
  /\ \A row \in results : row.at <= clock
  /\ \A o \in offered : o[1] <= clock

\* What replica r announced of its server: nothing before its loop, in it
\* what it has looked at and did not find muted; of later servers nothing.
AnnouncedBy(r) ==
  \A s \in Servers, a \in Alerts :
    /\ s > srv[r] => <<at[r], s, a>> \notin offered
    /\ s = srv[r] /\ pc[r] \in {"assemble", "mutes"} => <<at[r], s, a>> \notin offered
    /\ s = srv[r] /\ pc[r] = "notify" =>
         (<<at[r], s, a>> \in offered <=> a \in loop[r].found \ (loop[r].pending \cup loop[r].mutes))

\* Rows of its round are of the servers before.
UnwrittenBy(r) ==
  pc[r] # "unlock" => \A row \in results : row.at = at[r] => row.server < srv[r]

PendingFound(r) == pc[r] = "notify" => loop[r].pending \subseteq loop[r].found

Announced == \A r \in Replicas : pc[r] \in Evaluating => AnnouncedBy(r) /\ PendingFound(r)
Unwritten == \A r \in Replicas : pc[r] \in Evaluating => UnwrittenBy(r)

\* A mute that stood since the round began is in force, and the loop knows it.
MutesKnown ==
  \A r \in Replicas :
    /\ \A s \in Servers, a \in Alerts : <<s, a>> \in steady[r] => a \in mutes[s]
    /\ pc[r] = "notify" /\ loop[r].ok =>
         \A a \in Alerts : <<srv[r], a>> \in steady[r] => a \in loop[r].mutes

Truthful ==
  \A row \in results : row.muted <=> <<row.at, row.server, row.alert>> \notin offered

IInv ==
  /\ TypeOK /\ OneEvaluator /\ Stamped
  /\ Announced /\ Unwritten /\ MutesKnown /\ Truthful

-----------------------------------------------------------------------------
LEMMA InitIInv == Init => IInv
<1> SUFFICES ASSUME Init PROVE IInv
  OBVIOUS
<1>1. TypeOK
  BY BoundsAssumption
     DEF Init, TypeOK, Servers, Evaluating, LoopVars, NoLoop, ResultRow
<1>2. OneEvaluator
  BY HoldersAssumption DEF Init, OneEvaluator, Evaluating
<1>3. Stamped /\ Announced /\ Unwritten /\ MutesKnown /\ Truthful
  BY DEF Init, Stamped, Announced, Unwritten, MutesKnown, Truthful, Evaluating
<1> QED BY <1>1, <1>2, <1>3 DEF IInv

\* A round's steps, by what they change.
Quiet(r) == Assemble(r) \/ AssembleFailed(r) \/ ServersFailed(r) \/ ListMutes(r)
Writes(r) == WriteChecksResults(r) \/ WriteFailed(r)
Leaves(r) == Unlock(r) \/ Crash(r)

LEMMA Actions ==
  ASSUME [Next]_vars
  PROVE  \/ UNCHANGED vars
         \/ \E r \in Replicas :
              \/ TryLock(r) \/ TryLockUnheard(r) \/ Quiet(r) \/ Notify(r)
              \/ Writes(r) \/ Leaves(r) \/ SessionLost(r)
         \/ SessionReaped
         \/ \E s \in Servers, a \in Alerts : SetMute(s, a) \/ ClearMute(s, a)
BY DEF Next, Evaluate, Quiet, Writes, Leaves

LEMMA LoopFields ==
  ASSUME NEW l \in LoopVars
  PROVE  /\ l.found \subseteq Alerts /\ l.mutes \subseteq Alerts /\ l.pending \subseteq Alerts
         /\ l.ok \in BOOLEAN
BY DEF LoopVars

LEMMA LoopTypes ==
  /\ NoLoop \in LoopVars
  /\ \A l \in LoopVars :
       /\ \A F \in SUBSET Alerts : [l EXCEPT !.found = F] \in LoopVars
       /\ \A F \in SUBSET Alerts : [l EXCEPT !.pending = F] \in LoopVars
       /\ \A M, F \in SUBSET Alerts, ok \in BOOLEAN :
            [l EXCEPT !.mutes = M, !.ok = ok, !.pending = F] \in LoopVars
BY DEF LoopVars, NoLoop

LEMMA Here ==
  ASSUME TypeOK, NEW r \in Replicas
  PROVE  /\ srv[r] \in Servers /\ srv[r] \in 1..NumServers /\ loop[r] \in LoopVars
         /\ at[r] \in Nat /\ clock \in Nat /\ at[r] <= clock
         /\ loop[r].found \subseteq Alerts /\ loop[r].pending \subseteq Alerts
<1>1. loop[r] \in LoopVars
  BY DEF TypeOK
<1>2. srv[r] \in Servers /\ clock \in Nat /\ at[r] \in 0..clock
  BY BoundsAssumption DEF TypeOK
<1> QED BY <1>1, <1>2, LoopFields, BoundsAssumption DEF Servers

\* What the steps of a round do to the round.
LEMMA RoundSteps ==
  ASSUME TypeOK, NEW r \in Replicas, Quiet(r) \/ Notify(r) \/ Writes(r)
  PROVE  /\ UNCHANGED <<lock, at, clock, mutes, steady>>
         /\ pc[r] \in {"assemble", "mutes", "notify"}
         /\ \E l \in Evaluating : pc' = [pc EXCEPT ![r] = l]
         /\ \E n \in Servers : srv' = [srv EXCEPT ![r] = n]
         /\ \E v \in LoopVars : loop' = [loop EXCEPT ![r] = v]
<1> USE DEF TypeOK, Goto, Evaluating
<1>1. loop[r] \in LoopVars /\ srv[r] \in Servers
  OBVIOUS
<1>2. NextServer(r) \/ (LeaveLoop(r) /\ pc[r] \in Evaluating) =>
        /\ \E l \in Evaluating : pc' = [pc EXCEPT ![r] = l]
        /\ \E n \in Servers : srv' = [srv EXCEPT ![r] = n]
        /\ \E v \in LoopVars : loop' = [loop EXCEPT ![r] = v]
  <2>1. CASE LeaveLoop(r)
    <3>1. srv' = [srv EXCEPT ![r] = srv[r]]
      BY <2>1 DEF LeaveLoop
    <3> QED BY <1>1, <2>1, <3>1, LoopTypes DEF LeaveLoop
  <2>2. CASE srv[r] < NumServers /\ NextServer(r)
    <3>1. srv[r] + 1 \in Servers
      BY <1>1, <2>2, BoundsAssumption DEF Servers
    <3> QED BY <2>2, <3>1, LoopTypes DEF NextServer
  <2> QED BY <2>1, <2>2 DEF NextServer
<1>3. srv' = srv => \E n \in Servers : srv' = [srv EXCEPT ![r] = n]
  <2>1. srv = [srv EXCEPT ![r] = srv[r]]
    OBVIOUS
  <2> QED BY <1>1, <2>1
<1>4. CASE Assemble(r)
  BY <1>1, <1>3, <1>4, LoopTypes DEF Assemble
<1>5. CASE AssembleFailed(r) \/ ServersFailed(r)
  BY <1>2, <1>5 DEF AssembleFailed, ServersFailed
<1>6. CASE ListMutes(r)
  <2>1. PICK ok \in BOOLEAN :
          loop' = [loop EXCEPT ![r] = [@ EXCEPT !.mutes = IF ok THEN mutes[srv[r]] ELSE {},
                                                !.ok = ok, !.pending = loop[r].found]]
    BY <1>6 DEF ListMutes
  <2>2. (IF ok THEN mutes[srv[r]] ELSE {}) \in SUBSET Alerts /\ loop[r].found \in SUBSET Alerts
    BY <1>1, LoopFields DEF TypeOK
  <2>3. \E v \in LoopVars : loop' = [loop EXCEPT ![r] = v]
    BY <1>1, <2>1, <2>2, LoopTypes
  <2> QED BY <1>3, <1>6, <2>3 DEF ListMutes
<1>7. CASE Notify(r)
  <2>1. pc' = [pc EXCEPT ![r] = "notify"]
    BY <1>7 DEF Notify
  <2>2. PICK a \in loop[r].pending : loop' = [loop EXCEPT ![r].pending = @ \ {a}]
    BY <1>7 DEF Notify
  <2>3. \E v \in LoopVars : loop' = [loop EXCEPT ![r] = v]
    <3>1. loop[r].pending \ {a} \in SUBSET Alerts
      BY <1>1, LoopFields
    <3> QED BY <1>1, <2>2, <3>1, LoopTypes
  <2> QED BY <1>3, <1>7, <2>1, <2>3 DEF Notify
<1>8. CASE Writes(r)
  BY <1>2, <1>8 DEF Writes, WriteChecksResults, WriteFailed
<1> QED BY <1>4, <1>5, <1>6, <1>7, <1>8 DEF Quiet

LEMMA LeaveSteps ==
  ASSUME TypeOK, NEW r \in Replicas, Leaves(r)
  PROVE  /\ UNCHANGED <<clock, mutes, results, offered>>
         /\ pc' = [pc EXCEPT ![r] = "idle"] /\ at' = [at EXCEPT ![r] = 0]
         /\ srv' = [srv EXCEPT ![r] = 1] /\ loop' = [loop EXCEPT ![r] = NoLoop]
         /\ steady' = [steady EXCEPT ![r] = {}]
         /\ lock = r => lock' \in {Nobody, Ghost}
         /\ lock # r => lock' = lock
BY DEF Leaves, Unlock, Crash, EndRound, Goto

LEMMA StepTypeOK ==
  ASSUME TypeOK, [Next]_vars
  PROVE  TypeOK'
<1> USE BoundsAssumption DEF TypeOK, Evaluating, Goto
<1>1. CASE UNCHANGED vars
  BY <1>1 DEF vars, round
<1>2. ASSUME NEW r \in Replicas, TryLock(r) PROVE TypeOK'
  <2>1. UNION {{s} \X mutes[s] : s \in Servers} \subseteq Servers \X Alerts
    OBVIOUS
  <2> QED BY <1>2, <2>1 DEF TryLock, BeginRound
<1>3. ASSUME NEW r \in Replicas, TryLockUnheard(r) \/ SessionLost(r) PROVE TypeOK'
  BY <1>3 DEF TryLockUnheard, SessionLost, round
<1>4. ASSUME NEW r \in Replicas, Quiet(r) \/ Notify(r) \/ Writes(r) PROVE TypeOK'
  <2>1. /\ UNCHANGED <<lock, at, clock, mutes, steady>>
        /\ pc' \in [Replicas -> Evaluating \cup {"idle"}]
        /\ srv' \in [Replicas -> Servers] /\ loop' \in [Replicas -> LoopVars]
    BY <1>4, RoundSteps
  <2>2. results' \subseteq ResultRow
    <3>1. ResultRows(r) \subseteq ResultRow
      <4>1. srv[r] \in Servers /\ loop[r].found \subseteq Alerts /\ at[r] \in Nat
        BY Here
      <4>2. ASSUME NEW a \in loop[r].found PROVE Row(r, a, isMuted(r, a)) \in ResultRow
        BY <4>1 DEF ResultRow, Row, isMuted
      <4> QED BY <4>2 DEF ResultRows
    <3>2. results' \subseteq results \cup ResultRows(r)
      BY <1>4 DEF Quiet, Assemble, AssembleFailed, ServersFailed, ListMutes, Notify, Writes,
                  WriteChecksResults, WriteFailed
    <3> QED BY <3>1, <3>2
  <2>3. offered' \subseteq Nat \X Servers \X Alerts
    <3>1. CASE Notify(r)
      <4>1. srv[r] \in Servers /\ loop[r].pending \subseteq Alerts /\ at[r] \in Nat
        BY Here
      <4> QED BY <3>1, <4>1 DEF Notify
    <3>2. CASE Quiet(r) \/ Writes(r)
      BY <3>2 DEF Quiet, Assemble, AssembleFailed, ServersFailed, ListMutes, Writes,
                  WriteChecksResults, WriteFailed
    <3> QED BY <1>4, <3>1, <3>2
  <2> QED BY <2>1, <2>2, <2>3
<1>5. ASSUME NEW r \in Replicas, Leaves(r) PROVE TypeOK'
  <2>1. 1 \in Servers /\ 0 \in 0..clock
    BY DEF Servers
  <2>2. /\ pc' \in [Replicas -> Evaluating \cup {"idle"}] /\ at' \in [Replicas -> 0..clock]
        /\ srv' \in [Replicas -> Servers] /\ loop' \in [Replicas -> LoopVars]
        /\ steady' \in [Replicas -> SUBSET (Servers \X Alerts)]
        /\ lock' \in Replicas \cup {Nobody, Ghost}
    <3>1. NoLoop \in LoopVars
      BY LoopTypes
    <3> QED BY <1>5, <2>1, <3>1, LeaveSteps
  <2>3. UNCHANGED <<clock, mutes, results, offered>>
    BY <1>5, LeaveSteps
  <2> QED BY <2>2, <2>3
<1>6. CASE SessionReaped
  BY <1>6 DEF SessionReaped, round
<1>7. ASSUME NEW s \in Servers, NEW a \in Alerts, SetMute(s, a) PROVE TypeOK'
  BY <1>7 DEF SetMute, round
<1>8. ASSUME NEW s \in Servers, NEW a \in Alerts, ClearMute(s, a) PROVE TypeOK'
  BY <1>8 DEF ClearMute
<1> QED BY <1>1, <1>2, <1>3, <1>4, <1>5, <1>6, <1>7, <1>8, Actions

-----------------------------------------------------------------------------
(* The lock and the stamps.                                                *)

LEMMA StepOneEvaluator ==
  ASSUME TypeOK, OneEvaluator, [Next]_vars
  PROVE  OneEvaluator'
<1> USE HoldersAssumption DEF TypeOK, OneEvaluator, Evaluating, Goto
<1>1. CASE UNCHANGED vars
  BY <1>1 DEF vars, round
<1>2. ASSUME NEW r \in Replicas, TryLock(r) PROVE OneEvaluator'
  BY <1>2 DEF TryLock, BeginRound
<1>3. ASSUME NEW r \in Replicas, TryLockUnheard(r) \/ SessionLost(r) PROVE OneEvaluator'
  BY <1>3 DEF TryLockUnheard, SessionLost, round
<1>4. ASSUME NEW r \in Replicas, Quiet(r) \/ Notify(r) \/ Writes(r) PROVE OneEvaluator'
  <2>1. UNCHANGED <<lock, at>> /\ pc[r] \in Evaluating
    BY <1>4, RoundSteps
  <2>2. PICK l \in Evaluating : pc' = [pc EXCEPT ![r] = l]
    BY <1>4, RoundSteps
  <2> QED BY <2>1, <2>2
<1>5. ASSUME NEW r \in Replicas, Leaves(r) PROVE OneEvaluator'
  <2>1. pc'[r] = "idle" /\ \A q \in Replicas \ {r} : pc'[q] = pc[q] /\ at'[q] = at[q]
    BY <1>5, LeaveSteps
  <2>2. lock' # r /\ \A q \in Replicas : lock' = q => lock = q
    BY <1>5, LeaveSteps
  <2> QED BY <2>1, <2>2
<1>6. CASE SessionReaped
  BY <1>6 DEF SessionReaped, round
<1>7. ASSUME NEW s \in Servers, NEW a \in Alerts, SetMute(s, a) \/ ClearMute(s, a)
      PROVE  OneEvaluator'
  BY <1>7 DEF SetMute, ClearMute, round
<1> QED BY <1>1, <1>2, <1>3, <1>4, <1>5, <1>6, <1>7, Actions
-----------------------------------------------------------------------------
(* What is announced and what is stored.                                   *)

\* A round's step changes the tables only under its own stamp.
LEMMA Additions ==
  ASSUME TypeOK, [Next]_vars
  PROVE  \/ UNCHANGED <<results, offered>>
         \/ \E r \in Replicas :
              /\ pc[r] = "notify" /\ UNCHANGED results
              /\ \E a \in loop[r].pending :
                   /\ loop' = [loop EXCEPT ![r].pending = @ \ {a}]
                   /\ offered' = offered \cup
                        (IF a \in loop[r].mutes THEN {} ELSE {<<at[r], srv[r], a>>})
              /\ UNCHANGED <<lock, pc, at, srv, clock, mutes, steady>>
         \/ \E r \in Replicas :
              /\ Writes(r) /\ pc[r] = "notify" /\ loop[r].pending = {} /\ UNCHANGED offered
              /\ results' \subseteq results \cup ResultRows(r)
<1>1. ASSUME NEW r \in Replicas, Quiet(r) PROVE UNCHANGED <<results, offered>>
  BY <1>1 DEF Quiet, Assemble, AssembleFailed, ServersFailed, ListMutes
<1>2. ASSUME NEW r \in Replicas, Notify(r)
      PROVE  /\ pc[r] = "notify" /\ UNCHANGED results
             /\ \E a \in loop[r].pending :
                  /\ loop' = [loop EXCEPT ![r].pending = @ \ {a}]
                  /\ offered' = offered \cup
                       (IF a \in loop[r].mutes THEN {} ELSE {<<at[r], srv[r], a>>})
             /\ UNCHANGED <<lock, pc, at, srv, clock, mutes, steady>>
  BY <1>2 DEF Notify, isMuted
<1>3. ASSUME NEW r \in Replicas, Writes(r)
      PROVE  /\ pc[r] = "notify" /\ loop[r].pending = {} /\ UNCHANGED offered
             /\ results' \subseteq results \cup ResultRows(r)
  BY <1>3 DEF Writes, WriteChecksResults, WriteFailed
<1>4. UNCHANGED vars => UNCHANGED <<results, offered>>
  BY DEF vars
<1>5. ASSUME NEW r \in Replicas,
             TryLock(r) \/ TryLockUnheard(r) \/ Leaves(r) \/ SessionLost(r)
      PROVE  UNCHANGED <<results, offered>>
  BY <1>5, LeaveSteps DEF TryLock, BeginRound, TryLockUnheard, SessionLost
<1>6. ASSUME SessionReaped \/ \E s \in Servers, a \in Alerts : SetMute(s, a) \/ ClearMute(s, a)
      PROVE  UNCHANGED <<results, offered>>
  BY <1>6 DEF SessionReaped, SetMute, ClearMute
<1> QED BY <1>1, <1>2, <1>3, <1>4, <1>5, <1>6, Actions

\* Each replica's round is its own.
LEMMA OtherRounds ==
  ASSUME TypeOK, NEW r \in Replicas,
         Quiet(r) \/ Notify(r) \/ Writes(r) \/ Leaves(r) \/ TryLock(r),
         NEW q \in Replicas, q # r
  PROVE  /\ pc'[q] = pc[q] /\ at'[q] = at[q] /\ srv'[q] = srv[q]
         /\ loop'[q] = loop[q] /\ steady'[q] = steady[q]
<1> USE DEF TypeOK
<1>1. CASE Quiet(r) \/ Notify(r) \/ Writes(r)
  BY <1>1, RoundSteps
<1>2. CASE Leaves(r)
  BY <1>2, LeaveSteps
<1>3. CASE TryLock(r)
  BY <1>3 DEF TryLock, BeginRound, Goto
<1> QED BY <1>1, <1>2, <1>3

LEMMA StepStamped ==
  ASSUME TypeOK, Stamped, [Next]_vars
  PROVE  Stamped'
<1>1. clock' \in Nat /\ clock \in Nat /\ clock <= clock'
  <2>1. clock' = clock \/ clock' = clock + 1
    BY LeaveSteps, RoundSteps, Actions
       DEF vars, TryLock, BeginRound, TryLockUnheard, SessionLost, SessionReaped, SetMute,
           ClearMute
  <2> QED BY <2>1, BoundsAssumption DEF TypeOK
<1>2. ASSUME NEW r \in Replicas, NEW row \in ResultRows(r) PROVE row.at <= clock
  BY <1>2, Here DEF ResultRows, Row
<1>3. \A row \in results : row.at \in Nat
  BY DEF TypeOK, ResultRow
<1>4. \A o \in offered : o[1] \in Nat
  BY DEF TypeOK
<1>5. \A row \in results' : row.at \in Nat /\ row.at <= clock
  BY <1>1, <1>2, <1>3, Additions, StepTypeOK DEF Stamped, TypeOK, ResultRow
<1>6. \A o \in offered' : o[1] \in Nat /\ o[1] <= clock
  BY <1>1, <1>4, Additions, Here DEF Stamped
<1> QED BY <1>1, <1>5, <1>6 DEF Stamped

\* A round goes on to a server it announced nothing of.
LEMMA NextAnnounced ==
  ASSUME TypeOK, NEW r \in Replicas, AnnouncedBy(r), UNCHANGED <<at, offered>>,
         NextServer(r) \/ LeaveLoop(r)
  PROVE  AnnouncedBy(r)' /\ PendingFound(r)'
<1> USE DEF TypeOK, Goto
<1>0. srv[r] \in 1..NumServers /\ at' = at /\ offered' = offered
  BY DEF Servers
<1>1. CASE LeaveLoop(r)
  <2>1. pc'[r] = "unlock" /\ srv' = srv
    BY <1>1 DEF LeaveLoop
  <2> QED BY <1>0, <2>1 DEF AnnouncedBy, PendingFound
<1>2. CASE srv[r] < NumServers /\ NextServer(r)
  <2>1. pc'[r] = "assemble" /\ srv'[r] = srv[r] + 1
    BY <1>2 DEF NextServer
  <2>2. \A s \in Servers : s >= srv'[r] => s > srv[r]
    BY <1>0, <2>1, BoundsAssumption DEF Servers
  <2>3. \A s \in Servers : s > srv'[r] \/ s = srv'[r] => s >= srv'[r]
    BY <1>0, <2>1, BoundsAssumption DEF Servers
  <2> QED BY <1>0, <2>1, <2>2, <2>3 DEF AnnouncedBy, PendingFound
<1> QED BY <1>1, <1>2 DEF NextServer

LEMMA QuietAnnounced ==
  ASSUME TypeOK, NEW r \in Replicas, AnnouncedBy(r), Quiet(r)
  PROVE  AnnouncedBy(r)' /\ PendingFound(r)'
<1>0. UNCHANGED <<at, offered>> /\ at' = at /\ offered' = offered
  BY DEF Quiet, Assemble, AssembleFailed, ServersFailed, ListMutes
<1>1. CASE AssembleFailed(r) \/ ServersFailed(r)
  BY <1>0, <1>1, NextAnnounced DEF AssembleFailed, ServersFailed
<1>2. CASE Assemble(r)
  <2>1. pc[r] = "assemble" /\ pc'[r] = "mutes" /\ srv' = srv
    BY <1>2 DEF Assemble, Goto, TypeOK
  <2> QED BY <1>0, <2>1 DEF AnnouncedBy, PendingFound
<1>3. CASE ListMutes(r)
  <2>1. /\ pc[r] = "mutes" /\ pc'[r] = "notify" /\ srv' = srv
        /\ loop'[r].pending = loop[r].found /\ loop'[r].found = loop[r].found
    <3>1. loop[r] \in LoopVars
      BY DEF TypeOK
    <3>2. loop \in [Replicas -> LoopVars] /\ pc \in [Replicas -> Evaluating \cup {"idle"}]
      BY DEF TypeOK
    <3> QED BY <1>3, <3>1, <3>2 DEF ListMutes, Goto, LoopVars
  <2> QED BY <1>0, <2>1 DEF AnnouncedBy, PendingFound
<1> QED BY <1>1, <1>2, <1>3 DEF Quiet

\* A result looked at is announced unless muted.
LEMMA NotifyAnnounced ==
  ASSUME TypeOK, NEW r \in Replicas, AnnouncedBy(r), PendingFound(r),
         pc[r] = "notify", NEW a \in loop[r].pending,
         loop' = [loop EXCEPT ![r].pending = @ \ {a}],
         offered' = offered \cup (IF a \in loop[r].mutes THEN {} ELSE {<<at[r], srv[r], a>>}),
         UNCHANGED <<pc, at, srv>>
  PROVE  AnnouncedBy(r)' /\ PendingFound(r)'
<1>1. /\ loop'[r].pending = loop[r].pending \ {a}
      /\ loop'[r].found = loop[r].found /\ loop'[r].mutes = loop[r].mutes
  <2>1. loop[r] \in LoopVars /\ loop \in [Replicas -> LoopVars]
    BY DEF TypeOK
  <2> QED BY <2>1 DEF LoopVars
<1>2. PendingFound(r)'
  BY <1>1 DEF PendingFound
<1>3. ASSUME NEW s \in Servers, NEW b \in Alerts, s > srv[r]
      PROVE  <<at[r], s, b>> \notin offered'
  <2>1. s # srv[r]
    BY <1>3, Here, BoundsAssumption DEF Servers
  <2> QED BY <1>3, <2>1 DEF AnnouncedBy
<1>4. ASSUME NEW b \in Alerts
      PROVE  <<at[r], srv[r], b>> \in offered'
               <=> b \in loop'[r].found \ (loop'[r].pending \cup loop'[r].mutes)
  <2>1. srv[r] \in Servers /\ loop[r].pending \subseteq loop[r].found
    BY Here DEF PendingFound
  <2>2. <<at[r], srv[r], b>> \in offered
          <=> b \in loop[r].found \ (loop[r].pending \cup loop[r].mutes)
    BY <2>1 DEF AnnouncedBy
  <2> QED BY <1>1, <2>1, <2>2
<1> QED BY <1>2, <1>3, <1>4 DEF AnnouncedBy

LEMMA StepAnnounced ==
  ASSUME TypeOK, OneEvaluator, Stamped, Announced, [Next]_vars
  PROVE  Announced'
<1> USE DEF Evaluating
<1>1. ASSUME UNCHANGED <<pc, at, srv, loop, offered>> PROVE Announced'
  BY <1>1 DEF Announced, AnnouncedBy, PendingFound
<1>2. ASSUME NEW r \in Replicas, Quiet(r) \/ Writes(r) \/ Leaves(r) \/ TryLock(r),
             UNCHANGED offered,
             pc'[r] \in Evaluating => AnnouncedBy(r)' /\ PendingFound(r)'
      PROVE  Announced'
  BY <1>2, OtherRounds DEF Announced, AnnouncedBy, PendingFound
<1>3. ASSUME NEW r \in Replicas, TryLock(r) PROVE Announced'
  <2>1. /\ at'[r] = clock + 1 /\ pc'[r] = "assemble" /\ offered' = offered
    BY <1>3 DEF TryLock, BeginRound, Goto, TypeOK
  <2>2. clock \in Nat
    BY Here
  <2>3. ASSUME NEW s, NEW a PROVE <<at'[r], s, a>> \notin offered
    BY <2>1, <2>2 DEF Stamped
  <2>4. AnnouncedBy(r)' /\ PendingFound(r)'
    BY <2>1, <2>3 DEF AnnouncedBy, PendingFound
  <2> QED BY <1>2, <1>3, <2>1, <2>4
<1>4. ASSUME NEW r \in Replicas, Quiet(r) PROVE Announced'
  <2>1. pc[r] \in Evaluating /\ offered' = offered
    BY <1>4 DEF Quiet, Assemble, AssembleFailed, ServersFailed, ListMutes
  <2> QED BY <1>2, <1>4, <2>1, QuietAnnounced DEF Announced
<1>5. ASSUME NEW r \in Replicas, Notify(r) PROVE Announced'
  <2>1. pc[r] = "notify" /\ UNCHANGED <<pc, at, srv>>
    BY <1>5 DEF Notify
  <2>2. PICK a \in loop[r].pending :
          /\ loop' = [loop EXCEPT ![r].pending = @ \ {a}]
          /\ offered' = offered \cup
               (IF a \in loop[r].mutes THEN {} ELSE {<<at[r], srv[r], a>>})
    BY <1>5 DEF Notify, isMuted
  <2>3. AnnouncedBy(r)' /\ PendingFound(r)'
    BY <2>1, <2>2, NotifyAnnounced DEF Announced
  <2>4. ASSUME NEW q \in Replicas, q # r, pc[q] \in Evaluating
        PROVE  AnnouncedBy(q)' /\ PendingFound(q)'
    <3>1. at[q] # at[r]
      BY <2>1, <2>4 DEF OneEvaluator
    <3>2. loop'[q] = loop[q]
      BY <1>5, <2>4, OtherRounds
    <3>3. \A s, b : <<at[q], s, b>> \in offered' <=> <<at[q], s, b>> \in offered
      BY <2>2, <3>1
    <3> QED BY <2>1, <2>4, <3>2, <3>3 DEF Announced, AnnouncedBy, PendingFound
  <2> QED BY <2>1, <2>3, <2>4 DEF Announced
<1>6. ASSUME NEW r \in Replicas, Writes(r) PROVE Announced'
  <2>1. pc[r] \in Evaluating /\ UNCHANGED <<at, offered>> /\ (NextServer(r) \/ LeaveLoop(r))
    BY <1>6 DEF Writes, WriteChecksResults, WriteFailed
  <2> QED BY <1>2, <1>6, <2>1, NextAnnounced DEF Announced
<1>7. ASSUME NEW r \in Replicas, Leaves(r) PROVE Announced'
  <2>1. pc'[r] = "idle" /\ offered' = offered
    BY <1>7, LeaveSteps DEF TypeOK
  <2> QED BY <1>2, <1>7, <2>1
<1>8. ASSUME \/ UNCHANGED vars
             \/ \E r \in Replicas : TryLockUnheard(r) \/ SessionLost(r)
             \/ SessionReaped
             \/ \E s \in Servers, a \in Alerts : SetMute(s, a) \/ ClearMute(s, a)
      PROVE  Announced'
  BY <1>1, <1>8 DEF vars, round, TryLockUnheard, SessionLost, SessionReaped, SetMute, ClearMute
<1> QED BY <1>3, <1>4, <1>5, <1>6, <1>7, <1>8, Actions

\* The rows a round writes, and where it goes after them.
LEMMA WriteSteps ==
  ASSUME TypeOK, NEW r \in Replicas, Writes(r)
  PROVE  /\ at' = at /\ results' \subseteq results \cup ResultRows(r)
         /\ \A row \in ResultRows(r) : row.at = at[r] /\ row.server = srv[r]
         /\ pc'[r] = "unlock" \/ srv'[r] = srv[r] + 1
<1>1. at' = at /\ results' \subseteq results \cup ResultRows(r) /\ (NextServer(r) \/ LeaveLoop(r))
  BY DEF Writes, WriteChecksResults, WriteFailed
<1>2. pc'[r] = "unlock" \/ srv'[r] = srv[r] + 1
  BY <1>1 DEF NextServer, LeaveLoop, Goto, TypeOK
<1> QED BY <1>1, <1>2 DEF ResultRows, Row

LEMMA StepUnwritten ==
  ASSUME TypeOK, OneEvaluator, Stamped, Unwritten, [Next]_vars
  PROVE  Unwritten'
<1> USE DEF Evaluating
<1>1. ASSUME UNCHANGED <<pc, at, srv, results>> PROVE Unwritten'
  BY <1>1 DEF Unwritten, UnwrittenBy
<1>2. ASSUME NEW r \in Replicas,
             Quiet(r) \/ Notify(r) \/ Leaves(r) \/ TryLock(r),
             UNCHANGED results, pc'[r] \in Evaluating => UnwrittenBy(r)'
      PROVE  Unwritten'
  BY <1>2, OtherRounds DEF Unwritten, UnwrittenBy
<1>3. ASSUME NEW r \in Replicas, TryLock(r) PROVE Unwritten'
  <2>1. at'[r] = clock + 1 /\ results' = results
    BY <1>3 DEF TryLock, BeginRound, TypeOK
  <2>2. \A row \in results : row.at # at'[r]
    BY <2>1, Here DEF Stamped, TypeOK, ResultRow
  <2> QED BY <1>2, <1>3, <2>1, <2>2 DEF UnwrittenBy
<1>4. ASSUME NEW r \in Replicas, Quiet(r) \/ Notify(r) PROVE Unwritten'
  <2>1. pc[r] \in Evaluating \ {"unlock"} /\ results' = results /\ at' = at
    BY <1>4, RoundSteps DEF Quiet, Assemble, AssembleFailed, ServersFailed, ListMutes, Notify
  <2>2. pc'[r] = "unlock" \/ srv'[r] = srv[r] \/ srv'[r] = srv[r] + 1
    BY <1>4 DEF Quiet, Assemble, AssembleFailed, ServersFailed, ListMutes, Notify,
                NextServer, LeaveLoop, Goto, TypeOK
  <2>3. UnwrittenBy(r)
    BY <2>1 DEF Unwritten
  <2>4. srv[r] \in Int /\ \A row \in results : row.server \in Int
    BY BoundsAssumption DEF TypeOK, Servers, ResultRow
  <2>5. UnwrittenBy(r)'
    BY <2>1, <2>2, <2>3, <2>4 DEF UnwrittenBy
  <2> QED BY <1>2, <1>4, <2>1, <2>5
<1>5. ASSUME NEW r \in Replicas, Writes(r) PROVE Unwritten'
  <2>1. pc[r] = "notify" /\ pc[r] \in Evaluating
    BY <1>5 DEF Writes, WriteChecksResults, WriteFailed
  <2>2. /\ at' = at /\ results' \subseteq results \cup ResultRows(r)
        /\ \A row \in ResultRows(r) : row.at = at[r] /\ row.server = srv[r]
        /\ pc'[r] = "unlock" \/ srv'[r] = srv[r] + 1
    BY <1>5, WriteSteps
  <2>3. srv[r] \in Int /\ \A row \in results : row.server \in Int
    BY BoundsAssumption DEF TypeOK, Servers, ResultRow
  <2>4. UnwrittenBy(r)'
    <3>1. \A row \in results : row.at = at[r] => row.server < srv[r]
      BY <2>1 DEF Unwritten, UnwrittenBy
    <3>2. ASSUME srv'[r] = srv[r] + 1, NEW row \in results', row.at = at[r]
          PROVE  row.server < srv'[r]
      <4>1. CASE row \in results
        BY <2>3, <3>1, <3>2, <4>1
      <4>2. CASE row \in ResultRows(r)
        BY <2>2, <2>3, <3>2, <4>2
      <4> QED BY <2>2, <3>2, <4>1, <4>2
    <3> QED BY <2>2, <3>2 DEF UnwrittenBy
  <2>5. ASSUME NEW q \in Replicas, q # r, pc'[q] \in Evaluating PROVE UnwrittenBy(q)'
    <3>1. pc'[q] = pc[q] /\ srv'[q] = srv[q]
      BY <1>5, <2>5, OtherRounds
    <3>2. at[q] # at[r]
      BY <2>1, <2>5, <3>1 DEF OneEvaluator
    <3>3. UnwrittenBy(q)
      BY <2>5, <3>1 DEF Unwritten
    <3>4. \A row \in results' : row.at = at[q] => row \in results
      BY <2>2, <3>2
    <3> QED BY <2>2, <3>1, <3>3, <3>4 DEF UnwrittenBy
  <2> QED BY <2>4, <2>5 DEF Unwritten
<1>6. ASSUME NEW r \in Replicas, Leaves(r) PROVE Unwritten'
  <2>1. pc'[r] = "idle" /\ results' = results
    BY <1>6, LeaveSteps DEF TypeOK
  <2> QED BY <1>2, <1>6, <2>1
<1>7. ASSUME \/ UNCHANGED vars
             \/ \E r \in Replicas : TryLockUnheard(r) \/ SessionLost(r)
             \/ SessionReaped
             \/ \E s \in Servers, a \in Alerts : SetMute(s, a) \/ ClearMute(s, a)
      PROVE  Unwritten'
  BY <1>1, <1>7 DEF vars, round, TryLockUnheard, SessionLost, SessionReaped, SetMute, ClearMute
<1> QED BY <1>3, <1>4, <1>5, <1>6, <1>7, Actions

LEMMA StepTruthful ==
  ASSUME TypeOK, Announced, Unwritten, Truthful, [Next]_vars
  PROVE  Truthful'
<1>1. CASE UNCHANGED <<results, offered>>
  BY <1>1 DEF Truthful
<1>2. ASSUME NEW r \in Replicas, pc[r] = "notify", UNCHANGED results,
             NEW a \in loop[r].pending,
             offered' = offered \cup
               (IF a \in loop[r].mutes THEN {} ELSE {<<at[r], srv[r], a>>})
      PROVE  Truthful'
  <2>1. \A row \in results : row.at = at[r] => row.server < srv[r]
    BY <1>2 DEF Unwritten, UnwrittenBy, Evaluating
  <2>2. srv[r] \in Int /\ \A row \in results : row.server \in Int
    BY BoundsAssumption DEF TypeOK, Servers, ResultRow
  <2>3. \A row \in results : <<row.at, row.server, row.alert>> # <<at[r], srv[r], a>>
    BY <2>1, <2>2
  <2> QED BY <1>2, <2>3 DEF Truthful
<1>3. ASSUME NEW r \in Replicas, pc[r] = "notify", loop[r].pending = {}, UNCHANGED offered,
             results' \subseteq results \cup ResultRows(r)
      PROVE  Truthful'
  <2>1. srv[r] \in Servers /\ loop[r].found \subseteq Alerts
    BY Here
  <2>2. ASSUME NEW a \in loop[r].found
        PROVE  a \in loop[r].mutes <=> <<at[r], srv[r], a>> \notin offered
    BY <1>3, <2>1 DEF Announced, AnnouncedBy, Evaluating
  <2>3. ASSUME NEW row \in ResultRows(r)
        PROVE  row.muted <=> <<row.at, row.server, row.alert>> \notin offered
    <3>1. PICK a \in loop[r].found : row = Row(r, a, isMuted(r, a))
      BY DEF ResultRows
    <3>2. row.at = at[r] /\ row.server = srv[r] /\ row.alert = a /\ row.muted = (a \in loop[r].mutes)
      BY <3>1 DEF Row, isMuted
    <3> QED BY <2>2, <3>2
  <2> QED BY <1>3, <2>3 DEF Truthful
<1> QED BY <1>1, <1>2, <1>3, Additions

-----------------------------------------------------------------------------
(* The mutes.                                                              *)

LEMMA StepMutesKnown ==
  ASSUME TypeOK, MutesKnown, [Next]_vars
  PROVE  MutesKnown'
<1> USE DEF TypeOK, Evaluating
<1>1. ASSUME UNCHANGED <<pc, srv, loop, mutes, steady>> PROVE MutesKnown'
  BY <1>1 DEF MutesKnown
<1>2. ASSUME NEW r \in Replicas,
             Quiet(r) \/ Notify(r) \/ Writes(r) \/ Leaves(r) \/ TryLock(r),
             UNCHANGED mutes,
             \A s \in Servers, a \in Alerts : <<s, a>> \in steady'[r] => a \in mutes[s],
             pc'[r] = "notify" /\ loop'[r].ok =>
               \A a \in Alerts : <<srv'[r], a>> \in steady'[r] => a \in loop'[r].mutes
      PROVE  MutesKnown'
  BY <1>2, OtherRounds DEF MutesKnown
<1>3. ASSUME NEW r \in Replicas, TryLock(r) PROVE MutesKnown'
  <2>1. /\ steady'[r] = UNION {{s} \X mutes[s] : s \in Servers}
        /\ pc'[r] = "assemble" /\ mutes' = mutes
    BY <1>3 DEF TryLock, BeginRound, Goto
  <2> QED BY <1>2, <1>3, <2>1
<1>4. ASSUME NEW r \in Replicas, Quiet(r) \/ Notify(r) \/ Writes(r) PROVE MutesKnown'
  <2>1. mutes' = mutes /\ steady' = steady
    BY <1>4, RoundSteps
  <2>2. ASSUME pc'[r] = "notify", loop'[r].ok
        PROVE  \A a \in Alerts : <<srv'[r], a>> \in steady'[r] => a \in loop'[r].mutes
    <3>0. loop[r] \in LoopVars /\ loop \in [Replicas -> LoopVars]
      OBVIOUS
    <3>1. CASE ListMutes(r)
      <4>1. srv' = srv /\ loop'[r].mutes = mutes[srv[r]]
        BY <2>2, <3>0, <3>1 DEF ListMutes, LoopVars
      <4>2. srv[r] \in Servers
        OBVIOUS
      <4> QED BY <2>1, <4>1, <4>2 DEF MutesKnown
    <3>2. CASE Notify(r)
      <4>1. srv' = srv /\ loop'[r].mutes = loop[r].mutes /\ loop'[r].ok = loop[r].ok
            /\ pc[r] = "notify"
        BY <3>0, <3>2 DEF Notify, LoopVars
      <4> QED BY <2>1, <2>2, <4>1 DEF MutesKnown
    <3>3. CASE Assemble(r) \/ AssembleFailed(r) \/ ServersFailed(r) \/ Writes(r)
      <4>1. pc'[r] # "notify"
        BY <3>3 DEF Assemble, AssembleFailed, ServersFailed, Writes, WriteChecksResults,
                    WriteFailed, NextServer, LeaveLoop, Goto
      <4> QED BY <2>2, <4>1
    <3> QED BY <1>4, <3>1, <3>2, <3>3 DEF Quiet
  <2> QED BY <1>2, <1>4, <2>1, <2>2 DEF MutesKnown
<1>5. ASSUME NEW r \in Replicas, Leaves(r) PROVE MutesKnown'
  <2>1. pc'[r] = "idle" /\ steady'[r] = {} /\ mutes' = mutes
    BY <1>5, LeaveSteps
  <2> QED BY <1>2, <1>5, <2>1
<1>6. ASSUME NEW s \in Servers, NEW a \in Alerts, SetMute(s, a) PROVE MutesKnown'
  <2>1. \A t \in Servers : mutes[t] \subseteq mutes'[t]
    BY <1>6 DEF SetMute
  <2>2. UNCHANGED <<pc, srv, loop, steady>>
    BY <1>6 DEF SetMute, round
  <2> QED BY <2>1, <2>2 DEF MutesKnown
<1>7. ASSUME NEW s \in Servers, NEW a \in Alerts, ClearMute(s, a) PROVE MutesKnown'
  <2>1. UNCHANGED <<pc, srv, loop>> /\ \A r \in Replicas : steady'[r] = steady[r] \ {<<s, a>>}
    BY <1>7 DEF ClearMute
  <2>2. \A t \in Servers, b \in Alerts : b \in mutes[t] /\ <<t, b>> # <<s, a>> => b \in mutes'[t]
    BY <1>7 DEF ClearMute
  <2>3. ASSUME NEW r \in Replicas, NEW t \in Servers, NEW b \in Alerts, <<t, b>> \in steady'[r]
        PROVE  b \in mutes'[t]
    BY <2>1, <2>2, <2>3 DEF MutesKnown
  <2>4. ASSUME NEW r \in Replicas, pc'[r] = "notify", loop'[r].ok,
               NEW b \in Alerts, <<srv'[r], b>> \in steady'[r]
        PROVE  b \in loop'[r].mutes
    BY <2>1, <2>4 DEF MutesKnown
  <2> QED BY <2>3, <2>4 DEF MutesKnown
<1>8. ASSUME \/ UNCHANGED vars
             \/ \E r \in Replicas : TryLockUnheard(r) \/ SessionLost(r)
             \/ SessionReaped
      PROVE  MutesKnown'
  BY <1>1, <1>8 DEF vars, round, TryLockUnheard, SessionLost, SessionReaped
<1> QED BY <1>3, <1>4, <1>5, <1>6, <1>7, <1>8, Actions

-----------------------------------------------------------------------------
LEMMA Implied ==
  ASSUME IInv
  PROVE  StoredAsAnnounced
<1> USE DEF IInv
<1>1. ASSUME NEW r \in Replicas, pc[r] = "notify", loop[r].ok,
             NEW a \in Alerts, <<srv[r], a>> \in steady[r]
      PROVE  <<at[r], srv[r], a>> \notin offered
  <2>1. a \in loop[r].mutes
    BY <1>1 DEF MutesKnown
  <2>2. srv[r] \in Servers
    BY Here
  <2> QED BY <1>1, <2>1, <2>2 DEF Announced, AnnouncedBy, Evaluating
<1> QED BY <1>1 DEF StoredAsAnnounced, MuteSilences, Truthful

\* The invariant: rounds are told apart by their stamps, and under each stamp
\* what was announced and what is stored is what the round at hand has done.
THEOREM Inductive == Spec => []IInv
<1>1. ASSUME IInv, [Next]_vars PROVE IInv'
  <2>1. TypeOK' /\ OneEvaluator' /\ Stamped'
    BY <1>1, StepTypeOK, StepOneEvaluator, StepStamped DEF IInv
  <2>2. Announced' /\ Unwritten'
    BY <1>1, StepAnnounced, StepUnwritten DEF IInv
  <2>3. MutesKnown' /\ Truthful'
    BY <1>1, StepMutesKnown, StepTruthful DEF IInv
  <2> QED BY <2>1, <2>2, <2>3 DEF IInv
<1> QED BY InitIInv, <1>1, PTL DEF Spec

\* The replicas, their rounds and the shared tables keep their types.
THEOREM TypeCorrect == Spec => []TypeOK
BY Inductive, PTL DEF IInv

\* No two replicas evaluate at once while the lock's session lives, and rounds
\* that overlap because one was lost never share a stamp (scheduler.go's
\* pg_try_advisory_lock, whose session nobody looks at until the unlock).
THEOREM Exclusive == Spec => []OneEvaluator
BY Inductive, PTL DEF IInv

\* Whatever fails, is lost or is toggled, a stored row says muted exactly when
\* its round did not announce it, and a standing mute is never announced.
THEOREM Faithful == Spec => []StoredAsAnnounced
BY Inductive, Implied, PTL

-----------------------------------------------------------------------------
(* The rules: none finds less when what it weighs got worse.               *)

\* The later reading o of a kind is no better than a.
Worse(kind, a, o) ==
  /\ a \in Readings[kind] /\ o \in Readings[kind]
  /\ Decide!NoBetter(a, o)

\* A rule that found x of a finds it of o, as bad or worse.
Graver(x, y) == x \in Nat /\ y \in Nat /\ x <= y

LEMMA BandsGrow ==
  ASSUME NEW x \in Int, NEW y \in Int, x <= y, NEW warn \in Int, NEW crit \in Int
  PROVE  Graver(Decide!C!Banded(x, warn, crit), Decide!C!Banded(y, warn, crit))
BY DEF Graver, Decide!C!Banded, Decide!C!Critical, Decide!C!Warning, Decide!C!None

LEMMA ConnectionsWorse ==
  ASSUME "connection" \in DOMAIN Readings, NEW a, NEW o, Worse("connection", a, o)
  PROVE  /\ Graver(Decide!C!LongRunningActive(a), Decide!C!LongRunningActive(o))
         /\ Graver(Decide!C!IdleInTransaction(a), Decide!C!IdleInTransaction(o))
<1>1. /\ a.activeSeconds \in Int /\ o.activeSeconds \in Int /\ a.activeSeconds <= o.activeSeconds
      /\ a.stateSeconds \in Int /\ o.stateSeconds \in Int /\ a.stateSeconds <= o.stateSeconds
      /\ o.state = a.state
  BY ReadingsAssumption DEF Worse, Decide!NoBetter, Decide!Up, Decide!Down, Says, Words
<1>2. /\ Graver(Decide!C!Banded(a.activeSeconds, 300, 900), Decide!C!Banded(o.activeSeconds, 300, 900))
      /\ Graver(Decide!C!Banded(a.stateSeconds, 300, 900), Decide!C!Banded(o.stateSeconds, 300, 900))
  BY <1>1, BandsGrow, SMTT(30)
<1>3. Graver(Decide!C!None, Decide!C!None)
  BY DEF Graver, Decide!C!None
<1> QED BY <1>1, <1>2, <1>3 DEF Decide!C!LongRunningActive, Decide!C!IdleInTransaction

LEMMA EdgesWorse ==
  ASSUME "edge" \in DOMAIN Readings, NEW a, NEW o, Worse("edge", a, o)
  PROVE  Graver(Decide!C!Blocking(a), Decide!C!Blocking(o))
<1>1. a.waitSeconds \in Int /\ o.waitSeconds \in Int /\ a.waitSeconds <= o.waitSeconds
  BY ReadingsAssumption DEF Worse, Decide!NoBetter, Decide!Up, Decide!Down, Says, Words
<1> QED BY <1>1 DEF Graver, Decide!C!Blocking, Decide!C!Critical, Decide!C!Warning

LEMMA IndexesWorse ==
  ASSUME "index" \in DOMAIN Readings, NEW a, NEW o, Worse("index", a, o)
  PROVE  /\ Graver(Decide!C!InvalidIndex(a), Decide!C!InvalidIndex(o))
         /\ Graver(Decide!C!UnusedIndex(a), Decide!C!UnusedIndex(o))
<1>1. /\ a.scans \in Int /\ o.scans \in Int /\ o.scans <= a.scans
      /\ a.size \in Int /\ o.size \in Int /\ a.size <= o.size
      /\ o.valid = a.valid /\ o.primary = a.primary /\ o.unique = a.unique
  BY ReadingsAssumption DEF Worse, Decide!NoBetter, Decide!Up, Decide!Down, Says, Words
<1> QED BY <1>1 DEF Graver, Decide!C!InvalidIndex, Decide!C!UnusedIndex,
                    Decide!C!None, Decide!C!Info, Decide!C!Warning

LEMMA TablesWorse ==
  ASSUME "table" \in DOMAIN Readings, NEW a, NEW o, Worse("table", a, o)
  PROVE  /\ Graver(Decide!C!VacuumFrequency(a), Decide!C!VacuumFrequency(o))
         /\ Graver(Decide!C!Bloat(a), Decide!C!Bloat(o))
         /\ Graver(Decide!C!StaleStatistics(a), Decide!C!StaleStatistics(o))
         /\ Graver(Decide!C!AutovacuumLag(a), Decide!C!AutovacuumLag(o))
<1>1. /\ a.live \in Int /\ a.dead \in Int /\ o.dead \in Int /\ a.dead <= o.dead
      /\ a.modified \in Int /\ o.modified \in Int /\ a.modified <= o.modified
      /\ o.live = a.live /\ o.sinceAutovacuum = a.sinceAutovacuum /\ a.sinceAutovacuum \in Int
  BY ReadingsAssumption DEF Worse, Decide!NoBetter, Decide!Up, Decide!Down, Says, Words
<1>2. Graver(Decide!C!VacuumFrequency(a), Decide!C!VacuumFrequency(o))
  BY <1>1 DEF Graver, Decide!C!VacuumFrequency, Decide!C!None, Decide!C!Warning, Decide!C!Critical
<1>3. Graver(Decide!C!Bloat(a), Decide!C!Bloat(o))
  BY <1>1 DEF Graver, Decide!C!Bloat, Decide!C!None, Decide!C!Warning, Decide!C!Critical
<1>4. Graver(Decide!C!StaleStatistics(a), Decide!C!StaleStatistics(o))
  <2>1. a.live \div 10 \in Int /\ a.live \div 2 \in Int
    BY <1>1
  <2> QED BY <1>1, <2>1 DEF Graver, Decide!C!StaleStatistics, Decide!C!Worst,
                            Decide!C!None, Decide!C!Warning, Decide!C!Critical
<1>5. Graver(Decide!C!AutovacuumLag(a), Decide!C!AutovacuumLag(o))
  BY <1>1 DEF Graver, Decide!C!AutovacuumLag, Decide!C!Never, Decide!C!Day,
              Decide!C!None, Decide!C!Warning, Decide!C!Critical
<1> QED BY <1>2, <1>3, <1>4, <1>5

LEMMA FreezesWorse ==
  ASSUME "freeze" \in DOMAIN Readings, NEW a, NEW o, Worse("freeze", a, o)
  PROVE  /\ Graver(Decide!C!Wraparound(a), Decide!C!Wraparound(o))
         /\ Graver(Decide!C!FreezeAdvice(a), Decide!C!FreezeAdvice(o))
<1>1. /\ a.xid \in Int /\ o.xid \in Int /\ a.xid <= o.xid
      /\ a.mxid \in Int /\ o.mxid \in Int /\ a.mxid <= o.mxid
  BY ReadingsAssumption DEF Worse, Decide!NoBetter, Decide!Up, Decide!Down, Says, Words
<1>2. /\ Decide!C!Worst(a.xid, a.mxid) \in Int /\ Decide!C!Worst(o.xid, o.mxid) \in Int
      /\ Decide!C!Worst(a.xid, a.mxid) <= Decide!C!Worst(o.xid, o.mxid)
  BY <1>1 DEF Decide!C!Worst
<1>3. \A x, y \in Int : x <= y =>
        Graver(Decide!C!Banded(x, 500000000, 1500000000), Decide!C!Banded(y, 500000000, 1500000000))
  BY BandsGrow
<1> QED BY <1>2, <1>3 DEF Decide!C!Wraparound, Decide!C!FreezeAdvice

LEMMA HorizonsWorse ==
  ASSUME "horizon" \in DOMAIN Readings, NEW a, NEW o, Worse("horizon", a, o)
  PROVE  Graver(Decide!C!XminHorizon(a), Decide!C!XminHorizon(o))
<1>1. a.age \in Int /\ o.age \in Int /\ a.age <= o.age /\ o.present = a.present
  BY ReadingsAssumption DEF Worse, Decide!NoBetter, Decide!Up, Decide!Down, Says, Words
<1>2. \A x, y \in Int : x <= y =>
        Graver(Decide!C!Banded(x, 50000000, 500000000), Decide!C!Banded(y, 50000000, 500000000))
  BY BandsGrow
<1>3. Graver(Decide!C!None, Decide!C!None)
  BY DEF Graver, Decide!C!None
<1> QED BY <1>1, <1>2, <1>3 DEF Decide!C!XminHorizon

LEMMA RecommendationsWorse ==
  ASSUME "recommendation" \in DOMAIN Readings, NEW a, NEW o, Worse("recommendation", a, o)
  PROVE  Graver(Decide!C!MissingIndex(a), Decide!C!MissingIndex(o))
<1>1. /\ a.seqScans \in Int /\ o.seqScans \in Int /\ a.seqScans <= o.seqScans
      /\ a.size \in Int /\ o.size \in Int /\ a.size <= o.size
  BY ReadingsAssumption DEF Worse, Decide!NoBetter, Decide!Up, Decide!Down, Says, Words
<1> QED BY <1>1 DEF Graver, Decide!C!MissingIndex, Decide!C!Info, Decide!C!Warning

LEMMA FoundBySame ==
  \A rule, r : /\ Decide!C!Found(rule, r).rule = rule
               /\ Decide!C!Found(rule, r).rank = r
BY DEF Decide!C!Found

\* What was judged of a, is judged of o by the same rule.
LEMMA JudgedWorse ==
  ASSUME NEW kind \in DOMAIN Readings, kind # "setting", NEW a, NEW o, Worse(kind, a, o),
         NEW x \in Decide!C!Judged(kind, a)
  PROVE  \E y \in Decide!C!Judged(kind, o) : y.rule = x.rule /\ Graver(x.rank, y.rank)
<1>1. kind \in KindsOfReading
  BY ReadingsAssumption
<1>2. CASE kind = "connection"
  <2>1. \A z : Decide!C!Judged(kind, z) =
           {Decide!C!Found("long_running_active", Decide!C!LongRunningActive(z)),
            Decide!C!Found("idle_in_transaction", Decide!C!IdleInTransaction(z))}
    BY <1>2 DEF Decide!C!Judged
  <2>2. /\ Graver(Decide!C!LongRunningActive(a), Decide!C!LongRunningActive(o))
        /\ Graver(Decide!C!IdleInTransaction(a), Decide!C!IdleInTransaction(o))
    BY <1>2, ConnectionsWorse
  <2> QED BY <2>1, <2>2, FoundBySame
<1>3. CASE kind = "edge"
  <2>1. \A z : Decide!C!Judged(kind, z) =
           {Decide!C!Found("blocking", Decide!C!Blocking(z))}
    BY <1>3 DEF Decide!C!Judged
  <2>2. Graver(Decide!C!Blocking(a), Decide!C!Blocking(o))
    BY <1>3, EdgesWorse
  <2> QED BY <2>1, <2>2, FoundBySame
<1>4. CASE kind = "index"
  <2>1. \A z : Decide!C!Judged(kind, z) =
           {Decide!C!Found("invalid_index", Decide!C!InvalidIndex(z)),
            Decide!C!Found("unused_index", Decide!C!UnusedIndex(z))}
    BY <1>4 DEF Decide!C!Judged
  <2>2. /\ Graver(Decide!C!InvalidIndex(a), Decide!C!InvalidIndex(o))
        /\ Graver(Decide!C!UnusedIndex(a), Decide!C!UnusedIndex(o))
    BY <1>4, IndexesWorse
  <2> QED BY <2>1, <2>2, FoundBySame
<1>5. CASE kind = "table"
  <2>1. \A z : Decide!C!Judged(kind, z) =
           {Decide!C!Found("insufficient_frequency", Decide!C!VacuumFrequency(z)),
            Decide!C!Found("bloat", Decide!C!Bloat(z)),
            Decide!C!Found("performance", Decide!C!StaleStatistics(z)),
            Decide!C!Found("activity", Decide!C!AutovacuumLag(z))}
    BY <1>5 DEF Decide!C!Judged
  <2>2. /\ Graver(Decide!C!VacuumFrequency(a), Decide!C!VacuumFrequency(o))
        /\ Graver(Decide!C!Bloat(a), Decide!C!Bloat(o))
        /\ Graver(Decide!C!StaleStatistics(a), Decide!C!StaleStatistics(o))
        /\ Graver(Decide!C!AutovacuumLag(a), Decide!C!AutovacuumLag(o))
    BY <1>5, TablesWorse
  <2> QED BY <2>1, <2>2, FoundBySame
<1>6. CASE kind = "freeze"
  <2>1. \A z : Decide!C!Judged(kind, z) =
           {Decide!C!Found("wraparound", Decide!C!Wraparound(z)),
            Decide!C!Found("freezing", Decide!C!FreezeAdvice(z))}
    BY <1>6 DEF Decide!C!Judged
  <2>2. /\ Graver(Decide!C!Wraparound(a), Decide!C!Wraparound(o))
        /\ Graver(Decide!C!FreezeAdvice(a), Decide!C!FreezeAdvice(o))
    BY <1>6, FreezesWorse
  <2> QED BY <2>1, <2>2, FoundBySame
<1>7. CASE kind = "horizon"
  <2>1. \A z : Decide!C!Judged(kind, z) =
           {Decide!C!Found("xmin_horizon", Decide!C!XminHorizon(z))}
    BY <1>7 DEF Decide!C!Judged
  <2>2. Graver(Decide!C!XminHorizon(a), Decide!C!XminHorizon(o))
    BY <1>7, HorizonsWorse
  <2> QED BY <2>1, <2>2, FoundBySame
<1>8. CASE kind = "recommendation"
  <2>1. \A z : Decide!C!Judged(kind, z) =
           {Decide!C!Found("missing_index", Decide!C!MissingIndex(z))}
    BY <1>8 DEF Decide!C!Judged
  <2>2. Graver(Decide!C!MissingIndex(a), Decide!C!MissingIndex(o))
    BY <1>8, RecommendationsWorse
  <2> QED BY <2>1, <2>2, FoundBySame
<1> QED BY <1>1, <1>2, <1>3, <1>4, <1>5, <1>6, <1>7, <1>8 DEF KindsOfReading

LEMMA FoundWorse ==
  ASSUME NEW kind \in DOMAIN Readings, kind # "setting", NEW a, NEW o, Worse(kind, a, o),
         NEW x \in Decide!C!Eval(kind, a)
  PROVE  \E y \in Decide!C!Eval(kind, o) : y.rule = x.rule /\ y.rank >= x.rank
<1>1. x \in Decide!C!Judged(kind, a) /\ x.rank # 0
  BY DEF Decide!C!Eval, Decide!C!None
<1>2. PICK y \in Decide!C!Judged(kind, o) : y.rule = x.rule /\ Graver(x.rank, y.rank)
  BY <1>1, JudgedWorse
<1> QED BY <1>1, <1>2 DEF Decide!C!Eval, Decide!C!None, Graver

\* The case at hand is one that can come up.
CaseOK ==
  /\ subject.is = "observation" => subject.kind \in DOMAIN Readings /\ subject.of \in Readings[subject.kind]
  /\ subject.is = "policies" => subject.of \in Seq(ScopedPolicies)

LEMMA InitCase == Decide!Init => CaseOK
<1>1. ASSUME NEW kind \in Decide!Kinds, NEW o \in Readings[kind], subject = Decide!Observation(kind, o)
      PROVE  CaseOK
  BY <1>1 DEF CaseOK, Decide!Kinds, Decide!Observation
<1>2. ASSUME subject = Decide!Logged(<< >>)
      PROVE  CaseOK
  BY <1>2 DEF CaseOK, Decide!Logged
<1>3. ASSUME subject = Decide!Policies(<< >>)
      PROVE  CaseOK
  BY <1>3 DEF CaseOK, Decide!Policies
<1> QED BY <1>1, <1>2, <1>3 DEF Decide!Init

LEMMA StepCase ==
  ASSUME CaseOK, [Decide!Next]_subject
  PROVE  CaseOK'
<1>1. CASE Decide!Worsen
  <2>1. PICK o \in Readings[subject.kind] : subject' = Decide!Observation(subject.kind, o)
    BY <1>1 DEF Decide!Worsen
  <2> QED BY <1>1, <2>1 DEF Decide!Worsen, Decide!Observation, CaseOK
<1>2. CASE Decide!LogPlan
  <2>1. \E es : subject' = Decide!Logged(es)
    BY <1>2 DEF Decide!LogPlan
  <2> QED BY <2>1 DEF Decide!Logged, CaseOK
<1>3. CASE Decide!AddPolicy
  BY <1>3 DEF Decide!AddPolicy, Decide!Policies, CaseOK
<1>4. CASE UNCHANGED subject
  BY <1>4 DEF CaseOK
<1> QED BY <1>1, <1>2, <1>3, <1>4 DEF Decide!Next

\* A step from an observation finds the same thing worse.
LEMMA StepWorse ==
  ASSUME CaseOK, Decide!Next, subject.is = "observation"
  PROVE  \A x \in Decide!C!Eval(subject.kind, subject.of) :
           \E y \in Decide!C!Eval(subject.kind, subject'.of) : y.rule = x.rule /\ y.rank >= x.rank
<1>1. Decide!Worsen
  BY DEF Decide!Next, Decide!LogPlan, Decide!AddPolicy
<1>2. PICK kind, a : kind = subject.kind /\ a = subject.of
  OBVIOUS
<1>3. PICK o \in Readings[kind] : Decide!NoBetter(a, o) /\ subject' = Decide!Observation(kind, o)
  BY <1>1, <1>2 DEF Decide!Worsen
<1>4. kind \in DOMAIN Readings /\ kind # "setting" /\ Worse(kind, a, o)
  BY <1>1, <1>2, <1>3 DEF CaseOK, Worse, Decide!Worsen
<1>5. \A x \in Decide!C!Eval(kind, a) : \E y \in Decide!C!Eval(kind, o) : y.rule = x.rule /\ y.rank >= x.rank
  BY <1>4, FoundWorse
<1>6. subject'.of = o
  BY <1>3 DEF Decide!Observation
<1> QED BY <1>2, <1>5, <1>6

\* The findings of a thing that got worse are no fewer, and no better (every
\* Check.Eval of internal/checks and the advisors' classifiers, with the bands
\* of their thresholds).
THEOREM NeverWeaker == Decide!Spec => WorseNeverWeaker
<1>1. Decide!Spec => []CaseOK
  BY InitCase, StepCase, PTL DEF Decide!Spec
<1>2. CaseOK /\ [Decide!Next]_subject =>
        [subject.is = "observation" =>
           \A x \in Decide!C!Eval(subject.kind, subject.of) :
             \E y \in Decide!C!Eval(subject.kind, subject'.of) : y.rule = x.rule /\ y.rank >= x.rank]_subject
  BY StepWorse
<1> QED BY <1>1, <1>2, PTL DEF Decide!Spec, WorseNeverWeaker, Decide!WorseNeverWeaker

-----------------------------------------------------------------------------
(* The policies.  At each of the two levels the policies that no other of  *)
(* the level precedes decide (Tops); the levels are taken in turn, and so  *)
(* decide what the four scopes do together.                                *)

Scopes == {"fleet", "group", "instance", "database"}

\* The policies of some scopes that apply to a server and toggle a capability.
Own(ps, s, cap, scopes) ==
  {i \in DOMAIN ps : /\ ps[i].scope \in scopes /\ Decide!F!matches(ps[i], Graph[s])
                     /\ \E t \in ps[i].toggles : t.cap = cap}

Precedes(p, q) ==
  \/ Decide!F!tierRank(p.scope) > Decide!F!tierRank(q.scope)
  \/ Decide!F!tierRank(p.scope) = Decide!F!tierRank(q.scope) /\ p.priority > q.priority

Tops(ps, is) == {i \in is : ~\E j \in is : Precedes(ps[j], ps[i])}

Say(ps, is, cap) == {t.enabled : t \in {u \in UNION {ps[i].toggles : i \in is} : u.cap = cap}}

Cands(ps, s, cap, scopes) == Decide!F!Candidates(ps, Graph[s], cap, scopes)

Lists == Seq(ScopedPolicies)

LEMMA SaidBy ==
  ASSUME NEW ps, NEW is, NEW cap, NEW v
  PROVE  v \in Say(ps, is, cap) <=> \E i \in is : \E t \in ps[i].toggles : t.cap = cap /\ t.enabled = v
BY DEF Say

LEMMA CandidateIs ==
  ASSUME NEW ps, NEW s, NEW cap, NEW scopes, NEW c
  PROVE  c \in Cands(ps, s, cap, scopes) <=>
           \E i \in Own(ps, s, cap, scopes) : \E t \in ps[i].toggles :
             t.cap = cap /\ c = [policy |-> i, of |-> Decide!F!Candidate(ps[i], t)]
BY DEF Cands, Own, Decide!F!Candidates

LEMMA AboveIs ==
  ASSUME NEW p, NEW q, NEW t, NEW u
  PROVE  Decide!F!Above(Decide!F!Candidate(p, t), Decide!F!Candidate(q, u)) <=> Precedes(p, q)
BY DEF Decide!F!Above, Decide!F!Candidate, Precedes

LEMMA EnabledIs ==
  ASSUME NEW p, NEW t
  PROVE  Decide!F!Candidate(p, t).enabled = t.enabled
BY DEF Decide!F!Candidate

\* What is resolved of the candidates is what the policies on top say.
LEMMA ResolvedIs ==
  ASSUME NEW ps, NEW s, NEW cap, NEW scopes
  PROVE  Decide!F!resolvePrecedence(Cands(ps, s, cap, scopes))
           = Say(ps, Tops(ps, Own(ps, s, cap, scopes)), cap)
<1> DEFINE cands == Cands(ps, s, cap, scopes)
           own == Own(ps, s, cap, scopes)
           Made(i, t) == [policy |-> i, of |-> Decide!F!Candidate(ps[i], t)]
<1>1. \A i, t : Made(i, t).of = Decide!F!Candidate(ps[i], t)
  OBVIOUS
<1>2. \A c : c \in cands <=> \E i \in own : \E t \in ps[i].toggles : t.cap = cap /\ c = Made(i, t)
  BY CandidateIs
<1>3. \A i \in own : \E t \in ps[i].toggles : t.cap = cap
  BY DEF Own
<1> HIDE DEF cands, own, Made
<1>4. ASSUME NEW i \in own, NEW t
      PROVE  (\E d \in cands : Decide!F!Above(d.of, Made(i, t).of)) <=> \E j \in own : Precedes(ps[j], ps[i])
  BY <1>1, <1>2, <1>3, AboveIs
<1>5. ASSUME NEW v
      PROVE  v \in {c.of.enabled : c \in {x \in cands : ~\E d \in cands : Decide!F!Above(d.of, x.of)}}
               <=> v \in Say(ps, Tops(ps, own), cap)
  <2>1. ASSUME NEW c \in cands, ~\E d \in cands : Decide!F!Above(d.of, c.of), v = c.of.enabled
        PROVE  v \in Say(ps, Tops(ps, own), cap)
    <3>a. PICK i \in own : \E t \in ps[i].toggles : t.cap = cap /\ c = Made(i, t)
      BY <1>2
    <3>1. PICK t \in ps[i].toggles : t.cap = cap /\ c = Made(i, t)
      BY <3>a
    <3>2. i \in Tops(ps, own)
      BY <1>4, <2>1, <3>1 DEF Tops
    <3>3. t.enabled = v
      BY <1>1, <2>1, <3>1, EnabledIs
    <3> QED BY <3>1, <3>2, <3>3, SaidBy
  <2>2. ASSUME v \in Say(ps, Tops(ps, own), cap)
        PROVE  \E c \in cands : (~\E d \in cands : Decide!F!Above(d.of, c.of)) /\ v = c.of.enabled
    <3>1. PICK i \in Tops(ps, own) : \E t \in ps[i].toggles : t.cap = cap /\ t.enabled = v
      BY <2>2, SaidBy
    <3>2. PICK t \in ps[i].toggles : t.cap = cap /\ t.enabled = v
      BY <3>1
    <3>3. i \in own /\ ~\E j \in own : Precedes(ps[j], ps[i])
      BY <3>1 DEF Tops
    <3>4. Made(i, t) \in cands /\ Made(i, t).of.enabled = v
      BY <1>1, <1>2, <3>2, <3>3, EnabledIs
    <3> QED BY <1>4, <3>3, <3>4
  <2> QED BY <2>1, <2>2
<1> QED BY <1>5 DEF cands, own, Decide!F!resolvePrecedence

LEMMA CandidatesEmpty ==
  ASSUME NEW ps, NEW s, NEW cap, NEW scopes
  PROVE  Cands(ps, s, cap, scopes) = {} <=> Own(ps, s, cap, scopes) = {}
<1>1. \A i \in Own(ps, s, cap, scopes) : \E t \in ps[i].toggles : t.cap = cap
  BY DEF Own
<1>2. \A c : c \in Cands(ps, s, cap, scopes) =>
        \E i \in Own(ps, s, cap, scopes) : i \in Own(ps, s, cap, scopes)
  BY CandidateIs
<1>3. \A i \in Own(ps, s, cap, scopes) : \E c : c \in Cands(ps, s, cap, scopes)
  <2> TAKE i \in Own(ps, s, cap, scopes)
  <2>1. PICK t \in ps[i].toggles : t.cap = cap
    BY <1>1
  <2>2. [policy |-> i, of |-> Decide!F!Candidate(ps[i], t)] \in Cands(ps, s, cap, scopes)
    BY <2>1, CandidateIs
  <2> QED BY <2>2
<1> QED BY <1>2, <1>3

Single(S) == S # {} /\ \A a, b \in S : a = b

BroadLevel == [scopes |-> Decide!F!Broad, database |-> Decide!F!NoDatabase]
OwnLevel(s) == [scopes |-> {"database"}, database |-> Graph[s].database]

\* What a level says of a capability of s.
LevelSays(ps, s, cap, scopes) == Say(ps, Tops(ps, Own(ps, s, cap, scopes)), cap)

\* A level of policies that apply is resolved when those on top agree.
Decided(ps, s, cap, scopes) ==
  /\ Own(ps, s, cap, scopes) # {}
  /\ \A a, b \in LevelSays(ps, s, cap, scopes) : a = b

RowOf(ps, s, cap, l) == Decide!F!Row(s, l.database, cap, Decide!F!Agreed(LevelSays(ps, s, cap, l.scopes)))

\* r is the row of a level of s that was decided.
RowFrom(ps, s, cap, r) ==
  \E l \in {BroadLevel, OwnLevel(s)} : Decided(ps, s, cap, l.scopes) /\ r = RowOf(ps, s, cap, l)

LEMMA RowIs ==
  ASSUME NEW ps, NEW r
  PROVE  r \in Decide!F!Rows(ps, Graph) <=>
           \E x \in (DOMAIN Graph) \X Decide!F!Capabilities(ps) : RowFrom(ps, x[1], x[2], r)
<1>1. \A s, cap, scopes :
        /\ Decide!F!Resolved(Cands(ps, s, cap, scopes)) <=> Decided(ps, s, cap, scopes)
        /\ Decide!F!resolvePrecedence(Cands(ps, s, cap, scopes)) = LevelSays(ps, s, cap, scopes)
  BY ResolvedIs, CandidatesEmpty DEF Decide!F!Resolved, Decided, LevelSays
<1>2. \A s : Decide!F!Levels(Graph[s]) = {BroadLevel, OwnLevel(s)}
  BY DEF Decide!F!Levels, BroadLevel, OwnLevel
<1>3. \A s, cap : r \in Decide!F!RowsOf(ps, s, Graph[s], cap) <=> RowFrom(ps, s, cap, r)
  BY <1>1, <1>2 DEF Decide!F!RowsOf, Cands, RowFrom, RowOf
<1>4. r \in Decide!F!Rows(ps, Graph) <=>
        \E x \in (DOMAIN Graph) \X Decide!F!Capabilities(ps) :
          r \in Decide!F!RowsOf(ps, x[1], Graph[x[1]], x[2])
  BY DEF Decide!F!Rows
<1> QED BY <1>3, <1>4

LEMMA RefusedIs ==
  ASSUME NEW ps, NEW s \in DOMAIN Graph, NEW cap \in Decide!F!Capabilities(ps)
  PROVE  <<s, cap>> \in Decide!F!Refused(ps, Graph) <=>
           \E l \in {BroadLevel, OwnLevel(s)} : \E a, b \in LevelSays(ps, s, cap, l.scopes) : a # b
<1>1. \A scopes : Decide!F!resolvePrecedence(Decide!F!Candidates(ps, Graph[s], cap, scopes))
                    = LevelSays(ps, s, cap, scopes)
  BY ResolvedIs DEF LevelSays, Cands
<1>2. Decide!F!Levels(Graph[s]) = {BroadLevel, OwnLevel(s)}
  BY DEF Decide!F!Levels, BroadLevel, OwnLevel
<1> QED BY <1>1, <1>2 DEF Decide!F!Refused

\* The rows of s and cap at a level: one, if the level is decided.
LEMMA RowsAt ==
  ASSUME NEW ps, NEW s \in DOMAIN Graph, NEW cap \in Decide!F!Capabilities(ps),
         NEW l \in {BroadLevel, OwnLevel(s)}
  PROVE  {r \in Decide!F!Rows(ps, Graph) : r.server = s /\ r.cap = cap /\ r.database = l.database}
           = IF Decided(ps, s, cap, l.scopes) THEN {RowOf(ps, s, cap, l)} ELSE {}
<1>1. BroadLevel.database # OwnLevel(s).database
  BY PoliciesAssumption DEF BroadLevel, OwnLevel
<1>2. \A a, c, k : /\ RowOf(ps, a, c, k).server = a /\ RowOf(ps, a, c, k).cap = c
                   /\ RowOf(ps, a, c, k).database = k.database
  BY DEF Decide!F!Row, RowOf
<1>3. ASSUME NEW r \in Decide!F!Rows(ps, Graph), r.server = s, r.cap = cap, r.database = l.database
      PROVE  Decided(ps, s, cap, l.scopes) /\ r = RowOf(ps, s, cap, l)
  <2>1. PICK x \in (DOMAIN Graph) \X Decide!F!Capabilities(ps) : RowFrom(ps, x[1], x[2], r)
    BY RowIs
  <2>2. PICK k \in {BroadLevel, OwnLevel(x[1])} : Decided(ps, x[1], x[2], k.scopes) /\ r = RowOf(ps, x[1], x[2], k)
    BY <2>1 DEF RowFrom
  <2>3. x[1] = s /\ x[2] = cap /\ k.database = l.database
    BY <1>2, <1>3, <2>2
  <2>4. k = l
    BY <1>1, <2>2, <2>3
  <2> QED BY <2>2, <2>3, <2>4
<1>4. ASSUME Decided(ps, s, cap, l.scopes)
      PROVE  RowOf(ps, s, cap, l) \in Decide!F!Rows(ps, Graph)
  <2>1. RowFrom(ps, s, cap, RowOf(ps, s, cap, l))
    BY <1>4 DEF RowFrom
  <2>2. /\ <<s, cap>> \in (DOMAIN Graph) \X Decide!F!Capabilities(ps)
        /\ <<s, cap>>[1] = s /\ <<s, cap>>[2] = cap
    OBVIOUS
  <2> QED BY <2>1, <2>2, RowIs
<1> QED BY <1>2, <1>3, <1>4

\* A policy of a database precedes all others that apply.
LEMMA Narrowest ==
  ASSUME NEW ps \in Lists, NEW s, NEW cap
  PROVE  Decide!Deciding(ps, s, cap) =
           IF Own(ps, s, cap, {"database"}) # {} THEN Tops(ps, Own(ps, s, cap, {"database"}))
           ELSE Tops(ps, Own(ps, s, cap, Decide!F!Broad))
<1> DEFINE all == Own(ps, s, cap, Scopes)
           narrow == Own(ps, s, cap, {"database"})
           broad == Own(ps, s, cap, Decide!F!Broad)
<1>1. \A i \in DOMAIN ps : ps[i].scope \in Scopes /\ ps[i].priority \in Int
  BY PoliciesAssumption DEF Scopes, Lists
<1>2. Decide!Deciding(ps, s, cap) = Tops(ps, all)
  BY <1>1 DEF Decide!Deciding, Tops, Own, Precedes
<1>3. all = narrow \cup broad
  BY <1>1 DEF Own, Scopes, Decide!F!Broad
<1>4. \A i \in narrow, j \in broad : Precedes(ps[i], ps[j]) /\ ~Precedes(ps[j], ps[i])
  BY DEF Own, Precedes, Decide!F!Broad, Decide!F!tierRank
<1> HIDE DEF all, narrow, broad
<1>5. CASE narrow # {}
  BY <1>2, <1>3, <1>4, <1>5 DEF Tops, narrow
<1>6. CASE narrow = {}
  BY <1>2, <1>3, <1>6 DEF narrow, broad
<1> QED BY <1>5, <1>6

LEMMA SayBoolean ==
  ASSUME NEW ps \in Lists, NEW is, is \subseteq DOMAIN ps, NEW cap
  PROVE  Say(ps, is, cap) \subseteq BOOLEAN
BY PoliciesAssumption DEF Say, Lists

LEMMA TwoElements ==
  ASSUME NEW x, NEW y, x # y
  PROVE  Cardinality({x, y}) = 2
<1>1. Cardinality({x}) = 1 /\ IsFiniteSet({x})
  BY FS_Singleton
<1>2. Cardinality({x} \cup {y}) = 2
  BY <1>1, FS_AddElement
<1>3. {x} \cup {y} = {x, y}
  OBVIOUS
<1> QED BY <1>2, <1>3

LEMMA Disagree ==
  ASSUME NEW S, S \subseteq BOOLEAN
  PROVE  Decide!Cardinality(S) > 1 <=> \E a, b \in S : a # b
<1>1. Decide!Cardinality(S) = Cardinality(S)
  BY DEF Decide!Cardinality, Cardinality
<1>2. CASE \E a, b \in S : a # b
  <2>1. PICK a, b : a \in S /\ b \in S /\ a # b
    BY <1>2
  <2>2. S = {a, b}
    BY <2>1
  <2>3. Cardinality(S) = 2
    BY <2>1, <2>2, TwoElements
  <2> QED BY <1>1, <1>2, <2>3
<1>3. CASE S = {}
  BY <1>1, <1>3, FS_EmptySet
<1>4. CASE \E a \in S : S = {a}
  BY <1>1, <1>4, FS_Singleton
<1> QED BY <1>2, <1>3, <1>4

\* The gate of a server says what its deciding policies say.
LEMMA GateAsDecided ==
  ASSUME NEW ps \in Lists, NEW s \in DOMAIN Graph, NEW cap \in Decide!F!Capabilities(ps),
         NEW says, says = Say(ps, Decide!Deciding(ps, s, cap), cap)
  PROVE  IF Decide!Cardinality(says) > 1
         THEN /\ <<s, cap>> \in Decide!F!Refused(ps, Graph)
              /\ \A r \in Decide!F!Rows(ps, Graph) : r.server = s /\ r.cap = cap =>
                   r.database # Decide!StoredAt(ps, Decide!Deciding(ps, s, cap), s)
         ELSE says # {} => Decide!Gate(Decide!F!Rows(ps, Graph), s, cap) = says
<1> DEFINE level(db) == {r \in Decide!F!Rows(ps, Graph) : r.server = s /\ r.cap = cap /\ r.database = db}
           narrow == {"database"}
           At(l) == LevelSays(ps, s, cap, l.scopes)
<1>1. PICK l \in {BroadLevel, OwnLevel(s)} :
        /\ says = At(l)
        /\ l = OwnLevel(s) \/ Own(ps, s, cap, narrow) = {}
        /\ Decide!Deciding(ps, s, cap) = Tops(ps, Own(ps, s, cap, l.scopes))
  BY Narrowest DEF LevelSays, BroadLevel, OwnLevel
<1>2. says \subseteq BOOLEAN
  <2>1. Tops(ps, Own(ps, s, cap, l.scopes)) \subseteq DOMAIN ps
    BY DEF Tops, Own
  <2> QED BY <1>1, <2>1, SayBoolean DEF LevelSays
<1>3. CASE Decide!Cardinality(says) > 1
  <2>1. PICK a, b \in says : a # b
    BY <1>2, <1>3, Disagree
  <2>2. <<s, cap>> \in Decide!F!Refused(ps, Graph)
    BY <1>1, <2>1, RefusedIs
  <2>3. PICK i \in Tops(ps, Own(ps, s, cap, l.scopes)) : TRUE
    BY <1>1, <2>1, SaidBy DEF LevelSays
  <2>4. \A j \in Tops(ps, Own(ps, s, cap, l.scopes)) : ps[j].scope \in l.scopes
    BY DEF Tops, Own
  <2>5. Decide!StoredAt(ps, Decide!Deciding(ps, s, cap), s) = l.database
    BY <1>1, <2>3, <2>4 DEF Decide!StoredAt, BroadLevel, OwnLevel, Decide!F!Broad
  <2>6. ~Decided(ps, s, cap, l.scopes)
    BY <1>1, <2>1 DEF Decided
  <2>7. level(l.database) = {}
    BY <2>6, RowsAt
  <2> QED BY <1>3, <2>2, <2>5, <2>7
<1>4. CASE ~(Decide!Cardinality(says) > 1) /\ says # {}
  <2>1. PICK v \in says : says = {v}
    BY <1>2, <1>4, Disagree
  <2>2. Own(ps, s, cap, l.scopes) # {}
    BY <1>1, <1>4, SaidBy DEF LevelSays, Tops
  <2>3. Decided(ps, s, cap, l.scopes)
    BY <1>1, <2>1, <2>2 DEF Decided
  <2>4. level(l.database) = {RowOf(ps, s, cap, l)}
    BY <2>3, RowsAt
  <2>5. RowOf(ps, s, cap, l).enabled = v
    BY <1>1, <2>1 DEF RowOf, Decide!F!Row, Decide!F!Agreed
  <2>6. {r.enabled : r \in level(l.database)} = says
    BY <2>1, <2>4, <2>5
  <2>7. CASE l = OwnLevel(s)
    <3>1. l.database = Graph[s].database /\ level(l.database) # {}
      BY <2>4, <2>7 DEF OwnLevel
    <3> QED BY <1>4, <2>6, <3>1 DEF Decide!Gate
  <2>8. CASE l = BroadLevel /\ Own(ps, s, cap, narrow) = {}
    <3>1. ~Decided(ps, s, cap, OwnLevel(s).scopes)
      BY <2>8 DEF Decided, OwnLevel
    <3>2. level(OwnLevel(s).database) = {}
      BY <3>1, RowsAt
    <3>3. l.database = Decide!F!NoDatabase /\ level(l.database) # {} /\ OwnLevel(s).database = Graph[s].database
      BY <2>4, <2>8 DEF BroadLevel, OwnLevel
    <3> QED BY <1>4, <2>6, <3>2, <3>3 DEF Decide!Gate
  <2> QED BY <1>1, <2>7, <2>8
<1> QED BY <1>3, <1>4

\* Two lists of the same policies.
Within(ps, qs) == \A i \in DOMAIN ps : \E j \in DOMAIN qs : qs[j] = ps[i]

LEMMA LevelWithin ==
  ASSUME NEW ps, NEW qs, Within(ps, qs), Within(qs, ps), NEW s, NEW cap, NEW scopes
  PROVE  /\ Own(ps, s, cap, scopes) # {} => Own(qs, s, cap, scopes) # {}
         /\ LevelSays(ps, s, cap, scopes) \subseteq LevelSays(qs, s, cap, scopes)
<1> DEFINE Applies(p) == /\ p.scope \in scopes /\ Decide!F!matches(p, Graph[s])
                         /\ \E t \in p.toggles : t.cap = cap
<1>1. \A rs : Own(rs, s, cap, scopes) = {i \in DOMAIN rs : Applies(rs[i])}
  BY DEF Own
<1> HIDE DEF Applies
<1>2. Own(ps, s, cap, scopes) # {} => Own(qs, s, cap, scopes) # {}
  BY <1>1 DEF Within
<1>3. ASSUME NEW v \in LevelSays(ps, s, cap, scopes)
      PROVE  v \in LevelSays(qs, s, cap, scopes)
  <2>1. PICK i \in Tops(ps, Own(ps, s, cap, scopes)) : \E t \in ps[i].toggles : t.cap = cap /\ t.enabled = v
    BY SaidBy DEF LevelSays
  <2>2. i \in DOMAIN ps /\ Applies(ps[i])
    BY <1>1 DEF Tops
  <2>3. PICK j \in DOMAIN qs : qs[j] = ps[i]
    BY <2>2 DEF Within
  <2>4. ASSUME NEW k \in Own(qs, s, cap, scopes)
        PROVE  ~Precedes(qs[k], qs[j])
    <3>1. PICK n \in DOMAIN ps : ps[n] = qs[k]
      BY <1>1 DEF Within
    <3>2. n \in Own(ps, s, cap, scopes)
      BY <1>1, <3>1
    <3> QED BY <2>1, <2>3, <3>1, <3>2 DEF Tops
  <2>5. j \in Tops(qs, Own(qs, s, cap, scopes))
    BY <1>1, <2>2, <2>3, <2>4 DEF Tops
  <2> QED BY <2>1, <2>3, <2>5, SaidBy DEF LevelSays
<1> QED BY <1>2, <1>3

LEMMA LevelAlike ==
  ASSUME NEW ps, NEW qs, Within(ps, qs), Within(qs, ps)
  PROVE  \A s, cap, scopes :
           /\ Own(ps, s, cap, scopes) = {} <=> Own(qs, s, cap, scopes) = {}
           /\ LevelSays(ps, s, cap, scopes) = LevelSays(qs, s, cap, scopes)
<1> TAKE s, cap, scopes
<1>1. /\ Own(ps, s, cap, scopes) # {} => Own(qs, s, cap, scopes) # {}
      /\ LevelSays(ps, s, cap, scopes) \subseteq LevelSays(qs, s, cap, scopes)
  BY LevelWithin
<1>2. /\ Own(qs, s, cap, scopes) # {} => Own(ps, s, cap, scopes) # {}
      /\ LevelSays(qs, s, cap, scopes) \subseteq LevelSays(ps, s, cap, scopes)
  BY LevelWithin
<1> QED BY <1>1, <1>2

\* The rows and the conflicts do not depend on the order of the policies.
LEMMA FlattenAlike ==
  ASSUME NEW ps, NEW qs, Within(ps, qs), Within(qs, ps)
  PROVE  Decide!F!Flatten(ps, Graph) = Decide!F!Flatten(qs, Graph)
<1>1. Decide!F!Capabilities(ps) = Decide!F!Capabilities(qs)
  BY DEF Within, Decide!F!Capabilities
<1>2. \A s, cap, r : RowFrom(ps, s, cap, r) <=> RowFrom(qs, s, cap, r)
  BY LevelAlike DEF RowFrom, RowOf, Decided
<1>3. Decide!F!Rows(ps, Graph) = Decide!F!Rows(qs, Graph)
  <2>1. ASSUME NEW r
        PROVE  r \in Decide!F!Rows(ps, Graph) <=> r \in Decide!F!Rows(qs, Graph)
    <3>1. r \in Decide!F!Rows(ps, Graph) <=>
            \E x \in (DOMAIN Graph) \X Decide!F!Capabilities(ps) : RowFrom(ps, x[1], x[2], r)
      BY RowIs
    <3>2. r \in Decide!F!Rows(qs, Graph) <=>
            \E x \in (DOMAIN Graph) \X Decide!F!Capabilities(qs) : RowFrom(qs, x[1], x[2], r)
      BY RowIs
    <3> QED BY <1>1, <1>2, <3>1, <3>2
  <2> QED BY <2>1
<1>4. Decide!F!Refused(ps, Graph) = Decide!F!Refused(qs, Graph)
  <2>1. \A s, cap, scopes : Decide!F!resolvePrecedence(Decide!F!Candidates(ps, Graph[s], cap, scopes))
                              = Decide!F!resolvePrecedence(Decide!F!Candidates(qs, Graph[s], cap, scopes))
    BY ResolvedIs, LevelAlike DEF LevelSays, Cands
  <2> QED BY <1>1, <2>1, SMTT(30) DEF Decide!F!Refused
<1>5. Decide!F!DeadRows(ps, Graph) = Decide!F!DeadRows(qs, Graph)
  <2> DEFINE Dead(p) == p.scope = "database" /\ ~\E s \in DOMAIN Graph : Decide!F!matches(p, Graph[s])
  <2>1. \A rs : Decide!F!DeadRows(rs, Graph) =
          {<<Decide!F!NoDatabase, t.cap>> : t \in UNION {rs[i].toggles : i \in {j \in DOMAIN rs : Dead(rs[j])}}}
    BY DEF Decide!F!DeadRows
  <2> HIDE DEF Dead
  <2>2. {ps[i].toggles : i \in {j \in DOMAIN ps : Dead(ps[j])}} = {qs[i].toggles : i \in {j \in DOMAIN qs : Dead(qs[j])}}
    BY DEF Within
  <2> QED BY <2>1, <2>2
<1> QED BY <1>3, <1>4, <1>5 DEF Decide!F!Flatten

LEMMA ReverseAlike ==
  ASSUME NEW ps \in Lists
  PROVE  Within(ps, Decide!Reverse(ps)) /\ Within(Decide!Reverse(ps), ps)
<1>1. Len(ps) \in Nat /\ DOMAIN ps = 1..Len(ps) /\ DOMAIN Decide!Reverse(ps) = 1..Len(ps)
  BY DEF Lists, Decide!Reverse
<1>2. \A i \in 1..Len(ps) : /\ Len(ps) - i + 1 \in 1..Len(ps)
                            /\ Decide!Reverse(ps)[i] = ps[Len(ps) - i + 1]
                            /\ Decide!Reverse(ps)[Len(ps) - i + 1] = ps[i]
  BY <1>1 DEF Decide!Reverse
<1> QED BY <1>1, <1>2 DEF Within

\* A server's gate for a capability says what its deciding policies say, however
\* the policies are ordered; disagreement is surfaced and makes no row; no row
\* is about another database (policyresolve.Flatten, resolvePrecedence).
THEOREM Flattened == Decide!Spec => []FourTiers
<1>1. CaseOK => FourTiers
  <2> SUFFICES ASSUME CaseOK, subject.is = "policies" PROVE FourTiers
    BY DEF FourTiers, Decide!FourTiers
  <2>1. PICK ps \in Lists : ps = subject.of
    BY DEF CaseOK, Lists
  <2> DEFINE out == Decide!F!Flatten(ps, Graph)
  <2>2. /\ out.rows = Decide!F!Rows(ps, Graph)
        /\ Decide!F!Refused(ps, Graph) \subseteq out.conflicts
    BY DEF Decide!F!Flatten
  <2>3. \A s \in DOMAIN Graph, cap \in Decide!F!Capabilities(ps) :
          LET says == Say(ps, Decide!Deciding(ps, s, cap), cap)
          IN IF Decide!Cardinality(says) > 1
             THEN /\ <<s, cap>> \in out.conflicts
                  /\ \A r \in out.rows : r.server = s /\ r.cap = cap =>
                       r.database # Decide!StoredAt(ps, Decide!Deciding(ps, s, cap), s)
             ELSE says # {} => Decide!Gate(out.rows, s, cap) = says
    BY <2>2, GateAsDecided
  <2>4. out = Decide!F!Flatten(Decide!Reverse(ps), Graph)
    BY ReverseAlike, FlattenAlike
  <2>5. \A r \in out.rows : r.database \in {Decide!F!NoDatabase, Graph[r.server].database}
    <3> TAKE r \in out.rows
    <3>1. PICK x \in (DOMAIN Graph) \X Decide!F!Capabilities(ps) : RowFrom(ps, x[1], x[2], r)
      BY <2>2, RowIs
    <3> QED BY <3>1 DEF RowFrom, RowOf, Decide!F!Row, BroadLevel, OwnLevel
  <2>6. ASSUME NEW a \in out.rows, NEW b \in out.rows,
               a.server = b.server, a.database = b.database, a.cap = b.cap
        PROVE  a = b
    <3>1. PICK x \in (DOMAIN Graph) \X Decide!F!Capabilities(ps) : RowFrom(ps, x[1], x[2], a)
      BY <2>2, RowIs
    <3>2. PICK l \in {BroadLevel, OwnLevel(x[1])} : Decided(ps, x[1], x[2], l.scopes) /\ a = RowOf(ps, x[1], x[2], l)
      BY <3>1 DEF RowFrom
    <3>3. a.server = x[1] /\ a.cap = x[2] /\ a.database = l.database
      BY <3>2 DEF RowOf, Decide!F!Row
    <3>4. {r \in Decide!F!Rows(ps, Graph) : r.server = x[1] /\ r.cap = x[2] /\ r.database = l.database}
            = {RowOf(ps, x[1], x[2], l)}
      BY <3>2, RowsAt
    <3>5. \A r \in out.rows : r.server = x[1] /\ r.cap = x[2] /\ r.database = l.database =>
            r = RowOf(ps, x[1], x[2], l)
      BY <2>2, <3>4
    <3> QED BY <2>6, <3>3, <3>5
  <2> HIDE DEF out
  <2>7. Decide!FourTiers
    BY <2>1, <2>3, <2>4, <2>5, <2>6 DEF Decide!FourTiers, Say, out
  <2> QED BY <2>7 DEF FourTiers
<1>2. Decide!Spec => []CaseOK
  BY InitCase, StepCase, PTL DEF Decide!Spec
<1> QED BY <1>1, <1>2, PTL

-----------------------------------------------------------------------------
(* Recursion, and what is made of lists.  The induction theorems of the     *)
(* library take an operator; here it is the set where a claim holds that    *)
(* grows up to n.                                                           *)

LEMMA UpTo ==
  ASSUME NEW n \in Nat, NEW Good, 0 \in Good,
         \A m \in 0..(n - 1) : m \in Good => m + 1 \in Good
  PROVE  \A m \in 0..n : m \in Good
<1> DEFINE Bad == {m \in 0..n : m \notin Good}
           R == OpToRel(<, Nat)
<1>1. SUFFICES ASSUME Bad # {} PROVE FALSE
  OBVIOUS
<1>2. Bad \subseteq Nat
  OBVIOUS
<1>3. PICK m \in Bad : \A k \in Bad : ~(<<k, m>> \in R)
  BY <1>1, <1>2, NatLessThanWellFounded, WFMin
<1>4. \A k \in Bad : ~(k < m)
  BY <1>2, <1>3 DEF OpToRel
<1>5. m \in 0..n /\ m \notin Good /\ m # 0
  OBVIOUS
<1>6. m - 1 \in 0..(n - 1) /\ m - 1 < m /\ (m - 1) + 1 = m
  BY <1>5
<1>7. m - 1 \in Good
  BY <1>4, <1>6
<1> QED BY <1>5, <1>6, <1>7

\* f is what n steps make of base.
Steps(f, n, base, step) == \A k \in 0..n : f[k] = IF k = 0 THEN base ELSE step[k][f[k - 1]]

LEMMA Recursion ==
  ASSUME NEW n \in Nat, NEW S, NEW base \in S, NEW step,
         \A k \in 1..n : \A x \in S : step[k][x] \in S
  PROVE  \E f \in [0..n -> S] : Steps(f, n, base, step)
<1> DEFINE Good == {m \in 0..n : \E g \in [0..m -> S] :
                      \A k \in 0..m : g[k] = IF k = 0 THEN base ELSE step[k][g[k - 1]]}
<1>1. 0 \in Good
  <2> DEFINE g == [k \in 0..0 |-> base]
  <2>1. g \in [0..0 -> S]
    OBVIOUS
  <2>2. \A k \in 0..0 : k = 0 /\ g[k] = base
    OBVIOUS
  <2>3. 0 \in 0..n
    OBVIOUS
  <2> HIDE DEF g
  <2> QED BY <2>1, <2>2, <2>3
<1>2. ASSUME NEW m \in 0..(n - 1), m \in Good PROVE m + 1 \in Good
  <2>1. PICK g \in [0..m -> S] : \A k \in 0..m : g[k] = IF k = 0 THEN base ELSE step[k][g[k - 1]]
    BY <1>2
  <2> DEFINE h == [k \in 0..(m + 1) |-> IF k <= m THEN g[k] ELSE step[m + 1][g[m]]]
  <2>2. m + 1 \in 1..n /\ m \in 0..m
    OBVIOUS
  <2>3. h \in [0..(m + 1) -> S]
    BY <2>2
  <2>4. ASSUME NEW k \in 0..(m + 1)
        PROVE  h[k] = IF k = 0 THEN base ELSE step[k][h[k - 1]]
    <3>1. CASE k <= m
      <4>1. k \in 0..m /\ (k # 0 => k - 1 \in 0..m)
        BY <3>1
      <4>2. h[k] = g[k] /\ (k # 0 => h[k - 1] = g[k - 1])
        BY <3>1, <4>1
      <4> HIDE DEF h
      <4> QED BY <2>1, <4>1, <4>2
    <3>2. CASE k = m + 1
      <4>1. h[k] = step[m + 1][g[m]] /\ h[m] = g[m] /\ k - 1 = m /\ k # 0
        BY <3>2
      <4> HIDE DEF h
      <4> QED BY <3>2, <4>1
    <3> QED BY <3>1, <3>2
  <2> HIDE DEF h
  <2> QED BY <2>2, <2>3, <2>4
<1> HIDE DEF Good
<1>3. \A m \in 0..n : m \in Good
  BY <1>1, <1>2, UpTo
<1>4. n \in Good
  BY <1>3
<1> QED BY <1>4 DEF Good, Steps

LEMMA FlattenRuns ==
  ASSUME NEW X, NEW seqs \in Seq(Seq(X)), Len(seqs) > 0
  PROVE  \E f : /\ \A i \in 1..Len(seqs) : f[i] = IF i = 1 THEN seqs[i] ELSE f[i - 1] \o seqs[i]
                /\ Decide!P!FlattenSeq(seqs) = f[Len(seqs)]
<1> DEFINE n == Len(seqs)
           S == Seq(X)
           step == [k \in 1..n |-> [x \in S |-> IF k = 1 THEN seqs[k] ELSE x \o seqs[k]]]
<1>1. \A k \in 1..n : \A x \in S : step[k][x] \in S
  OBVIOUS
<1>2. n \in Nat /\ << >> \in S
  OBVIOUS
<1> HIDE DEF n, step, S
<1>4. PICK f \in [0..n -> S] : Steps(f, n, << >>, step)
  BY <1>1, <1>2, Recursion
<1> DEFINE g == [k \in 1..n |-> f[k]]
<1>5. \A k \in 1..n : g[k] = IF k = 1 THEN seqs[k] ELSE g[k - 1] \o seqs[k]
  <2>1. ASSUME NEW k \in 1..n PROVE f[k] = IF k = 1 THEN seqs[k] ELSE f[k - 1] \o seqs[k]
    <3>1. k \in 0..n /\ k # 0 /\ k - 1 \in 0..n
      BY <1>2
    <3>2. f[k] = step[k][f[k - 1]] /\ f[k - 1] \in S
      BY <1>4, <3>1 DEF Steps
    <3> QED BY <3>2 DEF step
  <2>2. \A k \in 1..n : k # 1 => k - 1 \in 1..n
    BY <1>2
  <2> QED BY <2>1, <2>2
<1> DEFINE F == CHOOSE flatten : flatten = [i \in 1..Len(seqs) |-> IF i = 1 THEN seqs[i] ELSE flatten[i - 1] \o seqs[i]]
<1>6. g = [i \in 1..Len(seqs) |-> IF i = 1 THEN seqs[i] ELSE g[i - 1] \o seqs[i]]
  BY <1>5 DEF n
<1>7. F = [i \in 1..Len(seqs) |-> IF i = 1 THEN seqs[i] ELSE F[i - 1] \o seqs[i]]
  <2> HIDE DEF g
  <2> QED BY <1>6
<1>8. Decide!P!FlattenSeq(seqs) = F[Len(seqs)]
  BY DEF Decide!P!FlattenSeq
<1> HIDE DEF F
<1> QED BY <1>7, <1>8

\* A concatenation has what its parts have.
LEMMA ConcatSet ==
  ASSUME NEW X, NEW s \in Seq(X), NEW t \in Seq(X)
  PROVE  s \o t \in Seq(X) /\ Decide!P!ToSet(s \o t) = Decide!P!ToSet(s) \cup Decide!P!ToSet(t)
<1>1. /\ s \o t \in Seq(X) /\ Len(s \o t) = Len(s) + Len(t) /\ Len(s) \in Nat /\ Len(t) \in Nat
      /\ \A i \in 1..(Len(s) + Len(t)) :
           (s \o t)[i] = IF i <= Len(s) THEN s[i] ELSE t[i - Len(s)]
  OBVIOUS
<1>2. DOMAIN s = 1..Len(s) /\ DOMAIN t = 1..Len(t) /\ DOMAIN (s \o t) = 1..(Len(s) + Len(t))
  BY <1>1
<1>3. ASSUME NEW x \in Decide!P!ToSet(s \o t) PROVE x \in Decide!P!ToSet(s) \cup Decide!P!ToSet(t)
  <2>1. PICK i \in 1..(Len(s) + Len(t)) : x = (s \o t)[i]
    BY <1>2 DEF Decide!P!ToSet
  <2>2. CASE i <= Len(s)
    BY <1>1, <1>2, <2>1, <2>2 DEF Decide!P!ToSet
  <2>3. CASE i > Len(s)
    <3>1. i - Len(s) \in 1..Len(t)
      BY <1>1, <2>1, <2>3
    <3> QED BY <1>1, <1>2, <2>1, <2>3, <3>1 DEF Decide!P!ToSet
  <2> QED BY <1>1, <2>1, <2>2, <2>3
<1>4. ASSUME NEW i \in 1..Len(s) PROVE s[i] \in Decide!P!ToSet(s \o t)
  <2>1. i \in 1..(Len(s) + Len(t)) /\ (s \o t)[i] = s[i]
    BY <1>1
  <2> QED BY <1>2, <2>1 DEF Decide!P!ToSet
<1>5. ASSUME NEW i \in 1..Len(t) PROVE t[i] \in Decide!P!ToSet(s \o t)
  <2>1. PICK j : j = i + Len(s)
    OBVIOUS
  <2>2. j \in 1..(Len(s) + Len(t)) /\ j - Len(s) = i /\ ~(j <= Len(s))
    BY <1>1, <2>1
  <2>3. (s \o t)[j] = t[i]
    BY <1>1, <2>2
  <2> QED BY <1>2, <2>2, <2>3 DEF Decide!P!ToSet
<1>6. \A x \in Decide!P!ToSet(s) \cup Decide!P!ToSet(t) : x \in Decide!P!ToSet(s \o t)
  BY <1>2, <1>4, <1>5 DEF Decide!P!ToSet
<1> QED BY <1>1, <1>3, <1>6

LEMMA FlattenSet ==
  ASSUME NEW X, NEW seqs \in Seq(Seq(X))
  PROVE  /\ Decide!P!FlattenSeq(seqs) \in Seq(X)
         /\ Decide!P!ToSet(Decide!P!FlattenSeq(seqs))
              = UNION {Decide!P!ToSet(seqs[i]) : i \in DOMAIN seqs}
<1>1. CASE Len(seqs) = 0
  <2>1. Decide!P!FlattenSeq(seqs) = seqs
    BY <1>1 DEF Decide!P!FlattenSeq
  <2>2. seqs = << >>
    BY <1>1
  <2> QED BY <2>1, <2>2 DEF Decide!P!ToSet
<1>2. CASE Len(seqs) > 0
  <2>1. PICK f : /\ \A i \in 1..Len(seqs) : f[i] = IF i = 1 THEN seqs[i] ELSE f[i - 1] \o seqs[i]
                 /\ Decide!P!FlattenSeq(seqs) = f[Len(seqs)]
    BY <1>2, FlattenRuns
  <2> DEFINE n == Len(seqs)
             Upto(m) == UNION {Decide!P!ToSet(seqs[i]) : i \in 1..m}
             Good == {m \in 0..n : m > 0 => f[m] \in Seq(X) /\ Decide!P!ToSet(f[m]) = Upto(m)}
  <2>2. n \in Nat /\ \A i \in 1..n : seqs[i] \in Seq(X)
    OBVIOUS
  <2>3. DOMAIN seqs = 1..n
    OBVIOUS
  <2> HIDE DEF n
  <2>4. 0 \in Good
    BY <2>2
  <2>5. ASSUME NEW m \in 0..(n - 1), m \in Good PROVE m + 1 \in Good
    <3>1. m + 1 \in 1..n /\ m + 1 \in 0..n /\ (m + 1) - 1 = m /\ seqs[m + 1] \in Seq(X)
      BY <2>2
    <3>2. Upto(m + 1) = Upto(m) \cup Decide!P!ToSet(seqs[m + 1])
      <4>1. 1..(m + 1) = 1..m \cup {m + 1}
        BY <2>2
      <4> QED BY <4>1
    <3>3. CASE m = 0
      <4>1. f[m + 1] = seqs[m + 1] /\ Upto(m) = {}
        BY <2>1, <3>1, <3>3 DEF n
      <4> HIDE DEF Upto
      <4> QED BY <3>1, <3>2, <4>1
    <3>4. CASE m > 0
      <4>0. f[m] \in Seq(X) /\ Decide!P!ToSet(f[m]) = Upto(m)
        BY <2>5, <3>4
      <4>1. f[m + 1] = f[m] \o seqs[m + 1]
        <5>1. f[m + 1] = IF m + 1 = 1 THEN seqs[m + 1] ELSE f[(m + 1) - 1] \o seqs[m + 1]
          BY <2>1, <3>1 DEF n
        <5>2. m + 1 # 1
          BY <3>4
        <5> QED BY <3>1, <5>1, <5>2
      <4>2. /\ f[m] \o seqs[m + 1] \in Seq(X)
            /\ Decide!P!ToSet(f[m] \o seqs[m + 1]) = Decide!P!ToSet(f[m]) \cup Decide!P!ToSet(seqs[m + 1])
        BY <3>1, <4>0, ConcatSet
      <4> HIDE DEF Upto
      <4> QED BY <3>1, <3>2, <4>0, <4>1, <4>2
    <3> QED BY <2>2, <3>3, <3>4
  <2> HIDE DEF Good
  <2>6. \A m \in 0..n : m \in Good
    BY <2>2, <2>4, <2>5, UpTo
  <2>7. n \in 0..n /\ n > 0
    BY <1>2, <2>2 DEF n
  <2>8. f[n] \in Seq(X) /\ Decide!P!ToSet(f[n]) = Upto(n)
    BY <2>6, <2>7 DEF Good
  <2> QED BY <2>1, <2>3, <2>8 DEF n
<1> QED BY <1>1, <1>2

LEMMA OnlySet ==
  ASSUME NEW X, NEW s \in Seq(X), NEW P
  PROVE  /\ Decide!P!Only(s, P) \in Seq(X)
         /\ Decide!P!ToSet(Decide!P!Only(s, P)) = {s[i] : i \in DOMAIN s \cap P}
<1> DEFINE seqs == [i \in DOMAIN s |-> IF i \in P THEN <<s[i]>> ELSE << >>]
<1>1. DOMAIN s = 1..Len(s) /\ Len(s) \in Nat /\ \A i \in DOMAIN s : s[i] \in X
  OBVIOUS
<1>2. \A i \in DOMAIN s : seqs[i] \in Seq(X)
  <2>1. ASSUME NEW i \in DOMAIN s PROVE <<s[i]>> \in Seq(X) /\ << >> \in Seq(X)
    BY <1>1
  <2> QED BY <2>1
<1>3. seqs \in Seq(Seq(X)) /\ DOMAIN seqs = DOMAIN s
  <2>1. seqs \in [1..Len(s) -> Seq(X)]
    BY <1>1, <1>2
  <2> QED BY <1>1, <2>1
<1>4. Decide!P!Only(s, P) = Decide!P!FlattenSeq(seqs)
  BY DEF Decide!P!Only
<1>5. \A i \in DOMAIN s : Decide!P!ToSet(seqs[i]) = IF i \in P THEN {s[i]} ELSE {}
  <2>1. ASSUME NEW x PROVE Decide!P!ToSet(<<x>>) = {x} /\ Decide!P!ToSet(<< >>) = {}
    BY DEF Decide!P!ToSet
  <2> QED BY <2>1
<1> HIDE DEF seqs
<1>6. /\ Decide!P!FlattenSeq(seqs) \in Seq(X)
      /\ Decide!P!ToSet(Decide!P!FlattenSeq(seqs)) = UNION {Decide!P!ToSet(seqs[i]) : i \in DOMAIN seqs}
  BY <1>3, FlattenSet
<1>7. UNION {Decide!P!ToSet(seqs[i]) : i \in DOMAIN s} = {s[i] : i \in DOMAIN s \cap P}
  BY <1>5
<1> QED BY <1>3, <1>4, <1>6, <1>7

-----------------------------------------------------------------------------
(* The plans of a log.                                                     *)

Statements == {"", "q1", "q2"}

Converted == {Decide!P!convert(n) : n \in Nodes}

PlanSet == [fp : Statements, nodes : Seq(Converted)]

ShippedOf(events) == Decide!P!ExtractPlans(Decide!P!ParseStream(events))

PlanOf(rec) ==
  [fp |-> IF rec.statement # "" THEN rec.statement ELSE rec.body.queryText,
   nodes |-> [k \in DOMAIN rec.body.nodes |-> Decide!P!convert(rec.body.nodes[k])]]

LEMMA RecordIs ==
  ASSUME NEW rec \in Decide!LogRecords
  PROVE  /\ rec.parses \in BOOLEAN /\ rec.statement \in Statements /\ rec.body.queryText = "q2"
         /\ rec.body.shape \in {"object", "text"} /\ rec.body.nodes \in Seq(Nodes)
         /\ rec.body.nodes = << >> => ~(rec.parses /\ "auto_explain.plan" \in rec.looks)
<1>1. \A tree \in Decide!Trees : tree \in Seq(Nodes) /\ tree # << >>
  <2>1. ASSUME NEW n \in Nodes PROVE <<n>> \in Seq(Nodes) /\ <<n>> # << >>
    OBVIOUS
  <2>2. ASSUME NEW n \in Nodes, NEW m \in Nodes PROVE <<n, m>> \in Seq(Nodes) /\ <<n, m>> # << >>
    OBVIOUS
  <2>3. ASSUME NEW tree \in Decide!Trees
        PROVE  \/ \E n \in Nodes : tree = <<n>>
               \/ \E n \in Nodes, m \in Nodes : tree = <<n, m>>
    BY DEF Decide!Trees
  <2> QED BY <2>1, <2>2, <2>3
<1>2. ASSUME NEW looks, NEW parses \in BOOLEAN, NEW statement \in Statements,
             NEW shape \in {"object", "text"}, NEW nodes \in Seq(Nodes),
             rec = Decide!Record(looks, parses, statement, shape, nodes)
      PROVE  /\ rec.parses = parses /\ rec.statement \in Statements /\ rec.body.queryText = "q2"
             /\ rec.body.shape \in {"object", "text"} /\ rec.body.nodes = nodes /\ rec.looks = looks
  BY <1>2 DEF Decide!Record
<1>3. ASSUME NEW q \in Statements, NEW shape \in {"object", "text"}, NEW tree \in Decide!Trees,
             rec = Decide!PlanRecord(q, shape, tree)
      PROVE  /\ rec.parses \in BOOLEAN /\ rec.statement \in Statements /\ rec.body.queryText = "q2"
             /\ rec.body.shape \in {"object", "text"} /\ rec.body.nodes \in Seq(Nodes)
             /\ rec.body.nodes # << >>
  <2>1. rec = Decide!Record({"auto_explain.plan"}, TRUE, q, shape, tree)
    BY <1>3 DEF Decide!PlanRecord
  <2>2. tree \in Seq(Nodes) /\ tree # << >> /\ TRUE \in BOOLEAN
    BY <1>1
  <2> QED BY <1>2, <2>1, <2>2, ZenonT(30)
<1>4. << >> \in Seq(Nodes) /\ "q1" \in Statements /\ "text" \in {"object", "text"}
  BY DEF Statements
<1>5. CASE \/ rec = Decide!Record({"auto_explain.plan"}, FALSE, "q1", "text", << >>)
           \/ rec = Decide!Record({"query.duration"}, TRUE, "q1", "text", << >>)
           \/ rec = Decide!Record({"error.syntax"}, TRUE, "q1", "text", << >>)
  <2>1. rec.statement \in Statements /\ rec.body.queryText = "q2" /\ rec.body.shape \in {"object", "text"}
        /\ rec.body.nodes \in Seq(Nodes) /\ rec.parses \in BOOLEAN
    BY <1>2, <1>4, <1>5
  <2>2. ~(rec.parses /\ "auto_explain.plan" \in rec.looks)
    BY <1>5 DEF Decide!Record
  <2> QED BY <2>1, <2>2
<1>6. CASE \E q \in Statements, shape \in {"object", "text"}, tree \in Decide!Trees :
             rec = Decide!PlanRecord(q, shape, tree)
  BY <1>3, <1>6
<1>7. \/ \E q \in Statements, shape \in {"object", "text"}, tree \in Decide!Trees :
           rec = Decide!PlanRecord(q, shape, tree)
      \/ rec = Decide!Record({"auto_explain.plan"}, FALSE, "q1", "text", << >>)
      \/ rec = Decide!Record({"query.duration"}, TRUE, "q1", "text", << >>)
      \/ rec = Decide!Record({"error.syntax"}, TRUE, "q1", "text", << >>)
  <2> DEFINE L == [statement : {"", "q1", "q2"}, shape : {"object", "text"}, tree : Decide!Trees]
             A == {Decide!PlanRecord(of.statement, of.shape, of.tree) : of \in L}
             B == {Decide!Record({"auto_explain.plan"}, FALSE, "q1", "text", << >>),
                   Decide!Record({"query.duration"}, TRUE, "q1", "text", << >>),
                   Decide!Record({"error.syntax"}, TRUE, "q1", "text", << >>)}
  <2>1. Decide!LogRecords = A \cup B
    BY DEF Decide!LogRecords
  <2>2. CASE rec \in B
    BY <2>2
  <2>3. CASE rec \in A
    <3>1. PICK of \in L : rec = Decide!PlanRecord(of.statement, of.shape, of.tree)
      BY <2>3
    <3>2. of.statement \in Statements /\ of.shape \in {"object", "text"} /\ of.tree \in Decide!Trees
      BY <3>1 DEF Statements
    <3> QED BY <3>1, <3>2
  <2> HIDE DEF A, B
  <2> QED BY <2>1, <2>2, <2>3
<1> QED BY <1>5, <1>6, <1>7

LEMMA ClassifyPlan ==
  ASSUME NEW rec, "auto_explain.plan" \in rec.looks
  PROVE  Decide!P!Classify(rec) = "auto_explain.plan"
<1> DEFINE rules == Decide!P!DefaultRules
           matching == {i \in DOMAIN rules : /\ rules[i].type \in rec.looks
                                             /\ rules[i].errorsOnly => Decide!P!isError(rec)}
<1>1. DOMAIN rules = 1..16 /\ rules[1] = Decide!P!Always("auto_explain.plan")
  BY DEF Decide!P!DefaultRules
<1>2. rules[1].type = "auto_explain.plan" /\ rules[1].errorsOnly = FALSE
  BY <1>1 DEF Decide!P!Always
<1> HIDE DEF rules
<1>3. 1 \in matching /\ matching \subseteq 1..16
  BY <1>1, <1>2
<1>4. Decide!P!Classify(rec) = IF matching = {} THEN "log.unclassified" ELSE rules[Decide!P!Min(matching)].type
  BY DEF Decide!P!Classify, rules
<1> HIDE DEF matching
<1>5. Decide!P!Min(matching) = 1
  <2>1. \A y \in matching : 1 <= y
    BY <1>3
  <2>2. \A x \in matching : (\A y \in matching : x <= y) => x = 1
    BY <1>3, <2>1
  <2>3. Decide!P!Min(matching) = CHOOSE x \in matching : \A y \in matching : x <= y
    BY DEF Decide!P!Min
  <2> QED BY <1>3, <2>1, <2>2, <2>3
<1> QED BY <1>2, <1>3, <1>4, <1>5

LEMMA Least ==
  ASSUME NEW S, S \subseteq Nat, S # {}
  PROVE  \E m \in S : \A k \in S : m <= k
<1>1. PICK m \in S : \A k \in S : ~(<<k, m>> \in OpToRel(<, Nat))
  BY NatLessThanWellFounded, WFMin
<1>2. \A k \in S : ~(k < m)
  BY <1>1 DEF OpToRel
<1> QED BY <1>2

LEMMA ShippedPlans ==
  ASSUME NEW events \in Seq(Decide!LogRecords)
  PROVE  /\ ShippedOf(events) \in Seq(PlanSet)
         /\ \A rec \in Decide!P!ToSet(events) :
              rec.parses /\ "auto_explain.plan" \in rec.looks /\ rec.body.shape = "object" =>
                PlanOf(rec) \in Decide!P!ToSet(ShippedOf(events))
<1> DEFINE parsed == Decide!P!Parsed(events)
           chunk == Decide!P!ParseStream(events)
           seqs == [i \in DOMAIN chunk.events |->
                      IF chunk.events[i] = "auto_explain.plan" /\ chunk.payloads[i].body.shape # "blank"
                      THEN Decide!P!Extract(chunk.payloads[i].body, Decide!P!planFingerprint(chunk.payloads[i]))
                      ELSE << >>]
<1>1. /\ parsed \in Seq(Decide!LogRecords)
      /\ Decide!P!ToSet(parsed) = {events[i] : i \in DOMAIN events \cap {j \in DOMAIN events : events[j].parses}}
  BY OnlySet DEF Decide!P!Parsed
<1> HIDE DEF parsed
<1>2. /\ chunk.events = [i \in DOMAIN parsed |-> Decide!P!Classify(parsed[i])]
      /\ chunk.payloads = [i \in DOMAIN parsed |-> [statement |-> parsed[i].statement, body |-> parsed[i].body]]
  BY DEF Decide!P!ParseStream, parsed
<1> HIDE DEF chunk
<1>3. DOMAIN chunk.events = DOMAIN parsed /\ DOMAIN parsed = 1..Len(parsed) /\ Len(parsed) \in Nat
  BY <1>1, <1>2
<1>4. ASSUME NEW i \in DOMAIN parsed
      PROVE  LET rec == parsed[i] IN
             /\ rec \in Decide!LogRecords
             /\ seqs[i] \in {<< >>, <<PlanOf(rec)>>}
             /\ "auto_explain.plan" \in rec.looks /\ rec.parses /\ rec.body.shape = "object" => seqs[i] = <<PlanOf(rec)>>
  <2> DEFINE rec == parsed[i]
             payload == [statement |-> rec.statement, body |-> rec.body]
  <2>1. rec \in Decide!LogRecords
    BY <1>1
  <2>2. rec.body.shape \in {"object", "text"} /\ (rec.parses /\ "auto_explain.plan" \in rec.looks => rec.body.nodes # << >>)
    BY <2>1, RecordIs
  <2>3. seqs[i] = IF Decide!P!Classify(rec) = "auto_explain.plan" /\ rec.body.shape # "blank"
                  THEN Decide!P!Extract(rec.body, Decide!P!planFingerprint(payload)) ELSE << >>
    BY <1>2, <1>3
  <2>4. Decide!P!planFingerprint(payload) = IF rec.statement # "" THEN rec.statement ELSE rec.body.queryText
    BY DEF Decide!P!planFingerprint
  <2>5. Decide!P!Extract(rec.body, Decide!P!planFingerprint(payload))
          = IF rec.body.shape \in {"object", "array"} /\ rec.body.nodes # << >> THEN <<PlanOf(rec)>> ELSE << >>
    BY <2>4 DEF Decide!P!Extract, PlanOf
  <2> HIDE DEF rec, payload, seqs
  <2>6. "auto_explain.plan" \in rec.looks => Decide!P!Classify(rec) = "auto_explain.plan"
    BY ClassifyPlan
  <2>7. seqs[i] \in {<< >>, <<PlanOf(rec)>>}
    BY <2>3, <2>5
  <2>8. "auto_explain.plan" \in rec.looks /\ rec.parses /\ rec.body.shape = "object" => seqs[i] = <<PlanOf(rec)>>
    BY <2>2, <2>3, <2>5, <2>6
  <2> QED BY <2>1, <2>7, <2>8 DEF rec
<1>5. ASSUME NEW rec \in Decide!LogRecords PROVE PlanOf(rec) \in PlanSet
  <2>1. rec.statement \in Statements /\ rec.body.queryText = "q2" /\ rec.body.nodes \in Seq(Nodes)
    BY RecordIs
  <2>2. (IF rec.statement # "" THEN rec.statement ELSE rec.body.queryText) \in Statements
    BY <2>1 DEF Statements
  <2> DEFINE nodes == rec.body.nodes
             converted == [k \in DOMAIN nodes |-> Decide!P!convert(nodes[k])]
  <2>3. DOMAIN nodes = 1..Len(nodes) /\ Len(nodes) \in Nat /\ \A k \in DOMAIN nodes : nodes[k] \in Nodes
    BY <2>1
  <2> HIDE DEF nodes
  <2>4. converted \in [1..Len(nodes) -> Converted]
    BY <2>3 DEF Converted
  <2>5. converted \in Seq(Converted)
    BY <2>3, <2>4
  <2> QED BY <2>2, <2>5 DEF PlanOf, PlanSet, nodes
<1> HIDE DEF seqs
<1>6. \A i \in DOMAIN parsed : seqs[i] \in Seq(PlanSet)
  <2>1. ASSUME NEW p \in PlanSet PROVE <<p>> \in Seq(PlanSet) /\ << >> \in Seq(PlanSet)
    OBVIOUS
  <2>2. << >> \in Seq(PlanSet)
    OBVIOUS
  <2> QED BY <1>4, <1>5, <2>1, <2>2
<1>7. seqs \in Seq(Seq(PlanSet)) /\ DOMAIN seqs = DOMAIN parsed
  <2>1. seqs \in [1..Len(parsed) -> Seq(PlanSet)]
    BY <1>3, <1>6 DEF seqs
  <2> QED BY <1>3, <2>1
<1>8. ShippedOf(events) = Decide!P!FlattenSeq(seqs)
  BY DEF ShippedOf, Decide!P!ExtractPlans, seqs, chunk
<1>9. /\ ShippedOf(events) \in Seq(PlanSet)
      /\ Decide!P!ToSet(ShippedOf(events)) = UNION {Decide!P!ToSet(seqs[i]) : i \in DOMAIN parsed}
  BY <1>7, <1>8, FlattenSet
<1>10. ASSUME NEW rec \in Decide!P!ToSet(events), rec.parses, "auto_explain.plan" \in rec.looks,
              rec.body.shape = "object"
       PROVE  PlanOf(rec) \in Decide!P!ToSet(ShippedOf(events))
  <2>1. rec \in Decide!P!ToSet(parsed)
    BY <1>1, <1>10 DEF Decide!P!ToSet
  <2>2. PICK i \in DOMAIN parsed : rec = parsed[i]
    BY <2>1 DEF Decide!P!ToSet
  <2>3. seqs[i] = <<PlanOf(rec)>>
    BY <1>4, <1>10, <2>2
  <2>4. PlanOf(rec) \in Decide!P!ToSet(seqs[i])
    BY <2>3 DEF Decide!P!ToSet
  <2> QED BY <1>9, <2>4
<1> QED BY <1>9, <1>10

\* The words that colCmp reads off a condition.
WordsOf(cond) == {Decide!P!Word(t) : t \in {u \in Decide!P!ToSet(cond) : Decide!P!Matches(u)}}

LEMMA ColumnsOnce ==
  ASSUME NEW cond \in Seq(Terms)
  PROVE  /\ Decide!P!ToSet(Decide!P!filterColumns(cond)) = WordsOf(cond)
         /\ WordsOf(cond) # {} => Decide!P!filterColumns(cond) # << >>
<1> DEFINE cols == [i \in DOMAIN cond |-> Decide!P!Word(cond[i])]
           read == {i \in DOMAIN cond : Decide!P!Matches(cond[i])}
           first == {i \in read : \A j \in read : j < i => cols[j] # cols[i]}
           ranges == {i \in first : cond[i].op \in Decide!P!RangeOps}
<1>1. DOMAIN cond = 1..Len(cond) /\ Len(cond) \in Nat /\ DOMAIN cols = DOMAIN cond
  OBVIOUS
<1>2. cols \in Seq(STRING)
  <2>1. \A i \in DOMAIN cond : cond[i] \in Terms
    OBVIOUS
  <2>2. \A t \in Terms : Decide!P!Word(t) \in STRING
    BY DEF Terms, Decide!P!Word
  <2>3. cols \in [1..Len(cond) -> STRING]
    BY <1>1, <2>1, <2>2
  <2> QED BY <1>1, <2>3
<1>3. Decide!P!filterColumns(cond) = Decide!P!Only(cols, first \ ranges) \o Decide!P!Only(cols, ranges)
  BY DEF Decide!P!filterColumns
<1>4. ASSUME NEW i \in read PROVE \E j \in first : cols[j] = cols[i]
  <2> DEFINE S == {j \in read : cols[j] = cols[i]}
  <2>1. S \subseteq Nat /\ S # {}
    BY <1>1
  <2>2. PICK m \in S : \A k \in S : m <= k
    BY <2>1, Least
  <2>3. ASSUME NEW j \in read, j < m, cols[j] = cols[m] PROVE FALSE
    <3>1. j \in S /\ ~(m <= j)
      BY <1>1, <2>3
    <3> QED BY <2>2, <3>1
  <2>4. m \in first /\ cols[m] = cols[i]
    BY <2>3
  <2> QED BY <2>4
<1>5. first \subseteq read /\ ranges \subseteq first /\ read \subseteq DOMAIN cond
  OBVIOUS
<1>6. {cols[i] : i \in read} = WordsOf(cond)
  <2>1. \A i \in DOMAIN cond : cols[i] = Decide!P!Word(cond[i])
    OBVIOUS
  <2> HIDE DEF cols
  <2> QED BY <2>1 DEF WordsOf, Decide!P!ToSet
<1> HIDE DEF first, ranges, read
<1>7. /\ Decide!P!Only(cols, first \ ranges) \in Seq(STRING) /\ Decide!P!Only(cols, ranges) \in Seq(STRING)
      /\ Decide!P!ToSet(Decide!P!Only(cols, first \ ranges)) = {cols[i] : i \in DOMAIN cols \cap (first \ ranges)}
      /\ Decide!P!ToSet(Decide!P!Only(cols, ranges)) = {cols[i] : i \in DOMAIN cols \cap ranges}
  <2> HIDE DEF cols
  <2> QED BY <1>2, OnlySet
<1>8. /\ Decide!P!filterColumns(cond) \in Seq(STRING)
      /\ Decide!P!ToSet(Decide!P!filterColumns(cond))
           = {cols[i] : i \in DOMAIN cols \cap (first \ ranges)} \cup {cols[i] : i \in DOMAIN cols \cap ranges}
  <2>1. PICK s \in Seq(STRING), u \in Seq(STRING) :
             s = Decide!P!Only(cols, first \ ranges) /\ u = Decide!P!Only(cols, ranges)
    BY <1>7
  <2>2. s \o u \in Seq(STRING) /\ Decide!P!ToSet(s \o u) = Decide!P!ToSet(s) \cup Decide!P!ToSet(u)
    BY ConcatSet
  <2> HIDE DEF cols
  <2> QED BY <1>3, <1>7, <2>1, <2>2
<1>9. {cols[i] : i \in DOMAIN cols \cap (first \ ranges)} \cup {cols[i] : i \in DOMAIN cols \cap ranges}
        = {cols[i] : i \in read}
  <2>1. \A i \in read : \E j \in first : cols[j] = cols[i]
    BY <1>4
  <2> HIDE DEF cols
  <2> QED BY <1>1, <1>5, <2>1
<1>10. Decide!P!ToSet(<< >>) = {}
  BY DEF Decide!P!ToSet
<1> HIDE DEF cols
<1> QED BY <1>6, <1>8, <1>9, <1>10

\* What is advised for a condition, beside what it compares plainly.
LEMMA WordsAre ==
  ASSUME NEW cond \in Seq(Terms)
  PROVE  Decide!Plainly(cond) \subseteq WordsOf(cond)
         /\ WordsOf(cond) \subseteq Decide!Plainly(cond) \cup Decide!CastTo(cond)
<1>1. Decide!ToSet(cond) = Decide!P!ToSet(cond) /\ Decide!P!ToSet(cond) \subseteq Terms
  BY DEF Decide!ToSet, Decide!P!ToSet
<1>2. ASSUME NEW t \in Decide!P!ToSet(cond)
      PROVE  /\ t.left \in {"plain", "cast", "other"}
             /\ t.left = "plain" /\ t.op \in Decide!P!CmpOps => Decide!P!Matches(t) /\ Decide!P!Word(t) = t.col
             /\ Decide!P!Matches(t) =>
                  \/ t.left = "plain" /\ t.op \in Decide!P!CmpOps /\ Decide!P!Word(t) = t.col
                  \/ t.left = "cast" /\ Decide!P!Word(t) = t.type
  BY <1>1, <1>2 DEF Terms, Decide!P!Matches, Decide!P!Word
<1> QED BY <1>1, <1>2 DEF WordsOf, Decide!Plainly, Decide!CastTo

LEMMA ConvertedIs ==
  ASSUME NEW n \in Nodes
  PROVE  LET c == Decide!P!convert(n) IN
         /\ c.cond \in Seq(Terms)
         /\ c.type = n.type /\ c.relation = n.relation
         /\ c.sortKB = n.sortKB /\ c.peakKB = n.peakKB
<1>1. n.conds \in Seq(Conds) /\ DOMAIN n = Fields
  <2>1. n.conds \in Seq(Conds)
    BY NodesAssumption, Zenon
  <2>2. DOMAIN n = Fields
    BY NodesAssumption, Zenon
  <2> QED BY <2>1, <2>2
<1> DEFINE seqs == [i \in DOMAIN n.conds |-> Decide!P!NormalizeCondition(n.conds[i])]
<1>2. PICK conds \in Seq(Conds) : conds = n.conds
  BY <1>1
<1>3. DOMAIN conds = 1..Len(conds) /\ Len(conds) \in Nat
  BY <1>2
<1>4. ASSUME NEW i \in DOMAIN conds PROVE seqs[i] \in Seq(Terms)
  <2>1. conds[i] \in Conds
    BY <1>2
  <2>2. conds[i].terms \in Seq(Terms) /\ << >> \in Seq(Terms)
    BY <2>1 DEF Conds
  <2>3. seqs[i] = Decide!P!NormalizeCondition(conds[i])
    BY <1>2
  <2>4. ASSUME NEW c PROVE Decide!P!NormalizeCondition(c) \in {c.terms, << >>}
    BY DEF Decide!P!NormalizeCondition
  <2> QED BY <2>2, <2>3, <2>4
<1>5. seqs \in Seq(Seq(Terms))
  <2>1. seqs \in [1..Len(conds) -> Seq(Terms)]
    BY <1>2, <1>3, <1>4
  <2> QED BY <1>3, <2>1
<1>6. Decide!P!normalizeConds(n) \in Seq(Terms)
  <2> HIDE DEF seqs
  <2>1. Decide!P!FlattenSeq(seqs) \in Seq(Terms)
    BY <1>5, FlattenSet
  <2> QED BY <2>1 DEF Decide!P!normalizeConds, seqs
<1>7. Decide!P!convert(n).cond = Decide!P!normalizeConds(n)
  BY DEF Decide!P!convert
<1>8. LET c == Decide!P!convert(n) IN
      c.type = n.type /\ c.relation = n.relation /\ c.sortKB = n.sortKB /\ c.peakKB = n.peakKB
  BY <1>1 DEF Decide!P!convert, Fields
<1> QED BY <1>6, <1>7, <1>8

LEMMA ElementOf ==
  ASSUME NEW X, NEW s \in Seq(X), NEW i \in DOMAIN s
  PROVE  s[i] \in X
OBVIOUS

LEMMA ScanOf ==
  ASSUME NEW n \in Nodes, n.type = "Seq Scan"
  PROVE  n.relation # ""
BY NodesAssumption

\* Who asks for a candidate: the plans, whatever their order.
Asking(plans, c) ==
  {p \in plans : \E k \in Decide!P!Servable(p) : Decide!P!Candidate(p.nodes[k]) = c}

Advised(plans, tables, c) ==
  [candidate |-> c,
   fingerprints |-> {p.fp : p \in Asking(plans, c)} \ {""},
   size |-> IF c.relation \in DOMAIN tables THEN tables[c.relation].size ELSE 0,
   seqScans |-> IF c.relation \in DOMAIN tables THEN tables[c.relation].seqScans ELSE 0]

Asked(plans) == UNION {{Decide!P!Candidate(p.nodes[k]) : k \in Decide!P!Servable(p)} : p \in plans}

LEMMA AdviceOfPlans ==
  ASSUME NEW X, NEW plans \in Seq(X), NEW tables
  PROVE  Decide!P!RecommendIndexes(plans, tables)
           = {Advised(Decide!P!ToSet(plans), tables, c) : c \in Asked(Decide!P!ToSet(plans))}
<1> DEFINE all == Decide!P!ToSet(plans)
<1>1. Decide!P!Candidates(plans) = Asked(all)
  BY DEF Decide!P!Candidates, Asked, Decide!P!ToSet
<1>2. ASSUME NEW c
      PROVE  {plans[i].fp : i \in {j \in DOMAIN plans : \E k \in Decide!P!Servable(plans[j]) :
                Decide!P!Candidate(plans[j].nodes[k]) = c}} = {p.fp : p \in Asking(all, c)}
  BY DEF Asking, Decide!P!ToSet
<1> HIDE DEF all
<1>3. ASSUME NEW c
      PROVE  [candidate |-> c,
              fingerprints |-> {plans[i].fp : i \in
                {j \in DOMAIN plans : \E k \in Decide!P!Servable(plans[j]) :
                   Decide!P!Candidate(plans[j].nodes[k]) = c}} \ {""},
              size |-> IF c.relation \in DOMAIN tables THEN tables[c.relation].size ELSE 0,
              seqScans |-> IF c.relation \in DOMAIN tables THEN tables[c.relation].seqScans ELSE 0]
             = Advised(all, tables, c)
  BY <1>2 DEF Advised
<1> DEFINE told(c) ==
      [candidate |-> c,
       fingerprints |-> {plans[i].fp : i \in
         {j \in DOMAIN plans : \E k \in Decide!P!Servable(plans[j]) :
            Decide!P!Candidate(plans[j].nodes[k]) = c}} \ {""},
       size |-> IF c.relation \in DOMAIN tables THEN tables[c.relation].size ELSE 0,
       seqScans |-> IF c.relation \in DOMAIN tables THEN tables[c.relation].seqScans ELSE 0]
<1>4. Decide!P!RecommendIndexes(plans, tables) = {told(c) : c \in Decide!P!Candidates(plans)}
  BY DEF Decide!P!RecommendIndexes
<1>5. \A c : told(c) = Advised(all, tables, c)
  BY <1>3
<1> HIDE DEF told
<1> QED BY <1>1, <1>4, <1>5 DEF all

LEMMA ReversePlans ==
  ASSUME NEW X, NEW s \in Seq(X)
  PROVE  Decide!Reverse(s) \in Seq(X) /\ Decide!P!ToSet(Decide!Reverse(s)) = Decide!P!ToSet(s)
<1>1. DOMAIN s = 1..Len(s) /\ Len(s) \in Nat /\ \A i \in 1..Len(s) : s[i] \in X
  OBVIOUS
<1>2. Decide!Reverse(s) = [i \in 1..Len(s) |-> s[(Len(s) - i) + 1]]
  BY DEF Decide!Reverse
<1>3. \A i \in 1..Len(s) : (Len(s) - i) + 1 \in 1..Len(s) /\ (Len(s) - ((Len(s) - i) + 1)) + 1 = i
  BY <1>1
<1>4. Decide!Reverse(s) \in [1..Len(s) -> X]
  BY <1>1, <1>2, <1>3
<1>5. \A i \in 1..Len(s) : Decide!Reverse(s)[i] = s[(Len(s) - i) + 1] /\ Decide!Reverse(s)[(Len(s) - i) + 1] = s[i]
  BY <1>2, <1>3
<1>6. DOMAIN Decide!Reverse(s) = 1..Len(s)
  BY <1>2
<1>7. Decide!P!ToSet(Decide!Reverse(s)) = Decide!P!ToSet(s)
  BY <1>1, <1>3, <1>5, <1>6 DEF Decide!P!ToSet
<1> QED BY <1>1, <1>4, <1>7

\* A plan of a sequential scan with a filter has its index advised.
LEMMA FilterServed ==
  ASSUME NEW plans, NEW tables, NEW rec \in Decide!LogRecords, PlanOf(rec) \in plans,
         NEW i \in DOMAIN rec.body.nodes, NEW n, n = Decide!P!convert(rec.body.nodes[i]),
         n.type = "Seq Scan", Decide!Plainly(n.cond) # {}
  PROVE  \E c \in Asked(plans) :
           LET a == Advised(plans, tables, c) IN
           /\ a.candidate.relation = n.relation
           /\ Decide!Plainly(n.cond) \subseteq Decide!P!ToSet(a.candidate.columns)
           /\ Decide!P!ToSet(a.candidate.columns) \subseteq Decide!Plainly(n.cond) \cup Decide!CastTo(n.cond)
           /\ (IF rec.statement # "" THEN rec.statement ELSE rec.body.queryText) \in a.fingerprints
<1> DEFINE p == PlanOf(rec)
           c == Decide!P!Candidate(n)
           said == IF rec.statement # "" THEN rec.statement ELSE rec.body.queryText
<1>1. rec.body.nodes \in Seq(Nodes) /\ rec.body.queryText = "q2" /\ rec.statement \in Statements
  BY RecordIs
<1>2. rec.body.nodes[i] \in Nodes
  BY <1>1, ElementOf
<1>3. n.cond \in Seq(Terms) /\ n.relation # ""
  <2>1. PICK raw \in Nodes : raw = rec.body.nodes[i]
    BY <1>2
  <2>2. n.cond \in Seq(Terms) /\ n.type = raw.type /\ n.relation = raw.relation
    BY <2>1, ConvertedIs
  <2>3. raw.relation # ""
    BY <2>1, <2>2, ScanOf
  <2> QED BY <2>2, <2>3
<1>4. /\ Decide!Plainly(n.cond) \subseteq Decide!P!ToSet(Decide!P!filterColumns(n.cond))
      /\ Decide!P!ToSet(Decide!P!filterColumns(n.cond)) \subseteq Decide!Plainly(n.cond) \cup Decide!CastTo(n.cond)
      /\ Decide!P!filterColumns(n.cond) # << >>
  <2>1. PICK cond \in Seq(Terms) : cond = n.cond
    BY <1>3
  <2>2. Decide!P!ToSet(Decide!P!filterColumns(cond)) = WordsOf(cond)
        /\ (WordsOf(cond) # {} => Decide!P!filterColumns(cond) # << >>)
    BY ColumnsOnce
  <2>3. Decide!Plainly(cond) \subseteq WordsOf(cond)
        /\ WordsOf(cond) \subseteq Decide!Plainly(cond) \cup Decide!CastTo(cond)
    BY WordsAre
  <2> QED BY <2>1, <2>2, <2>3
<1>5. p.fp = said /\ DOMAIN p.nodes = DOMAIN rec.body.nodes /\ p.nodes[i] = n
  BY DEF PlanOf
<1> HIDE DEF p, said
<1>6. i \in Decide!P!Servable(p)
  BY <1>3, <1>4, <1>5 DEF Decide!P!Servable
<1>7. p \in Asking(plans, c) /\ c \in Asked(plans)
  <2>1. p \in plans /\ c = Decide!P!Candidate(p.nodes[i])
    BY <1>5 DEF p
  <2>2. p \in Asking(plans, c)
    BY <1>6, <2>1 DEF Asking
  <2>3. c \in {Decide!P!Candidate(p.nodes[k]) : k \in Decide!P!Servable(p)}
    BY <1>6, <2>1
  <2> HIDE DEF c
  <2> QED BY <2>1, <2>2, <2>3 DEF Asked
<1>8. said # ""
  BY <1>1 DEF said
<1>9. c.relation = n.relation /\ c.columns = Decide!P!filterColumns(n.cond)
  BY DEF Decide!P!Candidate
<1> HIDE DEF c
<1>10. /\ Advised(plans, tables, c).candidate = c
       /\ Advised(plans, tables, c).fingerprints = {q.fp : q \in Asking(plans, c)} \ {""}
  BY DEF Advised
<1>11. said \in Advised(plans, tables, c).fingerprints
  BY <1>5, <1>7, <1>8, <1>10
<1> QED BY <1>4, <1>7, <1>9, <1>10, <1>11 DEF said

AllAdvised(events) ==
  LET advice == Decide!P!RecommendIndexes(ShippedOf(events), Tables)
      plans == {rec \in Decide!ToSet(events) :
                  rec.parses /\ "auto_explain.plan" \in rec.looks /\ rec.body.shape = "object"}
  IN
  /\ \A rec \in plans : \A i \in DOMAIN rec.body.nodes :
       LET n == Decide!P!convert(rec.body.nodes[i])
           own == {a \in advice :
                     /\ a.candidate.relation = n.relation
                     /\ Decide!Plainly(n.cond) \subseteq Decide!ToSet(a.candidate.columns)
                     /\ Decide!ToSet(a.candidate.columns) \subseteq Decide!Plainly(n.cond) \cup Decide!CastTo(n.cond)}
           statement == IF rec.statement # "" THEN rec.statement ELSE rec.body.queryText
       IN n.type = "Seq Scan" /\ Decide!Plainly(n.cond) # {} => \E a \in own : statement \in a.fingerprints
  /\ advice = Decide!P!RecommendIndexes(Decide!Reverse(ShippedOf(events)), Tables)
  /\ \A a, b \in advice : a.candidate = b.candidate => a = b

LEMMA LogAdvised ==
  ASSUME NEW events \in Seq(Decide!LogRecords)
  PROVE  AllAdvised(events)
<1> DEFINE shipped == ShippedOf(events)
           all == Decide!P!ToSet(shipped)
           advice == Decide!P!RecommendIndexes(shipped, Tables)
<1>1. shipped \in Seq(PlanSet)
  BY ShippedPlans
<1>2. \A rec \in Decide!P!ToSet(events) :
        rec.parses /\ "auto_explain.plan" \in rec.looks /\ rec.body.shape = "object" => PlanOf(rec) \in all
  BY ShippedPlans
<1>3. \A s : Decide!ToSet(s) = Decide!P!ToSet(s)
  BY DEF Decide!ToSet, Decide!P!ToSet
<1> HIDE DEF shipped
<1>4. advice = {Advised(all, Tables, c) : c \in Asked(all)}
  BY <1>1, AdviceOfPlans
<1>5. advice = Decide!P!RecommendIndexes(Decide!Reverse(shipped), Tables)
  <2>1. Decide!Reverse(shipped) \in Seq(PlanSet) /\ Decide!P!ToSet(Decide!Reverse(shipped)) = all
    BY <1>1, ReversePlans
  <2>2. PICK back \in Seq(PlanSet) : back = Decide!Reverse(shipped) /\ Decide!P!ToSet(back) = all
    BY <2>1
  <2>3. Decide!P!RecommendIndexes(back, Tables)
          = {Advised(Decide!P!ToSet(back), Tables, c) : c \in Asked(Decide!P!ToSet(back))}
    BY AdviceOfPlans
  <2> HIDE DEF all, advice
  <2> QED BY <1>4, <2>2, <2>3
<1> HIDE DEF all, advice
<1>6. \A a, b \in advice : a.candidate = b.candidate => a = b
  <2>1. \A c : Advised(all, Tables, c).candidate = c
    BY DEF Advised
  <2> QED BY <1>4, <2>1
<1>7. ASSUME NEW rec \in Decide!ToSet(events), rec.parses, "auto_explain.plan" \in rec.looks,
             rec.body.shape = "object", NEW i \in DOMAIN rec.body.nodes,
             NEW n, n = Decide!P!convert(rec.body.nodes[i]), n.type = "Seq Scan",
             Decide!Plainly(n.cond) # {}
      PROVE  \E a \in advice :
               /\ a.candidate.relation = n.relation
               /\ Decide!Plainly(n.cond) \subseteq Decide!ToSet(a.candidate.columns)
               /\ Decide!ToSet(a.candidate.columns) \subseteq Decide!Plainly(n.cond) \cup Decide!CastTo(n.cond)
               /\ (IF rec.statement # "" THEN rec.statement ELSE rec.body.queryText) \in a.fingerprints
  <2>1. rec \in Decide!P!ToSet(events) /\ rec \in Decide!LogRecords
    <3>1. rec \in Decide!P!ToSet(events)
      BY <1>3, <1>7
    <3>2. PICK j \in DOMAIN events : rec = events[j]
      BY <3>1 DEF Decide!P!ToSet
    <3> QED BY <3>1, <3>2
  <2>2. PlanOf(rec) \in all
    BY <1>2, <1>7, <2>1
  <2>3. PICK c \in Asked(all) :
           LET a == Advised(all, Tables, c) IN
           /\ a.candidate.relation = n.relation
           /\ Decide!Plainly(n.cond) \subseteq Decide!P!ToSet(a.candidate.columns)
           /\ Decide!P!ToSet(a.candidate.columns) \subseteq Decide!Plainly(n.cond) \cup Decide!CastTo(n.cond)
           /\ (IF rec.statement # "" THEN rec.statement ELSE rec.body.queryText) \in a.fingerprints
    BY <1>7, <2>1, <2>2, FilterServed
  <2>4. PICK a : a = Advised(all, Tables, c)
    OBVIOUS
  <2>5. a \in advice
    BY <1>4, <2>4
  <2> QED BY <1>3, <2>3, <2>4, <2>5
<1> QED BY <1>5, <1>6, <1>7 DEF AllAdvised, shipped, advice

-----------------------------------------------------------------------------
(* One diagnosis of an observation.                                        *)

LEMMA NoTwo ==
  ASSUME NEW S, \A x \in S : \A y \in S : x = y
  PROVE  Decide!Cardinality(S) <= 1
<1>1. Decide!Cardinality(S) = Cardinality(S)
  BY DEF Decide!Cardinality, Cardinality
<1>2. CASE S = {}
  BY <1>1, <1>2, FS_EmptySet
<1>3. CASE \E x : S = {x}
  BY <1>1, <1>3, FS_Singleton
<1> QED BY <1>2, <1>3

LEMMA FlagsOnce ==
  /\ \A r \in Decide!C!FlagRules : \A q \in Decide!C!FlagRules : r.name = q.name => r = q
  /\ \A r \in Decide!C!FlagRules :
       r.name \notin {"shared_buffers", "work_mem", "default_statistics_target"} /\ r.check # "config"
BY DEF Decide!C!FlagRules

LEMMA SettingOnce ==
  ASSUME NEW s, NEW r \in Decide!C!SettingChecks(s), NEW q \in Decide!C!SettingChecks(s)
  PROVE  r = q
<1>1. ASSUME NEW x \in Decide!C!EvalFlags(s)
      PROVE  x \in Decide!C!FlagRules /\ x.name = s.name /\ Decide!C!SizeRules(s) = {}
  <2>1. x \in Decide!C!FlagRules /\ x.name = s.name
    BY DEF Decide!C!EvalFlags
  <2>2. s.name \notin {"shared_buffers", "work_mem", "default_statistics_target"}
    BY <2>1, FlagsOnce
  <2> QED BY <2>1, <2>2 DEF Decide!C!SizeRules
<1>2. ASSUME NEW x \in Decide!C!SizeRules(s), NEW y \in Decide!C!SizeRules(s) PROVE x = y
  BY DEF Decide!C!SizeRules
<1>3. CASE r \in Decide!C!EvalFlags(s) /\ q \in Decide!C!EvalFlags(s)
  BY <1>1, <1>3, FlagsOnce
<1>4. CASE r \in Decide!C!SizeRules(s) /\ q \in Decide!C!SizeRules(s)
  BY <1>2, <1>4
<1> QED BY <1>1, <1>3, <1>4 DEF Decide!C!SettingChecks

LEMMA FoundOnce ==
  ASSUME NEW kind \in KindsOfReading, kind \notin {"table", "freeze"}, NEW o,
         NEW x \in Decide!C!Eval(kind, o), NEW y \in Decide!C!Eval(kind, o),
         x.rule # "config", y.rule # "config"
  PROVE  x = y
<1>1. /\ x \in Decide!C!Judged(kind, o) /\ x.rank # Decide!C!None
      /\ y \in Decide!C!Judged(kind, o) /\ y.rank # Decide!C!None
  BY DEF Decide!C!Eval
<1>2. \A rule, rank : Decide!C!Found(rule, rank).rule = rule /\ Decide!C!Found(rule, rank).rank = rank
  BY DEF Decide!C!Found
<1>3. CASE kind = "connection"
  <2>1. Decide!C!Judged(kind, o) = {Decide!C!Found("long_running_active", Decide!C!LongRunningActive(o)),
                                    Decide!C!Found("idle_in_transaction", Decide!C!IdleInTransaction(o))}
    BY <1>3 DEF Decide!C!Judged
  <2>2. Decide!C!LongRunningActive(o) = Decide!C!None \/ Decide!C!IdleInTransaction(o) = Decide!C!None
    BY ZenonT(30) DEF Decide!C!LongRunningActive, Decide!C!IdleInTransaction, Decide!C!InTransaction
  <2> QED BY <1>1, <1>2, <2>1, <2>2
<1>4. CASE kind = "index"
  <2>1. Decide!C!Judged(kind, o) = {Decide!C!Found("invalid_index", Decide!C!InvalidIndex(o)),
                                    Decide!C!Found("unused_index", Decide!C!UnusedIndex(o))}
    BY <1>4 DEF Decide!C!Judged
  <2>2. Decide!C!InvalidIndex(o) = Decide!C!None \/ Decide!C!UnusedIndex(o) = Decide!C!None
    BY DEF Decide!C!InvalidIndex, Decide!C!UnusedIndex
  <2> QED BY <1>1, <1>2, <2>1, <2>2
<1>5. CASE kind = "edge"
  BY <1>1, <1>5 DEF Decide!C!Judged
<1>6. CASE kind = "horizon"
  BY <1>1, <1>6 DEF Decide!C!Judged
<1>7. CASE kind = "recommendation"
  BY <1>1, <1>7 DEF Decide!C!Judged
<1>8. CASE kind = "setting"
  <2>1. Decide!C!Judged(kind, o) = {Decide!C!Found(r.check, r.rank) : r \in Decide!C!SettingChecks(o)}
                                     \cup {Decide!C!Found("config", Decide!C!ConfigAdvice(o))}
    BY <1>8 DEF Decide!C!Judged
  <2>2. PICK r \in Decide!C!SettingChecks(o) : x = Decide!C!Found(r.check, r.rank)
    BY <1>1, <1>2, <2>1
  <2>3. PICK q \in Decide!C!SettingChecks(o) : y = Decide!C!Found(q.check, q.rank)
    BY <1>1, <1>2, <2>1
  <2> QED BY <2>2, <2>3, SettingOnce
<1> QED BY <1>3, <1>4, <1>5, <1>6, <1>7, <1>8 DEF KindsOfReading

LEMMA SettingsAgree ==
  ASSUME NEW o, o.name \in {"fsync", "full_page_writes", "synchronous_commit"},
         o.name \in {"fsync", "full_page_writes"} => o.value \in {"on", "off"}
  PROVE  {x.rank : x \in Decide!C!SettingChecks(o)} = {Decide!C!ConfigAdvice(o)} \ {Decide!C!None}
<1> DEFINE rank == IF o.name = "synchronous_commit" THEN Decide!C!Warning ELSE Decide!C!Critical
<1>1. Decide!C!SizeRules(o) = {}
  BY DEF Decide!C!SizeRules
<1>2. Decide!C!ConfigAdvice(o) = IF o.value = "off" THEN rank ELSE Decide!C!None
  BY DEF Decide!C!ConfigAdvice
<1>3. ASSUME NEW r \in Decide!C!FlagRules, r.name = o.name
      PROVE  r.rank = rank /\ (Decide!C!Bad(r, o) <=> o.value = "off")
  BY <1>3 DEF Decide!C!FlagRules, Decide!C!Bad, Decide!C!Off
<1>4. \E r \in Decide!C!FlagRules : r.name = o.name
  BY DEF Decide!C!FlagRules
<1>5. rank # Decide!C!None
  BY DEF Decide!C!None, Decide!C!Warning, Decide!C!Critical
<1> HIDE DEF rank
<1> QED BY <1>1, <1>2, <1>3, <1>4, <1>5 DEF Decide!C!SettingChecks, Decide!C!EvalFlags

-----------------------------------------------------------------------------
(* One diagnosis of a plan.                                                *)

\* No node of a plan spills more than is recommended for.
LEMMA SpillBounded ==
  ASSUME NEW c \in Converted
  PROVE  /\ Decide!P!Spilled(c) \in Nat /\ Decide!P!Spilled(c) < 1024 * Decide!P!MaxMB
         /\ c.sortKB \in Nat /\ c.peakKB \in Nat
<1>1. PICK n \in Nodes : c = Decide!P!convert(n)
  BY DEF Converted
<1>2. c.sortKB = n.sortKB /\ c.peakKB = n.peakKB
  BY <1>1, ConvertedIs
<1>3. \A kb \in {n.sortKB, n.peakKB} : kb \in Nat /\ kb < Terabyte
  BY NodesAssumption, Zenon
<1>4. /\ c.sortKB \in Nat /\ c.sortKB < 1024 * Decide!P!MaxMB
      /\ c.peakKB \in Nat /\ c.peakKB < 1024 * Decide!P!MaxMB
  BY <1>2, <1>3 DEF Terabyte
<1>5. 0 < 1024 * Decide!P!MaxMB
  BY DEF Decide!P!MaxMB
<1>6. Decide!P!Spilled(c) \in {c.sortKB, c.peakKB, 0}
  BY DEF Decide!P!Spilled
<1> QED BY <1>4, <1>5, <1>6

LEMMA TotalRuns ==
  ASSUME NEW nodes \in Seq(Converted)
  PROVE  \E f : /\ \A k \in 0..Len(nodes) :
                     f[k] = IF k = 0 THEN 0 ELSE f[k - 1] + Decide!P!Spilled(nodes[k])
                /\ Decide!P!TotalSpill(nodes) = f[Len(nodes)]
<1> DEFINE n == Len(nodes)
           step == [k \in 1..n |-> [x \in Nat |-> x + Decide!P!Spilled(nodes[k])]]
<1>1. n \in Nat /\ 0 \in Nat /\ \A k \in 1..n : nodes[k] \in Converted
  OBVIOUS
<1>2. \A k \in 1..n : Decide!P!Spilled(nodes[k]) \in Nat
  BY <1>1, SpillBounded
<1>3. \A k \in 1..n : \A x \in Nat : step[k][x] \in Nat /\ step[k][x] = x + Decide!P!Spilled(nodes[k])
  BY <1>2
<1> HIDE DEF n, step
<1>4. PICK f \in [0..n -> Nat] : Steps(f, n, 0, step)
  BY <1>1, <1>3, Recursion
<1>5. ASSUME NEW k \in 0..n PROVE f[k] = IF k = 0 THEN 0 ELSE f[k - 1] + Decide!P!Spilled(nodes[k])
  <2>1. CASE k = 0
    BY <1>4, <2>1 DEF Steps
  <2>2. CASE k # 0
    <3>1. k \in 1..n /\ k - 1 \in 0..n
      BY <1>1, <2>2
    <3>2. f[k] = step[k][f[k - 1]] /\ f[k - 1] \in Nat
      BY <1>4, <2>2, <3>1 DEF Steps
    <3> QED BY <1>3, <2>2, <3>1, <3>2
  <2> QED BY <2>1, <2>2
<1> DEFINE F == CHOOSE upTo : upTo = [k \in 0..Len(nodes) |->
                  IF k = 0 THEN 0 ELSE upTo[k - 1] + Decide!P!Spilled(nodes[k])]
<1>6. f = [k \in 0..Len(nodes) |-> IF k = 0 THEN 0 ELSE f[k - 1] + Decide!P!Spilled(nodes[k])]
  BY <1>5 DEF n
<1>7. F = [k \in 0..Len(nodes) |-> IF k = 0 THEN 0 ELSE F[k - 1] + Decide!P!Spilled(nodes[k])]
  BY <1>6
<1>8. Decide!P!TotalSpill(nodes) = F[Len(nodes)]
  BY DEF Decide!P!TotalSpill
<1> HIDE DEF F
<1> QED BY <1>7, <1>8

\* The spills of a plan add up to no less than each of them, and to nothing only
\* if there is none.
LEMMA TotalHolds ==
  ASSUME NEW nodes \in Seq(Converted)
  PROVE  /\ Decide!P!TotalSpill(nodes) \in Nat
         /\ \A k \in DOMAIN nodes : Decide!P!Spilled(nodes[k]) <= Decide!P!TotalSpill(nodes)
         /\ Decide!P!TotalSpill(nodes) > 0 => \E k \in DOMAIN nodes : Decide!P!Spilled(nodes[k]) > 0
<1> DEFINE n == Len(nodes)
           spill == [k \in 1..n |-> Decide!P!Spilled(nodes[k])]
<1>1. n \in Nat /\ DOMAIN nodes = 1..n /\ \A k \in 1..n : nodes[k] \in Converted
  OBVIOUS
<1>2. spill \in [1..n -> Nat] /\ \A k \in 1..n : spill[k] = Decide!P!Spilled(nodes[k])
  BY <1>1, SpillBounded
<1>3. PICK f : /\ \A k \in 0..n : f[k] = IF k = 0 THEN 0 ELSE f[k - 1] + Decide!P!Spilled(nodes[k])
               /\ Decide!P!TotalSpill(nodes) = f[n]
  BY TotalRuns
<1> HIDE DEF n, spill
<1>4. f[0] = 0 /\ \A m \in 0..(n - 1) : f[m + 1] = f[m] + spill[m + 1]
  <2>1. 0 \in 0..n
    BY <1>1
  <2>2. ASSUME NEW m \in 0..(n - 1) PROVE f[m + 1] = f[m] + spill[m + 1]
    <3>1. m + 1 \in 1..n /\ m + 1 \in 0..n /\ m + 1 # 0 /\ (m + 1) - 1 = m
      BY <1>1
    <3>2. f[m + 1] = IF m + 1 = 0 THEN 0 ELSE f[(m + 1) - 1] + Decide!P!Spilled(nodes[m + 1])
      BY <1>3, <3>1
    <3> QED BY <1>2, <3>1, <3>2
  <2> QED BY <1>3, <2>1, <2>2
<1> DEFINE Good == {m \in 0..n : /\ f[m] \in Nat
                                 /\ \A k \in 1..m : spill[k] <= f[m]
                                 /\ f[m] > 0 => \E k \in 1..m : spill[k] > 0}
<1>5. 0 \in Good
  BY <1>1, <1>4
<1>6. ASSUME NEW m \in 0..(n - 1), m \in Good PROVE m + 1 \in Good
  <2>1. m + 1 \in 1..n /\ m + 1 \in 0..n /\ 1..m \subseteq 1..(m + 1) /\ m + 1 \in 1..(m + 1)
    BY <1>1
  <2>2. /\ f[m] \in Nat /\ \A k \in 1..m : spill[k] <= f[m]
        /\ f[m] > 0 => \E k \in 1..m : spill[k] > 0
    BY <1>6
  <2>3. spill[m + 1] \in Nat /\ \A k \in 1..n : spill[k] \in Nat
    BY <1>2, <2>1
  <2>4. f[m + 1] = f[m] + spill[m + 1]
    BY <1>4
  <2>5. f[m + 1] \in Nat
    BY <2>2, <2>3, <2>4
  <2>6. ASSUME NEW k \in 1..(m + 1) PROVE spill[k] <= f[m + 1]
    <3>1. k \in 1..n /\ (k \in 1..m \/ k = m + 1)
      BY <1>1
    <3>2. spill[k] \in Nat
      BY <2>3, <3>1
    <3>3. CASE k \in 1..m
      <4>1. spill[k] <= f[m]
        BY <2>2, <3>3
      <4> QED BY <2>2, <2>3, <2>4, <3>2, <4>1
    <3>4. CASE k = m + 1
      BY <2>2, <2>3, <2>4, <3>4
    <3> QED BY <3>1, <3>3, <3>4
  <2>7. ASSUME f[m + 1] > 0 PROVE \E k \in 1..(m + 1) : spill[k] > 0
    <3>1. f[m] > 0 \/ spill[m + 1] > 0
      BY <2>2, <2>3, <2>4, <2>7
    <3> QED BY <2>1, <2>2, <3>1
  <2> QED BY <2>1, <2>5, <2>6, <2>7
<1> HIDE DEF Good
<1>7. \A m \in 0..n : m \in Good
  BY <1>1, <1>5, <1>6, UpTo
<1>8. n \in Good
  BY <1>1, <1>7
<1> QED BY <1>1, <1>2, <1>3, <1>8 DEF Good

LEMMA Greatest ==
  ASSUME NEW S, S \subseteq Nat, S # {}, NEW bound \in Nat, \A x \in S : x < bound
  PROVE  \E m \in S : \A k \in S : m >= k
<1> DEFINE T == {bound - x : x \in S}
<1>1. T \subseteq Nat /\ T # {}
  <2>1. ASSUME NEW x \in S PROVE bound - x \in Nat
    <3>1. x \in Nat /\ x < bound
      OBVIOUS
    <3> QED BY <3>1
  <2> QED BY <2>1
<1>2. PICK d \in T : \A e \in T : d <= e
  BY <1>1, Least
<1>3. PICK m \in S : d = bound - m
  OBVIOUS
<1>4. ASSUME NEW k \in S PROVE m >= k
  <2>1. bound - k \in T /\ m \in Nat /\ k \in Nat
    OBVIOUS
  <2>2. d <= bound - k
    BY <1>2, <2>1
  <2> QED BY <1>3, <2>1, <2>2
<1> QED BY <1>4

LEMMA Halves ==
  /\ \A mb \in Decide!P!PowersOfTwo : mb = 1 \/ \E h \in Decide!P!PowersOfTwo : mb = 2 * h
  /\ Decide!P!PowersOfTwo \subseteq Nat \ {0} /\ Decide!P!MaxMB \in Decide!P!PowersOfTwo
BY SMT DEF Decide!P!PowersOfTwo, Decide!P!MaxMB

\* What is recommended holds the largest spill, and half of it would not.
LEMMA Recommended ==
  ASSUME NEW nodes \in Seq(Converted)
  PROVE  LET mb == Decide!P!RecommendedMB(nodes) IN
         /\ \A k \in DOMAIN nodes : Decide!P!Spilled(nodes[k]) < mb * 1024
         /\ mb > 1 => \E k \in DOMAIN nodes : Decide!P!Spilled(nodes[k]) >= mb * 512
<1> DEFINE S == {0} \cup {Decide!P!Spilled(nodes[k]) : k \in DOMAIN nodes}
           largest == Decide!P!Max(S)
           T == {mb \in Decide!P!PowersOfTwo : mb * 1024 > largest}
           mb == Decide!P!Min(T)
<1>1. \A k \in DOMAIN nodes : Decide!P!Spilled(nodes[k]) \in Nat /\ Decide!P!Spilled(nodes[k]) < 1024 * Decide!P!MaxMB
  BY ElementOf, SpillBounded
<1>2. 1024 * Decide!P!MaxMB \in Nat /\ 0 < 1024 * Decide!P!MaxMB /\ Decide!P!MaxMB \in Nat
  BY SMT DEF Decide!P!MaxMB
<1>3. S \subseteq Nat /\ S # {} /\ \A x \in S : x < 1024 * Decide!P!MaxMB
  BY <1>1, <1>2
<1>4. largest \in S /\ \A x \in S : largest >= x
  <2> HIDE DEF S
  <2>1. \E m \in S : \A k \in S : m >= k
    <3>1. PICK top \in Nat : top = 1024 * Decide!P!MaxMB
      BY <1>2
    <3>2. \A x \in S : x < top
      BY <1>3, <3>1
    <3> QED BY <1>3, <3>2, Greatest, ZenonT(30)
  <2> QED BY <2>1 DEF Decide!P!Max
<1>5. largest \in Nat /\ largest < 1024 * Decide!P!MaxMB
  BY <1>3, <1>4
<1>6. Decide!P!RecommendedMB(nodes) = mb
  BY DEF Decide!P!RecommendedMB
<1>7. \A k \in DOMAIN nodes : Decide!P!Spilled(nodes[k]) <= largest
  BY <1>1, <1>4, <1>5
<1>8. largest > 0 => \E k \in DOMAIN nodes : Decide!P!Spilled(nodes[k]) = largest
  <2>1. largest \in S
    BY <1>4
  <2> HIDE DEF largest
  <2> QED BY <1>5, <2>1
<1> HIDE DEF largest, S
<1>9. T \subseteq Nat /\ Decide!P!MaxMB \in T
  <2>1. Decide!P!MaxMB * 1024 = 1024 * Decide!P!MaxMB
    BY <1>2
  <2>2. T \subseteq Nat
    BY Halves, ZenonT(30)
  <2>3. Decide!P!MaxMB * 1024 > largest
    BY <1>2, <1>5, <2>1
  <2> QED BY <2>2, <2>3, Halves
<1>10. mb \in T /\ \A x \in T : mb <= x
  <2> HIDE DEF T
  <2>1. \E m \in T : \A k \in T : m <= k
    BY <1>9, Least
  <2> QED BY <2>1 DEF Decide!P!Min
<1>11. mb \in Nat /\ mb \in Decide!P!PowersOfTwo /\ mb * 1024 > largest
  BY <1>9, <1>10
<1> HIDE DEF mb
<1>12. ASSUME NEW k \in DOMAIN nodes PROVE Decide!P!Spilled(nodes[k]) < mb * 1024
  BY <1>1, <1>5, <1>7, <1>11
<1>13. ASSUME mb > 1 PROVE \E k \in DOMAIN nodes : Decide!P!Spilled(nodes[k]) >= mb * 512
  <2>1. PICK h \in Decide!P!PowersOfTwo : mb = 2 * h
    BY <1>11, <1>13, Halves
  <2>2. h \in Nat /\ h > 0 /\ h < mb
    BY <2>1, Halves
  <2>3. h \notin T
    BY <1>10, <1>11, <2>2
  <2>4. h * 1024 <= largest
    BY <1>5, <2>2, <2>3
  <2>5. largest > 0 /\ largest >= mb * 512
    BY <1>5, <2>1, <2>2, <2>4
  <2> QED BY <1>8, <2>5
<1> QED BY <1>6, <1>12, <1>13

\* What each detector says of a node k.
Detected(nodes, kind, k) ==
  CASE kind = "slow_scan"         -> Decide!P!SlowScan(nodes[k])
    [] kind = "disk_sort"         -> Decide!P!DiskSort(nodes[k])
    [] kind = "hash_batches"      -> Decide!P!HashBatches(nodes[k])
    [] kind = "inefficient_index" -> Decide!P!InefficientIndex(nodes[k])
    [] kind = "stale_stats"       -> Decide!P!StaleStats(nodes, k)
    [] kind = "mis_estimate"      -> Decide!P!MisEstimate(nodes, k)
    [] kind = "large_offset"      -> Decide!P!LargeOffset(nodes, k)
    [] kind = "lossy_bitmap"      -> Decide!P!LossyBitmap(nodes[k])
    [] kind = "nested_loop"       -> Decide!P!NestedLoop(nodes, k)
    [] kind = "wrong_index_order_by" -> Decide!P!WrongIndexOrderBy(nodes[k])

DetectorKinds == {"slow_scan", "disk_sort", "hash_batches", "inefficient_index", "stale_stats",
                  "mis_estimate", "large_offset", "lossy_bitmap", "nested_loop", "wrong_index_order_by"}

InsightOf(x, nodes) ==
  \/ x.kind \in DetectorKinds /\ x.at \in DOMAIN nodes /\ x.rank = Detected(nodes, x.kind, x.at)
  \/ x.kind = "disk_spill" /\ x.at = 0 /\ x.rank = Decide!P!DiskSpill(nodes)

LEMMA InsightIs ==
  ASSUME NEW kind, NEW k, NEW rank
  PROVE  LET x == Decide!P!Insight(kind, k, rank) IN x.kind = kind /\ x.at = k /\ x.rank = rank
BY DEF Decide!P!Insight

LEMMA DetectedOne ==
  ASSUME NEW plan, NEW x \in Decide!P!DetectAll(plan)
  PROVE  InsightOf(x, plan.nodes) /\ x.rank # Decide!P!None
<1> DEFINE n == plan.nodes
           Of(kind, k, rank) == Decide!P!Insight(kind, k, rank)
<1>1. ASSUME NEW kind \in DetectorKinds, NEW k \in DOMAIN n, x = Of(kind, k, Detected(n, kind, k))
      PROVE  InsightOf(x, n)
  <2>1. x.kind = kind /\ x.at = k /\ x.rank = Detected(n, kind, k)
    BY <1>1, InsightIs
  <2> QED BY <2>1 DEF InsightOf
<1>2. /\ x.rank # Decide!P!None
      /\ \/ \E k \in DOMAIN n : x = Of("slow_scan", k, Decide!P!SlowScan(n[k]))
         \/ \E k \in DOMAIN n : x = Of("disk_sort", k, Decide!P!DiskSort(n[k]))
         \/ \E k \in DOMAIN n : x = Of("hash_batches", k, Decide!P!HashBatches(n[k]))
         \/ \E k \in DOMAIN n : x = Of("inefficient_index", k, Decide!P!InefficientIndex(n[k]))
         \/ \E k \in DOMAIN n : x = Of("stale_stats", k, Decide!P!StaleStats(n, k))
         \/ \E k \in DOMAIN n : x = Of("mis_estimate", k, Decide!P!MisEstimate(n, k))
         \/ \E k \in DOMAIN n : x = Of("large_offset", k, Decide!P!LargeOffset(n, k))
         \/ \E k \in DOMAIN n : x = Of("lossy_bitmap", k, Decide!P!LossyBitmap(n[k]))
         \/ \E k \in DOMAIN n : x = Of("nested_loop", k, Decide!P!NestedLoop(n, k))
         \/ \E k \in DOMAIN n : x = Of("wrong_index_order_by", k, Decide!P!WrongIndexOrderBy(n[k]))
         \/ x = Of("disk_spill", 0, Decide!P!DiskSpill(n))
  BY DEF Decide!P!DetectAll
<1>3. ASSUME x = Of("disk_spill", 0, Decide!P!DiskSpill(n)) PROVE InsightOf(x, n)
  <2>1. x.kind = "disk_spill" /\ x.at = 0 /\ x.rank = Decide!P!DiskSpill(n)
    BY <1>3, InsightIs
  <2> QED BY <2>1 DEF InsightOf
<1>4. ASSUME NEW k
      PROVE  /\ Detected(n, "slow_scan", k) = Decide!P!SlowScan(n[k])
             /\ Detected(n, "disk_sort", k) = Decide!P!DiskSort(n[k])
             /\ Detected(n, "hash_batches", k) = Decide!P!HashBatches(n[k])
             /\ Detected(n, "inefficient_index", k) = Decide!P!InefficientIndex(n[k])
             /\ Detected(n, "stale_stats", k) = Decide!P!StaleStats(n, k)
             /\ Detected(n, "mis_estimate", k) = Decide!P!MisEstimate(n, k)
             /\ Detected(n, "large_offset", k) = Decide!P!LargeOffset(n, k)
             /\ Detected(n, "lossy_bitmap", k) = Decide!P!LossyBitmap(n[k])
             /\ Detected(n, "nested_loop", k) = Decide!P!NestedLoop(n, k)
             /\ Detected(n, "wrong_index_order_by", k) = Decide!P!WrongIndexOrderBy(n[k])
  BY DEF Detected
<1> HIDE DEF n, Of
<1>5. DetectorKinds = {"slow_scan", "disk_sort", "hash_batches", "inefficient_index", "stale_stats",
                       "mis_estimate", "large_offset", "lossy_bitmap", "nested_loop", "wrong_index_order_by"}
  BY DEF DetectorKinds
<1>6. ASSUME NEW k \in DOMAIN n, NEW kind \in DetectorKinds, NEW rank,
             x = Of(kind, k, rank), rank = Detected(n, kind, k)
      PROVE  InsightOf(x, n)
  BY <1>1, <1>6
<1>7. ASSUME NEW k \in DOMAIN n,
             \/ x = Of("slow_scan", k, Decide!P!SlowScan(n[k]))
             \/ x = Of("disk_sort", k, Decide!P!DiskSort(n[k]))
             \/ x = Of("hash_batches", k, Decide!P!HashBatches(n[k]))
             \/ x = Of("inefficient_index", k, Decide!P!InefficientIndex(n[k]))
             \/ x = Of("stale_stats", k, Decide!P!StaleStats(n, k))
             \/ x = Of("mis_estimate", k, Decide!P!MisEstimate(n, k))
             \/ x = Of("large_offset", k, Decide!P!LargeOffset(n, k))
             \/ x = Of("lossy_bitmap", k, Decide!P!LossyBitmap(n[k]))
             \/ x = Of("nested_loop", k, Decide!P!NestedLoop(n, k))
             \/ x = Of("wrong_index_order_by", k, Decide!P!WrongIndexOrderBy(n[k]))
      PROVE  InsightOf(x, n)
  BY <1>4, <1>5, <1>6, <1>7
<1> QED BY <1>2, <1>3, <1>7 DEF n

LEMMA DetectsSpills ==
  ASSUME NEW plan
  PROVE  /\ \A k \in DOMAIN plan.nodes :
              /\ Decide!P!DiskSort(plan.nodes[k]) # Decide!P!None =>
                   Decide!P!Insight("disk_sort", k, Decide!P!DiskSort(plan.nodes[k])) \in Decide!P!DetectAll(plan)
              /\ Decide!P!HashBatches(plan.nodes[k]) # Decide!P!None =>
                   Decide!P!Insight("hash_batches", k, Decide!P!HashBatches(plan.nodes[k])) \in Decide!P!DetectAll(plan)
         /\ Decide!P!DiskSpill(plan.nodes) # Decide!P!None =>
              Decide!P!Insight("disk_spill", 0, Decide!P!DiskSpill(plan.nodes)) \in Decide!P!DetectAll(plan)
<1>1. \A kind, k, rank : Decide!P!Insight(kind, k, rank).rank = rank
  BY InsightIs
<1> QED BY <1>1 DEF Decide!P!DetectAll

LEMMA RankIs ==
  ASSUME NEW found, NEW kind, NEW k, NEW r
  PROVE  r \in Decide!Rank(found, kind, k) <=> \E x \in found : x.kind = kind /\ x.at = k /\ x.rank = r
BY DEF Decide!Rank

\* A scan is of one type, and a node has children or has not.
LEMMA PairsDiffer ==
  ASSUME NEW plan, NEW k, NEW x \in Decide!P!DetectAll(plan), NEW y \in Decide!P!DetectAll(plan),
         x.at = k, y.at = k
  PROVE  /\ ~(x.kind = "slow_scan" /\ y.kind = "inefficient_index")
         /\ ~(x.kind = "stale_stats" /\ y.kind = "mis_estimate")
<1> DEFINE n == plan.nodes
<1>1. /\ InsightOf(x, n) /\ x.rank # Decide!P!None
      /\ InsightOf(y, n) /\ y.rank # Decide!P!None
  BY DetectedOne
<1> HIDE DEF n
<1>2. ASSUME x.kind = "slow_scan", y.kind = "inefficient_index" PROVE FALSE
  <2>1. x.rank = Decide!P!SlowScan(n[k]) /\ y.rank = Decide!P!InefficientIndex(n[k])
    BY <1>1, <1>2 DEF InsightOf, Detected
  <2>2. n[k].type = "Seq Scan" /\ n[k].type # "Seq Scan"
    BY <1>1, <2>1 DEF Decide!P!SlowScan, Decide!P!InefficientIndex
  <2> QED BY <2>2
<1>3. ASSUME x.kind = "stale_stats", y.kind = "mis_estimate" PROVE FALSE
  <2>1. x.rank = Decide!P!StaleStats(n, k) /\ y.rank = Decide!P!MisEstimate(n, k)
    BY <1>1, <1>3 DEF InsightOf, Detected
  <2> QED BY <1>1, <2>1 DEF Decide!P!StaleStats, Decide!P!MisEstimate
<1> QED BY <1>2, <1>3

\* What was found of node k, of the kinds of a pair.
KindsAt(found, k, pair) == {x.kind : x \in {y \in found : y.at = k /\ y.kind \in pair}}

LEMMA PairsOnce ==
  ASSUME NEW plan, NEW k,
         NEW pair \in {{"slow_scan", "inefficient_index"}, {"stale_stats", "mis_estimate"}}
  PROVE  Decide!Cardinality(KindsAt(Decide!P!DetectAll(plan), k, pair)) <= 1
<1> DEFINE S == KindsAt(Decide!P!DetectAll(plan), k, pair)
<1>1. ASSUME NEW a \in S, NEW b \in S PROVE a = b
  <2>1. PICK x \in Decide!P!DetectAll(plan) : x.at = k /\ x.kind \in pair /\ a = x.kind
    BY DEF KindsAt
  <2>2. PICK y \in Decide!P!DetectAll(plan) : y.at = k /\ y.kind \in pair /\ b = y.kind
    BY DEF KindsAt
  <2>3. /\ ~(x.kind = "slow_scan" /\ y.kind = "inefficient_index")
        /\ ~(x.kind = "stale_stats" /\ y.kind = "mis_estimate")
        /\ ~(y.kind = "slow_scan" /\ x.kind = "inefficient_index")
        /\ ~(y.kind = "stale_stats" /\ x.kind = "mis_estimate")
    BY <2>1, <2>2, PairsDiffer
  <2> QED BY <2>1, <2>2, <2>3
<1> HIDE DEF S
<1>2. Decide!Cardinality(S) <= 1
  BY <1>1, NoTwo
<1> QED BY <1>2 DEF S

LEMMA BandedSome ==
  ASSUME NEW x, NEW medium, NEW high
  PROVE  Decide!P!Banded(x, medium, high) # Decide!P!None
BY DEF Decide!P!Banded, Decide!P!High, Decide!P!Medium, Decide!P!Low, Decide!P!None

\* A plan is as bad as its worst sort.
LEMMA SortInSpill ==
  ASSUME NEW plan \in PlanSet, NEW k \in DOMAIN plan.nodes, plan.nodes[k].sortKB >= 1024,
         NEW r \in Decide!Rank(Decide!P!DetectAll(plan), "disk_sort", k)
  PROVE  \E t \in Decide!Rank(Decide!P!DetectAll(plan), "disk_spill", 0) : t >= r
<1> DEFINE found == Decide!P!DetectAll(plan)
           total == Decide!P!TotalSpill(plan.nodes)
<1>1. PICK nodes \in Seq(Converted) : nodes = plan.nodes
  BY DEF PlanSet
<1>2. PICK x \in found : x.kind = "disk_sort" /\ x.at = k /\ x.rank = r
  BY RankIs
<1>3. InsightOf(x, nodes) /\ x.rank # Decide!P!None
  BY <1>1, DetectedOne
<1>4. r = Decide!P!DiskSort(nodes[k]) /\ r # Decide!P!None
  BY <1>2, <1>3 DEF InsightOf, Detected
<1>5. nodes[k].type = "Sort" /\ nodes[k].sortSpace = "Disk" /\ r = Decide!P!Banded(nodes[k].sortKB, 32768, 262144)
  BY <1>4 DEF Decide!P!DiskSort
<1>6. Decide!P!Spilled(nodes[k]) = nodes[k].sortKB
  BY <1>5 DEF Decide!P!Spilled
<1>7. nodes[k] \in Converted
  BY <1>1, ElementOf
<1>8. nodes[k].sortKB \in Nat /\ nodes[k].sortKB >= 1024
  BY <1>1, <1>7, SpillBounded
<1>9. total \in Nat /\ nodes[k].sortKB <= total
  BY <1>1, <1>6, TotalHolds
<1>10. total >= 1024
  BY <1>8, <1>9
<1>11. Decide!P!DiskSpill(nodes) = Decide!P!Banded(total, 32768, 262144)
  BY <1>1, <1>10 DEF Decide!P!DiskSpill
<1> HIDE DEF total
<1> DEFINE t == Decide!P!DiskSpill(nodes)
<1>12. t # Decide!P!None /\ t >= r
  <2>1. PICK kb \in Nat, all \in Nat : kb = nodes[k].sortKB /\ all = total /\ kb <= all
    BY <1>8, <1>9
  <2> DEFINE low == Decide!P!Banded(kb, 32768, 262144)
             top == Decide!P!Banded(all, 32768, 262144)
  <2>2. low \in Nat /\ top \in Nat /\ low <= top
    BY <2>1, SMT DEF Decide!P!Banded, Decide!P!High, Decide!P!Medium, Decide!P!Low
  <2>3. t # Decide!P!None
    BY <1>11, BandedSome
  <2>4. r = low /\ t = top
    BY <1>5, <1>11, <2>1
  <2> HIDE DEF t, low, top
  <2> QED BY <2>2, <2>3, <2>4
<1>13. Decide!P!Insight("disk_spill", 0, t) \in found
  BY <1>1, <1>12, DetectsSpills
<1>14. t \in Decide!Rank(found, "disk_spill", 0)
  BY <1>13, InsightIs, RankIs
<1> QED BY <1>12, <1>14

\* What the spills of a plan are reported from is reported at its node.
LEMMA SpillHasCause ==
  ASSUME NEW plan \in PlanSet, Decide!Rank(Decide!P!DetectAll(plan), "disk_spill", 0) # {}
  PROVE  \E k \in DOMAIN plan.nodes :
           Decide!Rank(Decide!P!DetectAll(plan), "disk_sort", k)
             \cup Decide!Rank(Decide!P!DetectAll(plan), "hash_batches", k) # {}
<1> DEFINE found == Decide!P!DetectAll(plan)
<1>1. PICK nodes \in Seq(Converted) : nodes = plan.nodes
  BY DEF PlanSet
<1>2. PICK x \in found : x.kind = "disk_spill" /\ x.at = 0
  BY RankIs
<1>3. InsightOf(x, nodes) /\ x.rank # Decide!P!None
  BY <1>1, DetectedOne
<1>4. Decide!P!DiskSpill(nodes) # Decide!P!None
  BY <1>2, <1>3 DEF InsightOf, DetectorKinds
<1>5. Decide!P!TotalSpill(nodes) \in Nat /\ Decide!P!TotalSpill(nodes) >= 1024
  BY <1>1, <1>4, TotalHolds DEF Decide!P!DiskSpill
<1>6. PICK k \in DOMAIN nodes : Decide!P!Spilled(nodes[k]) > 0
  BY <1>5, TotalHolds
<1>7. CASE nodes[k].type = "Sort" /\ nodes[k].sortSpace = "Disk"
  <2>1. Decide!P!DiskSort(nodes[k]) # Decide!P!None
    BY <1>7, BandedSome DEF Decide!P!DiskSort
  <2>2. Decide!P!Insight("disk_sort", k, Decide!P!DiskSort(nodes[k])) \in found
    BY <1>1, <1>6, <2>1, DetectsSpills
  <2>3. Decide!P!DiskSort(nodes[k]) \in Decide!Rank(found, "disk_sort", k)
    BY <2>2, InsightIs, RankIs
  <2> QED BY <1>1, <1>6, <2>3
<1>8. CASE nodes[k].type = "Hash" /\ nodes[k].batches > 1
  <2>1. Decide!P!HashBatches(nodes[k]) # Decide!P!None
    BY <1>8, BandedSome DEF Decide!P!HashBatches
  <2>2. Decide!P!Insight("hash_batches", k, Decide!P!HashBatches(nodes[k])) \in found
    BY <1>1, <1>6, <2>1, DetectsSpills
  <2>3. Decide!P!HashBatches(nodes[k]) \in Decide!Rank(found, "hash_batches", k)
    BY <2>2, InsightIs, RankIs
  <2> QED BY <1>1, <1>6, <2>3
<1> QED BY <1>6, <1>7, <1>8 DEF Decide!P!Spilled

DiagnosedOnce(plan) ==
  LET n == plan.nodes
      found == Decide!P!DetectAll(plan) IN
  /\ \A k \in DOMAIN n : \A pair \in {{"slow_scan", "inefficient_index"}, {"stale_stats", "mis_estimate"}} :
       Decide!Cardinality({x.kind : x \in {y \in found : y.at = k /\ y.kind \in pair}}) <= 1
  /\ \A k \in DOMAIN n : \A r \in Decide!Rank(found, "disk_sort", k) :
       n[k].sortKB >= 1024 => \E t \in Decide!Rank(found, "disk_spill", 0) : t >= r
  /\ Decide!Rank(found, "disk_spill", 0) # {} =>
       /\ \E k \in DOMAIN n : Decide!Rank(found, "disk_sort", k) \cup Decide!Rank(found, "hash_batches", k) # {}
       /\ \A k \in DOMAIN n : Decide!P!Spilled(n[k]) < Decide!P!RecommendedMB(n) * 1024
       /\ Decide!P!RecommendedMB(n) > 1 =>
            \E k \in DOMAIN n : Decide!P!Spilled(n[k]) >= Decide!P!RecommendedMB(n) * 512

LEMMA PlanOnce ==
  ASSUME NEW plan \in PlanSet
  PROVE  DiagnosedOnce(plan)
<1>1. plan.nodes \in Seq(Converted)
  BY DEF PlanSet
<1>2. /\ \A k \in DOMAIN plan.nodes : Decide!P!Spilled(plan.nodes[k]) < Decide!P!RecommendedMB(plan.nodes) * 1024
      /\ Decide!P!RecommendedMB(plan.nodes) > 1 =>
           \E k \in DOMAIN plan.nodes : Decide!P!Spilled(plan.nodes[k]) >= Decide!P!RecommendedMB(plan.nodes) * 512
  BY <1>1, Recommended
<1>3. \A k \in DOMAIN plan.nodes : \A r \in Decide!Rank(Decide!P!DetectAll(plan), "disk_sort", k) :
        plan.nodes[k].sortKB >= 1024 => \E t \in Decide!Rank(Decide!P!DetectAll(plan), "disk_spill", 0) : t >= r
  BY SortInSpill
<1>4. \A k \in DOMAIN plan.nodes :
        \A pair \in {{"slow_scan", "inefficient_index"}, {"stale_stats", "mis_estimate"}} :
          Decide!Cardinality(KindsAt(Decide!P!DetectAll(plan), k, pair)) <= 1
  <2> TAKE k \in DOMAIN plan.nodes
  <2> TAKE pair \in {{"slow_scan", "inefficient_index"}, {"stale_stats", "mis_estimate"}}
  <2> QED BY PairsOnce
<1>5. Decide!Rank(Decide!P!DetectAll(plan), "disk_spill", 0) # {} =>
        \E k \in DOMAIN plan.nodes :
          Decide!Rank(Decide!P!DetectAll(plan), "disk_sort", k)
            \cup Decide!Rank(Decide!P!DetectAll(plan), "hash_batches", k) # {}
  BY SpillHasCause
<1> QED BY <1>2, <1>3, <1>4, <1>5 DEF DiagnosedOnce, KindsAt

-----------------------------------------------------------------------------
(* What the server makes of the plans of a log.                             *)

PlansOK == subject.is = "plans" => subject.of \in Seq(Decide!LogRecords)

LEMMA InitPlans == Decide!Init => PlansOK
<1>1. ASSUME NEW kind, NEW o, subject = Decide!Observation(kind, o) PROVE PlansOK
  BY <1>1 DEF PlansOK, Decide!Observation
<1>2. ASSUME subject = Decide!Logged(<< >>) PROVE PlansOK
  BY <1>2 DEF PlansOK, Decide!Logged
<1>3. ASSUME subject = Decide!Policies(<< >>) PROVE PlansOK
  BY <1>3 DEF PlansOK, Decide!Policies
<1> QED BY <1>1, <1>2, <1>3 DEF Decide!Init

LEMMA StepPlans ==
  ASSUME PlansOK, [Decide!Next]_subject
  PROVE  PlansOK'
<1>1. CASE Decide!Worsen
  BY <1>1 DEF Decide!Worsen, Decide!Observation, PlansOK
<1>2. CASE Decide!LogPlan
  <2>1. subject.of \in Seq(Decide!LogRecords)
    BY <1>2 DEF Decide!LogPlan, PlansOK
  <2>2. PICK rec \in Decide!LogRecords : subject' = Decide!Logged(Append(subject.of, rec))
    BY <1>2 DEF Decide!LogPlan
  <2>3. Append(subject.of, rec) \in Seq(Decide!LogRecords)
    BY <2>1, <2>2
  <2> HIDE DEF PlansOK
  <2>4. subject'.of = Append(subject.of, rec)
    BY <2>2 DEF Decide!Logged
  <2> QED BY <2>3, <2>4 DEF PlansOK
<1>3. CASE Decide!AddPolicy
  BY <1>3 DEF Decide!AddPolicy, Decide!Policies, PlansOK
<1>4. CASE UNCHANGED subject
  BY <1>4 DEF PlansOK
<1> QED BY <1>1, <1>2, <1>3, <1>4 DEF Decide!Next

LEMMA CaseAdvised ==
  ASSUME PlansOK
  PROVE  FilterAdvised
<1>1. SUFFICES ASSUME subject.is = "plans" PROVE FilterAdvised
  BY DEF FilterAdvised, Decide!FilterAdvised
<1>2. PICK events \in Seq(Decide!LogRecords) : events = subject.of
  BY <1>1 DEF PlansOK
<1>3. AllAdvised(events)
  BY <1>2, LogAdvised
<1>4. ShippedOf(events) = Decide!Shipped
  BY <1>2 DEF ShippedOf, Decide!Shipped
<1> QED BY <1>1, <1>2, <1>3, <1>4 DEF AllAdvised, FilterAdvised, Decide!FilterAdvised

LEMMA CaseOnce ==
  ASSUME PlansOK, CaseOK
  PROVE  OneDiagnosis
<1>1. Decide!EnginesAgree
  <2>1. SUFFICES ASSUME subject.is = "observation" PROVE Decide!EnginesAgree
    BY DEF Decide!EnginesAgree
  <2>2. PICK o : o = subject.of
    OBVIOUS
  <2>3. Decide!C!Wraparound(o) = Decide!C!FreezeAdvice(o)
    BY DEF Decide!C!Wraparound, Decide!C!FreezeAdvice
  <2>4. ASSUME subject.kind = "setting", o.name \in {"fsync", "full_page_writes", "synchronous_commit"}
        PROVE  {x.rank : x \in Decide!C!SettingChecks(o)} = {Decide!C!ConfigAdvice(o)} \ {Decide!C!None}
    <3>1. "setting" \in DOMAIN Readings /\ o \in Readings["setting"]
      BY <2>1, <2>2, <2>4 DEF CaseOK
    <3>2. o.name \in {"fsync", "full_page_writes"} => o.value \in {"on", "off"}
      BY <3>1, SettingsAssumption
    <3> QED BY <2>4, <3>2, SettingsAgree
  <2> QED BY <2>1, <2>2, <2>3, <2>4 DEF Decide!EnginesAgree
<1>2. ASSUME subject.is = "observation", subject.kind # "table", subject.kind # "freeze"
      PROVE  Decide!Cardinality({x \in Decide!C!Eval(subject.kind, subject.of) : x.rule # "config"}) <= 1
  <2>1. PICK kind, o : kind = subject.kind /\ o = subject.of
    OBVIOUS
  <2>2. kind \in KindsOfReading /\ kind \notin {"table", "freeze"}
    BY <1>2, <2>1, ReadingsAssumption DEF CaseOK
  <2> DEFINE S == {x \in Decide!C!Eval(kind, o) : x.rule # "config"}
  <2>3. \A x \in S : \A y \in S : x = y
    BY <2>2, FoundOnce
  <2> HIDE DEF S
  <2>4. Decide!Cardinality(S) <= 1
    BY <2>3, NoTwo
  <2> QED BY <2>1, <2>4 DEF S
<1>3. ASSUME subject.is = "plans", NEW i \in DOMAIN Decide!Shipped PROVE DiagnosedOnce(Decide!Shipped[i])
  <2>1. PICK events \in Seq(Decide!LogRecords) : events = subject.of
    BY <1>3 DEF PlansOK
  <2>2. ShippedOf(events) = Decide!Shipped
    BY <2>1 DEF ShippedOf, Decide!Shipped
  <2>3. PICK shipped \in Seq(PlanSet) : shipped = ShippedOf(events)
    BY <2>1, ShippedPlans
  <2>4. shipped[i] \in PlanSet
    BY <1>3, <2>2, <2>3, ElementOf
  <2> QED BY <2>2, <2>3, <2>4, PlanOnce
<1> QED BY <1>1, <1>2, <1>3 DEF OneDiagnosis, Decide!OneDiagnosis, DiagnosedOnce

\* Whatever plans are logged among whatever else, every filter of a sequential
\* scan that can be told without its literals and compares columns written
\* plainly is advised on, for all of these and, beside them, for nothing but types
\* of columns that are cast; once, with the statement of its own plan among those
\* it serves, and in whatever order the plans came (logparse.ParseStream, planextract.ExtractPlans and the merge of
\* advisor.RecommendIndexes).
THEOREM PlansAdvised == Decide!Spec => []FilterAdvised
<1>1. Decide!Spec => []PlansOK
  BY InitPlans, StepPlans, PTL DEF Decide!Spec
<1> QED BY <1>1, CaseAdvised, PTL

\* One cause has one diagnosis, for any readings and any nodes of plans: the
\* checks and the advisors agree on a setting and on the age of a database, a
\* reading has one finding (internal/checks and internal/advisor); a scan and an
\* estimate have one each, and the spills of a plan are at least as bad as its
\* worst sort, have a node they come from, and are advised the least power of two
\* that holds the largest (internal/insight).
THEOREM DiagnosedAlike == Decide!Spec => []OneDiagnosis
<1>1. Decide!Spec => []PlansOK
  BY InitPlans, StepPlans, PTL DEF Decide!Spec
<1>2. Decide!Spec => []CaseOK
  BY InitCase, StepCase, PTL DEF Decide!Spec
<1> QED BY <1>1, <1>2, CaseOnce, PTL
=============================================================================
