--------------------------- MODULE T2AccessProofs ---------------------------
(***************************************************************************)
(* Proofs about T2Access, for any actors, clusters, tabs, requests and     *)
(* capacity of the rings.  Gates change between any two calls of a         *)
(* request; what it relies on is that a gate it found open is in held and  *)
(* stays there (GatedAt), that an entry it made stays in the log           *)
(* (AuditedAt), and that a ring of runs has only audited ones of its key   *)
(* (Rings), whoever fills it.                                              *)
(*                                                                         *)
(* And of AdvicePages, for any plans, servers, windows and limits: plans   *)
(* are delivered while a page reads, but none is lost, so the newest of a  *)
(* key when it was opened is found whenever the key is read (ReadsGood).   *)
(***************************************************************************)
EXTENDS MCT2Access, SequenceTheorems, FiniteSetTheorems, WellFoundedInduction, TLAPS

\* The kinds of request that have a call p.
KindsAt(p) ==
  CASE p = "grant" -> {"run", "handoff", "export"}
    [] p = "load" -> {"handoff"}
    [] p \in {"resolve", "execute", "cache"} -> {"run", "handoff"}
    [] p = "audit" -> {"run", "handoff", "export", "read"}
    [] p \in {"latest", "stream"} -> {"export"}
    [] p \in {"view", "look"} -> {"run", "handoff", "view", "page"}
    [] p \in {"t2gate", "capability", "select"} -> {"read"}
    [] OTHER -> {}

Calls == {"grant", "load", "resolve", "execute", "cache", "audit", "latest", "stream",
          "view", "look", "t2gate", "capability", "select"}

\* What the log has of a request q that is at call p.
AuditedAt(q, p) ==
  /\ q.began <= Len(audit)
  /\ p \in {"execute", "audit", "cache"} /\ q.kind \in {"run", "handoff"} =>
       ClusterOf[q.stream] = q.cluster
  /\ p = "cache" => RunOf(q, q.entry)
  /\ p \in {"audit", "stream"} /\ q.kind = "export" => RunOf(q, q.from)
  /\ p = "stream" => EntryOf(q, "export", q.entry) /\ audit[q.entry].run = q.from
  /\ p = "select" => EntryOf(q, "read", q.entry) /\ audit[q.entry].stream = q.stream

\* The gates it has found open are among h.
GatedAt(q, p, h) ==
  /\ GatesOf(q) \cap open \subseteq h
  /\ p \in {"load", "resolve", "execute", "audit", "cache", "latest", "stream"}
       /\ q.kind # "read" => Grant(q) \in h
  /\ p = "look" => Grant(q) \in h
  /\ p \in {"execute", "audit", "cache"} /\ q.kind \in {"run", "handoff"} => Switch(q) \in h
  /\ p \in {"resolve", "execute", "audit", "cache"} /\ q.kind = "handoff" => Sight(q) \in h
  /\ p \in {"capability", "audit", "select"} /\ q.kind = "read" => Switch(q) \in h
  /\ p \in {"audit", "select"} /\ q.kind = "read" => Capability(q) \in h

TypeOf(t) ==
  /\ pc[t] \in Calls \cup {"idle"}
  /\ tab[t] \in Request \cup {Idle}
  /\ out[t] \in [what : {"nothing", "result", "export", "rows"}, run : Nat, entry : Nat]

\* A request hands out nothing before it ends.
CallOf(t) ==
  pc[t] # "idle" =>
    /\ tab[t] \in Request /\ tab[t].kind \in KindsAt(pc[t]) /\ out[t] = Nothing
    /\ AuditedAt(tab[t], pc[t]) /\ GatedAt(tab[t], pc[t], held[t])

\* What it handed out.
AuditedOut(q, o) ==
  /\ o.what \in {"result", "export"} => RunOf(q, o.run)
  /\ o.what = "export" => EntryOf(q, "export", o.entry) /\ audit[o.entry].run = o.run
  /\ o.what = "rows" => EntryOf(q, "read", o.entry) /\ audit[o.entry].stream = q.stream

GatedOut(q, o, h) ==
  /\ o.what \in {"result", "export"} => Grant(q) \in h
  /\ o.what = "rows" => Switch(q) \in h /\ Capability(q) \in h

OutOf(t) ==
  out[t].what # "nothing" =>
    tab[t] \in Request /\ AuditedOut(tab[t], out[t]) /\ GatedOut(tab[t], out[t], held[t])

\* Run i is one that the actor of key k executed in the cluster of k.
RunAt(k, i) ==
  /\ i \in 1..Len(audit)
  /\ audit[i].act = "execute" /\ audit[i].actor = k[1] /\ audit[i].cluster = k[2]

Rings ==
  /\ sessions \in [Keys -> Seq(Nat)]
  /\ \A k \in Keys : \A i \in 1..Len(sessions[k]) : RunAt(k, sessions[k][i])

Shapes ==
  /\ audit \in Seq([act : {"execute", "export", "read"}, actor : Actors, cluster : Clusters,
                    stream : Streams, run : Nat])
  /\ Len(audit) <= MaxAudit
  /\ \A u \in {tab, pc, out, held} : u = [t \in Tabs |-> u[t]]

IInv ==
  /\ Shapes /\ Rings
  /\ \A t \in Tabs : TypeOf(t) /\ CallOf(t) /\ OutOf(t)

-----------------------------------------------------------------------------
(* Requests and their gates.                                               *)

LEMMA GateFacts ==
  ASSUME NEW q
  PROVE  /\ q.kind \in {"run", "handoff", "export", "view", "page"} => Grant(q) \in GatesOf(q)
         /\ q.kind \in {"run", "handoff", "read"} => Switch(q) \in GatesOf(q)
         /\ q.kind = "handoff" => Sight(q) \in GatesOf(q)
         /\ q.kind = "read" => Capability(q) \in GatesOf(q)
BY DEF GatesOf

\* Calls that fill in a field of the request leave its gates alone.
LEMMA Filled ==
  ASSUME NEW q \in Request, NEW z \in Request,
         z.kind = q.kind, z.actor = q.actor, z.cluster = q.cluster, z.stream = q.stream,
         z.script = q.script
  PROVE  /\ Grant(z) = Grant(q) /\ Switch(z) = Switch(q) /\ Sight(z) = Sight(q)
         /\ Capability(z) = Capability(q) /\ GatesOf(z) = GatesOf(q)
         /\ sessionKey(z) = sessionKey(q)
BY DEF GatesOf, Grant, Switch, Sight, Capability, sessionKey

LEMMA RequestFields ==
  ASSUME NEW q \in Request
  PROVE  /\ q.actor \in Actors /\ q.cluster \in Clusters /\ q.stream \in Streams
         /\ {q.restore, q.from, q.began, q.entry} \subseteq 0..MaxAudit
         /\ sessionKey(q) \in Keys /\ sessionKey(q)[1] = q.actor /\ sessionKey(q)[2] = q.cluster
         /\ \A i : RunOf(q, i) <=> RunAt(sessionKey(q), i)
<1>1. /\ q.actor \in Actors /\ q.cluster \in Clusters /\ q.stream \in Streams
      /\ {q.restore, q.from, q.began, q.entry} \subseteq 0..MaxAudit
  BY DEF Request
<1> QED BY <1>1 DEF sessionKey, Keys, RunOf, RunAt

LEMMA Fill ==
  ASSUME NEW q \in Request, NEW n \in 0..MaxAudit, NEW s \in Scripts \cup {"typed", "blank"}
  PROVE  /\ [q EXCEPT !.sql = s] \in Request /\ [q EXCEPT !.from = n] \in Request
         /\ [q EXCEPT !.entry = n] \in Request
         /\ [q EXCEPT !.entry = n].entry = n /\ [q EXCEPT !.from = n].from = n
         /\ \A z \in {[q EXCEPT !.sql = s], [q EXCEPT !.from = n], [q EXCEPT !.entry = n]} :
              /\ z.kind = q.kind /\ z.actor = q.actor /\ z.cluster = q.cluster
              /\ z.stream = q.stream /\ z.script = q.script /\ z.began = q.began
         /\ [q EXCEPT !.entry = n].from = q.from
BY DEF Request

LEMMA InitIInv == Init => IInv
<1> SUFFICES ASSUME Init PROVE IInv
  OBVIOUS
<1>1. Shapes
  BY SizesAssumption DEF Init, Shapes
<1>2. Rings
  BY DEF Init, Rings
<1>3. ASSUME NEW t \in Tabs PROVE TypeOf(t) /\ CallOf(t) /\ OutOf(t)
  <2>1. pc[t] = "idle" /\ tab[t] = Idle /\ out[t] = Nothing /\ out[t].what = "nothing"
    BY DEF Init, Nothing
  <2>2. out[t] \in [what : {"nothing", "result", "export", "rows"}, run : Nat, entry : Nat]
    BY <2>1 DEF Nothing
  <2> QED BY <2>1, <2>2 DEF TypeOf, CallOf, OutOf
<1> QED BY <1>1, <1>2, <1>3 DEF IInv

-----------------------------------------------------------------------------
(* The log grows, and what is in it stays.                                 *)

LogGrows == audit' = audit \/ \E e : audit' = Append(audit, e)

LEMMA Longer ==
  ASSUME Shapes, LogGrows
  PROVE  /\ Len(audit) \in Nat /\ Len(audit') \in Nat /\ Len(audit) <= Len(audit')
         /\ \A i \in 1..Len(audit) : i \in 1..Len(audit') /\ audit'[i] = audit[i]
BY DEF Shapes, LogGrows

LEMMA RunStays ==
  ASSUME Shapes, LogGrows, NEW q, NEW k, NEW i
  PROVE  (RunOf(q, i) => RunOf(q, i)') /\ (RunAt(k, i) => RunAt(k, i)')
BY Longer DEF RunOf, RunAt

LEMMA EntryStays ==
  ASSUME Shapes, LogGrows, NEW q \in Request, NEW act, NEW i, EntryOf(q, act, i)
  PROVE  EntryOf(q, act, i)' /\ audit'[i] = audit[i]
<1>1. q.began \in Nat
  BY RequestFields, SizesAssumption
<1> QED BY <1>1, Longer DEF EntryOf

LEMMA AuditedStays ==
  ASSUME Shapes, LogGrows, NEW q \in Request, NEW p, AuditedAt(q, p)
  PROVE  AuditedAt(q, p)'
<1>1. q.began \in Nat /\ q.began <= Len(audit')
  <2>1. q.began \in Nat
    BY RequestFields, SizesAssumption
  <2> QED BY <2>1, Longer DEF AuditedAt
<1>2. p = "cache" => RunOf(q, q.entry)'
  BY RunStays DEF AuditedAt
<1>3. p \in {"audit", "stream"} /\ q.kind = "export" => RunOf(q, q.from)'
  BY RunStays DEF AuditedAt
<1>4. p = "stream" => EntryOf(q, "export", q.entry)' /\ audit'[q.entry].run = q.from
  BY EntryStays DEF AuditedAt
<1>5. p = "select" => EntryOf(q, "read", q.entry)' /\ audit'[q.entry].stream = q.stream
  BY EntryStays DEF AuditedAt
<1> QED BY <1>1, <1>2, <1>3, <1>4, <1>5 DEF AuditedAt

LEMMA OutStays ==
  ASSUME Shapes, LogGrows, NEW q \in Request, NEW o, AuditedOut(q, o)
  PROVE  AuditedOut(q, o)'
<1>1. o.what \in {"result", "export"} => RunOf(q, o.run)'
  BY RunStays DEF AuditedOut
<1>2. o.what = "export" => EntryOf(q, "export", o.entry)' /\ audit'[o.entry].run = o.run
  BY EntryStays DEF AuditedOut
<1>3. o.what = "rows" => EntryOf(q, "read", o.entry)' /\ audit'[o.entry].stream = q.stream
  BY EntryStays DEF AuditedOut
<1> QED BY <1>1, <1>2, <1>3 DEF AuditedOut

TabOf(t) == TypeOf(t) /\ CallOf(t) /\ OutOf(t)

\* A tab that nothing happens to.
LEMMA StandsStill ==
  ASSUME IInv, LogGrows, open' = open, NEW t \in Tabs,
         tab'[t] = tab[t], pc'[t] = pc[t], out'[t] = out[t], held'[t] = held[t]
  PROVE  TabOf(t)'
<1>1. Shapes /\ TypeOf(t) /\ CallOf(t) /\ OutOf(t)
  BY DEF IInv
<1>2. TypeOf(t)'
  BY <1>1 DEF TypeOf
<1>3. ASSUME pc[t] # "idle" PROVE AuditedAt(tab[t], pc[t])'
  <2> PICK q, p : q = tab[t] /\ p = pc[t]
    OBVIOUS
  <2>1. AuditedAt(q, p)'
    BY <1>1, <1>3, AuditedStays DEF CallOf
  <2> QED BY <2>1 DEF AuditedAt, RunOf, EntryOf
<1>4. CallOf(t)'
  BY <1>1, <1>3 DEF CallOf, GatedAt, AuditedAt, RunOf, EntryOf
<1>5. ASSUME out[t].what # "nothing" PROVE AuditedOut(tab[t], out[t])'
  <2> PICK q, o : q = tab[t] /\ o = out[t]
    OBVIOUS
  <2>1. AuditedOut(q, o)'
    BY <1>1, <1>5, OutStays DEF OutOf
  <2> QED BY <2>1 DEF AuditedOut, RunOf, EntryOf
<1>6. OutOf(t)'
  BY <1>1, <1>5 DEF OutOf, GatedOut, AuditedOut, RunOf, EntryOf
<1> QED BY <1>2, <1>4, <1>6 DEF TabOf
-----------------------------------------------------------------------------
(* What a request's step leaves of it.                                     *)

\* It goes on, as q with gates h, to call p.
LEMMA GoesTo ==
  ASSUME IInv, NEW t \in Tabs, pc[t] # "idle", open' = open,
         NEW q \in Request, NEW p \in Calls, NEW h,
         tab'[t] = q, pc'[t] = p, held'[t] = h, out'[t] = out[t],
         q.kind \in KindsAt(p), AuditedAt(q, p)', GatedAt(q, p, h)
  PROVE  TabOf(t)'
<1>1. out[t] = Nothing /\ TypeOf(t) /\ out[t].what = "nothing"
  BY DEF IInv, CallOf, Nothing
<1>2. TypeOf(t)'
  BY <1>1 DEF TypeOf
<1>3. CallOf(t)'
  BY <1>1 DEF CallOf, GatedAt, AuditedAt, RunOf, EntryOf
<1>4. OutOf(t)'
  BY <1>1 DEF OutOf
<1> QED BY <1>2, <1>3, <1>4 DEF TabOf

LEMMA Goes ==
  ASSUME IInv, NEW t \in Tabs, pc[t] # "idle", UNCHANGED <<open, audit>>,
         NEW q \in Request, NEW p \in Calls, NEW h,
         tab'[t] = q, pc'[t] = p, held'[t] = h, out'[t] = out[t],
         q.kind \in KindsAt(p), AuditedAt(q, p), GatedAt(q, p, h)
  PROVE  TabOf(t)'
<1>1. AuditedAt(q, p)'
  BY AuditedStays DEF IInv, LogGrows
<1> QED BY <1>1, GoesTo

\* It ends with nothing.
LEMMA Ends ==
  ASSUME IInv, NEW t \in Tabs, pc[t] # "idle", pc'[t] = "idle", tab'[t] = Idle, out'[t] = out[t]
  PROVE  TabOf(t)'
<1>1. out[t] = Nothing /\ TypeOf(t) /\ out[t].what = "nothing"
  BY DEF IInv, CallOf, Nothing
<1> QED BY <1>1 DEF TabOf, TypeOf, CallOf, OutOf

\* It ends with o.
LEMMA Hands ==
  ASSUME IInv, NEW t \in Tabs, pc[t] # "idle", UNCHANGED audit,
         NEW o \in [what : {"result", "export", "rows"}, run : Nat, entry : Nat],
         pc'[t] = "idle", tab'[t] = tab[t], held'[t] = held[t], out'[t] = o,
         AuditedOut(tab[t], o), GatedOut(tab[t], o, held[t])
  PROVE  TabOf(t)'
<1>1. tab[t] \in Request
  BY DEF IInv, CallOf
<1>2. TypeOf(t)'
  BY <1>1 DEF TypeOf
<1>3. OutOf(t)'
  BY <1>1 DEF OutOf, AuditedOut, GatedOut, RunOf, EntryOf
<1> QED BY <1>2, <1>3 DEF TabOf, CallOf

LEMMA Continues ==
  ASSUME IInv, NEW t \in Tabs, NEW next, Continue(t, next)
  PROVE  /\ UNCHANGED <<open, audit, sessions, out>> /\ pc'[t] = next
         /\ next = "idle" => tab'[t] = Idle
         /\ next # "idle" => tab'[t] = tab[t] /\ held'[t] = held[t]
         /\ \A u \in Tabs \ {t} :
              tab'[u] = tab[u] /\ pc'[u] = pc[u] /\ held'[u] = held[u]
<1>1. \A u \in {tab, pc, out, held} : u = [x \in Tabs |-> u[x]]
  BY DEF IInv, Shapes
<1> QED BY <1>1 DEF Continue, End, Goto

\* What is known of a request at its call.
LEMMA Underway ==
  ASSUME IInv, NEW t \in Tabs, pc[t] # "idle"
  PROVE  /\ tab[t] \in Request /\ tab[t].kind \in KindsAt(pc[t]) /\ out[t] = Nothing
         /\ AuditedAt(tab[t], pc[t]) /\ GatedAt(tab[t], pc[t], held[t])
         /\ pc[t] \in Calls
BY DEF IInv, CallOf, TypeOf

\* A gate that is open is held.
LEMMA Holds ==
  ASSUME IInv, NEW t \in Tabs, pc[t] # "idle"
  PROVE  LET q == tab[t] IN
         /\ q.kind # "read" /\ Grant(q) \in open => Grant(q) \in held[t]
         /\ q.kind \in {"run", "handoff", "read"} /\ Switch(q) \in open => Switch(q) \in held[t]
         /\ q.kind = "handoff" /\ Sight(q) \in open => Sight(q) \in held[t]
         /\ q.kind = "read" /\ Capability(q) \in open => Capability(q) \in held[t]
<1>1. tab[t].kind \in Kinds /\ GatesOf(tab[t]) \cap open \subseteq held[t]
  BY Underway DEF GatedAt, Request
<1>2. tab[t].kind # "read" => Grant(tab[t]) \in GatesOf(tab[t])
  BY <1>1, GateFacts DEF Kinds
<1> QED BY <1>1, <1>2, GateFacts

-----------------------------------------------------------------------------
(* The calls, one by one.                                                  *)

LEMMA StepCheckGrant ==
  ASSUME IInv, NEW t \in Tabs, CheckGrant(t)
  PROVE  TabOf(t)'
<1> DEFINE q == tab[t]
<1>0. pc[t] = "grant" /\ pc[t] # "idle" /\ q \in Request /\ q.kind \in {"run", "handoff", "export"}
      /\ AuditedAt(q, "grant") /\ GatedAt(q, "grant", held[t])
  BY Underway DEF CheckGrant, KindsAt
<1>1. ASSUME NEW p \in Calls, Continue(t, p), q.kind \in KindsAt(p),
             AuditedAt(q, p), GatedAt(q, p, held[t])
      PROVE  TabOf(t)'
  BY <1>0, <1>1, Continues, Goes DEF Calls
<1>2. CASE Continue(t, "idle")
  BY <1>0, <1>2, Continues, Ends
<1>3. CASE q.kind # "export" /\ Continue(t, "view")
  BY <1>0, <1>1, <1>3 DEF Calls, KindsAt, AuditedAt, GatedAt
<1>4. CASE ~Refused(q) /\ q.kind = "run" /\ Continue(t, "resolve")
  BY <1>0, <1>1, <1>4, Holds DEF Calls, KindsAt, AuditedAt, GatedAt, Refused
<1>5. CASE ~Refused(q) /\ q.kind = "handoff" /\ Continue(t, "load")
  BY <1>0, <1>1, <1>5, Holds DEF Calls, KindsAt, AuditedAt, GatedAt, Refused
<1>6. CASE ~Refused(q) /\ q.kind = "export" /\ Continue(t, "latest")
  BY <1>0, <1>1, <1>6, Holds DEF Calls, KindsAt, AuditedAt, GatedAt, Refused
<1> QED BY <1>0, <1>2, <1>3, <1>4, <1>5, <1>6 DEF CheckGrant

LEMMA StepLoadScript ==
  ASSUME IInv, NEW t \in Tabs, LoadScript(t)
  PROVE  TabOf(t)'
<1> DEFINE q == tab[t]
           seen == Sight(q) \in open
<1>0. pc[t] = "load" /\ pc[t] # "idle" /\ q \in Request /\ q.kind = "handoff"
      /\ AuditedAt(q, "load") /\ GatedAt(q, "load", held[t])
  BY Underway DEF LoadScript, KindsAt
<1>1. \A u \in {tab, pc} : u = [x \in Tabs |-> u[x]]
  BY DEF IInv, Shapes
<1>2. /\ tab'[t] = [q EXCEPT !.sql = IF seen THEN q.script ELSE "blank"]
      /\ pc'[t] = IF seen THEN "resolve" ELSE "view"
      /\ UNCHANGED <<open, audit, sessions, out, held>>
  BY <1>1 DEF LoadScript, Goto
<1>3. (IF seen THEN q.script ELSE "blank") \in Scripts \cup {"typed", "blank"}
  BY <1>0 DEF Request
<1>4. PICK z \in Request :
        /\ tab'[t] = z /\ z.kind = q.kind /\ z.actor = q.actor /\ z.cluster = q.cluster
        /\ z.stream = q.stream /\ z.script = q.script /\ z.began = q.began
  <2>1. 0 \in 0..MaxAudit
    BY SizesAssumption
  <2>2. PICK s \in Scripts \cup {"typed", "blank"} : tab'[t] = [q EXCEPT !.sql = s]
    BY <1>2, <1>3
  <2>3. LET z == [q EXCEPT !.sql = s] IN
        /\ z \in Request /\ z.kind = q.kind /\ z.actor = q.actor /\ z.cluster = q.cluster
        /\ z.stream = q.stream /\ z.script = q.script /\ z.began = q.began
    BY <1>0, <2>1, Fill, ZenonT(30)
  <2> QED BY <2>2, <2>3
<1>5. /\ Grant(z) = Grant(q) /\ Sight(z) = Sight(q) /\ GatesOf(z) = GatesOf(q)
  BY <1>0, <1>4, Filled
<1>6. seen => Sight(q) \in held[t]
  BY <1>0, Holds
<1>7. ASSUME NEW p \in Calls, pc'[t] = p, p = "view" \/ (p = "resolve" /\ seen) PROVE TabOf(t)'
  <2>1. z.kind \in KindsAt(p)
    BY <1>0, <1>4, <1>7 DEF KindsAt
  <2>2. AuditedAt(z, p)
    BY <1>0, <1>4, <1>7 DEF AuditedAt
  <2>3. GatedAt(z, p, held[t])
    BY <1>0, <1>4, <1>5, <1>6, <1>7 DEF GatedAt
  <2> HIDE DEF seen, q
  <2> QED BY <1>0, <1>2, <1>4, <1>7, <2>1, <2>2, <2>3, Goes
<1>8. CASE seen
  BY <1>2, <1>7, <1>8 DEF Calls
<1>9. CASE ~seen
  BY <1>2, <1>7, <1>9 DEF Calls
<1> QED BY <1>8, <1>9

\* A call that changes nothing but the call: q goes on to p.
LEMMA Advances ==
  ASSUME IInv, NEW t \in Tabs, pc[t] # "idle", NEW p \in Calls, Continue(t, p),
         tab[t].kind \in KindsAt(p), AuditedAt(tab[t], p), GatedAt(tab[t], p, held[t])
  PROVE  TabOf(t)'
<1>1. tab[t] \in Request
  BY Underway
<1> QED BY <1>1, Continues, Goes DEF Calls

LEMMA Stops ==
  ASSUME IInv, NEW t \in Tabs, pc[t] # "idle", Continue(t, "idle")
  PROVE  TabOf(t)'
BY Continues, Ends

LEMMA StepResolve ==
  ASSUME IInv, NEW t \in Tabs, Resolve(t)
  PROVE  TabOf(t)'
<1> DEFINE q == tab[t]
<1>0. pc[t] = "resolve" /\ pc[t] # "idle" /\ q \in Request /\ q.kind \in {"run", "handoff"}
      /\ AuditedAt(q, "resolve") /\ GatedAt(q, "resolve", held[t])
  BY Underway DEF Resolve, KindsAt
<1>1. CASE /\ ClusterOf[q.stream] = q.cluster /\ Switch(q) \in open
           /\ Continue(t, "execute")
  <2>1. q.kind \in KindsAt("execute") /\ AuditedAt(q, "execute")
    BY <1>0, <1>1 DEF KindsAt, AuditedAt
  <2>2. GatedAt(q, "execute", held[t])
    BY <1>0, <1>1, Holds DEF GatedAt
  <2> QED BY <1>0, <1>1, <2>1, <2>2, Advances DEF Calls
<1>2. CASE Continue(t, "view")
  BY <1>0, <1>2, Advances DEF Calls, KindsAt, AuditedAt, GatedAt
<1> QED BY <1>1, <1>2 DEF Resolve

LEMMA StepExecute ==
  ASSUME IInv, NEW t \in Tabs, Execute(t)
  PROVE  TabOf(t)'
<1>0. pc[t] = "execute" /\ pc[t] # "idle" /\ tab[t].kind \in {"run", "handoff"}
      /\ AuditedAt(tab[t], "execute") /\ GatedAt(tab[t], "execute", held[t])
  BY Underway DEF Execute, KindsAt
<1>1. AuditedAt(tab[t], "audit") /\ GatedAt(tab[t], "audit", held[t])
  BY <1>0 DEF AuditedAt, GatedAt
<1> QED BY <1>0, <1>1, Advances DEF Execute, Calls, KindsAt

LEMMA StepView ==
  ASSUME IInv, NEW t \in Tabs, View(t)
  PROVE  TabOf(t)'
<1>0. pc[t] = "view" /\ pc[t] # "idle" /\ tab[t].kind \in {"run", "handoff", "view", "page"}
      /\ AuditedAt(tab[t], "view") /\ GatedAt(tab[t], "view", held[t])
  BY Underway DEF View, KindsAt
<1>1. CASE Continue(t, "idle")
  BY <1>0, <1>1, Stops
<1>2. CASE ~Refused(tab[t]) /\ Continue(t, "look")
  <2>1. GatedAt(tab[t], "look", held[t])
    BY <1>0, <1>2, Holds DEF Refused, GatedAt
  <2>2. AuditedAt(tab[t], "look")
    BY <1>0 DEF AuditedAt
  <2> QED BY <1>0, <1>2, <2>1, <2>2, Advances DEF Calls, KindsAt
<1> QED BY <1>1, <1>2 DEF View

LEMMA StepCheckT2 ==
  ASSUME IInv, NEW t \in Tabs, CheckT2(t)
  PROVE  TabOf(t)'
<1>0. pc[t] = "t2gate" /\ pc[t] # "idle" /\ tab[t].kind = "read"
      /\ AuditedAt(tab[t], "t2gate") /\ GatedAt(tab[t], "t2gate", held[t])
  BY Underway DEF CheckT2, KindsAt
<1>1. CASE Continue(t, "idle")
  BY <1>0, <1>1, Stops
<1>2. CASE Switch(tab[t]) \in open /\ Continue(t, "capability")
  <2>1. GatedAt(tab[t], "capability", held[t])
    BY <1>0, <1>2, Holds DEF GatedAt
  <2>2. AuditedAt(tab[t], "capability")
    BY <1>0 DEF AuditedAt
  <2> QED BY <1>0, <1>2, <2>1, <2>2, Advances DEF Calls, KindsAt
<1> QED BY <1>1, <1>2 DEF CheckT2

LEMMA StepCheckCapability ==
  ASSUME IInv, NEW t \in Tabs, CheckCapability(t)
  PROVE  TabOf(t)'
<1>0. pc[t] = "capability" /\ pc[t] # "idle" /\ tab[t].kind = "read"
      /\ AuditedAt(tab[t], "capability") /\ GatedAt(tab[t], "capability", held[t])
  BY Underway DEF CheckCapability, KindsAt
<1>1. CASE Continue(t, "idle")
  BY <1>0, <1>1, Stops
<1>2. CASE Capability(tab[t]) \in open /\ Continue(t, "audit")
  <2>1. GatedAt(tab[t], "audit", held[t])
    BY <1>0, <1>2, Holds DEF GatedAt
  <2>2. AuditedAt(tab[t], "audit")
    BY <1>0 DEF AuditedAt
  <2> QED BY <1>0, <1>2, <2>1, <2>2, Advances DEF Calls, KindsAt
<1> QED BY <1>1, <1>2 DEF CheckCapability

LEMMA StepFail ==
  ASSUME IInv, NEW t \in Tabs, Fail(t)
  PROVE  TabOf(t)'
<1> DEFINE q == tab[t]
<1>0. /\ pc[t] # "idle" /\ q \in Request /\ q.kind \in KindsAt(pc[t])
      /\ AuditedAt(q, pc[t]) /\ GatedAt(q, pc[t], held[t])
  BY Underway DEF Fail
<1>1. CASE Continue(t, "idle")
  BY <1>0, <1>1, Stops
<1>2. CASE q.kind = "handoff" /\ Continue(t, "view")
  BY <1>0, <1>2, Advances DEF Calls, KindsAt, AuditedAt, GatedAt
<1> QED BY <1>1, <1>2 DEF Fail, GiveUp

\* The latest run of a ring, for a request of its key.
LEMMA HeadOfRing ==
  ASSUME IInv, NEW q \in Request, sessions[sessionKey(q)] # << >>
  PROVE  LET i == Head(sessions[sessionKey(q)]) IN RunOf(q, i) /\ i \in 0..MaxAudit
<1> DEFINE runs == sessions[sessionKey(q)]
<1>1. sessionKey(q) \in Keys /\ \A i : RunOf(q, i) <=> RunAt(sessionKey(q), i)
  BY RequestFields
<1>2. runs \in Seq(Nat) /\ \A i \in 1..Len(runs) : RunAt(sessionKey(q), runs[i])
  BY <1>1 DEF IInv, Rings
<1>3. 1 \in 1..Len(runs) /\ Head(runs) = runs[1]
  BY <1>2
<1>4. RunOf(q, runs[1])
  BY <1>1, <1>2, <1>3
<1>5. runs[1] \in 0..MaxAudit
  BY <1>4, SizesAssumption DEF RunOf, IInv, Shapes
<1> QED BY <1>3, <1>4, <1>5

LEMMA StepTakeLatest ==
  ASSUME IInv, NEW t \in Tabs, TakeLatest(t)
  PROVE  TabOf(t)'
<1> DEFINE q == tab[t]
           runs == sessions[sessionKey(q)]
<1>0. pc[t] = "latest" /\ pc[t] # "idle" /\ q \in Request /\ q.kind = "export"
      /\ AuditedAt(q, "latest") /\ GatedAt(q, "latest", held[t])
  BY Underway DEF TakeLatest, KindsAt
<1>1. CASE Continue(t, "idle")
  BY <1>0, <1>1, Stops
<1>2. CASE runs # << >> /\ ~Continue(t, "idle")
  <2>1. \A u \in {tab, pc} : u = [x \in Tabs |-> u[x]]
    BY DEF IInv, Shapes
  <2>2. /\ tab'[t] = [q EXCEPT !.from = Head(runs)] /\ pc'[t] = "audit"
        /\ UNCHANGED <<open, audit, sessions, out, held>>
    BY <1>2, <2>1 DEF TakeLatest, Goto
  <2>3. RunOf(q, Head(runs)) /\ Head(runs) \in 0..MaxAudit
    BY <1>0, <1>2, HeadOfRing
  <2>4. PICK n \in 0..MaxAudit : n = Head(runs)
    BY <2>3
  <2>5. PICK z \in Request :
          /\ z = [q EXCEPT !.from = n] /\ z.from = n
          /\ z.kind = q.kind /\ z.actor = q.actor /\ z.cluster = q.cluster
          /\ z.stream = q.stream /\ z.script = q.script /\ z.began = q.began
    <3>1. "blank" \in Scripts \cup {"typed", "blank"}
      OBVIOUS
    <3> QED BY <1>0, <3>1, Fill, ZenonT(30)
  <2>6. Grant(z) = Grant(q) /\ GatesOf(z) = GatesOf(q)
    BY <1>0, <2>5, Filled
  <2>7. z.kind \in KindsAt("audit") /\ GatedAt(z, "audit", held[t])
    BY <1>0, <2>5, <2>6 DEF KindsAt, GatedAt
  <2>8. AuditedAt(z, "audit")
    BY <1>0, <2>3, <2>4, <2>5 DEF AuditedAt, RunOf
  <2>9. tab'[t] = z /\ "audit" \in Calls
    BY <2>2, <2>4, <2>5 DEF Calls
  <2> HIDE DEF q, runs
  <2> QED BY <1>0, <2>2, <2>7, <2>8, <2>9, Goes
<1> QED BY <1>1, <1>2 DEF TakeLatest

LEMMA StepLook ==
  ASSUME IInv, NEW t \in Tabs, Look(t)
  PROVE  TabOf(t)'
<1> DEFINE q == tab[t]
           runs == sessions[sessionKey(q)]
<1>0. pc[t] = "look" /\ pc[t] # "idle" /\ q \in Request
      /\ AuditedAt(q, "look") /\ GatedAt(q, "look", held[t])
  BY Underway DEF Look
<1>1. CASE Continue(t, "idle")
  BY <1>0, <1>1, Stops
<1>2. ASSUME NEW i, HandOut(t, "result", i), RunOf(q, i) PROVE TabOf(t)'
  <2>1. \A u \in {pc, out} : u = [x \in Tabs |-> u[x]]
    BY DEF IInv, Shapes
  <2>2. PICK o : o = [what |-> "result", run |-> i, entry |-> q.entry]
    OBVIOUS
  <2>3. /\ out'[t] = o /\ pc'[t] = "idle"
        /\ UNCHANGED <<open, audit, sessions, tab, held>>
    BY <1>2, <2>1, <2>2 DEF HandOut, Goto
  <2>4. i \in Nat /\ q.entry \in Nat
    BY <1>0, <1>2, RequestFields, SizesAssumption DEF RunOf, IInv, Shapes
  <2>5. o \in [what : {"result", "export", "rows"}, run : Nat, entry : Nat]
    BY <2>2, <2>4
  <2>6. AuditedOut(q, o) /\ GatedOut(q, o, held[t])
    BY <1>0, <1>2, <2>2 DEF AuditedOut, GatedOut, GatedAt
  <2> QED BY <1>0, <2>3, <2>5, <2>6, Hands
<1>3. CASE q.restore = 0 /\ runs # << >> /\ HandOut(t, "result", Head(runs))
  BY <1>0, <1>2, <1>3, HeadOfRing
<1>4. CASE (\E i \in 1..Len(runs) : runs[i] = q.restore) /\ HandOut(t, "result", q.restore)
  <2>1. RunOf(q, q.restore)
    BY <1>0, <1>4, RequestFields DEF IInv, Rings
  <2> QED BY <1>2, <1>4, <2>1
<1> QED BY <1>1, <1>3, <1>4 DEF Look

LEMMA StepStream ==
  ASSUME IInv, NEW t \in Tabs, Stream(t)
  PROVE  TabOf(t)'
<1> DEFINE q == tab[t]
<1>0. pc[t] = "stream" /\ pc[t] # "idle" /\ q \in Request /\ q.kind = "export"
      /\ AuditedAt(q, "stream") /\ GatedAt(q, "stream", held[t])
  BY Underway DEF Stream, KindsAt
<1>1. \A u \in {pc, out} : u = [x \in Tabs |-> u[x]]
  BY DEF IInv, Shapes
<1>2. PICK o : o = [what |-> "export", run |-> q.from, entry |-> q.entry]
  OBVIOUS
<1>3. out'[t] = o /\ pc'[t] = "idle" /\ UNCHANGED <<open, audit, sessions, tab, held>>
  BY <1>1, <1>2 DEF Stream, HandOut, Goto
<1>4. q.from \in Nat /\ q.entry \in Nat
  BY <1>0, RequestFields, SizesAssumption
<1>5. o \in [what : {"result", "export", "rows"}, run : Nat, entry : Nat]
  BY <1>2, <1>4
<1>6. AuditedOut(q, o) /\ GatedOut(q, o, held[t])
  BY <1>0, <1>2 DEF AuditedOut, GatedOut, AuditedAt, GatedAt
<1> QED BY <1>0, <1>3, <1>5, <1>6, Hands

LEMMA StepSelect ==
  ASSUME IInv, NEW t \in Tabs, Select(t)
  PROVE  TabOf(t)'
<1> DEFINE q == tab[t]
<1>0. pc[t] = "select" /\ pc[t] # "idle" /\ q \in Request /\ q.kind = "read"
      /\ AuditedAt(q, "select") /\ GatedAt(q, "select", held[t])
  BY Underway DEF Select, KindsAt
<1>1. \A u \in {pc, out} : u = [x \in Tabs |-> u[x]]
  BY DEF IInv, Shapes
<1>2. PICK o : o = [what |-> "rows", run |-> 0, entry |-> q.entry]
  OBVIOUS
<1>3. out'[t] = o /\ pc'[t] = "idle" /\ UNCHANGED <<open, audit, sessions, tab, held>>
  BY <1>1, <1>2 DEF Select, HandOut, Goto
<1>4. o \in [what : {"result", "export", "rows"}, run : Nat, entry : Nat]
  BY <1>0, <1>2, RequestFields, SizesAssumption
<1>5. AuditedOut(q, o) /\ GatedOut(q, o, held[t])
  BY <1>0, <1>2 DEF AuditedOut, GatedOut, AuditedAt, GatedAt
<1> QED BY <1>0, <1>3, <1>4, <1>5, Hands

LEMMA StepCache ==
  ASSUME IInv, NEW t \in Tabs, Cache(t)
  PROVE  TabOf(t)'
<1>0. pc[t] = "cache" /\ pc[t] # "idle" /\ tab[t] \in Request /\ tab[t].kind \in {"run", "handoff"}
      /\ AuditedAt(tab[t], "cache") /\ GatedAt(tab[t], "cache", held[t])
  BY Underway DEF Cache, KindsAt
<1>1. pc = [x \in Tabs |-> pc[x]]
  BY DEF IInv, Shapes
<1>2. pc'[t] = "view" /\ UNCHANGED <<open, audit, tab, out, held>>
  BY <1>1 DEF Cache, Goto
<1>3. AuditedAt(tab[t], "view") /\ GatedAt(tab[t], "view", held[t])
  BY <1>0 DEF AuditedAt, GatedAt
<1> QED BY <1>0, <1>2, <1>3, Goes DEF KindsAt, Calls

\* The entry a request makes, once it is in the log.
LEMMA Logged ==
  ASSUME IInv, NEW q \in Request, audit' = Append(audit, Entry(q)),
         q.began <= Len(audit), NEW n, n = Len(audit) + 1
  PROVE  /\ n \in 1..Len(audit') /\ audit'[n] = Entry(q) /\ LogGrows
         /\ q.kind = "export" => EntryOf(q, "export", n)' /\ audit'[n].run = q.from
         /\ q.kind = "read" => EntryOf(q, "read", n)' /\ audit'[n].stream = q.stream
         /\ q.kind \in {"run", "handoff"} /\ ClusterOf[q.stream] = q.cluster => RunOf(q, n)'
<1>1. audit \in Seq([act : {"execute", "export", "read"}, actor : Actors, cluster : Clusters,
                     stream : Streams, run : Nat])
  BY DEF IInv, Shapes
<1>2. n \in 1..Len(audit') /\ audit'[n] = Entry(q) /\ Len(audit') = n
  BY <1>1
<1>3. LogGrows
  BY DEF LogGrows
<1>4. q.began \in Nat /\ n \in (q.began + 1)..Len(audit')
  BY <1>1, <1>2, RequestFields, SizesAssumption
<1>5. q.kind = "export" => Entry(q).act = "export" /\ Entry(q).run = q.from
  BY DEF Entry
<1>6. q.kind = "read" => Entry(q).act = "read" /\ Entry(q).stream = q.stream
  BY DEF Entry
<1>7. q.kind \in {"run", "handoff"} =>
        Entry(q).act = "execute" /\ Entry(q).cluster = ClusterOf[q.stream]
  BY DEF Entry
<1>8. Entry(q).actor = q.actor
  BY DEF Entry
<1> QED BY <1>2, <1>3, <1>4, <1>5, <1>6, <1>7, <1>8 DEF EntryOf, RunOf

LEMMA StepAudit ==
  ASSUME IInv, NEW t \in Tabs, Audit(t)
  PROVE  TabOf(t)'
<1>0. PICK q \in Request :
        /\ q = tab[t] /\ pc[t] = "audit" /\ pc[t] # "idle"
        /\ q.kind \in {"run", "handoff", "export", "read"}
        /\ AuditedAt(q, "audit") /\ GatedAt(q, "audit", held[t])
  BY Underway DEF Audit, KindsAt
<1>1. \A u \in {tab, pc} : u = [x \in Tabs |-> u[x]]
  BY DEF IInv, Shapes
<1>2. PICK n \in 0..MaxAudit : n = Len(audit) + 1
  BY SizesAssumption DEF Audit, IInv, Shapes
<1>3. PICK p \in {"stream", "select", "cache"} :
        p = CASE q.kind = "export" -> "stream" [] q.kind = "read" -> "select"
              [] OTHER -> "cache"
  OBVIOUS
<1>4. /\ audit' = Append(audit, Entry(q)) /\ tab'[t] = [q EXCEPT !.entry = n]
      /\ pc'[t] = p /\ UNCHANGED <<open, sessions, out, held>>
  BY <1>0, <1>1, <1>2, <1>3 DEF Audit, Goto
<1>5. PICK z \in Request :
        /\ z = [q EXCEPT !.entry = n] /\ z.entry = n /\ z.from = q.from
        /\ z.kind = q.kind /\ z.actor = q.actor /\ z.cluster = q.cluster
        /\ z.stream = q.stream /\ z.script = q.script /\ z.began = q.began
  <2>1. "blank" \in Scripts \cup {"typed", "blank"}
    OBVIOUS
  <2> QED BY <2>1, Fill, ZenonT(30)
<1>6. /\ LogGrows /\ n \in 1..Len(audit') /\ q.began <= Len(audit')
      /\ q.kind = "export" => EntryOf(q, "export", n)' /\ audit'[n].run = q.from
      /\ q.kind = "read" => EntryOf(q, "read", n)' /\ audit'[n].stream = q.stream
      /\ q.kind \in {"run", "handoff"} => RunOf(q, n)'
      /\ q.kind = "export" => RunOf(q, q.from)'
  <2>1. q.began <= Len(audit) /\ q.began \in Nat
    BY <1>0, RequestFields, SizesAssumption DEF AuditedAt
  <2>2. q.kind \in {"run", "handoff"} => ClusterOf[q.stream] = q.cluster
    BY <1>0 DEF AuditedAt
  <2>3. /\ LogGrows /\ n \in 1..Len(audit')
        /\ q.kind = "export" => EntryOf(q, "export", n)' /\ audit'[n].run = q.from
        /\ q.kind = "read" => EntryOf(q, "read", n)' /\ audit'[n].stream = q.stream
        /\ q.kind \in {"run", "handoff"} => RunOf(q, n)'
    BY <1>2, <1>4, <2>1, <2>2, Logged
  <2>4. q.kind = "export" => RunOf(q, q.from)'
    BY <1>0, <2>3, RunStays DEF AuditedAt, IInv
  <2>5. q.began <= Len(audit')
    BY <2>1, <2>3, Longer DEF IInv
  <2> QED BY <2>3, <2>4, <2>5
<1>7. z.kind \in KindsAt(p) /\ p \in Calls
  BY <1>0, <1>3, <1>5 DEF KindsAt, Calls
<1>8. AuditedAt(z, p)'
  <2>1. CASE q.kind = "export"
    <3>1. p = "stream" /\ z.kind = "export"
      BY <1>3, <1>5, <2>1
    <3>2. RunOf(z, z.from)' /\ EntryOf(z, "export", z.entry)' /\ audit'[z.entry].run = z.from
      BY <1>5, <1>6, <2>1 DEF RunOf, EntryOf
    <3> QED BY <1>5, <1>6, <3>1, <3>2 DEF AuditedAt
  <2>2. CASE q.kind = "read"
    <3>1. p = "select" /\ z.kind = "read"
      BY <1>3, <1>5, <2>2
    <3>2. EntryOf(z, "read", z.entry)' /\ audit'[z.entry].stream = z.stream
      BY <1>5, <1>6, <2>2 DEF EntryOf
    <3> QED BY <1>5, <1>6, <3>1, <3>2 DEF AuditedAt
  <2>3. CASE q.kind \in {"run", "handoff"}
    <3>1. p = "cache" /\ z.kind \in {"run", "handoff"} /\ ClusterOf[z.stream] = z.cluster
      BY <1>0, <1>3, <1>5, <2>3 DEF AuditedAt
    <3>2. RunOf(z, z.entry)'
      BY <1>5, <1>6, <2>3 DEF RunOf
    <3> QED BY <1>5, <1>6, <3>1, <3>2 DEF AuditedAt
  <2> QED BY <1>0, <2>1, <2>2, <2>3
<1>9. GatedAt(z, p, held[t])
  <2>1. /\ Grant(z) = Grant(q) /\ Switch(z) = Switch(q) /\ Sight(z) = Sight(q)
        /\ Capability(z) = Capability(q) /\ GatesOf(z) = GatesOf(q)
    BY <1>5, Filled
  <2> QED BY <1>0, <1>3, <1>5, <2>1 DEF GatedAt
<1>10. tab'[t] = z /\ pc'[t] = p /\ held'[t] = held[t] /\ out'[t] = out[t] /\ open' = open
  BY <1>4, <1>5
<1> QED BY <1>0, <1>7, <1>8, <1>9, <1>10, GoesTo

LEMMA StepAuditFails ==
  ASSUME IInv, NEW t \in Tabs, AuditFails(t)
  PROVE  TabOf(t)'
<1>0. PICK q \in Request :
        /\ q = tab[t] /\ pc[t] = "audit" /\ pc[t] # "idle"
        /\ AuditedAt(q, "audit") /\ GatedAt(q, "audit", held[t])
  BY Underway DEF AuditFails
<1>1. \A u \in {tab, pc} : u = [x \in Tabs |-> u[x]]
  BY DEF IInv, Shapes
<1>2. LogGrows /\ UNCHANGED <<open, sessions, out>>
  BY DEF AuditFails, LogGrows
<1>3. CASE End(t)
  <2>1. pc'[t] = "idle" /\ tab'[t] = Idle
    BY <1>1, <1>3 DEF End, Goto
  <2> QED BY <1>0, <1>2, <2>1, Ends
<1>4. CASE q.kind = "handoff" /\ Goto(t, "view") /\ UNCHANGED <<tab, held>>
  <2>1. pc'[t] = "view" /\ tab'[t] = q /\ held'[t] = held[t] /\ out'[t] = out[t]
    BY <1>0, <1>1, <1>2, <1>4 DEF Goto
  <2>2. AuditedAt(q, "audit")'
    BY <1>0, <1>2, AuditedStays DEF IInv
  <2>3. AuditedAt(q, "view")'
    BY <2>2 DEF AuditedAt
  <2>4. GatedAt(q, "view", held[t])
    BY <1>0 DEF GatedAt
  <2>5. q.kind \in KindsAt("view") /\ "view" \in Calls
    BY <1>4 DEF KindsAt, Calls
  <2> QED BY <1>0, <1>2, <2>1, <2>3, <2>4, <2>5, GoesTo
<1> QED BY <1>0, <1>3, <1>4 DEF AuditFails

-----------------------------------------------------------------------------
(* Requests that arrive.                                                   *)

LEMMA Starts ==
  ASSUME IInv, NEW t \in Tabs, NEW q \in Request, q.began = Len(audit), Start(q, t)
  PROVE  TabOf(t)'
<1>1. \A u \in {tab, pc, out, held} : u = [x \in Tabs |-> u[x]]
  BY DEF IInv, Shapes
<1>2. PICK p \in {"t2gate", "view", "grant"} :
        p = CASE q.kind = "read" -> "t2gate" [] q.kind \in {"view", "page"} -> "view"
              [] OTHER -> "grant"
  OBVIOUS
<1>3. PICK h : h = GatesOf(q) \cap open
  OBVIOUS
<1>4. /\ tab'[t] = q /\ out'[t] = Nothing /\ held'[t] = h /\ pc'[t] = p
      /\ UNCHANGED <<open, audit, sessions>>
  BY <1>1, <1>2, <1>3 DEF Start, Goto
<1>5. q.kind \in KindsAt(p) /\ p \in Calls
  <2>1. q.kind \in {"run", "handoff", "view", "page", "export", "read"}
    BY DEF Request, Kinds
  <2> QED BY <1>2, <2>1 DEF KindsAt, Calls
<1>6. AuditedAt(q, p) /\ GatedAt(q, p, h)
  BY <1>2, <1>3, RequestFields, SizesAssumption DEF AuditedAt, GatedAt
<1>7. TypeOf(t)'
  BY <1>4, <1>5 DEF TypeOf, Nothing
<1>8. CallOf(t)'
  BY <1>4, <1>5, <1>6 DEF CallOf, AuditedAt, GatedAt, RunOf, EntryOf
<1>9. OutOf(t)'
  BY <1>4 DEF OutOf, Nothing
<1> QED BY <1>7, <1>8, <1>9 DEF TabOf

LEMMA StepBegin ==
  ASSUME IInv, NEW t \in Tabs, Begin(t)
  PROVE  TabOf(t)'
<1>1. PICK ask \in Asks[t], restore \in 0..Len(audit) :
        Start([kind |-> ask.kind, actor |-> ask.actor, cluster |-> ask.cluster,
               stream |-> ask.stream, script |-> ask.script, sql |-> ask.sql,
               restore |-> restore, from |-> 0, began |-> Len(audit), entry |-> 0], t)
  BY DEF Begin
<1>2. PICK q :
        q = [kind |-> ask.kind, actor |-> ask.actor, cluster |-> ask.cluster,
             stream |-> ask.stream, script |-> ask.script, sql |-> ask.sql,
             restore |-> restore, from |-> 0, began |-> Len(audit), entry |-> 0]
  OBVIOUS
<1>3. ask \in [kind : {"run", "handoff", "view", "export", "read"}, actor : Actors,
               cluster : Clusters, stream : Streams, script : Scripts,
               sql : {"typed", "blank"}]
  BY AsksAssumption
<1>4. {restore, 0, Len(audit)} \subseteq 0..MaxAudit
  BY SizesAssumption DEF IInv, Shapes
<1>5. q \in Request
  BY <1>2, <1>3, <1>4 DEF Request, Kinds
<1> QED BY <1>1, <1>2, <1>5, Starts

LEMMA StepBeginPage ==
  ASSUME IInv, NEW t \in Tabs, BeginPage(t)
  PROVE  TabOf(t)'
<1>1. tab[t] \in Request /\ RunOf(tab[t], out[t].run)
  BY DEF BeginPage, IInv, OutOf, AuditedOut
<1>2. PICK q :
        q = [tab[t] EXCEPT !.kind = "page", !.restore = 0, !.sql = "blank",
                           !.from = out[t].run, !.began = Len(audit), !.entry = 0]
  OBVIOUS
<1>3. {out[t].run, 0, Len(audit)} \subseteq 0..MaxAudit
  BY <1>1, SizesAssumption DEF IInv, Shapes, RunOf
<1>4. q \in Request /\ q.began = Len(audit)
  BY <1>1, <1>2, <1>3 DEF Request, Kinds
<1> QED BY <1>2, <1>4, Starts DEF BeginPage

-----------------------------------------------------------------------------
(* What others do to a request.                                            *)

LEMMA StepChangeGate ==
  ASSUME IInv, NEW t \in Tabs, ChangeGate
  PROVE  TabOf(t)'
<1>1. UNCHANGED <<audit, sessions, tab, pc, out>> /\ TypeOf(t) /\ CallOf(t) /\ OutOf(t)
  BY DEF ChangeGate, IInv
<1>2. /\ held[t] \subseteq held'[t]
      /\ pc[t] # "idle" => GatesOf(tab[t]) \cap open' \subseteq held'[t]
  BY DEF ChangeGate
<1>3. TypeOf(t)'
  BY <1>1 DEF TypeOf
<1>4. ASSUME pc[t] # "idle" PROVE AuditedAt(tab[t], pc[t])' /\ GatedAt(tab[t], pc[t], held[t])'
  <2>1. AuditedAt(tab[t], pc[t]) /\ GatedAt(tab[t], pc[t], held[t])
    BY <1>1, <1>4 DEF CallOf
  <2>2. AuditedAt(tab[t], pc[t])'
    BY <1>1, <2>1 DEF AuditedAt, RunOf, EntryOf
  <2>3. GatedAt(tab[t], pc[t], held[t])'
    BY <1>1, <1>2, <1>4, <2>1 DEF GatedAt
  <2> QED BY <2>2, <2>3
<1>5. CallOf(t)'
  BY <1>1, <1>4 DEF CallOf
<1>6. OutOf(t)'
  BY <1>1, <1>2 DEF OutOf, AuditedOut, GatedOut, RunOf, EntryOf
<1> QED BY <1>3, <1>5, <1>6 DEF TabOf

LEMMA StepRestart ==
  ASSUME IInv, NEW t \in Tabs, Restart
  PROVE  TabOf(t)'
<1>1. pc'[t] = "idle" /\ tab'[t] = Idle /\ out'[t] = Nothing
  BY DEF Restart
<1> QED BY <1>1 DEF TabOf, TypeOf, CallOf, OutOf, Nothing

-----------------------------------------------------------------------------
(* A request's step leaves the other requests alone.                       *)

FunctionForms(a, b, c, d) ==
  /\ a = [t \in Tabs |-> a[t]] /\ b = [t \in Tabs |-> b[t]]
  /\ c = [t \in Tabs |-> c[t]] /\ d = [t \in Tabs |-> d[t]]

Local(t) ==
  /\ FunctionForms(tab', pc', out', held')
  /\ \A u \in Tabs \ {t} :
       tab'[u] = tab[u] /\ pc'[u] = pc[u] /\ out'[u] = out[u] /\ held'[u] = held[u]

\* The log stays or gets an entry of a request; it is full at MaxAudit.
LogOf ==
  \/ audit' = audit
  \/ \E q \in Request : audit' = Append(audit, Entry(q)) /\ Len(audit) < MaxAudit

LEMMA StepIsLocal ==
  ASSUME IInv, NEW t \in Tabs, Begin(t) \/ BeginPage(t) \/ Handle(t)
  PROVE  Local(t) /\ LogOf /\ open' = open /\ (sessions' = sessions \/ Cache(t))
<1>0. FunctionForms(tab, pc, out, held)
  BY DEF IInv, Shapes, FunctionForms
<1> DEFINE Goal == Local(t) /\ LogOf /\ open' = open /\ (sessions' = sessions \/ Cache(t))
<1>1. ASSUME NEW q, Start(q, t) PROVE Goal
  BY <1>0, <1>1 DEF Start, Goto, Local, LogOf, FunctionForms
<1>2. ASSUME NEW next, Continue(t, next) PROVE Goal
  BY <1>0, <1>2 DEF Continue, End, Goto, Local, LogOf, FunctionForms
<1>3. ASSUME NEW what, NEW run, HandOut(t, what, run) PROVE Goal
  BY <1>0, <1>3 DEF HandOut, Goto, Local, LogOf, FunctionForms
<1>4. CASE LoadScript(t)
  BY <1>0, <1>4 DEF LoadScript, Goto, Local, LogOf, FunctionForms
<1>5. CASE TakeLatest(t) /\ ~Continue(t, "idle")
  BY <1>0, <1>5 DEF TakeLatest, Goto, Local, LogOf, FunctionForms
<1>6. CASE Audit(t)
  <2>1. tab[t] \in Request
    BY <1>6, Underway DEF Audit
  <2>2. LogOf
    BY <1>6, <2>1 DEF Audit, LogOf
  <2> QED BY <1>0, <1>6, <2>2 DEF Audit, Goto, Local, FunctionForms
<1>7. CASE AuditFails(t)
  <2>1. tab[t] \in Request
    BY <1>7, Underway DEF AuditFails
  <2>2. LogOf
    BY <1>7, <2>1 DEF AuditFails, LogOf
  <2> QED BY <1>0, <1>7, <2>2 DEF AuditFails, End, Goto, Local, FunctionForms
<1>8. CASE Cache(t)
  BY <1>0, <1>8 DEF Cache, Goto, Local, LogOf, FunctionForms
<1>9. CASE Begin(t) \/ BeginPage(t)
  BY <1>1, <1>9 DEF Begin, BeginPage
<1>10. CASE CheckGrant(t) \/ Resolve(t) \/ Execute(t) \/ View(t) \/ CheckT2(t)
            \/ CheckCapability(t) \/ Fail(t)
  BY <1>2, <1>10 DEF CheckGrant, Resolve, Execute, View, CheckT2, CheckCapability, Fail
<1>11. CASE Look(t) \/ Stream(t) \/ Select(t)
  BY <1>2, <1>3, <1>11 DEF Look, Stream, Select
<1> QED BY <1>2, <1>4, <1>5, <1>6, <1>7, <1>8, <1>9, <1>10, <1>11 DEF Handle

\* Entries are of the shape the log has.
LEMMA LogKeepsShape ==
  ASSUME IInv, LogOf
  PROVE  /\ LogGrows /\ Len(audit') <= MaxAudit
         /\ audit' \in Seq([act : {"execute", "export", "read"}, actor : Actors,
                            cluster : Clusters, stream : Streams, run : Nat])
<1>1. /\ audit \in Seq([act : {"execute", "export", "read"}, actor : Actors,
                        cluster : Clusters, stream : Streams, run : Nat])
      /\ Len(audit) <= MaxAudit
  BY DEF IInv, Shapes
<1>2. ASSUME NEW q \in Request
      PROVE  Entry(q) \in [act : {"execute", "export", "read"}, actor : Actors,
                           cluster : Clusters, stream : Streams, run : Nat]
  <2>1. q.actor \in Actors /\ ClusterOf[q.stream] \in Clusters /\ q.stream \in Streams
        /\ q.from \in Nat
    BY RequestFields, ClusterAssumption, SizesAssumption
  <2> QED BY <2>1 DEF Entry
<1>3. CASE audit' = audit
  BY <1>1, <1>3 DEF LogGrows
<1>4. ASSUME NEW q \in Request, audit' = Append(audit, Entry(q)), Len(audit) < MaxAudit
      PROVE  /\ LogGrows /\ Len(audit') <= MaxAudit
             /\ audit' \in Seq([act : {"execute", "export", "read"}, actor : Actors,
                                cluster : Clusters, stream : Streams, run : Nat])
  <2>1. PICK e \in [act : {"execute", "export", "read"}, actor : Actors,
                    cluster : Clusters, stream : Streams, run : Nat] : e = Entry(q)
    BY <1>2
  <2> QED BY <1>1, <1>4, <2>1, SizesAssumption DEF LogGrows
<1> QED BY <1>3, <1>4 DEF LogOf

\* The ring after Sessions.Append: the new run and old ones of the ring.
LEMMA Prepended ==
  ASSUME NEW s \in Seq(Nat), NEW n \in Nat, NEW m \in 0..(Len(s) + 1)
  PROVE  LET r == SubSeq(<<n>> \o s, 1, m) IN
         /\ r \in Seq(Nat) /\ Len(r) = m
         /\ \A i \in 1..Len(r) : r[i] = n \/ \E j \in 1..Len(s) : r[i] = s[j]
<1> DEFINE c == <<n>> \o s
           r == SubSeq(c, 1, m)
<1>1. /\ c \in Seq(Nat) /\ Len(c) = Len(s) + 1
      /\ \A i \in 1..Len(c) : c[i] = IF i = 1 THEN n ELSE s[i - 1]
  BY ConcatProperties
<1>2. r \in Seq(Nat) /\ Len(r) = m /\ \A i \in 1..m : r[i] = c[i]
  BY <1>1
<1>3. ASSUME NEW i \in 1..Len(r) PROVE r[i] = n \/ \E j \in 1..Len(s) : r[i] = s[j]
  <2>1. r[i] = IF i = 1 THEN n ELSE s[i - 1]
    BY <1>1, <1>2, SMTT(30)
  <2>2. i # 1 => i - 1 \in 1..Len(s)
    BY <1>2
  <2> QED BY <2>1, <2>2
<1> QED BY <1>2, <1>3

\* What Cache leaves in the rings.
LEMMA CachedRing ==
  ASSUME IInv, NEW t \in Tabs, Cache(t)
  PROVE  \E q \in Request, k \in Keys, r \in Seq(Nat) :
           /\ q = tab[t] /\ q.entry \in Nat /\ RunAt(k, q.entry)
           /\ sessions' = [sessions EXCEPT ![k] = r] /\ Len(r) <= Capacity
           /\ \A i \in 1..Len(r) :
                r[i] = q.entry \/ \E j \in 1..Len(sessions[k]) : r[i] = sessions[k][j]
<1>1. PICK q \in Request : q = tab[t] /\ RunOf(q, q.entry)
  BY Underway DEF Cache, AuditedAt
<1>2. PICK k \in Keys : k = sessionKey(q) /\ RunAt(k, q.entry)
  BY <1>1, RequestFields
<1>3. q.entry \in Nat
  BY <1>1, RequestFields, SizesAssumption
<1>4. PICK s \in Seq(Nat) : s = sessions[k]
  BY DEF IInv, Rings
<1>5. Len(<<q.entry>> \o s) = Len(s) + 1 /\ Len(s) + 1 \in Nat
  BY <1>3, <1>4, ConcatProperties
<1>6. PICK m : m = IF Len(s) + 1 > Capacity THEN Capacity ELSE Len(s) + 1
  OBVIOUS
<1>7. m \in 0..(Len(s) + 1) /\ m <= Capacity
  BY <1>5, <1>6, SizesAssumption
<1>8. sessions' = [sessions EXCEPT ![k] = SubSeq(<<q.entry>> \o s, 1, m)]
  BY <1>1, <1>2, <1>4, <1>5, <1>6 DEF Cache
<1>9. PICK r \in Seq(Nat) :
        /\ r = SubSeq(<<q.entry>> \o s, 1, m) /\ Len(r) = m
        /\ \A i \in 1..Len(r) : r[i] = q.entry \/ \E j \in 1..Len(s) : r[i] = s[j]
  BY <1>3, <1>7, Prepended
<1>10. sessions' = [sessions EXCEPT ![k] = r] /\ Len(r) <= Capacity
  BY <1>7, <1>8, <1>9
<1>11. \A i \in 1..Len(r) :
         r[i] = q.entry \/ \E j \in 1..Len(sessions[k]) : r[i] = sessions[k][j]
  BY <1>4, <1>9
<1> QED BY <1>1, <1>2, <1>3, <1>10, <1>11

LEMMA RingsKept ==
  ASSUME IInv, NEW t \in Tabs, LogOf, sessions' = sessions \/ Cache(t)
  PROVE  Rings'
<1>0. Shapes /\ LogGrows /\ Rings
  BY LogKeepsShape DEF IInv
<1>1. CASE sessions' = sessions
  <2>1. \A l \in Keys : \A i \in 1..Len(sessions[l]) : RunAt(l, sessions[l][i])'
    <3> SUFFICES ASSUME NEW l \in Keys, NEW i \in 1..Len(sessions[l])
                 PROVE  RunAt(l, sessions[l][i])'
      OBVIOUS
    <3>1. PICK x : x = sessions[l][i] /\ x = sessions'[l][i]
      BY <1>1
    <3>2. RunAt(l, x)'
      BY <1>0, <3>1, RunStays DEF Rings
    <3> QED BY <3>1, <3>2 DEF RunAt
  <2> QED BY <1>0, <1>1, <2>1 DEF Rings
<1>2. CASE Cache(t)
  <2>1. PICK q \in Request, k \in Keys, r \in Seq(Nat) :
          /\ q = tab[t] /\ q.entry \in Nat /\ RunAt(k, q.entry)
          /\ sessions' = [sessions EXCEPT ![k] = r] /\ Len(r) <= Capacity
          /\ \A i \in 1..Len(r) :
               r[i] = q.entry \/ \E j \in 1..Len(sessions[k]) : r[i] = sessions[k][j]
    BY <1>2, CachedRing
  <2>2. sessions' \in [Keys -> Seq(Nat)]
    BY <1>0, <2>1 DEF Rings
  <2>3. ASSUME NEW l \in Keys, NEW i \in 1..Len(sessions'[l]) PROVE RunAt(l, sessions'[l][i])
    BY <1>0, <2>1 DEF Rings
  <2>4. ASSUME NEW l \in Keys, NEW i \in 1..Len(sessions'[l]) PROVE RunAt(l, sessions[l][i])'
    <3>1. PICK x : x = sessions'[l][i]
      OBVIOUS
    <3>2. RunAt(l, x)'
      BY <1>0, <2>3, <3>1, RunStays
    <3> QED BY <3>1, <3>2 DEF RunAt
  <2> QED BY <2>2, <2>4 DEF Rings
<1> QED BY <1>1, <1>2

-----------------------------------------------------------------------------
(* The invariant.                                                          *)

LEMMA StepOfTab ==
  ASSUME IInv, NEW t \in Tabs, Begin(t) \/ BeginPage(t) \/ Handle(t)
  PROVE  IInv'
<1>1. Local(t) /\ LogOf /\ open' = open /\ (sessions' = sessions \/ Cache(t))
  BY StepIsLocal
<1>2. Shapes'
  BY <1>1, LogKeepsShape DEF Shapes, Local, FunctionForms
<1>3. Rings'
  BY <1>1, RingsKept
<1>4. TabOf(t)'
  BY StepBegin, StepBeginPage, StepCheckGrant, StepLoadScript, StepResolve, StepExecute,
     StepTakeLatest, StepAudit, StepAuditFails, StepCache, StepView, StepLook, StepStream,
     StepCheckT2, StepCheckCapability, StepSelect, StepFail DEF Handle
<1>5. ASSUME NEW u \in Tabs \ {t} PROVE TabOf(u)'
  BY <1>1, LogKeepsShape, StandsStill DEF Local
<1>6. \A u \in Tabs : TabOf(u)'
  BY <1>4, <1>5
<1> QED BY <1>2, <1>3, <1>6 DEF IInv, TabOf

LEMMA StepIInv == IInv /\ [Next]_vars => IInv'
<1> SUFFICES ASSUME IInv, [Next]_vars PROVE IInv'
  OBVIOUS
<1>1. ASSUME NEW t \in Tabs, Begin(t) \/ BeginPage(t) \/ Handle(t) PROVE IInv'
  BY <1>1, StepOfTab
<1>2. CASE ChangeGate
  <2>1. Shapes' /\ Rings'
    BY <1>2 DEF ChangeGate, IInv, Shapes, Rings, RunAt
  <2>2. \A t \in Tabs : TabOf(t)'
    BY <1>2, StepChangeGate
  <2> QED BY <2>1, <2>2 DEF IInv, TabOf
<1>3. CASE Restart
  <2>1. Shapes' /\ Rings'
    BY <1>3 DEF Restart, IInv, Shapes, Rings
  <2>2. \A t \in Tabs : TabOf(t)'
    BY <1>3, StepRestart
  <2> QED BY <2>1, <2>2 DEF IInv, TabOf
<1>4. CASE UNCHANGED vars
  <2>1. Shapes' /\ Rings'
    BY <1>4 DEF vars, IInv, Shapes, Rings, RunAt
  <2>2. LogGrows
    BY <1>4 DEF vars, LogGrows
  <2>3. \A t \in Tabs : TabOf(t)'
    BY <1>4, <2>2, StandsStill DEF vars
  <2> QED BY <2>1, <2>3 DEF IInv, TabOf
<1> QED BY <1>1, <1>2, <1>3, <1>4 DEF Next

\* What requests rely on holds in every state.
THEOREM Inductive == Spec => []IInv
BY InitIInv, StepIInv, PTL DEF Spec

\* No literal leaves that the log does not show: whatever a tab was handed out
\* is of a run that its actor executed in its cluster, and an export or a read
\* has an entry of its own, made by the request itself (Audit before Stream and
\* Select, the ring's key).
THEOREM Audits == Spec => []EgressAudited
<1>1. IInv => EgressAudited
  <2> SUFFICES ASSUME IInv, NEW t \in Tabs, out[t].what # "nothing"
               PROVE  AuditedOut(tab[t], out[t])
    BY DEF EgressAudited, AuditedOut
  <2> QED BY DEF IInv, OutOf
<1> QED BY <1>1, Inductive, PTL

\* No literal leaves and no statement is executed but under gates that were
\* open at some moment of the request, however grants, kill switches, policies
\* and scopes of scripts change between its calls.
THEOREM Gates == Spec => []EgressGated
<1>1. IInv => EgressGated
  <2> SUFFICES ASSUME IInv, NEW t \in Tabs
               PROVE  LET q == tab[t]
                          executed == pc[t] \in {"audit", "cache"} /\ q.kind \in {"run", "handoff"}
                      IN  /\ executed \/ out[t].what \in {"result", "export"} => Grant(q) \in held[t]
                          /\ executed \/ out[t].what = "rows" => Switch(q) \in held[t]
                          /\ executed /\ q.kind = "handoff" => Sight(q) \in held[t]
                          /\ out[t].what = "rows" => Capability(q) \in held[t]
    BY DEF EgressGated
  <2>1. out[t].what # "nothing" => GatedOut(tab[t], out[t], held[t])
    BY DEF IInv, OutOf
  <2>2. pc[t] \in {"audit", "cache"} => GatedAt(tab[t], pc[t], held[t])
    BY Underway
  <2> QED BY <2>1, <2>2 DEF GatedOut, GatedAt
<1> QED BY <1>1, Inductive, PTL

-----------------------------------------------------------------------------
(* Types: the rings are as long as NewSessions allows, and what is held are *)
(* gates of the request.                                                   *)

HeldOf(t) == held[t] # {} => held[t] \subseteq GatesOf(tab[t])

Bounds ==
  /\ open \subseteq AllGates \cup Moving
  /\ \A k \in Keys : Len(sessions[k]) <= Capacity
  /\ \A t \in Tabs : HeldOf(t)

LEMMA StepHeld ==
  ASSUME IInv, NEW t \in Tabs, HeldOf(t), Begin(t) \/ BeginPage(t) \/ Handle(t)
  PROVE  HeldOf(t)'
<1>0. FunctionForms(tab, pc, out, held)
  BY DEF IInv, Shapes, FunctionForms
<1>1. ASSUME NEW q, Start(q, t) PROVE HeldOf(t)'
  <2>1. tab'[t] = q /\ held'[t] = GatesOf(q) \cap open
    BY <1>0, <1>1 DEF Start, FunctionForms
  <2>2. GatesOf(tab[t])' = GatesOf(q)
    BY <2>1 DEF GatesOf, Grant, Switch, Sight, Capability
  <2> QED BY <2>1, <2>2 DEF HeldOf
<1>2. ASSUME held'[t] = held[t], tab'[t] = tab[t] PROVE HeldOf(t)'
  <2>1. GatesOf(tab[t])' = GatesOf(tab[t])
    BY <1>2 DEF GatesOf, Grant, Switch, Sight, Capability
  <2> QED BY <1>2, <2>1 DEF HeldOf
<1>3. ASSUME held'[t] = {} PROVE HeldOf(t)'
  BY <1>3 DEF HeldOf
<1>4. ASSUME NEW next, Continue(t, next) PROVE HeldOf(t)'
  BY <1>0, <1>2, <1>3, <1>4 DEF Continue, End, FunctionForms
<1>5. ASSUME NEW z, tab[t] \in Request, held'[t] = held[t], tab'[t] = z, z \in Request,
             z.kind = tab[t].kind, z.actor = tab[t].actor, z.cluster = tab[t].cluster,
             z.stream = tab[t].stream, z.script = tab[t].script
      PROVE  HeldOf(t)'
  <2>1. GatesOf(z) = GatesOf(tab[t])
    BY <1>5, Filled
  <2>2. GatesOf(tab[t])' = GatesOf(z)
    BY <1>5 DEF GatesOf, Grant, Switch, Sight, Capability
  <2> QED BY <1>5, <2>1, <2>2 DEF HeldOf
<1>6. CASE Begin(t) \/ BeginPage(t)
  BY <1>1, <1>6 DEF Begin, BeginPage
<1>7. CASE CheckGrant(t) \/ Resolve(t) \/ Execute(t) \/ View(t) \/ CheckT2(t)
           \/ CheckCapability(t) \/ Fail(t)
  BY <1>4, <1>7 DEF CheckGrant, Resolve, Execute, View, CheckT2, CheckCapability, Fail
<1>8. CASE Look(t) \/ Stream(t) \/ Select(t) \/ Cache(t)
  BY <1>2, <1>4, <1>8 DEF Look, Stream, Select, Cache, HandOut
<1>9. CASE LoadScript(t)
  <2>1. tab[t] \in Request
    BY <1>9, Underway DEF LoadScript
  <2>2. 0 \in 0..MaxAudit /\ "blank" \in Scripts \cup {"typed", "blank"}
        /\ tab[t].script \in Scripts \cup {"typed", "blank"}
    BY <2>1, SizesAssumption DEF Request
  <2>3. PICK s \in Scripts \cup {"typed", "blank"} : tab' = [tab EXCEPT ![t].sql = s]
    BY <1>9, <2>2 DEF LoadScript
  <2>4. tab'[t] = [tab[t] EXCEPT !.sql = s] /\ held'[t] = held[t]
    BY <1>0, <1>9, <2>3 DEF LoadScript, FunctionForms
  <2>5. PICK z \in Request :
          /\ z = [tab[t] EXCEPT !.sql = s]
          /\ z.kind = tab[t].kind /\ z.actor = tab[t].actor /\ z.cluster = tab[t].cluster
          /\ z.stream = tab[t].stream /\ z.script = tab[t].script
    <3>1. 0 \in 0..MaxAudit /\ s \in Scripts \cup {"typed", "blank"}
      BY <2>2
    <3> QED BY <2>1, <3>1, Fill, ZenonT(30)
  <2> QED BY <1>5, <2>1, <2>4, <2>5
<1>10. CASE TakeLatest(t) /\ ~Continue(t, "idle")
  <2>1. tab[t] \in Request
    BY <1>10, Underway DEF TakeLatest
  <2>2. PICK n \in 0..MaxAudit : tab' = [tab EXCEPT ![t].from = n]
    BY <1>10, <2>1, HeadOfRing DEF TakeLatest
  <2>3. tab'[t] = [tab[t] EXCEPT !.from = n] /\ held'[t] = held[t]
    BY <1>0, <1>10, <2>2 DEF TakeLatest, FunctionForms
  <2>4. "blank" \in Scripts \cup {"typed", "blank"}
    OBVIOUS
  <2>5. PICK z \in Request :
          /\ z = [tab[t] EXCEPT !.from = n]
          /\ z.kind = tab[t].kind /\ z.actor = tab[t].actor /\ z.cluster = tab[t].cluster
          /\ z.stream = tab[t].stream /\ z.script = tab[t].script
    BY <2>1, <2>4, Fill, ZenonT(30)
  <2> QED BY <1>5, <2>1, <2>3, <2>5
<1>11. CASE Audit(t)
  <2>1. tab[t] \in Request
    BY <1>11, Underway DEF Audit
  <2>2. PICK n \in 0..MaxAudit : tab' = [tab EXCEPT ![t].entry = n]
    <3>1. Len(audit) + 1 \in 0..MaxAudit
      BY <1>11, SizesAssumption DEF Audit, IInv, Shapes
    <3> QED BY <1>11, <3>1 DEF Audit
  <2>3. tab'[t] = [tab[t] EXCEPT !.entry = n] /\ held'[t] = held[t]
    BY <1>0, <1>11, <2>2 DEF Audit, FunctionForms
  <2>4. "blank" \in Scripts \cup {"typed", "blank"}
    OBVIOUS
  <2>5. PICK z \in Request :
          /\ z = [tab[t] EXCEPT !.entry = n]
          /\ z.kind = tab[t].kind /\ z.actor = tab[t].actor /\ z.cluster = tab[t].cluster
          /\ z.stream = tab[t].stream /\ z.script = tab[t].script
    BY <2>1, <2>4, Fill, ZenonT(30)
  <2> QED BY <1>5, <2>1, <2>3, <2>5
<1>12. CASE AuditFails(t)
  BY <1>0, <1>2, <1>3, <1>12 DEF AuditFails, End, FunctionForms
<1> QED BY <1>4, <1>6, <1>7, <1>8, <1>9, <1>10, <1>11, <1>12 DEF Handle, TakeLatest

LEMMA StepBounds == IInv /\ Bounds /\ [Next]_vars => Bounds'
<1> SUFFICES ASSUME IInv, Bounds, [Next]_vars PROVE Bounds'
  OBVIOUS
<1>1. ASSUME NEW t \in Tabs, Begin(t) \/ BeginPage(t) \/ Handle(t) PROVE Bounds'
  <2>1. Local(t) /\ open' = open /\ (sessions' = sessions \/ Cache(t))
    BY <1>1, StepIsLocal
  <2>2. HeldOf(t)'
    BY <1>1, StepHeld DEF Bounds
  <2>3. ASSUME NEW u \in Tabs \ {t} PROVE HeldOf(u)'
    <3>1. tab'[u] = tab[u] /\ held'[u] = held[u] /\ HeldOf(u)
      BY <2>1 DEF Local, Bounds
    <3>2. GatesOf(tab[u])' = GatesOf(tab[u])
      BY <3>1 DEF GatesOf, Grant, Switch, Sight, Capability
    <3> QED BY <3>1, <3>2 DEF HeldOf
  <2>4. \A k \in Keys : Len(sessions'[k]) <= Capacity
    <3>1. CASE sessions' = sessions
      BY <3>1 DEF Bounds
    <3>2. CASE Cache(t)
      <4>1. PICK k \in Keys, r \in Seq(Nat) :
              sessions' = [sessions EXCEPT ![k] = r] /\ Len(r) <= Capacity
        BY <3>2, CachedRing
      <4>2. sessions \in [Keys -> Seq(Nat)]
        BY DEF IInv, Rings
      <4> QED BY <4>1, <4>2 DEF Bounds
    <3> QED BY <2>1, <3>1, <3>2
  <2> QED BY <2>1, <2>2, <2>3, <2>4 DEF Bounds
<1>2. CASE ChangeGate
  <2>1. open' \subseteq AllGates \cup Moving /\ UNCHANGED <<sessions, tab>>
    BY <1>2 DEF ChangeGate, Bounds
  <2>2. ASSUME NEW t \in Tabs PROVE HeldOf(t)'
    <3>1. GatesOf(tab[t])' = GatesOf(tab[t])
      BY <2>1 DEF GatesOf, Grant, Switch, Sight, Capability
    <3>2. held'[t] = held[t] \/ held'[t] = held[t] \cup (GatesOf(tab[t]) \cap open')
      BY <1>2 DEF ChangeGate
    <3> QED BY <3>1, <3>2 DEF HeldOf, Bounds
  <2> QED BY <2>1, <2>2 DEF Bounds
<1>3. CASE Restart
  <2>1. \A t \in Tabs : held'[t] = {}
    BY <1>3 DEF Restart
  <2>2. \A k \in Keys : Len(sessions'[k]) <= Capacity
    BY <1>3, SizesAssumption DEF Restart
  <2> QED BY <1>3, <2>1, <2>2 DEF Restart, Bounds, HeldOf
<1>4. CASE UNCHANGED vars
  <2>1. \A t \in Tabs : GatesOf(tab[t])' = GatesOf(tab[t])
    BY <1>4 DEF vars, GatesOf, Grant, Switch, Sight, Capability
  <2> QED BY <1>4, <2>1 DEF vars, Bounds, HeldOf
<1> QED BY <1>1, <1>2, <1>3, <1>4 DEF Next

\* The variables keep their types; in particular a ring never outgrows the
\* capacity of NewSessions.
THEOREM TypeCorrect == Spec => []TypeOK
<1>1. Init => Bounds
  BY SizesAssumption DEF Init, Bounds, HeldOf
<1>2. IInv /\ Bounds => TypeOK
  BY DEF IInv, Shapes, Bounds, HeldOf, TypeOf, TypeOK
<1> QED BY <1>1, <1>2, StepBounds, Inductive, PTL DEF Spec

-----------------------------------------------------------------------------
(* AdvicePages: of the plans that are read of a key.                       *)

PlansOf(table, asOf, days, k) == {p \in Advice!Matching(table, asOf, days) : Advice!KeyOf(p) = k}

\* Of a key that was read: the newest plan of the table as it was, or a newer one.
HasNewest(got, table, asOf, k) ==
  \A p \in Advice!Newest(PlansOf(table, asOf, MonthWindow, k)) :
    \E q \in got : Advice!KeyOf(q) = k /\ q.at >= p.at

LEMMA NoRows ==
  ASSUME NEW table
  PROVE  Advice!Rows(table, {}) = 0
<1>1. UNION {{p} \X (1..table[p]) : p \in {}} = {}
  OBVIOUS
<1>2. Cardinality({}) = 0
  BY FS_EmptySet
<1>3. Advice!Cardinality({}) = Cardinality({})
  BY DEF Advice!Cardinality, Cardinality
<1> QED BY <1>1, <1>2, <1>3 DEF Advice!Rows

LEMMA Latest ==
  ASSUME NEW S, S # {}, S \subseteq Plans, NEW bound \in Int, \A p \in S : p.at < bound
  PROVE  \E q \in S : \A p \in S : p.at <= q.at
<1> DEFINE T == {bound - p.at : p \in S}
           R == OpToRel(<, Nat)
<1>0. \A p \in S : p.at \in Int
  BY AdviceAssumption
<1>1. T \in SUBSET Nat /\ T # {}
  BY <1>0
<1>2. PICK m \in T : \A j \in T : ~(<<j, m>> \in R)
  BY <1>1, NatLessThanWellFounded, WFMin
<1>3. \A j \in T : ~(j < m)
  BY <1>1, <1>2 DEF OpToRel
<1>4. PICK q \in S : m = bound - q.at
  OBVIOUS
<1>5. ASSUME NEW p \in S
      PROVE  p.at <= q.at
  <2>1. ~(bound - p.at < m)
    BY <1>3
  <2> QED BY <1>0, <1>4, <2>1
<1> QED BY <1>5

\* TopPlansByQuery returns a newest plan, if there is one.
LEMMA TopHasNewest ==
  ASSUME NEW k, NEW asOf \in Int, NEW limit \in Nat \ {0}, NEW table,
         \A p \in Plans : table[p] > 0 => copies[p] > 0,
         NEW got, got = Advice!TopPlansByQuery(k, asOf, MonthWindow, limit)
  PROVE  HasNewest(got, table, asOf, k)
<1>1. PICK own : own = PlansOf(copies, asOf, MonthWindow, k)
  OBVIOUS
<1>2. own \subseteq Plans /\ \A p \in own : p.at < asOf /\ Advice!KeyOf(p) = k
  BY <1>1 DEF PlansOf, Advice!Matching, Advice!In
<1>3. got = {p \in own : Advice!Rows(copies, {q \in own : q.at > p.at}) < limit}
  BY <1>1 DEF Advice!TopPlansByQuery, PlansOf
<1>4. ASSUME NEW p \in PlansOf(table, asOf, MonthWindow, k)
      PROVE  \E q \in got : Advice!KeyOf(q) = k /\ q.at >= p.at
  <2>1. p \in own
    BY <1>1 DEF PlansOf, Advice!Matching
  <2>2. PICK q \in own : \A r \in own : r.at <= q.at
    BY <1>2, <2>1, Latest
  <2>3. \A r \in own : r.at \in Int
    BY <1>2, AdviceAssumption
  <2>4. {r \in own : r.at > q.at} = {}
    BY <2>2, <2>3
  <2>5. q \in got
    BY <1>3, <2>4, NoRows
  <2>6. p.at <= q.at /\ p.at \in Int /\ q.at \in Int
    BY <2>1, <2>2, <2>3
  <2> QED BY <1>2, <2>5, <2>6
<1> QED BY <1>4 DEF HasNewest, Advice!Newest

-----------------------------------------------------------------------------
(* AdvicePages: what a page that is being made has and has still to read.  *)

ViewFields == {"kind", "of", "asOf", "listed", "todo", "got", "skipped", "servers", "weighed", "link", "pc"}
PageKinds == {"insights", "index", "alerts", "query", "vacuum", "plan", "fragment", "none"}

\* The keys that are due of what the table has, with a first table: those it may
\* read and those it owes.
Due(v, table) == v.listed \cap Advice!ListPlanKeys(table, v.asOf)

MayRead(v, table, k) ==
  CASE v.kind = "plan" -> k = v.of
    [] v.kind = "fragment" -> k.fp = v.of.fp
    [] v.kind = "vacuum" -> FALSE
    [] v.kind = "query" -> k \in Due(v, table)
    [] OTHER -> k \in Due(v, table) /\ Advice!Wanted(v.kind, v.of, k)

Owes(v, table, k) ==
  CASE v.kind = "plan" -> k = v.of
    [] v.kind \in {"fragment", "vacuum"} -> FALSE
    [] OTHER -> k \in Due(v, table) /\ Advice!Wanted(v.kind, v.of, k)

ReadsGood(v, table) ==
  /\ \A k \in v.todo : MayRead(v, table, k)
  /\ \A k : Owes(v, table, k) => k \in v.todo \/ k \in v.skipped \/ HasNewest(v.got, table, v.asOf, k)
  /\ \A p \in v.got : Advice!In(p, v.asOf, Advice!Window(v.kind)) /\ MayRead(v, table, Advice!KeyOf(p))
  /\ v.kind = "fragment" =>
       /\ v.listed = {} /\ (v.got # {} => v.todo = {})
       /\ \A p, q \in v.got : p.server = q.server

\* The tables it weighs are of servers it is about.
Weighs(v) ==
  v.weighed \cup v.servers \subseteq
    IF v.kind = "alerts" THEN {v.of.server} ELSE {k.server : k \in v.listed}

Counts(v) ==
  /\ v.kind = "query" /\ v.got = {} /\ v.skipped = {}
  /\ \A k \in v.todo : k \in v.listed /\ k.fp = v.of.fp

ViewShape(v) ==
  /\ v = [f \in ViewFields |-> v[f]]
  /\ v.asOf \in Int /\ v.kind \in PageKinds /\ v.pc \in {"none", "own", "keys"}
  /\ v.listed \subseteq Advice!Keys

ViewGood(v, table) ==
  /\ ViewShape(v) /\ Weighs(v)
  /\ v.link # 0 => [server |-> v.link, fp |-> v.of.fp] \in v.listed
  /\ v.pc = "none" => v = Advice!NoView
  /\ v.pc = "own" => Counts(v)
  /\ v.pc = "keys" => ReadsGood(v, table)

\* What was delivered when a page was opened stays.
TablesGood ==
  /\ today \in Int /\ copies \in [Plans -> Nat] /\ opened \in [Plans -> Nat]
  /\ \A p \in Plans : opened[p] > 0 => copies[p] > 0

AdviceInv ==
  /\ TablesGood
  /\ \A v, table : v = view /\ table = opened => ViewGood(v, table)

LEMMA OneServer ==
  ASSUME NEW S, NEW x, \A y \in S : y = x
  PROVE  ~(Advice!Cardinality(S) > 1)
<1>1. Advice!Cardinality(S) = Cardinality(S)
  BY DEF Advice!Cardinality, Cardinality
<1>2. CASE S = {}
  BY <1>1, <1>2, FS_EmptySet
<1>3. CASE S # {}
  <2>1. S = {x}
    BY <1>3
  <2>2. Cardinality(S) = 1
    BY <2>1, FS_Singleton
  <2> QED BY <1>1, <2>2
<1> QED BY <1>2, <1>3

\* What a page owes, when nothing is left to be read.
LEMMA CompleteIsCurrent ==
  ASSUME AdviceInv
  PROVE  PagesCurrent
<1> SUFFICES ASSUME Advice!Complete
             PROVE  Advice!PagesCurrent
  BY DEF PagesCurrent, Advice!PagesCurrent
<1>1. PICK v, table : v = view /\ table = opened
  OBVIOUS
<1>2. ViewGood(v, table)
  BY <1>1 DEF AdviceInv
<1>3. ViewShape(v) /\ Weighs(v) /\ ReadsGood(v, table) /\ v.todo = {}
  BY <1>1, <1>2 DEF ViewGood, Advice!Complete
<1>4. \A k : k \in Advice!Owed <=> Owes(v, table, k)
  BY <1>1, <1>3 DEF Advice!Owed, Owes, Due, ReadsGood, ViewShape, PageKinds
<1>5. \A p : p \in Advice!Shown <=> p \in v.got /\ (v.kind = "query" => p.fp = v.of.fp)
  BY <1>1 DEF Advice!Shown
<1>6. ASSUME NEW k \in Advice!Owed \ view.skipped,
             NEW p \in Advice!Newest({q \in Advice!Matching(opened, view.asOf, MonthWindow) : Advice!KeyOf(q) = k})
      PROVE  \E q \in Advice!Shown : Advice!KeyOf(q) = k /\ q.at >= p.at
  <2>1. HasNewest(v.got, table, v.asOf, k)
    BY <1>1, <1>3, <1>4, <1>6 DEF ReadsGood
  <2>2. PICK q \in v.got : Advice!KeyOf(q) = k /\ q.at >= p.at
    BY <1>1, <1>6, <2>1 DEF HasNewest, PlansOf
  <2>3. v.kind = "query" => k.fp = v.of.fp
    BY <1>4, <1>6 DEF Owes, Advice!Wanted
  <2> QED BY <1>5, <2>2, <2>3 DEF Advice!KeyOf
<1>7. ASSUME NEW p \in Advice!Shown
      PROVE  /\ Advice!In(p, view.asOf, Advice!Window(view.kind))
             /\ IF view.kind = "fragment" THEN p.fp = view.of.fp ELSE Advice!KeyOf(p) \in Advice!Owed
  <2>1. /\ Advice!In(p, v.asOf, Advice!Window(v.kind)) /\ MayRead(v, table, Advice!KeyOf(p))
        /\ v.kind = "query" => p.fp = v.of.fp
    BY <1>3, <1>5 DEF ReadsGood
  <2>2. CASE v.kind = "fragment"
    BY <1>1, <2>1, <2>2 DEF MayRead, Advice!KeyOf
  <2>3. CASE v.kind # "fragment"
    <3>1. Owes(v, table, Advice!KeyOf(p))
      BY <2>1, <2>3 DEF MayRead, Owes, Advice!Wanted, Advice!KeyOf
    <3> QED BY <1>1, <1>4, <2>1, <2>3, <3>1
  <2> QED BY <2>2, <2>3
<1>8. ASSUME view.kind \in {"plan", "fragment", "alerts"}
      PROVE  ~(Advice!Cardinality({p.server : p \in Advice!Shown}) > 1)
  <2>1. ASSUME NEW p \in v.got, NEW q \in v.got
        PROVE  p.server = q.server
    <3>1. MayRead(v, table, Advice!KeyOf(p)) /\ MayRead(v, table, Advice!KeyOf(q))
      BY <1>3 DEF ReadsGood
    <3>2. CASE v.kind = "plan"
      <4>1. Advice!KeyOf(p) = Advice!KeyOf(q)
        BY <3>1, <3>2 DEF MayRead
      <4> QED BY <4>1 DEF Advice!KeyOf
    <3>3. CASE v.kind = "alerts"
      BY <3>1, <3>3 DEF MayRead, Advice!Wanted, Advice!KeyOf
    <3>4. CASE v.kind = "fragment"
      BY <1>3, <3>4 DEF ReadsGood
    <3> QED BY <1>1, <1>8, <3>2, <3>3, <3>4
  <2>2. PICK x : \A p \in v.got : p.server = x
    BY <2>1
  <2>3. \A y \in {p.server : p \in Advice!Shown} : y = x
    BY <1>5, <2>2
  <2> QED BY <2>3, OneServer
<1>9. view.weighed \subseteq (IF view.kind = "alerts" THEN {view.of.server} ELSE {k.server : k \in view.listed})
  BY <1>1, <1>3 DEF Weighs
<1>10. view.link # 0 => [server |-> view.link, fp |-> view.of.fp] \in view.listed
  BY <1>1, <1>2 DEF ViewGood
<1> QED BY <1>6, <1>7, <1>8, <1>9, <1>10 DEF Advice!PagesCurrent

-----------------------------------------------------------------------------
(* AdvicePages: the steps.                                                 *)

LEMMA AdviceInit == Advice!Init => AdviceInv
<1> SUFFICES ASSUME Advice!Init
             PROVE  AdviceInv
  OBVIOUS
<1>1. TablesGood
  BY AdviceAssumption DEF Advice!Init, Advice!Nothing, TablesGood
<1>2. \A table : ViewGood(Advice!NoView, table)
  BY DEF ViewGood, ViewShape, Weighs, Advice!NoView, ViewFields, PageKinds
<1> QED BY <1>1, <1>2 DEF AdviceInv, Advice!Init

\* While the tables fill and time passes.
LEMMA AroundStep ==
  ASSUME AdviceInv, Advice!WriteQueryPlans \/ Advice!Tick
  PROVE  AdviceInv'
<1>1. UNCHANGED <<view, opened>>
  BY DEF Advice!WriteQueryPlans, Advice!Tick
<1>2. today' \in Int
  BY DEF AdviceInv, TablesGood, Advice!WriteQueryPlans, Advice!Tick
<1>3. copies' \in [Plans -> Nat] /\ \A p \in Plans : copies[p] > 0 => copies'[p] > 0
  <2>1. CASE Advice!Tick
    BY <2>1 DEF Advice!Tick, AdviceInv, TablesGood
  <2>2. CASE Advice!WriteQueryPlans
    <3>1. PICK ps : copies' = [p \in Plans |-> IF p \in ps THEN copies[p] + 1 ELSE copies[p]]
      BY <2>2 DEF Advice!WriteQueryPlans
    <3> QED BY <3>1 DEF AdviceInv, TablesGood
  <2> QED BY <2>1, <2>2
<1>4. TablesGood'
  BY <1>1, <1>2, <1>3 DEF AdviceInv, TablesGood
<1> QED BY <1>1, <1>4 DEF AdviceInv

\* A page is opened: nothing is read, all that it owes is still to be read.
LEMMA OpenedGood ==
  ASSUME AdviceInv, NEW v, Advice!Open(v),
         NEW w, w = [v EXCEPT !.asOf = today], NEW table, table = copies, ViewGood(w, table)
  PROVE  AdviceInv'
<1>1. view' = w /\ opened' = table /\ UNCHANGED <<today, copies>>
  BY DEF Advice!Open
<1>2. TablesGood'
  BY <1>1 DEF AdviceInv, TablesGood
<1> QED BY <1>1, <1>2 DEF AdviceInv

LEMMA ShowStep ==
  ASSUME AdviceInv, Advice!Show
  PROVE  AdviceInv'
<1>1. view' = Advice!NoView /\ opened' = Advice!Nothing /\ UNCHANGED <<today, copies>>
  BY DEF Advice!Show
<1>2. TablesGood'
  BY <1>1 DEF AdviceInv, TablesGood, Advice!Nothing
<1>3. \A table : ViewGood(Advice!NoView, table)
  BY DEF ViewGood, ViewShape, Weighs, Advice!NoView, ViewFields, PageKinds
<1> QED BY <1>1, <1>2, <1>3 DEF AdviceInv

\* A key that is listed has a plan.
LEMMA ListedAreKeys ==
  ASSUME NEW table, NEW asOf
  PROVE  Advice!ListPlanKeys(table, asOf) \subseteq Advice!Keys
BY DEF Advice!ListPlanKeys, Advice!Matching, Advice!Keys

LEMMA OpenStep ==
  ASSUME AdviceInv,
         Advice!OpenByKeys \/ Advice!ListFails \/ Advice!OpenPlan \/ Advice!OpenFragment
  PROVE  AdviceInv'
<1> USE DEF ViewFields
<1>1. PICK table, now : table = copies /\ now = today /\ now \in Int
  BY DEF AdviceInv, TablesGood
<1>2. CASE Advice!OpenByKeys
  <2>1. PICK kind, of, listed, v :
          /\ kind \in Advice!ByKeys \cup {"vacuum"} /\ of \in Advice!Keys \cup {Advice!NoView.of}
          /\ listed = Advice!ListPlanKeys(table, now)
          /\ v = [Advice!NoView EXCEPT
                    !.kind = kind, !.of = of, !.listed = listed,
                    !.todo = IF kind = "vacuum" THEN {} ELSE {k \in listed : Advice!Wanted(kind, of, k)},
                    !.servers = IF kind = "vacuum" THEN {k.server : k \in listed}
                                ELSE IF kind = "alerts" THEN {of.server} ELSE {},
                    !.pc = IF kind = "query" THEN "own" ELSE "keys"]
          /\ Advice!Open(v)
    BY <1>1, <1>2 DEF Advice!OpenByKeys
  <2>2. PICK w : w = [v EXCEPT !.asOf = today]
    OBVIOUS
  <2>3. /\ ViewShape(w) /\ w.kind = kind /\ w.of = of /\ w.asOf = now /\ w.listed = listed
        /\ w.todo = IF kind = "vacuum" THEN {} ELSE {k \in listed : Advice!Wanted(kind, of, k)}
        /\ w.servers = IF kind = "vacuum" THEN {k.server : k \in listed}
                       ELSE IF kind = "alerts" THEN {of.server} ELSE {}
        /\ w.got = {} /\ w.skipped = {} /\ w.weighed = {} /\ w.link = 0
        /\ w.pc = IF kind = "query" THEN "own" ELSE "keys"
    <3>1. listed \subseteq Advice!Keys
      BY <2>1, ListedAreKeys
    <3> QED BY <1>1, <2>1, <2>2, <3>1, ZenonT(30) DEF ViewShape, Advice!NoView, Advice!ByKeys, PageKinds
  <2>4. Weighs(w)
    BY <2>1, <2>3 DEF Weighs, Advice!ByKeys
  <2>5. w.pc = "own" => Counts(w)
    BY <2>3 DEF Counts, Advice!Wanted
  <2>6. w.pc = "keys" => ReadsGood(w, table)
    <3>1. Due(w, table) = listed
      BY <2>1, <2>3 DEF Due
    <3> QED BY <2>1, <2>3, <3>1 DEF ReadsGood, MayRead, Owes, Advice!Wanted, Advice!ByKeys
  <2>7. ViewGood(w, table)
    BY <2>3, <2>4, <2>5, <2>6 DEF ViewGood
  <2> QED BY <1>1, <2>1, <2>2, <2>7, OpenedGood
<1>3. CASE Advice!ListFails
  <2>1. PICK kind, of, v :
          /\ kind \in Advice!ByKeys \cup {"vacuum"} /\ of \in Advice!Keys \cup {Advice!NoView.of}
          /\ v = [Advice!NoView EXCEPT !.kind = kind, !.of = of,
                                       !.pc = IF kind = "query" THEN "own" ELSE "keys"]
          /\ Advice!Open(v)
    BY <1>3 DEF Advice!ListFails
  <2>2. PICK w : w = [v EXCEPT !.asOf = today]
    OBVIOUS
  <2>3. /\ ViewShape(w) /\ w.kind = kind /\ w.of = of /\ w.asOf = now /\ w.listed = {} /\ w.todo = {}
        /\ w.servers = {} /\ w.got = {} /\ w.skipped = {} /\ w.weighed = {} /\ w.link = 0
        /\ w.pc = IF kind = "query" THEN "own" ELSE "keys"
    BY <1>1, <2>1, <2>2 DEF ViewShape, Advice!NoView, Advice!ByKeys, PageKinds
  <2>4. Weighs(w) /\ (w.pc = "own" => Counts(w))
    BY <2>3 DEF Weighs, Counts
  <2>5. ReadsGood(w, table)
    BY <2>1, <2>3 DEF ReadsGood, Owes, Due, Advice!ByKeys
  <2>6. ViewGood(w, table)
    BY <2>3, <2>4, <2>5 DEF ViewGood
  <2> QED BY <1>1, <2>1, <2>2, <2>6, OpenedGood
<1>4. CASE Advice!OpenPlan
  <2>1. PICK k, v :
          /\ k \in Advice!Keys
          /\ v = [Advice!NoView EXCEPT !.kind = "plan", !.of = k, !.todo = {k}, !.pc = "keys"]
          /\ Advice!Open(v)
    BY <1>4 DEF Advice!OpenPlan
  <2>2. PICK w : w = [v EXCEPT !.asOf = today]
    OBVIOUS
  <2>3. /\ ViewShape(w) /\ w.kind = "plan" /\ w.of = k /\ w.listed = {} /\ w.todo = {k}
        /\ w.servers = {} /\ w.got = {} /\ w.weighed = {} /\ w.link = 0 /\ w.pc = "keys"
    BY <1>1, <2>1, <2>2 DEF ViewShape, Advice!NoView, PageKinds
  <2>4. Weighs(w) /\ ReadsGood(w, table)
    BY <2>3 DEF Weighs, ReadsGood, MayRead, Owes
  <2>5. ViewGood(w, table)
    BY <2>3, <2>4 DEF ViewGood
  <2> QED BY <1>1, <2>1, <2>2, <2>5, OpenedGood
<1>5. CASE Advice!OpenFragment
  <2>1. PICK f, v :
          /\ v = [Advice!NoView EXCEPT !.kind = "fragment", !.of.fp = f, !.pc = "keys",
                    !.todo = {[server |-> Members[i], fp |-> f] : i \in DOMAIN Members}]
          /\ Advice!Open(v)
    BY <1>5 DEF Advice!OpenFragment
  <2>2. PICK w : w = [v EXCEPT !.asOf = today]
    OBVIOUS
  <2>3. /\ ViewShape(w) /\ w.kind = "fragment" /\ w.of.fp = f /\ w.listed = {}
        /\ w.todo = {[server |-> Members[i], fp |-> f] : i \in DOMAIN Members}
        /\ w.servers = {} /\ w.got = {} /\ w.weighed = {} /\ w.link = 0 /\ w.pc = "keys"
    BY <1>1, <2>1, <2>2 DEF ViewShape, Advice!NoView, PageKinds
  <2>4. Weighs(w) /\ ReadsGood(w, table)
    BY <2>3 DEF Weighs, ReadsGood, MayRead, Owes
  <2>5. ViewGood(w, table)
    BY <2>3, <2>4 DEF ViewGood
  <2> QED BY <1>1, <2>1, <2>2, <2>5, OpenedGood
<1> QED BY <1>2, <1>3, <1>4, <1>5

\* A page goes on with what it has opened.
LEMMA ViewStays ==
  ASSUME AdviceInv, NEW v, v = view, NEW w, w = view', NEW table, table = opened,
         UNCHANGED <<today, copies, opened>>, ViewGood(w, table)
  PROVE  AdviceInv'
<1>1. TablesGood'
  BY DEF AdviceInv, TablesGood
<1> QED BY <1>1 DEF AdviceInv

LEMMA ReadStep ==
  ASSUME AdviceInv, Advice!ReadPlans
  PROVE  AdviceInv'
<1>1. PICK v, w, table, k, got :
        /\ v = view /\ w = view' /\ table = opened /\ k \in v.todo /\ v.pc = "keys"
        /\ got = Advice!TopPlansByQuery(k, v.asOf, Advice!Window(v.kind), Advice!Depth(v.kind))
        /\ w = [v EXCEPT !.got = @ \cup got,
                         !.todo = IF v.kind = "fragment" /\ got # {} THEN {} ELSE v.todo \ {k},
                         !.servers = IF v.kind = "index" THEN @ \cup {k.server} ELSE @]
        /\ UNCHANGED <<today, copies, opened>>
  BY DEF Advice!ReadPlans, Advice!Reading, Advice!Rest
<1>2. ViewGood(v, table)
  BY <1>1 DEF AdviceInv
<1>3. /\ w.got = v.got \cup got /\ w.servers = (IF v.kind = "index" THEN v.servers \cup {k.server} ELSE v.servers)
      /\ w.todo = IF v.kind = "fragment" /\ got # {} THEN {} ELSE v.todo \ {k}
      /\ w.kind = v.kind /\ w.of = v.of /\ w.asOf = v.asOf /\ w.listed = v.listed
      /\ w.skipped = v.skipped /\ w.weighed = v.weighed /\ w.link = v.link /\ w.pc = v.pc
      /\ w = [f \in ViewFields |-> w[f]]
  BY <1>1, <1>2 DEF ViewGood, ViewShape, ViewFields
<1>4. ViewShape(w) /\ ViewShape(v) /\ ReadsGood(v, table) /\ MayRead(v, table, k)
  BY <1>1, <1>2, <1>3 DEF ViewGood, ViewShape, ReadsGood
<1>5. /\ \A l : MayRead(w, table, l) <=> MayRead(v, table, l)
      /\ \A l : Owes(w, table, l) <=> Owes(v, table, l)
  BY <1>3 DEF MayRead, Owes, Due
<1>6. \A p \in got : Advice!In(p, v.asOf, Advice!Window(v.kind)) /\ Advice!KeyOf(p) = k
  BY <1>1 DEF Advice!TopPlansByQuery, Advice!Matching
<1>7. v.kind # "fragment" => HasNewest(got, table, v.asOf, k)
  <2>1. Advice!Depth(v.kind) \in Nat \ {0}
    BY AdviceAssumption DEF Advice!Depth
  <2>2. \A p \in Plans : table[p] > 0 => copies[p] > 0
    BY <1>1 DEF AdviceInv, TablesGood
  <2>3. v.kind # "fragment" => Advice!Window(v.kind) = MonthWindow
    BY DEF Advice!Window
  <2>4. PICK limit \in Nat \ {0} : limit = Advice!Depth(v.kind)
    BY <2>1
  <2>5. v.kind # "fragment" => got = Advice!TopPlansByQuery(k, v.asOf, MonthWindow, limit)
    BY <1>1, <2>3, <2>4
  <2>6. PICK asOf \in Int : asOf = v.asOf
    BY <1>4 DEF ViewShape
  <2> QED BY <2>2, <2>5, <2>6, TopHasNewest
<1>8. \A l : HasNewest(v.got, table, v.asOf, l) => HasNewest(w.got, table, w.asOf, l)
  BY <1>3 DEF HasNewest
<1>9. ReadsGood(w, table)
  <2>1. \A l \in w.todo : MayRead(w, table, l)
    BY <1>3, <1>4, <1>5 DEF ReadsGood
  <2>2. ASSUME NEW l, Owes(w, table, l)
        PROVE  l \in w.todo \/ l \in w.skipped \/ HasNewest(w.got, table, w.asOf, l)
    <3>1. v.kind # "fragment" /\ Owes(v, table, l)
      BY <1>3, <1>5, <2>2 DEF Owes
    <3>2. HasNewest(got, table, v.asOf, k) => HasNewest(w.got, table, w.asOf, k)
      BY <1>3 DEF HasNewest
    <3> QED BY <1>3, <1>4, <1>7, <1>8, <3>1, <3>2 DEF ReadsGood
  <2>3. \A p \in w.got : Advice!In(p, w.asOf, Advice!Window(w.kind)) /\ MayRead(w, table, Advice!KeyOf(p))
    BY <1>3, <1>4, <1>5, <1>6 DEF ReadsGood
  <2>4. ASSUME w.kind = "fragment"
        PROVE  /\ w.listed = {} /\ (w.got # {} => w.todo = {})
               /\ \A p, q \in w.got : p.server = q.server
    <3>1. v.got = {} /\ v.listed = {}
      BY <1>1, <1>3, <1>4, <2>4 DEF ReadsGood
    <3>2. \A p \in got : p.server = k.server
      BY <1>6 DEF Advice!KeyOf
    <3> QED BY <1>3, <2>4, <3>1, <3>2
  <2> QED BY <2>1, <2>2, <2>3, <2>4 DEF ReadsGood
<1>10. Weighs(w)
  <2>1. v.kind = "index" => k \in v.listed
    BY <1>4 DEF MayRead, Due
  <2> QED BY <1>2, <1>3, <2>1 DEF ViewGood, Weighs
<1>11. ViewGood(w, table)
  BY <1>1, <1>2, <1>3, <1>4, <1>9, <1>10 DEF ViewGood
<1> QED BY <1>1, <1>11, ViewStays

LEMMA SkipStep ==
  ASSUME AdviceInv, Advice!ReadFails
  PROVE  AdviceInv'
<1>1. PICK v, w, table, k :
        /\ v = view /\ w = view' /\ table = opened /\ k \in v.todo /\ v.pc = "keys"
        /\ w = [v EXCEPT !.skipped = @ \cup {k}, !.todo = @ \ {k}]
        /\ UNCHANGED <<today, copies, opened>>
  BY DEF Advice!ReadFails, Advice!Reading
<1>2. ViewGood(v, table)
  BY <1>1 DEF AdviceInv
<1>3. /\ w.skipped = v.skipped \cup {k} /\ w.todo = v.todo \ {k}
      /\ w.kind = v.kind /\ w.of = v.of /\ w.asOf = v.asOf /\ w.listed = v.listed /\ w.got = v.got
      /\ w.servers = v.servers /\ w.weighed = v.weighed /\ w.link = v.link /\ w.pc = v.pc
      /\ w = [f \in ViewFields |-> w[f]]
  BY <1>1, <1>2 DEF ViewGood, ViewShape, ViewFields
<1>4. ViewShape(w) /\ ReadsGood(v, table)
  BY <1>1, <1>2, <1>3 DEF ViewGood, ViewShape
<1>5. /\ \A l : MayRead(w, table, l) <=> MayRead(v, table, l)
      /\ \A l : Owes(w, table, l) <=> Owes(v, table, l)
  BY <1>3 DEF MayRead, Owes, Due
<1>6. ReadsGood(w, table)
  BY <1>3, <1>4, <1>5 DEF ReadsGood
<1>7. Weighs(w)
  BY <1>2, <1>3 DEF ViewGood, Weighs
<1>8. ViewGood(w, table)
  BY <1>1, <1>2, <1>3, <1>4, <1>6, <1>7 DEF ViewGood
<1> QED BY <1>1, <1>8, ViewStays

LEMMA CountStep ==
  ASSUME AdviceInv, Advice!CountPlans
  PROVE  AdviceInv'
<1>1. PICK v, w, table, k :
        /\ v = view /\ w = view' /\ table = opened /\ k \in v.todo /\ v.pc = "own"
        /\ w = [v EXCEPT !.todo = @ \ {k}, !.link = k.server]
        /\ UNCHANGED <<today, copies, opened>>
  BY DEF Advice!CountPlans, Advice!Reading
<1>2. ViewGood(v, table)
  BY <1>1 DEF AdviceInv
<1>3. /\ w.link = k.server /\ w.todo = v.todo \ {k}
      /\ w.kind = v.kind /\ w.of = v.of /\ w.asOf = v.asOf /\ w.listed = v.listed /\ w.got = v.got
      /\ w.servers = v.servers /\ w.weighed = v.weighed /\ w.skipped = v.skipped /\ w.pc = v.pc
      /\ w = [f \in ViewFields |-> w[f]]
  BY <1>1, <1>2 DEF ViewGood, ViewShape, ViewFields
<1>4. ViewShape(w) /\ Counts(v) /\ Weighs(w)
  BY <1>1, <1>2, <1>3 DEF ViewGood, ViewShape, Weighs
<1>5. Counts(w)
  BY <1>3, <1>4 DEF Counts
\* The link is to the key that was counted.
<1>6. [server |-> w.link, fp |-> w.of.fp] \in w.listed
  <2>1. k \in v.listed /\ k.fp = v.of.fp
    BY <1>1, <1>4 DEF Counts
  <2>2. k = [server |-> k.server, fp |-> k.fp]
    BY <1>2, <2>1 DEF ViewGood, ViewShape, Advice!Keys, Advice!KeyOf
  <2> QED BY <1>3, <2>1, <2>2
<1>7. ViewGood(w, table)
  BY <1>1, <1>3, <1>4, <1>5, <1>6 DEF ViewGood
<1> QED BY <1>1, <1>7, ViewStays

LEMMA InsightsStep ==
  ASSUME AdviceInv, Advice!InsightsOfQuery
  PROVE  AdviceInv'
<1>1. PICK v, w, table, now, listed, old :
        /\ v = view /\ w = view' /\ table = copies /\ table = opened' /\ now = today /\ old = opened
        /\ v.pc = "own" /\ v.todo = {} /\ listed = Advice!ListPlanKeys(table, now)
        /\ w = [v EXCEPT !.pc = "keys", !.todo = listed, !.listed = @ \cup listed, !.asOf = now]
        /\ UNCHANGED <<today, copies>>
  BY DEF Advice!InsightsOfQuery
<1>2. ViewGood(v, old) /\ now \in Int
  BY <1>1 DEF AdviceInv, TablesGood
<1>3. /\ w.pc = "keys" /\ w.todo = listed /\ w.listed = v.listed \cup listed /\ w.asOf = now
      /\ w.kind = v.kind /\ w.of = v.of /\ w.got = v.got /\ w.skipped = v.skipped
      /\ w.servers = v.servers /\ w.weighed = v.weighed /\ w.link = v.link
      /\ w = [f \in ViewFields |-> w[f]]
  BY <1>1, <1>2 DEF ViewGood, ViewShape, ViewFields
<1>4. Counts(v)
  BY <1>1, <1>2 DEF ViewGood
<1>5. ViewShape(w)
  BY <1>1, <1>2, <1>3, ListedAreKeys DEF ViewGood, ViewShape
<1>6. Due(w, table) = listed
  BY <1>1, <1>3 DEF Due
<1>7. ReadsGood(w, table)
  BY <1>3, <1>4, <1>6 DEF Counts, ReadsGood, MayRead, Owes
<1>8. Weighs(w)
  BY <1>2, <1>3, <1>4 DEF ViewGood, Weighs, Counts
<1>9. ViewGood(w, table)
  BY <1>2, <1>3, <1>5, <1>7, <1>8 DEF ViewGood
<1>10. TablesGood'
  BY <1>1 DEF AdviceInv, TablesGood
<1> QED BY <1>1, <1>9, <1>10 DEF AdviceInv

LEMMA InsightsFailStep ==
  ASSUME AdviceInv, Advice!InsightsFail
  PROVE  AdviceInv'
<1>1. PICK v, w, table :
        /\ v = view /\ w = view' /\ table = opened /\ v.pc = "own" /\ v.todo = {}
        /\ w = [v EXCEPT !.pc = "keys", !.skipped = v.listed]
        /\ UNCHANGED <<today, copies, opened>>
  BY DEF Advice!InsightsFail
<1>2. ViewGood(v, table)
  BY <1>1 DEF AdviceInv
<1>3. /\ w.pc = "keys" /\ w.skipped = v.listed /\ w.todo = {}
      /\ w.kind = v.kind /\ w.of = v.of /\ w.asOf = v.asOf /\ w.listed = v.listed /\ w.got = v.got
      /\ w.servers = v.servers /\ w.weighed = v.weighed /\ w.link = v.link
      /\ w = [f \in ViewFields |-> w[f]]
  BY <1>1, <1>2 DEF ViewGood, ViewShape, ViewFields
<1>4. ViewShape(w) /\ Counts(v) /\ Weighs(w)
  BY <1>1, <1>2, <1>3 DEF ViewGood, ViewShape, Weighs
<1>5. ReadsGood(w, table)
  BY <1>3, <1>4 DEF Counts, ReadsGood, Owes, Due
<1>6. ViewGood(w, table)
  BY <1>2, <1>3, <1>4, <1>5 DEF ViewGood
<1> QED BY <1>1, <1>6, ViewStays

LEMMA WeighStep ==
  ASSUME AdviceInv, Advice!WeighTables
  PROVE  AdviceInv'
<1>1. PICK v, w, table, s, weighed :
        /\ v = view /\ w = view' /\ table = opened /\ v.pc = "keys" /\ s \in v.servers
        /\ weighed \subseteq v.weighed \cup {s}
        /\ w = [v EXCEPT !.servers = @ \ {s}, !.weighed = weighed]
        /\ UNCHANGED <<today, copies, opened>>
  BY DEF Advice!WeighTables
<1>2. ViewGood(v, table)
  BY <1>1 DEF AdviceInv
<1>3. /\ w.servers = v.servers \ {s} /\ w.weighed = weighed
      /\ w.kind = v.kind /\ w.of = v.of /\ w.asOf = v.asOf /\ w.listed = v.listed /\ w.got = v.got
      /\ w.todo = v.todo /\ w.skipped = v.skipped /\ w.link = v.link /\ w.pc = v.pc
      /\ w = [f \in ViewFields |-> w[f]]
  BY <1>1, <1>2 DEF ViewGood, ViewShape, ViewFields
<1>4. ViewShape(w) /\ Weighs(w) /\ ReadsGood(v, table)
  BY <1>1, <1>2, <1>3 DEF ViewGood, ViewShape, Weighs
<1>5. /\ \A l : MayRead(w, table, l) <=> MayRead(v, table, l)
      /\ \A l : Owes(w, table, l) <=> Owes(v, table, l)
  BY <1>3 DEF MayRead, Owes, Due
<1>6. ReadsGood(w, table)
  BY <1>3, <1>4, <1>5 DEF ReadsGood
<1>7. ViewGood(w, table)
  BY <1>1, <1>2, <1>3, <1>4, <1>6 DEF ViewGood
<1> QED BY <1>1, <1>7, ViewStays

\* However plans are delivered while a page of advice is made, it has the newest
\* of every key that it is about, unless that key could not be read, and nothing
\* of any other (TopPlansByQuery, fetchInsights, assembleInput).
THEOREM Current == Advice!Spec => []PagesCurrent
<1>1. AdviceInv /\ [Advice!Next]_(Advice!vars) => AdviceInv'
  <2> SUFFICES ASSUME AdviceInv, [Advice!Next]_(Advice!vars)
               PROVE  AdviceInv'
    OBVIOUS
  <2>1. CASE UNCHANGED Advice!vars
    BY <2>1 DEF Advice!vars, AdviceInv, TablesGood
  <2>2. CASE Advice!Next
    BY <2>2, AroundStep, OpenStep, ReadStep, SkipStep, CountStep, InsightsStep, InsightsFailStep,
       WeighStep, ShowStep DEF Advice!Next
  <2> QED BY <2>1, <2>2
<1> QED BY <1>1, AdviceInit, CompleteIsCurrent, PTL DEF Advice!Spec
=============================================================================
