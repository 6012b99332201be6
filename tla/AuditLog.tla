------------------------------ MODULE AuditLog ------------------------------
(***************************************************************************)
(* What the audit log promises its callers: a list that only grows, to     *)
(* which each submitted entry is added at most once, and before its caller *)
(* is told that it was.  A caller told of an error knows nothing: the      *)
(* entry may be in the list or not.                                        *)
(***************************************************************************)
EXTENDS Sequences

CONSTANTS Clients, Entries

VARIABLES log,      \* the recorded entries, oldest first
          phase,    \* where each client's submission stands
          entry     \* what each client submitted last

vars == <<log, phase, entry>>

Init ==
  /\ log = << >>
  /\ phase = [c \in Clients |-> "idle"]
  /\ entry \in [Clients -> Entries]

Submit(c) ==
  /\ phase[c] = "idle"
  /\ phase' = [phase EXCEPT ![c] = "submitted"]
  /\ \E e \in Entries : entry' = [entry EXCEPT ![c] = e]
  /\ UNCHANGED log

\* The entry joins the list; the client is either about to hear of it or,
\* the answer lost, back where it started.
Record(c) ==
  /\ phase[c] = "submitted"
  /\ log' = Append(log, entry[c])
  /\ \E next \in {"recorded", "idle"} : phase' = [phase EXCEPT ![c] = next]
  /\ UNCHANGED entry

Acknowledge(c) ==
  /\ phase[c] = "recorded"
  /\ phase' = [phase EXCEPT ![c] = "idle"]
  /\ UNCHANGED <<log, entry>>

Fail(c) ==
  /\ phase[c] = "submitted"
  /\ phase' = [phase EXCEPT ![c] = "idle"]
  /\ UNCHANGED <<log, entry>>

Next == \E c \in Clients : Submit(c) \/ Record(c) \/ Acknowledge(c) \/ Fail(c)

Spec == Init /\ [][Next]_vars
=============================================================================
