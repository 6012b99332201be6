------------------------------ MODULE Delivery ------------------------------
(***************************************************************************)
(* What a collector may rely on when it ships a snapshot: an abstract view *)
(* of Shipper.Send (internal/collector/shipper.go) and of the ingestion    *)
(* server behind it (internal/ingest/server.go).                           *)
(*                                                                         *)
(* A snapshot carries row sets.  They are stored one after the other in a  *)
(* fixed order, each at most once; Send returns nil only after the last of *)
(* them, and an error promises nothing: none, some or all may be stored,   *)
(* and more of them may still follow.                                      *)
(***************************************************************************)
EXTENDS Integers, Sequences

CONSTANTS Snapshots,  \* every snapshot a collector ships
          Content     \* Content[m]: the row sets of m, in the order of storing

VARIABLES fate,    \* fate[m]: what the caller of Send(m) knows
          stored   \* stored[m]: how many of m's row sets are stored

Fates == {"unsent", "sending", "ok", "failed"}

Init ==
  /\ fate = [m \in Snapshots |-> "unsent"]
  /\ stored = [m \in Snapshots |-> 0]

Send(m) ==
  /\ fate[m] = "unsent"
  /\ fate' = [fate EXCEPT ![m] = "sending"]
  /\ UNCHANGED stored

Store(m) ==
  /\ fate[m] \in {"sending", "failed"}
  /\ stored[m] < Len(Content[m])
  /\ stored' = [stored EXCEPT ![m] = @ + 1]
  /\ UNCHANGED fate

Succeed(m) ==
  /\ fate[m] = "sending" /\ stored[m] = Len(Content[m])
  /\ fate' = [fate EXCEPT ![m] = "ok"]
  /\ UNCHANGED stored

Fail(m) ==
  /\ fate[m] \in {"unsent", "sending"}
  /\ fate' = [fate EXCEPT ![m] = "failed"]
  /\ UNCHANGED stored

Next == \E m \in Snapshots : Send(m) \/ Store(m) \/ Succeed(m) \/ Fail(m)

Spec == Init /\ [][Next]_<<fate, stored>>
=============================================================================
