-------------------------- MODULE MCAuditedWrites --------------------------
(* AuditedWrites with three calls, two keys of policies that a batch sets  *)
(* and deletes at once, up to two scripts, and an admin among the actors.  *)
EXTENDS AuditedWrites, TLC

CONSTANTS c1, c2, c3, p1, p2, owner, admin

MCCalls    == {c1, c2, c3}
MCPolicies == {p1, p2}
MCUsers    == {owner, admin}
MCAdmins   == {admin}
MCValues   == {"on", "off"}
MCShared   == {"on"}

Ask(op, puts, dels, by) == [op |-> op, puts |-> puts, dels |-> dels, by |-> by]

MCRequests ==
  {Ask("set", {<<p1, v>>}, {}, owner) : v \in MCValues}
  \cup {Ask("delete", {}, {p1}, owner),
        Ask("batch", {<<p1, "on">>}, {p2}, admin),
        Ask("batch", {<<p2, "on">>}, {}, admin),
        Ask("create", {}, {}, owner),
        Ask("scope", {<<1, "on">>}, {}, owner),
        Ask("scope", {<<1, "off">>}, {}, admin),
        Ask("drop", {}, {1}, owner)}

Symmetry == Permutations(MCCalls)
=============================================================================
