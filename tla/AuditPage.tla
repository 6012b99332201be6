----------------------------- MODULE AuditPage -----------------------------
(***************************************************************************)
(* The audit page (internal/api/audit.go): a grid of the newest rows that  *)
(* match a filter, under a banner that says whether the whole chain        *)
(* verifies, how it ends and how many events it has.  Grid, verdict and    *)
(* end are three queries to the read pool, and the grid alone is fetched   *)
(* again when the filter changes.  Meanwhile rows arrive, with gaps where  *)
(* a transaction was rolled back, and the storage may harm one.            *)
(*                                                                         *)
(* How rows come to be chained is in AuditChain; here they arrive whole.   *)
(* Hashes are shortened and targets spelt for the eye only.                *)
(***************************************************************************)
EXTENDS AuditRow, FiniteSets

CONSTANTS Filters,   \* what is asked for: [entries, since, until], 0 for no day
          MaxShown,  \* rows in the grid; 200 in the code
          MaxRows    \* bound: rows that arrive

VARIABLES table,    \* audit_log as the read pool has it
          written,  \* history: the rows as they were written
          harmed,   \* the storage has done its harm
          page      \* the page being made, or in the browser

vars == <<table, written, harmed, page>>

NoFilter == [entries |-> Entries, since |-> 0, until |-> 0]
NoPage == [at |-> "none", shown |-> {}, verified |-> FALSE, count |-> 0, fresh |-> TRUE]

Init ==
  /\ table = << >> /\ written = {} /\ harmed = FALSE
  /\ page = NoPage

-----------------------------------------------------------------------------
(* The table.                                                              *)

LastId == IF table = << >> THEN 0 ELSE table[Len(table)].id
LastHash == IF table = << >> THEN Genesis ELSE table[Len(table)].hash

Arrive ==
  /\ Cardinality(written) < MaxRows
  /\ \E burned \in {0, 1}, e \in Entries, t \in Times :
       LET row == NewRow(LastId + 1 + burned, LastHash, e, t) IN
       table' = Append(table, row) /\ written' = written \cup {row}
  /\ UNCHANGED <<harmed, page>>

\* A field is changed; together with its hash, when rows were chained to it
\* already; or the row is gone.
Harm ==
  /\ ~harmed /\ harmed' = TRUE
  /\ \E i \in DOMAIN table :
       LET old == table[i] IN
       \/ \E e \in Entries \ {old.entry} :
            \/ table' = [table EXCEPT ![i].entry = e]
            \/ i < Len(table) /\ table' = [table EXCEPT ![i] = NewRow(old.id, old.prev, e, old.at)]
       \/ \E t \in Times \ {old.at} : table' = [table EXCEPT ![i].at = t]
       \/ table' = SubSeq(table, 1, i - 1) \o SubSeq(table, i + 1, Len(table))
  /\ UNCHANGED <<written, page>>

-----------------------------------------------------------------------------
(* Requests.                                                               *)

\* A day that does not parse is none.
Matches(row, f) ==
  /\ row.entry \in f.entries
  /\ f.since # 0 => row.at >= f.since
  /\ f.until # 0 => row.at <= f.until

\* ListAudit: the newest of those that match.
ListAudit(f, limit) ==
  LET own == {table[i] : i \in {j \in DOMAIN table : Matches(table[j], f)}}
  IN {row \in own : Cardinality({r \in own : r.id > row.id}) < limit}

\* fetchAudit: an error leaves the grid empty.
fetchAudit(f) == {ListAudit(f, MaxShown), {}}

At(step) == page.at = step /\ UNCHANGED <<table, written, harmed>>

\* handleAuditPage
OpenPage ==
  /\ At("none")
  /\ \E f \in Filters : \E grid \in fetchAudit(f) :
       page' = [NoPage EXCEPT !.at = "verify", !.shown = grid]

\* auditChain: an error is no verdict.
Verify ==
  /\ At("verify")
  /\ \E heard \in BOOLEAN :
       page' = [page EXCEPT !.at = "tip", !.verified = heard /\ VerifyChain(table) = -1]

\* The last row's id is taken for the number of rows.
ReadTip ==
  /\ At("tip")
  /\ \E tip \in {ListAudit(NoFilter, 1), {}} :
       page' = [page EXCEPT !.at = "shown", !.count = IF tip = {} THEN 0 ELSE (CHOOSE row \in tip : TRUE).id]

\* handleAuditPartial: the banner stays as it was.
FilterGrid ==
  /\ At("shown")
  /\ \E f \in Filters : \E grid \in fetchAudit(f) :
       page' = [page EXCEPT !.shown = grid, !.fresh = FALSE]

Leave == At("shown") /\ page' = NoPage

Next == Arrive \/ Harm \/ OpenPage \/ Verify \/ ReadTip \/ FilterGrid \/ Leave

Spec == Init /\ [][Next]_vars

-----------------------------------------------------------------------------
\* What a page shows under a banner that says VERIFIED is what was written, row
\* by row, whatever arrived or was harmed between its queries - but for a grid
\* that was filtered later, which the verdict does not cover once the storage does
\* harm; and no row is newer than the end that the banner names.
PageCovered ==
  page.at = "shown" /\ page.verified =>
    /\ page.fresh \/ ~harmed => page.shown \subseteq written
    /\ page.fresh /\ page.count # 0 /\ ~harmed => \A row \in page.shown : row.id <= page.count

\* internal/api/audit.go:36-37: "id-as-count, valid because audit ids are
\* contiguous from 1".  An id that was burned before the first row, or between
\* the verdict and the last row's query, is counted as an event.
CountExact ==
  page.at = "shown" /\ page.verified /\ page.count # 0 /\ ~harmed => page.count <= Cardinality(written)
=============================================================================
