------------------------------- MODULE Readers -------------------------------
(***************************************************************************)
(* The catalog readers of a full cycle (internal/collector): queries about *)
(* the relations of a monitored database, each seeing them at its own      *)
(* moment, while objects are created, dropped and moved from one schema to *)
(* another.  Names leave the database only from schemas that SchemaFilter  *)
(* allows; what a reader returns along with an error is shipped all the    *)
(* same, unless it is the inventory's, which returns nothing then.  The    *)
(* readers share nothing: a behaviour follows one of them.                 *)
(*                                                                         *)
(* A relation is [schema, kind, of, parents]: kind as in pg_class (and fn  *)
(* for a function), of the table of an index, parents what it inherits     *)
(* from or is a partition of.  Names are those of the relations; sizes and *)
(* counters are left out.                                                  *)
(***************************************************************************)
EXTENDS Integers, FiniteSets, Sequences

CONSTANTS Relations,    \* names of relations
          Shapes,       \* Shapes[r]: what r is: [kind, of, parents]
          Schemas,      \* of users
          HeadOf,       \* HeadOf[s]: the text of s before its first dot
          SystemSchemas, \* the other schemas
          Included,     \* names that include_schema_regexp matches
          Ignored,      \* names that ignore_schema_regexp matches
          MaxChanges    \* bound: changes of the catalog

VARIABLES
  schema,   \* schema[r]: where relation r is; Absent if it does not exist
  reader,   \* the reader that is followed
  gate,     \* its capability is enabled
  next,     \* the queries it has still to make, in order
  out,      \* what it has read
  result,   \* what it returned, or Unread
  before,   \* history: what was there at its first query and stayed...
  ever,     \* ... and all that has been there since
  changes

reading == <<reader, gate, next, out, result>>
vars == <<schema, reading, before, ever, changes>>

Absent == "absent"
None == "none"   \* no name
Unread == [is |-> "unread", objects |-> {}]

\* The queries of each reader; those of the inventory and of the freeze ages
\* are one after the other.
Queries == [inventory |-> <<"schemas", "tables", "indexes", "views", "functions", "sequences">>,
            table_stats |-> <<"sizes">>,
            index_stats |-> <<"scans">>,
            freeze_age |-> <<"max_age", "database", "ages">>]

CatalogReaders == DOMAIN Queries

-----------------------------------------------------------------------------
(* SchemaFilter.                                                           *)

isSystemSchema(s) == s \in SystemSchemas

IsAllowed(s) == ~isSystemSchema(s) /\ s \in Included /\ s \notin Ignored

-----------------------------------------------------------------------------
(* The catalog.                                                            *)

Exists(r) == schema[r] # Absent

InPlace == {<<r, schema[r]>> : r \in {x \in Relations : Exists(x)}}

\* What goes where r goes: itself and its indexes.
With(r) == {x \in Relations : x = r \/ Shapes[x].of = r}

\* Where r may be: an index with its table, a TOAST table with the system's.
Homes(r) ==
  {Absent} \cup (IF Shapes[r].of # None THEN {schema[Shapes[r].of]}
                 ELSE IF Shapes[r].kind = "t" THEN SystemSchemas ELSE Schemas)

Init ==
  /\ schema \in [Relations -> Schemas \cup SystemSchemas \cup {Absent}]
  /\ \A r \in Relations : schema[r] \in Homes(r)
  /\ reader \in CatalogReaders /\ gate \in BOOLEAN
  /\ next = << >> /\ out = {} /\ result = Unread
  /\ before = {} /\ ever = {} /\ changes = 0

\* Relations are created, dropped, or moved with ALTER ... SET SCHEMA,
\* while the reader reads: before that, the catalog is any that Init allows.
Change ==
  /\ changes < MaxChanges /\ next # << >>
  /\ \E r \in Relations : \E s \in Homes(r) \ {schema[r]} :
       /\ schema' = [x \in Relations |->
            IF x = r \/ (x \in With(r) /\ Exists(x)) THEN s ELSE schema[x]]
  /\ changes' = changes + 1
  /\ before' = before \cap InPlace' /\ ever' = ever \cup InPlace'
  /\ UNCHANGED reading

-----------------------------------------------------------------------------
(* What a query returns of a relation.                                     *)

\* A variant: the name of the parent is left as it is.
ParentUnfiltered(p) == IF p = None THEN None ELSE schema[p]

\* readTables: the name of a parent is left blank when the text before the first
\* dot of schema.table is not an allowed schema.
Parent(p) == IF p # None /\ IsAllowed(HeadOf[schema[p]]) THEN schema[p] ELSE None

\* build: kind, schema, name and the schema of the parent or table that is named;
\* via tells the rows of one table apart: the parent or table the row is made with.
Object(kind, s, name, parent, via) ==
  [kind |-> kind, schema |-> s, name |-> name, parent |-> parent, via |-> via]

Rows(kinds) == {r \in Relations : Exists(r) /\ Shapes[r].kind \in kinds /\ IsAllowed(schema[r])}

\* LEFT JOIN pg_inherits: a row for each parent, one if there is none.
Parents(r) ==
  LET there == {p \in Shapes[r].parents : Exists(p)} IN IF there = {} THEN {None} ELSE there

Joined(kinds) == UNION {{r} \X Parents(r) : r \in Rows(kinds)}

readSchemas == {Object("schema", s, None, None, None) : s \in {x \in Schemas \cup SystemSchemas : IsAllowed(x)}}

readTables ==
  {Object("table", schema[x[1]], x[1], Parent(x[2]), x[2]) : x \in Joined({"r", "p", "m", "f"})}

Plain(kind, relkind) == {Object(kind, schema[r], r, None, None) : r \in Rows({relkind})}

readIndexes == Plain("index", "i")

readViews == Plain("view", "v")

readFunctions == Plain("function", "fn")

readSequences == Plain("sequence", "S")

\* TableStatsReader: partitioned tables have no rows and are listed all the same.
tableStats == {Object("table", schema[r], r, None, None) : r \in Rows({"r", "p", "m"})}

\* IndexStatsReader: with the name of the table, which shares the schema.
indexStats ==
  {Object("index", schema[r], r, schema[Shapes[r].of], Shapes[r].of) : r \in Rows({"i"})}

\* FreezeAgeReader: pg_toast is a system schema, so of the tables with an age of
\* their own those of TOAST are not there.
freezeDatabase == {Object("database", None, None, None, None)}

freezeTables == {Object("table", schema[r], r, None, None) : r \in Rows({"r", "m", "t"})}

Answer(query) ==
  CASE query = "schemas" -> readSchemas [] query = "tables" -> readTables
    [] query = "indexes" -> readIndexes [] query = "views" -> readViews
    [] query = "functions" -> readFunctions [] query = "sequences" -> readSequences
    [] query = "sizes" -> tableStats [] query = "scans" -> indexStats
    [] query = "max_age" -> {} [] query = "database" -> freezeDatabase
    [] query = "ages" -> freezeTables

-----------------------------------------------------------------------------
(* Read.                                                                   *)

\* The capability is looked up once, before the first query.
Begin ==
  /\ result = Unread /\ next = << >>
  /\ IF gate
     THEN /\ next' = Queries[reader]
          /\ before' = InPlace /\ ever' = InPlace
          /\ UNCHANGED result
     ELSE /\ result' = [is |-> "disabled", objects |-> {}]
          /\ UNCHANGED <<next, before, ever>>
  /\ UNCHANGED <<schema, reader, gate, out, changes>>

Query ==
  /\ Len(next) > 1
  /\ out' = out \cup Answer(Head(next)) /\ next' = Tail(next)
  /\ UNCHANGED <<schema, reader, gate, result, before, ever, changes>>

LastQuery ==
  /\ Len(next) = 1
  /\ result' = [is |-> "read", objects |-> out \cup Answer(Head(next))]
  /\ next' = << >> /\ out' = {}
  /\ UNCHANGED <<schema, reader, gate, before, ever, changes>>

\* A query fails: what the others returned is dropped.  But where the last one
\* breaks off between two rows, all readers but the inventory return what they
\* have with the error, and runFull ships it.
QueryFails ==
  /\ next # << >>
  /\ \E objects \in {{}} \cup (IF reader # "inventory" /\ Len(next) = 1
                               THEN {out \cup part : part \in SUBSET Answer(Head(next))} ELSE {}) :
       result' = [is |-> "failed", objects |-> objects]
  /\ next' = << >> /\ out' = {}
  /\ UNCHANGED <<schema, reader, gate, before, ever, changes>>

Next == Change \/ Begin \/ Query \/ LastQuery \/ QueryFails

Spec == Init /\ [][Next]_vars

-----------------------------------------------------------------------------
\* The kinds of relations that a reader is for.
Listed ==
  [inventory |-> {"r", "p", "m", "f", "i", "v", "fn", "S"}, table_stats |-> {"r", "p", "m"},
   index_stats |-> {"i"}, freeze_age |-> {"r", "m"}]

\* The name of a parent leaves the database if its schema is allowed, or has a dot
\* and the text before it is an allowed schema; that of an index's table if its
\* schema is allowed.
MayBeNamed(o) ==
  \/ o.parent = None \/ IsAllowed(o.parent)
  \/ o.kind = "table" /\ HeadOf[o.parent] # o.parent /\ IsAllowed(HeadOf[o.parent])

Stayed(r) == \E place \in before : place[1] = r

\* However the catalog changes between its queries, what a reader returns, with an
\* error or without, is of this database and of allowed schemas only, the names of
\* parents and tables included (but for a dot in a schema's name), and has a
\* relation once, or once with each of its parents; without an error, every
\* relation it is for that stayed where it was is in it, and the inventory has it
\* with every parent that stayed; and a reader that is not allowed to read, or an
\* inventory that failed, returns nothing.
ReadExact ==
  /\ \A o \in result.objects :
       /\ o.schema = None \/ IsAllowed(o.schema)
       /\ MayBeNamed(o)
       /\ o.name # None => <<o.name, o.schema>> \in ever
       /\ o.parent # None => <<o.via, o.parent>> \in ever
  /\ \A o1, o2 \in result.objects :
       o1.name = o2.name /\ o1.name # None /\ o1.via \in {None, o2.via} => o1 = o2
  /\ result.is = "read" =>
       \A place \in before :
         Shapes[place[1]].kind \in Listed[reader] /\ IsAllowed(place[2]) =>
           /\ \E o \in result.objects : o.name = place[1]
           /\ reader = "inventory" =>
                \A p \in Shapes[place[1]].parents :
                  Stayed(p) => \E o \in result.objects : o.name = place[1] /\ o.via = p
  /\ result.is = "disabled" \/ (result.is = "failed" /\ reader = "inventory") =>
       result.objects = {}
=============================================================================
