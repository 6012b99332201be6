------------------------------ MODULE LogTail ------------------------------
(***************************************************************************)
(* Tailing PostgreSQL's log: FileTail.Read and reopenIfRotated             *)
(* (internal/collector/logsource.go), Drain (log_pipeline.go), the framing *)
(* of records by ParseStream and Scanner (internal/logparse) and           *)
(* runLogTail (cmd/collector/main.go), against a server that writes the    *)
(* file and a logrotate that renames or truncates it.                      *)
(*                                                                         *)
(* The server writes one stream of bytes, 1..Size, in order.  Newlines are *)
(* the bytes that end a line and Starts the bytes that begin a record; a   *)
(* record may have several lines (a TAB continuation in the stderr format, *)
(* a quoted field with a newline in the CSV format).  Whatever the         *)
(* rotation, a file holds an interval of the stream.                       *)
(***************************************************************************)
EXTENDS Integers, FiniteSets, FiniteSetsExt

CONSTANTS Size,      \* bytes the server ever writes
          Newlines,  \* bytes that end a line
          Starts,    \* first bytes of the records
          MaxChunk,  \* FileTail.maxChunk
          MaxFiles   \* bound: files that ever have the path's name

ASSUME StreamAssumption ==
  /\ {Size, MaxChunk, MaxFiles} \subseteq Nat \ {0}
  /\ Newlines \subseteq 1..Size /\ Size \in Newlines
  /\ Starts \subseteq (1..Size) \ Newlines /\ 1 \in Starts
  /\ \A b \in Starts \ {1} : b - 1 \in Newlines

\* Every line fits into a chunk: FileTail makes no progress past one that
\* does not.
ASSUME LinesFitAssumption ==
  \A b \in 1..Size : \E n \in Newlines : b <= n /\ n < b + MaxChunk

Files == 1..MaxFiles

VARIABLES
  wrote,    \* bytes written so far
  file,     \* file[i]: inode i holds the bytes from+1..to
  path,     \* inode the path names, 0 if none
  nfiles,   \* inodes in use
  format,   \* the log's format
  f,        \* FileTail.f: the open inode, 0 if none
  inode,    \* FileTail.inode
  offset,   \* FileTail.offset
  pc,       \* where Read is; "ship" when a chunk has been returned
  statted,  \* the inode os.Stat of this call has seen
  chunk,    \* the bytes returned: from+1..to
  taken,    \* history: taken[b]: how often byte b was returned
  shipped,  \* history: shipped[b]: events made of text that begins at byte b
            \* that the ingestion server stored
  torn,     \* history: starts whose event lacked lines of the record
  dirty     \* history: inodes truncated, or opened under another's number

disk    == <<wrote, file, path, nfiles, format>>
tail    == <<f, inode, offset, pc, statted, chunk>>
history == <<taken, shipped, torn, dirty>>
vars    == <<disk, tail, history>>

Empty == [from |-> 0, to |-> 0]
Bytes(i) == (file[i].from + 1)..file[i].to

Goto(l) == pc' = l

\* The record that starts at s.
Record(s) == {b \in 1..Size : s <= b /\ \A t \in Starts : t <= b => t <= s}

-----------------------------------------------------------------------------
(* Variants of the definitions below, each with a mistake the code could   *)
(* have made; substituted for the original, a property must fail.          *)

\* The offset moves past the partial line as well.
AdvancePastTail(start, cut) ==
  Min({file[f].to - file[f].from, start + MaxChunk})

\* An open file is never opened anew.
SameFileAlways == f # 0

\* The chunk counts twice.
AdvanceTwice(start, cut) == start + 2 * (cut - file[f].from - start)

\* A chunk whose send failed is read again; the server may have stored it.
SendFailsRewinds ==
  /\ pc = "ship"
  /\ offset' = chunk.from - file[f].from
  /\ \E stored \in {{}, Starts \cap ((chunk.from + 1)..chunk.to)} :
       shipped' = [b \in 1..Size |-> shipped[b] + (IF b \in stored THEN 1 ELSE 0)]
  /\ pc' = "idle"
  /\ chunk' = Empty
  /\ UNCHANGED <<disk, f, inode, statted, taken, torn, dirty>>

\* A CSV row that ends too early is passed on.
ParsesAlways == TRUE

-----------------------------------------------------------------------------
Init ==
  /\ wrote = 0
  /\ file = [i \in Files |-> Empty]
  /\ path = 0
  /\ nfiles = 0
  /\ format \in {"stderr", "csv"}
  /\ f = 0 /\ inode = 0 /\ offset = 0
  /\ pc = "idle" /\ statted = 0
  /\ chunk = Empty
  /\ taken = [b \in 1..Size |-> 0]
  /\ shipped = [b \in 1..Size |-> 0]
  /\ torn = {}
  /\ dirty = {}

-----------------------------------------------------------------------------
(* The server and logrotate.                                               *)

\* The server appends to the newest file, renamed or not.
WriteByte ==
  /\ nfiles > 0 /\ wrote < Size
  /\ wrote' = wrote + 1
  /\ file' = [file EXCEPT ![nfiles].to = wrote + 1]
  /\ UNCHANGED <<path, nfiles, format, tail, history>>

\* logrotate renames the file ...
Rename ==
  /\ path # 0
  /\ path' = 0
  /\ UNCHANGED <<wrote, file, nfiles, format, tail, history>>

\* ... and the server, between two records, opens a new one in its place.
Create ==
  /\ path = 0 /\ nfiles < MaxFiles
  /\ wrote + 1 \in Starts \cup {Size + 1}
  /\ nfiles' = nfiles + 1
  /\ path' = nfiles + 1
  /\ file' = [file EXCEPT ![nfiles + 1] = [from |-> wrote, to |-> wrote]]
  /\ UNCHANGED <<wrote, format, tail, history>>

\* copytruncate: the file is emptied in place.
Truncate ==
  /\ path # 0 /\ Bytes(path) # {}
  /\ file' = [file EXCEPT ![path] = [from |-> wrote, to |-> wrote]]
  /\ dirty' = dirty \cup {path}
  /\ UNCHANGED <<wrote, path, nfiles, format, tail, taken, shipped, torn>>

-----------------------------------------------------------------------------
(* The collector.                                                          *)

\* reopenIfRotated finds the file it has open.
SameFile == f # 0 /\ path = inode

\* logTicker.C: os.Stat(path).  A missing file is "nothing new yet".
StatSame ==
  /\ pc = "idle" /\ path # 0 /\ SameFile
  /\ Goto("read")
  /\ UNCHANGED <<disk, f, inode, offset, statted, chunk, history>>

\* The inode is another one: Close.
StatOther ==
  /\ pc = "idle" /\ path # 0 /\ ~SameFile
  /\ f' = 0
  /\ statted' = path
  /\ Goto("open")
  /\ UNCHANGED <<disk, inode, offset, chunk, history>>

\* os.Open(path), which by now may name another file than os.Stat saw.
Open ==
  /\ pc = "open" /\ path # 0
  /\ f' = path
  /\ inode' = statted
  /\ offset' = 0
  /\ statted' = 0
  /\ Goto("read")
  /\ dirty' = IF path = statted THEN dirty ELSE dirty \cup {path}
  /\ UNCHANGED <<disk, chunk, taken, shipped, torn>>

OpenFails ==
  /\ pc = "open" /\ path = 0
  /\ statted' = 0
  /\ Goto("idle")
  /\ UNCHANGED <<disk, f, inode, offset, chunk, history>>

\* "size < t.offset": start over.
Start == IF file[f].to - file[f].from < offset THEN 0 ELSE offset

\* The newlines among the bytes ReadAt returns from here.
Complete(start) ==
  {n \in Newlines \cap Bytes(f) :
     /\ file[f].from + start < n
     /\ n <= file[f].from + start + MaxChunk}

Advance(start, cut) == cut - file[f].from

\* Stat, ReadAt and the cut at the last newline.
ReadChunk ==
  /\ pc = "read" /\ Complete(Start) # {}
  /\ LET cut == Max(Complete(Start))
         got == (file[f].from + Start + 1)..cut
     IN  /\ chunk' = [from |-> file[f].from + Start, to |-> cut]
         /\ offset' = Advance(Start, cut)
         /\ taken' = [b \in 1..Size |-> taken[b] + (IF b \in got THEN 1 ELSE 0)]
  /\ Goto("ship")
  /\ UNCHANGED <<disk, f, inode, statted, shipped, torn, dirty>>

\* No complete line yet.
ReadNothing ==
  /\ pc = "read" /\ Complete(Start) = {}
  /\ offset' = Start
  /\ Goto("idle")
  /\ UNCHANGED <<disk, f, inode, statted, chunk, history>>

InChunk == (chunk.from + 1)..chunk.to

\* Records with a byte in the chunk, those that begin in it, and those that it
\* holds a part of only.
Touched == {s \in Starts : Record(s) \cap InChunk # {}}
Framed  == Starts \cap InChunk
Cut     == {s \in Touched : ~(Record(s) \subseteq InChunk)}

\* A chunk may begin inside a record: what it has of that record, and the first
\* bytes of the lines of it that are not blank.
Fragment == {b \in InChunk : \A s \in Framed : b < s}
FragmentLines == {b \in Fragment \ Newlines : b - 1 \in Newlines \cup {chunk.from}}

\* csv.Reader fails on a quote that is not closed, and Drain drops the chunk for
\* it: the chunk ends inside a record that begins in it, or it begins with a line
\* from inside a quoted field whose closing quote it has.  The middle lines of a
\* record alone have their quotes in pairs, and after a truncation the rest of a
\* line may have, too.  The stderr scanner takes what there is.
Parses ==
  format = "stderr" \/ \A s \in Cut :
                         /\ s \notin InChunk
                         /\ chunk.from \in Newlines => Max(Record(s)) \notin InChunk

\* The events that ParseStream makes of the fragment, by where they begin; they
\* are log.unclassified.  stderr: a TAB continues the line before it, whatever
\* that is, so all of it is one event.  CSV: a row for each line, unless a quoted
\* field runs on into the next one.
FragmentEvents ==
  {rows \in SUBSET FragmentLines :
     /\ FragmentLines # {} => Min(FragmentLines) \in rows
     /\ format = "stderr" => Cardinality(rows) <= 1}

\* Drain's events are sent and the ingestion server stores them, whether or
\* not its answer arrives: one of each record that begins in the chunk, and those
\* of the fragment.
Ship ==
  /\ pc = "ship" /\ Parses
  /\ \E rows \in FragmentEvents :
       shipped' = [b \in 1..Size |-> shipped[b] + (IF b \in Framed \cup rows THEN 1 ELSE 0)]
  /\ torn' = torn \cup (Framed \cap Cut)
  /\ Goto("idle")
  /\ chunk' = Empty
  /\ UNCHANGED <<disk, f, inode, offset, statted, taken, dirty>>

\* Drain fails, or Send and nothing is stored: an error is logged.  The
\* offset has moved on.
SendFails ==
  /\ pc = "ship"
  /\ Goto("idle")
  /\ chunk' = Empty
  /\ UNCHANGED <<disk, f, inode, offset, statted, history>>

Environment == WriteByte \/ Rename \/ Create \/ Truncate

Collect ==
  \/ StatSame \/ StatOther \/ Open \/ OpenFails \/ ReadChunk \/ ReadNothing
  \/ Ship \/ SendFails

Next == Environment \/ Collect

Spec == Init /\ [][Next]_vars

\* The log ticker fires and the calls return.
FairSpec == Spec /\ WF_vars(Collect)

-----------------------------------------------------------------------------
(* Properties.                                                             *)

\* Type invariant of the tail, the files and the histories.
TypeOK ==
  /\ wrote \in 0..Size
  /\ file \in [Files -> [from : 0..Size, to : 0..Size]]
  /\ path \in 0..nfiles /\ nfiles \in 0..MaxFiles
  /\ format \in {"stderr", "csv"}
  /\ f \in 0..nfiles /\ inode \in 0..nfiles /\ statted \in 0..nfiles
  /\ offset \in 0..Size
  /\ pc \in {"idle", "open", "read", "ship"}
  /\ chunk \in [from : 0..Size, to : 0..Size]
  /\ taken \in [1..Size -> Nat]
  /\ shipped \in [1..Size -> Nat]
  /\ torn \subseteq Starts
  /\ dirty \subseteq Files

\* Reading is exact: of the open file everything before the offset has been
\* returned once and nothing after it, and no byte of any file was returned
\* twice - unless the file was truncated, or was opened while it replaced
\* the one that os.Stat had seen.
ReadIsPrefix ==
  \A i \in 1..nfiles \ dirty : \A b \in Bytes(i) :
    IF i = f THEN taken[b] = IF b <= file[i].from + offset THEN 1 ELSE 0
             ELSE taken[b] <= 1

\* A CSV event that begins where a record does is made of the whole record,
\* whatever the chunk boundaries.
CsvWhole == format = "csv" => torn = {}

\* A CSV record has been delivered as an event of its own or as events of lines
\* from its middle, never as both.
FragmentsApart ==
  format = "csv" =>
    \A i \in 1..nfiles \ dirty : \A s \in Starts \cap Bytes(i) :
      shipped[s] > 0 => \A b \in Record(s) \ {s} : shipped[b] = 0

\* Log events are delivered at most once: no text is sent again when its delivery
\* failed, and rotation repeats none; an event that begins with a CSV record is
\* the whole of it, and such a record is not delivered in fragments besides; and
\* what has been read up to the offset is the file, without a hole.
EventOnce ==
  /\ ReadIsPrefix
  /\ \A i \in 1..nfiles \ dirty : \A b \in Bytes(i) : shipped[b] <= 1
  /\ CsvWhole
  /\ FragmentsApart

\* The tail catches up: again and again every complete line of the file has
\* been read.  A truncated file may have grown past the offset again unseen.
CaughtUp ==
  path \in {0} \cup dirty \/ \A n \in Newlines \cap Bytes(path) : taken[n] > 0
CatchesUp == []<>CaughtUp

-----------------------------------------------------------------------------
\* internal/collector/logsource.go:22-23: "Each Read returns a bounded chunk
\* [...] cut on the last '\n' so a chunk never splits a record (a TAB-prefixed
\* stderr continuation or a CSV row)."  A record's lines are not all there
\* when the file is read, or do not all fit into a chunk.
NeverSplits == pc = "ship" /\ f \notin dirty => Cut = {}
=============================================================================
