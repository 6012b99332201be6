---------------------------- MODULE LogTailProofs ----------------------------
(***************************************************************************)
(* Proofs about LogTail, for any stream of bytes, any lines and records,   *)
(* any chunk size and any number of rotations.                             *)
(*                                                                         *)
(* The files hold disjoint intervals of the stream (Disk), so that reading *)
(* one leaves the others alone; the newest file is unread until it is      *)
(* opened (Unread), and a file that was closed is never the newest, unless *)
(* it is dirty: that is why a file is not read twice (ReadOf).             *)
(*                                                                         *)
(* And proofs about Readers, for any relations, schemas and changes: what  *)
(* stays in its place is listed by one query of a reader (Awaits, Past).   *)
(*                                                                         *)
(* And proofs about CollectorLoop, for any keys, loads, readers, width of  *)
(* a bucket and budget: of each start and key, what was shipped and what   *)
(* is held add up to what was observed (Counts).                           *)
(***************************************************************************)
EXTENDS MCLogTail, Sequences, FiniteSetTheorems, WellFoundedInduction, TLAPS

\* Files follow each other in the stream, and the server writes the newest.
Disk ==
  /\ path \in {0, nfiles}
  /\ nfiles > 0 => file[nfiles].to = wrote
  /\ \A i \in 1..nfiles : file[i].from <= file[i].to /\ file[i].to <= wrote
  /\ \A i, j \in 1..nfiles : i < j => file[i].to <= file[j].from

\* What is open, and what of it is known.
OpenFile ==
  /\ pc = "open" => f = 0
  /\ pc \in {"read", "ship"} => f # 0
  /\ pc # "ship" => chunk = Empty
  /\ f # 0 /\ f \notin dirty => inode = f /\ offset <= file[f].to - file[f].from

Unread ==
  /\ \A b \in 1..Size : b > wrote => taken[b] = 0
  /\ nfiles # 0 /\ nfiles # f /\ nfiles \notin dirty => \A b \in Bytes(nfiles) : taken[b] = 0

\* What has been returned of file i.
ReadOf(i) ==
  \A b \in Bytes(i) :
    IF i = f THEN taken[b] = IF b <= file[i].from + offset THEN 1 ELSE 0 ELSE taken[b] <= 1

\* An event is stored for a byte that was returned, and not while its chunk is
\* still to be sent.
Pending(b) == IF pc = "ship" /\ b \in InChunk THEN 1 ELSE 0
ShippedOf(b) == shipped[b] + Pending(b) <= taken[b]

\* The chunk that is to be sent is of one file, as far as a file is clean.
OneFile ==
  pc = "ship" =>
    /\ chunk.to <= wrote
    /\ \A i \in 1..nfiles \ dirty : InChunk \subseteq Bytes(i) \/ InChunk \cap Bytes(i) = {}

\* A CSV record that was delivered as an event was taken as a whole before the
\* chunk that is to be sent, and nothing else is made of it.
WholeOf(i, s) ==
  format = "csv" /\ shipped[s] > 0 =>
    /\ Record(s) \subseteq Bytes(i)
    /\ \A b \in Record(s) : taken[b] >= 1 + Pending(b)
    /\ \A b \in Record(s) \ {s} : shipped[b] = 0

Apart == \A i \in 1..nfiles \ dirty : \A s \in Starts \cap Bytes(i) : WholeOf(i, s)

IInv ==
  /\ TypeOK /\ Disk /\ OpenFile /\ Unread
  /\ \A i \in 1..nfiles \ dirty : ReadOf(i)
  /\ \A b \in 1..Size : ShippedOf(b)
  /\ CsvWhole /\ OneFile /\ Apart

-----------------------------------------------------------------------------
(* The cut: a chunk ends with a newline of the file.                       *)

LEMMA MaxIn ==
  ASSUME NEW n \in Nat, NEW S, S \subseteq 0..n, S # {}
  PROVE  Max(S) \in S
<1> DEFINE T == {n - x : x \in S}
           R == OpToRel(<, Nat)
<1>1. T \subseteq Nat /\ T # {}
  <2>1. \A x \in S : n - x \in Nat
    OBVIOUS
  <2>2. PICK x : x \in S
    OBVIOUS
  <2>3. n - x \in T
    BY <2>2
  <2> QED BY <2>1, <2>3
<1>2. PICK m \in T : \A j \in T : ~(<<j, m>> \in R)
  BY <1>1, NatLessThanWellFounded, WFMin
<1>3. \A j \in T : ~(j < m)
  BY <1>1, <1>2 DEF OpToRel
<1>4. PICK x \in S : m = n - x
  OBVIOUS
<1>5. ASSUME NEW y \in S PROVE x >= y
  <2>1. n - y \in T /\ n - y \in Int /\ m \in Int /\ x \in Int /\ y \in Int
    BY <1>4
  <2>2. ~(n - y < m)
    BY <1>3, <2>1
  <2> QED BY <1>4, <2>1, <2>2
<1> QED BY <1>4, <1>5 DEF Max

LEMMA StreamBounds ==
  /\ Size \in Nat /\ MaxChunk \in Nat /\ MaxFiles \in Nat /\ 0 < Size
  /\ Newlines \subseteq 1..Size /\ Starts \subseteq 1..Size
BY StreamAssumption

\* The types, unfolded.
LEMMA Types ==
  ASSUME TypeOK
  PROVE  /\ wrote \in 0..Size /\ nfiles \in 0..MaxFiles /\ path \in 0..nfiles
         /\ f \in 0..nfiles /\ inode \in 0..nfiles /\ statted \in 0..nfiles /\ offset \in 0..Size
         /\ \A i \in Files : file[i].from \in 0..Size /\ file[i].to \in 0..Size
         /\ 1..nfiles \subseteq Files /\ DOMAIN file = Files
         /\ taken \in [1..Size -> Nat] /\ shipped \in [1..Size -> Nat]
         /\ chunk.from \in 0..Size /\ chunk.to \in 0..Size
<1>1. taken \in [1..Size -> Nat] /\ shipped \in [1..Size -> Nat]
  BY DEF TypeOK
<1>2. /\ wrote \in 0..Size /\ nfiles \in 0..MaxFiles /\ path \in 0..nfiles
      /\ f \in 0..nfiles /\ inode \in 0..nfiles /\ statted \in 0..nfiles /\ offset \in 0..Size
      /\ chunk.from \in 0..Size /\ chunk.to \in 0..Size
  BY DEF TypeOK
<1>3. 1..nfiles \subseteq Files
  BY <1>2, StreamBounds DEF Files
<1>4. DOMAIN file = Files /\ \A i \in Files : file[i].from \in 0..Size /\ file[i].to \in 0..Size
  BY DEF TypeOK
<1> QED BY <1>1, <1>2, <1>3, <1>4

LEMMA Interval ==
  ASSUME TypeOK, NEW i \in Files
  PROVE  /\ file[i].from \in 0..Size /\ file[i].to \in 0..Size
         /\ file[i].from \in Int /\ file[i].to \in Int
BY Types, StreamBounds

\* A chunk that is read: from the offset to a newline in the file.
LEMMA ChunkRead ==
  ASSUME IInv, ReadChunk
  PROVE  LET cut == Max(Complete(Start)) IN
         /\ f \in 1..nfiles /\ Start \in 0..Size /\ cut \in Bytes(f)
         /\ file[f].from + Start < cut /\ cut \in 1..Size /\ cut <= wrote
         /\ cut - file[f].from \in 0..Size
<1> DEFINE cut == Max(Complete(Start))
<1>1. f # 0 /\ TypeOK /\ f \in 1..nfiles
  BY Types DEF IInv, OpenFile, ReadChunk
<1>2. Complete(Start) # {} /\ Complete(Start) \subseteq 0..Size
  <2>1. Complete(Start) # {}
    BY DEF ReadChunk
  <2>2. ASSUME NEW x \in Complete(Start) PROVE x \in 0..Size
    <3>1. x \in Newlines
      BY DEF Complete
    <3> QED BY <3>1, StreamBounds
  <2> QED BY <2>1, <2>2
<1>3. cut \in Complete(Start)
  BY <1>2, MaxIn, StreamBounds
<1>4. cut \in Bytes(f) /\ file[f].from + Start < cut /\ cut \in 1..Size
  BY <1>3, StreamBounds DEF Complete
<1>5. Start \in 0..Size
  BY <1>1, Types, StreamBounds DEF Start
<1>6. f \in Files /\ file[f].from \in 0..Size /\ file[f].to \in 0..Size
  BY <1>1, Types
<1>7. file[f].to <= wrote /\ wrote \in 0..Size
  BY <1>1, Types DEF IInv, Disk
<1> HIDE DEF cut
<1>8. cut <= wrote /\ cut - file[f].from \in 0..Size
  BY <1>4, <1>5, <1>6, <1>7, StreamBounds DEF Bytes
<1> QED BY <1>1, <1>4, <1>5, <1>8 DEF cut

-----------------------------------------------------------------------------
(* The initial state.                                                      *)

LEMMA InitIInv == Init => IInv
<1> SUFFICES ASSUME Init PROVE IInv
  OBVIOUS
<1>1. TypeOK
  BY StreamBounds DEF Init, TypeOK, Files, Empty
<1>2. Disk /\ OpenFile /\ Unread /\ CsvWhole
  BY StreamBounds DEF Init, Disk, OpenFile, Unread, CsvWhole
<1>3. \A b \in 1..Size : ShippedOf(b)
  BY StreamBounds DEF Init, ShippedOf, Pending
<1>4. (\A i \in 1..nfiles \ dirty : ReadOf(i)) /\ OneFile /\ Apart
  BY DEF Init, OneFile, Apart
<1> QED BY <1>1, <1>2, <1>3, <1>4 DEF IInv

-----------------------------------------------------------------------------
(* The server and logrotate.  They touch the newest file only, and nothing *)
(* that has been read of it unless it becomes dirty.                       *)

\* Bytes of different files are different.
LEMMA Disjoint ==
  ASSUME IInv, NEW i \in 1..nfiles, NEW j \in 1..nfiles, i # j, NEW b \in Bytes(i)
  PROVE  b \notin Bytes(j)
<1>1. /\ i \in Int /\ j \in Int /\ file[i].from \in Int /\ file[i].to \in Int
      /\ file[j].from \in Int /\ file[j].to \in Int
  <2>1. i \in Files /\ j \in Files /\ i \in Int /\ j \in Int
    BY Types, SMTT(30) DEF IInv
  <2> QED BY <2>1, Interval DEF IInv
<1>2. i < j => file[i].to <= file[j].from
  BY DEF IInv, Disk
<1>3. j < i => file[j].to <= file[i].from
  BY DEF IInv, Disk
<1> QED BY <1>1, <1>2, <1>3 DEF Bytes

LEMMA InStream ==
  ASSUME IInv, NEW i \in 1..nfiles, NEW b \in Bytes(i)
  PROVE  b \in 1..Size /\ b <= wrote
<1>1. i \in Files /\ wrote \in 0..Size
  BY Types DEF IInv
<1>2. file[i].from \in 0..Size /\ file[i].to \in 0..Size /\ file[i].to <= wrote
  BY <1>1, Types DEF IInv, Disk
<1> QED BY <1>1, <1>2, StreamBounds DEF Bytes

\* A step that adds to the clean files what is written now, and takes nothing.
Grown ==
  \A i \in 1..nfiles' \ dirty' : \A b \in Bytes(i)' :
    b > wrote \/ (i \in 1..nfiles \ dirty /\ b \in Bytes(i))

Kept == \A i \in 1..nfiles \ dirty : i \in 1..nfiles' \ dirty' => Bytes(i) \subseteq Bytes(i)'

\* What a step leaves of the events when no chunk is read or sent.
LEMMA ShippedSame ==
  ASSUME IInv, UNCHANGED <<taken, shipped, format, torn>>, Grown, Kept, wrote' \in {wrote, wrote + 1},
         (pc' = pc /\ chunk' = chunk) \/ pc' # "ship"
  PROVE  (\A b \in 1..Size : ShippedOf(b)') /\ CsvWhole' /\ OneFile' /\ Apart'
<1>1. CsvWhole'
  BY DEF IInv, CsvWhole
<1>2. \A b \in 1..Size : Pending(b) \in {0, 1} /\ (Pending(b)' = Pending(b) \/ Pending(b)' = 0)
  BY DEF Pending, InChunk
<1>3. ASSUME NEW b \in 1..Size PROVE ShippedOf(b)'
  <2>1. shipped[b] \in Nat /\ taken[b] \in Nat /\ shipped[b] + Pending(b) <= taken[b]
    BY Types, StreamBounds DEF IInv, ShippedOf
  <2> QED BY <1>2, <2>1 DEF ShippedOf
<1>4. OneFile'
  <2> SUFFICES ASSUME pc' = "ship"
               PROVE  /\ chunk.to <= wrote'
                      /\ \A i \in 1..nfiles' \ dirty' :
                           InChunk \subseteq Bytes(i)' \/ InChunk \cap Bytes(i)' = {}
    BY DEF OneFile, InChunk
  <2>1. /\ chunk.to <= wrote /\ wrote \in Nat /\ chunk.to \in Nat /\ chunk.from \in Nat
        /\ \A i \in 1..nfiles \ dirty : InChunk \subseteq Bytes(i) \/ InChunk \cap Bytes(i) = {}
    <3>1. pc = "ship" /\ wrote \in 0..Size /\ chunk.to \in 0..Size /\ chunk.from \in 0..Size
      BY Types DEF IInv
    <3>2. /\ chunk.to <= wrote
          /\ \A i \in 1..nfiles \ dirty : InChunk \subseteq Bytes(i) \/ InChunk \cap Bytes(i) = {}
      BY <3>1 DEF IInv, OneFile
    <3> QED BY <3>1, <3>2, StreamBounds
  <2>2. ASSUME NEW i \in 1..nfiles' \ dirty'
        PROVE  InChunk \subseteq Bytes(i)' \/ InChunk \cap Bytes(i)' = {}
    <3>1. \A b \in InChunk : ~(b > wrote)
      BY <2>1 DEF InChunk
    <3>2. CASE i \in 1..nfiles \ dirty
      <4>1. \A b \in Bytes(i)' : b \in Bytes(i) \/ b > wrote
        BY <2>2 DEF Grown
      <4>2. Bytes(i) \subseteq Bytes(i)'
        BY <3>2, <2>2 DEF Kept
      <4>3. InChunk \subseteq Bytes(i) \/ InChunk \cap Bytes(i) = {}
        BY <2>1, <3>2
      <4> QED BY <3>1, <4>1, <4>2, <4>3
    <3>3. CASE i \notin 1..nfiles \ dirty
      <4>1. \A b \in Bytes(i)' : b > wrote
        BY <3>3, <2>2 DEF Grown
      <4> QED BY <3>1, <4>1
    <3> QED BY <3>2, <3>3
  <2> QED BY <2>1, <2>2
<1>5. ASSUME NEW i \in 1..nfiles' \ dirty', NEW s \in Starts \cap Bytes(i)' PROVE WholeOf(i, s)'
  <2> SUFFICES ASSUME format = "csv", shipped[s] > 0
               PROVE  /\ Record(s) \subseteq Bytes(i)'
                      /\ \A b \in Record(s) : taken[b] >= 1 + Pending(b)'
                      /\ \A b \in Record(s) \ {s} : shipped[b] = 0
    BY DEF WholeOf, Record
  <2>1. s \in 1..Size /\ s \in Bytes(i)'
    BY StreamBounds
  <2>2. ~(s > wrote)
    <3>1. shipped[s] \in Nat /\ taken[s] \in Nat /\ shipped[s] + Pending(s) <= taken[s]
      BY <2>1, Types DEF IInv, ShippedOf
    <3>2. s > wrote => taken[s] = 0
      BY <2>1 DEF IInv, Unread
    <3> QED BY <1>2, <2>1, <3>1, <3>2
  <2>3. i \in 1..nfiles \ dirty /\ s \in Bytes(i)
    BY <1>5, <2>1, <2>2 DEF Grown
  <2>4. /\ Record(s) \subseteq Bytes(i)
        /\ \A b \in Record(s) : taken[b] >= 1 + Pending(b)
        /\ \A b \in Record(s) \ {s} : shipped[b] = 0
    BY <2>3 DEF IInv, Apart, WholeOf
  <2>5. Bytes(i) \subseteq Bytes(i)'
    BY <1>5, <2>3 DEF Kept
  <2>6. ASSUME NEW b \in Record(s) PROVE taken[b] >= 1 + Pending(b)'
    <3>1. b \in 1..Size /\ taken[b] >= 1 + Pending(b)
      BY <2>4 DEF Record
    <3>2. taken[b] \in Nat
      BY <3>1, Types DEF IInv
    <3> QED BY <1>2, <3>1, <3>2
  <2> QED BY <2>4, <2>5, <2>6
<1> QED BY <1>1, <1>3, <1>4, <1>5 DEF Apart

\* Most steps leave the files alone.
LEMMA ShippedStays ==
  ASSUME IInv, UNCHANGED <<wrote, file, nfiles, taken, shipped, format, torn>>, dirty \subseteq dirty',
         (pc' = pc /\ chunk' = chunk) \/ pc' # "ship"
  PROVE  (\A b \in 1..Size : ShippedOf(b)') /\ CsvWhole' /\ OneFile' /\ Apart'
<1>1. Grown /\ Kept
  BY DEF Grown, Kept, Bytes
<1> QED BY <1>1, ShippedSame

LEMMA StepWriteByte == IInv /\ WriteByte => IInv'
<1> SUFFICES ASSUME IInv, WriteByte PROVE IInv'
  OBVIOUS
<1>0. /\ nfiles \in 1..MaxFiles /\ nfiles \in Files /\ wrote \in 0..Size /\ wrote + 1 \in 1..Size
      /\ file \in [Files -> [from : 0..Size, to : 0..Size]]
      /\ wrote' = wrote + 1 /\ file' = [file EXCEPT ![nfiles].to = wrote + 1]
      /\ UNCHANGED <<path, nfiles, format, tail, history>>
  <2>1. TypeOK /\ nfiles > 0 /\ wrote < Size
    BY DEF IInv, WriteByte
  <2>2. wrote \in 0..Size /\ nfiles \in 0..MaxFiles
    BY <2>1, Types
  <2>3. Size \in Nat /\ MaxFiles \in Nat
    BY StreamBounds
  <2>4. nfiles \in 1..MaxFiles /\ wrote + 1 \in 1..Size
    BY <2>1, <2>2, <2>3
  <2>5. nfiles \in Files
    BY <2>4 DEF Files
  <2>6. file \in [Files -> [from : 0..Size, to : 0..Size]]
    BY <2>1 DEF TypeOK
  <2> QED BY <2>2, <2>4, <2>5, <2>6 DEF WriteByte
<1>1. /\ file'[nfiles].from = file[nfiles].from /\ file'[nfiles].to = wrote + 1
      /\ file[nfiles].to = wrote /\ file[nfiles].from <= wrote
      /\ file[nfiles].from \in 0..Size
      /\ \A i \in 1..nfiles : i # nfiles => file'[i] = file[i]
  BY <1>0, Types DEF IInv, Disk
<1>2. TypeOK'
  <2>1. file' \in [Files -> [from : 0..Size, to : 0..Size]]
    BY <1>0
  <2> QED BY <1>0, <2>1 DEF IInv, TypeOK, tail, history
<1>3. Disk'
  <2>1. ASSUME NEW i \in 1..nfiles
        PROVE  file'[i].from <= file'[i].to /\ file'[i].to <= wrote + 1
    <3>1. file[i].from <= file[i].to /\ file[i].to <= wrote /\ file[i].to \in 0..Size
      BY Types DEF IInv, Disk
    <3>2. CASE i = nfiles
      BY <1>0, <1>1, <3>2, StreamBounds
    <3>3. CASE i # nfiles
      BY <1>0, <1>1, <3>1, <3>3, StreamBounds
    <3> QED BY <3>2, <3>3
  <2>2. ASSUME NEW i \in 1..nfiles, NEW j \in 1..nfiles, i < j
        PROVE  file'[i].to <= file'[j].from
    <3>1. i # nfiles /\ file[i].to <= file[j].from
      BY <1>0, <2>2 DEF IInv, Disk
    <3> QED BY <1>1, <3>1
  <2> QED BY <1>0, <1>1, <2>1, <2>2 DEF IInv, Disk
<1>4. OpenFile'
  <2>1. UNCHANGED <<pc, f, chunk, inode, offset, dirty>> /\ f \in 0..nfiles
    BY <1>0, Types DEF tail, history, IInv
  <2>2. f # 0 => file'[f].to - file'[f].from >= file[f].to - file[f].from
    <3> HAVE f # 0
    <3>1. CASE f = nfiles
      BY <1>0, <1>1, <3>1, StreamBounds
    <3>2. CASE f # nfiles
      <4>1. f \in 1..nfiles /\ file[f].to \in 0..Size /\ file[f].from \in 0..Size
        BY <1>0, <2>1, Types, SMTT(30) DEF IInv
      <4> QED BY <1>1, <3>2, <4>1, StreamBounds
    <3> QED BY <3>1, <3>2
  <2>3. f # 0 => /\ file'[f].to \in Int /\ file'[f].from \in Int
                 /\ file[f].to \in Int /\ file[f].from \in Int /\ offset \in Int
    <3> HAVE f # 0
    <3>1. TypeOK
      BY DEF IInv
    <3>2. f \in Files /\ offset \in 0..Size
      BY <2>1, <3>1, Types, SMTT(30)
    <3>3. file[f].to \in Int /\ file[f].from \in Int
      BY <3>1, <3>2, Interval
    <3>4. file'[f].to \in Int /\ file'[f].from \in Int
      BY <1>0, <1>1, <3>3, StreamBounds
    <3> QED BY <3>2, <3>3, <3>4, StreamBounds
  <2> QED BY <2>1, <2>2, <2>3 DEF IInv, OpenFile
<1>5. Unread'
  <2>1. UNCHANGED <<f, taken, dirty>>
    BY <1>0 DEF tail, history
  <2>2. \A b \in Bytes(nfiles)' : b \in Bytes(nfiles) \/ b = wrote + 1
    BY <1>0, <1>1 DEF Bytes
  <2>3. taken[wrote + 1] = 0
    BY <1>0 DEF IInv, Unread
  <2> QED BY <1>0, <2>1, <2>2, <2>3 DEF IInv, Unread
<1>6. ASSUME NEW i \in 1..nfiles' \ dirty' PROVE ReadOf(i)'
  <2>1. UNCHANGED <<f, inode, offset, taken, dirty>> /\ i \in 1..nfiles \ dirty /\ ReadOf(i)
    BY <1>0, <1>6 DEF tail, history, IInv
  <2>2. CASE i # nfiles
    BY <1>1, <2>1, <2>2 DEF ReadOf, Bytes
  <2>3. CASE i = nfiles
    <3>1. \A b \in Bytes(nfiles)' : b \in Bytes(nfiles) \/ b = wrote + 1
      BY <1>0, <1>1 DEF Bytes
    <3>2. taken[wrote + 1] = 0
      BY <1>0 DEF IInv, Unread
    <3>3. i = f => ~(wrote + 1 <= file[i].from + offset)
      <4> HAVE i = f
      <4>1. offset <= file[i].to - file[i].from /\ offset \in 0..Size
        BY <2>1, <2>3, Types, <1>0 DEF IInv, OpenFile
      <4> QED BY <1>0, <1>1, <2>3, <4>1, StreamBounds
    <3> QED BY <1>0, <1>1, <2>1, <2>3, <3>1, <3>2, <3>3 DEF ReadOf
  <2> QED BY <2>2, <2>3
<1>7. (\A b \in 1..Size : ShippedOf(b)') /\ CsvWhole' /\ OneFile' /\ Apart'
  <2>1. UNCHANGED <<nfiles, dirty, taken, shipped, format, torn, pc, chunk>>
    BY <1>0 DEF tail, history
  <2>2. ASSUME NEW i \in 1..nfiles, NEW b
        PROVE  (b \in Bytes(i) => b \in Bytes(i)') /\ (b \in Bytes(i)' => b \in Bytes(i) \/ b > wrote)
    <3>1. CASE i # nfiles
      BY <1>1, <3>1 DEF Bytes
    <3>2. CASE i = nfiles
      BY <1>0, <1>1, <3>2, StreamBounds DEF Bytes
    <3> QED BY <3>1, <3>2
  <2>3. Grown /\ Kept
    BY <2>1, <2>2 DEF Grown, Kept
  <2> QED BY <1>0, <2>1, <2>3, ShippedSame
<1> QED BY <1>2, <1>3, <1>4, <1>5, <1>6, <1>7 DEF IInv

LEMMA StepRename == IInv /\ Rename => IInv'
<1> SUFFICES ASSUME IInv, Rename PROVE IInv'
  OBVIOUS
<1>0. path' = 0 /\ UNCHANGED <<wrote, file, nfiles, format, tail, history>>
  BY DEF Rename
<1>1. UNCHANGED <<f, inode, offset, pc, statted, chunk, taken, shipped, torn, dirty>>
  BY <1>0 DEF tail, history
<1>2. TypeOK'
  BY <1>0, <1>1, Types DEF IInv, TypeOK
<1>3. Disk' /\ OpenFile' /\ Unread'
  BY <1>0, <1>1 DEF IInv, Disk, OpenFile, Unread, Bytes
<1>4. ASSUME NEW i \in 1..nfiles' \ dirty' PROVE ReadOf(i)'
  BY <1>0, <1>1 DEF IInv, ReadOf, Bytes
<1>5. (\A b \in 1..Size : ShippedOf(b)') /\ CsvWhole' /\ OneFile' /\ Apart'
  BY <1>0, <1>1, ShippedStays
<1> QED BY <1>2, <1>3, <1>4, <1>5 DEF IInv

LEMMA StepCreate == IInv /\ Create => IInv'
<1> SUFFICES ASSUME IInv, Create PROVE IInv'
  OBVIOUS
<1> DEFINE n == nfiles + 1
<1>0. /\ nfiles < MaxFiles /\ nfiles' = n /\ path' = n
      /\ file' = [file EXCEPT ![n] = [from |-> wrote, to |-> wrote]]
      /\ UNCHANGED <<wrote, format, tail, history>>
  BY DEF Create
<1>1. UNCHANGED <<f, inode, offset, pc, statted, chunk, taken, shipped, torn, dirty>>
  BY <1>0 DEF tail, history
<1>2. /\ nfiles \in 0..MaxFiles /\ n \in 1..MaxFiles /\ wrote \in 0..Size
      /\ file \in [Files -> [from : 0..Size, to : 0..Size]] /\ f \in 0..nfiles
  BY <1>0, Types, StreamBounds DEF IInv, TypeOK
<1>3. /\ file'[n] = [from |-> wrote, to |-> wrote]
      /\ \A i \in 1..nfiles : i # n /\ i \in Files /\ file'[i] = file[i]
      /\ 1..n = 1..nfiles \cup {n}
  <2>1. /\ n \in Files /\ n \in Nat /\ nfiles \in Nat /\ n = nfiles + 1
        /\ \A i \in 1..nfiles : i # n /\ i \in Files
    BY <1>2, StreamBounds DEF Files
  <2>2. 1..n = 1..nfiles \cup {n}
    BY <2>1
  <2>3. file'[n] = [from |-> wrote, to |-> wrote] /\ \A i \in Files : i # n => file'[i] = file[i]
    BY <1>0, <1>2, <2>1
  <2> QED BY <2>1, <2>2, <2>3
<1>4. TypeOK'
  <2>1. file' \in [Files -> [from : 0..Size, to : 0..Size]]
    BY <1>0, <1>2
  <2>2. path' \in 0..nfiles' /\ nfiles' \in 0..MaxFiles
    BY <1>0, <1>2, StreamBounds
  <2>3. f' \in 0..nfiles' /\ inode' \in 0..nfiles' /\ statted' \in 0..nfiles'
    <3>1. f \in 0..nfiles /\ inode \in 0..nfiles /\ statted \in 0..nfiles
      BY Types DEF IInv
    <3> QED BY <1>0, <1>1, <1>2, <3>1, StreamBounds
  <2> QED BY <1>0, <1>1, <2>1, <2>2, <2>3 DEF IInv, TypeOK
<1>5. Disk'
  <2>1. ASSUME NEW i \in 1..n PROVE file'[i].from <= file'[i].to /\ file'[i].to <= wrote
    <3>1. CASE i = n
      BY <1>2, <1>3, <3>1, StreamBounds
    <3>2. CASE i \in 1..nfiles
      BY <1>3, <3>2 DEF IInv, Disk
    <3> QED BY <1>3, <3>1, <3>2
  <2>2. ASSUME NEW i \in 1..n, NEW j \in 1..n, i < j PROVE file'[i].to <= file'[j].from
    <3>1. i \in 1..nfiles
      BY <1>2, <2>2, StreamBounds
    <3>2. CASE j = n
      BY <1>3, <3>1, <3>2 DEF IInv, Disk
    <3>3. CASE j \in 1..nfiles
      BY <1>3, <2>2, <3>1, <3>3 DEF IInv, Disk
    <3> QED BY <1>3, <3>2, <3>3
  <2> QED BY <1>0, <1>3, <2>1, <2>2 DEF Disk
<1>6. OpenFile'
  <2>1. f # 0 => file'[f] = file[f]
    BY <1>2, <1>3, StreamBounds
  <2> QED BY <1>1, <2>1 DEF IInv, OpenFile
<1>7. Unread'
  <2>1. Bytes(nfiles)' = {}
    BY <1>0, <1>2, <1>3, StreamBounds DEF Bytes
  <2> QED BY <1>0, <1>1, <2>1 DEF IInv, Unread
<1>8. ASSUME NEW i \in 1..nfiles' \ dirty' PROVE ReadOf(i)'
  <2>1. CASE i = n
    <3>1. Bytes(i)' = {}
      BY <1>2, <1>3, <2>1, StreamBounds DEF Bytes
    <3> QED BY <3>1 DEF ReadOf
  <2>2. CASE i \in 1..nfiles
    <3>1. ReadOf(i) /\ file'[i] = file[i]
      BY <1>1, <1>3, <1>8, <2>2 DEF IInv
    <3> QED BY <1>1, <3>1 DEF ReadOf, Bytes
  <2> QED BY <1>0, <1>3, <1>8, <2>1, <2>2
<1>9. (\A b \in 1..Size : ShippedOf(b)') /\ CsvWhole' /\ OneFile' /\ Apart'
  <2>1. \A i \in 1..nfiles : Bytes(i)' = Bytes(i)
    BY <1>3 DEF Bytes
  <2>2. ASSUME NEW i, i = n PROVE Bytes(i)' = {}
    <3>1. file'[i].from = wrote /\ file'[i].to = wrote /\ wrote \in Nat
      BY <1>2, <1>3, <2>2, StreamBounds
    <3> QED BY <3>1 DEF Bytes
  <2> HIDE DEF n
  <2>3. Grown
    BY <1>0, <1>1, <1>3, <2>1, <2>2 DEF Grown
  <2>4. Kept
    BY <2>1 DEF Kept
  <2> QED BY <1>0, <1>1, <2>3, <2>4, ShippedSame
<1> QED BY <1>4, <1>5, <1>6, <1>7, <1>8, <1>9 DEF IInv

LEMMA StepTruncate == IInv /\ Truncate => IInv'
<1> SUFFICES ASSUME IInv, Truncate PROVE IInv'
  OBVIOUS
<1>0. /\ path \in 1..nfiles /\ path = nfiles /\ dirty' = dirty \cup {nfiles}
      /\ file' = [file EXCEPT ![nfiles] = [from |-> wrote, to |-> wrote]]
      /\ UNCHANGED <<wrote, path, nfiles, format, tail, taken, shipped, torn>>
  <2>1. TypeOK /\ path # 0 /\ path = nfiles
    BY DEF Truncate, IInv, Disk
  <2>2. path \in 1..nfiles
    BY <2>1, Types, StreamBounds
  <2> QED BY <2>1, <2>2 DEF Truncate
<1>1. UNCHANGED <<f, inode, offset, pc, statted, chunk>>
  BY <1>0 DEF tail
<1>2. /\ nfiles \in 1..MaxFiles /\ wrote \in 0..Size /\ nfiles \in Files
      /\ file \in [Files -> [from : 0..Size, to : 0..Size]] /\ f \in 0..nfiles
  BY <1>0, Types, StreamBounds, SMTT(30) DEF IInv, TypeOK
<1>3. /\ file'[nfiles] = [from |-> wrote, to |-> wrote]
      /\ \A i \in 1..nfiles : i # nfiles => file'[i] = file[i]
  BY <1>0, <1>2, StreamBounds DEF Files
<1>4. TypeOK'
  <2>1. file' \in [Files -> [from : 0..Size, to : 0..Size]]
    BY <1>0, <1>2
  <2> QED BY <1>0, <1>1, <1>2, <2>1 DEF IInv, TypeOK
<1>5. Disk'
  <2>1. ASSUME NEW i \in 1..nfiles PROVE file'[i].from <= file'[i].to /\ file'[i].to <= wrote
    <3>1. CASE i = nfiles
      BY <1>2, <1>3, <3>1, StreamBounds
    <3>2. CASE i # nfiles
      BY <1>3, <3>2 DEF IInv, Disk
    <3> QED BY <3>1, <3>2
  <2>2. ASSUME NEW i \in 1..nfiles, NEW j \in 1..nfiles, i < j
        PROVE  file'[i].to <= file'[j].from
    <3>1. i # nfiles /\ file'[i] = file[i]
      BY <1>2, <1>3, <2>2, StreamBounds
    <3>2. CASE j = nfiles
      BY <1>3, <3>1, <3>2 DEF IInv, Disk
    <3>3. CASE j # nfiles
      BY <1>3, <2>2, <3>1, <3>3 DEF IInv, Disk
    <3> QED BY <3>2, <3>3
  <2> QED BY <1>0, <1>3, <2>1, <2>2 DEF Disk
<1>6. OpenFile' /\ Unread'
  BY <1>0, <1>1, <1>2, <1>3, StreamBounds DEF IInv, OpenFile, Unread
<1>7. ASSUME NEW i \in 1..nfiles' \ dirty' PROVE ReadOf(i)'
  <2>1. ReadOf(i) /\ file'[i] = file[i]
    BY <1>0, <1>3, <1>7 DEF IInv
  <2> QED BY <1>0, <1>1, <2>1 DEF ReadOf, Bytes
<1>8. (\A b \in 1..Size : ShippedOf(b)') /\ CsvWhole' /\ OneFile' /\ Apart'
  <2>1. \A i \in 1..nfiles : i # nfiles => Bytes(i)' = Bytes(i)
    BY <1>3 DEF Bytes
  <2>2. Grown /\ Kept
    BY <1>0, <2>1 DEF Grown, Kept
  <2> QED BY <1>0, <1>1, <2>2, ShippedSame
<1> QED BY <1>4, <1>5, <1>6, <1>7, <1>8 DEF IInv

-----------------------------------------------------------------------------
(* The collector.                                                          *)

\* Steps that leave the files and what was returned of them alone.
LEMMA FilesSame ==
  ASSUME IInv, UNCHANGED <<wrote, file, path, nfiles, format>>
  PROVE  Disk'
BY DEF IInv, Disk

LEMMA StepStatSame == IInv /\ StatSame => IInv'
<1> SUFFICES ASSUME IInv, StatSame PROVE IInv'
  OBVIOUS
<1>0. /\ f # 0 /\ pc' = "read" /\ pc = "idle"
      /\ UNCHANGED <<disk, f, inode, offset, statted, chunk, history>>
  BY DEF StatSame, SameFile, Goto
<1>1. UNCHANGED <<wrote, file, path, nfiles, format, taken, shipped, torn, dirty>>
  BY <1>0 DEF disk, history
<1>2. TypeOK'
  BY <1>0, <1>1 DEF IInv, TypeOK
<1>3. OpenFile' /\ Unread'
  BY <1>0, <1>1 DEF IInv, OpenFile, Unread, Bytes
<1>4. ASSUME NEW i \in 1..nfiles' \ dirty' PROVE ReadOf(i)'
  BY <1>0, <1>1 DEF IInv, ReadOf, Bytes
<1> QED BY <1>0, <1>1, <1>2, <1>3, <1>4, FilesSame, ShippedStays DEF IInv

\* A file that is closed is not the newest, or it is dirty.
LEMMA StepStatOther == IInv /\ StatOther => IInv'
<1> SUFFICES ASSUME IInv, StatOther PROVE IInv'
  OBVIOUS
<1>0. /\ f' = 0 /\ statted' = path /\ pc = "idle" /\ pc' = "open" /\ path # 0 /\ ~SameFile
      /\ UNCHANGED <<disk, inode, offset, chunk, history>>
  BY DEF StatOther, Goto
<1>1. UNCHANGED <<wrote, file, path, nfiles, format, taken, shipped, torn, dirty>>
  BY <1>0 DEF disk, history
<1>2. TypeOK'
  <2>1. 0 \in 0..nfiles /\ path \in 0..nfiles
    BY Types, StreamBounds DEF IInv
  <2> QED BY <1>0, <1>1, <2>1 DEF IInv, TypeOK
<1>3. OpenFile'
  BY <1>0, <1>1 DEF IInv, OpenFile
<1>4. path = nfiles
  BY <1>0 DEF IInv, Disk
<1>5. f # 0 /\ f \notin dirty => f # nfiles
  BY <1>0, <1>4 DEF IInv, OpenFile, SameFile
<1>6. Unread'
  <2>1. nfiles # 0 /\ nfiles \notin dirty => nfiles # f
    BY <1>5
  <2> QED BY <1>1, <2>1 DEF IInv, Unread, Bytes
<1>7. ASSUME NEW i \in 1..nfiles' \ dirty' PROVE ReadOf(i)'
  <2>1. i \in 1..nfiles \ dirty /\ ReadOf(i) /\ i # 0
    BY <1>1, <1>7, Types, StreamBounds DEF IInv
  <2>2. \A b \in Bytes(i) : taken[b] <= 1
    BY <2>1 DEF ReadOf
  <2> QED BY <1>0, <1>1, <2>1, <2>2 DEF ReadOf, Bytes
<1> QED BY <1>0, <1>1, <1>2, <1>3, <1>6, <1>7, FilesSame, ShippedStays DEF IInv

\* A file that is opened under its own number has not been read.
LEMMA StepOpen == IInv /\ Open => IInv'
<1> SUFFICES ASSUME IInv, Open PROVE IInv'
  OBVIOUS
<1>0. /\ pc = "open" /\ path # 0 /\ f = 0 /\ f' = path /\ inode' = statted /\ offset' = 0
      /\ statted' = 0 /\ pc' = "read"
      /\ dirty' = IF path = statted THEN dirty ELSE dirty \cup {path}
      /\ UNCHANGED <<disk, chunk, taken, shipped, torn>>
  BY DEF Open, Goto, IInv, OpenFile
<1>1. UNCHANGED <<wrote, file, path, nfiles, format>>
  BY <1>0 DEF disk
<1>2. path \in 1..nfiles /\ nfiles \in 1..MaxFiles /\ path = nfiles /\ nfiles \in Files
      /\ statted \in 0..nfiles /\ 0 \in 0..nfiles /\ 0 \in 0..Size
  <2>1. TypeOK /\ path = nfiles
    BY <1>0 DEF IInv, Disk
  <2> QED BY <1>0, <2>1, Types, StreamBounds DEF Files
<1>3. TypeOK'
  <2>1. dirty' \subseteq Files
    BY <1>0, <1>2 DEF IInv, TypeOK
  <2> QED BY <1>0, <1>1, <1>2, <2>1 DEF IInv, TypeOK
<1>4. OpenFile'
  <2>1. 0 <= file[nfiles].to - file[nfiles].from
    BY <1>2, Interval DEF IInv, Disk
  <2> QED BY <1>0, <1>1, <1>2, <2>1 DEF IInv, OpenFile
<1>5. Unread'
  BY <1>0, <1>1, <1>2 DEF IInv, Unread
<1>6. ASSUME NEW i \in 1..nfiles' \ dirty' PROVE ReadOf(i)'
  <2>0. i \in 1..nfiles \ dirty
    BY <1>0, <1>1, <1>6
  <2>1. i \in 1..nfiles \ dirty /\ ReadOf(i) /\ i # 0 /\ i \in Files
    BY <2>0, <1>2, Types DEF IInv
  <2>2. CASE i # nfiles
    <3>1. \A b \in Bytes(i) : taken[b] <= 1
      BY <1>0, <2>1 DEF ReadOf
    <3> QED BY <1>0, <1>1, <1>2, <2>2, <3>1 DEF ReadOf, Bytes
  <2>3. CASE i = nfiles
    <3>1. \A b \in Bytes(i) : taken[b] = 0
      BY <1>0, <2>1, <2>3 DEF IInv, Unread
    <3>2. \A b \in Bytes(i) : ~(b <= file[i].from + 0)
      BY <2>1, Interval DEF IInv, Bytes
    <3> QED BY <1>0, <1>1, <1>2, <2>3, <3>1, <3>2 DEF ReadOf, Bytes
  <2> QED BY <2>2, <2>3
<1> QED BY <1>0, <1>1, <1>3, <1>4, <1>5, <1>6, FilesSame, ShippedStays DEF IInv

LEMMA StepOpenFails == IInv /\ OpenFails => IInv'
<1> SUFFICES ASSUME IInv, OpenFails PROVE IInv'
  OBVIOUS
<1>0. /\ statted' = 0 /\ pc = "open" /\ pc' = "idle"
      /\ UNCHANGED <<disk, f, inode, offset, chunk, history>>
  BY DEF OpenFails, Goto
<1>1. UNCHANGED <<wrote, file, path, nfiles, format, taken, shipped, torn, dirty>>
  BY <1>0 DEF disk, history
<1>2. TypeOK'
  <2>1. 0 \in 0..nfiles
    BY Types, StreamBounds DEF IInv
  <2> QED BY <1>0, <1>1, <2>1 DEF IInv, TypeOK
<1>3. OpenFile' /\ Unread'
  BY <1>0, <1>1 DEF IInv, OpenFile, Unread, Bytes
<1>4. ASSUME NEW i \in 1..nfiles' \ dirty' PROVE ReadOf(i)'
  BY <1>0, <1>1 DEF IInv, ReadOf, Bytes
<1> QED BY <1>0, <1>1, <1>2, <1>3, <1>4, FilesSame, ShippedStays DEF IInv

\* The offset of a file that is not dirty is not past its end.
LEMMA StartOfClean ==
  ASSUME IInv, f # 0, f \notin dirty
  PROVE  Start = offset
<1>1. offset <= file[f].to - file[f].from /\ f \in Files /\ offset \in Int
  BY Types, StreamBounds DEF IInv, OpenFile
<1>2. file[f].to \in Int /\ file[f].from \in Int
  BY <1>1, Interval DEF IInv
<1> QED BY <1>1, <1>2 DEF Start

LEMMA StepReadNothing == IInv /\ ReadNothing => IInv'
<1> SUFFICES ASSUME IInv, ReadNothing PROVE IInv'
  OBVIOUS
<1>0. /\ pc = "read" /\ pc' = "idle" /\ offset' = Start /\ f # 0
      /\ UNCHANGED <<disk, f, inode, statted, chunk, history>>
  BY DEF ReadNothing, Goto, IInv, OpenFile
<1>1. UNCHANGED <<wrote, file, path, nfiles, format, taken, shipped, torn, dirty>>
  BY <1>0 DEF disk, history
<1>2. TypeOK'
  <2>1. Start \in 0..Size
    BY StreamBounds DEF IInv, TypeOK, Start
  <2> QED BY <1>0, <1>1, <2>1 DEF IInv, TypeOK
<1>3. f \notin dirty => offset' = offset
  BY <1>0, StartOfClean
<1>4. OpenFile' /\ Unread'
  BY <1>0, <1>1, <1>3 DEF IInv, OpenFile, Unread, Bytes
<1>5. ASSUME NEW i \in 1..nfiles' \ dirty' PROVE ReadOf(i)'
  <2>1. ReadOf(i) /\ (i = f => offset' = offset)
    BY <1>1, <1>3, <1>5 DEF IInv
  <2> QED BY <1>0, <1>1, <2>1 DEF ReadOf, Bytes
<1> QED BY <1>0, <1>1, <1>2, <1>4, <1>5, FilesSame, ShippedStays DEF IInv

LEMMA StepReadChunk == IInv /\ ReadChunk => IInv'
<1> SUFFICES ASSUME IInv, ReadChunk PROVE IInv'
  OBVIOUS
<1>1. PICK cut, begin : cut = Max(Complete(Start)) /\ begin = file[f].from + Start
  OBVIOUS
<1>2. /\ f \in 1..nfiles /\ f \in Files /\ Start \in 0..Size /\ cut \in Bytes(f)
      /\ begin < cut /\ cut \in 1..Size /\ cut <= wrote /\ cut - file[f].from \in 0..Size
  BY <1>1, ChunkRead, Types DEF IInv
<1>3. file[f].from \in 0..Size /\ file[f].to \in 0..Size /\ begin \in 0..Size /\ wrote \in 0..Size
  <2>1. file[f].from \in 0..Size /\ file[f].to \in 0..Size /\ wrote \in 0..Size
    BY <1>2, Interval, Types DEF IInv
  <2> QED BY <1>1, <1>2, <2>1, StreamBounds
<1> DEFINE got == (begin + 1)..cut
<1>4. /\ pc = "read" /\ pc' = "ship"
      /\ chunk' = [from |-> begin, to |-> cut] /\ offset' = cut - file[f].from
      /\ taken' = [b \in 1..Size |-> taken[b] + (IF b \in got THEN 1 ELSE 0)]
      /\ UNCHANGED <<disk, f, inode, statted, shipped, torn, dirty>>
  BY <1>1 DEF ReadChunk, Goto, Advance
<1>5. UNCHANGED <<wrote, file, path, nfiles, format>>
  BY <1>4 DEF disk
<1>6. got \subseteq Bytes(f) /\ got \subseteq 1..Size
  BY <1>1, <1>2, <1>3, StreamBounds DEF Bytes
<1>7. taken \in [1..Size -> Nat]
  BY DEF IInv, TypeOK
<1>8. TypeOK'
  <2>1. taken' \in [1..Size -> Nat]
    BY <1>4, <1>7
  <2>2. chunk' \in [from : 0..Size, to : 0..Size]
    BY <1>2, <1>3, <1>4, StreamBounds
  <2> QED BY <1>2, <1>4, <1>5, <2>1, <2>2 DEF IInv, TypeOK
<1>9. OpenFile'
  <2>1. cut - file[f].from <= file[f].to - file[f].from
    BY <1>2, <1>3, StreamBounds DEF Bytes
  <2> QED BY <1>2, <1>4, <1>5, <2>1, StreamBounds DEF IInv, OpenFile
<1>10. Unread'
  <2>1. ASSUME NEW b \in 1..Size, b > wrote PROVE taken'[b] = 0
    <3>1. taken[b] = 0
      BY <2>1 DEF IInv, Unread
    <3>2. b \notin got
      BY <1>2, <1>3, <2>1, StreamBounds
    <3> QED BY <1>4, <3>1, <3>2
  <2>2. ASSUME nfiles # 0, nfiles # f, nfiles \notin dirty, NEW b \in Bytes(nfiles)
        PROVE  taken'[b] = 0
    <3>1. nfiles \in 1..nfiles
      BY <2>2, Types, StreamBounds DEF IInv
    <3>2. b \notin got /\ b \in 1..Size
      BY <1>2, <1>6, <2>2, <3>1, Disjoint, InStream
    <3>3. taken[b] = 0
      BY <2>2 DEF IInv, Unread
    <3> QED BY <1>4, <3>2, <3>3
  <2> QED BY <1>4, <1>5, <2>1, <2>2 DEF Unread, Bytes
<1>11. ASSUME NEW i \in 1..nfiles' \ dirty' PROVE ReadOf(i)'
  <2>0. i \in 1..nfiles \ dirty /\ ReadOf(i)
    BY <1>4, <1>5, <1>11 DEF IInv
  <2> SUFFICES ASSUME NEW b \in Bytes(i)
               PROVE  IF i = f THEN taken'[b] = IF b <= cut THEN 1 ELSE 0 ELSE taken'[b] <= 1
    <3>1. i = f => file[i].from + offset' = cut
      BY <1>2, <1>3, <1>4, StreamBounds
    <3> QED BY <1>4, <1>5, <3>1 DEF ReadOf, Bytes
  <2>1. b \in 1..Size
    BY <2>0, InStream
  <2>2. CASE i # f
    <3>1. b \notin got
      BY <1>2, <1>6, <2>0, <2>2, Disjoint
    <3>2. taken[b] <= 1 /\ taken[b] \in Nat
      BY <1>7, <2>0, <2>1, <2>2 DEF ReadOf
    <3> QED BY <1>4, <2>1, <2>2, <3>1, <3>2
  <2>3. CASE i = f
    <3>1. begin = file[i].from + offset
      BY <1>1, <1>2, <2>0, <2>3, StartOfClean, StreamBounds
    <3>2. taken[b] = IF b <= begin THEN 1 ELSE 0
      BY <2>0, <2>3, <3>1 DEF ReadOf
    <3>3. b \in got <=> begin < b /\ b <= cut
      BY <1>2, <1>3, <2>1, StreamBounds
    <3>4. b <= begin => b <= cut
      BY <1>2, <1>3, <2>1, StreamBounds
    <3> HIDE DEF got
    <3>5. taken'[b] = taken[b] + (IF b \in got THEN 1 ELSE 0)
      BY <1>4, <2>1
    <3> QED BY <1>2, <1>3, <2>1, <2>3, <3>2, <3>3, <3>4, <3>5, StreamBounds
  <2> QED BY <2>2, <2>3
<1>12. ASSUME NEW s \in 1..Size PROVE ShippedOf(s)'
  <2>1. shipped[s] + 0 <= taken[s] /\ shipped[s] \in Nat /\ taken[s] \in Nat
    <3>1. Pending(s) = 0
      BY <1>4 DEF Pending
    <3>2. shipped[s] \in Nat /\ taken[s] \in Nat
      BY <1>7, StreamBounds DEF IInv, TypeOK
    <3> QED BY <3>1, <3>2 DEF IInv, ShippedOf
  <2>2. InChunk' = got
    BY <1>4 DEF InChunk
  <2>3. Pending(s)' = IF s \in got THEN 1 ELSE 0
    BY <1>4, <2>2 DEF Pending
  <2>4. taken'[s] = taken[s] + (IF s \in got THEN 1 ELSE 0) /\ shipped' = shipped
    BY <1>4
  <2> HIDE DEF got
  <2> QED BY <2>1, <2>3, <2>4 DEF ShippedOf
<1>13. CsvWhole'
  BY <1>4, <1>5 DEF IInv, CsvWhole
<1>14. InChunk' = got /\ (\A i : Bytes(i)' = Bytes(i)) /\ 1..nfiles' \ dirty' = 1..nfiles \ dirty
  BY <1>4, <1>5 DEF InChunk, Bytes
<1>15. \A i \in 1..nfiles : i # f => got \cap Bytes(i) = {}
  BY <1>2, <1>6, Disjoint
<1>16. OneFile'
  <2>1. chunk'.to <= wrote'
    BY <1>2, <1>4, <1>5
  <2> QED BY <1>6, <1>14, <1>15, <2>1 DEF OneFile
<1>17. ASSUME NEW i \in 1..nfiles \ dirty, NEW s \in Starts \cap Bytes(i) PROVE WholeOf(i, s)'
  <2> SUFFICES ASSUME format = "csv", shipped[s] > 0
               PROVE  /\ Record(s) \subseteq Bytes(i)
                      /\ \A b \in Record(s) : taken'[b] >= 1 + Pending(b)'
                      /\ \A b \in Record(s) \ {s} : shipped[b] = 0
    BY <1>4, <1>5, <1>14 DEF WholeOf, Record
  <2>1. /\ Record(s) \subseteq Bytes(i)
        /\ \A b \in Record(s) : taken[b] >= 1 + Pending(b)
        /\ \A b \in Record(s) \ {s} : shipped[b] = 0
    BY DEF IInv, Apart, WholeOf
  <2>2. ASSUME NEW b \in Record(s) PROVE taken'[b] >= 1 + Pending(b)'
    <3>1. b \in 1..Size /\ b \in Bytes(i) /\ taken[b] \in Nat /\ taken[b] >= 1 + Pending(b)
      BY <1>7, <2>1 DEF Record
    <3>2. taken[b] >= 1
      BY <1>4, <3>1 DEF Pending
    <3>3. b \notin got
      <4> SUFFICES ASSUME b \in got PROVE FALSE
        OBVIOUS
      <4>1. i = f
        BY <1>15, <3>1
      <4>2. begin = file[i].from + offset
        BY <1>1, <1>2, <4>1, StartOfClean, StreamBounds
      <4>3. taken[b] = IF b <= begin THEN 1 ELSE 0
        BY <3>1, <4>1, <4>2 DEF IInv, ReadOf
      <4>4. ~(b <= begin)
        BY <1>2, <1>3, <3>1, StreamBounds
      <4> QED BY <3>2, <4>3, <4>4
    <3>4. Pending(b)' = 0
      BY <1>14, <3>3 DEF Pending
    <3>5. taken'[b] = taken[b]
      <4>1. taken'[b] = taken[b] + 0
        BY <1>4, <3>1, <3>3
      <4> QED BY <3>1, <4>1
    <3> QED BY <3>2, <3>4, <3>5
  <2> QED BY <2>1, <2>2
<1>18. Apart'
  BY <1>14, <1>17 DEF Apart
<1> QED BY <1>5, <1>8, <1>9, <1>10, <1>11, <1>12, <1>13, <1>16, <1>18, FilesSame DEF IInv

\* What a chunk gives: events that begin in it, and of a record that begins in it
\* one only.
LEMMA EventsIn ==
  ASSUME NEW rows \in FragmentEvents
  PROVE  /\ Framed \cup rows \subseteq InChunk
         /\ \A s \in Framed : \A b \in Record(s) \ {s} : b \notin Framed \cup rows
<1>1. rows \subseteq Fragment
  BY DEF FragmentEvents, FragmentLines
<1>2. Framed \cup rows \subseteq InChunk
  BY <1>1 DEF Fragment, Framed
<1>3. ASSUME NEW s \in Framed, NEW b \in Record(s) \ {s} PROVE b \notin Framed \cup rows
  <2>1. s \in 1..Size /\ b \in 1..Size /\ s <= b /\ (b \in Starts => b <= s)
    BY StreamBounds DEF Framed, Record
  <2>2. b \notin Framed
    BY <2>1 DEF Framed
  <2>3. b \notin Fragment
    BY <2>1 DEF Fragment
  <2> QED BY <1>1, <2>2, <2>3
<1> QED BY <1>2, <1>3

LEMMA StepShip == IInv /\ Ship => IInv'
<1> SUFFICES ASSUME IInv, Ship PROVE IInv'
  OBVIOUS
<1>0. PICK rows \in FragmentEvents :
      /\ pc = "ship" /\ Parses /\ pc' = "idle" /\ chunk' = Empty
      /\ shipped' = [b \in 1..Size |-> shipped[b] + (IF b \in Framed \cup rows THEN 1 ELSE 0)]
      /\ torn' = torn \cup (Framed \cap Cut)
      /\ UNCHANGED <<disk, f, inode, offset, statted, taken, dirty>>
  BY DEF Ship, Goto
<1>1. UNCHANGED <<wrote, file, path, nfiles, format>>
  BY <1>0 DEF disk
<1> DEFINE sent == Framed \cup rows
<1>9. sent \subseteq InChunk /\ \A s \in Framed : \A b \in Record(s) \ {s} : b \notin sent
  BY EventsIn
<1>10. \A b \in 1..Size : shipped[b] \in Nat /\ taken[b] \in Nat
  BY Types DEF IInv
<1> HIDE DEF sent
<1>11. \A b \in 1..Size : shipped'[b] = shipped[b] + (IF b \in sent THEN 1 ELSE 0)
  BY <1>0 DEF sent
<1>2. TypeOK'
  <2>1. shipped' \in [1..Size -> Nat]
    BY <1>0, <1>10
  <2>2. Empty \in [from : 0..Size, to : 0..Size]
    BY StreamBounds DEF Empty
  <2>3. torn \subseteq Starts /\ Framed \subseteq Starts
    BY DEF IInv, TypeOK, Framed
  <2>4. torn' \subseteq Starts
    BY <1>0, <2>3
  <2> QED BY <1>0, <1>1, <2>1, <2>2, <2>4 DEF IInv, TypeOK
<1>3. OpenFile' /\ Unread' /\ OneFile'
  BY <1>0, <1>1 DEF IInv, OpenFile, Unread, Bytes, OneFile
<1>4. ASSUME NEW i \in 1..nfiles' \ dirty' PROVE ReadOf(i)'
  BY <1>0, <1>1 DEF IInv, ReadOf, Bytes
<1>5. ASSUME NEW b \in 1..Size PROVE ShippedOf(b)'
  <2>1. shipped[b] + Pending(b) <= taken[b] /\ shipped[b] \in Nat /\ taken[b] \in Nat
    BY <1>10 DEF IInv, ShippedOf
  <2>2. Pending(b) \in {0, 1} /\ (b \in sent => Pending(b) = 1)
    BY <1>0, <1>9 DEF Pending
  <2>3. Pending(b)' = 0 /\ shipped'[b] = shipped[b] + (IF b \in sent THEN 1 ELSE 0)
    BY <1>0, <1>11 DEF Pending
  <2> QED BY <1>0, <2>1, <2>2, <2>3 DEF ShippedOf
<1>6. CsvWhole'
  <2> SUFFICES ASSUME format = "csv" PROVE Framed \cap Cut = {}
    BY <1>0, <1>1 DEF IInv, CsvWhole
  <2>1. ASSUME NEW s \in Cut PROVE s \notin InChunk
    BY <1>0 DEF Parses
  <2> QED BY <2>1 DEF Framed
<1>7. ASSUME NEW i \in 1..nfiles \ dirty, NEW s \in Starts \cap Bytes(i) PROVE WholeOf(i, s)'
  <2> SUFFICES ASSUME format = "csv", shipped'[s] > 0
               PROVE  /\ Record(s) \subseteq Bytes(i)
                      /\ \A b \in Record(s) : taken[b] >= 1
                      /\ \A b \in Record(s) \ {s} : shipped'[b] = 0
    <3>1. \A b : Pending(b)' = 0
      BY <1>0 DEF Pending
    <3>2. \A b \in Record(s) : taken[b] \in Nat
      BY <1>10 DEF Record
    <3> QED BY <1>0, <1>1, <3>1, <3>2 DEF WholeOf, Record, Bytes
  <2>1. s \in 1..Size
    BY StreamBounds
  <2>2. \A b \in Record(s) : b \in 1..Size
    BY DEF Record
  <2>3. \A b \in 1..Size : shipped[b] + Pending(b) <= taken[b]
    BY DEF IInv, ShippedOf
  <2>4. \A b \in Bytes(i) : taken[b] <= 1
    BY DEF IInv, ReadOf
  <2>5. \A b \in InChunk : Pending(b) = 1
    BY <1>0 DEF Pending
  <2>6. \A b : Pending(b) \in {0, 1}
    BY DEF Pending
  <2>7. CASE shipped[s] > 0
    <3>1. /\ Record(s) \subseteq Bytes(i)
          /\ \A b \in Record(s) : taken[b] >= 1 + Pending(b)
          /\ \A b \in Record(s) \ {s} : shipped[b] = 0
      BY <2>7 DEF IInv, Apart, WholeOf
    <3>2. ASSUME NEW b \in Record(s) PROVE b \notin InChunk /\ taken[b] >= 1
      <4>1. taken[b] <= 1 /\ taken[b] >= 1 + Pending(b) /\ taken[b] \in Nat
        BY <1>10, <2>2, <2>4, <3>1
      <4> QED BY <2>5, <2>6, <4>1
    <3>3. ASSUME NEW b \in Record(s) \ {s} PROVE shipped'[b] = 0
      <4>1. shipped'[b] = shipped[b] + 0 /\ shipped[b] = 0
        BY <1>9, <1>11, <2>2, <3>1, <3>2
      <4> QED BY <4>1
    <3> QED BY <3>1, <3>2, <3>3
  <2>8. CASE ~(shipped[s] > 0)
    <3>1. s \in sent
      <4>1. s \notin sent => shipped'[s] = shipped[s] + 0
        BY <1>11, <2>1
      <4> QED BY <1>10, <2>1, <2>8, <4>1
    <3>2. s \in InChunk /\ s \in Framed
      BY <1>9, <3>1 DEF Framed
    <3>3. s \in Record(s)
      BY <2>1, StreamBounds DEF Record
    <3>4. Record(s) \subseteq InChunk
      <4>1. s \in Touched
        BY <3>2, <3>3 DEF Touched
      <4> QED BY <1>0, <3>2, <4>1 DEF Parses, Cut
    <3>5. InChunk \subseteq Bytes(i)
      BY <1>0, <3>2 DEF IInv, OneFile
    <3>6. ASSUME NEW b \in Record(s) PROVE shipped[b] = 0 /\ taken[b] >= 1
      <4>1. /\ shipped[b] + Pending(b) <= taken[b] /\ Pending(b) = 1 /\ taken[b] <= 1
            /\ shipped[b] \in Nat /\ taken[b] \in Nat
        BY <1>10, <2>2, <2>3, <2>4, <2>5, <3>4, <3>5
      <4> QED BY <4>1
    <3>7. ASSUME NEW b \in Record(s) \ {s} PROVE shipped'[b] = 0
      <4>1. shipped'[b] = shipped[b] + 0 /\ shipped[b] = 0
        BY <1>9, <1>11, <2>2, <3>2, <3>6
      <4> QED BY <4>1
    <3> QED BY <3>4, <3>5, <3>6, <3>7
  <2> QED BY <2>7, <2>8
<1>8. Apart'
  BY <1>0, <1>1, <1>7 DEF Apart, Bytes
<1> QED BY <1>1, <1>2, <1>3, <1>4, <1>5, <1>6, <1>8, FilesSame DEF IInv

LEMMA StepSendFails == IInv /\ SendFails => IInv'
<1> SUFFICES ASSUME IInv, SendFails PROVE IInv'
  OBVIOUS
<1>0. /\ pc' = "idle" /\ chunk' = Empty
      /\ UNCHANGED <<disk, f, inode, offset, statted, history>>
  BY DEF SendFails, Goto
<1>1. UNCHANGED <<wrote, file, path, nfiles, format, taken, shipped, torn, dirty>>
  BY <1>0 DEF disk, history
<1>2. TypeOK'
  <2>1. Empty \in [from : 0..Size, to : 0..Size]
    BY StreamBounds DEF Empty
  <2> QED BY <1>0, <1>1, <2>1 DEF IInv, TypeOK
<1>3. OpenFile' /\ Unread'
  BY <1>0, <1>1 DEF IInv, OpenFile, Unread, Bytes
<1>4. ASSUME NEW i \in 1..nfiles' \ dirty' PROVE ReadOf(i)'
  BY <1>0, <1>1 DEF IInv, ReadOf, Bytes
<1> QED BY <1>0, <1>1, <1>2, <1>3, <1>4, FilesSame, ShippedStays DEF IInv

-----------------------------------------------------------------------------
(* The invariant and what follows from it.                                 *)

LEMMA StepIInv == IInv /\ [Next]_vars => IInv'
<1> SUFFICES ASSUME IInv, [Next]_vars PROVE IInv'
  OBVIOUS
<1>1. CASE Environment
  BY <1>1, StepWriteByte, StepRename, StepCreate, StepTruncate DEF Environment
<1>2. CASE Collect
  BY <1>2, StepStatSame, StepStatOther, StepOpen, StepOpenFails, StepReadChunk,
     StepReadNothing, StepShip, StepSendFails DEF Collect
<1>3. CASE UNCHANGED vars
  <2>1. /\ UNCHANGED <<wrote, file, path, nfiles, format, f, inode, offset, pc, statted, chunk>>
        /\ UNCHANGED <<taken, shipped, torn, dirty>>
    BY <1>3 DEF vars, disk, tail, history
  <2>2. TypeOK' /\ OpenFile' /\ Unread'
    BY <2>1 DEF IInv, TypeOK, OpenFile, Unread, Bytes
  <2>3. ASSUME NEW i \in 1..nfiles' \ dirty' PROVE ReadOf(i)'
    BY <2>1 DEF IInv, ReadOf, Bytes
  <2> QED BY <2>1, <2>2, <2>3, FilesSame, ShippedStays DEF IInv
<1> QED BY <1>1, <1>2, <1>3 DEF Next

\* Where the tail is in the files, and what it has taken, holds in every state.
THEOREM Inductive == Spec => []IInv
BY InitIInv, StepIInv, PTL DEF Spec

\* The variables keep their types.
THEOREM TypeCorrect == Spec => []TypeOK
<1>1. IInv => TypeOK
  BY DEF IInv
<1> QED BY <1>1, Inductive, PTL

\* No byte of a file is returned twice and none is skipped; no text is stored as
\* an event twice; an event that begins with a CSV record is the whole of it, and
\* no event of its lines is stored besides - whatever rotations come between the
\* calls of Read, wherever the chunks end and whichever deliveries fail; but for
\* files that were truncated, or opened while they replaced the one that os.Stat
\* had seen.
THEOREM DeliveredOnce == Spec => []EventOnce
<1>1. ASSUME IInv PROVE EventOnce
  <2>1. ReadIsPrefix
    BY <1>1 DEF IInv, ReadOf, ReadIsPrefix
  <2>2. ASSUME NEW i \in 1..nfiles \ dirty, NEW b \in Bytes(i)
        PROVE  shipped[b] <= 1
    <3>0. b \in 1..Size
      BY <1>1, InStream
    <3>1. taken[b] <= 1
      BY <1>1 DEF IInv, ReadOf
    <3>2. shipped[b] + Pending(b) <= taken[b] /\ Pending(b) \in {0, 1}
      BY <1>1, <3>0 DEF IInv, ShippedOf, Pending
    <3>3. shipped[b] \in Nat /\ taken[b] \in Nat
      BY <1>1, <3>0, Types DEF IInv
    <3> QED BY <3>1, <3>2, <3>3
  <2>3. FragmentsApart
    BY <1>1 DEF IInv, Apart, WholeOf, FragmentsApart
  <2> QED BY <1>1, <2>1, <2>2, <2>3 DEF IInv, EventOnce
<1> QED BY <1>1, Inductive, PTL

-----------------------------------------------------------------------------
(* Readers.                                                                *)

\* The kinds of relations that each query is about.
KindsOf == [schemas |-> {}, tables |-> {"r", "p", "m", "f"}, indexes |-> {"i"}, views |-> {"v"},
            functions |-> {"fn"}, sequences |-> {"S"}, sizes |-> {"r", "p", "m"}, scans |-> {"i"},
            max_age |-> {}, database |-> {}, ages |-> {"r", "m", "t"}]

\* Those of the inventory.
OfInventory == {"schemas", "tables", "indexes", "views", "functions", "sequences"}

FineIn(o, places) ==
  /\ o.schema = Catalog!None \/ Catalog!IsAllowed(o.schema)
  /\ Catalog!MayBeNamed(o)
  /\ o.name # Catalog!None => <<o.name, o.schema>> \in places
  /\ o.parent # Catalog!None => <<o.via, o.parent>> \in places

\* A relation is listed once, or once with each parent.
Alone(objects) ==
  \A o1, o2 \in objects :
    o1.name = o2.name /\ o1.name # Catalog!None /\ o1.via \in {Catalog!None, o2.via} => o1 = o2

\* An index is where its table is.
Follows ==
  /\ schema = [r \in Relations |-> schema[r]]
  /\ \A r \in Relations :
       Shapes[r].of # Catalog!None /\ schema[r] # Catalog!Absent => schema[Shapes[r].of] = schema[r]

\* No two queries still to be made list the same relation.
Queue ==
  /\ next \in Seq(DOMAIN KindsOf)
  /\ reader = "inventory" => \A i \in 1..Len(next) : next[i] \in OfInventory
  /\ \A i, j \in 1..Len(next) : i # j => KindsOf[next[i]] \cap KindsOf[next[j]] = {}

Due == UNION {KindsOf[next[i]] : i \in 1..Len(next)}

\* What has been listed is of no query still to be made.
Past == \A o \in out : o.name # Catalog!None => Shapes[o.name].kind \notin Due

Awaited(place) ==
  place[1] \in Relations /\ Shapes[place[1]].kind \in Catalog!Listed[reader] /\ Catalog!IsAllowed(place[2])

\* A relation is among the objects, and with every parent that stayed.
Covers(objects, r) ==
  /\ \E o \in objects : o.name = r
  /\ reader = "inventory" =>
       \A p \in Shapes[r].parents :
         Catalog!Stayed(p) => \E o \in objects : o.name = r /\ o.via = p

\* What stayed where it was has been listed, or its query is to come.
Awaits ==
  \A place \in before :
    Awaited(place) /\ Shapes[place[1]].kind \notin Due => Covers(out, place[1])

ReadInv ==
  /\ Follows /\ Queue /\ reader \in Catalog!CatalogReaders
  /\ \A o \in out : FineIn(o, ever)
  /\ Alone(out) /\ Past
  /\ next = << >> => out = {}
  /\ next # << >> => /\ result = Catalog!Unread /\ before \subseteq Catalog!InPlace
                     /\ Catalog!InPlace \subseteq ever /\ Awaits
  /\ ReadExact

\* The rows of tables: each with its parents that exist, or alone.
LEMMA JoinedIs ==
  ASSUME NEW kinds, NEW x \in Catalog!Joined(kinds)
  PROVE  /\ x = <<x[1], x[2]>> /\ x[1] \in Catalog!Rows(kinds) /\ x[2] \in Catalog!Parents(x[1])
BY DEF Catalog!Joined

LEMMA JoinedHas ==
  ASSUME NEW kinds, NEW r \in Catalog!Rows(kinds), NEW p \in Catalog!Parents(r)
  PROVE  <<r, p>> \in Catalog!Joined(kinds)
BY DEF Catalog!Joined

LEMMA ParentsIs ==
  ASSUME NEW r \in Relations
  PROVE  /\ Catalog!Parents(r) # {}
         /\ \A p \in Catalog!Parents(r) :
              p = Catalog!None \/ (p \in Relations /\ p \in Shapes[r].parents /\ Catalog!Exists(p))
         /\ Catalog!None \in Catalog!Parents(r) => Catalog!Parents(r) = {Catalog!None}
         /\ \A p \in Shapes[r].parents : Catalog!Exists(p) => p \in Catalog!Parents(r)
<1> DEFINE there == {p \in Shapes[r].parents : Catalog!Exists(p)}
<1>1. there \subseteq Relations /\ Catalog!None \notin there
  BY CatalogAssumption
<1>2. Catalog!Parents(r) = IF there = {} THEN {Catalog!None} ELSE there
  BY DEF Catalog!Parents
<1> QED BY <1>1, <1>2

\* What a query lists: relations of its kinds in allowed schemas.
OfKinds(o, kinds) ==
  o.name # Catalog!None =>
    /\ o.name \in Catalog!Rows(kinds) /\ o.schema = schema[o.name]

LEMMA AnswerOf ==
  ASSUME NEW q \in DOMAIN KindsOf, NEW o \in Catalog!Answer(q)
  PROVE  OfKinds(o, KindsOf[q])
<1> USE DEF OfKinds, Catalog!Answer, Catalog!Object, KindsOf
<1>1. CASE q \in {"schemas", "max_age", "database"}
  BY <1>1 DEF Catalog!readSchemas, Catalog!freezeDatabase
<1>2. CASE q = "tables"
  <2>1. PICK x \in Catalog!Joined(KindsOf[q]) :
          o = Catalog!Object("table", schema[x[1]], x[1], Catalog!Parent(x[2]), x[2])
    BY <1>2 DEF Catalog!readTables
  <2>2. x[1] \in Catalog!Rows(KindsOf[q])
    BY <2>1, JoinedIs
  <2> QED BY <2>1, <2>2
<1>3. CASE q = "scans"
  BY <1>3 DEF Catalog!indexStats
<1>4. CASE q \in {"indexes", "views", "functions", "sequences"}
  BY <1>4, SMTT(30) DEF Catalog!Plain, Catalog!readIndexes, Catalog!readViews,
     Catalog!readFunctions, Catalog!readSequences
<1>5. CASE q \in {"sizes", "ages"}
  BY <1>5 DEF Catalog!tableStats, Catalog!freezeTables
<1> QED BY <1>1, <1>2, <1>3, <1>4, <1>5

\* It lists each once, or once with each parent.
LEMMA AnswerAlone ==
  ASSUME NEW q \in DOMAIN KindsOf
  PROVE  Alone(Catalog!Answer(q))
<1> USE DEF Alone, Catalog!Answer, Catalog!Object
<1>1. CASE q \in {"schemas", "max_age", "database"}
  BY <1>1 DEF Catalog!readSchemas, Catalog!freezeDatabase
<1>2. CASE q = "tables"
  <2> DEFINE row(x) == Catalog!Object("table", schema[x[1]], x[1], Catalog!Parent(x[2]), x[2])
  <2>1. ASSUME NEW o1 \in Catalog!Answer(q), NEW o2 \in Catalog!Answer(q),
               o1.name = o2.name, o1.via \in {Catalog!None, o2.via}
        PROVE  o1 = o2
    <3>1. PICK x \in Catalog!Joined({"r", "p", "m", "f"}) : o1 = row(x)
      BY <1>2 DEF Catalog!readTables
    <3>2. PICK y \in Catalog!Joined({"r", "p", "m", "f"}) : o2 = row(y)
      BY <1>2 DEF Catalog!readTables
    <3>3. x[1] = y[1] /\ x[2] \in {Catalog!None, y[2]}
      BY <2>1, <3>1, <3>2
    <3>4. /\ x[1] \in Catalog!Rows({"r", "p", "m", "f"}) /\ x[2] \in Catalog!Parents(x[1])
          /\ y[2] \in Catalog!Parents(y[1])
      BY JoinedIs
    <3>5. x[1] \in Relations
      BY <3>4 DEF Catalog!Rows
    <3>6. x[2] = y[2]
      BY <3>3, <3>4, <3>5, ParentsIs
    <3> QED BY <3>1, <3>2, <3>3, <3>6
  <2> QED BY <2>1
<1>3. CASE q = "scans"
  BY <1>3 DEF Catalog!indexStats
<1>4. CASE q \in {"indexes", "views", "functions", "sequences"}
  BY <1>4 DEF Catalog!Plain, Catalog!readIndexes, Catalog!readViews,
     Catalog!readFunctions, Catalog!readSequences
<1>5. CASE q \in {"sizes", "ages"}
  BY <1>5 DEF Catalog!tableStats, Catalog!freezeTables
<1> QED BY <1>1, <1>2, <1>3, <1>4, <1>5 DEF KindsOf

\* It lists all of its kinds.
LEMMA AnswerHas ==
  ASSUME NEW q \in DOMAIN KindsOf, NEW r \in Catalog!Rows(KindsOf[q])
  PROVE  /\ \E o \in Catalog!Answer(q) : o.name = r
         /\ q \in OfInventory => \A p \in Shapes[r].parents :
              Catalog!Exists(p) => \E o \in Catalog!Answer(q) : o.name = r /\ o.via = p
<1>0. r \in Relations /\ Shapes[r].kind \in KindsOf[q]
  BY DEF Catalog!Rows
<1>1. CASE q = "tables"
  <2>1. ASSUME NEW p \in Catalog!Parents(r)
        PROVE  \E o \in Catalog!Answer(q) : o.name = r /\ o.via = p
    <3>1. <<r, p>> \in Catalog!Joined({"r", "p", "m", "f"})
      BY <1>1, JoinedHas DEF KindsOf
    <3>2. Catalog!Object("table", schema[r], r, Catalog!Parent(p), p) \in Catalog!Answer(q)
      <4>1. /\ <<r, p>>[1] = r /\ <<r, p>>[2] = p
        OBVIOUS
      <4> QED BY <1>1, <3>1, <4>1 DEF Catalog!Answer, Catalog!readTables
    <3> QED BY <3>2 DEF Catalog!Object
  <2> QED BY <1>0, <2>1, ParentsIs
<1>2. CASE q = "scans"
  <2>0. KindsOf[q] = {"i"} /\ Catalog!Answer(q) = Catalog!indexStats
    BY <1>2 DEF Catalog!Answer, KindsOf
  <2>1. \E o \in Catalog!Answer(q) : o.name = r
    <3>1. Catalog!Object("index", schema[r], r, schema[Shapes[r].of], Shapes[r].of) \in Catalog!Answer(q)
      BY <2>0 DEF Catalog!indexStats
    <3> QED BY <3>1 DEF Catalog!Object
  <2> QED BY <1>2, <2>1 DEF OfInventory
<1>3. CASE q \in {"indexes", "views", "functions", "sequences"}
  <2>0. PICK kind, relkind : KindsOf[q] = {relkind} /\ Catalog!Answer(q) = Catalog!Plain(kind, relkind)
    BY <1>3 DEF Catalog!Answer, Catalog!readIndexes, Catalog!readViews,
       Catalog!readFunctions, Catalog!readSequences, KindsOf
  <2>1. \E o \in Catalog!Answer(q) : o.name = r
    <3>1. Catalog!Object(kind, schema[r], r, Catalog!None, Catalog!None) \in Catalog!Answer(q)
      BY <2>0 DEF Catalog!Plain
    <3> QED BY <3>1 DEF Catalog!Object
  <2>2. Shapes[r].parents = {}
    BY <1>0, <1>3, CatalogAssumption DEF KindsOf
  <2> QED BY <2>1, <2>2
<1>4. CASE q \in {"sizes", "ages"}
  <2>0. Catalog!Answer(q)
          = {Catalog!Object("table", schema[x], x, Catalog!None, Catalog!None) : x \in Catalog!Rows(KindsOf[q])}
    BY <1>4 DEF Catalog!Answer, Catalog!tableStats, Catalog!freezeTables, KindsOf
  <2>1. \E o \in Catalog!Answer(q) : o.name = r
    <3>1. Catalog!Object("table", schema[r], r, Catalog!None, Catalog!None) \in Catalog!Answer(q)
      BY <2>0
    <3> QED BY <3>1 DEF Catalog!Object
  <2> QED BY <1>4, <2>1 DEF OfInventory
<1>5. q \notin {"schemas", "max_age", "database"}
  BY <1>0 DEF KindsOf
<1> QED BY <1>1, <1>2, <1>3, <1>4, <1>5 DEF KindsOf

\* What it returns is in this database and in allowed schemas.
LEMMA AnswerFine ==
  ASSUME Follows, NEW q \in DOMAIN KindsOf, NEW o \in Catalog!Answer(q)
  PROVE  FineIn(o, Catalog!InPlace)
<1> USE DEF FineIn, Catalog!Answer, Catalog!Object, Catalog!InPlace, Catalog!Rows, Catalog!Exists,
            Catalog!MayBeNamed
<1>1. CASE q \in {"schemas", "max_age", "database"}
  BY <1>1 DEF Catalog!readSchemas, Catalog!freezeDatabase
<1>2. CASE q = "tables"
  <2>1. PICK x \in Catalog!Joined({"r", "p", "m", "f"}) :
          o = Catalog!Object("table", schema[x[1]], x[1], Catalog!Parent(x[2]), x[2])
    BY <1>2 DEF Catalog!readTables
  <2>2. x[1] \in Catalog!Rows({"r", "p", "m", "f"}) /\ x[2] \in Catalog!Parents(x[1])
    BY JoinedIs
  <2>3. x[1] \in Relations /\ schema[x[1]] # Catalog!Absent /\ Catalog!IsAllowed(schema[x[1]])
    BY <2>2
  <2>4. x[2] = Catalog!None \/ (x[2] \in Relations /\ schema[x[2]] # Catalog!Absent)
    BY <2>2, <2>3, ParentsIs
  <2>5. Catalog!Parent(x[2]) # Catalog!None =>
          /\ x[2] # Catalog!None /\ Catalog!Parent(x[2]) = schema[x[2]]
          /\ Catalog!IsAllowed(HeadOf[schema[x[2]]])
    BY DEF Catalog!Parent
  <2>6. /\ o.schema = schema[x[1]] /\ o.name = x[1] /\ o.kind = "table"
        /\ o.parent = Catalog!Parent(x[2]) /\ o.via = x[2]
    BY <2>1
  <2>7. Catalog!MayBeNamed(o)
    BY <2>5, <2>6
  <2>8. <<x[1], schema[x[1]]>> \in Catalog!InPlace
    BY <2>3
  <2>9. o.parent # Catalog!None => <<o.via, o.parent>> \in Catalog!InPlace
    BY <2>4, <2>5, <2>6
  <2> QED BY <2>3, <2>6, <2>7, <2>8, <2>9
<1>3. CASE q = "scans"
  <2>1. PICK r \in Catalog!Rows({"i"}) :
          o = Catalog!Object("index", schema[r], r, schema[Shapes[r].of], Shapes[r].of)
    BY <1>3 DEF Catalog!indexStats
  <2>2. /\ r \in Relations /\ schema[r] # Catalog!Absent /\ Catalog!IsAllowed(schema[r])
        /\ Shapes[r].of \in Relations /\ schema[Shapes[r].of] = schema[r]
    BY <2>1, CatalogAssumption DEF Follows
  <2> QED BY <2>1, <2>2
<1>4. CASE q \in {"indexes", "views", "functions", "sequences"}
  BY <1>4 DEF Catalog!Plain, Catalog!readIndexes, Catalog!readViews,
     Catalog!readFunctions, Catalog!readSequences
<1>5. CASE q \in {"sizes", "ages"}
  BY <1>5 DEF Catalog!tableStats, Catalog!freezeTables
<1> QED BY <1>1, <1>2, <1>3, <1>4, <1>5 DEF KindsOf

LEMMA InitReadInv == Catalog!Init => ReadInv
<1> SUFFICES ASSUME Catalog!Init PROVE ReadInv
  OBVIOUS
<1>1. Follows
  BY DEF Catalog!Init, Catalog!Homes, Follows
<1>2. Queue
  BY DEF Catalog!Init, Queue
<1>3. ReadExact
  BY DEF Catalog!Init, ReadExact, Catalog!ReadExact, Catalog!Unread
<1>4. Alone(out) /\ Past
  BY DEF Catalog!Init, Alone, Past
<1> QED BY <1>1, <1>2, <1>3, <1>4 DEF Catalog!Init, ReadInv

\* The queries of a reader list different relations, and all it is for.
Queued(queue, read) ==
  /\ queue \in Seq(DOMAIN KindsOf) /\ queue # << >>
  /\ read = "inventory" => \A i \in 1..Len(queue) : queue[i] \in OfInventory
  /\ \A i, j \in 1..Len(queue) : i # j => KindsOf[queue[i]] \cap KindsOf[queue[j]] = {}
  /\ Catalog!Listed[read] \subseteq UNION {KindsOf[queue[i]] : i \in 1..Len(queue)}

LEMMA QueriesApart ==
  ASSUME NEW read \in Catalog!CatalogReaders, NEW queue, queue = Catalog!Queries[read]
  PROVE  Queued(queue, read)
<1> USE DEF Catalog!Queries, Catalog!Listed, KindsOf, Queued
<1>1. CASE read = "inventory"
  <2>1. queue = <<"schemas", "tables", "indexes", "views", "functions", "sequences">>
    BY <1>1
  <2> HIDE DEF Catalog!Queries, Catalog!Listed, KindsOf, Queued
  <2>2. /\ Len(queue) = 6 /\ queue # << >>
        /\ queue[1] = "schemas" /\ queue[2] = "tables" /\ queue[3] = "indexes"
        /\ queue[4] = "views" /\ queue[5] = "functions" /\ queue[6] = "sequences"
    BY <2>1
  <2>3. 1..Len(queue) = {1, 2, 3, 4, 5, 6}
    BY <2>2
  <2>4. queue \in Seq(DOMAIN KindsOf)
    <3>1. {"schemas", "tables", "indexes", "views", "functions", "sequences"} \subseteq DOMAIN KindsOf
      BY DEF KindsOf
    <3> QED BY <2>1, <3>1
  <2>5. /\ KindsOf["schemas"] = {} /\ KindsOf["tables"] = {"r", "p", "m", "f"}
        /\ KindsOf["indexes"] = {"i"} /\ KindsOf["views"] = {"v"}
        /\ KindsOf["functions"] = {"fn"} /\ KindsOf["sequences"] = {"S"}
    BY DEF KindsOf
  <2>6. \A i, j \in {1, 2, 3, 4, 5, 6} : i # j => KindsOf[queue[i]] \cap KindsOf[queue[j]] = {}
    BY <2>2, <2>5
  <2>7. Catalog!Listed[read] = {"r", "p", "m", "f", "i", "v", "fn", "S"}
    BY <1>1 DEF Catalog!Listed
  <2>8. Catalog!Listed[read] \subseteq UNION {KindsOf[queue[i]] : i \in 1..Len(queue)}
    <3>1. \A kind \in Catalog!Listed[read] :
            \E i \in {2, 3, 4, 5, 6} : kind \in KindsOf[queue[i]]
      BY <2>2, <2>5, <2>7
    <3> QED BY <2>3, <3>1
  <2>9. \A i \in 1..Len(queue) : queue[i] \in OfInventory
    BY <2>2, <2>3 DEF OfInventory
  <2> QED BY <2>2, <2>3, <2>4, <2>6, <2>8, <2>9, SMTT(30) DEF Queued
<1>2. CASE read = "table_stats"
  BY <1>2
<1>3. CASE read = "index_stats"
  BY <1>3
<1>4. CASE read = "freeze_age"
  BY <1>4
<1> QED BY <1>1, <1>2, <1>3, <1>4 DEF Catalog!CatalogReaders

\* Where relations move to: an index goes with its table.
LEMMA ChangeFollows ==
  ASSUME Follows, Catalog!Change
  PROVE  Follows'
<1>0. PICK r \in Relations :
        \E s \in Catalog!Homes(r) :
          schema' = [x \in Relations |->
                       IF x = r \/ (x \in Catalog!With(r) /\ Catalog!Exists(x)) THEN s ELSE schema[x]]
  BY DEF Catalog!Change
<1>1. PICK s \in Catalog!Homes(r) :
        schema' = [x \in Relations |->
                     IF x = r \/ (x \in Catalog!With(r) /\ Catalog!Exists(x)) THEN s ELSE schema[x]]
  BY <1>0
<1>2. ASSUME NEW x \in Relations, Shapes[x].of # Catalog!None, schema'[x] # Catalog!Absent
      PROVE  schema'[Shapes[x].of] = schema'[x]
  <2>1. PICK t \in Relations : t = Shapes[x].of /\ Shapes[t].of = Catalog!None /\ x # t
    BY <1>2, CatalogAssumption
  <2>2. CASE t = r
    BY <1>1, <1>2, <2>1, <2>2 DEF Catalog!With, Catalog!Exists, Follows
  <2>3. CASE t # r /\ x = r
    <3>1. schema'[t] = schema[t] /\ schema'[x] = s
      BY <1>1, <2>1, <2>3, CatalogAssumption DEF Catalog!With
    <3>2. s \in {Catalog!Absent, schema[t]}
      BY <1>2, <2>1, <2>3 DEF Catalog!Homes
    <3> QED BY <1>2, <2>1, <3>1, <3>2
  <2>4. CASE t # r /\ x # r
    <3>1. schema'[t] = schema[t] /\ schema'[x] = schema[x]
      BY <1>1, <2>1, <2>4, CatalogAssumption DEF Catalog!With
    <3> QED BY <1>2, <2>1, <3>1 DEF Follows
  <2> QED BY <2>2, <2>3, <2>4
<1> QED BY <1>1, <1>2 DEF Follows

LEMMA ChangeReadInv ==
  ASSUME ReadInv, Catalog!Change
  PROVE  ReadInv'
<1>1. /\ next # << >> /\ UNCHANGED <<reader, gate, next, out, result>>
      /\ before' = before \cap Catalog!InPlace' /\ ever' = ever \cup Catalog!InPlace'
  BY DEF Catalog!Change, Catalog!reading
<1>2. Follows'
  BY ChangeFollows DEF ReadInv
<1>3. Queue'
  BY <1>1 DEF ReadInv, Queue
<1>4. (\A o \in out' : FineIn(o, ever)') /\ Alone(out)' /\ Past'
  <2>1. \A o \in out : Catalog!MayBeNamed(o)' = Catalog!MayBeNamed(o)
    BY DEF Catalog!MayBeNamed
  <2>2. \A o \in out' : FineIn(o, ever)'
    BY <1>1, <2>1 DEF ReadInv, FineIn
  <2>3. Alone(out)' /\ Past'
    BY <1>1 DEF ReadInv, Alone, Past, Due
  <2> QED BY <2>2, <2>3
<1>5. Awaits'
  <2>1. Due' = Due /\ before' \subseteq before
    BY <1>1 DEF Due
  <2>2. ASSUME NEW place \in before', Awaited(place), Shapes[place[1]].kind \notin Due
        PROVE  Covers(out, place[1])'
    <3>1. Covers(out, place[1])
      BY <1>1, <2>1, <2>2 DEF ReadInv, Awaits
    <3> QED BY <1>1, <2>1, <3>1 DEF Covers, Catalog!Stayed
  <2> QED BY <1>1, <2>1, <2>2 DEF Awaits, Awaited
<1>6. result' = Catalog!Unread /\ before' \subseteq Catalog!InPlace' /\ Catalog!InPlace' \subseteq ever'
  BY <1>1 DEF ReadInv
<1>7. ReadExact'
  BY <1>6 DEF ReadExact, Catalog!ReadExact, Catalog!Unread
<1> QED BY <1>1, <1>2, <1>3, <1>4, <1>5, <1>6, <1>7 DEF ReadInv

LEMMA BeginReadInv ==
  ASSUME ReadInv, Catalog!Begin
  PROVE  ReadInv'
<1>1. /\ result = Catalog!Unread /\ next = << >> /\ out = {}
      /\ UNCHANGED <<schema, reader, gate, out>>
  BY DEF Catalog!Begin, ReadInv
<1>2. Follows' /\ reader' \in Catalog!CatalogReaders
  BY <1>1 DEF ReadInv, Follows
<1>5. (\A o \in out' : FineIn(o, ever)') /\ Alone(out)' /\ Past'
  BY <1>1 DEF Alone, Past
<1>3. CASE gate
  <2>1. /\ next' = Catalog!Queries[reader] /\ before' = Catalog!InPlace /\ ever' = Catalog!InPlace
        /\ result' = Catalog!Unread
    BY <1>1, <1>3 DEF Catalog!Begin
  <2>2. Queue' /\ next' # << >> /\ Catalog!Listed[reader] \subseteq Due'
    <3>1. PICK queue : queue = Catalog!Queries[reader] /\ next' = queue
      BY <2>1
    <3>2. /\ queue \in Seq(DOMAIN KindsOf) /\ queue # << >>
          /\ reader = "inventory" => \A i \in 1..Len(queue) : queue[i] \in OfInventory
          /\ \A i, j \in 1..Len(queue) : i # j => KindsOf[queue[i]] \cap KindsOf[queue[j]] = {}
          /\ Catalog!Listed[reader] \subseteq UNION {KindsOf[queue[i]] : i \in 1..Len(queue)}
      <4>1. PICK read \in Catalog!CatalogReaders : read = reader
        BY DEF ReadInv
      <4>2. queue = Catalog!Queries[read]
        BY <3>1, <4>1
      <4>3. Queued(queue, read)
        BY <4>2, QueriesApart
      <4> QED BY <4>1, <4>3 DEF Queued
    <3>3. Queue'
      BY <1>1, <3>1, <3>2 DEF Queue
    <3> QED BY <3>1, <3>2, <3>3 DEF Due
  <2>3. Awaits'
    BY <1>1, <2>2 DEF Awaits, Awaited
  <2>4. before' \subseteq Catalog!InPlace' /\ Catalog!InPlace' \subseteq ever'
    BY <1>1, <2>1 DEF Catalog!InPlace, Catalog!Exists
  <2>5. ReadExact'
    BY <2>1 DEF ReadExact, Catalog!ReadExact, Catalog!Unread
  <2> QED BY <1>1, <1>2, <1>5, <2>1, <2>2, <2>3, <2>4, <2>5 DEF ReadInv
<1>4. CASE ~gate
  <2>1. result' = [is |-> "disabled", objects |-> {}] /\ UNCHANGED <<next, before, ever>>
    BY <1>4 DEF Catalog!Begin
  <2>2. ReadExact'
    BY <2>1 DEF ReadExact, Catalog!ReadExact
  <2>3. Queue'
    BY <1>1, <2>1 DEF ReadInv, Queue
  <2> QED BY <1>1, <1>2, <1>5, <2>1, <2>2, <2>3 DEF ReadInv
<1> QED BY <1>3, <1>4

\* What a query adds: its own relations are among the objects then, and those of
\* others are left as they were.
LEMMA QueryCovers ==
  ASSUME ReadInv, next # << >>, NEW place \in before, Awaited(place),
         Shapes[place[1]].kind \in KindsOf[Head(next)] \/ Shapes[place[1]].kind \notin Due
  PROVE  Covers(out \cup Catalog!Answer(Head(next)), place[1])
<1> DEFINE q == Head(next)
           r == place[1]
<1>1. /\ r \in Relations /\ place \in Catalog!InPlace /\ Catalog!IsAllowed(place[2])
      /\ next \in Seq(DOMAIN KindsOf) /\ next # << >> /\ Awaits /\ before \subseteq Catalog!InPlace
  BY DEF Awaited, ReadInv, Queue
<1>2. q \in DOMAIN KindsOf /\ 1 \in 1..Len(next) /\ q = next[1]
  BY <1>1
<1>3. reader = "inventory" => q \in OfInventory
  BY <1>2 DEF ReadInv, Queue
<1>4. \A p : Catalog!Stayed(p) => Catalog!Exists(p)
  BY <1>1 DEF Catalog!Stayed, Catalog!InPlace
<1>5. CASE Shapes[r].kind \in KindsOf[q]
  <2>1. r \in Catalog!Rows(KindsOf[q])
    BY <1>1, <1>5 DEF Catalog!Rows, Catalog!InPlace
  <2>2. /\ \E o \in Catalog!Answer(q) : o.name = r
        /\ q \in OfInventory => \A p \in Shapes[r].parents :
             Catalog!Exists(p) => \E o \in Catalog!Answer(q) : o.name = r /\ o.via = p
    BY <1>2, <2>1, AnswerHas
  <2> HIDE DEF q, r
  <2>3. Covers(out \cup Catalog!Answer(q), r)
    BY <1>3, <1>4, <2>2 DEF Covers
  <2> QED BY <2>3 DEF q, r
<1>6. CASE Shapes[r].kind \notin Due
  <2>1. Covers(out, r)
    BY <1>1, <1>6 DEF Awaits
  <2> QED BY <2>1 DEF Covers
<1> QED BY <1>5, <1>6

LEMMA QueryFine ==
  ASSUME ReadInv, next # << >>, NEW o \in out \cup Catalog!Answer(Head(next))
  PROVE  FineIn(o, ever)
<1>1. Head(next) \in DOMAIN KindsOf /\ Follows /\ Catalog!InPlace \subseteq ever
  BY DEF ReadInv, Queue
<1>2. CASE o \in out
  BY <1>2 DEF ReadInv
<1>3. CASE o \in Catalog!Answer(Head(next))
  BY <1>1, <1>3, AnswerFine DEF FineIn
<1> QED BY <1>2, <1>3

LEMMA QueryAlone ==
  ASSUME ReadInv, next # << >>
  PROVE  /\ Alone(out \cup Catalog!Answer(Head(next)))
         /\ \A o \in out \cup Catalog!Answer(Head(next)) : o.name # Catalog!None =>
              o.name \in Relations \/ o \in out
         /\ \A o \in Catalog!Answer(Head(next)) : o.name # Catalog!None =>
              Shapes[o.name].kind \in KindsOf[Head(next)]
<1> DEFINE q == Head(next)
<1>1. q \in DOMAIN KindsOf /\ 1 \in 1..Len(next) /\ q = next[1] /\ KindsOf[q] \subseteq Due
  BY DEF ReadInv, Queue, Due
<1>2. ASSUME NEW o \in Catalog!Answer(q), o.name # Catalog!None
      PROVE  o.name \in Relations /\ Shapes[o.name].kind \in KindsOf[q]
  <2>1. o.name \in Catalog!Rows(KindsOf[q])
    BY <1>1, <1>2, AnswerOf DEF OfKinds
  <2> QED BY <2>1 DEF Catalog!Rows
<1>3. \A o \in out : o.name # Catalog!None => Shapes[o.name].kind \notin Due
  BY DEF ReadInv, Past
<1>4. Alone(out) /\ Alone(Catalog!Answer(q))
  BY <1>1, AnswerAlone DEF ReadInv
<1> HIDE DEF q
<1>5. ASSUME NEW o1 \in out \cup Catalog!Answer(q), NEW o2 \in out \cup Catalog!Answer(q),
             o1.name = o2.name, o1.name # Catalog!None, o1.via \in {Catalog!None, o2.via}
      PROVE  o1 = o2
  <2>1. CASE o1 \in out /\ o2 \in out
    BY <1>4, <1>5, <2>1 DEF Alone
  <2>2. CASE o1 \in Catalog!Answer(q) /\ o2 \in Catalog!Answer(q)
    BY <1>4, <1>5, <2>2 DEF Alone
  <2>3. CASE o1 \in out /\ o2 \in Catalog!Answer(q)
    BY <1>1, <1>2, <1>3, <1>5, <2>3
  <2>4. CASE o1 \in Catalog!Answer(q) /\ o2 \in out
    BY <1>1, <1>2, <1>3, <1>5, <2>4
  <2> QED BY <2>1, <2>2, <2>3, <2>4
<1>6. Alone(out \cup Catalog!Answer(q))
  BY <1>5 DEF Alone
<1> QED BY <1>2, <1>6 DEF q

LEMMA QueryReadInv ==
  ASSUME ReadInv, Catalog!Query
  PROVE  ReadInv'
<1>1. /\ next \in Seq(DOMAIN KindsOf) /\ Len(next) > 1 /\ next # << >>
      /\ next' = Tail(next) /\ out' = out \cup Catalog!Answer(Head(next))
      /\ UNCHANGED <<schema, reader, gate, result, before, ever, changes>>
  BY DEF Catalog!Query, ReadInv, Queue
<1>2. /\ next' \in Seq(DOMAIN KindsOf) /\ next' # << >> /\ Len(next') = Len(next) - 1
      /\ \A i \in 1..Len(next') : next'[i] = next[i + 1] /\ i + 1 \in 1..Len(next)
      /\ \A i \in 1..Len(next) : i = 1 \/ (i - 1 \in 1..Len(next') /\ next'[i - 1] = next[i])
      /\ Head(next) = next[1] /\ 1 \in 1..Len(next)
  <2>1. PICK n \in Nat : n = Len(next) /\ n > 1
    BY <1>1
  <2>2. next' \in Seq(DOMAIN KindsOf) /\ Len(next') = n - 1 /\ Head(next) = next[1]
    BY <1>1, <2>1
  <2>3. \A i \in 1..n - 1 : next'[i] = next[i + 1] /\ i + 1 \in 1..n
    BY <1>1, <2>1
  <2>4. \A i \in 1..n : i = 1 \/ (i - 1 \in 1..n - 1 /\ (i - 1) + 1 = i)
    BY <2>1
  <2>5. next' # << >> /\ 1 \in 1..n
    BY <2>1, <2>2
  <2> QED BY <2>1, <2>2, <2>3, <2>4, <2>5
<1>3. Queue'
  <2>1. ASSUME NEW i \in 1..Len(next'), NEW j \in 1..Len(next'), i # j
        PROVE  KindsOf[next'[i]] \cap KindsOf[next'[j]] = {}
    BY <1>2, <2>1 DEF ReadInv, Queue
  <2>2. reader' = "inventory" => \A i \in 1..Len(next') : next'[i] \in OfInventory
    BY <1>1, <1>2 DEF ReadInv, Queue
  <2> QED BY <1>2, <2>1, <2>2 DEF Queue
<1>4. \A k : k \in Due' <=> k \in Due /\ k \notin KindsOf[Head(next)]
  <2>1. ASSUME NEW i \in 1..Len(next') PROVE KindsOf[next'[i]] \cap KindsOf[next[1]] = {}
    BY <1>2 DEF ReadInv, Queue
  <2>2. ASSUME NEW k \in Due' PROVE k \in Due /\ k \notin KindsOf[Head(next)]
    <3>1. PICK i \in 1..Len(next') : k \in KindsOf[next'[i]]
      BY <2>2 DEF Due
    <3> QED BY <1>2, <2>1, <3>1, SMTT(30) DEF Due
  <2>3. ASSUME NEW k \in Due, k \notin KindsOf[Head(next)] PROVE k \in Due'
    <3>1. PICK i \in 1..Len(next) : k \in KindsOf[next[i]]
      BY DEF Due
    <3>2. i - 1 \in 1..Len(next') /\ next'[i - 1] = next[i]
      BY <1>2, <2>3, <3>1
    <3> QED BY <3>1, <3>2 DEF Due
  <2> QED BY <2>2, <2>3
<1>5. ASSUME NEW place \in before, Awaited(place), Shapes[place[1]].kind \notin Due'
      PROVE  Covers(out, place[1])'
  <2>1. Covers(out \cup Catalog!Answer(Head(next)), place[1])
    BY <1>1, <1>4, <1>5, QueryCovers
  <2> QED BY <1>1, <2>1 DEF Covers, Catalog!Stayed
<1>6. Awaits'
  BY <1>1, <1>5 DEF Awaits, Awaited
<1>7. (\A o \in out' : FineIn(o, ever)') /\ Alone(out)' /\ Past'
  <2>1. \A o : Catalog!MayBeNamed(o)' = Catalog!MayBeNamed(o)
    BY DEF Catalog!MayBeNamed
  <2>2. \A o \in out' : FineIn(o, ever)'
    BY <1>1, <2>1, QueryFine DEF FineIn
  <2>3. Alone(out)'
    BY <1>1, QueryAlone DEF Alone
  <2>4. ASSUME NEW o \in out', o.name # Catalog!None PROVE Shapes[o.name].kind \notin Due'
    <3>1. CASE o \in out
      BY <1>4, <2>4, <3>1 DEF ReadInv, Past
    <3>2. CASE o \in Catalog!Answer(Head(next))
      BY <1>1, <1>4, <2>4, <3>2, QueryAlone
    <3> QED BY <1>1, <2>4, <3>1, <3>2
  <2> QED BY <2>2, <2>3, <2>4 DEF Past
<1>8. /\ Follows' /\ reader' \in Catalog!CatalogReaders /\ result' = Catalog!Unread
      /\ before' \subseteq Catalog!InPlace' /\ Catalog!InPlace' \subseteq ever'
  BY <1>1 DEF ReadInv, Follows, Catalog!InPlace, Catalog!Exists
<1>9. ReadExact'
  BY <1>8 DEF ReadExact, Catalog!ReadExact, Catalog!Unread
<1> QED BY <1>2, <1>3, <1>6, <1>7, <1>8, <1>9 DEF ReadInv

LEMMA LastReadInv ==
  ASSUME ReadInv, Catalog!LastQuery
  PROVE  ReadInv'
<1>0. next \in Seq(DOMAIN KindsOf)
  BY DEF ReadInv, Queue
<1> DEFINE all == out \cup Catalog!Answer(Head(next))
<1>1. /\ next \in Seq(DOMAIN KindsOf) /\ Len(next) = 1 /\ next # << >>
      /\ result' = [is |-> "read", objects |-> all] /\ next' = << >> /\ out' = {}
      /\ UNCHANGED <<schema, reader, gate, before, ever, changes>>
  BY <1>0, SMTT(30) DEF Catalog!LastQuery
<1>2. Due = KindsOf[Head(next)]
  BY <1>1 DEF Due
<1>3. ASSUME NEW place \in before, Awaited(place) PROVE Covers(all, place[1])
  BY <1>1, <1>2, <1>3, QueryCovers
<1>4. (\A o \in all : FineIn(o, ever)) /\ Alone(all)
  BY <1>1, QueryFine, QueryAlone
<1>6. \A place \in before : place[1] \in Relations
  BY <1>1 DEF ReadInv, Catalog!InPlace
<1> HIDE DEF all
<1>7. ReadExact'
  <2>1. result'.is = "read" /\ result'.objects = all /\ UNCHANGED <<reader, before, ever>>
    BY <1>1
  <2>2. \A o \in all :
          /\ o.schema = Catalog!None \/ Catalog!IsAllowed(o.schema)
          /\ Catalog!MayBeNamed(o)'
          /\ o.name # Catalog!None => <<o.name, o.schema>> \in ever
          /\ o.parent # Catalog!None => <<o.via, o.parent>> \in ever
    BY <1>4 DEF FineIn, Catalog!MayBeNamed
  <2>3. \A o1, o2 \in all :
          o1.name = o2.name /\ o1.name # Catalog!None /\ o1.via \in {Catalog!None, o2.via} => o1 = o2
    BY <1>4 DEF Alone
  <2>4. \A place \in before :
          Shapes[place[1]].kind \in Catalog!Listed[reader] /\ Catalog!IsAllowed(place[2]) =>
            /\ \E o \in all : o.name = place[1]
            /\ reader = "inventory" =>
                 \A p \in Shapes[place[1]].parents :
                   Catalog!Stayed(p)' => \E o \in all : o.name = place[1] /\ o.via = p
    BY <1>3, <1>6, <2>1 DEF Awaited, Covers, Catalog!Stayed
  <2> QED BY <2>1, <2>2, <2>3, <2>4 DEF ReadExact, Catalog!ReadExact
<1>8. Follows' /\ Queue' /\ reader' \in Catalog!CatalogReaders /\ Alone(out)' /\ Past'
  BY <1>1 DEF ReadInv, Follows, Queue, Alone, Past
<1> QED BY <1>1, <1>7, <1>8 DEF ReadInv

\* A reader that breaks off has read some rows of its last query, or returns nothing.
LEMMA FailsReadInv ==
  ASSUME ReadInv, Catalog!QueryFails
  PROVE  ReadInv'
<1>1. PICK objects :
        /\ objects \in {{}} \cup (IF reader # "inventory" /\ Len(next) = 1
                                  THEN {out \cup part : part \in SUBSET Catalog!Answer(Head(next))} ELSE {})
        /\ result' = [is |-> "failed", objects |-> objects]
  BY DEF Catalog!QueryFails
<1>2. next # << >> /\ next' = << >> /\ out' = {}
      /\ UNCHANGED <<schema, reader, gate, before, ever, changes>>
  BY DEF Catalog!QueryFails
<1> DEFINE all == out \cup Catalog!Answer(Head(next))
<1>3. objects \subseteq all /\ (reader = "inventory" => objects = {})
  BY <1>1
<1>4. (\A o \in all : FineIn(o, ever)) /\ Alone(all)
  BY <1>2, QueryFine, QueryAlone
<1> HIDE DEF all
<1>5. ReadExact'
  <2>1. result'.is = "failed" /\ result'.objects = objects /\ UNCHANGED <<reader, before, ever>>
    BY <1>1, <1>2
  <2>2. \A o \in objects :
          /\ o.schema = Catalog!None \/ Catalog!IsAllowed(o.schema)
          /\ Catalog!MayBeNamed(o)'
          /\ o.name # Catalog!None => <<o.name, o.schema>> \in ever
          /\ o.parent # Catalog!None => <<o.via, o.parent>> \in ever
    BY <1>3, <1>4 DEF FineIn, Catalog!MayBeNamed
  <2>3. \A o1, o2 \in objects :
          o1.name = o2.name /\ o1.name # Catalog!None /\ o1.via \in {Catalog!None, o2.via} => o1 = o2
    BY <1>3, <1>4 DEF Alone
  <2> QED BY <1>3, <2>1, <2>2, <2>3 DEF ReadExact, Catalog!ReadExact
<1>6. Follows' /\ Queue' /\ reader' \in Catalog!CatalogReaders /\ Alone(out)' /\ Past'
  BY <1>2 DEF ReadInv, Follows, Queue, Alone, Past
<1> QED BY <1>2, <1>5, <1>6 DEF ReadInv

LEMMA StepReadInv == ReadInv /\ [Catalog!Next]_Catalog!vars => ReadInv'
<1> SUFFICES ASSUME ReadInv, [Catalog!Next]_Catalog!vars PROVE ReadInv'
  OBVIOUS
<1>1. CASE UNCHANGED Catalog!vars
  <2>1. UNCHANGED <<schema, reader, gate, next, out, result, before, ever, changes>>
    BY <1>1 DEF Catalog!vars, Catalog!reading
  <2>2. Follows' /\ Queue' /\ Awaits' = Awaits /\ UNCHANGED Catalog!InPlace
    BY <2>1 DEF ReadInv, Follows, Queue, Awaits, Awaited, Due, Covers, Catalog!Stayed,
       Catalog!InPlace, Catalog!Exists
  <2>3. ReadExact'
    BY <2>1 DEF ReadInv, ReadExact, Catalog!ReadExact, Catalog!MayBeNamed, Catalog!Stayed
  <2>4. (\A o \in out' : FineIn(o, ever)') /\ Alone(out)' /\ Past'
    BY <2>1 DEF ReadInv, FineIn, Catalog!MayBeNamed, Alone, Past, Due
  <2> QED BY <2>1, <2>2, <2>3, <2>4 DEF ReadInv
<1> QED BY <1>1, ChangeReadInv, BeginReadInv, QueryReadInv, LastReadInv, FailsReadInv DEF Catalog!Next

\* Whatever relations are created, dropped and moved between its queries, what a
\* reader returns, with an error or without, is of this database and of allowed
\* schemas only - but for the name of a parent whose schema has a dot - and no
\* relation is in it twice with one parent; without an error it has what stayed
\* where it was, the inventory with every parent that stayed; and an inventory
\* that failed returns nothing.
THEOREM ReadsExact == Catalog!Spec => []ReadExact
<1>1. ReadInv => ReadExact
  BY DEF ReadInv
<1> QED BY <1>1, InitReadInv, StepReadInv, PTL DEF Catalog!Spec
-----------------------------------------------------------------------------
(* The collector's loop.  First of sums: a number for each element of a    *)
(* finite set, added up as the pairs of an element and a unit of it.       *)

Units(w) == UNION {{x} \X (1..w[x]) : x \in DOMAIN w}

Weights(w) == IsFiniteSet(DOMAIN w) /\ \A x \in DOMAIN w : w[x] \in Nat

LEMMA TotalIs == \A w : Loop!Total(w) = Cardinality(Units(w))
BY DEF Loop!Total, Units, Loop!Cardinality, Cardinality

LEMMA UnitIs ==
  ASSUME NEW w, NEW u
  PROVE  u \in Units(w) <=> \E x \in DOMAIN w : \E i \in 1..w[x] : u = <<x, i>>
BY DEF Units

LEMMA UnitsFinite ==
  ASSUME NEW w, Weights(w)
  PROVE  IsFiniteSet(Units(w)) /\ Cardinality(Units(w)) \in Nat
<1> DEFINE pairs(x) == {x} \X (1..w[x])
           each == {pairs(x) : x \in DOMAIN w}
           of == [x \in DOMAIN w |-> pairs(x)]
<1>1. ASSUME NEW x \in DOMAIN w PROVE IsFiniteSet(pairs(x))
  <2>1. IsFiniteSet(1..w[x])
    BY FS_Interval DEF Weights
  <2>2. IsFiniteSet({x})
    BY FS_Singleton
  <2> QED BY <2>1, <2>2, FS_Product
<1>2. of \in Surjection(DOMAIN w, each)
  BY DEF Surjection
<1>3. IsFiniteSet(each)
  BY <1>2, FS_Surjection DEF Weights
<1>4. IsFiniteSet(Units(w))
  BY <1>1, <1>3, FS_UNION DEF Units
<1> QED BY <1>4, FS_CardinalityType

LEMMA TotalNat ==
  ASSUME NEW w, Weights(w)
  PROVE  Loop!Total(w) \in Nat
BY UnitsFinite, TotalIs

\* What maps elements to elements of no less weight makes the sum no less.
LEMMA TotalMaps ==
  ASSUME NEW w, NEW v, Weights(w), Weights(v), NEW g \in [DOMAIN w -> DOMAIN v],
         \A x, y \in DOMAIN w : g[x] = g[y] => x = y,
         \A x \in DOMAIN w : w[x] <= v[g[x]]
  PROVE  Loop!Total(w) <= Loop!Total(v)
<1> DEFINE h == [u \in Units(w) |-> <<g[u[1]], u[2]>>]
<1>1. ASSUME NEW u \in Units(w)
      PROVE  /\ u = <<u[1], u[2]>> /\ u[1] \in DOMAIN w /\ u[2] \in Int
             /\ <<g[u[1]], u[2]>> \in Units(v)
  <2>0. PICK x \in DOMAIN w : \E i \in 1..w[x] : u = <<x, i>>
    BY UnitIs
  <2>1. PICK i \in 1..w[x] : u = <<x, i>>
    BY <2>0
  <2>2. w[x] \in Nat /\ v[g[x]] \in Nat /\ w[x] <= v[g[x]]
    BY DEF Weights
  <2>3. i \in 1..v[g[x]] /\ g[x] \in DOMAIN v
    BY <2>2
  <2> QED BY <2>1, <2>3, UnitIs
<1>2. ASSUME NEW u \in Units(w), NEW z \in Units(w), <<g[u[1]], u[2]>> = <<g[z[1]], z[2]>> PROVE u = z
  <2>1. g[u[1]] = g[z[1]] /\ u[2] = z[2]
    BY <1>2
  <2>2. u[1] = z[1]
    BY <1>1, <2>1
  <2> QED BY <1>1, <2>1, <2>2
<1>3. h \in Injection(Units(w), Units(v))
  BY <1>1, <1>2 DEF Injection, IsInjective
<1>4. Cardinality(Units(w)) <= Cardinality(Units(v))
  BY <1>3, UnitsFinite, FS_Injection
<1> QED BY <1>4, TotalIs

\* Of some of the elements.
Only(w, S) == [x \in S |-> w[x]]

LEMMA WeightsOnly ==
  ASSUME NEW w, Weights(w), NEW S, S \subseteq DOMAIN w
  PROVE  Weights(Only(w, S))
<1>1. IsFiniteSet(S)
  BY FS_Subset DEF Weights
<1> QED BY <1>1 DEF Only, Weights

\* Elements that are left out make the sum no greater.
LEMMA TotalOnly ==
  ASSUME NEW w, Weights(w), NEW S, S \subseteq DOMAIN w
  PROVE  Loop!Total(Only(w, S)) <= Loop!Total(w)
<1> DEFINE g == [x \in S |-> x]
           v == Only(w, S)
<1>1. Weights(v) /\ DOMAIN v = S
  BY WeightsOnly DEF Only
<1>2. g \in [DOMAIN v -> DOMAIN w] /\ \A x \in DOMAIN v : g[x] = x /\ v[x] = w[x] /\ w[x] \in Nat
  BY <1>1 DEF Only, Weights
<1> HIDE DEF v, g
<1>3. \A x, y \in DOMAIN v : g[x] = g[y] => x = y
  BY <1>2
<1>4. \A x \in DOMAIN v : v[x] <= w[g[x]]
  BY <1>2
<1>5. Loop!Total(v) <= Loop!Total(w)
  BY <1>1, <1>2, <1>3, <1>4, TotalMaps
<1> QED BY <1>5 DEF v

\* Two parts of the elements.
LEMMA TotalSplit ==
  ASSUME NEW w, Weights(w), NEW S, NEW T, DOMAIN w = S \cup T, S \cap T = {}
  PROVE  Loop!Total(w) = Loop!Total(Only(w, S)) + Loop!Total(Only(w, T))
<1> DEFINE X == Units(Only(w, S))
           Y == Units(Only(w, T))
<1>1. Units(w) = X \cup Y
  BY DEF Units, Only
<1>2. ASSUME NEW u \in X \cap Y PROVE FALSE
  <2>1. PICK x \in S : \E i \in 1..w[x] : u = <<x, i>>
    BY <1>2 DEF Units, Only
  <2>2. PICK y \in T : \E i \in 1..w[y] : u = <<y, i>>
    BY <1>2 DEF Units, Only
  <2> QED BY <2>1, <2>2
<1>3. IsFiniteSet(X) /\ IsFiniteSet(Y) /\ Cardinality(X) \in Nat /\ Cardinality(Y) \in Nat
  BY WeightsOnly, UnitsFinite
<1>4. X \cap Y = {}
  BY <1>2
<1>5. Loop!Total(Only(w, S)) = Cardinality(X) /\ Loop!Total(Only(w, T)) = Cardinality(Y)
  BY TotalIs
<1> HIDE DEF X, Y
<1>6. Cardinality(X \cup Y) = Cardinality(X) + Cardinality(Y) - Cardinality(X \cap Y)
  BY <1>3, FS_Union
<1>7. Cardinality(X \cap Y) = 0
  BY <1>4, FS_EmptySet
<1>8. Cardinality(X \cup Y) = Cardinality(X) + Cardinality(Y)
  BY <1>3, <1>6, <1>7
<1> QED BY <1>1, <1>5, <1>8, TotalIs

LEMMA TotalOne ==
  ASSUME NEW w, NEW x, DOMAIN w = {x}, w[x] \in Nat
  PROVE  Loop!Total(w) = w[x]
<1>1. Units(w) = {x} \X (1..w[x])
  BY DEF Units
<1>2. IsFiniteSet(1..w[x]) /\ Cardinality(1..w[x]) = w[x]
  BY FS_Interval
<1>3. IsFiniteSet({x}) /\ Cardinality({x}) = 1
  BY FS_Singleton
<1>4. Cardinality({x} \X (1..w[x])) = Cardinality({x}) * Cardinality(1..w[x])
  BY <1>2, <1>3, FS_Product
<1>5. Cardinality({x} \X (1..w[x])) = w[x]
  BY <1>2, <1>3, <1>4
<1> QED BY <1>1, <1>5, TotalIs

LEMMA TotalNone ==
  ASSUME NEW w, DOMAIN w = {}
  PROVE  Loop!Total(w) = 0
<1>1. Units(w) = {}
  BY DEF Units
<1> QED BY <1>1, TotalIs, FS_EmptySet

\* One element more.
LEMMA TotalAdd ==
  ASSUME NEW w, Weights(w), NEW S, NEW x, DOMAIN w = S \cup {x}, x \notin S
  PROVE  /\ Loop!Total(w) = Loop!Total(Only(w, S)) + w[x]
         /\ Loop!Total(Only(w, S)) \in Nat
<1>1. Loop!Total(w) = Loop!Total(Only(w, S)) + Loop!Total(Only(w, {x}))
  BY TotalSplit
<1>2. w[x] \in Nat /\ Only(w, {x})[x] = w[x] /\ DOMAIN Only(w, {x}) = {x}
  BY DEF Weights, Only
<1>3. Loop!Total(Only(w, {x})) = w[x]
  BY <1>2, TotalOne
<1>4. Loop!Total(Only(w, S)) \in Nat
  BY WeightsOnly, TotalNat
<1> QED BY <1>1, <1>3, <1>4

LEMMA TotalMember ==
  ASSUME NEW w, Weights(w), NEW x \in DOMAIN w
  PROVE  w[x] <= Loop!Total(w) /\ w[x] \in Nat /\ Loop!Total(w) \in Nat
<1>1. DOMAIN w = (DOMAIN w \ {x}) \cup {x} /\ x \notin DOMAIN w \ {x}
  OBVIOUS
<1>2. /\ Loop!Total(w) = Loop!Total(Only(w, DOMAIN w \ {x})) + w[x]
      /\ Loop!Total(Only(w, DOMAIN w \ {x})) \in Nat
  BY <1>1, TotalAdd
<1>3. w[x] \in Nat
  BY DEF Weights
<1> QED BY <1>2, <1>3

\* A set that holds {} and all it can be extended to holds the whole.
LEMMA FiniteInduction ==
  ASSUME NEW P, IsFiniteSet(P), NEW Good, {} \in Good,
         \A Q \in Good : Q \subseteq P => \A x \in P \ Q : Q \cup {x} \in Good
  PROVE  P \in Good
<1> DEFINE Bad == {Q \in SUBSET P : Q \notin Good}
           sizes == {Cardinality(Q) : Q \in Bad}
           R == OpToRel(<, Nat)
<1>1. SUFFICES ASSUME P \notin Good PROVE FALSE
  OBVIOUS
<1>2. \A Q \in Bad : IsFiniteSet(Q) /\ Cardinality(Q) \in Nat
  BY FS_Subset, FS_CardinalityType
<1>3. sizes \subseteq Nat /\ sizes # {}
  BY <1>1, <1>2
<1>4. PICK n \in sizes : \A m \in sizes : ~(<<m, n>> \in R)
  BY <1>3, NatLessThanWellFounded, WFMin
<1>5. \A m \in sizes : ~(m < n)
  BY <1>3, <1>4 DEF OpToRel
<1>6. PICK Q \in Bad : n = Cardinality(Q)
  OBVIOUS
<1>7. PICK x : x \in Q
  BY <1>6
<1>8. IsFiniteSet(Q) /\ Cardinality(Q) \in Nat
  BY <1>2
<1>9. Cardinality(Q \ {x}) = Cardinality(Q) - 1
  BY <1>7, <1>8, FS_RemoveElement
<1>10. Q \ {x} \notin Bad
  <2>1. SUFFICES ASSUME Q \ {x} \in Bad PROVE FALSE
    OBVIOUS
  <2>2. Cardinality(Q \ {x}) \in sizes
    BY <2>1
  <2>3. ~(Cardinality(Q \ {x}) < n)
    BY <1>5, <2>2
  <2> HIDE DEF sizes, Bad
  <2> QED BY <1>6, <1>8, <1>9, <2>3
<1>11. Q \ {x} \in Good /\ Q \ {x} \subseteq P /\ x \in P \ (Q \ {x}) /\ (Q \ {x}) \cup {x} = Q
  BY <1>7, <1>10
<1>12. Q \in Good
  BY <1>11
<1> QED BY <1>12

LEMMA OnlyOnly ==
  ASSUME NEW w, NEW S, NEW T, T \subseteq S
  PROVE  Only(Only(w, S), T) = Only(w, T)
BY DEF Only

LEMMA OnlyAll ==
  ASSUME NEW w, w = [x \in DOMAIN w |-> w[x]]
  PROVE  Only(w, DOMAIN w) = w
BY DEF Only

LEMMA Distributes ==
  ASSUME NEW x \in Nat, NEW y \in Nat, NEW c \in Nat
  PROVE  (x + y) * c = x * c + y * c /\ x * c \in Nat /\ y * c \in Nat
BY SMT

\* Weights in proportion have sums in proportion.
LEMMA TotalScaled ==
  ASSUME NEW w, Weights(w), NEW v, Weights(v), DOMAIN w = DOMAIN v,
         w = [x \in DOMAIN w |-> w[x]], v = [x \in DOMAIN v |-> v[x]],
         NEW c \in Nat, NEW d \in Nat, \A x \in DOMAIN w : w[x] * c <= v[x] * d
  PROVE  Loop!Total(w) * c <= Loop!Total(v) * d
<1> DEFINE Good == {S \in SUBSET DOMAIN w : Loop!Total(Only(w, S)) * c <= Loop!Total(Only(v, S)) * d}
<1>1. {} \in Good
  <2>1. Loop!Total(Only(w, {})) = 0 /\ Loop!Total(Only(v, {})) = 0
    BY TotalNone DEF Only
  <2> QED BY <2>1
<1>2. ASSUME NEW S \in Good, S \subseteq DOMAIN w, NEW x \in DOMAIN w \ S PROVE S \cup {x} \in Good
  <2> DEFINE T == S \cup {x}
  <2>1. T \subseteq DOMAIN w /\ x \notin S /\ S \subseteq T
    BY <1>2
  <2>2. /\ Weights(Only(w, T)) /\ Weights(Only(v, T))
        /\ DOMAIN Only(w, T) = T /\ DOMAIN Only(v, T) = T
        /\ Only(w, T)[x] = w[x] /\ Only(v, T)[x] = v[x]
    BY <2>1, WeightsOnly DEF Only
  <2>3. Only(Only(w, T), S) = Only(w, S) /\ Only(Only(v, T), S) = Only(v, S)
    BY <2>1, OnlyOnly
  <2>4. PICK a \in Nat : a = Loop!Total(Only(w, S)) /\ Loop!Total(Only(w, T)) = a + w[x]
    BY <2>1, <2>2, <2>3, TotalAdd
  <2>5. PICK b \in Nat : b = Loop!Total(Only(v, S)) /\ Loop!Total(Only(v, T)) = b + v[x]
    BY <2>1, <2>2, <2>3, TotalAdd
  <2>6. w[x] \in Nat /\ v[x] \in Nat /\ w[x] * c <= v[x] * d
    BY DEF Weights
  <2>7. a * c <= b * d
    BY <1>2, <2>4, <2>5
  <2>8. (a + w[x]) * c = a * c + w[x] * c /\ a * c \in Nat /\ w[x] * c \in Nat
    BY <2>4, <2>6, Distributes
  <2>9. (b + v[x]) * d = b * d + v[x] * d /\ b * d \in Nat /\ v[x] * d \in Nat
    BY <2>5, <2>6, Distributes
  <2>10. (a + w[x]) * c <= (b + v[x]) * d
    BY <2>6, <2>7, <2>8, <2>9
  <2> QED BY <2>1, <2>4, <2>5, <2>10
<1> HIDE DEF Good
<1>3. DOMAIN w \in Good
  BY <1>1, <1>2, FiniteInduction DEF Weights
<1> QED BY <1>3, OnlyAll DEF Good

\* Elements in parts: no part greater, and the sum is no greater.
Part(w, in, S) == {x \in DOMAIN w : in[x] \in S}

LEMMA TotalParts ==
  ASSUME NEW w, Weights(w), NEW v, Weights(v), NEW P, IsFiniteSet(P),
         NEW in \in [DOMAIN w -> P], NEW at \in [DOMAIN v -> P],
         w = [x \in DOMAIN w |-> w[x]], v = [x \in DOMAIN v |-> v[x]],
         \A p \in P : Loop!Total(Only(w, Part(w, in, {p}))) <= Loop!Total(Only(v, Part(v, at, {p})))
  PROVE  Loop!Total(w) <= Loop!Total(v)
<1> DEFINE Good == {S \in SUBSET P : Loop!Total(Only(w, Part(w, in, S))) <= Loop!Total(Only(v, Part(v, at, S)))}
<1>1. {} \in Good
  <2>1. Loop!Total(Only(w, Part(w, in, {}))) = 0 /\ Loop!Total(Only(v, Part(v, at, {}))) = 0
    BY TotalNone DEF Only, Part
  <2> QED BY <2>1
<1>2. ASSUME NEW S, S \subseteq P, NEW p \in P \ S,
             NEW y, Weights(y), NEW to \in [DOMAIN y -> P]
      PROVE  /\ Loop!Total(Only(y, Part(y, to, S \cup {p}))) =
                  Loop!Total(Only(y, Part(y, to, S))) + Loop!Total(Only(y, Part(y, to, {p})))
             /\ Loop!Total(Only(y, Part(y, to, S))) \in Nat
             /\ Loop!Total(Only(y, Part(y, to, {p}))) \in Nat
  <2> DEFINE all == Part(y, to, S \cup {p})
             one == Part(y, to, S)
             two == Part(y, to, {p})
  <2>1. all = one \cup two /\ one \cap two = {} /\ all \subseteq DOMAIN y
    BY <1>2 DEF Part
  <2> HIDE DEF all, one, two
  <2>2. Weights(Only(y, all)) /\ DOMAIN Only(y, all) = all
    BY <1>2, <2>1, WeightsOnly DEF Only
  <2>3. Only(Only(y, all), one) = Only(y, one) /\ Only(Only(y, all), two) = Only(y, two)
    BY <2>1, OnlyOnly
  <2>4. Weights(Only(y, one)) /\ Weights(Only(y, two))
    BY <1>2, <2>1, WeightsOnly
  <2>5. Loop!Total(Only(y, all)) = Loop!Total(Only(y, one)) + Loop!Total(Only(y, two))
    BY <2>1, <2>2, <2>3, TotalSplit
  <2> QED BY <2>4, <2>5, TotalNat DEF all, one, two
<1>3. ASSUME NEW S \in Good, S \subseteq P, NEW p \in P \ S PROVE S \cup {p} \in Good
  <2>0. /\ \A y : Weights(y) => \A to \in [DOMAIN y -> P] :
              /\ Loop!Total(Only(y, Part(y, to, S \cup {p}))) =
                   Loop!Total(Only(y, Part(y, to, S))) + Loop!Total(Only(y, Part(y, to, {p})))
              /\ Loop!Total(Only(y, Part(y, to, S))) \in Nat
              /\ Loop!Total(Only(y, Part(y, to, {p}))) \in Nat
    BY <1>2, <1>3
  <2>1. /\ Loop!Total(Only(w, Part(w, in, S \cup {p}))) =
             Loop!Total(Only(w, Part(w, in, S))) + Loop!Total(Only(w, Part(w, in, {p})))
        /\ Loop!Total(Only(w, Part(w, in, S))) \in Nat
        /\ Loop!Total(Only(w, Part(w, in, {p}))) \in Nat
    BY <2>0
  <2>2. /\ Loop!Total(Only(v, Part(v, at, S \cup {p}))) =
             Loop!Total(Only(v, Part(v, at, S))) + Loop!Total(Only(v, Part(v, at, {p})))
        /\ Loop!Total(Only(v, Part(v, at, S))) \in Nat
        /\ Loop!Total(Only(v, Part(v, at, {p}))) \in Nat
    BY <2>0
  <2>3. /\ Loop!Total(Only(w, Part(w, in, S))) <= Loop!Total(Only(v, Part(v, at, S)))
        /\ Loop!Total(Only(w, Part(w, in, {p}))) <= Loop!Total(Only(v, Part(v, at, {p})))
    BY <1>3
  <2>4. Loop!Total(Only(w, Part(w, in, S \cup {p}))) <= Loop!Total(Only(v, Part(v, at, S \cup {p})))
    BY <2>1, <2>2, <2>3
  <2> QED BY <1>3, <2>4
<1> HIDE DEF Good
<1>4. P \in Good
  BY <1>1, <1>3, FiniteInduction
<1>5. Part(w, in, P) = DOMAIN w /\ Part(v, at, P) = DOMAIN v
  BY DEF Part
<1> QED BY <1>4, <1>5, OnlyAll DEF Good

\* No element above a bound, or none below one.
LEMMA TotalBound ==
  ASSUME NEW w, Weights(w), NEW top \in Nat, \A x \in DOMAIN w : w[x] <= top
  PROVE  Loop!Total(w) <= Cardinality(DOMAIN w) * top
<1> DEFINE D == DOMAIN w
<1>1. IsFiniteSet(1..top) /\ Cardinality(1..top) = top
  BY FS_Interval
<1>2. IsFiniteSet(D)
  BY DEF Weights
<1> HIDE DEF D
<1>3. /\ IsFiniteSet(D \X (1..top))
      /\ Cardinality(D \X (1..top)) = Cardinality(D) * Cardinality(1..top)
  BY <1>1, <1>2, FS_Product
<1> USE DEF D
<1>4. ASSUME NEW u \in Units(w) PROVE u \in D \X (1..top)
  <2>1. PICK x \in DOMAIN w : \E i \in 1..w[x] : u = <<x, i>>
    BY UnitIs
  <2>2. PICK i \in 1..w[x] : u = <<x, i>>
    BY <2>1
  <2>3. w[x] \in Nat /\ w[x] <= top
    BY DEF Weights
  <2>4. i \in 1..top
    BY <2>3
  <2> QED BY <2>2, <2>4
<1>5. Units(w) \in SUBSET (D \X (1..top))
  BY <1>4
<1>6. Cardinality(Units(w)) <= Cardinality(D \X (1..top))
  BY <1>3, <1>5, FS_Subset
<1> QED BY <1>1, <1>3, <1>6, TotalIs

LEMMA TotalCount ==
  ASSUME NEW w, Weights(w), \A x \in DOMAIN w : w[x] >= 1
  PROVE  Loop!Total(w) >= Cardinality(DOMAIN w)
<1> DEFINE h == [x \in DOMAIN w |-> <<x, 1>>]
<1>1. ASSUME NEW x \in DOMAIN w PROVE <<x, 1>> \in Units(w)
  <2>1. w[x] \in Nat /\ w[x] >= 1
    BY DEF Weights
  <2>2. 1 \in 1..w[x]
    BY <2>1
  <2> QED BY <2>2, UnitIs
<1>2. h \in Injection(DOMAIN w, Units(w))
  BY <1>1 DEF Injection, IsInjective
<1>3. Cardinality(DOMAIN w) <= Cardinality(Units(w))
  BY <1>2, UnitsFinite, FS_Injection
<1>4. Cardinality(DOMAIN w) \in Nat /\ Cardinality(Units(w)) \in Nat
  BY UnitsFinite, FS_CardinalityType DEF Weights
<1> QED BY <1>3, <1>4, TotalIs

-----------------------------------------------------------------------------
(* The types of the loop, and its query budget: a slot is taken with the   *)
(* step that lets a reader run, and given back with the step that ends it. *)

LEMMA LoopCardinality == \A S : Loop!Cardinality(S) = Cardinality(S)
BY DEF Loop!Cardinality, Cardinality

LEMMA LoopBounds ==
  /\ MaxTime \in Nat /\ MaxFlushes \in Nat /\ MaxBoots \in Nat /\ MaxBoots > 0 /\ Budget \in Int
  /\ Width \in Nat /\ Width > 0 /\ IsFiniteSet(Readers) /\ QueryStats \in Readers
  /\ IsFiniteSet(Keys) /\ Loads \subseteq [Keys -> Nat]
BY WidthAssumption, QueryAssumption, LoadsAssumption, BoundsAssumption

LEMMA LoopStart ==
  ASSUME NEW t \in 0..MaxTime
  PROVE  Loop!BucketStart(t) \in 0..MaxTime /\ t % Width \in 0..(Width - 1)
<1>1. t \in Nat /\ Width \in Nat /\ Width > 0 /\ MaxTime \in Nat /\ t <= MaxTime
  BY LoopBounds
<1>2. t % Width \in 0..(Width - 1)
  BY <1>1
<1>3. t % Width <= t
  BY <1>1
<1> QED BY <1>1, <1>2, <1>3 DEF Loop!BucketStart

Control ==
  /\ clock \in 0..MaxTime /\ phase \in 0..(Width - 1) /\ due \subseteq Loop!Tickers
  /\ stage \in {"read", "sample", "select", "send", "connections"} /\ arm \in Loop!Arms
  /\ snaps \in 0..MaxFlushes /\ boots \in 1..MaxBoots

Slotted ==
  /\ fetching \in [Readers -> {"waiting", "running", "ok", "failed"}]
  /\ sem = Cardinality(Loop!Running) /\ sem <= Loop!Slots

Carried == buckets \subseteq Loop!Bucket /\ body \in [Loop!Snapshots -> SUBSET Loop!Bucket]

Handed == fate \in [Loop!Snapshots -> Loop!D!Fates] /\ stored \in [Loop!Snapshots -> {0, 1}]

LEMMA LoopTypes == Loop!TypeOK <=> Control /\ Slotted /\ Carried /\ Handed
BY LoopCardinality DEF Loop!TypeOK, Control, Slotted, Carried, Handed

LEMMA RunningFinite == IsFiniteSet(Loop!Running) /\ Cardinality(Loop!Running) \in Nat
<1>1. Loop!Running \subseteq Readers
  BY DEF Loop!Running
<1>2. IsFiniteSet(Loop!Running)
  BY <1>1, LoopBounds, FS_Subset
<1> QED BY <1>2, FS_CardinalityType

\* A slot more and a slot less.
LEMMA AcquireSlotted ==
  ASSUME Slotted, NEW i \in Readers, Loop!Acquire(i)
  PROVE  Slotted'
<1>1. /\ fetching' = [fetching EXCEPT ![i] = "running"] /\ fetching[i] = "waiting"
      /\ sem' = sem + 1 /\ sem < Loop!Slots /\ Loop!Slots \in Int
  BY LoopBounds DEF Loop!Acquire, Loop!Slots
<1>2. Loop!Running' = Loop!Running \cup {i} /\ i \notin Loop!Running
  BY <1>1 DEF Slotted, Loop!Running
<1>3. Cardinality(Loop!Running \cup {i}) = Cardinality(Loop!Running) + 1
  BY <1>2, RunningFinite, FS_AddElement
<1>4. sem' = Cardinality(Loop!Running') /\ sem' <= Loop!Slots
  BY <1>1, <1>2, <1>3, RunningFinite DEF Slotted
<1>5. Loop!Slots' = Loop!Slots
  BY DEF Loop!Slots
<1> QED BY <1>1, <1>4, <1>5 DEF Slotted

LEMMA FinishSlotted ==
  ASSUME Slotted, NEW i \in Readers, Loop!Finish(i)
  PROVE  Slotted'
<1>1. PICK r \in {"ok", "failed"} : fetching' = [fetching EXCEPT ![i] = r]
  BY DEF Loop!Finish
<1>2. fetching[i] = "running" /\ sem' = sem - 1
  BY DEF Loop!Finish
<1>3. Loop!Running' = Loop!Running \ {i} /\ i \in Loop!Running
  BY <1>1, <1>2 DEF Slotted, Loop!Running
<1>4. Cardinality(Loop!Running \ {i}) = Cardinality(Loop!Running) - 1
  BY <1>3, RunningFinite, FS_RemoveElement
<1>5. Loop!Slots' = Loop!Slots /\ Loop!Slots \in Int
  BY LoopBounds DEF Loop!Slots
<1>6. sem' = Cardinality(Loop!Running') /\ sem' <= Loop!Slots
  BY <1>2, <1>3, <1>4, <1>5, RunningFinite DEF Slotted
<1> QED BY <1>1, <1>5, <1>6 DEF Slotted

\* A cycle starts when no slot is in use.
LEMMA NewSlotted ==
  ASSUME Loop!NewCycle, sem' = 0
  PROVE  Slotted'
<1>1. fetching' = [i \in Readers |-> "waiting"]
  BY DEF Loop!NewCycle
<1>2. Loop!Running' = {}
  BY <1>1 DEF Loop!Running
<1>3. Loop!Slots' >= 0
  BY LoopBounds DEF Loop!Slots
<1> QED BY <1>1, <1>2, <1>3, FS_EmptySet DEF Slotted

LEMMA DoneSlots ==
  ASSUME Slotted, Loop!AllDone
  PROVE  sem = 0
<1>1. Loop!Running = {}
  BY DEF Loop!AllDone, Loop!Running
<1> QED BY <1>1, FS_EmptySet DEF Slotted

LEMMA InitLoopTyped == Loop!Init => Loop!TypeOK
<1> SUFFICES ASSUME Loop!Init PROVE Loop!TypeOK
  OBVIOUS
<1>1. Control
  BY LoopBounds DEF Loop!Init, Control, Loop!Arms
<1>2. Slotted
  <2>1. Loop!Running = {}
    BY DEF Loop!Init, Loop!Running
  <2>2. Loop!Slots >= 0
    BY LoopBounds DEF Loop!Slots
  <2> QED BY <2>1, <2>2, FS_EmptySet DEF Loop!Init, Slotted
<1>3. Carried
  BY DEF Loop!Init, Carried
<1>4. Handed
  BY DEF Loop!Init, Loop!D!Init, Loop!D!Fates, Handed
<1> QED BY <1>1, <1>2, <1>3, <1>4, LoopTypes

\* Buckets of the types.
LEMMA BucketTypes ==
  ASSUME NEW b \in Loop!Bucket
  PROVE  /\ b.start \in 0..MaxTime /\ b.key \in Keys
         /\ b.samples \in Nat /\ b.sum \in Nat /\ b.max \in Nat
         /\ b = [start |-> b.start, key |-> b.key, samples |-> b.samples, sum |-> b.sum, max |-> b.max]
BY DEF Loop!Bucket

LEMMA FoldIs ==
  ASSUME NEW b \in Loop!Bucket, NEW n \in Nat
  PROVE  LET c == Loop!Fold(b, n) IN
         /\ c \in Loop!Bucket /\ c.start = b.start /\ c.key = b.key
         /\ c.samples = b.samples + 1 /\ c.sum = b.sum + n /\ c.max >= n /\ c.max >= b.max
<1>1. PICK q, t \in Nat : q = b.samples + 1 /\ t = b.sum + n
  BY BucketTypes
<1>2. PICK high \in Nat : high = (IF n > b.max THEN n ELSE b.max) /\ high >= n /\ high >= b.max
  BY BucketTypes
<1>3. Loop!Fold(b, n) = [[[b EXCEPT !.samples = q] EXCEPT !.sum = t] EXCEPT !.max = high]
  BY <1>1, <1>2 DEF Loop!Fold, Loop!Bucket
<1>4. \A c \in Loop!Bucket : \A m \in Nat :
        /\ [c EXCEPT !.samples = m] \in Loop!Bucket
        /\ [c EXCEPT !.sum = m] \in Loop!Bucket
        /\ [c EXCEPT !.max = m] \in Loop!Bucket
  BY DEF Loop!Bucket
<1>5. \A c \in Loop!Bucket : \A m \in Nat :
        /\ [c EXCEPT !.samples = m].samples = m /\ [c EXCEPT !.samples = m].start = c.start
        /\ [c EXCEPT !.samples = m].key = c.key
        /\ [c EXCEPT !.sum = m].sum = m /\ [c EXCEPT !.sum = m].start = c.start
        /\ [c EXCEPT !.sum = m].key = c.key /\ [c EXCEPT !.sum = m].samples = c.samples
        /\ [c EXCEPT !.max = m].max = m /\ [c EXCEPT !.max = m].start = c.start
        /\ [c EXCEPT !.max = m].key = c.key /\ [c EXCEPT !.max = m].samples = c.samples
        /\ [c EXCEPT !.max = m].sum = c.sum
  BY DEF Loop!Bucket
<1> DEFINE one == [b EXCEPT !.samples = q]
           two == [one EXCEPT !.sum = t]
           three == [two EXCEPT !.max = high]
<1>6. one \in Loop!Bucket /\ one.samples = q /\ one.start = b.start /\ one.key = b.key
  BY <1>1, <1>4, <1>5
<1>7. Loop!Fold(b, n) = three
  BY <1>3
<1> HIDE DEF one
<1>8. two \in Loop!Bucket /\ two.sum = t /\ two.samples = one.samples /\ two.start = one.start /\ two.key = one.key
  BY <1>1, <1>4, <1>5, <1>6
<1> HIDE DEF two
<1>9. /\ three \in Loop!Bucket /\ three.max = high /\ three.sum = two.sum /\ three.samples = two.samples
      /\ three.start = two.start /\ three.key = two.key
  BY <1>2, <1>4, <1>5, <1>8
<1> HIDE DEF three
<1> QED BY <1>1, <1>2, <1>6, <1>7, <1>8, <1>9

LEMMA NewBucketIs ==
  ASSUME NEW start \in 0..MaxTime, NEW k \in Keys
  PROVE  LET b == Loop!NewBucket(start, k) IN
         /\ b \in Loop!Bucket /\ b.start = start /\ b.key = k
         /\ b.samples = 0 /\ b.sum = 0 /\ b.max = 0
BY DEF Loop!NewBucket, Loop!Bucket

\* What a sample folds into: the key's bucket of this start, or a new one.
Base(B, start, k, b) ==
  /\ b.start = start /\ b.key = k
  /\ \/ b \in B
     \/ b = Loop!NewBucket(start, k) /\ \A c \in B : ~(c.start = start /\ c.key = k)

\* A sample folds into the base of every key that has backends, and leaves all
\* the other buckets.
Folded(B, start, n, C) ==
  /\ \A c \in C :
       \/ c \in B /\ ~(c.start = start /\ n[c.key] > 0)
       \/ \E k \in Keys : n[k] > 0 /\ \E b \in Loop!Bucket : Base(B, start, k, b) /\ c = Loop!Fold(b, n[k])
  /\ \A b \in B : ~(b.start = start /\ n[b.key] > 0) => b \in C
  /\ \A k \in Keys : n[k] > 0 => \A b \in Loop!Bucket : Base(B, start, k, b) => Loop!Fold(b, n[k]) \in C

LEMMA ObserveFolds ==
  ASSUME Carried, NEW start \in 0..MaxTime, NEW n \in [Keys -> Nat]
  PROVE  Folded(buckets, start, n, Loop!Observe(start, n))
<1> DEFINE mine == {b \in buckets : b.start = start /\ n[b.key] > 0}
           free == {k \in Keys : n[k] > 0 /\ \A b \in mine : b.key # k}
           fresh == {Loop!NewBucket(start, k) : k \in free}
           all == {Loop!Fold(b, n[b.key]) : b \in mine \cup fresh}
<1>1. Loop!Observe(start, n) = (buckets \ mine) \cup all
  BY DEF Loop!Observe
<1>2. ASSUME NEW b \in mine \cup fresh
      PROVE  b \in Loop!Bucket /\ b.key \in Keys /\ n[b.key] > 0 /\ Base(buckets, start, b.key, b)
  <2>1. CASE b \in mine
    BY <2>1, BucketTypes DEF Carried, Base
  <2>2. CASE b \in fresh
    <3>1. PICK k \in free : b = Loop!NewBucket(start, k)
      BY <2>2
    <3>2. b \in Loop!Bucket /\ b.start = start /\ b.key = k
      BY <3>1, NewBucketIs
    <3>3. \A c \in buckets : ~(c.start = start /\ c.key = k)
      BY <3>1
    <3> QED BY <3>1, <3>2, <3>3 DEF Base
  <2> QED BY <2>1, <2>2
<1>3. ASSUME NEW k \in Keys, n[k] > 0, NEW b \in Loop!Bucket, Base(buckets, start, k, b)
      PROVE  b \in mine \cup fresh /\ b.key = k
  <2>1. CASE b \in buckets
    BY <1>3, <2>1 DEF Base
  <2>2. CASE b = Loop!NewBucket(start, k) /\ \A c \in buckets : ~(c.start = start /\ c.key = k)
    <3>1. k \in free
      BY <1>3, <2>2
    <3> QED BY <1>3, <2>2, <3>1 DEF Base
  <2> QED BY <1>3, <2>1, <2>2 DEF Base
<1> HIDE DEF mine, fresh
<1>4. \A c \in all : \E k \in Keys : n[k] > 0 /\ \E b \in Loop!Bucket : Base(buckets, start, k, b) /\ c = Loop!Fold(b, n[k])
  BY <1>2
<1>5. \A k \in Keys : n[k] > 0 => \A b \in Loop!Bucket : Base(buckets, start, k, b) => Loop!Fold(b, n[k]) \in all
  BY <1>3
<1> HIDE DEF all
<1>6. \A c \in buckets : c \in mine <=> c.start = start /\ n[c.key] > 0
  BY DEF mine
<1> QED BY <1>1, <1>4, <1>5, <1>6 DEF Folded

LEMMA FoldedCarried ==
  ASSUME NEW B, B \subseteq Loop!Bucket, NEW start, NEW n \in [Keys -> Nat], NEW C,
         Folded(B, start, n, C)
  PROVE  C \subseteq Loop!Bucket
<1> SUFFICES ASSUME NEW c \in C, c \notin B PROVE c \in Loop!Bucket
  OBVIOUS
<1>1. PICK k \in Keys : \E b \in Loop!Bucket : c = Loop!Fold(b, n[k])
  BY DEF Folded
<1>2. PICK b \in Loop!Bucket : c = Loop!Fold(b, n[k])
  BY <1>1
<1> QED BY <1>2, FoldIs

\* A sample: what is folded and what is noted.
LEMMA SampleIs ==
  ASSUME Control, Carried, Loop!Sample
  PROVE  \E n \in [Keys -> Nat] :
           /\ Folded(buckets, Loop!BucketStart(clock), n, buckets')
           /\ observed' = observed \cup {<<clock, k, n[k]>> : k \in {k \in Keys : n[k] > 0}}
<1>1. PICK n \in Loads :
        /\ buckets' = Loop!Observe(Loop!BucketStart(clock), n)
        /\ observed' = observed \cup {<<clock, k, n[k]>> : k \in {k \in Keys : n[k] > 0}}
  BY DEF Loop!Sample
<1>2. n \in [Keys -> Nat] /\ Loop!BucketStart(clock) \in 0..MaxTime
  BY LoopBounds, LoopStart DEF Control
<1>3. Folded(buckets, Loop!BucketStart(clock), n, buckets')
  BY <1>1, <1>2, ObserveFolds
<1> QED BY <1>1, <1>2, <1>3

\* The steps of Delivery keep its types.
LEMMA HandedStep ==
  ASSUME Handed, NEW m,
         Loop!D!Send(m) \/ (m \in Loop!Snapshots /\ Loop!D!Store(m)) \/ Loop!D!Succeed(m) \/ Loop!D!Fail(m)
  PROVE  Handed'
<1>1. CASE m \in Loop!Snapshots /\ Loop!D!Store(m)
  <2>1. stored[m] < 1 /\ stored' = [stored EXCEPT ![m] = stored[m] + 1] /\ fate' = fate
    BY <1>1 DEF Loop!D!Store
  <2>2. stored[m] + 1 \in {0, 1}
    BY <1>1, <2>1 DEF Handed
  <2> QED BY <2>1, <2>2 DEF Handed
<1>2. CASE Loop!D!Send(m) \/ Loop!D!Succeed(m) \/ Loop!D!Fail(m)
  <2>1. PICK x \in Loop!D!Fates : fate' = [fate EXCEPT ![m] = x]
    BY <1>2 DEF Loop!D!Send, Loop!D!Succeed, Loop!D!Fail, Loop!D!Fates
  <2>2. stored' = stored
    BY <1>2 DEF Loop!D!Send, Loop!D!Succeed, Loop!D!Fail
  <2> QED BY <2>1, <2>2 DEF Handed
<1> QED BY <1>1, <1>2

LEMMA ControlStep ==
  ASSUME Control, Loop!Next
  PROVE  Control'
<1>1. CASE Loop!FullTick \/ Loop!ShipFull \/ Loop!SkipFull \/ Loop!ShipConnections \/ Loop!NoConnections
  BY <1>1 DEF Control, Loop!FullTick, Loop!ShipFull, Loop!SkipFull, Loop!ShipConnections, Loop!NoConnections,
              Loop!Ship, Loop!After, Loop!process, Loop!Arms
<1>2. CASE Loop!Sample \/ Loop!SampleFails
  <2>1. clock % Width \in 0..(Width - 1)
    BY LoopStart DEF Control
  <2>2. Loop!Sampled
    BY <1>2 DEF Loop!Sample, Loop!SampleFails
  <2>3. phase' \in 0..(Width - 1)
    BY <2>1, <2>2 DEF Loop!Sampled, Control
  <2> QED BY <2>2, <2>3 DEF Control, Loop!Sampled, Loop!Arms
<1>3. CASE Loop!Flush
  BY <1>3, LoopBounds DEF Control, Loop!Flush, Loop!Arms
<1>4. CASE Loop!FlushNothing \/ Loop!SendReturns \/ Loop!SendOk \/ Loop!SendErr
  BY <1>4 DEF Control, Loop!FlushNothing, Loop!SendReturns, Loop!SendOk, Loop!SendErr, Loop!After, Loop!process
<1>5. CASE \E i \in Readers : Loop!Acquire(i) \/ Loop!Finish(i)
  BY <1>5 DEF Control, Loop!Acquire, Loop!Finish, Loop!process
<1>6. CASE \E m \in Loop!Snapshots : Loop!Store(m)
  BY <1>6 DEF Control, Loop!Store, Loop!process
<1>7. CASE Loop!Elapse
  <2>1. clock' \in 0..MaxTime
    BY <1>7, LoopBounds DEF Control, Loop!Elapse
  <2>2. due' \subseteq Loop!Tickers
    BY <1>7 DEF Control, Loop!Elapse, Loop!Tickers
  <2> QED BY <1>7, <2>1, <2>2 DEF Control, Loop!Elapse
<1>8. CASE Loop!Restart
  <2>1. clock' \in 0..MaxTime /\ boots' \in 1..MaxBoots
    BY <1>8, LoopBounds DEF Control, Loop!Restart
  <2> QED BY <1>8, <2>1, LoopBounds DEF Control, Loop!Restart, Loop!StartProcess, Loop!Arms
<1> QED BY <1>1, <1>2, <1>3, <1>4, <1>5, <1>6, <1>7, <1>8 DEF Loop!Next, Loop!Loop

LEMMA SlottedStep ==
  ASSUME Slotted, Loop!Next
  PROVE  Slotted'
<1>1. ASSUME UNCHANGED <<fetching, sem>> PROVE Slotted'
  BY <1>1 DEF Slotted, Loop!Running, Loop!Slots
<1>2. CASE Loop!ShipFull \/ Loop!SkipFull
  <2>1. Loop!AllDone /\ Loop!NewCycle /\ sem' = sem
    BY <1>2 DEF Loop!ShipFull, Loop!SkipFull, Loop!Ship
  <2> QED BY <2>1, DoneSlots, NewSlotted
<1>3. CASE Loop!Restart
  BY <1>3, NewSlotted DEF Loop!Restart, Loop!StartProcess
<1>4. CASE \E i \in Readers : Loop!Acquire(i) \/ Loop!Finish(i)
  BY <1>4, AcquireSlotted, FinishSlotted
<1>5. CASE \/ Loop!FullTick \/ Loop!ShipConnections \/ Loop!NoConnections \/ Loop!FlushNothing
           \/ Loop!SendReturns \/ Loop!SendOk \/ Loop!SendErr \/ Loop!Flush \/ Loop!Elapse
           \/ Loop!Sample \/ Loop!SampleFails \/ \E m \in Loop!Snapshots : Loop!Store(m)
  <2>1. UNCHANGED <<fetching, sem>>
    BY <1>5 DEF Loop!FullTick, Loop!ShipConnections, Loop!Ship, Loop!NoConnections, Loop!FlushNothing,
                Loop!SendReturns, Loop!SendOk, Loop!SendErr, Loop!Flush, Loop!Elapse,
                Loop!Sample, Loop!SampleFails, Loop!Sampled, Loop!Store, Loop!cycle
  <2> QED BY <1>1, <2>1
<1> QED BY <1>2, <1>3, <1>4, <1>5 DEF Loop!Next, Loop!Loop

LEMMA CarriedStep ==
  ASSUME Control, Carried, Loop!Next
  PROVE  Carried'
<1>1. CASE UNCHANGED <<buckets, body>>
  BY <1>1 DEF Carried
<1>2. CASE Loop!Sample
  <2>1. PICK n \in [Keys -> Nat] : Folded(buckets, Loop!BucketStart(clock), n, buckets')
    BY <1>2, SampleIs
  <2>2. buckets' \subseteq Loop!Bucket
    BY <2>1, FoldedCarried DEF Carried
  <2>3. body' = body
    BY <1>2 DEF Loop!Sample, Loop!Sampled
  <2> QED BY <2>2, <2>3 DEF Carried
<1>3. CASE Loop!Flush
  BY <1>3 DEF Loop!Flush, Carried
<1>4. CASE Loop!Restart
  BY <1>4 DEF Loop!Restart, Loop!StartProcess, Carried
<1>5. CASE \/ Loop!FullTick \/ Loop!ShipFull \/ Loop!SkipFull \/ Loop!ShipConnections \/ Loop!NoConnections
           \/ Loop!FlushNothing \/ Loop!SendReturns \/ Loop!SendOk \/ Loop!SendErr \/ Loop!Elapse
           \/ Loop!SampleFails \/ (\E m \in Loop!Snapshots : Loop!Store(m))
           \/ \E i \in Readers : Loop!Acquire(i) \/ Loop!Finish(i)
  <2>1. UNCHANGED <<buckets, body>>
    BY <1>5 DEF Loop!FullTick, Loop!ShipFull, Loop!SkipFull, Loop!ShipConnections, Loop!Ship, Loop!NoConnections,
                Loop!FlushNothing, Loop!SendReturns, Loop!SendOk, Loop!SendErr, Loop!Elapse,
                Loop!SampleFails, Loop!Sampled, Loop!Store, Loop!Acquire, Loop!Finish, Loop!activity
  <2> QED BY <1>1, <2>1
<1> QED BY <1>2, <1>3, <1>4, <1>5 DEF Loop!Next, Loop!Loop

LEMMA HandedSteps ==
  ASSUME Handed, Loop!Next
  PROVE  Handed'
<1>1. CASE UNCHANGED <<fate, stored>>
  BY <1>1 DEF Handed
<1>2. CASE Loop!Flush \/ Loop!SendOk \/ Loop!SendErr
  BY <1>2, HandedStep DEF Loop!Flush, Loop!SendOk, Loop!SendErr
<1>3. CASE Loop!Restart
  BY <1>1, <1>3, HandedStep DEF Loop!Restart, Loop!delivery
<1>4. CASE \E m \in Loop!Snapshots : Loop!Store(m)
  BY <1>4, HandedStep DEF Loop!Store
<1>5. CASE \/ Loop!FullTick \/ Loop!ShipFull \/ Loop!SkipFull \/ Loop!ShipConnections \/ Loop!NoConnections
           \/ Loop!FlushNothing \/ Loop!SendReturns \/ Loop!Elapse \/ Loop!Sample \/ Loop!SampleFails
           \/ \E i \in Readers : Loop!Acquire(i) \/ Loop!Finish(i)
  <2>1. UNCHANGED <<fate, stored>>
    BY <1>5 DEF Loop!FullTick, Loop!ShipFull, Loop!SkipFull, Loop!ShipConnections, Loop!Ship, Loop!NoConnections,
                Loop!FlushNothing, Loop!SendReturns, Loop!Elapse, Loop!Sample, Loop!SampleFails, Loop!Sampled,
                Loop!Acquire, Loop!Finish, Loop!delivery
  <2> QED BY <1>1, <2>1
<1> QED BY <1>2, <1>3, <1>4, <1>5 DEF Loop!Next, Loop!Loop

LEMMA SameLoop ==
  ASSUME UNCHANGED Loop!vars
  PROVE  UNCHANGED loop
BY DEF Loop!vars, Loop!process, Loop!cycle, Loop!activity, Loop!delivery, loop

LEMMA StepLoopTyped ==
  ASSUME Loop!TypeOK, [Loop!Next]_Loop!vars
  PROVE  Loop!TypeOK'
<1>1. Control /\ Slotted /\ Carried /\ Handed
  BY LoopTypes
<1>2. CASE Loop!Next
  <2>1. (Control /\ Slotted /\ Carried /\ Handed)'
    BY <1>1, <1>2, ControlStep, SlottedStep, CarriedStep, HandedSteps
  <2> QED BY <2>1, LoopCardinality DEF Loop!TypeOK, Control, Slotted, Carried, Handed
<1>3. CASE UNCHANGED Loop!vars
  <2>1. UNCHANGED loop
    BY <1>3, SameLoop
  <2>2. Control'
    BY <1>1, <2>1 DEF Control, loop
  <2>3. Slotted'
    BY <1>1, <2>1 DEF Slotted, loop, Loop!Running, Loop!Slots
  <2>4. (Carried /\ Handed)'
    BY <1>1, <2>1 DEF Carried, Handed, loop
  <2> QED BY <2>2, <2>3, <2>4, LoopCardinality DEF Loop!TypeOK, Control, Slotted, Carried, Handed
<1> QED BY <1>2, <1>3

\* The collector's only goroutine and its readers keep their types; the slots in
\* use are always those of the readers that run, whichever of them fail and
\* whenever the process is killed, and never more than the query budget.
THEOREM BudgetKept == Loop!Spec => []Loop!TypeOK
<1> QED BY InitLoopTyped, StepLoopTyped, PTL DEF Loop!Spec

-----------------------------------------------------------------------------
(* Rows and observations, and their sums.                                  *)

SamplesIn(R) == Loop!Total([r \in R |-> r.bucket.samples])
SumIn(R)     == Loop!Total([r \in R |-> r.bucket.sum])
SumSeen(O)   == Loop!Total([o \in O |-> o[3]])

RowsOk(R) == IsFiniteSet(R) /\ \A r \in R : r.bucket \in Loop!Bucket

SeenOk(O) ==
  /\ IsFiniteSet(O)
  /\ \A o \in O : o = <<o[1], o[2], o[3]>> /\ o[1] \in 0..MaxTime /\ o[2] \in Keys /\ o[3] \in Nat \ {0}

LEMMA RowWeights ==
  ASSUME NEW R, RowsOk(R)
  PROVE  /\ Weights([r \in R |-> r.bucket.samples]) /\ Weights([r \in R |-> r.bucket.sum])
         /\ Weights([r \in R |-> r.bucket.max])
         /\ SamplesIn(R) \in Nat /\ SumIn(R) \in Nat
<1>1. \A r \in R : r.bucket.samples \in Nat /\ r.bucket.sum \in Nat /\ r.bucket.max \in Nat
  BY BucketTypes DEF RowsOk
<1>2. /\ Weights([r \in R |-> r.bucket.samples]) /\ Weights([r \in R |-> r.bucket.sum])
      /\ Weights([r \in R |-> r.bucket.max])
  BY <1>1 DEF RowsOk, Weights
<1> QED BY <1>2, TotalNat DEF SamplesIn, SumIn

LEMMA SeenWeights ==
  ASSUME NEW O, SeenOk(O)
  PROVE  Weights([o \in O |-> o[3]]) /\ SumSeen(O) \in Nat /\ Cardinality(O) \in Nat
<1>1. Weights([o \in O |-> o[3]])
  BY DEF SeenOk, Weights
<1> QED BY <1>1, TotalNat, FS_CardinalityType DEF SumSeen, SeenOk

LEMMA RowsSub ==
  ASSUME NEW R, RowsOk(R), NEW S, S \subseteq R
  PROVE  RowsOk(S) /\ SamplesIn(S) <= SamplesIn(R) /\ SumIn(S) <= SumIn(R)
<1>1. RowsOk(S)
  BY FS_Subset DEF RowsOk
<1>2. /\ Only([r \in R |-> r.bucket.samples], S) = [r \in S |-> r.bucket.samples]
      /\ Only([r \in R |-> r.bucket.sum], S) = [r \in S |-> r.bucket.sum]
  BY DEF Only
<1>3. /\ Loop!Total(Only([r \in R |-> r.bucket.samples], S)) <= Loop!Total([r \in R |-> r.bucket.samples])
      /\ Loop!Total(Only([r \in R |-> r.bucket.sum], S)) <= Loop!Total([r \in R |-> r.bucket.sum])
  BY RowWeights, TotalOnly
<1> QED BY <1>1, <1>2, <1>3 DEF SamplesIn, SumIn

LEMMA RowsSplit ==
  ASSUME NEW S, NEW T, RowsOk(S \cup T), S \cap T = {}
  PROVE  /\ SamplesIn(S \cup T) = SamplesIn(S) + SamplesIn(T)
         /\ SumIn(S \cup T) = SumIn(S) + SumIn(T)
<1> DEFINE R == S \cup T
           w == [r \in R |-> r.bucket.samples]
           v == [r \in R |-> r.bucket.sum]
<1>1. Weights(w) /\ Weights(v) /\ DOMAIN w = R /\ DOMAIN v = R
  BY RowWeights
<1>2. /\ Only(w, S) = [r \in S |-> r.bucket.samples] /\ Only(w, T) = [r \in T |-> r.bucket.samples]
      /\ Only(v, S) = [r \in S |-> r.bucket.sum] /\ Only(v, T) = [r \in T |-> r.bucket.sum]
  BY DEF Only
<1> HIDE DEF w, v
<1>3. /\ Loop!Total(w) = Loop!Total(Only(w, S)) + Loop!Total(Only(w, T))
      /\ Loop!Total(v) = Loop!Total(Only(v, S)) + Loop!Total(Only(v, T))
  BY <1>1, TotalSplit
<1> QED BY <1>2, <1>3 DEF SamplesIn, SumIn, w, v

LEMMA RowsNone == SamplesIn({}) = 0 /\ SumIn({}) = 0 /\ RowsOk({})
BY TotalNone, FS_EmptySet DEF SamplesIn, SumIn, RowsOk

LEMMA RowsOne ==
  ASSUME NEW r, r.bucket \in Loop!Bucket
  PROVE  SamplesIn({r}) = r.bucket.samples /\ SumIn({r}) = r.bucket.sum /\ RowsOk({r})
<1>1. r.bucket.samples \in Nat /\ r.bucket.sum \in Nat
  BY BucketTypes
<1>2. Loop!Total([x \in {r} |-> x.bucket.samples]) = r.bucket.samples
  BY <1>1, TotalOne
<1>3. Loop!Total([x \in {r} |-> x.bucket.sum]) = r.bucket.sum
  BY <1>1, TotalOne
<1> QED BY <1>2, <1>3, FS_Singleton DEF SamplesIn, SumIn, RowsOk

LEMMA RowsSome ==
  ASSUME NEW R, RowsOk(R), NEW r \in R
  PROVE  SamplesIn(R) >= r.bucket.samples /\ SumIn(R) >= r.bucket.sum
<1>1. /\ [x \in R |-> x.bucket.samples][r] <= Loop!Total([x \in R |-> x.bucket.samples])
      /\ [x \in R |-> x.bucket.sum][r] <= Loop!Total([x \in R |-> x.bucket.sum])
  BY RowWeights, TotalMember
<1>2. r.bucket.samples \in Nat /\ r.bucket.sum \in Nat /\ SamplesIn(R) \in Nat /\ SumIn(R) \in Nat
  BY RowWeights, BucketTypes DEF RowsOk
<1> QED BY <1>1, <1>2 DEF SamplesIn, SumIn

LEMMA SeenAdd ==
  ASSUME NEW O, NEW o, SeenOk(O \cup {o}), o \notin O
  PROVE  /\ Cardinality(O \cup {o}) = Cardinality(O) + 1
         /\ SumSeen(O \cup {o}) = SumSeen(O) + o[3]
         /\ SeenOk(O)
<1> DEFINE w == [q \in O \cup {o} |-> q[3]]
<1>1. SeenOk(O)
  BY FS_Subset DEF SeenOk
<1>2. Cardinality(O \cup {o}) = Cardinality(O) + 1
  BY <1>1, FS_AddElement DEF SeenOk
<1>3. Weights(w) /\ DOMAIN w = O \cup {o} /\ w[o] = o[3] /\ Only(w, O) = [q \in O |-> q[3]]
  BY SeenWeights DEF Only
<1> HIDE DEF w
<1>4. Loop!Total(w) = Loop!Total(Only(w, O)) + w[o]
  BY <1>3, TotalAdd
<1> QED BY <1>1, <1>2, <1>3, <1>4 DEF SumSeen, w

-----------------------------------------------------------------------------
(* The aggregator: one bucket of a start and a key.                        *)

Filled(b) == b.start \in Loop!BucketStarts /\ b.samples >= 1 /\ b.sum >= 1

Sound(B) ==
  /\ IsFiniteSet(B) /\ B \subseteq Loop!Bucket
  /\ \A b \in B : Filled(b)
  /\ \A b, c \in B : b.start = c.start /\ b.key = c.key => b = c

LEMMA BaseIs ==
  ASSUME NEW B, Sound(B), NEW start \in Loop!BucketStarts, NEW k \in Keys
  PROVE  /\ \E b \in Loop!Bucket : Base(B, start, k, b)
         /\ \A b, c : Base(B, start, k, b) /\ Base(B, start, k, c) => b = c
<1>1. start \in 0..MaxTime
  BY LoopStart DEF Loop!BucketStarts
<1>2. Loop!NewBucket(start, k) \in Loop!Bucket /\ Loop!NewBucket(start, k).start = start
      /\ Loop!NewBucket(start, k).key = k
  BY <1>1, NewBucketIs
<1>3. \E b \in Loop!Bucket : Base(B, start, k, b)
  <2>1. CASE \E c \in B : c.start = start /\ c.key = k
    BY <2>1 DEF Base, Sound
  <2>2. CASE \A c \in B : ~(c.start = start /\ c.key = k)
    BY <1>2, <2>2 DEF Base
  <2> QED BY <2>1, <2>2
<1>4. \A b, c : Base(B, start, k, b) /\ Base(B, start, k, c) => b = c
  BY DEF Base, Sound
<1> QED BY <1>3, <1>4

LEMMA FoldedSound ==
  ASSUME NEW B, Sound(B), NEW start \in Loop!BucketStarts, NEW n \in [Keys -> Nat], NEW C,
         Folded(B, start, n, C)
  PROVE  Sound(C)
<1> DEFINE K == {k \in Keys : n[k] > 0}
           new == C \ {c \in B : ~(c.start = start /\ n[c.key] > 0)}
           h == [c \in new |-> c.key]
<1>1. C \subseteq Loop!Bucket
  BY FoldedCarried DEF Sound
<1>2. ASSUME NEW c \in new
      PROVE  \E k \in K : \E b \in Loop!Bucket : Base(B, start, k, b) /\ c = Loop!Fold(b, n[k])
  BY DEF Folded
<1>3. ASSUME NEW c \in new
      PROVE  /\ c.start = start /\ c.key \in K /\ Filled(c)
             /\ \E b \in Loop!Bucket : Base(B, start, c.key, b) /\ c = Loop!Fold(b, n[c.key])
  <2>1. PICK k \in K : \E b \in Loop!Bucket : Base(B, start, k, b) /\ c = Loop!Fold(b, n[k])
    BY <1>2
  <2>2. PICK b \in Loop!Bucket : Base(B, start, k, b) /\ c = Loop!Fold(b, n[k])
    BY <2>1
  <2>3. n[k] \in Nat /\ n[k] > 0 /\ b.start = start /\ b.key = k
    BY <2>2 DEF Base
  <2>4. c.start = start /\ c.key = k /\ c.samples = b.samples + 1 /\ c.sum = b.sum + n[k]
    BY <2>2, <2>3, FoldIs
  <2>5. b.samples \in Nat /\ b.sum \in Nat
    BY BucketTypes
  <2>6. c.samples >= 1 /\ c.sum >= 1
    BY <2>3, <2>4, <2>5
  <2> QED BY <2>2, <2>4, <2>6 DEF Filled
<1> HIDE DEF new
<1>4. ASSUME NEW c \in new, NEW d \in new, c.key = d.key PROVE c = d
  <2>1. PICK b \in Loop!Bucket : Base(B, start, c.key, b) /\ c = Loop!Fold(b, n[c.key])
    BY <1>3
  <2>2. PICK e \in Loop!Bucket : Base(B, start, d.key, e) /\ d = Loop!Fold(e, n[d.key])
    BY <1>3
  <2>3. c.key \in Keys
    BY <1>3
  <2>4. b = e
    BY <1>4, <2>1, <2>2, <2>3, BaseIs
  <2> QED BY <1>4, <2>1, <2>2, <2>4
<1>5. h \in Injection(new, K)
  BY <1>3, <1>4 DEF Injection, IsInjective
<1>6. IsFiniteSet(K)
  BY LoopBounds, FS_Subset
<1>7. IsFiniteSet(new)
  BY <1>5, <1>6, FS_Injection
<1>8. C \subseteq B \cup new /\ \A c \in C : c \in new \/ (c \in B /\ ~(c.start = start /\ n[c.key] > 0))
  BY DEF new
<1>9. IsFiniteSet(B \cup new)
  BY <1>7, FS_Union DEF Sound
<1>10. IsFiniteSet(C)
  BY <1>8, <1>9, FS_Subset
<1>11. \A c \in C : Filled(c)
  BY <1>3, <1>8 DEF Sound
<1>12. ASSUME NEW c \in C, NEW d \in C, c.start = d.start, c.key = d.key PROVE c = d
  <2>1. CASE c \in new /\ d \in new
    BY <1>4, <1>12, <2>1
  <2>2. CASE c \notin new /\ d \notin new
    BY <1>8, <1>12, <2>2 DEF Sound
  <2>3. CASE c \in new /\ d \notin new
    BY <1>3, <1>8, <1>12, <2>3
  <2>4. CASE c \notin new /\ d \in new
    BY <1>3, <1>8, <1>12, <2>4
  <2> QED BY <2>1, <2>2, <2>3, <2>4
<1> QED BY <1>1, <1>10, <1>11, <1>12 DEF Sound

\* The buckets of a start and a key as rows of snapshot m.
HeldAs(B, m, start, k) ==
  {[snap |-> m, bucket |-> b] : b \in {b \in B : b.start = start /\ b.key = k}}

HeldExact(H, m, b) ==
  /\ RowsOk(H) /\ SamplesIn(H) = b.samples /\ SumIn(H) = b.sum
  /\ b.samples > 0 => [snap |-> m, bucket |-> b] \in H
  /\ \A r \in H : r.bucket = b /\ r.snap = m

LEMMA HeldIs ==
  ASSUME NEW B, Sound(B), NEW m, NEW start \in Loop!BucketStarts, NEW k \in Keys,
         NEW b \in Loop!Bucket, Base(B, start, k, b)
  PROVE  HeldExact(HeldAs(B, m, start, k), m, b)
<1>1. CASE b \in B
  <2>1. b.start = start /\ b.key = k /\ \A c \in B : c.start = start /\ c.key = k => c = b
    BY <1>1 DEF Base, Sound
  <2>2. HeldAs(B, m, start, k) = {[snap |-> m, bucket |-> b]}
    BY <1>1, <2>1 DEF HeldAs
  <2> DEFINE r == [snap |-> m, bucket |-> b]
  <2>3. r.bucket = b /\ r.snap = m
    OBVIOUS
  <2> HIDE DEF r
  <2>4. SamplesIn({r}) = b.samples /\ SumIn({r}) = b.sum /\ RowsOk({r})
    BY <2>3, RowsOne
  <2>5. HeldAs(B, m, start, k) = {r} /\ r \in {r}
    BY <2>2 DEF r
  <2>6. \A x \in {r} : x.bucket = b /\ x.snap = m
    BY <2>3
  <2>7. [snap |-> m, bucket |-> b] \in HeldAs(B, m, start, k)
    BY <2>2
  <2> QED BY <2>4, <2>5, <2>6, <2>7 DEF HeldExact
<1>2. CASE b \notin B
  <2>1. \A c \in B : ~(c.start = start /\ c.key = k)
    BY <1>2 DEF Base
  <2>2. HeldAs(B, m, start, k) = {}
    BY <2>1 DEF HeldAs
  <2>3. start \in 0..MaxTime
    BY LoopStart DEF Loop!BucketStarts
  <2>4. b.samples = 0 /\ b.sum = 0
    BY <1>2, <2>3, NewBucketIs DEF Base
  <2> QED BY <2>2, <2>4, RowsNone DEF HeldExact
<1> QED BY <1>1, <1>2

-----------------------------------------------------------------------------
(* What was shipped of a part of time, what is still held of it, and what  *)
(* was observed.                                                           *)

SentRows(W) == UNION {{[snap |-> m, bucket |-> b] : b \in W[m]} : m \in Loop!Snapshots}

Sent(W, start, k) == {r \in SentRows(W) : r.bucket.start = start /\ r.bucket.key = k}

SeenOf(O, start, k) == {o \in O : Loop!BucketStart(o[1]) = start /\ o[2] = k}

Bodies(W) ==
  /\ W \in [Loop!Snapshots -> SUBSET Loop!Bucket]
  /\ \A m \in Loop!Snapshots : IsFiniteSet(W[m]) /\ \A b \in W[m] : Filled(b)

LEMMA SentIs ==
  ASSUME NEW W
  PROVE  \A r : r \in SentRows(W) <=> \E m \in Loop!Snapshots : \E b \in W[m] : r = [snap |-> m, bucket |-> b]
BY DEF SentRows

LEMMA SentOk ==
  ASSUME NEW W, Bodies(W)
  PROVE  /\ RowsOk(SentRows(W))
         /\ \A r \in SentRows(W) : /\ r.snap \in Loop!Snapshots /\ r.bucket \in W[r.snap] /\ Filled(r.bucket)
                                   /\ r = [snap |-> r.snap, bucket |-> r.bucket]
<1> DEFINE of(m) == {[snap |-> m, bucket |-> b] : b \in W[m]}
           each == {of(m) : m \in Loop!Snapshots}
<1>1. ASSUME NEW m \in Loop!Snapshots PROVE IsFiniteSet(of(m))
  <2> DEFINE g == [b \in W[m] |-> [snap |-> m, bucket |-> b]]
  <2>1. g \in Surjection(W[m], of(m))
    BY DEF Surjection
  <2> QED BY <2>1, FS_Surjection DEF Bodies
<1>2. IsFiniteSet(each)
  <2> DEFINE g == [m \in Loop!Snapshots |-> of(m)]
  <2>1. g \in Surjection(Loop!Snapshots, each)
    BY DEF Surjection
  <2>2. IsFiniteSet(Loop!Snapshots)
    BY LoopBounds, FS_Interval DEF Loop!Snapshots
  <2> QED BY <2>1, <2>2, FS_Surjection
<1>3. IsFiniteSet(SentRows(W))
  BY <1>1, <1>2, FS_UNION DEF SentRows
<1>4. ASSUME NEW r \in SentRows(W)
      PROVE  /\ r.snap \in Loop!Snapshots /\ r.bucket \in W[r.snap] /\ Filled(r.bucket)
             /\ r.bucket \in Loop!Bucket /\ r = [snap |-> r.snap, bucket |-> r.bucket]
  <2>1. PICK m \in Loop!Snapshots : \E b \in W[m] : r = [snap |-> m, bucket |-> b]
    BY SentIs
  <2>2. PICK b \in W[m] : r = [snap |-> m, bucket |-> b]
    BY <2>1
  <2> QED BY <2>2 DEF Bodies
<1> QED BY <1>3, <1>4 DEF RowsOk

LEMMA SentPart ==
  ASSUME NEW W, Bodies(W), NEW start, NEW k
  PROVE  RowsOk(Sent(W, start, k)) /\ Sent(W, start, k) \subseteq SentRows(W)
<1>1. Sent(W, start, k) \subseteq SentRows(W)
  BY DEF Sent
<1> QED BY <1>1, SentOk, RowsSub

\* No more rows than samples, nor more of their counts, and all of them in the
\* process's first run; and no sample above the greatest count of its rows, when
\* none of them is missing.
Counts(W, B, O, n, start, k) ==
  LET S == Sent(W, start, k)
      H == HeldAs(B, 0, start, k)
      P == SeenOf(O, start, k)
  IN  /\ SamplesIn(S) + SamplesIn(H) <= Cardinality(P)
      /\ SumIn(S) + SumIn(H) <= SumSeen(P)
      /\ n = 1 => SamplesIn(S) + SamplesIn(H) = Cardinality(P) /\ SumIn(S) + SumIn(H) = SumSeen(P)
      /\ SamplesIn(S) + SamplesIn(H) = Cardinality(P) =>
           \A o \in P : \E r \in S \cup H : r.bucket.max >= o[3]

\* A sample.
LEMMA SampleCounts ==
  ASSUME NEW W, Bodies(W), NEW B, Sound(B), NEW O, SeenOk(O), NEW m,
         NEW start \in Loop!BucketStarts, NEW k \in Keys, Counts(W, B, O, m, start, k),
         NEW t \in 0..MaxTime, NEW n \in [Keys -> Nat], NEW C,
         Folded(B, Loop!BucketStart(t), n, C), \A o \in O : o[1] < t,
         NEW Q, Q = O \cup {<<t, x, n[x]>> : x \in {x \in Keys : n[x] > 0}}, SeenOk(Q)
  PROVE  Counts(W, C, Q, m, start, k)
<1> DEFINE S == Sent(W, start, k)
           H == HeldAs(B, 0, start, k)
           I == HeldAs(C, 0, start, k)
           P == SeenOf(O, start, k)
           R == SeenOf(Q, start, k)
<1>1. CASE ~(start = Loop!BucketStart(t) /\ n[k] > 0)
  <2>1. ASSUME NEW b, b.start = start, b.key = k PROVE b \in B <=> b \in C
    <3>1. ~(b.start = Loop!BucketStart(t) /\ n[b.key] > 0)
      BY <1>1, <2>1
    <3>2. ASSUME b \in C PROVE b \in B
      <4>1. SUFFICES ASSUME b \notin B PROVE FALSE
        OBVIOUS
      <4>2. PICK x \in Keys : n[x] > 0 /\ \E c \in Loop!Bucket : Base(B, Loop!BucketStart(t), x, c) /\ b = Loop!Fold(c, n[x])
        BY <3>2, <4>1 DEF Folded
      <4>3. PICK c \in Loop!Bucket : Base(B, Loop!BucketStart(t), x, c) /\ b = Loop!Fold(c, n[x])
        BY <4>2
      <4>4. b.start = c.start /\ b.key = c.key
        BY <4>3, FoldIs
      <4> QED BY <3>1, <4>2, <4>3, <4>4 DEF Base
    <3> QED BY <3>1, <3>2 DEF Folded
  <2>2. H = I
    BY <2>1 DEF HeldAs
  <2>3. ASSUME NEW o \in Q, o \notin O PROVE ~(Loop!BucketStart(o[1]) = start /\ o[2] = k)
    <3>1. PICK x \in Keys : n[x] > 0 /\ o = <<t, x, n[x]>>
      BY <2>3
    <3> QED BY <1>1, <3>1
  <2>4. P = R
    BY <2>3 DEF SeenOf
  <2> QED BY <2>2, <2>4 DEF Counts
<1>2. CASE start = Loop!BucketStart(t) /\ n[k] > 0
  <2>1. PICK b \in Loop!Bucket : Base(B, start, k, b)
    BY BaseIs
  <2> DEFINE c == Loop!Fold(b, n[k])
             o == <<t, k, n[k]>>
  <2>2. /\ c \in Loop!Bucket /\ c.start = start /\ c.key = k /\ n[k] \in Nat
        /\ c.samples = b.samples + 1 /\ c.sum = b.sum + n[k] /\ c.max >= n[k] /\ c.max >= b.max
    BY <2>1, FoldIs DEF Base
  <2>3. c \in C
    BY <1>2, <2>1 DEF Folded
  <2>4. Sound(C)
    BY <1>2, FoldedSound
  <2> HIDE DEF c
  <2>5. Base(C, start, k, c)
    BY <2>2, <2>3 DEF Base
  <2>6. SamplesIn(H) = b.samples /\ SumIn(H) = b.sum /\ \A r \in H : r.bucket = b
    <3>1. HeldExact(H, 0, b)
      BY <2>1, HeldIs
    <3> QED BY <3>1 DEF HeldExact
  <2>7. b.samples \in Nat /\ b.sum \in Nat /\ b.max \in Nat
    BY BucketTypes
  <2>8. SamplesIn(I) = c.samples /\ SumIn(I) = c.sum /\ [snap |-> 0, bucket |-> c] \in I
    <3>1. c.samples > 0
      BY <2>2, <2>7
    <3>2. HeldExact(I, 0, c)
      BY <2>2, <2>4, <2>5, HeldIs
    <3> QED BY <3>1, <3>2 DEF HeldExact
  <2>9. R = P \cup {o} /\ o \notin P /\ SeenOk(R)
    <3>1. ASSUME NEW q \in Q, q[2] = k PROVE q \in O \/ q = o
      BY <3>1
    <3>2. o \in Q /\ o[1] = t /\ o[2] = k
      BY <1>2
    <3>3. o \notin O
      BY <3>2 DEF SeenOk
    <3>4. R \subseteq Q
      BY DEF SeenOf
    <3>5. SeenOk(R)
      BY <3>4, FS_Subset DEF SeenOk
    <3> QED BY <1>2, <3>1, <3>2, <3>3, <3>5 DEF SeenOf
  <2>10. Cardinality(R) = Cardinality(P) + 1 /\ SumSeen(R) = SumSeen(P) + n[k] /\ SeenOk(P)
    BY <2>9, SeenAdd
  <2>11. SamplesIn(S) \in Nat /\ SumIn(S) \in Nat /\ Cardinality(P) \in Nat /\ SumSeen(P) \in Nat
    BY <2>10, SentPart, RowWeights, SeenWeights
  <2>12. /\ SamplesIn(S) + SamplesIn(H) <= Cardinality(P)
         /\ SumIn(S) + SumIn(H) <= SumSeen(P)
         /\ m = 1 => SamplesIn(S) + SamplesIn(H) = Cardinality(P) /\ SumIn(S) + SumIn(H) = SumSeen(P)
         /\ SamplesIn(S) + SamplesIn(H) = Cardinality(P) =>
              \A q \in P : \E r \in S \cup H : r.bucket.max >= q[3]
    BY DEF Counts
  <2> HIDE DEF S, H, I, P, R
  <2>13. ASSUME SamplesIn(S) + SamplesIn(I) = Cardinality(R), NEW q \in R
         PROVE  \E r \in S \cup I : r.bucket.max >= q[3]
    <3> DEFINE top == [snap |-> 0, bucket |-> c]
    <3>1. top \in I /\ top.bucket = c
      BY <2>8
    <3>2. CASE q = o
      BY <2>2, <3>1, <3>2
    <3>3. CASE q \in P
      <4>1. SamplesIn(S) + SamplesIn(H) = Cardinality(P)
        BY <2>2, <2>6, <2>7, <2>8, <2>10, <2>11, <2>13
      <4>2. PICK r \in S \cup H : r.bucket.max >= q[3]
        BY <2>12, <3>3, <4>1
      <4>3. CASE r \in S
        BY <4>2, <4>3
      <4>4. CASE r \in H
        <5>1. r.bucket = b /\ q[3] \in Nat /\ c.max \in Nat
          BY <2>2, <2>6, <2>10, <3>3, <4>4, BucketTypes DEF SeenOk
        <5>2. top.bucket.max >= q[3]
          BY <2>2, <2>7, <3>1, <4>2, <5>1
        <5> QED BY <3>1, <5>2
      <4> QED BY <4>3, <4>4
    <3> QED BY <2>9, <3>2, <3>3
  <2>14. /\ SamplesIn(S) + SamplesIn(I) <= Cardinality(R)
         /\ SumIn(S) + SumIn(I) <= SumSeen(R)
         /\ m = 1 => SamplesIn(S) + SamplesIn(I) = Cardinality(R) /\ SumIn(S) + SumIn(I) = SumSeen(R)
    BY <2>2, <2>6, <2>7, <2>8, <2>10, <2>11, <2>12
  <2> QED BY <2>13, <2>14 DEF Counts, S, I, R
<1> QED BY <1>1, <1>2

LEMMA NothingHeld ==
  Sound({}) /\ \A m, start, k : HeldAs({}, m, start, k) = {}
BY FS_EmptySet DEF Sound, HeldAs

\* A flush: the rows that were held are shipped, by another name.
LEMMA FlushCounts ==
  ASSUME NEW W, Bodies(W), NEW B, Sound(B), NEW O, SeenOk(O), NEW n,
         NEW start \in Loop!BucketStarts, NEW k \in Keys, Counts(W, B, O, n, start, k),
         NEW m \in Loop!Snapshots, W[m] = {}
  PROVE  Counts([W EXCEPT ![m] = B], {}, O, n, start, k)
<1> DEFINE V == [W EXCEPT ![m] = B]
           S == Sent(W, start, k)
           T == Sent(V, start, k)
           H == HeldAs(B, 0, start, k)
           I == HeldAs(B, m, start, k)
           P == SeenOf(O, start, k)
<1>1. PICK b \in Loop!Bucket : Base(B, start, k, b)
  BY BaseIs
<1>2. HeldExact(H, 0, b) /\ HeldExact(I, m, b)
  BY <1>1, HeldIs
<1>3. Bodies(V) /\ V[m] = B /\ \A x \in Loop!Snapshots \ {m} : V[x] = W[x]
  BY DEF Bodies, Sound
<1>4. T = S \cup I
  <2>1. ASSUME NEW r \in T PROVE r \in S \cup I
    <3>0. r \in SentRows(V) /\ r.bucket.start = start /\ r.bucket.key = k
      BY DEF Sent
    <3>1. PICK x \in Loop!Snapshots : \E c \in V[x] : r = [snap |-> x, bucket |-> c]
      BY <3>0 DEF SentRows
    <3>2. PICK c \in V[x] : r = [snap |-> x, bucket |-> c]
      BY <3>1
    <3>3. c.start = start /\ c.key = k
      BY <3>0, <3>2
    <3>4. CASE x = m
      BY <1>3, <3>2, <3>3, <3>4 DEF HeldAs
    <3>5. CASE x # m
      <4>1. r \in SentRows(W)
        BY <1>3, <3>2, <3>5, SentIs
      <4> QED BY <4>1 DEF Sent
    <3> QED BY <3>4, <3>5
  <2>2. ASSUME NEW r \in S PROVE r \in T
    <3>1. PICK x \in Loop!Snapshots : \E c \in W[x] : r = [snap |-> x, bucket |-> c]
      BY SentIs DEF Sent
    <3>2. x # m
      BY <3>1
    <3>3. r \in SentRows(V)
      BY <1>3, <3>1, <3>2, SentIs
    <3> QED BY <3>3 DEF Sent
  <2>3. ASSUME NEW r \in I PROVE r \in T
    <3>1. PICK c \in B : c.start = start /\ c.key = k /\ r = [snap |-> m, bucket |-> c]
      BY DEF HeldAs
    <3>2. r \in SentRows(V)
      BY <1>3, <3>1, SentIs
    <3> QED BY <3>1, <3>2 DEF Sent
  <2> QED BY <2>1, <2>2, <2>3
<1>5. S \cap I = {}
  <2>1. ASSUME NEW r \in S PROVE r.bucket \in W[r.snap]
    BY SentOk DEF Sent
  <2>2. \A r \in I : r.snap = m
    BY <1>2 DEF HeldExact
  <2> QED BY <2>1, <2>2
<1>6. RowsOk(T) /\ RowsOk(S)
  BY <1>3, SentPart
<1> HIDE DEF V, S, T, H, I, P
<1>7. SamplesIn(T) = SamplesIn(S) + b.samples /\ SumIn(T) = SumIn(S) + b.sum
  <2>1. SamplesIn(S \cup I) = SamplesIn(S) + SamplesIn(I) /\ SumIn(S \cup I) = SumIn(S) + SumIn(I)
    BY <1>4, <1>5, <1>6, RowsSplit
  <2> QED BY <1>2, <1>4, <2>1 DEF HeldExact
<1>8. SamplesIn(H) = b.samples /\ SumIn(H) = b.sum
  BY <1>2 DEF HeldExact
<1>9. /\ HeldAs({}, 0, start, k) = {} /\ SamplesIn({}) = 0 /\ SumIn({}) = 0
      /\ SamplesIn(T) \in Nat /\ SumIn(T) \in Nat
  BY <1>6, NothingHeld, RowsNone, RowWeights
<1>10. /\ SamplesIn(T) + SamplesIn({}) = SamplesIn(S) + SamplesIn(H)
       /\ SumIn(T) + SumIn({}) = SumIn(S) + SumIn(H)
  BY <1>7, <1>8, <1>9
<1>11. /\ SamplesIn(S) + SamplesIn(H) <= Cardinality(P)
       /\ SumIn(S) + SumIn(H) <= SumSeen(P)
       /\ n = 1 => SamplesIn(S) + SamplesIn(H) = Cardinality(P) /\ SumIn(S) + SumIn(H) = SumSeen(P)
       /\ SamplesIn(S) + SamplesIn(H) = Cardinality(P) =>
            \A q \in P : \E r \in S \cup H : r.bucket.max >= q[3]
  BY DEF Counts, S, H, P
<1>12. ASSUME SamplesIn(S) + SamplesIn(H) = Cardinality(P), NEW q \in P
       PROVE  \E r \in T \cup {} : r.bucket.max >= q[3]
  <2>1. PICK r \in S \cup H : r.bucket.max >= q[3]
    BY <1>11, <1>12
  <2>2. CASE r \in S
    BY <1>4, <2>1, <2>2
  <2>3. CASE r \in H
    <3>1. r.bucket = b /\ r.bucket \in B
      BY <1>2, <2>3 DEF HeldExact, H, HeldAs
    <3>2. [snap |-> m, bucket |-> b] \in I
      <4>1. b.start = start /\ b.key = k /\ b \in B
        BY <1>1, <3>1 DEF Base
      <4> QED BY <4>1 DEF I, HeldAs
    <3> QED BY <1>4, <2>1, <3>1, <3>2
  <2> QED BY <2>2, <2>3
<1>13. Counts(V, {}, O, n, start, k)
  BY <1>9, <1>10, <1>11, <1>12 DEF Counts, T, P
<1> QED BY <1>13 DEF V

\* A new process: what was held is lost.
LEMMA RestartCounts ==
  ASSUME NEW W, Bodies(W), NEW B, Sound(B), NEW O, SeenOk(O), NEW n, NEW m, m # 1,
         NEW start \in Loop!BucketStarts, NEW k \in Keys, Counts(W, B, O, n, start, k)
  PROVE  Counts(W, {}, O, m, start, k)
<1> DEFINE S == Sent(W, start, k)
           H == HeldAs(B, 0, start, k)
           P == SeenOf(O, start, k)
<1>1. PICK b \in Loop!Bucket : Base(B, start, k, b)
  BY BaseIs
<1>2. HeldExact(H, 0, b)
  BY <1>1, HeldIs
<1>3. /\ SamplesIn(S) \in Nat /\ SumIn(S) \in Nat
      /\ SamplesIn(H) \in Nat /\ SumIn(H) \in Nat
  BY <1>2, SentPart, RowWeights DEF HeldExact
<1>4. Cardinality(P) \in Nat /\ SumSeen(P) \in Nat
  <2>1. SeenOk(P)
    BY FS_Subset DEF SeenOk, SeenOf
  <2> QED BY <2>1, SeenWeights
<1>5. HeldAs({}, 0, start, k) = {} /\ SamplesIn({}) = 0 /\ SumIn({}) = 0
  BY NothingHeld, RowsNone
<1>6. H # {} => SamplesIn(H) > 0
  <2>1. ASSUME NEW r \in H PROVE SamplesIn(H) > 0
    <3>1. r.bucket \in B /\ r.bucket = b
      BY <1>2 DEF HeldExact, HeldAs
    <3>2. b.samples >= 1 /\ b.samples \in Nat
      BY <3>1, BucketTypes DEF Sound, Filled
    <3> QED BY <1>2, <3>2 DEF HeldExact
  <2> QED BY <2>1
<1> HIDE DEF S, H, P
<1>7. /\ SamplesIn(S) + SamplesIn(H) <= Cardinality(P)
      /\ SumIn(S) + SumIn(H) <= SumSeen(P)
      /\ SamplesIn(S) + SamplesIn(H) = Cardinality(P) =>
           \A q \in P : \E r \in S \cup H : r.bucket.max >= q[3]
  BY DEF Counts, S, H, P
<1>8. SamplesIn(S) + SamplesIn({}) <= Cardinality(P) /\ SumIn(S) + SumIn({}) <= SumSeen(P)
  BY <1>3, <1>4, <1>5, <1>7
<1>9. ASSUME SamplesIn(S) + SamplesIn({}) = Cardinality(P)
      PROVE  \A q \in P : \E r \in S \cup {} : r.bucket.max >= q[3]
  <2>1. SamplesIn(H) = 0
    BY <1>3, <1>4, <1>5, <1>7, <1>9
  <2>2. H = {}
    BY <1>6, <2>1
  <2>3. SamplesIn(S) + SamplesIn(H) = Cardinality(P)
    BY <1>5, <1>9, <2>2
  <2> QED BY <1>7, <2>2, <2>3
<1> QED BY <1>5, <1>8, <1>9 DEF Counts, S, P

-----------------------------------------------------------------------------
(* The invariant of the loop.                                              *)

CountsNow == \A start \in Loop!BucketStarts, k \in Keys : Counts(body, buckets, observed, boots, start, k)

Later(O) == \A o \in O : o[1] < clock

\* One observation of a key at a time; and when the next sample is due, at a
\* start or after a tick, none was taken at this time.
Noted ==
  /\ SeenOk(observed) /\ \A o \in observed : o[1] <= clock
  /\ \A o, q \in observed : o[1] = q[1] /\ o[2] = q[2] => o = q
  /\ arm = "boot" \/ "sample" \in due => Later(observed)
  /\ stage = "sample" => arm = "boot"

Unshipped == \A m \in Loop!Snapshots : m > snaps => body[m] = {}

Answered == \A m \in Loop!Snapshots : fate[m] = "ok" => stored[m] = 1

LoopInv ==
  /\ Loop!TypeOK /\ Noted /\ Bodies(body) /\ Sound(buckets) /\ Unshipped /\ Answered /\ CountsNow

LEMMA AnsweredStep ==
  ASSUME Handed, Answered, Loop!Next
  PROVE  Answered'
<1>1. CASE UNCHANGED <<fate, stored>>
  BY <1>1 DEF Answered
<1>2. ASSUME NEW m, Loop!D!Send(m) \/ Loop!D!Succeed(m) \/ Loop!D!Fail(m) PROVE Answered'
  <2>1. CASE Loop!D!Send(m) \/ Loop!D!Fail(m)
    <3>1. PICK x \in {"sending", "failed"} : fate' = [fate EXCEPT ![m] = x] /\ stored' = stored
      BY <2>1 DEF Loop!D!Send, Loop!D!Fail
    <3> QED BY <3>1 DEF Answered, Handed
  <2>2. CASE Loop!D!Succeed(m)
    <3>1. fate' = [fate EXCEPT ![m] = "ok"] /\ stored' = stored /\ (m \in Loop!Snapshots => stored[m] = 1)
      BY <2>2 DEF Loop!D!Succeed
    <3> QED BY <3>1 DEF Answered, Handed
  <2> QED BY <1>2, <2>1, <2>2
<1>3. CASE Loop!Flush \/ Loop!SendOk \/ Loop!SendErr
  BY <1>2, <1>3 DEF Loop!Flush, Loop!SendOk, Loop!SendErr
<1>4. CASE Loop!Restart
  BY <1>1, <1>2, <1>4 DEF Loop!Restart, Loop!delivery
<1>5. CASE \E m \in Loop!Snapshots : Loop!Store(m)
  <2>1. PICK m \in Loop!Snapshots : Loop!D!Store(m)
    BY <1>5 DEF Loop!Store
  <2>2. fate[m] # "ok" /\ fate' = fate /\ \A x \in Loop!Snapshots \ {m} : stored'[x] = stored[x]
    BY <2>1 DEF Loop!D!Store, Handed
  <2> QED BY <2>2 DEF Answered
<1>6. CASE \/ Loop!FullTick \/ Loop!ShipFull \/ Loop!SkipFull \/ Loop!ShipConnections \/ Loop!NoConnections
           \/ Loop!FlushNothing \/ Loop!SendReturns \/ Loop!Elapse \/ Loop!Sample \/ Loop!SampleFails
           \/ \E i \in Readers : Loop!Acquire(i) \/ Loop!Finish(i)
  <2>1. UNCHANGED <<fate, stored>>
    BY <1>6 DEF Loop!FullTick, Loop!ShipFull, Loop!SkipFull, Loop!ShipConnections, Loop!Ship, Loop!NoConnections,
                Loop!FlushNothing, Loop!SendReturns, Loop!Elapse, Loop!Sample, Loop!SampleFails, Loop!Sampled,
                Loop!Acquire, Loop!Finish, Loop!delivery
  <2> QED BY <1>1, <2>1
<1> QED BY <1>3, <1>4, <1>5, <1>6 DEF Loop!Next, Loop!Loop

\* The observations of a sample.
LEMMA SampleNoted ==
  ASSUME NEW O, SeenOk(O), NEW t \in 0..MaxTime, \A o \in O : o[1] < t, NEW n \in [Keys -> Nat],
         \A o, q \in O : o[1] = q[1] /\ o[2] = q[2] => o = q,
         NEW Q, Q = O \cup {<<t, k, n[k]>> : k \in {k \in Keys : n[k] > 0}}
  PROVE  /\ SeenOk(Q) /\ \A o \in Q : o[1] <= t
         /\ \A o, q \in Q : o[1] = q[1] /\ o[2] = q[2] => o = q
<1> DEFINE K == {k \in Keys : n[k] > 0}
           new == {<<t, k, n[k]>> : k \in K}
           g == [k \in K |-> <<t, k, n[k]>>]
<1>1. IsFiniteSet(K)
  BY LoopBounds, FS_Subset
<1>2. g \in Surjection(K, new)
  BY DEF Surjection
<1>3. IsFiniteSet(new)
  BY <1>1, <1>2, FS_Surjection
<1>4. IsFiniteSet(O \cup new)
  BY <1>3, FS_Union DEF SeenOk
<1>5. ASSUME NEW o \in new
      PROVE  /\ o = <<o[1], o[2], o[3]>> /\ o[1] = t /\ o[2] \in Keys /\ o[3] \in Nat \ {0} /\ o[3] = n[o[2]]
  OBVIOUS
<1>6. Q = O \cup new
  OBVIOUS
<1> HIDE DEF new
<1>7. SeenOk(Q)
  BY <1>4, <1>5, <1>6 DEF SeenOk
<1>8. \A o \in Q : o[1] <= t
  BY <1>5, <1>6 DEF SeenOk
<1>9. ASSUME NEW o \in Q, NEW q \in Q, o[1] = q[1], o[2] = q[2] PROVE o = q
  <2>1. CASE o \in O /\ q \in O
    BY <1>9, <2>1
  <2>2. CASE o \in new /\ q \in new
    BY <1>5, <1>9, <2>2
  <2>3. CASE o \in O /\ q \in new
    <3>1. o[1] < t /\ q[1] = t
      BY <1>5, <2>3
    <3> QED BY <1>9, <3>1
  <2>4. CASE o \in new /\ q \in O
    <3>1. q[1] < t /\ o[1] = t
      BY <1>5, <2>4
    <3> QED BY <1>9, <3>1
  <2> QED BY <1>6, <2>1, <2>2, <2>3, <2>4
<1> QED BY <1>7, <1>8, <1>9

LEMMA NotedStep ==
  ASSUME Control, Carried, Noted, Loop!Next
  PROVE  Noted'
<1>1. CASE Loop!Sample
  <2>1. Later(observed) /\ clock \in 0..MaxTime /\ clock' = clock /\ arm' = "full" /\ stage' = "select"
        /\ due' = due \ {"sample"}
    BY <1>1 DEF Loop!Sample, Loop!Sampled, Loop!AtSample, Noted, Control
  <2>2. PICK n \in [Keys -> Nat] :
          observed' = observed \cup {<<clock, k, n[k]>> : k \in {k \in Keys : n[k] > 0}}
    BY <1>1, SampleIs
  <2>3. PICK O, t, Q : O = observed /\ t = clock /\ Q = observed'
    OBVIOUS
  <2>4. /\ SeenOk(Q) /\ \A o \in Q : o[1] <= t
        /\ \A o, q \in Q : o[1] = q[1] /\ o[2] = q[2] => o = q
    <3>1. SeenOk(O) /\ t \in 0..MaxTime /\ (\A o \in O : o[1] < t)
          /\ (\A o, q \in O : o[1] = q[1] /\ o[2] = q[2] => o = q)
          /\ Q = O \cup {<<t, k, n[k]>> : k \in {k \in Keys : n[k] > 0}}
      BY <2>1, <2>2, <2>3 DEF Noted, Later
    <3> QED BY <3>1, SampleNoted
  <2> QED BY <2>1, <2>3, <2>4 DEF Noted
<1>2. CASE Loop!SampleFails
  BY <1>2 DEF Loop!SampleFails, Loop!Sampled, Noted
<1>3. CASE Loop!Elapse
  <2>1. clock' = clock + 1 /\ clock \in Nat /\ UNCHANGED <<observed, arm, stage>>
    BY <1>3, LoopBounds DEF Loop!Elapse, Loop!activity, Control
  <2>2. \A o \in observed : o[1] \in Nat /\ o[1] <= clock
    BY DEF Noted, SeenOk
  <2>3. \A o \in observed : o[1] < clock + 1 /\ o[1] <= clock + 1
    BY <2>1, <2>2
  <2> QED BY <2>1, <2>3 DEF Noted, Later
<1>4. CASE Loop!Restart
  <2>1. clock' = clock + 1 /\ clock \in Nat /\ observed' = observed /\ arm' = "boot" /\ stage' = "read"
    BY <1>4 DEF Loop!Restart, Loop!StartProcess, Control
  <2>2. \A o \in observed : o[1] \in Nat /\ o[1] <= clock
    BY DEF Noted, SeenOk
  <2>3. \A o \in observed : o[1] < clock + 1 /\ o[1] <= clock + 1
    BY <2>1, <2>2
  <2> QED BY <2>1, <2>3 DEF Noted, Later
<1>5. ASSUME UNCHANGED <<clock, observed>>, due' \subseteq due, arm' = "boot" => arm = "boot",
             stage' = "sample" => arm' = "boot"
      PROVE  Noted'
  BY <1>5 DEF Noted, Later
<1>6. CASE \/ Loop!FullTick \/ Loop!ShipFull \/ Loop!ShipConnections \/ Loop!Flush \/ Loop!FlushNothing
           \/ Loop!NoConnections
  <2>1. UNCHANGED <<clock, observed>> /\ due' \subseteq due /\ (arm' = "boot" => arm = "boot") /\ stage' # "sample"
    BY <1>6 DEF Loop!FullTick, Loop!ShipFull, Loop!ShipConnections, Loop!Ship, Loop!Flush, Loop!FlushNothing,
                Loop!NoConnections, Loop!process, Loop!activity
  <2> QED BY <1>5, <2>1
<1>7. CASE Loop!SkipFull \/ Loop!SendReturns \/ Loop!SendOk \/ Loop!SendErr
  <2>1. UNCHANGED <<clock, observed, due, arm>> /\ (stage' = "sample" => arm = "boot")
    BY <1>7 DEF Loop!SkipFull, Loop!SendReturns, Loop!SendOk, Loop!SendErr, Loop!process, Loop!activity, Loop!After
  <2> QED BY <1>5, <2>1
<1>8. CASE \/ \E i \in Readers : Loop!Acquire(i) \/ Loop!Finish(i)
           \/ \E m \in Loop!Snapshots : Loop!Store(m)
  <2>1. UNCHANGED <<clock, observed, due, arm, stage>>
    BY <1>8 DEF Loop!Acquire, Loop!Finish, Loop!Store, Loop!process, Loop!activity
  <2> QED BY <2>1 DEF Noted, Later
<1> QED BY <1>1, <1>2, <1>3, <1>4, <1>6, <1>7, <1>8 DEF Loop!Next, Loop!Loop

Books == Bodies(body) /\ Sound(buckets) /\ Unshipped /\ CountsNow

LEMMA InitLoopInv == Loop!Init => LoopInv
<1> SUFFICES ASSUME Loop!Init PROVE LoopInv
  OBVIOUS
<1>1. /\ observed = {} /\ buckets = {} /\ body = [m \in Loop!Snapshots |-> {}] /\ boots = 1
      /\ stage = "read" /\ arm = "boot"
  BY DEF Loop!Init
<1>2. Noted
  BY <1>1, FS_EmptySet DEF Noted, SeenOk, Later
<1>3. Bodies(body) /\ Sound(buckets) /\ Unshipped
  BY <1>1, FS_EmptySet DEF Bodies, Sound, Unshipped
<1>4. Answered
  BY DEF Loop!Init, Loop!D!Init, Answered
<1>5. ASSUME NEW start \in Loop!BucketStarts, NEW k \in Keys PROVE Counts(body, buckets, observed, boots, start, k)
  <2>1. Sent(body, start, k) = {} /\ HeldAs(buckets, 0, start, k) = {} /\ SeenOf(observed, start, k) = {}
    BY <1>1, NothingHeld DEF Sent, SentRows, SeenOf
  <2>2. SumSeen({}) = 0 /\ Cardinality({}) = 0 /\ SamplesIn({}) = 0 /\ SumIn({}) = 0
    BY TotalNone, RowsNone, FS_EmptySet DEF SumSeen
  <2> QED BY <2>1, <2>2 DEF Counts
<1>6. CountsNow
  BY <1>5 DEF CountsNow
<1> QED BY <1>2, <1>3, <1>4, <1>6, InitLoopTyped DEF LoopInv

LEMMA BooksStep ==
  ASSUME Control, Carried, Noted, Books, Loop!Next
  PROVE  Books'
<1>1. ASSUME UNCHANGED <<buckets, body, observed, boots, snaps>> PROVE Books'
  BY <1>1 DEF Books, Unshipped, CountsNow
<1>2. CASE Loop!Sample
  <2>1. PICK n \in [Keys -> Nat] :
          /\ Folded(buckets, Loop!BucketStart(clock), n, buckets')
          /\ observed' = observed \cup {<<clock, k, n[k]>> : k \in {k \in Keys : n[k] > 0}}
    BY <1>2, SampleIs
  <2>2. PICK W, B, O, t, C, Q, m :
          /\ W = body /\ B = buckets /\ O = observed /\ t = clock /\ m = boots
          /\ C = buckets' /\ Q = observed'
    OBVIOUS
  <2>3. W = body' /\ m = boots' /\ snaps' = snaps
    BY <1>2, <2>2 DEF Loop!Sample, Loop!Sampled
  <2>4. t \in 0..MaxTime /\ \A o \in O : o[1] < t
    BY <1>2, <2>2 DEF Control, Noted, Later, Loop!Sample, Loop!AtSample
  <2>5. /\ Bodies(W) /\ Sound(B) /\ SeenOk(O)
        /\ Folded(B, Loop!BucketStart(t), n, C)
        /\ Q = O \cup {<<t, k, n[k]>> : k \in {k \in Keys : n[k] > 0}}
        /\ \A o, q \in O : o[1] = q[1] /\ o[2] = q[2] => o = q
    BY <2>1, <2>2 DEF Books, Noted
  <2>6. SeenOk(Q)
    BY <2>4, <2>5, SampleNoted
  <2>7. Loop!BucketStart(t) \in Loop!BucketStarts
    BY <2>4 DEF Loop!BucketStarts
  <2>8. Sound(C)
    BY <2>5, <2>7, FoldedSound
  <2>9. ASSUME NEW start \in Loop!BucketStarts, NEW k \in Keys PROVE Counts(W, C, Q, m, start, k)
    <3>1. Counts(W, B, O, m, start, k)
      BY <2>2 DEF Books, CountsNow
    <3> QED BY <2>4, <2>5, <2>6, <3>1, SampleCounts
  <2>10. CountsNow'
    BY <2>2, <2>3, <2>9 DEF CountsNow
  <2>11. Bodies(body') /\ Sound(buckets') /\ Unshipped'
    BY <2>2, <2>3, <2>5, <2>8 DEF Unshipped, Books
  <2> QED BY <2>10, <2>11 DEF Books
<1>3. CASE Loop!Flush
  <2>1. PICK W, B, O, m, one, V : /\ W = body /\ B = buckets /\ O = observed /\ m = boots /\ one = snaps + 1
                                  /\ V = body'
    OBVIOUS
  <2>2. /\ V = [W EXCEPT ![one] = B] /\ buckets' = {} /\ observed' = O /\ boots' = m /\ snaps' = one
        /\ one \in Loop!Snapshots /\ W[one] = {}
    BY <1>3, <2>1, LoopBounds DEF Loop!Flush, Control, Books, Unshipped, Loop!Snapshots
  <2>3. Bodies(W) /\ Sound(B) /\ SeenOk(O)
    BY <2>1 DEF Books, Noted
  <2>4. Bodies(V)
    BY <2>2, <2>3 DEF Bodies, Sound
  <2>5. ASSUME NEW start \in Loop!BucketStarts, NEW k \in Keys PROVE Counts(V, {}, O, m, start, k)
    <3>1. Counts(W, B, O, m, start, k)
      BY <2>1 DEF Books, CountsNow
    <3> QED BY <2>2, <2>3, <3>1, FlushCounts
  <2>6. CountsNow'
    BY <2>1, <2>2, <2>5 DEF CountsNow
  <2>7. Unshipped'
    <3>1. snaps \in Nat /\ one = snaps + 1
      BY <2>1 DEF Control
    <3>2. ASSUME NEW x \in Loop!Snapshots, x > one PROVE V[x] = {}
      <4>1. x > snaps /\ x # one
        BY <3>1, <3>2 DEF Loop!Snapshots
      <4>2. W[x] = {}
        BY <2>1, <4>1 DEF Books, Unshipped
      <4> QED BY <2>2, <4>1, <4>2
    <3> QED BY <2>1, <2>2, <3>2 DEF Unshipped
  <2> QED BY <2>1, <2>2, <2>4, <2>6, <2>7, NothingHeld DEF Books
<1>4. CASE Loop!Restart
  <2>1. PICK W, B, O, m, p : W = body /\ B = buckets /\ O = observed /\ m = boots /\ p = boots'
    OBVIOUS
  <2>2. body' = W /\ buckets' = {} /\ observed' = O /\ snaps' = snaps /\ p # 1
    <3>1. boots \in Nat /\ boots >= 1 /\ boots' = boots + 1
      BY <1>4 DEF Loop!Restart, Control
    <3> QED BY <1>4, <2>1, <3>1 DEF Loop!Restart, Loop!StartProcess
  <2>3. Bodies(W) /\ Sound(B) /\ SeenOk(O)
    BY <2>1 DEF Books, Noted
  <2>4. ASSUME NEW start \in Loop!BucketStarts, NEW k \in Keys PROVE Counts(W, {}, O, p, start, k)
    <3>1. Counts(W, B, O, m, start, k)
      BY <2>1 DEF Books, CountsNow
    <3> QED BY <2>2, <2>3, <3>1, RestartCounts
  <2>5. CountsNow'
    BY <2>1, <2>2, <2>4 DEF CountsNow
  <2>6. Unshipped'
    BY <2>1, <2>2 DEF Books, Unshipped
  <2> QED BY <2>1, <2>2, <2>3, <2>5, <2>6, NothingHeld DEF Books
<1>5. CASE \/ Loop!FullTick \/ Loop!ShipFull \/ Loop!SkipFull \/ Loop!ShipConnections \/ Loop!NoConnections
           \/ Loop!FlushNothing \/ Loop!SendReturns \/ Loop!SendOk \/ Loop!SendErr \/ Loop!Elapse
           \/ Loop!SampleFails \/ (\E m \in Loop!Snapshots : Loop!Store(m))
           \/ \E i \in Readers : Loop!Acquire(i) \/ Loop!Finish(i)
  <2>1. UNCHANGED <<buckets, body, observed, boots, snaps>>
    BY <1>5 DEF Loop!FullTick, Loop!ShipFull, Loop!SkipFull, Loop!ShipConnections, Loop!Ship, Loop!NoConnections,
                Loop!FlushNothing, Loop!SendReturns, Loop!SendOk, Loop!SendErr, Loop!Elapse,
                Loop!SampleFails, Loop!Sampled, Loop!Store, Loop!Acquire, Loop!Finish, Loop!activity, Loop!process
  <2> QED BY <1>1, <2>1
<1> QED BY <1>2, <1>3, <1>4, <1>5 DEF Loop!Next, Loop!Loop

LEMMA StepLoopInv ==
  ASSUME LoopInv, [Loop!Next]_Loop!vars
  PROVE  LoopInv'
<1>1. Loop!TypeOK'
  BY StepLoopTyped DEF LoopInv
<1>2. Control /\ Carried /\ Handed /\ Noted /\ Books /\ Answered
  BY LoopTypes DEF LoopInv, Books
<1>3. CASE Loop!Next
  BY <1>1, <1>2, <1>3, NotedStep, BooksStep, AnsweredStep DEF LoopInv, Books
<1>4. CASE UNCHANGED Loop!vars
  <2>1. UNCHANGED loop
    BY <1>4, SameLoop
  <2>2. Noted' /\ Answered'
    BY <1>2, <2>1 DEF loop, Noted, Later, Answered
  <2>3. Books'
    BY <1>2, <2>1 DEF loop, Books, Unshipped, CountsNow
  <2> QED BY <1>1, <2>2, <2>3 DEF LoopInv, Books
<1> QED BY <1>3, <1>4

-----------------------------------------------------------------------------
(* What the pages read is a part of what was shipped.                      *)

LEMMA LoopNames ==
  /\ \A R : Loop!Told(R) = [samples |-> SamplesIn(R), sum |-> SumIn(R)]
  /\ \A start, k : Loop!Seen(start, k) = [samples |-> Cardinality(SeenOf(observed, start, k)),
                                          sum |-> SumSeen(SeenOf(observed, start, k))]
  /\ \A start, k : Loop!Pending(start, k) = HeldAs(buckets, 0, start, k)
<1>1. \A R : Loop!Told(R) = [samples |-> SamplesIn(R), sum |-> SumIn(R)]
  BY DEF Loop!Told, SamplesIn, SumIn
<1>2. \A start, k : Loop!Seen(start, k) = [samples |-> Cardinality(SeenOf(observed, start, k)),
                                          sum |-> SumSeen(SeenOf(observed, start, k))]
  BY LoopCardinality DEF Loop!Seen, Loop!Samples, SeenOf, SumSeen
<1>3. \A start, k : Loop!Pending(start, k) = HeldAs(buckets, 0, start, k)
  BY DEF Loop!Pending, HeldAs
<1> QED BY <1>1, <1>2, <1>3

LEMMA RowsAre ==
  ASSUME Bodies(body)
  PROVE  /\ \A r : r \in Loop!Rows <=> r \in SentRows(body) /\ stored[r.snap] = 1
         /\ RowsOk(Loop!Rows)
         /\ \A r \in Loop!Rows : /\ Filled(r.bucket) /\ r.bucket.start \in Loop!BucketStarts /\ r.bucket.key \in Keys
                                 /\ r.bucket.sum \in Nat \ {0} /\ r.bucket.samples \in Nat \ {0}
         /\ \A start, k : Loop!RowsOf(start, k) \subseteq Sent(body, start, k)
<1>1. ASSUME NEW r PROVE r \in Loop!Rows <=> r \in SentRows(body) /\ stored[r.snap] = 1
  <2>1. r \in Loop!Rows => \E m \in Loop!Snapshots : stored[m] = 1 /\ \E b \in body[m] : r = [snap |-> m, bucket |-> b]
    BY DEF Loop!Rows, Loop!snapshotToActivityBuckets
  <2>2. (\E m \in Loop!Snapshots : stored[m] = 1 /\ \E b \in body[m] : r = [snap |-> m, bucket |-> b]) => r \in Loop!Rows
    BY DEF Loop!Rows, Loop!snapshotToActivityBuckets
  <2>3. r \in SentRows(body) => /\ r.snap \in Loop!Snapshots /\ r.bucket \in body[r.snap]
                                /\ r = [snap |-> r.snap, bucket |-> r.bucket]
    BY SentOk
  <2>4. (\E m \in Loop!Snapshots : stored[m] = 1 /\ \E b \in body[m] : r = [snap |-> m, bucket |-> b]) =>
           r \in SentRows(body) /\ stored[r.snap] = 1
    BY SentIs
  <2> QED BY <2>1, <2>2, <2>3, <2>4
<1>2. Loop!Rows \subseteq SentRows(body)
  BY <1>1
<1>3. RowsOk(Loop!Rows)
  BY <1>2, SentOk, RowsSub
<1>4. ASSUME NEW r \in Loop!Rows
      PROVE  /\ Filled(r.bucket) /\ r.bucket.start \in Loop!BucketStarts /\ r.bucket.key \in Keys
             /\ r.bucket.sum \in Nat \ {0} /\ r.bucket.samples \in Nat \ {0}
  <2>1. Filled(r.bucket) /\ r.bucket \in Loop!Bucket
    BY <1>2, <1>3, SentOk DEF RowsOk
  <2> QED BY <2>1, BucketTypes DEF Filled
<1>5. \A start, k : Loop!RowsOf(start, k) \subseteq Sent(body, start, k)
  BY <1>2 DEF Loop!RowsOf, Sent
<1> QED BY <1>1, <1>3, <1>4, <1>5

\* Of each part: no more than was observed, and all of it when nothing was lost.
LEMMA PartCounted ==
  ASSUME LoopInv, NEW start \in Loop!BucketStarts, NEW k \in Keys
  PROVE  /\ Loop!Told(Loop!RowsOf(start, k)).samples <= Loop!Seen(start, k).samples
         /\ Loop!Told(Loop!RowsOf(start, k)).sum <= Loop!Seen(start, k).sum
         /\ boots = 1 /\ (\A m \in 1..snaps : fate[m] = "ok") =>
              Loop!Told(Loop!RowsOf(start, k) \cup Loop!Pending(start, k)) = Loop!Seen(start, k)
<1> DEFINE S == Sent(body, start, k)
           T == Loop!RowsOf(start, k)
           H == HeldAs(buckets, 0, start, k)
           P == SeenOf(observed, start, k)
<1>1. Bodies(body) /\ Sound(buckets) /\ Unshipped /\ Answered /\ Control
  BY LoopTypes DEF LoopInv
<1>2. /\ SamplesIn(S) + SamplesIn(H) <= Cardinality(P)
      /\ SumIn(S) + SumIn(H) <= SumSeen(P)
      /\ boots = 1 => SamplesIn(S) + SamplesIn(H) = Cardinality(P) /\ SumIn(S) + SumIn(H) = SumSeen(P)
  BY DEF LoopInv, CountsNow, Counts
<1>3. RowsOk(S) /\ T \subseteq S /\ \A r : r \in Loop!Rows <=> r \in SentRows(body) /\ stored[r.snap] = 1
  BY <1>1, SentPart, RowsAre
<1>4. SamplesIn(T) <= SamplesIn(S) /\ SumIn(T) <= SumIn(S) /\ RowsOk(T)
  BY <1>3, RowsSub
<1>5. PICK b \in Loop!Bucket : Base(buckets, start, k, b)
  BY <1>1, BaseIs
<1>6. HeldExact(H, 0, b)
  BY <1>1, <1>5, HeldIs
<1>7. /\ SamplesIn(S) \in Nat /\ SumIn(S) \in Nat /\ SamplesIn(H) \in Nat /\ SumIn(H) \in Nat
      /\ SamplesIn(T) \in Nat /\ SumIn(T) \in Nat /\ RowsOk(H)
  BY <1>3, <1>4, <1>6, RowWeights DEF HeldExact
<1>8. Cardinality(P) \in Nat /\ SumSeen(P) \in Nat
  <2>1. SeenOk(P)
    BY FS_Subset DEF SeenOk, SeenOf, LoopInv, Noted
  <2> QED BY <2>1, SeenWeights
<1>9. /\ Loop!Told(T).samples = SamplesIn(T) /\ Loop!Told(T).sum = SumIn(T)
      /\ Loop!Seen(start, k).samples = Cardinality(P) /\ Loop!Seen(start, k).sum = SumSeen(P)
      /\ Loop!Pending(start, k) = H
  BY LoopNames
<1>10. ASSUME boots = 1, \A m \in 1..snaps : fate[m] = "ok"
       PROVE  Loop!Told(T \cup H) = Loop!Seen(start, k)
  <2>1. ASSUME NEW r \in S PROVE r \in T
    <3>1. r \in SentRows(body) /\ r.bucket.start = start /\ r.bucket.key = k
      BY DEF Sent
    <3>2. r.snap \in Loop!Snapshots /\ body[r.snap] # {}
      BY <1>1, <3>1, SentOk
    <3>3. r.snap \in 1..snaps
      BY <1>1, <3>2 DEF Unshipped, Loop!Snapshots, Control
    <3>4. stored[r.snap] = 1
      BY <1>1, <1>10, <3>2, <3>3 DEF Answered
    <3>5. r \in Loop!Rows
      BY <1>3, <3>1, <3>4
    <3> QED BY <3>1, <3>5 DEF Loop!RowsOf
  <2>2. T = S
    BY <1>3, <2>1
  <2>3. S \cap H = {}
    <3>1. \A r \in S : r.snap \in Loop!Snapshots
      BY <1>1, SentOk DEF Sent
    <3>2. \A r \in H : r.snap = 0
      BY <1>6 DEF HeldExact
    <3>3. 0 \notin Loop!Snapshots
      BY DEF Loop!Snapshots
    <3> QED BY <3>1, <3>2, <3>3
  <2>4. RowsOk(S \cup H)
    BY <1>3, <1>7, FS_Union DEF RowsOk
  <2>5. SamplesIn(S \cup H) = SamplesIn(S) + SamplesIn(H) /\ SumIn(S \cup H) = SumIn(S) + SumIn(H)
    BY <2>3, <2>4, RowsSplit
  <2>6. SamplesIn(S \cup H) = Cardinality(P) /\ SumIn(S \cup H) = SumSeen(P)
    BY <1>2, <1>10, <2>5
  <2> QED BY <2>2, <2>6, LoopNames
<1> HIDE DEF S, T, H, P
<1>11. SamplesIn(T) <= Cardinality(P) /\ SumIn(T) <= SumSeen(P)
  BY <1>2, <1>4, <1>7, <1>8
<1> QED BY <1>9, <1>10, <1>11 DEF T

\* A part of which every sample was told has a row for its greatest count.
LEMMA PartPeak ==
  ASSUME LoopInv, NEW start \in Loop!BucketStarts, NEW k \in Keys,
         Loop!Told(Loop!RowsOf(start, k)) = Loop!Seen(start, k),
         NEW o \in SeenOf(observed, start, k)
  PROVE  \E r \in Loop!RowsOf(start, k) : r.bucket.max >= o[3]
<1> DEFINE S == Sent(body, start, k)
           T == Loop!RowsOf(start, k)
           H == HeldAs(buckets, 0, start, k)
           P == SeenOf(observed, start, k)
           rest == S \ T
<1>1. Bodies(body) /\ Sound(buckets)
  BY DEF LoopInv
<1>2. RowsOk(S) /\ T \subseteq S
  BY <1>1, SentPart, RowsAre
<1>3. PICK b \in Loop!Bucket : Base(buckets, start, k, b)
  BY <1>1, BaseIs
<1>4. HeldExact(H, 0, b)
  BY <1>1, <1>3, HeldIs
<1>5. /\ SamplesIn(S) + SamplesIn(H) <= Cardinality(P)
      /\ SamplesIn(S) + SamplesIn(H) = Cardinality(P) =>
           \A q \in P : \E r \in S \cup H : r.bucket.max >= q[3]
  BY DEF LoopInv, CountsNow, Counts
<1>6. SamplesIn(T) = Cardinality(P)
  BY LoopNames
<1>7. S = T \cup rest /\ T \cap rest = {} /\ rest \subseteq S
  BY <1>2
<1>8. SamplesIn(S) = SamplesIn(T) + SamplesIn(rest) /\ RowsOk(rest) /\ RowsOk(T)
  <2>1. RowsOk(T \cup rest)
    BY <1>2, <1>7
  <2>2. SamplesIn(T \cup rest) = SamplesIn(T) + SamplesIn(rest)
    BY <1>7, <2>1, RowsSplit
  <2>3. RowsOk(rest) /\ RowsOk(T)
    BY <1>2, <1>7, RowsSub
  <2> QED BY <1>7, <2>2, <2>3
<1>9. SamplesIn(T) \in Nat /\ SamplesIn(rest) \in Nat /\ SamplesIn(H) \in Nat
  BY <1>4, <1>8, RowWeights DEF HeldExact
<1>10. \A r \in H : SamplesIn(H) >= 1
  <2>1. ASSUME NEW r \in H PROVE SamplesIn(H) >= 1
    <3>1. r.bucket \in buckets /\ r.bucket = b
      BY <1>4 DEF HeldAs, HeldExact
    <3> QED BY <1>1, <1>4, <3>1 DEF Sound, Filled, HeldExact
  <2> QED BY <2>1
<1>11. \A r \in rest : SamplesIn(rest) >= 1
  <2>1. ASSUME NEW r \in rest PROVE SamplesIn(rest) >= 1
    <3>1. SamplesIn(rest) >= r.bucket.samples
      BY <1>8, RowsSome
    <3>2. r.bucket.samples >= 1 /\ r.bucket.samples \in Nat
      <4>1. r \in SentRows(body)
        BY DEF Sent
      <4>2. Filled(r.bucket) /\ r.bucket \in Loop!Bucket
        BY <1>1, <4>1, SentOk DEF RowsOk
      <4> QED BY <4>2, BucketTypes DEF Filled
    <3> QED BY <1>9, <3>1, <3>2
  <2> QED BY <2>1
<1> HIDE DEF S, T, H, P, rest
<1>12. SamplesIn(rest) = 0 /\ SamplesIn(H) = 0
  BY <1>5, <1>6, <1>8, <1>9
<1>13. rest = {} /\ H = {}
  BY <1>10, <1>11, <1>12
<1>14. SamplesIn(S) + SamplesIn(H) = Cardinality(P)
  BY <1>6, <1>8, <1>9, <1>12
<1>15. S \cup H = T
  BY <1>7, <1>13
<1>16. o \in P
  BY DEF P
<1> QED BY <1>5, <1>14, <1>15, <1>16 DEF T

LEMMA PeakKept ==
  ASSUME LoopInv
  PROVE  Loop!PeakNotMissed
<1> SUFFICES ASSUME Loop!AllTold(Loop!Newest), NEW t \in 0..MaxTime, Loop!BucketStart(t) = Loop!Newest
             PROVE  Loop!Active(t) <= Loop!ActiveConns
  BY DEF Loop!PeakNotMissed
<1> DEFINE N == Loop!Newest
           A == {x \in observed : x[1] = t}
           R == {x \in Loop!Rows : x.bucket.start = N}
           w == [o \in A |-> o[3]]
           v == [r \in R |-> r.bucket.max]
           g == [o \in A |-> CHOOSE r \in R : r.bucket.key = o[2] /\ r.bucket.max >= o[3]]
<1>1. N \in Loop!BucketStarts
  BY DEF Loop!BucketStarts
<1>2. Bodies(body) /\ SeenOk(observed) /\ \A o, q \in observed : o[1] = q[1] /\ o[2] = q[2] => o = q
  BY DEF LoopInv, Noted
<1>3. ASSUME NEW o \in A PROVE \E r \in R : r.bucket.key = o[2] /\ r.bucket.max >= o[3]
  <2>1. o[2] \in Keys /\ o \in SeenOf(observed, N, o[2])
    BY <1>2 DEF SeenOk, SeenOf
  <2>2. Loop!Told(Loop!RowsOf(N, o[2])) = Loop!Seen(N, o[2])
    BY <2>1 DEF Loop!AllTold
  <2>3. PICK r \in Loop!RowsOf(N, o[2]) : r.bucket.max >= o[3]
    BY <1>1, <2>1, <2>2, PartPeak
  <2> QED BY <2>3 DEF Loop!RowsOf
<1>4. SeenOk(A)
  BY <1>2, FS_Subset DEF SeenOk
<1>5. RowsOk(R)
  <2>1. RowsOk(Loop!Rows)
    BY <1>2, RowsAre
  <2>2. R \subseteq Loop!Rows
    OBVIOUS
  <2> QED BY <2>1, <2>2, RowsSub
<1>6. Weights(w) /\ Weights(v) /\ DOMAIN w = A /\ DOMAIN v = R
  BY <1>4, <1>5, SeenWeights, RowWeights
<1>7. \A o \in A : g[o] \in R /\ g[o].bucket.key = o[2] /\ g[o].bucket.max >= o[3]
  BY <1>3
<1>8. g \in [A -> R]
  BY <1>7
<1>9. ASSUME NEW o \in A, NEW q \in A, g[o] = g[q] PROVE o = q
  <2>1. o[2] = q[2]
    BY <1>7, <1>9
  <2> QED BY <1>2, <2>1
<1>10. \A o \in A : w[o] <= v[g[o]]
  <2>1. ASSUME NEW o \in A PROVE w[o] <= v[g[o]]
    <3>1. g[o] \in R /\ g[o].bucket.max >= o[3]
      BY <1>7
    <3>2. w[o] = o[3] /\ v[g[o]] = g[o].bucket.max
      BY <3>1
    <3>3. w[o] \in Nat /\ v[g[o]] \in Nat
      BY <1>6, <3>1 DEF Weights
    <3> HIDE DEF g
    <3> QED BY <3>1, <3>2, <3>3
  <2> QED BY <2>1
<1> HIDE DEF w, v, g, A, R
<1>11. Loop!Total(w) <= Loop!Total(v)
  BY <1>6, <1>8, <1>9, <1>10, TotalMaps
<1> QED BY <1>11 DEF Loop!Active, Loop!ActiveConns, w, v, A, R

-----------------------------------------------------------------------------
(* The page of waits.                                                      *)

OwnRows(w) == {r \in Loop!Rows : WaitOf[r.bucket.key] = w}
ShownWaits == {WaitOf[r.bucket.key] : r \in Loop!Rows}
Waited     == [w \in ShownWaits |-> SumIn(OwnRows(w))]

LEMMA PageIs ==
  /\ Loop!fetchWaits.avg = [w \in ShownWaits |-> Waited[w] \div Cardinality(OwnRows(w))]
  /\ Loop!fetchWaits.width = [w \in ShownWaits |-> (Waited[w] * 100) \div Loop!Total(Waited)]
  /\ Loop!fetchWaits.top = {w \in ShownWaits : \A u \in ShownWaits : Waited[u] <= Waited[w]}
<1> DEFINE h == Loop!WaitEventHistogram
<1>1. h = [w \in ShownWaits |-> [total |-> Waited[w], buckets |-> Cardinality(OwnRows(w))]]
  BY LoopCardinality DEF Loop!WaitEventHistogram, ShownWaits, OwnRows, Waited, SumIn
<1>2. DOMAIN h = ShownWaits /\ \A w \in ShownWaits : h[w].total = Waited[w] /\ h[w].buckets = Cardinality(OwnRows(w))
  BY <1>1
<1> HIDE DEF h
<1>3. [u \in DOMAIN h |-> h[u].total] = Waited
  BY <1>2 DEF Waited
<1>4. Loop!fetchWaits = [avg   |-> [w \in DOMAIN h |-> h[w].total \div h[w].buckets],
                         width |-> [w \in DOMAIN h |-> (h[w].total * 100) \div Loop!Total([u \in DOMAIN h |-> h[u].total])],
                         top   |-> {w \in DOMAIN h : \A u \in DOMAIN h : h[u].total <= h[w].total}]
  BY DEF Loop!fetchWaits, h
<1>5. Loop!fetchWaits = [avg   |-> [w \in ShownWaits |-> h[w].total \div h[w].buckets],
                         width |-> [w \in ShownWaits |-> (h[w].total * 100) \div Loop!Total(Waited)],
                         top   |-> {w \in ShownWaits : \A u \in ShownWaits : h[u].total <= h[w].total}]
  BY <1>2, <1>3, <1>4
<1> QED BY <1>2, <1>5

LEMMA WaitedIs ==
  ASSUME Bodies(body)
  PROVE  /\ Weights(Waited) /\ DOMAIN Waited = ShownWaits
         /\ \A w \in ShownWaits : /\ RowsOk(OwnRows(w)) /\ Waited[w] = SumIn(OwnRows(w))
                                  /\ Cardinality(OwnRows(w)) \in Nat \ {0}
                                  /\ Waited[w] \in Nat /\ Waited[w] >= Cardinality(OwnRows(w))
<1>1. RowsOk(Loop!Rows) /\ \A r \in Loop!Rows : r.bucket.sum \in Nat \ {0}
  BY RowsAre
<1>2. ASSUME NEW w \in ShownWaits
      PROVE  /\ RowsOk(OwnRows(w)) /\ Waited[w] = SumIn(OwnRows(w))
             /\ Cardinality(OwnRows(w)) \in Nat \ {0}
             /\ Waited[w] \in Nat /\ Waited[w] >= Cardinality(OwnRows(w))
  <2> DEFINE R == OwnRows(w)
             v == [r \in R |-> r.bucket.sum]
  <2>1. R \subseteq Loop!Rows /\ R # {}
    BY DEF OwnRows, ShownWaits
  <2>2. RowsOk(R)
    BY <1>1, <2>1, RowsSub
  <2>3. Cardinality(R) \in Nat \ {0}
    BY <2>1, <2>2, FS_CardinalityType, FS_EmptySet DEF RowsOk
  <2>4. Weights(v) /\ DOMAIN v = R /\ SumIn(R) \in Nat
    BY <2>2, RowWeights
  <2>5. \A r \in DOMAIN v : v[r] >= 1
    BY <1>1, <2>1
  <2> HIDE DEF v
  <2>6. Loop!Total(v) >= Cardinality(R)
    BY <2>4, <2>5, TotalCount
  <2>7. Loop!Total(v) = SumIn(R)
    BY DEF v, SumIn
  <2> QED BY <2>2, <2>3, <2>4, <2>6, <2>7 DEF Waited
<1>3. IsFiniteSet(ShownWaits)
  <2> DEFINE g == [r \in Loop!Rows |-> WaitOf[r.bucket.key]]
  <2>1. g \in Surjection(Loop!Rows, ShownWaits)
    BY DEF Surjection, ShownWaits
  <2> QED BY <1>1, <2>1, FS_Surjection DEF RowsOk
<1>4. Weights(Waited) /\ DOMAIN Waited = ShownWaits
  BY <1>2, <1>3 DEF Weights, Waited
<1> QED BY <1>2, <1>4

LEMMA Quotient ==
  ASSUME NEW a \in Nat, NEW n \in Nat \ {0}
  PROVE  a \div n \in Nat /\ (a \div n) * n <= a /\ (n <= a => a \div n >= 1)
<1>1. a \div n \in Nat /\ (a \div n) * n <= a
  BY SMT
<1>2. ASSUME n <= a PROVE a \div n >= 1
  BY <1>2, SMT
<1> QED BY <1>1, <1>2

LEMMA OneBelow ==
  ASSUME NEW a \in Nat, NEW n \in Nat \ {0}, NEW q \in Nat, q >= 1, q * n <= a
  PROVE  q - 1 \in Nat /\ ~(a <= n * (q - 1))
<1>1. q - 1 \in Nat
  OBVIOUS
<1>2. n * (q - 1) = q * n - n /\ q * n \in Nat
  BY SMT
<1> QED BY <1>1, <1>2

\* The average is above no bucket's own.
LEMMA AverageKept ==
  ASSUME LoopInv, NEW w \in ShownWaits
  PROVE  \E start \in Loop!BucketStarts :
           Waited[w] \div Cardinality(OwnRows(w)) \in
             1..Loop!Total([k \in {x \in Keys : WaitOf[x] = w} |-> Loop!Seen(start, k).sum])
<1> DEFINE R == OwnRows(w)
           n == Cardinality(R)
           q == Waited[w] \div n
           v == [r \in R |-> r.bucket.sum]
<1>1. Bodies(body)
  BY DEF LoopInv
<1>2. RowsOk(R) /\ Waited[w] = SumIn(R) /\ n \in Nat \ {0} /\ Waited[w] \in Nat /\ Waited[w] >= n
  BY <1>1, WaitedIs
<1> HIDE DEF n, R
<1>3. q \in Nat /\ q * n <= Waited[w] /\ q >= 1
  BY <1>2, Quotient
<1>4. Weights(v) /\ DOMAIN v = R /\ Loop!Total(v) = Waited[w]
  BY <1>2, RowWeights DEF SumIn
<1> HIDE DEF q, v
<1>5. \E r \in R : v[r] >= q
  <2>1. SUFFICES ASSUME \A r \in R : ~(v[r] >= q) PROVE FALSE
    OBVIOUS
  <2>2. q - 1 \in Nat /\ ~(Waited[w] <= n * (q - 1))
    BY <1>2, <1>3, OneBelow
  <2>3. \A r \in DOMAIN v : v[r] <= q - 1
    BY <1>3, <1>4, <2>1 DEF Weights
  <2>4. Loop!Total(v) <= Cardinality(DOMAIN v) * (q - 1)
    BY <1>4, <2>2, <2>3, TotalBound
  <2> QED BY <1>4, <2>2, <2>4 DEF n
<1>6. PICK r \in R : r.bucket.sum >= q
  BY <1>5 DEF v
<1>7. /\ r \in Loop!Rows /\ WaitOf[r.bucket.key] = w
      /\ r.bucket.start \in Loop!BucketStarts /\ r.bucket.key \in Keys /\ r.bucket.sum \in Nat
  BY <1>1, RowsAre DEF R, OwnRows
<1>8. PICK start \in Loop!BucketStarts, k \in Keys : start = r.bucket.start /\ k = r.bucket.key
  BY <1>7
<1>9. r \in Loop!RowsOf(start, k) /\ RowsOk(Loop!RowsOf(start, k))
  <2>1. Loop!RowsOf(start, k) \subseteq Loop!Rows /\ RowsOk(Loop!Rows)
    BY <1>1, RowsAre DEF Loop!RowsOf
  <2> QED BY <1>7, <1>8, <2>1, RowsSub DEF Loop!RowsOf
<1>10. SumIn(Loop!RowsOf(start, k)) >= r.bucket.sum /\ SumIn(Loop!RowsOf(start, k)) \in Nat
  BY <1>9, RowsSome, RowWeights
<1>11. SumIn(Loop!RowsOf(start, k)) <= Loop!Seen(start, k).sum
  BY PartCounted, LoopNames
<1> DEFINE K == {x \in Keys : WaitOf[x] = w}
           s == [x \in K |-> Loop!Seen(start, x).sum]
<1>12. ASSUME NEW x \in Keys PROVE Loop!Seen(start, x).sum \in Nat
  <2>1. SeenOk(SeenOf(observed, start, x))
    BY FS_Subset DEF SeenOk, SeenOf, LoopInv, Noted
  <2> QED BY <2>1, SeenWeights, LoopNames
<1>13. Weights(s) /\ DOMAIN s = K /\ k \in K
  <2>1. IsFiniteSet(K)
    BY LoopBounds, FS_Subset
  <2> QED BY <1>7, <1>8, <1>12, <2>1 DEF Weights
<1>14. s[k] = Loop!Seen(start, k).sum /\ s[k] \in Nat
  BY <1>12, <1>13
<1> HIDE DEF s, K
<1>15. s[k] <= Loop!Total(s) /\ Loop!Total(s) \in Nat
  BY <1>13, TotalMember
<1>16. q <= Loop!Total(s)
  BY <1>3, <1>6, <1>7, <1>10, <1>11, <1>14, <1>15
<1>17. q \in 1..Loop!Total(s)
  BY <1>3, <1>15, <1>16
<1> QED BY <1>17 DEF s, K, q, n, R

LEMMA WidthsKept ==
  ASSUME LoopInv
  PROVE  Loop!Total(Loop!fetchWaits.width) <= 100
<1> DEFINE all == Loop!Total(Waited)
           v == [w \in ShownWaits |-> (Waited[w] * 100) \div all]
<1>1. /\ Weights(Waited) /\ DOMAIN Waited = ShownWaits
      /\ \A w \in ShownWaits : Waited[w] \in Nat /\ Waited[w] >= 1
  <2>1. Bodies(body)
    BY DEF LoopInv
  <2>2. /\ Weights(Waited) /\ DOMAIN Waited = ShownWaits
        /\ \A w \in ShownWaits : /\ Cardinality(OwnRows(w)) \in Nat \ {0} /\ Waited[w] \in Nat
                                 /\ Waited[w] >= Cardinality(OwnRows(w))
    BY <2>1, WaitedIs
  <2>3. \A w \in ShownWaits : Waited[w] >= 1
    BY <2>2
  <2> QED BY <2>2, <2>3
<1>2. Loop!fetchWaits.width = v
  BY PageIs
<1>3. all \in Nat
  BY <1>1, TotalNat
<1>4. CASE ShownWaits = {}
  <2>1. Loop!Total(v) = 0
    BY <1>4, TotalNone
  <2> QED BY <1>2, <2>1
<1>5. CASE ShownWaits # {}
  <2>1. all >= 1
    <3>1. PICK w \in ShownWaits : TRUE
      BY <1>5
    <3>2. Waited[w] <= all
      BY <1>1, TotalMember
    <3> QED BY <1>1, <1>3, <3>2
  <2> HIDE DEF all
  <2>2. ASSUME NEW w \in ShownWaits PROVE v[w] \in Nat /\ v[w] * all <= Waited[w] * 100
    <3>1. Waited[w] * 100 \in Nat /\ all \in Nat \ {0}
      BY <1>1, <1>3, <2>1
    <3>2. (Waited[w] * 100) \div all \in Nat /\ ((Waited[w] * 100) \div all) * all <= Waited[w] * 100
      BY <3>1, Quotient
    <3> QED BY <3>2
  <2>3. Weights(v) /\ DOMAIN v = ShownWaits
    BY <1>1, <2>2 DEF Weights
  <2>4. Waited = [w \in DOMAIN Waited |-> Waited[w]] /\ v = [w \in DOMAIN v |-> v[w]]
    BY DEF Waited
  <2> HIDE DEF v
  <2>5. Loop!Total(v) * all <= Loop!Total(Waited) * 100
    BY <1>1, <1>3, <2>2, <2>3, <2>4, TotalScaled
  <2>6. Loop!Total(v) \in Nat /\ Loop!Total(Waited) = all
    BY <2>3, TotalNat DEF all
  <2>7. PICK x \in Nat : x = Loop!Total(v)
    BY <2>6
  <2>8. x * all <= all * 100
    BY <2>5, <2>6, <2>7
  <2>9. x <= 100
    <3>1. SUFFICES ASSUME x >= 101 PROVE FALSE
      OBVIOUS
    <3>2. x * all = (x - 101) * all + 101 * all /\ (x - 101) * all >= 0
      BY <1>3, <3>1, SMT
    <3> QED BY <1>3, <2>1, <2>8, <3>2
  <2> QED BY <1>2, <2>7, <2>9
<1> QED BY <1>4, <1>5

ObservedOf(w) == {x \in observed : WaitOf[x[2]] = w}

\* When every part was told, so was every wait.
LEMMA WaitTold ==
  ASSUME LoopInv, NEW u \in ShownWaits,
         \A start \in Loop!BucketStarts, k \in Keys : Loop!Told(Loop!RowsOf(start, k)) = Loop!Seen(start, k)
  PROVE  Waited[u] = SumSeen(ObservedOf(u))
<1> DEFINE R == OwnRows(u)
           O == ObservedOf(u)
           P == Loop!BucketStarts \X Keys
           w == [r \in R |-> r.bucket.sum]
           v == [o \in O |-> o[3]]
           in == [r \in R |-> <<r.bucket.start, r.bucket.key>>]
           at == [o \in O |-> <<Loop!BucketStart(o[1]), o[2]>>]
<1>1. Bodies(body) /\ SeenOk(observed)
  BY DEF LoopInv, Noted
<1>2. RowsOk(R) /\ Waited[u] = SumIn(R)
  BY <1>1, WaitedIs
<1>3. SeenOk(O)
  BY <1>1, FS_Subset DEF SeenOk, ObservedOf
<1>4. Weights(w) /\ Weights(v) /\ DOMAIN w = R /\ DOMAIN v = O
  BY <1>2, <1>3, RowWeights, SeenWeights
<1>5. IsFiniteSet(P)
  <2> DEFINE h == [t \in 0..MaxTime |-> Loop!BucketStart(t)]
  <2>1. h \in Surjection(0..MaxTime, Loop!BucketStarts)
    BY DEF Surjection, Loop!BucketStarts
  <2>2. IsFiniteSet(0..MaxTime)
    BY LoopBounds, FS_Interval
  <2>3. IsFiniteSet(Loop!BucketStarts)
    BY <2>1, <2>2, FS_Surjection
  <2> QED BY <2>3, LoopBounds, FS_Product
<1>6. in \in [R -> P]
  <2>1. \A r \in R : r.bucket.start \in Loop!BucketStarts /\ r.bucket.key \in Keys
    BY <1>1, RowsAre DEF OwnRows
  <2> QED BY <2>1
<1>7. at \in [O -> P]
  <2>1. \A o \in O : Loop!BucketStart(o[1]) \in Loop!BucketStarts /\ o[2] \in Keys
    BY <1>3 DEF SeenOk, Loop!BucketStarts
  <2> QED BY <2>1
<1>8. ASSUME NEW p \in P
      PROVE  Loop!Total(Only(w, Part(w, in, {p}))) = Loop!Total(Only(v, Part(v, at, {p})))
  <2>1. PICK start \in Loop!BucketStarts, k \in Keys : p = <<start, k>>
    OBVIOUS
  <2>2. CASE WaitOf[k] = u
    <3>1. Part(w, in, {p}) = Loop!RowsOf(start, k)
      BY <2>1, <2>2 DEF Part, OwnRows, Loop!RowsOf
    <3>2. Part(v, at, {p}) = SeenOf(observed, start, k)
      BY <2>1, <2>2 DEF Part, ObservedOf, SeenOf
    <3>3. Loop!RowsOf(start, k) \subseteq R /\ SeenOf(observed, start, k) \subseteq O
      BY <2>2 DEF OwnRows, ObservedOf, Loop!RowsOf, SeenOf
    <3>4. Only(w, Loop!RowsOf(start, k)) = [r \in Loop!RowsOf(start, k) |-> r.bucket.sum]
      BY <3>3 DEF Only
    <3>5. Only(v, SeenOf(observed, start, k)) = [o \in SeenOf(observed, start, k) |-> o[3]]
      BY <3>3 DEF Only
    <3>6. SumIn(Loop!RowsOf(start, k)) = SumSeen(SeenOf(observed, start, k))
      BY LoopNames
    <3> QED BY <3>1, <3>2, <3>4, <3>5, <3>6 DEF SumIn, SumSeen
  <2>3. CASE WaitOf[k] # u
    <3>1. Part(w, in, {p}) = {}
      BY <2>1, <2>3 DEF Part, OwnRows
    <3>2. Part(v, at, {p}) = {}
      BY <2>1, <2>3 DEF Part, ObservedOf
    <3>3. DOMAIN Only(w, {}) = {} /\ DOMAIN Only(v, {}) = {}
      BY DEF Only
    <3> QED BY <3>1, <3>2, <3>3, TotalNone
  <2> QED BY <2>2, <2>3
<1>9. w = [x \in DOMAIN w |-> w[x]] /\ v = [x \in DOMAIN v |-> v[x]]
  OBVIOUS
<1>10. Loop!Total(w) = SumIn(R) /\ Loop!Total(v) = SumSeen(O)
  BY DEF SumIn, SumSeen
<1>11. Loop!Total(w) \in Nat /\ Loop!Total(v) \in Nat
  BY <1>4, TotalNat
<1>12. \A p \in P : /\ Loop!Total(Only(w, Part(w, in, {p}))) \in Nat
                    /\ Loop!Total(Only(v, Part(v, at, {p}))) \in Nat
  <2>1. \A p : Part(w, in, {p}) \subseteq DOMAIN w /\ Part(v, at, {p}) \subseteq DOMAIN v
    BY DEF Part
  <2> HIDE DEF w, v, in, at
  <2> QED BY <1>4, <2>1, WeightsOnly, TotalNat
<1> HIDE DEF w, v, in, at, P, R, O
<1>13. \A p \in P : /\ Loop!Total(Only(w, Part(w, in, {p}))) <= Loop!Total(Only(v, Part(v, at, {p})))
                    /\ Loop!Total(Only(v, Part(v, at, {p}))) <= Loop!Total(Only(w, Part(w, in, {p})))
  <2>1. \A a, b \in Nat : a = b => a <= b /\ b <= a
    OBVIOUS
  <2> QED BY <1>8, <1>12, <2>1
<1>14. in \in [DOMAIN w -> P] /\ at \in [DOMAIN v -> P]
  BY <1>4, <1>6, <1>7
<1>15. Loop!Total(w) <= Loop!Total(v)
  BY <1>4, <1>5, <1>9, <1>13, <1>14, TotalParts
<1>16. Loop!Total(v) <= Loop!Total(w)
  BY <1>4, <1>5, <1>9, <1>13, <1>14, TotalParts
<1> QED BY <1>2, <1>10, <1>11, <1>15, <1>16 DEF O

LEMMA WaitsShown ==
  ASSUME LoopInv,
         \A start \in Loop!BucketStarts, k \in Keys : Loop!Told(Loop!RowsOf(start, k)) = Loop!Seen(start, k)
  PROVE  ShownWaits = {WaitOf[o[2]] : o \in observed}
<1>1. Bodies(body) /\ SeenOk(observed)
  BY DEF LoopInv, Noted
<1>2. ASSUME NEW start \in Loop!BucketStarts, NEW k \in Keys
      PROVE  Loop!RowsOf(start, k) = {} <=> SeenOf(observed, start, k) = {}
  <2> DEFINE T == Loop!RowsOf(start, k)
             P == SeenOf(observed, start, k)
  <2>1. SamplesIn(T) = Cardinality(P)
    BY LoopNames
  <2>2. IsFiniteSet(P)
    BY <1>1, FS_Subset DEF SeenOk, SeenOf
  <2>3. RowsOk(T) /\ \A r \in T : r.bucket.samples \in Nat \ {0}
    <3>1. T \subseteq Loop!Rows
      BY DEF Loop!RowsOf
    <3> QED BY <1>1, <3>1, RowsAre, RowsSub
  <2> HIDE DEF T, P
  <2>4. T = {} => P = {}
    BY <2>1, <2>2, RowsNone, FS_EmptySet
  <2>5. ASSUME NEW r \in T PROVE P # {}
    <3>1. SamplesIn(T) >= r.bucket.samples /\ r.bucket.samples \in Nat \ {0} /\ SamplesIn(T) \in Nat
      BY <2>3, RowsSome, RowWeights
    <3>2. SamplesIn(T) # 0
      BY <3>1
    <3> QED BY <2>1, <3>2, FS_EmptySet
  <2> QED BY <2>4, <2>5 DEF T, P
<1>3. ASSUME NEW o \in observed PROVE WaitOf[o[2]] \in ShownWaits
  <2>1. Loop!BucketStart(o[1]) \in Loop!BucketStarts /\ o[2] \in Keys
    BY <1>1 DEF SeenOk, Loop!BucketStarts
  <2>2. o \in SeenOf(observed, Loop!BucketStart(o[1]), o[2])
    BY DEF SeenOf
  <2>3. PICK r : r \in Loop!RowsOf(Loop!BucketStart(o[1]), o[2])
    BY <1>2, <2>1, <2>2
  <2> QED BY <2>3 DEF Loop!RowsOf, ShownWaits
<1>4. ASSUME NEW r \in Loop!Rows PROVE \E o \in observed : WaitOf[r.bucket.key] = WaitOf[o[2]]
  <2>1. r.bucket.start \in Loop!BucketStarts /\ r.bucket.key \in Keys
    BY <1>1, RowsAre
  <2>2. r \in Loop!RowsOf(r.bucket.start, r.bucket.key)
    BY DEF Loop!RowsOf
  <2>3. PICK o : o \in SeenOf(observed, r.bucket.start, r.bucket.key)
    BY <1>2, <2>1, <2>2
  <2> QED BY <2>3 DEF SeenOf
<1> QED BY <1>3, <1>4 DEF ShownWaits

LEMMA WaitsKept ==
  ASSUME LoopInv
  PROVE  Loop!WaitsTrue
<1>1. DOMAIN Loop!fetchWaits.avg = ShownWaits
  BY PageIs
<1>2. ASSUME NEW w \in DOMAIN Loop!fetchWaits.avg
      PROVE  \E start \in Loop!BucketStarts : Loop!fetchWaits.avg[w] \in
               1..Loop!Total([k \in {x \in Keys : WaitOf[x] = w} |-> Loop!Seen(start, k).sum])
  <2>1. w \in ShownWaits
    BY <1>1, <1>2
  <2>2. Loop!fetchWaits.avg[w] = Waited[w] \div Cardinality(OwnRows(w))
    BY <2>1, PageIs
  <2> QED BY <2>1, <2>2, AverageKept
<1>3. Loop!Total(Loop!fetchWaits.width) <= 100
  BY WidthsKept
<1>4. ASSUME \A start \in Loop!BucketStarts, k \in Keys : Loop!Told(Loop!RowsOf(start, k)) = Loop!Seen(start, k)
      PROVE  /\ DOMAIN Loop!fetchWaits.avg = {WaitOf[o[2]] : o \in observed}
             /\ \A w \in Loop!fetchWaits.top : \A u \in Loop!Waits : Loop!Observed(u) <= Loop!Observed(w)
  <2>1. ShownWaits = {WaitOf[o[2]] : o \in observed}
    BY <1>4, WaitsShown
  <2>2. ASSUME NEW w \in Loop!fetchWaits.top, NEW u \in Loop!Waits PROVE Loop!Observed(u) <= Loop!Observed(w)
    <3>1. w \in ShownWaits /\ \A y \in ShownWaits : Waited[y] <= Waited[w]
      BY PageIs
    <3>2. \A y : Loop!Observed(y) = SumSeen(ObservedOf(y))
      BY DEF Loop!Observed, SumSeen, ObservedOf
    <3>3. \A y \in ShownWaits : Waited[y] = Loop!Observed(y)
      BY <1>4, <3>2, WaitTold
    <3>4. CASE u \in ShownWaits
      BY <3>1, <3>3, <3>4
    <3>5. CASE u \notin ShownWaits
      <4>1. ObservedOf(u) = {}
        BY <2>1, <3>5 DEF ObservedOf
      <4>2. Loop!Observed(u) = 0
        BY <3>2, <4>1, TotalNone DEF SumSeen
      <4>3. Waited[w] \in Nat
        BY <3>1, WaitedIs DEF LoopInv
      <4> QED BY <3>1, <3>3, <4>2, <4>3
    <3> QED BY <3>4, <3>5
  <2> QED BY <1>1, <2>1, <2>2
<1> QED BY <1>2, <1>3, <1>4 DEF Loop!WaitsTrue

\* No sample of the sessions is counted twice: of no bucket do the rows hold more
\* samples or more backends than were observed, whatever Send did and whenever the
\* process was killed, and none is missing without a failure.  And the page of
\* waits says what was observed: its averages are above no bucket's own, its
\* shares add up to no more than all, and the wait on top is the greatest.
THEOREM SamplesOnce == Loop!Spec => []CountedOnce
<1>1. LoopInv => CountedOnce
  <2> SUFFICES ASSUME LoopInv PROVE CountedOnce
    OBVIOUS
  <2>1. ASSUME NEW part \in Loop!Parts
        PROVE  part.start \in Loop!BucketStarts /\ part.key \in Keys
    BY DEF Loop!Parts
  <2> QED BY <2>1, PartCounted, WaitsKept DEF CountedOnce, Loop!CountedOnce
<1> QED BY <1>1, InitLoopInv, StepLoopInv, PTL DEF Loop!Spec

\* The active connections that the fleet view shows are never below the most that
\* were active at once in the newest bucket, once every sample of it was stored:
\* in however many rows its flushes and restarts left it.
THEOREM PeakNeverMissed == Loop!Spec => []PeakNotMissed
<1>1. LoopInv => PeakNotMissed
  BY PeakKept DEF PeakNotMissed
<1> QED BY <1>1, InitLoopInv, StepLoopInv, PTL DEF Loop!Spec

=============================================================================
