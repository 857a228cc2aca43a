---------------------------- MODULE CompoundFile ----------------------------
(***************************************************************************)
(* The compound index file of CLucene (src/import/clucene/src/CLucene/    *)
(* index/CompoundFile.cpp): CompoundFileWriter gathers files with addFile *)
(* and merges them in close() into one stream                              *)
(*   VInt count, then per file  Long dataOffset, String name,              *)
(*   then the data of every file in the same order;                        *)
(* CompoundFileReader parses that directory and serves each file as a     *)
(* CSInputStream over the one shared base stream.                         *)
(*                                                                         *)
(* The streams are byte sequences.  writeVInt writes 7 bits per byte, low  *)
(* group first, with the high bit set on all bytes but the last;          *)
(* writeLong writes the high and the low int big-endian; writeString       *)
(* writes the VInt length and then the characters (one byte each for the   *)
(* ASCII names used here).  Offsets stay below 2^31, so the high int of   *)
(* every Long is 0.                                                        *)
(***************************************************************************)
EXTENDS Naturals, Sequences, SequencesExt, FiniteSets

CONSTANTS
  Names,     \* names the writer may be given (byte sequences)
  Content,   \* the files present in the directory: name -> bytes
  Readers,   \* threads reading sub-files of one CompoundFileReader
  MaxChunk,  \* largest len of one readInternal call
  NoHolder   \* base->THIS_LOCK is free

ASSUME DOMAIN Content \subseteq Names /\ MaxChunk \in Nat \ {0}

VARIABLES
  added,    \* CompoundFileWriter.entries, in addFile order
  merged,   \* CompoundFileWriter.merged
  cfs,      \* the compound file on disk; <<>> until close() creates it
  written,  \* how close() ended: "none", "partial" or "complete"
  rd,       \* the CompoundFileReader: "none", "open" or "closed"
  table,    \* CompoundFileReader.entries: name -> [offset, length]
  sub,      \* [Readers -> the CSInputStream a thread has open, or NoSub]
  lock,     \* holder of base->THIS_LOCK
  basePos,  \* the file pointer of the base stream
  pend,     \* [Readers -> len of the readInternal in progress, or 0]
  got       \* history: [Readers -> the bytes a thread has read]

vars == <<added, merged, cfs, written, rd, table, sub, lock, basePos, pend, got>>

NoSub == [name |-> <<>>, offset |-> 0, length |-> 0, pos |-> 0]

(***************************************************************************)
(* The encodings of IndexOutput and their inverses in IndexInput.         *)
(***************************************************************************)
RECURSIVE VIntBytes(_)
VIntBytes(n) ==
  IF n < 128 THEN <<n>> ELSE <<(n % 128) + 128>> \o VIntBytes(n \div 128)

IntBytes(v) == <<(v \div 16777216) % 256, (v \div 65536) % 256,
                 (v \div 256) % 256, v % 256>>
LongBytes(v) == IntBytes(0) \o IntBytes(v)
StringBytes(s) == VIntBytes(Len(s)) \o s

\* readVInt at position p: the value and the position after it.
RECURSIVE ReadVInt(_, _)
ReadVInt(s, p) ==
  IF s[p] < 128 THEN <<s[p], p + 1>>
  ELSE LET r == ReadVInt(s, p + 1) IN <<(s[p] - 128) + 128 * r[1], r[2]>>

IntOf(b) == ((b[1] * 256 + b[2]) * 256 + b[3]) * 256 + b[4]
\* readLong: the high int is 0 below 2^31.
ReadLong(s, p) == IntOf(SubSeq(s, p + 4, p + 7))

Plus(x, y) == x + y
SumSeq(s) == FoldLeft(Plus, 0, s)

(***************************************************************************)
(* CompoundFileWriter.                                                     *)
(***************************************************************************)
\* addFile: refused after the merge and for a name already added.
AddFile(f) ==
  /\ ~merged /\ f \notin Range(added)
  /\ added' = Append(added, f)
  /\ UNCHANGED <<merged, cfs, written, rd, table, sub, lock, basePos, pend, got>>

\* The directory as first written: every offset is the placeholder 0.
Directory(es) ==
  VIntBytes(Len(es)) \o
  FlattenSeq([i \in 1..Len(es) |-> LongBytes(0) \o StringBytes(es[i])])

\* fe->directoryOffset: the file pointer before entry i's Long.
DirectoryOffset(es, i) ==
  Len(VIntBytes(Len(es))) +
  SumSeq([j \in 1..(i - 1) |-> 8 + Len(StringBytes(es[j]))])

\* Fault variant: the offset is taken after the copy of entry i.
DataOffsetAfterCopy(es, i) ==
  Len(Directory(es)) + SumSeq([j \in 1..i |-> Len(Content[es[j]])])

\* fe->dataOffset: the file pointer when copyFile starts on entry i.
DataOffset(es, i) ==
  Len(Directory(es)) + SumSeq([j \in 1..(i - 1) |-> Len(Content[es[j]])])

Copied(es, k) == FlattenSeq([i \in 1..k |-> Content[es[i]]])

\* The last loop of close(): seek to each directoryOffset and writeLong.
RECURSIVE PatchOffsets(_, _, _)
PatchOffsets(os, es, i) ==
  IF i = 0 THEN os
  ELSE PatchOffsets(ReplaceSubSeqAt(DirectoryOffset(es, i) + 1,
                                    LongBytes(DataOffset(es, i)),
                                    LongBytes(0), os), es, i - 1)

\* close(): refused after a merge or with no entries; else merged is set,
\* the directory written and every file copied.  copyFile throws when a
\* source file cannot be opened: the finally clause closes the stream as
\* it is, with the data copied so far and every offset still 0.
Close ==
  LET es == added
      missing == {i \in 1..Len(es) : es[i] \notin DOMAIN Content}
  IN /\ ~merged /\ es # <<>>
     /\ merged' = TRUE
     /\ IF missing = {}
        THEN /\ cfs' = PatchOffsets(Directory(es) \o Copied(es, Len(es)),
                                    es, Len(es))
             /\ written' = "complete"
        ELSE LET k == CHOOSE i \in missing : \A j \in missing : i <= j IN
             /\ cfs' = Directory(es) \o Copied(es, k - 1)
             /\ written' = "partial"
     /\ UNCHANGED <<added, rd, table, sub, lock, basePos, pend, got>>

(***************************************************************************)
(* CompoundFileReader.                                                     *)
(***************************************************************************)
\* The constructor's loop: count entries of (readLong, readString).
RECURSIVE ReadEntries(_, _, _)
ReadEntries(s, p, k) ==
  IF k = 0 THEN <<>>
  ELSE LET l == ReadVInt(s, p + 8)
       IN <<[offset |-> ReadLong(s, p),
             name |-> SubSeq(s, l[2], l[2] + l[1] - 1)]>>
          \o ReadEntries(s, l[2] + l[1], k - 1)

\* Each entry's length is the next entry's offset minus its own; the last
\* one's runs to the end of the stream.  entries.put keeps the last entry
\* of a name.
Table(s) ==
  LET c == ReadVInt(s, 1)
      d == ReadEntries(s, c[2], c[1])
      len(i) == IF i < Len(d) THEN d[i + 1].offset - d[i].offset
                ELSE Len(s) - d[i].offset
      last(f) == CHOOSE i \in 1..Len(d) :
                   d[i].name = f /\ \A j \in 1..Len(d) : d[j].name = f => j <= i
  IN [f \in {d[i].name : i \in 1..Len(d)} |->
        [offset |-> d[last(f)].offset, length |-> len(last(f))]]

ReaderOpen ==
  /\ rd = "none" /\ written # "none"
  /\ rd' = "open" /\ table' = Table(cfs)
  /\ UNCHANGED <<added, merged, cfs, written, sub, lock, basePos, pend, got>>

\* openInput: throws when the stream is closed or the id is not found.
OpenInput(r, f) ==
  /\ rd = "open" /\ f \in DOMAIN table /\ sub[r] = NoSub
  /\ sub' = [sub EXCEPT ![r] = [name |-> f, offset |-> table[f].offset,
                                length |-> table[f].length, pos |-> 0]]
  /\ got' = [got EXCEPT ![r] = <<>>]
  /\ UNCHANGED <<added, merged, cfs, written, rd, table, lock, basePos, pend>>

\* Fault variant: readInternal without the SCOPED_LOCK_MUTEX.
ReadSeekUnlocked(r, n) ==
  /\ sub[r] # NoSub /\ pend[r] = 0
  /\ sub[r].pos + n <= sub[r].length
  /\ basePos' = sub[r].offset + sub[r].pos
  /\ pend' = [pend EXCEPT ![r] = n]
  /\ UNCHANGED <<added, merged, cfs, written, rd, table, sub, got, lock>>

\* Fault variant: only the start of the read is checked against _length.
ReadSeekStartOnly(r, n) ==
  /\ sub[r] # NoSub /\ pend[r] = 0 /\ lock = NoHolder
  /\ sub[r].pos < sub[r].length
  /\ lock' = r
  /\ basePos' = sub[r].offset + sub[r].pos
  /\ pend' = [pend EXCEPT ![r] = n]
  /\ UNCHANGED <<added, merged, cfs, written, rd, table, sub, got>>

\* readInternal(b, offset, len), first half: take base->THIS_LOCK, throw
\* "read past EOF" when start + len > _length, else seek the base stream.
ReadSeek(r, n) ==
  /\ sub[r] # NoSub /\ pend[r] = 0 /\ lock = NoHolder
  /\ sub[r].pos + n <= sub[r].length
  /\ lock' = r
  /\ basePos' = sub[r].offset + sub[r].pos
  /\ pend' = [pend EXCEPT ![r] = n]
  /\ UNCHANGED <<added, merged, cfs, written, rd, table, sub, got>>

\* Second half: base->readBytes, then the scoped lock is released.
ReadBytes(r) ==
  LET n == pend[r] IN
  /\ n > 0
  /\ got' = [got EXCEPT ![r] = @ \o SubSeq(cfs, basePos + 1, basePos + n)]
  /\ basePos' = basePos + n
  /\ sub' = [sub EXCEPT ![r].pos = @ + n]
  /\ pend' = [pend EXCEPT ![r] = 0]
  /\ lock' = IF lock = r THEN NoHolder ELSE lock
  /\ UNCHANGED <<added, merged, cfs, written, rd, table>>

CloseInput(r) ==
  /\ sub[r] # NoSub /\ pend[r] = 0
  /\ sub' = [sub EXCEPT ![r] = NoSub]
  /\ UNCHANGED <<added, merged, cfs, written, rd, table, lock, basePos, pend, got>>

\* close(): clears the entries and closes the stream.  Callers close their
\* sub-file streams first, which hold the base stream's pointer.
ReaderClose ==
  /\ rd = "open" /\ \A r \in Readers : sub[r] = NoSub
  /\ rd' = "closed" /\ table' = <<>>
  /\ UNCHANGED <<added, merged, cfs, written, sub, lock, basePos, pend, got>>

(***************************************************************************)
(* The specification.                                                      *)
(***************************************************************************)
Init ==
  /\ added = <<>> /\ merged = FALSE /\ cfs = <<>> /\ written = "none"
  /\ rd = "none" /\ table = <<>>
  /\ sub = [r \in Readers |-> NoSub] /\ lock = NoHolder /\ basePos = 0
  /\ pend = [r \in Readers |-> 0] /\ got = [r \in Readers |-> <<>>]

Next ==
  \/ \E f \in Names : AddFile(f)
  \/ Close \/ ReaderOpen \/ ReaderClose
  \/ \E r \in Readers :
       \/ \E f \in Names : OpenInput(r, f)
       \/ \E n \in 1..MaxChunk : ReadSeek(r, n)
       \/ ReadBytes(r) \/ CloseInput(r)

Spec == Init /\ [][Next]_vars

(***************************************************************************)
(* Properties.                                                             *)
(***************************************************************************)
\* The writer and reader state have their types, and a readInternal in
\* progress lies inside its sub-file (the read-past-EOF check of
\* CSInputStream::readInternal).
TypeOK ==
  /\ added \in Seq(Names) /\ merged \in BOOLEAN
  /\ written \in {"none", "partial", "complete"}
  /\ rd \in {"none", "open", "closed"}
  /\ lock \in Readers \cup {NoHolder}
  /\ \A r \in Readers :
       /\ pend[r] \in 0..MaxChunk
       /\ sub[r].pos + pend[r] <= sub[r].length

\* After a complete close(), the reader's directory lists exactly the files
\* added, each with its own length: the offsets close() patched in and the
\* lengths the constructor derives from consecutive offsets agree with the
\* data copyFile wrote, also for a file of length 0.
DirectoryMatchesSources ==
  (rd = "open" /\ written = "complete") =>
    /\ DOMAIN table = Range(added)
    /\ \A f \in DOMAIN table : table[f].length = Len(Content[f])

\* Every byte a thread reads through its CSInputStream is the byte of the
\* source file at that position, although all threads seek and read the
\* one base stream: readInternal seeks and reads under base->THIS_LOCK.
SubFileRoundTrip ==
  written = "complete" =>
    \A r \in Readers :
      sub[r] # NoSub => got[r] = SubSeq(Content[sub[r].name], 1, sub[r].pos)
=============================================================================
