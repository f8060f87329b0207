----------------------------- MODULE SegmentedLog -----------------------------
(***************************************************************************)
(* A partition's log as segment files with sparse indexes:                 *)
(* internal/log/log.go, log_raw.go, segment.go, index.go, truncate.go.     *)
(* A writer holds writeMu while it appends, rolls or truncates; readers    *)
(* take no lock.  A batch holds one record and is the unit of size, and a  *)
(* record is a number that is never written twice.                         *)
(*                                                                         *)
(* Segments are written in place, so a stopped process loses no batch that *)
(* was written completely, and Segment.recover drops one that was not.     *)
(***************************************************************************)
EXTENDS Integers, Sequences, FiniteSetsExt, Functions

CONSTANTS
    MaxRecords,         \* bound: records ever written
    MaxGroup,           \* bound: batches in one AppendRaw
    MaxSegmentBytes,    \* batches in a segment before it rolls
    MaxIndexBytes,      \* entries an index has room for
    IndexIntervalBytes, \* batches between two index entries
    TruncationFaults    \* TRUE: the broker may stop in the middle of a
                        \* truncation, and a file may refuse to be removed

\* applyDefaults leaves no limit at 0.
ASSUME SegmentedLogAssumption ==
    /\ MaxRecords \in Nat /\ MaxGroup \in Nat
    /\ MaxSegmentBytes \in Nat \ {0}
    /\ MaxIndexBytes \in Nat \ {0}
    /\ IndexIntervalBytes \in Nat \ {0}
    /\ TruncationFaults \in BOOLEAN

VARIABLES
    files,      \* files[base]: the batches of the segment file at base
    index,      \* index[base]: positions of the index entries
    since,      \* since[base]: bytesSinceIndex
    sealed,     \* Log.sealedPairs, as base offsets
    active,     \* Log.activePair, as base offset
    writer,     \* what the holder of writeMu still has to do
    written,    \* the number of records written so far
    faulted,    \* a truncation was interrupted, or left a file behind
    reader,     \* a Read or ReadRawRanges
    oldest      \* an OldestOffset

memory == <<index, since, sealed, active>>
vars == <<files, memory, writer, written, faulted, reader, oldest>>

Idle == [op |-> "none"]
NoRead == [pc |-> "idle"]
NotFound == 0
Unmapped == -1

NextOffsetOf(base) == base + Len(files[base])
NextOffset == NextOffsetOf(active)

Init ==
    /\ files = [b \in {0} |-> <<>>]
    /\ index = [b \in {0} |-> <<>>] /\ since = [b \in {0} |-> 0]
    /\ sealed = <<>> /\ active = 0
    /\ writer = Idle /\ written = 0 /\ faulted = FALSE
    /\ reader = NoRead /\ oldest = NoRead

Bind(f, k, v) == [x \in DOMAIN f \cup {k} |-> IF x = k THEN v ELSE f[x]]

-----------------------------------------------------------------------------
(* Index *)

\* rebuildIndexFromSegment visits batch by batch: position 0 and every
\* IndexIntervalBytes-th after it.
RebuiltIndex(n) ==
    IF n = 0 THEN <<>>
    ELSE [k \in 1 .. (n - 1) \div IndexIntervalBytes + 1 |-> (k - 1) * IndexIntervalBytes]

RebuiltSince(n) == IF n = 0 THEN 0 ELSE (n - 1) % IndexIntervalBytes

\* Index.Write refuses an entry that does not fit.
RebuildFails(n) == Len(RebuiltIndex(n)) > MaxIndexBytes

\* Index.Lookup: the largest entry not beyond the offset, 0 without one.
Lookup(base, offset) == Max({p \in Range(index[base]) : p <= offset - base} \cup {0})

IndexIsFull(base) == Len(index[base]) >= MaxIndexBytes

-----------------------------------------------------------------------------
(* Append, AppendRaw and AppendReplicaRaw of n batches.  IsFull is asked   *)
(* before the append; a group that does not fit in the rest of a segment   *)
(* makes it roll too, and one that does not fit in an empty segment is     *)
(* written there all the same.                                             *)

Fits(n) == files[active] = <<>> \/ Len(files[active]) + n <= MaxSegmentBytes

SegmentIsFull(n) ==
    Len(files[active]) >= MaxSegmentBytes \/ IndexIsFull(active) \/ ~Fits(n)

NewBatches(n) == [i \in 1 .. n |-> written + i]

AppendTo(base, n) ==
    LET pos == Len(files[base])
        indexed == /\ pos = 0 \/ since[base] + n >= IndexIntervalBytes
                   /\ ~IndexIsFull(base)
    IN  /\ files' = [files EXCEPT ![base] = @ \o NewBatches(n)]
        /\ index' = [index EXCEPT ![base] = IF indexed THEN Append(@, pos) ELSE @]
        /\ since' = [since EXCEPT ![base] = IF indexed THEN 0 ELSE @ + n]
        /\ written' = written + n

AppendRaw(n) ==
    /\ writer = Idle
    /\ written + n <= MaxRecords
    /\ ~SegmentIsFull(n)
    /\ AppendTo(active, n)
    /\ UNCHANGED <<sealed, active, writer, faulted, reader, oldest>>

\* Mutants: the active pair is stored before the sealed ones; the new list of
\* sealed pairs has the old active pair only.
RollActiveFirst(n) ==
    LET base == NextOffset
        found == IF base \in DOMAIN files THEN files[base] ELSE <<>>
    IN
    /\ writer = Idle
    /\ written + n <= MaxRecords
    /\ SegmentIsFull(n)
    /\ ~RebuildFails(Len(found))
    /\ files' = Bind(files, base, found)
    /\ index' = Bind(index, base, RebuiltIndex(Len(found)))
    /\ since' = Bind(since, base, RebuiltSince(Len(found)))
    /\ active' = base
    /\ writer' = [op |-> "roll: sealed", old |-> active, base |-> base, n |-> n]
    /\ UNCHANGED <<sealed, written, faulted, reader, oldest>>

RollForgetsSealed ==
    /\ writer.op = "roll: sealed"
    /\ sealed' = <<writer.old>>
    /\ writer' = [writer EXCEPT !.op = "roll: active"]
    /\ UNCHANGED <<files, index, since, active, written, faulted, reader, oldest>>

\* roll: newSegmentPair opens the file at the next offset and recovers what
\* it finds there.  Then sealedPairs and activePair are stored, in this order.
Roll(n) ==
    LET base == NextOffset
        found == IF base \in DOMAIN files THEN files[base] ELSE <<>>
    IN
    /\ writer = Idle
    /\ written + n <= MaxRecords
    /\ SegmentIsFull(n)
    /\ ~RebuildFails(Len(found))
    /\ files' = Bind(files, base, found)
    /\ index' = Bind(index, base, RebuiltIndex(Len(found)))
    /\ since' = Bind(since, base, RebuiltSince(Len(found)))
    /\ writer' = [op |-> "roll: sealed", old |-> active, base |-> base, n |-> n]
    /\ UNCHANGED <<sealed, active, written, faulted, reader, oldest>>

RollSealed ==
    /\ writer.op = "roll: sealed"
    /\ sealed' = Append(sealed, writer.old)
    /\ writer' = [writer EXCEPT !.op = "roll: active"]
    /\ UNCHANGED <<files, index, since, active, written, faulted, reader, oldest>>

RollActive ==
    /\ writer.op = "roll: active"
    /\ active' = writer.base
    /\ writer' = [writer EXCEPT !.op = "append"]
    /\ UNCHANGED <<files, index, since, sealed, written, faulted, reader, oldest>>

\* Only a file that was there before leaves no room in the new segment.
AppendRolled ==
    /\ writer.op = "append"
    /\ IF Fits(writer.n) THEN AppendTo(active, writer.n)
                         ELSE UNCHANGED <<files, index, since, written>>
    /\ writer' = Idle
    /\ UNCHANGED <<sealed, active, faulted, reader, oldest>>

-----------------------------------------------------------------------------
(* TruncateTo *)

\* findSegment: the active segment, or the last sealed one not beyond offset.
\* -1 when there is none.
FindSegment(sealedBases, activeBase, offset) ==
    IF offset >= activeBase THEN activeBase
    ELSE Max({b \in Range(sealedBases) : b <= offset} \cup {-1})

\* findTruncationPosition: the offset of a batch, or the end of the segment.
FindTruncationPosition(base, offset) == (0 .. Len(files[base])) \cap {offset - base}

\* truncateSegmentPair rebuilds the index of the n batches that stay, as far
\* as it has room.
TruncatedIndex(n) == SubSeq(RebuiltIndex(n), 1, Min({MaxIndexBytes, Len(RebuiltIndex(n))}))

\* A read that is under way when records are cut may find anything.
Disturb(r) == IF r.pc = "idle" THEN r ELSE [r EXCEPT !.valid = FALSE]

\* Mutant: the target's index is left as it was.
TruncateKeepsIndex(offset) ==
    LET target == FindSegment(sealed, active, offset) IN
    /\ writer = Idle
    /\ offset < NextOffset
    /\ offset - target <= Len(files[target])
    /\ files' = [files EXCEPT ![target] = SubSeq(@, 1, offset - target)]
    /\ writer' = IF target = active THEN Idle
                 ELSE [op |-> "truncate: sealed", target |-> target,
                       remove |-> {b \in Range(sealed) \cup {active} : b > target}]
    /\ reader' = Disturb(reader) /\ oldest' = Disturb(oldest)
    /\ UNCHANGED <<index, since, sealed, active, written, faulted>>

\* The target's file is cut and its index rebuilt.  When the target is sealed
\* the segments after it are dropped, first from memory; they stay when the
\* index has no room for the entries.
TruncateTo(offset) ==
    LET target == FindSegment(sealed, active, offset)
        rest == {b \in Range(sealed) \cup {active} : b > target}
    IN
    /\ writer = Idle
    /\ offset < NextOffset
    /\ \E n \in FindTruncationPosition(target, offset) :
          /\ files' = [files EXCEPT ![target] = SubSeq(@, 1, n)]
          /\ index' = [index EXCEPT ![target] = TruncatedIndex(n)]
          /\ since' = [since EXCEPT ![target] = IF RebuildFails(n) THEN @ ELSE RebuiltSince(n)]
          /\ writer' = IF target = active \/ RebuildFails(n) THEN Idle
                       ELSE [op |-> "truncate: sealed", target |-> target, remove |-> rest]
          /\ faulted' = (faulted \/ (target # active /\ RebuildFails(n)))
    /\ reader' = Disturb(reader)
    /\ oldest' = Disturb(oldest)
    /\ UNCHANGED <<sealed, active, written>>

\* targetIndex: where the target is in the list of sealed pairs.
TargetIndex(target) == CHOOSE i \in DOMAIN sealed : sealed[i] = target

\* Mutant: the target stays in the list of sealed pairs.
TruncateSealsTarget ==
    /\ writer.op = "truncate: sealed"
    /\ sealed' = SubSeq(sealed, 1, TargetIndex(writer.target))
    /\ writer' = [writer EXCEPT !.op = "truncate: active"]
    /\ UNCHANGED <<files, index, since, active, written, faulted, reader, oldest>>

TruncateSealed ==
    /\ writer.op = "truncate: sealed"
    /\ sealed' = SubSeq(sealed, 1, TargetIndex(writer.target) - 1)
    /\ writer' = [writer EXCEPT !.op = "truncate: active"]
    /\ UNCHANGED <<files, index, since, active, written, faulted, reader, oldest>>

TruncateActive ==
    /\ writer.op = "truncate: active"
    /\ active' = writer.target
    /\ writer' = [writer EXCEPT !.op = "remove"]
    /\ UNCHANGED <<files, index, since, sealed, written, faulted, reader, oldest>>

\* The pairs a read has loaded pointers to.
Held == CASE reader.pc = "active" -> {reader.active}
          [] reader.pc = "sealed" -> {reader.active} \cup Range(reader.sealed)
          [] OTHER -> {}

\* closeAndRemovePair, oldest first.  An error is remembered and returned,
\* and the next pair is removed all the same.
RemovePair ==
    LET base == Min(writer.remove)
        Without(f) == [b \in DOMAIN f \ {base} |-> f[b]]
    IN
    /\ writer.op = "remove"
    /\ \/ files' = Without(files) /\ UNCHANGED faulted
       \/ TruncationFaults /\ faulted' = TRUE /\ UNCHANGED files
    /\ index' = Without(index) /\ since' = Without(since)
    /\ writer' = IF writer.remove = {base} THEN Idle ELSE [writer EXCEPT !.remove = @ \ {base}]
    /\ reader' = IF base \in Held THEN [reader EXCEPT !.closed = @ \cup {base}] ELSE reader
    /\ UNCHANGED <<sealed, active, written, oldest>>

-----------------------------------------------------------------------------
(* The broker stops, and NewLog opens every segment file it finds.         *)

\* discoverSegments: the base offsets in ascending order.
Ascending(bases) ==
    UNION {{s \in [1 .. n -> bases] :
              Range(s) = bases /\ \A i, j \in DOMAIN s : i < j => s[i] < s[j]} :
           n \in (1 .. MaxRecords + 1) \cap {Cardinality(bases)}}

Reopen ==
    /\ \A b \in DOMAIN files' : ~RebuildFails(Len(files'[b]))
    /\ \E bases \in Ascending(DOMAIN files') :
          /\ sealed' = SubSeq(bases, 1, Len(bases) - 1)
          /\ active' = bases[Len(bases)]
    /\ index' = [b \in DOMAIN files' |-> RebuiltIndex(Len(files'[b]))]
    /\ since' = [b \in DOMAIN files' |-> RebuiltSince(Len(files'[b]))]
    /\ writer' = Idle
    /\ reader' = NoRead /\ oldest' = NoRead

Truncating == writer.op \in {"truncate: sealed", "truncate: active", "remove"}

CrashAndReopen ==
    /\ Truncating => TruncationFaults
    /\ faulted' = (faulted \/ Truncating)
    /\ UNCHANGED <<files, written>>
    /\ Reopen

\* The process stops while it writes a group: its first k batches are complete.
CrashInAppend(n, k) ==
    /\ \/ writer = Idle /\ ~SegmentIsFull(n)
       \/ writer.op = "append" /\ n = writer.n /\ Fits(n)
    /\ written + n <= MaxRecords
    /\ files' = [files EXCEPT ![active] = @ \o NewBatches(k)]
    /\ written' = written + n
    /\ UNCHANGED faulted
    /\ Reopen

-----------------------------------------------------------------------------
(* Read and ReadRawRanges: activePair is loaded before sealedPairs.  One    *)
(* reader at a time: they do not see each other.                           *)

ReadActive(offset) ==
    /\ reader = NoRead /\ oldest = NoRead
    /\ reader' = [pc |-> "active", offset |-> offset, active |-> active,
                  sealed |-> <<>>, closed |-> {}, result |-> NotFound, valid |-> ~Truncating]
    /\ UNCHANGED <<files, memory, writer, written, faulted, oldest>>

ReadSealed ==
    /\ reader.pc = "active"
    /\ reader' = [reader EXCEPT !.pc = "sealed", !.sealed = sealed]
    /\ UNCHANGED <<files, memory, writer, written, faulted, oldest>>

\* The scan starts at the index entry and goes on to the end of the segment.
\* Index.Lookup reads a mapping that Index.Close has taken away from a pair
\* that was removed after its pointer was loaded.
ReadRecord ==
    LET base == FindSegment(reader.sealed, reader.active, reader.offset)
        rel == reader.offset - base
        found == Lookup(base, reader.offset) <= rel /\ rel < Len(files[base])
    IN
    /\ reader.pc = "sealed"
    /\ reader' = [reader EXCEPT !.pc = "done",
                     !.result = CASE base = -1 -> NotFound
                                  [] base \in reader.closed -> Unmapped
                                  [] OTHER -> IF found THEN files[base][rel + 1] ELSE NotFound]
    /\ UNCHANGED <<files, memory, writer, written, faulted, oldest>>

ReadDone ==
    /\ reader.pc = "done"
    /\ reader' = NoRead
    /\ UNCHANGED <<files, memory, writer, written, faulted, oldest>>

\* OldestOffset: sealedPairs is loaded before activePair.
OldestSealed ==
    /\ reader = NoRead /\ oldest = NoRead
    /\ oldest' = [pc |-> "sealed", sealed |-> sealed, result |-> -1, valid |-> ~Truncating]
    /\ UNCHANGED <<files, memory, writer, written, faulted, reader>>

OldestActive ==
    /\ oldest.pc = "sealed"
    /\ oldest' = [oldest EXCEPT !.pc = "done",
                                !.result = IF oldest.sealed # <<>> THEN oldest.sealed[1] ELSE active]
    /\ UNCHANGED <<files, memory, writer, written, faulted, reader>>

OldestDone ==
    /\ oldest.pc = "done"
    /\ oldest' = NoRead
    /\ UNCHANGED <<files, memory, writer, written, faulted, reader>>

Next ==
    \/ \E n \in 1 .. MaxGroup : AppendRaw(n) \/ Roll(n)
    \/ RollSealed \/ RollActive \/ AppendRolled
    \/ \E offset \in 0 .. NextOffset : TruncateTo(offset)
    \/ TruncateSealed \/ TruncateActive \/ RemovePair
    \/ CrashAndReopen
    \/ \E n \in 1 .. MaxGroup : \E k \in 0 .. n - 1 : CrashInAppend(n, k)
    \/ \E offset \in 0 .. NextOffset - 1 : ReadActive(offset)
    \/ ReadSealed \/ ReadRecord \/ ReadDone
    \/ OldestSealed \/ OldestActive \/ OldestDone

Spec == Init /\ [][Next]_vars

-----------------------------------------------------------------------------
(* Properties *)

\* The segments of the log, oldest first.  While a truncation is under way
\* the log already ends with its target; while it rolls, the active segment
\* is for a moment also the last sealed one.
Segments ==
    CASE writer.op = "truncate: sealed" -> SubSeq(sealed, 1, TargetIndex(writer.target))
      [] writer.op \in {"truncate: active", "remove"} -> Append(sealed, writer.target)
      [] writer.op = "roll: active" -> sealed
      [] OTHER -> Append(sealed, active)

\* The batches of the files in parts, one file after the other.
Joined(parts) ==
    LET upTo[i \in 1 .. Len(parts)] == IF i = 1 THEN parts[i] ELSE upTo[i - 1] \o parts[i]
    IN  upTo[Len(parts)]

Contents == Joined([i \in DOMAIN Segments |-> files[Segments[i]]])

TypeOK ==
    /\ \A b \in DOMAIN files : files[b] \in Seq(1 .. MaxRecords)
    /\ DOMAIN index = DOMAIN since /\ DOMAIN index \subseteq DOMAIN files
    /\ Range(sealed) \cup {active} \subseteq DOMAIN index
    /\ written \in 0 .. MaxRecords
    /\ faulted \in BOOLEAN

\* Every segment begins where the one before it ends: no offset is missing and
\* none is there twice (newSegmentPair, TruncateTo and NewLog).
NoHoles ==
    \A i \in 1 .. Len(Segments) - 1 : NextOffsetOf(Segments[i]) = Segments[i + 1]

\* There are no holes whatever was rolled, cut, removed and reopened, until a
\* truncation leaves files behind (SegmentedLogFaults.cfg shows one then).
Contiguous == ~faulted => NoHoles

\* Appending and truncating the segments is appending to and truncating one
\* sequence of records, and reopening the log changes nothing, until a truncation
\* leaves files behind; from there on the log counts as cut to nothing.
AbstractLog ==
    INSTANCE OffsetLog WITH Records <- 1 .. MaxRecords,
                            contents <- IF faulted THEN <<>> ELSE Contents
RefinesOffsetLog == AbstractLog!Spec

\* A lock-free read finds the record at its offset while the log grows and
\* rolls under it, unless a truncation left files behind.
ReadsFindRecords ==
    reader.pc = "done" /\ reader.valid /\ ~faulted =>
        /\ reader.offset < Len(Contents)
        /\ reader.result = Contents[reader.offset + 1]

\* A lock-free read never touches a pair that a truncation has closed.
ReadsUseOpenPairs == reader.pc = "done" => reader.result # Unmapped

\* The entries of an index strictly increase and lie inside the segment, as the
\* binary search of Index.Lookup takes for granted, also of a segment that was
\* cut, left behind by a truncation and found again.
IndexSearchable ==
    \A b \in DOMAIN index : \A i \in DOMAIN index[b] :
        /\ index[b][i] < Len(files[b])
        /\ i > 1 => index[b][i - 1] < index[b][i]

\* The log can be opened again whenever the broker stops.
Reopenable == \A b \in DOMAIN files : ~RebuildFails(Len(files[b]))

\* OldestOffset tells the offset of the oldest record while the log rolls.
OldestOffsetIsOldest ==
    oldest.pc = "done" /\ oldest.valid => oldest.result = Segments[1]
================================================================================
