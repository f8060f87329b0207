--------------------------- MODULE LeaderEpochCache ---------------------------
(***************************************************************************)
(* The leader epoch cache: internal/log/epoch_cache.go.  A cache is a      *)
(* sequence of entries [Epoch, StartOffset]: from StartOffset on, until    *)
(* the next entry's, records were written under Epoch.                     *)
(***************************************************************************)
EXTENDS Integers, Sequences

Entry(epoch, start) == [Epoch |-> epoch, StartOffset |-> start]

\* The length of the longest prefix of c that passes Keep: where the loops
\* of Assign, TruncateFromEnd and TruncateAfter stop.
PrefixLength(c, Keep(_)) ==
    CHOOSE n \in 0 .. Len(c) :
        /\ \A i \in 1 .. n : Keep(c[i])
        /\ n < Len(c) => ~Keep(c[n + 1])

\* Assign keeps the entries older in both coordinates and adds the new one.
Assign(c, epoch, start) ==
    LET Older(e) == e.Epoch < epoch /\ e.StartOffset < start
    IN  IF c # <<>> /\ epoch = c[Len(c)].Epoch /\ start >= c[Len(c)].StartOffset
        THEN c
        ELSE Append(SubSeq(c, 1, PrefixLength(c, Older)), Entry(epoch, start))

TruncateFromEnd(c, offset) ==
    LET Before(e) == e.StartOffset < offset IN SubSeq(c, 1, PrefixLength(c, Before))

TruncateAfter(c, offset) ==
    LET UpTo(e) == e.StartOffset <= offset IN SubSeq(c, 1, PrefixLength(c, UpTo))

\* Assign, entry by entry, in order (assignLeaderEpochs, replayEpochEntries).
AssignAll(c, entries) ==
    LET after[i \in 0 .. Len(entries)] ==
            IF i = 0 THEN c
            ELSE Assign(after[i - 1], entries[i].Epoch, entries[i].StartOffset)
    IN  after[Len(entries)]

\* Mutant: a response is taken to be of one epoch.
FirstTransition(es, base) == IF es = <<>> THEN <<>> ELSE <<Entry(es[1], base)>>

\* The epochs to assign for batches of these epochs, the first at offset base:
\* the first batch's, and every one that differs from its predecessor's.
Transitions(es, base) ==
    LET upTo[i \in 0 .. Len(es)] ==
            IF i = 0 THEN <<>>
            ELSE IF i = 1 \/ es[i] # es[i - 1] THEN Append(upTo[i - 1], Entry(es[i], base + i - 1))
            ELSE upTo[i - 1]
    IN  upTo[Len(es)]

LatestLeaderEpoch(c) == c[Len(c)].Epoch

\* The epoch of the last entry that starts at or before an offset, -1 when
\* there is none.
EpochForOffset(c, offset) ==
    LET UpTo(e) == e.StartOffset <= offset
        n == PrefixLength(c, UpTo)
    IN  IF n = 0 THEN -1 ELSE c[n].Epoch

Undefined == [Epoch |-> -1, EndOffset |-> -1]

\* Mutant: the requested epoch itself is not looked for.
EndOffsetForOlder(c, requested, leo) ==
    LET Below(e) == e.Epoch < requested
        n == PrefixLength(c, Below)
    IN  IF c = <<>> \/ requested < 0 \/ requested > c[Len(c)].Epoch THEN Undefined
        ELSE IF n = 0 THEN [Epoch |-> requested, EndOffset |-> c[1].StartOffset]
        ELSE [Epoch |-> c[n].Epoch,
              EndOffset |-> IF n = Len(c) THEN leo ELSE c[n + 1].StartOffset]

\* The end of the largest epoch not above the requested one.  Undefined is
\* the code's found = false, which a response carries as epoch and offset -1.
EndOffsetFor(c, requested, leo) ==
    LET UpTo(e) == e.Epoch <= requested
        n == PrefixLength(c, UpTo)
    IN  IF c = <<>> \/ requested < 0 \/ requested > c[Len(c)].Epoch THEN Undefined
        ELSE IF n = 0 THEN [Epoch |-> requested, EndOffset |-> c[1].StartOffset]
        ELSE [Epoch |-> c[n].Epoch,
              EndOffset |-> IF n = Len(c) THEN leo ELSE c[n + 1].StartOffset]

\* What EpochCheckpoint.Write and Read require of the entries.
StrictlyIncreasing(c) ==
    \A i \in 1 .. Len(c) - 1 :
        c[i].Epoch < c[i + 1].Epoch /\ c[i].StartOffset < c[i + 1].StartOffset
================================================================================
