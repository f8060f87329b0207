------------------------ MODULE LeaderEpochCacheProofs ------------------------
(***************************************************************************)
(* What the operations of the leader epoch cache preserve and return, for  *)
(* caches of every length.                                                 *)
(***************************************************************************)
EXTENDS LeaderEpochCache, WellFoundedInduction, SequenceTheorems, TLAPS

EntryRecords == [Epoch : Nat, StartOffset : Nat]

Caches == Seq(EntryRecords)

\* A set of positions has a longest prefix: where a loop that walks the cache
\* while a condition holds must stop.
LEMMA PrefixExists ==
  ASSUME NEW len \in Nat, NEW K
  PROVE  \E n \in 0 .. len : (\A i \in 1 .. n : i \in K) /\ (n < len => n + 1 \notin K)
<1> DEFINE Stops == {n \in Nat : n <= len /\ (n < len => n + 1 \notin K)}
<1>1. len \in Stops
  OBVIOUS
<1>2. PICK n \in Stops : \A m \in Stops : ~(<<m, n>> \in OpToRel(<, Nat))
  BY Zenon, <1>1, NatLessThanWellFounded, WFMin
<1>3. \A m \in Stops : n <= m
  <2>1. \A m \in Nat : m < n => <<m, n>> \in OpToRel(<, Nat)
    BY SMT DEF OpToRel
  <2>2. \A m \in Stops : ~(m < n)
    BY <1>2, <2>1, Zenon
  <2> QED
    BY <2>2
<1>4. ASSUME NEW i \in 1 .. n PROVE i \in K
  <2>1. i - 1 \in Nat /\ i - 1 < n /\ i - 1 < len
    OBVIOUS
  <2>2. i - 1 \notin Stops
    BY <1>3, <2>1
  <2> QED
    BY <2>1, <2>2
<1> QED
  BY <1>4

\* The first n elements of a sequence.
LEMMA PrefixOf ==
  ASSUME NEW S, NEW c \in Seq(S), NEW n \in 0 .. Len(c)
  PROVE  /\ SubSeq(c, 1, n) \in Seq(S) /\ Len(SubSeq(c, 1, n)) = n
         /\ \A i \in 1 .. n : SubSeq(c, 1, n)[i] = c[i]
<1>1. n \in Int /\ 1 \in Int /\ \A i \in 1 .. n : c[i] \in S
  OBVIOUS
<1>2. /\ SubSeq(c, 1, n) \in Seq(S)
      /\ Len(SubSeq(c, 1, n)) = IF 1 <= n THEN n - 1 + 1 ELSE 0
      /\ \A i \in 1 .. n - 1 + 1 : SubSeq(c, 1, n)[i] = c[1 + i - 1]
  BY <1>1, SubSeqProperties
<1> QED
  BY <1>2

\* A sequence with one more element.
LEMMA AppendOf ==
  ASSUME NEW S, NEW p \in Seq(S), NEW e \in S
  PROVE  /\ Append(p, e) \in Seq(S) /\ Len(Append(p, e)) = Len(p) + 1
         /\ Append(p, e)[Len(p) + 1] = e
         /\ \A i \in 1 .. Len(p) : Append(p, e)[i] = p[i]
  OBVIOUS

\* A prefix of a cache is a cache, and its entries increase if the cache's do.
LEMMA PrefixIncreasing ==
  ASSUME NEW c \in Caches, StrictlyIncreasing(c), NEW n \in 0 .. Len(c)
  PROVE  /\ SubSeq(c, 1, n) \in Caches /\ Len(SubSeq(c, 1, n)) = n
         /\ \A i \in 1 .. n : SubSeq(c, 1, n)[i] = c[i]
         /\ StrictlyIncreasing(SubSeq(c, 1, n))
<1>1. /\ SubSeq(c, 1, n) \in Caches /\ Len(SubSeq(c, 1, n)) = n
      /\ \A i \in 1 .. n : SubSeq(c, 1, n)[i] = c[i]
  BY PrefixOf DEF Caches
<1> QED
  BY <1>1 DEF StrictlyIncreasing, Caches

\* TruncateFromEnd leaves a prefix of the cache: every entry kept starts
\* before the offset, and the first one dropped does not.
LEMMA TruncateFromEndPrefix ==
  ASSUME NEW c \in Caches, NEW offset \in Int
  PROVE  \E n \in 0 .. Len(c) :
            /\ TruncateFromEnd(c, offset) = SubSeq(c, 1, n)
            /\ \A i \in 1 .. n : c[i].StartOffset < offset
            /\ n < Len(c) => ~(c[n + 1].StartOffset < offset)
<1> DEFINE K == {i \in 1 .. Len(c) : c[i].StartOffset < offset}
           P(n) == (\A i \in 1 .. n : c[i].StartOffset < offset)
                      /\ (n < Len(c) => ~(c[n + 1].StartOffset < offset))
<1>1. Len(c) \in Nat
  BY DEF Caches
<1>2. PICK n \in 0 .. Len(c) : (\A i \in 1 .. n : i \in K) /\ (n < Len(c) => n + 1 \notin K)
  BY Zenon, <1>1, PrefixExists
<1>3. P(n)
  BY <1>1, <1>2
<1>4. (CHOOSE m \in 0 .. Len(c) : P(m)) \in 0 .. Len(c) /\ P(CHOOSE m \in 0 .. Len(c) : P(m))
  BY SMTT(30), <1>3
<1>5. TruncateFromEnd(c, offset) = SubSeq(c, 1, CHOOSE m \in 0 .. Len(c) : P(m))
  BY DEF TruncateFromEnd, PrefixLength
<1> QED
  BY Zenon, <1>4, <1>5

\* TruncateAfter leaves a prefix of the cache: every entry kept starts
\* no later than the offset, and the first one dropped does not.
LEMMA TruncateAfterPrefix ==
  ASSUME NEW c \in Caches, NEW offset \in Int
  PROVE  \E n \in 0 .. Len(c) :
            /\ TruncateAfter(c, offset) = SubSeq(c, 1, n)
            /\ \A i \in 1 .. n : c[i].StartOffset <= offset
            /\ n < Len(c) => ~(c[n + 1].StartOffset <= offset)
<1> DEFINE K == {i \in 1 .. Len(c) : c[i].StartOffset <= offset}
           P(n) == (\A i \in 1 .. n : c[i].StartOffset <= offset)
                      /\ (n < Len(c) => ~(c[n + 1].StartOffset <= offset))
<1>1. Len(c) \in Nat
  BY DEF Caches
<1>2. PICK n \in 0 .. Len(c) : (\A i \in 1 .. n : i \in K) /\ (n < Len(c) => n + 1 \notin K)
  BY Zenon, <1>1, PrefixExists
<1>3. P(n)
  BY <1>1, <1>2
<1>4. (CHOOSE m \in 0 .. Len(c) : P(m)) \in 0 .. Len(c) /\ P(CHOOSE m \in 0 .. Len(c) : P(m))
  BY <1>3
<1>5. TruncateAfter(c, offset) = SubSeq(c, 1, CHOOSE m \in 0 .. Len(c) : P(m))
  BY DEF TruncateAfter, PrefixLength
<1> QED
  BY Zenon, <1>4, <1>5

\* The entries Assign keeps in front of the new one.
LEMMA AssignPrefix ==
  ASSUME NEW c \in Caches, NEW epoch \in Nat, NEW start \in Nat,
         ~(c # <<>> /\ epoch = c[Len(c)].Epoch /\ start >= c[Len(c)].StartOffset)
  PROVE  \E n \in 0 .. Len(c) :
            /\ Assign(c, epoch, start) = Append(SubSeq(c, 1, n), Entry(epoch, start))
            /\ \A i \in 1 .. n : c[i].Epoch < epoch /\ c[i].StartOffset < start
            /\ n < Len(c) => ~(c[n + 1].Epoch < epoch /\ c[n + 1].StartOffset < start)
<1> DEFINE K == {i \in 1 .. Len(c) : c[i].Epoch < epoch /\ c[i].StartOffset < start}
           P(n) == (\A i \in 1 .. n : c[i].Epoch < epoch /\ c[i].StartOffset < start)
                      /\ (n < Len(c) => ~(c[n + 1].Epoch < epoch /\ c[n + 1].StartOffset < start))
<1>1. Len(c) \in Nat
  BY DEF Caches
<1>2. PICK n \in 0 .. Len(c) : (\A i \in 1 .. n : i \in K) /\ (n < Len(c) => n + 1 \notin K)
  BY Zenon, <1>1, PrefixExists
<1>3. P(n)
  BY <1>1, <1>2
<1>4. (CHOOSE m \in 0 .. Len(c) : P(m)) \in 0 .. Len(c) /\ P(CHOOSE m \in 0 .. Len(c) : P(m))
  BY SMTT(30), <1>3
<1>5. Assign(c, epoch, start)
        = Append(SubSeq(c, 1, CHOOSE m \in 0 .. Len(c) : P(m)), Entry(epoch, start))
  BY Zenon DEF Assign, PrefixLength
<1> QED
  BY Zenon, <1>4, <1>5

(***************************************************************************)
(* EpochCheckpoint.Write refuses entries that do not increase.  None of    *)
(* the operations of the cache produces such entries.                      *)
(***************************************************************************)

\* Assign keeps the entries increasing, whatever epoch and offset it is given.
THEOREM AssignIncreasing ==
  ASSUME NEW c \in Caches, StrictlyIncreasing(c), NEW epoch \in Nat, NEW start \in Nat
  PROVE  Assign(c, epoch, start) \in Caches /\ StrictlyIncreasing(Assign(c, epoch, start))
<1>1. CASE c # <<>> /\ epoch = c[Len(c)].Epoch /\ start >= c[Len(c)].StartOffset
  BY <1>1 DEF Assign
<1>2. CASE ~(c # <<>> /\ epoch = c[Len(c)].Epoch /\ start >= c[Len(c)].StartOffset)
  <2>1. PICK n \in 0 .. Len(c) :
            /\ Assign(c, epoch, start) = Append(SubSeq(c, 1, n), Entry(epoch, start))
            /\ \A i \in 1 .. n : c[i].Epoch < epoch /\ c[i].StartOffset < start
    BY Zenon, <1>2, AssignPrefix
  <2> DEFINE p == SubSeq(c, 1, n)
             r == Append(p, Entry(epoch, start))
  <2>2. /\ p \in Caches /\ Len(p) = n /\ StrictlyIncreasing(p)
        /\ \A i \in 1 .. n : p[i] = c[i]
    BY PrefixIncreasing
  <2>3. Entry(epoch, start) \in EntryRecords
    BY DEF Entry, EntryRecords
  <2> HIDE DEF p
  <2>4. /\ r \in Caches /\ Len(r) = n + 1 /\ r[n + 1] = Entry(epoch, start)
        /\ \A i \in 1 .. n : r[i] = p[i]
    BY <2>2, <2>3, AppendOf DEF Caches
  <2> HIDE DEF r
  <2>5. ASSUME NEW i \in 1 .. n PROVE r[i].Epoch < r[i + 1].Epoch /\ r[i].StartOffset < r[i + 1].StartOffset
    <3>1. CASE i < n
      BY <2>2, <2>4, <3>1 DEF StrictlyIncreasing
    <3>2. CASE i = n
      <4>1. r[i] = c[i] /\ c[i].Epoch < epoch /\ c[i].StartOffset < start
        BY <2>1, <2>2, <2>4
      <4>2. r[i + 1].Epoch = epoch /\ r[i + 1].StartOffset = start
        BY <2>4, <3>2 DEF Entry
      <4> QED
        BY <4>1, <4>2, Zenon
    <3> QED
      BY <3>1, <3>2
  <2> QED
    BY <2>1, <2>4, <2>5 DEF StrictlyIncreasing, p, r
<1> QED
  BY <1>1, <1>2

\* Cutting the cache keeps it increasing.
THEOREM TruncateIncreasing ==
  ASSUME NEW c \in Caches, StrictlyIncreasing(c), NEW offset \in Int
  PROVE  /\ TruncateFromEnd(c, offset) \in Caches /\ StrictlyIncreasing(TruncateFromEnd(c, offset))
         /\ TruncateAfter(c, offset) \in Caches /\ StrictlyIncreasing(TruncateAfter(c, offset))
<1>1. PICK n \in 0 .. Len(c) : TruncateFromEnd(c, offset) = SubSeq(c, 1, n)
  BY TruncateFromEndPrefix
<1>2. PICK m \in 0 .. Len(c) : TruncateAfter(c, offset) = SubSeq(c, 1, m)
  BY TruncateAfterPrefix
<1> QED
  BY <1>1, <1>2, PrefixIncreasing

(***************************************************************************)
(* Assigning a new epoch.                                                  *)
(***************************************************************************)

\* EpochForOffset stops at the first entry that starts after the offset.
LEMMA EpochForOffsetAt ==
  ASSUME NEW c \in Caches, NEW x \in Int, NEW n \in 0 .. Len(c),
         \A i \in 1 .. n : c[i].StartOffset <= x,
         n < Len(c) => ~(c[n + 1].StartOffset <= x)
  PROVE  EpochForOffset(c, x) = IF n = 0 THEN -1 ELSE c[n].Epoch
<1> DEFINE P(m) == (\A i \in 1 .. m : c[i].StartOffset <= x)
                      /\ (m < Len(c) => ~(c[m + 1].StartOffset <= x))
           q == CHOOSE m \in 0 .. Len(c) : P(m)
<1>1. q \in 0 .. Len(c) /\ P(q)
  <2>1. P(n)
    OBVIOUS
  <2> QED
    BY <2>1
<1>2. q = n
  <2>1. Len(c) \in Nat
    BY DEF Caches
  <2> HIDE DEF q
  <2>2. ~(q < n)
    BY <1>1, <2>1
  <2>3. ~(n < q)
    BY <1>1, <2>1
  <2> QED
    BY <1>1, <2>1, <2>2, <2>3
<1>3. EpochForOffset(c, x) = IF q = 0 THEN -1 ELSE c[q].Epoch
  BY DEF EpochForOffset, PrefixLength
<1> QED
  BY Zenon, <1>2, <1>3

\* Every offset has a place in the cache where EpochForOffset stops.
LEMMA LookupExists ==
  ASSUME NEW c \in Caches, NEW x \in Int
  PROVE  \E m \in 0 .. Len(c) :
            /\ \A i \in 1 .. m : c[i].StartOffset <= x
            /\ m < Len(c) => ~(c[m + 1].StartOffset <= x)
            /\ EpochForOffset(c, x) = IF m = 0 THEN -1 ELSE c[m].Epoch
<1> DEFINE K == {i \in 1 .. Len(c) : c[i].StartOffset <= x}
<1>1. Len(c) \in Nat
  BY DEF Caches
<1>2. PICK m \in 0 .. Len(c) : (\A i \in 1 .. m : i \in K) /\ (m < Len(c) => m + 1 \notin K)
  BY Zenon, <1>1, PrefixExists
<1>3. /\ \A i \in 1 .. m : c[i].StartOffset <= x
      /\ m < Len(c) => ~(c[m + 1].StartOffset <= x)
  BY <1>1, <1>2
<1>4. EpochForOffset(c, x) = IF m = 0 THEN -1 ELSE c[m].Epoch
  BY <1>3, EpochForOffsetAt
<1> QED
  BY <1>3, <1>4

\* Assign refuses a negative epoch, and offsets are unsigned.
LEMMA EntriesTyped ==
  ASSUME NEW c \in Caches
  PROVE  /\ Len(c) \in Nat
         /\ \A i \in 1 .. Len(c) : c[i].StartOffset \in Nat /\ c[i].Epoch \in Nat
<1>1. Len(c) \in Nat /\ \A i \in 1 .. Len(c) : c[i] \in EntryRecords
  BY DEF Caches
<1> QED
  BY <1>1 DEF EntryRecords

\* Cutting the entries that start after an offset does not change what the
\* cache tells of it.
LEMMA PrefixLookup ==
  ASSUME NEW c \in Caches, NEW n \in 0 .. Len(c), NEW x \in Int,
         n < Len(c) => ~(c[n + 1].StartOffset <= x)
  PROVE  EpochForOffset(SubSeq(c, 1, n), x) = EpochForOffset(c, x)
<1> DEFINE r == SubSeq(c, 1, n)
<1>1. r \in Caches /\ Len(r) = n /\ \A i \in 1 .. n : r[i] = c[i]
  BY PrefixOf DEF Caches
<1>2. Len(c) \in Nat
  BY EntriesTyped
<1>3. PICK m \in 0 .. Len(c) :
          /\ \A i \in 1 .. m : c[i].StartOffset <= x
          /\ m < Len(c) => ~(c[m + 1].StartOffset <= x)
          /\ EpochForOffset(c, x) = IF m = 0 THEN -1 ELSE c[m].Epoch
  BY SMTT(30), LookupExists
<1> HIDE DEF r
<1>4. m <= n
  <2> SUFFICES ASSUME n < m PROVE FALSE
    BY <1>2
  <2>1. n + 1 \in 1 .. m /\ n < Len(c)
    BY <1>2
  <2> QED
    BY <1>3, <2>1
<1>5. /\ \A i \in 1 .. m : r[i].StartOffset <= x
      /\ m < Len(r) => ~(r[m + 1].StartOffset <= x)
      /\ m \in 0 .. Len(r)
  BY <1>1, <1>2, <1>3, <1>4
<1>6. EpochForOffset(r, x) = IF m = 0 THEN -1 ELSE r[m].Epoch
  BY Zenon, <1>1, <1>5, EpochForOffsetAt
<1>7. m # 0 => r[m] = c[m]
  BY <1>1, <1>2, <1>4
<1> QED
  BY <1>3, <1>6, <1>7 DEF r

\* A prefix of the cache, cut where its entries reach start, followed by a new
\* entry at start: the offsets from start on have the new epoch, and the others
\* the one they had.
LEMMA AppendLookup ==
  ASSUME NEW c \in Caches, NEW epoch \in Nat, NEW start \in Nat, NEW n \in 0 .. Len(c),
         \A i \in 1 .. n : c[i].StartOffset < start,
         n < Len(c) => ~(c[n + 1].StartOffset < start),
         NEW x \in Int
  PROVE  EpochForOffset(Append(SubSeq(c, 1, n), Entry(epoch, start)), x)
            = IF x >= start THEN epoch ELSE EpochForOffset(c, x)
<1> DEFINE r == Append(SubSeq(c, 1, n), Entry(epoch, start))
<1>1. Len(c) \in Nat
  BY EntriesTyped
<1>4. /\ r \in Caches /\ Len(r) = n + 1 /\ r[n + 1] = Entry(epoch, start)
      /\ \A i \in 1 .. n : r[i] = c[i]
  <2> DEFINE p == SubSeq(c, 1, n)
  <2>1. p \in Caches /\ Len(p) = n /\ \A i \in 1 .. n : p[i] = c[i]
    BY PrefixOf DEF Caches
  <2>2. Entry(epoch, start) \in EntryRecords
    BY DEF Entry, EntryRecords
  <2>3. r = Append(p, Entry(epoch, start))
    OBVIOUS
  <2> HIDE DEF p, r
  <2> QED
    BY <2>1, <2>2, <2>3, AppendOf DEF Caches
<1>5. r[n + 1].Epoch = epoch /\ r[n + 1].StartOffset = start
  BY <1>4 DEF Entry
<1>6. \A i \in 1 .. Len(c) : c[i].StartOffset \in Nat
  BY EntriesTyped
<1> HIDE DEF r
<1>7. CASE x >= start
  <2>1. ASSUME NEW i \in 1 .. n + 1 PROVE r[i].StartOffset <= x
    <3>1. CASE i \in 1 .. n
      <4>1. r[i] = c[i] /\ c[i].StartOffset < start /\ c[i].StartOffset \in Nat
        BY <1>1, <1>4, <1>6, <3>1
      <4> QED
        BY <1>7, <4>1
    <3>2. CASE i = n + 1
      BY <1>5, <1>7, <3>2
    <3> QED
      BY <1>1, <3>1, <3>2
  <2>2. n + 1 \in 0 .. Len(r) /\ ~(n + 1 < Len(r)) /\ n + 1 # 0
    BY <1>1, <1>4
  <2>3. EpochForOffset(r, x) = IF n + 1 = 0 THEN -1 ELSE r[n + 1].Epoch
    BY Zenon, <1>4, <2>1, <2>2, EpochForOffsetAt
  <2> QED
    BY <1>5, <1>7, <2>2, <2>3 DEF r
<1>8. CASE ~(x >= start)
  <2>2. PICK m \in 0 .. Len(c) :
            /\ \A i \in 1 .. m : c[i].StartOffset <= x
            /\ m < Len(c) => ~(c[m + 1].StartOffset <= x)
            /\ EpochForOffset(c, x) = IF m = 0 THEN -1 ELSE c[m].Epoch
    BY Zenon, LookupExists
  <2>4. m <= n
    <3> SUFFICES ASSUME n < m PROVE FALSE
      BY <1>1
    <3>1. n + 1 \in 1 .. m /\ n + 1 \in 1 .. Len(c) /\ n < Len(c)
      BY <1>1
    <3> QED
      BY <1>6, <1>8, <2>2, <3>1
  <2>5. \A i \in 1 .. m : r[i].StartOffset <= x
    BY <1>1, <1>4, <2>2, <2>4
  <2>6. m \in 0 .. Len(r) /\ m < Len(r)
    BY <1>1, <1>4, <2>4
  <2>7. ~(r[m + 1].StartOffset <= x)
    <3>1. CASE m = n
      BY <1>5, <1>8, <3>1
    <3>2. CASE m < n
      BY <1>1, <1>4, <2>2, <3>2
    <3> QED
      BY <1>1, <2>4, <3>1, <3>2
  <2>8. EpochForOffset(r, x) = IF m = 0 THEN -1 ELSE r[m].Epoch
    BY Zenon, <1>4, <2>5, <2>6, <2>7, EpochForOffsetAt
  <2>9. m # 0 => r[m] = c[m]
    BY <1>1, <1>4, <2>4
  <2> QED
    BY Zenon, <1>8, <2>2, <2>8, <2>9 DEF r
<1> QED
  BY <1>7, <1>8

\* In increasing entries every later entry is larger in both coordinates.
LEMMA IncreasingFar ==
  ASSUME NEW c \in Caches, StrictlyIncreasing(c), NEW i \in 1 .. Len(c), NEW j \in 1 .. Len(c), i < j
  PROVE  c[i].Epoch < c[j].Epoch /\ c[i].StartOffset < c[j].StartOffset
<1>1. /\ Len(c) \in Nat
      /\ \A k \in 1 .. Len(c) : c[k].StartOffset \in Nat /\ c[k].Epoch \in Nat
  BY EntriesTyped
<1> DEFINE K == {k \in 1 .. Len(c) : k <= i \/ (c[i].Epoch < c[k].Epoch /\ c[i].StartOffset < c[k].StartOffset)}
<1>2. PICK n \in 0 .. Len(c) : (\A k \in 1 .. n : k \in K) /\ (n < Len(c) => n + 1 \notin K)
  BY Zenon, <1>1, PrefixExists
<1>3. n >= i
  <2> SUFFICES ASSUME n < i PROVE FALSE
    BY <1>1
  <2>1. n + 1 \in 1 .. Len(c) /\ n + 1 <= i /\ n < Len(c)
    BY <1>1
  <2> QED
    BY <1>2, <2>1
<1>4. ~(n < Len(c))
  <2> SUFFICES ASSUME n < Len(c) PROVE FALSE
    OBVIOUS
  <2>1. n \in 1 .. Len(c) - 1 /\ n \in 1 .. n /\ n + 1 \in 1 .. Len(c) /\ n \in 1 .. Len(c)
    BY <1>1, <1>3
  <2>2. c[n].Epoch < c[n + 1].Epoch /\ c[n].StartOffset < c[n + 1].StartOffset
    BY <2>1 DEF StrictlyIncreasing
  <2>3. n \in K /\ n + 1 \notin K
    BY <1>2, <2>1
  <2>4. n = i \/ (c[i].Epoch < c[n].Epoch /\ c[i].StartOffset < c[n].StartOffset)
    BY <1>3, <2>3
  <2>5. c[i].Epoch < c[n + 1].Epoch /\ c[i].StartOffset < c[n + 1].StartOffset
    <3>1. /\ c[i].Epoch \in Nat /\ c[i].StartOffset \in Nat
          /\ c[n].Epoch \in Nat /\ c[n].StartOffset \in Nat
          /\ c[n + 1].Epoch \in Nat /\ c[n + 1].StartOffset \in Nat
      BY <1>1, <2>1
    <3> HIDE DEF K
    <3>2. CASE n = i
      BY <2>2, <3>2
    <3>3. CASE c[i].Epoch < c[n].Epoch /\ c[i].StartOffset < c[n].StartOffset
      <4>1. \A u, v, w \in Nat : u < v /\ v < w => u < w
        OBVIOUS
      <4> QED
        BY <2>2, <3>1, <3>3, <4>1, Zenon
    <3> QED
      BY <2>4, <3>2, <3>3
  <2> QED
    BY <2>1, <2>3, <2>5
<1> QED
  BY <1>1, <1>2, <1>4

\* From the start of the last entry on, an offset has the last entry's epoch.
LEMMA LookupLast ==
  ASSUME NEW c \in Caches, StrictlyIncreasing(c), c # <<>>, NEW x \in Int, c[Len(c)].StartOffset <= x
  PROVE  EpochForOffset(c, x) = c[Len(c)].Epoch
<1>1. /\ Len(c) \in Nat /\ Len(c) # 0 /\ Len(c) \in 1 .. Len(c) /\ Len(c) \in 0 .. Len(c)
      /\ \A k \in 1 .. Len(c) : c[k].StartOffset \in Nat
  BY EntriesTyped DEF Caches
<1>2. ASSUME NEW i \in 1 .. Len(c) PROVE c[i].StartOffset <= x
  <2>1. CASE i < Len(c)
    <3>1. c[i].StartOffset < c[Len(c)].StartOffset
      BY <1>1, <2>1, IncreasingFar
    <3> QED
      BY <1>1, <3>1
  <2> QED
    BY <1>1, <2>1
<1>3. EpochForOffset(c, x) = IF Len(c) = 0 THEN -1 ELSE c[Len(c)].Epoch
  BY <1>1, <1>2, EpochForOffsetAt
<1> QED
  BY <1>1, <1>3

\* Assigning an epoch newer than all the others changes the epoch of exactly
\* the offsets from its start on: what MakeLeader relies on when it assigns
\* the epoch it leads in to the end of the log.
THEOREM AssignRemembers ==
  ASSUME NEW c \in Caches, NEW epoch \in Nat, NEW start \in Nat,
         \A i \in 1 .. Len(c) : c[i].Epoch < epoch,
         NEW x \in Int
  PROVE  EpochForOffset(Assign(c, epoch, start), x)
            = IF x >= start THEN epoch ELSE EpochForOffset(c, x)
<1>1. Len(c) \in Nat /\ (c # <<>> => Len(c) \in 1 .. Len(c))
  BY DEF Caches
<1>2. ~(c # <<>> /\ epoch = c[Len(c)].Epoch /\ start >= c[Len(c)].StartOffset)
  BY <1>1
<1>3. PICK n \in 0 .. Len(c) :
          /\ Assign(c, epoch, start) = Append(SubSeq(c, 1, n), Entry(epoch, start))
          /\ \A i \in 1 .. n : c[i].Epoch < epoch /\ c[i].StartOffset < start
          /\ n < Len(c) => ~(c[n + 1].Epoch < epoch /\ c[n + 1].StartOffset < start)
  BY Zenon, <1>2, AssignPrefix
<1>4. n < Len(c) => ~(c[n + 1].StartOffset < start)
  BY <1>1, <1>3
<1>5. \A i \in 1 .. n : c[i].StartOffset < start
  BY <1>3
<1>6. EpochForOffset(Append(SubSeq(c, 1, n), Entry(epoch, start)), x)
          = IF x >= start THEN epoch ELSE EpochForOffset(c, x)
  BY Zenon, <1>4, <1>5, AppendLookup
<1> QED
  BY <1>3, <1>6, Zenon

\* So does assigning an epoch no older than any other, when the entries
\* increase: the epoch a follower fetches under, or a leader elected again.
THEOREM AssignLatestRemembers ==
  ASSUME NEW c \in Caches, StrictlyIncreasing(c), NEW epoch \in Nat, NEW start \in Nat,
         \A i \in 1 .. Len(c) : c[i].Epoch <= epoch,
         NEW x \in Int
  PROVE  EpochForOffset(Assign(c, epoch, start), x)
            = IF x >= start THEN epoch ELSE EpochForOffset(c, x)
<1>1. /\ Len(c) \in Nat /\ (c # <<>> => Len(c) \in 1 .. Len(c))
      /\ \A i \in 1 .. Len(c) : c[i].StartOffset \in Nat /\ c[i].Epoch \in Nat
  BY EntriesTyped DEF Caches
<1>2. CASE c # <<>> /\ epoch = c[Len(c)].Epoch /\ start >= c[Len(c)].StartOffset
  <2>1. Assign(c, epoch, start) = c
    BY Zenon, <1>2 DEF Assign
  <2>2. CASE x >= start
    BY <1>1, <1>2, <2>1, <2>2, LookupLast
  <2> QED
    BY <2>1, <2>2
<1>3. CASE ~(c # <<>> /\ epoch = c[Len(c)].Epoch /\ start >= c[Len(c)].StartOffset)
  <2>1. PICK n \in 0 .. Len(c) :
            /\ Assign(c, epoch, start) = Append(SubSeq(c, 1, n), Entry(epoch, start))
            /\ \A i \in 1 .. n : c[i].Epoch < epoch /\ c[i].StartOffset < start
            /\ n < Len(c) => ~(c[n + 1].Epoch < epoch /\ c[n + 1].StartOffset < start)
    BY Zenon, <1>3, AssignPrefix
  <2>2. ASSUME n < Len(c) PROVE ~(c[n + 1].StartOffset < start)
    <3>1. CASE n + 1 = Len(c)
      <4>1. c # <<>> /\ c[n + 1].Epoch <= epoch /\ c[n + 1].Epoch \in Nat /\ c[n + 1].StartOffset \in Nat
        BY <1>1, <2>2
      <4> QED
        BY <1>3, <2>1, <2>2, <3>1, <4>1
    <3>2. CASE n + 1 < Len(c)
      <4>1. c[n + 1].Epoch < c[n + 1 + 1].Epoch /\ c[n + 1 + 1].Epoch <= epoch
        BY <1>1, <3>2 DEF StrictlyIncreasing
      <4>2. c[n + 1].Epoch \in Nat /\ c[n + 1 + 1].Epoch \in Nat
        BY <1>1, <3>2
      <4> QED
        BY <2>1, <2>2, <4>1, <4>2
    <3> QED
      BY <1>1, <2>2, <3>1, <3>2
  <2>3. \A i \in 1 .. n : c[i].StartOffset < start
    BY <2>1
  <2>4. EpochForOffset(Append(SubSeq(c, 1, n), Entry(epoch, start)), x)
            = IF x >= start THEN epoch ELSE EpochForOffset(c, x)
    BY SMTT(30), <2>2, <2>3, AppendLookup
  <2> QED
    BY <2>1, <2>4, Zenon
<1> QED
  BY <1>2, <1>3

(***************************************************************************)
(* Cutting the cache.                                                      *)
(***************************************************************************)

\* Cutting the cache together with the log does not change the epoch of the
\* records that are left, and opening a log whose checkpoint runs ahead of it
\* does not change the epoch of the records that are there.
THEOREM TruncateRemembers ==
  ASSUME NEW c \in Caches, NEW offset \in Int, NEW x \in Int
  PROVE  /\ x < offset => EpochForOffset(TruncateFromEnd(c, offset), x) = EpochForOffset(c, x)
         /\ x <= offset => EpochForOffset(TruncateAfter(c, offset), x) = EpochForOffset(c, x)
<1>1. /\ Len(c) \in Nat
      /\ \A i \in 1 .. Len(c) : c[i].StartOffset \in Nat
  BY EntriesTyped
<1>2. ASSUME x < offset PROVE EpochForOffset(TruncateFromEnd(c, offset), x) = EpochForOffset(c, x)
  <2>1. PICK n \in 0 .. Len(c) :
            /\ TruncateFromEnd(c, offset) = SubSeq(c, 1, n)
            /\ n < Len(c) => ~(c[n + 1].StartOffset < offset)
    BY Zenon, TruncateFromEndPrefix
  <2>2. n < Len(c) => ~(c[n + 1].StartOffset <= x)
    BY <1>1, <1>2, <2>1
  <2> QED
    BY <2>1, <2>2, PrefixLookup
<1>3. ASSUME x <= offset PROVE EpochForOffset(TruncateAfter(c, offset), x) = EpochForOffset(c, x)
  <2>1. PICK n \in 0 .. Len(c) :
            /\ TruncateAfter(c, offset) = SubSeq(c, 1, n)
            /\ n < Len(c) => ~(c[n + 1].StartOffset <= offset)
    BY Zenon, TruncateAfterPrefix
  <2>2. ASSUME n < Len(c) PROVE ~(c[n + 1].StartOffset <= x)
    <3>1. n + 1 \in 1 .. Len(c)
      BY <1>1, <2>2
    <3>2. c[n + 1].StartOffset \in Nat /\ ~(c[n + 1].StartOffset <= offset)
      BY <1>1, <2>1, <2>2, <3>1
    <3> QED
      BY <1>3, <3>2
  <2> QED
    BY <2>1, <2>2, PrefixLookup
<1> QED
  BY <1>2, <1>3

(***************************************************************************)
(* Assigning several entries, one after the other.                         *)
(***************************************************************************)

\* The caches that AssignAll goes through, one for every entry assigned.
AssignSteps(c, es, f) ==
    f = [i \in 0 .. Len(es) |->
            IF i = 0 THEN c ELSE Assign(f[i - 1], es[i].Epoch, es[i].StartOffset)]

\* AssignAll returns the last of the caches it goes through.
LEMMA AssignAllSteps ==
  ASSUME NEW c, NEW es, NEW w, AssignSteps(c, es, w)
  PROVE  \E f : AssignSteps(c, es, f) /\ AssignAll(c, es) = f[Len(es)]
<1> DEFINE f == CHOOSE g : AssignSteps(c, es, g)
<1>1. AssignSteps(c, es, f)
  OBVIOUS
<1>2. AssignAll(c, es) = f[Len(es)]
  BY DEF AssignAll, AssignSteps
<1> QED
  BY Zenon, <1>1, <1>2

\* An entry newer and later than all the others is added at the end.
LEMMA AssignAppends ==
  ASSUME NEW c \in Caches, NEW epoch \in Nat, NEW start \in Nat,
         \A i \in 1 .. Len(c) : c[i].Epoch < epoch /\ c[i].StartOffset < start
  PROVE  Assign(c, epoch, start) = Append(c, Entry(epoch, start))
<1>1. /\ Len(c) \in Nat /\ (c # <<>> => Len(c) \in 1 .. Len(c))
      /\ \A i \in 1 .. Len(c) : c[i].StartOffset \in Nat /\ c[i].Epoch \in Nat
  BY EntriesTyped DEF Caches
<1>2. ~(c # <<>> /\ epoch = c[Len(c)].Epoch /\ start >= c[Len(c)].StartOffset)
  BY <1>1
<1>3. PICK n \in 0 .. Len(c) :
          /\ Assign(c, epoch, start) = Append(SubSeq(c, 1, n), Entry(epoch, start))
          /\ n < Len(c) => ~(c[n + 1].Epoch < epoch /\ c[n + 1].StartOffset < start)
  BY Zenon, <1>2, AssignPrefix
<1>4. n = Len(c)
  BY <1>1, <1>3
<1>5. SubSeq(c, 1, Len(c)) = c
  BY DEF Caches
<1> QED
  BY <1>3, <1>4, <1>5

\* Replaying what EpochCheckpoint.Read accepts gives it back: opening a log
\* changes nothing of the history it reads.
THEOREM ReplayIdentity ==
  ASSUME NEW es \in Caches, StrictlyIncreasing(es)
  PROVE  AssignAll(<<>>, es) = es
<1> DEFINE W == [i \in 0 .. Len(es) |-> SubSeq(es, 1, i)]
<1>1. /\ Len(es) \in Nat
      /\ \A i \in 1 .. Len(es) : es[i].StartOffset \in Nat /\ es[i].Epoch \in Nat
  BY EntriesTyped
<1>2. \A i \in 0 .. Len(es) : W[i] = SubSeq(es, 1, i)
  OBVIOUS
<1>3. W[0] = <<>>
  BY <1>1, <1>2 DEF Caches
<1>4. ASSUME NEW i \in 1 .. Len(es) PROVE W[i] = Assign(W[i - 1], es[i].Epoch, es[i].StartOffset)
  <2> DEFINE p == SubSeq(es, 1, i - 1)
  <2>1. i - 1 \in 0 .. Len(es) /\ i \in 0 .. Len(es)
    BY <1>1
  <2>2. p \in Caches /\ Len(p) = i - 1 /\ \A k \in 1 .. i - 1 : p[k] = es[k]
    BY <2>1, PrefixIncreasing
  <2>3. W[i - 1] = p /\ W[i] = SubSeq(es, 1, i)
    BY <1>2, <2>1
  <2>4. SubSeq(es, 1, i) = Append(p, es[i])
    BY <1>1 DEF Caches
  <2>5. es[i] = Entry(es[i].Epoch, es[i].StartOffset)
    <3>1. es[i] \in EntryRecords
      BY DEF Caches
    <3> QED
      BY <3>1 DEF EntryRecords, Entry
  <2> HIDE DEF p, W
  <2>6. ASSUME NEW k \in 1 .. Len(p) PROVE p[k].Epoch < es[i].Epoch /\ p[k].StartOffset < es[i].StartOffset
    <3>1. k \in 1 .. Len(es) /\ k < i /\ p[k] = es[k]
      BY <1>1, <2>2
    <3> QED
      BY <3>1, IncreasingFar
  <2>7. Assign(p, es[i].Epoch, es[i].StartOffset) = Append(p, Entry(es[i].Epoch, es[i].StartOffset))
    BY Zenon, <1>1, <2>2, <2>6, AssignAppends
  <2> QED
    BY <2>3, <2>4, <2>5, <2>7
<1> HIDE DEF W
<1>5. AssignSteps(<<>>, es, W)
  <2>1. W = [i \in 0 .. Len(es) |-> W[i]]
    BY DEF W
  <2>2. \A i \in 0 .. Len(es) :
            W[i] = IF i = 0 THEN <<>> ELSE Assign(W[i - 1], es[i].Epoch, es[i].StartOffset)
    BY <1>1, <1>3, <1>4
  <2> QED
    BY Zenon, <2>1, <2>2 DEF AssignSteps
<1>6. PICK f : AssignSteps(<<>>, es, f) /\ AssignAll(<<>>, es) = f[Len(es)]
  BY <1>5, AssignAllSteps
<1>7. /\ f[0] = <<>>
      /\ \A i \in 1 .. Len(es) : f[i] = Assign(f[i - 1], es[i].Epoch, es[i].StartOffset)
  <2>1. \A i \in 0 .. Len(es) :
            f[i] = IF i = 0 THEN <<>> ELSE Assign(f[i - 1], es[i].Epoch, es[i].StartOffset)
    BY <1>6 DEF AssignSteps
  <2> QED
    BY <1>1, <2>1
<1> DEFINE K == {k \in 1 .. Len(es) + 1 : f[k - 1] = W[k - 1]}
<1>8. PICK n \in 0 .. Len(es) + 1 : (\A k \in 1 .. n : k \in K) /\ (n < Len(es) + 1 => n + 1 \notin K)
  <2>1. Len(es) + 1 \in Nat
    BY <1>1
  <2> HIDE DEF K
  <2> QED
    BY Zenon, <2>1, PrefixExists
<1>9. n = Len(es) + 1
  <2> SUFFICES ASSUME n < Len(es) + 1 PROVE FALSE
    BY <1>1
  <2>1. n + 1 \in 1 .. Len(es) + 1 /\ (n + 1) - 1 = n
    BY <1>1
  <2>2. f[n] # W[n]
    BY <1>8, <2>1
  <2>3. n # 0
    BY <1>3, <1>7, <2>2
  <2>4. n \in 1 .. Len(es) /\ n \in 1 .. n
    BY <1>1, <2>3
  <2>5. f[n - 1] = W[n - 1]
    BY <1>8, <2>4
  <2> QED
    BY <1>4, <1>7, <2>2, <2>4, <2>5
<1>10. f[Len(es)] = W[Len(es)]
  <2>1. Len(es) + 1 \in 1 .. n /\ (Len(es) + 1) - 1 = Len(es)
    BY <1>1, <1>9
  <2> QED
    BY <1>8, <2>1
<1>11. SubSeq(es, 1, Len(es)) = es
  BY DEF Caches
<1> QED
  BY <1>1, <1>2, <1>6, <1>10, <1>11

\* AssignAll with one entry and with two.
LEMMA AssignAllFew ==
  ASSUME NEW c, NEW es
  PROVE  /\ Len(es) = 1 => AssignAll(c, es) = Assign(c, es[1].Epoch, es[1].StartOffset)
         /\ Len(es) = 2 => AssignAll(c, es)
              = Assign(Assign(c, es[1].Epoch, es[1].StartOffset), es[2].Epoch, es[2].StartOffset)
<1> DEFINE a == Assign(c, es[1].Epoch, es[1].StartOffset)
           b == Assign(a, es[2].Epoch, es[2].StartOffset)
<1> SUFFICES ASSUME Len(es) \in {1, 2} PROVE AssignAll(c, es) = IF Len(es) = 1 THEN a ELSE b
  OBVIOUS
<1> DEFINE W == [i \in 0 .. Len(es) |-> IF i = 0 THEN c ELSE IF i = 1 THEN a ELSE b]
<1>1. W[0] = c /\ W[1] = a /\ (Len(es) = 2 => W[2] = b)
  OBVIOUS
<1>2. ASSUME NEW i \in 0 .. Len(es)
      PROVE  W[i] = IF i = 0 THEN c ELSE Assign(W[i - 1], es[i].Epoch, es[i].StartOffset)
  <2>1. i = 0 \/ i = 1 \/ (i = 2 /\ Len(es) = 2)
    <3>1. CASE Len(es) = 1
      <4>1. i \in 0 .. 1
        BY <3>1
      <4> QED
        BY <4>1
    <3>2. CASE Len(es) = 2
      <4>1. i \in 0 .. 2
        BY <3>2
      <4> QED
        BY <3>2, <4>1
    <3> QED
      BY <3>1, <3>2
  <2> HIDE DEF W
  <2>2. i = 0 => W[i] = c
    BY <1>1
  <2>3. i = 1 => i # 0 /\ i - 1 = 0 /\ W[i] = Assign(W[i - 1], es[i].Epoch, es[i].StartOffset)
    BY <1>1
  <2>4. i = 2 /\ Len(es) = 2 => i # 0 /\ i - 1 = 1 /\ W[i] = Assign(W[i - 1], es[i].Epoch, es[i].StartOffset)
    BY <1>1
  <2> QED
    BY <2>1, <2>2, <2>3, <2>4
<1>3. W = [i \in 0 .. Len(es) |-> W[i]]
  OBVIOUS
<1> HIDE DEF W, a, b
<1>4. AssignSteps(c, es, W)
  BY <1>2, <1>3 DEF AssignSteps
<1>5. PICK f : AssignSteps(c, es, f) /\ AssignAll(c, es) = f[Len(es)]
  BY <1>4, AssignAllSteps
<1>6. \A i \in 0 .. Len(es) :
          f[i] = IF i = 0 THEN c ELSE Assign(f[i - 1], es[i].Epoch, es[i].StartOffset)
  BY <1>5 DEF AssignSteps
<1>7. f[0] = c /\ f[1] = a
  BY <1>6 DEF a
<1>8. Len(es) = 2 => f[2] = b
  BY <1>6, <1>7 DEF b
<1> QED
  BY Zenon, <1>5, <1>7, <1>8

(***************************************************************************)
(* What a leader answers to OffsetForLeaderEpoch.                          *)
(***************************************************************************)

\* EndOffsetFor finds the first entry newer than the epoch it is asked for.
LEMMA EndOffsetAt ==
  ASSUME NEW c \in Caches, NEW e \in Int, NEW leo \in Nat, EndOffsetFor(c, e, leo) # Undefined
  PROVE  c # <<>> /\ \E n \in 0 .. Len(c) :
            /\ \A i \in 1 .. n : c[i].Epoch <= e
            /\ n < Len(c) => ~(c[n + 1].Epoch <= e)
            /\ EndOffsetFor(c, e, leo).EndOffset = IF n = Len(c) THEN leo ELSE c[n + 1].StartOffset
<1> DEFINE K == {i \in 1 .. Len(c) : c[i].Epoch <= e}
           P(n) == (\A i \in 1 .. n : c[i].Epoch <= e) /\ (n < Len(c) => ~(c[n + 1].Epoch <= e))
           q == CHOOSE n \in 0 .. Len(c) : P(n)
<1>1. Len(c) \in Nat
  BY EntriesTyped
<1>2. PICK n \in 0 .. Len(c) : (\A i \in 1 .. n : i \in K) /\ (n < Len(c) => n + 1 \notin K)
  BY Zenon, <1>1, PrefixExists
<1>3. P(n)
  BY <1>1, <1>2
<1>4. q \in 0 .. Len(c) /\ P(q)
  BY SMTT(30), <1>3
<1>5. /\ c # <<>>
      /\ EndOffsetFor(c, e, leo)
            = IF q = 0 THEN [Epoch |-> e, EndOffset |-> c[1].StartOffset]
              ELSE [Epoch |-> c[q].Epoch,
                    EndOffset |-> IF q = Len(c) THEN leo ELSE c[q + 1].StartOffset]
  BY SMTT(30) DEF EndOffsetFor, PrefixLength
<1>6. Len(c) # 0
  BY <1>5 DEF Caches
<1> HIDE DEF q
<1>7. EndOffsetFor(c, e, leo).EndOffset = IF q = Len(c) THEN leo ELSE c[q + 1].StartOffset
  BY <1>1, <1>4, <1>5, <1>6
<1> QED
  BY <1>4, <1>5, <1>7

\* The answer to OffsetForLeaderEpoch separates the offsets of the log: exactly
\* those from the answered offset on have an epoch newer than the one asked for.
THEOREM EndOffsetSeparates ==
  ASSUME NEW c \in Caches, StrictlyIncreasing(c), NEW e \in Int, NEW leo \in Nat,
         EndOffsetFor(c, e, leo) # Undefined,
         NEW x \in 0 .. leo - 1, EpochForOffset(c, x) # -1
  PROVE  (EpochForOffset(c, x) > e) <=> (x >= EndOffsetFor(c, e, leo).EndOffset)
<1>1. /\ Len(c) \in Nat
      /\ \A i \in 1 .. Len(c) : c[i].StartOffset \in Nat /\ c[i].Epoch \in Nat
  BY EntriesTyped
<1>2. PICK n \in 0 .. Len(c) :
          /\ \A i \in 1 .. n : c[i].Epoch <= e
          /\ n < Len(c) => ~(c[n + 1].Epoch <= e)
          /\ EndOffsetFor(c, e, leo).EndOffset = IF n = Len(c) THEN leo ELSE c[n + 1].StartOffset
  BY EndOffsetAt
<1>3. PICK m \in 0 .. Len(c) :
          /\ \A i \in 1 .. m : c[i].StartOffset <= x
          /\ m < Len(c) => ~(c[m + 1].StartOffset <= x)
          /\ EpochForOffset(c, x) = IF m = 0 THEN -1 ELSE c[m].Epoch
  <2>1. x \in Int
    OBVIOUS
  <2> QED
    BY Zenon, <2>1, LookupExists
<1>4. m \in 1 .. Len(c) /\ EpochForOffset(c, x) = c[m].Epoch
  BY <1>1, <1>3
<1>5. CASE m <= n
  <2>1. c[m].Epoch <= e /\ c[m].Epoch \in Nat
    BY <1>1, <1>2, <1>4, <1>5
  <2>2. ~(x >= EndOffsetFor(c, e, leo).EndOffset)
    <3>1. CASE n = Len(c)
      BY <1>2, <3>1
    <3>2. CASE n < Len(c)
      <4>1. n + 1 \in 1 .. Len(c) /\ m + 1 \in 1 .. Len(c) /\ m < Len(c)
        BY <1>1, <1>4, <1>5, <3>2
      <4>2. c[m + 1].StartOffset <= c[n + 1].StartOffset
        <5>1. CASE m = n
          BY <1>1, <4>1, <5>1
        <5>2. CASE m < n
          <6>1. m + 1 < n + 1
            BY <5>2
          <6>2. c[m + 1].StartOffset < c[n + 1].StartOffset
            BY <4>1, <6>1, IncreasingFar
          <6> QED
            BY <1>1, <4>1, <6>2
        <5> QED
          BY <1>5, <5>1, <5>2
      <4>3. c[m + 1].StartOffset \in Nat /\ c[n + 1].StartOffset \in Nat /\ ~(c[m + 1].StartOffset <= x)
        BY <1>1, <1>3, <4>1
      <4>4. EndOffsetFor(c, e, leo).EndOffset = c[n + 1].StartOffset
        BY <1>1, <1>2, <3>2
      <4>5. ~(x >= c[n + 1].StartOffset)
        <5> DEFINE a == c[m + 1].StartOffset
                   b == c[n + 1].StartOffset
        <5>1. a \in Nat /\ b \in Nat /\ ~(a <= x) /\ a <= b /\ x \in Int
          BY <4>2, <4>3
        <5> HIDE DEF a, b
        <5>2. ~(x >= b)
          BY <5>1
        <5> QED
          BY <5>2 DEF b
      <4> QED
        BY <4>4, <4>5, Zenon
    <3> QED
      BY <1>1, <3>1, <3>2
  <2> QED
    BY <1>4, <2>1, <2>2
<1>6. CASE m > n
  <2>1. n < Len(c) /\ n + 1 \in 1 .. m /\ n + 1 \in 1 .. Len(c)
    BY <1>1, <1>4, <1>6
  <2>2. c[n + 1].StartOffset <= x /\ EndOffsetFor(c, e, leo).EndOffset = c[n + 1].StartOffset
    BY <1>2, <1>3, <2>1
  <2>3. ~(c[n + 1].Epoch <= e) /\ c[n + 1].Epoch \in Nat /\ c[m].Epoch \in Nat /\ c[n + 1].StartOffset \in Nat
    BY <1>1, <1>2, <1>4, <2>1
  <2>4. c[n + 1].Epoch <= c[m].Epoch
    <3>1. CASE n + 1 = m
      BY <2>3, <3>1
    <3>2. CASE n + 1 < m
      <4>1. c[n + 1].Epoch < c[m].Epoch
        BY <1>4, <2>1, <3>2, IncreasingFar
      <4> QED
        BY <2>3, <4>1
    <3> QED
      BY <1>4, <1>6, <3>1, <3>2
  <2> QED
    BY <1>4, <2>2, <2>3, <2>4
<1> QED
  BY <1>4, <1>5, <1>6
================================================================================
