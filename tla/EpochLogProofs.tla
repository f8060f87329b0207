--------------------------- MODULE EpochLogProofs ---------------------------
(***************************************************************************)
(* The epoch cache and its checkpoint tell the epoch of every record, for  *)
(* logs, epochs and caches of every size.  The theorems are about a        *)
(* follower that is sent no record older than the newest epoch it has in   *)
(* its cache (OlderRecords = FALSE).                                       *)
(***************************************************************************)
EXTENDS EpochLog, LeaderEpochCacheProofs

Increasing(c) == c \in Caches /\ StrictlyIncreasing(c)

\* c tells the epoch of every record of rs.
Covers(c, rs) == \A offset \in 0 .. Len(rs) - 1 : EpochForOffset(c, offset) = rs[offset + 1]

\* What every step preserves.  Both histories cover the log: a checkpoint that
\* could not be written may be older than the cache, but no record is written
\* before it is.  A leader's epoch is the last entry of both, and starts no
\* later than the next record.
EpochInv ==
    /\ records \in Seq(Nat) /\ dirty \in BOOLEAN /\ leaderEpoch \in Nat \cup {-1}
    /\ Increasing(cache) /\ Covers(cache, records)
    /\ Increasing(checkpoint) /\ Covers(checkpoint, records)
    /\ ~dirty => checkpoint = cache
    /\ leaderEpoch # -1 =>
          /\ ~dirty /\ cache # <<>>
          /\ cache[Len(cache)].Epoch = leaderEpoch
          /\ cache[Len(cache)].StartOffset <= Len(records)

-----------------------------------------------------------------------------
(* The operators of the log *)

\* In increasing entries no epoch is newer than the last.
LEMMA LatestBounds ==
  ASSUME NEW c, Increasing(c), NEW e \in Nat, c # <<>> => e >= c[Len(c)].Epoch
  PROVE  \A i \in 1 .. Len(c) : c[i].Epoch <= e
<1> SUFFICES ASSUME NEW i \in 1 .. Len(c) PROVE c[i].Epoch <= e
  OBVIOUS
<1>1. /\ c \in Caches /\ StrictlyIncreasing(c) /\ Len(c) \in Nat
      /\ \A k \in 1 .. Len(c) : c[k].Epoch \in Nat
  BY EntriesTyped DEF Increasing
<1>2. c # <<>> /\ Len(c) \in 1 .. Len(c)
  BY <1>1 DEF Caches
<1>3. c[i].Epoch \in Nat /\ c[Len(c)].Epoch \in Nat /\ c[Len(c)].Epoch <= e
  BY <1>1, <1>2
<1>4. i = Len(c) \/ c[i].Epoch < c[Len(c)].Epoch
  <2>1. CASE i < Len(c)
    BY <1>1, <1>2, <2>1, IncreasingFar
  <2> QED
    BY <1>1, <2>1
<1>5. \A u, v, w \in Nat : u < v /\ v <= w => u <= w
  OBVIOUS
<1> QED
  BY <1>3, <1>4, <1>5

\* Assigning the newest epoch makes it the last entry.
LEMMA AssignLast ==
  ASSUME NEW c, Increasing(c), NEW epoch \in Nat, NEW start \in Nat
  PROVE  LET r == Assign(c, epoch, start) IN
         /\ Increasing(r) /\ r # <<>>
         /\ r[Len(r)].Epoch = epoch /\ r[Len(r)].StartOffset <= start
<1> DEFINE r == Assign(c, epoch, start)
<1> SUFFICES /\ Increasing(r) /\ r # <<>>
             /\ r[Len(r)].Epoch = epoch /\ r[Len(r)].StartOffset <= start
  OBVIOUS
<1>1. Increasing(r)
  BY AssignIncreasing DEF Increasing
<1>2. CASE c # <<>> /\ epoch = c[Len(c)].Epoch /\ start >= c[Len(c)].StartOffset
  <2>1. r = c
    BY Zenon, <1>2 DEF Assign
  <2>2. Len(c) \in 1 .. Len(c) /\ c[Len(c)].StartOffset \in Nat
    <3>1. Len(c) \in Nat /\ \A k \in 1 .. Len(c) : c[k].StartOffset \in Nat
      BY EntriesTyped DEF Increasing
    <3>2. Len(c) \in 1 .. Len(c)
      BY <1>2, <3>1 DEF Increasing, Caches
    <3> QED
      BY <3>1, <3>2
  <2>3. c[Len(c)].StartOffset <= start
    BY <1>2, <2>2
  <2> HIDE DEF r
  <2> QED
    BY <1>1, <1>2, <2>1, <2>3
<1>3. CASE ~(c # <<>> /\ epoch = c[Len(c)].Epoch /\ start >= c[Len(c)].StartOffset)
  <2>1. PICK n \in 0 .. Len(c) : r = Append(SubSeq(c, 1, n), Entry(epoch, start))
    BY Zenon, <1>3, AssignPrefix DEF Increasing
  <2>2. SubSeq(c, 1, n) \in Caches
    BY PrefixOf DEF Increasing, Caches
  <2>3. Entry(epoch, start) \in EntryRecords
    BY DEF Entry, EntryRecords
  <2> HIDE DEF r
  <2>4. r # <<>> /\ r[Len(r)] = Entry(epoch, start)
    BY <2>1, <2>2, <2>3 DEF Caches
  <2>5. r[Len(r)].Epoch = epoch /\ r[Len(r)].StartOffset = start
    BY <2>4 DEF Entry
  <2>6. start <= start
    OBVIOUS
  <2> QED
    BY <1>1, <2>4, <2>5, <2>6
<1> QED
  BY <1>2, <1>3

\* The accepted batches are a prefix of those sent.
LEMMA AcceptedFew ==
  ASSUME NEW es \in Seq(Nat), Len(es) = 1 \/ Len(es) = 2, NEW fetchEpoch \in Nat,
         AcceptedBatches(es, fetchEpoch) # <<>>
  PROVE  LET accepted == AcceptedBatches(es, fetchEpoch) IN
         /\ accepted \in Seq(Nat) /\ (Len(accepted) = 1 \/ Len(accepted) = 2)
         /\ \A i \in 1 .. Len(accepted) : i \in 1 .. Len(es) /\ accepted[i] = es[i]
<1> DEFINE K == {i \in 1 .. Len(es) : es[i] <= fetchEpoch}
           P(n) == (\A i \in 1 .. n : es[i] <= fetchEpoch) /\ (n < Len(es) => ~(es[n + 1] <= fetchEpoch))
           q == CHOOSE n \in 0 .. Len(es) : P(n)
           accepted == AcceptedBatches(es, fetchEpoch)
<1> SUFFICES /\ accepted \in Seq(Nat) /\ (Len(accepted) = 1 \/ Len(accepted) = 2)
             /\ \A i \in 1 .. Len(accepted) : i \in 1 .. Len(es) /\ accepted[i] = es[i]
  OBVIOUS
<1>1. PICK n \in 0 .. Len(es) : (\A i \in 1 .. n : i \in K) /\ (n < Len(es) => n + 1 \notin K)
  <2>1. Len(es) \in Nat
    OBVIOUS
  <2> HIDE DEF K
  <2> QED
    BY Zenon, <2>1, PrefixExists
<1>2. P(n)
  BY <1>1
<1>3. q \in 0 .. Len(es)
  BY <1>2
<1>4. accepted = SubSeq(es, 1, q)
  BY DEF AcceptedBatches, PrefixLength
<1> HIDE DEF q, accepted
<1>5. accepted \in Seq(Nat) /\ Len(accepted) = q /\ \A i \in 1 .. q : accepted[i] = es[i]
  BY <1>3, <1>4, PrefixOf
<1>6. q # 0
  <2>1. accepted # <<>>
    BY DEF accepted
  <2> QED
    BY <1>5, <2>1
<1> QED
  BY SMTT(30), <1>3, <1>5, <1>6

\* The transitions of one batch and of two.
LEMMA TransitionsFew ==
  ASSUME NEW es \in Seq(Nat), NEW base \in Nat, Len(es) = 1 \/ Len(es) = 2
  PROVE  LET t == Transitions(es, base) IN
         /\ t[1] = Entry(es[1], base)
         /\ Len(es) = 1 \/ es[2] = es[1] => Len(t) = 1
         /\ Len(es) = 2 /\ es[2] # es[1] => Len(t) = 2 /\ t[2] = Entry(es[2], base + 1)
<1> DEFINE a == Append(<<>>, Entry(es[1], base))
           b == IF es[2] # es[1] THEN Append(a, Entry(es[2], base + 1)) ELSE a
           Steps(f) == f = [i \in 0 .. Len(es) |->
                               IF i = 0 THEN <<>>
                               ELSE IF i = 1 \/ es[i] # es[i - 1]
                                    THEN Append(f[i - 1], Entry(es[i], base + i - 1))
                               ELSE f[i - 1]]
           W == [i \in 0 .. Len(es) |-> IF i = 0 THEN <<>> ELSE IF i = 1 THEN a ELSE b]
           f == CHOOSE g : Steps(g)
<1> SUFFICES Transitions(es, base) = IF Len(es) = 1 THEN a ELSE b
  <2>1. /\ <<>> \in Caches /\ Len(<<>>) = 0
        /\ Entry(es[1], base) \in EntryRecords
        /\ Len(es) = 2 => Entry(es[2], base + 1) \in EntryRecords
    BY DEF Caches, Entry, EntryRecords
  <2>2. a \in Caches /\ Len(a) = 1 /\ a[1] = Entry(es[1], base)
    BY <2>1, AppendOf DEF Caches
  <2> HIDE DEF a
  <2>3. Len(es) = 2 /\ es[2] # es[1] =>
            Len(b) = 2 /\ b[1] = Entry(es[1], base) /\ b[2] = Entry(es[2], base + 1)
    <3> SUFFICES ASSUME Len(es) = 2, es[2] # es[1]
                 PROVE  Len(b) = 2 /\ b[1] = Entry(es[1], base) /\ b[2] = Entry(es[2], base + 1)
      OBVIOUS
    <3>1. b = Append(a, Entry(es[2], base + 1))
      OBVIOUS
    <3> HIDE DEF b
    <3>2. /\ Len(b) = Len(a) + 1 /\ b[Len(a) + 1] = Entry(es[2], base + 1)
          /\ \A i \in 1 .. Len(a) : b[i] = a[i]
      <4> DEFINE e == Entry(es[2], base + 1)
      <4>1. a \in Seq(EntryRecords) /\ e \in EntryRecords
        BY <2>1, <2>2 DEF Caches
      <4>2. b = Append(a, e)
        BY <3>1
      <4> HIDE DEF e
      <4>3. Len(b) = Len(a) + 1 /\ b[Len(a) + 1] = e /\ \A i \in 1 .. Len(a) : b[i] = a[i]
        BY <4>1, <4>2
      <4> QED
        BY <4>3 DEF e
    <3>3. Len(a) + 1 = 2 /\ 1 \in 1 .. Len(a)
      BY <2>2
    <3>4. b[1] = a[1]
      BY <3>2, <3>3
    <3> QED
      BY <2>2, <3>2, <3>3, <3>4, Zenon
  <2>4. es[2] = es[1] => b = a
    OBVIOUS
  <2> HIDE DEF b
  <2>5. CASE Len(es) = 1
    BY <2>2, <2>5
  <2>6. CASE Len(es) = 2 /\ es[2] = es[1]
    BY <2>2, <2>4, <2>6
  <2>7. CASE Len(es) = 2 /\ es[2] # es[1]
    BY <2>3, <2>7
  <2> QED
    BY <2>5, <2>6, <2>7
<1>0. /\ a = Append(<<>>, Entry(es[1], base))
      /\ b = IF es[2] # es[1] THEN Append(a, Entry(es[2], base + 1)) ELSE a
  OBVIOUS
<1> HIDE DEF a, b
<1>1. W[0] = <<>> /\ W[1] = a /\ (Len(es) = 2 => W[2] = b)
  OBVIOUS
<1>2. W = [i \in 0 .. Len(es) |-> W[i]]
  OBVIOUS
<1> HIDE DEF W
<1>3. ASSUME NEW i \in 0 .. Len(es)
      PROVE  W[i] = IF i = 0 THEN <<>>
                    ELSE IF i = 1 \/ es[i] # es[i - 1]
                         THEN Append(W[i - 1], Entry(es[i], base + i - 1))
                    ELSE W[i - 1]
  <2>1. i = 0 \/ i = 1 \/ (i = 2 /\ Len(es) = 2)
    <3>1. CASE Len(es) = 1
      <4>1. i \in 0 .. 1
        BY <3>1
      <4> QED
        BY <4>1
    <3>2. CASE Len(es) = 2
      <4>1. i \in 0 .. 2
        BY <3>2
      <4> QED
        BY <3>2, <4>1
    <3> QED
      BY <3>1, <3>2
  <2>2. CASE i = 0
    BY <1>1, <2>2
  <2>3. CASE i = 1
    <3>1. i - 1 = 0 /\ base + i - 1 = base /\ i # 0
      BY <2>3
    <3> QED
      BY Zenon, <1>0, <1>1, <2>3, <3>1
  <2>4. CASE i = 2 /\ Len(es) = 2
    <3>1. i - 1 = 1 /\ base + i - 1 = base + 1 /\ i # 0 /\ i # 1
      BY <2>4
    <3> QED
      BY <1>0, <1>1, <2>4, <3>1
  <2> QED
    BY <2>1, <2>2, <2>3, <2>4
<1>4. Steps(W)
  BY <1>2, <1>3, Zenon
<1>5. Steps(f)
  <2> HIDE DEF Steps
  <2> QED
    BY <1>4
<1>6. Transitions(es, base) = f[Len(es)]
  BY DEF Transitions
<1> HIDE DEF f
<1>7. \A i \in 0 .. Len(es) :
        f[i] = IF i = 0 THEN <<>>
               ELSE IF i = 1 \/ es[i] # es[i - 1]
                    THEN Append(f[i - 1], Entry(es[i], base + i - 1))
               ELSE f[i - 1]
  BY Zenon, <1>5
<1>8. f[0] = <<>>
  BY <1>7
<1>9. f[1] = a
  <2>1. 1 \in 0 .. Len(es) /\ 1 - 1 = 0 /\ base + 1 - 1 = base /\ 1 # 0
    OBVIOUS
  <2> QED
    BY Zenon, <1>0, <1>7, <1>8, <2>1
<1>10. ASSUME Len(es) = 2 PROVE f[2] = b
  <2>1. 2 \in 0 .. Len(es) /\ 2 - 1 = 1 /\ base + 2 - 1 = base + 1 /\ 2 # 0 /\ 2 # 1
    BY <1>10
  <2>2. f[2] = IF 2 = 0 THEN <<>>
               ELSE IF 2 = 1 \/ es[2] # es[2 - 1]
                    THEN Append(f[2 - 1], Entry(es[2], base + 2 - 1))
               ELSE f[2 - 1]
    BY <1>7, <2>1, Zenon
  <2>3. f[2] = IF es[2] # es[1] THEN Append(f[1], Entry(es[2], base + 1)) ELSE f[1]
    BY <2>1, <2>2
  <2> QED
    BY <1>0, <1>9, <2>3, Zenon
<1> QED
  BY Zenon, <1>6, <1>9, <1>10

\* Assigning the transitions of the accepted batches, when none is older than
\* the newest entry: the offsets below the log's end keep their epochs, and the
\* new ones have those of the batches.
LEMMA AssignTransitions ==
  ASSUME NEW c, Increasing(c), NEW base \in Nat,
         NEW es \in Seq(Nat), Len(es) = 1 \/ Len(es) = 2,
         c # <<>> => es[1] >= c[Len(c)].Epoch,
         Len(es) = 2 => es[1] <= es[2]
  PROVE  LET r == AssignAll(c, Transitions(es, base)) IN
         /\ Increasing(r)
         /\ \A x \in Int : x < base => EpochForOffset(r, x) = EpochForOffset(c, x)
         /\ \A i \in 1 .. Len(es) : EpochForOffset(r, base + i - 1) = es[i]
<1> DEFINE t == Transitions(es, base)
           a == Assign(c, es[1], base)
           r == AssignAll(c, t)
<1> SUFFICES /\ Increasing(r)
             /\ \A x \in Int : x < base => EpochForOffset(r, x) = EpochForOffset(c, x)
             /\ \A i \in 1 .. Len(es) : EpochForOffset(r, base + i - 1) = es[i]
  OBVIOUS
<1>1. /\ t[1].Epoch = es[1] /\ t[1].StartOffset = base
      /\ Len(es) = 1 \/ es[2] = es[1] => Len(t) = 1
      /\ Len(es) = 2 /\ es[2] # es[1] => Len(t) = 2 /\ t[2].Epoch = es[2] /\ t[2].StartOffset = base + 1
  <2>1. /\ t[1] = Entry(es[1], base)
        /\ Len(es) = 1 \/ es[2] = es[1] => Len(t) = 1
        /\ Len(es) = 2 /\ es[2] # es[1] => Len(t) = 2 /\ t[2] = Entry(es[2], base + 1)
    BY TransitionsFew
  <2>2. \A u, v : Entry(u, v).Epoch = u /\ Entry(u, v).StartOffset = v
    BY DEF Entry
  <2> HIDE DEF t
  <2> QED
    BY <2>1, <2>2
<1>2. es[1] \in Nat /\ (Len(es) = 2 => es[2] \in Nat)
  OBVIOUS
<1>3. /\ Increasing(a) /\ a # <<>> /\ a[Len(a)].Epoch = es[1]
      /\ \A x \in Int : EpochForOffset(a, x) = IF x >= base THEN es[1] ELSE EpochForOffset(c, x)
  <2>1. \A i \in 1 .. Len(c) : c[i].Epoch <= es[1]
    BY <1>2, LatestBounds
  <2>2. Increasing(a) /\ a # <<>> /\ a[Len(a)].Epoch = es[1]
    BY <1>2, AssignLast
  <2>3. \A x \in Int : EpochForOffset(a, x) = IF x >= base THEN es[1] ELSE EpochForOffset(c, x)
    <3>1. c \in Caches /\ StrictlyIncreasing(c)
      BY DEF Increasing
    <3>2. ASSUME NEW e \in Nat, \A i \in 1 .. Len(c) : c[i].Epoch <= e, NEW x \in Int
          PROVE  EpochForOffset(Assign(c, e, base), x) = IF x >= base THEN e ELSE EpochForOffset(c, x)
      BY <3>1, <3>2, AssignLatestRemembers
    <3> QED
      BY <1>2, <2>1, <3>2
  <2> QED
    BY <2>2, <2>3
<1> HIDE DEF t, a
<1>4. CASE Len(es) = 1 \/ es[2] = es[1]
  <2>1. r = a
    BY <1>1, <1>4, AssignAllFew DEF a
  <2> HIDE DEF r
  <2>2. ASSUME NEW x \in Int, x < base PROVE EpochForOffset(r, x) = EpochForOffset(c, x)
    BY <1>3, <2>1, <2>2
  <2>3. ASSUME NEW i \in 1 .. Len(es) PROVE EpochForOffset(r, base + i - 1) = es[i]
    <3>1. base + i - 1 \in Int /\ base + i - 1 >= base
      OBVIOUS
    <3>2. es[i] = es[1]
      BY <1>4
    <3> QED
      BY <1>3, <2>1, <3>1, <3>2
  <2> QED
    BY <1>3, <2>1, <2>2, <2>3
<1>5. CASE Len(es) = 2 /\ es[2] # es[1]
  <2>1. r = Assign(a, es[2], base + 1)
    BY <1>1, <1>5, AssignAllFew DEF a
  <2>2. \A i \in 1 .. Len(a) : a[i].Epoch <= es[2]
    BY <1>2, <1>3, <1>5, LatestBounds
  <2>3. base + 1 \in Nat
    OBVIOUS
  <2>4. /\ Increasing(r)
        /\ \A x \in Int : EpochForOffset(r, x) = IF x >= base + 1 THEN es[2] ELSE EpochForOffset(a, x)
    <3> HIDE DEF r
    <3>1. Increasing(r)
      BY <1>2, <1>3, <1>5, <2>1, <2>3, AssignLast
    <3>2. \A x \in Int : EpochForOffset(r, x) = IF x >= base + 1 THEN es[2] ELSE EpochForOffset(a, x)
      BY <1>2, <1>3, <1>5, <2>1, <2>2, <2>3, AssignLatestRemembers DEF Increasing
    <3> QED
      BY <3>1, <3>2
  <2> HIDE DEF r
  <2>5. ASSUME NEW x \in Int, x < base PROVE EpochForOffset(r, x) = EpochForOffset(c, x)
    BY <1>3, <2>4, <2>5
  <2>6. EpochForOffset(r, base) = es[1] /\ EpochForOffset(r, base + 1) = es[2]
    BY <1>3, <2>4
  <2>7. ASSUME NEW i \in 1 .. Len(es) PROVE EpochForOffset(r, base + i - 1) = es[i]
    <3>1. i \in 1 .. 2
      BY <1>5
    <3>2. (i = 1 /\ base + i - 1 = base) \/ (i = 2 /\ base + i - 1 = base + 1)
      BY <3>1
    <3> QED
      BY <2>6, <3>2
  <2> QED
    BY <2>4, <2>5, <2>7
<1> QED
  BY <1>4, <1>5

\* No entry starts at or before any offset in an empty cache.
LEMMA LookupEmpty == \A x \in Int : EpochForOffset(<<>>, x) = -1
<1> SUFFICES ASSUME NEW x \in Int PROVE EpochForOffset(<<>>, x) = -1
  OBVIOUS
<1>1. <<>> \in Caches /\ Len(<<>>) = 0
  BY DEF Caches
<1>2. EpochForOffset(<<>>, x) = IF 0 = 0 THEN -1 ELSE <<>>[0].Epoch
  BY <1>1, EpochForOffsetAt
<1> QED
  BY <1>2

\* A history that covers the log is recovered as it is read, less the entries
\* that start beyond the log's end: RecoverEpochCache never has to scan the log.
LEMMA RecoverCut ==
  ASSUME NEW c, Increasing(c), NEW rs \in Seq(Nat), Covers(c, rs)
  PROVE  RecoverEpochCache(c, rs) = TruncateAfter(c, Len(rs))
<1>1. AssignAll(<<>>, c) = c
  BY ReplayIdentity DEF Increasing
<1>2. Len(rs) \in Nat
  OBVIOUS
<1>3. ASSUME Len(rs) > 0 PROVE TruncateAfter(c, Len(rs)) # <<>>
  <2>1. 0 \in 0 .. Len(rs) - 1 /\ 0 + 1 = 1 /\ rs[1] \in Nat
    BY <1>3
  <2>2. EpochForOffset(c, 0) = rs[1]
    BY <2>1 DEF Covers
  <2>3. EpochForOffset(TruncateAfter(c, Len(rs)), 0) = EpochForOffset(c, 0)
    BY <1>2, TruncateRemembers DEF Increasing
  <2>4. EpochForOffset(<<>>, 0) = -1
    BY LookupEmpty
  <2> QED
    BY <2>1, <2>2, <2>3, <2>4
<1> QED
  BY <1>1, <1>3 DEF RecoverEpochCache

\* The recovered history is increasing and covers the log.
LEMMA RecoverCovers ==
  ASSUME NEW c, Increasing(c), NEW rs \in Seq(Nat), Covers(c, rs)
  PROVE  Increasing(RecoverEpochCache(c, rs)) /\ Covers(RecoverEpochCache(c, rs), rs)
<1> DEFINE r == TruncateAfter(c, Len(rs))
<1>1. RecoverEpochCache(c, rs) = r /\ Len(rs) \in Nat
  BY RecoverCut
<1>2. Increasing(r)
  BY <1>1, TruncateIncreasing DEF Increasing
<1>3. ASSUME NEW x \in 0 .. Len(rs) - 1 PROVE EpochForOffset(r, x) = rs[x + 1]
  <2>1. x \in Int /\ x <= Len(rs)
    BY <1>1
  <2>2. EpochForOffset(r, x) = EpochForOffset(c, x)
    BY <1>1, <2>1, TruncateRemembers DEF Increasing
  <2> QED
    BY <2>2 DEF Covers
<1> HIDE DEF r
<1> QED
  BY <1>1, <1>2, <1>3 DEF Covers

-----------------------------------------------------------------------------
(* The inductive invariant *)

\* After a successful persist the file holds the cache; after a failed one it
\* holds what it held or the cache, and the failure is remembered.
LEMMA Persisted ==
  ASSUME EpochInv
  PROVE  /\ PersistSucceeds(cache', dirty \/ cache' # cache) => dirty' = FALSE /\ checkpoint' = cache'
         /\ PersistFails(cache', dirty \/ cache' # cache)
              => dirty' = TRUE /\ (checkpoint' = checkpoint \/ checkpoint' = cache')
BY DEF EpochInv, PersistSucceeds, PersistFails

\* A history that covers a log covers every prefix of it.
LEMMA CoversPrefix ==
  ASSUME NEW c, NEW rs \in Seq(Nat), Covers(c, rs), NEW k \in 0 .. Len(rs)
  PROVE  /\ SubSeq(rs, 1, k) \in Seq(Nat) /\ Len(SubSeq(rs, 1, k)) = k
         /\ Covers(c, SubSeq(rs, 1, k))
<1> DEFINE p == SubSeq(rs, 1, k)
<1>1. p \in Seq(Nat) /\ Len(p) = k /\ \A i \in 1 .. k : p[i] = rs[i]
  BY PrefixOf
<1> HIDE DEF p
<1>2. ASSUME NEW x \in 0 .. Len(p) - 1 PROVE EpochForOffset(c, x) = p[x + 1]
  <2>1. x \in 0 .. Len(rs) - 1 /\ x + 1 \in 1 .. k
    BY <1>1
  <2> QED
    BY <1>1, <2>1 DEF Covers
<1> QED
  BY <1>1, <1>2 DEF Covers, p

\* MakeLeader preserves the invariant.
LEMMA MakeLeaderKeeps ==
  ASSUME EpochInv, NEW e \in Epochs, MakeLeader(e)
  PROVE  EpochInv'
<1>1. e \in Nat /\ LEO \in Nat /\ records' = records /\ records \in Seq(Nat)
  BY EpochLogAssumption DEF EpochInv, Epochs, LEO, MakeLeader
<1>2. cache' = Assign(cache, e, LEO) /\ Increasing(cache)
  BY DEF EpochInv, MakeLeader
<1>3. /\ Increasing(cache') /\ cache' # <<>> /\ cache'[Len(cache')].Epoch = e
      /\ cache'[Len(cache')].StartOffset <= LEO
  BY <1>1, <1>2, AssignLast
<1>4. Covers(cache', records)
  <2>1. \A i \in 1 .. Len(cache) : cache[i].Epoch <= e
    BY <1>1, <1>2, LatestBounds DEF MakeLeader, LatestLeaderEpoch
  <2>2. ASSUME NEW x \in 0 .. Len(records) - 1 PROVE EpochForOffset(cache', x) = records[x + 1]
    <3>1. x \in Int /\ ~(x >= LEO)
      BY <1>1 DEF LEO
    <3>2. EpochForOffset(cache', x) = EpochForOffset(cache, x)
      BY SMTT(30), <1>1, <1>2, <2>1, <3>1, AssignLatestRemembers DEF Increasing
    <3> QED
      BY <3>2 DEF EpochInv, Covers
  <2> QED
    BY <2>2 DEF Covers
<1>5. CASE PersistSucceeds(cache', dirty \/ cache' # cache) /\ leaderEpoch' = e
  <2>1. dirty' = FALSE /\ checkpoint' = cache'
    BY <1>5, Persisted
  <2> QED
    BY Zenon, <1>1, <1>3, <1>4, <1>5, <2>1 DEF EpochInv, LEO
<1>6. CASE PersistFails(cache', dirty \/ cache' # cache) /\ leaderEpoch' = -1
  <2>1. dirty' = TRUE /\ (checkpoint' = checkpoint \/ checkpoint' = cache')
    BY <1>6, Persisted
  <2>2. Increasing(checkpoint') /\ Covers(checkpoint', records)
    BY <1>3, <1>4, <2>1 DEF EpochInv
  <2> QED
    BY <1>1, <1>3, <1>4, <1>6, <2>1, <2>2 DEF EpochInv
<1> QED
  BY <1>5, <1>6 DEF MakeLeader

\* A leader's record has its epoch: the last entry of both histories.
LEMMA AppendRawKeeps ==
  ASSUME EpochInv, AppendRaw
  PROVE  EpochInv'
<1>1. /\ leaderEpoch # -1 /\ leaderEpoch \in Nat /\ ~dirty /\ checkpoint = cache
      /\ cache # <<>> /\ cache[Len(cache)].Epoch = leaderEpoch
      /\ cache[Len(cache)].StartOffset <= Len(records)
      /\ Increasing(cache) /\ Covers(cache, records) /\ records \in Seq(Nat)
  BY DEF EpochInv, AppendRaw
<1>2. records' = Append(records, leaderEpoch) /\ UNCHANGED <<cache, dirty, checkpoint, leaderEpoch>>
  BY DEF AppendRaw
<1>3. /\ records' \in Seq(Nat) /\ Len(records') = Len(records) + 1
      /\ records'[Len(records) + 1] = leaderEpoch
      /\ \A i \in 1 .. Len(records) : records'[i] = records[i]
  BY <1>1, <1>2, AppendOf
<1>4. Len(records) \in Nat
  BY <1>1
<1>5. ASSUME NEW x \in 0 .. Len(records') - 1 PROVE EpochForOffset(cache, x) = records'[x + 1]
  <2>1. CASE x \in 0 .. Len(records) - 1
    <3>1. x + 1 \in 1 .. Len(records)
      BY <1>4, <2>1
    <3> QED
      BY SMTT(30), <1>1, <1>3, <2>1, <3>1 DEF Covers
  <2>2. CASE x = Len(records)
    <3>1. EpochForOffset(cache, x) = cache[Len(cache)].Epoch
      BY <1>1, <1>4, <2>2, LookupLast DEF Increasing
    <3> QED
      BY <1>1, <1>3, <2>2, <3>1
  <2> QED
    BY <1>3, <1>4, <2>1, <2>2
<1>6. Covers(cache, records')
  BY <1>5 DEF Covers
<1>7. cache[Len(cache)].StartOffset <= Len(records')
  <2>1. cache[Len(cache)].StartOffset \in Nat
    <3>1. Len(cache) \in Nat /\ \A i \in 1 .. Len(cache) : cache[i].StartOffset \in Nat
      BY <1>1, EntriesTyped DEF Increasing
    <3>2. Len(cache) \in 1 .. Len(cache)
      BY <1>1, <3>1 DEF Increasing, Caches
    <3> QED
      BY <3>1, <3>2
  <2> QED
    BY <1>1, <1>3, <1>4, <2>1
<1> QED
  BY <1>1, <1>2, <1>3, <1>6, <1>7 DEF EpochInv

\* What a leader sends, when it sends no record older than the cache's newest.
LEMMA SentBatches ==
  ASSUME EpochInv, OlderRecords = FALSE, NEW es \in ReplicaBatches
  PROVE  /\ es \in Seq(Nat) /\ (Len(es) = 1 \/ Len(es) = 2)
         /\ cache # <<>> => es[1] >= cache[Len(cache)].Epoch
         /\ Len(es) = 2 => es[1] <= es[2]
<1> DEFINE floor == IF cache = <<>> THEN 0 ELSE cache[Len(cache)].Epoch
<1>1. floor \in Nat
  <2>1. CASE cache # <<>>
    <3>1. Len(cache) \in Nat /\ \A i \in 1 .. Len(cache) : cache[i].Epoch \in Nat
      BY EntriesTyped DEF EpochInv, Increasing
    <3>2. Len(cache) \in 1 .. Len(cache)
      BY <2>1, <3>1 DEF EpochInv, Increasing, Caches
    <3> QED
      BY <2>1, <3>1, <3>2
  <2> QED
    BY <2>1
<1>2. cache # <<>> => floor = cache[Len(cache)].Epoch
  OBVIOUS
<1>3. es \in {<<e>> : e \in floor .. MaxEpoch}
             \cup {bs \in (floor .. MaxEpoch) \X (floor .. MaxEpoch) : bs[1] <= bs[2]}
  BY DEF ReplicaBatches, LatestLeaderEpoch
<1> HIDE DEF floor
<1>4. CASE es \in {<<e>> : e \in floor .. MaxEpoch}
  <2>1. PICK e \in floor .. MaxEpoch : es = <<e>>
    BY <1>4
  <2>2. e \in Nat /\ e >= floor
    BY <1>1, EpochLogAssumption
  <2> QED
    BY <1>2, <2>1, <2>2
<1>5. CASE es \in {bs \in (floor .. MaxEpoch) \X (floor .. MaxEpoch) : bs[1] <= bs[2]}
  <2>1. PICK u \in floor .. MaxEpoch, v \in floor .. MaxEpoch : es = <<u, v>>
    BY <1>5
  <2>2. u \in Nat /\ v \in Nat /\ u >= floor
    BY <1>1, EpochLogAssumption
  <2>3. u <= v
    BY <1>5, <2>1
  <2> QED
    BY <1>2, <2>1, <2>2, <2>3
<1> QED
  BY <1>3, <1>4, <1>5

\* A follower's append preserves the invariant: the records are written only
\* once the checkpoint holds their epochs.
LEMMA AppendReplicaKeeps ==
  ASSUME EpochInv, OlderRecords = FALSE, NEW es \in ReplicaBatches, NEW fetchEpoch \in Epochs,
         AppendReplicaRaw(es, fetchEpoch)
  PROVE  EpochInv'
<1> DEFINE accepted == AcceptedBatches(es, fetchEpoch)
<1>1. /\ es \in Seq(Nat) /\ (Len(es) = 1 \/ Len(es) = 2)
      /\ cache # <<>> => es[1] >= cache[Len(cache)].Epoch
      /\ Len(es) = 2 => es[1] <= es[2]
  BY Zenon, SentBatches
<1>2. /\ leaderEpoch = -1 /\ leaderEpoch' = -1 /\ accepted # <<>>
      /\ cache' = AssignAll(cache, Transitions(accepted, LEO))
  BY DEF AppendReplicaRaw
<1>3. fetchEpoch \in Nat /\ LEO \in Nat /\ records \in Seq(Nat) /\ Increasing(cache)
  BY EpochLogAssumption DEF EpochInv, Epochs, LEO
<1>4. /\ accepted \in Seq(Nat) /\ (Len(accepted) = 1 \/ Len(accepted) = 2)
      /\ \A i \in 1 .. Len(accepted) : i \in 1 .. Len(es) /\ accepted[i] = es[i]
  BY <1>1, <1>2, <1>3, AcceptedFew
<1>5. \/ PersistSucceeds(cache', dirty \/ cache' # cache) /\ records' \in {records, records \o accepted}
      \/ PersistFails(cache', dirty \/ cache' # cache) /\ UNCHANGED records
  BY DEF AppendReplicaRaw
<1> HIDE DEF accepted
<1>6. accepted[1] = es[1] /\ (Len(accepted) = 2 => Len(es) = 2 /\ accepted[2] = es[2])
  <2>1. 1 \in 1 .. Len(accepted) /\ (Len(accepted) = 2 => 2 \in 1 .. Len(accepted))
    BY <1>4
  <2>2. accepted[1] = es[1] /\ (Len(accepted) = 2 => 2 \in 1 .. Len(es) /\ accepted[2] = es[2])
    BY <1>4, <2>1
  <2> QED
    BY <1>1, <2>2
<1>7. /\ Increasing(cache')
      /\ \A x \in Int : x < LEO => EpochForOffset(cache', x) = EpochForOffset(cache, x)
      /\ \A i \in 1 .. Len(accepted) : EpochForOffset(cache', LEO + i - 1) = accepted[i]
  <2>1. cache # <<>> => accepted[1] >= cache[Len(cache)].Epoch
    BY <1>1, <1>6
  <2>2. Len(accepted) = 2 => accepted[1] <= accepted[2]
    BY <1>1, <1>6
  <2> QED
    BY <1>2, <1>3, <1>4, <2>1, <2>2, AssignTransitions
<1>8. ASSUME NEW x \in 0 .. Len(records) - 1 PROVE EpochForOffset(cache', x) = records[x + 1]
  <2>1. x \in Int /\ x < LEO
    BY <1>3 DEF LEO
  <2>2. EpochForOffset(cache, x) = records[x + 1]
    BY DEF EpochInv, Covers
  <2> QED
    BY <1>7, <2>1, <2>2
<1>9. Covers(cache', records)
  BY <1>8 DEF Covers
<1>10. Covers(cache', records \o accepted) /\ records \o accepted \in Seq(Nat)
  <2> DEFINE rs == records \o accepted
  <2>1. /\ rs \in Seq(Nat) /\ Len(rs) = Len(records) + Len(accepted)
        /\ \A i \in 1 .. Len(records) : rs[i] = records[i]
        /\ \A i \in 1 .. Len(accepted) : rs[Len(records) + i] = accepted[i]
    BY <1>3, <1>4, ConcatProperties
  <2> HIDE DEF rs
  <2>2. ASSUME NEW x \in 0 .. Len(rs) - 1 PROVE EpochForOffset(cache', x) = rs[x + 1]
    <3>0. Len(records) \in Nat /\ Len(accepted) \in Nat /\ LEO = Len(records)
      BY <1>3, <1>4 DEF LEO
    <3>1. CASE x < Len(records)
      <4>1. x \in 0 .. Len(records) - 1 /\ x + 1 \in 1 .. Len(records)
        BY <3>0, <3>1
      <4> QED
        BY <1>8, <2>1, <4>1
    <3>2. CASE ~(x < Len(records))
      <4> DEFINE i == x - Len(records) + 1
      <4>1. i \in 1 .. Len(accepted) /\ LEO + i - 1 = x /\ Len(records) + i = x + 1
        BY <2>1, <3>0, <3>2
      <4> HIDE DEF i
      <4> QED
        BY <1>7, <2>1, <4>1
    <3> QED
      BY <3>1, <3>2
  <2> QED
    BY <2>1, <2>2 DEF Covers, rs
<1>11. CASE PersistSucceeds(cache', dirty \/ cache' # cache) /\ records' \in {records, records \o accepted}
  <2>1. dirty' = FALSE /\ checkpoint' = cache'
    BY <1>11, Persisted
  <2>2. records' \in Seq(Nat) /\ Covers(cache', records')
    BY Zenon, <1>3, <1>9, <1>10, <1>11
  <2> QED
    BY Zenon, <1>2, <1>7, <2>1, <2>2 DEF EpochInv
<1>12. CASE PersistFails(cache', dirty \/ cache' # cache) /\ UNCHANGED records
  <2>1. dirty' = TRUE /\ (checkpoint' = checkpoint \/ checkpoint' = cache')
    BY <1>12, Persisted
  <2>2. Increasing(checkpoint') /\ Covers(checkpoint', records)
    BY <1>7, <1>9, <2>1 DEF EpochInv
  <2> QED
    BY <1>2, <1>3, <1>7, <1>9, <1>12, <2>1, <2>2 DEF EpochInv
<1> QED
  BY <1>5, <1>11, <1>12

\* Truncation preserves the invariant: a checkpoint that could not be cut still
\* covers the records that are left.
LEMMA TruncateToKeeps ==
  ASSUME EpochInv, NEW offset \in 0 .. LEO, TruncateTo(offset)
  PROVE  EpochInv'
<1>1. /\ leaderEpoch' = -1 /\ records' = SubSeq(records, 1, offset)
      /\ cache' = IF offset < LEO THEN TruncateFromEnd(cache, offset) ELSE cache
      /\ \/ PersistSucceeds(cache', dirty \/ cache' # cache)
         \/ PersistFails(cache', dirty \/ cache' # cache)
  BY DEF TruncateTo
<1>2. /\ records \in Seq(Nat) /\ Increasing(cache) /\ Covers(cache, records)
      /\ Increasing(checkpoint) /\ Covers(checkpoint, records)
      /\ offset \in 0 .. Len(records)
  BY DEF EpochInv, LEO
<1>3. /\ records' \in Seq(Nat) /\ Len(records') = offset
      /\ Covers(cache, records') /\ Covers(checkpoint, records')
  BY <1>1, <1>2, CoversPrefix
<1>4. Increasing(cache') /\ Covers(cache', records')
  <2>1. CASE offset < LEO
    <3>1. cache' = TruncateFromEnd(cache, offset) /\ offset \in Int
      BY <1>1, <1>2, <2>1
    <3>2. Increasing(cache')
      BY <1>2, <3>1, TruncateIncreasing DEF Increasing
    <3>3. ASSUME NEW x \in 0 .. Len(records') - 1 PROVE EpochForOffset(cache', x) = records'[x + 1]
      <4>1. x \in Int /\ x < offset
        BY <1>2, <1>3
      <4>2. EpochForOffset(cache', x) = EpochForOffset(cache, x)
        BY <1>2, <3>1, <4>1, TruncateRemembers DEF Increasing
      <4> QED
        BY <1>3, <4>2 DEF Covers
    <3> QED
      BY <3>2, <3>3 DEF Covers
  <2> QED
    BY <1>1, <1>2, <1>3, <2>1
<1>5. \/ dirty' = FALSE /\ checkpoint' = cache'
      \/ dirty' = TRUE /\ (checkpoint' = checkpoint \/ checkpoint' = cache')
  BY Zenon, <1>1, Persisted
<1> QED
  BY Zenon, <1>1, <1>2, <1>3, <1>4, <1>5 DEF EpochInv

\* A crash, whatever records it loses, preserves the invariant.
LEMMA CrashKeeps ==
  ASSUME EpochInv, NEW k \in 0 .. LEO, CrashAndRecover(k)
  PROVE  EpochInv'
<1>1. /\ records' = SubSeq(records, 1, k) /\ cache' = RecoverEpochCache(checkpoint, records')
      /\ checkpoint' = cache' /\ dirty' = FALSE /\ leaderEpoch' = -1
  BY DEF CrashAndRecover
<1>2. /\ records \in Seq(Nat) /\ Increasing(checkpoint) /\ Covers(checkpoint, records)
      /\ k \in 0 .. Len(records)
  BY DEF EpochInv, LEO
<1>3. records' \in Seq(Nat) /\ Covers(checkpoint, records')
  BY <1>1, <1>2, CoversPrefix
<1>4. Increasing(cache') /\ Covers(cache', records')
  BY Zenon, <1>1, <1>2, <1>3, RecoverCovers
<1> QED
  BY Zenon, <1>1, <1>3, <1>4 DEF EpochInv

\* Whatever is assigned, cut, lost or not written, both histories cover the log.
LEMMA EpochInvInductive ==
  ASSUME OlderRecords = FALSE
  PROVE  Spec => []EpochInv
<1>1. Init => EpochInv
  <2> SUFFICES ASSUME Init PROVE EpochInv
    OBVIOUS
  <2>1. /\ records = <<>> /\ cache = <<>> /\ checkpoint = <<>>
        /\ dirty = FALSE /\ leaderEpoch = -1
    BY DEF Init
  <2>2. Increasing(<<>>) /\ <<>> \in Seq(Nat) /\ Len(<<>>) = 0
    BY DEF Increasing, Caches, StrictlyIncreasing
  <2>3. Covers(<<>>, <<>>)
    BY <2>2 DEF Covers
  <2> QED
    BY Zenon, <2>1, <2>2, <2>3 DEF EpochInv
<1>2. EpochInv /\ [Next]_vars => EpochInv'
  <2> SUFFICES ASSUME EpochInv, [Next]_vars PROVE EpochInv'
    OBVIOUS
  <2>1. CASE \E e \in Epochs : MakeLeader(e)
    BY <2>1, MakeLeaderKeeps
  <2>2. CASE StopLeading
    <3>1. leaderEpoch' = -1 /\ UNCHANGED <<records, cache, dirty, checkpoint>>
      BY <2>2 DEF StopLeading
    <3> QED
      BY <3>1 DEF EpochInv
  <2>3. CASE AppendRaw
    BY <2>3, AppendRawKeeps
  <2>4. CASE \E es \in ReplicaBatches, fetchEpoch \in Epochs : AppendReplicaRaw(es, fetchEpoch)
    BY Zenon, <2>4, AppendReplicaKeeps
  <2>5. CASE \E offset \in 0 .. LEO : TruncateTo(offset)
    BY <2>5, TruncateToKeeps
  <2>6. CASE \E k \in 0 .. LEO : CrashAndRecover(k)
    BY <2>6, CrashKeeps
  <2>7. CASE UNCHANGED vars
    BY <2>7 DEF vars, EpochInv
  <2> QED
    BY <2>1, <2>2, <2>3, <2>4, <2>5, <2>6, <2>7 DEF Next
<1> QED
  BY <1>1, <1>2, PTL DEF Spec

-----------------------------------------------------------------------------
(* The theorems *)

\* The cache tells the epoch of every record in the log.
THEOREM CacheTellsEpochs ==
  ASSUME OlderRecords = FALSE
  PROVE  Spec => []CacheMatchesLog
<1>1. EpochInv => CacheMatchesLog
  BY DEF EpochInv, Covers, CacheMatchesLog, LEO
<1> QED
  BY <1>1, EpochInvInductive, PTL

\* A crash at any moment loses no epoch of a record that is not lost itself.
THEOREM CheckpointTellsEpochs ==
  ASSUME OlderRecords = FALSE
  PROVE  Spec => []CheckpointMatchesLog
<1>1. EpochInv => CheckpointMatchesLog
  <2> SUFFICES ASSUME EpochInv PROVE CheckpointMatchesLog
    OBVIOUS
  <2>1. Covers(RecoverEpochCache(checkpoint, records), records)
    BY RecoverCovers DEF EpochInv
  <2>2. CheckpointWritable
    BY DEF EpochInv, Increasing, CheckpointWritable
  <2> QED
    BY <2>1, <2>2 DEF CheckpointMatchesLog, Covers, LEO
<1> QED
  BY <1>1, EpochInvInductive, PTL

\* The end offset a leader answers is that of the first record newer than the
\* epoch it is asked for.
THEOREM EndOffsetTellsLog ==
  ASSUME OlderRecords = FALSE
  PROVE  Spec => []EndOffsetMatchesLog
<1>1. EpochInv => EndOffsetMatchesLog
  <2> SUFFICES ASSUME EpochInv, leaderEpoch >= 0, NEW e \in Epochs,
                      EndOffsetFor(cache, e, LEO) # Undefined
               PROVE  /\ \A offset \in 0 .. LEO - 1 :
                            (records[offset + 1] > e) = (offset >= EndOffsetFor(cache, e, LEO).EndOffset)
                      /\ EndOffsetFor(cache, e, LEO).EndOffset \in 0 .. LEO
    BY DEF EndOffsetMatchesLog
  <2>1. /\ records \in Seq(Nat) /\ cache \in Caches /\ StrictlyIncreasing(cache)
        /\ Covers(cache, records) /\ cache[Len(cache)].StartOffset <= LEO
        /\ LEO \in Nat /\ e \in Int
    BY EpochLogAssumption DEF EpochInv, Increasing, LEO, Epochs
  <2>2. ASSUME NEW offset \in 0 .. LEO - 1
        PROVE  (records[offset + 1] > e) = (offset >= EndOffsetFor(cache, e, LEO).EndOffset)
    <3>1. EpochForOffset(cache, offset) = records[offset + 1] /\ records[offset + 1] \in Nat
      BY <2>1 DEF Covers, LEO
    <3>2. EpochForOffset(cache, offset) # -1
      BY <3>1
    <3>3. (EpochForOffset(cache, offset) > e) <=> (offset >= EndOffsetFor(cache, e, LEO).EndOffset)
      BY <2>1, <3>2, EndOffsetSeparates
    <3>4. (records[offset + 1] > e) \in BOOLEAN
          /\ (offset >= EndOffsetFor(cache, e, LEO).EndOffset) \in BOOLEAN
      OBVIOUS
    <3> QED
      BY <3>1, <3>3, <3>4
  <2>3. EndOffsetFor(cache, e, LEO).EndOffset \in 0 .. LEO
    <3>1. PICK n \in 0 .. Len(cache) :
            EndOffsetFor(cache, e, LEO).EndOffset = IF n = Len(cache) THEN LEO ELSE cache[n + 1].StartOffset
      BY <2>1, EndOffsetAt
    <3>2. Len(cache) \in Nat /\ \A i \in 1 .. Len(cache) : cache[i].StartOffset \in Nat
      BY <2>1, EntriesTyped
    <3>3. CASE n = Len(cache)
      BY <2>1, <3>1, <3>3
    <3>4. CASE n # Len(cache)
      <4>1. n + 1 \in 1 .. Len(cache) /\ Len(cache) \in 1 .. Len(cache)
        BY <3>2, <3>4
      <4>2. cache[n + 1].StartOffset \in Nat /\ cache[Len(cache)].StartOffset \in Nat
        BY <3>2, <4>1
      <4>3. n + 1 = Len(cache) \/ cache[n + 1].StartOffset < cache[Len(cache)].StartOffset
        <5>1. CASE n + 1 < Len(cache)
          BY <2>1, <4>1, <5>1, IncreasingFar
        <5> QED
          BY <3>2, <4>1, <5>1
      <4>4. \A u, v, w \in Nat : u < v /\ v <= w => u \in 0 .. w
        OBVIOUS
      <4>5. \A u, w \in Nat : u <= w => u \in 0 .. w
        OBVIOUS
      <4>6. cache[n + 1].StartOffset \in 0 .. LEO
        BY <2>1, <4>2, <4>3, <4>4, <4>5
      <4> QED
        BY <3>1, <3>4, <4>6
    <3> QED
      BY <3>3, <3>4
  <2> QED
    BY <2>2, <2>3
<1> QED
  BY <1>1, EpochInvInductive, PTL

\* A leader's epoch is the latest in its cache and in the one a restarted broker
\* recovers.
THEOREM LeaderEpochSurvives ==
  ASSUME OlderRecords = FALSE
  PROVE  Spec => []LeaderEpochIsDurable
<1>1. EpochInv => LeaderEpochIsDurable
  <2> SUFFICES ASSUME EpochInv, leaderEpoch >= 0
               PROVE  \A c \in {cache, RecoverEpochCache(checkpoint, records)} :
                          c # <<>> /\ LatestLeaderEpoch(c) = leaderEpoch
    BY DEF LeaderEpochIsDurable
  <2>1. /\ records \in Seq(Nat) /\ Increasing(cache) /\ cache \in Caches /\ StrictlyIncreasing(cache)
        /\ Covers(cache, records) /\ checkpoint = cache /\ cache # <<>>
        /\ cache[Len(cache)].Epoch = leaderEpoch
        /\ cache[Len(cache)].StartOffset <= Len(records)
    BY DEF EpochInv, Increasing
  <2>2. RecoverEpochCache(checkpoint, records) = TruncateAfter(cache, Len(records)) /\ Len(records) \in Int
    BY <2>1, RecoverCut
  <2>3. TruncateAfter(cache, Len(records)) = cache
    <3>1. PICK n \in 0 .. Len(cache) :
              /\ TruncateAfter(cache, Len(records)) = SubSeq(cache, 1, n)
              /\ n < Len(cache) => ~(cache[n + 1].StartOffset <= Len(records))
      BY Zenon, <2>1, <2>2, TruncateAfterPrefix
    <3>2. Len(cache) \in Nat /\ \A i \in 1 .. Len(cache) : cache[i].StartOffset \in Nat
      BY <2>1, EntriesTyped
    <3>3. ~(n < Len(cache))
      <4> SUFFICES ASSUME n < Len(cache) PROVE FALSE
        OBVIOUS
      <4>1. n + 1 \in 1 .. Len(cache) /\ Len(cache) \in 1 .. Len(cache)
        BY <3>2
      <4>2. n + 1 = Len(cache) \/ cache[n + 1].StartOffset < cache[Len(cache)].StartOffset
        <5>1. CASE n + 1 < Len(cache)
          BY <2>1, <4>1, <5>1, IncreasingFar
        <5> QED
          BY <3>2, <4>1, <5>1
      <4>3. cache[n + 1].StartOffset \in Nat /\ cache[Len(cache)].StartOffset \in Nat
        BY <3>2, <4>1
      <4>4. \A u, v, w \in Int : u < v /\ v <= w => u <= w
        OBVIOUS
      <4>5. cache[n + 1].StartOffset <= Len(records)
        BY <2>1, <2>2, <4>2, <4>3, <4>4
      <4> QED
        BY <3>1, <4>5
    <3>4. SubSeq(cache, 1, Len(cache)) = cache
      BY <2>1 DEF Caches
    <3>5. n = Len(cache)
      BY <3>2, <3>3
    <3> QED
      BY <3>1, <3>4, <3>5, Zenon
  <2> QED
    BY <2>1, <2>2, <2>3 DEF LatestLeaderEpoch
<1> QED
  BY <1>1, EpochInvInductive, PTL
=============================================================================
