-------------------------- MODULE SegmentedLogProofs --------------------------
(***************************************************************************)
(* The segment files of a partition are one sequence of records, for every *)
(* segment size, index size and length of the log.                         *)
(***************************************************************************)
EXTENDS SegmentedLog, WellFoundedInduction, TLAPS

-----------------------------------------------------------------------------
(* Sets of numbers and sequences.                                          *)

\* Every non-empty set of natural numbers has a least element.
LEMMA LeastExists ==
  ASSUME NEW S \in SUBSET Nat, S # {}
  PROVE  \E n \in S : \A m \in S : n <= m
<1>1. PICK n \in S : \A m \in S : ~(<<m, n>> \in OpToRel(<, Nat))
  <2>1. PICK x : x \in S
    OBVIOUS
  <2> QED
    BY Zenon, <2>1, NatLessThanWellFounded, WFMin
<1>2. \A m \in Nat : m < n => <<m, n>> \in OpToRel(<, Nat)
  BY SMT DEF OpToRel
<1>3. \A m \in S : ~(m < n)
  BY <1>1, <1>2, Zenon
<1> QED
  BY <1>3

\* Min of a set of natural numbers.
LEMMA MinIsLeast ==
  ASSUME NEW S \in SUBSET Nat, S # {}
  PROVE  Min(S) \in S /\ \A m \in S : Min(S) <= m
  BY Zenon, LeastExists DEF Min

\* Max of a set of integers that has an upper bound.
LEMMA MaxIsGreatest ==
  ASSUME NEW S \in SUBSET Int, S # {}, NEW u \in Int, \A y \in S : y <= u
  PROVE  Max(S) \in S /\ \A y \in S : y <= Max(S)
<1> DEFINE Below == {d \in Nat : u - d \in S}
<1>1. \A y \in S : u - y \in Nat /\ u - (u - y) = y
  OBVIOUS
<1>2. Below \in SUBSET Nat /\ \A y \in S : u - y \in Below
  BY <1>1
<1>3. Below # {}
  BY Zenon, <1>2
<1>4. PICK d \in Below : \A e \in Below : d <= e
  BY Zenon, <1>2, <1>3, LeastExists
<1>5. u - d \in S
  OBVIOUS
<1>6. ASSUME NEW y \in S PROVE u - d >= y
  <2>1. d <= u - y
    BY <1>2, <1>4
  <2> QED
    BY <2>1, <1>4
<1> QED
  BY Zenon, <1>5, <1>6 DEF Max

\* The first n elements of a sequence.
LEMMA PrefixOf ==
  ASSUME NEW S, NEW c \in Seq(S), NEW n \in 0 .. Len(c)
  PROVE  /\ SubSeq(c, 1, n) \in Seq(S) /\ Len(SubSeq(c, 1, n)) = n
         /\ DOMAIN SubSeq(c, 1, n) = 1 .. n
         /\ \A i \in 1 .. n : SubSeq(c, 1, n)[i] = c[i]
<1>1. n \in Nat /\ Len(c) \in Nat /\ \A i \in 1 .. n : i \in 1 .. Len(c) /\ c[i] \in S
  OBVIOUS
<1>2. SubSeq(c, 1, n) = [i \in 1 .. n |-> c[i]]
  BY <1>1
<1>3. [i \in 1 .. n |-> c[i]] \in Seq(S)
  BY <1>1
<1> QED
  BY <1>1, <1>2, <1>3

\* A sequence with one more element.
LEMMA AppendOf ==
  ASSUME NEW S, NEW p \in Seq(S), NEW e \in S
  PROVE  /\ Append(p, e) \in Seq(S) /\ Len(Append(p, e)) = Len(p) + 1
         /\ DOMAIN Append(p, e) = 1 .. Len(p) + 1
         /\ Append(p, e)[Len(p) + 1] = e
         /\ \A i \in 1 .. Len(p) : Append(p, e)[i] = p[i]
  OBVIOUS

-----------------------------------------------------------------------------
(* Indexes.                                                                *)

\* The entries that rebuildIndexFromSegment writes for n batches increase and
\* lie inside the segment.
LEMMA RebuiltEntries ==
  ASSUME NEW n \in Nat
  PROVE  /\ RebuiltIndex(n) \in Seq(Nat)
         /\ \A i \in DOMAIN RebuiltIndex(n) :
              /\ RebuiltIndex(n)[i] < n
              /\ i > 1 => RebuiltIndex(n)[i - 1] < RebuiltIndex(n)[i]
<1> DEFINE I == IndexIntervalBytes
           q == (n - 1) \div I
<1>1. I \in Nat /\ I >= 1
  BY SegmentedLogAssumption
<1>2. CASE n = 0
  BY <1>2 DEF RebuiltIndex
<1>3. CASE n # 0
  <2>1. n - 1 \in Nat /\ q \in Nat /\ q * I <= n - 1
    BY <1>1, <1>3
  <2>2. RebuiltIndex(n) = [k \in 1 .. q + 1 |-> (k - 1) * I]
    BY <1>3 DEF RebuiltIndex
  <2>3. ASSUME NEW k \in 1 .. q + 1
        PROVE  (k - 1) * I \in Nat /\ (k - 1) * I < n /\ (k > 1 => (k - 1 - 1) * I < (k - 1) * I)
    <3> HIDE DEF q, I
    <3>1. k - 1 \in Nat /\ k - 1 <= q
      BY <2>1
    <3>2. \A a, b, c \in Nat : a <= b => a * c <= b * c
      BY Z3
    <3>3. (k - 1) * I <= q * I
      BY <1>1, <2>1, <3>1, <3>2
    <3>4. (k - 1 - 1) * I = (k - 1) * I - I
      BY <1>1, <3>1
    <3>5. (k - 1) * I \in Nat /\ q * I \in Nat
      BY <1>1, <2>1, <3>1
    <3> QED
      BY <1>1, <2>1, <3>3, <3>4, <3>5
  <2> HIDE DEF q, I
  <2>4. \A i \in 1 .. q + 1 : i > 1 => i - 1 \in 1 .. q + 1
    BY <2>1
  <2>5. RebuiltIndex(n) \in [1 .. q + 1 -> Nat]
    BY <2>2, <2>3
  <2>6. RebuiltIndex(n) \in Seq(Nat) /\ DOMAIN RebuiltIndex(n) = 1 .. q + 1
    BY <2>1, <2>5
  <2>7. \A i \in 1 .. q + 1 : RebuiltIndex(n)[i] = (i - 1) * I
    BY <2>2
  <2>8. ASSUME NEW i \in 1 .. q + 1, i > 1 PROVE RebuiltIndex(n)[i - 1] = (i - 1 - 1) * I
    BY <2>4, <2>7, <2>8
  <2> QED
    BY <2>3, <2>6, <2>7, <2>8
<1> QED
  BY <1>2, <1>3

\* An index of n batches that can be searched.
Searchable(entries, n) ==
    /\ entries \in Seq(Nat)
    /\ \A i \in DOMAIN entries :
         /\ entries[i] < n
         /\ i > 1 => entries[i - 1] < entries[i]

Recs == 1 .. MaxRecords

RollOps == {"roll: sealed", "roll: active", "append"}
TruncateOps == {"truncate: sealed", "truncate: active", "remove"}

\* What a writer remembers between two stores.
WriterOK ==
    \/ writer = Idle
    \/ /\ writer.op \in RollOps /\ DOMAIN writer = {"op", "old", "base", "n"}
       /\ writer.n \in 1 .. MaxGroup /\ written + writer.n <= MaxRecords
    \/ writer.op \in TruncateOps /\ DOMAIN writer = {"op", "target", "remove"}

\* The segment files hold records, and every index belongs to a file and can be
\* searched: this needs nothing of how the segments follow each other, and
\* also holds of files that a truncation has left behind.
FilesInv ==
    /\ \A b \in DOMAIN files : files[b] \in Seq(Recs)
    /\ DOMAIN index \subseteq DOMAIN files
    /\ \A b \in DOMAIN index : Searchable(index[b], Len(files[b]))
    /\ written \in Nat

IndexInv == FilesInv /\ WriterOK /\ faulted \in BOOLEAN

LEMMA RebuiltSearchable ==
  ASSUME NEW n \in Nat
  PROVE  Searchable(RebuiltIndex(n), n)
  BY Zenon, RebuiltEntries DEF Searchable

LEMMA TruncatedSearchable ==
  ASSUME NEW n \in Nat
  PROVE  Searchable(TruncatedIndex(n), n)
<1> DEFINE r == RebuiltIndex(n)
           m == Min({MaxIndexBytes, Len(r)})
<1>1. Searchable(r, n)
  BY RebuiltSearchable
<1>2. r \in Seq(Nat) /\ Len(r) \in Nat /\ MaxIndexBytes \in Nat
  BY <1>1, SegmentedLogAssumption DEF Searchable
<1>3. {MaxIndexBytes, Len(r)} \in SUBSET Nat
  BY <1>2
<1>4. m \in {MaxIndexBytes, Len(r)} /\ m <= Len(r)
  BY Zenon, <1>3, MinIsLeast
<1>5. m \in 0 .. Len(r)
  BY <1>2, <1>4
<1> HIDE DEF m, r
<1>6. /\ SubSeq(r, 1, m) \in Seq(Nat) /\ DOMAIN SubSeq(r, 1, m) = 1 .. m
      /\ \A i \in 1 .. m : SubSeq(r, 1, m)[i] = r[i]
  BY <1>2, <1>5, PrefixOf
<1>7. \A i \in 1 .. m : i \in DOMAIN r /\ (i > 1 => i - 1 \in 1 .. m)
  BY <1>2, <1>5
<1>8. TruncatedIndex(n) = SubSeq(r, 1, m)
  BY DEF TruncatedIndex, r, m
<1> QED
  BY Zenon, <1>1, <1>6, <1>7, <1>8 DEF Searchable

\* A sequence with a group of batches at its end.
LEMMA ConcatOf ==
  ASSUME NEW S, NEW p \in Seq(S), NEW q \in Seq(S)
  PROVE  /\ p \o q \in Seq(S) /\ Len(p \o q) = Len(p) + Len(q)
         /\ \A i \in 1 .. Len(p) : (p \o q)[i] = p[i]
         /\ \A i \in 1 .. Len(q) : (p \o q)[Len(p) + i] = q[i]
  OBVIOUS

LEMMA FunctionIsSequence ==
  ASSUME NEW S, NEW n \in Nat, NEW f \in [1 .. n -> S]
  PROVE  f \in Seq(S) /\ Len(f) = n
  OBVIOUS

LEMMA NewBatchesAre ==
  ASSUME written \in Nat, NEW n \in Nat, written + n <= MaxRecords
  PROVE  NewBatches(n) \in Seq(Recs) /\ Len(NewBatches(n)) = n
<1>1. \A i \in 1 .. n : written + i \in Recs
  BY SegmentedLogAssumption DEF Recs
<1>2. NewBatches(n) \in [1 .. n -> Recs]
  BY <1>1 DEF NewBatches
<1> QED
  BY <1>2, FunctionIsSequence

\* One entry more, for the batch at the end of the segment.
LEMMA AppendSearchable ==
  ASSUME NEW e, NEW n \in Nat, NEW k \in Nat \ {0}, Searchable(e, n)
  PROVE  Searchable(e, n + k) /\ Searchable(Append(e, n), n + k)
<1>1. e \in Seq(Nat) /\ Len(e) \in Nat /\ \A i \in 1 .. Len(e) : e[i] \in Nat /\ e[i] < n
  BY DEF Searchable
<1>2. Searchable(e, n + k)
  BY <1>1 DEF Searchable
<1>3. /\ Append(e, n) \in Seq(Nat) /\ DOMAIN Append(e, n) = 1 .. Len(e) + 1
      /\ Append(e, n)[Len(e) + 1] = n
      /\ \A i \in 1 .. Len(e) : Append(e, n)[i] = e[i]
  BY <1>1, AppendOf
<1>4. ASSUME NEW i \in 1 .. Len(e) + 1
      PROVE  Append(e, n)[i] < n + k /\ (i > 1 => Append(e, n)[i - 1] < Append(e, n)[i])
  <2>1. CASE i \in 1 .. Len(e)
    <3>1. i > 1 => i - 1 \in 1 .. Len(e)
      BY <1>1, <2>1
    <3>2. i > 1 => e[i - 1] < e[i]
      <4>1. i \in DOMAIN e
        BY <1>1, <2>1
      <4> QED
        BY <4>1 DEF Searchable
    <3> QED
      BY <1>1, <1>3, <2>1, <3>1, <3>2
  <2>2. CASE i = Len(e) + 1
    <3>1. i > 1 => i - 1 \in 1 .. Len(e)
      BY <1>1, <2>2
    <3> QED
      BY <1>1, <1>3, <2>2, <3>1
  <2> QED
    BY <1>1, <2>1, <2>2
<1> QED
  BY <1>2, <1>3, <1>4 DEF Searchable

LEMMA AppendToFiles ==
  ASSUME FilesInv, NEW base, NEW n \in 1 .. MaxGroup, written + n <= MaxRecords,
         AppendTo(base, n)
  PROVE  FilesInv' /\ written' \in Nat
<1> DEFINE more == files[base] \o NewBatches(n)
           next == IF /\ Len(files[base]) = 0 \/ since[base] + n >= IndexIntervalBytes
                      /\ ~IndexIsFull(base)
                   THEN Append(index[base], Len(files[base])) ELSE index[base]
<1>1. /\ files' = [files EXCEPT ![base] = more]
      /\ index' = [index EXCEPT ![base] = next]
      /\ written' = written + n
  BY DEF AppendTo
<1>2. written' \in Nat
  BY <1>1 DEF FilesInv
<1>3. ASSUME base \in DOMAIN files
      PROVE  more \in Seq(Recs) /\ Len(more) = Len(files[base]) + n
  <2>1. files[base] \in Seq(Recs)
    BY <1>3 DEF FilesInv
  <2>2. NewBatches(n) \in Seq(Recs) /\ Len(NewBatches(n)) = n
    BY NewBatchesAre DEF FilesInv
  <2>3. files[base] \o NewBatches(n) \in Seq(Recs)
    BY <2>1, <2>2, ConcatOf, Zenon
  <2>4. Len(files[base] \o NewBatches(n)) = Len(files[base]) + Len(NewBatches(n))
    BY <2>1, <2>2, ConcatOf, Zenon
  <2> QED
    BY <2>2, <2>3, <2>4, Zenon
<1>4. ASSUME base \in DOMAIN index PROVE Searchable(next, Len(more))
  <2>1. base \in DOMAIN files /\ Searchable(index[base], Len(files[base]))
    BY <1>4 DEF FilesInv
  <2>2. Len(files[base]) \in Nat /\ n \in Nat \ {0}
    BY <2>1 DEF FilesInv
  <2>3. /\ Searchable(index[base], Len(files[base]) + n)
        /\ Searchable(Append(index[base], Len(files[base])), Len(files[base]) + n)
    BY <2>1, <2>2, AppendSearchable
  <2>4. next = Append(index[base], Len(files[base])) \/ next = index[base]
    OBVIOUS
  <2>5. Len(more) = Len(files[base]) + n
    BY <1>3, <2>1
  <2> HIDE DEF more, next
  <2> QED
    BY Zenon, <2>3, <2>4, <2>5
<1> HIDE DEF more, next
<1>5. DOMAIN files' = DOMAIN files /\ DOMAIN index' = DOMAIN index
  BY <1>1
<1>6. ASSUME NEW b \in DOMAIN files PROVE files'[b] \in Seq(Recs)
  BY <1>1, <1>3 DEF FilesInv
<1>7. ASSUME NEW b \in DOMAIN index PROVE Searchable(index'[b], Len(files'[b]))
  <2>1. CASE b = base
    <3>1. index'[b] = next /\ files'[b] = more
      BY <1>1, <2>1 DEF FilesInv
    <3> QED
      BY <1>4, <2>1, <3>1
  <2>2. CASE b # base
    <3>1. index'[b] = index[b] /\ files'[b] = files[b]
      BY <1>1, <2>2 DEF FilesInv
    <3> QED
      BY <3>1 DEF FilesInv
  <2> QED
    BY <2>1, <2>2
<1> QED
  BY <1>2, <1>5, <1>6, <1>7 DEF FilesInv

LEMMA ReopenedFiles ==
  ASSUME Reopen, written' \in Nat, \A b \in DOMAIN files' : files'[b] \in Seq(Recs)
  PROVE  FilesInv' /\ WriterOK'
<1>1. DOMAIN index' = DOMAIN files' /\ \A b \in DOMAIN files' : index'[b] = RebuiltIndex(Len(files'[b]))
  BY DEF Reopen
<1>2. \A b \in DOMAIN files' : Searchable(index'[b], Len(files'[b]))
  BY <1>1, RebuiltSearchable
<1>3. writer' = Idle
  BY DEF Reopen
<1> QED
  BY <1>1, <1>2, <1>3 DEF FilesInv, WriterOK

LEMMA RolledFiles ==
  ASSUME FilesInv, NEW n \in 1 .. MaxGroup, Roll(n)
  PROVE  FilesInv'
<1> DEFINE base == NextOffset
           found == IF base \in DOMAIN files THEN files[base] ELSE <<>>
<1>1. found \in Seq(Recs)
  BY DEF FilesInv
<1>2. /\ files' = Bind(files, base, found)
      /\ index' = Bind(index, base, RebuiltIndex(Len(found)))
      /\ written' = written
  BY Zenon DEF Roll
<1>3. Len(found) \in Nat
  BY <1>1
<1>4. Searchable(RebuiltIndex(Len(found)), Len(found))
  BY <1>3, RebuiltSearchable
<1> HIDE DEF base, found
<1>5. /\ DOMAIN files' = DOMAIN files \cup {base} /\ DOMAIN index' = DOMAIN index \cup {base}
      /\ files'[base] = found /\ index'[base] = RebuiltIndex(Len(found))
      /\ \A b \in DOMAIN files : b # base => files'[b] = files[b]
      /\ \A b \in DOMAIN index : b # base => index'[b] = index[b]
  BY <1>2 DEF Bind
<1>6. ASSUME NEW b \in DOMAIN files' PROVE files'[b] \in Seq(Recs)
  BY <1>1, <1>5 DEF FilesInv
<1>7. ASSUME NEW b \in DOMAIN index' PROVE Searchable(index'[b], Len(files'[b]))
  <2>1. CASE b = base
    BY <1>4, <1>5, <2>1
  <2>2. CASE b # base
    <3>1. b \in DOMAIN index /\ b \in DOMAIN files
      BY <1>5, <2>2 DEF FilesInv
    <3>2. index'[b] = index[b] /\ files'[b] = files[b]
      BY <1>5, <2>2, <3>1
    <3> QED
      BY <3>1, <3>2 DEF FilesInv
  <2> QED
    BY <2>1, <2>2
<1> QED
  BY <1>2, <1>5, <1>6, <1>7 DEF FilesInv

LEMMA TruncatedFiles ==
  ASSUME FilesInv, NEW offset, TruncateTo(offset)
  PROVE  FilesInv'
<1> DEFINE target == FindSegment(sealed, active, offset)
<1>1. PICK n \in FindTruncationPosition(target, offset) :
         /\ files' = [files EXCEPT ![target] = SubSeq(@, 1, n)]
         /\ index' = [index EXCEPT ![target] = TruncatedIndex(n)]
  BY Zenon DEF TruncateTo
<1>2. n \in 0 .. Len(files[target]) /\ written' = written
  BY Zenon DEF FindTruncationPosition, TruncateTo
<1> HIDE DEF target
<1>3. DOMAIN files' = DOMAIN files /\ DOMAIN index' = DOMAIN index
  BY <1>1
<1>4. ASSUME target \in DOMAIN files
      PROVE  /\ SubSeq(files[target], 1, n) \in Seq(Recs) /\ Len(SubSeq(files[target], 1, n)) = n
             /\ n \in Nat
  <2>1. files[target] \in Seq(Recs)
    BY <1>4 DEF FilesInv
  <2> QED
    BY <1>2, <2>1, PrefixOf
<1>5. ASSUME NEW b \in DOMAIN files PROVE files'[b] \in Seq(Recs)
  BY <1>1, <1>4 DEF FilesInv
<1>6. ASSUME NEW b \in DOMAIN index PROVE Searchable(index'[b], Len(files'[b]))
  <2>1. CASE b = target
    <3>1. index'[b] = TruncatedIndex(n) /\ files'[b] = SubSeq(files[target], 1, n) /\ b \in DOMAIN files
      BY Zenon, <1>1, <2>1 DEF FilesInv
    <3> QED
      BY <1>4, <2>1, <3>1, TruncatedSearchable
  <2>2. CASE b # target
    <3>1. index'[b] = index[b] /\ files'[b] = files[b]
      BY <1>1, <2>2 DEF FilesInv
    <3> QED
      BY <3>1 DEF FilesInv
  <2> QED
    BY <2>1, <2>2
<1> QED
  BY <1>2, <1>3, <1>5, <1>6 DEF FilesInv

LEMMA RemovedFiles ==
  ASSUME FilesInv, RemovePair
  PROVE  FilesInv'
<1> DEFINE base == Min(writer.remove)
<1>1. /\ DOMAIN index' = DOMAIN index \ {base} /\ \A b \in DOMAIN index' : index'[b] = index[b]
      /\ written' = written
  BY DEF RemovePair
<1>2. /\ DOMAIN files' = DOMAIN files \ {base} \/ DOMAIN files' = DOMAIN files
      /\ \A b \in DOMAIN files' : files'[b] = files[b]
  BY DEF RemovePair
<1> HIDE DEF base
<1>3. DOMAIN index' \subseteq DOMAIN files' /\ DOMAIN index' \subseteq DOMAIN index
  BY <1>1, <1>2 DEF FilesInv
<1>4. \A b \in DOMAIN files' : files'[b] \in Seq(Recs)
  BY <1>2 DEF FilesInv
<1>5. ASSUME NEW b \in DOMAIN index' PROVE Searchable(index'[b], Len(files'[b]))
  BY <1>1, <1>2, <1>3 DEF FilesInv
<1> QED
  BY <1>1, <1>3, <1>4, <1>5 DEF FilesInv

\* The records of a group that were complete when the process stopped.
LEMMA CrashedFiles ==
  ASSUME FilesInv, NEW n \in 1 .. MaxGroup, NEW k \in 0 .. n - 1, CrashInAppend(n, k)
  PROVE  FilesInv' /\ WriterOK'
<1>1. /\ Reopen /\ written + n <= MaxRecords /\ written' = written + n
      /\ files' = [files EXCEPT ![active] = files[active] \o NewBatches(k)]
  BY DEF CrashInAppend
<1>2. /\ k \in Nat /\ n \in Nat /\ written \in Nat /\ MaxRecords \in Nat
  BY SegmentedLogAssumption DEF FilesInv
<1>3. written + k <= MaxRecords /\ written' \in Nat
  BY <1>1, <1>2
<1>4. NewBatches(k) \in Seq(Recs)
  BY <1>2, <1>3, NewBatchesAre
<1>5. ASSUME NEW b \in DOMAIN files PROVE files'[b] \in Seq(Recs)
  <2>1. files[b] \in Seq(Recs)
    BY DEF FilesInv
  <2>2. files[b] \o NewBatches(k) \in Seq(Recs)
    BY <1>4, <2>1, ConcatOf, Zenon
  <2> QED
    BY <1>1, <2>1, <2>2
<1>6. DOMAIN files' = DOMAIN files
  BY <1>1
<1> QED
  BY <1>1, <1>3, <1>5, <1>6, ReopenedFiles

\* The writer goes on to its next store.
LEMMA WriterGoesOn ==
  ASSUME WriterOK, NEW o, writer' = [writer EXCEPT !.op = o], written' = written,
         \/ writer.op \in RollOps /\ o \in RollOps
         \/ writer.op \in TruncateOps /\ o \in TruncateOps
  PROVE  /\ WriterOK'
         /\ writer'.op = o
         /\ o \in RollOps => writer'.old = writer.old /\ writer'.base = writer.base /\ writer'.n = writer.n
         /\ o \in TruncateOps => writer'.target = writer.target /\ writer'.remove = writer.remove
<1>1. RollOps \cap TruncateOps = {} /\ Idle.op \notin RollOps \cup TruncateOps
  BY Zenon DEF RollOps, TruncateOps, Idle
<1>2. DOMAIN writer' = DOMAIN writer /\ \A x \in DOMAIN writer : x # "op" => writer'[x] = writer[x]
  OBVIOUS
<1>3. CASE writer.op \in RollOps /\ o \in RollOps
  <2>1. /\ DOMAIN writer = {"op", "old", "base", "n"}
        /\ writer.n \in 1 .. MaxGroup /\ written + writer.n <= MaxRecords
    BY <1>1, <1>3 DEF WriterOK
  <2>2. writer'.op = o /\ writer'.old = writer.old /\ writer'.base = writer.base /\ writer'.n = writer.n
    BY <1>2, <2>1
  <2> QED
    BY <1>1, <1>2, <1>3, <2>1, <2>2 DEF WriterOK
<1>4. CASE writer.op \in TruncateOps /\ o \in TruncateOps
  <2>1. DOMAIN writer = {"op", "target", "remove"}
    BY <1>1, <1>4 DEF WriterOK
  <2>2. writer'.op = o /\ writer'.target = writer.target /\ writer'.remove = writer.remove
    BY <1>2, <2>1
  <2> QED
    BY <1>1, <1>2, <1>4, <2>1, <2>2 DEF WriterOK
<1> QED
  BY <1>3, <1>4

LEMMA IndexInvInductive ==
  ASSUME IndexInv, [Next]_vars
  PROVE  IndexInv'
<1> USE DEF IndexInv
<1>1. ASSUME NEW n \in 1 .. MaxGroup, AppendRaw(n) PROVE IndexInv'
  <2>1. AppendTo(active, n) /\ written + n <= MaxRecords /\ writer = Idle /\ writer' = Idle /\ faulted' = faulted
    BY <1>1 DEF AppendRaw
  <2>2. FilesInv'
    BY <2>1, AppendToFiles
  <2> QED
    BY <2>1, <2>2 DEF WriterOK
<1>2. ASSUME NEW n \in 1 .. MaxGroup, Roll(n) PROVE IndexInv'
  <2>1. FilesInv'
    BY <1>2, RolledFiles
  <2>2. /\ writer' = [op |-> "roll: sealed", old |-> active, base |-> NextOffset, n |-> n]
        /\ written' = written /\ written + n <= MaxRecords /\ faulted' = faulted
    BY Zenon, <1>2 DEF Roll
  <2>3. WriterOK'
    BY Zenon, <2>2 DEF WriterOK, RollOps
  <2> QED
    BY Zenon, <2>1, <2>2, <2>3
<1>3. CASE RollSealed
  <2>1. FilesInv' /\ faulted' = faulted
    BY Zenon, <1>3 DEF RollSealed, FilesInv
  <2>2. WriterOK'
    BY Zenon, <1>3, WriterGoesOn DEF RollSealed, RollOps, TruncateOps
  <2> QED
    BY <2>1, <2>2
<1>4. CASE RollActive
  <2>1. FilesInv' /\ faulted' = faulted
    BY Zenon, <1>4 DEF RollActive, FilesInv
  <2>2. WriterOK'
    BY Zenon, <1>4, WriterGoesOn DEF RollActive, RollOps, TruncateOps
  <2> QED
    BY <2>1, <2>2
<1>5. CASE AppendRolled
  <2>1. /\ writer' = Idle /\ faulted' = faulted
        /\ writer.n \in 1 .. MaxGroup /\ written + writer.n <= MaxRecords
    BY <1>5 DEF AppendRolled, WriterOK, RollOps, TruncateOps, Idle
  <2>2. CASE AppendTo(active, writer.n)
    BY <2>1, <2>2, AppendToFiles DEF WriterOK
  <2>3. CASE UNCHANGED <<files, index, since, written>>
    BY <2>1, <2>3 DEF FilesInv, WriterOK
  <2> QED
    BY <1>5, <2>2, <2>3 DEF AppendRolled
<1>6. ASSUME NEW offset, TruncateTo(offset) PROVE IndexInv'
  <2>1. FilesInv'
    BY <1>6, TruncatedFiles
  <2>2. WriterOK' /\ faulted' \in BOOLEAN
    <3> DEFINE target == FindSegment(sealed, active, offset)
               rest == {b \in Range(sealed) \cup {active} : b > target}
               record == [op |-> "truncate: sealed", target |-> target, remove |-> rest]
    <3>1. PICK n \in FindTruncationPosition(target, offset) :
             /\ writer' = IF target = active \/ RebuildFails(n) THEN Idle ELSE record
             /\ faulted' = (faulted \/ (target # active /\ RebuildFails(n)))
      BY Zenon, <1>6 DEF TruncateTo
    <3>2. record.op \in TruncateOps /\ DOMAIN record = {"op", "target", "remove"}
      BY DEF TruncateOps
    <3>3. writer' = Idle \/ writer' = record
      BY Zenon, <3>1
    <3> HIDE DEF target, rest, record
    <3>4. faulted' \in BOOLEAN
      BY <3>1, Zenon
    <3> QED
      BY <3>2, <3>3, <3>4 DEF WriterOK
  <2> QED
    BY <2>1, <2>2
<1>7. CASE TruncateSealed
  <2>1. FilesInv' /\ faulted' = faulted
    BY Zenon, <1>7 DEF TruncateSealed, FilesInv
  <2>2. WriterOK'
    BY Zenon, <1>7, WriterGoesOn DEF TruncateSealed, RollOps, TruncateOps
  <2> QED
    BY <2>1, <2>2
<1>8. CASE TruncateActive
  <2>1. FilesInv' /\ faulted' = faulted
    BY Zenon, <1>8 DEF TruncateActive, FilesInv
  <2>2. WriterOK'
    BY Zenon, <1>8, WriterGoesOn DEF TruncateActive, RollOps, TruncateOps
  <2> QED
    BY <2>1, <2>2
<1>9. CASE RemovePair
  <2>1. FilesInv'
    BY <1>9, RemovedFiles
  <2>2. faulted' \in BOOLEAN
    BY Zenon, <1>9 DEF RemovePair
  <2>3. /\ writer.op = "remove"
        /\ writer' = Idle \/ writer' = [writer EXCEPT !.remove = @ \ {Min(writer.remove)}]
    BY <1>9 DEF RemovePair
  <2>4. WriterOK'
    BY Zenon, <2>3 DEF WriterOK, RollOps, TruncateOps, Idle
  <2> QED
    BY <2>1, <2>2, <2>4
<1>10. CASE CrashAndReopen
  <2>1. Reopen /\ files' = files /\ written' = written /\ faulted' = (faulted \/ Truncating)
    BY <1>10 DEF CrashAndReopen
  <2>2. FilesInv' /\ WriterOK'
    BY <2>1, ReopenedFiles DEF FilesInv
  <2>3. faulted' \in BOOLEAN
    BY Zenon, <2>1 DEF Truncating
  <2> QED
    BY <2>2, <2>3
<1>11. ASSUME NEW n \in 1 .. MaxGroup, NEW k \in 0 .. n - 1, CrashInAppend(n, k) PROVE IndexInv'
  <2>1. FilesInv' /\ WriterOK'
    BY <1>11, CrashedFiles
  <2> QED
    BY <1>11, <2>1 DEF CrashInAppend
<1>12. ASSUME UNCHANGED <<files, memory, writer, written, faulted>> PROVE IndexInv'
  BY <1>12 DEF FilesInv, WriterOK, memory
<1>13. ASSUME NEW offset, ReadActive(offset) PROVE IndexInv'
  BY <1>12, <1>13 DEF ReadActive
<1>14. CASE ReadSealed \/ ReadRecord \/ ReadDone
  BY <1>12, <1>14 DEF ReadSealed, ReadRecord, ReadDone
<1>15. CASE OldestSealed \/ OldestActive \/ OldestDone
  BY <1>12, <1>15 DEF OldestSealed, OldestActive, OldestDone
<1>16. CASE UNCHANGED vars
  BY <1>12, <1>16 DEF vars
<1> QED
  BY <1>1, <1>2, <1>3, <1>4, <1>5, <1>6, <1>7, <1>8, <1>9, <1>10, <1>11, <1>13, <1>14, <1>15, <1>16
  DEF Next

\* Every index can be searched: its entries strictly increase and lie inside its
\* segment (Index.Lookup), whatever was appended, rolled, cut, left behind by an
\* interrupted truncation and found again.
THEOREM IndexesSearchable == Spec => []IndexSearchable
<1>1. Init => IndexInv
  <2> SUFFICES ASSUME Init PROVE IndexInv
    OBVIOUS
  <2>1. /\ DOMAIN files = {0} /\ DOMAIN index = {0} /\ files[0] = <<>> /\ index[0] = <<>>
        /\ written = 0 /\ writer = Idle /\ faulted = FALSE
    BY DEF Init
  <2>2. Searchable(<<>>, 0) /\ Len(<<>>) = 0 /\ <<>> \in Seq(Recs)
    BY DEF Searchable
  <2> QED
    BY <2>1, <2>2 DEF IndexInv, FilesInv, WriterOK
<1>2. IndexInv /\ [Next]_vars => IndexInv'
  BY IndexInvInductive
<1>3. IndexInv => IndexSearchable
  BY DEF IndexInv, FilesInv, Searchable, IndexSearchable
<1> QED
  BY <1>1, <1>2, <1>3, PTL DEF Spec

-----------------------------------------------------------------------------
(* Segments that follow each other, and the records in them.               *)

\* The segments s of the files f begin at offset 0, and each one begins where
\* the one before it ends.
Chain(s, f) ==
    /\ s \in Seq(Nat) /\ s # <<>> /\ s[1] = 0
    /\ \A i, j \in DOMAIN s : i < j => s[i] < s[j]
    /\ \A i \in DOMAIN s : s[i] \in DOMAIN f /\ f[s[i]] \in Seq(Recs)
    /\ \A i \in 1 .. Len(s) - 1 : s[i] + Len(f[s[i]]) = s[i + 1]

End(s, f) == s[Len(s)] + Len(f[s[Len(s)]])

Flat(s, f) == Joined([i \in DOMAIN s |-> f[s[i]]])

\* The k-th record is in segment s[i].
Holds(s, f, i, k) == s[i] < k /\ k <= s[i] + Len(f[s[i]])

At(s, f, k) ==
    LET i == CHOOSE i \in DOMAIN s : Holds(s, f, i, k) IN f[s[i]][k - s[i]]

LEMMA ChainTypes ==
  ASSUME NEW s, NEW f, Chain(s, f)
  PROVE  /\ Len(s) \in Nat \ {0} /\ DOMAIN s = 1 .. Len(s) /\ Len(s) \in DOMAIN s /\ 1 \in DOMAIN s
         /\ \A i \in DOMAIN s : s[i] \in Nat /\ Len(f[s[i]]) \in Nat
         /\ \A i, j \in DOMAIN s : i < j => s[i] + Len(f[s[i]]) <= s[j]
         /\ End(s, f) \in Nat
<1>1. /\ s \in Seq(Nat) /\ s # <<>>
      /\ \A i \in DOMAIN s : f[s[i]] \in Seq(Recs)
  BY DEF Chain
<1>2. Len(s) \in Nat \ {0} /\ DOMAIN s = 1 .. Len(s) /\ Len(s) \in DOMAIN s /\ 1 \in DOMAIN s
  BY <1>1
<1>3. \A i \in DOMAIN s : s[i] \in Nat /\ Len(f[s[i]]) \in Nat
  BY <1>1
<1>4. ASSUME NEW i \in DOMAIN s, NEW j \in DOMAIN s, i < j
      PROVE  s[i] + Len(f[s[i]]) <= s[j]
  <2>1. i \in 1 .. Len(s) - 1 /\ i + 1 \in DOMAIN s /\ (i + 1 = j \/ i + 1 < j)
    BY <1>2, <1>4
  <2>2. s[i] + Len(f[s[i]]) = s[i + 1]
    BY Zenon, <2>1 DEF Chain
  <2>3. s[i + 1] = s[j] \/ s[i + 1] < s[j]
    BY <2>1 DEF Chain
  <2>4. s[i + 1] \in Nat /\ s[j] \in Nat
    BY <1>3, <2>1
  <2> QED
    BY <2>2, <2>3, <2>4
<1>5. End(s, f) \in Nat
  BY <1>2, <1>3 DEF End
<1> QED
  BY <1>2, <1>3, <1>4, <1>5

\* No record is in two segments.
LEMMA HeldOnce ==
  ASSUME NEW s, NEW f, Chain(s, f), NEW k \in Nat, NEW i \in DOMAIN s, Holds(s, f, i, k)
  PROVE  /\ \A j \in DOMAIN s : Holds(s, f, j, k) => j = i
         /\ At(s, f, k) = f[s[i]][k - s[i]]
         /\ k - s[i] \in 1 .. Len(f[s[i]]) /\ k <= End(s, f)
<1>1. ASSUME NEW j \in DOMAIN s, Holds(s, f, j, k) PROVE j = i
  <2>1. i \in Nat /\ j \in Nat /\ s[i] \in Nat /\ s[j] \in Nat /\ Len(f[s[i]]) \in Nat /\ Len(f[s[j]]) \in Nat
    BY SMTT(30), ChainTypes
  <2>2. /\ i < j => s[i] + Len(f[s[i]]) <= s[j]
        /\ j < i => s[j] + Len(f[s[j]]) <= s[i]
    BY ChainTypes, Zenon
  <2>3. /\ s[i] < k /\ k <= s[i] + Len(f[s[i]])
        /\ s[j] < k /\ k <= s[j] + Len(f[s[j]])
    BY <1>1 DEF Holds
  <2> QED
    BY <2>1, <2>2, <2>3
<1>2. (CHOOSE j \in DOMAIN s : Holds(s, f, j, k)) = i
  BY <1>1
<1>3. s[i] \in Nat /\ Len(f[s[i]]) \in Nat
  BY ChainTypes
<1>4. k - s[i] \in 1 .. Len(f[s[i]])
  BY <1>3 DEF Holds
<1>5. k <= End(s, f)
  <2>1. Len(s) \in DOMAIN s /\ Len(s) \in Nat /\ i \in 1 .. Len(s)
    BY ChainTypes
  <2>2. s[Len(s)] \in Nat /\ Len(f[s[Len(s)]]) \in Nat
    BY <2>1, ChainTypes
  <2>3. i = Len(s) \/ s[i] + Len(f[s[i]]) <= s[Len(s)]
    BY <2>1, ChainTypes
  <2> QED
    BY <1>3, <2>2, <2>3 DEF Holds, End
<1> QED
  BY <1>1, <1>2, <1>4, <1>5 DEF At

\* Every record up to the end is in a segment.
LEMMA HeldSomewhere ==
  ASSUME NEW s, NEW f, Chain(s, f), NEW k \in 1 .. End(s, f)
  PROVE  \E i \in DOMAIN s : Holds(s, f, i, k)
<1> DEFINE Reach == {i \in DOMAIN s : k <= s[i] + Len(f[s[i]])}
<1>1. /\ Len(s) \in Nat \ {0} /\ DOMAIN s = 1 .. Len(s) /\ Len(s) \in DOMAIN s /\ k \in Nat /\ k > 0
      /\ \A i \in DOMAIN s : s[i] \in Nat /\ Len(f[s[i]]) \in Nat
  BY ChainTypes
<1>2. Len(s) \in Reach
  BY <1>1, ChainTypes DEF End
<1>3. Reach \in SUBSET Nat
  BY <1>1
<1>4. PICK i \in Reach : \A j \in Reach : i <= j
  BY Zenon, <1>2, <1>3, LeastExists
<1>5. CASE i = 1
  BY <1>1, <1>4, <1>5 DEF Holds, Chain
<1>6. CASE i # 1
  <2>1. i - 1 \in DOMAIN s /\ i - 1 \in 1 .. Len(s) - 1 /\ i - 1 + 1 = i /\ ~(i <= i - 1)
    BY <1>1, <1>6
  <2>2. i - 1 \notin Reach
    BY <1>4, <2>1
  <2>3. s[i - 1] + Len(f[s[i - 1]]) = s[i]
    BY Zenon, <2>1 DEF Chain
  <2>4. s[i] < k
    BY <1>1, <2>1, <2>2, <2>3
  <2> QED
    BY <1>4, <2>4 DEF Holds
<1> QED
  BY <1>5, <1>6

\* What Joined defines by recursion.
FlatSteps(q, g) == g = [i \in 1 .. Len(q) |-> IF i = 1 THEN q[i] ELSE g[i - 1] \o q[i]]

LEMMA JoinedIsLast ==
  ASSUME NEW q, Len(q) # 0
  PROVE  Joined(q) = (CHOOSE g : FlatSteps(q, g))[Len(q)]
  BY DEF Joined, FlatSteps

\* Two functions that satisfy the recursion agree.
LEMMA FlatStepsUnique ==
  ASSUME NEW q, Len(q) \in Nat, NEW g, NEW h, FlatSteps(q, g), FlatSteps(q, h)
  PROVE  \A i \in 1 .. Len(q) : g[i] = h[i]
<1> DEFINE Wrong == {i \in 1 .. Len(q) : g[i] # h[i]}
<1>1. SUFFICES ASSUME Wrong # {} PROVE FALSE
  OBVIOUS
<1>2. Wrong \in SUBSET Nat
  OBVIOUS
<1>3. PICK i \in Wrong : \A j \in Wrong : i <= j
  BY Zenon, <1>1, <1>2, LeastExists
<1>4. /\ g[i] = IF i = 1 THEN q[i] ELSE g[i - 1] \o q[i]
      /\ h[i] = IF i = 1 THEN q[i] ELSE h[i - 1] \o q[i]
  BY Zenon DEF FlatSteps
<1>5. i # 1 /\ g[i] # h[i]
  BY <1>3, <1>4
<1>6. i - 1 \in 1 .. Len(q) /\ ~(i <= i - 1)
  BY <1>5
<1>7. g[i - 1] = h[i - 1]
  BY <1>3, <1>6
<1> QED
  BY <1>4, <1>5, <1>7

\* Two sequences with the same elements.
LEMMA SameSequence ==
  ASSUME NEW S, NEW p \in Seq(S), NEW q \in Seq(S), Len(p) = Len(q),
         \A k \in 1 .. Len(p) : p[k] = q[k]
  PROVE  p = q
  OBVIOUS

\* The files of a chain, one after the other, are the sequence of its records.
LEMMA FlatIs ==
  ASSUME NEW s, NEW f, Chain(s, f)
  PROVE  Flat(s, f) = [k \in 1 .. End(s, f) |-> At(s, f, k)]
<1> DEFINE q == [i \in DOMAIN s |-> f[s[i]]]
           To(i) == s[i] + Len(f[s[i]])
           W == [i \in 1 .. Len(s) |-> [k \in 1 .. To(i) |-> At(s, f, k)]]
<1>1. /\ Len(s) \in Nat \ {0} /\ DOMAIN s = 1 .. Len(s)
      /\ \A i \in DOMAIN s : s[i] \in Nat /\ Len(f[s[i]]) \in Nat /\ To(i) \in Nat
      /\ \A i \in DOMAIN s : f[s[i]] \in Seq(Recs)
  BY ChainTypes DEF Chain
<1>2. q \in [1 .. Len(s) -> Seq(Recs)] /\ \A i \in 1 .. Len(s) : q[i] = f[s[i]]
  BY <1>1
<1>3. q \in Seq(Seq(Recs)) /\ Len(q) = Len(s)
  BY <1>1, <1>2, FunctionIsSequence
<1>4. ASSUME NEW i \in 1 .. Len(s), NEW k \in 1 .. Len(f[s[i]])
      PROVE  s[i] + k \in Nat /\ At(s, f, s[i] + k) = f[s[i]][k] /\ f[s[i]][k] \in Recs
  <2>1. s[i] \in Nat /\ i \in DOMAIN s
    BY <1>1
  <2>2. \A m \in Nat : Holds(s, f, i, m) => At(s, f, m) = f[s[i]][m - s[i]]
    BY <2>1, HeldOnce
  <2>3. f[s[i]][k] \in Recs
    BY <1>1
  <2>4. PICK m \in Nat : m = s[i] + k
    BY <2>1
  <2>5. Holds(s, f, i, m) /\ m - s[i] = k
    BY <2>1, <2>4 DEF Holds
  <2>6. At(s, f, m) = f[s[i]][k]
    BY <2>2, <2>5, Zenon
  <2> QED
    BY <2>3, <2>4, <2>6
<1>5. ASSUME NEW i \in 1 .. Len(s)
      PROVE  /\ W[i] \in Seq(Recs) /\ Len(W[i]) = To(i)
             /\ \A k \in 1 .. To(i) : W[i][k] = At(s, f, k)
  <2>1. ASSUME NEW k \in 1 .. To(i) PROVE At(s, f, k) \in Recs
    <3>1. k \in 1 .. End(s, f)
      <4>1. Len(s) \in DOMAIN s /\ (i = Len(s) \/ i < Len(s))
        BY SMTT(30), ChainTypes
      <4>2. i = Len(s) \/ To(i) <= s[Len(s)]
        BY Zenon, <1>1, <4>1, ChainTypes
      <4>3. To(i) \in Nat /\ s[Len(s)] \in Nat /\ Len(f[s[Len(s)]]) \in Nat
        BY Zenon, <1>1, <4>1
      <4> QED
        BY <4>2, <4>3 DEF End
    <3>2. PICK j \in DOMAIN s : Holds(s, f, j, k)
      BY <3>1, HeldSomewhere
    <3>3. At(s, f, k) = f[s[j]][k - s[j]] /\ k - s[j] \in 1 .. Len(f[s[j]])
      BY <3>1, <3>2, HeldOnce
    <3> QED
      BY <1>1, <3>3
  <2>2. W[i] = [k \in 1 .. To(i) |-> At(s, f, k)] /\ To(i) \in Nat
    BY <1>1
  <2> HIDE DEF W, To
  <2>3. W[i] \in [1 .. To(i) -> Recs]
    BY SMTT(30), <2>1, <2>2
  <2> QED
    BY <2>2, <2>3, FunctionIsSequence
<1>6. ASSUME NEW i \in 1 .. Len(s)
      PROVE  W[i] = IF i = 1 THEN q[i] ELSE W[i - 1] \o q[i]
  <2>1. q[i] \in Seq(Recs) /\ q[i] = f[s[i]] /\ s[i] \in Nat /\ Len(q[i]) \in Nat /\ To(i) = s[i] + Len(q[i])
    BY <1>1, <1>2
  <2>2. \A k \in 1 .. Len(q[i]) : At(s, f, s[i] + k) = q[i][k]
    BY <1>2, <1>4
  <2>3. CASE i = 1
    <3>1. s[i] = 0
      BY <2>3 DEF Chain
    <3>2. To(i) = Len(q[i]) /\ \A k \in 1 .. Len(q[i]) : 0 + k = k
      BY <2>1, <3>1
    <3>3. \A k \in 1 .. Len(W[i]) : W[i][k] = q[i][k]
      BY Zenon, <1>5, <2>2, <3>1, <3>2
    <3> HIDE DEF W, To, q
    <3>4. W[i] = q[i]
      BY Zenon, <1>5, <2>1, <3>2, <3>3, SameSequence
    <3> QED
      BY <2>3, <3>4
  <2>4. CASE i # 1
    <3>1. i - 1 \in 1 .. Len(s) /\ i - 1 \in 1 .. Len(s) - 1 /\ i - 1 + 1 = i
      BY <1>1, <2>4
    <3>2. To(i - 1) = s[i]
      BY <3>1 DEF Chain
    <3> DEFINE p == W[i - 1] \o q[i]
    <3>3. /\ W[i - 1] \in Seq(Recs) /\ Len(W[i - 1]) = s[i]
          /\ \A k \in 1 .. s[i] : W[i - 1][k] = At(s, f, k)
      BY Zenon, <1>5, <3>1, <3>2
    <3> HIDE DEF W, To, q
    <3>4. /\ p \in Seq(Recs) /\ Len(p) = s[i] + Len(q[i])
          /\ \A k \in 1 .. s[i] : p[k] = At(s, f, k)
          /\ \A k \in 1 .. Len(q[i]) : p[s[i] + k] = q[i][k]
      <4>1. /\ p \in Seq(Recs) /\ Len(p) = Len(W[i - 1]) + Len(q[i])
            /\ \A k \in 1 .. Len(W[i - 1]) : p[k] = W[i - 1][k]
            /\ \A k \in 1 .. Len(q[i]) : p[Len(W[i - 1]) + k] = q[i][k]
        <5>1. PICK a, b \in Seq(Recs) : a = W[i - 1] /\ b = q[i]
          BY <2>1, <3>3, Zenon
        <5>2. /\ a \o b \in Seq(Recs) /\ Len(a \o b) = Len(a) + Len(b)
              /\ \A k \in 1 .. Len(a) : (a \o b)[k] = a[k]
              /\ \A k \in 1 .. Len(b) : (a \o b)[Len(a) + k] = b[k]
          BY ConcatOf
        <5> QED
          BY <5>1, <5>2, Zenon
      <4> HIDE DEF p
      <4> QED
        BY SMTT(30), <3>3, <4>1
    <3> HIDE DEF p
    <3>5. ASSUME NEW k \in 1 .. To(i) PROVE p[k] = At(s, f, k)
      <4>1. CASE k \in 1 .. s[i]
        BY <3>4, <4>1
      <4>2. CASE k \notin 1 .. s[i]
        <5>1. k - s[i] \in 1 .. Len(q[i]) /\ s[i] + (k - s[i]) = k
          BY <2>1, <4>2
        <5>2. p[s[i] + (k - s[i])] = q[i][k - s[i]] /\ At(s, f, s[i] + (k - s[i])) = q[i][k - s[i]]
          BY <2>2, <3>4, <5>1
        <5> QED
          BY <5>1, <5>2
      <4> QED
        BY <4>1, <4>2
    <3>6. Len(W[i]) = Len(p) /\ W[i] \in Seq(Recs) /\ \A k \in 1 .. Len(W[i]) : W[i][k] = p[k]
      BY <1>5, <2>1, <3>4, <3>5
    <3>7. W[i] = p
      BY <3>4, <3>6, SameSequence
    <3> QED
      BY Zenon, <2>4, <3>7 DEF p
  <2> QED
    BY Zenon, <2>3, <2>4
<1>7. FlatSteps(q, W)
  <2>1. W = [i \in 1 .. Len(s) |-> W[i]]
    OBVIOUS
  <2> HIDE DEF W, q
  <2> QED
    BY Zenon, <1>3, <1>6, <2>1 DEF FlatSteps
<1> DEFINE g == CHOOSE g : FlatSteps(q, g)
<1>8. FlatSteps(q, g)
  <2> HIDE DEF q, W
  <2> QED
    BY <1>7
<1>9. /\ Flat(s, f) = g[Len(s)] /\ Len(s) \in 1 .. Len(q)
  <2>1. Flat(s, f) = Joined(q)
    BY DEF Flat
  <2> HIDE DEF q, W
  <2>2. Len(q) = Len(s) /\ Len(q) # 0 /\ Len(s) \in 1 .. Len(s)
    BY <1>3, ChainTypes
  <2> QED
    BY <2>1, <2>2, JoinedIsLast
<1>10. W[Len(s)] = [k \in 1 .. End(s, f) |-> At(s, f, k)]
  <2>1. Len(s) \in 1 .. Len(s)
    BY ChainTypes
  <2>2. W[Len(s)] = [k \in 1 .. To(Len(s)) |-> At(s, f, k)]
    BY <2>1
  <2>3. To(Len(s)) = End(s, f)
    BY DEF End
  <2> HIDE DEF W, To
  <2> QED
    BY <2>2, <2>3
<1> HIDE DEF q, W, g
<1>11. g[Len(s)] = W[Len(s)]
  BY SMTT(30), <1>3, <1>7, <1>8, <1>9, <1>1, FlatStepsUnique
<1> QED
  BY <1>9, <1>10, <1>11

LEMMA FlatRecords ==
  ASSUME NEW s, NEW f, Chain(s, f)
  PROVE  /\ Flat(s, f) \in Seq(Recs) /\ Len(Flat(s, f)) = End(s, f)
         /\ \A k \in Nat : \A i \in DOMAIN s :
              Holds(s, f, i, k) => k \in 1 .. End(s, f) /\ Flat(s, f)[k] = f[s[i]][k - s[i]]
<1>1. Flat(s, f) = [k \in 1 .. End(s, f) |-> At(s, f, k)] /\ End(s, f) \in Nat
  BY FlatIs, ChainTypes
<1>2. ASSUME NEW k \in 1 .. End(s, f) PROVE At(s, f, k) \in Recs
  <2>1. PICK j \in DOMAIN s : Holds(s, f, j, k)
    BY HeldSomewhere
  <2>2. At(s, f, k) = f[s[j]][k - s[j]] /\ k - s[j] \in 1 .. Len(f[s[j]])
    BY <1>1, <2>1, HeldOnce
  <2> QED
    BY <2>2 DEF Chain
<1>3. Flat(s, f) \in [1 .. End(s, f) -> Recs]
  BY <1>1, <1>2
<1>4. ASSUME NEW k \in Nat, NEW i \in DOMAIN s, Holds(s, f, i, k)
      PROVE  k \in 1 .. End(s, f) /\ Flat(s, f)[k] = f[s[i]][k - s[i]]
  <2>1. At(s, f, k) = f[s[i]][k - s[i]] /\ k <= End(s, f) /\ s[i] < k /\ s[i] \in Nat
    BY <1>4, HeldOnce, ChainTypes DEF Holds
  <2>2. k \in 1 .. End(s, f)
    BY <1>1, <2>1
  <2> QED
    BY <1>1, <2>1, <2>2
<1> QED
  BY <1>1, <1>3, <1>4, FunctionIsSequence

\* x is a prefix of y.
Begins(x, y) == Len(x) <= Len(y) /\ \A k \in 1 .. Len(x) : x[k] = y[k]

\* When every file of the chain t, g is the beginning of the same file of the
\* chain s, f, or is empty, then its records are the first ones of s, f.
LEMMA FlatPrefix ==
  ASSUME NEW s, NEW f, Chain(s, f), NEW t, NEW g, Chain(t, g),
         \A j \in DOMAIN t : \/ g[t[j]] = <<>>
                             \/ \E i \in DOMAIN s : s[i] = t[j] /\ Begins(g[t[j]], f[t[j]])
  PROVE  /\ End(t, g) <= End(s, f)
         /\ \A k \in 1 .. End(t, g) : Flat(t, g)[k] = Flat(s, f)[k]
<1>1. ASSUME NEW k \in 1 .. End(t, g)
      PROVE  k \in 1 .. End(s, f) /\ Flat(t, g)[k] = Flat(s, f)[k]
  <2>1. k \in Nat
    BY ChainTypes
  <2>2. PICK j \in DOMAIN t : Holds(t, g, j, k)
    BY HeldSomewhere
  <2>3. /\ t[j] \in Nat /\ Len(g[t[j]]) \in Nat /\ k - t[j] \in 1 .. Len(g[t[j]])
        /\ Flat(t, g)[k] = g[t[j]][k - t[j]]
    BY <2>1, <2>2, HeldOnce, ChainTypes, FlatRecords
  <2>4. g[t[j]] # <<>>
    BY <2>3
  <2>5. PICK i \in DOMAIN s : s[i] = t[j] /\ Begins(g[t[j]], f[t[j]])
    BY <2>4
  <2>6. s[i] \in Nat /\ Len(f[s[i]]) \in Nat
    BY ChainTypes
  <2>7. Holds(s, f, i, k)
    BY SMTT(30), <2>2, <2>3, <2>5, <2>6 DEF Holds, Begins
  <2>8. k \in 1 .. End(s, f) /\ Flat(s, f)[k] = f[s[i]][k - s[i]]
    BY SMTT(30), <2>1, <2>7, FlatRecords
  <2>9. g[t[j]][k - t[j]] = f[t[j]][k - t[j]]
    BY <2>3, <2>5 DEF Begins
  <2> QED
    BY <2>3, <2>5, <2>8, <2>9
<1>2. End(t, g) \in Nat /\ End(s, f) \in Nat
  BY ChainTypes
<1>3. End(t, g) <= End(s, f)
  <2>1. CASE End(t, g) = 0
    BY <1>2, <2>1
  <2>2. CASE End(t, g) # 0
    <3>1. End(t, g) \in 1 .. End(t, g)
      BY <1>2, <2>2
    <3>2. End(t, g) \in 1 .. End(s, f)
      BY <1>1, <3>1
    <3> QED
      BY <1>2, <3>2
  <2> QED
    BY <2>1, <2>2
<1> QED
  BY <1>1, <1>3

-----------------------------------------------------------------------------
(* How the segments follow each other while no truncation is interrupted.  *)

\* Files that are not, or not any more, segments of the log.
Waiting ==
    CASE writer.op \in {"roll: sealed", "roll: active"} -> {writer.base}
      [] writer.op \in TruncateOps -> writer.remove
      [] OTHER -> {}

Struct ==
    /\ sealed \in Seq(Nat) /\ active \in Nat
    /\ DOMAIN index = DOMAIN files
    /\ Chain(Segments, files)
    /\ DOMAIN files = Range(Segments) \cup Waiting
    /\ writer.op \in {"roll: sealed", "roll: active"} =>
         /\ writer.old = active /\ writer.base = End(Segments, files) /\ writer.base > active
         /\ files[writer.base] = <<>>
    /\ writer.op = "roll: active" => sealed # <<>> /\ active = sealed[Len(sealed)]
    /\ writer.op = "truncate: sealed" => writer.target \in Range(sealed)
    /\ writer.op \in TruncateOps =>
         /\ writer.target \in Nat /\ writer.remove \in SUBSET Nat /\ writer.remove # {}
         /\ writer.remove \cap Range(Segments) = {}
    /\ writer.op = "remove" => active = writer.target

StructInv == ~faulted => Struct

\* The segments of the log are still segments, and no record of them is lost.
Extends ==
    \A i \in DOMAIN Segments : \E j \in DOMAIN Segments' :
        Segments'[j] = Segments[i] /\ Begins(files[Segments[i]], files'[Segments[i]])

\* The last file of a chain may grow and shrink.
LEMMA ChainLast ==
  ASSUME NEW s, NEW f, Chain(s, f), NEW g,
         \A i \in DOMAIN s : s[i] \in DOMAIN g /\ g[s[i]] \in Seq(Recs),
         \A i \in 1 .. Len(s) - 1 : g[s[i]] = f[s[i]]
  PROVE  Chain(s, g)
<1>1. \A i \in 1 .. Len(s) - 1 : s[i] + Len(g[s[i]]) = s[i + 1]
  BY DEF Chain
<1> QED
  BY <1>1 DEF Chain

\* A segment that begins at the end of a chain makes it longer.
LEMMA ChainAppend ==
  ASSUME NEW s, NEW f, Chain(s, f), NEW b \in Nat, b = End(s, f), s[Len(s)] < b,
         b \in DOMAIN f, f[b] \in Seq(Recs)
  PROVE  Chain(Append(s, b), f)
<1> DEFINE t == Append(s, b)
<1>1. /\ s \in Seq(Nat) /\ Len(s) \in Nat \ {0} /\ b \in Nat /\ Len(s) \in DOMAIN s
      /\ DOMAIN s = 1 .. Len(s) /\ \A i \in DOMAIN s : s[i] \in Nat
  BY ChainTypes DEF Chain
<1>2. /\ t \in Seq(Nat) /\ Len(t) = Len(s) + 1 /\ DOMAIN t = 1 .. Len(s) + 1
      /\ t[Len(s) + 1] = b /\ \A i \in 1 .. Len(s) : t[i] = s[i]
  BY <1>1, AppendOf
<1> HIDE DEF t
<1>3. t # <<>> /\ t[1] = 0
  BY <1>1, <1>2 DEF Chain
<1>4. ASSUME NEW i \in 1 .. Len(s) PROVE s[i] < b
  <2>1. i \in DOMAIN s /\ Len(s) \in DOMAIN s /\ (i = Len(s) \/ i < Len(s))
    <3>1. Len(s) \in Nat /\ DOMAIN s = 1 .. Len(s) /\ Len(s) \in DOMAIN s
      BY <1>1
    <3>2. \A k \in Nat : \A j \in 1 .. k : j = k \/ j < k
      OBVIOUS
    <3> QED
      BY <3>1, <3>2, Zenon
  <2>2. i = Len(s) \/ s[i] < s[Len(s)]
    BY <2>1 DEF Chain
  <2>3. s[i] \in Nat /\ s[Len(s)] \in Nat /\ b \in Nat /\ s[Len(s)] < b
    BY <1>1, <2>1
  <2> QED
    BY <2>2, <2>3
<1>5. ASSUME NEW i \in DOMAIN t, NEW j \in DOMAIN t, i < j PROVE t[i] < t[j]
  <2>1. i \in 1 .. Len(s) /\ (j \in 1 .. Len(s) \/ j = Len(s) + 1)
    BY <1>1, <1>2, <1>5
  <2>2. CASE j \in 1 .. Len(s)
    <3>1. s[i] < s[j]
      BY <1>1, <1>5, <2>1, <2>2 DEF Chain
    <3> QED
      BY <1>2, <2>1, <2>2, <3>1
  <2>3. CASE j = Len(s) + 1
    BY SMTT(30), <1>2, <1>4, <2>1, <2>3
  <2> QED
    BY <2>1, <2>2, <2>3
<1>6. ASSUME NEW i \in DOMAIN t PROVE t[i] \in DOMAIN f /\ f[t[i]] \in Seq(Recs)
  <2>1. i \in 1 .. Len(s) \/ i = Len(s) + 1
    BY <1>1, <1>2
  <2> QED
    BY <1>1, <1>2, <2>1 DEF Chain
<1>7. ASSUME NEW i \in 1 .. Len(t) - 1 PROVE t[i] + Len(f[t[i]]) = t[i + 1]
  <2>1. i \in 1 .. Len(s) /\ i + 1 \in 1 .. Len(s) + 1
    BY <1>1, <1>2
  <2>2. CASE i = Len(s)
    BY <1>2, <2>1, <2>2 DEF End
  <2>3. CASE i # Len(s)
    <3>1. i \in 1 .. Len(s) - 1 /\ i + 1 \in 1 .. Len(s)
      <4>1. Len(s) \in Nat
        BY <1>1
      <4> QED
        BY <2>1, <2>3, <4>1
    <3>2. s[i] + Len(f[s[i]]) = s[i + 1]
      BY <3>1 DEF Chain
    <3> QED
      BY SMTT(30), <1>2, <2>1, <3>1, <3>2
  <2> QED
    BY <2>2, <2>3
<1> QED
  BY Zenon, <1>2, <1>3, <1>5, <1>6, <1>7 DEF Chain, t

\* The first segments of a chain are a chain.
LEMMA ChainPrefix ==
  ASSUME NEW s, NEW f, Chain(s, f), NEW n \in 1 .. Len(s)
  PROVE  Chain(SubSeq(s, 1, n), f)
<1> DEFINE t == SubSeq(s, 1, n)
<1>1. s \in Seq(Nat) /\ Len(s) \in Nat \ {0} /\ DOMAIN s = 1 .. Len(s) /\ n \in 0 .. Len(s)
  BY ChainTypes DEF Chain
<1>2. /\ t \in Seq(Nat) /\ Len(t) = n /\ DOMAIN t = 1 .. n
      /\ \A i \in 1 .. n : t[i] = s[i]
  BY <1>1, PrefixOf
<1> HIDE DEF t
<1>3. \A i \in 1 .. n : i \in DOMAIN s
  BY <1>1
<1>4. \A i \in 1 .. n - 1 : i \in 1 .. Len(s) - 1 /\ i + 1 \in 1 .. n /\ i \in 1 .. n
  BY <1>1
<1>5. t # <<>> /\ t[1] = 0
  BY <1>1, <1>2 DEF Chain
<1>6. \A i, j \in DOMAIN t : i < j => t[i] < t[j]
  BY <1>2, <1>3 DEF Chain
<1>7. \A i \in DOMAIN t : t[i] \in DOMAIN f /\ f[t[i]] \in Seq(Recs)
  BY <1>2, <1>3 DEF Chain
<1>8. \A i \in 1 .. Len(t) - 1 : t[i] + Len(f[t[i]]) = t[i + 1]
  BY Zenon, <1>2, <1>4 DEF Chain
<1> QED
  BY Zenon, <1>2, <1>5, <1>6, <1>7, <1>8 DEF Chain, t

\* The segments of a chain in ascending order are a chain: discoverSegments
\* finds the log again.
LEMMA ChainSorted ==
  ASSUME NEW s, NEW f, Chain(s, f), NEW t \in Seq(Nat), Range(t) = Range(s),
         \A i, j \in DOMAIN t : i < j => t[i] < t[j]
  PROVE  Chain(t, f)
<1>1. /\ Len(s) \in Nat \ {0} /\ DOMAIN s = 1 .. Len(s) /\ 1 \in DOMAIN s /\ s[1] = 0
      /\ Len(t) \in Nat /\ DOMAIN t = 1 .. Len(t)
      /\ \A i \in DOMAIN s : s[i] \in Nat
      /\ \A i \in DOMAIN t : t[i] \in Nat
  BY ChainTypes DEF Chain
<1>2. \A i \in DOMAIN s : \E j \in DOMAIN t : t[j] = s[i]
  BY Zenon DEF Range
<1>3. \A j \in DOMAIN t : \E i \in DOMAIN s : t[j] = s[i]
  BY SMTT(30) DEF Range
<1>4. t # <<>> /\ t[1] = 0
  <2>1. PICK j \in DOMAIN t : t[j] = 0
    BY Zenon, <1>1, <1>2
  <2>2. 1 \in DOMAIN t /\ t[1] \in Nat
    BY <1>1
  <2>3. ~(1 < j)
    BY <2>1, <2>2
  <2>4. j = 1
    BY <1>1, <2>3
  <2> QED
    BY <2>1, <2>2, <2>4
<1>5. \A j \in DOMAIN t : t[j] \in DOMAIN f /\ f[t[j]] \in Seq(Recs)
  BY <1>3 DEF Chain
<1>6. ASSUME NEW i \in 1 .. Len(t) - 1 PROVE t[i] + Len(f[t[i]]) = t[i + 1]
  <2>1. i \in DOMAIN t /\ i + 1 \in DOMAIN t /\ i < i + 1
    BY <1>1
  <2>2. PICK a \in DOMAIN s : t[i] = s[a]
    BY <1>3, <2>1
  <2>3. PICK b \in DOMAIN s : t[i + 1] = s[b]
    BY <1>3, <2>1
  <2>4. s[a] < s[b] /\ s[a] \in Nat /\ s[b] \in Nat
    BY <1>1, <2>1, <2>2, <2>3
  <2>5. b < a => s[b] < s[a]
    BY DEF Chain
  <2>6. a < b
    BY <1>1, <2>4, <2>5
  <2>7. a \in 1 .. Len(s) - 1 /\ a + 1 \in DOMAIN s /\ (a + 1 = b \/ a + 1 < b)
    BY <1>1, <2>6
  <2>8. s[a] + Len(f[s[a]]) = s[a + 1]
    BY Zenon, <2>7 DEF Chain
  <2>9. s[a + 1] <= s[b] /\ s[a] < s[a + 1] /\ s[a + 1] \in Nat
    <3>1. a < a + 1 /\ s[a + 1] \in Nat
      BY <1>1, <2>7
    <3>2. s[a] < s[a + 1]
      BY <2>7, <3>1 DEF Chain
    <3>3. s[a + 1] = s[b] \/ s[a + 1] < s[b]
      BY <2>7 DEF Chain
    <3> QED
      BY <2>4, <3>1, <3>2, <3>3
  <2>10. PICK c \in DOMAIN t : t[c] = s[a + 1]
    BY <1>2, <2>7
  <2>11. c < i => t[c] < t[i]
    BY <2>1
  <2>12. i + 1 < c => t[i + 1] < t[c]
    BY <2>1
  <2>13. c # i /\ ~(c < i) /\ ~(i + 1 < c)
    BY <2>2, <2>3, <2>4, <2>9, <2>10, <2>11, <2>12
  <2>14. c = i + 1
    <3>1. c \in Nat /\ i \in Nat
      BY <1>1
    <3> QED
      BY <2>13, <3>1
  <2> QED
    BY <2>2, <2>8, <2>10, <2>14
<1> QED
  BY <1>4, <1>5, <1>6 DEF Chain

\* What a reader has loaded leads it to record x: the active segment a holds
\* the record or begins after it, and the segments before a are among the
\* sealed ones ss.
Loaded(s, f, ss, a, x) ==
    /\ x \in 0 .. End(s, f) - 1
    /\ a \in Range(s) /\ Range(ss) \subseteq Range(s)
    /\ \A b \in Range(s) : b < a => b \in Range(ss)
    /\ a <= x => x < a + Len(f[a])

Located(s, f, ss, a, x) ==
    \E i \in DOMAIN s :
        /\ s[i] = FindSegment(ss, a, x)
        /\ s[i] <= x /\ x < s[i] + Len(f[s[i]])
        /\ s[i] # a => s[i] \in Range(ss)

\* findSegment finds the segment of a record of the log, for a reader that has
\* loaded an active segment and then sealed segments that lead to it.
LEMMA FindsSegment ==
  ASSUME NEW s, NEW f, Chain(s, f), NEW ss, NEW a, NEW x, Loaded(s, f, ss, a, x)
  PROVE  Located(s, f, ss, a, x)
<1> USE DEF Loaded, Located
<1>1. /\ \A i \in DOMAIN s : s[i] \in Nat /\ Len(f[s[i]]) \in Nat
      /\ x \in Nat /\ End(s, f) \in Nat /\ DOMAIN s \subseteq Nat
  BY ChainTypes
<1>2. PICK m \in DOMAIN s : a = s[m]
  BY DEF Range
<1>3. CASE a <= x
  BY <1>1, <1>2, <1>3 DEF FindSegment
<1>4. CASE x < a
  <2> DEFINE M == {b \in Range(ss) : b <= x} \cup {-1}
  <2>1. FindSegment(ss, a, x) = Max(M)
    BY <1>1, <1>2, <1>4 DEF FindSegment
  <2>2. M \in SUBSET Int /\ M # {} /\ \A y \in M : y <= x
    <3>1. \A b \in Range(ss) : b \in Int
      <4>1. \A b \in Range(s) : b \in Nat
        BY <1>1 DEF Range
      <4> QED
        BY <4>1
    <3> QED
      BY <1>1, <3>1
  <2>3. Max(M) \in M /\ \A y \in M : y <= Max(M)
    <3> HIDE DEF M
    <3>1. x \in Int
      BY <1>1
    <3> QED
      BY Zenon, <2>2, <3>1, MaxIsGreatest
  <2>4. PICK k \in Nat : k = x + 1
    BY <1>1
  <2>5. k \in 1 .. End(s, f)
    BY <1>1, <2>4
  <2>6. PICK i \in DOMAIN s : Holds(s, f, i, k)
    BY <2>5, HeldSomewhere
  <2>7. s[i] \in Nat /\ s[i] <= x /\ x < s[i] + Len(f[s[i]])
    BY SMTT(30), <1>1, <2>4, <2>6 DEF Holds
  <2>8. s[i] \in Range(s) /\ s[i] < a
    BY <1>1, <1>2, <1>4, <2>7 DEF Range
  <2>9. s[i] \in M
    BY <2>7, <2>8
  <2>10. s[i] <= Max(M) /\ Max(M) \in Range(ss) /\ Max(M) <= x
    BY <2>3, <2>7, <2>9
  <2>11. PICK j \in DOMAIN s : s[j] = Max(M)
    BY Zenon, <2>10 DEF Range
  <2>12. i < j => s[i] + Len(f[s[i]]) <= s[j]
    BY ChainTypes
  <2>13. j < i => s[j] < s[i]
    BY DEF Chain
  <2>14. i = j
    <3>1. s[j] \in Nat /\ Len(f[s[i]]) \in Nat /\ i \in Nat /\ j \in Nat
      BY <1>1
    <3> HIDE DEF M
    <3> QED
      BY <2>7, <2>10, <2>11, <2>12, <2>13, <3>1, <1>1
  <2> HIDE DEF M
  <2> QED
    BY <2>1, <2>7, <2>10, <2>11, <2>14
<1> QED
  BY <1>1, <1>2, <1>3, <1>4

LEMMA RangeAppend ==
  ASSUME NEW S, NEW s \in Seq(S), NEW e \in S
  PROVE  Range(Append(s, e)) = Range(s) \cup {e}
<1> DEFINE t == Append(s, e)
<1>1. /\ DOMAIN t = 1 .. Len(s) + 1 /\ t[Len(s) + 1] = e /\ Len(s) \in Nat
      /\ DOMAIN s = 1 .. Len(s) /\ \A i \in 1 .. Len(s) : t[i] = s[i]
  BY AppendOf
<1> HIDE DEF t
<1>2. ASSUME NEW x \in Range(t) PROVE x \in Range(s) \cup {e}
  <2>1. PICK i \in DOMAIN t : x = t[i]
    BY DEF Range
  <2>2. i = Len(s) + 1 \/ i \in 1 .. Len(s)
    BY <1>1
  <2> QED
    BY <1>1, <2>1, <2>2 DEF Range
<1>3. ASSUME NEW x \in Range(s) PROVE x \in Range(t)
  <2>1. PICK i \in 1 .. Len(s) : x = s[i]
    BY <1>1 DEF Range
  <2>2. i \in DOMAIN t /\ t[i] = x
    BY <1>1, <2>1
  <2> QED
    BY <2>2 DEF Range
<1>4. e \in Range(t)
  <2>1. Len(s) + 1 \in DOMAIN t
    BY <1>1
  <2> QED
    BY <1>1, <2>1 DEF Range
<1>5. Range(t) = Range(s) \cup {e}
  BY <1>2, <1>3, <1>4
<1> QED
  BY <1>5 DEF t

LEMMA SegmentsAre ==
  /\ writer.op \in {"none", "roll: sealed", "append"} => Segments = Append(sealed, active)
  /\ writer.op = "roll: active" => Segments = sealed
  /\ writer.op = "truncate: sealed" => Segments = SubSeq(sealed, 1, TargetIndex(writer.target))
  /\ writer.op \in {"truncate: active", "remove"} => Segments = Append(sealed, writer.target)
  BY Zenon DEF Segments

\* Nothing is under way.
LEMMA QuietStruct ==
  ASSUME writer' = Idle, sealed' \in Seq(Nat), active' \in Nat,
         DOMAIN index' = DOMAIN files',
         NEW s, s = Append(sealed', active'), Chain(s, files'), DOMAIN files' = Range(s)
  PROVE  Struct' /\ Segments' = s
<1>1. writer'.op = "none"
  BY DEF Idle
<1>2. Segments' = s
  BY <1>1 DEF Segments
<1>3. Waiting' = {}
  BY <1>1 DEF Waiting, TruncateOps
<1> QED
  BY <1>1, <1>2, <1>3 DEF Struct, TruncateOps

\* x begins itself.
LEMMA BeginsItself ==
  ASSUME NEW x \in Seq(Recs)
  PROVE  Begins(x, x)
  BY DEF Begins

\* The end of the log is the end of its last segment.
LEMMA EndOfActive ==
  ASSUME sealed \in Seq(Nat), active \in Nat, NEW s, s = Append(sealed, active)
  PROVE  s[Len(s)] = active /\ End(s, files) = NextOffset
<1>1. s[Len(s)] = active
  BY AppendOf
<1> QED
  BY <1>1 DEF End, NextOffset, NextOffsetOf

\* A group of batches at the end of the active segment.
LEMMA ActiveGrows ==
  ASSUME FilesInv, NEW k \in Nat, written + k <= MaxRecords,
         NEW s, Chain(s, files), s[Len(s)] = active,
         files' = [files EXCEPT ![active] = @ \o NewBatches(k)]
  PROVE  /\ Chain(s, files') /\ DOMAIN files' = DOMAIN files
         /\ \A b \in DOMAIN files : Begins(files[b], files'[b])
<1>1. DOMAIN files' = DOMAIN files
  OBVIOUS
<1>2. NewBatches(k) \in Seq(Recs)
  BY NewBatchesAre DEF FilesInv
<1>3. ASSUME NEW b \in DOMAIN files
      PROVE  files'[b] \in Seq(Recs) /\ Begins(files[b], files'[b]) /\ (b # active => files'[b] = files[b])
  <2>1. files[b] \in Seq(Recs)
    BY DEF FilesInv
  <2>2. CASE b = active
    <3>1. files'[b] = files[b] \o NewBatches(k)
      BY <2>2
    <3>2. PICK x, y \in Seq(Recs) : x = files[b] /\ y = NewBatches(k)
      BY <1>2, <2>1
    <3>3. x \o y \in Seq(Recs) /\ Begins(x, x \o y)
      BY ConcatOf DEF Begins
    <3> QED
      BY SMTT(30), <2>2, <3>1, <3>2, <3>3
  <2>3. CASE b # active
    <3>1. files'[b] = files[b]
      BY <2>3
    <3> QED
      BY Zenon, <2>1, <3>1, BeginsItself
  <2> QED
    BY <2>2, <2>3
<1>4. Len(s) \in Nat /\ DOMAIN s = 1 .. Len(s)
  BY ChainTypes
<1>5. ASSUME NEW i \in 1 .. Len(s) - 1 PROVE files'[s[i]] = files[s[i]]
  <2>1. i \in DOMAIN s /\ Len(s) \in DOMAIN s /\ i < Len(s) /\ DOMAIN s = 1 .. Len(s)
    BY <1>4, ChainTypes
  <2>2. s[i] < s[Len(s)] /\ s[i] \in DOMAIN files /\ s[i] \in Nat
    BY <2>1, ChainTypes DEF Chain
  <2>3. s[i] # active
    BY <2>2
  <2> QED
    BY <1>3, <2>2, <2>3
<1>6. \A i \in DOMAIN s : s[i] \in DOMAIN files' /\ files'[s[i]] \in Seq(Recs)
  BY <1>1, <1>3 DEF Chain
<1>7. Chain(s, files')
  <2>1. \A i \in 1 .. Len(s) - 1 : files'[s[i]] = files[s[i]]
    BY <1>5
  <2> QED
    BY Zenon, <1>6, <2>1, ChainLast
<1> QED
  BY <1>1, <1>3, <1>7

\* When the segments stay, or more are added, and no file of them is cut.
LEMMA ExtendsWhen ==
  ASSUME Chain(Segments, files), Range(Segments) \subseteq Range(Segments'),
         \A b \in Range(Segments) : Begins(files[b], files'[b])
  PROVE  Extends
<1>1. ASSUME NEW i \in DOMAIN Segments
      PROVE  \E j \in DOMAIN Segments' :
                Segments'[j] = Segments[i] /\ Begins(files[Segments[i]], files'[Segments[i]])
  <2>1. Segments[i] \in Range(Segments) /\ Segments[i] \in Range(Segments')
    BY DEF Range
  <2>2. PICK j \in DOMAIN Segments' : Segments'[j] = Segments[i]
    BY <2>1 DEF Range
  <2> QED
    BY <2>1, <2>2
<1> QED
  BY <1>1 DEF Extends

LEMMA AppendedStruct ==
  ASSUME FilesInv, Struct, writer.op \in {"none", "append"}, NEW k \in Nat, written + k <= MaxRecords,
         files' = [files EXCEPT ![active] = @ \o NewBatches(k)], DOMAIN index' = DOMAIN index,
         sealed' = sealed, active' = active, writer' = Idle
  PROVE  Struct' /\ Extends
<1>1. /\ sealed \in Seq(Nat) /\ active \in Nat
      /\ DOMAIN index = DOMAIN files /\ Chain(Segments, files)
  BY Zenon DEF Struct
<1>2. Segments = Append(sealed, active)
  BY Zenon, SegmentsAre
<1>3. DOMAIN files = Range(Segments)
  BY Zenon DEF Struct, Waiting, TruncateOps
<1>4. /\ Chain(Segments, files') /\ DOMAIN files' = DOMAIN files
      /\ \A b \in DOMAIN files : Begins(files[b], files'[b])
  <2>1. Segments[Len(Segments)] = active
    BY <1>1, <1>2, EndOfActive
  <2> QED
    BY Zenon, <1>1, <2>1, ActiveGrows
<1>5. Struct' /\ Segments' = Segments
  BY Zenon, <1>1, <1>2, <1>3, <1>4, QuietStruct
<1>6. Extends
  <2>1. Range(Segments) \subseteq Range(Segments') /\ \A b \in Range(Segments) : Begins(files[b], files'[b])
    BY <1>3, <1>4, <1>5
  <2> QED
    BY <1>1, <2>1, ExtendsWhen
<1> QED
  BY SMTT(30), <1>5, <1>6

\* NewLog finds the segments of a chain, and no other files.
LEMMA ReopenedStruct ==
  ASSUME Reopen, NEW s, Chain(s, files'), DOMAIN files' = Range(s)
  PROVE  Struct' /\ Range(Segments') = Range(s)
<1>1. PICK t \in Ascending(DOMAIN files') : sealed' = SubSeq(t, 1, Len(t) - 1) /\ active' = t[Len(t)]
  BY DEF Reopen
<1>2. PICK n \in 1 .. MaxRecords + 1 :
         /\ t \in [1 .. n -> DOMAIN files'] /\ Range(t) = DOMAIN files'
         /\ \A i, j \in DOMAIN t : i < j => t[i] < t[j]
  BY DEF Ascending
<1>3. \A b \in DOMAIN files' : b \in Nat
  BY ChainTypes DEF Range
<1>4. /\ n \in Nat /\ t \in [1 .. n -> DOMAIN files'] /\ Range(t) = DOMAIN files'
      /\ \A i, j \in DOMAIN t : i < j => t[i] < t[j]
  BY <1>2, SegmentedLogAssumption
<1>5. t \in [1 .. n -> Nat]
  BY <1>3, <1>4
<1>6. t \in Seq(Nat) /\ Len(t) = n
  BY <1>4, <1>5, FunctionIsSequence
<1>7. Chain(t, files')
  BY <1>4, <1>6, ChainSorted
<1>8. /\ Len(t) \in Nat \ {0} /\ Len(t) \in DOMAIN t
  BY <1>7, ChainTypes
<1>9. /\ sealed' \in Seq(Nat) /\ active' \in Nat /\ Append(sealed', active') = t
  <2>1. Len(t) - 1 \in 0 .. Len(t) /\ t[Len(t)] \in Nat
    BY <1>6, <1>8
  <2>2. /\ sealed' = SubSeq(t, 1, Len(t) - 1) /\ active' = t[Len(t)]
    BY <1>1
  <2>3. /\ sealed' \in Seq(Nat) /\ Len(sealed') = Len(t) - 1
        /\ \A i \in 1 .. Len(t) - 1 : sealed'[i] = t[i]
    BY SMTT(30), <1>6, <2>1, <2>2, PrefixOf
  <2>4. /\ Append(sealed', active') \in Seq(Nat) /\ Len(Append(sealed', active')) = Len(t)
        /\ Append(sealed', active')[Len(t)] = t[Len(t)]
        /\ \A i \in 1 .. Len(t) - 1 : Append(sealed', active')[i] = t[i]
    BY <1>8, <2>1, <2>2, <2>3, AppendOf
  <2>5. \A i \in 1 .. Len(t) : i = Len(t) \/ i \in 1 .. Len(t) - 1
    BY <1>8
  <2>6. \A i \in 1 .. Len(t) : Append(sealed', active')[i] = t[i]
    BY <2>4, <2>5
  <2>7. Append(sealed', active') = t
    BY <1>6, <2>4, <2>6, SameSequence
  <2> QED
    BY <2>1, <2>2, <2>3, <2>7
<1>10. DOMAIN index' = DOMAIN files' /\ writer' = Idle
  BY DEF Reopen
<1>11. Struct' /\ Segments' = t
  BY <1>4, <1>7, <1>9, <1>10, QuietStruct
<1> QED
  BY <1>4, <1>11

\* A segment that rolls holds a batch: only then is it, or its index, full.
LEMMA RollsNonEmpty ==
  ASSUME FilesInv, active \in DOMAIN index, NEW n, SegmentIsFull(n)
  PROVE  Len(files[active]) > 0
<1>1. /\ files[active] \in Seq(Recs) /\ Searchable(index[active], Len(files[active]))
      /\ MaxSegmentBytes \in Nat \ {0} /\ MaxIndexBytes \in Nat \ {0}
  BY SegmentedLogAssumption DEF FilesInv
<1>2. CASE Len(files[active]) >= MaxSegmentBytes
  BY <1>1, <1>2
<1>3. CASE IndexIsFull(active)
  <2>1. index[active] \in Seq(Nat) /\ Len(index[active]) >= MaxIndexBytes
    BY <1>1, <1>3 DEF IndexIsFull, Searchable
  <2>2. 1 \in DOMAIN index[active] /\ index[active][1] \in Nat
    BY <1>1, <2>1
  <2>3. index[active][1] < Len(files[active])
    BY <1>1, <2>2 DEF Searchable
  <2> QED
    BY <1>1, <2>2, <2>3
<1>4. CASE ~Fits(n)
  BY <1>1, <1>4 DEF Fits
<1> QED
  BY <1>2, <1>3, <1>4 DEF SegmentIsFull

LEMMA RolledStruct ==
  ASSUME FilesInv, Struct, NEW n \in 1 .. MaxGroup, Roll(n)
  PROVE  Struct' /\ Extends
<1> DEFINE base == NextOffset
           found == IF base \in DOMAIN files THEN files[base] ELSE <<>>
           s == Append(sealed, active)
<1>1. /\ writer = Idle /\ SegmentIsFull(n)
      /\ files' = Bind(files, base, found)
      /\ index' = Bind(index, base, RebuiltIndex(Len(found)))
      /\ writer' = [op |-> "roll: sealed", old |-> active, base |-> base, n |-> n]
      /\ sealed' = sealed /\ active' = active
  BY Zenon DEF Roll
<1>2. /\ sealed \in Seq(Nat) /\ active \in Nat
      /\ DOMAIN index = DOMAIN files /\ Chain(Segments, files)
  BY Zenon DEF Struct
<1>3. writer.op = "none"
  BY Zenon, <1>1 DEF Idle
<1>4. Segments = s
  BY <1>3, SegmentsAre
<1>5. DOMAIN files = Range(s)
  BY SMTT(30), <1>3, <1>4 DEF Struct, Waiting, TruncateOps
<1>6. s[Len(s)] = active /\ End(s, files) = base /\ Len(s) \in DOMAIN s
  BY Zenon, <1>2, <1>4, EndOfActive, ChainTypes
<1>7. active \in DOMAIN index /\ base \in Nat
  <2>1. active \in Range(s)
    BY <1>6 DEF Range
  <2>2. End(s, files) \in Nat
    BY <1>2, <1>4, ChainTypes
  <2> HIDE DEF base, s
  <2> QED
    BY <1>2, <1>5, <1>6, <2>1, <2>2
<1>8. active < base
  <2>1. Len(files[active]) > 0 /\ files[active] \in Seq(Recs)
    BY Zenon, <1>1, <1>2, <1>7, RollsNonEmpty DEF FilesInv
  <2>2. base = active + Len(files[active])
    BY DEF NextOffset, NextOffsetOf
  <2> QED
    BY SMTT(30), <1>2, <2>1, <2>2
<1>9. base \notin DOMAIN files
  <2>1. ASSUME NEW i \in DOMAIN s PROVE s[i] # base
    <3>1. i = Len(s) \/ s[i] + Len(files[s[i]]) <= s[Len(s)]
      <4>1. i \in 1 .. Len(s) /\ Len(s) \in Nat
        BY <1>2, <1>4, ChainTypes
      <4> HIDE DEF s
      <4>2. i = Len(s) \/ i < Len(s)
        BY <4>1
      <4> QED
        BY SMTT(30), <1>2, <1>4, <1>6, <4>2, ChainTypes
    <3>2. s[i] \in Nat /\ Len(files[s[i]]) \in Nat
      BY Zenon, <1>2, <1>4, ChainTypes
    <3> HIDE DEF s, base
    <3> QED
      BY SMTT(30), <1>2, <1>6, <1>7, <1>8, <3>1, <3>2
  <2> HIDE DEF base
  <2> QED
    BY <1>5, <2>1 DEF Range
<1>10. found = <<>>
  BY <1>9
<1> HIDE DEF base, found, s
<1>11. /\ DOMAIN files' = DOMAIN files \cup {base} /\ DOMAIN index' = DOMAIN files'
       /\ files'[base] = <<>> /\ \A b \in DOMAIN files : files'[b] = files[b]
  BY Zenon, <1>1, <1>2, <1>9, <1>10 DEF Bind
<1>12. writer'.op = "roll: sealed" /\ writer'.old = active /\ writer'.base = base
  BY Zenon, <1>1
<1>13. Segments' = s
  BY Zenon, <1>1, <1>12 DEF Segments, s
<1>14. Waiting' = {base}
  BY Zenon, <1>12 DEF Waiting, TruncateOps
<1>15. Chain(s, files')
  <2>1. \A i \in DOMAIN s : s[i] \in DOMAIN files /\ files[s[i]] \in Seq(Recs)
    BY <1>2, <1>4 DEF Chain
  <2>2. \A i \in DOMAIN s : s[i] \in DOMAIN files' /\ files'[s[i]] = files[s[i]]
    BY <1>11, <2>1
  <2>3. \A i \in 1 .. Len(s) - 1 : i \in DOMAIN s
    BY <1>2, <1>4, ChainTypes
  <2> QED
    BY SMTT(30), <1>2, <1>4, <2>1, <2>2, <2>3, ChainLast
<1>16. End(s, files') = base
  <2>1. s[Len(s)] \in DOMAIN files
    BY SMTT(30), <1>2, <1>4, <1>6 DEF Chain
  <2> QED
    BY <1>6, <1>11, <2>1 DEF End
<1>18. Struct'
  BY Zenon, <1>1, <1>2, <1>5, <1>8, <1>11, <1>12, <1>13, <1>14, <1>15, <1>16 DEF Struct, TruncateOps
<1>19. Extends
  <2>1. \A b \in Range(Segments) : Begins(files[b], files'[b])
    BY SMTT(30), <1>4, <1>5, <1>11, BeginsItself DEF FilesInv
  <2> QED
    BY SMTT(30), <1>2, <1>4, <1>13, <2>1, ExtendsWhen
<1> QED
  BY SMTT(30), <1>18, <1>19

\* Steps that leave the files as they are and the segments too.
LEMMA SameSegments ==
  ASSUME FilesInv, Struct, files' = files, Segments' = Segments
  PROVE  Extends
<1>1. \A b \in Range(Segments) : b \in DOMAIN files
  BY Zenon DEF Struct
<1>2. \A b \in Range(Segments) : Begins(files[b], files'[b])
  BY <1>1, BeginsItself DEF FilesInv
<1> QED
  BY Zenon, <1>2, ExtendsWhen DEF Struct

LEMMA RollSealedStruct ==
  ASSUME FilesInv, Struct, WriterOK, RollSealed
  PROVE  Struct' /\ Extends
<1>1. /\ writer.op = "roll: sealed" /\ sealed' = Append(sealed, writer.old)
      /\ writer' = [writer EXCEPT !.op = "roll: active"]
      /\ files' = files /\ index' = index /\ active' = active /\ written' = written
  BY Zenon DEF RollSealed
<1>2. /\ sealed \in Seq(Nat) /\ active \in Nat
      /\ DOMAIN index = DOMAIN files /\ Chain(Segments, files)
      /\ writer.old = active /\ writer.base = End(Segments, files) /\ writer.base > active
      /\ files[writer.base] = <<>> /\ DOMAIN files = Range(Segments) \cup {writer.base}
  <2>1. Waiting = {writer.base}
    BY Zenon, <1>1 DEF Waiting, TruncateOps
  <2> QED
    BY Zenon, <1>1, <2>1 DEF Struct
<1>3. writer'.op = "roll: active" /\ writer'.old = writer.old /\ writer'.base = writer.base
  BY Zenon, <1>1, WriterGoesOn DEF RollOps, TruncateOps
<1>4. Segments = Append(sealed, active)
  BY Zenon, <1>1, SegmentsAre
<1>5. Segments' = sealed' /\ sealed' = Segments
  BY Zenon, <1>1, <1>2, <1>3, <1>4 DEF Segments
<1>6. sealed' \in Seq(Nat) /\ sealed' # <<>> /\ sealed'[Len(sealed')] = active
  <2>1. sealed' = Append(sealed, active) /\ Len(sealed) \in Nat
    BY <1>2, <1>4, <1>5
  <2>2. sealed' \in Seq(Nat) /\ Len(sealed') = Len(sealed) + 1 /\ sealed'[Len(sealed) + 1] = active
    BY <1>2, <2>1, AppendOf
  <2> QED
    BY <2>1, <2>2
<1>7. Waiting' = {writer.base}
  BY Zenon, <1>3 DEF Waiting, TruncateOps
<1>8. Struct'
  BY Zenon, <1>1, <1>2, <1>3, <1>5, <1>6, <1>7 DEF Struct, TruncateOps
<1> QED
  BY Zenon, <1>1, <1>5, <1>8, SameSegments

LEMMA RollActiveStruct ==
  ASSUME FilesInv, Struct, WriterOK, RollActive
  PROVE  Struct' /\ Extends
<1>1. /\ writer.op = "roll: active" /\ active' = writer.base
      /\ writer' = [writer EXCEPT !.op = "append"]
      /\ files' = files /\ index' = index /\ sealed' = sealed /\ written' = written
  BY Zenon DEF RollActive
<1>2. /\ sealed \in Seq(Nat) /\ active \in Nat
      /\ DOMAIN index = DOMAIN files /\ Chain(Segments, files)
      /\ writer.base = End(Segments, files) /\ writer.base > active
      /\ files[writer.base] = <<>> /\ DOMAIN files = Range(Segments) \cup {writer.base}
      /\ sealed # <<>> /\ active = sealed[Len(sealed)]
  <2>1. Waiting = {writer.base}
    BY Zenon, <1>1 DEF Waiting, TruncateOps
  <2> QED
    BY Zenon, <1>1, <2>1 DEF Struct
<1>3. writer'.op = "append"
  BY Zenon, <1>1, WriterGoesOn DEF RollOps, TruncateOps
<1>4. Segments = sealed
  BY Zenon, <1>1, SegmentsAre
<1>5. writer.base \in Nat /\ sealed[Len(sealed)] < writer.base
  BY SMTT(30), <1>2, <1>4, ChainTypes
<1>6. writer.base \in DOMAIN files /\ files[writer.base] \in Seq(Recs)
  BY <1>2
<1>7. Chain(Append(sealed, writer.base), files)
  BY Zenon, <1>2, <1>4, <1>5, <1>6, ChainAppend
<1>8. Segments' = Append(sealed, writer.base)
  BY Zenon, <1>1, <1>3 DEF Segments
<1>9. Range(Segments') = Range(sealed) \cup {writer.base}
  BY <1>2, <1>5, <1>8, RangeAppend
<1>10. Waiting' = {}
  BY <1>3 DEF Waiting, TruncateOps
<1>11. Struct'
  BY Zenon, <1>1, <1>2, <1>3, <1>4, <1>5, <1>7, <1>8, <1>9, <1>10 DEF Struct, TruncateOps
<1>12. \A b \in Range(Segments) : Begins(files[b], files'[b])
  BY Zenon, <1>1, <1>2, BeginsItself DEF FilesInv
<1>13. Extends
  BY <1>2, <1>4, <1>9, <1>12, ExtendsWhen
<1> QED
  BY <1>11, <1>13

LEMMA CrashStruct ==
  ASSUME FilesInv, Struct, WriterOK, CrashAndReopen, ~faulted'
  PROVE  Struct' /\ Extends
<1>1. Reopen /\ files' = files /\ ~Truncating
  BY Zenon DEF CrashAndReopen
<1>2. /\ sealed \in Seq(Nat) /\ active \in Nat
      /\ Chain(Segments, files) /\ DOMAIN files = Range(Segments) \cup Waiting
  BY Zenon DEF Struct
<1>3. \A b \in Range(Segments) : Begins(files[b], files'[b])
  BY SMTT(30), <1>1, <1>2, BeginsItself DEF FilesInv
<1>4. CASE writer.op \in {"roll: sealed", "roll: active"}
  <2>1. /\ writer.base = End(Segments, files) /\ writer.base > active
        /\ files[writer.base] = <<>> /\ DOMAIN files = Range(Segments) \cup {writer.base}
    <3>1. Waiting = {writer.base}
      BY Zenon, <1>4 DEF Waiting, TruncateOps
    <3> QED
      BY Zenon, <1>4, <3>1 DEF Struct
  <2>2. Segments[Len(Segments)] = active
    <3>1. CASE writer.op = "roll: sealed"
      <4>1. Segments = Append(sealed, active)
        BY Zenon, <3>1, SegmentsAre
      <4> QED
        BY <1>2, <4>1, EndOfActive
    <3>2. CASE writer.op = "roll: active"
      BY Zenon, <3>2, SegmentsAre DEF Struct
    <3> QED
      BY Zenon, <1>4, <3>1, <3>2
  <2>3. writer.base \in Nat /\ Segments \in Seq(Nat)
    <3>1. End(Segments, files) \in Nat /\ Segments \in Seq(Nat)
      BY Zenon, <1>2, ChainTypes DEF Chain
    <3> QED
      BY SMTT(30), <2>1, <3>1
  <2>4. writer.base \in DOMAIN files /\ files[writer.base] \in Seq(Recs)
    BY <2>1
  <2>5. Chain(Append(Segments, writer.base), files)
    BY Zenon, <1>2, <2>1, <2>2, <2>3, <2>4, ChainAppend
  <2>6. Range(Append(Segments, writer.base)) = DOMAIN files
    BY <2>1, <2>3, RangeAppend
  <2>7. Struct' /\ Range(Segments') = DOMAIN files
    BY <1>1, <1>2, <2>5, <2>6, ReopenedStruct
  <2> QED
    BY SMTT(30), <1>2, <1>3, <2>1, <2>7, ExtendsWhen
<1>5. CASE writer.op \notin {"roll: sealed", "roll: active"}
  <2>1. Waiting = {}
    BY Zenon, <1>1, <1>5 DEF Waiting, Truncating, TruncateOps
  <2>2. Struct' /\ Range(Segments') = DOMAIN files
    BY <1>1, <1>2, <2>1, ReopenedStruct
  <2> QED
    BY <1>2, <1>3, <2>1, <2>2, ExtendsWhen
<1> QED
  BY Zenon, <1>4, <1>5

LEMMA CrashInAppendStruct ==
  ASSUME FilesInv, Struct, NEW n \in 1 .. MaxGroup, NEW k \in 0 .. n - 1, CrashInAppend(n, k)
  PROVE  Struct' /\ Extends
<1>1. /\ Reopen /\ written + n <= MaxRecords
      /\ files' = [files EXCEPT ![active] = @ \o NewBatches(k)]
      /\ writer.op \in {"none", "append"}
  BY DEF CrashInAppend, Idle
<1>2. k \in Nat /\ written + k <= MaxRecords
  BY SMTT(30), <1>1, SegmentedLogAssumption DEF FilesInv
<1>3. /\ sealed \in Seq(Nat) /\ active \in Nat /\ Chain(Segments, files)
  BY Zenon DEF Struct
<1>4. Segments = Append(sealed, active)
  BY Zenon, <1>1, SegmentsAre
<1>5. DOMAIN files = Range(Segments)
  BY Zenon, <1>1 DEF Struct, Waiting, TruncateOps
<1>6. /\ Chain(Segments, files') /\ DOMAIN files' = DOMAIN files
      /\ \A b \in DOMAIN files : Begins(files[b], files'[b])
  <2>1. Segments[Len(Segments)] = active
    BY <1>3, <1>4, EndOfActive
  <2> QED
    BY Zenon, <1>1, <1>2, <1>3, <2>1, ActiveGrows
<1>7. Struct' /\ Range(Segments') = Range(Segments)
  BY Zenon, <1>1, <1>3, <1>5, <1>6, ReopenedStruct
<1>8. Extends
  <2>1. Range(Segments) \subseteq Range(Segments') /\ \A b \in Range(Segments) : Begins(files[b], files'[b])
    BY <1>5, <1>6, <1>7
  <2> QED
    BY <1>3, <2>1, ExtendsWhen
<1> QED
  BY <1>7, <1>8

\* The segments that are left are the beginnings of segments of the log.
Shrinks ==
    \A j \in DOMAIN Segments' : \E i \in DOMAIN Segments :
        Segments[i] = Segments'[j] /\ Begins(files'[Segments'[j]], files[Segments'[j]])

\* Where a base offset is in a list that has it once.
LEMMA TargetFound ==
  ASSUME NEW target, target \in Range(sealed)
  PROVE  TargetIndex(target) \in DOMAIN sealed /\ sealed[TargetIndex(target)] = target
  BY DEF TargetIndex, Range

LEMMA TruncatedStruct ==
  ASSUME FilesInv, Struct, NEW offset \in 0 .. NextOffset, TruncateTo(offset), ~faulted'
  PROVE  Struct' /\ Shrinks
<1> DEFINE s == Append(sealed, active)
<1>0. PICK target : target = FindSegment(sealed, active, offset)
  OBVIOUS
<1>r. PICK rest : rest = {b \in Range(sealed) \cup {active} : b > target}
  BY Zenon
<1>1. PICK n \in FindTruncationPosition(target, offset) :
         /\ files' = [files EXCEPT ![target] = SubSeq(@, 1, n)]
         /\ index' = [index EXCEPT ![target] = TruncatedIndex(n)]
         /\ writer' = IF target = active \/ RebuildFails(n) THEN Idle
                      ELSE [op |-> "truncate: sealed", target |-> target, remove |-> rest]
         /\ faulted' = (faulted \/ (target # active /\ RebuildFails(n)))
  BY Zenon, <1>0, <1>r DEF TruncateTo
<1>2. /\ writer = Idle /\ offset < NextOffset /\ sealed' = sealed /\ active' = active
      /\ n \in 0 .. Len(files[target])
  BY Zenon DEF TruncateTo, FindTruncationPosition
<1>3. /\ sealed \in Seq(Nat) /\ active \in Nat
      /\ DOMAIN index = DOMAIN files /\ Chain(Segments, files)
  BY Zenon DEF Struct
<1>4. writer.op = "none"
  BY SMTT(30), <1>2 DEF Idle
<1>5. Segments = s /\ Chain(s, files) /\ DOMAIN files = Range(s)
  <2>1. Segments = s
    BY <1>4, SegmentsAre
  <2>2. Waiting = {}
    BY SMTT(30), <1>4 DEF Waiting, TruncateOps
  <2> QED
    BY Zenon, <1>3, <2>1, <2>2 DEF Struct
<1>6. /\ s[Len(s)] = active /\ End(s, files) = NextOffset /\ End(s, files) \in Nat
      /\ Range(s) = Range(sealed) \cup {active}
      /\ s \in Seq(Nat) /\ Len(s) = Len(sealed) + 1 /\ DOMAIN s = 1 .. Len(sealed) + 1 /\ Len(sealed) \in Nat
      /\ \A i \in 1 .. Len(sealed) : s[i] = sealed[i]
  <2>1. s[Len(s)] = active /\ End(s, files) = NextOffset
    BY Zenon, <1>3, EndOfActive
  <2>2. End(s, files) \in Nat
    BY <1>5, ChainTypes
  <2>3. Range(s) = Range(sealed) \cup {active}
    BY <1>3, RangeAppend
  <2> QED
    BY SMTT(30), <1>3, <2>1, <2>2, <2>3, AppendOf
<1> HIDE DEF s
<1>7. \A b \in Range(s) : b \in Nat
  BY <1>6 DEF Range
<1>8. PICK t \in DOMAIN s : /\ s[t] = target
                            /\ s[t] <= offset /\ offset < s[t] + Len(files[s[t]])
                            /\ s[t] # active => s[t] \in Range(sealed)
  <2>1. offset \in 0 .. End(s, files) - 1
    BY <1>2, <1>6
  <2>2. active <= offset => offset < active + Len(files[active])
    BY SMTT(30), <1>2 DEF NextOffset, NextOffsetOf
  <2>3. \A b \in Range(s) : b < active => b \in Range(sealed)
    BY <1>3, <1>6, <1>7
  <2>4. active \in Range(s) /\ Range(sealed) \subseteq Range(s)
    BY <1>6
  <2>5. Loaded(s, files, sealed, active, offset)
    BY SMTT(30), <2>1, <2>2, <2>3, <2>4 DEF Loaded
  <2>6. Located(s, files, sealed, active, offset)
    BY SMTT(30), <1>5, <2>5, FindsSegment
  <2> QED
    BY <1>0, <2>6 DEF Located
<1>9. target \in Nat /\ target \in DOMAIN files /\ files[target] \in Seq(Recs)
  BY <1>5, <1>8, ChainTypes DEF Chain
<1>10. /\ SubSeq(files[target], 1, n) \in Seq(Recs) /\ Begins(SubSeq(files[target], 1, n), files[target])
  <2>1. PICK x \in Seq(Recs) : x = files[target]
    BY <1>9
  <2>2. SubSeq(x, 1, n) \in Seq(Recs) /\ Begins(SubSeq(x, 1, n), x)
    BY SMTT(30), <1>2, <2>1, PrefixOf DEF Begins
  <2> QED
    BY <2>1, <2>2
<1>11. /\ DOMAIN files' = DOMAIN files /\ DOMAIN index' = DOMAIN files'
       /\ files'[target] = SubSeq(files[target], 1, n)
       /\ \A b \in DOMAIN files : b # target => files'[b] = files[b]
  BY Zenon, <1>1, <1>3, <1>9
<1>12. \A b \in DOMAIN files : files'[b] \in Seq(Recs) /\ Begins(files'[b], files[b])
  BY Zenon, <1>10, <1>11, BeginsItself DEF FilesInv
<1>13. ASSUME NEW m \in 1 .. Len(s), s[m] = target
       PROVE  Chain(SubSeq(s, 1, m), files')
  <2> DEFINE p == SubSeq(s, 1, m)
  <2>1. Chain(p, files)
    BY <1>5, ChainPrefix
  <2>2. Len(p) = m /\ DOMAIN p = 1 .. m /\ m \in 1 .. m /\ \A i \in 1 .. m : p[i] = s[i]
    BY <1>6, PrefixOf
  <2> HIDE DEF p
  <2>3. ASSUME NEW i \in 1 .. Len(p) - 1 PROVE files'[p[i]] = files[p[i]]
    <3>1. i \in DOMAIN p /\ m \in DOMAIN p /\ i < m
      BY SMTT(30), <2>2
    <3>2. p[i] < p[m] /\ p[i] \in Nat /\ p[i] \in DOMAIN files
      BY SMTT(30), <2>1, <3>1, ChainTypes DEF Chain
    <3>3. p[i] # target
      BY <1>9, <1>13, <2>2, <3>2
    <3> QED
      BY SMTT(30), <1>11, <3>2, <3>3
  <2>4. \A i \in DOMAIN p : p[i] \in DOMAIN files' /\ files'[p[i]] \in Seq(Recs)
    BY SMTT(30), <1>11, <1>12, <2>1 DEF Chain
  <2>5. Chain(p, files')
    BY <2>1, <2>3, <2>4, ChainLast
  <2> QED
    BY <2>5 DEF p
<1>14. CASE target = active
  <2>1. writer' = Idle
    BY <1>1, <1>14
  <2>2. Chain(s, files')
    <3>1. Len(s) \in 1 .. Len(s) /\ SubSeq(s, 1, Len(s)) = s
      <4>1. Len(s) \in 0 .. Len(s) /\ Len(s) \in 1 .. Len(s)
        BY SMTT(30), <1>6
      <4>2. /\ SubSeq(s, 1, Len(s)) \in Seq(Nat) /\ Len(SubSeq(s, 1, Len(s))) = Len(s)
            /\ \A i \in 1 .. Len(s) : SubSeq(s, 1, Len(s))[i] = s[i]
        BY SMTT(30), <1>6, <4>1, PrefixOf
      <4> QED
        BY <1>6, <4>1, <4>2, SameSequence
    <3> QED
      BY Zenon, <1>6, <1>13, <1>14, <3>1
  <2>3. Struct' /\ Segments' = s
    <3>1. s = Append(sealed', active') /\ sealed' \in Seq(Nat) /\ active' \in Nat
      BY <1>2, <1>3 DEF s
    <3>2. DOMAIN files' = Range(s)
      BY <1>3, <1>5, <1>11
    <3> QED
      BY Zenon, <1>11, <2>1, <2>2, <3>1, <3>2, QuietStruct
  <2>4. Shrinks
    <3>1. ASSUME NEW j \in DOMAIN s PROVE Begins(files'[s[j]], files[s[j]])
      BY <1>5, <1>12 DEF Chain
    <3> QED
      BY SMTT(30), <1>5, <2>3, <3>1 DEF Shrinks
  <2> QED
    BY <2>3, <2>4
<1>15. CASE target # active
  <2> DEFINE m == TargetIndex(target)
             p == SubSeq(s, 1, m)
  <2>1. ~RebuildFails(n)
    BY Zenon, <1>1, <1>15
  <2>2. writer' = [op |-> "truncate: sealed", target |-> target, remove |-> rest]
    BY Zenon, <1>1, <1>15, <2>1
  <2>3. writer'.op = "truncate: sealed" /\ writer'.target = target /\ writer'.remove = rest
    BY Zenon, <2>2
  <2>4. target \in Range(sealed)
    BY <1>8, <1>15
  <2>5. m \in DOMAIN sealed /\ sealed[m] = target
    BY SMTT(30), <2>4, TargetFound
  <2>6. m \in 1 .. Len(sealed) /\ m \in 1 .. Len(s) /\ s[m] = target /\ m \in 0 .. Len(sealed) /\ m \in 0 .. Len(s)
    BY SMTT(30), <1>3, <1>6, <2>5
  <2>7. TargetIndex(target)' = m
    BY <1>2 DEF TargetIndex
  <2> HIDE DEF m
  <2>8. /\ p \in Seq(Nat) /\ Len(p) = m /\ DOMAIN p = 1 .. m /\ \A i \in 1 .. m : p[i] = s[i]
    <3>1. s \in Seq(Nat) /\ m \in 0 .. Len(s)
      BY SMTT(30), <1>6, <2>6
    <3> QED
      BY <3>1, PrefixOf, Zenon
  <2>9. SubSeq(sealed, 1, m) = p
    <3>1. /\ SubSeq(sealed, 1, m) \in Seq(Nat) /\ Len(SubSeq(sealed, 1, m)) = m
          /\ \A i \in 1 .. m : SubSeq(sealed, 1, m)[i] = sealed[i]
      BY SMTT(30), <1>3, <2>6, PrefixOf
    <3>2. \A i \in 1 .. m : i \in 1 .. Len(sealed)
      BY SMTT(30), <1>6, <2>6
    <3> HIDE DEF p
    <3>3. \A i \in 1 .. m : SubSeq(sealed, 1, m)[i] = p[i]
      BY Zenon, <1>6, <2>8, <3>1, <3>2
    <3> QED
      BY SMTT(30), <2>8, <3>1, <3>3, SameSequence
  <2>10. Segments' = p
    <3>1. Segments' = SubSeq(sealed', 1, TargetIndex(target)')
      BY Zenon, <2>3 DEF Segments
    <3> QED
      BY Zenon, <1>2, <2>7, <2>9, <3>1
  <2>11. Chain(p, files')
    BY SMTT(30), <1>13, <2>6
  <2> HIDE DEF p
  <2>12. ASSUME NEW b \in Range(p) PROVE b \in Range(s) /\ b <= target
    <3>1. PICK i \in 1 .. m : b = s[i]
      BY <2>8 DEF Range
    <3>2. i \in DOMAIN s /\ m \in DOMAIN s /\ (i = m \/ i < m)
      BY SMTT(30), <1>6, <2>6
    <3>3. s[i] \in Nat /\ (s[i] = s[m] \/ s[i] < s[m])
      BY SMTT(30), <1>5, <3>2, ChainTypes DEF Chain
    <3> QED
      BY SMTT(30), <1>9, <2>6, <3>1, <3>2, <3>3 DEF Range
  <2>13. ASSUME NEW b \in Range(s), ~(b > target) PROVE b \in Range(p)
    <3>1. PICK i \in DOMAIN s : b = s[i]
      BY DEF Range
    <3>2. i \in Nat /\ m \in Nat /\ m \in DOMAIN s /\ s[i] \in Nat
      BY SMTT(30), <1>6, <1>7, <2>6, <3>1
    <3>3. m < i => s[m] < s[i]
      BY SMTT(30), <1>5, <3>2 DEF Chain
    <3>4. i \in 1 .. m
      BY SMTT(30), <1>6, <1>9, <2>6, <2>13, <3>1, <3>2, <3>3
    <3>5. i \in DOMAIN p /\ p[i] = b
      BY SMTT(30), <2>8, <3>1, <3>4
    <3> QED
      BY <3>5 DEF Range
  <2>14. rest = {b \in Range(s) : b > target}
    BY <1>6, <1>r
  <2>15. rest \in SUBSET Nat /\ rest \cap Range(p) = {} /\ Range(s) = Range(p) \cup rest
    <3>1. ASSUME NEW b \in Range(p) PROVE b \notin rest
      <4>1. b \in Nat /\ b <= target
        BY SMTT(30), <1>7, <2>12
      <4> QED
        BY <1>9, <2>14, <4>1
    <3> QED
      BY SMTT(30), <1>7, <2>12, <2>13, <2>14, <3>1
  <2>16. active \in rest
    <3>1. t \in DOMAIN s /\ Len(s) \in DOMAIN s /\ t # Len(s)
      BY SMTT(30), <1>5, <1>6, <1>8, <1>15, ChainTypes
    <3>2. t < Len(s)
      BY SMTT(30), <1>6, <3>1
    <3>3. target < active
      BY Zenon, <1>5, <1>6, <1>8, <3>1, <3>2 DEF Chain
    <3> QED
      BY SMTT(30), <1>3, <1>6, <1>9, <2>14, <3>3
  <2>17. Waiting' = rest
    BY Zenon, <2>3 DEF Waiting, TruncateOps
  <2>18. DOMAIN files' = Range(p) \cup rest
    BY <1>3, <1>5, <1>11, <2>15
  <2>19. Struct'
    BY Zenon, <1>2, <1>3, <1>9, <1>11, <2>3, <2>4, <2>10, <2>11, <2>15, <2>16, <2>17, <2>18 DEF Struct, TruncateOps
  <2>20. Shrinks
    <3>1. ASSUME NEW j \in DOMAIN p
          PROVE  \E i \in DOMAIN s : s[i] = p[j] /\ Begins(files'[p[j]], files[p[j]])
      <4>1. j \in DOMAIN s /\ s[j] = p[j]
        BY SMTT(30), <1>6, <2>6, <2>8
      <4>2. p[j] \in DOMAIN files
        BY <1>5, <4>1 DEF Chain
      <4> QED
        BY SMTT(30), <1>12, <4>1, <4>2
    <3> QED
      BY SMTT(30), <1>5, <2>10, <3>1 DEF Shrinks
  <2> QED
    BY SMTT(30), <2>19, <2>20
<1> QED
  BY <1>14, <1>15

LEMMA TruncateSealedStruct ==
  ASSUME FilesInv, Struct, WriterOK, TruncateSealed
  PROVE  Struct' /\ Extends
<1> DEFINE m == TargetIndex(writer.target)
<1>1. /\ writer.op = "truncate: sealed" /\ sealed' = SubSeq(sealed, 1, m - 1)
      /\ writer' = [writer EXCEPT !.op = "truncate: active"]
      /\ files' = files /\ index' = index /\ active' = active /\ written' = written
  BY Zenon DEF TruncateSealed
<1>2. /\ sealed \in Seq(Nat) /\ active \in Nat
      /\ DOMAIN index = DOMAIN files /\ Chain(Segments, files)
      /\ writer.target \in Range(sealed) /\ writer.target \in Nat
      /\ writer.remove \in SUBSET Nat /\ writer.remove # {}
      /\ writer.remove \cap Range(Segments) = {} /\ DOMAIN files = Range(Segments) \cup writer.remove
  <2>1. Waiting = writer.remove
    BY Zenon, <1>1 DEF Waiting, TruncateOps
  <2> QED
    BY Zenon, <1>1, <2>1 DEF Struct, TruncateOps
<1>3. writer'.op = "truncate: active" /\ writer'.target = writer.target /\ writer'.remove = writer.remove
  BY Zenon, <1>1, WriterGoesOn DEF RollOps, TruncateOps
<1>4. Segments = SubSeq(sealed, 1, m)
  BY Zenon, <1>1, SegmentsAre
<1>5. m \in DOMAIN sealed /\ sealed[m] = writer.target
  BY <1>2, TargetFound
<1> HIDE DEF m
<1>6. m \in Nat \ {0} /\ m \in 0 .. Len(sealed) /\ m - 1 \in 0 .. Len(sealed) /\ m - 1 + 1 = m
  BY <1>2, <1>5
<1>7. Segments' = Append(SubSeq(sealed, 1, m - 1), writer.target)
  BY Zenon, <1>1, <1>3 DEF Segments
<1>8. PICK l \in 0 .. Len(sealed) : l = m - 1
  BY <1>6
<1>9. /\ SubSeq(sealed, 1, l) \in Seq(Nat) /\ Len(SubSeq(sealed, 1, l)) = l
      /\ \A i \in 1 .. l : SubSeq(sealed, 1, l)[i] = sealed[i]
  BY <1>2, PrefixOf
<1>10. /\ SubSeq(sealed, 1, m) \in Seq(Nat) /\ Len(SubSeq(sealed, 1, m)) = m
       /\ \A i \in 1 .. m : SubSeq(sealed, 1, m)[i] = sealed[i]
  BY SMTT(30), <1>2, <1>6, PrefixOf
<1>11. PICK a \in Seq(Nat) : a = SubSeq(sealed, 1, l)
  BY Zenon, <1>9
<1>12. /\ Append(a, writer.target) \in Seq(Nat) /\ Len(Append(a, writer.target)) = l + 1
       /\ Append(a, writer.target)[l + 1] = writer.target
       /\ \A i \in 1 .. l : Append(a, writer.target)[i] = sealed[i]
  BY <1>2, <1>9, <1>11, AppendOf
<1>13. \A i \in 1 .. m : Append(a, writer.target)[i] = SubSeq(sealed, 1, m)[i]
  <2>1. \A i \in 1 .. m : i = l + 1 \/ i \in 1 .. l
    BY <1>6, <1>8
  <2>2. l + 1 = m
    BY <1>6, <1>8
  <2> QED
    BY SMTT(30), <1>5, <1>10, <1>12, <2>1, <2>2
<1>14. Segments' = Segments
  <2>1. Len(Append(a, writer.target)) = m
    BY <1>6, <1>8, <1>12
  <2>2. Append(a, writer.target) = SubSeq(sealed, 1, m)
    BY SMTT(30), <1>10, <1>12, <1>13, <2>1, SameSequence
  <2> QED
    BY Zenon, <1>4, <1>7, <1>8, <1>11, <2>2
<1>15. Waiting' = writer.remove
  BY Zenon, <1>3 DEF Waiting, TruncateOps
<1>16. sealed' \in Seq(Nat)
  BY Zenon, <1>1, <1>8, <1>9
<1>17. Struct'
  BY Zenon, <1>1, <1>2, <1>3, <1>14, <1>15, <1>16 DEF Struct, TruncateOps
<1> QED
  BY Zenon, <1>1, <1>14, <1>17, SameSegments

LEMMA TruncateActiveStruct ==
  ASSUME FilesInv, Struct, WriterOK, TruncateActive
  PROVE  Struct' /\ Extends
<1>1. /\ writer.op = "truncate: active" /\ active' = writer.target
      /\ writer' = [writer EXCEPT !.op = "remove"]
      /\ files' = files /\ index' = index /\ sealed' = sealed /\ written' = written
  BY Zenon DEF TruncateActive
<1>2. /\ sealed \in Seq(Nat)
      /\ DOMAIN index = DOMAIN files /\ Chain(Segments, files) /\ writer.target \in Nat
      /\ writer.remove \in SUBSET Nat /\ writer.remove # {}
      /\ writer.remove \cap Range(Segments) = {} /\ DOMAIN files = Range(Segments) \cup writer.remove
  <2>1. Waiting = writer.remove
    BY Zenon, <1>1 DEF Waiting, TruncateOps
  <2> QED
    BY Zenon, <1>1, <2>1 DEF Struct, TruncateOps
<1>3. writer'.op = "remove" /\ writer'.target = writer.target /\ writer'.remove = writer.remove
  BY Zenon, <1>1, WriterGoesOn DEF RollOps, TruncateOps
<1>4. Segments' = Segments
  <2>1. Segments = Append(sealed, writer.target)
    BY Zenon, <1>1, SegmentsAre
  <2>2. Segments' = Append(sealed', writer'.target)
    BY <1>3 DEF Segments
  <2> QED
    BY Zenon, <1>1, <1>3, <2>1, <2>2
<1>5. Waiting' = writer.remove
  BY <1>3 DEF Waiting, TruncateOps
<1>6. Struct'
  BY Zenon, <1>1, <1>2, <1>3, <1>4, <1>5 DEF Struct, TruncateOps
<1> QED
  BY Zenon, <1>1, <1>4, <1>6, SameSegments

LEMMA RemovedStruct ==
  ASSUME FilesInv, Struct, WriterOK, RemovePair, ~faulted'
  PROVE  Struct' /\ Extends
<1>0. PICK base : base = Min(writer.remove)
  OBVIOUS
<1>1. /\ writer.op = "remove" /\ files' = [b \in DOMAIN files \ {base} |-> files[b]]
      /\ index' = [b \in DOMAIN index \ {base} |-> index[b]]
      /\ writer' = IF writer.remove = {base} THEN Idle ELSE [writer EXCEPT !.remove = @ \ {base}]
      /\ sealed' = sealed /\ active' = active /\ written' = written
  BY <1>0 DEF RemovePair
<1>2. /\ sealed \in Seq(Nat) /\ active \in Nat
      /\ DOMAIN index = DOMAIN files /\ Chain(Segments, files)
      /\ writer.target \in Nat /\ active = writer.target
      /\ writer.remove \in SUBSET Nat /\ writer.remove # {}
      /\ writer.remove \cap Range(Segments) = {} /\ DOMAIN files = Range(Segments) \cup writer.remove
  <2>1. Waiting = writer.remove
    BY SMTT(30), <1>1 DEF Waiting, TruncateOps
  <2> QED
    BY <1>1, <2>1 DEF Struct, TruncateOps
<1>3. base \in writer.remove /\ base \notin Range(Segments)
  BY <1>0, <1>2, MinIsLeast
<1>4. Segments = Append(sealed, active)
  BY <1>1, <1>2, SegmentsAre
<1>5. /\ DOMAIN files' = DOMAIN files \ {base} /\ DOMAIN index' = DOMAIN files'
      /\ \A b \in DOMAIN files' : files'[b] = files[b]
  BY SMTT(30), <1>1, <1>2
<1>6. DOMAIN files' = Range(Segments) \cup (writer.remove \ {base})
  BY SMTT(30), <1>2, <1>3, <1>5
<1>7. \A b \in Range(Segments) : b \in DOMAIN files' /\ files'[b] = files[b] /\ Begins(files[b], files'[b])
  BY Zenon, <1>2, <1>5, <1>6, BeginsItself DEF FilesInv
<1>8. Chain(Segments, files')
  <2>1. \A i \in DOMAIN Segments : Segments[i] \in Range(Segments)
    BY SMTT(30) DEF Range
  <2>2. \A i \in DOMAIN Segments : Segments[i] \in DOMAIN files' /\ files'[Segments[i]] \in Seq(Recs)
    BY SMTT(30), <1>2, <1>7, <2>1 DEF Chain
  <2>3. \A i \in 1 .. Len(Segments) - 1 : files'[Segments[i]] = files[Segments[i]]
    BY SMTT(30), <1>2, <1>7, <2>1, ChainTypes
  <2> QED
    BY <1>2, <2>2, <2>3, ChainLast
<1>9. CASE writer.remove = {base}
  <2>1. writer' = Idle /\ DOMAIN files' = Range(Segments)
    BY <1>1, <1>6, <1>9
  <2>2. Segments = Append(sealed', active') /\ sealed' \in Seq(Nat) /\ active' \in Nat
    BY SMTT(30), <1>1, <1>2, <1>4
  <2>3. Struct' /\ Segments' = Segments
    BY Zenon, <1>5, <1>8, <2>1, <2>2, QuietStruct
  <2> QED
    BY <1>2, <1>7, <2>3, ExtendsWhen
<1>10. CASE writer.remove # {base}
  <2>1. DOMAIN writer = {"op", "target", "remove"}
    BY <1>1 DEF WriterOK, Idle, RollOps
  <2>2. writer' = [writer EXCEPT !.remove = @ \ {base}]
    BY <1>1, <1>10
  <2>3. writer'.op = "remove" /\ writer'.target = writer.target /\ writer'.remove = writer.remove \ {base}
    BY <1>1, <2>1, <2>2
  <2>4. Segments' = Segments
    BY Zenon, <1>1, <1>2, <1>4, <2>3 DEF Segments
  <2>5. Waiting' = writer.remove \ {base}
    BY SMTT(30), <2>3 DEF Waiting, TruncateOps
  <2>6. writer'.remove \in SUBSET Nat /\ writer'.remove # {} /\ writer'.remove \cap Range(Segments) = {}
    BY SMTT(30), <1>2, <1>3, <1>10, <2>3
  <2>7. Struct'
    BY Zenon, <1>1, <1>2, <1>5, <1>6, <1>8, <2>3, <2>4, <2>5, <2>6 DEF Struct, TruncateOps
  <2> QED
    BY <1>2, <1>7, <2>4, <2>7, ExtendsWhen
<1> QED
  BY <1>9, <1>10

\* Files that a truncation has left behind are never forgotten.
LEMMA FaultedStays ==
  ASSUME [Next]_vars, faulted
  PROVE  faulted'
<1>1. ASSUME NEW n \in 1 .. MaxGroup, AppendRaw(n) \/ Roll(n) PROVE faulted'
  BY Zenon, <1>1 DEF AppendRaw, Roll
<1>2. ASSUME RollSealed \/ RollActive \/ AppendRolled PROVE faulted'
  BY Zenon, <1>2 DEF RollSealed, RollActive, AppendRolled
<1>3. ASSUME NEW offset \in 0 .. NextOffset, TruncateTo(offset) PROVE faulted'
  BY Zenon, <1>3 DEF TruncateTo
<1>4. ASSUME TruncateSealed \/ TruncateActive \/ RemovePair PROVE faulted'
  BY Zenon, <1>4 DEF TruncateSealed, TruncateActive, RemovePair
<1>5. ASSUME CrashAndReopen PROVE faulted'
  BY Zenon, <1>5 DEF CrashAndReopen
<1>6. ASSUME NEW n \in 1 .. MaxGroup, NEW k \in 0 .. n - 1, CrashInAppend(n, k) PROVE faulted'
  BY <1>6 DEF CrashInAppend
<1>7. ASSUME \/ \E offset \in 0 .. NextOffset - 1 : ReadActive(offset)
             \/ ReadSealed \/ ReadRecord \/ ReadDone
             \/ OldestSealed \/ OldestActive \/ OldestDone
             \/ UNCHANGED vars
      PROVE  faulted'
  BY Zenon, <1>7 DEF ReadActive, ReadSealed, ReadRecord, ReadDone, OldestSealed, OldestActive, OldestDone, vars
<1> QED
  BY SMTT(30), <1>1, <1>2, <1>3, <1>4, <1>5, <1>6, <1>7 DEF Next

\* Only TruncateTo takes records away.
Cuts == \E offset \in 0 .. NextOffset : TruncateTo(offset)

\* What a step makes of the log: nothing is lost, or the log is cut, or a
\* truncation has left files behind.
LEMMA StepStruct ==
  ASSUME IndexInv, StructInv, [Next]_vars
  PROVE  /\ StructInv'
         /\ ~faulted' => ~faulted /\ (Extends \/ (Shrinks /\ Cuts))
<1>f. faulted => faulted'
  BY FaultedStays
<1> SUFFICES ASSUME ~faulted' PROVE Struct' /\ ~faulted /\ (Extends \/ (Shrinks /\ Cuts))
  BY <1>f DEF StructInv
<1>0. ~faulted
  BY <1>f
<1>a. Struct /\ FilesInv /\ WriterOK
  BY SMTT(30), <1>0 DEF StructInv, IndexInv
<1>1. ASSUME NEW n \in 1 .. MaxGroup, AppendRaw(n) PROVE Struct' /\ Extends
  <2>1. /\ writer = Idle /\ writer' = Idle /\ n \in Nat /\ written + n <= MaxRecords
        /\ files' = [files EXCEPT ![active] = @ \o NewBatches(n)] /\ DOMAIN index' = DOMAIN index
        /\ sealed' = sealed /\ active' = active
    BY <1>1, SegmentedLogAssumption DEF AppendRaw, AppendTo
  <2>2. writer.op \in {"none", "append"}
    BY <2>1 DEF Idle
  <2> QED
    BY Zenon, <1>a, <2>1, <2>2, AppendedStruct
<1>2. ASSUME NEW n \in 1 .. MaxGroup, Roll(n) PROVE Struct' /\ Extends
  BY <1>a, <1>2, RolledStruct
<1>3. CASE RollSealed
  BY <1>0, <1>a, <1>3, RollSealedStruct
<1>4. CASE RollActive
  BY SMTT(30), <1>0, <1>a, <1>4, RollActiveStruct
<1>5. CASE AppendRolled
  <2>1. /\ writer.op = "append" /\ writer' = Idle /\ sealed' = sealed /\ active' = active
        /\ \/ AppendTo(active, writer.n)
           \/ files' = files /\ index' = index /\ written' = written
    BY <1>5 DEF AppendRolled
  <2>2. writer.n \in Nat /\ written + writer.n <= MaxRecords
    <3>1. writer.n \in 1 .. MaxGroup /\ written + writer.n <= MaxRecords
      BY <1>a, <2>1 DEF WriterOK, RollOps, TruncateOps, Idle
    <3> QED
      BY SMTT(30), <3>1, SegmentedLogAssumption
  <2>3. CASE AppendTo(active, writer.n)
    <3>1. PICK k \in Nat : k = writer.n
      BY <2>2
    <3>2. /\ files' = [files EXCEPT ![active] = @ \o NewBatches(k)] /\ DOMAIN index' = DOMAIN index
          /\ written + k <= MaxRecords
      BY <2>2, <2>3, <3>1 DEF AppendTo
    <3> QED
      BY Zenon, <1>0, <1>a, <2>1, <3>2, AppendedStruct
  <2>4. CASE files' = files /\ index' = index /\ written' = written
    <3>1. /\ sealed \in Seq(Nat) /\ active \in Nat
          /\ DOMAIN index = DOMAIN files /\ Chain(Segments, files)
      BY Zenon, <1>a DEF Struct
    <3>2. Segments = Append(sealed, active)
      BY <2>1, SegmentsAre
    <3>3. DOMAIN files = Range(Segments)
      BY SMTT(30), <1>a, <2>1 DEF Struct, Waiting, TruncateOps
    <3>4. Struct' /\ Segments' = Segments
      BY Zenon, <2>1, <2>4, <3>1, <3>2, <3>3, QuietStruct
    <3> QED
      BY <1>0, <1>a, <2>4, <3>4, SameSegments
  <2> QED
    BY SMTT(30), <2>1, <2>3, <2>4
<1>6. ASSUME NEW offset \in 0 .. NextOffset, TruncateTo(offset) PROVE Struct' /\ Shrinks /\ Cuts
  BY <1>a, <1>6, TruncatedStruct DEF Cuts
<1>7. CASE TruncateSealed
  BY <1>0, <1>a, <1>7, TruncateSealedStruct
<1>8. CASE TruncateActive
  BY <1>0, <1>a, <1>8, TruncateActiveStruct
<1>9. CASE RemovePair
  BY <1>0, <1>a, <1>9, RemovedStruct
<1>10. CASE CrashAndReopen
  BY SMTT(30), <1>0, <1>a, <1>10, CrashStruct
<1>11. ASSUME NEW n \in 1 .. MaxGroup, NEW k \in 0 .. n - 1, CrashInAppend(n, k) PROVE Struct' /\ Extends
  BY <1>a, <1>11, CrashInAppendStruct
<1>12. CASE UNCHANGED <<files, memory, writer>>
  <2>1. /\ files' = files /\ index' = index /\ sealed' = sealed /\ active' = active
        /\ writer' = writer
    BY <1>12 DEF memory
  <2>2. Segments' = Segments /\ Waiting' = Waiting
    BY SMTT(30), <2>1 DEF Segments, Waiting, TargetIndex
  <2>3. Struct'
    BY Zenon, <1>a, <2>1, <2>2 DEF Struct
  <2> QED
    BY <1>0, <1>a, <2>1, <2>2, <2>3, SameSegments
<1>13. CASE \/ \E offset \in 0 .. NextOffset - 1 : ReadActive(offset)
            \/ ReadSealed \/ ReadRecord \/ ReadDone
            \/ OldestSealed \/ OldestActive \/ OldestDone
            \/ UNCHANGED vars
  <2>1. UNCHANGED <<files, memory, writer>>
    BY <1>13 DEF ReadActive, ReadSealed, ReadRecord, ReadDone, OldestSealed, OldestActive, OldestDone, vars
  <2> QED
    BY <1>12, <2>1
<1> QED
  BY <1>0, <1>1, <1>2, <1>3, <1>4, <1>5, <1>6, <1>7, <1>8, <1>9, <1>10, <1>11, <1>13 DEF Next

LEMMA StructInvHolds == Spec => [](IndexInv /\ StructInv)
<1>1. Init => IndexInv /\ StructInv
  <2> SUFFICES ASSUME Init PROVE IndexInv /\ StructInv
    OBVIOUS
  <2>1. /\ files = [b \in {0} |-> <<>>] /\ index = [b \in {0} |-> <<>>]
        /\ DOMAIN files = {0} /\ DOMAIN index = {0} /\ files[0] = <<>> /\ index[0] = <<>>
        /\ sealed = <<>> /\ active = 0 /\ writer = Idle /\ written = 0 /\ faulted = FALSE
    BY DEF Init
  <2>2. IndexInv
    <3>1. Searchable(<<>>, 0) /\ Len(<<>>) = 0 /\ <<>> \in Seq(Recs)
      BY DEF Searchable
    <3> QED
      BY <2>1, <3>1 DEF IndexInv, FilesInv, WriterOK
  <2>3. writer.op = "none"
    BY <2>1 DEF Idle
  <2>4. Segments = Append(sealed, active) /\ Waiting = {}
    BY <2>3, SegmentsAre DEF Waiting, TruncateOps
  <2>5. Segments = <<0>>
    BY <2>1, <2>4
  <2>6. /\ DOMAIN Segments = {1} /\ Segments[1] = 0 /\ Len(Segments) = 1 /\ Segments \in Seq(Nat)
        /\ Segments # <<>>
    <3>1. <<0>> \in Seq(Nat) /\ Len(<<0>>) = 1 /\ <<0>>[1] = 0
      OBVIOUS
    <3>2. \A x \in Seq(Nat) : Len(x) = 1 => DOMAIN x = {1} /\ x # <<>>
      OBVIOUS
    <3> QED
      BY <2>5, <3>1, <3>2
  <2>7. Chain(Segments, files)
    BY <2>1, <2>6 DEF Chain
  <2>8. DOMAIN files = Range(Segments)
    BY <2>1, <2>6 DEF Range
  <2> QED
    BY <2>1, <2>2, <2>3, <2>4, <2>7, <2>8 DEF StructInv, Struct, TruncateOps
<1>2. IndexInv /\ StructInv /\ [Next]_vars => (IndexInv /\ StructInv)'
  BY IndexInvInductive, StepStruct
<1> QED
  BY <1>1, <1>2, PTL DEF Spec

\* The segments of a log follow each other without a hole, whatever was rolled,
\* cut, removed, interrupted in an append and reopened, and for every limit on
\* segments and indexes, until a truncation leaves files behind.
THEOREM SegmentsContiguous == Spec => []Contiguous
<1>1. StructInv => Contiguous
  <2> SUFFICES ASSUME Struct PROVE NoHoles
    BY DEF StructInv, Contiguous
  <2>1. Chain(Segments, files)
    BY Zenon DEF Struct
  <2> QED
    BY <2>1 DEF Chain, NoHoles, NextOffsetOf
<1> QED
  BY <1>1, StructInvHolds, PTL

-----------------------------------------------------------------------------
(* One sequence of records.                                                *)

LEMMA ContentsAre ==
  ASSUME Chain(Segments, files)
  PROVE  /\ Contents = Flat(Segments, files)
         /\ Contents \in Seq(Recs) /\ Len(Contents) = End(Segments, files) /\ Len(Contents) \in Nat
<1>1. Contents = Flat(Segments, files)
  BY SMTT(30) DEF Contents, Flat
<1> QED
  BY SMTT(30), <1>1, FlatRecords, ChainTypes

LEMMA NextContentsAre ==
  ASSUME Chain(Segments', files')
  PROVE  /\ Contents' = Flat(Segments', files')
         /\ Contents' \in Seq(Recs) /\ Len(Contents') = End(Segments', files') /\ Len(Contents') \in Nat
<1>1. Contents' = Flat(Segments', files')
  BY DEF Contents, Flat
<1> QED
  BY SMTT(30), <1>1, FlatRecords, ChainTypes

LEMMA ContentsGrow ==
  ASSUME Chain(Segments, files), Chain(Segments', files'), Extends
  PROVE  Begins(Contents, Contents')
<1>1. \A j \in DOMAIN Segments : \/ files[Segments[j]] = <<>>
                                 \/ \E i \in DOMAIN Segments' :
                                      /\ Segments'[i] = Segments[j]
                                      /\ Begins(files[Segments[j]], files'[Segments[j]])
  BY SMTT(30) DEF Extends
<1>2. /\ End(Segments, files) <= End(Segments', files')
      /\ \A k \in 1 .. End(Segments, files) : Flat(Segments, files)[k] = Flat(Segments', files')[k]
  BY SMTT(30), <1>1, FlatPrefix
<1> QED
  BY SMTT(30), <1>2, ContentsAre, NextContentsAre DEF Begins

LEMMA ContentsCut ==
  ASSUME Chain(Segments, files), Chain(Segments', files'), Shrinks
  PROVE  Begins(Contents', Contents)
<1>1. \A j \in DOMAIN Segments' : \/ files'[Segments'[j]] = <<>>
                                  \/ \E i \in DOMAIN Segments :
                                       /\ Segments[i] = Segments'[j]
                                       /\ Begins(files'[Segments'[j]], files[Segments'[j]])
  BY SMTT(30) DEF Shrinks
<1>2. /\ End(Segments', files') <= End(Segments, files)
      /\ \A k \in 1 .. End(Segments', files') : Flat(Segments', files')[k] = Flat(Segments, files)[k]
  BY SMTT(30), <1>1, FlatPrefix
<1> QED
  BY SMTT(30), <1>2, ContentsAre, NextContentsAre DEF Begins

\* A sequence that begins another is a cut of it.
LEMMA BeginningIsCut ==
  ASSUME NEW x \in Seq(Recs), NEW y \in Seq(Recs), Begins(x, y)
  PROVE  Len(x) \in 0 .. Len(y) /\ x = SubSeq(y, 1, Len(x))
<1>1. Len(x) \in 0 .. Len(y) /\ \A k \in 1 .. Len(x) : x[k] = y[k]
  BY DEF Begins
<1>2. /\ SubSeq(y, 1, Len(x)) \in Seq(Recs) /\ Len(SubSeq(y, 1, Len(x))) = Len(x)
      /\ \A k \in 1 .. Len(x) : SubSeq(y, 1, Len(x))[k] = y[k]
  BY <1>1, PrefixOf
<1> QED
  BY <1>1, <1>2, SameSequence

\* A step of the segments is a step of the log or leaves it as it is.
LEMMA RefinementStep ==
  ASSUME IndexInv, StructInv, [Next]_vars, NEW c, NEW d,
         c = IF faulted THEN <<>> ELSE Contents, d = (IF faulted THEN <<>> ELSE Contents)'
  PROVE  \/ Len(d) > Len(c) /\ SubSeq(d, 1, Len(c)) = c /\ d \in Seq(1 .. MaxRecords)
         \/ \E offset \in 0 .. Len(c) : d = SubSeq(c, 1, offset)
<1>1. /\ StructInv' /\ (~faulted' => ~faulted /\ (Extends \/ Shrinks))
  BY StepStruct
<1>2. c \in Seq(Recs)
  <2>1. CASE faulted
    BY <2>1
  <2>2. CASE ~faulted
    <3>1. Chain(Segments, files)
      BY Zenon, <2>2 DEF StructInv, Struct
    <3> QED
      BY SMTT(30), <2>2, <3>1, ContentsAre
  <2> QED
    BY <2>1, <2>2
<1>3. CASE faulted'
  <2>1. d = <<>>
    BY <1>3
  <2>2. 0 \in 0 .. Len(c) /\ SubSeq(c, 1, 0) = <<>>
    BY <1>2
  <2> QED
    BY Zenon, <2>1, <2>2
<1>4. CASE ~faulted'
  <2>1. /\ c = Contents /\ d = Contents'
        /\ Chain(Segments, files) /\ Chain(Segments', files') /\ (Extends \/ Shrinks)
    BY Zenon, <1>1, <1>4 DEF StructInv, Struct
  <2>2. d \in Seq(Recs)
    BY <2>1, NextContentsAre
  <2>3. Begins(c, d) \/ Begins(d, c)
    BY <2>1, ContentsGrow, ContentsCut
  <2>4. CASE Begins(d, c)
    <3>1. Len(d) \in 0 .. Len(c) /\ d = SubSeq(c, 1, Len(d))
      BY Zenon, <1>2, <2>2, <2>4, BeginningIsCut
    <3> QED
      BY <3>1
  <2>5. CASE Begins(c, d)
    <3>1. Len(c) \in 0 .. Len(d) /\ c = SubSeq(d, 1, Len(c))
      BY Zenon, <1>2, <2>2, <2>5, BeginningIsCut
    <3>2. CASE Len(d) > Len(c)
      BY <2>2, <3>1, <3>2 DEF Recs
    <3>3. CASE ~(Len(d) > Len(c))
      <4>1. Len(c) \in Nat /\ Len(d) \in Nat /\ Len(d) = Len(c)
        BY SMTT(30), <1>2, <2>2, <3>1, <3>3
      <4>2. Begins(d, c)
        BY <2>5, <4>1 DEF Begins
      <4> QED
        BY <2>4, <4>2
    <3> QED
      BY <3>2, <3>3
  <2> QED
    BY <2>3, <2>4, <2>5
<1> QED
  BY <1>3, <1>4

\* Segment files that are appended to, rolled, cut, removed and reopened after a
\* crash are one log that grows and is cut at its end: nothing in it is lost,
\* doubled or reordered, for every limit on segments and indexes.
THEOREM SegmentsImplementLog == Spec => RefinesOffsetLog
<1>1. Init => AbstractLog!Init
  <2> SUFFICES ASSUME Init PROVE (IF faulted THEN <<>> ELSE Contents) = <<>>
    BY DEF AbstractLog!Init
  <2>1. /\ files[0] = <<>> /\ sealed = <<>> /\ active = 0 /\ writer.op = "none" /\ faulted = FALSE
        /\ DOMAIN files = {0}
    BY DEF Init, Idle
  <2>2. Segments = Append(<<>>, 0)
    BY <2>1, SegmentsAre
  <2>3. /\ Segments \in Seq(Nat) /\ Len(Segments) = 1 /\ DOMAIN Segments = {1} /\ Segments[1] = 0
    BY <2>2
  <2>4. Chain(Segments, files) /\ End(Segments, files) = 0
    <3>1. <<>> \in Seq(Recs) /\ Len(<<>>) = 0
      OBVIOUS
    <3> QED
      BY <2>1, <2>3, <3>1 DEF Chain, End
  <2>5. Contents \in Seq(Recs) /\ Len(Contents) = 0
    BY <2>4, ContentsAre
  <2> QED
    BY <2>1, <2>5
<1>2. IndexInv /\ StructInv /\ [Next]_vars =>
        [AbstractLog!AppendRecords \/ AbstractLog!TruncateTo]_(IF faulted THEN <<>> ELSE Contents)
  BY SMTT(30), RefinementStep DEF AbstractLog!AppendRecords, AbstractLog!TruncateTo
<1> QED
  BY <1>1, <1>2, StructInvHolds, PTL DEF Spec, RefinesOffsetLog, AbstractLog!Spec

-----------------------------------------------------------------------------
(* Lock-free reads.                                                        *)

\* What a read that no truncation disturbs has loaded leads it to its record,
\* and what it has found is the record.
Undisturbed ==
    /\ ~Truncating /\ reader.closed = {} /\ reader.offset \in Nat
    /\ reader.pc = "active" => Loaded(Segments, files, sealed, reader.active, reader.offset)
    /\ reader.pc = "sealed" => Loaded(Segments, files, reader.sealed, reader.active, reader.offset)
    /\ reader.pc = "done" =>
         reader.offset < Len(Contents) /\ reader.result = Contents[reader.offset + 1]

ReaderInv ==
    \/ reader = NoRead
    \/ /\ reader.pc \in {"active", "sealed", "done"}
       /\ DOMAIN reader = {"pc", "offset", "active", "sealed", "closed", "result", "valid"}
       /\ reader.valid \in BOOLEAN
       /\ reader.valid /\ ~faulted => Undisturbed

\* The segments are what activePair and sealedPairs point to.
LEMMA SegmentsLoaded ==
  Struct /\ WriterOK /\ ~Truncating =>
    /\ Range(sealed) \subseteq Range(Segments) /\ active \in Range(Segments)
    /\ \A b \in Range(Segments) : b = active \/ b \in Range(sealed)
    /\ End(Segments, files) = NextOffset
<1> SUFFICES ASSUME Struct, WriterOK, ~Truncating
             PROVE  /\ Range(sealed) \subseteq Range(Segments) /\ active \in Range(Segments)
                    /\ \A b \in Range(Segments) : b = active \/ b \in Range(sealed)
                    /\ End(Segments, files) = NextOffset
  BY SMTT(30)
<1>1. sealed \in Seq(Nat) /\ active \in Nat
  BY Zenon DEF Struct
<1>2. writer.op \in {"none", "roll: sealed", "roll: active", "append"}
  <2>1. writer.op = "none" \/ writer.op \in RollOps \/ writer.op \in TruncateOps
    BY DEF WriterOK, Idle
  <2> QED
    BY Zenon, <2>1 DEF RollOps, TruncateOps, Truncating
<1>3. CASE writer.op \in {"none", "roll: sealed", "append"}
  <2>1. Segments = Append(sealed, active)
    BY Zenon, <1>3, SegmentsAre
  <2>2. Range(Segments) = Range(sealed) \cup {active}
    BY <1>1, <2>1, RangeAppend
  <2> QED
    BY Zenon, <1>1, <2>1, <2>2, EndOfActive
<1>4. CASE writer.op = "roll: active"
  <2>1. Segments = sealed
    BY Zenon, <1>4, SegmentsAre
  <2>2. sealed # <<>> /\ active = sealed[Len(sealed)]
    BY Zenon, <1>4 DEF Struct
  <2>3. Len(sealed) \in DOMAIN sealed
    BY SMTT(30), <1>1, <2>2
  <2> QED
    BY SMTT(30), <2>1, <2>2, <2>3 DEF Range, End, NextOffset, NextOffsetOf
<1> QED
  BY Zenon, <1>2, <1>3, <1>4

\* What a reader has loaded still leads it to the record when the log has grown.
LEMMA LoadedStays ==
  ASSUME NEW s, NEW f, Chain(s, f), NEW t, NEW g, Chain(t, g),
         \A i \in DOMAIN s : \E j \in DOMAIN t : t[j] = s[i] /\ Begins(f[s[i]], g[s[i]]),
         NEW ss, NEW tt, NEW a, NEW x, Loaded(s, f, ss, a, x),
         Range(ss) \subseteq Range(tt), Range(tt) \subseteq Range(t)
  PROVE  Loaded(t, g, tt, a, x)
<1>0. /\ DOMAIN s = 1 .. Len(s) /\ DOMAIN t = 1 .. Len(t) /\ Len(s) \in Nat /\ Len(t) \in Nat
      /\ Len(s) \in DOMAIN s
      /\ \A i \in DOMAIN s : s[i] \in Nat /\ Len(f[s[i]]) \in Nat
      /\ \A i \in DOMAIN t : t[i] \in Nat /\ Len(g[t[i]]) \in Nat
      /\ \A i, j \in DOMAIN s : i < j => s[i] + Len(f[s[i]]) <= s[j]
      /\ \A i, j \in DOMAIN t : i < j => t[i] + Len(g[t[i]]) <= t[j]
      /\ End(s, f) \in Nat /\ End(t, g) \in Nat
  <2>1. \A i, j \in DOMAIN t : i < j => t[i] + Len(g[t[i]]) <= t[j]
    BY ChainTypes
  <2>2. \A i, j \in DOMAIN s : i < j => s[i] + Len(f[s[i]]) <= s[j]
    BY SMTT(30), ChainTypes
  <2> QED
    BY SMTT(30), <2>1, <2>2, ChainTypes
<1>a. \A i, j \in DOMAIN t : i < j => t[i] < t[j]
  BY SMTT(30) DEF Chain
<1>1. End(s, f) <= End(t, g)
  BY Zenon, FlatPrefix
<1>2. PICK m \in DOMAIN s : s[m] = a
  BY SMTT(30) DEF Loaded, Range
<1>3. PICK n \in DOMAIN t : t[n] = a /\ Begins(f[a], g[a])
  BY SMTT(30), <1>2
<1>b. a \in Nat /\ Len(f[a]) \in Nat /\ Len(g[a]) \in Nat /\ x \in Nat
  BY SMTT(30), <1>0, <1>2, <1>3 DEF Loaded
<1>4. ASSUME NEW b \in Range(t), b < a PROVE b \in Range(s)
  <2>1. PICK q \in DOMAIN t : t[q] = b
    BY Zenon DEF Range
  <2>0. b \in Nat
    BY SMTT(30), <1>0, <2>1
  <2>2. b + 1 \in 1 .. End(s, f)
    <3>1. a <= End(s, f)
      <4>1. CASE m = Len(s)
        BY SMTT(30), <1>b, <1>2, <4>1 DEF End
      <4>2. CASE m # Len(s)
        <5>1. m < Len(s)
          BY SMTT(30), <1>0, <4>2
        <5>2. s[m] + Len(f[s[m]]) <= s[Len(s)]
          BY SMTT(30), <1>0, <5>1
        <5>3. s[Len(s)] \in Nat /\ Len(f[s[Len(s)]]) \in Nat
          BY Zenon, <1>0
        <5> QED
          BY SMTT(30), <1>b, <1>2, <5>2, <5>3 DEF End
      <4> QED
        BY SMTT(30), <4>1, <4>2
    <3>2. End(s, f) \in Nat
      BY <1>0
    <3> QED
      BY SMTT(30), <1>b, <1>4, <2>0, <3>1, <3>2
  <2>3. PICK i \in DOMAIN s : Holds(s, f, i, b + 1)
    BY Zenon, <2>2, HeldSomewhere
  <2>4. s[i] <= b /\ b < s[i] + Len(f[s[i]])
    <3>1. s[i] \in Nat /\ Len(f[s[i]]) \in Nat
      BY SMTT(30), <1>0
    <3> QED
      BY SMTT(30), <2>0, <2>3, <3>1 DEF Holds
  <2>5. PICK j \in DOMAIN t : t[j] = s[i] /\ Begins(f[s[i]], g[s[i]])
    BY Zenon
  <2>6. b < t[j] + Len(g[t[j]]) /\ t[j] <= b
    <3>1. s[i] \in Nat /\ Len(f[s[i]]) \in Nat /\ Len(g[t[j]]) \in Nat
      BY SMTT(30), <1>0
    <3>2. Len(f[s[i]]) <= Len(g[t[j]])
      BY Zenon, <2>5 DEF Begins
    <3> QED
      BY SMTT(30), <2>0, <2>4, <2>5, <3>1, <3>2
  <2>7. j = q
    <3>0. j \in Nat /\ q \in Nat
      BY SMTT(30), <1>0
    <3>1. j \in Nat /\ q \in Nat /\ t[j] \in Nat /\ t[q] \in Nat /\ Len(g[t[j]]) \in Nat
      BY <1>0, <3>0
    <3>2. ASSUME q < j PROVE FALSE
      <4>1. t[q] < t[j]
        BY SMTT(30), <1>a, <3>2
      <4> QED
        BY SMTT(30), <2>1, <2>6, <3>1, <4>1
    <3>3. ASSUME j < q PROVE FALSE
      <4>1. t[j] + Len(g[t[j]]) <= t[q]
        BY SMTT(30), <1>0, <3>3
      <4> QED
        BY SMTT(30), <2>1, <2>6, <3>1, <4>1
    <3> QED
      BY SMTT(30), <3>1, <3>2, <3>3
  <2> QED
    BY Zenon, <2>1, <2>5, <2>7 DEF Range
<1>5. x \in 0 .. End(t, g) - 1
  BY SMTT(30), <1>0, <1>1 DEF Loaded
<1>6. a \in Range(t)
  BY Zenon, <1>3 DEF Range
<1>7. a <= x => x < a + Len(g[a])
  BY SMTT(30), <1>b, <1>3 DEF Loaded, Begins
<1> QED
  BY Zenon, <1>4, <1>5, <1>6, <1>7 DEF Loaded

\* A read is not disturbed by a log that grows.
LEMMA UndisturbedStays ==
  ASSUME Struct, Struct', WriterOK', Extends, Undisturbed, reader' = reader,
         ~Truncating', Range(sealed) \subseteq Range(sealed')
  PROVE  Undisturbed'
<1>1. /\ Chain(Segments, files) /\ Chain(Segments', files')
      /\ \A i \in DOMAIN Segments : \E j \in DOMAIN Segments' :
           Segments'[j] = Segments[i] /\ Begins(files[Segments[i]], files'[Segments[i]])
  BY Zenon DEF Struct, Extends
<1>2. Range(sealed') \subseteq Range(Segments')
  <2>1. (Struct /\ WriterOK /\ ~Truncating => Range(sealed) \subseteq Range(Segments))'
    BY SegmentsLoaded, PTL
  <2> QED
    BY <2>1
<1>3. Range(Segments) \subseteq Range(Segments')
  BY Zenon, <1>1 DEF Range
<1>4. ASSUME reader.pc = "active"
      PROVE  Loaded(Segments', files', sealed', reader.active, reader.offset)
  <2>1. Loaded(Segments, files, sealed, reader.active, reader.offset)
    BY SMTT(30), <1>4 DEF Undisturbed
  <2> QED
    BY Zenon, <1>1, <1>2, <2>1, LoadedStays
<1>5. ASSUME reader.pc = "sealed"
      PROVE  Loaded(Segments', files', reader.sealed, reader.active, reader.offset)
  <2>1. Loaded(Segments, files, reader.sealed, reader.active, reader.offset)
    BY <1>5 DEF Undisturbed
  <2>2. Range(reader.sealed) \subseteq Range(Segments')
    BY <1>3, <2>1 DEF Loaded
  <2> QED
    BY Zenon, <1>1, <2>1, <2>2, LoadedStays
<1>6. ASSUME reader.pc = "done"
      PROVE  reader.offset < Len(Contents') /\ reader.result = Contents'[reader.offset + 1]
  <2>1. /\ reader.offset \in Nat /\ reader.offset < Len(Contents)
        /\ reader.result = Contents[reader.offset + 1]
    BY SMTT(30), <1>6 DEF Undisturbed
  <2>2. Begins(Contents, Contents') /\ Len(Contents) \in Nat /\ Len(Contents') \in Nat
    BY SMTT(30), <1>1, ContentsAre, NextContentsAre, ContentsGrow
  <2>3. reader.offset + 1 \in 1 .. Len(Contents)
    BY SMTT(30), <2>1, <2>2
  <2> QED
    BY SMTT(30), <2>1, <2>2, <2>3 DEF Begins
<1> QED
  BY Zenon, <1>4, <1>5, <1>6 DEF Undisturbed

\* The fields of a read that is under way.
ReadFields == {"pc", "offset", "active", "sealed", "closed", "result", "valid"}

\* A record of the segment list, found where it is held.
LEMMA RecordHeld ==
  ASSUME Chain(Segments, files), NEW i \in DOMAIN Segments, NEW y \in Nat, Holds(Segments, files, i, y),
         NEW base, Segments[i] = base
  PROVE  y \in 1 .. End(Segments, files) /\ Flat(Segments, files)[y] = files[base][y - base]
<1>1. PICK s : s = Segments
  OBVIOUS
<1>2. PICK f : f = files
  OBVIOUS
<1>3. Chain(s, f) /\ i \in DOMAIN s /\ Holds(s, f, i, y) /\ s[i] = base
  BY <1>1, <1>2
<1>4. y \in 1 .. End(s, f) /\ Flat(s, f)[y] = f[s[i]][y - s[i]]
  BY <1>3, FlatRecords
<1>5. y \in 1 .. End(s, f) /\ Flat(s, f)[y] = f[base][y - base]
  BY <1>3, <1>4
<1> QED
  BY <1>1, <1>2, <1>5

\* The reader that has loaded both finds the record of its offset.
LEMMA ReadFinds ==
  ASSUME FilesInv, Struct, DOMAIN reader = ReadFields, Undisturbed, ReadRecord
  PROVE  /\ reader.offset < Len(Contents)
         /\ reader'.result = Contents[reader.offset + 1]
<1>1. PICK x, base : x = reader.offset /\ base = FindSegment(reader.sealed, reader.active, x)
  OBVIOUS
<1>2. /\ Chain(Segments, files) /\ Loaded(Segments, files, reader.sealed, reader.active, x)
      /\ DOMAIN index = DOMAIN files /\ reader.closed = {}
  BY Zenon, <1>1 DEF Struct, Undisturbed, ReadRecord
<1>3. PICK i \in DOMAIN Segments :
        Segments[i] = base /\ base <= x /\ x < base + Len(files[base])
  BY SMTT(30), <1>1, <1>2, FindsSegment DEF Located
<1>4. /\ x \in Nat /\ base \in Nat /\ Len(files[base]) \in Nat /\ base \in DOMAIN files
      /\ Searchable(index[base], Len(files[base]))
  <2>1. base \in DOMAIN files /\ base \in Nat
    BY SMTT(30), <1>2, <1>3 DEF Chain
  <2>2. x \in Nat /\ Len(files[base]) \in Nat
    BY <1>1, <2>1 DEF Undisturbed, FilesInv
  <2> QED
    BY SMTT(30), <1>2, <2>1, <2>2 DEF FilesInv
<1>5. Lookup(base, x) <= x - base
  <2>1. PICK S : S = {p \in Range(index[base]) : p <= x - base} \cup {0}
    BY Zenon
  <2>2. Range(index[base]) \subseteq Nat
    BY <1>4 DEF Searchable, Range
  <2>3. S \in SUBSET Int /\ S # {} /\ (x - base) \in Int /\ \A y \in S : y <= x - base
    BY <1>3, <1>4, <2>1, <2>2
  <2>4. Max(S) <= x - base
    BY Zenon, <2>3, MaxIsGreatest
  <2> QED
    BY <2>1, <2>4 DEF Lookup
<1>6. reader'.result = files[base][x - base + 1]
  <2>1. x - base < Len(files[base]) /\ base # -1 /\ base \notin reader.closed
    BY <1>2, <1>3, <1>4
  <2>2. PICK v : v = files[base][x - base + 1]
    OBVIOUS
  <2>3. reader' = [reader EXCEPT !.pc = "done", !.result = v]
    BY <1>1, <1>5, <2>1, <2>2 DEF ReadRecord
  <2> QED
    BY <2>2, <2>3 DEF ReadFields
<1>7. Holds(Segments, files, i, x + 1) /\ x + 1 \in Nat /\ (x + 1) - base = x - base + 1
  BY SMTT(30), <1>3, <1>4 DEF Holds
<1>8. x + 1 \in 1 .. End(Segments, files) /\ Flat(Segments, files)[x + 1] = files[base][x - base + 1]
  <2>1. PICK y \in Nat : y = x + 1
    BY <1>7
  <2>2. Holds(Segments, files, i, y) /\ Segments[i] = base
    BY <1>3, <1>7, <2>1
  <2>3. y \in 1 .. End(Segments, files) /\ Flat(Segments, files)[y] = files[base][y - base]
    BY <1>2, <2>2, RecordHeld
  <2> QED
    BY <1>7, <2>1, <2>3
<1>9. Contents = Flat(Segments, files) /\ Len(Contents) = End(Segments, files) /\ Len(Contents) \in Nat
  BY <1>2, ContentsAre
<1> QED
  BY <1>1, <1>4, <1>6, <1>8, <1>9

LEMMA ReadActiveStarts ==
  ASSUME FilesInv, Struct, WriterOK, ~Truncating, NEW offset \in 0 .. NextOffset - 1
  PROVE  Loaded(Segments, files, sealed, active, offset)
<1>1. /\ Range(sealed) \subseteq Range(Segments) /\ active \in Range(Segments)
      /\ \A b \in Range(Segments) : b = active \/ b \in Range(sealed)
      /\ End(Segments, files) = NextOffset
  BY SegmentsLoaded
<1>2. NextOffset = active + Len(files[active])
  BY SMTT(30) DEF NextOffset, NextOffsetOf
<1>3. active \in Nat
  BY Zenon DEF Struct
<1> QED
  BY <1>1, <1>2, <1>3 DEF Loaded

\* The steps that leave a read alone.
Passes ==
    \/ \E n \in 1 .. MaxGroup : AppendRaw(n) \/ Roll(n)
    \/ RollSealed \/ RollActive \/ AppendRolled
    \/ TruncateSealed \/ TruncateActive
    \/ OldestSealed \/ OldestActive \/ OldestDone
    \/ UNCHANGED vars

\* None of them begins a truncation or takes a segment from the sealed ones.
LEMMA PassesBy ==
  ASSUME IndexInv, StructInv, ~faulted, Passes, ~Truncating
  PROVE  ~Truncating' /\ Range(sealed) \subseteq Range(sealed')
<1>1. sealed \in Seq(Nat) /\ WriterOK
  BY Zenon DEF StructInv, Struct, IndexInv
<1>2. CASE \E n \in 1 .. MaxGroup : AppendRaw(n) \/ Roll(n)
  <2>1. CASE \E n \in 1 .. MaxGroup : AppendRaw(n)
    BY Zenon, <2>1 DEF AppendRaw, Truncating
  <2>2. ASSUME NEW n, Roll(n) PROVE sealed' = sealed /\ writer'.op = "roll: sealed"
    BY Zenon, <2>2 DEF Roll
  <2> QED
    BY Zenon, <1>2, <2>1, <2>2 DEF Truncating
<1>3. CASE RollSealed
  <2>1. writer.op = "roll: sealed" /\ writer.old = active /\ active \in Nat
    BY Zenon, <1>3 DEF RollSealed, StructInv, Struct
  <2>2. writer'.op = "roll: active"
    BY Zenon, <1>1, <1>3, <2>1, WriterGoesOn DEF RollSealed, RollOps
  <2>3. Range(sealed') = Range(sealed) \cup {active}
    <3>1. sealed' = Append(sealed, active)
      BY Zenon, <1>3, <2>1 DEF RollSealed
    <3>2. Range(Append(sealed, active)) = Range(sealed) \cup {active}
      <4>1. active \in Nat
        BY Zenon, <2>1
      <4> QED
        BY <1>1, <4>1, RangeAppend
    <3> QED
      BY <3>1, <3>2, Zenon
  <2> QED
    BY Zenon, <2>2, <2>3 DEF Truncating
<1>4. CASE RollActive
  <2>1. writer'.op = "append"
    BY Zenon, <1>1, <1>4, WriterGoesOn DEF RollActive, RollOps
  <2> QED
    BY Zenon, <1>4, <2>1 DEF RollActive, Truncating
<1>5. CASE AppendRolled
  BY <1>5 DEF AppendRolled, Truncating, Idle
<1>6. CASE TruncateSealed \/ TruncateActive
  BY Zenon, <1>6 DEF TruncateSealed, TruncateActive, Truncating
<1>7. CASE OldestSealed \/ OldestActive \/ OldestDone \/ UNCHANGED vars
  BY Zenon, <1>7 DEF OldestSealed, OldestActive, OldestDone, vars, memory, Truncating
<1> QED
  BY SMTT(30), <1>2, <1>3, <1>4, <1>5, <1>6, <1>7 DEF Passes

LEMMA PassesReader ==
  ASSUME Passes
  PROVE  reader' = reader
<1>1. CASE \E n \in 1 .. MaxGroup : AppendRaw(n) \/ Roll(n)
  BY Zenon, <1>1 DEF AppendRaw, Roll
<1>2. CASE RollSealed \/ RollActive \/ AppendRolled \/ TruncateSealed \/ TruncateActive
  BY Zenon, <1>2 DEF RollSealed, RollActive, AppendRolled, TruncateSealed, TruncateActive
<1>3. CASE OldestSealed \/ OldestActive \/ OldestDone \/ UNCHANGED vars
  BY SMTT(30), <1>3 DEF OldestSealed, OldestActive, OldestDone, vars
<1> QED
  BY SMTT(30), <1>1, <1>2, <1>3 DEF Passes

LEMMA ReaderInvInductive ==
  ASSUME IndexInv, StructInv, ReaderInv, [Next]_vars
  PROVE  ReaderInv'
<1>0. /\ NoRead.pc = "idle" /\ IndexInv' /\ StructInv'
      /\ ~faulted' => ~faulted /\ Struct /\ Struct' /\ WriterOK /\ WriterOK' /\ FilesInv
  BY StepStruct, IndexInvInductive DEF NoRead, StructInv, IndexInv
<1>1. CASE Passes
  <2>1. reader' = reader
    BY SMTT(30), <1>1, PassesReader
  <2>2. ASSUME reader.valid, ~faulted', reader # NoRead PROVE Undisturbed'
    <3>1. Undisturbed /\ ~faulted /\ Struct /\ Struct' /\ WriterOK'
      BY SMTT(30), <1>0, <2>2 DEF ReaderInv
    <3>2. ~Truncating /\ ~Truncating' /\ Range(sealed) \subseteq Range(sealed')
      BY <1>1, <3>1, PassesBy DEF Undisturbed
    <3>3. Extends
      <4>1. ~Cuts
        <5>1. ASSUME NEW offset, TruncateTo(offset) PROVE FALSE
          <6>1. reader' = [reader EXCEPT !.valid = FALSE]
            BY Zenon, <1>0, <2>2, <5>1 DEF TruncateTo, Disturb, ReaderInv
          <6>2. reader'.valid = FALSE
            BY <2>2, <6>1 DEF ReaderInv
          <6> QED
            BY <2>1, <2>2, <6>2
        <5> QED
          BY <5>1 DEF Cuts
      <4> QED
        BY <2>2, <4>1, StepStruct
    <3> QED
      BY SMTT(30), <2>1, <3>1, <3>2, <3>3, UndisturbedStays
  <2> QED
    BY <2>1, <2>2 DEF ReaderInv
<1>2. CASE Cuts
  <2>1. reader' = Disturb(reader)
    BY Zenon, <1>2 DEF Cuts, TruncateTo
  <2>2. CASE reader = NoRead
    BY SMTT(30), <1>0, <2>1, <2>2 DEF Disturb, ReaderInv
  <2>3. CASE reader # NoRead
    <3>1. reader' = [reader EXCEPT !.valid = FALSE] /\ DOMAIN reader = ReadFields
      BY <2>1, <2>3 DEF Disturb, ReaderInv, ReadFields
    <3>2. DOMAIN reader' = ReadFields /\ reader'.valid = FALSE /\ reader'.pc = reader.pc
      BY <3>1 DEF ReadFields
    <3> QED
      BY Zenon, <2>3, <3>2 DEF ReaderInv, ReadFields
  <2> QED
    BY SMTT(30), <2>2, <2>3
<1>3. CASE RemovePair
  <2>1. PICK c : reader' = reader \/ (reader # NoRead /\ reader' = [reader EXCEPT !.closed = c])
    <3>1. reader = NoRead => Held = {}
      BY DEF Held, NoRead
    <3> QED
      BY Zenon, <1>3, <3>1 DEF RemovePair
  <2>2. CASE reader = NoRead
    BY <2>1, <2>2 DEF ReaderInv
  <2>3. CASE reader # NoRead
    <3>1. DOMAIN reader' = ReadFields /\ reader'.valid = reader.valid /\ reader'.pc = reader.pc
      BY <2>1, <2>3 DEF ReaderInv, ReadFields
    <3>2. ~faulted' => ~reader.valid
      BY SMTT(30), <1>0, <1>3, <2>3 DEF ReaderInv, Undisturbed, RemovePair, Truncating
    <3> QED
      BY <2>3, <3>1, <3>2 DEF ReaderInv, ReadFields
  <2> QED
    BY <2>2, <2>3
<1>4. ASSUME NEW offset \in 0 .. NextOffset - 1, ReadActive(offset) PROVE ReaderInv'
  <2>1. /\ reader'.pc = "active" /\ DOMAIN reader' = ReadFields /\ reader'.valid = ~Truncating
        /\ reader'.closed = {} /\ reader'.offset = offset /\ reader'.active = active
    BY <1>4 DEF ReadActive, ReadFields
  <2>2. /\ files' = files /\ sealed' = sealed /\ active' = active /\ writer' = writer
    BY <1>4 DEF ReadActive, memory
  <2>3. Segments' = Segments /\ Truncating' = Truncating
    BY SMTT(30), <2>2 DEF Segments, TargetIndex, Truncating
  <2>4. ASSUME ~Truncating, ~faulted' PROVE Undisturbed'
    <3>1. Loaded(Segments, files, sealed, active, offset)
      BY <1>0, <2>4, ReadActiveStarts
    <3>2. offset \in Nat
      BY <3>1 DEF Loaded
    <3> QED
      BY Zenon, <2>1, <2>2, <2>3, <2>4, <3>1, <3>2 DEF Undisturbed
  <2> QED
    BY Zenon, <2>1, <2>4 DEF ReaderInv, ReadFields
<1>5. ASSUME ReadSealed \/ ReadRecord PROVE ReaderInv'
  <2>1. /\ files' = files /\ sealed' = sealed /\ active' = active /\ writer' = writer /\ faulted' = faulted
    BY <1>5 DEF ReadSealed, ReadRecord, memory
  <2>2. Segments' = Segments /\ Truncating' = Truncating /\ Contents' = Contents
    BY <2>1 DEF Segments, TargetIndex, Truncating, Contents
  <2>3. reader # NoRead /\ DOMAIN reader = ReadFields /\ reader.valid \in BOOLEAN
    BY SMTT(30), <1>0, <1>5 DEF ReaderInv, ReadSealed, ReadRecord, ReadFields
  <2>4. CASE ReadSealed
    <3>1. /\ DOMAIN reader' = ReadFields /\ reader'.pc = "sealed" /\ reader'.sealed = sealed
          /\ reader'.valid = reader.valid /\ reader'.closed = reader.closed
          /\ reader'.offset = reader.offset /\ reader'.active = reader.active
      BY SMTT(30), <2>3, <2>4 DEF ReadSealed, ReadFields
    <3>2. ASSUME reader.valid, ~faulted PROVE Undisturbed'
      <4>1. Undisturbed /\ reader.pc = "active"
        BY <2>3, <2>4, <3>2 DEF ReaderInv, ReadSealed
      <4> QED
        BY Zenon, <2>1, <2>2, <3>1, <4>1 DEF Undisturbed
    <3> QED
      BY <2>1, <2>3, <3>1, <3>2 DEF ReaderInv, ReadFields
  <2>5. CASE ReadRecord
    <3>1. /\ DOMAIN reader' = ReadFields /\ reader'.pc = "done"
          /\ reader'.valid = reader.valid /\ reader'.closed = reader.closed
          /\ reader'.offset = reader.offset
      BY SMTT(30), <2>3, <2>5 DEF ReadRecord, ReadFields
    <3>2. ASSUME reader.valid, ~faulted PROVE Undisturbed'
      <4>1. Undisturbed
        BY SMTT(30), <2>3, <3>2 DEF ReaderInv
      <4>2. reader.offset < Len(Contents) /\ reader'.result = Contents[reader.offset + 1]
        BY SMTT(30), <1>0, <2>1, <2>3, <2>5, <3>2, <4>1, ReadFinds
      <4> QED
        BY <2>1, <2>2, <3>1, <4>1, <4>2 DEF Undisturbed
    <3> QED
      BY <2>1, <2>3, <3>1, <3>2 DEF ReaderInv, ReadFields
  <2> QED
    BY <1>5, <2>4, <2>5
<1>6. CASE \/ CrashAndReopen \/ ReadDone
           \/ \E n \in 1 .. MaxGroup : \E k \in 0 .. n - 1 : CrashInAppend(n, k)
  <2>1. reader' = NoRead
    BY <1>6 DEF CrashAndReopen, CrashInAppend, Reopen, ReadDone
  <2> QED
    BY SMTT(30), <2>1 DEF ReaderInv, NoRead
<1> QED
  BY SMTT(30), <1>1, <1>2, <1>3, <1>4, <1>5, <1>6 DEF Next, Passes, Cuts

\* A lock-free read, which loads the active segment and then the sealed ones and
\* takes no lock, finds the record at its offset in every interleaving with
\* appends and rolls, unless records are cut under it, for every limit on
\* segments and indexes.
THEOREM ReadsFind == Spec => []ReadsFindRecords
<1>1. Init => ReaderInv
  BY DEF Init, ReaderInv
<1>2. IndexInv /\ StructInv /\ ReaderInv /\ [Next]_vars => ReaderInv'
  BY SMTT(30), ReaderInvInductive
<1>3. ReaderInv => ReadsFindRecords
  BY DEF ReaderInv, ReadsFindRecords, Undisturbed, NoRead
<1> QED
  BY <1>1, <1>2, <1>3, StructInvHolds, PTL DEF Spec
===============================================================================
