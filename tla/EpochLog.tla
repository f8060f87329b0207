------------------------------- MODULE EpochLog -------------------------------
(***************************************************************************)
(* How a log keeps its leader epoch cache, and the checkpoint file of the  *)
(* cache, in step with its records: internal/log/epoch_lifecycle.go,       *)
(* epoch_recovery.go, the epoch parts of log_raw.go and truncate.go.       *)
(*                                                                         *)
(* The records are the sequence of their epochs: offset o is               *)
(* records[o + 1].  Segments are the subject of another module.  Segment   *)
(* files are never synced and the checkpoint always is, so a crash may     *)
(* lose any suffix of the records and nothing of the checkpoint.           *)
(***************************************************************************)
EXTENDS LeaderEpochCache

CONSTANTS
    MaxEpoch,       \* bound: leader epochs are 0 .. MaxEpoch
    MaxOffset,      \* bound: records in the log
    OlderRecords    \* TRUE: a follower may be sent records older than an
                    \* epoch it has led without writing a record

ASSUME EpochLogAssumption == MaxEpoch \in Nat /\ MaxOffset \in Nat

VARIABLES
    records,        \* the epochs of the records on disk
    cache,          \* Log.epochCache
    dirty,          \* Log.epochCheckpointDirty
    checkpoint,     \* the entries in the leader-epoch-checkpoint file
    leaderEpoch     \* the epoch under which the partition leads, -1 if not

vars == <<records, cache, dirty, checkpoint, leaderEpoch>>

Epochs == 0 .. MaxEpoch
LEO == Len(records)

Init ==
    /\ records = <<>> /\ cache = <<>> /\ checkpoint = <<>>
    /\ dirty = FALSE
    /\ leaderEpoch = -1

\* persistEpochCheckpointLocked: nothing to do when the file is up to date.
\* A write that fails before the rename leaves the old file, one that fails
\* to sync the directory afterwards leaves the new one, and both leave dirty.
PersistSucceeds(c, d) ==
    /\ d => StrictlyIncreasing(c)
    /\ dirty' = FALSE
    /\ checkpoint' = IF d THEN c ELSE checkpoint

\* Mutant: a failed write is not tried again.
PersistForgets(c, d) ==
    /\ d
    /\ dirty' = FALSE
    /\ checkpoint' \in {checkpoint} \cup (IF StrictlyIncreasing(c) THEN {c} ELSE {})

PersistFails(c, d) ==
    /\ d
    /\ dirty' = TRUE
    /\ checkpoint' \in {checkpoint} \cup (IF StrictlyIncreasing(c) THEN {c} ELSE {})

\* Partition.MakeLeader: an epoch older than the cache's is refused.  When
\* the checkpoint cannot be written the partition does not lead, but the
\* entry stays in the cache.
MakeLeader(e) ==
    /\ cache # <<>> => e >= LatestLeaderEpoch(cache)
    /\ cache' = Assign(cache, e, LEO)
    /\ LET d == dirty \/ cache' # cache IN
       \/ PersistSucceeds(cache', d) /\ leaderEpoch' = e
       \/ PersistFails(cache', d) /\ leaderEpoch' = -1
    /\ UNCHANGED records

\* MakeFollower and MakeUnassigned, as far as the log is concerned.
StopLeading ==
    /\ leaderEpoch >= 0
    /\ leaderEpoch' = -1
    /\ UNCHANGED <<records, cache, dirty, checkpoint>>

\* Log.AppendRaw stamps the leader's epoch on what a producer sends.
AppendRaw ==
    /\ leaderEpoch >= 0
    /\ LEO < MaxOffset
    /\ records' = Append(records, leaderEpoch)
    /\ UNCHANGED <<cache, dirty, checkpoint, leaderEpoch>>

\* The batches of a fetch response up to the first newer than the request.
AcceptedBatches(es, fetchEpoch) ==
    LET NotNewer(e) == e <= fetchEpoch IN SubSeq(es, 1, PrefixLength(es, NotNewer))

\* Mutant: the records are written before the checkpoint.
AppendBeforePersist(es, fetchEpoch) ==
    LET accepted == AcceptedBatches(es, fetchEpoch) IN
    /\ leaderEpoch = -1
    /\ LEO + Len(es) <= MaxOffset
    /\ accepted # <<>>
    /\ cache' = AssignAll(cache, Transitions(accepted, LEO))
    /\ records' \in {records, records \o accepted}
    /\ LET d == dirty \/ cache' # cache IN PersistSucceeds(cache', d) \/ PersistFails(cache', d)
    /\ UNCHANGED leaderEpoch

\* Log.AppendReplicaRaw: the epochs are assigned and persisted before the
\* records are written, and either step may fail.
AppendReplicaRaw(es, fetchEpoch) ==
    LET accepted == AcceptedBatches(es, fetchEpoch) IN
    /\ leaderEpoch = -1
    /\ LEO + Len(es) <= MaxOffset
    /\ accepted # <<>>
    /\ cache' = AssignAll(cache, Transitions(accepted, LEO))
    /\ LET d == dirty \/ cache' # cache IN
       \/ PersistSucceeds(cache', d) /\ records' \in {records, records \o accepted}
       \/ PersistFails(cache', d) /\ UNCHANGED records
    /\ UNCHANGED leaderEpoch

\* Log.TruncateTo, which Partition.TruncateTo refuses to a leader.  The cache
\* is cut only when records are.
TruncateTo(offset) ==
    /\ leaderEpoch = -1
    /\ records' = SubSeq(records, 1, offset)
    /\ cache' = IF offset < LEO THEN TruncateFromEnd(cache, offset) ELSE cache
    /\ LET d == dirty \/ cache' # cache IN
       PersistSucceeds(cache', d) \/ PersistFails(cache', d)
    /\ UNCHANGED leaderEpoch

\* scanEpochHistoryLocked: the epoch history as the batches tell it.
ScanEpochHistory(rs) == Transitions(rs, 0)

\* RecoverEpochCache
RecoverEpochCache(loaded, rs) ==
    LET leo == Len(rs)
        replayed == AssignAll(<<>>, loaded)
        kept == TruncateAfter(replayed, leo)
    IN  IF leo > 0 /\ (replayed # loaded \/ kept = <<>>)
        THEN TruncateAfter(AssignAll(<<>>, ScanEpochHistory(rs)), leo)
        ELSE kept

\* The broker stops, keeps the first k records, and NewLog opens the log.
CrashAndRecover(k) ==
    /\ records' = SubSeq(records, 1, k)
    /\ cache' = RecoverEpochCache(checkpoint, records')
    /\ checkpoint' = cache'
    /\ dirty' = FALSE
    /\ leaderEpoch' = -1

\* What a leader may send: records in epoch order that continue ours.
ReplicaBatches ==
    LET floor == IF OlderRecords
                 THEN IF records = <<>> THEN 0 ELSE records[LEO]
                 ELSE IF cache = <<>> THEN 0 ELSE LatestLeaderEpoch(cache)
    IN  {<<e>> : e \in floor .. MaxEpoch}
            \cup {es \in (floor .. MaxEpoch) \X (floor .. MaxEpoch) : es[1] <= es[2]}

Next ==
    \/ \E e \in Epochs : MakeLeader(e)
    \/ StopLeading
    \/ AppendRaw
    \/ \E es \in ReplicaBatches, fetchEpoch \in Epochs : AppendReplicaRaw(es, fetchEpoch)
    \/ \E offset \in 0 .. LEO : TruncateTo(offset)
    \/ \E k \in 0 .. LEO : CrashAndRecover(k)

Spec == Init /\ [][Next]_vars

-----------------------------------------------------------------------------
(* Properties *)

Entries == [Epoch : Epochs, StartOffset : 0 .. MaxOffset]

TypeOK ==
    /\ records \in Seq(Epochs) /\ LEO <= MaxOffset
    /\ cache \in Seq(Entries) /\ checkpoint \in Seq(Entries)
    /\ dirty \in BOOLEAN
    /\ leaderEpoch \in Epochs \cup {-1}

\* EpochCheckpoint.Write never refuses the cache, and Read never refuses the
\* file: whatever was assigned and cut, epochs and offsets strictly increase.
CheckpointWritable == StrictlyIncreasing(cache) /\ StrictlyIncreasing(checkpoint)

\* The cache tells the epoch of every record in the log, whatever failed or
\* crashed between the assignment of an epoch and the write of its records.
CacheMatchesLog ==
    \A offset \in 0 .. LEO - 1 : EpochForOffset(cache, offset) = records[offset + 1]

\* A crash at this moment, losing no record, loses no epoch either: the file can
\* be read, and the cache that is recovered with it tells every record's epoch.
CheckpointMatchesLog ==
    LET recovered == RecoverEpochCache(checkpoint, records) IN
    /\ CheckpointWritable
    /\ \A offset \in 0 .. LEO - 1 : EpochForOffset(recovered, offset) = records[offset + 1]

\* The end offset a leader tells a follower to truncate to is that of the first
\* record newer than the epoch it asked for: the answer's meaning, read off the
\* log.  (A follower's own cache may run ahead of its log: a failed write.)
EndOffsetMatchesLog ==
    leaderEpoch >= 0 => \A e \in Epochs :
        LET answer == EndOffsetFor(cache, e, LEO) IN
        answer # Undefined =>
            /\ \A offset \in 0 .. LEO - 1 : (records[offset + 1] > e) = (offset >= answer.EndOffset)
            /\ answer.EndOffset \in 0 .. LEO

\* While a partition leads, its epoch is the latest in the cache and on disk:
\* a restarted broker refuses to lead under any epoch older than its last.
LeaderEpochIsDurable ==
    leaderEpoch >= 0 =>
        \A c \in {cache, RecoverEpochCache(checkpoint, records)} :
            c # <<>> /\ LatestLeaderEpoch(c) = leaderEpoch
================================================================================
