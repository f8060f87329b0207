----------------------------- MODULE FetchPath ------------------------------
(***************************************************************************)
(* A fetch from end to end: the client's request, handleFetch and          *)
(* fetchOnePass of handler.go, FetchRawRanges of partition_raw.go, the     *)
(* response written by internal/server, and what the client makes of it.   *)
(* The client is a consumer or the fetch worker of a follower; the wire    *)
(* format is FetchCodec's.                                                 *)
(*                                                                         *)
(* A response does not hold records.  It holds ranges of the log's file,   *)
(* which the server reads when it writes the response (FilePart): by then  *)
(* the broker may follow another leader, and have cut its log and written  *)
(* other batches in the same place.  A file is a sequence of bytes         *)
(* <<batch, i>>, the i-th of that batch.                                   *)
(*                                                                         *)
(* A batch has one record, so that the offset of a batch is its place in   *)
(* the log.  The log has one segment: ReadRawRanges never reads past one.  *)
(* How the high watermark moves is Replication's subject; here it moves to *)
(* any offset of the leader's log, and no record below it is truncated.    *)
(***************************************************************************)
EXTENDS FetchCodec, FiniteSetsExt

CONSTANTS
    Layouts,        \* requests may name these topics and partitions, in this order
    Kinds,          \* kinds of clients: "consumer", "follower"
    Versions,       \* versions of Fetch a consumer speaks
    Sizes,          \* sizes of a batch, in bytes
    MaxBytes,       \* of a request
    PartitionMaxBytes,
    Busy,           \* partitions that are written to and change leaders
    MaxLog,         \* batches in a log
    MaxEpoch        \* leader epochs, from 1

VARIABLES
    log,            \* the broker's log of each partition
    hw,             \* its high watermark
    leading,        \* whether it leads the partition
    epoch,          \* the leader epoch it knows
    frozen,         \* frozen[k][e]: its log when its leadership of epoch e ended
    client,         \* [kind, version, has, epoch]: what it has of each partition
    srv             \* the goroutine of the client's connection

vars == <<log, hw, leading, epoch, frozen, client, srv>>
partitionVars == <<log, hw, leading, epoch, frozen>>

\* The partitions of a request, in its order.
KeysOf(topics) ==
    FlattenSeq([t \in DOMAIN topics |->
        [p \in DOMAIN topics[t][2] |-> <<topics[t][1], topics[t][2][p]>>]])

Partitions == UNION {{KeysOf(l)[i] : i \in DOMAIN KeysOf(l)} : l \in Layouts}

PartitionA == {<<"a", 0>>}
TwoTopics == {<<<<"b", <<0>>>>, <<"a", <<0>>>>>>}

LargestSize == CHOOSE s \in Sizes : \A other \in Sizes : other <= s

Batches == [base : 0 .. MaxLog - 1, epoch : 1 .. MaxEpoch, size : Sizes]

\* The bytes of a file that holds these batches.
Bytes(batches) ==
    FlattenSeq([b \in DOMAIN batches |-> [i \in 1 .. batches[b].size |-> <<batches[b], i>>]])

Idle == [at |-> "idle"]
Closed == [at |-> "closed"]

TypeOK ==
    /\ \A k \in Partitions :
          /\ log[k] \in Seq(Batches) /\ Len(log[k]) <= MaxLog
          /\ \A i \in DOMAIN log[k] : log[k][i].base = i - 1
          /\ hw[k] \in 0 .. Len(log[k])
          /\ leading[k] \in BOOLEAN
          /\ epoch[k] \in 1 .. MaxEpoch
          /\ client.has[k] \in Seq(Batches)
          /\ \A i \in DOMAIN client.has[k] : client.has[k][i].base = i - 1
          /\ client.epoch[k] \in 1 .. MaxEpoch
    /\ srv.at \in {"idle", "closed", "validate", "read", "passed", "write"}
    /\ srv \notin {Idle, Closed} => srv.remaining \in MaxBytes - LargestSize .. MaxBytes

Init ==
    /\ \E size \in Sizes :
          log = [k \in Partitions |->
                    IF k \in Busy THEN <<>> ELSE <<[base |-> 0, epoch |-> 1, size |-> size]>>]
    /\ hw = [k \in Partitions |-> Len(log[k])]
    /\ leading = [k \in Partitions |-> TRUE]
    /\ epoch = [k \in Partitions |-> 1]
    /\ frozen = [k \in Partitions |-> [e \in 1 .. MaxEpoch |-> <<>>]]
    /\ \E kind \in Kinds : \E version \in (IF kind = "consumer" THEN Versions ELSE {9}) :
          client = [kind |-> kind, version |-> version,
                    has |-> [k \in Partitions |-> <<>>],
                    epoch |-> [k \in Partitions |-> 1]]
    /\ srv = Idle

-----------------------------------------------------------------------------
(* The broker's partitions.                                                *)

\* A batch at the end of the log: the producer's, or the new leader's when
\* this broker follows.
AppendBatch(k) ==
    /\ Len(log[k]) < MaxLog
    /\ \E size \in Sizes :
          log' = [log EXCEPT ![k] =
                    Append(@, [base |-> Len(@), epoch |-> epoch[k], size |-> size])]
    /\ UNCHANGED <<hw, leading, epoch, frozen, client, srv>>

\* Only a consumer's fetch looks at it.  Left behind, it allows every cut, so
\* it is not moved for a follower.
AdvanceHW(k) ==
    /\ client.kind = "consumer"
    /\ hw[k] < Len(log[k])
    /\ hw' = [hw EXCEPT ![k] = @ + 1]
    /\ UNCHANGED <<log, leading, epoch, frozen, client, srv>>

\* Another broker is elected, and this one cuts what is not committed and not
\* in the new leader's log.
BecomeFollower(k) ==
    /\ leading[k]
    /\ epoch[k] < MaxEpoch
    /\ leading' = [leading EXCEPT ![k] = FALSE]
    /\ frozen' = [frozen EXCEPT ![k][epoch[k]] = log[k]]
    /\ epoch' = [epoch EXCEPT ![k] = @ + 1]
    /\ \E end \in hw[k] .. Len(log[k]) : log' = [log EXCEPT ![k] = SubSeq(@, 1, end)]
    /\ UNCHANGED <<hw, client, srv>>

BecomeLeader(k) ==
    /\ ~leading[k]
    /\ epoch[k] < MaxEpoch
    /\ leading' = [leading EXCEPT ![k] = TRUE]
    /\ epoch' = [epoch EXCEPT ![k] = @ + 1]
    /\ UNCHANGED <<log, hw, frozen, client, srv>>

PartitionStep ==
    \E k \in Busy :
        AppendBatch(k) \/ AdvanceHW(k) \/ BecomeFollower(k) \/ BecomeLeader(k)

-----------------------------------------------------------------------------
(* handleFetch.                                                            *)

\* A partition of the response.  The offsets that it tells the client beside
\* the records are left at their initial values.
Nothing == [errorCode |-> "none", highWatermark |-> 0, lastStableOffset |-> -1,
            logStartOffset |-> -1, abortedTransactions |-> -1,
            preferredReadReplica |-> -1, pos |-> 0, recordsSize |-> 0]

\* The partitions of a request in order, each with its key.
Flat(topics) ==
    FlattenSeq([t \in DOMAIN topics |->
        [p \in DOMAIN topics[t].Partitions |->
            [key |-> <<topics[t].Name, topics[t].Partitions[p].Index>>,
             part |-> topics[t].Partitions[p]]]])

Begin(req) ==
    [at |-> "validate", req |-> req, list |-> Flat(req.Topics), next |-> 1,
     remaining |-> req.MaxBytes, first |-> FALSE, error |-> FALSE,
     out |-> [k \in Partitions |-> Nothing], sent |-> [k \in Partitions |-> <<>>]]

\* A request for all partitions.  A consumer sends no leader epoch.  A request
\* that does not decode ends the connection.
SendFetch(layout) ==
    LET consumer == client.kind = "consumer"
        Partition(k) ==
            [Index |-> k[2],
             CurrentLeaderEpoch |-> IF consumer THEN -1 ELSE client.epoch[k],
             FetchOffset |-> Len(client.has[k]),
             LogStartOffset |-> IF consumer THEN -1 ELSE 0,
             MaxBytes |-> PartitionMaxBytes]
        Topic(t) ==
            [Name |-> t[1], Partitions |-> [p \in DOMAIN t[2] |-> Partition(<<t[1], t[2][p]>>)]]
        req == [ReplicaID |-> IF consumer THEN -1 ELSE 2,
                MaxWaitMs |-> 500, MinBytes |-> 1, MaxBytes |-> MaxBytes,
                IsolationLevel |-> 0, SessionID |-> 0, SessionEpoch |-> -1, RackID |-> "",
                Topics |-> [t \in DOMAIN layout |-> Topic(layout[t])]]
        got == DecodeFetchRequest(EncodeFetchRequest(req, client.version), client.version)
    IN  /\ srv = Idle
        /\ srv' = IF got.ok THEN Begin(got) ELSE Closed
        /\ UNCHANGED <<partitionVars, client>>

\* The partition that the pass is at.
Current == srv.list[srv.next]

\* One partition of the response is done.
Done(answer) ==
    [srv EXCEPT !.at = IF srv.next < Len(srv.list) THEN "validate" ELSE "passed",
                !.next = @ + 1,
                !.error = @ \/ answer.errorCode # "none",
                !.remaining = @ - answer.recordsSize,
                !.first = @ \/ answer.recordsSize > 0,
                !.out[Current.key] = answer]

Refused(code) == Done([Nothing EXCEPT !.errorCode = code])

\* validateLeaderEpoch; a negative epoch is not checked.
EpochError(requested, current) ==
    IF requested < 0 \/ requested = current THEN "none"
    ELSE IF requested < current THEN "fenced_leader_epoch" ELSE "unknown_leader_epoch"

Validate ==
    /\ srv.at = "validate"
    /\ LET k    == Current.key
           code == IF ~leading[k] THEN "not_leader_or_follower"
                   ELSE EpochError(Current.part.CurrentLeaderEpoch, epoch[k])
       IN  srv' = IF code = "none" THEN [srv EXCEPT !.at = "read"] ELSE Refused(code)
    /\ UNCHANGED <<partitionVars, client>>

\* The position in the file of the batch at this offset.
Position(batches, offset) ==
    FoldLeft(LAMBDA sum, b : sum + b.size, 0, SubSeq(batches, 1, offset))

\* ReadRawRangesAt: the first batch whatever its size, then those that fit.
\* The offset after the last one.
ReadRawRanges(batches, offset, max) ==
    LET Fits(end) == Position(batches, end) - Position(batches, offset) <= max
        ends == {offset + 1} \cup {end \in offset + 1 .. Len(batches) : Fits(end)}
    IN  CHOOSE end \in ends : \A other \in ends : other <= end

\* Without the cap at the high watermark.
CapToHWNever(end, mark, replica) == end

\* A consumer sees no batch that ends above the high watermark.
CapToHW(end, mark, replica) == IF replica < 0 /\ end > mark THEN mark ELSE end

\* The first batch of a response may exceed the budget, later ones not.
Admitted(size, max) == ~srv.first \/ size <= max

\* The budget of the partition alone.
PartitionMaxAlone == Current.part.MaxBytes

\* What is left of the request's budget, and not less than nothing.
PartitionMax ==
    LET asked == Current.part.MaxBytes
    IN  IF srv.remaining >= asked THEN asked
        ELSE IF srv.remaining < 0 THEN 0 ELSE srv.remaining

\* FetchRawRanges, which looks again whether the partition is led.
FetchRawRanges ==
    /\ srv.at = "read"
    /\ LET k       == Current.key
           offset  == Current.part.FetchOffset
           replica == srv.req.ReplicaID
           pos     == Position(log[k], offset)
           read    == ReadRawRanges(log[k], offset, PartitionMax)
           nothing == \/ replica < 0 /\ offset >= hw[k]
                      \/ offset = Len(log[k])
                      \/ ~Admitted(Position(log[k], read) - pos, PartitionMax)
           size    == Position(log[k], CapToHW(read, hw[k], replica)) - pos
       IN  srv' = IF ~leading[k] THEN Refused("not_leader_or_follower")
                  ELSE IF offset > Len(log[k]) THEN Refused("offset_out_of_range")
                  ELSE IF nothing THEN Done(Nothing)
                  ELSE Done([Nothing EXCEPT !.pos = pos, !.recordsSize = size])
    /\ UNCHANGED <<partitionVars, client>>

Enough == srv.error \/ srv.req.MaxBytes - srv.remaining >= srv.req.MinBytes

\* An error or enough bytes end the long poll, or the deadline, which may pass
\* at any time.
PassEnds(expired) ==
    /\ srv.at = "passed"
    /\ Enough \/ expired
    /\ srv' = [srv EXCEPT !.at = "write"]
    /\ UNCHANGED <<partitionVars, client>>

\* waitForAny returns, for a notification or the timer: another pass.
Wake ==
    /\ srv.at = "passed"
    /\ ~Enough
    /\ srv' = Begin(srv.req)
    /\ UNCHANGED <<partitionVars, client>>

\* Places in the response of the ranges that are not written yet.
Unsent ==
    {i \in DOMAIN srv.list :
        Len(srv.sent[srv.list[i].key]) < srv.out[srv.list[i].key].recordsSize}

\* writeResponse: any number of the bytes that are left of a range, as the file
\* is now.  A file that has become too short ends the connection.
WriteResponse ==
    /\ srv.at = "write"
    /\ Unsent # {}
    /\ LET k    == srv.list[Min(Unsent)].key
           done == Len(srv.sent[k])
           from == srv.out[k].pos + done
           file == Bytes(log[k])
       IN  \E n \in 1 .. srv.out[k].recordsSize - done :
               srv' = IF from + n <= Len(file)
                      THEN [srv EXCEPT !.sent[k] = @ \o SubSeq(file, from + 1, from + n)]
                      ELSE Closed
    /\ UNCHANGED <<partitionVars, client>>

HandlerStep == Validate \/ FetchRawRanges \/ PassEnds(FALSE) \/ WriteResponse

-----------------------------------------------------------------------------
(* The client.                                                             *)

\* What DecodeFetchResponse returns of the bytes on the wire.
Response ==
    LET Partition(t, p) ==
            LET k == <<srv.req.Topics[t].Name, srv.req.Topics[t].Partitions[p].Index>>
            IN  [index |-> k[2], records |-> srv.sent[k]] @@ srv.out[k]
        topics ==
            [t \in DOMAIN srv.req.Topics |->
                [name |-> srv.req.Topics[t].Name,
                 partitions |-> [p \in DOMAIN srv.req.Topics[t].Partitions |-> Partition(t, p)]]]
    IN  DecodeFetchResponse(EncodeFetchStreamResponse(topics, client.version), client.version)

\* scanRawBatches: the batches that these bytes are, or <<>> if they are no
\* whole batches (their checksums would be wrong).
ScanRawBatches(bytes) ==
    LET starts  == SelectSeq(bytes, LAMBDA byte : byte[2] = 1)
        batches == [i \in DOMAIN starts |-> starts[i][1]]
    IN  IF Bytes(batches) = bytes THEN batches ELSE <<>>

\* Every batch the leader sent.
AcceptedAll(batches, fetchEpoch) == batches

\* The batches before the first of a newer epoch.
Accepted(batches, fetchEpoch) ==
    LET newer == {i \in DOMAIN batches : batches[i].epoch > fetchEpoch}
    IN  SubSeq(batches, 1, Cardinality({i \in DOMAIN batches : \A j \in newer : i < j}))

\* AppendReplicaRaw on the log of a follower: the accepted batches must go on
\* where the log ends, without gaps and without a step back in epochs.
AppendReplicaRaw(has, bytes, fetchEpoch) ==
    LET batches == Accepted(ScanRawBatches(bytes), fetchEpoch)
        inOrder == \A i \in DOMAIN batches :
                      /\ batches[i].base = Len(has) + i - 1
                      /\ i > 1 => batches[i].epoch >= batches[i - 1].epoch
    IN  IF inOrder THEN has \o batches ELSE has

\* A partition of the response: a worker drops it after a change of epoch or
\* of its log; a consumer takes what it gets.
Taken(topic, p) ==
    LET k == <<topic.Name, p.Index>>
        has == client.has[k]
        asked == (CHOOSE r \in {srv.list[i] : i \in DOMAIN srv.list} : r.key = k).part
    IN  IF p.ErrorCode # "none" THEN has
        ELSE IF client.kind = "consumer" THEN has \o ScanRawBatches(p.Records)
        ELSE IF client.epoch[k] = asked.CurrentLeaderEpoch /\ Len(has) = asked.FetchOffset
        THEN AppendReplicaRaw(has, p.Records, client.epoch[k])
        ELSE has

\* The response is complete.  One that does not decode is dropped.
Receive ==
    /\ srv.at = "write" /\ Unsent = {}
    /\ LET resp == Response
           Parts(t) == {<<t, t.Partitions[p]>> : p \in DOMAIN t.Partitions}
           all == UNION {Parts(resp.Topics[i]) : i \in DOMAIN resp.Topics}
           Has(k) ==
              LET mine == {x \in all : <<x[1].Name, x[2].Index>> = k}
              IN  IF mine = {} THEN client.has[k]
                  ELSE LET x == CHOOSE y \in mine : TRUE IN Taken(x[1], x[2])
       IN  client' = IF resp.ok /\ resp.ErrorCode = "none"
                     THEN [client EXCEPT !.has = [k \in Partitions |-> Has(k)]]
                     ELSE client
    /\ srv' = Idle
    /\ UNCHANGED partitionVars

Reconnect ==
    /\ srv = Closed
    /\ srv' = Idle
    /\ UNCHANGED <<partitionVars, client>>

\* A worker learns that the broker leads under another epoch: the follower
\* keeps what both logs have in common (reconcilePartition; see Replication).
Reconcile(k) ==
    /\ client.kind = "follower"
    /\ leading[k]
    /\ client.epoch[k] # epoch[k]
    /\ \E end \in 0 .. Len(client.has[k]) :
          /\ IsPrefix(SubSeq(client.has[k], 1, end), log[k])
          /\ end < Len(client.has[k]) => ~IsPrefix(SubSeq(client.has[k], 1, end + 1), log[k])
          /\ client' = [client EXCEPT !.epoch[k] = epoch[k], !.has[k] = SubSeq(@, 1, end)]
    /\ UNCHANGED <<partitionVars, srv>>

ClientStep ==
    \/ \E layout \in Layouts : SendFetch(layout)
    \/ Receive
    \/ Reconnect
    \/ \E k \in Partitions : Reconcile(k)

Next == PartitionStep \/ HandlerStep \/ PassEnds(TRUE) \/ Wake \/ ClientStep

\* The handler and the client run: one of them always has a step to take, and
\* each step changes srv.  The time of a long poll runs out.
Spec ==
    /\ Init /\ [][Next]_vars
    /\ []<><<TRUE>>_srv
    /\ SF_vars(PassEnds(TRUE))
    /\ \A k \in Partitions : WF_vars(Reconcile(k))

-----------------------------------------------------------------------------
\* A consumer has read the committed records of each partition, in order,
\* without gaps, and none that is not committed (partition_raw.go:390-411),
\* whatever happened to the files before its response was written.
ConsumerReadsCommitted ==
    client.kind = "consumer" =>
        \A k \in Partitions : IsPrefix(client.has[k], SubSeq(log[k], 1, hw[k]))

\* A follower's log is a beginning of the log the broker had while it led the
\* epoch that the follower is in, although the bytes of a response are read
\* from the file when it is written and not when the epoch was checked
\* (fetch_stream.go:87-93, log_raw.go:68-79).
FollowerHasLeaderLog ==
    client.kind = "follower" =>
        \A k \in Partitions :
            LET e == client.epoch[k]
            IN  IsPrefix(client.has[k],
                         IF leading[k] /\ epoch[k] = e THEN log[k] ELSE frozen[k][e])

\* A response exceeds the request's limit only by being one batch, and a
\* partition its own limit only by a single batch before which nothing was
\* returned (handler.go:275-318).
WithinBudget ==
    srv.at = "write" =>
        LET Size(i)  == srv.out[srv.list[i].key].recordsSize
            returned == {i \in DOMAIN srv.list : Size(i) > 0}
        IN  /\ srv.remaining < 0 => Cardinality(returned) = 1
            /\ \A i \in returned :
                  \/ Size(i) <= PartitionMaxBytes /\ srv.remaining >= 0
                  \/ Size(i) \in Sizes /\ i = Min(returned)

\* While the broker leads a partition for good, its clients get everything
\* that they may see, a batch larger than every limit included, in every
\* version of the request (handler.go:187-323).
ClientsCatchUp ==
    \A k \in Partitions :
        <>[]leading[k] =>
            <>[](Len(client.has[k]) = IF client.kind = "consumer" THEN hw[k] ELSE Len(log[k]))
=============================================================================
