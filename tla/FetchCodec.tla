----------------------------- MODULE FetchCodec -----------------------------
(***************************************************************************)
(* The wire format of Fetch: internal/protocol/fetch.go, and the stream    *)
(* form of the response in internal/broker/fetch_stream.go.                *)
(*                                                                         *)
(* A message is a sequence of <<type, value>>, one for each Put of the     *)
(* encoder.  A Get of another type than was put would take bytes of two    *)
(* values for one: here it fails, as does a Get past the end, and like the *)
(* Decoder of decoder.go every later Get fails with it.                    *)
(***************************************************************************)
EXTENDS Integers, Sequences, SequencesExt

If(present, fields) == IF present THEN fields ELSE <<>>

\* Consecutive Puts: a field is <<type, name>>.
Put(record, fields) ==
    [i \in DOMAIN fields |-> <<fields[i][1], record[fields[i][2]]>>]

PutAll(records, PutOne(_)) ==
    <<<<"array", Len(records)>>>> \o FlattenSeq([i \in DOMAIN records |-> PutOne(records[i])])

Decoder(body) == [left |-> body, ok |-> TRUE, value |-> <<>>]

\* Consecutive Gets into a record that has its defaults already.
Get(d, fields, defaults) ==
    LET ok == /\ d.ok
              /\ Len(fields) <= Len(d.left)
              /\ \A i \in DOMAIN fields : d.left[i][1] = fields[i][1]
        Value(name) ==
            IF ok /\ \E i \in DOMAIN fields : fields[i][2] = name
            THEN d.left[CHOOSE i \in DOMAIN fields : fields[i][2] = name][2]
            ELSE defaults[name]
    IN  [ok |-> ok,
         left |-> IF ok THEN SubSeq(d.left, Len(fields) + 1, Len(d.left)) ELSE <<>>,
         value |-> [name \in DOMAIN defaults |-> Value(name)]]

\* An array: its length, then as many elements; GetOne returns one as its value.
GetAll(d, GetOne(_)) ==
    LET count == Get(d, <<<<"array", "n">>>>, [n |-> 0])
        Another(acc, i) ==
            LET one == GetOne(acc)
            IN  [one EXCEPT !.value = Append(acc.value, one.value)]
    IN  FoldLeft(Another, [count EXCEPT !.value = <<>>], [i \in 1 .. count.value.n |-> i])

-----------------------------------------------------------------------------
(* FetchRequest.  Nobody sends forgotten topics: their array is empty.     *)

PutRequestHead(v) ==
    <<<<"int32", "ReplicaID">>, <<"int32", "MaxWaitMs">>, <<"int32", "MinBytes">>>>
    \o If(v >= 3, <<<<"int32", "MaxBytes">>>>)
    \o If(v >= 4, <<<<"int8", "IsolationLevel">>>>)
    \o If(v >= 7, <<<<"int32", "SessionID">>, <<"int32", "SessionEpoch">>>>)

PutRequestPartition(v) ==
    <<<<"int32", "Index">>>>
    \o If(v >= 9, <<<<"int32", "CurrentLeaderEpoch">>>>)
    \o <<<<"int64", "FetchOffset">>>>
    \o If(v >= 5, <<<<"int64", "LogStartOffset">>>>)
    \o <<<<"int32", "MaxBytes">>>>

EncodeFetchRequest(req, v) ==
    LET Partition(p) == Put(p, PutRequestPartition(v))
        Topic(t) == <<<<"string", t.Name>>>> \o PutAll(t.Partitions, Partition)
    IN  Put(req, PutRequestHead(v))
        \o PutAll(req.Topics, Topic)
        \o If(v >= 7, <<<<"array", 0>>>>)
        \o If(v >= 11, <<<<"string", req.RackID>>>>)

GetRequestHead(v) ==
    <<<<"int32", "ReplicaID">>, <<"int32", "MaxWaitMs">>, <<"int32", "MinBytes">>>>
    \o If(v >= 3, <<<<"int32", "MaxBytes">>>>)
    \o If(v >= 4, <<<<"int8", "IsolationLevel">>>>)
    \o If(v >= 7, <<<<"int32", "SessionID">>, <<"int32", "SessionEpoch">>>>)

RequestHeadDefaults ==
    [ReplicaID |-> 0, MaxWaitMs |-> 0, MinBytes |-> 0, MaxBytes |-> 2147483647,
     IsolationLevel |-> 0, SessionID |-> 0, SessionEpoch |-> -1]

\* Without the -1 of the versions that do not carry a leader epoch.
RequestPartitionZeroes ==
    [Index |-> 0, CurrentLeaderEpoch |-> 0, FetchOffset |-> 0,
     LogStartOffset |-> -1, MaxBytes |-> 0]

RequestPartitionDefaults ==
    [Index |-> 0, CurrentLeaderEpoch |-> -1, FetchOffset |-> 0,
     LogStartOffset |-> -1, MaxBytes |-> 0]

GetRequestPartition(v) ==
    <<<<"int32", "Index">>>>
    \o If(v >= 9, <<<<"int32", "CurrentLeaderEpoch">>>>)
    \o <<<<"int64", "FetchOffset">>>>
    \o If(v >= 5, <<<<"int64", "LogStartOffset">>>>)
    \o <<<<"int32", "MaxBytes">>>>

DecodeFetchRequest(body, v) ==
    LET Partition(d) == Get(d, GetRequestPartition(v), RequestPartitionDefaults)
        Topic(d) ==
            LET name  == Get(d, <<<<"string", "Name">>>>, [Name |-> ""])
                parts == GetAll(name, Partition)
            IN  [parts EXCEPT !.value = [Name |-> name.value.Name, Partitions |-> @]]
        head      == Get(Decoder(body), GetRequestHead(v), RequestHeadDefaults)
        topics    == GetAll(head, Topic)
        forgotten == Get(topics, If(v >= 7, <<<<"array", "n">>>>), [n |-> 0])
        rack      == Get(forgotten, If(v >= 11, <<<<"string", "RackID">>>>), [RackID |-> ""])
    IN  [ok |-> rack.ok, MinBytes |-> head.value.MinBytes, MaxBytes |-> head.value.MaxBytes,
         ReplicaID |-> head.value.ReplicaID, Topics |-> topics.value]

-----------------------------------------------------------------------------
(* FetchResponse.  The records are Bytes elements of type "byte".          *)

PutResponsePartition(v) ==
    <<<<"int32", "index">>, <<"int16", "errorCode">>, <<"int64", "highWatermark">>>>
    \o If(v >= 4, <<<<"int64", "lastStableOffset">>>>)
    \o If(v >= 5, <<<<"int64", "logStartOffset">>>>)
    \o If(v >= 4, <<<<"array", "abortedTransactions">>>>)
    \o If(v >= 11, <<<<"int32", "preferredReadReplica">>>>)
    \o <<<<"int32", "recordsSize">>>>

\* The bytes of the file ranges follow the size that was announced.
EncodeFetchStreamResponse(topics, v) ==
    LET Partition(p) ==
            Put(p, PutResponsePartition(v))
            \o [i \in DOMAIN p.records |-> <<"byte", p.records[i]>>]
        Topic(t) == <<<<"string", t.name>>>> \o PutAll(t.partitions, Partition)
    IN  If(v >= 1, <<<<"int32", 0>>>>)
        \o If(v >= 7, <<<<"int16", "none">>, <<"int32", 0>>>>)
        \o PutAll(topics, Topic)

GetResponseHead(v) ==
    If(v >= 1, <<<<"int32", "ThrottleTimeMs">>>>)
    \o If(v >= 7, <<<<"int16", "ErrorCode">>, <<"int32", "SessionID">>>>)

\* A null array of aborted transactions has no elements.
GetResponsePartition(v) ==
    <<<<"int32", "Index">>, <<"int16", "ErrorCode">>, <<"int64", "HighWatermark">>>>
    \o If(v >= 4, <<<<"int64", "LastStableOffset">>>>)
    \o If(v >= 5, <<<<"int64", "LogStartOffset">>>>)
    \o If(v >= 4, <<<<"array", "aborted">>>>)
    \o If(v >= 11, <<<<"int32", "PreferredReadReplica">>>>)
    \o <<<<"int32", "size">>>>

\* NullableBytes.
GetRecords(d, size) ==
    LET ok == /\ d.ok
              /\ size <= Len(d.left)
              /\ \A i \in 1 .. size : d.left[i][1] = "byte"
    IN  [ok |-> ok,
         left |-> IF ok THEN SubSeq(d.left, size + 1, Len(d.left)) ELSE <<>>,
         value |-> IF ok THEN [i \in 1 .. size |-> d.left[i][2]] ELSE <<>>]

DecodeFetchResponse(body, v) ==
    LET Partition(d) ==
            LET p == Get(d, GetResponsePartition(v),
                         [Index |-> 0, ErrorCode |-> "none", HighWatermark |-> 0, size |-> 0])
                records == GetRecords(p, p.value.size)
            IN  [records EXCEPT !.value =
                    [Index |-> p.value.Index, ErrorCode |-> p.value.ErrorCode,
                     HighWatermark |-> p.value.HighWatermark, Records |-> @]]
        Topic(d) ==
            LET name  == Get(d, <<<<"string", "Name">>>>, [Name |-> ""])
                parts == GetAll(name, Partition)
            IN  [parts EXCEPT !.value = [Name |-> name.value.Name, Partitions |-> @]]
        head   == Get(Decoder(body), GetResponseHead(v), [ErrorCode |-> "none"])
        topics == GetAll(head, Topic)
    IN  [ok |-> topics.ok, ErrorCode |-> head.value.ErrorCode, Topics |-> topics.value]
=============================================================================
