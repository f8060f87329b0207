# A verification of the distributed messaging system

The repository is a Kafka-compatible broker in Go: partitioned logs on disk,
leader/follower replication by fetching, acks=all through a purgatory, leader
epochs for reconciliation, and a controller whose state is replicated by
hashicorp/raft. This directory holds TLA+ modules translated from that code,
TLC configurations that check them on small instances, and TLAPS proofs that
hold for every value of the constants. `PROJECT.json` lists the components, the
runs, the mutants each property is tested with, the source lines behind every
definition, the findings, the hazards and the theorems.

Paths below are relative to `src/`.

## 1. The system and its parts

| Part | Code | Module | State of the model |
|---|---|---|---|
| Controller state machine: brokers, topics, partitions, four commands | `internal/controller/fsm.go` | `ControllerState` | complete |
| Controller nodes: a state machine behind Raft, snapshots, restarts | `internal/controller/node.go` | `ControllerNode` | Raft itself is external |
| Leader adapter | `leader_adapter.go` | `BrokerLifecycle` | its commands and their open outcomes |
| Cluster node | `cluster_node.go` | none | start-up of Raft on disk |
| Leader epoch cache | `internal/log/epoch_cache.go` | `LeaderEpochCache` | complete |
| Epoch checkpoint, assignment and recovery | `epoch_checkpoint.go`, `epoch_lifecycle.go`, `epoch_recovery.go` | `EpochLog` | the file's text format is left out |
| Segmented log, sparse index, truncation, lock-free readers | `log.go`, `log_raw.go`, `segment.go`, `index.go`, `truncate.go` | `SegmentedLog`, abstract: `OffsetLog`; byte ranges in `FetchPath` | no record codec, no time lookup |
| Partition: role, ISR, high watermark, purgatory, notifications | `internal/broker/partition.go`, `partition_raw.go` | `Partition` (threads), `Replication` (calls), `FetchPath` (reads) | FetchRaw and the copying readers are left out |
| Replica fetching: what is fetched and reconciled | `fetch_manager.go` | `Replication`, abstract: `CommittedLog` | one partition per worker |
| Replica fetching: loop, workers, connections, Stop | `fetch_manager.go`, `replica_client.go` | `FetchManager` | complete |
| Topic manager | `topic_manager.go` | `TopicManager`, in `BrokerLifecycle` | complete |
| Request handlers | `handler.go`, `fetch_stream.go` | `FetchPath`, `Partition`, `Replication`, `BrokerLifecycle` | Fetch, the produce wait, epoch questions, creation by Metadata |
| Broker: Start, Shutdown | `broker.go` | `Broker` (threads), `BrokerLifecycle` (several lives) | complete |
| Server and connections | `internal/server` | `Server`, in `Broker` | complete |
| Protocol codecs | `internal/protocol` | `FetchCodec` | Fetch, all versions |

How they interact. A command is committed by Raft and applied by every
controller node. Each broker reads its local node, on a ticker, in
`FetchManager.refresh`: `TopicManager.Reconcile` gives every partition its role
and `Reassign` gives the fetch workers their partitions. A worker reconciles a
partition once per leader epoch (`OffsetsForLeaderEpoch`, truncation) and then
fetches. The offset of a fetch tells the leader the follower's log end, from which
`maybeAdvanceHW` computes the high watermark, wakes long polls and
acknowledges the producers in the purgatory.

## 2. The modules

**ControllerState** has one operator per command: `...Accepted` collects the
checks and early returns, `Apply...` the assignments. Go maps are functions,
lists are sequences. `normalizeEndpoints` rewrites a listener name to its normal
form, the constant `Upper` (an idempotent function on `Names`), before it looks
for blank and repeated names.
`RestoreAccepted` is `fromSnapshotData`, whose checks a snapshot must pass.

**ControllerNode** adds the nodes: `Commit` (a command enters the
committed log), `ApplyNext`, `TakeSnapshot`, `InstallSnapshot`, `Crash`,
`Restart`. What is used of Raft is one committed sequence, in-order application,
and snapshots of a prefix. `hist` is a history variable: the state after each
prefix of the log.

**LeaderEpochCache** holds the operations of the cache as operators on a
sequence of entries; **EpochLog** puts it beside one log. Records are the sequence of
their epochs. `dirty` is `epochCheckpointDirty`; a checkpoint write can fail before the
rename (old file) or after it (new file). The checkpoint is synced and segments
are not, so a crash loses any suffix of the records and nothing of the checkpoint.

**Replication** is one partition on several brokers with its metadata history at the
controller. A call of a `Partition` method is one step. `refresh` is two steps
(`Reconcile`, `Reassign`), each with its own read of the metadata, and a round of a
worker is a request step and an apply step, so everything may happen between
them. A reply may be lost (`LoseReply`) and a request be handled
again later (`LateFetch`, from the retry in `ReplicaClient.sendRequest`). A
record is its epoch and an identity; a batch has one record.

**Partition** is one broker's partition at the grain of its locks. A step is
one critical section of `isrMu`, `purgatoryMu` or `notifyMu` or one atomic access;
`appendMu` is a variable because it is held over several of them. Threads:
producers in `AppendRaw`, fetch handlers, a long-polling consumer, the refresh, the fetch worker,
and `Close`. The log is its end offset. `assignment` is what the worker has been
told by `Reassign`: it reconciles, then fetches.

**SegmentedLog** is the log on disk: `files` survives a crash, `index`, `since`,
`sealed` and `active` are memory. `roll` and `TruncateTo` store `sealedPairs`
and `activePair` in separate steps, and a reader loads them in separate steps. A
batch is one unit of size, so `MaxSegmentBytes` counts batches and `MaxIndexBytes`
counts entries.

**Server** has the accept loop, the loop of each connection and `Shutdown`. They meet
in the channel `closing`, the listener and the WaitGroup `wg`. `Accept` and the
`wg.Add` after it are two steps (`Accept`, `Spawn`), so that `Shutdown` may run between them. A
client may send, be silent or go away; nothing else is known of it.

**FetchManager** has the threads of replication: the one in `refresh` (the caller of `Start`,
then the loop), one worker per leader, and the caller of `Stop`. `refresh` reads
the metadata before it takes `fm.mu`. `w.stop()` is a call with steps of its own: it
closes `stopCh`, shuts the client down and waits. A request dials, writes and
reads with one retry, and its connection may be cut at each of them.

**Broker** composes the two with the thread in `Start` and `Shutdown`, including the error
paths of `Start`.

**TopicManager** holds the operations under `tm.mu` as operators on the directories, the slots
and the number of times each log is open. `DeleteTopic` closes and removes partitions after it has
released the lock. Storage may fail for one directory at a time, when its log is opened or
when an epoch is written.

**BrokerLifecycle** composes it with the commands of `ControllerState`: a process starts from
its directories, registers, reconciles twice, unfences, serves, reconciles again and again, and
dies anywhere. A command whose outcome is not known ends `Start`. With
`controlled = FALSE` it is the standalone broker, whose topics are created by metadata requests.

**FetchCodec** has the encoders and decoders of Fetch as functions. A message is a sequence of
typed fields, one for each `Put`, so a decoder that reads another layout than was written fails.

**FetchPath** is one fetch for several partitions from the request to what the client keeps. The
response holds byte ranges of the log file that are read when it is written, in pieces, while
leaders change and the file is cut and written again. The client is a consumer of any
version, or a follower's worker.

**CommittedLog** and **OffsetLog** are the abstract specifications: the
committed records of a partition are one sequence that only grows; a
log is one sequence that grows and is cut at its end and that a restart
leaves alone. `RefinesCommittedLog` and `RefinesOffsetLog` are the refinements, with the mappings
`Committed` and `Contents`.

The modules whose names begin with `MC` choose the constants and the symmetry and
start a run in the state the specification reaches once brokers have
registered, or have refreshed for the first time.

Definitions marked *Mutant* are not part of a specification. Each is a
plausible slip in the definition that follows it, and putting it in that definition's place
must make TLC report the property it is listed with.

## 3. The runs that pass

| Run | States | What it shows |
|---|---|---|
| `controller` | 441,843 | Snapshots can always be restored; nodes at one index agree; a partition epoch names one metadata record, a leader epoch one leader, a broker epoch one incarnation; a running node never shows older state |
| `epoch_log` | 1,899 | The checkpoint is always writable; cache and recovered cache tell every record's epoch; the answer to OffsetsForLeaderEpoch has its meaning in the log; the epoch a leader writes under is durable |
| `replication` | 825,340 | Through an election, with lost and repeated requests: committed records agree and are in the log; acknowledged records are on the whole ISR |
| `replication_elections` | 556,532 | When two brokers lead in turn and logs diverge repeatedly: logs agree wherever their epochs do, a reconciled follower is a prefix of its leader, and the committed records are one growing log (`RefinesCommittedLog`) |
| `replication_live` | 4,510 | Every acks=all producer is answered, and replicas converge |
| `partition` | 1,512,744 | No producer is left in the purgatory, no long poll sleeps through an advance, the high watermark never falls under a leader |
| `segmented_log` | 450,607 | Segments are contiguous and implement `OffsetLog`, lock-free reads find their record during rolls, and after interrupted or failed truncations every index can be searched |
| `broker_shutdown` | 72,068 | No request after `Shutdown`, nothing of the fetch manager left running, no channel closed twice, one worker per leader, no connection left open; `Start` and `Shutdown` return; the workers become those the metadata ask for |
| `broker_lifecycle` | 82,990 | No open log is lost or opened twice; roles are the controller's; a broker serves under its own registration; a partition that fails holds up only those after it; a partition moved away is not served |
| `fetch_path` | 203,073 | A consumer has the committed records in order, a follower a prefix of its leader's log; limits are kept; clients catch up in every version |

Each module also defines `TypeOK`, which holds in its runs and is not listed: the other
properties are stronger. `CheckpointMatchesLog` contains `CheckpointWritable`, and
`CommittedRecordsAgree` contains `HWWithinLog`.

### Bounds, and why they are enough

* `controller`: two nodes (every property relates at most two), six log
  entries of which three register two brokers and unfence one. Three more suffice to
  create a topic, change it and change it back, replace an incarnation in
  between, and let a node skip any of them with a snapshot. The commands
  include refused ones and retries. `MaxLog` is a bound of the model; the proofs are for
  every value.
* `epoch_log`: four epochs and four records, so an epoch can be empty between two others and
  be cut and led again.
* `replication`: three brokers with one election separate a leader, a follower that has a
  record and one that does not. `replication_elections`: two brokers,
  three changes of leader, three records, so a log has divergent suffixes of two epochs and
  reconciliation takes more than one round.
* `partition`: one producer, one handler and one follower beside the refresh, the worker, the
  consumer and `Close`. Two changes of role make a leader follow and lead again.
* `segmented_log`: six records in segments of three make several segments and let the log
  be cut into a sealed one and grow again, and files left behind are found by a
  later roll or at the next start. `faulted` says that a truncation was stopped or failed.
* `broker_shutdown`: one client and one leader with two addresses. One change of metadata moves the leader or
  takes it away, so a worker is replaced while `Stop` runs. Two requests in a round put a stop before, between and
  after them. The three safety properties of the server and of the workers are proved for any number.
* `broker_lifecycle`: one topic of two partitions, so one can fail before or after the other;
  two lives, so one finds what the other left; one update for each partition. The three invariants are proved for any number.
* `fetch_path`: two partitions, one of them busy; batches smaller and larger than both limits; three epochs, so that the broker
  can follow and lead again while a response is written; versions on both sides of every change of format.

Some constants name conditions under which the passing
runs hold; section 4 drops them one at a time.
`OneRead`: the two reads of a refresh see the same metadata. `Undisturbed`: nothing
happens between `Reconcile` and `Reassign`. `IsrMayGrow = FALSE`: the ISR
does not gain members. `LeaderToLeader = FALSE`: a leader does not
lead again under a later epoch without having followed. `OlderRecords = FALSE`: a
follower is not sent records older than an epoch it led without writing. `Retries` adds repeated requests and is on
in `replication`; `replication_elections` spends its states on more elections and records instead. In `replication_elections` an epoch can be led without a record, so
`CachesMatchLogs` fails (section 4); the properties that are checked there
hold all the same.

Three runs do not check for deadlock, because the system may come to rest. `partition`: every
producer is answered, the refreshes are used up and the partition is closed.
`broker_shutdown`: `Shutdown` has returned. `broker_lifecycle`: the process is down
and its lives are used up.

### Fairness

`replication_live` assumes of each broker: strong fairness of reading the newest
metadata, because the ticker of `FetchManager.run` fires for ever and the local
controller node catches up; weak fairness of the steps of a refresh and of a
worker's round, which are loops that never block; strong fairness of receiving a reply,
because replies are lost often but not always. Nothing is assumed of
producers, of the controller or of a timeout.

`broker_shutdown` assumes that goroutines run: weak fairness where a step stays possible, strong
fairness where it waits for a mutex or is one branch of a `select` (Go's mutexes do not starve a waiter and
`select` chooses at random among ready branches). Nothing is assumed of clients:
that none is silent for ever is a premise in `ShutdownReturns`, not part of the
specification. Nor is the signal that ends the process assumed to come.

`broker_lifecycle` assumes weak fairness of the loop's reconciliation; crashes, commands and
faults may come or not. `fetch_path` assumes that the connection's goroutine and its client go on, that a long
poll's timer fires, and that a follower learns a new epoch; producers and elections owe
nothing.

## 4. Where the code and its own statements differ

Each of these runs checks one property and TLC finds it violated. The finding
in `PROJECT.json` quotes the line of the repository that says otherwise.

| Run | What happens |
|---|---|
| `handover_race` | A broker leads already, and its old worker, which `Reassign` has not stopped, fetches from the old leader at the new log end. The old leader counts that and acknowledges a record the ISR does not have |
| `unmapped_index` | A reader uses the index of a pair that a truncation has unmapped |

Further configurations, kept beside the runs, each drop one assumption of a
passing run or state one more property. TLC finds a violation in each, within
two minutes. They mark the limits of the passing runs and are the starting
point when the code changes there.

| Configuration | Module | Property | What happens |
|---|---|---|---|
| `EpochLogOlder.cfg` | `EpochLog` | `CacheMatchesLog` | `Assign` of an epoch older than the last entry drops the start of that older epoch: `[(0,0),(1,1)]` becomes `[(0,1)]` |
| `ReplicationTwoReads.cfg` | `MCReplication` | `CommittedRecordsAgree` | `Reconcile` and `Reassign` read different metadata: a worker reconciles with the new leader while the partition still leads and appends. Nothing reconciles it again |
| `ReplicationEmptyEpoch.cfg` | `MCReplication` | `CachesMatchLogs` | The loss of `EpochLogOlder.cfg`, reached by replication |
| `ReplicationIsrGrows.cfg` | `MCReplication` | `LeaderHoldsAckedRecords` | A leader acknowledges by the smaller ISR it read last, and the controller elects the member added since |
| `PartitionNewEpoch.cfg` | `Partition` | `NoStrandedProducer` | `MakeLeader` on a leader neither fails nor drains the purgatory, and the producer's own check ran while `isLeader` was false |
| `PartitionStaleDrain.cfg` | `Partition` | `AckedMeansCommitted` | `maybeAdvanceHW` drains with a value that a truncation after an unclean election has taken back |
| `PartitionFencing.cfg` | `Partition` | `FetchCountsInItsEpoch` | The epoch of a fetch is checked before, not when, the follower's log end is stored |
| `SegmentedLogFaults.cfg` | `SegmentedLog` | `NoHoles` | Segment files a truncation did not get to remove are opened behind the truncated one, with a hole between |
| `SegmentedLogReopen.cfg` | `SegmentedLog` | `Reopenable` | An index rebuilt batch by batch needs more entries than the index of a segment written in groups has room for, and `NewLog` fails |
| `SegmentedLogOldest.cfg` | `SegmentedLog` | `OldestOffsetIsOldest` | `OldestOffset` racing with the first roll returns the base of the new segment |
| `StandaloneRestart.cfg` | `BrokerLifecycle` | `StandaloneServes` | A standalone broker that starts again recovers its topics without a role, and nothing gives them one |

## 5. The proofs

`ControllerNodeProofs` proves, for every set of nodes, every set of commands
whose endpoints and partitions are lists (`CommandsAssumption`), every idempotent
normal form of names (`UpperAssumption`) and every bound (`MaxLogAssumption`), all six properties of the run `controller` and `TypeOK`.
None is inductive. `IInv` has three parts:

* `TypeOK`;
* `HistoryInv`: every state in `hist` is *good* (it has the shape of the Go structs and
  `fromSnapshotData` would accept it), later states in `hist` are *later* (no partition is lost, epochs do
  not decrease, equal partition epochs mean equal metadata, equal leader epochs mean
  equal leaders), and every broker epoch in a state is the index of the command in
  the log that registered that incarnation;
* `NodesInv`: what a node holds is `hist[applied]`, and its snapshot is `hist` at
  the snapshot's index.

Nodes never need to be compared with each other: two of them are two points of one history, and the
properties are read off that history. The work is in the lemmas
`RegisterIsGood`, `UnfenceIsGood`, `CreateIsGood`, `UpdateIsGood` (each command keeps
a state restorable), `ApplyIsLater` and `ApplyEpochs`. The first uses the check that a broker
in an active partition cannot be registered anew: without it a fenced
broker would be in an ISR and no node could restart from its snapshot.
`ReadsAreMonotone` is an action property, from `IInv` before and after the step.

`LeaderEpochCacheProofs` is about the operators, for caches of any length.
`AssignIncreasing` and `TruncateIncreasing`: whatever is assigned and cut from the end, epochs
and offsets stay strictly increasing, which `EpochCheckpoint.Write` and `Read` demand.
`AssignRemembers`: a newer epoch assigned at an offset is the epoch of every offset from there on,
and earlier offsets keep theirs.

`BrokerProofs` is about the threads of `Broker`, for any clients, leaders, addresses, connections and
bounds that satisfy `ServerAssumption` and `FetchManagerAssumption`. `ShutdownEndsRequests`
rests on `ServerInv`: the WaitGroup counts the goroutines of the connections exactly, and `closing` is closed before
`Wait` is called, so a connection that is added too late leaves at its first look.
`StopOnce` and `OneWorker` rest on `FetchInv`: a worker that runs is in the map or in the hands of the caller of
`Stop`, never both, until the `stop` that was called for it has returned.

`PartitionProofs` proves `HWMonotoneWhileLeading` for any producers, fetch handlers, followers and
bounds. The comparison in `maybeAdvanceHW` alone does not give it, because two other places
store the high watermark without one: the clamp in `TruncateTo` and `MakeLeader`. `LockInv` says that both
run in a thread that holds `appendMu` while the partition does not lead, and that nobody
makes it lead meanwhile.

`BrokerLifecycleProofs` proves `OpenLogsAccountedFor`, `RolesComeFromController` and `ServesAsRegistered`
for any topics, partitions, clients, starts and updates, and for storage that fails in any directory, one at a time, from `TopicManagerAssumption`
and `BrokerLifecycleAssumption`. One lemma per operation of the topic manager says what it does to
one slot and to the count of open logs. The roles need a strengthening, `PassInv`: a running call of `Reconcile`
holds metadata that were the controller's once. They stay true of an earlier epoch because each command leaves a *later*
state (`LaterKeeps`), so a role taken from them is old at worst. `Registered` carries the incarnation and broker epoch from
registration through both reconciliations to the moment the broker is unfenced.

Only model-checked: liveness (fairness and `ENABLED` are out of the prover's reach), both
refinements, the other properties of `Broker` and `Partition`, and everything about `EpochLog`, `Replication`,
`SegmentedLog` and `FetchPath`. Recovery folds `Assign` over
a log of any length; that is an induction over data, which the prover cannot do, so that the checkpoint is always
writable is proved for one assignment and checked for the rest. The same holds for the folds of `FetchCodec`.

## 6. What is not modelled, and why

* Record batches, checksums and compression, the text of the checkpoint and JSON: the properties tell batches
  apart only by offset, epoch and size.
* The answers of Metadata, ListOffsets and ApiVersions: they read state and change none. ListOffsets by time would need
  timestamps in every log model.
* The codecs of the other messages: sequences of the same primitives, without the versions of Fetch.
* `FetchRaw` and the readers that copy: the path that the broker serves is `FetchRawRanges`.
* Raft's elections, its log on disk, and the start-up of a node (`cluster_node.go`): external.
* The page cache: a machine's crash that loses the tail of a sealed segment but keeps the next one is listed as an open
  hazard. `EpochLog` loses suffixes of the whole log only.
* `cmd/`, flags and defaults of the configuration, logging.

Abstractions to remember when reading the results: `FetchPath` moves the high watermark freely and takes
`FetchRawRanges` as one step; `BrokerLifecycle` reads the controller where it is written, so that a local node which lags
behind is covered by `Replication` only; `Replication` has one partition.

## 7. Running

    tlc -workers 2 -config Replication.cfg MCReplication
    tlapm ControllerNodeProofs.tla

Each run of `PROJECT.json` names its module and configuration.
