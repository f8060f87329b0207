------------------------------ MODULE Replication ------------------------------
(***************************************************************************)
(* One replicated partition: its metadata at the controller, the brokers   *)
(* that follow it with a delay, their logs, and the fetch workers that     *)
(* copy records from the leader.  internal/broker: partition.go,           *)
(* partition_raw.go, fetch_manager.go, topic_manager.go (Reconcile) and    *)
(* the fetch and epoch handlers of handler.go; the metadata updates are    *)
(* applyUpdatePartition of internal/controller/fsm.go.                     *)
(*                                                                         *)
(* A record is its leader epoch and an identity.  Every batch holds one    *)
(* record.  A call of a Partition method is one step; what happens when    *)
(* threads interleave inside these methods is the subject of Partition.    *)
(* A broker that crashes stops taking steps: the controller has no command *)
(* that would let it register again while it is in use.                    *)
(***************************************************************************)
EXTENDS LeaderEpochCache, FiniteSets

CONSTANTS
    Brokers,        \* the replicas of the partition
    NoBroker,       \* the leader ID -1
    MaxRecords,     \* bound: records producers write
    MaxEpoch,       \* bound: leader elections
    MaxVersions,    \* bound: versions of the metadata
    IsrMayGrow,     \* TRUE: an update may add members to the ISR
    OneRead,        \* TRUE: the two reads of the metadata in one
                    \* FetchManager.refresh return the same version
    Undisturbed,    \* TRUE: nothing else happens in the middle of a refresh
    Retries         \* TRUE: a fetch request may reach the leader twice

ASSUME ReplicationAssumption ==
    /\ NoBroker \notin Brokers
    /\ MaxRecords \in Nat /\ MaxEpoch \in Nat /\ MaxVersions \in Nat
    /\ {IsrMayGrow, OneRead, Undisturbed, Retries} \subseteq BOOLEAN

VARIABLES
    meta,           \* the versions of the partition's metadata, oldest first
    seen,           \* seen[b]: the version b last read from its controller node
    refreshing,     \* refreshing[b]: b is between Reconcile and Reassign
    part,           \* part[b]: b's Partition: role, ISR, high watermark, waiters
    log,            \* log[b]: the records of b's log
    cache,          \* cache[b]: the leader epoch cache of b's log
    worker,         \* worker[b]: b's leaderFetchWorker
    late,           \* fetch requests sent again, on their way to the leader
    acked,          \* offsets and records acknowledged to acks=all producers
    written         \* the number of records producers have written

brokerVars == <<part, log, cache>>
vars == <<meta, seen, refreshing, part, log, cache, worker, late, acked, written>>

LEO(b) == Len(log[b])

SetMin(S) == CHOOSE x \in S : \A y \in S : x <= y

\* A partition no role has been given to (NewPartition, MakeUnassigned).
Unassigned ==
    [leaderID |-> NoBroker, leaderEpoch |-> 0, isLeader |-> FALSE,
     isr |-> [m \in {} |-> 0], hw |-> 0, purgatory |-> {}]

NoWorker == [leader |-> NoBroker]

\* newLeaderFetchWorker, with the assignment it is first given.
NewWorker(m) ==
    [leader |-> m.leader, epoch |-> m.epoch, reconciled |-> FALSE,
     pc |-> "idle", request |-> <<>>, reply |-> <<>>]

Init ==
    /\ \E leader \in Brokers : meta = <<[leader |-> leader, epoch |-> 0, isr |-> Brokers]>>
    /\ seen = [b \in Brokers |-> 1]
    /\ refreshing = [b \in Brokers |-> FALSE]
    /\ part = [b \in Brokers |-> Unassigned]
    /\ log = [b \in Brokers |-> <<>>]
    /\ cache = [b \in Brokers |-> <<>>]
    /\ worker = [b \in Brokers |-> NoWorker]
    /\ late = {}
    /\ acked = {}
    /\ written = 0

-----------------------------------------------------------------------------
(* The controller: an accepted UpdatePartition command without unclean     *)
(* election.  The epoch changes with the leader.                           *)

UpdatePartition(leader, isr) ==
    LET current == meta[Len(meta)] IN
    /\ Len(meta) < MaxVersions
    /\ leader \in isr
    /\ leader = current.leader \/ leader \in current.isr
    \* Whoever adds a member makes sure that it has caught up.
    /\ \A b \in isr \ current.isr :
          IsrMayGrow /\ \A a \in acked : LEO(b) >= a[1] /\ log[b][a[1]] = a[2]
    /\ current.epoch < MaxEpoch \/ leader = current.leader
    /\ meta' = Append(meta,
          [leader |-> leader, isr |-> isr,
           epoch |-> IF leader = current.leader THEN current.epoch ELSE current.epoch + 1])
    /\ UNCHANGED <<seen, refreshing, brokerVars, worker, late, acked, written>>

-----------------------------------------------------------------------------
(* Partition methods.  Each gives the new value of part[b].                *)

\* Mutant: the followers do not count.
AdvanceAlone(b, p, leo) ==
    IF ~p.isLeader \/ DOMAIN p.isr = {} THEN p
    ELSE [p EXCEPT !.hw = leo, !.purgatory = {}]

\* maybeAdvanceHW on partition state p whose log ends at leo: the smallest
\* log end of the ISR, if that is an advance; then drainPurgatory.
AdvanceHW(b, p, leo) ==
    LET newHW == SetMin({leo} \cup {p.isr[m] : m \in DOMAIN p.isr \ {b}})
        hw == IF newHW > p.hw THEN newHW ELSE p.hw
    IN  IF ~p.isLeader \/ DOMAIN p.isr = {} THEN p
        ELSE [p EXCEPT !.hw = hw, !.purgatory = {r \in @ : r > hw}]

\* The waiters that leave the purgatory with the high watermark reached.
Acknowledged(b, before, after, records) ==
    {<<r, records[r]>> : r \in {r \in before.purgatory \ after.purgatory : r <= after.hw}}

\* MakeLeader when the epoch is not older than the log's: nothing is known of
\* the followers' logs, and the high watermark is the one the broker had.
MakeLeader(b, p, m) ==
    [p EXCEPT !.leaderID = b, !.leaderEpoch = m.epoch, !.isLeader = TRUE,
              !.isr = [x \in m.isr |-> 0]]

MakeFollower(b, p, m) ==
    [p EXCEPT !.leaderID = m.leader, !.leaderEpoch = m.epoch, !.isLeader = FALSE,
              !.isr = [x \in {} |-> 0], !.purgatory = {}]

UpdateLeaderISR(b, p, isr) ==
    AdvanceHW(b, [p EXCEPT !.isr = [x \in isr |-> IF x \in DOMAIN @ THEN @[x] ELSE 0]], LEO(b))

\* Mutants: the follower is taken to have what it is only being sent; the high
\* watermark is not looked at.
CountsWhatIsSent(l, p, b, offset) ==
    AdvanceHW(l, IF b \in DOMAIN p.isr THEN [p EXCEPT !.isr[b] = LEO(l)] ELSE p, LEO(l))

NoAdvance(l, p, b, offset) ==
    IF b \in DOMAIN p.isr THEN [p EXCEPT !.isr[b] = offset] ELSE p

\* updateFollowerLEO takes what the request says, also when it is less.
UpdateFollowerLEO(l, p, b, offset) ==
    AdvanceHW(l, IF b \in DOMAIN p.isr THEN [p EXCEPT !.isr[b] = offset] ELSE p, LEO(l))

\* AppendFromLeader on a log that now ends at leo.
AppendFromLeader(p, leaderHW, leo) ==
    LET candidate == SetMin({leaderHW, leo})
    IN  [p EXCEPT !.hw = IF candidate > @ THEN candidate ELSE @]

-----------------------------------------------------------------------------
(* FetchManager.refresh: Reconcile gives the partition its role, Reassign  *)
(* gives the worker its assignment, each from its own read of the metadata.*)

Reconcile(b, version) ==
    LET m == meta[version]
        p == part[b]
        leads == m.leader = b
        sameLeader == p.isLeader /\ p.leaderEpoch = m.epoch
        tooOld == cache[b] # <<>> /\ m.epoch < LatestLeaderEpoch(cache[b])
    IN
    /\ ~refreshing[b] /\ version >= seen[b]
    /\ seen' = [seen EXCEPT ![b] = version]
    \* An error of MakeLeader ends the refresh before Reassign.
    /\ refreshing' = [refreshing EXCEPT ![b] = ~(leads /\ ~sameLeader /\ tooOld)]
    /\ part' = [part EXCEPT ![b] =
          IF leads THEN IF sameLeader
                        THEN IF DOMAIN p.isr # m.isr THEN UpdateLeaderISR(b, p, m.isr) ELSE p
                        ELSE IF tooOld THEN p ELSE MakeLeader(b, p, m)
          ELSE IF p.isLeader \/ p.leaderID # m.leader \/ p.leaderEpoch # m.epoch
               THEN MakeFollower(b, p, m) ELSE p]
    /\ cache' = [cache EXCEPT ![b] =
          IF leads /\ ~sameLeader /\ ~tooOld THEN Assign(@, m.epoch, LEO(b)) ELSE @]
    /\ acked' = acked \cup (IF leads THEN Acknowledged(b, p, part'[b], log[b]) ELSE {})
    /\ UNCHANGED <<meta, log, worker, late, written>>

\* A new worker knows nothing; a worker that stays (setPartitions) keeps what
\* it has reconciled unless the epoch changed.  A call in progress goes on.
Reassign(b, version) ==
    LET m == meta[version]
        w == worker[b]
    IN
    /\ refreshing[b] /\ version >= seen[b]
    /\ OneRead => version = seen[b]
    /\ seen' = [seen EXCEPT ![b] = version]
    /\ refreshing' = [refreshing EXCEPT ![b] = FALSE]
    /\ worker' = [worker EXCEPT ![b] =
          CASE m.leader = b -> NoWorker
            [] m.leader # b /\ w.leader = m.leader ->
                  [w EXCEPT !.epoch = m.epoch, !.reconciled = @ /\ w.epoch = m.epoch]
            [] OTHER -> NewWorker(m)]
    /\ UNCHANGED <<meta, brokerVars, late, acked, written>>

-----------------------------------------------------------------------------
(* leaderFetchWorker.reconcilePartition                                    *)

\* Mutant: no follower has anything to reconcile.
NeverReconciles(b) ==
    /\ worker[b] # NoWorker /\ worker[b].pc = "idle" /\ ~worker[b].reconciled
    /\ worker' = [worker EXCEPT ![b].reconciled = TRUE]
    /\ UNCHANGED <<meta, seen, refreshing, brokerVars, late, acked, written>>

\* A follower without epoch history has nothing to reconcile.
NothingToReconcile(b) ==
    /\ worker[b] # NoWorker /\ worker[b].pc = "idle" /\ ~worker[b].reconciled
    /\ cache[b] = <<>>
    /\ worker' = [worker EXCEPT ![b].reconciled = TRUE]
    /\ UNCHANGED <<meta, seen, refreshing, brokerVars, late, acked, written>>

\* OffsetsForLeaderEpoch, answered by the leader if it leads under the epoch
\* of the request.  Otherwise the round fails and is tried again.
OffsetsForLeaderEpoch(b) ==
    LET w == worker[b]
        l == w.leader
        asked == IF w.pc = "idle" THEN LatestLeaderEpoch(cache[b]) ELSE w.request.asked
        epoch == IF w.pc = "idle" THEN w.epoch ELSE w.request.epoch
        answer == EndOffsetFor(cache[l], asked, LEO(l))
        answered == part[l].isLeader /\ part[l].leaderEpoch = epoch /\ answer # Undefined
    IN
    /\ w # NoWorker
    /\ w.pc = "again" \/ (w.pc = "idle" /\ ~w.reconciled /\ cache[b] # <<>>)
    /\ answered \/ w.pc = "again"
    /\ worker' = [worker EXCEPT ![b] =
          IF answered
          THEN [w EXCEPT !.pc = "epoch", !.reply = answer,
                         !.request = [epoch |-> epoch, asked |-> asked]]
          ELSE [w EXCEPT !.pc = "idle", !.request = <<>>]]
    /\ UNCHANGED <<meta, seen, refreshing, brokerVars, late, acked, written>>

\* Mutants: nothing is cut; what the leader calls the end is not compared with
\* the end of the same epoch here.
KeepsEverything(b, reply) == LEO(b)

LeaderEndOnly(b, reply) == SetMin({reply.EndOffset, LEO(b)})

\* What both logs have of the epoch answered.
TruncationOffset(b, reply) ==
    LET localEnd == EndOffsetFor(cache[b], reply.Epoch, LEO(b))
    IN  SetMin({reply.EndOffset, LEO(b)} \cup IF localEnd # Undefined THEN {localEnd.EndOffset} ELSE {})

\* Truncate to what both logs have of the epoch answered; ask again about the
\* next older local epoch unless that epoch is known here or newer than all.
ApplyEpochAnswer(b) ==
    LET w == worker[b]
        localEnd == EndOffsetFor(cache[b], w.reply.Epoch, LEO(b))
        found == localEnd # Undefined
        to == TruncationOffset(b, w.reply)
        truncates == to < LEO(b)
        refused == truncates /\ part[b].isLeader
        done == ~found \/ localEnd.Epoch = w.reply.Epoch
    IN
    /\ w # NoWorker /\ w.pc = "epoch"
    /\ IF truncates /\ ~refused
       THEN /\ log' = [log EXCEPT ![b] = SubSeq(@, 1, to)]
            /\ cache' = [cache EXCEPT ![b] = TruncateFromEnd(@, to)]
            /\ part' = [part EXCEPT ![b].hw = SetMin({@, to})]
       ELSE UNCHANGED brokerVars
    /\ worker' = [worker EXCEPT ![b] =
          IF ~refused /\ ~done
          THEN [w EXCEPT !.pc = "again", !.reply = <<>>, !.request.asked = localEnd.Epoch]
          ELSE [w EXCEPT !.pc = "idle", !.reply = <<>>, !.request = <<>>,
                         !.reconciled = @ \/ (~refused /\ w.epoch = w.request.epoch)]]
    /\ UNCHANGED <<meta, seen, refreshing, late, acked, written>>

-----------------------------------------------------------------------------
(* leaderFetchWorker.fetchOnce                                             *)

\* What fetchOnePass and FetchRawRanges check of a follower's request.
FetchAccepted(l, epoch, offset) ==
    part[l].isLeader /\ part[l].leaderEpoch = epoch /\ offset <= LEO(l)

\* The request is handled by the leader, and possibly sent a second time.
\* MaxBytes may cut the answer short, but never its first batch.
Fetch(b) ==
    LET w == worker[b]
        l == w.leader
        offset == LEO(b)
        p == UpdateFollowerLEO(l, part[l], b, offset)
        request == [from |-> b, to |-> l, epoch |-> w.epoch, offset |-> offset]
    IN
    /\ w # NoWorker /\ w.pc = "idle" /\ w.reconciled
    /\ FetchAccepted(l, w.epoch, offset)
    /\ part' = [part EXCEPT ![l] = p]
    /\ acked' = acked \cup Acknowledged(l, part[l], p, log[l])
    /\ \E upTo \in SetMin({offset + 1, LEO(l)}) .. LEO(l) :
          worker' = [worker EXCEPT ![b].pc = "fetch",
                                   ![b].request = [epoch |-> w.epoch, offset |-> offset],
                                   ![b].reply = [records |-> SubSeq(log[l], offset + 1, upTo),
                                                 hw |-> p.hw]]
    /\ late' = late \/ (Retries /\ late' = {request})
    /\ UNCHANGED <<meta, seen, refreshing, log, cache, written>>

\* ReplicaClient.sendRequest retries: the leader may handle a request again,
\* much later, when its answer has no reader any more.
LateFetch ==
    \E r \in late :
        LET p == UpdateFollowerLEO(r.to, part[r.to], r.from, r.offset) IN
        /\ late' = {}
        /\ IF FetchAccepted(r.to, r.epoch, r.offset)
           THEN /\ part' = [part EXCEPT ![r.to] = p]
                /\ acked' = acked \cup Acknowledged(r.to, part[r.to], p, log[r.to])
           ELSE UNCHANGED <<part, acked>>
        /\ UNCHANGED <<meta, seen, refreshing, log, cache, worker, written>>

\* The answer is dropped if the assignment, the partition's epoch or its log
\* end have changed; otherwise AppendFromLeader.
ApplyFetch(b) ==
    LET w == worker[b]
        p == part[b]
        applies == /\ w.epoch = w.request.epoch
                   /\ p.leaderEpoch = w.request.epoch
                   /\ LEO(b) = w.request.offset
                   /\ ~p.isLeader /\ p.leaderID \notin {NoBroker, b}
        records == w.reply.records
        epochs == [i \in DOMAIN records |-> records[i].epoch]
    IN
    /\ w # NoWorker /\ w.pc = "fetch"
    /\ IF applies
       THEN /\ cache' = [cache EXCEPT ![b] = AssignAll(@, Transitions(epochs, LEO(b)))]
            /\ log' = [log EXCEPT ![b] = @ \o records]
            /\ part' = [part EXCEPT ![b] = AppendFromLeader(@, w.reply.hw, LEO(b) + Len(records))]
       ELSE UNCHANGED brokerVars
    /\ worker' = [worker EXCEPT ![b].pc = "idle", ![b].request = <<>>, ![b].reply = <<>>]
    /\ UNCHANGED <<meta, seen, refreshing, late, acked, written>>

\* A call fails after the leader handled it.
LoseReply(b) ==
    /\ worker[b] # NoWorker /\ worker[b].pc \in {"epoch", "fetch"}
    /\ worker' = [worker EXCEPT ![b].pc = "idle", ![b].request = <<>>, ![b].reply = <<>>]
    /\ UNCHANGED <<meta, seen, refreshing, brokerVars, late, acked, written>>

-----------------------------------------------------------------------------
(* Partition.AppendRaw with acks=all: append, wait in the purgatory for    *)
(* the high watermark to pass the record, and advance it at once if the    *)
(* ISR is this broker alone.                                               *)

AppendRaw(b) ==
    LET record == [epoch |-> part[b].leaderEpoch, id |-> written]
        waiting == [part[b] EXCEPT !.purgatory = @ \cup {LEO(b) + 1}]
        p == AdvanceHW(b, waiting, LEO(b) + 1)
    IN
    /\ part[b].isLeader
    /\ written < MaxRecords
    /\ written' = written + 1
    /\ log' = [log EXCEPT ![b] = Append(@, record)]
    /\ part' = [part EXCEPT ![b] = p]
    /\ acked' = acked \cup Acknowledged(b, waiting, p, log'[b])
    /\ UNCHANGED <<meta, seen, refreshing, cache, worker, late>>

-----------------------------------------------------------------------------

BrokerStep(b) ==
    \/ \E version \in 1 .. Len(meta) : Reconcile(b, version)
    \/ NothingToReconcile(b)
    \/ OffsetsForLeaderEpoch(b)
    \/ ApplyEpochAnswer(b)
    \/ Fetch(b)
    \/ ApplyFetch(b)
    \/ LoseReply(b)
    \/ AppendRaw(b)

Next ==
    \/ \E b \in Brokers, version \in 1 .. Len(meta) : Reassign(b, version)
    \/ /\ Undisturbed => \A b \in Brokers : ~refreshing[b]
       /\ \/ \E leader \in Brokers, isr \in SUBSET Brokers : UpdatePartition(leader, isr)
          \/ \E b \in Brokers : BrokerStep(b)
          \/ LateFetch

Spec == Init /\ [][Next]_vars

\* The tickers of FetchManager.run and leaderFetchWorker.run never stop: the
\* next step of a refresh and of a worker's round is taken while it can be.
\* The broker's controller node catches up with the log, and a connection to
\* the leader does not fail for ever: again and again a reply does arrive.
Fairness ==
    \A b \in Brokers :
        /\ SF_vars(Reconcile(b, Len(meta)))
        /\ WF_vars(\E version \in 1 .. Len(meta) : Reassign(b, version))
        /\ WF_vars(NothingToReconcile(b) \/ OffsetsForLeaderEpoch(b) \/ Fetch(b)
                     \/ ApplyEpochAnswer(b) \/ ApplyFetch(b))
        /\ SF_vars(ApplyEpochAnswer(b) \/ ApplyFetch(b))

LiveSpec == Spec /\ Fairness

-----------------------------------------------------------------------------
(* Properties *)

TypeOK ==
    /\ \A b \in Brokers : seen[b] \in 1 .. Len(meta)
    /\ refreshing \in [Brokers -> BOOLEAN]
    /\ \A b \in Brokers :
          /\ part[b].leaderID \in Brokers \cup {NoBroker}
          /\ part[b].leaderEpoch \in 0 .. MaxEpoch
          /\ part[b].hw \in 0 .. MaxRecords
          /\ DOMAIN part[b].isr \subseteq Brokers
          /\ \A m \in DOMAIN part[b].isr : part[b].isr[m] \in 0 .. MaxRecords
          /\ part[b].purgatory \subseteq 1 .. LEO(b)
          /\ \A i \in 1 .. LEO(b) : log[b][i].epoch \in 0 .. MaxEpoch /\ log[b][i].id < written
          /\ StrictlyIncreasing(cache[b])
          /\ worker[b] # NoWorker => worker[b].pc \in {"idle", "epoch", "again", "fetch"}
    /\ Cardinality(late) <= 1

\* The high watermark never promises records the log does not hold.
HWWithinLog == \A b \in Brokers : part[b].hw <= LEO(b)

\* Brokers agree on every record below both their high watermarks: a consumer
\* reads the same record at an offset before and after a leader change.
CommittedRecordsAgree ==
    /\ HWWithinLog
    /\ \A b, c \in Brokers : \A i \in 1 .. SetMin({part[b].hw, part[c].hw}) :
          log[b][i] = log[c][i]

\* A record acknowledged with acks=all is in the log of every member of the
\* controller's current ISR, so on every broker a clean election may choose.
AckedRecordsOnISR ==
    \A a \in acked : \A b \in meta[Len(meta)].isr :
        LEO(b) >= a[1] /\ log[b][a[1]] = a[2]

\* No clean election loses an acknowledged record: the broker the controller
\* has chosen to lead holds all of them.
LeaderHoldsAckedRecords ==
    \A a \in acked : LET l == meta[Len(meta)].leader IN
        LEO(l) >= a[1] /\ log[l][a[1]] = a[2]

\* Two logs with a record of the same epoch at the same offset are identical
\* up to it: what the truncation by epochs takes for granted.
LogsMatchByEpoch ==
    \A b, c \in Brokers : \A i \in 1 .. SetMin({LEO(b), LEO(c)}) :
        log[b][i].epoch = log[c][i].epoch => SubSeq(log[b], 1, i) = SubSeq(log[c], 1, i)

\* A worker fetches only into a log that is a prefix of its leader's: once it
\* has reconciled, as long as both brokers are still in that epoch.
ReconciledIsPrefix ==
    \A b \in Brokers : LET w == worker[b] IN
        /\ w # NoWorker /\ w.reconciled
        /\ part[b].leaderEpoch = w.epoch /\ ~part[b].isLeader
        /\ part[w.leader].isLeader /\ part[w.leader].leaderEpoch = w.epoch
        => LEO(b) <= LEO(w.leader) /\ log[b] = SubSeq(log[w.leader], 1, LEO(b))

\* Each broker's epoch cache tells the epoch of every record of its log: the
\* answers about epochs, by which followers truncate, rest on it.
CachesMatchLogs ==
    \A b \in Brokers : \A i \in 1 .. LEO(b) : EpochForOffset(cache[b], i - 1) = log[b][i].epoch

\* The committed records: what the broker with the highest high watermark has
\* below it.
Committed ==
    LET b == CHOOSE b \in Brokers : \A c \in Brokers : part[c].hw <= part[b].hw
    IN  SubSeq(log[b], 1, part[b].hw)

\* The committed records behave as one log that only grows, through every
\* election, truncation and lost or repeated request.
CommittedLogSpec == INSTANCE CommittedLog WITH committed <- Committed
RefinesCommittedLog == CommittedLogSpec!Spec

\* Every acks=all producer is answered, acknowledged by a high watermark that
\* followers' fetches advance or failed by a change of leader, without the
\* help of a timeout.
ProducersAnswered ==
    \A b \in Brokers, r \in 1 .. MaxRecords :
        (r \in part[b].purgatory) ~> (r \notin part[b].purgatory)

\* Once elections and writes have ended, every follower ends up with the log
\* and the high watermark of the leader: reconciliation always gets through.
ReplicasConverge ==
    <>[](\A b, c \in Brokers : log[b] = log[c] /\ part[b].hw = LEO(b))
================================================================================
