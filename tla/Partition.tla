------------------------------- MODULE Partition -------------------------------
(***************************************************************************)
(* The threads inside one broker's Partition: producers in AppendRaw,      *)
(* handlers of followers' fetches, a long-polling consumer, the refresh    *)
(* that changes the role, and the fetch worker that truncates and appends. *)
(* internal/broker/partition.go, partition_raw.go, and the long poll of    *)
(* handler.go.                                                             *)
(*                                                                         *)
(* A step is what a thread does while nobody can see a difference: one     *)
(* critical section of isrMu, purgatoryMu or notifyMu, or one atomic       *)
(* access.  appendMu is held across several steps.  The log is its end     *)
(* offset, and every batch holds one record.                               *)
(***************************************************************************)
EXTENDS Integers, FiniteSets

CONSTANTS
    Producers,      \* threads that append one record with acks=all
    Handlers,       \* threads that handle one fetch of a follower each
    Self,           \* this broker
    Followers,      \* the other replicas
    MaxLEO,         \* bound: records in the log
    MaxEpoch,       \* bound: leader epochs
    MaxRefreshes,   \* bound: changes of role or ISR
    LeaderToLeader  \* TRUE: a leader may miss an epoch and lead the next

\* Threads are told apart by their names.
ASSUME PartitionAssumption ==
    /\ Producers \cap Handlers = {}
    /\ {"refresh", "worker", "consumer", "closer", "free"} \cap (Producers \cup Handlers) = {}
    /\ MaxLEO \in Nat /\ MaxEpoch \in Nat

VARIABLES
    isLeader, leaderEpoch, isr, highWatermark,  \* fields of Partition
    following,      \* leaderID is another broker's
    assignment,     \* what the fetch worker is to do with the partition
    closed,         \* Close has closed the channel p.closed
    leo,            \* the log's NextOffset
    purgatory,      \* the producers waiting in the heap
    appendMu,       \* the thread that holds appendMu, or "free"
    pc,             \* pc[t]: where thread t is
    loc,            \* loc[t]: its local variables
    result,         \* result[p]: what producer p was told
    polled,         \* the consumer's fetch offset
    notified,       \* the channel the consumer has taken has been closed
    refreshes       \* the number of changes of role so far

role == <<isLeader, leaderEpoch, isr, following>>
fields == <<role, assignment, highWatermark, closed>>
consumerVars == <<polled, notified>>
vars == <<fields, leo, purgatory, appendMu, pc, loc, result, consumerVars, refreshes>>

Threads == Producers \cup Handlers \cup {"refresh", "worker", "consumer", "closer"}

Replicas == Followers \cup {Self}

NoISR == [m \in {} |-> 0]

\* A worker reconciles a partition it is given before it fetches.
NoAssignment == [state |-> "none", epoch |-> 0]

SetMin(S) == CHOOSE x \in S : \A y \in S : x <= y

NoLocals == [epoch |-> 0, offset |-> 0, newHW |-> 0, moved |-> FALSE]

\* A leader of epoch 0 with nothing written yet.
Init ==
    /\ isLeader = TRUE /\ leaderEpoch = 0
    /\ isr = [m \in Replicas |-> 0] /\ following = FALSE
    /\ assignment = NoAssignment /\ highWatermark = 0 /\ leo = 0 /\ closed = FALSE
    /\ purgatory = {}
    /\ appendMu = "free"
    /\ pc = [t \in Threads |-> "start"]
    /\ loc = [t \in Threads |-> NoLocals]
    /\ result = [p \in Producers |-> "none"]
    /\ polled = 0 /\ notified = FALSE
    /\ refreshes = 0

Go(t, from, to) == pc[t] = from /\ pc' = [pc EXCEPT ![t] = to]

\* Local variables that nothing reads any more are forgotten; a producer's purgatory
\* entry keeps the offset it requires.
Return(t) ==
    loc' = [loc EXCEPT ![t] = [NoLocals EXCEPT !.offset = IF t \in Producers THEN loc[t].offset ELSE 0]]

\* notifyWaiters closes the channel every long poll waits on.
NotifyWaiters == notified' = (pc["consumer"] # "start")

FailPurgatory ==
    /\ result' = [p \in Producers |-> IF p \in purgatory THEN "failed" ELSE result[p]]
    /\ purgatory' = {}

-----------------------------------------------------------------------------
(* maybeAdvanceHW, run by thread t without appendMu.                       *)

\* The ISR's smallest log end.  This broker's is the log's, not its entry's.
IsrMin == SetMin({leo} \cup {isr[m] : m \in DOMAIN isr \ {Self}})

AfterAdvance(t) == IF t \in Producers THEN "wait" ELSE "done"

CheckLeader(t) ==
    /\ Go(t, "advance", IF isLeader THEN "compute" ELSE AfterAdvance(t))
    /\ IF isLeader THEN UNCHANGED loc ELSE Return(t)
    /\ UNCHANGED <<fields, leo, purgatory, appendMu, result, consumerVars, refreshes>>

ComputeHW(t) ==
    /\ Go(t, "compute", IF isr = NoISR THEN AfterAdvance(t) ELSE "swap")
    /\ IF isr = NoISR THEN Return(t) ELSE loc' = [loc EXCEPT ![t].newHW = IsrMin]
    /\ UNCHANGED <<fields, leo, purgatory, appendMu, result, consumerVars, refreshes>>

\* Mutants: without an advance nothing is drained; the new value is stored
\* without a comparison.
SwapReturnsEarly(t) ==
    LET moved == loc[t].newHW > highWatermark IN
    /\ Go(t, "swap", IF moved THEN "drain" ELSE AfterAdvance(t))
    /\ highWatermark' = IF moved THEN loc[t].newHW ELSE highWatermark
    /\ IF moved THEN loc' = [loc EXCEPT ![t].moved = TRUE] ELSE Return(t)
    /\ UNCHANGED <<role, assignment, closed, leo, purgatory, appendMu, result, consumerVars, refreshes>>

StoreHW(t) ==
    /\ Go(t, "swap", "drain")
    /\ highWatermark' = loc[t].newHW
    /\ loc' = [loc EXCEPT ![t].moved = TRUE]
    /\ UNCHANGED <<role, assignment, closed, leo, purgatory, appendMu, result, consumerVars, refreshes>>

\* The loop around CompareAndSwap: it ends with one load that finds the high
\* watermark no smaller, or one swap that raises it.
SwapHW(t) ==
    /\ Go(t, "swap", "drain")
    /\ LET moved == loc[t].newHW > highWatermark
           hw == IF moved THEN loc[t].newHW ELSE highWatermark
       IN  /\ highWatermark' = hw
           /\ loc' = [loc EXCEPT ![t].newHW = hw, ![t].moved = moved]
    /\ UNCHANGED <<role, assignment, closed, leo, purgatory, appendMu, result, consumerVars, refreshes>>

\* Mutant: the long polls are not told.
DrainsSilently(t) ==
    LET drained == {p \in purgatory : loc[p].offset <= loc[t].newHW} IN
    /\ Go(t, "drain", AfterAdvance(t))
    /\ purgatory' = purgatory \ drained
    /\ result' = [p \in Producers |-> IF p \in drained THEN "acked" ELSE result[p]]
    /\ Return(t)
    /\ UNCHANGED <<fields, leo, appendMu, consumerVars, refreshes>>

DrainPurgatory(t) ==
    LET drained == {p \in purgatory : loc[p].offset <= loc[t].newHW} IN
    /\ Go(t, "drain", IF loc[t].moved THEN "notify" ELSE AfterAdvance(t))
    /\ purgatory' = purgatory \ drained
    /\ result' = [p \in Producers |-> IF p \in drained THEN "acked" ELSE result[p]]
    /\ IF loc[t].moved THEN UNCHANGED loc ELSE Return(t)
    /\ UNCHANGED <<fields, leo, appendMu, consumerVars, refreshes>>

NotifyAdvance(t) ==
    /\ Go(t, "notify", AfterAdvance(t))
    /\ NotifyWaiters
    /\ Return(t)
    /\ UNCHANGED <<fields, leo, purgatory, appendMu, result, polled, refreshes>>

MaybeAdvanceHW(t) ==
    CheckLeader(t) \/ ComputeHW(t) \/ SwapHW(t) \/ DrainPurgatory(t) \/ NotifyAdvance(t)

-----------------------------------------------------------------------------
(* AppendRaw with acks=all                                                 *)

AppendRefused(p) ==
    /\ Go(p, "start", "done")
    /\ appendMu = "free" /\ (~isLeader \/ closed)
    /\ result' = [result EXCEPT ![p] = "failed"]
    /\ UNCHANGED <<fields, leo, purgatory, appendMu, loc, consumerVars, refreshes>>

\* Under appendMu, having checked the role again: the record is in the log and
\* others can see it there before its producer is in the purgatory.
AppendToLog(p) ==
    /\ Go(p, "start", "push")
    /\ appendMu = "free" /\ isLeader /\ ~closed /\ leo < MaxLEO
    /\ appendMu' = p
    /\ leo' = leo + 1
    /\ loc' = [loc EXCEPT ![p].offset = leo + 1]
    /\ NotifyWaiters
    /\ UNCHANGED <<fields, purgatory, result, polled, refreshes>>

PushPurgatory(p) ==
    /\ Go(p, "push", "advance")
    /\ purgatory' = purgatory \cup {p}
    /\ appendMu' = "free"
    /\ UNCHANGED <<fields, leo, loc, result, consumerVars, refreshes>>

\* With acks=0 or acks=1 the producer is answered without the purgatory.
SkipPurgatory(p) ==
    /\ Go(p, "push", "advance")
    /\ result' = [result EXCEPT ![p] = "written"]
    /\ appendMu' = "free"
    /\ UNCHANGED <<fields, leo, purgatory, loc, consumerVars, refreshes>>

\* The request's context expires: the entry is removed if it is still there.
TimeOut(p) ==
    /\ pc[p] = "wait" /\ p \in purgatory
    /\ purgatory' = purgatory \ {p}
    /\ result' = [result EXCEPT ![p] = "timed out"]
    /\ UNCHANGED <<fields, leo, appendMu, pc, loc, consumerVars, refreshes>>

Answered(p) ==
    /\ Go(p, "wait", "done")
    /\ result[p] # "none"
    /\ loc' = [loc EXCEPT ![p] = NoLocals]
    /\ UNCHANGED <<fields, leo, purgatory, appendMu, result, consumerVars, refreshes>>

-----------------------------------------------------------------------------
(* A follower's fetch: fetchOnePass checks the role and the epoch of the   *)
(* request, then FetchRawRanges checks the role and the offset and calls   *)
(* updateFollowerLEO.                                                      *)

CheckEpoch(h, epoch, offset) ==
    /\ Go(h, "start", IF isLeader /\ epoch = leaderEpoch THEN "fetch" ELSE "done")
    /\ loc' = IF isLeader /\ epoch = leaderEpoch
              THEN [loc EXCEPT ![h].epoch = epoch, ![h].offset = offset]
              ELSE loc
    /\ UNCHANGED <<fields, leo, purgatory, appendMu, result, consumerVars, refreshes>>

CheckOffset(h) ==
    LET served == ~closed /\ isLeader /\ loc[h].offset <= leo IN
    /\ Go(h, "fetch", IF served THEN "update" ELSE "done")
    /\ IF served THEN UNCHANGED loc ELSE Return(h)
    /\ UNCHANGED <<fields, leo, purgatory, appendMu, result, consumerVars, refreshes>>

UpdateFollowerLEO(h, b) ==
    /\ Go(h, "update", "advance")
    /\ isr' = IF b \in DOMAIN isr THEN [isr EXCEPT ![b] = loc[h].offset] ELSE isr
    /\ Return(h)
    /\ UNCHANGED <<assignment, closed, isLeader, leaderEpoch, following, highWatermark, leo, purgatory, appendMu,
                   result, consumerVars, refreshes>>

-----------------------------------------------------------------------------
(* TopicManager.Reconcile, one change at a time.                           *)

Refresh(from, to) ==
    /\ Go("refresh", from, to)
    /\ refreshes < MaxRefreshes

\* Reassign follows, unless MakeLeader failed: what follows is given to a worker,
\* in an epoch that is new to it.
Reassign ==
    assignment' = IF following THEN [state |-> "reconciling", epoch |-> leaderEpoch] ELSE NoAssignment

\* The high watermark MakeLeader is given is read before appendMu is taken.
ReadHW(epoch) ==
    /\ Refresh("start", "make leader")
    /\ epoch > leaderEpoch
    /\ isLeader => LeaderToLeader
    /\ loc' = [loc EXCEPT !["refresh"].newHW = highWatermark, !["refresh"].epoch = epoch]
    /\ UNCHANGED <<fields, leo, purgatory, appendMu, result, consumerVars, refreshes>>

MakeLeader(members) ==
    /\ Refresh("make leader", "store HW")
    /\ appendMu = "free"
    /\ appendMu' = "refresh"
    /\ isLeader' = FALSE /\ following' = FALSE
    /\ leaderEpoch' = loc["refresh"].epoch
    /\ isr' = [m \in members |-> 0]
    /\ UNCHANGED <<assignment, closed, highWatermark, leo, purgatory, loc, result, consumerVars, refreshes>>

MakeLeaderStoreHW ==
    /\ Refresh("store HW", "lead")
    /\ highWatermark' = loc["refresh"].newHW
    /\ UNCHANGED <<role, assignment, closed, leo, purgatory, appendMu, loc, result, consumerVars, refreshes>>

MakeLeaderDone ==
    /\ Refresh("lead", "start")
    /\ isLeader' = TRUE
    /\ NotifyWaiters
    /\ Return("refresh")
    /\ appendMu' = "free"
    /\ refreshes' = refreshes + 1
    /\ Reassign
    /\ UNCHANGED <<closed, leaderEpoch, isr, following, highWatermark, leo, purgatory, result, polled>>

\* The epoch checkpoint could not be written.
MakeLeaderFails ==
    /\ Refresh("make leader", "start")
    /\ appendMu = "free"
    /\ isLeader' = FALSE /\ isr' = NoISR /\ following' = FALSE
    /\ FailPurgatory
    /\ NotifyWaiters
    /\ Return("refresh")
    /\ refreshes' = refreshes + 1
    /\ UNCHANGED <<assignment, closed, leaderEpoch, highWatermark, leo, appendMu, polled>>

MakeFollower(epoch) ==
    /\ Refresh("start", "fail purgatory")
    /\ appendMu = "free"
    /\ epoch > leaderEpoch
    /\ isLeader' = FALSE /\ isr' = NoISR /\ following' = TRUE
    /\ leaderEpoch' = epoch
    /\ UNCHANGED <<assignment, closed, highWatermark, leo, purgatory, appendMu, loc, result, consumerVars, refreshes>>

MakeUnassigned ==
    /\ Refresh("start", "fail purgatory")
    /\ appendMu = "free"
    /\ isLeader \/ following
    /\ isLeader' = FALSE /\ isr' = NoISR /\ following' = FALSE
    /\ UNCHANGED <<assignment, closed, leaderEpoch, highWatermark, leo, purgatory, appendMu, loc, result, consumerVars, refreshes>>

\* Both fail the waiting producers once appendMu is released.
FailWaiting ==
    /\ Refresh("fail purgatory", "start")
    /\ FailPurgatory
    /\ NotifyWaiters
    /\ refreshes' = refreshes + 1
    /\ Reassign
    /\ UNCHANGED <<role, closed, highWatermark, leo, appendMu, loc, polled>>

UpdateLeaderISR(members) ==
    /\ Refresh("start", "advance")
    /\ appendMu = "free" /\ isLeader
    /\ members # DOMAIN isr
    /\ isr' = [m \in members |-> IF m \in DOMAIN isr THEN isr[m] ELSE 0]
    /\ appendMu' = "refresh"
    /\ UNCHANGED <<assignment, closed, isLeader, leaderEpoch, following, highWatermark, leo, purgatory, loc, result,
                   consumerVars, refreshes>>

\* maybeAdvanceHW is called with appendMu held.
UpdateLeaderISRDone ==
    /\ Refresh("done", "start")
    /\ appendMu' = "free"
    /\ refreshes' = refreshes + 1
    /\ UNCHANGED <<fields, leo, purgatory, loc, result, consumerVars>>

-----------------------------------------------------------------------------
(* The fetch worker, on a partition assigned to it.  An unclean election   *)
(* may make it cut below the high watermark.                               *)

\* Truncation looks at the role only, not at the assignment's epoch.
TruncateTo(offset) ==
    /\ Go("worker", "start", "clamp")
    /\ assignment.state = "reconciling"
    /\ appendMu = "free" /\ ~isLeader /\ pc["closer"] # "done" /\ offset < leo
    /\ appendMu' = "worker"
    /\ leo' = offset
    /\ UNCHANGED <<fields, purgatory, loc, result, consumerVars, refreshes>>

TruncateToDone ==
    /\ Go("worker", "clamp", "start")
    /\ highWatermark' = SetMin({highWatermark, leo})
    /\ NotifyWaiters
    /\ appendMu' = "free"
    /\ UNCHANGED <<role, assignment, closed, leo, purgatory, loc, result, polled, refreshes>>

Reconciled ==
    /\ pc["worker"] = "start" /\ assignment.state = "reconciling"
    /\ assignment' = [assignment EXCEPT !.state = "fetching"]
    /\ UNCHANGED <<role, highWatermark, closed, leo, purgatory, appendMu, pc, loc, result, consumerVars, refreshes>>

\* AppendFromLeader of one record, or of none, with the leader's high
\* watermark: oldHW is read first, and the comparisons are with oldHW.
AppendFromLeader(n) ==
    /\ Go("worker", "start", "raise")
    /\ assignment = [state |-> "fetching", epoch |-> leaderEpoch]
    /\ appendMu = "free" /\ ~closed /\ ~isLeader /\ following /\ leo + n <= MaxLEO
    /\ appendMu' = "worker"
    /\ loc' = [loc EXCEPT !["worker"].newHW = highWatermark, !["worker"].moved = n > 0]
    /\ leo' = leo + n
    /\ UNCHANGED <<fields, purgatory, result, consumerVars, refreshes>>

AppendFromLeaderDone(leaderHW) ==
    /\ Go("worker", "raise", "start")
    /\ LET candidate == SetMin({leaderHW, leo}) IN
       highWatermark' = IF candidate > loc["worker"].newHW THEN candidate ELSE highWatermark
    /\ IF loc["worker"].moved \/ highWatermark' # loc["worker"].newHW
       THEN NotifyWaiters ELSE UNCHANGED notified
    /\ Return("worker")
    /\ appendMu' = "free"
    /\ UNCHANGED <<role, assignment, closed, leo, purgatory, result, polled, refreshes>>

-----------------------------------------------------------------------------
(* handleFetch for a consumer: take the channel, then look for records     *)
(* below the high watermark, and wait on the channel if there are none.    *)

TakeChannel ==
    /\ Go("consumer", "start", "read")
    /\ isLeader
    /\ notified' = FALSE
    /\ UNCHANGED <<fields, leo, purgatory, appendMu, loc, result, polled, refreshes>>

\* Records are read up to the high watermark.  An error answers at once.
Read ==
    LET error == ~isLeader \/ closed \/ polled > leo
        found == ~error /\ polled < highWatermark
    IN
    /\ Go("consumer", "read", IF found \/ error THEN "start" ELSE "poll")
    /\ polled' = IF found THEN highWatermark ELSE polled
    /\ notified' = (notified /\ ~found /\ ~error)
    /\ UNCHANGED <<fields, leo, purgatory, appendMu, loc, result, refreshes>>

\* waitForAny: the channel was closed, or the poll's time is up.
Wake ==
    /\ Go("consumer", "poll", "start")
    /\ notified
    /\ notified' = FALSE
    /\ UNCHANGED <<fields, leo, purgatory, appendMu, loc, result, polled, refreshes>>

PollExpires ==
    /\ Go("consumer", "poll", "start")
    /\ ~notified
    /\ UNCHANGED <<fields, leo, purgatory, appendMu, loc, result, consumerVars, refreshes>>

-----------------------------------------------------------------------------
(* Close, when the topic is deleted or the broker shuts down.              *)

CloseBegin ==
    /\ Go("closer", "start", "closing")
    /\ closed' = TRUE
    /\ UNCHANGED <<role, assignment, highWatermark, leo, purgatory, appendMu, loc, result, consumerVars, refreshes>>

CloseDone ==
    /\ Go("closer", "closing", "done")
    /\ appendMu = "free"
    /\ FailPurgatory
    /\ NotifyWaiters
    /\ UNCHANGED <<fields, leo, appendMu, loc, polled, refreshes>>

-----------------------------------------------------------------------------

ProducerStep(p) ==
    AppendRefused(p) \/ AppendToLog(p) \/ PushPurgatory(p) \/ SkipPurgatory(p)
        \/ MaybeAdvanceHW(p) \/ Answered(p)

HandlerStep(h) ==
    \/ \E epoch \in 0 .. MaxEpoch, offset \in 0 .. leo : CheckEpoch(h, epoch, offset)
    \/ CheckOffset(h)
    \/ \E b \in Followers : UpdateFollowerLEO(h, b)
    \/ MaybeAdvanceHW(h)

RefreshStep ==
    \/ \E epoch \in 0 .. MaxEpoch : ReadHW(epoch) \/ MakeFollower(epoch)
    \/ \E members \in {S \in SUBSET Replicas : Self \in S} : MakeLeader(members) \/ UpdateLeaderISR(members)
    \/ MakeLeaderStoreHW \/ MakeLeaderDone \/ MakeLeaderFails
    \/ MakeUnassigned
    \/ FailWaiting
    \/ MaybeAdvanceHW("refresh")
    \/ UpdateLeaderISRDone

WorkerStep ==
    \/ \E offset \in 0 .. leo : TruncateTo(offset)
    \/ TruncateToDone
    \/ Reconciled
    \/ \E n \in {0, 1} : AppendFromLeader(n)
    \/ \E hw \in 0 .. MaxLEO : AppendFromLeaderDone(hw)

ConsumerStep == TakeChannel \/ Read \/ Wake \/ PollExpires

Next ==
    \/ \E p \in Producers : ProducerStep(p) \/ TimeOut(p)
    \/ \E h \in Handlers : HandlerStep(h)
    \/ RefreshStep
    \/ WorkerStep
    \/ ConsumerStep
    \/ CloseBegin \/ CloseDone

Spec == Init /\ [][Next]_vars

-----------------------------------------------------------------------------
(* Properties *)

TypeOK ==
    /\ isLeader \in BOOLEAN /\ following \in BOOLEAN /\ closed \in BOOLEAN
    /\ assignment \in [state : {"none", "reconciling", "fetching"}, epoch : 0 .. MaxEpoch]
    /\ leaderEpoch \in 0 .. MaxEpoch
    /\ DOMAIN isr \subseteq Replicas
    /\ highWatermark \in 0 .. MaxLEO /\ leo \in 0 .. MaxLEO
    /\ purgatory \subseteq Producers
    /\ appendMu \in Threads \cup {"free"}
    /\ DOMAIN pc = Threads /\ DOMAIN loc = Threads
    /\ result \in [Producers -> {"none", "acked", "written", "failed", "timed out"}]
    /\ polled \in 0 .. MaxLEO /\ notified \in BOOLEAN
    /\ refreshes \in 0 .. MaxRefreshes

\* No thread is in the middle of anything that could still wake somebody.
Quiet ==
    /\ \A t \in Producers \cup Handlers : pc[t] \in {"start", "wait", "done"}
    /\ pc["refresh"] \in {"start", "make leader"} /\ pc["worker"] = "start"
    /\ pc["closer"] # "closing"

\* No producer is left behind in the purgatory: when the threads are at rest,
\* those waiting are an open leader's, and the high watermark has not reached their
\* records.  A follower's fetch may pass a record before its producer is in
\* the heap; the producer's own maybeAdvanceHW must then find it.
NoStrandedProducer ==
    Quiet => \A p \in purgatory : isLeader /\ ~closed /\ loc[p].offset > highWatermark

\* No long poll sleeps through an advance of the high watermark.
NoLostWakeup ==
    Quiet /\ isLeader /\ pc["consumer"] = "poll" /\ ~notified => polled >= highWatermark

\* A producer is acknowledged only for a record the high watermark has passed:
\* drainPurgatory works up to and including the high watermark.
AckedMeansCommitted ==
    [][\A p \in Producers : result[p] # "acked" /\ result'[p] = "acked"
            => loc[p].offset <= highWatermark]_vars

\* While a broker leads in one epoch, whichever threads race to move it, its
\* high watermark only grows.
HWMonotoneWhileLeading ==
    [][isLeader /\ isLeader' /\ leaderEpoch' = leaderEpoch => highWatermark' >= highWatermark]_vars

\* A fetch counts for the epoch its request was made in: the leader's view of
\* a follower's log end never comes from a request of another epoch.
FetchCountsInItsEpoch ==
    [][\A h \in Handlers : pc[h] = "update" /\ pc'[h] = "advance" /\ isr' # isr
            => loc[h].epoch = leaderEpoch]_vars
================================================================================
