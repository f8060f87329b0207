---------------------------- MODULE TopicManager ----------------------------
(***************************************************************************)
(* internal/broker/topic_manager.go: the topics of one broker, the         *)
(* directories behind them and the logs it holds open.  An operation runs  *)
(* under tm.mu and is an operator on the manager's state; DeleteTopic      *)
(* alone goes on after it has released the lock.                           *)
(*                                                                         *)
(* A partition is a role and an open log.  What the log holds is modelled  *)
(* in SegmentedLog, what a role change does to waiting threads in          *)
(* Partition.  A topic that is not in the map has no slots: a topic in the *)
(* map always has one.                                                     *)
(***************************************************************************)
EXTENDS Integers, Sequences

CONSTANTS
    NumTopics,      \* topics, numbered in the order of their names
    MaxPartitions,  \* bound: partitions of one topic
    Self,           \* the ID of this broker
    NoLog           \* the slot of a partition whose log is not open

ASSUME TopicManagerAssumption ==
    /\ NumTopics \in Nat /\ MaxPartitions \in Nat \ {0} /\ Self \in Nat
    /\ NoLog \notin [leader : Int, epoch : Nat, isr : Seq(Nat)]

NoLeader == -1

TopicNames == 1 .. NumTopics

Keys == TopicNames \X (0 .. MaxPartitions - 1)

\* Partitions by topic, then by number.
Before(j, k) == j[1] < k[1] \/ (j[1] = k[1] /\ j[2] < k[2])

VARIABLES
    tm,             \* the manager: disk, the directories in the data directory;
                    \* topics, the slots of each topic; opened, how many times
                    \* each directory's log is open
    fault,          \* fault[k]: what fails now in the directory of k
    deleting        \* the DeleteTopic that has released the lock, by the
                    \* partitions it has still to close and remove

Slots == [leader : {NoLeader} \cup Nat, epoch : Nat, isr : Seq(Nat)] \cup {NoLog}

TopicManagerTypeOK ==
    /\ tm.disk \subseteq Keys
    /\ \A t \in TopicNames : Len(tm.topics[t]) <= MaxPartitions
    /\ \A t \in TopicNames : \A i \in DOMAIN tm.topics[t] : tm.topics[t][i] \in Slots
    /\ tm.opened \in [Keys -> Nat]
    /\ fault \in [Keys -> {"none", "open", "epoch"}]
    /\ deleting \subseteq Keys

NoTopics(disk) ==
    [disk |-> disk, topics |-> [t \in TopicNames |-> <<>>],
     opened |-> [k \in Keys |-> 0]]

\* NewPartition.
Unassigned == [leader |-> NoLeader, epoch |-> 0, isr |-> <<>>]

SlotOf(m, k) ==
    IF k[2] + 1 \in DOMAIN m.topics[k[1]] THEN m.topics[k[1]][k[2] + 1] ELSE NoLog

SetSlot(m, k, slot) == [m EXCEPT !.topics[k[1]][k[2] + 1] = slot]

\* Storage fails in one directory at a time.
Faults ==
    {[k \in Keys |-> "none"]} \cup
    {[k \in Keys |-> IF k = bad THEN f ELSE "none"] :
        bad \in Keys, f \in {"open", "epoch"}}

ChangeFaults == fault' \in Faults \ {fault} /\ UNCHANGED <<tm, deleting>>

-----------------------------------------------------------------------------
(* Logs and roles.                                                         *)

CanOpen(k) == fault[k] # "open"

\* log.NewLog: the directory comes first, and stays when the rest fails.
NewLog(m, k) ==
    [m EXCEPT !.disk = @ \cup {k},
              !.opened[k] = IF CanOpen(k) THEN @ + 1 ELSE @]

\* MakeLeader.  A new epoch is written before the role is taken: if that fails
\* the role is given up.
CanLead(k) == fault[k] # "epoch"

Leading(slot, k, epoch, isr) ==
    IF CanLead(k)
    THEN [leader |-> Self, epoch |-> epoch, isr |-> isr]
    ELSE [slot EXCEPT !.leader = NoLeader, !.isr = <<>>]

\* MakeFollower that leaves isLeader as it was.
MakeFollowerLeads(epoch, leader) == [leader |-> Self, epoch |-> epoch, isr |-> <<>>]

MakeFollower(epoch, leader) == [leader |-> leader, epoch |-> epoch, isr |-> <<>>]

MakeUnassigned(slot) == [slot EXCEPT !.leader = NoLeader, !.isr = <<>>]

-----------------------------------------------------------------------------
(* recoverFromDisk and Close.                                              *)

\* A topic gets slots up to its largest partition ID.  These stay below the 10000
\* above which a topic is skipped.
RecoverFromDisk(disk) ==
    LET found(k) == k \in disk /\ CanOpen(k)
        places(t) == {i \in 1 .. MaxPartitions : \E k \in disk : k[1] = t /\ i <= k[2] + 1}
    IN  [disk |-> disk,
         topics |-> [t \in TopicNames |-> [i \in places(t) |->
                        IF found(<<t, i - 1>>) THEN Unassigned ELSE NoLog]],
         opened |-> [k \in Keys |-> IF found(k) THEN 1 ELSE 0]]

-----------------------------------------------------------------------------
(* Reconcile: its first loop, given the controller's metadata for the      *)
(* partitions this broker replicates, and one turn of its second.          *)

\* Reconcile without its first loop.
DropNothing(m, metadata) == m

\* Partitions that are not assigned any more lose their role and keep their data.
DropUndesired(m, metadata) ==
    [m EXCEPT !.topics = [t \in TopicNames |-> [i \in DOMAIN m.topics[t] |->
        LET slot == m.topics[t][i] IN
        IF slot # NoLog /\ <<t, i - 1>> \notin DOMAIN metadata
        THEN MakeUnassigned(slot) ELSE slot]]]

\* The topic gets as many slots as the partition's number needs.
Grow(m, k) ==
    [m EXCEPT !.topics[k[1]] =
        [i \in DOMAIN @ \cup 1 .. k[2] + 1 |-> IF i \in DOMAIN @ THEN @[i] ELSE NoLog]]

LeadsAt(slot, pm) == slot.leader = Self /\ slot.epoch = pm.LeaderEpoch

AssignRole(slot, k, pm) ==
    IF pm.LeaderBrokerID # Self
    THEN MakeFollower(pm.LeaderEpoch, pm.LeaderBrokerID)
    ELSE IF LeadsAt(slot, pm)
    THEN [slot EXCEPT !.isr = pm.ISR]
    ELSE Leading(slot, k, pm.LeaderEpoch, pm.ISR)

\* A slot that is there but not open is not tried again.
OpenSlotOnce(m, k) ==
    IF k[2] + 1 \in DOMAIN m.topics[k[1]] THEN m
    ELSE IF CanOpen(k) THEN SetSlot(NewLog(Grow(m, k), k), k, Unassigned)
    ELSE NewLog(Grow(m, k), k)

\* The log is opened if it is not.
OpenSlot(m, k) ==
    LET grown == Grow(m, k) IN
    IF SlotOf(grown, k) # NoLog THEN grown
    ELSE IF CanOpen(k) THEN SetSlot(NewLog(grown, k), k, Unassigned)
    ELSE NewLog(grown, k)

\* One turn of the loop, and whether it succeeds: the first error ends the loop.
ReconcileOne(m, k, pm) ==
    LET open == OpenSlot(m, k) IN
    IF SlotOf(open, k) = NoLog THEN open
    ELSE SetSlot(open, k, AssignRole(SlotOf(open, k), k, pm))

ReconcileSucceeds(m, k, pm) ==
    /\ SlotOf(m, k) = NoLog => CanOpen(k)
    /\ \/ pm.LeaderBrokerID # Self
       \/ SlotOf(m, k) # NoLog /\ LeadsAt(SlotOf(m, k), pm)
       \/ CanLead(k)

-----------------------------------------------------------------------------
(* CreateTopic and DeleteTopic.                                            *)

\* CreateTopic without its look at the map.
CreateTopicAgain(t, n) ==
    LET keys == {t} \X (0 .. n - 1) IN
    [disk   |-> tm.disk \cup keys,
     topics |-> [tm.topics EXCEPT ![t] =
                   [i \in 1 .. n |-> Leading(Unassigned, <<t, i - 1>>, 1, <<Self>>)]],
     opened |-> [k \in Keys |-> tm.opened[k] + IF k \in keys THEN 1 ELSE 0]]

\* With initialLeader.  The partitions made before the one that fails are closed
\* and removed; the failed one is removed only if its log could be opened.
CreateTopic(t, n) ==
    LET keys == {t} \X (0 .. n - 1)
        failed == {k \in keys : ~CanOpen(k) \/ ~CanLead(k)}
        bad == CHOOSE k \in failed : \A j \in failed : k[2] <= j[2]
        removed == {k \in keys : k[2] < bad[2] \/ (k = bad /\ CanOpen(k))}
    IN  IF tm.topics[t] # <<>> THEN tm
        ELSE IF failed = {}
        THEN [disk   |-> tm.disk \cup keys,
              topics |-> [tm.topics EXCEPT ![t] =
                            [i \in 1 .. n |-> Leading(Unassigned, <<t, i - 1>>, 1, <<Self>>)]],
              opened |-> [k \in Keys |-> tm.opened[k] + IF k \in keys THEN 1 ELSE 0]]
        ELSE [NewLog(tm, bad) EXCEPT !.disk = @ \ removed, !.opened = tm.opened]

\* Under the lock the topic leaves the map.
DeleteTopic(t) ==
    /\ deleting = {}
    /\ tm.topics[t] # <<>>
    /\ deleting' = {k \in Keys : k[1] = t /\ SlotOf(tm, k) # NoLog}
    /\ tm' = [tm EXCEPT !.topics[t] = <<>>]
    /\ UNCHANGED fault

\* Without the lock its partitions are closed and removed, the lowest first.
\* Whoever opens the directory in the meantime has it removed underneath.
DeletePartition ==
    \E k \in deleting :
        /\ \A j \in deleting : k[2] <= j[2]
        /\ deleting' = deleting \ {k}
        /\ tm' = [tm EXCEPT !.opened[k] = @ - 1, !.disk = @ \ {k}]
        /\ UNCHANGED fault
=============================================================================
