--------------------------- MODULE BrokerLifecycle ---------------------------
(***************************************************************************)
(* A broker over several lives: it starts from its data directory,         *)
(* registers, takes the roles the controller gives it, crashes and starts  *)
(* again.  Composes TopicManager with the commands of ControllerState,     *)
(* through internal/broker/broker.go, leader_adapter.go and the metadata   *)
(* handler.  Start and the manager's loop call Reconcile from one thread   *)
(* at a time, which Broker shows; here it is one thread.                   *)
(*                                                                         *)
(* Without a controller the broker serves at once, and the only way to a   *)
(* role is CreateTopic.                                                    *)
(***************************************************************************)
EXTENDS TopicManager, ControllerState

CONSTANTS
    Modes,          \* TRUE: with a controller; FALSE: standalone
    Other,          \* the ID of the other broker
    Clients,        \* threads that handle metadata requests
    NoTopic,
    MaxIncarnations,    \* bound: starts of the process
    MaxUpdates      \* bound: updates of one partition

ASSUME BrokerLifecycleAssumption == Modes \subseteq BOOLEAN /\ Other \in Nat

VARIABLES
    controlled,     \* b.config.Controller # nil
    ctrl,           \* the controller's state
    proc,           \* next step of Start, "running" or "down"
    incarnation,    \* b.incarnationID, counted
    pass,           \* the call of Reconcile: what it read and has still to do
    brokerEpoch,    \* info.BrokerEpoch, read back after registering
    creating        \* the topic a metadata request is about to create

topicVars == <<tm, fault, deleting>>
vars == <<topicVars, controlled, ctrl, proc, incarnation, pass, brokerEpoch,
          creating>>

TypeOK ==
    /\ TopicManagerTypeOK
    /\ proc \in {"down", "register", "reconcile", "fetch", "unfence", "running",
                 "failed"}
    /\ creating \in [Clients -> TopicNames \cup {NoTopic}]
    /\ proc = "down" => tm = NoTopics(tm.disk)

\* One endpoint, PLAINTEXT, whose name is in normal form.
Endpoints == <<[name |-> CHOOSE n \in Names : Upper[n] = n, host |-> 1]>>

NoPass == [running |-> FALSE, left |-> {}, metadata |-> EmptyMap]

AsWritten == [n \in Names |-> n]

\* The other broker is active.
Init ==
    /\ tm = NoTopics({})
    /\ fault = [k \in Keys |-> "none"]
    /\ deleting = {}
    /\ controlled \in Modes
    /\ ctrl = [NewControllerState EXCEPT !.Brokers = Put(@, Other,
                  [IncarnationID |-> 1, BrokerEpoch |-> 1, Fenced |-> FALSE,
                   Endpoints |-> NormalizeEndpoints(Endpoints)])]
    /\ proc = "down"
    /\ incarnation = 0
    /\ pass = NoPass
    /\ brokerEpoch = 0
    /\ creating = [c \in Clients |-> NoTopic]

-----------------------------------------------------------------------------
(* The process.                                                            *)

\* NewBroker: the topics are recovered and a new incarnation ID is drawn.
NewBroker ==
    /\ proc = "down"
    /\ incarnation < MaxIncarnations
    /\ incarnation' = incarnation + 1
    /\ tm' = RecoverFromDisk(tm.disk)
    /\ proc' = IF controlled THEN "register" ELSE "running"
    /\ UNCHANGED <<fault, deleting, controlled, ctrl, pass, brokerEpoch, creating>>

EndPass == pass' = NoPass

\* The process is gone, with all it had in memory.  Shutdown closes the topics
\* and leaves the directories the same.
Exit ==
    /\ proc' = "down"
    /\ tm' = NoTopics(tm.disk)
    /\ deleting' = {}
    /\ creating' = [c \in Clients |-> NoTopic]
    /\ brokerEpoch' = 0
    /\ EndPass

Crash ==
    /\ proc # "down"
    /\ Exit
    /\ UNCHANGED <<fault, controlled, ctrl, incarnation>>

\* The log index of a command only grows: the incarnation's number stands for it.
\* An error after which nobody knows whether the command was applied ends Start.
SendCommand(cmd, next) ==
    \/ /\ Accepted(ctrl, cmd, incarnation)
       /\ ctrl' = Apply(ctrl, cmd, incarnation)
       /\ \/ next /\ UNCHANGED <<tm, deleting, pass, creating>>
          \/ Exit
    \/ Exit /\ UNCHANGED ctrl

\* RegisterBroker, then Broker(id).
Register ==
    /\ proc = "register"
    /\ SendCommand([type |-> "RegisterBroker", ID |-> Self,
                    IncarnationID |-> incarnation, Endpoints |-> Endpoints],
                   /\ proc' = "reconcile"
                   /\ brokerEpoch' = ctrl'.Brokers[Self].BrokerEpoch)
    /\ UNCHANGED <<fault, controlled, incarnation>>

\* The partitions this broker replicates.
PartitionsForBroker ==
    {k \in Keys : k \in DOMAIN ctrl.Partitions /\ Self \in Range(ctrl.Partitions[k].Replicas)}

\* Start calls Reconcile, and so do the fetch manager when it starts and then its
\* loop.  The metadata are read once; the loop goes through them under tm.mu.
BeginReconcile ==
    /\ proc \in {"reconcile", "fetch", "running"}
    /\ controlled
    /\ ~pass.running
    /\ LET metadata == [k \in PartitionsForBroker |-> ctrl.Partitions[k]]
       IN  /\ pass' = [running |-> TRUE, left |-> PartitionsForBroker, metadata |-> metadata]
           /\ tm' = DropUndesired(tm, metadata)
    /\ UNCHANGED <<fault, deleting, controlled, ctrl, proc, incarnation, brokerEpoch,
                   creating>>

\* The next partition in the order that sortPartitionMetadata makes.
ReconcileNext ==
    /\ pass.running
    /\ \E k \in pass.left :
          /\ \A j \in pass.left : ~Before(j, k)
          /\ tm' = ReconcileOne(tm, k, pass.metadata[k])
          /\ IF ReconcileSucceeds(tm, k, pass.metadata[k])
             THEN pass' = [pass EXCEPT !.left = @ \ {k}] /\ UNCHANGED proc
             ELSE EndPass /\ proc' = IF proc = "running" THEN proc ELSE "failed"
    /\ UNCHANGED <<fault, deleting, controlled, ctrl, incarnation, brokerEpoch, creating>>

ReconcileReturns ==
    /\ pass.running /\ pass.left = {}
    /\ EndPass
    /\ proc' = CASE proc = "reconcile" -> "fetch"
                 [] proc = "fetch"     -> "unfence"
                 [] proc = "running"   -> "running"
    /\ UNCHANGED <<topicVars, controlled, ctrl, incarnation, brokerEpoch, creating>>

ReconcileStep == BeginReconcile \/ ReconcileNext \/ ReconcileReturns

\* An error of UnfenceBroker is logged.
UnfenceIgnored ==
    /\ proc = "unfence"
    /\ proc' = "running"
    /\ ctrl' \in {ctrl, Apply(ctrl, [type |-> "UnfenceBroker", BrokerID |-> Self,
                                     BrokerEpoch |-> brokerEpoch], incarnation)}
    /\ UNCHANGED <<topicVars, controlled, incarnation, pass, brokerEpoch, creating>>

\* UnfenceBroker, then go Serve.
Unfence ==
    /\ proc = "unfence"
    /\ SendCommand([type |-> "UnfenceBroker", BrokerID |-> Self,
                    BrokerEpoch |-> brokerEpoch],
                   proc' = "running" /\ UNCHANGED brokerEpoch)
    /\ UNCHANGED <<fault, controlled, incarnation>>

-----------------------------------------------------------------------------
(* The controller's other commands.                                        *)

Specs ==
    [LeaderBrokerID : {Self, Other}, Replicas : {<<Other>>, <<Self, Other>>},
     ISR : {<<Self>>, <<Other>>, <<Self, Other>>}]

CreateControllerTopic ==
    /\ controlled
    /\ \E t \in TopicNames, spec \in Specs, n \in 1 .. MaxPartitions :
          LET part(i) == [Partition |-> i - 1, LeaderBrokerID |-> spec.LeaderBrokerID,
                          Replicas |-> spec.Replicas, ISR |-> spec.ISR]
              cmd == [type |-> "CreateTopic", Topic |-> t,
                      Partitions |-> [i \in 1 .. n |-> part(i)]]
          IN  Accepted(ctrl, cmd, incarnation) /\ ctrl' = Apply(ctrl, cmd, incarnation)
    /\ UNCHANGED <<topicVars, controlled, proc, incarnation, pass, brokerEpoch, creating>>

UpdatePartition ==
    /\ \E k \in DOMAIN ctrl.Partitions, spec \in Specs :
          LET cmd == [type |-> "UpdatePartition", Topic |-> k[1], Partition |-> k[2],
                      ExpectedPartitionEpoch |-> ctrl.Partitions[k].PartitionEpoch,
                      LeaderBrokerID |-> spec.LeaderBrokerID, Replicas |-> spec.Replicas,
                      ISR |-> spec.ISR, AllowUncleanElection |-> TRUE]
          IN  /\ ctrl.Partitions[k].PartitionEpoch < MaxUpdates
              /\ Accepted(ctrl, cmd, incarnation)
              /\ ctrl' = Apply(ctrl, cmd, incarnation)
    /\ UNCHANGED <<topicVars, controlled, proc, incarnation, pass, brokerEpoch, creating>>

-----------------------------------------------------------------------------
(* A standalone broker.                                                    *)

Serving == ~controlled /\ proc = "running"

OnlyTopics == UNCHANGED <<controlled, ctrl, proc, incarnation, pass, brokerEpoch>>

\* handleMetadata looks for partition 0 of an unknown topic ...
AskMetadata(c, t) ==
    /\ Serving
    /\ creating[c] = NoTopic
    /\ tm.topics[t] = <<>>
    /\ creating' = [creating EXCEPT ![c] = t]
    /\ OnlyTopics /\ UNCHANGED topicVars

\* ... and calls CreateTopic, which by then may find the topic there.  An error is
\* logged; the rest of the handler reads.
AutoCreate(c) ==
    /\ Serving
    /\ creating[c] # NoTopic
    /\ tm' = CreateTopic(creating[c], 1)
    /\ creating' = [creating EXCEPT ![c] = NoTopic]
    /\ OnlyTopics /\ UNCHANGED <<fault, deleting>>

\* The program around the broker may call the manager it exports.
CallTopicManager ==
    /\ Serving
    /\ \/ \E t \in TopicNames : tm' = CreateTopic(t, MaxPartitions) /\ UNCHANGED <<fault, deleting>>
       \/ \E t \in TopicNames : DeleteTopic(t)
       \/ DeletePartition
    /\ OnlyTopics /\ UNCHANGED creating

Disturb ==
    /\ ChangeFaults
    /\ OnlyTopics /\ UNCHANGED creating

Next ==
    \/ NewBroker \/ Crash \/ Register \/ ReconcileStep \/ Unfence
    \/ CreateControllerTopic \/ UpdatePartition
    \/ \E c \in Clients : AutoCreate(c) \/ \E t \in TopicNames : AskMetadata(c, t)
    \/ CallTopicManager
    \/ Disturb

\* The manager's loop ticks; commands, faults and crashes may come or not.
Spec == Init /\ [][Next]_vars /\ WF_vars(ReconcileStep)

-----------------------------------------------------------------------------
\* Every open log belongs to one partition of the map, or to a topic that is
\* being deleted: no failed operation leaks one, and two requests that create
\* the same topic do not open its directory twice (topic_manager.go:201-256).
OpenLogsAccountedFor ==
    \A k \in Keys :
        tm.opened[k] = (IF SlotOf(tm, k) # NoLog THEN 1 ELSE 0)
                       + (IF k \in deleting THEN 1 ELSE 0)

\* A broker leads, or follows, only as the controller said in that epoch: its
\* role may be old, never invented, whatever Reconcile left undone when it
\* failed (topic_manager.go:120-187).
RolesComeFromController ==
    controlled => \A k \in Keys :
        LET slot == SlotOf(tm, k) IN
        slot # NoLog /\ slot.leader # NoLeader =>
            /\ k \in DOMAIN ctrl.Partitions
            /\ slot.epoch <= ctrl.Partitions[k].LeaderEpoch
            /\ slot.epoch = ctrl.Partitions[k].LeaderEpoch
                  => slot.leader = ctrl.Partitions[k].LeaderBrokerID

\* A broker with a controller serves only under its own registration: the one
\* the controller has is this incarnation's, and unfenced (broker.go:107-147).
ServesAsRegistered ==
    controlled /\ proc = "running" =>
        /\ ctrl.Brokers[Self].IncarnationID = incarnation
        /\ ctrl.Brokers[Self].BrokerEpoch = brokerEpoch
        /\ ~ctrl.Brokers[Self].Fenced

\* A partition that cannot be opened or led holds up only those after it in the
\* order of names and numbers: if from some time on the broker runs, the
\* metadata rest and everything up to k works, k gets its role.
EarlierPartitionsServed ==
    \A k \in Keys :
        <>[](/\ controlled /\ proc = "running" /\ k \in PartitionsForBroker
             /\ \A j \in Keys : ~Before(k, j) => fault[j] = "none")
            => <>[](LET slot == SlotOf(tm, k) IN
                    /\ slot # NoLog /\ k \in DOMAIN ctrl.Partitions
                    /\ slot.leader = ctrl.Partitions[k].LeaderBrokerID
                    /\ slot.epoch = ctrl.Partitions[k].LeaderEpoch)

\* A partition that is taken from this broker stops being served, even if
\* Reconcile never comes to its end (topic_manager.go:131-144).
RemovedStopsServing ==
    \A k \in Keys :
        <>[](controlled /\ proc = "running" /\ k \notin PartitionsForBroker)
            => <>[](SlotOf(tm, k) # NoLog => SlotOf(tm, k).leader = NoLeader)

\* A partition that a standalone broker has stored and can open is one that it
\* serves, as its leader.
StandaloneServes ==
    Serving => \A k \in Keys : SlotOf(tm, k) # NoLog => SlotOf(tm, k).leader = Self
=============================================================================
