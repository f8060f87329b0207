--------------------------- MODULE MCControllerNode ---------------------------
EXTENDS ControllerNode, TLC

MCUpper == [n \in Names |-> "PLAINTEXT"]

Host == <<[name |-> "PLAINTEXT", host |-> "h1"]>>
HostLower == <<[name |-> "plaintext", host |-> "h1"]>>
HostTwice == Host \o HostLower
OtherHost == <<[name |-> "PLAINTEXT", host |-> "h2"]>>

Register(id, inc, eps) ==
    [type |-> "RegisterBroker", ID |-> id, IncarnationID |-> inc, Endpoints |-> eps]
Unfence(id, epoch) ==
    [type |-> "UnfenceBroker", BrokerID |-> id, BrokerEpoch |-> epoch]
Create(topic, specs) == [type |-> "CreateTopic", Topic |-> topic, Partitions |-> specs]
PartitionSpec(p, leader, replicas, isr) ==
    [Partition |-> p, LeaderBrokerID |-> leader, Replicas |-> replicas, ISR |-> isr]
Update(epoch, leader, replicas, isr, unclean) ==
    [type |-> "UpdatePartition", Topic |-> "t", Partition |-> 0,
     ExpectedPartitionEpoch |-> epoch, LeaderBrokerID |-> leader,
     Replicas |-> replicas, ISR |-> isr, AllowUncleanElection |-> unclean]

\* Broker 1 is active, broker 2 registered but still fenced.
Bootstrap == <<Register(1, "a", Host), Unfence(1, 1), Register(2, "a", HostLower)>>

BootState[i \in 0 .. Len(Bootstrap)] ==
    IF i = 0 THEN NewControllerState ELSE Apply(BootState[i - 1], Bootstrap[i], i)

\* The runs start in the state Spec reaches once every node has applied and
\* snapshotted the bootstrap commands.
MCInit ==
    LET n0 == Len(Bootstrap) IN
    /\ log = Bootstrap
    /\ hist = BootState
    /\ up = [n \in Nodes |-> TRUE]
    /\ fsm = [n \in Nodes |-> BootState[n0]]
    /\ applied = [n \in Nodes |-> n0]
    /\ snap = [n \in Nodes |-> [index |-> n0, data |-> ToSnapshotData(BootState[n0])]]

MCSpec == MCInit /\ [][Next]_vars

MCCommands ==
    Range(Bootstrap)
    \cup {Register(1, "b", Host), Register(2, "a", OtherHost),
          Register(2, "b", Host), Register(2, "b", HostTwice)}
    \cup {Unfence(2, 3), Unfence(2, 4)}
    \cup {Create("t", <<PartitionSpec(0, 1, <<1, 2>>, <<1>>)>>),
          Create("t", <<PartitionSpec(0, 1, <<1, 2>>, <<1, 2>>)>>),
          Create("t", <<PartitionSpec(1, 1, <<1>>, <<1>>)>>)}
    \cup {Update(0, 1, <<1>>, <<1>>, FALSE),
          Update(0, 2, <<1, 2>>, <<1, 2>>, FALSE),
          Update(0, 2, <<2>>, <<2>>, TRUE),
          Update(1, 1, <<1, 2>>, <<1, 2>>, FALSE)}

Symmetry == Permutations(Nodes)
================================================================================
