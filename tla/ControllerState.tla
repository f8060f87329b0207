---------------------------- MODULE ControllerState ----------------------------
(***************************************************************************)
(* The replicated state of the metadata controller and the commands that   *)
(* change it: internal/controller/fsm.go.  A controllerState is a record   *)
(* of three finite maps.  Every command is a pair of operators: XAccepted  *)
(* is the conjunction of the checks after which the code returns an error, *)
(* and ApplyX is the state the code leaves when they all pass.             *)
(*                                                                         *)
(* Replica and ISR lists are sequences, as in the code.  Endpoint lists    *)
(* are sequences in commands.  In the state they are functions from name   *)
(* to host: normalizeEndpoints leaves a list sorted by unique names, which *)
(* is that function and nothing more.                                      *)
(***************************************************************************)
EXTENDS Integers, Sequences, Functions

CONSTANTS
    NoText,     \* the empty string, as a name, a host or an identifier
    Names,      \* the endpoint names brokers send
    Upper       \* Upper[n]: n without surrounding space and in upper case

ASSUME UpperAssumption ==
    /\ Upper \in [Names -> Names]
    /\ \A n \in Names : Upper[Upper[n]] = Upper[n]

Put(f, k, v) == [x \in DOMAIN f \cup {k} |-> IF x = k THEN v ELSE f[x]]

EmptyMap == [x \in {} |-> x]

NewControllerState ==
    [Brokers |-> EmptyMap, Topics |-> {}, Partitions |-> EmptyMap]

-----------------------------------------------------------------------------
(* Brokers *)

\* The checks of normalizeEndpoints.  Port and protocol are data no check
\* here tells apart from a missing host; a blank host is NoText.
EndpointsValid(eps) ==
    /\ eps # <<>>
    /\ \A i \in DOMAIN eps : Upper[eps[i].name] # NoText /\ eps[i].host # NoText
    /\ \A i, j \in DOMAIN eps : Upper[eps[i].name] = Upper[eps[j].name] => i = j

NormalizeEndpoints(eps) ==
    [n \in {Upper[eps[i].name] : i \in DOMAIN eps} |->
        eps[CHOOSE i \in DOMAIN eps : Upper[eps[i].name] = n].host]

BrokerInActivePartition(partitions, id) ==
    \E k \in DOMAIN partitions :
        \/ partitions[k].LeaderBrokerID = id
        \/ id \in Range(partitions[k].ISR)

\* The same incarnation may register again with the same endpoints: a retry
\* of a request whose answer was lost.
IsRetry(s, cmd) ==
    /\ cmd.ID \in DOMAIN s.Brokers
    /\ s.Brokers[cmd.ID].IncarnationID = cmd.IncarnationID

\* Mutant: a new incarnation replaces an active broker.
RegisterBrokerReplaces(s, cmd, logIndex) ==
    /\ cmd.ID >= 0 /\ cmd.IncarnationID # NoText /\ logIndex # 0
    /\ EndpointsValid(cmd.Endpoints)
    /\ IsRetry(s, cmd) => s.Brokers[cmd.ID].Endpoints = NormalizeEndpoints(cmd.Endpoints)

RegisterBrokerAccepted(s, cmd, logIndex) ==
    /\ cmd.ID >= 0
    /\ cmd.IncarnationID # NoText
    /\ logIndex # 0
    /\ EndpointsValid(cmd.Endpoints)
    /\ IF IsRetry(s, cmd)
       THEN s.Brokers[cmd.ID].Endpoints = NormalizeEndpoints(cmd.Endpoints)
       ELSE cmd.ID \in DOMAIN s.Brokers =>
                /\ s.Brokers[cmd.ID].Fenced
                /\ ~BrokerInActivePartition(s.Partitions, cmd.ID)

\* Mutant: a new incarnation inherits the broker epoch of the old one.
RegisterBrokerKeepsEpoch(s, cmd, logIndex) ==
    IF IsRetry(s, cmd) THEN s
    ELSE [s EXCEPT !.Brokers = Put(@, cmd.ID,
            [IncarnationID |-> cmd.IncarnationID,
             BrokerEpoch   |-> IF cmd.ID \in DOMAIN @ THEN @[cmd.ID].BrokerEpoch ELSE logIndex,
             Endpoints     |-> NormalizeEndpoints(cmd.Endpoints),
             Fenced        |-> TRUE])]

ApplyRegisterBroker(s, cmd, logIndex) ==
    IF IsRetry(s, cmd) THEN s
    ELSE [s EXCEPT !.Brokers = Put(@, cmd.ID,
            [IncarnationID |-> cmd.IncarnationID,
             BrokerEpoch   |-> logIndex,
             Endpoints     |-> NormalizeEndpoints(cmd.Endpoints),
             Fenced        |-> TRUE])]

UnfenceBrokerAccepted(s, cmd) ==
    /\ cmd.BrokerID \in DOMAIN s.Brokers
    /\ s.Brokers[cmd.BrokerID].BrokerEpoch = cmd.BrokerEpoch

ApplyUnfenceBroker(s, cmd) ==
    [s EXCEPT !.Brokers[cmd.BrokerID].Fenced = FALSE]

-----------------------------------------------------------------------------
(* Topics and partitions *)

ValidPartitionSpec(brokers, leader, replicas, isr) ==
    /\ replicas # <<>>
    /\ IsInjective(replicas)
    /\ Range(replicas) \subseteq DOMAIN brokers
    /\ leader \in Range(replicas)
    /\ IsInjective(isr)
    /\ Range(isr) \subseteq Range(replicas)
    /\ \A m \in Range(isr) : ~brokers[m].Fenced
    /\ leader \in Range(isr)

CreateTopicAccepted(s, cmd) ==
    /\ cmd.Topic # NoText
    /\ cmd.Partitions # <<>>
    /\ cmd.Topic \notin s.Topics
    /\ \A i \in DOMAIN cmd.Partitions :
          LET spec == cmd.Partitions[i] IN
          ValidPartitionSpec(s.Brokers, spec.LeaderBrokerID, spec.Replicas, spec.ISR)
    \* Non-negative, no duplicate, contiguous from 0.
    /\ {cmd.Partitions[i].Partition : i \in DOMAIN cmd.Partitions}
          = 0 .. Len(cmd.Partitions) - 1

ApplyCreateTopic(s, cmd) ==
    LET keys == {<<cmd.Topic, cmd.Partitions[i].Partition>> : i \in DOMAIN cmd.Partitions}
        specOf(k) == cmd.Partitions[CHOOSE i \in DOMAIN cmd.Partitions :
                                        cmd.Partitions[i].Partition = k[2]]
    IN  [s EXCEPT
           !.Topics = @ \cup {cmd.Topic},
           !.Partitions = [k \in DOMAIN @ \cup keys |->
               IF k \in keys
               THEN [LeaderBrokerID |-> specOf(k).LeaderBrokerID,
                     LeaderEpoch    |-> 0,
                     PartitionEpoch |-> 0,
                     Replicas       |-> specOf(k).Replicas,
                     ISR            |-> specOf(k).ISR]
               ELSE @[k]]]

UpdatePartitionAccepted(s, cmd) ==
    LET key == <<cmd.Topic, cmd.Partition>> IN
    /\ key \in DOMAIN s.Partitions
    /\ LET current == s.Partitions[key] IN
       /\ cmd.ExpectedPartitionEpoch = current.PartitionEpoch
       /\ ValidPartitionSpec(s.Brokers, cmd.LeaderBrokerID, cmd.Replicas, cmd.ISR)
       /\ \/ cmd.LeaderBrokerID = current.LeaderBrokerID
          \/ cmd.LeaderBrokerID \in Range(current.ISR)
          \/ cmd.AllowUncleanElection

\* Mutants: one of the two epochs is not counted.
UpdatedSamePartitionEpoch(current, cmd) ==
    [current EXCEPT !.LeaderBrokerID = cmd.LeaderBrokerID,
                    !.LeaderEpoch = IF cmd.LeaderBrokerID # current.LeaderBrokerID THEN @ + 1 ELSE @,
                    !.Replicas = cmd.Replicas, !.ISR = cmd.ISR]

UpdatedSameLeaderEpoch(current, cmd) ==
    [current EXCEPT !.LeaderBrokerID = cmd.LeaderBrokerID, !.PartitionEpoch = @ + 1,
                    !.Replicas = cmd.Replicas, !.ISR = cmd.ISR]

\* The partition state an accepted update leaves: the leader epoch counts
\* leader changes, the partition epoch counts updates.
UpdatedPartition(current, cmd) ==
    [LeaderBrokerID |-> cmd.LeaderBrokerID,
     LeaderEpoch    |-> IF cmd.LeaderBrokerID # current.LeaderBrokerID
                        THEN current.LeaderEpoch + 1 ELSE current.LeaderEpoch,
     PartitionEpoch |-> current.PartitionEpoch + 1,
     Replicas       |-> cmd.Replicas,
     ISR            |-> cmd.ISR]

ApplyUpdatePartition(s, cmd) ==
    [s EXCEPT !.Partitions[<<cmd.Topic, cmd.Partition>>] = UpdatedPartition(@, cmd)]

-----------------------------------------------------------------------------
(* One committed command, and snapshots *)

Accepted(s, cmd, logIndex) ==
    \/ cmd.type = "RegisterBroker"  /\ RegisterBrokerAccepted(s, cmd, logIndex)
    \/ cmd.type = "UnfenceBroker"   /\ UnfenceBrokerAccepted(s, cmd)
    \/ cmd.type = "CreateTopic"     /\ CreateTopicAccepted(s, cmd)
    \/ cmd.type = "UpdatePartition" /\ UpdatePartitionAccepted(s, cmd)

\* Apply: a rejected command is a log entry that changes nothing.
Apply(s, cmd, logIndex) ==
    IF ~Accepted(s, cmd, logIndex) THEN s
    ELSE CASE cmd.type = "RegisterBroker"  -> ApplyRegisterBroker(s, cmd, logIndex)
           [] cmd.type = "UnfenceBroker"   -> ApplyUnfenceBroker(s, cmd)
           [] cmd.type = "CreateTopic"     -> ApplyCreateTopic(s, cmd)
           [] cmd.type = "UpdatePartition" -> ApplyUpdatePartition(s, cmd)

\* Mutant: the snapshot does not say which brokers are fenced.
SnapshotWithoutFencing(s) ==
    [s EXCEPT !.Brokers = [id \in DOMAIN @ |-> [@[id] EXCEPT !.Fenced = FALSE]]]

\* Persist writes the three maps as lists in key order.  The lists of a state
\* and the state determine each other, so a snapshot is a copy of the state.
ToSnapshotData(s) == s

\* The checks of fromSnapshotData, which normalizes endpoints once more: names
\* in normal form stay as they are.
BrokerRestorable(id, b) ==
    /\ id >= 0
    /\ b.IncarnationID # NoText
    /\ b.BrokerEpoch # 0
    /\ DOMAIN b.Endpoints # {}
    /\ \A n \in DOMAIN b.Endpoints : Upper[n] = n /\ n # NoText /\ b.Endpoints[n] # NoText

PartitionRestorable(brokers, topics, k, p) ==
    /\ k[2] >= 0
    /\ k[1] # NoText
    /\ k[1] \in topics
    /\ p.LeaderEpoch >= 0 /\ p.PartitionEpoch >= 0
    /\ ValidPartitionSpec(brokers, p.LeaderBrokerID, p.Replicas, p.ISR)

\* The partitions of a topic are numbered from 0 without a gap.
TopicRestorable(t, keys) ==
    LET ids == {k[2] : k \in {kk \in keys : kk[1] = t}}
    IN  t # NoText /\ ids # {} /\ \A i \in ids : 0 .. i \subseteq ids

\* Restore replaces the state by the data if all of it passes.  Duplicate entries
\* cannot occur in a list written from a map.
RestoreAccepted(data) ==
    /\ \A id \in DOMAIN data.Brokers : BrokerRestorable(id, data.Brokers[id])
    /\ \A k \in DOMAIN data.Partitions :
          PartitionRestorable(data.Brokers, data.Topics, k, data.Partitions[k])
    /\ \A t \in data.Topics : TopicRestorable(t, DOMAIN data.Partitions)
================================================================================
