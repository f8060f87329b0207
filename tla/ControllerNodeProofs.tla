------------------------- MODULE ControllerNodeProofs -------------------------
(***************************************************************************)
(* Proofs about the controller cluster, for every set of nodes, every set  *)
(* of commands and every length of the log.                                *)
(***************************************************************************)
EXTENDS ControllerNode, TLAPS

(***************************************************************************)
(* What every state reached by applying commands satisfies: the checks of  *)
(* fromSnapshotData, and the shape of the Go structs.                      *)
(***************************************************************************)
BrokerShape(b) == DOMAIN b = {"IncarnationID", "BrokerEpoch", "Endpoints", "Fenced"}

Shape(s) ==
    /\ DOMAIN s = {"Brokers", "Topics", "Partitions"}
    /\ \A id \in DOMAIN s.Brokers : BrokerShape(s.Brokers[id])
    /\ \A k \in DOMAIN s.Partitions :
          s.Partitions[k].LeaderEpoch \in Nat /\ s.Partitions[k].PartitionEpoch \in Nat

Good(s) == Shape(s) /\ RestoreAccepted(s)

\* Endpoints and partitions of a command are lists, and names are names.
ListsOf(cmd) ==
    /\ cmd.type = "RegisterBroker" =>
          /\ cmd.Endpoints \in Seq(Range(cmd.Endpoints))
          /\ \A i \in DOMAIN cmd.Endpoints : cmd.Endpoints[i].name \in Names
    /\ cmd.type = "CreateTopic" => cmd.Partitions \in Seq(Range(cmd.Partitions))

\* A new ControllerFSM holds a state that can be restored.
LEMMA NewIsGood == Good(NewControllerState)
  BY DEF Good, Shape, RestoreAccepted, NewControllerState, EmptyMap

(***************************************************************************)
(* Each accepted command leaves a state that can be restored.              *)
(***************************************************************************)

\* normalizeEndpoints leaves what fromSnapshotData will take.
LEMMA NormalizedRestorable ==
  ASSUME NEW eps, EndpointsValid(eps), eps \in Seq(Range(eps)),
         \A i \in DOMAIN eps : eps[i].name \in Names
  PROVE  /\ DOMAIN NormalizeEndpoints(eps) # {}
         /\ \A n \in DOMAIN NormalizeEndpoints(eps) :
               Upper[n] = n /\ n # NoText /\ NormalizeEndpoints(eps)[n] # NoText
<1> DEFINE E == NormalizeEndpoints(eps)
<1>1. DOMAIN E = {Upper[eps[i].name] : i \in DOMAIN eps}
  BY DEF NormalizeEndpoints
<1>2. DOMAIN eps # {}
  BY DEF EndpointsValid
<1>3. ASSUME NEW n \in DOMAIN E PROVE Upper[n] = n /\ n # NoText /\ E[n] # NoText
  <2>1. PICK i \in DOMAIN eps : n = Upper[eps[i].name]
    BY <1>1
  <2>2. Upper[n] = n
    BY <2>1, UpperAssumption
  <2>3. n # NoText
    BY <2>1 DEF EndpointsValid
  <2>4. PICK j \in DOMAIN eps : E[n] = eps[j].host
    BY Zenon, <1>1, <2>1 DEF NormalizeEndpoints
  <2>5. E[n] # NoText
    BY <2>4 DEF EndpointsValid
  <2> QED
    BY <2>2, <2>3, <2>5
<1> QED
  BY <1>1, <1>2, <1>3

\* A partition stays restorable when the members of its ISR stay unfenced.
LEMMA PartitionStaysRestorable ==
  ASSUME NEW brokers, NEW after, NEW topics, NEW k, NEW p,
         PartitionRestorable(brokers, topics, k, p),
         DOMAIN brokers \subseteq DOMAIN after,
         \A m \in Range(p.ISR) : after[m].Fenced => brokers[m].Fenced
  PROVE  PartitionRestorable(after, topics, k, p)
<1>1. ValidPartitionSpec(after, p.LeaderBrokerID, p.Replicas, p.ISR)
  BY DEF PartitionRestorable, ValidPartitionSpec
<1> QED
  BY <1>1 DEF PartitionRestorable

\* applyRegisterBroker: a broker that is replaced is in no ISR.
LEMMA RegisterIsGood ==
  ASSUME NEW s, NEW cmd, NEW i \in Nat, Good(s), RegisterBrokerAccepted(s, cmd, i),
         cmd.Endpoints \in Seq(Range(cmd.Endpoints)),
         \A x \in DOMAIN cmd.Endpoints : cmd.Endpoints[x].name \in Names
  PROVE  Good(ApplyRegisterBroker(s, cmd, i))
<1>1. CASE IsRetry(s, cmd)
  BY <1>1 DEF ApplyRegisterBroker
<1>2. CASE ~IsRetry(s, cmd)
  <2> DEFINE b == [IncarnationID |-> cmd.IncarnationID,
                   BrokerEpoch   |-> i,
                   Endpoints     |-> NormalizeEndpoints(cmd.Endpoints),
                   Fenced        |-> TRUE]
             t == ApplyRegisterBroker(s, cmd, i)
  <2>1. /\ DOMAIN t = {"Brokers", "Topics", "Partitions"}
        /\ t.Brokers = Put(s.Brokers, cmd.ID, b)
        /\ t.Topics = s.Topics /\ t.Partitions = s.Partitions
    BY <1>2 DEF ApplyRegisterBroker, Good, Shape
  <2>2. BrokerShape(b)
    BY DEF BrokerShape
  <2>3. BrokerRestorable(cmd.ID, b)
    <3>1. EndpointsValid(cmd.Endpoints)
      BY DEF RegisterBrokerAccepted
    <3>2. /\ DOMAIN b.Endpoints # {}
          /\ \A n \in DOMAIN b.Endpoints : Upper[n] = n /\ n # NoText /\ b.Endpoints[n] # NoText
      BY <3>1, NormalizedRestorable
    <3> QED
      BY <3>2 DEF RegisterBrokerAccepted, BrokerRestorable
  <2> HIDE DEF t, b
  <2>4. /\ DOMAIN t.Brokers = DOMAIN s.Brokers \cup {cmd.ID}
        /\ t.Brokers[cmd.ID] = b
        /\ \A id \in DOMAIN s.Brokers : id # cmd.ID => t.Brokers[id] = s.Brokers[id]
    BY <2>1 DEF Put
  <2>5. Shape(t)
    BY <2>1, <2>2, <2>4 DEF Good, Shape
  <2>6. ASSUME NEW k \in DOMAIN s.Partitions
        PROVE  PartitionRestorable(t.Brokers, s.Topics, k, s.Partitions[k])
    <3>1. PartitionRestorable(s.Brokers, s.Topics, k, s.Partitions[k])
      BY DEF Good, RestoreAccepted
    <3>2. ASSUME NEW m \in Range(s.Partitions[k].ISR) PROVE t.Brokers[m] = s.Brokers[m]
      <4>1. m \in DOMAIN s.Brokers
        BY <3>1 DEF PartitionRestorable, ValidPartitionSpec
      <4>2. cmd.ID \in DOMAIN s.Brokers => cmd.ID \notin Range(s.Partitions[k].ISR)
        BY <1>2 DEF RegisterBrokerAccepted, BrokerInActivePartition
      <4> QED
        BY <2>4, <4>1, <4>2
    <3> QED
      BY <2>4, <3>1, <3>2, PartitionStaysRestorable
  <2>7. \A id \in DOMAIN t.Brokers : BrokerRestorable(id, t.Brokers[id])
    BY <2>3, <2>4 DEF Good, RestoreAccepted
  <2>8. RestoreAccepted(t)
    BY <2>1, <2>6, <2>7 DEF Good, RestoreAccepted
  <2> QED
    BY <2>5, <2>8 DEF Good, t
<1> QED
  BY <1>1, <1>2

\* applyUnfenceBroker only clears a flag.
LEMMA UnfenceIsGood ==
  ASSUME NEW s, NEW cmd, Good(s), UnfenceBrokerAccepted(s, cmd)
  PROVE  Good(ApplyUnfenceBroker(s, cmd))
<1> DEFINE t == ApplyUnfenceBroker(s, cmd)
<1>1. /\ DOMAIN t = {"Brokers", "Topics", "Partitions"}
      /\ t.Brokers = [s.Brokers EXCEPT ![cmd.BrokerID].Fenced = FALSE]
      /\ t.Topics = s.Topics /\ t.Partitions = s.Partitions
  BY DEF ApplyUnfenceBroker, Good, Shape
<1> HIDE DEF t
<1>2. DOMAIN t.Brokers = DOMAIN s.Brokers
  BY <1>1
<1>3. ASSUME NEW id \in DOMAIN s.Brokers
      PROVE  /\ BrokerShape(t.Brokers[id])
             /\ t.Brokers[id].IncarnationID = s.Brokers[id].IncarnationID
             /\ t.Brokers[id].BrokerEpoch = s.Brokers[id].BrokerEpoch
             /\ t.Brokers[id].Endpoints = s.Brokers[id].Endpoints
             /\ t.Brokers[id].Fenced => s.Brokers[id].Fenced
  <2>1. BrokerShape(s.Brokers[id])
    BY DEF Good, Shape
  <2> QED
    BY <1>1, <2>1 DEF BrokerShape
<1>4. Shape(t)
  BY Zenon, <1>1, <1>2, <1>3 DEF Good, Shape
<1>5. ASSUME NEW k \in DOMAIN s.Partitions
      PROVE  PartitionRestorable(t.Brokers, s.Topics, k, s.Partitions[k])
  <2>1. PartitionRestorable(s.Brokers, s.Topics, k, s.Partitions[k])
    BY DEF Good, RestoreAccepted
  <2>2. \A m \in Range(s.Partitions[k].ISR) : m \in DOMAIN s.Brokers
    BY <2>1 DEF PartitionRestorable, ValidPartitionSpec
  <2> QED
    BY <1>2, <1>3, <2>1, <2>2, PartitionStaysRestorable
<1>6. ASSUME NEW id \in DOMAIN t.Brokers PROVE BrokerRestorable(id, t.Brokers[id])
  <2>1. BrokerRestorable(id, s.Brokers[id])
    BY <1>2 DEF Good, RestoreAccepted
  <2> QED
    BY <1>2, <1>3, <2>1 DEF BrokerRestorable
<1>7. RestoreAccepted(t)
  BY Zenon, <1>1, <1>5, <1>6 DEF Good, RestoreAccepted
<1> QED
  BY <1>4, <1>7 DEF Good, t

\* applyCreateTopic adds partitions of a topic that had none.
LEMMA CreateIsGood ==
  ASSUME NEW s, NEW cmd, Good(s),
         cmd.Partitions \in Seq(Range(cmd.Partitions)), CreateTopicAccepted(s, cmd)
  PROVE  /\ Good(ApplyCreateTopic(s, cmd))
         /\ ApplyCreateTopic(s, cmd).Brokers = s.Brokers
         /\ \A k \in DOMAIN s.Partitions :
               /\ k \in DOMAIN ApplyCreateTopic(s, cmd).Partitions
               /\ ApplyCreateTopic(s, cmd).Partitions[k] = s.Partitions[k]
<1> DEFINE t == ApplyCreateTopic(s, cmd)
           I == DOMAIN cmd.Partitions
           keys == {<<cmd.Topic, cmd.Partitions[i].Partition>> : i \in I}
           specOf(k) == cmd.Partitions[CHOOSE i \in I : cmd.Partitions[i].Partition = k[2]]
           n == Len(cmd.Partitions)
<1>1. /\ DOMAIN t = {"Brokers", "Topics", "Partitions"}
      /\ t.Brokers = s.Brokers
      /\ t.Topics = s.Topics \cup {cmd.Topic}
      /\ DOMAIN t.Partitions = DOMAIN s.Partitions \cup keys
  BY DEF ApplyCreateTopic, Good, Shape
<1>2. ASSUME NEW k \in keys
      PROVE  /\ t.Partitions[k].LeaderEpoch = 0 /\ t.Partitions[k].PartitionEpoch = 0
             /\ t.Partitions[k].LeaderBrokerID = specOf(k).LeaderBrokerID
             /\ t.Partitions[k].Replicas = specOf(k).Replicas
             /\ t.Partitions[k].ISR = specOf(k).ISR
  <2>1. t.Partitions[k] = [LeaderBrokerID |-> specOf(k).LeaderBrokerID,
                           LeaderEpoch    |-> 0,
                           PartitionEpoch |-> 0,
                           Replicas       |-> specOf(k).Replicas,
                           ISR            |-> specOf(k).ISR]
    BY Zenon DEF ApplyCreateTopic, Good, Shape
  <2> HIDE DEF t, specOf, keys
  <2> QED
    BY <2>1
<1>3. ASSUME NEW k \in DOMAIN s.Partitions
      PROVE  k \notin keys /\ t.Partitions[k] = s.Partitions[k]
  <2>1. k[1] \in s.Topics
    BY DEF Good, RestoreAccepted, PartitionRestorable
  <2>2. k \notin keys
    BY <2>1 DEF CreateTopicAccepted
  <2> QED
    BY <2>2 DEF ApplyCreateTopic, Good, Shape
<1>4. n \in Nat \ {0} /\ I = 1 .. n
  BY DEF CreateTopicAccepted
<1>5. {cmd.Partitions[i].Partition : i \in I} = 0 .. n - 1
  BY DEF CreateTopicAccepted
<1>6. ASSUME NEW k \in keys
      PROVE  /\ k[1] = cmd.Topic
             /\ k[2] \in 0 .. n - 1
             /\ ValidPartitionSpec(s.Brokers, specOf(k).LeaderBrokerID, specOf(k).Replicas, specOf(k).ISR)
  <2>1. PICK i \in I : k = <<cmd.Topic, cmd.Partitions[i].Partition>>
    OBVIOUS
  <2>2. k[1] = cmd.Topic /\ k[2] = cmd.Partitions[i].Partition
    BY <2>1
  <2>3. k[2] \in 0 .. n - 1
    BY <2>2, <1>5
  <2>4. PICK j \in I : specOf(k) = cmd.Partitions[j]
    BY Zenon, <2>2
  <2>5. ValidPartitionSpec(s.Brokers, cmd.Partitions[j].LeaderBrokerID, cmd.Partitions[j].Replicas,
                           cmd.Partitions[j].ISR)
    BY DEF CreateTopicAccepted
  <2> QED
    BY <2>2, <2>3, <2>4, <2>5
<1>7. \A x \in 0 .. n - 1 : <<cmd.Topic, x>> \in keys
  BY Zenon, <1>5
<1> HIDE DEF t, keys, specOf, n, I
<1>8. Shape(t)
  BY <1>1, <1>2, <1>3 DEF Good, Shape
<1>9. ASSUME NEW k \in DOMAIN t.Partitions
      PROVE  PartitionRestorable(t.Brokers, t.Topics, k, t.Partitions[k])
  <2>1. CASE k \in keys
    <3>1. k[2] >= 0 /\ k[1] = cmd.Topic
      BY <1>4, <1>6, <2>1
    <3>2. cmd.Topic # NoText
      BY DEF CreateTopicAccepted
    <3>3. /\ t.Partitions[k].LeaderEpoch >= 0 /\ t.Partitions[k].PartitionEpoch >= 0
          /\ ValidPartitionSpec(t.Brokers, t.Partitions[k].LeaderBrokerID, t.Partitions[k].Replicas,
                                t.Partitions[k].ISR)
      BY <1>1, <1>2, <1>6, <2>1
    <3> QED
      BY <1>1, <3>1, <3>2, <3>3 DEF PartitionRestorable
  <2>2. CASE k \in DOMAIN s.Partitions
    <3>1. PartitionRestorable(s.Brokers, s.Topics, k, s.Partitions[k])
      BY <2>2 DEF Good, RestoreAccepted
    <3>2. t.Partitions[k] = s.Partitions[k]
      BY <1>3, <2>2
    <3> QED
      BY <1>1, <3>1, <3>2 DEF PartitionRestorable
  <2> QED
    BY <1>1, <2>1, <2>2
<1>10. ASSUME NEW x \in t.Topics PROVE TopicRestorable(x, DOMAIN t.Partitions)
  <2> DEFINE ids == {k[2] : k \in {kk \in DOMAIN t.Partitions : kk[1] = x}}
  <2>1. CASE x = cmd.Topic
    <3>1. ASSUME NEW k \in DOMAIN t.Partitions, k[1] = x PROVE k \in keys
      <4>1. k \in DOMAIN s.Partitions => k[1] \in s.Topics
        BY DEF Good, RestoreAccepted, PartitionRestorable
      <4>2. cmd.Topic \notin s.Topics
        BY DEF CreateTopicAccepted
      <4> QED
        BY <1>1, <2>1, <3>1, <4>1, <4>2
    <3>2. \A y \in ids : y \in 0 .. n - 1
      BY <3>1, <1>6
    <3>3. ASSUME NEW y \in 0 .. n - 1 PROVE y \in ids
      <4>1. <<cmd.Topic, y>> \in DOMAIN t.Partitions
        BY <1>1, <1>7
      <4> QED
        BY <4>1, <2>1
    <3>4. ids = 0 .. n - 1
      BY <3>2, <3>3
    <3> HIDE DEF ids
    <3>5. 0 \in ids
      BY <3>4, <1>4
    <3>6. ASSUME NEW i \in ids, NEW j \in 0 .. i PROVE j \in ids
      BY <3>4, <1>4
    <3>7. x # NoText
      BY <2>1 DEF CreateTopicAccepted
    <3> QED
      BY <3>5, <3>6, <3>7 DEF TopicRestorable, ids
  <2>2. CASE x # cmd.Topic
    <3>1. TopicRestorable(x, DOMAIN s.Partitions)
      BY <1>1, <2>2 DEF Good, RestoreAccepted
    <3>2. {kk \in DOMAIN t.Partitions : kk[1] = x} = {kk \in DOMAIN s.Partitions : kk[1] = x}
      BY <1>1, <1>6, <2>2
    <3> QED
      BY <3>1, <3>2 DEF TopicRestorable
  <2> QED
    BY <2>1, <2>2
<1>11. \A id \in DOMAIN t.Brokers : BrokerRestorable(id, t.Brokers[id])
  BY <1>1 DEF Good, RestoreAccepted
<1>12. RestoreAccepted(t)
  BY <1>9, <1>10, <1>11 DEF RestoreAccepted
<1> QED
  BY <1>1, <1>3, <1>8, <1>12 DEF Good, t

\* applyUpdatePartition replaces one partition's state.
LEMMA UpdateIsGood ==
  ASSUME NEW s, NEW cmd, Good(s), UpdatePartitionAccepted(s, cmd)
  PROVE  LET t == ApplyUpdatePartition(s, cmd)
             key == <<cmd.Topic, cmd.Partition>> IN
         /\ Good(t)
         /\ t.Brokers = s.Brokers
         /\ DOMAIN t.Partitions = DOMAIN s.Partitions
         /\ t.Partitions[key] = UpdatedPartition(s.Partitions[key], cmd)
         /\ \A k \in DOMAIN s.Partitions : k # key => t.Partitions[k] = s.Partitions[k]
<1> DEFINE t == ApplyUpdatePartition(s, cmd)
           key == <<cmd.Topic, cmd.Partition>>
<1>1. /\ DOMAIN t = {"Brokers", "Topics", "Partitions"}
      /\ t.Brokers = s.Brokers /\ t.Topics = s.Topics
      /\ DOMAIN t.Partitions = DOMAIN s.Partitions
      /\ t.Partitions[key] = UpdatedPartition(s.Partitions[key], cmd)
      /\ \A k \in DOMAIN s.Partitions : k # key => t.Partitions[k] = s.Partitions[k]
  BY DEF ApplyUpdatePartition, UpdatePartitionAccepted, Good, Shape
<1>2. /\ key \in DOMAIN s.Partitions
      /\ s.Partitions[key].LeaderEpoch \in Nat /\ s.Partitions[key].PartitionEpoch \in Nat
      /\ ValidPartitionSpec(s.Brokers, cmd.LeaderBrokerID, cmd.Replicas, cmd.ISR)
  BY DEF UpdatePartitionAccepted, Good, Shape
<1>3. /\ t.Partitions[key].LeaderEpoch \in Nat /\ t.Partitions[key].PartitionEpoch \in Nat
      /\ ValidPartitionSpec(s.Brokers, t.Partitions[key].LeaderBrokerID, t.Partitions[key].Replicas,
                            t.Partitions[key].ISR)
  BY <1>1, <1>2 DEF UpdatedPartition
<1> HIDE DEF t, key
<1>4. Shape(t)
  BY <1>1, <1>3 DEF Good, Shape
<1>5. ASSUME NEW k \in DOMAIN t.Partitions
      PROVE  PartitionRestorable(t.Brokers, t.Topics, k, t.Partitions[k])
  <2>1. PartitionRestorable(s.Brokers, s.Topics, k, s.Partitions[k])
    BY <1>1 DEF Good, RestoreAccepted
  <2>2. CASE k = key
    BY <1>1, <1>3, <2>1, <2>2 DEF PartitionRestorable
  <2>3. CASE k # key
    BY <1>1, <2>1, <2>3
  <2> QED
    BY <2>2, <2>3
<1>6. RestoreAccepted(t)
  BY <1>1, <1>5 DEF Good, RestoreAccepted
<1> QED
  BY <1>1, <1>4, <1>6 DEF Good, t, key

(***************************************************************************)
(* One committed command: it keeps states good, epochs only grow with it,  *)
(* and a broker epoch is the index of the registration that made it.       *)
(***************************************************************************)

\* Apply never leaves a state that Restore would refuse.
LEMMA ApplyIsGood ==
  ASSUME NEW s, NEW cmd, NEW i \in Nat, Good(s), ListsOf(cmd)
  PROVE  Good(Apply(s, cmd, i))
<1>1. CASE ~Accepted(s, cmd, i)
  BY <1>1 DEF Apply
<1>2. CASE Accepted(s, cmd, i)
  <2>1. CASE cmd.type = "RegisterBroker"
    BY <1>2, <2>1, RegisterIsGood DEF Apply, Accepted, ListsOf
  <2>2. CASE cmd.type = "UnfenceBroker"
    BY <1>2, <2>2, UnfenceIsGood DEF Apply, Accepted
  <2>3. CASE cmd.type = "CreateTopic"
    BY <1>2, <2>3, CreateIsGood DEF Apply, Accepted, ListsOf
  <2>4. CASE cmd.type = "UpdatePartition"
    BY Zenon, <1>2, <2>4, UpdateIsGood DEF Apply, Accepted
  <2> QED
    BY <1>2, <2>1, <2>2, <2>3, <2>4 DEF Accepted
<1> QED
  BY <1>1, <1>2

\* Metadata q of a partition may follow metadata p: epochs do not decrease, and
\* an epoch that did not change names the same thing.
Follows(p, q) ==
    /\ p.PartitionEpoch <= q.PartitionEpoch
    /\ p.LeaderEpoch <= q.LeaderEpoch
    /\ p.PartitionEpoch = q.PartitionEpoch => p = q
    /\ p.LeaderEpoch = q.LeaderEpoch => p.LeaderBrokerID = q.LeaderBrokerID

\* State t may follow state s in the history: no partition is lost.
Later(s, t) ==
    \A k \in DOMAIN s.Partitions :
        k \in DOMAIN t.Partitions /\ Follows(s.Partitions[k], t.Partitions[k])

\* Epochs are numbers, so metadata follows itself.
LEMMA FollowsReflexive ==
  ASSUME NEW s, Good(s), NEW k \in DOMAIN s.Partitions
  PROVE  Follows(s.Partitions[k], s.Partitions[k])
  BY DEF Good, Shape, Follows

\* A state follows itself, and every state with the same partitions.
LEMMA LaterReflexive ==
  ASSUME NEW s, NEW t, Good(s), t.Partitions = s.Partitions
  PROVE  Later(s, t)
  BY FollowsReflexive DEF Later

\* Following is transitive.
LEMMA LaterTransitive ==
  ASSUME NEW s, NEW t, NEW u, Good(s), Good(t), Good(u), Later(s, t), Later(t, u)
  PROVE  Later(s, u)
<1> SUFFICES ASSUME NEW k \in DOMAIN s.Partitions
             PROVE  k \in DOMAIN u.Partitions /\ Follows(s.Partitions[k], u.Partitions[k])
  BY DEF Later
<1> DEFINE p == s.Partitions[k]
           q == t.Partitions[k]
           r == u.Partitions[k]
<1>1. k \in DOMAIN t.Partitions /\ Follows(p, q)
  BY DEF Later
<1>2. k \in DOMAIN u.Partitions /\ Follows(q, r)
  BY <1>1 DEF Later
<1>3. /\ p.PartitionEpoch \in Nat /\ p.LeaderEpoch \in Nat
      /\ q.PartitionEpoch \in Nat /\ q.LeaderEpoch \in Nat
      /\ r.PartitionEpoch \in Nat /\ r.LeaderEpoch \in Nat
  BY <1>1, <1>2 DEF Good, Shape
<1> HIDE DEF p, q, r
<1>4. Follows(p, r)
  BY <1>1, <1>2, <1>3 DEF Follows
<1> QED
  BY <1>2, <1>4 DEF p, r

\* The state after a command follows the state before it.
LEMMA ApplyIsLater ==
  ASSUME NEW s, NEW cmd, NEW i \in Nat, Good(s), ListsOf(cmd)
  PROVE  Later(s, Apply(s, cmd, i))
<1>1. CASE ~Accepted(s, cmd, i)
  BY <1>1, LaterReflexive DEF Apply
<1>2. CASE Accepted(s, cmd, i)
  <2>1. CASE cmd.type = "RegisterBroker"
    <3>1. ApplyRegisterBroker(s, cmd, i).Partitions = s.Partitions
      BY DEF ApplyRegisterBroker, Good, Shape
    <3> QED
      BY <1>2, <2>1, <3>1, LaterReflexive DEF Apply
  <2>2. CASE cmd.type = "UnfenceBroker"
    <3>1. ApplyUnfenceBroker(s, cmd).Partitions = s.Partitions
      BY DEF ApplyUnfenceBroker, Good, Shape
    <3> QED
      BY <1>2, <2>2, <3>1, LaterReflexive DEF Apply
  <2>3. CASE cmd.type = "CreateTopic"
    <3> DEFINE t == ApplyCreateTopic(s, cmd)
    <3>1. \A k \in DOMAIN s.Partitions :
             k \in DOMAIN t.Partitions /\ t.Partitions[k] = s.Partitions[k]
      BY <1>2, <2>3, CreateIsGood DEF Accepted, ListsOf
    <3> HIDE DEF t
    <3>2. Later(s, t)
      BY <3>1, FollowsReflexive DEF Later
    <3> QED
      BY <1>2, <2>3, <3>2 DEF Apply, t
  <2>4. CASE cmd.type = "UpdatePartition"
    <3> DEFINE t == ApplyUpdatePartition(s, cmd)
               key == <<cmd.Topic, cmd.Partition>>
    <3>1. /\ DOMAIN t.Partitions = DOMAIN s.Partitions
          /\ t.Partitions[key] = UpdatedPartition(s.Partitions[key], cmd)
          /\ \A k \in DOMAIN s.Partitions : k # key => t.Partitions[k] = s.Partitions[k]
      BY <1>2, <2>4, UpdateIsGood DEF Accepted
    <3>2. key \in DOMAIN s.Partitions
      BY <1>2, <2>4 DEF Accepted, UpdatePartitionAccepted
    <3>3. s.Partitions[key].LeaderEpoch \in Nat /\ s.Partitions[key].PartitionEpoch \in Nat
      BY <3>2 DEF Good, Shape
    <3>4. /\ t.Partitions[key].PartitionEpoch = s.Partitions[key].PartitionEpoch + 1
          /\ t.Partitions[key].LeaderBrokerID = cmd.LeaderBrokerID
          /\ t.Partitions[key].LeaderEpoch =
                IF cmd.LeaderBrokerID # s.Partitions[key].LeaderBrokerID
                THEN s.Partitions[key].LeaderEpoch + 1 ELSE s.Partitions[key].LeaderEpoch
      BY <3>1 DEF UpdatedPartition
    <3> HIDE DEF t, key
    <3>5. Follows(s.Partitions[key], t.Partitions[key])
      BY <3>3, <3>4 DEF Follows
    <3>6. Later(s, t)
      BY <3>1, <3>2, <3>5, FollowsReflexive DEF Later
    <3> QED
      BY <1>2, <2>4, <3>6 DEF Apply, t
  <2> QED
    BY <1>2, <2>1, <2>2, <2>3, <2>4 DEF Accepted
<1> QED
  BY <1>1, <1>2

\* Every broker epoch of s is the index, in the first n commands of the log
\* lg, of the registration of that broker and incarnation.
EpochsFrom(s, lg, n) ==
    \A id \in DOMAIN s.Brokers :
        /\ s.Brokers[id].BrokerEpoch \in 1 .. n
        /\ lg[s.Brokers[id].BrokerEpoch].ID = id
        /\ lg[s.Brokers[id].BrokerEpoch].IncarnationID = s.Brokers[id].IncarnationID

\* A command keeps the broker epochs or adds its own index.
LEMMA ApplyEpochs ==
  ASSUME NEW s, NEW cmd, NEW lg, NEW n \in Nat, Good(s), ListsOf(cmd),
         EpochsFrom(s, lg, n), lg[n + 1] = cmd
  PROVE  EpochsFrom(Apply(s, cmd, n + 1), lg, n + 1)
<1>1. CASE ~Accepted(s, cmd, n + 1)
  BY <1>1 DEF Apply, EpochsFrom
<1>2. CASE Accepted(s, cmd, n + 1)
  <2>1. CASE cmd.type = "RegisterBroker"
    <3>1. CASE IsRetry(s, cmd)
      BY <1>2, <2>1, <3>1 DEF Apply, ApplyRegisterBroker, EpochsFrom
    <3>2. CASE ~IsRetry(s, cmd)
      <4> DEFINE t == Apply(s, cmd, n + 1)
      <4>1. t.Brokers = Put(s.Brokers, cmd.ID,
                            [IncarnationID |-> cmd.IncarnationID,
                             BrokerEpoch   |-> n + 1,
                             Endpoints     |-> NormalizeEndpoints(cmd.Endpoints),
                             Fenced        |-> TRUE])
        BY <1>2, <2>1, <3>2 DEF Apply, ApplyRegisterBroker, Good, Shape
      <4>2. /\ DOMAIN t.Brokers = DOMAIN s.Brokers \cup {cmd.ID}
            /\ t.Brokers[cmd.ID].IncarnationID = cmd.IncarnationID
            /\ t.Brokers[cmd.ID].BrokerEpoch = n + 1
            /\ \A id \in DOMAIN s.Brokers : id # cmd.ID => t.Brokers[id] = s.Brokers[id]
        BY <4>1 DEF Put
      <4> HIDE DEF t
      <4>3. EpochsFrom(t, lg, n + 1)
        BY <4>2 DEF EpochsFrom
      <4> QED
        BY <4>3 DEF t
    <3> QED
      BY <3>1, <3>2
  <2>2. CASE cmd.type = "UnfenceBroker"
    <3> DEFINE t == ApplyUnfenceBroker(s, cmd)
    <3>1. /\ DOMAIN t.Brokers = DOMAIN s.Brokers
          /\ \A id \in DOMAIN s.Brokers :
                /\ t.Brokers[id].IncarnationID = s.Brokers[id].IncarnationID
                /\ t.Brokers[id].BrokerEpoch = s.Brokers[id].BrokerEpoch
      BY <1>2, <2>2 DEF ApplyUnfenceBroker, Accepted, UnfenceBrokerAccepted, Good, Shape, BrokerShape
    <3> HIDE DEF t
    <3>2. EpochsFrom(t, lg, n + 1)
      BY <3>1 DEF EpochsFrom
    <3> QED
      BY <1>2, <2>2, <3>2 DEF Apply, t
  <2>3. CASE cmd.type = "CreateTopic"
    <3>1. ApplyCreateTopic(s, cmd).Brokers = s.Brokers
      BY DEF ApplyCreateTopic, Good, Shape
    <3> QED
      BY <1>2, <2>3, <3>1 DEF Apply, EpochsFrom
  <2>4. CASE cmd.type = "UpdatePartition"
    <3>1. ApplyUpdatePartition(s, cmd).Brokers = s.Brokers
      BY DEF ApplyUpdatePartition, Good, Shape
    <3> QED
      BY <1>2, <2>4, <3>1 DEF Apply, EpochsFrom
  <2> QED
    BY <1>2, <2>1, <2>2, <2>3, <2>4 DEF Accepted
<1> QED
  BY <1>1, <1>2

(***************************************************************************)
(* The inductive invariant.  The properties of ControllerNode compare two  *)
(* nodes, and no step compares nodes: what relates them is the history.    *)
(* Every node's state and snapshot is the state after some prefix of the   *)
(* log, and the states of the history are good and follow one another.     *)
(***************************************************************************)
HistoryInv ==
    /\ hist[0] = NewControllerState
    /\ \A i \in 0 .. Len(log) : Good(hist[i]) /\ EpochsFrom(hist[i], log, i)
    /\ \A i \in 0 .. Len(log) : i < Len(log) => hist[i + 1] = Apply(hist[i], log[i + 1], i + 1)
    /\ \A i, j \in 0 .. Len(log) : i <= j => Later(hist[i], hist[j])

NodesInv ==
    \A n \in Nodes : fsm[n] = hist[applied[n]] /\ snap[n].data = hist[snap[n].index]

IInv == TypeOK /\ HistoryInv /\ NodesInv

\* The invariant holds when the cluster starts.
LEMMA InitIInv == Init => IInv
<1> SUFFICES ASSUME Init PROVE IInv
  OBVIOUS
<1>1. Len(log) = 0 /\ 0 .. Len(log) = {0}
  BY DEF Init
<1>2. TypeOK
  BY <1>1, MaxLogAssumption DEF Init, TypeOK
<1>3. hist[0] = NewControllerState
  BY DEF Init
<1>4. Good(hist[0])
  BY <1>3, NewIsGood
<1>5. EpochsFrom(hist[0], log, 0)
  BY <1>3 DEF EpochsFrom, NewControllerState, EmptyMap
<1>6. Later(hist[0], hist[0])
  BY <1>4, LaterReflexive
<1>7. HistoryInv
  BY <1>1, <1>3, <1>4, <1>5, <1>6 DEF HistoryInv
<1>8. NodesInv
  BY DEF Init, NodesInv, ToSnapshotData
<1> QED
  BY <1>2, <1>7, <1>8 DEF IInv

\* A commit extends the history by a good state that follows all others.
LEMMA CommitIInv ==
  ASSUME IInv, NEW cmd \in Commands, Commit(cmd)
  PROVE  IInv'
<1> DEFINE n == Len(log)
           s == Apply(hist[n], cmd, n + 1)
<1>1. /\ n \in Nat /\ n < MaxLog
      /\ log \in Seq(Commands) /\ log' = Append(log, cmd) /\ log' \in Seq(Commands)
      /\ Len(log') = n + 1
      /\ \A i \in 1 .. n : log'[i] = log[i]
      /\ log'[n + 1] = cmd
  BY DEF IInv, TypeOK, Commit
<1>2. /\ DOMAIN hist' = 0 .. n + 1
      /\ \A i \in 0 .. n : hist'[i] = hist[i]
      /\ hist'[n + 1] = s
  <2>1. hist' = Put(hist, n + 1, s)
    BY DEF Commit
  <2>2. DOMAIN hist = 0 .. n
    BY DEF IInv, TypeOK
  <2>3. DOMAIN hist' = DOMAIN hist \cup {n + 1}
    BY <2>1 DEF Put
  <2>4. hist'[n + 1] = s
    BY <2>1 DEF Put
  <2>5. \A i \in 0 .. n : hist'[i] = hist[i]
    BY <1>1, <2>1, <2>2 DEF Put
  <2> QED
    BY <1>1, <2>2, <2>3, <2>4, <2>5
<1>3. TypeOK'
  BY <1>1, <1>2, MaxLogAssumption DEF IInv, TypeOK, Commit
<1>4. Good(hist[n]) /\ EpochsFrom(hist[n], log, n) /\ ListsOf(cmd)
  BY <1>1, CommandsAssumption DEF IInv, HistoryInv, ListsOf
<1>5. Good(s) /\ Later(hist[n], s)
  BY <1>1, <1>4, ApplyIsGood, ApplyIsLater
<1>6. ASSUME NEW i \in 0 .. n PROVE EpochsFrom(hist[i], log', i)
  <2>1. EpochsFrom(hist[i], log, i)
    BY DEF IInv, HistoryInv
  <2>2. \A e \in 1 .. i : log'[e] = log[e]
    BY <1>1
  <2> HIDE DEF n
  <2> QED
    BY <2>1, <2>2 DEF EpochsFrom
<1>7. EpochsFrom(s, log', n + 1)
  <2>1. EpochsFrom(hist[n], log', n)
    BY <1>1, <1>6
  <2> HIDE DEF n
  <2> QED
    BY Zenon, <1>1, <1>4, <2>1, ApplyEpochs
<1>8. ASSUME NEW i \in 0 .. n PROVE Later(hist[i], s)
  <2>1. Good(hist[i]) /\ Later(hist[i], hist[n])
    BY <1>1 DEF IInv, HistoryInv
  <2> QED
    BY <1>4, <1>5, <2>1, LaterTransitive
<1>9. Later(s, s)
  BY <1>5, LaterReflexive
<1> HIDE DEF s, n
<1>10. HistoryInv'
  <2>1. hist'[0] = NewControllerState
    BY <1>1, <1>2 DEF IInv, HistoryInv
  <2>2. ASSUME NEW i \in 0 .. n + 1 PROVE Good(hist'[i]) /\ EpochsFrom(hist'[i], log', i)
    <3>1. CASE i \in 0 .. n
      BY <1>2, <1>6, <3>1 DEF IInv, HistoryInv, n
    <3>2. CASE i = n + 1
      BY <1>2, <1>5, <1>7, <3>2
    <3> QED
      BY <1>1, <3>1, <3>2
  <2>3. ASSUME NEW i \in 0 .. n + 1, i < n + 1
        PROVE  hist'[i + 1] = Apply(hist'[i], log'[i + 1], i + 1)
    <3>1. CASE i < n
      <4>1. i \in 0 .. n /\ i + 1 \in 0 .. n /\ i + 1 \in 1 .. n
        BY <1>1, <3>1
      <4>2. hist[i + 1] = Apply(hist[i], log[i + 1], i + 1)
        BY <3>1, <4>1 DEF IInv, HistoryInv, n
      <4> QED
        BY <1>1, <1>2, <4>1, <4>2
    <3>2. CASE i = n
      BY <1>1, <1>2, <3>2 DEF s
    <3> QED
      BY <1>1, <2>3, <3>1, <3>2
  <2>4. ASSUME NEW i \in 0 .. n + 1, NEW j \in 0 .. n + 1, i <= j
        PROVE  Later(hist'[i], hist'[j])
    <3>1. CASE j \in 0 .. n
      <4>1. i \in 0 .. n
        BY <1>1, <2>4, <3>1
      <4> QED
        BY <1>2, <2>4, <3>1, <4>1 DEF IInv, HistoryInv, n
    <3>2. CASE j = n + 1 /\ i \in 0 .. n
      BY <1>2, <1>8, <3>2
    <3>3. CASE j = n + 1 /\ i = n + 1
      BY <1>2, <1>9, <3>3
    <3> QED
      BY <1>1, <3>1, <3>2, <3>3
  <2> QED
    BY <1>1, <2>1, <2>2, <2>3, <2>4 DEF HistoryInv
<1>11. NodesInv'
  BY <1>2 DEF IInv, TypeOK, NodesInv, Commit, n
<1> QED
  BY <1>3, <1>10, <1>11 DEF IInv

\* The other steps leave the log and the history alone.
LEMMA SameHistory ==
  ASSUME HistoryInv, UNCHANGED <<log, hist>>
  PROVE  HistoryInv'
  BY DEF HistoryInv

\* Applying the next entry moves a node to the next state of the history.
LEMMA ApplyNextIInv ==
  ASSUME IInv, NEW n \in Nodes, ApplyNext(n)
  PROVE  IInv'
<1>1. HistoryInv'
  BY SameHistory DEF IInv, ApplyNext
<1>2. /\ applied[n] \in 0 .. Len(log) /\ applied[n] < Len(log) /\ Len(log) \in Nat
      /\ fsm[n] = hist[applied[n]]
  BY DEF IInv, TypeOK, NodesInv, ApplyNext
<1>3. TypeOK'
  BY <1>2 DEF IInv, TypeOK, ApplyNext
<1>4. hist[applied[n] + 1] = Apply(fsm[n], log[applied[n] + 1], applied[n] + 1)
  BY <1>2 DEF IInv, HistoryInv
<1>5. NodesInv'
  BY <1>2, <1>4 DEF IInv, TypeOK, NodesInv, ApplyNext
<1> QED
  BY <1>1, <1>3, <1>5 DEF IInv

\* Every step keeps the invariant.
LEMMA NextIInv == IInv /\ [Next]_vars => IInv'
<1> SUFFICES ASSUME IInv, [Next]_vars PROVE IInv'
  OBVIOUS
<1>1. ASSUME NEW cmd \in Commands, Commit(cmd) PROVE IInv'
  BY <1>1, CommitIInv
<1>2. ASSUME NEW n \in Nodes, ApplyNext(n) PROVE IInv'
  BY <1>2, ApplyNextIInv
<1>3. ASSUME NEW n \in Nodes, TakeSnapshot(n) PROVE IInv'
  <2>1. HistoryInv'
    BY <1>3, SameHistory DEF IInv, TakeSnapshot
  <2>2. TypeOK'
    BY <1>3 DEF IInv, TypeOK, TakeSnapshot
  <2>3. NodesInv'
    BY <1>3 DEF IInv, TypeOK, NodesInv, TakeSnapshot, ToSnapshotData
  <2> QED
    BY <2>1, <2>2, <2>3 DEF IInv
<1>4. ASSUME NEW n \in Nodes, NEW m \in Nodes, InstallSnapshot(n, m) PROVE IInv'
  <2>1. HistoryInv'
    BY <1>4, SameHistory DEF IInv, InstallSnapshot
  <2>2. TypeOK'
    BY <1>4 DEF IInv, TypeOK, InstallSnapshot
  <2>3. NodesInv'
    BY <1>4 DEF IInv, TypeOK, NodesInv, InstallSnapshot
  <2> QED
    BY <2>1, <2>2, <2>3 DEF IInv
<1>5. ASSUME NEW n \in Nodes, Crash(n) PROVE IInv'
  <2>1. HistoryInv'
    BY <1>5, SameHistory DEF IInv, Crash
  <2>2. TypeOK'
    BY <1>5 DEF IInv, TypeOK, Crash
  <2>3. NodesInv'
    BY <1>5 DEF IInv, TypeOK, HistoryInv, NodesInv, Crash
  <2> QED
    BY <2>1, <2>2, <2>3 DEF IInv
<1>6. ASSUME NEW n \in Nodes, Restart(n) PROVE IInv'
  <2>1. HistoryInv'
    BY <1>6, SameHistory DEF IInv, Restart
  <2>2. TypeOK'
    BY <1>6 DEF IInv, TypeOK, Restart
  <2>3. NodesInv'
    BY <1>6 DEF IInv, TypeOK, NodesInv, Restart
  <2> QED
    BY <2>1, <2>2, <2>3 DEF IInv
<1>7. CASE UNCHANGED vars
  BY <1>7, SameHistory DEF vars, IInv, TypeOK, NodesInv
<1> QED
  BY <1>1, <1>2, <1>3, <1>4, <1>5, <1>6, <1>7 DEF Next

\* The invariant holds in every reachable state.
THEOREM Invariance == Spec => []IInv
  BY InitIInv, NextIInv, PTL DEF Spec

(***************************************************************************)
(* The properties                                                          *)
(***************************************************************************)

\* Every log index in use has a state and no node is ahead of the log.
THEOREM TypeCorrect == Spec => []TypeOK
  BY Invariance, PTL DEF IInv

\* Restore never refuses what Persist wrote.
THEOREM SnapshotsAlwaysRestorable == Spec => []SnapshotsRestorable
<1>1. IInv => SnapshotsRestorable
  BY DEF IInv, TypeOK, HistoryInv, NodesInv, Good, SnapshotsRestorable, ToSnapshotData
<1> QED
  BY <1>1, Invariance, PTL

\* Nodes that applied the same prefix of the log hold the same state.
THEOREM NodesAlwaysAgree == Spec => []NodesAgree
<1>1. IInv => NodesAgree
  BY DEF IInv, NodesInv, NodesAgree
<1> QED
  BY <1>1, Invariance, PTL

\* Of two nodes' states one follows the other.
LEMMA NodesOrdered ==
  ASSUME IInv, NEW n \in Nodes, NEW m \in Nodes
  PROVE  Later(fsm[n], fsm[m]) \/ Later(fsm[m], fsm[n])
<1>1. applied[n] \in 0 .. Len(log) /\ applied[m] \in 0 .. Len(log)
  BY DEF IInv, TypeOK
<1>2. applied[n] <= applied[m] \/ applied[m] <= applied[n]
  BY <1>1
<1> QED
  BY <1>1, <1>2 DEF IInv, HistoryInv, NodesInv

\* UpdatePartition's compare-and-set and FetchManager compare only the
\* partition epoch: it identifies the whole of a partition's metadata.
THEOREM PartitionEpochsIdentify == Spec => []PartitionEpochIdentifiesMetadata
<1>1. IInv => PartitionEpochIdentifiesMetadata
  BY NodesOrdered DEF Later, Follows, PartitionEpochIdentifiesMetadata
<1> QED
  BY <1>1, Invariance, PTL

\* Two brokers never lead a partition in the same leader epoch.
THEOREM LeaderEpochsFence == Spec => []OneLeaderPerEpoch
<1>1. IInv => OneLeaderPerEpoch
  BY NodesOrdered DEF Later, Follows, OneLeaderPerEpoch
<1> QED
  BY <1>1, Invariance, PTL

\* A broker epoch is never given to a second incarnation.
THEOREM BrokerEpochsUnique == Spec => []BrokerEpochIdentifiesIncarnation
<1>1. IInv => BrokerEpochIdentifiesIncarnation
  <2> SUFFICES ASSUME IInv, NEW i \in DOMAIN hist, NEW j \in DOMAIN hist,
                      NEW a \in DOMAIN hist[i].Brokers, NEW b \in DOMAIN hist[j].Brokers,
                      hist[i].Brokers[a].BrokerEpoch = hist[j].Brokers[b].BrokerEpoch
               PROVE  a = b /\ hist[i].Brokers[a].IncarnationID = hist[j].Brokers[b].IncarnationID
    BY DEF BrokerEpochIdentifiesIncarnation
  <2>1. EpochsFrom(hist[i], log, i) /\ EpochsFrom(hist[j], log, j)
    BY DEF IInv, TypeOK, HistoryInv
  <2>2. /\ log[hist[i].Brokers[a].BrokerEpoch].ID = a
        /\ log[hist[i].Brokers[a].BrokerEpoch].IncarnationID = hist[i].Brokers[a].IncarnationID
    BY <2>1 DEF EpochsFrom
  <2>3. /\ log[hist[j].Brokers[b].BrokerEpoch].ID = b
        /\ log[hist[j].Brokers[b].BrokerEpoch].IncarnationID = hist[j].Brokers[b].IncarnationID
    BY <2>1 DEF EpochsFrom
  <2> QED
    BY <2>2, <2>3
<1> QED
  BY <1>1, Invariance, PTL

\* What a running node serves never goes back in time.
THEOREM ReadsAreMonotone == Spec => ReadsNeverGoBack
<1> DEFINE Monotone == \A n \in Nodes : up[n] /\ up'[n] =>
        \A k \in DOMAIN fsm[n].Partitions :
            /\ k \in DOMAIN fsm'[n].Partitions
            /\ fsm'[n].Partitions[k].PartitionEpoch >= fsm[n].Partitions[k].PartitionEpoch
            /\ fsm'[n].Partitions[k].LeaderEpoch >= fsm[n].Partitions[k].LeaderEpoch
<1>1. IInv /\ IInv' /\ [Next]_vars => [Monotone]_vars
  <2> SUFFICES ASSUME IInv, IInv', Next, NEW n \in Nodes, up[n], up'[n]
               PROVE  \A k \in DOMAIN fsm[n].Partitions :
                         /\ k \in DOMAIN fsm'[n].Partitions
                         /\ fsm'[n].Partitions[k].PartitionEpoch >= fsm[n].Partitions[k].PartitionEpoch
                         /\ fsm'[n].Partitions[k].LeaderEpoch >= fsm[n].Partitions[k].LeaderEpoch
    OBVIOUS
  <2>1. applied[n] <= applied'[n]
    <3>1. applied[n] \in Nat /\ \A m \in Nodes : snap[m].index \in Nat
      BY DEF IInv, TypeOK
    <3>2. ASSUME NEW m \in Nodes, ApplyNext(m) PROVE applied[n] <= applied'[n]
      BY <3>1, <3>2 DEF ApplyNext, IInv, TypeOK
    <3>3. ASSUME NEW m \in Nodes, NEW r \in Nodes, InstallSnapshot(m, r) PROVE applied[n] <= applied'[n]
      BY <3>1, <3>3 DEF InstallSnapshot, IInv, TypeOK
    <3>4. ASSUME NEW m \in Nodes, Crash(m) \/ Restart(m) PROVE applied[n] <= applied'[n]
      BY <3>1, <3>4 DEF Crash, Restart, IInv, TypeOK
    <3>5. ASSUME NEW cmd \in Commands, Commit(cmd) PROVE applied[n] <= applied'[n]
      BY <3>1, <3>5 DEF Commit
    <3>6. ASSUME NEW m \in Nodes, TakeSnapshot(m) PROVE applied[n] <= applied'[n]
      BY <3>1, <3>6 DEF TakeSnapshot
    <3> QED
      BY <3>2, <3>3, <3>4, <3>5, <3>6 DEF Next
  <2>2. /\ applied[n] \in 0 .. Len(log) /\ Len(log) \in Nat
        /\ applied'[n] \in 0 .. Len(log') /\ Len(log') \in Nat
    BY DEF IInv, TypeOK
  <2>3. applied[n] \in 0 .. Len(log')
    BY <2>1, <2>2
  <2>4. hist'[applied[n]] = hist[applied[n]]
    <3>1. ASSUME NEW cmd \in Commands, Commit(cmd) PROVE hist'[applied[n]] = hist[applied[n]]
      <4>1. PICK v : hist' = Put(hist, Len(log) + 1, v)
        BY <3>1 DEF Commit
      <4>2. DOMAIN hist = 0 .. Len(log)
        BY DEF IInv, TypeOK
      <4>3. applied[n] \in DOMAIN hist /\ applied[n] # Len(log) + 1
        BY <2>2, <4>2
      <4> QED
        BY <4>1, <4>3 DEF Put
    <3>2. CASE UNCHANGED hist
      BY <3>2
    <3> QED
      BY <3>1, <3>2 DEF Next, ApplyNext, TakeSnapshot, InstallSnapshot, Crash, Restart
  <2>5. fsm[n] = hist'[applied[n]] /\ fsm'[n] = hist'[applied'[n]]
    BY <2>4 DEF IInv, NodesInv
  <2>6. /\ Later(fsm[n], fsm'[n]) /\ Good(fsm[n]) /\ Good(fsm'[n])
    BY <2>1, <2>2, <2>3, <2>5 DEF IInv, HistoryInv
  <2>7. SUFFICES ASSUME NEW k \in DOMAIN fsm[n].Partitions
                 PROVE  /\ k \in DOMAIN fsm'[n].Partitions
                        /\ fsm'[n].Partitions[k].PartitionEpoch >= fsm[n].Partitions[k].PartitionEpoch
                        /\ fsm'[n].Partitions[k].LeaderEpoch >= fsm[n].Partitions[k].LeaderEpoch
    OBVIOUS
  <2>8. k \in DOMAIN fsm'[n].Partitions /\ Follows(fsm[n].Partitions[k], fsm'[n].Partitions[k])
    BY <2>6 DEF Later
  <2>9. /\ fsm[n].Partitions[k].PartitionEpoch \in Nat /\ fsm[n].Partitions[k].LeaderEpoch \in Nat
        /\ fsm'[n].Partitions[k].PartitionEpoch \in Nat /\ fsm'[n].Partitions[k].LeaderEpoch \in Nat
    BY <2>6, <2>8 DEF Good, Shape
  <2> QED
    BY <2>8, <2>9 DEF Follows
<1> QED
  BY <1>1, Invariance, PTL DEF Spec, ReadsNeverGoBack
================================================================================
