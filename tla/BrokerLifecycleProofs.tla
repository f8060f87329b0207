------------------------ MODULE BrokerLifecycleProofs ------------------------
(***************************************************************************)
(* Proofs about the lives of a broker, for every number of topics,         *)
(* partitions, clients, starts and updates, and storage that fails in any  *)
(* directory, one at a time.                                               *)
(***************************************************************************)
EXTENDS BrokerLifecycle, TLAPS

(***************************************************************************)
(* The topic manager's operations, one slot at a time.                     *)
(***************************************************************************)

TmShape(m) ==
    /\ DOMAIN m = {"disk", "topics", "opened"}
    /\ DOMAIN m.topics = TopicNames
    /\ \A t \in TopicNames : \A i \in DOMAIN m.topics[t] : m.topics[t][i] \in Slots
    /\ m.opened \in [Keys -> Int]

\* A key is a topic and a partition.
LEMMA KeyParts ==
  ASSUME NEW k \in Keys
  PROVE  k = <<k[1], k[2]>> /\ k[1] \in TopicNames /\ k[2] \in Nat
  BY TopicManagerAssumption DEF Keys

\* What a slot can be.
LEMMA SlotTyped ==
  ASSUME NEW m, TmShape(m), NEW k \in Keys
  PROVE  SlotOf(m, k) \in Slots
  BY KeyParts DEF TmShape, SlotOf, Slots

\* An open partition is not a missing one.
LEMMA OpenIsNotNoLog ==
  ASSUME NEW slot \in [leader : {NoLeader} \cup Nat, epoch : Nat, isr : Seq(Nat)]
  PROVE  slot # NoLog
<1>1. slot \in [leader : Int, epoch : Nat, isr : Seq(Nat)]
  BY DEF NoLeader
<1> QED
  BY <1>1, TopicManagerAssumption

\* A new partition is open and without a role.
LEMMA UnassignedTyped == Unassigned \in Slots /\ Unassigned # NoLog /\ Unassigned.leader = NoLeader
<1>1. Unassigned \in [leader : {NoLeader} \cup Nat, epoch : Nat, isr : Seq(Nat)]
  BY DEF Unassigned
<1> QED
  BY Zenon, <1>1, OpenIsNotNoLog DEF Slots, Unassigned

\* SetSlot changes one slot.
LEMMA SetSlotOne ==
  ASSUME NEW m, TmShape(m), NEW k \in Keys, k[2] + 1 \in DOMAIN m.topics[k[1]],
         NEW slot \in Slots
  PROVE  /\ TmShape(SetSlot(m, k, slot))
         /\ SetSlot(m, k, slot).opened = m.opened
         /\ SlotOf(SetSlot(m, k, slot), k) = slot
         /\ \A j \in Keys : j # k => SlotOf(SetSlot(m, k, slot), j) = SlotOf(m, j)
<1> DEFINE n == SetSlot(m, k, slot)
<1>0. k = <<k[1], k[2]>> /\ k[1] \in TopicNames /\ k[2] \in Nat
  BY KeyParts
<1>1. /\ DOMAIN n = DOMAIN m /\ n.opened = m.opened
      /\ DOMAIN n.topics = TopicNames
      /\ \A t \in TopicNames : t # k[1] => n.topics[t] = m.topics[t]
      /\ n.topics[k[1]] = [m.topics[k[1]] EXCEPT ![k[2] + 1] = slot]
  BY <1>0 DEF SetSlot, TmShape
<1> HIDE DEF n
<1>2. TmShape(n)
  BY <1>0, <1>1 DEF TmShape
<1>3. SlotOf(n, k) = slot
  BY <1>0, <1>1 DEF SlotOf
<1>4. ASSUME NEW j \in Keys, j # k PROVE SlotOf(n, j) = SlotOf(m, j)
  <2>1. j = <<j[1], j[2]>> /\ j[1] \in TopicNames /\ j[2] \in Nat
    BY KeyParts
  <2>2. CASE j[1] # k[1]
    BY <1>1, <2>1, <2>2 DEF SlotOf
  <2>3. CASE j[1] = k[1]
    <3>1. j[2] # k[2]
      BY <1>0, <1>4, <2>1, <2>3
    <3>2. j[2] + 1 # k[2] + 1
      BY <1>0, <2>1, <3>1
    <3> QED
      BY <1>1, <2>3, <3>2 DEF SlotOf
  <2> QED
    BY <2>2, <2>3
<1> QED
  BY <1>1, <1>2, <1>3, <1>4 DEF n

\* Grow makes room and changes no slot.
LEMMA GrowNone ==
  ASSUME NEW m, TmShape(m), NEW k \in Keys
  PROVE  /\ TmShape(Grow(m, k))
         /\ k[2] + 1 \in DOMAIN Grow(m, k).topics[k[1]]
         /\ Grow(m, k).opened = m.opened
         /\ \A j \in Keys : SlotOf(Grow(m, k), j) = SlotOf(m, j)
<1> DEFINE n == Grow(m, k)
           old == m.topics[k[1]]
<1>0. k[1] \in TopicNames /\ k[2] \in Nat
  BY KeyParts
<1>1. /\ DOMAIN n = DOMAIN m /\ n.opened = m.opened
      /\ DOMAIN n.topics = TopicNames
      /\ \A t \in TopicNames : t # k[1] => n.topics[t] = m.topics[t]
      /\ n.topics[k[1]] = [i \in DOMAIN old \cup 1 .. k[2] + 1 |->
                               IF i \in DOMAIN old THEN old[i] ELSE NoLog]
  BY <1>0 DEF Grow, TmShape
<1>2. k[2] + 1 \in DOMAIN n.topics[k[1]]
  BY <1>0, <1>1
<1> HIDE DEF n
<1>3. TmShape(n)
  BY <1>0, <1>1 DEF TmShape, Slots
<1>4. ASSUME NEW j \in Keys PROVE SlotOf(n, j) = SlotOf(m, j)
  <2>1. j[1] \in TopicNames
    BY KeyParts
  <2> QED
    BY <1>1, <2>1 DEF SlotOf
<1> QED
  BY <1>1, <1>2, <1>3, <1>4 DEF n

\* NewLog counts the log it opens, and no other.
LEMMA NewLogCounts ==
  ASSUME NEW m, TmShape(m), NEW k \in Keys
  PROVE  /\ TmShape(NewLog(m, k))
         /\ NewLog(m, k).topics = m.topics
         /\ NewLog(m, k).opened[k] = m.opened[k] + IF CanOpen(k) THEN 1 ELSE 0
         /\ \A j \in Keys : j # k => NewLog(m, k).opened[j] = m.opened[j]
         /\ \A j \in Keys : SlotOf(NewLog(m, k), j) = SlotOf(m, j)
<1> DEFINE n == NewLog(m, k)
<1>1. /\ DOMAIN n = DOMAIN m /\ n.topics = m.topics
      /\ n.opened = [m.opened EXCEPT ![k] = IF CanOpen(k) THEN @ + 1 ELSE @]
  BY DEF NewLog, TmShape
<1>2. /\ n.opened \in [Keys -> Int]
      /\ n.opened[k] = m.opened[k] + IF CanOpen(k) THEN 1 ELSE 0
      /\ \A j \in Keys : j # k => n.opened[j] = m.opened[j]
  BY <1>1 DEF TmShape
<1> HIDE DEF n
<1>3. TmShape(n)
  BY <1>1, <1>2 DEF TmShape
<1> QED
  BY <1>1, <1>2, <1>3 DEF n, SlotOf

\* OpenSlot touches one slot, and opens a log exactly when it fills it.
LEMMA OpenSlotOne ==
  ASSUME NEW m, TmShape(m), NEW k \in Keys
  PROVE  LET n == OpenSlot(m, k) IN
         /\ TmShape(n)
         /\ k[2] + 1 \in DOMAIN n.topics[k[1]]
         /\ \A j \in Keys : j # k => SlotOf(n, j) = SlotOf(m, j) /\ n.opened[j] = m.opened[j]
         /\ \/ SlotOf(n, k) = SlotOf(m, k) /\ n.opened[k] = m.opened[k]
            \/ /\ SlotOf(m, k) = NoLog /\ SlotOf(n, k) = Unassigned
               /\ n.opened[k] = m.opened[k] + 1
<1> DEFINE g == Grow(m, k)
<1>1. /\ TmShape(g) /\ k[2] + 1 \in DOMAIN g.topics[k[1]] /\ g.opened = m.opened
      /\ \A j \in Keys : SlotOf(g, j) = SlotOf(m, j)
  BY GrowNone
<1> HIDE DEF g
<1> DEFINE l == NewLog(g, k)
<1>2. /\ TmShape(l) /\ l.topics = g.topics
      /\ l.opened[k] = g.opened[k] + IF CanOpen(k) THEN 1 ELSE 0
      /\ \A j \in Keys : j # k => l.opened[j] = g.opened[j]
      /\ \A j \in Keys : SlotOf(l, j) = SlotOf(g, j)
  BY <1>1, NewLogCounts
<1> HIDE DEF l
<1>3. CASE SlotOf(g, k) # NoLog
  <2>1. OpenSlot(m, k) = g
    BY <1>3 DEF OpenSlot, g
  <2> QED
    BY <1>1, <2>1
<1>4. CASE SlotOf(g, k) = NoLog /\ CanOpen(k)
  <2> DEFINE s == SetSlot(l, k, Unassigned)
  <2>1. OpenSlot(m, k) = s
    BY <1>4 DEF OpenSlot, g, l
  <2>2. /\ TmShape(s) /\ s.opened = l.opened /\ SlotOf(s, k) = Unassigned
        /\ \A j \in Keys : j # k => SlotOf(s, j) = SlotOf(l, j)
    BY <1>1, <1>2, UnassignedTyped, SetSlotOne
  <2>3. k[2] + 1 \in DOMAIN s.topics[k[1]]
    BY <2>2, UnassignedTyped DEF SlotOf
  <2> HIDE DEF s
  <2> QED
    BY <1>1, <1>2, <1>4, <2>1, <2>2, <2>3
<1>5. CASE SlotOf(g, k) = NoLog /\ ~CanOpen(k)
  <2>1. OpenSlot(m, k) = l
    BY <1>5 DEF OpenSlot, g, l
  <2>2. l.opened[k] = m.opened[k]
    BY <1>1, <1>2, <1>5 DEF TmShape
  <2> QED
    BY <1>1, <1>2, <2>1, <2>2
<1> QED
  BY <1>3, <1>4, <1>5

(***************************************************************************)
(* Roles and open logs.  P is the controller's map of partitions.          *)
(***************************************************************************)

\* The role in a slot is the controller's, or an older one.
RoleOf(slot, P, k) ==
    slot # NoLog /\ slot.leader # NoLeader =>
        /\ k \in DOMAIN P
        /\ slot.epoch <= P[k].LeaderEpoch
        /\ slot.epoch = P[k].LeaderEpoch => slot.leader = P[k].LeaderBrokerID

\* The metadata pm of k, read earlier, are the controller's or older ones.
MetadataOf(pm, P, k) ==
    /\ k \in DOMAIN P
    /\ pm.LeaderEpoch \in Nat /\ pm.LeaderBrokerID \in Nat /\ pm.ISR \in Seq(Nat)
    /\ pm.LeaderEpoch <= P[k].LeaderEpoch
    /\ pm.LeaderEpoch = P[k].LeaderEpoch => pm.LeaderBrokerID = P[k].LeaderBrokerID

Roles(m, P) == \A k \in Keys : RoleOf(SlotOf(m, k), P, k)

Accounted(m, d) ==
    \A k \in Keys :
        m.opened[k] = (IF SlotOf(m, k) # NoLog THEN 1 ELSE 0) + (IF k \in d THEN 1 ELSE 0)

OpenSlots == [leader : {NoLeader} \cup Nat, epoch : Nat, isr : Seq(Nat)]

\* A role that is given up leaves the partition open.
LEMMA GivenUp ==
  ASSUME NEW slot \in OpenSlots
  PROVE  LET new == [slot EXCEPT !.leader = NoLeader, !.isr = <<>>]
         IN  new \in OpenSlots /\ new.leader = NoLeader
<1> DEFINE led == [slot EXCEPT !.leader = NoLeader]
           new == [led EXCEPT !.isr = <<>>]
<1>1. led \in OpenSlots /\ led.leader = NoLeader
  BY DEF OpenSlots
<1> HIDE DEF led
<1>2. <<>> \in Seq(Nat)
  OBVIOUS
<1>3. new \in OpenSlots /\ new.leader = NoLeader
  BY Zenon, <1>1, <1>2 DEF OpenSlots
<1> QED
  BY <1>3 DEF led

\* AssignRole leaves a partition open, in a role that the metadata give it.
LEMMA AssignRoleOne ==
  ASSUME NEW slot \in OpenSlots, NEW P, NEW k, NEW pm, MetadataOf(pm, P, k), RoleOf(slot, P, k)
  PROVE  /\ AssignRole(slot, k, pm) \in OpenSlots
         /\ RoleOf(AssignRole(slot, k, pm), P, k)
<1> DEFINE new == AssignRole(slot, k, pm)
<1>1. CASE pm.LeaderBrokerID # Self
  <2>1. new = [leader |-> pm.LeaderBrokerID, epoch |-> pm.LeaderEpoch, isr |-> <<>>]
    BY <1>1 DEF AssignRole, MakeFollower
  <2> QED
    BY <2>1 DEF OpenSlots, RoleOf, MetadataOf
<1>2. CASE pm.LeaderBrokerID = Self /\ LeadsAt(slot, pm)
  <2>1. new = [slot EXCEPT !.isr = pm.ISR]
    BY <1>2 DEF AssignRole
  <2>2. new.leader = slot.leader /\ new.epoch = slot.epoch /\ new \in OpenSlots
    BY <2>1 DEF OpenSlots, MetadataOf
  <2>3. slot # NoLog
    BY OpenIsNotNoLog DEF OpenSlots
  <2> QED
    BY <2>2, <2>3 DEF RoleOf
<1>3. CASE pm.LeaderBrokerID = Self /\ ~LeadsAt(slot, pm) /\ CanLead(k)
  <2>1. new = [leader |-> Self, epoch |-> pm.LeaderEpoch, isr |-> pm.ISR]
    BY <1>3 DEF AssignRole, Leading
  <2> QED
    BY <1>3, <2>1, TopicManagerAssumption DEF OpenSlots, RoleOf, MetadataOf
<1>4. CASE pm.LeaderBrokerID = Self /\ ~LeadsAt(slot, pm) /\ ~CanLead(k)
  <2>1. new = [slot EXCEPT !.leader = NoLeader, !.isr = <<>>]
    BY <1>4 DEF AssignRole, Leading
  <2>2. new.leader = NoLeader /\ new \in OpenSlots
    BY Zenon, <2>1, GivenUp
  <2> QED
    BY <2>2 DEF RoleOf
<1> QED
  BY <1>1, <1>2, <1>3, <1>4

\* One turn of Reconcile's loop.
LEMMA ReconcileOneKeeps ==
  ASSUME NEW m, TmShape(m), NEW k \in Keys, NEW P, NEW pm, NEW d,
         MetadataOf(pm, P, k), Roles(m, P), Accounted(m, d)
  PROVE  LET n == ReconcileOne(m, k, pm) IN TmShape(n) /\ Roles(n, P) /\ Accounted(n, d)
<1> DEFINE o == OpenSlot(m, k)
<1>1. /\ TmShape(o) /\ k[2] + 1 \in DOMAIN o.topics[k[1]]
      /\ \A j \in Keys : j # k => SlotOf(o, j) = SlotOf(m, j) /\ o.opened[j] = m.opened[j]
      /\ \/ SlotOf(o, k) = SlotOf(m, k) /\ o.opened[k] = m.opened[k]
         \/ /\ SlotOf(m, k) = NoLog /\ SlotOf(o, k) = Unassigned
            /\ o.opened[k] = m.opened[k] + 1
  BY OpenSlotOne
<1>2. Roles(o, P)
  BY <1>1, UnassignedTyped DEF Roles, RoleOf
<1>3. Accounted(o, d)
  BY <1>1, UnassignedTyped DEF Accounted, TmShape
<1> HIDE DEF o
<1>4. CASE SlotOf(o, k) = NoLog
  <2>1. ReconcileOne(m, k, pm) = o
    BY <1>4 DEF ReconcileOne, o
  <2> QED
    BY <1>1, <1>2, <1>3, <2>1
<1>5. CASE SlotOf(o, k) # NoLog
  <2> DEFINE new == AssignRole(SlotOf(o, k), k, pm)
             n == SetSlot(o, k, new)
  <2>1. ReconcileOne(m, k, pm) = n
    BY <1>5 DEF ReconcileOne, o
  <2>2. SlotOf(o, k) \in OpenSlots
    BY <1>1, <1>5, SlotTyped DEF Slots, OpenSlots
  <2>3. new \in OpenSlots /\ RoleOf(new, P, k)
    BY <1>2, <2>2, AssignRoleOne DEF Roles
  <2> HIDE DEF new
  <2>4. new \in Slots /\ new # NoLog
    BY <2>3, OpenIsNotNoLog DEF Slots, OpenSlots
  <2>5. /\ TmShape(n) /\ n.opened = o.opened /\ SlotOf(n, k) = new
        /\ \A j \in Keys : j # k => SlotOf(n, j) = SlotOf(o, j)
    BY <1>1, <2>4, SetSlotOne
  <2> HIDE DEF n
  <2>6. Roles(n, P)
    BY <1>2, <2>3, <2>5 DEF Roles
  <2>7. Accounted(n, d)
    BY <1>3, <1>5, <2>4, <2>5 DEF Accounted
  <2> QED
    BY <2>1, <2>5, <2>6, <2>7
<1> QED
  BY <1>4, <1>5

\* The first loop of Reconcile.
LEMMA DropUndesiredKeeps ==
  ASSUME NEW m, TmShape(m), NEW P, NEW metadata, NEW d, Roles(m, P), Accounted(m, d)
  PROVE  LET n == DropUndesired(m, metadata) IN TmShape(n) /\ Roles(n, P) /\ Accounted(n, d)
<1> DEFINE n == DropUndesired(m, metadata)
           New(t, i) == IF m.topics[t][i] # NoLog /\ <<t, i - 1>> \notin DOMAIN metadata
                        THEN MakeUnassigned(m.topics[t][i]) ELSE m.topics[t][i]
<1>1. /\ DOMAIN n = DOMAIN m /\ n.opened = m.opened
      /\ n.topics = [t \in TopicNames |-> [i \in DOMAIN m.topics[t] |-> New(t, i)]]
  BY DEF DropUndesired, TmShape
<1>2. ASSUME NEW slot \in Slots, slot # NoLog
      PROVE  /\ MakeUnassigned(slot) \in Slots /\ MakeUnassigned(slot) # NoLog
             /\ MakeUnassigned(slot).leader = NoLeader
  <2>1. slot \in OpenSlots
    BY SMTT(30), <1>2 DEF Slots, OpenSlots
  <2>2. MakeUnassigned(slot) \in OpenSlots /\ MakeUnassigned(slot).leader = NoLeader
    BY Zenon, <2>1, GivenUp DEF MakeUnassigned
  <2> QED
    BY <2>2, OpenIsNotNoLog DEF Slots, OpenSlots
<1>3. ASSUME NEW t \in TopicNames, NEW i \in DOMAIN m.topics[t]
      PROVE  /\ New(t, i) \in Slots
             /\ New(t, i) = NoLog <=> m.topics[t][i] = NoLog
             /\ New(t, i) = m.topics[t][i] \/ New(t, i).leader = NoLeader
  BY <1>2 DEF TmShape
<1> HIDE DEF n, New
<1>4. TmShape(n)
  BY <1>1, <1>3 DEF TmShape
<1>5. ASSUME NEW k \in Keys
      PROVE  /\ SlotOf(n, k) = NoLog <=> SlotOf(m, k) = NoLog
             /\ SlotOf(n, k) = SlotOf(m, k) \/ SlotOf(n, k).leader = NoLeader
  BY <1>1, <1>3, KeyParts DEF SlotOf
<1>6. Roles(n, P)
  BY <1>5 DEF Roles, RoleOf
<1>7. Accounted(n, d)
  BY <1>1, <1>5 DEF Accounted
<1> QED
  BY <1>4, <1>6, <1>7 DEF n

\* A process that has just ended, or just begun.
LEMMA NoTopicsKeeps ==
  ASSUME NEW disk, NEW P
  PROVE  LET n == NoTopics(disk) IN TmShape(n) /\ Roles(n, P) /\ Accounted(n, {})
<1> DEFINE n == NoTopics(disk)
<1>1. TmShape(n)
  BY DEF NoTopics, TmShape
<1>2. \A k \in Keys : SlotOf(n, k) = NoLog /\ n.opened[k] = 0
  BY KeyParts DEF NoTopics, SlotOf
<1> HIDE DEF n
<1> QED
  BY <1>1, <1>2 DEF Roles, RoleOf, Accounted, n

\* recoverFromDisk opens each directory it finds once, and takes no role.
LEMMA RecoverKeeps ==
  ASSUME NEW disk, NEW P
  PROVE  LET n == RecoverFromDisk(disk) IN TmShape(n) /\ Roles(n, P) /\ Accounted(n, {})
<1> DEFINE n == RecoverFromDisk(disk)
           Found(k) == k \in disk /\ CanOpen(k)
           places(t) == {i \in 1 .. MaxPartitions : \E k \in disk : k[1] = t /\ i <= k[2] + 1}
<1>1. /\ DOMAIN n = {"disk", "topics", "opened"}
      /\ n.topics = [t \in TopicNames |-> [i \in places(t) |->
                        IF Found(<<t, i - 1>>) THEN Unassigned ELSE NoLog]]
      /\ n.opened = [k \in Keys |-> IF Found(k) THEN 1 ELSE 0]
  BY DEF RecoverFromDisk
<1>2. \A k \in Keys : Found(k) => k[2] + 1 \in places(k[1])
  <2> SUFFICES ASSUME NEW k \in Keys, k \in disk PROVE k[2] + 1 \in places(k[1])
    OBVIOUS
  <2>1. k[2] \in 0 .. MaxPartitions - 1
    BY DEF Keys
  <2> QED
    BY <2>1, TopicManagerAssumption
<1> HIDE DEF n, Found, places
<1>3. TmShape(n)
  BY <1>1, UnassignedTyped DEF TmShape, Slots
<1>4. ASSUME NEW k \in Keys
      PROVE  SlotOf(n, k) = IF Found(k) THEN Unassigned ELSE NoLog
  <2>1. k[1] \in TopicNames
    BY KeyParts
  <2> DEFINE i == k[2] + 1
             new(j) == IF Found(<<k[1], j - 1>>) THEN Unassigned ELSE NoLog
  <2>2. n.topics[k[1]] = [j \in places(k[1]) |-> new(j)]
    BY <1>1, <2>1
  <2>3. new(i) = IF Found(k) THEN Unassigned ELSE NoLog
    <3>0. i - 1 = k[2] /\ k = <<k[1], k[2]>>
      BY KeyParts
    <3> HIDE DEF i
    <3>1. <<k[1], i - 1>> = k
      BY <3>0, Zenon
    <3> QED
      BY <3>1, Zenon
  <2>4. SlotOf(n, k) = IF i \in DOMAIN n.topics[k[1]] THEN n.topics[k[1]][i] ELSE NoLog
    BY DEF SlotOf
  <2>5. Found(k) => i \in places(k[1])
    BY <1>2
  <2> HIDE DEF i, new
  <2> QED
    BY <2>2, <2>3, <2>4, <2>5
<1>5. Roles(n, P)
  BY <1>4, UnassignedTyped DEF Roles, RoleOf
<1>6. Accounted(n, {})
  BY <1>1, <1>4, UnassignedTyped DEF Accounted
<1> QED
  BY <1>3, <1>5, <1>6 DEF n

\* CreateTopic of a standalone broker, whether it succeeds or not.
LEMMA CreateTopicKeeps ==
  ASSUME NEW t \in TopicNames, NEW n \in 1 .. MaxPartitions, NEW d,
         TmShape(tm), Accounted(tm, d)
  PROVE  TmShape(CreateTopic(t, n)) /\ Accounted(CreateTopic(t, n), d)
<1> DEFINE keys == {t} \X (0 .. n - 1)
           failed == {k \in keys : ~CanOpen(k) \/ ~CanLead(k)}
           bad == CHOOSE k \in failed : \A j \in failed : k[2] <= j[2]
           removed == {k \in keys : k[2] < bad[2] \/ (k = bad /\ CanOpen(k))}
           m == CreateTopic(t, n)
<1>1. CASE tm.topics[t] # <<>>
  BY <1>1 DEF CreateTopic
<1>2. CASE tm.topics[t] = <<>> /\ failed = {}
  <2> DEFINE slot == [leader |-> Self, epoch |-> 1, isr |-> <<Self>>]
  <2>1. \A i \in 1 .. n : <<t, i - 1>> \in keys
    OBVIOUS
  <2>2. \A i \in 1 .. n : Leading(Unassigned, <<t, i - 1>>, 1, <<Self>>) = slot
    BY <1>2, <2>1 DEF Leading
  <2>3. /\ m.topics = [tm.topics EXCEPT ![t] = [i \in 1 .. n |->
                          Leading(Unassigned, <<t, i - 1>>, 1, <<Self>>)]]
        /\ m.opened = [k \in Keys |-> tm.opened[k] + IF k \in keys THEN 1 ELSE 0]
        /\ DOMAIN m = {"disk", "topics", "opened"}
    BY <1>2 DEF CreateTopic
  <2>4. slot \in Slots /\ slot # NoLog
    <3>1. slot \in OpenSlots
      BY TopicManagerAssumption DEF OpenSlots
    <3> QED
      BY <3>1, OpenIsNotNoLog DEF Slots, OpenSlots
  <2> HIDE DEF slot, m
  <2>5. /\ m.topics[t] = [i \in 1 .. n |-> slot]
        /\ DOMAIN m.topics = TopicNames
        /\ \A u \in TopicNames : u # t => m.topics[u] = tm.topics[u]
    <3> DEFINE old == [i \in 1 .. n |-> Leading(Unassigned, <<t, i - 1>>, 1, <<Self>>)]
    <3>1. old = [i \in 1 .. n |-> slot]
      BY <2>2
    <3>2. m.topics = [tm.topics EXCEPT ![t] = old]
      BY <2>3
    <3> HIDE DEF old
    <3>3. DOMAIN tm.topics = TopicNames
      BY DEF TmShape
    <3> QED
      BY <3>1, <3>2, <3>3
  <2>6. m.opened \in [Keys -> Int]
    BY <2>3 DEF TmShape
  <2>7. TmShape(m)
    BY <2>3, <2>4, <2>5, <2>6 DEF TmShape
  <2>8. ASSUME NEW k \in Keys
        PROVE  m.opened[k] = (IF SlotOf(m, k) # NoLog THEN 1 ELSE 0) + (IF k \in d THEN 1 ELSE 0)
    <3>1. k = <<k[1], k[2]>> /\ k[1] \in TopicNames /\ k[2] \in Nat
      BY KeyParts
    <3>2. tm.opened[k] = (IF SlotOf(tm, k) # NoLog THEN 1 ELSE 0) + (IF k \in d THEN 1 ELSE 0)
      BY DEF Accounted
    <3>3. m.opened[k] = tm.opened[k] + IF k \in keys THEN 1 ELSE 0
      BY <2>3
    <3>4. CASE k[1] # t
      <4>1. SlotOf(m, k) = SlotOf(tm, k)
        BY <2>5, <3>1, <3>4 DEF SlotOf
      <4>2. k \notin keys
        BY <3>4
      <4> QED
        BY <3>2, <3>3, <4>1, <4>2 DEF TmShape
    <3>5. CASE k[1] = t
      <4>1. SlotOf(tm, k) = NoLog
        BY <1>2, <3>1, <3>5 DEF SlotOf
      <4>2. k[2] + 1 \in 1 .. n <=> k \in keys
        BY <3>1, <3>5
      <4>3. SlotOf(m, k) = IF k \in keys THEN slot ELSE NoLog
        BY <2>5, <3>5, <4>2 DEF SlotOf
      <4> HIDE DEF keys
      <4> QED
        BY <2>4, <3>2, <3>3, <4>1, <4>3
    <3> QED
      BY <3>4, <3>5
  <2> QED
    BY <2>7, <2>8 DEF Accounted, m
<1>3. CASE tm.topics[t] = <<>> /\ failed # {}
  <2>1. m = [NewLog(tm, bad) EXCEPT !.disk = @ \ removed, !.opened = tm.opened]
    BY <1>3 DEF CreateTopic
  <2>2. /\ DOMAIN NewLog(tm, bad) = {"disk", "topics", "opened"}
        /\ NewLog(tm, bad).topics = tm.topics
    BY DEF NewLog, TmShape
  <2> HIDE DEF bad, removed, m
  <2>3. DOMAIN m = {"disk", "topics", "opened"} /\ m.topics = tm.topics /\ m.opened = tm.opened
    BY <2>1, <2>2
  <2>4. TmShape(m)
    BY <2>3 DEF TmShape
  <2>5. \A k \in Keys : SlotOf(m, k) = SlotOf(tm, k)
    BY <2>3 DEF SlotOf
  <2> QED
    BY <2>3, <2>4, <2>5 DEF Accounted, m
<1> QED
  BY <1>1, <1>2, <1>3

\* DeleteTopic, under the lock and after it.
LEMMA DeleteTopicKeeps ==
  ASSUME NEW t \in TopicNames, TmShape(tm), Accounted(tm, deleting), DeleteTopic(t)
  PROVE  TmShape(tm') /\ Accounted(tm', deleting')
<1>1. /\ deleting = {} /\ tm' = [tm EXCEPT !.topics[t] = <<>>]
      /\ deleting' = {k \in Keys : k[1] = t /\ SlotOf(tm, k) # NoLog}
  BY DEF DeleteTopic
<1>2. /\ DOMAIN tm' = DOMAIN tm /\ tm'.opened = tm.opened
      /\ DOMAIN tm'.topics = TopicNames /\ tm'.topics[t] = <<>>
      /\ \A u \in TopicNames : u # t => tm'.topics[u] = tm.topics[u]
  BY <1>1 DEF TmShape
<1>3. TmShape(tm')
  BY <1>2 DEF TmShape
<1>4. ASSUME NEW k \in Keys
      PROVE  SlotOf(tm', k) = IF k[1] = t THEN NoLog ELSE SlotOf(tm, k)
  BY <1>2, KeyParts DEF SlotOf
<1>5. Accounted(tm', deleting')
  BY <1>1, <1>2, <1>4 DEF Accounted
<1> QED
  BY <1>3, <1>5

\* One partition of a deleted topic is closed.
LEMMA DeletePartitionKeeps ==
  ASSUME TmShape(tm), Accounted(tm, deleting), DeletePartition
  PROVE  TmShape(tm') /\ Accounted(tm', deleting')
<1>1. PICK k \in deleting :
         /\ deleting' = deleting \ {k}
         /\ tm' = [tm EXCEPT !.opened[k] = @ - 1, !.disk = @ \ {k}]
  BY Zenon DEF DeletePartition
<1>2. /\ DOMAIN tm' = DOMAIN tm /\ tm'.topics = tm.topics
      /\ tm'.opened = [tm.opened EXCEPT ![k] = @ - 1]
  BY <1>1 DEF TmShape
<1>3. TmShape(tm')
  <2>1. \A j \in Keys : [tm.opened EXCEPT ![k] = @ - 1][j] \in Int
    BY DEF TmShape
  <2>2. tm'.opened \in [Keys -> Int]
    BY Zenon, <1>2, <2>1 DEF TmShape
  <2> QED
    BY <1>2, <2>2 DEF TmShape
<1>4. \A j \in Keys : SlotOf(tm', j) = SlotOf(tm, j)
  BY <1>2 DEF SlotOf
<1>5. \A j \in Keys : tm'.opened[j] = IF j = k THEN tm.opened[j] - 1 ELSE tm.opened[j]
  BY <1>2 DEF TmShape
<1>6. Accounted(tm', deleting')
  BY <1>1, <1>4, <1>5 DEF Accounted
<1> QED
  BY SMTT(30), <1>3, <1>6

(***************************************************************************)
(* The controller's commands.                                              *)
(***************************************************************************)

BrokerShape(b) == DOMAIN b = {"IncarnationID", "BrokerEpoch", "Endpoints", "Fenced"}

CtrlShape(s) ==
    /\ DOMAIN s = {"Brokers", "Topics", "Partitions"}
    /\ \A id \in DOMAIN s.Brokers : BrokerShape(s.Brokers[id])
    /\ \A k \in DOMAIN s.Partitions :
          /\ k[1] \in s.Topics
          /\ s.Partitions[k].LeaderEpoch \in Nat
          /\ s.Partitions[k].LeaderBrokerID \in Nat
          /\ s.Partitions[k].ISR \in Seq(Nat)

\* The partitions Q are P or later ones.
Later(P, Q) ==
    \A k \in DOMAIN P :
        /\ k \in DOMAIN Q
        /\ P[k].LeaderEpoch \in Nat /\ Q[k].LeaderEpoch \in Nat
        /\ P[k].LeaderEpoch <= Q[k].LeaderEpoch
        /\ P[k].LeaderEpoch = Q[k].LeaderEpoch => P[k].LeaderBrokerID = Q[k].LeaderBrokerID

\* Roles and metadata only grow older.
LEMMA LaterKeeps ==
  ASSUME NEW P, NEW Q, Later(P, Q)
  PROVE  /\ \A m : TmShape(m) /\ Roles(m, P) => Roles(m, Q)
         /\ \A pm, k : MetadataOf(pm, P, k) => MetadataOf(pm, Q, k)
<1>1. ASSUME NEW m, TmShape(m), Roles(m, P), NEW k \in Keys
      PROVE  RoleOf(SlotOf(m, k), Q, k)
  <2> DEFINE slot == SlotOf(m, k)
  <2>1. RoleOf(slot, P, k) /\ slot \in Slots
    BY <1>1, SlotTyped DEF Roles
  <2>2. slot # NoLog => slot.epoch \in Nat
    BY <2>1 DEF Slots
  <2> HIDE DEF slot
  <2>3. RoleOf(slot, Q, k)
    BY <2>1, <2>2 DEF RoleOf, Later
  <2> QED
    BY <2>3 DEF slot
<1>2. ASSUME NEW pm, NEW k, MetadataOf(pm, P, k)
      PROVE  MetadataOf(pm, Q, k)
  BY <1>2 DEF MetadataOf, Later
<1> QED
  BY <1>1, <1>2 DEF Roles

\* CreateTopic adds partitions of a topic that had none.
LEMMA CreateLater ==
  ASSUME NEW s, CtrlShape(s), NEW cmd, CreateTopicAccepted(s, cmd),
         \A i \in DOMAIN cmd.Partitions :
            cmd.Partitions[i].LeaderBrokerID \in Nat /\ cmd.Partitions[i].ISR \in Seq(Nat)
  PROVE  LET u == ApplyCreateTopic(s, cmd) IN
         CtrlShape(u) /\ u.Brokers = s.Brokers /\ Later(s.Partitions, u.Partitions)
<1> DEFINE u == ApplyCreateTopic(s, cmd)
           keys == {<<cmd.Topic, cmd.Partitions[i].Partition>> : i \in DOMAIN cmd.Partitions}
           specOf(k) == cmd.Partitions[CHOOSE i \in DOMAIN cmd.Partitions :
                                           cmd.Partitions[i].Partition = k[2]]
           new(k) == [LeaderBrokerID |-> specOf(k).LeaderBrokerID,
                      LeaderEpoch    |-> 0,
                      PartitionEpoch |-> 0,
                      Replicas       |-> specOf(k).Replicas,
                      ISR            |-> specOf(k).ISR]
<1>1. /\ DOMAIN u = DOMAIN s /\ u.Brokers = s.Brokers
      /\ u.Topics = s.Topics \cup {cmd.Topic}
      /\ u.Partitions = [k \in DOMAIN s.Partitions \cup keys |->
                            IF k \in keys THEN new(k) ELSE s.Partitions[k]]
  BY DEF ApplyCreateTopic, CtrlShape
<1>2. \A k \in keys : specOf(k).LeaderBrokerID \in Nat /\ specOf(k).ISR \in Seq(Nat)
  <2> SUFFICES ASSUME NEW k \in keys
               PROVE  specOf(k).LeaderBrokerID \in Nat /\ specOf(k).ISR \in Seq(Nat)
    OBVIOUS
  <2>1. \E i \in DOMAIN cmd.Partitions : cmd.Partitions[i].Partition = k[2]
    OBVIOUS
  <2> DEFINE c == CHOOSE i \in DOMAIN cmd.Partitions : cmd.Partitions[i].Partition = k[2]
  <2>2. c \in DOMAIN cmd.Partitions
    BY <2>1
  <2> QED
    BY <2>2
<1>3. \A k \in keys : k[1] = cmd.Topic
  OBVIOUS
<1>4. cmd.Topic \notin s.Topics
  BY DEF CreateTopicAccepted
<1>5. \A k \in DOMAIN s.Partitions : k \notin keys
  BY SMTT(30), <1>3, <1>4 DEF CtrlShape
<1>6. \A k \in keys : /\ new(k).LeaderEpoch = 0
                      /\ new(k).LeaderBrokerID \in Nat /\ new(k).ISR \in Seq(Nat)
  BY <1>2
<1> HIDE DEF u, keys, specOf, new
<1>7. CtrlShape(u)
  BY <1>1, <1>3, <1>5, <1>6 DEF CtrlShape
<1>8. Later(s.Partitions, u.Partitions)
  BY <1>1, <1>5 DEF Later, CtrlShape
<1> QED
  BY <1>1, <1>7, <1>8 DEF u

\* UpdatePartition raises the leader epoch when it changes the leader.
LEMMA UpdateLater ==
  ASSUME NEW s, CtrlShape(s), NEW cmd, UpdatePartitionAccepted(s, cmd),
         cmd.LeaderBrokerID \in Nat, cmd.ISR \in Seq(Nat)
  PROVE  LET u == ApplyUpdatePartition(s, cmd) IN
         CtrlShape(u) /\ u.Brokers = s.Brokers /\ Later(s.Partitions, u.Partitions)
<1> DEFINE u == ApplyUpdatePartition(s, cmd)
           key == <<cmd.Topic, cmd.Partition>>
           new == UpdatedPartition(s.Partitions[key], cmd)
<1>1. key \in DOMAIN s.Partitions
  BY DEF UpdatePartitionAccepted
<1>2. /\ DOMAIN u = DOMAIN s /\ u.Brokers = s.Brokers /\ u.Topics = s.Topics
      /\ u.Partitions = [s.Partitions EXCEPT ![key] = new]
  BY DEF ApplyUpdatePartition, CtrlShape
<1>3. /\ new.LeaderBrokerID = cmd.LeaderBrokerID /\ new.ISR = cmd.ISR
      /\ new.LeaderEpoch = IF cmd.LeaderBrokerID # s.Partitions[key].LeaderBrokerID
                           THEN s.Partitions[key].LeaderEpoch + 1
                           ELSE s.Partitions[key].LeaderEpoch
  BY DEF UpdatedPartition
<1>4. s.Partitions[key].LeaderEpoch \in Nat
  BY <1>1 DEF CtrlShape
<1> HIDE DEF u, key, new
<1>5. CtrlShape(u)
  BY <1>1, <1>2, <1>3, <1>4 DEF CtrlShape
<1>6. Later(s.Partitions, u.Partitions)
  BY <1>1, <1>2, <1>3, <1>4 DEF Later, CtrlShape
<1> QED
  BY <1>2, <1>5, <1>6 DEF u

\* The broker is in the controller's map under its incarnation; no partition
\* changes.
LEMMA RegisterShape ==
  ASSUME NEW s, CtrlShape(s), NEW inc, NEW eps, NEW index
  PROVE  LET cmd == [type |-> "RegisterBroker", ID |-> Self, IncarnationID |-> inc,
                     Endpoints |-> eps]
             u == ApplyRegisterBroker(s, cmd, index)
         IN  /\ CtrlShape(u) /\ u.Partitions = s.Partitions
             /\ Self \in DOMAIN u.Brokers /\ u.Brokers[Self].IncarnationID = inc
<1> DEFINE cmd == [type |-> "RegisterBroker", ID |-> Self, IncarnationID |-> inc,
                   Endpoints |-> eps]
           u == ApplyRegisterBroker(s, cmd, index)
<1>1. cmd.ID = Self /\ cmd.IncarnationID = inc
  OBVIOUS
<1> HIDE DEF cmd
<1>2. CASE IsRetry(s, cmd)
  BY SMTT(30), <1>1, <1>2 DEF ApplyRegisterBroker, IsRetry, cmd
<1>3. CASE ~IsRetry(s, cmd)
  <2> DEFINE b == [IncarnationID |-> cmd.IncarnationID, BrokerEpoch |-> index,
                   Endpoints |-> NormalizeEndpoints(cmd.Endpoints), Fenced |-> TRUE]
  <2>1. u = [s EXCEPT !.Brokers = Put(@, cmd.ID, b)]
    BY SMTT(30), <1>3 DEF ApplyRegisterBroker
  <2>2. BrokerShape(b) /\ b.IncarnationID = inc
    BY <1>1 DEF BrokerShape
  <2> HIDE DEF b, u
  <2>3. /\ DOMAIN u = DOMAIN s /\ u.Topics = s.Topics /\ u.Partitions = s.Partitions
        /\ u.Brokers = Put(s.Brokers, Self, b)
    BY <1>1, <2>1 DEF CtrlShape
  <2>4. /\ Self \in DOMAIN u.Brokers /\ u.Brokers[Self] = b
        /\ \A id \in DOMAIN u.Brokers : BrokerShape(u.Brokers[id])
    BY <2>2, <2>3 DEF Put, CtrlShape
  <2>5. CtrlShape(u)
    BY <2>3, <2>4 DEF CtrlShape
  <2> QED
    BY <2>2, <2>3, <2>4, <2>5 DEF u, cmd
<1> QED
  BY <1>2, <1>3

\* UnfenceBroker changes whether the broker is fenced, and nothing else.
LEMMA UnfenceShape ==
  ASSUME NEW s, CtrlShape(s), NEW cmd, cmd.BrokerID \in DOMAIN s.Brokers
  PROVE  LET u == ApplyUnfenceBroker(s, cmd) IN
         /\ CtrlShape(u) /\ u.Partitions = s.Partitions
         /\ DOMAIN u.Brokers = DOMAIN s.Brokers
         /\ u.Brokers[cmd.BrokerID].IncarnationID = s.Brokers[cmd.BrokerID].IncarnationID
         /\ u.Brokers[cmd.BrokerID].BrokerEpoch = s.Brokers[cmd.BrokerID].BrokerEpoch
         /\ u.Brokers[cmd.BrokerID].Fenced = FALSE
<1> DEFINE u == ApplyUnfenceBroker(s, cmd)
           id == cmd.BrokerID
           b == [s.Brokers[id] EXCEPT !.Fenced = FALSE]
<1>1. BrokerShape(s.Brokers[id])
  BY DEF CtrlShape
<1>2. /\ BrokerShape(b) /\ b.Fenced = FALSE
      /\ b.IncarnationID = s.Brokers[id].IncarnationID
      /\ b.BrokerEpoch = s.Brokers[id].BrokerEpoch
  BY <1>1 DEF BrokerShape
<1>3. /\ DOMAIN u = DOMAIN s /\ u.Topics = s.Topics /\ u.Partitions = s.Partitions
      /\ u.Brokers = [s.Brokers EXCEPT ![id] = b]
  BY DEF ApplyUnfenceBroker, CtrlShape
<1> HIDE DEF u, b
<1>4. /\ DOMAIN u.Brokers = DOMAIN s.Brokers /\ u.Brokers[id] = b
      /\ \A j \in DOMAIN u.Brokers : BrokerShape(u.Brokers[j])
  BY <1>2, <1>3 DEF CtrlShape
<1>5. CtrlShape(u)
  BY <1>3, <1>4 DEF CtrlShape
<1> QED
  BY <1>2, <1>3, <1>4, <1>5 DEF u

(***************************************************************************)
(* The inductive invariant.  Beyond the properties it says what a call of  *)
(* Reconcile holds: metadata that were the controller's when it read them. *)
(***************************************************************************)

PassInv ==
    /\ DOMAIN pass = {"running", "left", "metadata"}
    /\ pass.running =>
          /\ controlled
          /\ proc \in {"reconcile", "fetch", "running"}
          /\ pass.left \subseteq DOMAIN pass.metadata
          /\ DOMAIN pass.metadata \subseteq Keys
          /\ \A k \in DOMAIN pass.metadata :
                MetadataOf(pass.metadata[k], ctrl.Partitions, k)

Registered ==
    controlled /\ proc \in {"reconcile", "fetch", "unfence", "running"} =>
        /\ Self \in DOMAIN ctrl.Brokers
        /\ ctrl.Brokers[Self].IncarnationID = incarnation
        /\ ctrl.Brokers[Self].BrokerEpoch = brokerEpoch
        /\ proc = "running" => ctrl.Brokers[Self].Fenced = FALSE

TmInv ==
    /\ TmShape(tm)
    /\ Accounted(tm, deleting)
    /\ controlled => Roles(tm, ctrl.Partitions)
    /\ proc = "down" => deleting = {}

IInv == CtrlShape(ctrl) /\ TmInv /\ PassInv /\ Registered

CreatingInv == creating \in [Clients -> TopicNames \cup {NoTopic}]

\* No call of Reconcile is running.
LEMMA NoPassHolds == DOMAIN NoPass = {"running", "left", "metadata"} /\ NoPass.running = FALSE
  BY DEF NoPass

\* Before the first start.
LEMMA InitHolds == Init => IInv
<1> SUFFICES ASSUME Init PROVE IInv
  OBVIOUS
<1> DEFINE b == [IncarnationID |-> 1, BrokerEpoch |-> 1, Fenced |-> FALSE,
                 Endpoints |-> NormalizeEndpoints(Endpoints)]
<1>1. ctrl = [NewControllerState EXCEPT !.Brokers = Put(@, Other, b)]
  BY DEF Init
<1>2. BrokerShape(b)
  BY DEF BrokerShape
<1> HIDE DEF b
<1>3. /\ DOMAIN ctrl = {"Brokers", "Topics", "Partitions"}
      /\ ctrl.Brokers = Put(EmptyMap, Other, b) /\ ctrl.Partitions = EmptyMap
  BY <1>1 DEF NewControllerState
<1>4. CtrlShape(ctrl)
  BY <1>2, <1>3 DEF CtrlShape, Put, EmptyMap
<1>5. TmInv
  BY NoTopicsKeeps DEF Init, TmInv
<1>6. PassInv
  BY NoPassHolds DEF Init, PassInv
<1>7. Registered
  BY DEF Init, Registered
<1> QED
  BY <1>4, <1>5, <1>6, <1>7 DEF IInv

\* The process ends, whatever the controller did.
LEMMA ExitKeeps ==
  ASSUME IInv, Exit, CtrlShape(ctrl'), UNCHANGED controlled
  PROVE  IInv'
<1>1. TmInv'
  BY NoTopicsKeeps DEF Exit, TmInv
<1>2. PassInv'
  BY NoPassHolds DEF Exit, EndPass, PassInv
<1>3. Registered'
  BY DEF Exit, Registered
<1> QED
  BY <1>1, <1>2, <1>3 DEF IInv

\* The controller changes its partitions.
LEMMA ControllerKeeps ==
  ASSUME IInv, CtrlShape(ctrl'), ctrl'.Brokers = ctrl.Brokers,
         Later(ctrl.Partitions, ctrl'.Partitions),
         UNCHANGED <<topicVars, controlled, proc, incarnation, pass, brokerEpoch, creating>>
  PROVE  IInv'
<1>1. UNCHANGED <<tm, deleting, controlled, proc, incarnation, pass, brokerEpoch>>
  BY DEF topicVars
<1>2. TmInv'
  <2>1. TmShape(tm') /\ Accounted(tm', deleting') /\ (proc' = "down" => deleting' = {})
    BY <1>1 DEF IInv, TmInv
  <2>2. controlled' => Roles(tm', ctrl'.Partitions)
    BY <1>1, LaterKeeps DEF IInv, TmInv
  <2> QED
    BY <2>1, <2>2 DEF TmInv
<1>3. PassInv'
  <2>1. ASSUME pass.running, NEW k \in DOMAIN pass.metadata
        PROVE  MetadataOf(pass.metadata[k], ctrl'.Partitions, k)
    BY <2>1, LaterKeeps DEF IInv, PassInv
  <2> QED
    BY SMTT(30), <1>1, <2>1 DEF IInv, PassInv
<1>4. Registered'
  BY <1>1 DEF IInv, Registered
<1> QED
  BY <1>2, <1>3, <1>4 DEF IInv

\* From now on the registration is this incarnation's.
LEMMA RegisterKeeps == ASSUME IInv, Register PROVE IInv'
<1> DEFINE cmd == [type |-> "RegisterBroker", ID |-> Self,
                   IncarnationID |-> incarnation, Endpoints |-> Endpoints]
           next == proc' = "reconcile" /\ brokerEpoch' = ctrl'.Brokers[Self].BrokerEpoch
<1>1. SendCommand(cmd, next) /\ UNCHANGED <<fault, controlled, incarnation>> /\ proc = "register"
  BY Zenon DEF Register
<1>2. CASE Accepted(ctrl, cmd, incarnation) /\ ctrl' = Apply(ctrl, cmd, incarnation)
  <2>1. cmd.type = "RegisterBroker"
    OBVIOUS
  <2>2. ctrl' = ApplyRegisterBroker(ctrl, cmd, incarnation)
    <3> HIDE DEF cmd
    <3> QED
      BY <1>2, <2>1 DEF Apply
  <2>3. /\ CtrlShape(ctrl') /\ ctrl'.Partitions = ctrl.Partitions
        /\ Self \in DOMAIN ctrl'.Brokers /\ ctrl'.Brokers[Self].IncarnationID = incarnation
    BY <2>2, RegisterShape DEF IInv
  <2>4. CASE Exit
    BY <1>1, <2>3, <2>4, ExitKeeps
  <2>5. CASE next /\ UNCHANGED <<tm, deleting, pass, creating>>
    <3>1. TmInv'
      BY SMTT(30), <1>1, <2>3, <2>5 DEF IInv, TmInv
    <3>2. PassInv'
      BY SMTT(30), <1>1, <2>3, <2>5 DEF IInv, PassInv
    <3>3. Registered'
      BY <1>1, <2>3, <2>5 DEF Registered
    <3> QED
      BY <2>3, <3>1, <3>2, <3>3 DEF IInv
  <2> HIDE DEF cmd, next
  <2>6. Exit \/ (next /\ UNCHANGED <<tm, deleting, pass, creating>>)
    BY <1>1 DEF SendCommand
  <2> QED
    BY <2>4, <2>5, <2>6
<1>3. CASE Exit /\ UNCHANGED ctrl
  BY <1>1, <1>3, ExitKeeps DEF IInv
<1> HIDE DEF cmd, next
<1> QED
  BY <1>1, <1>2, <1>3 DEF SendCommand

\* The broker serves when its registration is unfenced.
LEMMA UnfenceKeeps == ASSUME IInv, Unfence PROVE IInv'
<1> DEFINE cmd == [type |-> "UnfenceBroker", BrokerID |-> Self, BrokerEpoch |-> brokerEpoch]
           next == proc' = "running" /\ UNCHANGED brokerEpoch
<1>1. SendCommand(cmd, next) /\ UNCHANGED <<fault, controlled, incarnation>> /\ proc = "unfence"
  BY DEF Unfence
<1>2. CASE Accepted(ctrl, cmd, incarnation) /\ ctrl' = Apply(ctrl, cmd, incarnation)
  <2>1. cmd.type = "UnfenceBroker" /\ cmd.BrokerID = Self
    OBVIOUS
  <2> HIDE DEF cmd
  <2>2. ctrl' = ApplyUnfenceBroker(ctrl, cmd) /\ Self \in DOMAIN ctrl.Brokers
    BY <1>2, <2>1 DEF Apply, Accepted, UnfenceBrokerAccepted
  <2>3. /\ CtrlShape(ctrl') /\ ctrl'.Partitions = ctrl.Partitions
        /\ Self \in DOMAIN ctrl'.Brokers
        /\ ctrl'.Brokers[Self].IncarnationID = ctrl.Brokers[Self].IncarnationID
        /\ ctrl'.Brokers[Self].BrokerEpoch = ctrl.Brokers[Self].BrokerEpoch
        /\ ctrl'.Brokers[Self].Fenced = FALSE
    BY Zenon, <2>1, <2>2, UnfenceShape DEF IInv
  <2>4. CASE Exit
    BY <1>1, <2>3, <2>4, ExitKeeps
  <2>5. CASE next /\ UNCHANGED <<tm, deleting, pass, creating>>
    <3>1. TmInv'
      BY <1>1, <2>3, <2>5 DEF IInv, TmInv
    <3>2. PassInv'
      BY <1>1, <2>3, <2>5 DEF IInv, PassInv
    <3>3. Registered'
      BY <1>1, <2>3, <2>5 DEF IInv, Registered
    <3> QED
      BY <2>3, <3>1, <3>2, <3>3 DEF IInv
  <2> HIDE DEF next
  <2>6. Exit \/ (next /\ UNCHANGED <<tm, deleting, pass, creating>>)
    BY <1>1 DEF SendCommand
  <2> QED
    BY <2>4, <2>5, <2>6
<1>3. CASE Exit /\ UNCHANGED ctrl
  BY <1>1, <1>3, ExitKeeps DEF IInv
<1> HIDE DEF cmd, next
<1> QED
  BY <1>1, <1>2, <1>3 DEF SendCommand

\* What Reconcile reads are the controller's metadata of this moment.
LEMMA BeginReconcileKeeps == ASSUME IInv, BeginReconcile PROVE IInv'
<1> DEFINE metadata == [k \in PartitionsForBroker |-> ctrl.Partitions[k]]
<1>1. /\ pass' = [running |-> TRUE, left |-> PartitionsForBroker, metadata |-> metadata]
      /\ tm' = DropUndesired(tm, metadata)
      /\ controlled /\ proc \in {"reconcile", "fetch", "running"}
      /\ UNCHANGED <<fault, deleting, controlled, ctrl, proc, incarnation, brokerEpoch>>
  BY DEF BeginReconcile
<1>2. DOMAIN metadata = PartitionsForBroker /\ PartitionsForBroker \subseteq Keys
  BY SMTT(30) DEF PartitionsForBroker
<1>3. \A k \in DOMAIN metadata : MetadataOf(metadata[k], ctrl.Partitions, k)
  BY DEF PartitionsForBroker, MetadataOf, IInv, CtrlShape
<1> HIDE DEF metadata
<1>4. TmInv'
  BY SMTT(30), <1>1, DropUndesiredKeeps DEF IInv, TmInv
<1>5. PassInv'
  BY Zenon, <1>1, <1>2, <1>3 DEF PassInv
<1>6. Registered'
  BY <1>1 DEF IInv, Registered
<1> QED
  BY <1>1, <1>4, <1>5, <1>6 DEF IInv

\* Reconcile takes a role from metadata that may have become old.
LEMMA ReconcileNextKeeps == ASSUME IInv, ReconcileNext PROVE IInv'
<1>1. PICK k \in pass.left :
         /\ tm' = ReconcileOne(tm, k, pass.metadata[k])
         /\ \/ pass' = [pass EXCEPT !.left = @ \ {k}] /\ UNCHANGED proc
            \/ EndPass /\ proc' = IF proc = "running" THEN proc ELSE "failed"
  BY DEF ReconcileNext
<1>2. /\ pass.running
      /\ UNCHANGED <<fault, deleting, controlled, ctrl, incarnation, brokerEpoch, creating>>
  BY DEF ReconcileNext
<1>3. /\ controlled /\ k \in Keys /\ k \in DOMAIN pass.metadata
      /\ MetadataOf(pass.metadata[k], ctrl.Partitions, k)
      /\ proc \in {"reconcile", "fetch", "running"}
      /\ DOMAIN pass = {"running", "left", "metadata"}
  BY <1>2 DEF IInv, PassInv
<1>4. /\ TmShape(tm') /\ Roles(tm', ctrl.Partitions) /\ Accounted(tm', deleting)
  BY <1>1, <1>3, ReconcileOneKeeps DEF IInv, TmInv
<1>5. TmInv'
  BY <1>1, <1>2, <1>3, <1>4 DEF TmInv
<1>6. PassInv'
  <2>1. CASE pass' = [pass EXCEPT !.left = @ \ {k}] /\ UNCHANGED proc
    <3>1. /\ DOMAIN pass' = DOMAIN pass /\ pass'.running = pass.running
          /\ pass'.metadata = pass.metadata /\ pass'.left \subseteq pass.left
      BY <1>3, <2>1
    <3> QED
      BY <1>2, <2>1, <3>1 DEF IInv, PassInv
  <2>2. CASE EndPass
    BY <2>2, NoPassHolds DEF EndPass, PassInv
  <2> QED
    BY <1>1, <2>1, <2>2
<1>7. Registered'
  BY <1>1, <1>2, <1>3 DEF IInv, Registered
<1> QED
  BY <1>2, <1>5, <1>6, <1>7 DEF IInv

\* Reconcile comes to its end.
LEMMA ReconcileReturnsKeeps == ASSUME IInv, ReconcileReturns PROVE IInv'
<1>1. /\ pass.running /\ EndPass
      /\ proc' = CASE proc = "reconcile" -> "fetch"
                   [] proc = "fetch"     -> "unfence"
                   [] proc = "running"   -> "running"
      /\ UNCHANGED <<tm, fault, deleting, controlled, ctrl, incarnation, brokerEpoch>>
  BY DEF ReconcileReturns, topicVars
<1>2. proc \in {"reconcile", "fetch", "running"}
  BY <1>1 DEF IInv, PassInv
<1>3. /\ proc' \in {"fetch", "unfence", "running"}
      /\ proc' = "running" => proc = "running"
  BY <1>1, <1>2
<1>4. TmInv'
  BY Zenon, <1>1, <1>3 DEF IInv, TmInv
<1>5. PassInv'
  BY <1>1, NoPassHolds DEF EndPass, PassInv
<1>6. Registered'
  BY <1>1, <1>2, <1>3 DEF IInv, Registered
<1> QED
  BY <1>1, <1>4, <1>5, <1>6 DEF IInv

\* The specs of the controller's commands.
LEMMA SpecsTyped ==
  ASSUME NEW spec \in Specs
  PROVE  spec.LeaderBrokerID \in Nat /\ spec.ISR \in Seq(Nat)
<1>1. Self \in Nat /\ Other \in Nat
  BY TopicManagerAssumption, BrokerLifecycleAssumption
<1>2. /\ spec.LeaderBrokerID \in {Self, Other}
      /\ spec.ISR \in {<<Self>>, <<Other>>, <<Self, Other>>}
  BY DEF Specs
<1>3. <<Self>> \in Seq(Nat) /\ <<Other>> \in Seq(Nat) /\ <<Self, Other>> \in Seq(Nat)
  BY <1>1
<1>4. spec.LeaderBrokerID \in Nat
  BY <1>1, <1>2
<1>5. spec.ISR \in Seq(Nat)
  BY <1>2, <1>3, Zenon
<1> QED
  BY <1>4, <1>5

\* The controller's CreateTopic.
LEMMA CreateControllerTopicKeeps == ASSUME IInv, CreateControllerTopic PROVE IInv'
<1> DEFINE part(spec, i) == [Partition |-> i - 1, LeaderBrokerID |-> spec.LeaderBrokerID,
                             Replicas |-> spec.Replicas, ISR |-> spec.ISR]
           command(t, spec, n) == [type |-> "CreateTopic", Topic |-> t,
                                   Partitions |-> [i \in 1 .. n |-> part(spec, i)]]
<1>1. PICK t \in TopicNames, spec \in Specs, n \in 1 .. MaxPartitions :
         /\ Accepted(ctrl, command(t, spec, n), incarnation)
         /\ ctrl' = Apply(ctrl, command(t, spec, n), incarnation)
  BY Zenon DEF CreateControllerTopic
<1> DEFINE cmd == command(t, spec, n)
<1>2. /\ cmd.type = "CreateTopic"
      /\ \A i \in DOMAIN cmd.Partitions :
            /\ cmd.Partitions[i].LeaderBrokerID = spec.LeaderBrokerID
            /\ cmd.Partitions[i].ISR = spec.ISR
  OBVIOUS
<1>3. Accepted(ctrl, cmd, incarnation) /\ ctrl' = Apply(ctrl, cmd, incarnation)
  BY <1>1
<1> HIDE DEF cmd
<1>4. CreateTopicAccepted(ctrl, cmd) /\ ctrl' = ApplyCreateTopic(ctrl, cmd)
  BY <1>2, <1>3 DEF Accepted, Apply
<1>5. /\ CtrlShape(ctrl') /\ ctrl'.Brokers = ctrl.Brokers
      /\ Later(ctrl.Partitions, ctrl'.Partitions)
  BY SMTT(30), <1>2, <1>4, SpecsTyped, CreateLater DEF IInv
<1> QED
  BY <1>5, ControllerKeeps DEF CreateControllerTopic

\* The controller's UpdatePartition.
LEMMA UpdatePartitionKeeps == ASSUME IInv, UpdatePartition PROVE IInv'
<1> DEFINE command(k, spec) ==
             [type |-> "UpdatePartition", Topic |-> k[1], Partition |-> k[2],
              ExpectedPartitionEpoch |-> ctrl.Partitions[k].PartitionEpoch,
              LeaderBrokerID |-> spec.LeaderBrokerID, Replicas |-> spec.Replicas,
              ISR |-> spec.ISR, AllowUncleanElection |-> TRUE]
<1>1. PICK k \in DOMAIN ctrl.Partitions, spec \in Specs :
         /\ Accepted(ctrl, command(k, spec), incarnation)
         /\ ctrl' = Apply(ctrl, command(k, spec), incarnation)
  BY Zenon DEF UpdatePartition
<1> DEFINE cmd == command(k, spec)
<1>2. /\ cmd.type = "UpdatePartition" /\ cmd.LeaderBrokerID = spec.LeaderBrokerID
      /\ cmd.ISR = spec.ISR
  OBVIOUS
<1>3. Accepted(ctrl, cmd, incarnation) /\ ctrl' = Apply(ctrl, cmd, incarnation)
  BY <1>1
<1> HIDE DEF cmd
<1>4. UpdatePartitionAccepted(ctrl, cmd) /\ ctrl' = ApplyUpdatePartition(ctrl, cmd)
  BY <1>2, <1>3 DEF Accepted, Apply
<1>5. /\ CtrlShape(ctrl') /\ ctrl'.Brokers = ctrl.Brokers
      /\ Later(ctrl.Partitions, ctrl'.Partitions)
  BY <1>2, <1>4, SpecsTyped, UpdateLater DEF IInv
<1> QED
  BY SMTT(30), <1>5, ControllerKeeps DEF UpdatePartition

\* A standalone broker's topics change under a running process only.
LEMMA StandaloneKeeps ==
  ASSUME IInv, Serving, OnlyTopics, TmShape(tm'), Accounted(tm', deleting')
  PROVE  IInv'
<1>1. /\ ~controlled /\ proc = "running"
      /\ UNCHANGED <<controlled, ctrl, proc, incarnation, pass, brokerEpoch>>
  BY DEF Serving, OnlyTopics
<1>2. TmInv'
  BY SMTT(30), <1>1 DEF TmInv
<1>3. PassInv'
  BY <1>1 DEF IInv, PassInv
<1>4. Registered'
  BY <1>1 DEF Registered
<1> QED
  BY <1>1, <1>2, <1>3, <1>4 DEF IInv

\* Faults and metadata requests that only look change nothing of it.
LEMMA SameKeeps ==
  ASSUME IInv, UNCHANGED <<tm, deleting, controlled, ctrl, proc, incarnation, pass, brokerEpoch>>
  PROVE  IInv'
<1>1. TmInv'
  BY SMTT(30) DEF IInv, TmInv
<1>2. PassInv'
  BY DEF IInv, PassInv
<1>3. Registered'
  BY DEF IInv, Registered
<1> QED
  BY <1>1, <1>2, <1>3 DEF IInv

\* A process starts, with no role.
LEMMA NewBrokerKeeps == ASSUME IInv, NewBroker PROVE IInv'
<1>1. /\ proc = "down" /\ tm' = RecoverFromDisk(tm.disk)
      /\ proc' = IF controlled THEN "register" ELSE "running"
      /\ UNCHANGED <<fault, deleting, controlled, ctrl, pass, brokerEpoch, creating>>
  BY DEF NewBroker
<1>2. TmInv'
  BY SMTT(30), <1>1, RecoverKeeps DEF IInv, TmInv
<1>3. PassInv'
  BY <1>1 DEF IInv, PassInv
<1>4. Registered'
  BY <1>1 DEF Registered
<1> QED
  BY <1>1, <1>2, <1>3, <1>4 DEF IInv

\* CreateTopic, whoever calls it.
LEMMA CreateTopicCallKeeps ==
  ASSUME IInv, Serving, OnlyTopics, UNCHANGED deleting,
         NEW t \in TopicNames, NEW n \in 1 .. MaxPartitions, tm' = CreateTopic(t, n)
  PROVE  IInv'
<1>1. TmShape(tm') /\ Accounted(tm', deleting')
  BY CreateTopicKeeps DEF IInv, TmInv
<1> QED
  BY <1>1, StandaloneKeeps

\* The calls of the program around the broker.
LEMMA CallTopicManagerKeeps == ASSUME IInv, CallTopicManager PROVE IInv'
<1>1. Serving /\ OnlyTopics
  BY DEF CallTopicManager
<1>2. CASE \E t \in TopicNames : tm' = CreateTopic(t, MaxPartitions) /\ UNCHANGED <<fault, deleting>>
  <2>1. MaxPartitions \in 1 .. MaxPartitions
    BY TopicManagerAssumption
  <2> QED
    BY <1>1, <1>2, <2>1, CreateTopicCallKeeps
<1>3. CASE \E t \in TopicNames : DeleteTopic(t)
  <2>1. TmShape(tm') /\ Accounted(tm', deleting')
    BY <1>3, DeleteTopicKeeps DEF IInv, TmInv
  <2> QED
    BY <1>1, <2>1, StandaloneKeeps
<1>4. CASE DeletePartition
  <2>1. TmShape(tm') /\ Accounted(tm', deleting')
    BY <1>4, DeletePartitionKeeps DEF IInv, TmInv
  <2> QED
    BY <1>1, <2>1, StandaloneKeeps
<1> QED
  BY <1>2, <1>3, <1>4 DEF CallTopicManager

\* No metadata request is on its way at first.
LEMMA CreatingHolds == Init => CreatingInv
  BY DEF Init, CreatingInv

\* A metadata request creates a topic there may be.
LEMMA CreatingKeeps == CreatingInv /\ [Next]_vars => CreatingInv'
<1> SUFFICES ASSUME CreatingInv, [Next]_vars PROVE CreatingInv'
  OBVIOUS
<1>1. CASE UNCHANGED creating
  BY <1>1 DEF CreatingInv
<1>2. CASE creating' = [c \in Clients |-> NoTopic]
  BY <1>2 DEF CreatingInv
<1>3. CASE \E c \in Clients : AutoCreate(c)
  BY <1>3 DEF AutoCreate, CreatingInv
<1>4. CASE \E c \in Clients, t \in TopicNames : AskMetadata(c, t)
  BY SMTT(30), <1>4 DEF AskMetadata, CreatingInv
<1>5. Register \/ Unfence => UNCHANGED creating \/ creating' = [c \in Clients |-> NoTopic]
  BY DEF Register, Unfence, SendCommand, Exit
<1>6. Crash => creating' = [c \in Clients |-> NoTopic]
  BY DEF Crash, Exit
<1>7. /\ NewBroker => UNCHANGED creating
      /\ ReconcileStep => UNCHANGED creating
      /\ CreateControllerTopic \/ UpdatePartition => UNCHANGED creating
      /\ CallTopicManager \/ Disturb => UNCHANGED creating
  BY DEF NewBroker, ReconcileStep, BeginReconcile, ReconcileNext, ReconcileReturns,
         CreateControllerTopic, UpdatePartition, CallTopicManager, Disturb
<1>8. UNCHANGED vars => UNCHANGED creating
  BY DEF vars
<1> QED
  BY <1>1, <1>2, <1>3, <1>4, <1>5, <1>6, <1>7, <1>8 DEF Next

\* Every step keeps the invariant.
LEMMA StepKeeps == IInv /\ CreatingInv /\ [Next]_vars => IInv'
<1> SUFFICES ASSUME IInv, CreatingInv, [Next]_vars PROVE IInv'
  OBVIOUS
<1>1. CASE NewBroker
  BY <1>1, NewBrokerKeeps
<1>2. CASE Crash
  <2>1. CtrlShape(ctrl') /\ Exit /\ UNCHANGED controlled
    BY <1>2 DEF Crash, IInv
  <2> QED
    BY <2>1, ExitKeeps
<1>3. CASE Register
  BY <1>3, RegisterKeeps
<1>4. CASE ReconcileStep
  BY <1>4, BeginReconcileKeeps, ReconcileNextKeeps, ReconcileReturnsKeeps DEF ReconcileStep
<1>5. CASE Unfence
  BY <1>5, UnfenceKeeps
<1>6. CASE CreateControllerTopic
  BY <1>6, CreateControllerTopicKeeps
<1>7. CASE UpdatePartition
  BY <1>7, UpdatePartitionKeeps
<1>8. ASSUME NEW c \in Clients, AutoCreate(c) PROVE IInv'
  <2>1. creating[c] \in TopicNames /\ tm' = CreateTopic(creating[c], 1)
    BY <1>8 DEF AutoCreate, CreatingInv
  <2>2. 1 \in 1 .. MaxPartitions
    BY TopicManagerAssumption
  <2>3. Serving /\ OnlyTopics /\ UNCHANGED deleting
    BY <1>8 DEF AutoCreate
  <2> QED
    BY <2>1, <2>2, <2>3, CreateTopicCallKeeps
<1>9. ASSUME NEW c \in Clients, NEW t \in TopicNames, AskMetadata(c, t) PROVE IInv'
  BY <1>9, SameKeeps DEF AskMetadata, OnlyTopics, topicVars
<1>10. CASE CallTopicManager
  BY <1>10, CallTopicManagerKeeps
<1>11. CASE Disturb
  BY <1>11, SameKeeps DEF Disturb, ChangeFaults, OnlyTopics
<1>12. CASE UNCHANGED vars
  BY <1>12, SameKeeps DEF vars, topicVars
<1> QED
  BY <1>1, <1>2, <1>3, <1>4, <1>5, <1>6, <1>7, <1>8, <1>9, <1>10, <1>11, <1>12 DEF Next

\* The invariant holds in every behaviour.
LEMMA Inductive == Spec => [](IInv /\ CreatingInv)
<1>1. Init => IInv /\ CreatingInv
  BY InitHolds, CreatingHolds
<1>2. (IInv /\ CreatingInv) /\ [Next]_vars => (IInv /\ CreatingInv)'
  BY StepKeeps, CreatingKeeps
<1> QED
  BY <1>1, <1>2, PTL DEF Spec

(***************************************************************************)
(* The theorems.                                                           *)
(***************************************************************************)

\* Every open log belongs to one partition of the map or to a topic that is being
\* deleted, however opening, leading and creating failed (topic_manager.go:120-256).
THEOREM LogsAccountedFor == Spec => []OpenLogsAccountedFor
<1>1. IInv => OpenLogsAccountedFor
  BY SMTT(30) DEF IInv, TmInv, Accounted, OpenLogsAccountedFor
<1> QED
  BY <1>1, Inductive, PTL

\* A broker leads or follows only as the controller said in that epoch, although
\* Reconcile works from metadata that may have become old and may stop half-way
\* (topic_manager.go:120-187).
THEOREM RolesFromController == Spec => []RolesComeFromController
<1>1. IInv => RolesComeFromController
  BY DEF IInv, TmInv, Roles, RoleOf, RolesComeFromController
<1> QED
  BY <1>1, Inductive, PTL

\* A broker serves only under the registration of its own incarnation, unfenced,
\* over any number of crashes and starts (broker.go:107-147).
THEOREM ServingIsRegistered == Spec => []ServesAsRegistered
<1>1. IInv => ServesAsRegistered
  BY DEF IInv, Registered, ServesAsRegistered
<1> QED
  BY <1>1, Inductive, PTL
=============================================================================
