---------------------------- MODULE PartitionProofs ----------------------------
(***************************************************************************)
(* Proofs about the threads of a partition, for any number of producers,   *)
(* fetch handlers and followers, and any bounds: the high watermark of a   *)
(* leader never moves back, no producer is left behind in the purgatory,   *)
(* and no long poll sleeps through an advance.                             *)
(*                                                                         *)
(* The first is an argument about locks: the two steps that may lower the  *)
(* high watermark, in TruncateTo and MakeLeader, run in threads that hold  *)
(* appendMu while the partition does not lead, and only a holder of        *)
(* appendMu makes it lead.                                                 *)
(***************************************************************************)
EXTENDS Partition, NaturalsInduction, WellFoundedInduction, TLAPS

Locals == [epoch : Nat, offset : Nat, newHW : Nat, moved : BOOLEAN]

Types ==
    /\ isLeader \in BOOLEAN
    /\ highWatermark \in Nat
    /\ leo \in Nat
    /\ \A m \in DOMAIN isr : isr[m] \in Nat
    /\ pc = [t \in Threads |-> pc[t]]
    /\ loc \in [Threads -> Locals]

\* Steps in which the refresh holds appendMu: the end of MakeLeader, and
\* UpdateLeaderISR with the maybeAdvanceHW that it calls.
Leading == {"store HW", "lead"}
Advancing == {"advance", "compute", "swap", "drain", "notify", "done"}

\* Who holds appendMu, and that nobody leads while a worker holds it or before
\* MakeLeader is done.
LockInv ==
    /\ \A p \in Producers : pc[p] = "push" => appendMu = p
    /\ pc["worker"] \in {"clamp", "raise"} => appendMu = "worker" /\ ~isLeader
    /\ pc["refresh"] \in Leading => appendMu = "refresh" /\ ~isLeader
    /\ pc["refresh"] \in Advancing => appendMu = "refresh"

IInv == Types /\ LockInv

HWGrows == isLeader /\ isLeader' /\ leaderEpoch' = leaderEpoch => highWatermark' >= highWatermark

\* A thread is one of the named ones or a producer or a handler.
LEMMA ThreadNames ==
    /\ "refresh" \in Threads /\ "worker" \in Threads
    /\ \A p \in Producers : p \in Threads /\ p \notin {"refresh", "worker", "free"}
    /\ \A h \in Handlers : h \in Threads /\ h \notin {"refresh", "worker", "free"}
    /\ \A h \in Handlers : h \notin Producers
    /\ "refresh" \notin Producers /\ "worker" \notin Producers
  BY PartitionAssumption DEF Threads

\* The smallest of some natural numbers is one of them.
LEMMA SetMinIn ==
  ASSUME NEW S \in SUBSET Nat, S # {}
  PROVE  SetMin(S) \in S
<1>1. PICK n \in S : \A m \in S : ~(<<m, n>> \in OpToRel(<, Nat))
  BY Zenon, NatLessThanWellFounded, WFMin
<1>2. \A m \in Nat : m < n => <<m, n>> \in OpToRel(<, Nat)
  BY SMT DEF OpToRel
<1>3. \A m \in S : ~(m < n)
  BY <1>1, <1>2, Zenon
<1>4. \A m \in S : n <= m
  BY <1>3
<1> QED
  BY Zenon, <1>4 DEF SetMin

LEMMA NoLocalsTyped == NoLocals \in Locals
  BY DEF NoLocals, Locals

\* A local variable is assigned.
LEMMA SetLocal ==
  ASSUME NEW l \in Locals, NEW n \in Nat, NEW b \in BOOLEAN
  PROVE  /\ [l EXCEPT !.epoch = n] \in Locals
         /\ [l EXCEPT !.offset = n] \in Locals
         /\ [l EXCEPT !.newHW = n] \in Locals
         /\ [l EXCEPT !.moved = b] \in Locals
  BY DEF Locals

LEMMA ReturnTyped ==
  ASSUME Types, NEW t \in Threads, Return(t)
  PROVE  loc' \in [Threads -> Locals]
<1> DEFINE o == IF t \in Producers THEN loc[t].offset ELSE 0
<1>1. o \in Nat
  BY DEF Types, Locals
<1>2. [NoLocals EXCEPT !.offset = o] \in Locals
  BY Zenon, <1>1, NoLocalsTyped, SetLocal
<1> HIDE DEF o
<1>3. loc' = [loc EXCEPT ![t] = [NoLocals EXCEPT !.offset = o]]
  BY DEF Return, o
<1> DEFINE r == [NoLocals EXCEPT !.offset = o]
<1> HIDE DEF r
<1> QED
  BY <1>2, <1>3 DEF r, Types

\* A thread moves from one step to another.
LEMMA Moves ==
  ASSUME Types, NEW t \in Threads, NEW from, NEW to, Go(t, from, to)
  PROVE  /\ pc[t] = from /\ pc'[t] = to /\ pc' = [u \in Threads |-> pc'[u]]
         /\ \A u \in Threads : u # t => pc'[u] = pc[u]
  BY DEF Types, Go

\* The locks stay as they are when a thread moves without taking one.
LEMMA LocksStay ==
  ASSUME IInv, NEW t \in Threads, NEW from, NEW to, Go(t, from, to),
         UNCHANGED <<isLeader, appendMu>>,
         t \in Producers => to # "push",
         t = "worker" => to \notin {"clamp", "raise"},
         t = "refresh" => /\ to \notin Leading
                          /\ to \in Advancing => from \in Advancing
  PROVE  LockInv'
  BY ThreadNames, Moves DEF IInv, LockInv

LEMMA NothingMoves ==
  ASSUME IInv, UNCHANGED <<isLeader, leo, isr, highWatermark, appendMu, pc, loc>>
  PROVE  IInv' /\ HWGrows
<1>1. Types'
  BY DEF IInv, Types
<1>2. LockInv'
  BY DEF IInv, LockInv
<1>3. HWGrows
  BY DEF IInv, Types, HWGrows
<1> QED
  BY <1>1, <1>2, <1>3 DEF IInv

LEMMA InitInv == Init => IInv
<1> SUFFICES ASSUME Init PROVE IInv
  OBVIOUS
<1>1. Types
  <2>1. loc \in [Threads -> Locals]
    BY NoLocalsTyped DEF Init
  <2>2. pc = [t \in Threads |-> pc[t]]
    BY DEF Init
  <2>3. \A m \in DOMAIN isr : isr[m] \in Nat
    BY DEF Init
  <2>4. isLeader \in BOOLEAN /\ highWatermark \in Nat /\ leo \in Nat
    BY DEF Init
  <2> QED
    BY <2>1, <2>2, <2>3, <2>4 DEF Types
<1>2. LockInv
  BY ThreadNames DEF Init, LockInv, Leading, Advancing
<1> QED
  BY <1>1, <1>2 DEF IInv

\* maybeAdvanceHW of a producer, a handler or the refresh.
LEMMA AdvanceKeeps ==
  ASSUME IInv, NEW t \in Producers \cup Handlers \cup {"refresh"}, MaybeAdvanceHW(t)
  PROVE  IInv' /\ HWGrows
<1>0. t \in Threads /\ t # "worker" /\ Types
  BY ThreadNames DEF IInv
<1>a. AfterAdvance(t) \notin Leading /\ AfterAdvance(t) # "push"
  <2>1. AfterAdvance(t) = "wait" \/ AfterAdvance(t) = "done"
    BY DEF AfterAdvance
  <2> QED
    BY Zenon, <2>1 DEF Leading
<1>c. {"advance", "compute", "swap", "drain", "notify"} \subseteq Advancing
  BY DEF Advancing
<1>b. loc[t] \in Locals /\ loc[t].newHW \in Nat
  BY <1>0 DEF Types, Locals
<1>1. CASE CheckLeader(t)
  <2> DEFINE to == IF isLeader THEN "compute" ELSE AfterAdvance(t)
  <2>1. to # "push" /\ to \notin Leading /\ "advance" \in Advancing
    <3>1. to = "compute" \/ to = AfterAdvance(t)
      OBVIOUS
    <3> HIDE DEF to
    <3> QED
      BY Zenon, <1>a, <1>c, <3>1 DEF Leading
  <2>2. Go(t, "advance", to) /\ UNCHANGED <<isLeader, leo, isr, highWatermark, appendMu>>
    BY <1>1 DEF CheckLeader, fields, role
  <2> HIDE DEF to
  <2>3. loc' \in [Threads -> Locals]
    BY <1>0, <1>1, ReturnTyped DEF CheckLeader, Types
  <2>4. LockInv'
    BY <1>0, <2>1, <2>2, LocksStay
  <2> QED
    BY <1>0, <2>1, <2>2, <2>3, <2>4, Moves DEF IInv, Types, HWGrows
<1>2. CASE ComputeHW(t)
  <2> DEFINE to == IF isr = NoISR THEN AfterAdvance(t) ELSE "swap"
  <2>1. to # "push" /\ to \notin Leading /\ "compute" \in Advancing
    <3>1. to = "swap" \/ to = AfterAdvance(t)
      OBVIOUS
    <3> HIDE DEF to
    <3> QED
      BY Zenon, <1>a, <1>c, <3>1 DEF Leading
  <2>2. Go(t, "compute", to) /\ UNCHANGED <<isLeader, leo, isr, highWatermark, appendMu>>
    BY <1>2 DEF ComputeHW, fields, role
  <2> HIDE DEF to
  <2>3. IsrMin \in Nat
    <3> DEFINE S == {leo} \cup {isr[m] : m \in DOMAIN isr \ {Self}}
    <3>1. S \in SUBSET Nat /\ S # {}
      BY <1>0 DEF Types
    <3>2. SetMin(S) \in S
      BY Zenon, <3>1, SetMinIn
    <3> QED
      BY <3>1, <3>2 DEF IsrMin
  <2>4. loc' \in [Threads -> Locals]
    <3>1. CASE isr = NoISR
      BY <1>0, <1>2, <3>1, ReturnTyped DEF ComputeHW
    <3>2. CASE isr # NoISR
      <4>1. loc' = [loc EXCEPT ![t] = [loc[t] EXCEPT !.newHW = IsrMin]]
        BY <1>2, <3>2 DEF ComputeHW
      <4>2. [loc[t] EXCEPT !.newHW = IsrMin] \in Locals
        BY Zenon, <1>b, <2>3, SetLocal
      <4> QED
        BY <1>0, <4>1, <4>2 DEF Types
    <3> QED
      BY <3>1, <3>2
  <2>5. LockInv'
    BY <1>0, <2>1, <2>2, LocksStay
  <2> QED
    BY <1>0, <2>1, <2>2, <2>4, <2>5, Moves DEF IInv, Types, HWGrows
<1>3. CASE SwapHW(t)
  <2> DEFINE moved == loc[t].newHW > highWatermark
             hw == IF moved THEN loc[t].newHW ELSE highWatermark
  <2>1. Go(t, "swap", "drain") /\ UNCHANGED <<isLeader, leo, isr, appendMu>> /\ highWatermark' = hw
    BY <1>3 DEF SwapHW, role
  <2>2. hw \in Nat /\ hw >= highWatermark /\ moved \in BOOLEAN
    BY <1>0, <1>b DEF Types
  <2>3. loc' = [loc EXCEPT ![t] = [[loc[t] EXCEPT !.newHW = hw] EXCEPT !.moved = moved]]
    BY Zenon, <1>3 DEF SwapHW
  <2> HIDE DEF hw, moved
  <2>4. [[loc[t] EXCEPT !.newHW = hw] EXCEPT !.moved = moved] \in Locals
    <3>1. [loc[t] EXCEPT !.newHW = hw] \in Locals
      BY Zenon, <1>b, <2>2, SetLocal
    <3> QED
      BY Zenon, <2>2, <3>1, SetLocal
  <2>5. loc' \in [Threads -> Locals]
    BY <1>0, <2>3, <2>4 DEF Types
  <2>6. LockInv'
    BY Zenon, <1>0, <2>1, LocksStay DEF Leading, Advancing
  <2> QED
    BY <1>0, <2>1, <2>2, <2>5, <2>6, Moves DEF IInv, Types, HWGrows
<1>4. CASE DrainPurgatory(t)
  <2> DEFINE to == IF loc[t].moved THEN "notify" ELSE AfterAdvance(t)
  <2>1. to # "push" /\ to \notin Leading /\ "drain" \in Advancing
    <3>1. to = "notify" \/ to = AfterAdvance(t)
      OBVIOUS
    <3> HIDE DEF to
    <3> QED
      BY Zenon, <1>a, <1>c, <3>1 DEF Leading
  <2>2. Go(t, "drain", to) /\ UNCHANGED <<isLeader, leo, isr, highWatermark, appendMu>>
    BY <1>4 DEF DrainPurgatory, fields, role
  <2> HIDE DEF to
  <2>3. loc' \in [Threads -> Locals]
    BY <1>0, <1>4, ReturnTyped DEF DrainPurgatory, Types
  <2>4. LockInv'
    BY <1>0, <2>1, <2>2, LocksStay
  <2> QED
    BY <1>0, <2>1, <2>2, <2>3, <2>4, Moves DEF IInv, Types, HWGrows
<1>5. CASE NotifyAdvance(t)
  <2>1. Go(t, "notify", AfterAdvance(t)) /\ UNCHANGED <<isLeader, leo, isr, highWatermark, appendMu>>
    BY <1>5 DEF NotifyAdvance, fields, role
  <2>2. loc' \in [Threads -> Locals]
    BY <1>0, <1>5, ReturnTyped DEF NotifyAdvance
  <2>3. LockInv'
    BY <1>0, <1>a, <1>c, <2>1, LocksStay
  <2> QED
    BY <1>0, <1>a, <2>1, <2>2, <2>3, Moves DEF IInv, Types, HWGrows
<1> QED
  BY <1>1, <1>2, <1>3, <1>4, <1>5 DEF MaybeAdvanceHW

LEMMA ProducerKeeps ==
  ASSUME IInv, NEW p \in Producers, ProducerStep(p) \/ TimeOut(p)
  PROVE  IInv' /\ HWGrows
<1>0. p \in Threads /\ p \notin {"refresh", "worker", "free"} /\ Types /\ LockInv
  BY ThreadNames DEF IInv
<1>a. loc[p] \in Locals
  BY <1>0 DEF Types
<1>1. CASE AppendRefused(p)
  <2>1. /\ Go(p, "start", "done")
        /\ UNCHANGED <<isLeader, leo, isr, highWatermark, appendMu, loc>>
    BY <1>1 DEF AppendRefused, fields, role
  <2>2. LockInv'
    BY <1>0, <2>1, LocksStay
  <2> QED
    BY <1>0, <2>1, <2>2, Moves DEF IInv, Types, HWGrows
<1>2. CASE AppendToLog(p)
  <2>1. /\ Go(p, "start", "push") /\ appendMu = "free" /\ appendMu' = p
        /\ UNCHANGED <<isLeader, isr, highWatermark>> /\ leo' = leo + 1
    BY <1>2 DEF AppendToLog, fields, role
  <2>2. loc' = [loc EXCEPT ![p] = [loc[p] EXCEPT !.offset = leo + 1]]
    BY <1>2 DEF AppendToLog
  <2>3. leo + 1 \in Nat
    BY <1>0 DEF Types
  <2>4. [loc[p] EXCEPT !.offset = leo + 1] \in Locals
    BY Zenon, <1>a, <2>3, SetLocal
  <2>5. loc' \in [Threads -> Locals]
    BY <1>0, <2>2, <2>4 DEF Types
  <2>6. LockInv'
    BY <1>0, <2>1, Moves, ThreadNames DEF LockInv
  <2> QED
    BY <1>0, <2>1, <2>3, <2>5, <2>6, Moves DEF IInv, Types, HWGrows
<1>3. CASE PushPurgatory(p) \/ SkipPurgatory(p)
  <2>1. /\ Go(p, "push", "advance") /\ appendMu' = "free"
        /\ UNCHANGED <<isLeader, leo, isr, highWatermark, loc>>
    BY <1>3 DEF PushPurgatory, SkipPurgatory, fields, role
  <2>2. LockInv'
    BY <1>0, <2>1, Moves, ThreadNames DEF LockInv
  <2> QED
    BY <1>0, <2>1, <2>2, Moves DEF IInv, Types, HWGrows
<1>4. CASE MaybeAdvanceHW(p)
  BY <1>4, AdvanceKeeps
<1>5. CASE Answered(p)
  <2>1. /\ Go(p, "wait", "done")
        /\ UNCHANGED <<isLeader, leo, isr, highWatermark, appendMu>>
        /\ loc' = [loc EXCEPT ![p] = NoLocals]
    BY <1>5 DEF Answered, fields, role
  <2>2. loc' \in [Threads -> Locals]
    BY <1>0, <2>1, NoLocalsTyped DEF Types
  <2>3. LockInv'
    BY <1>0, <2>1, LocksStay
  <2> QED
    BY <1>0, <2>1, <2>2, <2>3, Moves DEF IInv, Types, HWGrows
<1>6. CASE TimeOut(p)
  <2>1. UNCHANGED <<isLeader, leo, isr, highWatermark, appendMu, pc, loc>>
    BY Zenon, <1>6 DEF TimeOut, fields, role
  <2> QED
    BY <1>0, <2>1, NothingMoves DEF IInv
<1> QED
  BY <1>1, <1>2, <1>3, <1>4, <1>5, <1>6 DEF ProducerStep

LEMMA HandlerKeeps ==
  ASSUME IInv, NEW h \in Handlers, HandlerStep(h)
  PROVE  IInv' /\ HWGrows
<1>0. h \in Threads /\ h \notin {"refresh", "worker", "free"} /\ h \notin Producers
      /\ Types /\ LockInv
  BY ThreadNames DEF IInv
<1>a. loc[h] \in Locals /\ loc[h].offset \in Nat
  BY <1>0 DEF Types, Locals
<1>1. ASSUME NEW epoch \in 0 .. MaxEpoch, NEW offset \in 0 .. leo, CheckEpoch(h, epoch, offset)
      PROVE  IInv' /\ HWGrows
  <2> DEFINE to == IF isLeader /\ epoch = leaderEpoch THEN "fetch" ELSE "done"
  <2>1. /\ Go(h, "start", to)
        /\ UNCHANGED <<isLeader, leo, isr, highWatermark, appendMu>>
    BY <1>1 DEF CheckEpoch, fields, role
  <2> HIDE DEF to
  <2>2. LockInv'
    BY <1>0, <2>1, LocksStay
  <2>3. epoch \in Nat /\ offset \in Nat
    BY <1>0, PartitionAssumption DEF Types
  <2>4. [[loc[h] EXCEPT !.epoch = epoch] EXCEPT !.offset = offset] \in Locals
    <3>1. [loc[h] EXCEPT !.epoch = epoch] \in Locals
      BY Zenon, <1>a, <2>3, SetLocal
    <3> QED
      BY Zenon, <2>3, <3>1, SetLocal
  <2>5. \/ loc' = loc
        \/ loc' = [loc EXCEPT ![h] = [[loc[h] EXCEPT !.epoch = epoch] EXCEPT !.offset = offset]]
    BY Zenon, <1>1 DEF CheckEpoch
  <2>6. loc' \in [Threads -> Locals]
    BY <1>0, <2>4, <2>5 DEF Types
  <2> QED
    BY <1>0, <2>1, <2>2, <2>6, Moves DEF IInv, Types, HWGrows
<1>2. CASE CheckOffset(h)
  <2> DEFINE to == IF ~closed /\ isLeader /\ loc[h].offset <= leo THEN "update" ELSE "done"
  <2>1. /\ Go(h, "fetch", to)
        /\ UNCHANGED <<isLeader, leo, isr, highWatermark, appendMu>>
    BY <1>2 DEF CheckOffset, fields, role
  <2> HIDE DEF to
  <2>2. LockInv'
    BY <1>0, <2>1, LocksStay
  <2>3. loc' \in [Threads -> Locals]
    BY <1>0, <1>2, ReturnTyped DEF CheckOffset, Types
  <2> QED
    BY <1>0, <2>1, <2>2, <2>3, Moves DEF IInv, Types, HWGrows
<1>3. ASSUME NEW b \in Followers, UpdateFollowerLEO(h, b)
      PROVE  IInv' /\ HWGrows
  <2>1. /\ Go(h, "update", "advance")
        /\ UNCHANGED <<isLeader, leo, highWatermark, appendMu>>
        /\ isr' = IF b \in DOMAIN isr THEN [isr EXCEPT ![b] = loc[h].offset] ELSE isr
        /\ Return(h)
    BY <1>3 DEF UpdateFollowerLEO
  <2>2. \A m \in DOMAIN isr' : isr'[m] \in Nat
    BY <1>0, <1>a, <2>1 DEF Types
  <2>3. LockInv'
    BY <1>0, <2>1, LocksStay
  <2>4. loc' \in [Threads -> Locals]
    BY <1>0, <2>1, ReturnTyped
  <2> QED
    BY <1>0, <2>1, <2>2, <2>3, <2>4, Moves DEF IInv, Types, HWGrows
<1>4. CASE MaybeAdvanceHW(h)
  BY <1>4, AdvanceKeeps
<1> QED
  BY <1>1, <1>2, <1>3, <1>4 DEF HandlerStep

LEMMA RefreshKeeps ==
  ASSUME IInv, RefreshStep
  PROVE  IInv' /\ HWGrows
<1> DEFINE r == "refresh"
<1>0. r \in Threads /\ Types /\ LockInv
  BY ThreadNames DEF IInv
<1>a. loc[r] \in Locals /\ loc[r].newHW \in Nat
  BY <1>0 DEF Types, Locals
<1>b. {"start", "make leader", "fail purgatory"} \cap (Leading \cup Advancing) = {}
  BY DEF Leading, Advancing
<1>1. ASSUME NEW epoch \in 0 .. MaxEpoch, ReadHW(epoch)
      PROVE  IInv' /\ HWGrows
  <2>1. /\ Go(r, "start", "make leader")
        /\ UNCHANGED <<isLeader, leo, isr, highWatermark, appendMu>>
    BY Zenon, <1>1 DEF ReadHW, Refresh, fields, role
  <2>2. loc' = [loc EXCEPT ![r] = [[loc[r] EXCEPT !.newHW = highWatermark] EXCEPT !.epoch = epoch]]
    BY Zenon, <1>1 DEF ReadHW
  <2>3. epoch \in Nat /\ highWatermark \in Nat
    BY <1>0, PartitionAssumption DEF Types
  <2>4. [[loc[r] EXCEPT !.newHW = highWatermark] EXCEPT !.epoch = epoch] \in Locals
    <3>1. [loc[r] EXCEPT !.newHW = highWatermark] \in Locals
      BY Zenon, <1>a, <2>3, SetLocal
    <3> QED
      BY Zenon, <2>3, <3>1, SetLocal
  <2>5. loc' \in [Threads -> Locals]
    BY <1>0, <2>2, <2>4 DEF Types
  <2>6. LockInv'
    BY Zenon, <1>0, <1>b, <2>1, LocksStay, ThreadNames
  <2>7. pc' = [u \in Threads |-> pc'[u]]
    BY Zenon, <1>0, <2>1, Moves
  <2>8. Types'
    BY Zenon, <1>0, <2>1, <2>5, <2>7 DEF Types
  <2>9. HWGrows
    <3>1. highWatermark' = highWatermark /\ highWatermark \in Nat
      BY Zenon, <1>0, <2>1 DEF Types
    <3>2. highWatermark' >= highWatermark
      BY <3>1
    <3> QED
      BY <3>2 DEF HWGrows
  <2> QED
    BY <2>6, <2>8, <2>9 DEF IInv
<1>2. ASSUME NEW members, MakeLeader(members)
      PROVE  IInv' /\ HWGrows
  <2>1. /\ Go(r, "make leader", "store HW") /\ appendMu = "free" /\ appendMu' = r
        /\ isLeader' = FALSE /\ isr' = [m \in members |-> 0]
        /\ UNCHANGED <<leo, highWatermark, loc>>
    BY Zenon, <1>2 DEF MakeLeader, Refresh
  <2>2. LockInv'
    BY Zenon, <1>0, <2>1, Moves, ThreadNames DEF LockInv
  <2> QED
    BY Zenon, <1>0, <2>1, <2>2, Moves DEF IInv, Types, HWGrows
<1>3. CASE MakeLeaderStoreHW
  <2>1. /\ Go(r, "store HW", "lead") /\ highWatermark' = loc[r].newHW
        /\ UNCHANGED <<isLeader, leo, isr, appendMu, loc>>
    BY Zenon, <1>3 DEF MakeLeaderStoreHW, Refresh, role
  <2>2. pc[r] \in Leading
    BY Zenon, <2>1 DEF Go, Leading
  <2>3. LockInv' /\ ~isLeader
    BY Zenon, <1>0, <2>1, <2>2, Moves, ThreadNames DEF LockInv
  <2> QED
    BY Zenon, <1>0, <1>a, <2>1, <2>3, Moves DEF IInv, Types, HWGrows
<1>4. CASE MakeLeaderDone
  <2>1. /\ Go(r, "lead", "start") /\ appendMu' = "free" /\ isLeader' = TRUE /\ Return(r)
        /\ UNCHANGED <<leo, isr, highWatermark>>
    BY <1>4 DEF MakeLeaderDone, Refresh
  <2>2. pc[r] \in Leading
    BY <2>1 DEF Go, Leading
  <2>3. LockInv'
    BY Zenon, <1>0, <1>b, <2>1, <2>2, Moves, ThreadNames DEF LockInv
  <2>4. loc' \in [Threads -> Locals]
    BY <1>0, <2>1, ReturnTyped
  <2> QED
    BY <1>0, <2>1, <2>3, <2>4, Moves DEF IInv, Types, HWGrows
<1>5. CASE MakeLeaderFails
  <2>1. /\ Go(r, "make leader", "start") /\ isLeader' = FALSE /\ isr' = NoISR /\ Return(r)
        /\ UNCHANGED <<leo, highWatermark, appendMu>>
    BY Zenon, <1>5 DEF MakeLeaderFails, Refresh
  <2>2. LockInv'
    BY Zenon, <1>0, <1>b, <2>1, Moves, ThreadNames DEF LockInv
  <2>3. loc' \in [Threads -> Locals]
    BY Zenon, <1>0, <2>1, ReturnTyped
  <2> QED
    BY Zenon, <1>0, <2>1, <2>2, <2>3, Moves DEF IInv, Types, HWGrows, NoISR
<1>6. CASE (\E epoch \in 0 .. MaxEpoch : MakeFollower(epoch)) \/ MakeUnassigned
  <2>1. /\ Go(r, "start", "fail purgatory") /\ isLeader' = FALSE /\ isr' = NoISR
        /\ UNCHANGED <<leo, highWatermark, appendMu, loc>>
    BY Zenon, <1>6 DEF MakeFollower, MakeUnassigned, Refresh
  <2>2. LockInv'
    BY Zenon, <1>0, <1>b, <2>1, Moves, ThreadNames DEF LockInv
  <2> QED
    BY Zenon, <1>0, <2>1, <2>2, Moves DEF IInv, Types, HWGrows, NoISR
<1>7. CASE FailWaiting
  <2>1. /\ Go(r, "fail purgatory", "start")
        /\ UNCHANGED <<isLeader, leo, isr, highWatermark, appendMu, loc>>
    BY Zenon, <1>7 DEF FailWaiting, Refresh, role
  <2>2. LockInv'
    BY Zenon, <1>0, <1>b, <2>1, LocksStay, ThreadNames
  <2>7. pc' = [u \in Threads |-> pc'[u]]
    BY Zenon, <1>0, <2>1, Moves
  <2>8. Types'
    BY Zenon, <1>0, <2>1, <2>7 DEF Types
  <2>9. HWGrows
    <3>1. highWatermark' = highWatermark /\ highWatermark \in Nat
      BY Zenon, <1>0, <2>1 DEF Types
    <3>2. highWatermark' >= highWatermark
      BY <3>1
    <3> QED
      BY <3>2 DEF HWGrows
  <2> QED
    BY <2>2, <2>8, <2>9 DEF IInv
<1>8. ASSUME NEW members, UpdateLeaderISR(members)
      PROVE  IInv' /\ HWGrows
  <2>1. /\ Go(r, "start", "advance") /\ appendMu = "free" /\ appendMu' = r
        /\ isr' = [m \in members |-> IF m \in DOMAIN isr THEN isr[m] ELSE 0]
        /\ UNCHANGED <<isLeader, leo, highWatermark, loc>>
    BY <1>8 DEF UpdateLeaderISR, Refresh
  <2>2. "advance" \notin Leading
    BY DEF Leading
  <2>3. LockInv'
    BY <1>0, <2>1, <2>2, Moves, ThreadNames DEF LockInv
  <2>4. \A m \in DOMAIN isr' : isr'[m] \in Nat
    BY <1>0, <2>1 DEF Types
  <2> QED
    BY <1>0, <2>1, <2>3, <2>4, Moves DEF IInv, Types, HWGrows
<1>9. CASE MaybeAdvanceHW(r)
  BY <1>9, AdvanceKeeps
<1>10. CASE UpdateLeaderISRDone
  <2>1. /\ Go(r, "done", "start") /\ appendMu' = "free"
        /\ UNCHANGED <<isLeader, leo, isr, highWatermark, loc>>
    BY <1>10 DEF UpdateLeaderISRDone, Refresh, fields, role
  <2>2. pc[r] \in Advancing
    BY <2>1 DEF Go, Advancing
  <2>3. LockInv'
    BY Zenon, <1>0, <1>b, <2>1, <2>2, Moves, ThreadNames DEF LockInv
  <2> QED
    BY <1>0, <2>1, <2>3, Moves DEF IInv, Types, HWGrows
<1> QED
  BY <1>1, <1>2, <1>3, <1>4, <1>5, <1>6, <1>7, <1>8, <1>9, <1>10 DEF RefreshStep

LEMMA WorkerKeeps ==
  ASSUME IInv, WorkerStep
  PROVE  IInv' /\ HWGrows
<1> DEFINE w == "worker"
<1>0. w \in Threads /\ Types /\ LockInv
  BY ThreadNames DEF IInv
<1>a. loc[w] \in Locals /\ loc[w].newHW \in Nat
  BY <1>0 DEF Types, Locals
<1>b. \A a, b \in Nat : SetMin({a, b}) \in Nat
  <2> TAKE a, b \in Nat
  <2>1. SetMin({a, b}) \in {a, b}
    BY SetMinIn
  <2> QED
    BY <2>1
<1>1. ASSUME NEW offset \in 0 .. leo, TruncateTo(offset)
      PROVE  IInv' /\ HWGrows
  <2>1. /\ Go(w, "start", "clamp") /\ appendMu = "free" /\ ~isLeader /\ appendMu' = w
        /\ leo' = offset
        /\ UNCHANGED <<isLeader, isr, highWatermark, loc>>
    BY <1>1 DEF TruncateTo, fields, role
  <2>2. LockInv'
    BY <1>0, <2>1, Moves, ThreadNames DEF LockInv
  <2>3. offset \in Nat
    BY <1>0 DEF Types
  <2> QED
    BY <1>0, <2>1, <2>2, <2>3, Moves DEF IInv, Types, HWGrows
<1>2. CASE TruncateToDone
  <2>1. /\ Go(w, "clamp", "start") /\ appendMu' = "free"
        /\ highWatermark' = SetMin({highWatermark, leo})
        /\ UNCHANGED <<isLeader, leo, isr, loc>>
    BY <1>2 DEF TruncateToDone, role
  <2>2. LockInv' /\ ~isLeader
    BY <1>0, <2>1, Moves, ThreadNames DEF LockInv
  <2>3. highWatermark' \in Nat
    BY <1>0, <1>b, <2>1 DEF Types
  <2> QED
    BY <1>0, <2>1, <2>2, <2>3, Moves DEF IInv, Types, HWGrows
<1>3. CASE Reconciled
  <2>1. UNCHANGED <<isLeader, leo, isr, highWatermark, appendMu, pc, loc>>
    BY <1>3 DEF Reconciled, role
  <2> QED
    BY <2>1, NothingMoves
<1>4. ASSUME NEW n \in {0, 1}, AppendFromLeader(n)
      PROVE  IInv' /\ HWGrows
  <2>1. /\ Go(w, "start", "raise") /\ appendMu = "free" /\ ~isLeader /\ appendMu' = w
        /\ leo' = leo + n
        /\ UNCHANGED <<isLeader, isr, highWatermark>>
    BY <1>4 DEF AppendFromLeader, fields, role
  <2> DEFINE moved == n > 0
  <2>2. loc' = [loc EXCEPT ![w] = [[loc[w] EXCEPT !.newHW = highWatermark] EXCEPT !.moved = moved]]
    BY Zenon, <1>4 DEF AppendFromLeader
  <2>3. highWatermark \in Nat /\ leo + n \in Nat /\ moved \in BOOLEAN
    BY <1>0 DEF Types
  <2> HIDE DEF moved
  <2>4. [[loc[w] EXCEPT !.newHW = highWatermark] EXCEPT !.moved = moved] \in Locals
    <3>1. [loc[w] EXCEPT !.newHW = highWatermark] \in Locals
      BY Zenon, <1>a, <2>3, SetLocal
    <3> QED
      BY Zenon, <2>3, <3>1, SetLocal
  <2>5. loc' \in [Threads -> Locals]
    BY <1>0, <2>2, <2>4 DEF Types
  <2>6. LockInv'
    BY <1>0, <2>1, Moves, ThreadNames DEF LockInv
  <2> QED
    BY <1>0, <2>1, <2>3, <2>5, <2>6, Moves DEF IInv, Types, HWGrows
<1>5. ASSUME NEW leaderHW \in 0 .. MaxLEO, AppendFromLeaderDone(leaderHW)
      PROVE  IInv' /\ HWGrows
  <2>1. /\ Go(w, "raise", "start") /\ appendMu' = "free" /\ Return(w)
        /\ \/ highWatermark' = highWatermark
           \/ highWatermark' = SetMin({leaderHW, leo})
        /\ UNCHANGED <<isLeader, leo, isr>>
    BY <1>5 DEF AppendFromLeaderDone, role
  <2>2. LockInv' /\ ~isLeader
    BY <1>0, <2>1, Moves, ThreadNames DEF LockInv
  <2>3. highWatermark' \in Nat
    BY <1>0, <1>b, <2>1, PartitionAssumption DEF Types
  <2>4. loc' \in [Threads -> Locals]
    BY <1>0, <2>1, ReturnTyped
  <2> QED
    BY <1>0, <2>1, <2>2, <2>3, <2>4, Moves DEF IInv, Types, HWGrows
<1> QED
  BY <1>1, <1>2, <1>3, <1>4, <1>5 DEF WorkerStep

\* The consumer and Close touch neither the log nor appendMu.
LEMMA OthersKeep ==
  ASSUME IInv, ConsumerStep \/ CloseBegin \/ CloseDone
  PROVE  IInv' /\ HWGrows
<1>1. PICK t \in {"consumer", "closer"}, from \in {pc["consumer"], pc["closer"]},
           to \in {"start", "read", "poll", "closing", "done"} : Go(t, from, to)
  BY DEF ConsumerStep, TakeChannel, Read, Wake, PollExpires, CloseBegin, CloseDone, Go
<1>2. UNCHANGED <<isLeader, leo, isr, highWatermark, appendMu, loc>>
  BY DEF ConsumerStep, TakeChannel, Read, Wake, PollExpires, CloseBegin, CloseDone, fields, role
<1>3. t \in Threads /\ t \notin Producers /\ t \notin {"refresh", "worker"} /\ Types
  BY PartitionAssumption DEF Threads, IInv
<1>4. LockInv'
  BY <1>1, <1>2, <1>3, LocksStay
<1> QED
  BY <1>1, <1>2, <1>3, <1>4, Moves DEF IInv, Types, HWGrows

\* Every step keeps the locks and types, and the high watermark growing.
LEMMA StepKeepsInv == IInv /\ [Next]_vars => IInv' /\ HWGrows
<1> SUFFICES ASSUME IInv, [Next]_vars PROVE IInv' /\ HWGrows
  OBVIOUS
<1>1. CASE Next
  BY <1>1, ProducerKeeps, HandlerKeeps, RefreshKeeps, WorkerKeeps, OthersKeep DEF Next
<1>2. CASE UNCHANGED vars
  <2>1. UNCHANGED <<isLeader, leo, isr, highWatermark, appendMu, pc, loc>>
    BY <1>2 DEF vars, fields, role
  <2> QED
    BY <2>1, NothingMoves
<1> QED
  BY <1>1, <1>2

\* While a broker leads in one epoch its high watermark never moves back,
\* whichever of its threads race to move it (partition.go, partition_raw.go).
THEOREM HighWatermarkMonotone == Spec => HWMonotoneWhileLeading
<1>1. Init => IInv
  BY InitInv
<1>2. IInv /\ [Next]_vars => IInv' /\ HWGrows
  BY StepKeepsInv
<1>3. IInv /\ [Next]_vars =>
         [isLeader /\ isLeader' /\ leaderEpoch' = leaderEpoch => highWatermark' >= highWatermark]_vars
  BY <1>2 DEF HWGrows
<1> QED
  BY <1>1, <1>2, <1>3, PTL DEF Spec, HWMonotoneWhileLeading

(***************************************************************************)
(* Nobody is left waiting.  For each producer in the purgatory that could  *)
(* be answered there is a thread that is going to drain it, and for each   *)
(* long poll with records to read a thread that is going to wake it.       *)
(***************************************************************************)

\* The threads that call maybeAdvanceHW.
Advancers == Producers \cup Handlers \cup {"refresh"}

BeforeDrain == {"advance", "compute", "swap"}
WithEntry == BeforeDrain \cup {"drain", "notify", "wait"}

\* A broker that does not lead has no producers in the purgatory, but for those
\* the refresh is about to fail, and none on the way there; a leader is in its ISR.
RoleInv ==
    /\ isLeader \in BOOLEAN
    /\ pc["refresh"] \in {"make leader", "fail purgatory"} => ~isLeader
    /\ ~isLeader => \A p \in Producers : pc[p] # "push"
    /\ ~isLeader /\ pc["refresh"] # "fail purgatory" => purgatory = {}
    /\ isLeader \/ pc["refresh"] \in Leading => Self \in DOMAIN isr

\* An entry's producer waits and has no answer yet.
EntryInv ==
    /\ purgatory \subseteq Producers
    /\ \A p \in purgatory : pc[p] \in WithEntry
    /\ result = [p \in Producers |-> result[p]]
    /\ \A p \in Producers :
          pc[p] \in {"start", "push"} \/ p \in purgatory => result[p] = "none"

\* Once Close has emptied the purgatory nothing enters it any more.
CloseInv ==
    /\ pc["closer"] \in {"start", "closing", "done"}
    /\ closed <=> pc["closer"] # "start"
    /\ pc["closer"] = "done" => purgatory = {} /\ \A p \in Producers : pc[p] # "push"

\* Thread t is going to take the entry of producer p out.
WillDrain(t, p) == pc[t] = "drain" /\ loc[t].newHW >= loc[p].offset

DrainInv ==
    \A p \in purgatory :
        isLeader /\ loc[p].offset <= highWatermark =>
            \/ pc[p] \in BeforeDrain
            \/ \E t \in Advancers : WillDrain(t, p)

PurgatoryInv == RoleInv /\ EntryInv /\ CloseInv /\ DrainInv

\* Thread t is going to close the channel of the long polls.
WillNotify(t) == pc[t] = "notify" \/ (pc[t] = "drain" /\ loc[t].moved)

PollInv ==
    /\ polled \in Nat
    /\ pc["consumer"] = "poll" /\ ~notified /\ isLeader /\ polled < highWatermark =>
          \E t \in Advancers : WillNotify(t)

\* The names of the threads that the steps below tell apart.
LEMMA MoreNames ==
    /\ Advancers \subseteq Threads /\ Producers \subseteq Threads
    /\ {"refresh", "worker", "consumer", "closer"} \subseteq Threads
    /\ {"refresh", "worker", "consumer", "closer"} \cap (Producers \cup Handlers) = {}
    /\ Producers \cap Handlers = {}
    /\ {"worker", "consumer", "closer"} \cap Advancers = {}
  BY PartitionAssumption DEF Threads, Advancers

\* What a returning thread keeps, and what it leaves alone.
LEMMA ReturnKeeps ==
  ASSUME Types, NEW t \in Threads, Return(t)
  PROVE  /\ \A u \in Threads : u # t => loc'[u] = loc[u]
         /\ t \in Producers => loc'[t].offset = loc[t].offset
<1> DEFINE o == IF t \in Producers THEN loc[t].offset ELSE 0
           r == [NoLocals EXCEPT !.offset = o]
<1>1. r.offset = o
  BY DEF NoLocals
<1>2. loc' = [loc EXCEPT ![t] = r]
  BY DEF Return
<1> HIDE DEF r
<1>3. loc'[t] = r /\ \A u \in Threads : u # t => loc'[u] = loc[u]
  BY <1>2 DEF Types
<1> QED
  BY <1>1, <1>3

\* A step that neither touches the purgatory nor moves the high watermark.
LEMMA PurgatoryFrame ==
  ASSUME IInv, PurgatoryInv, NEW t \in Threads, t # "closer",
         NEW from, NEW to, Go(t, from, to), from # "drain",
         UNCHANGED <<isLeader, closed, purgatory, result, highWatermark>>,
         Self \in DOMAIN isr => Self \in DOMAIN isr',
         \A u \in Threads : u # t => loc'[u] = loc[u],
         t \in Producers => to \notin {"start", "push"},
         t \in purgatory => /\ loc'[t].offset = loc[t].offset
                            /\ to \in WithEntry
                            /\ isLeader /\ from \in BeforeDrain => to \in BeforeDrain,
         t = "refresh" => /\ from # "fail purgatory"
                          /\ to \notin Leading /\ to # "fail purgatory"
                          /\ to = "make leader" => ~isLeader
  PROVE  PurgatoryInv'
<1>0. Types /\ RoleInv /\ EntryInv /\ CloseInv /\ DrainInv
  BY Zenon DEF IInv, PurgatoryInv
<1>1. pc[t] = from /\ pc'[t] = to /\ \A u \in Threads : u # t => pc'[u] = pc[u]
  BY Zenon, <1>0, Moves
<1>2. RoleInv'
  BY Zenon, <1>0, <1>1, MoreNames DEF RoleInv
<1>3. EntryInv'
  BY Zenon, <1>0, <1>1, MoreNames DEF EntryInv
<1>4. CloseInv'
  BY Zenon, <1>0, <1>1, MoreNames DEF CloseInv
<1>5. DrainInv'
  <2> SUFFICES ASSUME NEW p \in purgatory, isLeader, loc'[p].offset <= highWatermark
               PROVE  pc'[p] \in BeforeDrain \/ \E u \in Advancers : WillDrain(u, p)'
    BY Zenon DEF DrainInv
  <2>1. p \in Threads /\ loc'[p].offset = loc[p].offset
    BY Zenon, <1>0, MoreNames DEF EntryInv
  <2>2. CASE pc[p] \in BeforeDrain
    BY Zenon, <1>1, <2>1, <2>2
  <2>3. ASSUME NEW u \in Advancers, WillDrain(u, p) PROVE WillDrain(u, p)'
    BY Zenon, <1>1, <2>1, <2>3, MoreNames DEF WillDrain
  <2> QED
    BY Zenon, <1>0, <2>1, <2>2, <2>3 DEF DrainInv
<1> QED
  BY Zenon, <1>2, <1>3, <1>4, <1>5 DEF PurgatoryInv

LEMMA PurgatoryInit == Init => PurgatoryInv
<1> SUFFICES ASSUME Init PROVE PurgatoryInv
  OBVIOUS
<1>1. \A t \in Threads : pc[t] = "start"
  BY DEF Init
<1>2. RoleInv
  BY <1>1, MoreNames DEF Init, RoleInv, Replicas
<1>3. EntryInv
  BY <1>1 DEF Init, EntryInv
<1>4. CloseInv
  BY <1>1, MoreNames DEF Init, CloseInv
<1>5. DrainInv
  BY DEF Init, DrainInv
<1> QED
  BY <1>2, <1>3, <1>4, <1>5 DEF PurgatoryInv

\* maybeAdvanceHW.  Whoever raises the high watermark drains the purgatory up to
\* it; a producer that comes too late for that drains it itself.
LEMMA AdvanceKeepsPurgatory ==
  ASSUME IInv, PurgatoryInv, NEW t \in Advancers, MaybeAdvanceHW(t)
  PROVE  PurgatoryInv'
<1>0. Types /\ RoleInv /\ EntryInv /\ CloseInv /\ DrainInv
  BY DEF IInv, PurgatoryInv
<1>a. t \in Threads /\ t # "closer" /\ t \notin {"worker", "consumer"}
  BY MoreNames
<1>b. loc[t] \in Locals
  BY <1>0, <1>a DEF Types
<1>c. /\ AfterAdvance(t) \in {"wait", "done"}
      /\ t \in Producers => AfterAdvance(t) = "wait"
  BY DEF AfterAdvance
<1>d. /\ AfterAdvance(t) \notin Leading \cup {"start", "push", "fail purgatory", "make leader"}
      /\ t \in purgatory => AfterAdvance(t) \in WithEntry
  BY Zenon, <1>0, <1>c DEF Leading, WithEntry, EntryInv
<1>1. CASE CheckLeader(t)
  <2> DEFINE to == IF isLeader THEN "compute" ELSE AfterAdvance(t)
  <2>1. Go(t, "advance", to) /\ UNCHANGED <<isLeader, isr, closed, purgatory, result, highWatermark>>
    BY <1>1 DEF CheckLeader, fields, role
  <2>2. /\ \A u \in Threads : u # t => loc'[u] = loc[u]
        /\ t \in Producers => loc'[t].offset = loc[t].offset
    BY <1>0, <1>1, <1>a, ReturnKeeps DEF CheckLeader
  <2>3. /\ to \notin Leading \cup {"start", "push", "fail purgatory", "make leader"}
        /\ t \in purgatory => to \in WithEntry
        /\ isLeader => to \in BeforeDrain
    BY Zenon, <1>d DEF Leading, WithEntry, BeforeDrain
  <2>4. t \in purgatory => t \in Producers
    BY <1>0 DEF EntryInv
  <2> HIDE DEF to
  <2> QED
    BY Zenon, <1>a, <2>1, <2>2, <2>3, <2>4, PurgatoryFrame
<1>2. CASE ComputeHW(t)
  <2> DEFINE to == IF isr = NoISR THEN AfterAdvance(t) ELSE "swap"
  <2>1. Go(t, "compute", to) /\ UNCHANGED <<isLeader, isr, closed, purgatory, result, highWatermark>>
    BY <1>2 DEF ComputeHW, fields, role
  <2>2. /\ \A u \in Threads : u # t => loc'[u] = loc[u]
        /\ t \in Producers => loc'[t].offset = loc[t].offset
    <3>1. CASE isr = NoISR
      BY <1>0, <1>2, <1>a, <3>1, ReturnKeeps DEF ComputeHW
    <3>2. CASE isr # NoISR
      BY <1>0, <1>2, <1>a, <1>b, <3>2 DEF ComputeHW, Types, Locals
    <3> QED
      BY <3>1, <3>2
  <2>3. isLeader => isr # NoISR
    BY Zenon, <1>0 DEF RoleInv, NoISR
  <2>4. /\ to \notin Leading \cup {"start", "push", "fail purgatory", "make leader"}
        /\ t \in purgatory => to \in WithEntry
        /\ isLeader => to \in BeforeDrain
    BY Zenon, <1>d, <2>3 DEF Leading, WithEntry, BeforeDrain
  <2>5. t \in purgatory => t \in Producers
    BY <1>0 DEF EntryInv
  <2> HIDE DEF to
  <2> QED
    BY Zenon, <1>a, <2>1, <2>2, <2>4, <2>5, PurgatoryFrame
<1>3. CASE SwapHW(t)
  <2>1. /\ Go(t, "swap", "drain")
        /\ UNCHANGED <<isLeader, isr, closed, purgatory, result>>
    BY <1>3 DEF SwapHW, role
  <2>2. /\ \A u \in Threads : u # t => loc'[u] = loc[u]
        /\ loc'[t].offset = loc[t].offset
        /\ loc'[t].newHW = highWatermark'
    BY <1>0, <1>3, <1>a, <1>b DEF SwapHW, Types, Locals
  <2>3. pc[t] = "swap" /\ pc'[t] = "drain" /\ \A u \in Threads : u # t => pc'[u] = pc[u]
    BY <1>0, <1>a, <2>1, Moves
  <2>4. highWatermark' \in Nat /\ highWatermark \in Nat /\ highWatermark' >= highWatermark
    <3>1. loc[t].newHW \in Nat
      BY <1>b DEF Locals
    <3> QED
      BY <1>0, <1>3, <3>1 DEF SwapHW, Types
  <2>5. RoleInv'
    BY Zenon, <1>0, <1>a, <2>1, <2>3, MoreNames DEF RoleInv, Leading
  <2>6. EntryInv'
    BY <1>0, <1>a, <2>1, <2>3, MoreNames DEF EntryInv, WithEntry
  <2>7. CloseInv'
    BY <1>0, <1>a, <2>1, <2>3, MoreNames DEF CloseInv
  <2>8. DrainInv'
    <3> SUFFICES ASSUME NEW p \in purgatory, isLeader, loc'[p].offset <= highWatermark'
                 PROVE  pc'[p] \in BeforeDrain \/ \E u \in Advancers : WillDrain(u, p)'
      BY <2>1 DEF DrainInv
    <3>1. WillDrain(t, p)'
      BY SMTT(30), <2>2, <2>3 DEF WillDrain
    <3> QED
      BY <3>1
  <2> QED
    BY <2>5, <2>6, <2>7, <2>8 DEF PurgatoryInv
<1>4. CASE DrainPurgatory(t)
  <2> DEFINE drained == {p \in purgatory : loc[p].offset <= loc[t].newHW}
             to == IF loc[t].moved THEN "notify" ELSE AfterAdvance(t)
  <2>1. /\ Go(t, "drain", to)
        /\ UNCHANGED <<isLeader, isr, closed, highWatermark>>
        /\ purgatory' = purgatory \ drained
        /\ result' = [p \in Producers |-> IF p \in drained THEN "acked" ELSE result[p]]
    BY SMTT(30), <1>4 DEF DrainPurgatory, fields, role
  <2>2. /\ \A u \in Threads : u # t => loc'[u] = loc[u]
        /\ t \in Producers => loc'[t].offset = loc[t].offset
    BY <1>0, <1>4, <1>a, ReturnKeeps DEF DrainPurgatory
  <2>3. /\ to \notin Leading \cup {"start", "push", "fail purgatory", "make leader"}
        /\ t \in purgatory => to \in WithEntry
    BY Zenon, <1>d DEF Leading, WithEntry
  <2>4. pc[t] = "drain" /\ pc'[t] = to /\ \A u \in Threads : u # t => pc'[u] = pc[u]
    BY <1>0, <1>a, <2>1, Moves
  <2>5. drained \subseteq purgatory /\ purgatory' \subseteq purgatory
    BY SMTT(30), <2>1
  <2> HIDE DEF to
  <2>6. RoleInv'
    BY Zenon, <1>0, <1>a, <2>1, <2>3, <2>4, <2>5, MoreNames DEF RoleInv
  <2>7. EntryInv'
    <3>1. purgatory' \subseteq Producers /\ result' = [p \in Producers |-> result'[p]]
      BY <1>0, <2>1, <2>5 DEF EntryInv
    <3>2. \A p \in purgatory' : pc'[p] \in WithEntry
      BY Zenon, <1>0, <2>3, <2>4, <2>5, MoreNames DEF EntryInv
    <3>3. ASSUME NEW p \in Producers, pc'[p] \in {"start", "push"} \/ p \in purgatory'
          PROVE  result'[p] = "none"
      <4>1. p \notin drained
        <5>1. CASE p \in purgatory'
          BY <2>1, <5>1
        <5>2. CASE pc'[p] \in {"start", "push"}
          <6>1. p # t /\ pc[p] \in {"start", "push"}
            BY Zenon, <2>3, <2>4, <5>2, MoreNames
          <6> QED
            BY <1>0, <2>5, <6>1 DEF EntryInv, WithEntry, BeforeDrain
        <5> QED
          BY <3>3, <5>1, <5>2
      <4>2. pc[p] \in {"start", "push"} \/ p \in purgatory
        BY Zenon, <2>3, <2>4, <2>5, <3>3, MoreNames
      <4> QED
        BY <1>0, <2>1, <4>1, <4>2 DEF EntryInv
    <3> QED
      BY <3>1, <3>2, <3>3 DEF EntryInv
  <2>8. CloseInv'
    BY Zenon, <1>0, <1>a, <2>1, <2>3, <2>4, <2>5, MoreNames DEF CloseInv
  <2>9. DrainInv'
    <3> SUFFICES ASSUME NEW p \in purgatory', isLeader, loc'[p].offset <= highWatermark
                 PROVE  pc'[p] \in BeforeDrain \/ \E u \in Advancers : WillDrain(u, p)'
      BY <2>1 DEF DrainInv
    <3>1. p \in purgatory /\ p \in Producers /\ p \in Threads /\ loc'[p].offset = loc[p].offset
      BY <1>0, <2>2, <2>5, MoreNames DEF EntryInv
    <3>2. CASE pc[p] \in BeforeDrain
      BY <2>4, <3>1, <3>2 DEF BeforeDrain
    <3>3. ~WillDrain(t, p)
      <4>1. ~(loc[p].offset <= loc[t].newHW)
        BY <2>1, <3>1
      <4>2. loc[p].offset \in Nat /\ loc[t].newHW \in Nat
        BY <1>0, <1>b, <3>1 DEF Types, Locals
      <4> QED
        BY <4>1, <4>2 DEF WillDrain
    <3>4. ASSUME NEW u \in Advancers, WillDrain(u, p) PROVE WillDrain(u, p)'
      BY <2>2, <2>4, <3>1, <3>3, <3>4, MoreNames DEF WillDrain
    <3> QED
      BY <1>0, <3>1, <3>2, <3>4 DEF DrainInv
  <2> QED
    BY <2>6, <2>7, <2>8, <2>9 DEF PurgatoryInv
<1>5. CASE NotifyAdvance(t)
  <2>1. /\ Go(t, "notify", AfterAdvance(t))
        /\ UNCHANGED <<isLeader, isr, closed, purgatory, result, highWatermark>>
    BY <1>5 DEF NotifyAdvance, fields, role
  <2>2. /\ \A u \in Threads : u # t => loc'[u] = loc[u]
        /\ t \in Producers => loc'[t].offset = loc[t].offset
    BY <1>0, <1>5, <1>a, ReturnKeeps DEF NotifyAdvance
  <2>3. t \in purgatory => t \in Producers
    BY <1>0 DEF EntryInv
  <2>4. "notify" \notin BeforeDrain
    BY DEF BeforeDrain
  <2> QED
    BY Zenon, <1>a, <1>d, <2>1, <2>2, <2>3, <2>4, PurgatoryFrame
<1> QED
  BY <1>1, <1>2, <1>3, <1>4, <1>5 DEF MaybeAdvanceHW

\* AppendRaw: a producer is in the purgatory from its push, made under appendMu
\* while the broker leads, until somebody answers it.
LEMMA ProducerKeepsPurgatory ==
  ASSUME IInv, PurgatoryInv, NEW p \in Producers, ProducerStep(p) \/ TimeOut(p)
  PROVE  PurgatoryInv'
<1>0. Types /\ LockInv /\ RoleInv /\ EntryInv /\ CloseInv /\ DrainInv
  BY DEF IInv, PurgatoryInv
<1>a. p \in Threads /\ p \in Advancers /\ p \notin {"refresh", "worker", "consumer", "closer"}
  BY MoreNames DEF Advancers
<1>b. loc[p] \in Locals
  BY <1>0, <1>a DEF Types
<1>c. pc[p] \in {"start", "push"} => p \notin purgatory
  BY <1>0 DEF EntryInv, WithEntry, BeforeDrain
<1>1. ASSUME NEW from, NEW to, Go(p, from, to), from # "drain", p \notin purgatory,
             to \notin {"start", "push"},
             UNCHANGED <<isLeader, isr, closed, purgatory, highWatermark>>,
             \A q \in Producers : q # p => result'[q] = result[q],
             result' = [q \in Producers |-> result'[q]],
             \A u \in Threads : u # p => loc'[u] = loc[u]
      PROVE  PurgatoryInv'
  <2>1. pc[p] = from /\ pc'[p] = to /\ \A u \in Threads : u # p => pc'[u] = pc[u]
    BY <1>0, <1>1, <1>a, Moves
  <2>2. RoleInv'
    BY Zenon, <1>0, <1>1, <1>a, <2>1, MoreNames DEF RoleInv
  <2>3. EntryInv'
    BY <1>0, <1>1, <1>a, <2>1, MoreNames DEF EntryInv
  <2>4. CloseInv'
    BY <1>0, <1>1, <1>a, <2>1, MoreNames DEF CloseInv
  <2>5. DrainInv'
    <3> SUFFICES ASSUME NEW q \in purgatory, isLeader, loc'[q].offset <= highWatermark
                 PROVE  pc'[q] \in BeforeDrain \/ \E u \in Advancers : WillDrain(u, q)'
      BY <1>1 DEF DrainInv
    <3>1. q \in Threads /\ q # p /\ loc'[q] = loc[q] /\ pc'[q] = pc[q]
      BY <1>0, <1>1, <2>1, MoreNames DEF EntryInv
    <3>2. ASSUME NEW u \in Advancers, WillDrain(u, q) PROVE WillDrain(u, q)'
      BY <1>1, <2>1, <3>1, <3>2, MoreNames DEF WillDrain
    <3> QED
      BY <1>0, <3>1, <3>2 DEF DrainInv
  <2> QED
    BY <2>2, <2>3, <2>4, <2>5 DEF PurgatoryInv
<1>2. CASE AppendRefused(p)
  <2>1. /\ Go(p, "start", "done")
        /\ UNCHANGED <<isLeader, isr, closed, purgatory, highWatermark, loc>>
        /\ result' = [result EXCEPT ![p] = "failed"]
    BY <1>2 DEF AppendRefused, fields, role
  <2>2. /\ \A q \in Producers : q # p => result'[q] = result[q]
        /\ result' = [q \in Producers |-> result'[q]]
    BY <1>0, <2>1 DEF EntryInv
  <2>3. p \notin purgatory
    BY <1>c, <2>1 DEF Go
  <2> QED
    BY <1>1, <2>1, <2>2, <2>3
<1>3. CASE AppendToLog(p)
  <2>1. /\ Go(p, "start", "push") /\ isLeader /\ ~closed
        /\ UNCHANGED <<isLeader, isr, closed, purgatory, result, highWatermark>>
    BY <1>3 DEF AppendToLog, fields, role
  <2>2. \A u \in Threads : u # p => loc'[u] = loc[u]
    BY <1>0, <1>3 DEF AppendToLog, Types
  <2>3. pc[p] = "start" /\ pc'[p] = "push" /\ \A u \in Threads : u # p => pc'[u] = pc[u]
    BY <1>0, <1>a, <2>1, Moves
  <2>4. RoleInv'
    BY Zenon, <1>0, <1>a, <2>1, <2>3, MoreNames DEF RoleInv
  <2>5. EntryInv'
    BY <1>0, <1>a, <1>c, <2>1, <2>3, MoreNames DEF EntryInv
  <2>6. CloseInv'
    BY <1>0, <1>a, <2>1, <2>3, MoreNames DEF CloseInv
  <2>7. DrainInv'
    <3> SUFFICES ASSUME NEW q \in purgatory, isLeader, loc'[q].offset <= highWatermark
                 PROVE  pc'[q] \in BeforeDrain \/ \E u \in Advancers : WillDrain(u, q)'
      BY <2>1 DEF DrainInv
    <3>1. q \in Threads /\ q # p /\ loc'[q] = loc[q] /\ pc'[q] = pc[q]
      BY <1>0, <1>c, <2>2, <2>3, MoreNames DEF EntryInv
    <3>2. ASSUME NEW u \in Advancers, WillDrain(u, q) PROVE WillDrain(u, q)'
      BY <2>2, <2>3, <3>1, <3>2, MoreNames DEF WillDrain
    <3> QED
      BY <1>0, <3>1, <3>2 DEF DrainInv
  <2> QED
    BY <2>4, <2>5, <2>6, <2>7 DEF PurgatoryInv
<1>4. CASE PushPurgatory(p)
  <2>1. /\ Go(p, "push", "advance") /\ purgatory' = purgatory \cup {p}
        /\ UNCHANGED <<isLeader, isr, closed, result, highWatermark, loc>>
    BY <1>4 DEF PushPurgatory, fields, role
  <2>2. pc[p] = "push" /\ pc'[p] = "advance" /\ \A u \in Threads : u # p => pc'[u] = pc[u]
    BY <1>0, <1>a, <2>1, Moves
  <2>3. isLeader /\ pc["closer"] # "done"
    BY Zenon, <1>0, <2>2 DEF RoleInv, CloseInv
  <2>4. RoleInv'
    BY Zenon, <1>0, <1>a, <2>1, <2>2, <2>3, MoreNames DEF RoleInv
  <2>5. EntryInv'
    BY <1>0, <1>a, <2>1, <2>2, MoreNames DEF EntryInv, WithEntry, BeforeDrain
  <2>6. CloseInv'
    BY <1>0, <1>a, <2>1, <2>2, <2>3, MoreNames DEF CloseInv
  <2>7. DrainInv'
    <3> SUFFICES ASSUME NEW q \in purgatory', isLeader, loc[q].offset <= highWatermark
                 PROVE  pc'[q] \in BeforeDrain \/ \E u \in Advancers : WillDrain(u, q)'
      BY <2>1 DEF DrainInv
    <3>1. CASE q = p
      BY SMTT(30), <2>2, <3>1 DEF BeforeDrain
    <3>2. CASE q # p
      <4>1. q \in purgatory /\ q \in Threads /\ pc'[q] = pc[q]
        BY SMTT(30), <1>0, <2>1, <2>2, <3>2, MoreNames DEF EntryInv
      <4>2. ASSUME NEW u \in Advancers, WillDrain(u, q) PROVE WillDrain(u, q)'
        BY <2>1, <2>2, <4>1, <4>2, MoreNames DEF WillDrain
      <4> QED
        BY <1>0, <4>1, <4>2 DEF DrainInv
    <3> QED
      BY <3>1, <3>2
  <2> QED
    BY <2>4, <2>5, <2>6, <2>7 DEF PurgatoryInv
<1>5. CASE SkipPurgatory(p)
  <2>1. /\ Go(p, "push", "advance")
        /\ UNCHANGED <<isLeader, isr, closed, purgatory, highWatermark, loc>>
        /\ result' = [result EXCEPT ![p] = "written"]
    BY <1>5 DEF SkipPurgatory, fields, role
  <2>2. /\ \A q \in Producers : q # p => result'[q] = result[q]
        /\ result' = [q \in Producers |-> result'[q]]
    BY <1>0, <2>1 DEF EntryInv
  <2>3. p \notin purgatory
    BY <1>c, <2>1 DEF Go
  <2> QED
    BY <1>1, <2>1, <2>2, <2>3
<1>6. CASE MaybeAdvanceHW(p)
  BY <1>6, <1>a, AdvanceKeepsPurgatory
<1>7. CASE Answered(p)
  <2>1. /\ Go(p, "wait", "done")
        /\ UNCHANGED <<isLeader, isr, closed, purgatory, highWatermark, result>>
        /\ result[p] # "none"
    BY <1>7 DEF Answered, fields, role
  <2>2. \A u \in Threads : u # p => loc'[u] = loc[u]
    BY <1>0, <1>7 DEF Answered, Types
  <2>3. p \notin purgatory /\ result' = [q \in Producers |-> result'[q]]
    BY <1>0, <2>1 DEF EntryInv
  <2> QED
    BY <1>1, <2>1, <2>2, <2>3
<1>8. CASE TimeOut(p)
  <2>1. /\ UNCHANGED <<isLeader, isr, closed, highWatermark, pc, loc>>
        /\ purgatory' = purgatory \ {p} /\ result' = [result EXCEPT ![p] = "timed out"]
        /\ pc[p] = "wait"
    BY Zenon, <1>8 DEF TimeOut, fields, role
  <2>2. /\ \A q \in Producers : q # p => result'[q] = result[q]
        /\ result' = [q \in Producers |-> result'[q]]
    BY Zenon, <1>0, <2>1 DEF EntryInv
  <2>3. RoleInv'
    BY Zenon, <1>0, <2>1 DEF RoleInv
  <2>4. EntryInv'
    BY Zenon, <1>0, <2>1, <2>2 DEF EntryInv
  <2>5. CloseInv'
    BY Zenon, <1>0, <2>1 DEF CloseInv
  <2>6. DrainInv'
    BY Zenon, <1>0, <2>1 DEF DrainInv, WillDrain
  <2> QED
    BY <2>3, <2>4, <2>5, <2>6 DEF PurgatoryInv
<1> QED
  BY <1>2, <1>3, <1>4, <1>5, <1>6, <1>7, <1>8 DEF ProducerStep

\* A follower's fetch.
LEMMA HandlerKeepsPurgatory ==
  ASSUME IInv, PurgatoryInv, NEW h \in Handlers, HandlerStep(h)
  PROVE  PurgatoryInv'
<1>0. Types /\ EntryInv
  BY DEF IInv, PurgatoryInv
<1>a. /\ h \in Threads /\ h \in Advancers /\ h \notin Producers
      /\ h \notin {"refresh", "worker", "consumer", "closer"} /\ h \notin purgatory
  BY <1>0, MoreNames DEF Advancers, EntryInv
<1>1. ASSUME NEW from, NEW to, Go(h, from, to), from # "drain",
             UNCHANGED <<isLeader, closed, purgatory, result, highWatermark>>,
             Self \in DOMAIN isr => Self \in DOMAIN isr',
             \A u \in Threads : u # h => loc'[u] = loc[u]
      PROVE  PurgatoryInv'
  BY Zenon, <1>1, <1>a, PurgatoryFrame
<1>2. ASSUME NEW epoch \in 0 .. MaxEpoch, NEW offset \in 0 .. leo, CheckEpoch(h, epoch, offset)
      PROVE  PurgatoryInv'
  <2> DEFINE to == IF isLeader /\ epoch = leaderEpoch THEN "fetch" ELSE "done"
  <2>1. /\ Go(h, "start", to)
        /\ UNCHANGED <<isLeader, isr, closed, purgatory, result, highWatermark>>
    BY <1>2 DEF CheckEpoch, fields, role
  <2>2. \A u \in Threads : u # h => loc'[u] = loc[u]
    BY <1>0, <1>2 DEF CheckEpoch, Types
  <2> HIDE DEF to
  <2> QED
    BY <1>1, <2>1, <2>2
<1>3. CASE CheckOffset(h)
  <2> DEFINE to == IF ~closed /\ isLeader /\ loc[h].offset <= leo THEN "update" ELSE "done"
  <2>1. /\ Go(h, "fetch", to)
        /\ UNCHANGED <<isLeader, isr, closed, purgatory, result, highWatermark>>
    BY <1>3 DEF CheckOffset, fields, role
  <2>2. \A u \in Threads : u # h => loc'[u] = loc[u]
    BY <1>0, <1>3, <1>a, ReturnKeeps DEF CheckOffset
  <2> HIDE DEF to
  <2> QED
    BY <1>1, <2>1, <2>2
<1>4. ASSUME NEW b \in Followers, UpdateFollowerLEO(h, b)
      PROVE  PurgatoryInv'
  <2>1. /\ Go(h, "update", "advance")
        /\ UNCHANGED <<isLeader, closed, purgatory, result, highWatermark>>
        /\ DOMAIN isr' = DOMAIN isr /\ Return(h)
    BY <1>4 DEF UpdateFollowerLEO
  <2>2. \A u \in Threads : u # h => loc'[u] = loc[u]
    BY <1>0, <1>a, <2>1, ReturnKeeps
  <2> QED
    BY <1>1, <2>1, <2>2
<1>5. CASE MaybeAdvanceHW(h)
  BY <1>5, <1>a, AdvanceKeepsPurgatory
<1> QED
  BY <1>2, <1>3, <1>4, <1>5 DEF HandlerStep

\* A purgatory that is empty, in a broker that does not begin to lead by this step
\* and lets no producer append.
LEMMA PurgatoryEmpty ==
  ASSUME IInv, PurgatoryInv, NEW t \in {"refresh", "closer", "worker"},
         NEW from, NEW to, Go(t, from, to),
         purgatory' = {}, RoleInv', CloseInv',
         result' = [p \in Producers |-> IF p \in purgatory THEN "failed" ELSE result[p]]
            \/ UNCHANGED result
  PROVE  PurgatoryInv'
<1>0. Types /\ EntryInv
  BY DEF IInv, PurgatoryInv
<1>1. t \in Threads /\ \A p \in Producers : p \in Threads /\ p # t
  BY MoreNames
<1>2. \A p \in Producers : pc'[p] = pc[p]
  BY <1>0, <1>1, Moves
<1>3. EntryInv'
  <2>1. \A p \in Producers : pc[p] \in {"start", "push"} => p \notin purgatory
    BY <1>0 DEF EntryInv, WithEntry, BeforeDrain
  <2>2. result' = [p \in Producers |-> result'[p]]
    BY <1>0 DEF EntryInv
  <2>3. ASSUME NEW p \in Producers, pc[p] \in {"start", "push"} PROVE result'[p] = "none"
    BY <1>0, <2>1, <2>3 DEF EntryInv
  <2> QED
    BY <1>2, <2>2, <2>3 DEF EntryInv
<1>4. DrainInv'
  BY DEF DrainInv
<1> QED
  BY <1>3, <1>4 DEF PurgatoryInv

\* A step of a broker that does not lead.
LEMMA PurgatoryUnled ==
  ASSUME IInv, PurgatoryInv, NEW t \in {"refresh", "worker"}, NEW from, NEW to, Go(t, from, to),
         UNCHANGED <<closed, purgatory, result>>, ~isLeader', RoleInv'
  PROVE  PurgatoryInv'
<1>0. Types /\ EntryInv /\ CloseInv
  BY DEF IInv, PurgatoryInv
<1>1. t \in Threads /\ t # "closer" /\ \A p \in Producers : p \in Threads /\ p # t
  BY MoreNames
<1>2. pc'["closer"] = pc["closer"] /\ \A p \in Producers : pc'[p] = pc[p]
  BY <1>0, <1>1, Moves, MoreNames
<1>3. EntryInv'
  BY <1>0, <1>2 DEF EntryInv
<1>4. CloseInv'
  BY <1>0, <1>2 DEF CloseInv
<1>5. DrainInv'
  BY DEF DrainInv
<1> QED
  BY <1>3, <1>4, <1>5 DEF PurgatoryInv

\* Reconcile, by a broker that leads a later epoch only after it has followed or
\* has been left out in between.
LEMMA RefreshKeepsPurgatory ==
  ASSUME IInv, PurgatoryInv, RefreshStep, LeaderToLeader = FALSE
  PROVE  PurgatoryInv'
<1> DEFINE r == "refresh"
<1>0. Types /\ LockInv /\ RoleInv /\ EntryInv /\ CloseInv /\ DrainInv
  BY DEF IInv, PurgatoryInv
<1>a. /\ r \in Threads /\ r \in Advancers /\ r \notin Producers /\ r # "closer"
      /\ r \notin purgatory
  BY <1>0, MoreNames DEF Advancers, EntryInv
<1>b. ASSUME NEW from, NEW to, Go(r, from, to)
      PROVE  /\ pc[r] = from /\ pc'[r] = to /\ pc'["closer"] = pc["closer"]
             /\ \A p \in Producers : pc'[p] = pc[p]
  BY <1>0, <1>a, <1>b, Moves, MoreNames
<1>c. ASSUME NEW to, to \notin Leading, to # "fail purgatory",
             to = "make leader" => ~isLeader,
             NEW from \in {"start", "done"}, Go(r, from, to),
             UNCHANGED <<isLeader, closed, purgatory, result, highWatermark>>,
             Self \in DOMAIN isr => Self \in DOMAIN isr',
             \A u \in Threads : u # r => loc'[u] = loc[u]
      PROVE  PurgatoryInv'
  BY Zenon, <1>a, <1>c, PurgatoryFrame
<1>d. appendMu = "free" => \A p \in Producers : pc[p] # "push"
  BY <1>0, ThreadNames DEF LockInv
<1>e. /\ {"start", "make leader", "advance"} \cap (Leading \cup {"fail purgatory"}) = {}
      /\ "fail purgatory" \notin Leading
  BY DEF Leading
<1>1. ASSUME NEW epoch \in 0 .. MaxEpoch, ReadHW(epoch)
      PROVE  PurgatoryInv'
  <2>1. /\ Go(r, "start", "make leader") /\ ~isLeader
        /\ UNCHANGED <<isLeader, isr, closed, purgatory, result, highWatermark>>
    BY Zenon, <1>1 DEF ReadHW, Refresh, fields, role
  <2>2. \A u \in Threads : u # r => loc'[u] = loc[u]
    BY Zenon, <1>0, <1>1 DEF ReadHW, Types
  <2> QED
    BY Zenon, <1>c, <1>e, <2>1, <2>2
<1>2. ASSUME NEW members, Self \in members, MakeLeader(members)
      PROVE  PurgatoryInv'
  <2>1. /\ Go(r, "make leader", "store HW") /\ appendMu = "free"
        /\ isLeader' = FALSE /\ isr' = [m \in members |-> 0]
        /\ UNCHANGED <<closed, purgatory, result>>
    BY Zenon, <1>2 DEF MakeLeader, Refresh
  <2>2. purgatory = {}
    <3>1. pc[r] = "make leader"
      BY Zenon, <2>1 DEF Go
    <3> QED
      BY Zenon, <1>0, <3>1 DEF RoleInv
  <2>3. RoleInv'
    BY Zenon, <1>2, <1>b, <1>d, <2>1, <2>2 DEF RoleInv
  <2> QED
    BY Zenon, <2>1, <2>3, PurgatoryUnled
<1>3. CASE MakeLeaderStoreHW
  <2>1. /\ Go(r, "store HW", "lead")
        /\ UNCHANGED <<isLeader, isr, closed, purgatory, result>>
    BY Zenon, <1>3 DEF MakeLeaderStoreHW, Refresh, role
  <2>2. pc[r] \in Leading /\ pc[r] # "fail purgatory"
    BY Zenon, <2>1 DEF Go, Leading
  <2>3. ~isLeader
    BY Zenon, <1>0, <2>2 DEF LockInv
  <2>4. RoleInv'
    BY Zenon, <1>0, <1>b, <2>1, <2>2, <2>3 DEF RoleInv
  <2> QED
    BY Zenon, <2>1, <2>3, <2>4, PurgatoryUnled
<1>4. CASE MakeLeaderDone
  <2>1. /\ Go(r, "lead", "start") /\ isLeader' = TRUE
        /\ UNCHANGED <<isr, closed, purgatory, result>>
    BY <1>4 DEF MakeLeaderDone, Refresh
  <2>2. pc[r] \in Leading /\ pc[r] # "fail purgatory"
    BY <2>1 DEF Go, Leading
  <2>3. purgatory = {} /\ Self \in DOMAIN isr
    BY Zenon, <1>0, <2>2 DEF LockInv, RoleInv
  <2>4. RoleInv'
    <3>1. pc'[r] = "start"
      BY <1>b, <2>1
    <3> QED
      BY <2>1, <2>3, <3>1 DEF RoleInv
  <2>5. CloseInv'
    BY <1>0, <1>b, <2>1 DEF CloseInv
  <2> QED
    BY <2>1, <2>3, <2>4, <2>5, PurgatoryEmpty
<1>5. CASE MakeLeaderFails
  <2>1. /\ Go(r, "make leader", "start") /\ appendMu = "free" /\ isLeader' = FALSE
        /\ FailPurgatory /\ UNCHANGED closed
    BY Zenon, <1>5 DEF MakeLeaderFails, Refresh
  <2>2. RoleInv'
    BY Zenon, <1>b, <1>d, <1>e, <2>1 DEF RoleInv, FailPurgatory
  <2>3. CloseInv'
    BY Zenon, <1>0, <1>b, <2>1 DEF CloseInv, FailPurgatory
  <2> QED
    BY Zenon, <2>1, <2>2, <2>3, PurgatoryEmpty DEF FailPurgatory
<1>6. CASE (\E epoch \in 0 .. MaxEpoch : MakeFollower(epoch)) \/ MakeUnassigned
  <2>1. /\ Go(r, "start", "fail purgatory") /\ appendMu = "free" /\ isLeader' = FALSE
        /\ UNCHANGED <<closed, purgatory, result>>
    BY Zenon, <1>6 DEF MakeFollower, MakeUnassigned, Refresh
  <2>2. RoleInv'
    BY Zenon, <1>b, <1>d, <1>e, <2>1 DEF RoleInv
  <2> QED
    BY Zenon, <2>1, <2>2, PurgatoryUnled
<1>7. CASE FailWaiting
  <2>1. /\ Go(r, "fail purgatory", "start")
        /\ FailPurgatory /\ UNCHANGED <<isLeader, isr, closed>>
    BY Zenon, <1>7 DEF FailWaiting, Refresh, role
  <2>2. RoleInv'
    BY Zenon, <1>0, <1>b, <1>e, <2>1 DEF RoleInv, FailPurgatory
  <2>3. CloseInv'
    BY Zenon, <1>0, <1>b, <2>1 DEF CloseInv, FailPurgatory
  <2> QED
    BY Zenon, <2>1, <2>2, <2>3, PurgatoryEmpty DEF FailPurgatory
<1>8. ASSUME NEW members, Self \in members, UpdateLeaderISR(members)
      PROVE  PurgatoryInv'
  <2>1. /\ Go(r, "start", "advance") /\ DOMAIN isr' = members
        /\ UNCHANGED <<isLeader, closed, purgatory, result, highWatermark, loc>>
    BY <1>8 DEF UpdateLeaderISR, Refresh
  <2> QED
    BY Zenon, <1>8, <1>c, <1>e, <2>1
<1>9. CASE MaybeAdvanceHW(r)
  BY <1>9, <1>a, AdvanceKeepsPurgatory
<1>10. CASE UpdateLeaderISRDone
  <2>1. /\ Go(r, "done", "start")
        /\ UNCHANGED <<isLeader, isr, closed, purgatory, result, highWatermark, loc>>
    BY <1>10 DEF UpdateLeaderISRDone, Refresh, fields, role
  <2> QED
    BY Zenon, <1>c, <1>e, <2>1
<1>11. ASSUME NEW members \in {S \in SUBSET Replicas : Self \in S},
              MakeLeader(members) \/ UpdateLeaderISR(members)
       PROVE  PurgatoryInv'
  <2>1. Self \in members
    BY <1>11
  <2> QED
    BY <1>2, <1>8, <1>11, <2>1
<1> QED
  BY <1>1, <1>3, <1>4, <1>5, <1>6, <1>7, <1>9, <1>10, <1>11 DEF RefreshStep

\* The fetch worker, the consumer and Close.
LEMMA OthersKeepPurgatory ==
  ASSUME IInv, PurgatoryInv, WorkerStep \/ ConsumerStep \/ CloseBegin \/ CloseDone
  PROVE  PurgatoryInv'
<1>0. Types /\ LockInv /\ RoleInv /\ EntryInv /\ CloseInv /\ DrainInv
  BY DEF IInv, PurgatoryInv
<1>a. \A t \in {"worker", "consumer", "closer"} :
         t \in Threads /\ t \notin Producers /\ t # "refresh" /\ t \notin purgatory
  BY <1>0, MoreNames DEF EntryInv
<1>1. ASSUME NEW t \in {"worker", "consumer"}, NEW from, NEW to, Go(t, from, to), from # "drain",
             UNCHANGED <<isLeader, isr, closed, purgatory, result, highWatermark>>,
             \A u \in Threads : u # t => loc'[u] = loc[u]
      PROVE  PurgatoryInv'
  BY Zenon, <1>1, <1>a, PurgatoryFrame
<1>2. CASE WorkerStep
  <2>1. ASSUME NEW offset \in 0 .. leo, TruncateTo(offset) PROVE PurgatoryInv'
    BY <1>1, <2>1 DEF TruncateTo, fields, role
  <2>2. ASSUME NEW n \in {0, 1}, AppendFromLeader(n) PROVE PurgatoryInv'
    <3>1. \A u \in Threads : u # "worker" => loc'[u] = loc[u]
      BY <1>0, <2>2 DEF AppendFromLeader, Types
    <3> QED
      BY Zenon, <1>1, <2>2, <3>1 DEF AppendFromLeader, fields, role
  <2>3. CASE Reconciled
    <3>1. UNCHANGED <<isLeader, isr, closed, purgatory, result, highWatermark, pc, loc>>
      BY <2>3 DEF Reconciled, role
    <3> QED
      BY Zenon, <1>0, <3>1 DEF PurgatoryInv, RoleInv, EntryInv, CloseInv, DrainInv, WillDrain
  <2>4. CASE TruncateToDone \/ \E hw \in 0 .. MaxLEO : AppendFromLeaderDone(hw)
    <3>1. PICK from \in {"clamp", "raise"} : Go("worker", from, "start")
      BY Zenon, <2>4 DEF TruncateToDone, AppendFromLeaderDone
    <3>2. UNCHANGED <<isLeader, isr, closed, purgatory, result>>
      BY Zenon, <2>4 DEF TruncateToDone, AppendFromLeaderDone, role
    <3>3. pc["worker"] = from /\ \A u \in Threads : u # "worker" => pc'[u] = pc[u]
      BY <1>0, <1>a, <3>1, Moves
    <3>4. ~isLeader
      BY <1>0, <3>3 DEF LockInv
    <3>5. RoleInv'
      BY Zenon, <1>0, <3>2, <3>3, MoreNames DEF RoleInv
    <3> QED
      BY SMTT(30), <3>1, <3>2, <3>4, <3>5, PurgatoryUnled
  <2> QED
    BY SMTT(30), <1>2, <2>1, <2>2, <2>3, <2>4 DEF WorkerStep
<1>3. CASE ConsumerStep
  <2>1. PICK from \in {"start", "read", "poll"}, to \in {"start", "read", "poll"} :
           Go("consumer", from, to)
    BY SMTT(30), <1>3 DEF ConsumerStep, TakeChannel, Read, Wake, PollExpires
  <2>2. UNCHANGED <<isLeader, isr, closed, purgatory, result, highWatermark, loc>>
    BY <1>3 DEF ConsumerStep, TakeChannel, Read, Wake, PollExpires, fields, role
  <2> QED
    BY <1>1, <2>1, <2>2
<1>4. CASE CloseBegin
  <2>1. /\ Go("closer", "start", "closing") /\ closed' = TRUE
        /\ UNCHANGED <<isLeader, isr, purgatory, result, highWatermark, loc>>
    BY <1>4 DEF CloseBegin, role
  <2>2. /\ pc["closer"] = "start" /\ pc'["closer"] = "closing"
        /\ \A u \in Threads : u # "closer" => pc'[u] = pc[u]
    BY <1>0, <1>a, <2>1, Moves
  <2>3. RoleInv'
    BY Zenon, <1>0, <2>1, <2>2, MoreNames DEF RoleInv
  <2>4. EntryInv'
    BY <1>0, <2>1, <2>2, MoreNames DEF EntryInv
  <2>5. CloseInv'
    BY SMTT(30), <2>1, <2>2 DEF CloseInv
  <2>6. DrainInv'
    <3> SUFFICES ASSUME NEW p \in purgatory, isLeader, loc[p].offset <= highWatermark
                 PROVE  pc'[p] \in BeforeDrain \/ \E u \in Advancers : WillDrain(u, p)'
      BY <2>1 DEF DrainInv
    <3>1. pc'[p] = pc[p] /\ \A u \in Advancers : pc'[u] = pc[u]
      BY <1>0, <2>2, MoreNames DEF EntryInv
    <3>2. ASSUME NEW u \in Advancers, WillDrain(u, p) PROVE WillDrain(u, p)'
      BY <2>1, <3>1, <3>2 DEF WillDrain
    <3> QED
      BY <1>0, <3>1, <3>2 DEF DrainInv
  <2> QED
    BY <2>3, <2>4, <2>5, <2>6 DEF PurgatoryInv
<1>5. CASE CloseDone
  <2>1. /\ Go("closer", "closing", "done") /\ appendMu = "free" /\ FailPurgatory
        /\ UNCHANGED <<isLeader, isr, closed, highWatermark, loc>>
    BY <1>5 DEF CloseDone, fields, role
  <2>2. /\ pc["closer"] = "closing" /\ pc'["closer"] = "done"
        /\ \A u \in Threads : u # "closer" => pc'[u] = pc[u]
    BY <1>0, <1>a, <2>1, Moves
  <2>3. \A p \in Producers : pc[p] # "push"
    BY <1>0, <2>1, ThreadNames DEF LockInv
  <2>4. RoleInv'
    BY Zenon, <1>0, <2>1, <2>2, MoreNames DEF RoleInv, FailPurgatory
  <2>5. CloseInv'
    BY <1>0, <2>1, <2>2, <2>3, MoreNames DEF CloseInv, FailPurgatory
  <2> QED
    BY <2>1, <2>4, <2>5, PurgatoryEmpty DEF FailPurgatory
<1> QED
  BY <1>2, <1>3, <1>4, <1>5

\* A producer whose record is committed, whose broker no longer leads or whose
\* partition is closed is not left in the purgatory, for any number of producers,
\* handlers and followers, unless a leader misses an epoch and leads the next
\* (partition.go: drainPurgatory, failPurgatory; partition_raw.go: AppendRaw).
THEOREM NoProducerStranded ==
  ASSUME LeaderToLeader = FALSE
  PROVE  Spec => []NoStrandedProducer
<1>1. Init => IInv /\ PurgatoryInv
  BY InitInv, PurgatoryInit
<1>2. IInv /\ PurgatoryInv /\ [Next]_vars => IInv' /\ PurgatoryInv'
  <2> SUFFICES ASSUME IInv, PurgatoryInv, [Next]_vars PROVE PurgatoryInv'
    BY StepKeepsInv
  <2>1. CASE Next
    BY Zenon, <2>1, ProducerKeepsPurgatory, HandlerKeepsPurgatory, RefreshKeepsPurgatory,
       OthersKeepPurgatory DEF Next
  <2>2. CASE UNCHANGED vars
    BY Zenon, <2>2 DEF vars, fields, role, PurgatoryInv, RoleInv, EntryInv, CloseInv, DrainInv, WillDrain
  <2> QED
    BY <2>1, <2>2
<1>3. IInv /\ PurgatoryInv => NoStrandedProducer
  <2> SUFFICES ASSUME IInv, PurgatoryInv, Quiet, NEW p \in purgatory
               PROVE  isLeader /\ ~closed /\ loc[p].offset > highWatermark
    BY DEF NoStrandedProducer
  <2>1. p \in Producers /\ pc[p] \in WithEntry /\ p \in Threads
    BY MoreNames DEF PurgatoryInv, EntryInv
  <2>2. isLeader
    BY Zenon DEF PurgatoryInv, RoleInv, Quiet
  <2>3. ~closed
    BY Zenon DEF PurgatoryInv, CloseInv, Quiet
  <2>4. pc[p] \notin BeforeDrain /\ \A t \in Advancers : pc[t] # "drain"
    BY Zenon, <2>1 DEF Quiet, BeforeDrain, Advancers
  <2>5. ~(loc[p].offset <= highWatermark)
    BY <2>2, <2>4 DEF PurgatoryInv, DrainInv, WillDrain
  <2>6. loc[p].offset \in Nat /\ highWatermark \in Nat
    BY <2>1 DEF IInv, Types, Locals
  <2> QED
    BY <2>2, <2>3, <2>5, <2>6
<1> QED
  BY <1>1, <1>2, <1>3, PTL DEF Spec

\* Whoever waits is told by this step.
LEMMA PollTold ==
  ASSUME PollInv, NotifyWaiters, UNCHANGED polled, pc'["consumer"] = pc["consumer"]
  PROVE  PollInv'
  BY Zenon DEF PollInv, NotifyWaiters

\* A step of another thread that has nobody to tell.
LEMMA PollFrame ==
  ASSUME IInv, PollInv, UNCHANGED <<polled, notified>>,
         NEW t \in Threads, t # "consumer", NEW from, NEW to, Go(t, from, to),
         from \notin {"drain", "notify"},
         \A u \in Threads : u # t => loc'[u] = loc[u],
         isLeader' => isLeader /\ highWatermark' = highWatermark
  PROVE  PollInv'
<1>1. pc[t] = from /\ \A u \in Threads : u # t => pc'[u] = pc[u]
  BY Moves DEF IInv
<1>2. ASSUME NEW u \in Advancers, WillNotify(u) PROVE WillNotify(u)'
  BY <1>1, <1>2, MoreNames DEF WillNotify
<1> QED
  BY <1>1, <1>2, MoreNames DEF PollInv

\* maybeAdvanceHW: the thread that raises the high watermark tells the long
\* polls, after it has drained the purgatory.
LEMMA AdvanceKeepsPoll ==
  ASSUME IInv, PollInv, NEW t \in Advancers, MaybeAdvanceHW(t)
  PROVE  PollInv'
<1>0. Types
  BY DEF IInv
<1>a. t \in Threads /\ t # "consumer" /\ loc[t] \in Locals
  BY <1>0, MoreNames DEF Types
<1>b. ASSUME NEW from, NEW to, Go(t, from, to)
      PROVE  /\ pc[t] = from /\ pc'[t] = to /\ pc'["consumer"] = pc["consumer"]
             /\ \A u \in Threads : u # t => pc'[u] = pc[u]
  BY <1>0, <1>a, <1>b, Moves, MoreNames
<1>1. CASE CheckLeader(t)
  <2> DEFINE to == IF isLeader THEN "compute" ELSE AfterAdvance(t)
  <2>1. Go(t, "advance", to) /\ UNCHANGED <<isLeader, polled, notified, highWatermark>>
    BY <1>1 DEF CheckLeader, fields, role, consumerVars
  <2>2. \A u \in Threads : u # t => loc'[u] = loc[u]
    BY SMTT(30), <1>0, <1>1, <1>a, ReturnKeeps DEF CheckLeader
  <2> HIDE DEF to
  <2> QED
    BY <1>a, <2>1, <2>2, PollFrame
<1>2. CASE ComputeHW(t)
  <2> DEFINE to == IF isr = NoISR THEN AfterAdvance(t) ELSE "swap"
  <2>1. Go(t, "compute", to) /\ UNCHANGED <<isLeader, polled, notified, highWatermark>>
    BY <1>2 DEF ComputeHW, fields, role, consumerVars
  <2>2. \A u \in Threads : u # t => loc'[u] = loc[u]
    BY <1>0, <1>2, <1>a, ReturnKeeps DEF ComputeHW, Types
  <2> HIDE DEF to
  <2> QED
    BY <1>a, <2>1, <2>2, PollFrame
<1>3. CASE SwapHW(t)
  <2>1. /\ Go(t, "swap", "drain") /\ UNCHANGED <<isLeader, polled, notified>>
        /\ highWatermark' = highWatermark \/ loc'[t].moved
    BY <1>0, <1>3, <1>a DEF SwapHW, role, consumerVars, Types, Locals
  <2>2. \A u \in Threads : u # t => loc'[u] = loc[u]
    BY <1>0, <1>3 DEF SwapHW, Types
  <2>3. CASE loc'[t].moved
    <3>1. WillNotify(t)'
      BY <1>b, <2>1, <2>3 DEF WillNotify
    <3> QED
      BY <2>1, <3>1 DEF PollInv
  <2>4. CASE highWatermark' = highWatermark
    BY <1>a, <2>1, <2>2, <2>4, PollFrame
  <2> QED
    BY <2>1, <2>3, <2>4
<1>4. CASE DrainPurgatory(t)
  <2> DEFINE to == IF loc[t].moved THEN "notify" ELSE AfterAdvance(t)
  <2>1. Go(t, "drain", to) /\ UNCHANGED <<isLeader, polled, notified, highWatermark>>
    BY SMTT(30), <1>4 DEF DrainPurgatory, fields, role, consumerVars
  <2>2. \A u \in Threads : u # t => loc'[u] = loc[u]
    BY <1>0, <1>4, <1>a, ReturnKeeps DEF DrainPurgatory
  <2>3. /\ pc[t] = "drain" /\ pc'[t] = to /\ pc'["consumer"] = pc["consumer"]
        /\ \A u \in Threads : u # t => pc'[u] = pc[u]
    BY <1>b, <2>1
  <2>4. ASSUME NEW u \in Advancers, WillNotify(u) PROVE WillNotify(u)'
    <3>1. CASE u = t
      BY SMTT(30), <2>3, <2>4, <3>1 DEF WillNotify
    <3>2. CASE u # t
      BY <2>2, <2>3, <2>4, <3>2, MoreNames DEF WillNotify
    <3> QED
      BY <3>1, <3>2
  <2> HIDE DEF to
  <2> QED
    BY SMTT(30), <2>1, <2>3, <2>4 DEF PollInv
<1>5. CASE NotifyAdvance(t)
  <2>1. Go(t, "notify", AfterAdvance(t)) /\ NotifyWaiters /\ UNCHANGED polled
    BY <1>5 DEF NotifyAdvance
  <2> QED
    BY <1>b, <2>1, PollTold
<1> QED
  BY <1>1, <1>2, <1>3, <1>4, <1>5 DEF MaybeAdvanceHW

\* The steps of producers and handlers.
LEMMA ClientsKeepPoll ==
  ASSUME IInv, PollInv,
         \/ \E p \in Producers : ProducerStep(p) \/ TimeOut(p)
         \/ \E h \in Handlers : HandlerStep(h)
  PROVE  PollInv'
<1>0. Types
  BY SMTT(30) DEF IInv
<1>1. ASSUME NEW t \in Producers \cup Handlers, NEW from \in {"start", "push", "wait", "fetch", "update"},
             NEW to, Go(t, from, to),
             UNCHANGED <<isLeader, highWatermark, polled, notified>>,
             \A u \in Threads : u # t => loc'[u] = loc[u]
      PROVE  PollInv'
  <2>1. t \in Threads /\ t # "consumer"
    BY MoreNames DEF Advancers
  <2> QED
    BY Zenon, <1>1, <2>1, PollFrame
<1>2. ASSUME NEW p \in Producers, ProducerStep(p) PROVE PollInv'
  <2>a. p \in Threads /\ p # "consumer" /\ p \in Advancers
    BY MoreNames DEF Advancers
  <2>1. CASE AppendRefused(p)
    BY <1>1, <2>1 DEF AppendRefused, fields, role, consumerVars
  <2>2. CASE AppendToLog(p)
    <3>1. pc'["consumer"] = pc["consumer"]
      BY SMTT(30), <1>0, <2>2, <2>a, Moves, MoreNames DEF AppendToLog
    <3> QED
      BY <2>2, <3>1, PollTold DEF AppendToLog
  <2>3. CASE PushPurgatory(p) \/ SkipPurgatory(p)
    BY <1>1, <2>3 DEF PushPurgatory, SkipPurgatory, fields, role, consumerVars
  <2>4. CASE Answered(p)
    <3>1. \A u \in Threads : u # p => loc'[u] = loc[u]
      BY <1>0, <2>4 DEF Answered, Types
    <3> QED
      BY <1>1, <2>4, <3>1 DEF Answered, fields, role, consumerVars
  <2>5. CASE MaybeAdvanceHW(p)
    BY SMTT(30), <2>5, <2>a, AdvanceKeepsPoll
  <2> QED
    BY <1>2, <2>1, <2>2, <2>3, <2>4, <2>5 DEF ProducerStep
<1>3. ASSUME NEW p \in Producers, TimeOut(p) PROVE PollInv'
  BY Zenon, <1>3 DEF TimeOut, fields, role, consumerVars, PollInv, WillNotify
<1>4. ASSUME NEW h \in Handlers, HandlerStep(h) PROVE PollInv'
  <2>a. h \in Threads /\ h \in Advancers
    BY SMTT(30), MoreNames DEF Advancers
  <2>1. ASSUME NEW epoch \in 0 .. MaxEpoch, NEW offset \in 0 .. leo, CheckEpoch(h, epoch, offset)
        PROVE  PollInv'
    <3> DEFINE to == IF isLeader /\ epoch = leaderEpoch THEN "fetch" ELSE "done"
    <3>1. Go(h, "start", to) /\ UNCHANGED <<isLeader, polled, notified, highWatermark>>
      BY <2>1 DEF CheckEpoch, fields, role, consumerVars
    <3>2. \A u \in Threads : u # h => loc'[u] = loc[u]
      BY SMTT(30), <1>0, <2>1 DEF CheckEpoch, Types
    <3> HIDE DEF to
    <3> QED
      BY Zenon, <1>1, <3>1, <3>2
  <2>2. CASE CheckOffset(h)
    <3> DEFINE to == IF ~closed /\ isLeader /\ loc[h].offset <= leo THEN "update" ELSE "done"
    <3>1. Go(h, "fetch", to) /\ UNCHANGED <<isLeader, polled, notified, highWatermark>>
      BY SMTT(30), <2>2 DEF CheckOffset, fields, role, consumerVars
    <3>2. \A u \in Threads : u # h => loc'[u] = loc[u]
      BY SMTT(30), <1>0, <2>2, <2>a, ReturnKeeps DEF CheckOffset
    <3> HIDE DEF to
    <3> QED
      BY Zenon, <1>1, <3>1, <3>2
  <2>3. ASSUME NEW b \in Followers, UpdateFollowerLEO(h, b) PROVE PollInv'
    <3>1. \A u \in Threads : u # h => loc'[u] = loc[u]
      BY <1>0, <2>3, <2>a, ReturnKeeps DEF UpdateFollowerLEO
    <3> QED
      BY Zenon, <1>1, <2>3, <3>1 DEF UpdateFollowerLEO, consumerVars
  <2>4. CASE MaybeAdvanceHW(h)
    BY <2>4, <2>a, AdvanceKeepsPoll
  <2> QED
    BY <1>4, <2>1, <2>2, <2>3, <2>4 DEF HandlerStep
<1> QED
  BY <1>2, <1>3, <1>4

\* A change of role, the fetch worker and Close.
LEMMA RefreshKeepsPoll ==
  ASSUME IInv, PollInv, RefreshStep \/ WorkerStep \/ CloseBegin \/ CloseDone
  PROVE  PollInv'
<1>0. Types /\ LockInv
  BY DEF IInv
<1>a. \A t \in {"refresh", "worker", "closer"} : t \in Threads /\ t # "consumer"
  BY SMTT(30), MoreNames
<1>1. ASSUME NEW t \in {"refresh", "worker", "closer"}, NEW from, from \notin {"drain", "notify"},
             NEW to, Go(t, from, to), UNCHANGED <<polled, notified>>,
             isLeader' => isLeader /\ highWatermark' = highWatermark,
             \A u \in Threads : u # t => loc'[u] = loc[u]
      PROVE  PollInv'
  BY <1>1, <1>a, PollFrame
<1>2. ASSUME NEW t \in {"refresh", "worker", "closer"}, NEW from, NEW to, Go(t, from, to),
             NotifyWaiters, UNCHANGED polled
      PROVE  PollInv'
  <2>1. pc'["consumer"] = pc["consumer"]
    BY <1>0, <1>2, <1>a, Moves, MoreNames
  <2> QED
    BY <1>2, <2>1, PollTold
<1>3. CASE RefreshStep
  <2>1. ASSUME NEW epoch \in 0 .. MaxEpoch, ReadHW(epoch) PROVE PollInv'
    <3>1. \A u \in Threads : u # "refresh" => loc'[u] = loc[u]
      BY Zenon, <1>0, <2>1 DEF ReadHW, Types
    <3> QED
      BY Zenon, <1>1, <2>1, <3>1 DEF ReadHW, Refresh, fields, role, consumerVars
  <2>2. ASSUME NEW members, MakeLeader(members) \/ UpdateLeaderISR(members) PROVE PollInv'
    BY Zenon, <1>1, <2>2 DEF MakeLeader, UpdateLeaderISR, Refresh, consumerVars
  <2>3. CASE MakeLeaderStoreHW
    <3>1. pc["refresh"] \in Leading
      BY Zenon, <2>3 DEF MakeLeaderStoreHW, Refresh, Go, Leading
    <3>2. ~isLeader
      BY <1>0, <3>1 DEF LockInv
    <3> QED
      BY Zenon, <1>1, <2>3, <3>2 DEF MakeLeaderStoreHW, Refresh, role, consumerVars
  <2>4. CASE MakeLeaderDone \/ MakeLeaderFails \/ FailWaiting
    BY Zenon, <1>2, <2>4 DEF MakeLeaderDone, MakeLeaderFails, FailWaiting, Refresh
  <2>5. CASE (\E epoch \in 0 .. MaxEpoch : MakeFollower(epoch)) \/ MakeUnassigned
    BY Zenon, <1>1, <2>5 DEF MakeFollower, MakeUnassigned, Refresh, consumerVars
  <2>6. CASE UpdateLeaderISRDone
    BY <1>1, <2>6 DEF UpdateLeaderISRDone, Refresh, fields, role, consumerVars
  <2>7. CASE MaybeAdvanceHW("refresh")
    BY <2>7, AdvanceKeepsPoll DEF Advancers
  <2> QED
    BY <1>3, <2>1, <2>2, <2>3, <2>4, <2>5, <2>6, <2>7 DEF RefreshStep
<1>4. CASE WorkerStep
  <2>1. ASSUME NEW offset \in 0 .. leo, TruncateTo(offset) PROVE PollInv'
    BY <1>1, <2>1 DEF TruncateTo, fields, role, consumerVars
  <2>2. CASE TruncateToDone
    BY <1>2, <2>2 DEF TruncateToDone
  <2>3. CASE Reconciled
    BY <2>3 DEF Reconciled, role, consumerVars, PollInv, WillNotify
  <2>4. ASSUME NEW n \in {0, 1}, AppendFromLeader(n) PROVE PollInv'
    <3>1. \A u \in Threads : u # "worker" => loc'[u] = loc[u]
      BY <1>0, <2>4 DEF AppendFromLeader, Types
    <3> QED
      BY Zenon, <1>1, <2>4, <3>1 DEF AppendFromLeader, fields, role, consumerVars
  <2>5. ASSUME NEW hw \in 0 .. MaxLEO, AppendFromLeaderDone(hw) PROVE PollInv'
    <3>1. /\ Go("worker", "raise", "start") /\ Return("worker")
          /\ UNCHANGED <<isLeader, polled>> /\ (NotifyWaiters \/ UNCHANGED notified)
      BY <2>5 DEF AppendFromLeaderDone, role
    <3>2. ~isLeader
      BY SMTT(30), <1>0, <3>1 DEF Go, LockInv
    <3>3. \A u \in Threads : u # "worker" => loc'[u] = loc[u]
      BY <1>0, <1>a, <3>1, ReturnKeeps
    <3> QED
      BY <1>1, <1>2, <3>1, <3>2, <3>3
  <2> QED
    BY <1>4, <2>1, <2>2, <2>3, <2>4, <2>5 DEF WorkerStep
<1>5. CASE CloseBegin
  BY <1>1, <1>5 DEF CloseBegin, role, consumerVars
<1>6. CASE CloseDone
  BY <1>2, <1>6 DEF CloseDone
<1> QED
  BY <1>3, <1>4, <1>5, <1>6

\* The long poll itself: it takes the channel before it looks for records.
LEMMA ConsumerKeepsPoll ==
  ASSUME IInv, PollInv, ConsumerStep
  PROVE  PollInv'
<1>0. Types /\ "consumer" \in Threads
  BY MoreNames DEF IInv
<1>1. CASE TakeChannel \/ Wake \/ PollExpires
  <2>1. pc'["consumer"] # "poll" /\ UNCHANGED polled
    BY <1>0, <1>1, Moves DEF TakeChannel, Wake, PollExpires, consumerVars
  <2> QED
    BY <2>1 DEF PollInv
<1>2. CASE Read
  <2> DEFINE error == ~isLeader \/ closed \/ polled > leo
             found == ~error /\ polled < highWatermark
  <2>1. /\ Go("consumer", "read", IF found \/ error THEN "start" ELSE "poll")
        /\ polled' = IF found THEN highWatermark ELSE polled
        /\ UNCHANGED <<isLeader, highWatermark>>
    BY <1>2 DEF Read, fields, role
  <2>2. polled' \in Nat
    BY <1>0, <2>1 DEF PollInv, Types
  <2>3. pc'["consumer"] = "poll" => ~found /\ ~error
    BY <1>0, <2>1, Moves
  <2> QED
    BY <2>1, <2>2, <2>3 DEF PollInv
<1> QED
  BY <1>1, <1>2 DEF ConsumerStep

\* A long poll that finds nothing is woken by every later advance of the high
\* watermark, by change of role and by Close, for any number of producers, handlers
\* and followers (handler.go: handleFetch; partition.go: notifyWaiters).
THEOREM NoWakeupLost == Spec => []NoLostWakeup
<1>1. Init => IInv /\ PollInv
  BY InitInv DEF Init, PollInv
<1>2. IInv /\ PollInv /\ [Next]_vars => IInv' /\ PollInv'
  <2> SUFFICES ASSUME IInv, PollInv, [Next]_vars PROVE PollInv'
    BY StepKeepsInv
  <2>1. CASE Next
    BY <2>1, ClientsKeepPoll, RefreshKeepsPoll, ConsumerKeepsPoll DEF Next
  <2>2. CASE UNCHANGED vars
    BY <2>2 DEF vars, fields, role, consumerVars, PollInv, WillNotify
  <2> QED
    BY <2>1, <2>2
<1>3. IInv /\ PollInv => NoLostWakeup
  <2> SUFFICES ASSUME IInv, PollInv, Quiet, isLeader, pc["consumer"] = "poll", ~notified
               PROVE  polled >= highWatermark
    BY DEF NoLostWakeup
  <2>1. \A t \in Advancers : ~WillNotify(t)
    BY Zenon DEF Quiet, Advancers, WillNotify
  <2> QED
    BY <2>1 DEF PollInv, IInv, Types
<1> QED
  BY <1>1, <1>2, <1>3, PTL DEF Spec
================================================================================
