---------------------------- MODULE BrokerProofs ----------------------------
(***************************************************************************)
(* Proofs about the shutdown of a broker, for every number of clients,     *)
(* leaders, workers and connections.                                       *)
(***************************************************************************)
EXTENDS Broker, FiniteSetTheorems, TLAPS

(***************************************************************************)
(* The server.  The WaitGroup counts the goroutines of the connections.    *)
(***************************************************************************)

\* The clients whose connection has a goroutine.
Served(cn) == {c \in Clients : cn[c] \in Serving}

\* What Shutdown relies on: the WaitGroup is exact, and closing is closed
\* before Wait is called.
ServerInv ==
    /\ ServerTypeOK
    /\ wg = Cardinality(Served(conn))
    /\ accepted # NoClient => conn[accepted] = "accepted"
    /\ down # "no" => closing
    /\ NoRequestAfterShutdown

\* There are finitely many goroutines.
LEMMA ServedFinite == ASSUME NEW cn PROVE IsFiniteSet(Served(cn))
  BY ServerAssumption, FS_Subset DEF Served

\* A step of one client that neither starts nor ends its goroutine leaves the
\* count as it was.
LEMMA ServedSame ==
  ASSUME NEW c \in Clients, NEW to \in Steps, conn \in [Clients -> Steps],
         conn[c] \in Serving <=> to \in Serving
  PROVE  Served([conn EXCEPT ![c] = to]) = Served(conn)
  BY DEF Served

\* wg.Add(1) and go.
LEMMA ServedMore ==
  ASSUME NEW c \in Clients, NEW to \in Serving, conn \in [Clients -> Steps],
         conn[c] \notin Serving
  PROVE  Cardinality(Served([conn EXCEPT ![c] = to])) = Cardinality(Served(conn)) + 1
  <1>1. Served([conn EXCEPT ![c] = to]) = Served(conn) \cup {c}
    BY DEF Served
  <1>2. c \notin Served(conn)
    BY DEF Served
  <1> QED
    BY Zenon, <1>1, <1>2, ServedFinite, FS_AddElement

\* The deferred wg.Done.
LEMMA ServedLess ==
  ASSUME NEW c \in Clients, conn \in [Clients -> Steps], conn[c] \in Serving
  PROVE  /\ Cardinality(Served([conn EXCEPT ![c] = "none"])) = Cardinality(Served(conn)) - 1
         /\ Cardinality(Served(conn)) \in Nat \ {0}
  <1>1. Served([conn EXCEPT ![c] = "none"]) = Served(conn) \ {c}
    BY DEF Served, Serving
  <1>2. c \in Served(conn)
    BY DEF Served
  <1>3. IsFiniteSet(Served(conn))
    BY ServedFinite
  <1>4. Cardinality(Served(conn)) \in Nat /\ Cardinality(Served(conn)) # 0
    BY <1>2, <1>3, FS_CardinalityType, FS_EmptySet
  <1> QED
    BY Zenon, <1>1, <1>2, <1>3, <1>4, FS_RemoveElement

\* The goroutine of a connection ends.
LEMMA LeaveKeepsServerInv ==
  ASSUME ServerInv, NEW c \in Clients, conn[c] \in Serving, Leave(c),
         UNCHANGED <<listening, closing, accepting, accepted, client, down>>
  PROVE  ServerInv'
  <1> USE DEF ServerInv
  <1>1. conn \in [Clients -> Steps]
    BY DEF ServerTypeOK
  <1>2. conn' = [conn EXCEPT ![c] = "none"] /\ wg' = wg - 1
    BY DEF Leave
  <1>3. wg' = Cardinality(Served(conn')) /\ wg' \in Nat
    <2>1. /\ Cardinality(Served([conn EXCEPT ![c] = "none"])) = Cardinality(Served(conn)) - 1
          /\ Cardinality(Served(conn)) \in Nat \ {0}
      BY Zenon, <1>1, ServedLess
    <2>2. Cardinality(Served(conn')) = Cardinality(Served(conn)) - 1
      BY <1>2, <2>1, Zenon
    <2> QED
      BY <1>2, <2>1, <2>2
  <1>4. ServerTypeOK'
    BY <1>1, <1>2, <1>3 DEF ServerTypeOK, Steps
  <1>5. (accepted # NoClient => conn[accepted] = "accepted")'
    <2>1. ASSUME accepted # NoClient PROVE accepted # c /\ accepted \in Clients
      BY <2>1 DEF Serving, ServerTypeOK
    <2> QED
      BY <1>1, <1>2, <2>1
  <1>6. NoRequestAfterShutdown'
    BY <1>1, <1>2 DEF NoRequestAfterShutdown
  <1> QED
    BY <1>3, <1>4, <1>5, <1>6

\* A connection moves on, without an end of its goroutine.
LEMMA MoveKeepsServerInv ==
  ASSUME ServerInv, NEW c \in Clients, NEW to \in Steps,
         conn' = [conn EXCEPT ![c] = to],
         conn[c] \in Serving <=> to \in Serving,
         down = "done" => to \notin {"read", "handle", "write"},
         c # accepted' \/ to = "accepted",
         accepted' \in {accepted, c},
         client' \in [Clients -> {"silent", "sent", "gone"}],
         UNCHANGED <<listening, closing, accepting, wg, down>>
  PROVE  ServerInv'
  <1> USE DEF ServerInv
  <1>1. conn \in [Clients -> Steps]
    BY DEF ServerTypeOK
  <1>2. wg' = Cardinality(Served(conn'))
    BY Zenon, <1>1, ServedSame
  <1>3. ServerTypeOK'
    BY <1>1 DEF ServerTypeOK
  <1>4. (accepted # NoClient => conn[accepted] = "accepted")'
    BY <1>1 DEF ServerTypeOK
  <1>5. NoRequestAfterShutdown'
    BY <1>1 DEF NoRequestAfterShutdown
  <1> QED
    BY <1>2, <1>3, <1>4, <1>5

\* Every step of the server keeps the count, and none lets a request in once
\* Wait has returned.
LEMMA ServerStepKeepsInv ==
  ASSUME ServerInv,
         \/ \E c \in Clients : ClientStep(c) \/ Accept(c) \/ ConnStep(c)
         \/ Spawn \/ AcceptFails \/ StartServing
         \/ CloseClosing \/ CloseListener \/ WaitReturns
  PROVE  ServerInv'
  <1> USE DEF ServerInv
  <1>1. conn \in [Clients -> Steps]
    BY DEF ServerTypeOK
  <1>0. ASSUME NEW c \in Clients, conn[c] # "accepted" PROVE c # accepted
    BY <1>0, ServerAssumption
  <1>2. ASSUME NEW c \in Clients, Connect(c) PROVE ServerInv'
    BY Zenon, <1>0, <1>1, <1>2, MoveKeepsServerInv DEF Connect, ServerTypeOK, Steps, Serving
  <1>3. ASSUME NEW c \in Clients, Send(c) \/ Disconnect(c) PROVE ServerInv'
    BY SMTT(30), <1>3 DEF Send, Disconnect, ServerTypeOK, NoRequestAfterShutdown
  <1>4. ASSUME NEW c \in Clients, Accept(c) PROVE ServerInv'
    BY Zenon, <1>1, <1>4, MoveKeepsServerInv DEF Accept, ServerTypeOK, Steps, Serving
  <1>5. ASSUME NEW c \in Clients, CheckClosing(c) PROVE ServerInv'
    <2>1. CASE closing
      BY <1>5, <2>1, LeaveKeepsServerInv DEF CheckClosing, Serving
    <2>2. CASE ~closing
      BY <1>0, <1>5, <2>2, MoveKeepsServerInv
         DEF CheckClosing, Serving, Steps, ServerTypeOK
    <2> QED
      BY <2>1, <2>2
  <1>6. ASSUME NEW c \in Clients, ReadMessage(c) PROVE ServerInv'
    <2>1. CASE Leave(c) /\ UNCHANGED client
      BY SMTT(30), <1>6, <2>1, LeaveKeepsServerInv DEF ReadMessage, Serving
    <2>2. CASE /\ client' = [client EXCEPT ![c] = "silent"]
               /\ conn' = [conn EXCEPT ![c] = "handle"]
               /\ UNCHANGED wg
      BY Zenon, <1>0, <1>6, <2>2, MoveKeepsServerInv
         DEF ReadMessage, Serving, Steps, ServerTypeOK, NoRequestAfterShutdown
    <2> QED
      BY <1>6, <2>1, <2>2 DEF ReadMessage
  <1>7. ASSUME NEW c \in Clients, Handle(c) PROVE ServerInv'
    <2>1. CASE Leave(c)
      BY SMTT(30), <1>7, <2>1, LeaveKeepsServerInv DEF Handle, Serving
    <2>2. ASSUME NEW next \in {"write", "check"}, conn' = [conn EXCEPT ![c] = next],
                 UNCHANGED wg
          PROVE  ServerInv'
      BY Zenon, <1>0, <1>7, <2>2, MoveKeepsServerInv
         DEF Handle, Serving, Steps, ServerTypeOK, NoRequestAfterShutdown
    <2> QED
      BY <1>7, <2>1, <2>2 DEF Handle
  <1>8. ASSUME NEW c \in Clients, WriteResponse(c) PROVE ServerInv'
    <2>1. CASE Leave(c)
      BY SMTT(30), <1>8, <2>1, LeaveKeepsServerInv DEF WriteResponse, Serving
    <2>2. CASE conn' = [conn EXCEPT ![c] = "check"] /\ UNCHANGED wg
      BY Zenon, <1>0, <1>8, <2>2, MoveKeepsServerInv
         DEF WriteResponse, Serving, Steps, ServerTypeOK, NoRequestAfterShutdown
    <2> QED
      BY <1>8, <2>1, <2>2 DEF WriteResponse
  <1>9. CASE Spawn
    <2>1. accepted \in Clients /\ conn[accepted] = "accepted"
      BY <1>9 DEF Spawn, ServerTypeOK
    <2>2. wg' = Cardinality(Served(conn'))
      BY Zenon, <1>1, <1>9, <2>1, ServedMore DEF Spawn, Serving
    <2> QED
      BY <1>1, <1>9, <2>1, <2>2
         DEF Spawn, ServerTypeOK, Steps, Serving, NoRequestAfterShutdown
  <1>10. CASE AcceptFails \/ StartServing
    BY <1>10 DEF AcceptFails, StartServing, ServerTypeOK, NoRequestAfterShutdown
  <1>11. CASE CloseClosing
    BY <1>11 DEF CloseClosing, ServerTypeOK, NoRequestAfterShutdown
  <1>12. CASE CloseListener
    <2>1. Served(conn') = Served(conn)
      BY <1>1, <1>12 DEF CloseListener, Served, Serving
    <2> QED
      BY Zenon, <1>1, <1>12, <2>1 DEF CloseListener, ServerTypeOK, Steps, NoRequestAfterShutdown
  <1>13. CASE WaitReturns
    <2>1. Served(conn) = {}
      BY Zenon, <1>13, ServedFinite, FS_EmptySet DEF WaitReturns
    <2> QED
      BY <1>13, <2>1 DEF WaitReturns, ServerTypeOK, NoRequestAfterShutdown, Served, Serving
  <1> QED
    BY <1>2, <1>3, <1>4, <1>5, <1>6, <1>7, <1>8, <1>9, <1>10, <1>11, <1>12, <1>13
       DEF ClientStep, ConnStep

\* No request is handled once the server's Shutdown has returned, for every
\* number of clients and whatever the rest of the broker does (server.go:81-86).
THEOREM ShutdownEndsRequests == Spec => []NoRequestAfterShutdown
  <1>1. Init => ServerInv
    <2> SUFFICES ASSUME Init PROVE ServerInv
      OBVIOUS
    <2>1. Served(conn) = {}
      BY DEF Init, ServerInit, Served, Serving
    <2> QED
      BY Zenon, <2>1, FS_EmptySet
         DEF Init, ServerInit, ServerInv, ServerTypeOK, Steps, NoRequestAfterShutdown
  <1>2. ServerInv /\ [Next]_vars => ServerInv'
    <2> SUFFICES ASSUME ServerInv, [Next]_vars PROVE ServerInv'
      OBVIOUS
    <2>1. CASE UNCHANGED serverVars
      BY <2>1 DEF ServerInv, serverVars, ServerTypeOK, NoRequestAfterShutdown
    <2>2. CASE Unfence /\ StartServing
      BY <2>2, ServerStepKeepsInv
    <2>3. CASE StopServer
      BY <2>3, ServerStepKeepsInv DEF StopServer
    <2>4. CASE ServerStep
      BY <2>4, ServerStepKeepsInv DEF ServerStep
    <2> QED
      BY <2>1, <2>2, <2>3, <2>4
         DEF Next, vars, MainStep, Register, StartFetching, Unfence, Signal,
             StopFetching, CloseTopics, FetchStep, OnlyMain
  <1>3. ServerInv => NoRequestAfterShutdown
    BY DEF ServerInv
  <1> QED
    BY <1>1, <1>2, <1>3, PTL DEF Spec

(***************************************************************************)
(* The fetch manager.  A worker belongs to the manager's map or to Stop    *)
(* from its creation until stop has returned, and stop is only called for  *)
(* a worker that belongs to one of them.                                   *)
(***************************************************************************)

WorkerRecords ==
    [leader : Leaders \cup {NoWorker}, addr : Addrs \cup {NoAddr},
     at : {"none", "select", "connect", "dial", "exchange", "apply", "done"},
     call : Nat, attempt : Nat, stopCh : BOOLEAN, shutdown : BOOLEAN,
     conn : Conns \cup {NoConn}, used : Conns \cup {NoConn}, open : SUBSET Conns]

RefreshRecords ==
    [at : {"off", "select", "reconcile", "lock", "prune", "next", "place", "returned", "ended"},
     by : {"start", "loop"}, needed : SUBSET Leaders, leader : Leaders \cup {NoWorker},
     addr : Addrs \cup {NoAddr}, ok : BOOLEAN]

FetchTypes ==
    /\ followed \in SUBSET Leaders
    /\ addr \in [Leaders -> Addrs \cup {NoAddr}]
    /\ refresh \in RefreshRecords
    /\ fmStopped \in BOOLEAN
    /\ fmMu \in {"free", "refresh"}
    /\ workers \in [Leaders -> Workers \cup {NoWorker}]
    /\ worker \in [Workers -> WorkerRecords]
    /\ stopper \in [worker : Workers \cup {NoWorker},
                    at : {"idle", "stopCh", "shutdown", "wait"}]
    /\ stopping \in [at : {"no", "loop", "workers", "done"}, left : SUBSET Workers]

Owned(w) == (\E l \in Leaders : workers[l] = w) \/ w \in stopping.left

InReassign == refresh.at \in {"prune", "next", "place"}

\* Who holds the lock, and that nothing is placed once Stop has begun.
LockInv ==
    /\ fmMu = "refresh" <=> InReassign
    /\ refresh.at = "place" => refresh.leader \in Leaders
    /\ fmStopped <=> stopping.at # "no"
    /\ fmStopped => ~InReassign /\ \A l \in Leaders : workers[l] = NoWorker
    /\ ~fmStopped => stopping.left = {}

\* The life of a worker.
LifeInv ==
    /\ stopper.at = "idle" <=> stopper.worker = NoWorker
    /\ stopper.worker # NoWorker => Owned(stopper.worker)
    /\ \A w \in Workers :
          /\ worker[w].stopCh =>
                \/ w = stopper.worker /\ stopper.at \in {"shutdown", "wait"}
                \/ ~Owned(w) /\ worker[w].at = "done"
          /\ worker[w].at = "none" => ~Owned(w) /\ ~worker[w].stopCh
          /\ worker[w].at \notin {"none", "done"} => Owned(w)

\* Each worker of the map is its leader's, and Stop has one of each leader.
LeaderInv ==
    /\ \A l \in Leaders : workers[l] # NoWorker => worker[workers[l]].leader = l
    /\ \A v, w \in stopping.left : worker[v].leader = worker[w].leader => v = w

FetchInv == FetchTypes /\ LockInv /\ LifeInv /\ LeaderInv

\* A worker's client: only its present connection can be open, it has none while
\* it dials, and once shut down neither has one nor dials.  A worker ends when
\* it sees stopCh closed.
ConnectionKept(r) ==
    /\ r.open \subseteq {r.conn}
    /\ r.at = "dial" => r.conn = NoConn /\ ~r.shutdown
    /\ r.shutdown => r.conn = NoConn
    /\ r.at = "done" => r.stopCh

\* Every stopped worker has its client shut down, but for the one whose stop is
\* between the two.
ClientInv ==
    \A w \in Workers :
        /\ ConnectionKept(worker[w])
        /\ worker[w].stopCh /\ ~worker[w].shutdown =>
              stopper.worker = w /\ stopper.at = "shutdown"

\* The manager starts with no worker.
LEMMA FetchInitInv == FetchManagerInit => FetchInv
  <1> SUFFICES ASSUME FetchManagerInit PROVE FetchInv
    OBVIOUS
  <1> USE DEF FetchManagerInit
  <1>1. FetchTypes
    <2>1. (CHOOSE a \in Addrs : TRUE) \in Addrs
      BY FetchManagerAssumption
    <2>2. worker \in [Workers -> WorkerRecords]
      BY DEF WorkerRecords, Uncreated
    <2> QED
      BY Zenon, <2>1, <2>2 DEF FetchTypes, RefreshRecords
  <1>2. LockInv
    BY DEF LockInv, InReassign
  <1>3. LifeInv
    BY DEF LifeInv, Owned, Uncreated, Workers, NoWorker
  <1>4. LeaderInv
    BY DEF LeaderInv
  <1> QED
    BY <1>1, <1>2, <1>3, <1>4 DEF FetchInv

\* No worker is the absent one.
LEMMA NoWorkerIsNone == NoWorker \notin Workers
  BY SMTT(30), FetchManagerAssumption DEF Workers, NoWorker

\* A step that touches no worker, and nobody's ownership of one.
LEMMA RefreshKeepsInv ==
  ASSUME FetchInv, FetchTypes', LockInv',
         UNCHANGED <<workers, worker, stopper, stopping>>
  PROVE  FetchInv'
  BY DEF FetchInv, LifeInv, LeaderInv, Owned

\* A step of a worker that runs.
LEMMA WorkerKeepsInv ==
  ASSUME FetchInv, NEW w \in Workers, NEW r \in WorkerRecords,
         worker' = [worker EXCEPT ![w] = r],
         r.leader = worker[w].leader, r.stopCh = worker[w].stopCh,
         worker[w].at \notin {"none", "done"}, r.at # "none",
         OnlyWorker
  PROVE  FetchInv'
  <1> USE DEF FetchInv, OnlyWorker, metadata, manager
  <1>1. FetchTypes'
    BY DEF FetchTypes
  <1>2. LockInv'
    BY DEF LockInv, InReassign
  <1>3. worker \in [Workers -> WorkerRecords]
    BY DEF FetchTypes
  <1>4. \A v \in Workers : Owned(v)' <=> Owned(v)
    BY DEF Owned
  <1>5. LifeInv'
    BY <1>3 DEF LifeInv, Owned
  <1>6. \A v \in Workers : worker'[v].leader = worker[v].leader
    BY <1>3
  <1>7. LeaderInv'
    BY <1>6 DEF LeaderInv, FetchTypes
  <1> QED
    BY <1>1, <1>2, <1>5, <1>7

\* stop is called for a worker of the map or of Stop.
LEMMA CallStopKeepsInv ==
  ASSUME FetchInv, NEW w \in Workers, Owned(w), CallStop(w),
         UNCHANGED <<metadata, refresh, manager, worker, stopping>>
  PROVE  FetchInv'
  <1> USE DEF FetchInv, CallStop, metadata, manager
  <1>1. FetchTypes'
    BY DEF FetchTypes
  <1>2. LockInv'
    BY DEF LockInv, InReassign
  <1>3. LifeInv'
    BY NoWorkerIsNone DEF LifeInv, Owned, FetchTypes
  <1>4. LeaderInv'
    BY DEF LeaderInv
  <1> QED
    BY <1>1, <1>2, <1>3, <1>4

\* The steps of run, Start, refresh and Reassign.
LEMMA RefreshStepKeepsInv ==
  ASSUME FetchInv,
         \/ ChangeMetadata \/ BeginStart \/ FinishStart \/ Tick \/ EndLoop
         \/ RefreshStep
  PROVE  FetchInv'
  <1> USE DEF metadata, manager
  <1>0. FetchTypes /\ LockInv /\ LifeInv /\ LeaderInv
    BY DEF FetchInv
  <1>1. CASE ChangeMetadata
    BY <1>0, <1>1, RefreshKeepsInv DEF ChangeMetadata, FetchTypes, LockInv, InReassign
  <1>2. CASE BeginStart \/ FinishStart \/ Tick \/ EndLoop
    <2>1. FetchTypes'
      BY Zenon, <1>0, <1>2 DEF BeginStart, FinishStart, Tick, EndLoop, RefreshTo,
                        FetchTypes, RefreshRecords
    <2>2. LockInv'
      <3>1. ~InReassign /\ ~InReassign' /\ refresh'.at # "place"
        BY Zenon, <1>0, <1>2 DEF BeginStart, FinishStart, Tick, EndLoop, RefreshTo,
                          FetchTypes, RefreshRecords, InReassign
      <3>2. UNCHANGED <<fmMu, fmStopped, workers, stopping>>
        BY <1>2 DEF BeginStart, FinishStart, Tick, EndLoop
      <3> QED
        BY <1>0, <3>1, <3>2 DEF LockInv
    <2> QED
      BY <1>2, <2>1, <2>2, RefreshKeepsInv DEF BeginStart, FinishStart, Tick, EndLoop
  <1>3. CASE ReconcileSucceeds \/ ReconcileFails \/ LockManager \/ NextLeader
    <2>1. /\ UNCHANGED <<followed, addr, fmStopped, workers, worker, stopper, stopping>>
          /\ refresh' \in RefreshRecords
          /\ fmMu' \in {"free", "refresh"}
          /\ fmMu' = "refresh" <=> InReassign'
          /\ InReassign' => ~fmStopped
          /\ refresh'.at = "place" => refresh'.leader \in Leaders
      <3>0. refresh \in RefreshRecords
        BY <1>0 DEF FetchTypes
      <3>1. ASSUME NEW ok \in BOOLEAN, ReturnFromRefresh(ok)
            PROVE  refresh' \in RefreshRecords /\ refresh'.at \in {"returned", "select"}
        BY Zenon, <3>0, <3>1 DEF ReturnFromRefresh, RefreshRecords
      <3>2. CASE ReconcileSucceeds
        BY Zenon, <1>0, <3>0, <3>2
           DEF ReconcileSucceeds, RefreshRecords, FetchTypes, LockInv, InReassign
      <3>3. CASE ReconcileFails
        BY Zenon, <1>0, <3>1, <3>3 DEF ReconcileFails, FetchTypes, LockInv, InReassign
      <3>4. CASE LockManager
        <4>1. CASE fmStopped
          BY Zenon, <1>0, <3>1, <3>4, <4>1 DEF LockManager, InReassign
        <4>2. CASE ~fmStopped
          BY <1>0, <3>0, <3>4, <4>2 DEF LockManager, RefreshTo, RefreshRecords, InReassign
        <4> QED
          BY <4>1, <4>2
      <3>5. CASE NextLeader
        <4>0. ~fmStopped /\ fmMu = "refresh"
          BY Zenon, <1>0, <3>5 DEF NextLeader, LockInv, InReassign
        <4>1. CASE refresh.needed = {}
          BY Zenon, <3>1, <3>5, <4>1 DEF NextLeader, InReassign
        <4>2. ASSUME NEW l \in refresh.needed,
                     refresh' = [refresh EXCEPT !.at = "place", !.leader = l,
                                                !.addr = addr[l], !.needed = @ \ {l}]
              PROVE  /\ refresh' \in RefreshRecords
                     /\ refresh'.at = "place" /\ refresh'.leader \in Leaders
          BY Zenon, <1>0, <3>0, <4>2 DEF RefreshRecords, FetchTypes
        <4> QED
          BY Zenon, <3>5, <4>0, <4>1, <4>2 DEF NextLeader, InReassign
      <3> QED
        BY <1>3, <3>2, <3>3, <3>4, <3>5
    <2>2. FetchTypes'
      BY <1>0, <2>1 DEF FetchTypes
    <2>3. LockInv'
      BY <1>0, <2>1 DEF LockInv
    <2> QED
      BY <2>1, <2>2, <2>3, RefreshKeepsInv
  <1>4. CASE Prune
    <2>1. CASE RefreshTo("next") /\ UNCHANGED stopper
      <3>1. FetchTypes'
        BY <1>0, <1>4, <2>1 DEF Prune, RefreshTo, FetchTypes, RefreshRecords
      <3>2. LockInv'
        BY <1>0, <1>4, <2>1
           DEF Prune, RefreshTo, FetchTypes, RefreshRecords, LockInv, InReassign
      <3> QED
        BY <1>4, <2>1, <3>1, <3>2, RefreshKeepsInv DEF Prune
    <2>2. ASSUME NEW l \in Leaders, workers[l] # NoWorker, CallStop(workers[l]),
                 UNCHANGED refresh
          PROVE  FetchInv'
      <3>1. workers[l] \in Workers /\ Owned(workers[l])
        BY SMTT(30), <1>0, <2>2 DEF FetchTypes, Owned
      <3> QED
        BY <1>4, <2>2, <3>1, CallStopKeepsInv DEF Prune
    <2> QED
      BY <1>4, <2>1, <2>2 DEF Prune
  <1>5. CASE StopMisplaced
    <2>1. /\ workers[refresh.leader] \in Workers
          /\ Owned(workers[refresh.leader])
      BY SMTT(30), <1>0, <1>5 DEF StopMisplaced, LockInv, FetchTypes, Owned
    <2> QED
      BY SMTT(30), <1>5, <2>1, CallStopKeepsInv DEF StopMisplaced
  <1>6. CASE Place
    <2> DEFINE l == refresh.leader
               fresh == {x \in Workers : worker[x].at = "none"}
    <2>1. l \in Leaders
      BY Zenon, <1>0, <1>6 DEF Place, LockInv
    <2>2. LockInv' /\ refresh' \in RefreshRecords
      <3>1. refresh' \in RefreshRecords /\ refresh'.at = "next"
        BY Zenon, <1>0, <1>6 DEF Place, RefreshTo, FetchTypes, RefreshRecords
      <3>2. ~fmStopped
        BY Zenon, <1>0, <1>6 DEF Place, LockInv, InReassign
      <3> QED
        BY Zenon, <1>0, <1>6, <3>1, <3>2 DEF Place, LockInv, InReassign
    <2>3. CASE UNCHANGED <<workers, worker>>
      <3>1. FetchTypes'
        BY Zenon, <1>0, <1>6, <2>2, <2>3 DEF Place, FetchTypes
      <3> QED
        BY Zenon, <1>6, <2>2, <2>3, <3>1, RefreshKeepsInv DEF Place
    <2>4. ASSUME NEW w \in fresh,
                 workers[l] = NoWorker,
                 worker' = [worker EXCEPT ![w].leader = l, ![w].addr = refresh.addr,
                                          ![w].at = "select"],
                 workers' = [workers EXCEPT ![l] = w]
          PROVE  FetchInv'
      <3>1. w \in Workers /\ worker[w].at = "none"
        OBVIOUS
      <3>2. /\ worker'[w] \in WorkerRecords
            /\ worker'[w].leader = l
            /\ worker'[w].at = "select"
            /\ ~worker'[w].stopCh
        BY <1>0, <2>1, <2>4, <3>1
           DEF FetchTypes, WorkerRecords, RefreshRecords, LifeInv
      <3>3. \A v \in Workers : v # w => worker'[v] = worker[v]
        BY <1>0, <2>4 DEF FetchTypes
      <3>4. worker' \in [Workers -> WorkerRecords]
        BY SMTT(30), <1>0, <2>4, <3>2, <3>3 DEF FetchTypes
      <3>5. FetchTypes'
        BY Zenon, <1>0, <1>6, <2>2, <2>1, <2>4, <3>1, <3>4 DEF Place, FetchTypes
      <3>6. ~Owned(w)
        BY SMTT(30), <1>0, <3>1 DEF LifeInv
      <3>7. /\ UNCHANGED <<stopper, stopping>>
            /\ stopper.worker = NoWorker /\ stopper.at = "idle"
        BY Zenon, <1>0, <1>6 DEF Place, LifeInv
      <3>8. Owned(w)' /\ \A v \in Workers : v # w => (Owned(v)' <=> Owned(v))
        <4>1. workers'[l] = w /\ \A k \in Leaders : k # l => workers'[k] = workers[k]
          BY <1>0, <2>1, <2>4 DEF FetchTypes
        <4>2. workers[l] \notin Workers
          BY <2>4, NoWorkerIsNone
        <4> HIDE DEF l
        <4> QED
          BY <2>1, <3>7, <4>1, <4>2 DEF Owned
      <3>9. LifeInv'
        <4>1. ASSUME NEW v \in Workers
              PROVE  /\ worker'[v].stopCh => ~Owned(v)' /\ worker'[v].at = "done"
                     /\ worker'[v].at = "none" => ~Owned(v)' /\ ~worker'[v].stopCh
                     /\ worker'[v].at \notin {"none", "done"} => Owned(v)'
          <5>1. CASE v = w
            BY SMTT(30), <3>2, <3>6, <3>8, <5>1
          <5>2. CASE v # w
            <6>1. /\ worker[v].stopCh => ~Owned(v) /\ worker[v].at = "done"
                  /\ worker[v].at = "none" => ~Owned(v) /\ ~worker[v].stopCh
                  /\ worker[v].at \notin {"none", "done"} => Owned(v)
              BY <1>0, <3>7, NoWorkerIsNone DEF LifeInv
            <6> QED
              BY <3>3, <3>8, <5>2, <6>1
          <5> QED
            BY <5>1, <5>2
        <4> QED
          BY <3>7, <4>1 DEF LifeInv
      <3>10. LeaderInv'
        <4>1. ASSUME NEW k \in Leaders, workers'[k] # NoWorker
              PROVE  worker'[workers'[k]].leader = k
          <5>1. CASE k = l
            BY <1>0, <2>4, <3>2, <5>1 DEF FetchTypes
          <5>2. CASE k # l
            <6>1. workers'[k] = workers[k] /\ workers[k] \in Workers
              BY <1>0, <2>4, <4>1, <5>2 DEF FetchTypes
            <6>2. workers[k] # w
              BY SMTT(30), <3>6 DEF Owned
            <6> QED
              BY <1>0, <3>3, <4>1, <6>1, <6>2 DEF LeaderInv
          <5> QED
            BY <5>1, <5>2
        <4>2. stopping.left = {}
          BY Zenon, <1>0, <1>6 DEF Place, LockInv, InReassign
        <4> QED
          BY <3>7, <4>1, <4>2 DEF LeaderInv
      <3> QED
        BY <2>2, <3>5, <3>9, <3>10 DEF FetchInv
    <2>5. fresh # {} => (CHOOSE x \in fresh : TRUE) \in fresh
      OBVIOUS
    <2> QED
      BY Zenon, <1>6, <2>3, <2>4, <2>5 DEF Place
  <1> QED
    BY <1>1, <1>2, <1>3, <1>4, <1>5, <1>6 DEF RefreshStep

\* A step of a worker or of its client, as a change of the worker's record: it
\* keeps what the record says of the client's connection.
LEMMA WorkerMoves ==
  ASSUME FetchInv, NEW w \in Workers, BeginRound(w) \/ Quit(w) \/ WorkerStep(w)
  PROVE  /\ worker[w].at \notin {"none", "done"} /\ OnlyWorker
         /\ \E r \in WorkerRecords :
               /\ worker' = [worker EXCEPT ![w] = r]
               /\ r.leader = worker[w].leader /\ r.stopCh = worker[w].stopCh
               /\ r.shutdown = worker[w].shutdown
               /\ r.at # "none"
               /\ ConnectionKept(worker[w]) => ConnectionKept(r)
  <1> DEFINE Goes(r) == /\ r \in WorkerRecords
                        /\ worker' = [worker EXCEPT ![w] = r]
                        /\ r.leader = worker[w].leader /\ r.stopCh = worker[w].stopCh
                        /\ r.shutdown = worker[w].shutdown
                        /\ r.at # "none"
                        /\ ConnectionKept(worker[w]) => ConnectionKept(r)
  <1>1. worker \in [Workers -> WorkerRecords] /\ worker[w] \in WorkerRecords
    BY SMTT(30) DEF FetchInv, FetchTypes
  <1>2. worker[w].at \notin {"none", "done"} /\ OnlyWorker
    BY Zenon DEF BeginRound, Quit, WorkerStep, EnsureConnected, Dial, Exchange, ApplyResponse
  <1>3. SUFFICES \E r : Goes(r)
    BY Zenon, <1>2
  <1>4. CASE BeginRound(w)
    <2>1. Goes([worker[w] EXCEPT !.at = "connect", !.call = 1, !.attempt = 1])
      BY Zenon, <1>1, <1>4 DEF BeginRound, WorkerRecords, ConnectionKept
    <2> QED
      BY Zenon, <2>1
  <1>5. ASSUME NEW step \in {"done", "dial", "apply"}, WorkerTo(w, step),
               step = "done" => worker[w].stopCh,
               step = "dial" => worker[w].conn = NoConn /\ ~worker[w].shutdown
        PROVE  \E r : Goes(r)
    <2>1. Goes([worker[w] EXCEPT !.at = step])
      BY <1>1, <1>5 DEF WorkerTo, WorkerRecords, ConnectionKept
    <2> QED
      BY Zenon, <2>1
  <1>6. ASSUME RequestFails(w) PROVE \E r : Goes(r)
    <2> DEFINE dropped == [worker[w] EXCEPT !.open = @ \ {worker[w].used}, !.used = NoConn,
                                   !.conn = IF @ = worker[w].used THEN NoConn ELSE @]
               closed == [dropped EXCEPT !.open = @ \ {dropped.conn}, !.conn = NoConn]
    <2>1. /\ dropped \in WorkerRecords
          /\ dropped.leader = worker[w].leader /\ dropped.stopCh = worker[w].stopCh
          /\ dropped.shutdown = worker[w].shutdown
          /\ worker[w].open \subseteq {worker[w].conn} => dropped.open \subseteq {dropped.conn}
          /\ worker[w].conn = NoConn => dropped.conn = NoConn
      BY Zenon, <1>1 DEF WorkerRecords
    <2>2. /\ closed \in WorkerRecords
          /\ closed.leader = worker[w].leader /\ closed.stopCh = worker[w].stopCh
          /\ closed.shutdown = worker[w].shutdown
          /\ worker[w].open \subseteq {worker[w].conn} => closed.open \subseteq {closed.conn}
          /\ closed.conn = NoConn
      <3> HIDE DEF dropped
      <3> QED
        BY Zenon, <2>1 DEF WorkerRecords
    <2>3. \/ worker' = [worker EXCEPT ![w] = [closed EXCEPT !.attempt = 2, !.at = "connect"]]
          \/ worker' = [worker EXCEPT ![w] = [dropped EXCEPT !.at = "select",
                                                   !.call = 0, !.attempt = 0]]
          \/ worker' = [worker EXCEPT ![w] = [dropped EXCEPT !.at = "connect",
                                                   !.call = @ + 1, !.attempt = 1]]
      BY <1>6 DEF RequestFails
    <2> HIDE DEF dropped, closed
    <2>4. CASE worker' = [worker EXCEPT ![w] = [closed EXCEPT !.attempt = 2,
                                                              !.at = "connect"]]
      <3>1. Goes([closed EXCEPT !.attempt = 2, !.at = "connect"])
        BY Zenon, <2>2, <2>4 DEF WorkerRecords, ConnectionKept
      <3> QED
        BY Zenon, <3>1
    <2>5. CASE worker' = [worker EXCEPT ![w] = [dropped EXCEPT !.at = "select",
                                                   !.call = 0, !.attempt = 0]]
      <3>1. Goes([dropped EXCEPT !.at = "select", !.call = 0, !.attempt = 0])
        BY Zenon, <2>1, <2>5 DEF WorkerRecords, ConnectionKept
      <3> QED
        BY Zenon, <3>1
    <2>6. CASE worker' = [worker EXCEPT ![w] = [dropped EXCEPT !.at = "connect",
                                                   !.call = @ + 1, !.attempt = 1]]
      <3>1. Goes([dropped EXCEPT !.at = "connect", !.call = @ + 1, !.attempt = 1])
        <4>1. dropped.call + 1 \in Nat
          BY <2>1 DEF WorkerRecords
        <4> QED
          BY Zenon, <2>1, <2>6, <4>1 DEF WorkerRecords, ConnectionKept
      <3> QED
        BY Zenon, <3>1
    <2> QED
      BY <2>3, <2>4, <2>5, <2>6
  <1>7. ASSUME worker' = [worker EXCEPT ![w].at = "exchange", ![w].used = worker[w].conn]
        PROVE  \E r : Goes(r)
    <2>1. Goes([worker[w] EXCEPT !.at = "exchange", !.used = worker[w].conn])
      BY Zenon, <1>1, <1>7 DEF WorkerRecords, ConnectionKept
    <2> QED
      BY Zenon, <2>1
  <1>8. ASSUME NEW c \in Conns, worker[w].at = "dial",
               worker' = [worker EXCEPT ![w].at = "exchange", ![w].conn = c,
                                        ![w].used = c, ![w].open = @ \cup {c}]
        PROVE  \E r : Goes(r)
    <2> DEFINE r == [worker[w] EXCEPT !.at = "exchange", !.conn = c, !.used = c,
                                      !.open = @ \cup {c}]
    <2>1. worker' = [worker EXCEPT ![w] = r]
      BY Zenon, <1>8
    <2>2. /\ r \in WorkerRecords
          /\ r.leader = worker[w].leader /\ r.stopCh = worker[w].stopCh
          /\ r.shutdown = worker[w].shutdown /\ r.at = "exchange"
          /\ r.conn = c /\ r.open = worker[w].open \cup {c}
      BY Zenon, <1>1 DEF WorkerRecords
    <2>3. worker[w].open \subseteq Conns
      BY <1>1 DEF WorkerRecords
    <2> HIDE DEF r
    <2>4. ConnectionKept(worker[w]) => ConnectionKept(r)
      BY <1>8, <2>2, <2>3, FetchManagerAssumption DEF ConnectionKept
    <2>5. Goes(r)
      BY <2>1, <2>2, <2>4
    <2> QED
      BY Zenon, <2>5
  <1>9. ASSUME worker' = [worker EXCEPT ![w] = NextCall(w)] PROVE \E r : Goes(r)
    <2>1. Goes(NextCall(w))
      <3>1. worker[w].call + 1 \in Nat
        BY <1>1 DEF WorkerRecords
      <3> QED
        BY Zenon, <1>1, <1>9, <3>1 DEF WorkerRecords, NextCall, ConnectionKept
    <2> QED
      BY Zenon, <2>1
  <1>10. CASE ApplyResponse(w)
    <2>1. Goes([worker[w] EXCEPT !.at = "select", !.call = 0, !.attempt = 0,
                                 !.used = NoConn])
      BY Zenon, <1>1, <1>10 DEF ApplyResponse, WorkerRecords, ConnectionKept
    <2> QED
      BY Zenon, <2>1
  <1> HIDE DEF Goes
  <1>11. CASE Quit(w)
    BY <1>5, <1>11 DEF Quit
  <1>12. CASE EnsureConnected(w)
    BY <1>5, <1>6, <1>7, <1>12 DEF EnsureConnected
  <1>13. CASE Dial(w)
    BY Zenon, <1>6, <1>8, <1>13 DEF Dial
  <1>14. CASE Exchange(w)
    BY <1>5, <1>6, <1>9, <1>14 DEF Exchange
  <1> QED
    BY <1>4, <1>10, <1>11, <1>12, <1>13, <1>14 DEF WorkerStep

\* The steps of a worker and of its client.
LEMMA WorkerStepKeepsInv ==
  ASSUME FetchInv, NEW w \in Workers, BeginRound(w) \/ Quit(w) \/ WorkerStep(w)
  PROVE  FetchInv'
  BY WorkerMoves, WorkerKeepsInv

\* The steps of w.stop().
LEMMA StopperStepKeepsInv ==
  ASSUME FetchInv, StopperStep
  PROVE  FetchInv'
  <1> USE DEF metadata, manager
  <1>0. FetchTypes /\ LockInv /\ LifeInv /\ LeaderInv
    BY DEF FetchInv
  <1>1. PICK w \in Workers : w = stopper.worker
    BY <1>0 DEF StopperStep, CloseStopCh, ShutdownClient, StopReturns, LifeInv, FetchTypes
  <1>2. Owned(w) /\ worker[w].at # "none"
    BY <1>0, <1>1, NoWorkerIsNone DEF LifeInv
  <1>3. CASE CloseStopCh \/ ShutdownClient
    <2>1. /\ UNCHANGED <<followed, addr, refresh, fmStopped, fmMu, workers, stopping>>
          /\ stopper' \in [worker : Workers \cup {NoWorker},
                            at : {"idle", "stopCh", "shutdown", "wait"}]
          /\ stopper'.worker = w /\ stopper'.at \in {"shutdown", "wait"}
      BY <1>0, <1>1, <1>3 DEF CloseStopCh, ShutdownClient, FetchTypes
    <2>2. /\ worker' \in [Workers -> WorkerRecords]
          /\ \A v \in Workers : v # w => worker'[v] = worker[v]
          /\ worker'[w].at = worker[w].at /\ worker'[w].leader = worker[w].leader
      <3>1. worker \in [Workers -> WorkerRecords] /\ worker[w] \in WorkerRecords
        BY <1>0 DEF FetchTypes
      <3>2. CASE CloseStopCh
        BY Zenon, <1>1, <3>1, <3>2 DEF CloseStopCh, WorkerRecords
      <3>3. CASE ShutdownClient
        BY Zenon, <1>1, <3>1, <3>3 DEF ShutdownClient, WorkerRecords
      <3> QED
        BY <1>3, <3>2, <3>3
    <2>3. FetchTypes'
      BY <1>0, <2>1, <2>2 DEF FetchTypes
    <2>4. LockInv'
      BY <1>0, <2>1 DEF LockInv, InReassign
    <2>5. \A v \in Workers : Owned(v)' <=> Owned(v)
      BY <2>1 DEF Owned
    <2>6. LifeInv'
      <3>1. ASSUME NEW v \in Workers, v # w
            PROVE  /\ worker[v].stopCh => ~Owned(v) /\ worker[v].at = "done"
                   /\ worker[v].at = "none" => ~Owned(v) /\ ~worker[v].stopCh
                   /\ worker[v].at \notin {"none", "done"} => Owned(v)
        BY SMTT(30), <1>0, <1>1, <3>1 DEF LifeInv
      <3>2. ASSUME NEW v \in Workers
            PROVE  /\ worker'[v].stopCh /\ v # w => ~Owned(v)' /\ worker'[v].at = "done"
                   /\ worker'[v].at = "none" => ~Owned(v)' /\ ~worker'[v].stopCh
                   /\ worker'[v].at \notin {"none", "done"} => Owned(v)'
        <4>1. CASE v = w
          <5>1. Owned(v) /\ worker'[v].at = worker[v].at /\ worker[v].at # "none"
            BY SMTT(30), <1>2, <2>2, <4>1 DEF Owned
          <5> QED
            BY <2>5, <4>1, <5>1
        <4>2. CASE v # w
          BY <2>2, <2>5, <3>1, <4>2
        <4> QED
          BY <4>1, <4>2
      <3>3. w # NoWorker /\ Owned(w)'
        BY SMTT(30), <1>2, <2>5, NoWorkerIsNone
      <3> QED
        BY <2>1, <3>2, <3>3 DEF LifeInv
    <2>7. LeaderInv'
      <3>1. \A v \in Workers : worker'[v].leader = worker[v].leader
        BY <2>2
      <3> QED
        BY <1>0, <2>1, <3>1 DEF LeaderInv, FetchTypes
    <2> QED
      BY <2>3, <2>4, <2>6, <2>7 DEF FetchInv
  <1>4. CASE StopReturns
    <2>1. /\ UNCHANGED <<followed, addr, refresh, fmStopped, fmMu, worker>>
          /\ worker[w].at = "done"
          /\ stopper' = [worker |-> NoWorker, at |-> "idle"]
          /\ workers' = [l \in Leaders |-> IF workers[l] = w THEN NoWorker ELSE workers[l]]
          /\ stopping' = [stopping EXCEPT !.left = @ \ {w}]
      BY <1>1, <1>4 DEF StopReturns
    <2>2. /\ stopping'.at = stopping.at
          /\ stopping'.left = stopping.left \ {w}
      BY <1>0, <2>1 DEF FetchTypes
    <2>3. FetchTypes'
      BY <1>0, <2>1 DEF FetchTypes
    <2>4. LockInv'
      BY <1>0, <2>1, <2>2 DEF LockInv, InReassign
    <2>5. ~Owned(w)' /\ \A v \in Workers : v # w => (Owned(v)' <=> Owned(v))
      BY <2>1, <2>2, NoWorkerIsNone DEF Owned
    <2>6. LifeInv'
      <3>1. ASSUME NEW v \in Workers
            PROVE  /\ worker[v].stopCh => ~Owned(v)' /\ worker[v].at = "done"
                   /\ worker[v].at = "none" => ~Owned(v)' /\ ~worker[v].stopCh
                   /\ worker[v].at \notin {"none", "done"} => Owned(v)'
        BY <1>0, <1>1, <2>1, <2>5 DEF LifeInv
      <3> QED
        BY <2>1, <3>1 DEF LifeInv
    <2>7. LeaderInv'
      BY <1>0, <2>1, <2>2 DEF LeaderInv
    <2> QED
      BY <2>3, <2>4, <2>6, <2>7 DEF FetchInv
  <1> QED
    BY <1>3, <1>4 DEF StopperStep

\* The steps of Stop, which takes the workers out of the map before it calls
\* stop for them.
LEMMA StopKeepsInv ==
  ASSUME FetchInv, StopBegins \/ StopSeesLoopDone \/ StopWorkers
  PROVE  FetchInv'
  <1> USE DEF metadata, manager
  <1>0. FetchTypes /\ LockInv /\ LifeInv /\ LeaderInv
    BY DEF FetchInv
  <1>1. CASE StopBegins
    <2>1. /\ UNCHANGED <<followed, addr, refresh, fmMu, worker, stopper>>
          /\ fmStopped' = TRUE /\ fmMu = "free"
          /\ workers' = [l \in Leaders |-> NoWorker]
          /\ stopping'.at \in {"loop", "workers"}
          /\ stopping'.left = {workers[l] : l \in Leaders} \ {NoWorker}
      BY SMTT(30), <1>1 DEF StopBegins
    <2>2. stopping.left = {}
      BY <1>0, <1>1 DEF StopBegins, LockInv
    <2>3. FetchTypes'
      <3>1. stopping' \in [at : {"no", "loop", "workers", "done"}, left : SUBSET Workers]
        BY <1>0, <1>1 DEF StopBegins, FetchTypes
      <3> QED
        BY SMTT(30), <1>0, <2>1, <3>1 DEF FetchTypes
    <2>4. LockInv'
      BY <1>0, <2>1 DEF LockInv, InReassign
    <2>5. \A v \in Workers : Owned(v)' <=> Owned(v)
      BY SMTT(30), <2>1, <2>2, NoWorkerIsNone DEF Owned
    <2>6. LifeInv'
      <3>1. stopper.worker # NoWorker => stopper.worker \in Workers
        BY SMTT(30), <1>0 DEF FetchTypes
      <3>2. (stopper.worker # NoWorker => Owned(stopper.worker))'
        <4>1. ASSUME NEW v \in Workers, v = stopper.worker PROVE Owned(v)'
          BY SMTT(30), <1>0, <2>5, <4>1, NoWorkerIsNone DEF LifeInv
        <4> QED
          BY <2>1, <3>1, <4>1 DEF Owned
      <3> QED
        BY <1>0, <2>1, <2>5, <3>2 DEF LifeInv
    <2>7. LeaderInv'
      <3>1. \A v \in stopping'.left : \E l \in Leaders : v = workers[l] /\ v # NoWorker
        BY <2>1
      <3> QED
        BY <1>0, <2>1, <3>1 DEF LeaderInv
    <2> QED
      BY SMTT(30), <2>3, <2>4, <2>6, <2>7 DEF FetchInv
  <1>2. ASSUME NEW step \in {"workers", "done"}, stopping.at # "no",
               stopping' = [stopping EXCEPT !.at = step],
               UNCHANGED <<metadata, refresh, manager, worker, stopper>>
        PROVE  FetchInv'
    <2>1. /\ stopping'.at = step /\ stopping'.left = stopping.left
          /\ stopping' \in [at : {"no", "loop", "workers", "done"}, left : SUBSET Workers]
      BY <1>0, <1>2 DEF FetchTypes
    <2>2. FetchTypes'
      BY <1>0, <1>2, <2>1 DEF FetchTypes
    <2>3. LockInv'
      BY <1>0, <1>2, <2>1 DEF LockInv, InReassign
    <2>4. LifeInv' /\ LeaderInv'
      BY <1>0, <1>2, <2>1 DEF LifeInv, LeaderInv, Owned
    <2> QED
      BY <2>2, <2>3, <2>4 DEF FetchInv
  <1>3. CASE StopSeesLoopDone
    BY <1>2, <1>3 DEF StopSeesLoopDone
  <1>4. CASE StopWorkers
    <2>1. ASSUME NEW w \in stopping.left, CallStop(w), UNCHANGED stopping PROVE FetchInv'
      <3>1. w \in Workers /\ Owned(w)
        BY <1>0, <2>1 DEF FetchTypes, Owned
      <3> QED
        BY <1>4, <2>1, <3>1, CallStopKeepsInv DEF StopWorkers
    <2> QED
      BY <1>2, <1>4, <2>1 DEF StopWorkers
  <1> QED
    BY <1>1, <1>3, <1>4

\* Every step of the broker keeps the invariant of its fetch manager.
LEMMA FetchInvInductive == FetchInv /\ [Next]_vars => FetchInv'
  <1> SUFFICES ASSUME FetchInv, [Next]_vars PROVE FetchInv'
    OBVIOUS
  <1>1. ASSUME UNCHANGED fetchVars PROVE FetchInv'
    BY Zenon, <1>1 DEF fetchVars, metadata, manager, FetchInv, FetchTypes, LockInv, InReassign,
                LifeInv, LeaderInv, Owned
  <1>2. CASE FetchStep
    BY <1>2, RefreshStepKeepsInv, StopperStepKeepsInv, WorkerStepKeepsInv DEF FetchStep
  <1>3. CASE StartFetching
    BY <1>1, <1>3, RefreshStepKeepsInv DEF StartFetching
  <1>4. CASE StopFetching
    BY <1>1, <1>4, StopKeepsInv DEF StopFetching
  <1> QED
    BY SMTT(30), <1>1, <1>2, <1>3, <1>4
       DEF Next, vars, MainStep, Register, Unfence, Signal, StopServer, CloseTopics,
           OnlyMain, ServerStep

\* w.stop() is called at most once for every worker, for any number of leaders
\* and whatever Reassign, Stop and the workers do in between.
THEOREM StopOnce == Spec => []StopChClosedOnce
  <1>1. Init => FetchInv
    BY FetchInitInv DEF Init
  <1>2. FetchInv => StopChClosedOnce
    BY SMTT(30), NoWorkerIsNone DEF FetchInv, FetchTypes, LifeInv, StopChClosedOnce
  <1> QED
    BY <1>1, <1>2, FetchInvInductive, PTL DEF Spec

\* At most one worker fetches from a leader, also while the manager stops, and
\* no worker runs that neither the map nor Stop knows.
THEOREM OneWorker == Spec => []OneWorkerPerLeader
  <1>1. Init => FetchInv
    BY FetchInitInv DEF Init
  <1>2. FetchInv => OneWorkerPerLeader
    <2> SUFFICES ASSUME FetchInv PROVE OneWorkerPerLeader
      OBVIOUS
    <2> USE DEF FetchInv
    <2>1. ASSUME NEW w \in Workers, worker[w].at \notin {"none", "done"} PROVE Owned(w)
      BY <2>1 DEF LifeInv
    <2>2. ASSUME NEW v \in Workers, NEW w \in Workers, Owned(v), Owned(w),
                 worker[v].leader = worker[w].leader
          PROVE  v = w
      <3>1. CASE fmStopped
        BY <2>2, <3>1, NoWorkerIsNone DEF LockInv, LeaderInv, Owned
      <3>2. CASE ~fmStopped
        BY SMTT(30), <2>2, <3>2, NoWorkerIsNone DEF LockInv, LeaderInv, Owned
      <3> QED
        BY SMTT(30), <3>1, <3>2
    <2> QED
      BY <2>1, <2>2 DEF OneWorkerPerLeader, Owned
  <1> QED
    BY <1>1, <1>2, FetchInvInductive, PTL DEF Spec

\* Every step of the broker keeps what is known of the workers' connections.
LEMMA ClientInvInductive == FetchInv /\ ClientInv /\ [Next]_vars => ClientInv'
  <1> SUFFICES ASSUME FetchInv, ClientInv, [Next]_vars PROVE ClientInv'
    OBVIOUS
  <1> USE DEF metadata, manager
  <1>0. FetchTypes /\ LockInv /\ LifeInv
    BY DEF FetchInv
  <1>a. worker \in [Workers -> WorkerRecords]
    BY <1>0 DEF FetchTypes
  <1>1. ASSUME UNCHANGED worker, UNCHANGED stopper \/ stopper.at # "shutdown"
        PROVE  ClientInv'
    BY <1>1 DEF ClientInv
  <1>2. ASSUME NEW w \in Workers, BeginRound(w) \/ Quit(w) \/ WorkerStep(w)
        PROVE  ClientInv'
    <2>1. PICK r \in WorkerRecords :
             /\ worker' = [worker EXCEPT ![w] = r]
             /\ r.stopCh = worker[w].stopCh
             /\ r.shutdown = worker[w].shutdown
             /\ ConnectionKept(worker[w]) => ConnectionKept(r)
      BY <1>2, WorkerMoves
    <2>2. UNCHANGED stopper
      BY SMTT(30), <1>2, WorkerMoves DEF OnlyWorker
    <2> QED
      BY <1>a, <2>1, <2>2 DEF ClientInv
  <1>3. CASE Place
    <2> DEFINE fresh == {x \in Workers : worker[x].at = "none"}
    <2>1. UNCHANGED stopper
      BY Zenon, <1>3 DEF Place
    <2>2. ASSUME NEW w \in fresh,
                 worker' = [worker EXCEPT ![w].leader = refresh.leader,
                                          ![w].addr = refresh.addr, ![w].at = "select"]
          PROVE  ClientInv'
      <3>1. w \in Workers /\ worker[w] \in WorkerRecords
        BY <1>a
      <3>2. /\ \A v \in Workers : v # w => worker'[v] = worker[v]
            /\ worker'[w].open = worker[w].open /\ worker'[w].conn = worker[w].conn
            /\ worker'[w].shutdown = worker[w].shutdown
            /\ worker'[w].stopCh = worker[w].stopCh /\ worker'[w].at = "select"
        BY SMTT(30), <1>a, <2>2, <3>1 DEF WorkerRecords
      <3>3. ConnectionKept(worker'[w])
        BY <3>1, <3>2 DEF ClientInv, ConnectionKept
      <3> QED
        BY <2>1, <3>1, <3>2, <3>3 DEF ClientInv
    <2>3. fresh # {} => (CHOOSE x \in fresh : TRUE) \in fresh
      OBVIOUS
    <2> QED
      BY Zenon, <1>1, <1>3, <2>1, <2>2, <2>3 DEF Place
  <1>4. CASE CloseStopCh \/ ShutdownClient
    <2>1. PICK w \in Workers : w = stopper.worker
      BY <1>0, <1>4 DEF CloseStopCh, ShutdownClient, LifeInv, FetchTypes
    <2>2. worker[w] \in WorkerRecords
      BY SMTT(30), <1>a
    <2>3. CASE CloseStopCh
      <3>1. /\ \A v \in Workers : v # w => worker'[v] = worker[v]
            /\ worker'[w].open = worker[w].open /\ worker'[w].conn = worker[w].conn
            /\ worker'[w].shutdown = worker[w].shutdown
            /\ worker'[w].stopCh /\ worker'[w].at = worker[w].at
            /\ stopper'.worker = w /\ stopper'.at = "shutdown"
            /\ stopper.at = "stopCh"
        BY SMTT(30), <1>0, <1>a, <2>1, <2>2, <2>3 DEF CloseStopCh, WorkerRecords, FetchTypes
      <3>2. ConnectionKept(worker'[w])
        BY SMTT(30), <3>1 DEF ClientInv, ConnectionKept
      <3> QED
        BY <3>1, <3>2 DEF ClientInv
    <2>4. CASE ShutdownClient
      <3>1. /\ \A v \in Workers : v # w => worker'[v] = worker[v]
            /\ worker'[w].open = worker[w].open \ {worker[w].conn}
            /\ worker'[w].conn = NoConn /\ worker'[w].shutdown
            /\ worker'[w].stopCh = worker[w].stopCh
            /\ worker'[w].at = worker[w].at /\ worker[w].at # "dial"
        BY SMTT(30), <1>0, <1>a, <2>1, <2>2, <2>4 DEF ShutdownClient, WorkerRecords
      <3>2. ConnectionKept(worker'[w])
        BY <3>1 DEF ClientInv, ConnectionKept
      <3> QED
        BY SMTT(30), <2>1, <3>1, <3>2 DEF ClientInv
    <2> QED
      BY <1>4, <2>3, <2>4
  <1>5. CASE FetchStep
    <2>1. ASSUME RefreshStep \/ Tick \/ EndLoop \/ ChangeMetadata, ~Place
          PROVE  ClientInv'
      BY Zenon, <1>1, <2>1
         DEF RefreshStep, Tick, EndLoop, ChangeMetadata, ReconcileSucceeds, ReconcileFails,
             LockManager, Prune, NextLeader, StopMisplaced, CallStop
    <2> QED
      BY SMTT(30), <1>1, <1>2, <1>3, <1>4, <1>5, <2>1 DEF FetchStep, StopperStep, StopReturns
  <1>6. CASE StartFetching
    BY <1>1, <1>6 DEF StartFetching, BeginStart, FinishStart, fetchVars
  <1>7. CASE StopFetching
    BY <1>1, <1>7 DEF StopFetching, StopBegins, StopSeesLoopDone, StopWorkers, CallStop,
                      fetchVars
  <1> QED
    BY <1>1, <1>5, <1>6, <1>7
       DEF Next, vars, MainStep, Register, Unfence, Signal, StopServer, CloseTopics,
           OnlyMain, ServerStep, fetchVars

\* A worker that has been stopped has left no connection open, for any number of
\* connections and requests and wherever stop meets the client's dials and
\* retries (replica_client.go:52-101).
THEOREM StoppedWorkersDisconnect == Spec => []ConnectionsClosed
  <1>1. Init => FetchInv /\ ClientInv
    <2> SUFFICES ASSUME Init PROVE FetchInv /\ ClientInv
      OBVIOUS
    <2>1. FetchInv
      BY SMTT(30), FetchInitInv DEF Init
    <2>2. \A w \in Workers : worker[w] = Uncreated
      BY SMTT(30) DEF Init, FetchManagerInit
    <2>3. ConnectionKept(Uncreated) /\ ~Uncreated.stopCh
      BY DEF ConnectionKept, Uncreated
    <2> QED
      BY <2>1, <2>2, <2>3 DEF ClientInv
  <1>2. FetchInv /\ ClientInv => ConnectionsClosed
    <2> SUFFICES ASSUME FetchInv, ClientInv, NEW w \in Workers,
                        worker[w].at = "done", stopper.worker # w
                 PROVE  worker[w].open = {}
      BY SMTT(30) DEF ConnectionsClosed
    <2>1. worker[w].conn = NoConn /\ worker[w].open \subseteq {worker[w].conn}
      BY DEF ClientInv, ConnectionKept
    <2>2. worker[w].open \subseteq Conns
      BY DEF FetchInv, FetchTypes, WorkerRecords
    <2> QED
      BY SMTT(30), <2>1, <2>2, FetchManagerAssumption
  <1> QED
    BY <1>1, <1>2, FetchInvInductive, ClientInvInductive, PTL DEF Spec

\* Where the calling thread is, and what it has left behind.  Start's own refresh
\* comes before any worker; Stop has ended the loop before it stops the workers,
\* and has stopped all of them when it returns.
MainInv ==
    /\ fmStarted \in BOOLEAN
    /\ refresh.by = "loop" <=> fmStarted
    /\ main = "register" => refresh.at = "off"
    /\ main \in {"register", "startFetch"} => ~fmStarted
    /\ main \in {"register", "startFetch", "unfence", "running"} => stopping.at = "no"
    /\ main \notin {"register", "startFetch", "failed"} => fmStarted
    /\ ~fmStarted =>
          /\ refresh.at \notin {"select", "ended"}
          /\ stopping.at = "no"
          /\ refresh.at \in {"off", "reconcile", "lock"} \/ ~refresh.ok =>
                \A w \in Workers : worker[w].at = "none"
    /\ ~refresh.ok => refresh.at = "returned"
    /\ stopping.at \in {"workers", "done"} => refresh.at = "ended"
    /\ stopping.at = "done" => stopping.left = {}
    /\ main \in {"stopServer", "closeTopics", "stopped"} => stopping.at = "done"
    /\ main = "failed" =>
          \/ ~fmStarted /\ (refresh.at = "off" \/ ~refresh.ok)
          \/ stopping.at = "done"
    /\ main \in {"closeTopics", "stopped"} => down = "done"

\* Every step of the broker keeps it.
LEMMA MainInvInductive == FetchInv /\ MainInv /\ [Next]_vars => MainInv'
  <1> SUFFICES ASSUME FetchInv, MainInv, [Next]_vars PROVE MainInv'
    OBVIOUS
  <1> USE DEF metadata, manager
  <1>0. FetchTypes /\ LockInv /\ LifeInv
    BY DEF FetchInv
  <1>a. /\ worker \in [Workers -> WorkerRecords] /\ refresh \in RefreshRecords
        /\ stopping \in [at : {"no", "loop", "workers", "done"}, left : SUBSET Workers]
    BY SMTT(30), <1>0 DEF FetchTypes
  <1>1. ASSUME UNCHANGED <<fmStarted, refresh, main, down>>, stopping'.at = stopping.at,
               stopping.left = {} => stopping'.left = {},
               \A v \in Workers : worker[v].at = "none" => worker'[v].at = "none"
        PROVE  MainInv'
    BY SMTT(30), <1>1 DEF MainInv
  <1>2. ASSUME UNCHANGED <<fetchVars, down>>,
               \/ main = "register" /\ main' \in {"startFetch", "failed"}
               \/ main = "startFetch" /\ ~refresh.ok /\ main' = "failed"
               \/ main = "unfence" /\ main' \in {"running", "abandon"}
               \/ main = "running" /\ main' = "stopFetch"
               \/ main = "abandon" /\ stopping.at = "done" /\ main' = "failed"
               \/ main = "stopFetch" /\ stopping.at = "done" /\ main' = "stopServer"
               \/ main = "closeTopics" /\ main' = "stopped"
        PROVE  MainInv'
    BY SMTT(30), <1>2 DEF MainInv, fetchVars
  <1>3. CASE ServerStep
    BY Zenon, <1>1, <1>3
       DEF ServerStep, fetchVars, ClientStep, Connect, Send, Disconnect, Accept, ConnStep,
           CheckClosing, ReadMessage, Handle, WriteResponse, Spawn, AcceptFails
  <1>4. CASE StopServer
    <2>1. UNCHANGED fetchVars /\ main = "stopServer"
      BY <1>4 DEF StopServer
    <2>2. \/ main' = main
          \/ main' = "closeTopics" /\ down' = "done"
      BY <1>4 DEF StopServer, WaitReturns
    <2> QED
      BY Zenon, <2>1, <2>2 DEF MainInv, fetchVars
  <1>5. CASE StartFetching
    <2>0. UNCHANGED <<down, stopping, worker>> /\ main = "startFetch"
      BY SMTT(30), <1>5 DEF StartFetching, serverVars, BeginStart, FinishStart, fetchVars
    <2>1. CASE BeginStart /\ UNCHANGED main
      <3>1. /\ refresh.at = "off" /\ refresh'.at = "reconcile" /\ UNCHANGED fmStarted
            /\ refresh'.by = refresh.by /\ refresh'.ok = refresh.ok
        BY SMTT(30), <1>a, <2>1 DEF BeginStart, RefreshTo, RefreshRecords
      <3> QED
        BY <2>0, <2>1, <3>1 DEF MainInv
    <2>2. CASE FinishStart /\ main' = "unfence"
      <3>1. /\ refresh'.at = "select" /\ refresh'.by = "loop" /\ fmStarted' = TRUE
            /\ refresh'.ok = refresh.ok /\ refresh.ok
        BY Zenon, <1>a, <2>2 DEF FinishStart, RefreshRecords
      <3> QED
        BY <2>0, <2>2, <3>1 DEF MainInv
    <2>3. CASE ~refresh.ok /\ main' = "failed" /\ UNCHANGED fetchVars
      BY <1>2, <2>0, <2>3
    <2> QED
      BY <1>5, <2>1, <2>2, <2>3 DEF StartFetching
  <1>6. CASE StopFetching
    <2>0. UNCHANGED down /\ main \in {"abandon", "stopFetch"}
      BY <1>6 DEF StopFetching, serverVars
    <2>1. CASE StopBegins /\ UNCHANGED main
      <3>1. /\ UNCHANGED <<refresh, fmStarted, worker>> /\ stopping.at = "no"
            /\ fmStarted => stopping'.at = "loop"
        BY SMTT(30), <2>1 DEF StopBegins
      <3> QED
        BY Zenon, <2>0, <2>1, <3>1 DEF MainInv
    <2>2. CASE StopSeesLoopDone /\ UNCHANGED main
      <3>1. /\ UNCHANGED <<refresh, fmStarted, worker>>
            /\ refresh.at = "ended" /\ stopping'.at = "workers"
        BY SMTT(30), <1>a, <2>2 DEF StopSeesLoopDone
      <3> QED
        BY <2>0, <2>2, <3>1 DEF MainInv
    <2>3. CASE StopWorkers /\ UNCHANGED main
      <3>1. /\ UNCHANGED <<refresh, fmStarted, worker>> /\ stopping.at = "workers"
            /\ \/ UNCHANGED stopping
               \/ stopping'.at = "done" /\ stopping'.left = {}
        BY <1>a, <2>3 DEF StopWorkers
      <3> QED
        BY <2>0, <2>3, <3>1 DEF MainInv
    <2>4. CASE /\ stopping.at = "done" /\ UNCHANGED fetchVars
               /\ main' = IF main = "abandon" THEN "failed" ELSE "stopServer"
      BY <1>2, <2>0, <2>4
    <2> QED
      BY <1>6, <2>1, <2>2, <2>3, <2>4 DEF StopFetching
  <1>7. ASSUME UNCHANGED <<main, down>>, RefreshStep \/ Tick \/ EndLoop
        PROVE  MainInv'
    <2>1. UNCHANGED <<fmStarted, stopping>>
      BY Zenon, <1>7 DEF RefreshStep, Tick, EndLoop, ReconcileSucceeds, ReconcileFails,
                  LockManager, Prune, NextLeader, StopMisplaced, Place
    <2>2. refresh.at \notin {"off", "returned", "ended"}
      BY Zenon, <1>7 DEF RefreshStep, Tick, EndLoop, ReconcileSucceeds, ReconcileFails,
                  LockManager, Prune, NextLeader, StopMisplaced, Place
    <2>3. stopping.at \in {"no", "loop"} /\ main \notin {"register", "failed"} /\ refresh.ok
      BY SMTT(30), <1>a, <2>2 DEF MainInv
    <2>4. ASSUME refresh'.by = refresh.by, refresh'.ok = TRUE,
                 refresh'.at \in {"select", "ended"} => fmStarted,
                 ~fmStarted /\ refresh'.at \in {"off", "reconcile", "lock"} =>
                    refresh.at \in {"off", "reconcile", "lock"} /\ UNCHANGED worker
          PROVE  MainInv'
      BY <1>7, <2>1, <2>3, <2>4 DEF MainInv
    <2>5. ASSUME NEW ok \in BOOLEAN, ReturnFromRefresh(ok), UNCHANGED worker,
                 ok \/ refresh.by = "loop" \/ refresh.at = "reconcile"
          PROVE  MainInv'
      <3>1. /\ refresh'.by = refresh.by
            /\ refresh'.ok = (refresh.by = "start" => ok)
            /\ refresh'.at = IF refresh.by = "start" THEN "returned" ELSE "select"
        BY SMTT(30), <1>a, <2>5 DEF ReturnFromRefresh, RefreshRecords
      <3>2. CASE refresh.by = "loop"
        BY Zenon, <2>4, <3>1, <3>2 DEF MainInv
      <3>3. CASE refresh.by = "start" /\ ok
        BY Zenon, <2>4, <3>1, <3>3
      <3>4. CASE refresh.by = "start" /\ ~ok
        <4>1. refresh'.at = "returned" /\ ~refresh'.ok /\ refresh.at = "reconcile" /\ ~fmStarted
          BY <2>5, <3>1, <3>4 DEF MainInv
        <4> QED
          BY <1>7, <2>1, <2>3, <2>5, <3>1, <4>1 DEF MainInv
      <3> QED
        BY <1>a, <3>2, <3>3, <3>4 DEF RefreshRecords
    <2>6. CASE ReconcileFails
      BY Zenon, <2>5, <2>6 DEF ReconcileFails
    <2>7. CASE LockManager
      <3>1. fmStopped => refresh.by = "loop"
        BY <1>0, <1>a DEF LockInv, MainInv
      <3>2. CASE fmStopped
        BY Zenon, <2>5, <2>7, <3>1, <3>2 DEF LockManager
      <3>3. CASE ~fmStopped
        BY Zenon, <1>a, <2>3, <2>4, <2>7, <3>3 DEF LockManager, RefreshTo, RefreshRecords
      <3> QED
        BY <3>2, <3>3
    <2>8. CASE NextLeader
      <3>1. CASE refresh.needed = {}
        BY Zenon, <2>5, <2>8, <3>1 DEF NextLeader
      <3>2. CASE refresh.needed # {}
        BY Zenon, <1>a, <2>3, <2>4, <2>8, <3>2 DEF NextLeader, RefreshRecords
      <3> QED
        BY <3>1, <3>2
    <2>9. CASE ReconcileSucceeds
      BY Zenon, <1>a, <2>3, <2>4, <2>9 DEF ReconcileSucceeds, RefreshRecords
    <2>10. CASE Prune \/ StopMisplaced \/ Place
      <3>1. refresh.at \in {"prune", "place"} /\ (UNCHANGED refresh \/ RefreshTo("next"))
        BY Zenon, <2>10 DEF Prune, StopMisplaced, Place
      <3> QED
        BY Zenon, <1>a, <2>3, <2>4, <3>1 DEF RefreshTo, RefreshRecords
    <2>11. CASE Tick \/ EndLoop
      <3>1. refresh.at = "select" /\ (RefreshTo("reconcile") \/ RefreshTo("ended"))
        BY <2>11 DEF Tick, EndLoop
      <3>2. fmStarted
        BY <3>1 DEF MainInv
      <3> QED
        BY Zenon, <1>a, <2>3, <2>4, <3>1, <3>2 DEF RefreshTo, RefreshRecords
    <2> QED
      BY SMTT(30), <1>7, <2>6, <2>7, <2>8, <2>9, <2>10, <2>11 DEF RefreshStep
  <1>8. CASE FetchStep
    <2>1. UNCHANGED <<main, down>>
      BY <1>8 DEF FetchStep, serverVars
    <2>2. CASE ChangeMetadata
      BY SMTT(30), <1>1, <2>1, <2>2 DEF ChangeMetadata
    <2>3. ASSUME NEW w \in Workers, BeginRound(w) \/ Quit(w) \/ WorkerStep(w)
          PROVE  MainInv'
      <3>1. worker[w].at # "none" /\ UNCHANGED <<refresh, fmStarted, stopping>>
        BY <2>3, WorkerMoves DEF OnlyWorker
      <3>2. \A v \in Workers : v # w => worker'[v] = worker[v]
        BY SMTT(30), <1>a, <2>3, WorkerMoves
      <3> QED
        BY <1>1, <2>1, <3>1, <3>2
    <2>4. CASE StopperStep
      <3>1. UNCHANGED <<refresh, fmStarted>>
        BY <2>4 DEF StopperStep, CloseStopCh, ShutdownClient, StopReturns
      <3>2. stopping'.at = stopping.at /\ (stopping.left = {} => stopping'.left = {})
        BY <1>a, <2>4 DEF StopperStep, CloseStopCh, ShutdownClient, StopReturns
      <3>3. \A v \in Workers : worker'[v].at = worker[v].at
        BY SMTT(30), <1>a, <2>4 DEF StopperStep, CloseStopCh, ShutdownClient, StopReturns,
                          WorkerRecords
      <3> QED
        BY <1>1, <2>1, <3>1, <3>2, <3>3
    <2> QED
      BY <1>7, <1>8, <2>1, <2>2, <2>3, <2>4 DEF FetchStep
  <1>9. CASE UNCHANGED vars
    BY SMTT(30), <1>1, <1>9 DEF vars, fetchVars, serverVars
  <1>10. CASE Register \/ Unfence \/ Signal \/ CloseTopics
    BY <1>2, <1>10 DEF Register, Unfence, Signal, CloseTopics, OnlyMain, StartServing,
                       serverVars
  <1> QED
    BY SMTT(30), <1>3, <1>4, <1>5, <1>6, <1>8, <1>9, <1>10 DEF Next, MainStep

\* A Start that has failed and a Shutdown that has returned leave no worker and
\* no refresh running, for any number of leaders and workers and wherever the
\* failure or the signal meets them (broker.go: Stop before topics.Close).
THEOREM DownIsQuiet == Spec => []QuietWhenDown
  <1>1. Init => FetchInv /\ MainInv
    <2> SUFFICES ASSUME Init PROVE FetchInv /\ MainInv
      OBVIOUS
    <2>1. FetchInv
      BY FetchInitInv DEF Init
    <2>2. \A w \in Workers : worker[w].at = "none"
      BY Zenon DEF Init, FetchManagerInit, Uncreated
    <2> QED
      BY Zenon, <2>1, <2>2 DEF Init, FetchManagerInit, MainInv
  <1>2. FetchInv /\ MainInv => QuietWhenDown
    <2> SUFFICES ASSUME FetchInv, MainInv, main \in {"closeTopics", "stopped", "failed"}
                 PROVE  /\ \A w \in Workers : worker[w].at \in {"none", "done"}
                        /\ refresh.at \in {"off", "returned", "ended"}
                        /\ main # "failed" => down = "done"
      BY DEF QuietWhenDown
    <2>1. CASE ~fmStarted /\ (refresh.at = "off" \/ ~refresh.ok)
      BY SMTT(30), <2>1 DEF MainInv
    <2>2. CASE stopping.at = "done"
      <3>1. refresh.at = "ended" /\ stopping.left = {}
        BY <2>2 DEF MainInv
      <3>2. \A w \in Workers : ~Owned(w)
        BY <2>2, <3>1, NoWorkerIsNone DEF FetchInv, LockInv, Owned
      <3> QED
        BY SMTT(30), <3>1, <3>2 DEF MainInv, FetchInv, LifeInv
    <2> QED
      BY <2>1, <2>2 DEF MainInv
  <1> QED
    BY <1>1, <1>2, FetchInvInductive, MainInvInductive, PTL DEF Spec
=============================================================================
