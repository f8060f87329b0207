---------------------------- MODULE FetchManager ----------------------------
(***************************************************************************)
(* internal/broker: the fetch manager, its workers and their replica       *)
(* clients, at the grain of locks and blocking calls.  Three kinds of      *)
(* threads meet here: the one that runs refresh (the caller of Start, then *)
(* the manager's loop), the worker of each leader, and the caller of Stop. *)
(* What is fetched is modelled in Replication; here a request is only      *)
(* sent, answered, timed out or cut off.                                   *)
(***************************************************************************)
EXTENDS Naturals, FiniteSets

CONSTANTS
    Leaders,        \* brokers that may lead partitions this one follows
    Addrs,          \* addresses a leader may have
    NoAddr,         \* a leader that is unknown, fenced or without endpoint
    MaxWorkers,     \* bound: workers created
    Conns,          \* names for the connections of one worker
    NoConn,
    MaxCalls,       \* requests in one round: epoch questions and the fetch
    MaxChanges      \* bound: changes of the controller's metadata

ASSUME FetchManagerAssumption ==
    /\ NoAddr \notin Addrs /\ Addrs # {}
    /\ NoConn \notin Conns /\ MaxCalls \in Nat \ {0} /\ MaxChanges \in Nat
    \* a worker is created for a leader that has none, or that has moved
    /\ MaxWorkers \in Nat /\ MaxWorkers >= Cardinality(Leaders) + MaxChanges

Workers == 1 .. MaxWorkers
NoWorker == 0

VARIABLES
    followed,       \* controller: leaders of the partitions this broker follows
    addr,           \* controller: the address of each leader
    changes,        \* changes of the two so far
    refresh,        \* the thread in refresh: its next step and what it has read
    fmStarted,      \* fm.started
    fmStopped,      \* fm.stopped
    fmMu,           \* fm.mu: "free" or held by "refresh"
    workers,        \* fm.workers
    worker,         \* every worker ever created
    stopper,        \* w.stop(): the worker and the next step of the call
    stopping        \* next step of Stop and the workers it has taken

metadata == <<followed, addr, changes>>
manager == <<fmStarted, fmStopped, fmMu, workers>>
fetchVars == <<metadata, refresh, manager, worker, stopper, stopping>>

\* A worker that does not exist yet.
Uncreated ==
    [leader |-> NoWorker, addr |-> NoAddr, at |-> "none", call |-> 0,
     attempt |-> 0, stopCh |-> FALSE, shutdown |-> FALSE,
     conn |-> NoConn, used |-> NoConn, open |-> {}]

FetchManagerTypeOK ==
    /\ followed \subseteq Leaders
    /\ addr \in [Leaders -> Addrs \cup {NoAddr}]
    /\ refresh.at \in {"off", "select", "reconcile", "lock", "prune",
                      "next", "place", "returned", "ended"}
    /\ fmMu = "refresh" <=> refresh.at \in {"prune", "next", "place"}
    /\ workers \in [Leaders -> Workers \cup {NoWorker}]
    /\ \A w \in Workers :
          /\ worker[w].at \in {"none", "select", "connect", "dial",
                               "exchange", "apply", "done"}
          /\ worker[w].open \subseteq Conns
    /\ stopper.worker \in Workers \cup {NoWorker}
    /\ stopping.left \subseteq Workers

FetchManagerInit ==
    /\ followed = Leaders
    /\ addr = [l \in Leaders |-> CHOOSE a \in Addrs : TRUE]
    /\ changes = 0
    /\ refresh = [at |-> "off", by |-> "start", needed |-> {}, leader |-> NoWorker,
                  addr |-> NoAddr, ok |-> TRUE]
    /\ fmStarted = FALSE
    /\ fmStopped = FALSE
    /\ fmMu = "free"
    /\ workers = [l \in Leaders |-> NoWorker]
    /\ worker = [w \in Workers |-> Uncreated]
    /\ stopper = [worker |-> NoWorker, at |-> "idle"]
    /\ stopping = [at |-> "no", left |-> {}]

-----------------------------------------------------------------------------
(* The controller, as the broker sees it until the manager is stopped.     *)

ChangeMetadata ==
    /\ ~fmStopped
    /\ changes < MaxChanges
    /\ changes' = changes + 1
    /\ \/ followed' \in SUBSET Leaders \ {followed} /\ UNCHANGED addr
       \/ \E l \in Leaders, a \in Addrs \cup {NoAddr} :
             a # addr[l] /\ addr' = [addr EXCEPT ![l] = a] /\ UNCHANGED followed
    /\ UNCHANGED <<refresh, manager, worker, stopper, stopping>>

-----------------------------------------------------------------------------
(* refresh and Reassign, called by Start and by run.                       *)

RefreshTo(step) == refresh' = [refresh EXCEPT !.at = step]

\* refresh returns to its caller: to Start with its error, to run, which logs it.
ReturnFromRefresh(ok) ==
    refresh' = [refresh EXCEPT !.leader = NoWorker, !.needed = {}, !.addr = NoAddr,
                               !.ok = refresh.by = "start" => ok,
                               !.at = IF refresh.by = "start" THEN "returned"
                                                              ELSE "select"]

\* Start calls refresh before it looks at stopped and started.
BeginStart ==
    /\ refresh.at = "off"
    /\ RefreshTo("reconcile")
    /\ UNCHANGED <<metadata, manager, worker, stopper, stopping>>

\* topics.Reconcile; an error ends the refresh before Reassign, which reads the
\* assignments before it takes the lock.
ReconcileSucceeds ==
    /\ refresh.at = "reconcile"
    /\ refresh' = [refresh EXCEPT !.at = "lock", !.needed = followed]
    /\ UNCHANGED <<metadata, manager, worker, stopper, stopping>>

ReconcileFails ==
    /\ refresh.at = "reconcile"
    /\ ReturnFromRefresh(FALSE)
    /\ UNCHANGED <<metadata, manager, worker, stopper, stopping>>

LockManager ==
    /\ refresh.at = "lock"
    /\ fmMu = "free"
    /\ IF fmStopped
       THEN ReturnFromRefresh(FALSE) /\ UNCHANGED fmMu
       ELSE RefreshTo("prune") /\ fmMu' = "refresh"
    /\ UNCHANGED <<metadata, fmStarted, fmStopped, workers, worker, stopper, stopping>>

\* w.stop() is called while the lock is held.
CallStop(w) ==
    /\ stopper.at = "idle"
    /\ stopper' = [worker |-> w, at |-> "stopCh"]

\* Prune without its loop.
PruneSkipped ==
    /\ refresh.at = "prune"
    /\ RefreshTo("next")
    /\ UNCHANGED <<metadata, manager, worker, stopper, stopping>>

\* The first loop: workers of leaders no longer followed.
Prune ==
    /\ refresh.at = "prune"
    /\ stopper.at = "idle"
    /\ LET unneeded == {l \in Leaders \ refresh.needed : workers[l] # NoWorker}
       IN  IF unneeded = {}
           THEN RefreshTo("next") /\ UNCHANGED stopper
           ELSE (\E l \in unneeded : CallStop(workers[l])) /\ UNCHANGED refresh
    /\ UNCHANGED <<metadata, manager, worker, stopping>>

\* The second loop takes the followed leaders in any order (a map) and reads
\* each one's registration, or ends.
NextLeader ==
    /\ refresh.at = "next"
    /\ IF refresh.needed = {}
       THEN ReturnFromRefresh(TRUE) /\ fmMu' = "free"
       ELSE /\ \E l \in refresh.needed :
                  refresh' = [refresh EXCEPT !.at = "place", !.leader = l,
                                             !.addr = addr[l],
                                             !.needed = @ \ {l}]
            /\ UNCHANGED fmMu
    /\ UNCHANGED <<metadata, fmStarted, fmStopped, workers, worker, stopper, stopping>>

\* The worker of a leader that is gone or has moved is stopped first.
StopMisplaced ==
    /\ refresh.at = "place"
    /\ stopper.at = "idle"
    /\ workers[refresh.leader] # NoWorker
    /\ worker[workers[refresh.leader]].addr # refresh.addr
    /\ CallStop(workers[refresh.leader])
    /\ UNCHANGED <<metadata, refresh, manager, worker, stopping>>

\* newLeaderFetchWorker and start, then setPartitions, which waits while the
\* worker applies a response.
Place ==
    /\ refresh.at = "place"
    /\ stopper.at = "idle"
    /\ LET l == refresh.leader
           fresh == {w \in Workers : worker[w].at = "none"}
           w == CHOOSE x \in fresh : TRUE
       IN  \/ /\ refresh.addr = NoAddr
              /\ workers[l] = NoWorker
              /\ UNCHANGED <<workers, worker>>
           \/ /\ workers[l] # NoWorker
              /\ worker[workers[l]].addr = refresh.addr
              /\ worker[workers[l]].at # "apply"
              /\ UNCHANGED <<workers, worker>>
           \/ /\ refresh.addr # NoAddr
              /\ workers[l] = NoWorker
              /\ fresh # {}
              /\ worker' = [worker EXCEPT ![w].leader = l, ![w].addr = refresh.addr,
                                          ![w].at = "select"]
              /\ workers' = [workers EXCEPT ![l] = w]
    /\ RefreshTo("next")
    /\ UNCHANGED <<metadata, fmStarted, fmStopped, fmMu, stopper, stopping>>

\* The rest of Start.
FinishStart ==
    /\ refresh.at = "returned"
    /\ refresh.ok
    /\ fmMu = "free"
    /\ ~fmStopped
    /\ fmStarted' = TRUE
    /\ refresh' = [refresh EXCEPT !.at = "select", !.by = "loop"]
    /\ UNCHANGED <<metadata, fmStopped, fmMu, workers, worker, stopper, stopping>>

\* run: the ticker, or loopStop.  When both are ready select takes either.
Tick ==
    /\ refresh.at = "select"
    /\ RefreshTo("reconcile")
    /\ UNCHANGED <<metadata, manager, worker, stopper, stopping>>

EndLoop ==
    /\ refresh.at = "select"
    /\ fmStopped
    /\ RefreshTo("ended")
    /\ UNCHANGED <<metadata, manager, worker, stopper, stopping>>

RefreshStep ==
    \/ ReconcileSucceeds \/ ReconcileFails \/ LockManager
    \/ Prune \/ NextLeader \/ StopMisplaced \/ Place

-----------------------------------------------------------------------------
(* The worker: run, fetchOnce and the replica client it calls.             *)

WorkerTo(w, step) == worker' = [worker EXCEPT ![w].at = step]

OnlyWorker == UNCHANGED <<metadata, refresh, manager, stopper, stopping>>

\* The ticker starts a round, also after stopCh is closed.
BeginRound(w) ==
    /\ worker[w].at = "select"
    /\ worker' = [worker EXCEPT ![w].at = "connect", ![w].call = 1,
                                ![w].attempt = 1]
    /\ OnlyWorker

Quit(w) ==
    /\ worker[w].at = "select"
    /\ worker[w].stopCh
    /\ WorkerTo(w, "done")
    /\ OnlyWorker

\* The round's next request: for another partition, another epoch, or the
\* fetch after the questions.
NextCall(w) == [worker[w] EXCEPT !.at = "connect", !.call = @ + 1, !.attempt = 1]

\* sendRequestOnce has failed: dropConnection closes the connection it used,
\* and the client's field is cleared if it still is that connection.  The first
\* time Close closes what the field holds, and the request is sent again.
RequestFails(w) ==
    LET wk == worker[w]
        dropped == [wk EXCEPT !.open = @ \ {wk.used}, !.used = NoConn,
                              !.conn = IF @ = wk.used THEN NoConn ELSE @]
        closed == [dropped EXCEPT !.open = @ \ {dropped.conn}, !.conn = NoConn]
    IN  \/ /\ wk.attempt = 1
           /\ worker' = [worker EXCEPT ![w] = [closed EXCEPT !.attempt = 2,
                                                             !.at = "connect"]]
        \/ /\ wk.attempt = 2
           /\ \/ worker' = [worker EXCEPT ![w] = [dropped EXCEPT !.at = "select",
                                                  !.call = 0, !.attempt = 0]]
              \/ /\ wk.call < MaxCalls
                 /\ worker' = [worker EXCEPT ![w] =
                                  [dropped EXCEPT !.at = "connect",
                                                  !.call = @ + 1, !.attempt = 1]]

\* ensureConnected without its look at shutdown.
EnsureConnectedAfterShutdown(w) ==
    /\ worker[w].at = "connect"
    /\ \/ /\ worker[w].conn # NoConn
          /\ worker' = [worker EXCEPT ![w].at = "exchange", ![w].used = worker[w].conn]
       \/ worker[w].conn = NoConn /\ WorkerTo(w, "dial")
    /\ OnlyWorker

\* ensureConnected holds c.mu while it dials, which Shutdown waits for.
EnsureConnected(w) ==
    /\ worker[w].at = "connect"
    /\ \/ worker[w].shutdown /\ RequestFails(w)
       \/ /\ ~worker[w].shutdown
          /\ worker[w].conn # NoConn
          /\ worker' = [worker EXCEPT ![w].at = "exchange", ![w].used = worker[w].conn]
       \/ ~worker[w].shutdown /\ worker[w].conn = NoConn /\ WorkerTo(w, "dial")
    /\ OnlyWorker

Dial(w) ==
    /\ worker[w].at = "dial"
    /\ \/ \E c \in Conns \ worker[w].open :
             worker' = [worker EXCEPT ![w].at = "exchange", ![w].conn = c,
                                      ![w].used = c, ![w].open = @ \cup {c}]
       \/ RequestFails(w)
    /\ OnlyWorker

\* The request is written and the answer read: it comes, or the deadline set on
\* the connection passes, or either side has closed the connection.
Exchange(w) ==
    /\ worker[w].at = "exchange"
    /\ \/ /\ worker[w].used \in worker[w].open
          /\ \/ WorkerTo(w, "apply")
             \/ /\ worker[w].call < MaxCalls
                /\ worker' = [worker EXCEPT ![w] = NextCall(w)]
       \/ RequestFails(w)
    /\ OnlyWorker

\* AppendFromLeader for the partitions of the response.
ApplyResponse(w) ==
    /\ worker[w].at = "apply"
    /\ worker' = [worker EXCEPT ![w].at = "select", ![w].call = 0,
                                ![w].attempt = 0, ![w].used = NoConn]
    /\ OnlyWorker

WorkerStep(w) ==
    \/ EnsureConnected(w) \/ Dial(w) \/ Exchange(w) \/ ApplyResponse(w)

-----------------------------------------------------------------------------
(* w.stop(), called by Reassign or by Stop.                                *)

CloseStopCh ==
    /\ stopper.at = "stopCh"
    /\ worker' = [worker EXCEPT ![stopper.worker].stopCh = TRUE]
    /\ stopper' = [stopper EXCEPT !.at = "shutdown"]
    /\ UNCHANGED <<metadata, refresh, manager, stopping>>

\* The client's Shutdown: under c.mu it sets the flag and takes the connection,
\* which it then closes.
ShutdownClient ==
    LET w == stopper.worker IN
    /\ stopper.at = "shutdown"
    /\ worker[w].at # "dial"
    /\ worker' = [worker EXCEPT ![w].shutdown = TRUE, ![w].conn = NoConn,
                                ![w].open = @ \ {worker[w].conn}]
    /\ stopper' = [stopper EXCEPT !.at = "wait"]
    /\ UNCHANGED <<metadata, refresh, manager, stopping>>

\* stop without <-w.doneCh.
StopReturnsEarly ==
    LET w == stopper.worker IN
    /\ stopper.at = "wait"
    /\ stopper' = [worker |-> NoWorker, at |-> "idle"]
    /\ workers' = [l \in Leaders |-> IF workers[l] = w THEN NoWorker ELSE workers[l]]
    /\ stopping' = [stopping EXCEPT !.left = @ \ {w}]
    /\ UNCHANGED <<metadata, refresh, fmStarted, fmStopped, fmMu, worker>>

\* Reassign without its deletes: the stopped worker stays in the map.
StopReturnsKept ==
    /\ stopper.at = "wait"
    /\ worker[stopper.worker].at = "done"
    /\ stopper' = [worker |-> NoWorker, at |-> "idle"]
    /\ stopping' = [stopping EXCEPT !.left = @ \ {stopper.worker}]
    /\ UNCHANGED <<metadata, refresh, manager, worker>>

\* <-w.doneCh; then Reassign deletes the worker from the map, Stop goes on.
StopReturns ==
    LET w == stopper.worker IN
    /\ stopper.at = "wait"
    /\ worker[w].at = "done"
    /\ stopper' = [worker |-> NoWorker, at |-> "idle"]
    /\ workers' = [l \in Leaders |-> IF workers[l] = w THEN NoWorker ELSE workers[l]]
    /\ stopping' = [stopping EXCEPT !.left = @ \ {w}]
    /\ UNCHANGED <<metadata, refresh, fmStarted, fmStopped, fmMu, worker>>

StopperStep == CloseStopCh \/ ShutdownClient \/ StopReturns

-----------------------------------------------------------------------------
(* Stop.                                                                   *)

\* Stop that keeps the lock while it waits for the loop.
StopBeginsLocked ==
    /\ stopping.at = "no"
    /\ fmMu = "free"
    /\ fmStopped' = TRUE
    /\ fmMu' = "stop"
    /\ workers' = [l \in Leaders |-> NoWorker]
    /\ stopping' = [at |-> IF fmStarted THEN "loop" ELSE "workers",
                    left |-> {workers[l] : l \in Leaders} \ {NoWorker}]
    /\ UNCHANGED <<metadata, refresh, fmStarted, worker, stopper>>

StopBegins ==
    /\ stopping.at = "no"
    /\ fmMu = "free"
    /\ fmStopped' = TRUE
    /\ workers' = [l \in Leaders |-> NoWorker]
    /\ stopping' = [at |-> IF fmStarted THEN "loop" ELSE "workers",
                    left |-> {workers[l] : l \in Leaders} \ {NoWorker}]
    /\ UNCHANGED <<metadata, refresh, fmStarted, fmMu, worker, stopper>>

\* <-fm.loopDone
StopSeesLoopDone ==
    /\ stopping.at = "loop"
    /\ refresh.at = "ended"
    /\ stopping' = [stopping EXCEPT !.at = "workers"]
    /\ UNCHANGED <<metadata, refresh, manager, worker, stopper>>

StopWorkers ==
    /\ stopping.at = "workers"
    /\ stopper.at = "idle"
    /\ IF stopping.left = {}
       THEN stopping' = [stopping EXCEPT !.at = "done"] /\ UNCHANGED stopper
       ELSE (\E w \in stopping.left : CallStop(w)) /\ UNCHANGED stopping
    /\ UNCHANGED <<metadata, refresh, manager, worker>>

\* Threads run, dials and deadlines time out and tickers tick.  Strong fairness
\* is for select, which chooses at random among what is ready, and for mutexes,
\* which let no waiter starve (fm.mu, w.mu and c.mu).
FetchManagerFairness ==
    /\ SF_fetchVars(RefreshStep \/ Tick) /\ SF_fetchVars(EndLoop)
    /\ SF_fetchVars(StopperStep)
    /\ \A w \in Workers :
          /\ WF_fetchVars(WorkerStep(w)) /\ SF_fetchVars(Quit(w))
=============================================================================
