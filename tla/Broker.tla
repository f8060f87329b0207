------------------------------- MODULE Broker -------------------------------
(***************************************************************************)
(* One broker process: Start and Shutdown of internal/broker/broker.go     *)
(* around the server, the fetch manager and the open topics.  The threads  *)
(* of Server and FetchManager run on their own; this module adds the       *)
(* thread that starts and stops them.  Shutdown leaves a process that may  *)
(* live on (cmd/broker ends it), so nothing may be left running.           *)
(***************************************************************************)
EXTENDS Server, FetchManager

VARIABLE
    main            \* next step of the calling thread, in Start or Shutdown

vars == <<serverVars, fetchVars, main>>

TypeOK ==
    /\ ServerTypeOK
    /\ FetchManagerTypeOK
    /\ main \in {"register", "startFetch", "unfence", "abandon", "running",
                 "stopFetch", "stopServer", "closeTopics", "stopped", "failed"}

\* NewBroker has opened the topics and bound the listener.
Init ==
    /\ ServerInit
    /\ FetchManagerInit
    /\ main = "register"

OnlyMain == UNCHANGED <<serverVars, fetchVars>>

\* registerAndReconcile up to the fetch manager: an error of RegisterBroker,
\* of the look-up of the registration or of Reconcile ends Start.
Register ==
    /\ main = "register"
    /\ main' \in {"startFetch", "failed"}
    /\ OnlyMain

\* fetchManager.Start; its error drops the manager without stopping it.
StartFetching ==
    /\ main = "startFetch"
    /\ \/ BeginStart /\ UNCHANGED main
       \/ FinishStart /\ main' = "unfence"
       \/ refresh.at = "returned" /\ ~refresh.ok /\ main' = "failed"
                                                 /\ UNCHANGED fetchVars
    /\ UNCHANGED serverVars

\* UnfenceBroker, whose error stops the fetch manager, then go Serve.
Unfence ==
    /\ main = "unfence"
    /\ \/ StartServing /\ main' = "running"
       \/ main' = "abandon" /\ UNCHANGED serverVars
    /\ UNCHANGED fetchVars

Signal ==
    /\ main = "running"
    /\ main' = "stopFetch"
    /\ OnlyMain

StopFetching ==
    /\ main \in {"abandon", "stopFetch"}
    /\ \/ StopBegins /\ UNCHANGED main
       \/ StopSeesLoopDone /\ UNCHANGED main
       \/ StopWorkers /\ UNCHANGED main
       \/ /\ stopping.at = "done"
          /\ main' = IF main = "abandon" THEN "failed" ELSE "stopServer"
          /\ UNCHANGED fetchVars
    /\ UNCHANGED serverVars

StopServer ==
    /\ main = "stopServer"
    /\ \/ CloseClosing /\ UNCHANGED main
       \/ CloseListener /\ UNCHANGED main
       \/ WaitReturns /\ main' = "closeTopics"
    /\ UNCHANGED fetchVars

CloseTopics ==
    /\ main = "closeTopics"
    /\ main' = "stopped"
    /\ OnlyMain

MainStep ==
    \/ Register \/ StartFetching \/ Unfence \/ StopFetching \/ StopServer
    \/ CloseTopics

ServerStep ==
    /\ \/ \E c \in Clients : ClientStep(c) \/ Accept(c) \/ ConnStep(c)
       \/ Spawn
       \/ AcceptFails
    /\ UNCHANGED <<fetchVars, main>>

FetchStep ==
    /\ \/ ChangeMetadata
       \/ RefreshStep \/ Tick \/ EndLoop
       \/ StopperStep
       \/ \E w \in Workers : BeginRound(w) \/ Quit(w) \/ WorkerStep(w)
    /\ UNCHANGED <<serverVars, main>>

Next == MainStep \/ Signal \/ ServerStep \/ FetchStep

\* Only the signal may stay away, and what the clients owe.  Stop waits for
\* fm.mu, which the loop takes and returns again and again, and Shutdown for a
\* WaitGroup: neither lets a waiter starve.
Spec ==
    /\ Init /\ [][Next]_vars
    /\ SF_vars(MainStep)
    /\ ServerFairness
    /\ FetchManagerFairness

-----------------------------------------------------------------------------
\* When Start has failed or Shutdown has returned, nothing of the fetch manager
\* uses a topic any more: no worker is in a round and no refresh goes on
\* (broker.go: Stop and Shutdown before topics.Close), and the server has gone
\* through its own Shutdown.
QuietWhenDown ==
    main \in {"closeTopics", "stopped", "failed"} =>
        /\ \A w \in Workers : worker[w].at \in {"none", "done"}
        /\ refresh.at \in {"off", "returned", "ended"}
        /\ main # "failed" => down = "done"

\* A channel is closed once: w.stop() is never called for a worker that has
\* been stopped, whoever calls it (fetch_manager.go:259; a second close panics).
StopChClosedOnce ==
    stopper.at = "stopCh" => ~worker[stopper.worker].stopCh

\* Two workers never fetch from the same leader at one time, and each one that
\* runs is in the manager's map or with the thread that stops it
\* (fetch_manager.go:119-150).
OneWorkerPerLeader ==
    LET running == {w \in Workers : worker[w].at \notin {"none", "done"}}
    IN  /\ \A v, w \in running : worker[v].leader = worker[w].leader => v = w
        /\ \A w \in running :
              \/ \E l \in Leaders : workers[l] = w
              \/ w \in stopping.left

\* A worker that was stopped leaves no connection to its leader open, although
\* stop may come before, in or after a dial, a retry or a reply
\* (replica_client.go:52-101).
ConnectionsClosed ==
    \A w \in Workers :
        worker[w].at = "done" /\ stopper.worker # w => worker[w].open = {}

\* A Start that fails once fetching has begun returns, and so does Shutdown
\* unless some client keeps its connection and neither sends nor reads
\* (server.go:84 waits for such a client for ever).  The leaders may do what
\* they like: Stop waits for the loop and for every worker.
ShutdownReturns ==
    /\ main = "abandon" ~> main = "failed"
    /\ main = "stopFetch" ~> main = "stopServer"
    /\ (\A c \in Clients : []<>~WaitsForClient(c))
          => (main = "stopServer" ~> main = "stopped")

\* If Reconcile goes on succeeding, the workers become those the controller's
\* metadata ask for (fetch_manager.go:102-153).
WorkersFollowMetadata ==
    []<><<ReconcileSucceeds>>_fetchVars =>
        <>[](\A l \in Leaders :
                IF l \in followed /\ addr[l] # NoAddr
                THEN workers[l] # NoWorker /\ worker[workers[l]].addr = addr[l]
                ELSE workers[l] = NoWorker)
=============================================================================
