------------------------------- MODULE Server -------------------------------
(***************************************************************************)
(* internal/server: the accept loop, the loop of each connection and       *)
(* Shutdown, which run in goroutines of their own and meet in the channel  *)
(* closing, the listener and the WaitGroup.                                *)
(*                                                                         *)
(* A request is only "there" or "not there": what is in it is the business *)
(* of the handlers.  A handler may take any time, and ends.                *)
(***************************************************************************)
EXTENDS Naturals, FiniteSets

CONSTANTS
    Clients,        \* remote ends, each opening one connection at a time
    NoClient        \* the accept loop holds no connection

ASSUME ServerAssumption == NoClient \notin Clients /\ IsFiniteSet(Clients)

VARIABLES
    listening,      \* the listener accepts connections
    closing,        \* the channel closing is closed
    accepting,      \* "off", "accept", "ended": the goroutine of Serve
    accepted,       \* the connection Accept returned and nobody serves yet
    conn,           \* the goroutine of each connection, by its next step
    wg,             \* the WaitGroup of the connections
    client,         \* "silent", "sent" (bytes to read) or "gone"
    down            \* next step of Shutdown: "no", "listener", "wait", "done"

serverVars ==
    <<listening, closing, accepting, accepted, conn, wg, client, down>>

\* Steps of clientConn.serve; "queued" is a connection that the kernel has
\* and Accept has not returned yet.
Serving == {"check", "read", "handle", "write"}
Steps == {"none", "queued", "accepted"} \cup Serving

ServerTypeOK ==
    /\ listening \in BOOLEAN
    /\ closing \in BOOLEAN
    /\ accepting \in {"off", "accept", "ended"}
    /\ accepted \in Clients \cup {NoClient}
    /\ conn \in [Clients -> Steps]
    /\ wg \in Nat
    /\ client \in [Clients -> {"silent", "sent", "gone"}]
    /\ down \in {"no", "listener", "wait", "done"}

\* NewServer: the listener is bound before anything serves.
ServerInit ==
    /\ listening = TRUE
    /\ closing = FALSE
    /\ accepting = "off"
    /\ accepted = NoClient
    /\ conn = [c \in Clients |-> "none"]
    /\ wg = 0
    /\ client = [c \in Clients |-> "silent"]
    /\ down = "no"

-----------------------------------------------------------------------------
(* The clients: they may do or not do anything.                            *)

\* Before Serve a connection only waits in the kernel: clients come later.
Connect(c) ==
    /\ accepting # "off"
    /\ listening
    /\ conn[c] = "none"
    /\ conn' = [conn EXCEPT ![c] = "queued"]
    /\ client' = [client EXCEPT ![c] = "silent"]
    /\ UNCHANGED <<listening, closing, accepting, accepted, wg, down>>

Send(c) ==
    /\ conn[c] # "none"
    /\ client[c] = "silent"
    /\ client' = [client EXCEPT ![c] = "sent"]
    /\ UNCHANGED <<listening, closing, accepting, accepted, conn, wg, down>>

Disconnect(c) ==
    /\ conn[c] # "none"
    /\ client[c] # "gone"
    /\ client' = [client EXCEPT ![c] = "gone"]
    /\ UNCHANGED <<listening, closing, accepting, accepted, conn, wg, down>>

ClientStep(c) == Connect(c) \/ Send(c) \/ Disconnect(c)

-----------------------------------------------------------------------------
(* Serve.                                                                  *)

\* go b.server.Serve()
StartServing ==
    /\ accepting = "off"
    /\ accepting' = "accept"
    /\ UNCHANGED <<listening, closing, accepted, conn, wg, client, down>>

\* Accept returns a connection.
Accept(c) ==
    /\ accepting = "accept"
    /\ accepted = NoClient
    /\ listening
    /\ conn[c] = "queued"
    /\ conn' = [conn EXCEPT ![c] = "accepted"]
    /\ accepted' = c
    /\ UNCHANGED <<listening, closing, accepting, wg, client, down>>

\* wg.Add(1) and go: by now Shutdown may have begun, and even have ended.
Spawn ==
    /\ accepted # NoClient
    /\ wg' = wg + 1
    /\ conn' = [conn EXCEPT ![accepted] = "check"]
    /\ accepted' = NoClient
    /\ UNCHANGED <<listening, closing, accepting, client, down>>

\* Accept fails.  An error of an open listener is logged and Accept called
\* again, which changes nothing.
AcceptFails ==
    /\ accepting = "accept"
    /\ accepted = NoClient
    /\ ~listening
    /\ closing
    /\ accepting' = "ended"
    /\ UNCHANGED <<listening, closing, accepted, conn, wg, client, down>>

-----------------------------------------------------------------------------
(* clientConn.serve.                                                       *)

\* The deferred conn.Close and wg.Done.
Leave(c) ==
    /\ conn' = [conn EXCEPT ![c] = "none"]
    /\ wg' = wg - 1

\* The loop without its look at closing.
CheckClosingIgnored(c) ==
    /\ conn[c] = "check"
    /\ conn' = [conn EXCEPT ![c] = "read"]
    /\ UNCHANGED <<listening, closing, accepting, accepted, wg, client, down>>

CheckClosing(c) ==
    /\ conn[c] = "check"
    /\ IF closing
       THEN Leave(c)
       ELSE conn' = [conn EXCEPT ![c] = "read"] /\ UNCHANGED wg
    /\ UNCHANGED <<listening, closing, accepting, accepted, client, down>>

\* readMessage and ParseRequestHeader.  A bad size or header ends the
\* connection like a client that is gone.
ReadMessage(c) ==
    /\ conn[c] = "read"
    /\ \/ /\ client[c] = "sent"
          /\ client' = [client EXCEPT ![c] = "silent"]
          /\ conn' = [conn EXCEPT ![c] = "handle"]
          /\ UNCHANGED wg
       \/ /\ client[c] \in {"sent", "gone"}
          /\ Leave(c)
          /\ UNCHANGED client
    /\ UNCHANGED <<listening, closing, accepting, accepted, down>>

\* handler.Handle returns: a response, none (acks=0) or an error.
Handle(c) ==
    /\ conn[c] = "handle"
    /\ \/ /\ \E next \in {"write", "check"} : conn' = [conn EXCEPT ![c] = next]
          /\ UNCHANGED wg
       \/ Leave(c)
    /\ UNCHANGED <<listening, closing, accepting, accepted, client, down>>

\* writeResponse.  It waits for a client that does not read, without a
\* deadline, and fails when the client is gone.
WriteResponse(c) ==
    /\ conn[c] = "write"
    /\ \/ conn' = [conn EXCEPT ![c] = "check"] /\ UNCHANGED wg
       \/ client[c] = "gone" /\ Leave(c)
    /\ UNCHANGED <<listening, closing, accepting, accepted, client, down>>

ConnStep(c) ==
    CheckClosing(c) \/ ReadMessage(c) \/ Handle(c) \/ WriteResponse(c)

-----------------------------------------------------------------------------
(* Shutdown.                                                               *)

CloseClosing ==
    /\ down = "no"
    /\ closing' = TRUE
    /\ down' = "listener"
    /\ UNCHANGED <<listening, accepting, accepted, conn, wg, client>>

\* The kernel resets the connections that were not accepted.
CloseListener ==
    /\ down = "listener"
    /\ listening' = FALSE
    /\ conn' = [c \in Clients |-> IF conn[c] = "queued" THEN "none" ELSE conn[c]]
    /\ down' = "wait"
    /\ UNCHANGED <<closing, accepting, accepted, wg, client>>

WaitReturns ==
    /\ down = "wait"
    /\ wg = 0
    /\ down' = "done"
    /\ UNCHANGED <<listening, closing, accepting, accepted, conn, wg, client>>

\* The goroutines run; the clients owe nothing, so that nothing is assumed of
\* a response to a client that is still there.
ServerFairness ==
    /\ \A c \in Clients :
          WF_serverVars(\/ CheckClosing(c) \/ ReadMessage(c) \/ Handle(c)
                        \/ client[c] = "gone" /\ WriteResponse(c))
    /\ WF_serverVars((\E c \in Clients : Accept(c)) \/ Spawn \/ AcceptFails)

\* The goroutine of c's connection waits for c to send or to read.
WaitsForClient(c) ==
    \/ conn[c] = "read" /\ client[c] = "silent"
    \/ conn[c] = "write" /\ client[c] # "gone"

-----------------------------------------------------------------------------
\* Once Shutdown has returned no request is read, handled or answered, although
\* the accept loop may add a connection to the WaitGroup after Wait has seen it
\* empty (server.go:71 and 84): such a connection finds closing and leaves.
NoRequestAfterShutdown ==
    down = "done" => \A c \in Clients : conn[c] \notin {"read", "handle", "write"}
=============================================================================
