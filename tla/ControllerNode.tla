---------------------------- MODULE ControllerNode ----------------------------
(***************************************************************************)
(* The controller cluster: every node runs a ControllerFSM behind Raft     *)
(* (internal/controller/node.go, leader_adapter.go).  Raft is an external  *)
(* library; what the code uses of it is a single sequence of committed     *)
(* commands that each node applies in order, the snapshots it takes of a   *)
(* node's state, and their restoration when a node restarts or has fallen  *)
(* behind.  Brokers read the state of their local node, however far that   *)
(* node has applied the log (LeaderAdapter).                               *)
(***************************************************************************)
EXTENDS ControllerState

CONSTANTS
    Nodes,          \* controller nodes
    Commands,       \* the commands clients may commit
    MaxLog          \* bound: length of the committed log

\* The endpoints of a RegisterBroker command and the partitions of a
\* CreateTopic command are lists.
ASSUME CommandsAssumption ==
    \A cmd \in Commands :
        /\ cmd.type = "RegisterBroker" =>
              /\ cmd.Endpoints \in Seq(Range(cmd.Endpoints))
              /\ \A i \in DOMAIN cmd.Endpoints : cmd.Endpoints[i].name \in Names
        /\ cmd.type = "CreateTopic" => cmd.Partitions \in Seq(Range(cmd.Partitions))

ASSUME MaxLogAssumption == MaxLog \in Nat

VARIABLES
    log,            \* the committed commands
    hist,           \* hist[i]: state after the first i commands (history)
    up,             \* up[n]: the node's process runs
    fsm,            \* fsm[n]: the node's ControllerFSM.state
    applied,        \* applied[n]: index of the last command applied
    snap            \* snap[n]: the node's latest snapshot on disk

vars == <<log, hist, up, fsm, applied, snap>>

Init ==
    /\ log = <<>>
    /\ hist = [i \in {0} |-> NewControllerState]
    /\ up = [n \in Nodes |-> TRUE]
    /\ fsm = [n \in Nodes |-> NewControllerState]
    /\ applied = [n \in Nodes |-> 0]
    /\ snap = [n \in Nodes |-> [index |-> 0, data |-> ToSnapshotData(NewControllerState)]]

\* Node.Apply hands a command to Raft, which commits it at the next index.
Commit(cmd) ==
    /\ Len(log) < MaxLog
    /\ log' = Append(log, cmd)
    /\ hist' = Put(hist, Len(log) + 1, Apply(hist[Len(log)], cmd, Len(log) + 1))
    /\ UNCHANGED <<up, fsm, applied, snap>>

\* Raft calls ControllerFSM.Apply with the next committed entry.
ApplyNext(n) ==
    /\ up[n] /\ applied[n] < Len(log)
    /\ fsm' = [fsm EXCEPT ![n] = Apply(@, log[applied[n] + 1], applied[n] + 1)]
    /\ applied' = [applied EXCEPT ![n] = @ + 1]
    /\ UNCHANGED <<log, hist, up, snap>>

\* Raft calls Snapshot and Persist.
TakeSnapshot(n) ==
    /\ up[n] /\ snap[n].index < applied[n]
    /\ snap' = [snap EXCEPT ![n] = [index |-> applied[n], data |-> ToSnapshotData(fsm[n])]]
    /\ UNCHANGED <<log, hist, up, fsm, applied>>

\* Mutant: a snapshot is restored whether it is newer or not.
InstallAnySnapshot(n, m) ==
    /\ up[n] /\ up[m] /\ n # m
    /\ RestoreAccepted(snap[m].data)
    /\ snap' = [snap EXCEPT ![n] = snap[m]]
    /\ fsm' = [fsm EXCEPT ![n] = snap[m].data]
    /\ applied' = [applied EXCEPT ![n] = snap[m].index]
    /\ UNCHANGED <<log, hist, up>>

\* Raft sends a node that has fallen behind another node's snapshot: it is
\* stored, then given to Restore, which keeps the old state on an error.
InstallSnapshot(n, m) ==
    /\ up[n] /\ up[m] /\ n # m
    /\ snap[m].index > applied[n]
    /\ RestoreAccepted(snap[m].data)
    /\ snap' = [snap EXCEPT ![n] = snap[m]]
    /\ fsm' = [fsm EXCEPT ![n] = snap[m].data]
    /\ applied' = [applied EXCEPT ![n] = snap[m].index]
    /\ UNCHANGED <<log, hist, up>>

\* The state of the FSM is in memory: a stopped node keeps its snapshot only.
Crash(n) ==
    /\ up[n]
    /\ up' = [up EXCEPT ![n] = FALSE]
    /\ fsm' = [fsm EXCEPT ![n] = NewControllerState]
    /\ applied' = [applied EXCEPT ![n] = 0]
    /\ UNCHANGED <<log, hist, snap>>

\* newNode starts Raft, which restores the latest snapshot before it replays
\* the log.  A snapshot that Restore refuses keeps the node from starting.
Restart(n) ==
    /\ ~up[n]
    /\ RestoreAccepted(snap[n].data)
    /\ up' = [up EXCEPT ![n] = TRUE]
    /\ fsm' = [fsm EXCEPT ![n] = snap[n].data]
    /\ applied' = [applied EXCEPT ![n] = snap[n].index]
    /\ UNCHANGED <<log, hist, snap>>

Next ==
    \/ \E cmd \in Commands : Commit(cmd)
    \/ \E n \in Nodes : ApplyNext(n)
    \/ \E n \in Nodes : TakeSnapshot(n)
    \/ \E n, m \in Nodes : InstallSnapshot(n, m)
    \/ \E n \in Nodes : Crash(n)
    \/ \E n \in Nodes : Restart(n)

Spec == Init /\ [][Next]_vars

-----------------------------------------------------------------------------
(* Properties *)

\* Every log index in use has a state, and no node is ahead of the log.
TypeOK ==
    /\ log \in Seq(Commands) /\ Len(log) <= MaxLog
    /\ DOMAIN hist = 0 .. Len(log)
    /\ up \in [Nodes -> BOOLEAN]
    /\ DOMAIN fsm = Nodes
    /\ applied \in [Nodes -> 0 .. Len(log)]
    /\ DOMAIN snap = Nodes
    /\ \A n \in Nodes : snap[n].index \in 0 .. Len(log)

\* Restore never refuses what Persist wrote: whatever commands were applied,
\* a node that crashes or falls behind can come back from any snapshot.  The
\* check it must pass is the strictest one, validatePartitionSpec, which asks
\* that no ISR member is fenced at the moment of the snapshot.
SnapshotsRestorable ==
    \A n \in Nodes : RestoreAccepted(ToSnapshotData(fsm[n])) /\ RestoreAccepted(snap[n].data)

\* Two nodes that applied the same number of commands hold the same state,
\* also when one of them skipped commands by restoring a snapshot.
NodesAgree ==
    \A n, m \in Nodes : applied[n] = applied[m] => fsm[n] = fsm[m]

\* The partition epoch identifies the metadata of a partition, across nodes
\* that have applied different prefixes: FetchManager and UpdatePartition's
\* compare-and-set both rely on comparing only this number.
PartitionEpochIdentifiesMetadata ==
    \A n, m \in Nodes : \A k \in DOMAIN fsm[n].Partitions \cap DOMAIN fsm[m].Partitions :
        fsm[n].Partitions[k].PartitionEpoch = fsm[m].Partitions[k].PartitionEpoch
            => fsm[n].Partitions[k] = fsm[m].Partitions[k]

\* At most one leader per leader epoch, across nodes at different indexes:
\* what makes the epoch check of fetch requests a fencing of stale leaders.
OneLeaderPerEpoch ==
    \A n, m \in Nodes : \A k \in DOMAIN fsm[n].Partitions \cap DOMAIN fsm[m].Partitions :
        fsm[n].Partitions[k].LeaderEpoch = fsm[m].Partitions[k].LeaderEpoch
            => fsm[n].Partitions[k].LeaderBrokerID = fsm[m].Partitions[k].LeaderBrokerID

\* A broker epoch belongs to one incarnation for ever: an unfence request a
\* dead incarnation left behind can never activate its successor.
BrokerEpochIdentifiesIncarnation ==
    \A i, j \in DOMAIN hist : \A a \in DOMAIN hist[i].Brokers : \A b \in DOMAIN hist[j].Brokers :
        hist[i].Brokers[a].BrokerEpoch = hist[j].Brokers[b].BrokerEpoch
            => a = b /\ hist[i].Brokers[a].IncarnationID = hist[j].Brokers[b].IncarnationID

\* What a broker reads from its local node never goes back in time while the
\* node runs: no partition disappears and no epoch decreases.
ReadsNeverGoBack ==
    [][\A n \in Nodes : up[n] /\ up'[n] =>
        \A k \in DOMAIN fsm[n].Partitions :
            /\ k \in DOMAIN fsm'[n].Partitions
            /\ fsm'[n].Partitions[k].PartitionEpoch >= fsm[n].Partitions[k].PartitionEpoch
            /\ fsm'[n].Partitions[k].LeaderEpoch >= fsm[n].Partitions[k].LeaderEpoch]_vars
================================================================================
