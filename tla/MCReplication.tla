----------------------------- MODULE MCReplication -----------------------------
EXTENDS Replication, TLC

Symmetry == Permutations(Brokers)

\* The state Spec reaches once every broker has refreshed its assignment for
\* the first time and every follower has found nothing to reconcile.
MCInit ==
    \E leader \in Brokers :
        LET m == [leader |-> leader, epoch |-> 0, isr |-> Brokers] IN
        /\ meta = <<m>>
        /\ seen = [b \in Brokers |-> 1]
        /\ refreshing = [b \in Brokers |-> FALSE]
        /\ part = [b \in Brokers |-> IF b = leader THEN MakeLeader(b, Unassigned, m)
                                     ELSE MakeFollower(b, Unassigned, m)]
        /\ log = [b \in Brokers |-> <<>>]
        /\ cache = [b \in Brokers |-> IF b = leader THEN <<Entry(0, 0)>> ELSE <<>>]
        /\ worker = [b \in Brokers |-> IF b = leader THEN NoWorker
                                       ELSE [NewWorker(m) EXCEPT !.reconciled = TRUE]]
        /\ late = {} /\ acked = {} /\ written = 0

MCSpec == MCInit /\ [][Next]_vars

MCLiveSpec == MCSpec /\ Fairness
================================================================================
