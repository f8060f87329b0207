----------------------------- MODULE CommittedLog -----------------------------
(***************************************************************************)
(* What a replicated partition promises its clients: one sequence of       *)
(* committed records, which only ever grows at its end.                    *)
(***************************************************************************)
EXTENDS Integers, Sequences

VARIABLE committed

Init == committed = <<>>

Extend ==
    /\ Len(committed') > Len(committed)
    /\ SubSeq(committed', 1, Len(committed)) = committed

Spec == Init /\ [][Extend]_committed
================================================================================
