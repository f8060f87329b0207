------------------------------- MODULE OffsetLog -------------------------------
(***************************************************************************)
(* What a partition's log promises: a sequence of records, at offsets      *)
(* 0, 1, 2, ..., that grows at its end and is cut at its end, and that a   *)
(* restart leaves as it was.                                               *)
(***************************************************************************)
EXTENDS Sequences, Integers

CONSTANT Records

VARIABLE contents

Init == contents = <<>>

AppendRecords ==
    /\ Len(contents') > Len(contents)
    /\ SubSeq(contents', 1, Len(contents)) = contents
    /\ contents' \in Seq(Records)

TruncateTo ==
    \E offset \in 0 .. Len(contents) : contents' = SubSeq(contents, 1, offset)

Spec == Init /\ [][AppendRecords \/ TruncateTo]_contents
================================================================================
