---------------------------- MODULE DispatchQueue ----------------------------
(***************************************************************************)
(* What the modules of this project share about Grand Central Dispatch and *)
(* Objective-C: a queue is the sequence of the blocks submitted to it and  *)
(* not yet completed, oldest first; a block is a record with a field kind; *)
(* a flag is a BOOL.                                                       *)
(***************************************************************************)
EXTENDS Integers, SequencesExt

YES  == "YES"
NO   == "NO"
BOOL == {YES, NO}

\* The positions of the blocks of some kinds in a queue.
At(queue, kinds) == {i \in DOMAIN queue : queue[i].kind \in kinds}

AtMostOne(S) == \A i, j \in S : i = j

\* The block to run next is of this kind.
Due(queue, kind) == queue # <<>> /\ Head(queue).kind = kind
=============================================================================
