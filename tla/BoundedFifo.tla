---------------------------- MODULE BoundedFifo ----------------------------
(***************************************************************************)
(* What a send queue of the messaging layer promises to the callers of     *)
(* enq_send and to the send thread: messages leave in the order in which   *)
(* they were accepted, each exactly once, and at most Capacity of them are *)
(* waiting.  Both histories are kept whole, so the promise is about every  *)
(* message ever accepted and not only about those that are waiting.        *)
(***************************************************************************)
EXTENDS Naturals, Sequences

CONSTANTS Messages, \* what a caller may hand over
          Capacity  \* the number of messages that may wait

VARIABLES accepted, \* every message accepted so far, in order
          taken     \* every message handed to the send thread so far

fifoVars == <<accepted, taken>>

Init == /\ accepted = <<>>
        /\ taken = <<>>

Accept(m) == /\ Len(accepted) < Len(taken) + Capacity
             /\ accepted' = Append(accepted, m)
             /\ UNCHANGED taken

Take == /\ Len(taken) < Len(accepted)
        /\ taken' = Append(taken, accepted[Len(taken) + 1])
        /\ UNCHANGED accepted

Next == (\E m \in Messages : Accept(m)) \/ Take

Spec == Init /\ [][Next]_fifoVars

\* What is accepted is taken in the end.
FairSpec == Spec /\ WF_fifoVars(Take)
=============================================================================
