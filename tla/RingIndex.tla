----------------------------- MODULE RingIndex -----------------------------
(***************************************************************************)
(* The index arithmetic of the ring msg_q, as enq_send and deq_send write  *)
(* it: the slot after slot i is  (i + 1) & (MAX_SEND_DEPTH - 1).  That is  *)
(* the remainder modulo MAX_SEND_DEPTH, and visits every slot, only for a  *)
(* power of two: 1024 in final_phase.c, but 100 in final_arm.c and 10 in   *)
(* final_x86.c.                                                            *)
(***************************************************************************)
EXTENDS Naturals

CONSTANT MAX_SEND_DEPTH \* number of slots, initial value of q_full

Slots == 0 .. MAX_SEND_DEPTH - 1

\* The & of two unsigned numbers.
BitAnd[p \in Nat \X Nat] ==
  IF p[1] = 0 \/ p[2] = 0 THEN 0
  ELSE 2 * BitAnd[<<p[1] \div 2, p[2] \div 2>>]
       + (IF p[1] % 2 = 1 /\ p[2] % 2 = 1 THEN 1 ELSE 0)

NextSlot(i) == BitAnd[<<i + 1, MAX_SEND_DEPTH - 1>>]

ASSUME DepthAssumption == MAX_SEND_DEPTH \in Nat \ {0}

\* The mask is the remainder: true exactly of the powers of two.
WrapsAtDepth ==
  \A i \in Slots : NextSlot(i) = IF i = MAX_SEND_DEPTH - 1 THEN 0 ELSE i + 1

\* Position x of the ring, for x < 2 * MAX_SEND_DEPTH.
Wrap(x) == IF x < MAX_SEND_DEPTH THEN x ELSE x - MAX_SEND_DEPTH
=============================================================================
