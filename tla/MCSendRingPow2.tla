--------------------------- MODULE MCSendRingPow2 ---------------------------
(* SendRing with a depth that is a power of two. *)
EXTENDS MCSendRing

ASSUME PowerOfTwo == WrapsAtDepth
=============================================================================
