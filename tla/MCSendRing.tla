----------------------------- MODULE MCSendRing -----------------------------
(* SendRing for TLC: the symmetry of the callers and of the messages. *)
EXTENDS SendRing, TLC

CallersAndMessages == Permutations(Callers) \cup Permutations(Messages)
=============================================================================
