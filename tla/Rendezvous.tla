---------------------------- MODULE Rendezvous ----------------------------
(***************************************************************************)
(* What the doorbell variant promises of the messages of one VM: one at a  *)
(* time is announced, read once at most by somebody, and answered once at  *)
(* most, and the next is announced only after the answer.                  *)
(***************************************************************************)
EXTENDS Naturals

VARIABLES announced, heard, answered \* how many messages got that far

vars == <<announced, heard, answered>>

Init == announced = 0 /\ heard = 0 /\ answered = 0

Announce == /\ answered = announced
            /\ announced' = announced + 1
            /\ UNCHANGED <<heard, answered>>

Hear == /\ heard < announced
        /\ heard' = heard + 1
        /\ UNCHANGED <<announced, answered>>

Answer == /\ answered < heard
          /\ answered' = answered + 1
          /\ UNCHANGED <<announced, heard>>

Next == Announce \/ Hear \/ Answer

Spec == Init /\ [][Next]_vars
=============================================================================
