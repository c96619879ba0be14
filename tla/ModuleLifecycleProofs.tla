------------------------ MODULE ModuleLifecycleProofs ------------------------
(***************************************************************************)
(* Proofs about ModuleLifecycle, for any number of handles, any depth of   *)
(* their queues, any number of demo messages and of transmissions.         *)
(***************************************************************************)
EXTENDS ModuleLifecycle, TLAPS

LEMMA HandleFacts ==
  /\ 0 \in Handles /\ NUMBER_OF_HANDLES - 1 \in Handles
  /\ \A k \in Handles : k \in Nat /\ k <= NUMBER_OF_HANDLES - 1
  /\ \A k \in Handles : k # NUMBER_OF_HANDLES - 1 => k + 1 \in Handles
BY CountsAssumption DEF Handles

LEMMA ThreadFacts ==
  /\ \A k \in Handles : <<"send", k>> \in Threads /\ <<"recv", k>> \in Threads
  /\ \A t \in Threads : \E k \in Handles : t = <<"send", k>> \/ t = <<"recv", k>>
  /\ \A j, k \in Handles : /\ <<"send", k>> # <<"recv", j>>
                           /\ <<"send", k>> = <<"send", j>> => k = j
                           /\ <<"recv", k>> = <<"recv", j>> => k = j
BY DEF Threads

-----------------------------------------------------------------------------
(* Types *)

\* Every variable keeps its type: insmod and rmmod look only at handles there
\* are, and no q_empty goes below zero or above the depth of the queue.
THEOREM LifecycleTypeCorrect == Spec => []TypeOK
<1> USE HandleFacts
<1>1. Init => TypeOK
  <2> SUFFICES ASSUME Init PROVE TypeOK
    OBVIOUS
  <2>1. 0 \in 0 .. MAX_SEND_DEPTH
    BY CountsAssumption
  <2>2. asked \subseteq Threads /\ late \in [Threads -> Nat]
    BY DEF Init
  <2>3. QED
    BY <2>1, <2>2 DEF Init, TypeOK
<1>2. TypeOK /\ [Next]_vars => TypeOK'
  <2> SUFFICES ASSUME TypeOK, [Next]_vars PROVE TypeOK'
    OBVIOUS
  <2> USE DEF TypeOK, loader, queues, threads, Ended
  <2>1. CASE MapDevice
    BY <2>1 DEF MapDevice
  <2>2. CASE MakeQueue
    BY <2>2 DEF MakeQueue, NextHandle, Last
  <2>3. CASE MakeQueueFails
    BY <2>3 DEF MakeQueueFails, Fail
  <2>4. ASSUME NEW k \in Handles, Demo(k) PROVE TypeOK'
    <3>1. n + 1 \in Nat
      BY HandleFacts DEF TypeOK
    <3>2. q_empty[k] + 1 \in 0 .. MAX_SEND_DEPTH
      BY <2>4, CountsAssumption DEF Demo
    <3>3. q_empty' \in [Handles -> 0 .. MAX_SEND_DEPTH]
      BY <2>4, <3>2 DEF Demo
    <3>4. QED
      BY <2>4, <3>1, <3>3 DEF Demo
  <2>5. CASE RingBufferInit
    BY <2>5 DEF RingBufferInit
  <2>6. CASE RingBufferInitFails
    BY <2>6 DEF RingBufferInitFails
  <2>7. CASE StartSend
    BY <2>7 DEF StartSend
  <2>8. CASE StartSendFails
    BY <2>8 DEF StartSendFails, Fail
  <2>9. CASE StartRecv
    BY <2>9 DEF StartRecv, NextHandle, Last
  <2>10. CASE StartRecvFails
    BY <2>10, ThreadFacts DEF StartRecvFails
  <2>11. CASE Undone
    BY <2>11 DEF Undone, Fail
  <2>12. CASE Rmmod
    BY <2>12 DEF Rmmod
  <2>13. CASE StopSend
    BY <2>13, ThreadFacts DEF StopSend
  <2>14. CASE JoinSend
    BY <2>14 DEF JoinSend
  <2>15. CASE StopRecv
    BY <2>15, ThreadFacts DEF StopRecv
  <2>16. CASE JoinRecv
    BY <2>16 DEF JoinRecv, NextHandle, Last
  <2>17. CASE Unmap
    BY <2>17 DEF Unmap
  <2>18. ASSUME NEW k \in Handles, SendBegin(k) PROVE TypeOK'
    BY <2>18 DEF SendBegin
  <2>19. ASSUME NEW k \in Handles, SendContinue(k) PROVE TypeOK'
    BY <2>19 DEF SendContinue
  <2>20. ASSUME NEW k \in Handles, SendQuit(k) PROVE TypeOK'
    BY <2>20 DEF SendQuit
  <2>21. ASSUME NEW k \in Handles, SendFetch(k) PROVE TypeOK'
    <3>1. q_empty[k] - 1 \in 0 .. MAX_SEND_DEPTH
      BY <2>21, CountsAssumption DEF SendFetch, Late
    <3>2. q_empty' \in [Handles -> 0 .. MAX_SEND_DEPTH]
      BY <2>21, <3>1 DEF SendFetch
    <3>3. left' \in [Handles -> Nat]
      BY <2>21, CountsAssumption DEF SendFetch
    <3>4. late' \in [Threads -> Nat]
      BY <2>21 DEF SendFetch, Late
    <3>5. QED
      BY <2>21, <3>2, <3>3, <3>4 DEF SendFetch
  <2>22. ASSUME NEW k \in Handles, SendMsg(k) PROVE TypeOK'
    BY <2>22 DEF SendMsg
  <2>23. ASSUME NEW k \in Handles, SendDone(k) PROVE TypeOK'
    BY <2>23 DEF SendDone
  <2>24. ASSUME NEW k \in Handles, RecvBegin(k) PROVE TypeOK'
    BY <2>24 DEF RecvBegin
  <2>25. ASSUME NEW k \in Handles, RecvContinue(k) PROVE TypeOK'
    BY <2>25 DEF RecvContinue
  <2>26. ASSUME NEW k \in Handles, RecvQuit(k) PROVE TypeOK'
    BY <2>26 DEF RecvQuit
  <2>27. ASSUME NEW k \in Handles, RecvMsg(k) PROVE TypeOK'
    BY <2>27 DEF RecvMsg, Late
  <2>28. ASSUME NEW k \in Handles, Enqueue(k) PROVE TypeOK'
    <3>1. q_empty[k] + 1 \in 0 .. MAX_SEND_DEPTH
      BY <2>28, CountsAssumption DEF Enqueue
    <3>2. QED
      BY <2>28, <3>1 DEF Enqueue
  <2>29. ASSUME NEW k \in Handles, PeerTakes(k) PROVE TypeOK'
    BY <2>29 DEF PeerTakes
  <2>30. ASSUME NEW k \in Handles, PeerMarks(k) PROVE TypeOK'
    BY <2>30 DEF PeerMarks
  <2>31. CASE UNCHANGED vars
    BY <2>31 DEF vars
  <2>32. QED
    BY <2>1, <2>2, <2>3, <2>4, <2>5, <2>6, <2>7, <2>8, <2>9, <2>10, <2>11,
    <2>12, <2>13, <2>14, <2>15, <2>16, <2>17, <2>18, <2>19, <2>20, <2>21,
    <2>22, <2>23, <2>24, <2>25, <2>26, <2>27, <2>28, <2>29, <2>30, <2>31
    DEF Next, LoadStep, UnloadStep, SendStep, RecvStep
<1>3. QED
  BY <1>1, <1>2, PTL DEF Spec

-----------------------------------------------------------------------------
(* insmod and rmmod *)

\* Each step of insmod and rmmod finds the rings and threads as its predecessors
\* have left them, and nothing that the threads do takes that away.
THEOREM PhaseCorrect == Spec => []PhaseInv
<1> USE HandleFacts
<1>1. Init => PhaseInv
  BY DEF Init, PhaseInv, NoThreadsPastFailure, Ended
<1>2. TypeOK /\ PhaseInv /\ [Next]_vars => PhaseInv'
  <2> SUFFICES ASSUME TypeOK, PhaseInv, [Next]_vars PROVE PhaseInv'
    OBVIOUS
  <2> USE DEF PhaseInv, NoThreadsPastFailure, TypeOK, loader, queues, threads, Ended
  <2>1. CASE MapDevice
    BY <2>1 DEF MapDevice, Handles
  <2>2. CASE MakeQueue
    BY <2>2 DEF MakeQueue, NextHandle, Last
  <2>3. CASE MakeQueueFails
    BY <2>3 DEF MakeQueueFails, Fail, Handles
  <2>4. ASSUME NEW k \in Handles, Demo(k) PROVE PhaseInv'
    BY <2>4 DEF Demo
  <2>5. CASE RingBufferInit
    BY <2>5 DEF RingBufferInit, Handles
  <2>6. CASE RingBufferInitFails
    BY <2>6 DEF RingBufferInitFails, Handles
  <2>7. CASE StartSend
    BY <2>7 DEF StartSend
  <2>8. CASE StartSendFails
    BY <2>8 DEF StartSendFails, Fail
  <2>9. CASE StartRecv
    BY <2>9 DEF StartRecv, NextHandle, Last
  <2>10. CASE StartRecvFails
    BY <2>10 DEF StartRecvFails
  <2>11. CASE Undone
    BY <2>11 DEF Undone, Fail
  <2>12. CASE Rmmod
    BY <2>12 DEF Rmmod, Handles
  <2>13. CASE StopSend
    BY <2>13 DEF StopSend
  <2>14. CASE JoinSend
    BY <2>14 DEF JoinSend
  <2>15. CASE StopRecv
    BY <2>15 DEF StopRecv
  <2>16. CASE JoinRecv
    BY <2>16 DEF JoinRecv, NextHandle, Last
  <2>17. CASE Unmap
    BY <2>17 DEF Unmap
  <2>18. ASSUME NEW k \in Handles, SendBegin(k) PROVE PhaseInv'
    BY <2>18 DEF SendBegin
  <2>19. ASSUME NEW k \in Handles, SendContinue(k) PROVE PhaseInv'
    BY <2>19 DEF SendContinue
  <2>20. ASSUME NEW k \in Handles, SendQuit(k) PROVE PhaseInv'
    BY <2>20 DEF SendQuit
  <2>21. ASSUME NEW k \in Handles, SendFetch(k) PROVE PhaseInv'
    BY <2>21 DEF SendFetch, Late
  <2>22. ASSUME NEW k \in Handles, SendMsg(k) PROVE PhaseInv'
    BY <2>22 DEF SendMsg
  <2>23. ASSUME NEW k \in Handles, SendDone(k) PROVE PhaseInv'
    BY <2>23 DEF SendDone
  <2>24. ASSUME NEW k \in Handles, RecvBegin(k) PROVE PhaseInv'
    BY <2>24 DEF RecvBegin
  <2>25. ASSUME NEW k \in Handles, RecvContinue(k) PROVE PhaseInv'
    BY <2>25 DEF RecvContinue
  <2>26. ASSUME NEW k \in Handles, RecvQuit(k) PROVE PhaseInv'
    BY <2>26 DEF RecvQuit
  <2>27. ASSUME NEW k \in Handles, RecvMsg(k) PROVE PhaseInv'
    BY <2>27 DEF RecvMsg, Late
  <2>28. ASSUME NEW k \in Handles, Enqueue(k) PROVE PhaseInv'
    BY <2>28 DEF Enqueue
  <2>29. ASSUME NEW k \in Handles, PeerTakes(k) PROVE PhaseInv'
    BY <2>29 DEF PeerTakes
  <2>30. ASSUME NEW k \in Handles, PeerMarks(k) PROVE PhaseInv'
    BY <2>30 DEF PeerMarks
  <2>31. CASE UNCHANGED vars
    BY <2>31 DEF vars
  <2>32. QED
    BY <2>1, <2>2, <2>3, <2>4, <2>5, <2>6, <2>7, <2>8, <2>9, <2>10, <2>11,
    <2>12, <2>13, <2>14, <2>15, <2>16, <2>17, <2>18, <2>19, <2>20, <2>21,
    <2>22, <2>23, <2>24, <2>25, <2>26, <2>27, <2>28, <2>29, <2>30, <2>31
    DEF Next, LoadStep, UnloadStep, SendStep, RecvStep
<1>3. QED
  BY <1>1, <1>2, LifecycleTypeCorrect, PTL DEF Spec

\* No thread is left in ivshmem_send or ivshmem_recv when the device is unmapped.
THEOREM MappedCorrect == Spec => []MappedWhileUsed
<1>1. PhaseInv => MappedWhileUsed
  BY DEF PhaseInv, MappedWhileUsed, Ended
<1>2. QED
  BY <1>1, PhaseCorrect, PTL

\* A failed __start_handlers leaves no thread of its handle, nor of later ones.
THEOREM FailureCorrect == Spec => []NoThreadsPastFailure
<1>1. PhaseInv => NoThreadsPastFailure
  BY DEF PhaseInv
<1>2. QED
  BY <1>1, PhaseCorrect, PTL

\* Every ring is freed by its send thread, once, as the last thing that does.
THEOREM FreedCorrect == Spec => []FreedByItsThread
<1> USE HandleFacts
<1>1. Init => FreedByItsThread
  BY DEF Init, FreedByItsThread
<1>2. TypeOK /\ PhaseInv /\ FreedByItsThread /\ [Next]_vars => FreedByItsThread'
  <2> SUFFICES ASSUME TypeOK, PhaseInv, FreedByItsThread, [Next]_vars PROVE FreedByItsThread'
    OBVIOUS
  <2> USE DEF FreedByItsThread, PhaseInv, TypeOK, loader, queues, threads, Ended
  <2>1. CASE MapDevice
    BY <2>1 DEF MapDevice
  <2>2. CASE MakeQueue
    BY <2>2 DEF MakeQueue, NextHandle, Last
  <2>3. CASE MakeQueueFails
    BY <2>3 DEF MakeQueueFails, Fail
  <2>4. ASSUME NEW k \in Handles, Demo(k) PROVE FreedByItsThread'
    BY <2>4 DEF Demo
  <2>5. CASE RingBufferInit
    BY <2>5 DEF RingBufferInit
  <2>6. CASE RingBufferInitFails
    BY <2>6 DEF RingBufferInitFails
  <2>7. CASE StartSend
    BY <2>7 DEF StartSend
  <2>8. CASE StartSendFails
    BY <2>8 DEF StartSendFails, Fail
  <2>9. CASE StartRecv
    BY <2>9 DEF StartRecv, NextHandle, Last
  <2>10. CASE StartRecvFails
    BY <2>10 DEF StartRecvFails
  <2>11. CASE Undone
    BY <2>11 DEF Undone, Fail
  <2>12. CASE Rmmod
    BY <2>12 DEF Rmmod
  <2>13. CASE StopSend
    BY <2>13 DEF StopSend
  <2>14. CASE JoinSend
    BY <2>14 DEF JoinSend
  <2>15. CASE StopRecv
    BY <2>15 DEF StopRecv
  <2>16. CASE JoinRecv
    BY <2>16 DEF JoinRecv, NextHandle, Last
  <2>17. CASE Unmap
    BY <2>17 DEF Unmap
  <2>18. ASSUME NEW k \in Handles, SendBegin(k) PROVE FreedByItsThread'
    BY <2>18 DEF SendBegin
  <2>19. ASSUME NEW k \in Handles, SendContinue(k) PROVE FreedByItsThread'
    BY <2>19 DEF SendContinue
  <2>20. ASSUME NEW k \in Handles, SendQuit(k) PROVE FreedByItsThread'
    BY <2>20 DEF SendQuit
  <2>21. ASSUME NEW k \in Handles, SendFetch(k) PROVE FreedByItsThread'
    BY <2>21 DEF SendFetch, Late
  <2>22. ASSUME NEW k \in Handles, SendMsg(k) PROVE FreedByItsThread'
    BY <2>22 DEF SendMsg
  <2>23. ASSUME NEW k \in Handles, SendDone(k) PROVE FreedByItsThread'
    BY <2>23 DEF SendDone
  <2>24. ASSUME NEW k \in Handles, RecvBegin(k) PROVE FreedByItsThread'
    BY <2>24 DEF RecvBegin
  <2>25. ASSUME NEW k \in Handles, RecvContinue(k) PROVE FreedByItsThread'
    BY <2>25 DEF RecvContinue
  <2>26. ASSUME NEW k \in Handles, RecvQuit(k) PROVE FreedByItsThread'
    BY <2>26 DEF RecvQuit
  <2>27. ASSUME NEW k \in Handles, RecvMsg(k) PROVE FreedByItsThread'
    BY <2>27 DEF RecvMsg, Late
  <2>28. ASSUME NEW k \in Handles, Enqueue(k) PROVE FreedByItsThread'
    BY <2>28 DEF Enqueue
  <2>29. ASSUME NEW k \in Handles, PeerTakes(k) PROVE FreedByItsThread'
    BY <2>29 DEF PeerTakes
  <2>30. ASSUME NEW k \in Handles, PeerMarks(k) PROVE FreedByItsThread'
    BY <2>30 DEF PeerMarks
  <2>31. CASE UNCHANGED vars
    BY <2>31 DEF vars
  <2>32. QED
    BY <2>1, <2>2, <2>3, <2>4, <2>5, <2>6, <2>7, <2>8, <2>9, <2>10, <2>11,
    <2>12, <2>13, <2>14, <2>15, <2>16, <2>17, <2>18, <2>19, <2>20, <2>21,
    <2>22, <2>23, <2>24, <2>25, <2>26, <2>27, <2>28, <2>29, <2>30, <2>31
    DEF Next, LoadStep, UnloadStep, SendStep, RecvStep
<1>3. QED
  BY <1>1, <1>2, LifecycleTypeCorrect, PhaseCorrect, PTL DEF Spec

-----------------------------------------------------------------------------
(* The threads *)

\* A thread takes at most one message after it was asked to stop: it takes none
\* while it waits, and when it has taken one it looks whether it should stop.
THEOREM LateCorrect == Spec => []StopsAfterOne
<1> USE HandleFacts, ThreadFacts
<1>1. Init => LateInv
  BY DEF Init, LateInv, StopsAfterOne
<1>2. TypeOK /\ LateInv /\ [Next]_vars => LateInv'
  <2> SUFFICES ASSUME TypeOK, LateInv, [Next]_vars PROVE LateInv'
    OBVIOUS
  <2> USE DEF LateInv, StopsAfterOne, TypeOK, loader, queues, threads, Ended
  <2>1. CASE MapDevice
    BY <2>1 DEF MapDevice
  <2>2. CASE MakeQueue
    BY <2>2 DEF MakeQueue, NextHandle, Last
  <2>3. CASE MakeQueueFails
    BY <2>3 DEF MakeQueueFails, Fail
  <2>4. ASSUME NEW k \in Handles, Demo(k) PROVE LateInv'
    BY <2>4 DEF Demo
  <2>5. CASE RingBufferInit
    BY <2>5 DEF RingBufferInit
  <2>6. CASE RingBufferInitFails
    BY <2>6 DEF RingBufferInitFails
  <2>7. CASE StartSend
    BY <2>7 DEF StartSend
  <2>8. CASE StartSendFails
    BY <2>8 DEF StartSendFails, Fail
  <2>9. CASE StartRecv
    BY <2>9 DEF StartRecv, NextHandle, Last
  <2>10. CASE StartRecvFails
    BY <2>10 DEF StartRecvFails
  <2>11. CASE Undone
    BY <2>11 DEF Undone, Fail
  <2>12. CASE Rmmod
    BY <2>12 DEF Rmmod
  <2>13. CASE StopSend
    BY <2>13 DEF StopSend
  <2>14. CASE JoinSend
    BY <2>14 DEF JoinSend
  <2>15. CASE StopRecv
    BY <2>15 DEF StopRecv
  <2>16. CASE JoinRecv
    BY <2>16 DEF JoinRecv, NextHandle, Last
  <2>17. CASE Unmap
    BY <2>17 DEF Unmap
  <2>18. ASSUME NEW k \in Handles, SendBegin(k) PROVE LateInv'
    BY <2>18 DEF SendBegin
  <2>19. ASSUME NEW k \in Handles, SendContinue(k) PROVE LateInv'
    BY <2>19 DEF SendContinue
  <2>20. ASSUME NEW k \in Handles, SendQuit(k) PROVE LateInv'
    BY <2>20 DEF SendQuit
  <2>21. ASSUME NEW k \in Handles, SendFetch(k) PROVE LateInv'
    <3>1. late[<<"send", k>>] = 0
      BY <2>21 DEF SendFetch
    <3>2. \A t \in Threads : late'[t] = IF t = <<"send", k>> /\ t \in asked
                                        THEN 1 ELSE late[t]
      BY <2>21, <3>1 DEF SendFetch, Late
    <3>3. \A j \in Handles : /\ send'[j] = "down" => <<"send", j>> # <<"send", k>>
                             /\ recv'[j] = "poll" => <<"recv", j>> # <<"send", k>>
      BY <2>21 DEF SendFetch
    <3>4. \A j \in Handles : /\ send'[j] = "down" => send[j] = "down"
                             /\ recv'[j] = "poll" => recv[j] = "poll"
      BY <2>21 DEF SendFetch
    <3>5. asked' = asked
      BY <2>21 DEF SendFetch
    <3>6. QED
      BY <3>2, <3>3, <3>4, <3>5
  <2>22. ASSUME NEW k \in Handles, SendMsg(k) PROVE LateInv'
    BY <2>22 DEF SendMsg
  <2>23. ASSUME NEW k \in Handles, SendDone(k) PROVE LateInv'
    BY <2>23 DEF SendDone
  <2>24. ASSUME NEW k \in Handles, RecvBegin(k) PROVE LateInv'
    BY <2>24 DEF RecvBegin
  <2>25. ASSUME NEW k \in Handles, RecvContinue(k) PROVE LateInv'
    BY <2>25 DEF RecvContinue
  <2>26. ASSUME NEW k \in Handles, RecvQuit(k) PROVE LateInv'
    BY <2>26 DEF RecvQuit
  <2>27. ASSUME NEW k \in Handles, RecvMsg(k) PROVE LateInv'
    <3>1. late[<<"recv", k>>] = 0
      BY <2>27 DEF RecvMsg
    <3>2. \A t \in Threads : late'[t] = IF t = <<"recv", k>> /\ t \in asked
                                        THEN 1 ELSE late[t]
      BY <2>27, <3>1 DEF RecvMsg, Late
    <3>3. \A j \in Handles : /\ send'[j] = "down" => <<"send", j>> # <<"recv", k>>
                             /\ recv'[j] = "poll" => <<"recv", j>> # <<"recv", k>>
      BY <2>27 DEF RecvMsg
    <3>4. \A j \in Handles : /\ send'[j] = "down" => send[j] = "down"
                             /\ recv'[j] = "poll" => recv[j] = "poll"
      BY <2>27 DEF RecvMsg
    <3>5. asked' = asked
      BY <2>27 DEF RecvMsg
    <3>6. QED
      BY <3>2, <3>3, <3>4, <3>5
  <2>28. ASSUME NEW k \in Handles, Enqueue(k) PROVE LateInv'
    BY <2>28 DEF Enqueue
  <2>29. ASSUME NEW k \in Handles, PeerTakes(k) PROVE LateInv'
    BY <2>29 DEF PeerTakes
  <2>30. ASSUME NEW k \in Handles, PeerMarks(k) PROVE LateInv'
    BY <2>30 DEF PeerMarks
  <2>31. CASE UNCHANGED vars
    BY <2>31 DEF vars
  <2>32. QED
    BY <2>1, <2>2, <2>3, <2>4, <2>5, <2>6, <2>7, <2>8, <2>9, <2>10, <2>11,
    <2>12, <2>13, <2>14, <2>15, <2>16, <2>17, <2>18, <2>19, <2>20, <2>21,
    <2>22, <2>23, <2>24, <2>25, <2>26, <2>27, <2>28, <2>29, <2>30, <2>31
    DEF Next, LoadStep, UnloadStep, SendStep, RecvStep
<1>3. LateInv => StopsAfterOne
  BY DEF LateInv
<1>4. QED
  BY <1>1, <1>2, <1>3, LifecycleTypeCorrect, PTL DEF Spec
=============================================================================
