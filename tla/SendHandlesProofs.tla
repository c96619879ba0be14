------------------------- MODULE SendHandlesProofs -------------------------
(***************************************************************************)
(* Proofs about SendHandles, for any number of handles, any depth of their *)
(* queues, any callers and any number of calls and demo messages.          *)
(***************************************************************************)
EXTENDS SendHandles, RingIndexProofs

LEMMA HandleFacts ==
  /\ 0 \in Handles /\ Handles \subseteq Nat /\ NUMBER_OF_HANDLES - 1 \in Handles
  /\ \A k \in Handles : k # NUMBER_OF_HANDLES - 1 => k + 1 \in Handles
  /\ \A k \in Handles : k + 1 \in 0 .. NUMBER_OF_HANDLES
  /\ 0 \in 0 .. NUMBER_OF_HANDLES
  /\ 0 \in Slots /\ \A s \in Slots : NextSlot(s) \in Slots
  /\ MAX_SEND_DEPTH \in Nat /\ Inf \in Int
BY HandlesAssumption, DepthAssumption, MaskStays DEF Handles, Slots, Inf

LEMMA ThreadFacts ==
  /\ Loader \in Threads /\ Callers \subseteq Threads
  /\ Loader \notin Callers /\ Nobody \notin Threads
BY ThreadsAssumption DEF Threads

LEMMA LogOne ==
  ASSUME NEW M, NEW f \in [Handles -> Seq(M)], NEW k \in Handles, NEW e \in M
  PROVE  [f EXCEPT ![k] = Append(@, e)] \in [Handles -> Seq(M)]
OBVIOUS

LEMMA LenOne ==
  ASSUME TypeOK, NEW c \in Threads, NEW e,
         accepted' = [accepted EXCEPT ![h[c]] = Append(@, e)]
  PROVE  \A j \in Handles : /\ Len(accepted[j]) \in Nat
                            /\ Len(accepted'[j]) = IF j = h[c] THEN Len(accepted[j]) + 1
                                                               ELSE Len(accepted[j])
<1>1. \A j \in Handles : accepted[j] \in Seq(Msg)
  BY DEF TypeOK
<1>2. h[c] \in Handles
  BY DEF TypeOK
<1>3. accepted \in [Handles -> Seq(Msg)]
  BY DEF TypeOK
<1>4. \A j \in Handles : accepted'[j] = IF j = h[c] THEN Append(accepted[j], e)
                                                    ELSE accepted[j]
  BY <1>2, <1>3
<1>5. \A j \in Handles : /\ Len(accepted[j]) \in Nat
                         /\ Len(Append(accepted[j], e)) = Len(accepted[j]) + 1
  BY <1>1
<1>6. SUFFICES ASSUME NEW j \in Handles
               PROVE  /\ Len(accepted[j]) \in Nat
                      /\ Len(accepted'[j]) = IF j = h[c] THEN Len(accepted[j]) + 1
                                                         ELSE Len(accepted[j])
  OBVIOUS
<1>7. CASE j = h[c]
  BY <1>4, <1>5, <1>7
<1>8. CASE j # h[c]
  BY <1>4, <1>5, <1>8
<1>9. QED
  BY <1>7, <1>8

LEMMA SemFacts ==
  ASSUME NEW f \in [Handles -> Nat], NEW k \in Handles
  PROVE  f[k] + 1 \in Nat /\ (f[k] > 0 => f[k] - 1 \in Nat)
OBVIOUS

-----------------------------------------------------------------------------
(* Types *)

\* A caller inside enq_send has a message.
HeldInv == TypeOK /\ \A c \in Threads : pc[c] # "idle" => msg[c] \in Msg

\* HeldInv holds: enq_send never stores what its caller did not hand over.
LEMMA HeldCorrect == Spec => []HeldInv
<1> USE HandleFacts, ThreadFacts
<1>1. Init => HeldInv
  BY CountsAssumption DEF Init, HeldInv, TypeOK
<1>2. HeldInv /\ [Next]_vars => HeldInv'
  <2> SUFFICES ASSUME HeldInv, [Next]_vars PROVE HeldInv'
    OBVIOUS
  <2> USE DEF HeldInv, TypeOK, Msg, rings, sems, scan, callerVars, sendVars
  <2>1. CASE TestCall
    <3>1. demos' \in Nat
      BY <2>1 DEF TestCall
    <3>2. <<"demo", demos + 1>> \in Msg
      BY <2>1 DEF TestCall
    <3>3. msg' \in [Threads -> Msg \cup {NoMsg}]
      BY <2>1, <3>2 DEF TestCall
    <3>4. pc' \in [Threads -> {"idle", "scan", "down", "lock", "inc", "up"}]
      BY <2>1 DEF TestCall
    <3>5. <<"demo", demos + 1>> \in Msg
      BY <2>1 DEF TestCall
    <3>6. \A d \in Threads : pc'[d] # "idle" => msg'[d] \in Msg
      BY <2>1, <3>5 DEF TestCall
    <3>7. QED
      BY <2>1, <3>1, <3>3, <3>4, <3>6 DEF TestCall
  <2>2. ASSUME NEW k \in Handles, StartHandlers(k) PROVE HeldInv'
    <3>1. started' \in 0 .. NUMBER_OF_HANDLES
      BY <2>2 DEF StartHandlers
    <3>2. spc' \in [Handles -> {"off", "down", "fetch", "up", "loop", "dec", "write"}]
      BY <2>2 DEF StartHandlers
    <3>3. QED
      BY <2>2, <3>1, <3>2 DEF StartHandlers
  <2>3. ASSUME NEW c \in Threads, Call(c) PROVE HeldInv'
    <3>1. calls' \in Nat
      BY <2>3 DEF Call
    <3>2. <<"upper", calls + 1>> \in Msg
      BY <2>3 DEF Call
    <3>3. msg' \in [Threads -> Msg \cup {NoMsg}]
      BY <2>3, <3>2 DEF Call
    <3>4. pc' \in [Threads -> {"idle", "scan", "down", "lock", "inc", "up"}]
      BY <2>3 DEF Call
    <3>5. <<"upper", calls + 1>> \in Msg
      BY <2>3 DEF Call
    <3>6. \A d \in Threads : pc'[d] # "idle" => msg'[d] \in Msg
      BY <2>3, <3>5 DEF Call
    <3>7. QED
      BY <2>3, <3>1, <3>3, <3>4, <3>6 DEF Call
  <2>4. ASSUME NEW c \in Threads, ScanEmpty(c) PROVE HeldInv'
    <3>1. h' \in [Threads -> Handles]
      BY <2>4 DEF ScanEmpty
    <3>2. pc' \in [Threads -> {"idle", "scan", "down", "lock", "inc", "up"}]
      BY <2>4 DEF ScanEmpty
    <3>3. \A d \in Threads : pc'[d] # "idle" => msg'[d] \in Msg
      BY <2>4 DEF ScanEmpty
    <3>4. QED
      BY <2>4, <3>1, <3>2, <3>3 DEF ScanEmpty
  <2>5. ASSUME NEW c \in Threads, ScanNext(c) PROVE HeldInv'
    <3>1. /\ min' \in [Threads -> Handles] /\ mincount' \in [Threads -> Int]
          /\ pc[c] = "scan"
          /\ UNCHANGED <<rings, q_size, sems, q_lock, msg, size, calls, demos, sendVars,
                         accepted>>
      BY <2>5 DEF ScanNext
    <3>2. CASE i[c] = NUMBER_OF_HANDLES - 1
      <4>1. /\ h' = [h EXCEPT ![c] = min'[c]] /\ i' = i
            /\ pc' = [pc EXCEPT ![c] = "down"]
        BY <2>5, <3>2 DEF ScanNext
      <4>2. h' \in [Threads -> Handles]
        BY <3>1, <4>1
      <4>3. QED
        BY <3>1, <4>1, <4>2
    <3>3. CASE i[c] # NUMBER_OF_HANDLES - 1
      <4>1. i' = [i EXCEPT ![c] = @ + 1] /\ UNCHANGED <<h, pc>>
        BY <2>5, <3>3 DEF ScanNext
      <4>2. i[c] + 1 \in Handles
        BY <3>3
      <4>3. i' \in [Threads -> Handles]
        BY <4>1, <4>2
      <4>4. QED
        BY <3>1, <4>1, <4>3
    <3>4. QED
      BY <3>2, <3>3
  <2>6. ASSUME NEW c \in Threads, DownFull(c) PROVE HeldInv'
    <3>1. q_full[h[c]] - 1 \in Nat
      BY <2>6, SemFacts DEF DownFull
    <3>2. q_full' \in [Handles -> Nat]
      BY <2>6, <3>1 DEF DownFull
    <3>3. pc' \in [Threads -> {"idle", "scan", "down", "lock", "inc", "up"}]
      BY <2>6 DEF DownFull
    <3>4. \A d \in Threads : pc'[d] # "idle" => msg'[d] \in Msg
      BY <2>6 DEF DownFull
    <3>5. QED
      BY <2>6, <3>2, <3>3, <3>4 DEF DownFull
  <2>7. ASSUME NEW c \in Threads, EnqStore(c) PROVE HeldInv'
    <3>1. q_lock' \in [Handles -> Threads \cup {Nobody}]
      BY <2>7 DEF EnqStore
    <3>2. msg[c] \in Msg /\ q_tail[h[c]] \in Slots
      BY <2>7 DEF EnqStore
    <3>3. msg_q' \in [Handles -> [Slots -> Msg \cup {NoMsg}]]
      BY <2>7, <3>2 DEF EnqStore
    <3>4. q_tail' \in [Handles -> Slots]
      BY <2>7 DEF EnqStore
    <3>5. size' \in [Threads -> Int]
      BY <2>7 DEF EnqStore
    <3>6. msg[c] \in Msg
      BY <2>7 DEF EnqStore
    <3>7. accepted' \in [Handles -> Seq(Msg)]
      <4>1. accepted' = [accepted EXCEPT ![h[c]] = Append(@, msg[c])]
        BY <2>7 DEF EnqStore
      <4> HIDE DEF Msg
      <4>2. h[c] \in Handles /\ accepted \in [Handles -> Seq(Msg)]
        OBVIOUS
      <4>3. QED
        BY <3>6, <4>1, <4>2, LogOne
    <3>8. pc' \in [Threads -> {"idle", "scan", "down", "lock", "inc", "up"}]
      BY <2>7 DEF EnqStore
    <3>9. \A d \in Threads : pc'[d] # "idle" => msg'[d] \in Msg
      BY <2>7 DEF EnqStore
    <3>10. QED
      BY <2>7, <3>1, <3>3, <3>4, <3>5, <3>7, <3>8, <3>9 DEF EnqStore
  <2>8. ASSUME NEW c \in Threads, EnqInc(c) PROVE HeldInv'
    <3>1. size[c] + 1 \in Int
      BY <2>8 DEF EnqInc
    <3>2. q_size' \in [Handles -> Int]
      BY <2>8, <3>1 DEF EnqInc
    <3>3. q_lock' \in [Handles -> Threads \cup {Nobody}]
      BY <2>8 DEF EnqInc
    <3>4. pc' \in [Threads -> {"idle", "scan", "down", "lock", "inc", "up"}]
      BY <2>8 DEF EnqInc
    <3>5. \A d \in Threads : pc'[d] # "idle" => msg'[d] \in Msg
      BY <2>8 DEF EnqInc
    <3>6. QED
      BY <2>8, <3>2, <3>3, <3>4, <3>5 DEF EnqInc
  <2>9. ASSUME NEW c \in Threads, UpEmpty(c) PROVE HeldInv'
    <3>1. q_empty[h[c]] + 1 \in Nat
      BY <2>9, SemFacts DEF UpEmpty
    <3>2. q_empty' \in [Handles -> Nat]
      BY <2>9, <3>1 DEF UpEmpty
    <3>3. pc' \in [Threads -> {"idle", "scan", "down", "lock", "inc", "up"}]
      BY <2>9 DEF UpEmpty
    <3>4. msg' \in [Threads -> Msg \cup {NoMsg}]
      BY <2>9 DEF UpEmpty
    <3>5. i' \in [Threads -> Handles]
      BY <2>9 DEF UpEmpty
    <3>6. min' \in [Threads -> Handles]
      BY <2>9 DEF UpEmpty
    <3>7. mincount' \in [Threads -> Int]
      BY <2>9 DEF UpEmpty
    <3>8. h' \in [Threads -> Handles]
      BY <2>9 DEF UpEmpty
    <3>9. size' \in [Threads -> Int]
      BY <2>9 DEF UpEmpty
    <3>10. \A d \in Threads : pc'[d] # "idle" => msg'[d] \in Msg
      BY <2>9 DEF UpEmpty
    <3>11. QED
      BY <2>9, <3>2, <3>3, <3>4, <3>5, <3>6, <3>7, <3>8, <3>9, <3>10 DEF UpEmpty
  <2>10. ASSUME NEW k \in Handles, DownEmpty(k) PROVE HeldInv'
    <3>1. q_empty[k] - 1 \in Nat
      BY <2>10, SemFacts DEF DownEmpty
    <3>2. q_empty' \in [Handles -> Nat]
      BY <2>10, <3>1 DEF DownEmpty
    <3>3. spc' \in [Handles -> {"off", "down", "fetch", "up", "loop", "dec", "write"}]
      BY <2>10 DEF DownEmpty
    <3>4. QED
      BY <2>10, <3>2, <3>3 DEF DownEmpty
  <2>11. ASSUME NEW k \in Handles, DeqFetch(k) PROVE HeldInv'
    <3>1. msg_q[k][q_head[k]] \in Msg \cup {NoMsg}
      BY <2>11 DEF DeqFetch
    <3>2. smsg' \in [Handles -> Msg \cup {NoMsg}]
      BY <2>11, <3>1 DEF DeqFetch
    <3>3. q_head' \in [Handles -> Slots]
      BY <2>11 DEF DeqFetch
    <3>4. spc' \in [Handles -> {"off", "down", "fetch", "up", "loop", "dec", "write"}]
      BY <2>11 DEF DeqFetch
    <3>5. taken' \in [Handles -> Seq(Msg \cup {NoMsg})]
      BY <2>11, <3>1, LogOne DEF DeqFetch
    <3>6. QED
      BY <2>11, <3>2, <3>3, <3>4, <3>5 DEF DeqFetch
  <2>12. ASSUME NEW k \in Handles, UpFull(k) PROVE HeldInv'
    <3>1. q_full[k] + 1 \in Nat
      BY <2>12, SemFacts DEF UpFull
    <3>2. q_full' \in [Handles -> Nat]
      BY <2>12, <3>1 DEF UpFull
    <3>3. spc' \in [Handles -> {"off", "down", "fetch", "up", "loop", "dec", "write"}]
      BY <2>12 DEF UpFull
    <3>4. QED
      BY <2>12, <3>2, <3>3 DEF UpFull
  <2>13. ASSUME NEW k \in Handles, LoopSend(k) PROVE HeldInv'
    <3>1. smsg[k] \in Msg \cup {NoMsg}
      BY <2>13 DEF LoopSend
    <3>2. wire' \in [Handles -> Seq(Msg \cup {NoMsg})]
      BY <2>13, <3>1, LogOne DEF LoopSend
    <3>3. spc' \in [Handles -> {"off", "down", "fetch", "up", "loop", "dec", "write"}]
      BY <2>13 DEF LoopSend
    <3>4. QED
      BY <2>13, <3>2, <3>3 DEF LoopSend
  <2>14. ASSUME NEW k \in Handles, DecRead(k) PROVE HeldInv'
    <3>1. ssize' \in [Handles -> Int]
      BY <2>14 DEF DecRead
    <3>2. spc' \in [Handles -> {"off", "down", "fetch", "up", "loop", "dec", "write"}]
      BY <2>14 DEF DecRead
    <3>3. QED
      BY <2>14, <3>1, <3>2 DEF DecRead
  <2>15. ASSUME NEW k \in Handles, DecWrite(k) PROVE HeldInv'
    <3>1. ssize[k] - 1 \in Int
      BY SMTT(30), <2>15 DEF DecWrite
    <3>2. q_size' \in [Handles -> Int]
      BY <2>15, <3>1 DEF DecWrite
    <3>3. ssize' \in [Handles -> Int]
      BY <2>15 DEF DecWrite
    <3>4. spc' \in [Handles -> {"off", "down", "fetch", "up", "loop", "dec", "write"}]
      BY <2>15 DEF DecWrite
    <3>5. QED
      BY <2>15, <3>2, <3>3, <3>4 DEF DecWrite
  <2>16. ASSUME NEW k \in Handles, LoopEnd(k) PROVE HeldInv'
    <3>1. smsg' \in [Handles -> Msg \cup {NoMsg}]
      BY <2>16 DEF LoopEnd
    <3>2. spc' \in [Handles -> {"off", "down", "fetch", "up", "loop", "dec", "write"}]
      BY <2>16 DEF LoopEnd
    <3>3. QED
      BY <2>16, <3>1, <3>2 DEF LoopEnd
  <2>17. CASE UNCHANGED vars
    BY <2>17 DEF vars
  <2>18. QED
    BY <2>1, <2>2, <2>3, <2>4, <2>5, <2>6, <2>7, <2>8, <2>9, <2>10, <2>11,
    <2>12, <2>13, <2>14, <2>15, <2>16, <2>17
    DEF Next, LoadStep, CallerStep, SendStep, Rest
<1>3. QED
  BY <1>1, <1>2, PTL DEF Spec

\* Every variable keeps its type: find_low_queue looks at handles there are,
\* and no semaphore goes below zero.
THEOREM HandlesTypeCorrect == Spec => []TypeOK
<1>1. HeldInv => TypeOK
  BY DEF HeldInv
<1>2. QED
  BY <1>1, HeldCorrect, PTL

-----------------------------------------------------------------------------
(* The counter q_size *)

\* What both sides of a race have read is a value that the counter may have, and
\* while the send thread is between its test and its update it stays positive.
CounterInv ==
  /\ SizeBounded
  /\ \A c \in Threads : pc[c] = "inc" =>
        0 <= size[c] /\ size[c] + 1 <= Len(accepted[h[c]])
  /\ \A k \in Handles :
        /\ spc[k] = "dec" => q_size[k] > 0
        /\ spc[k] = "write" => 1 <= ssize[k] /\ ssize[k] <= Len(accepted[k])

\* CounterInv holds, in any race of the callers and the send thread.
LEMMA CounterCorrect == Spec => []CounterInv
<1> USE HandleFacts, ThreadFacts
<1>1. Init => CounterInv
  BY DEF Init, CounterInv, SizeBounded
<1>2. TypeOK /\ CounterInv /\ [Next]_vars => CounterInv'
  <2> SUFFICES ASSUME TypeOK, CounterInv, [Next]_vars PROVE CounterInv'
    OBVIOUS
  <2>1. CASE TestCall
    BY <2>1 DEF TestCall, CounterInv, SizeBounded, TypeOK,
       rings, sems, scan, callerVars, sendVars
  <2>2. ASSUME NEW k \in Handles, StartHandlers(k) PROVE CounterInv'
    BY <2>2 DEF StartHandlers, CounterInv, SizeBounded, TypeOK,
       rings, sems, scan, callerVars, sendVars
  <2>3. ASSUME NEW c \in Threads, Call(c) PROVE CounterInv'
    BY <2>3 DEF Call, CounterInv, SizeBounded, TypeOK,
       rings, sems, scan, callerVars, sendVars
  <2>4. ASSUME NEW c \in Threads, ScanEmpty(c) PROVE CounterInv'
    BY <2>4 DEF ScanEmpty, CounterInv, SizeBounded, TypeOK,
       rings, sems, scan, callerVars, sendVars
  <2>5. ASSUME NEW c \in Threads, ScanNext(c) PROVE CounterInv'
    BY <2>5 DEF ScanNext, CounterInv, SizeBounded, TypeOK,
       rings, sems, scan, callerVars, sendVars
  <2>6. ASSUME NEW c \in Threads, DownFull(c) PROVE CounterInv'
    BY <2>6 DEF DownFull, CounterInv, SizeBounded, TypeOK,
       rings, sems, scan, callerVars, sendVars
  <2>7. ASSUME NEW c \in Threads, EnqStore(c) PROVE CounterInv'
    <3>1. /\ \A d \in Threads : pc'[d] = IF d = c THEN "inc" ELSE pc[d]
          /\ \A d \in Threads : size'[d] = IF d = c THEN q_size[h[c]] ELSE size[d]
          /\ UNCHANGED <<h, q_size, spc, ssize>>
      BY <2>7 DEF EnqStore, TypeOK, rings, sems, scan, callerVars, sendVars
    <3>2. accepted' = [accepted EXCEPT ![h[c]] = Append(@, msg[c])]
      BY <2>7 DEF EnqStore, TypeOK, rings, sems, scan, callerVars, sendVars
    <3>3. \A j \in Handles : /\ Len(accepted[j]) \in Nat
                             /\ Len(accepted'[j]) = IF j = h[c] THEN Len(accepted[j]) + 1
                                                                ELSE Len(accepted[j])
      BY <3>2, LenOne
    <3>4. \A j \in Handles : q_size[j] \in Int /\ ssize[j] \in Int
      BY DEF TypeOK
    <3>5. \A d \in Threads : h[d] \in Handles /\ size[d] \in Int
      BY DEF TypeOK
    <3>6. SizeBounded'
      BY SMTT(30), <3>1, <3>3, <3>4 DEF CounterInv, SizeBounded
    <3>7. \A d \in Threads : pc'[d] = "inc" =>
             0 <= size'[d] /\ size'[d] + 1 <= Len(accepted'[h'[d]])
      <4>1. SUFFICES ASSUME NEW d \in Threads, pc'[d] = "inc"
                     PROVE  0 <= size'[d] /\ size'[d] + 1 <= Len(accepted'[h'[d]])
        OBVIOUS
      <4>2. CASE d = c
        <5>1. 0 <= q_size[h[c]] /\ q_size[h[c]] <= Len(accepted[h[c]])
          BY <3>5 DEF CounterInv, SizeBounded
        <5>2. size'[d] = q_size[h[c]] /\ h'[d] = h[c] /\ h[c] \in Handles
          BY <3>1, <3>5, <4>2
        <5>3. Len(accepted'[h[c]]) = Len(accepted[h[c]]) + 1
          BY <3>3, <5>2
        <5>4. q_size[h[c]] \in Int /\ Len(accepted[h[c]]) \in Nat
          BY <3>3, <3>4, <5>2
        <5>5. QED
          BY <5>1, <5>2, <5>3, <5>4
      <4>3. CASE d # c
        <5>1. pc[d] = "inc" /\ size'[d] = size[d] /\ h' = h
          BY <3>1, <4>1, <4>3
        <5>2. 0 <= size[d] /\ size[d] + 1 <= Len(accepted[h[d]])
          BY <5>1 DEF CounterInv
        <5>3. h[d] \in Handles /\ size[d] \in Int /\ h'[d] = h[d]
          BY <3>5, <5>1
        <5>4. Len(accepted[h[d]]) \in Nat
          BY <3>3, <5>3
        <5>5. \/ Len(accepted'[h[d]]) = Len(accepted[h[d]])
              \/ Len(accepted'[h[d]]) = Len(accepted[h[d]]) + 1
          BY <3>3, <5>3
        <5>6. QED
          BY <5>1, <5>2, <5>3, <5>4, <5>5
      <4>4. QED
        BY <4>2, <4>3
    <3>8. \A j \in Handles :
             /\ spc'[j] = "dec" => q_size'[j] > 0
             /\ spc'[j] = "write" => 1 <= ssize'[j] /\ ssize'[j] <= Len(accepted'[j])
      <4>1. TAKE j \in Handles
      <4>2. /\ spc[j] = "dec" => q_size[j] > 0
            /\ spc[j] = "write" => 1 <= ssize[j] /\ ssize[j] <= Len(accepted[j])
        BY DEF CounterInv
      <4>3. spc'[j] = spc[j] /\ q_size'[j] = q_size[j] /\ ssize'[j] = ssize[j]
        BY <3>1
      <4>4. ssize[j] \in Int /\ Len(accepted[j]) \in Nat
            /\ (\/ Len(accepted'[j]) = Len(accepted[j])
                \/ Len(accepted'[j]) = Len(accepted[j]) + 1)
        BY <3>3, <3>4
      <4>5. QED
        BY <4>2, <4>3, <4>4
    <3>9. QED
      BY <3>6, <3>7, <3>8 DEF CounterInv, SizeBounded
  <2>8. ASSUME NEW c \in Threads, EnqInc(c) PROVE CounterInv'
    <3>1. /\ pc[c] = "inc" /\ h[c] \in Handles /\ size[c] \in Int
          /\ \A d \in Threads : pc'[d] = IF d = c THEN "up" ELSE pc[d]
          /\ \A j \in Handles : q_size'[j] = IF j = h[c] THEN size[c] + 1 ELSE q_size[j]
          /\ UNCHANGED <<h, size, spc, ssize, accepted>>
      BY <2>8 DEF EnqInc, TypeOK, rings, sems, scan, callerVars, sendVars
    <3>2. \A j \in Handles : Len(accepted[j]) \in Nat /\ q_size[j] \in Int
      BY DEF TypeOK
    <3>3. 0 <= size[c] + 1 /\ size[c] + 1 <= Len(accepted[h[c]])
      BY <3>1, <3>2 DEF CounterInv
    <3>4. SizeBounded'
      BY <3>1, <3>3 DEF CounterInv, SizeBounded
    <3>5. \A d \in Threads : pc'[d] = "inc" =>
             0 <= size'[d] /\ size'[d] + 1 <= Len(accepted'[h'[d]])
      BY <3>1, <3>2 DEF CounterInv, SizeBounded
    <3>6. \A j \in Handles :
             /\ spc'[j] = "dec" => q_size'[j] > 0
             /\ spc'[j] = "write" => 1 <= ssize'[j] /\ ssize'[j] <= Len(accepted'[j])
      <4>1. TAKE j \in Handles
      <4>2. /\ spc[j] = "dec" => q_size[j] > 0
            /\ spc[j] = "write" => 1 <= ssize[j] /\ ssize[j] <= Len(accepted[j])
            /\ 0 <= q_size[j] /\ q_size[j] <= Len(accepted[j])
        BY DEF CounterInv, SizeBounded
      <4>3. q_size[j] \in Int /\ Len(accepted[j]) \in Nat
        BY <3>2
      <4>4. /\ spc'[j] = spc[j] /\ ssize'[j] = ssize[j] /\ accepted'[j] = accepted[j]
            /\ q_size'[j] = q_size[j] \/ q_size'[j] = size[c] + 1
        BY <3>1
      <4>5. size[c] \in Int /\ 0 <= size[c]
        BY <3>1 DEF CounterInv
      <4>6. QED
        BY <4>2, <4>3, <4>4, <4>5
    <3>7. QED
      BY <3>4, <3>5, <3>6 DEF CounterInv
  <2>9. ASSUME NEW c \in Threads, UpEmpty(c) PROVE CounterInv'
    BY <2>9 DEF UpEmpty, CounterInv, SizeBounded, TypeOK,
       rings, sems, scan, callerVars, sendVars
  <2>10. ASSUME NEW k \in Handles, DownEmpty(k) PROVE CounterInv'
    BY <2>10 DEF DownEmpty, CounterInv, SizeBounded, TypeOK,
       rings, sems, scan, callerVars, sendVars
  <2>11. ASSUME NEW k \in Handles, DeqFetch(k) PROVE CounterInv'
    BY <2>11 DEF DeqFetch, CounterInv, SizeBounded, TypeOK,
       rings, sems, scan, callerVars, sendVars
  <2>12. ASSUME NEW k \in Handles, UpFull(k) PROVE CounterInv'
    BY <2>12 DEF UpFull, CounterInv, SizeBounded, TypeOK,
       rings, sems, scan, callerVars, sendVars
  <2>13. ASSUME NEW k \in Handles, LoopSend(k) PROVE CounterInv'
    BY <2>13 DEF LoopSend, CounterInv, SizeBounded, TypeOK,
       rings, sems, scan, callerVars, sendVars
  <2>14. ASSUME NEW k \in Handles, DecRead(k) PROVE CounterInv'
    <3>1. /\ spc[k] = "dec"
          /\ \A j \in Handles : spc'[j] = IF j = k THEN "write" ELSE spc[j]
          /\ \A j \in Handles : ssize'[j] = IF j = k THEN q_size[k] ELSE ssize[j]
          /\ UNCHANGED <<h, size, pc, q_size, accepted>>
      BY <2>14 DEF DecRead, TypeOK, rings, sems, scan, callerVars, sendVars
    <3>2. \A j \in Handles : Len(accepted[j]) \in Nat /\ q_size[j] \in Int
      BY DEF TypeOK
    <3>3. SizeBounded'
      BY <3>1, <3>2 DEF CounterInv, SizeBounded
    <3>4. \A d \in Threads : pc'[d] = "inc" =>
             0 <= size'[d] /\ size'[d] + 1 <= Len(accepted'[h'[d]])
      BY <3>1, <3>2 DEF CounterInv, SizeBounded
    <3>5. \A j \in Handles :
             /\ spc'[j] = "dec" => q_size'[j] > 0
             /\ spc'[j] = "write" => 1 <= ssize'[j] /\ ssize'[j] <= Len(accepted'[j])
      <4>1. TAKE j \in Handles
      <4>2. /\ spc[j] = "dec" => q_size[j] > 0
            /\ spc[j] = "write" => 1 <= ssize[j] /\ ssize[j] <= Len(accepted[j])
            /\ 0 <= q_size[j] /\ q_size[j] <= Len(accepted[j])
        BY DEF CounterInv, SizeBounded
      <4>3. q_size[j] \in Int /\ Len(accepted[j]) \in Nat
        BY <3>2
      <4>4. /\ q_size'[j] = q_size[j] /\ accepted'[j] = accepted[j]
            /\ spc'[j] = IF j = k THEN "write" ELSE spc[j]
            /\ ssize'[j] = IF j = k THEN q_size[k] ELSE ssize[j]
        BY <3>1
      <4>5. CASE j = k
        <5>1. q_size[j] > 0
          BY <3>1, <4>2, <4>5
        <5>2. QED
          BY <4>2, <4>3, <4>4, <4>5, <5>1
      <4>6. CASE j # k
        BY <4>2, <4>4, <4>6
      <4>7. QED
        BY <4>5, <4>6
    <3>6. QED
      BY <3>3, <3>4, <3>5 DEF CounterInv
  <2>15. ASSUME NEW k \in Handles, DecWrite(k) PROVE CounterInv'
    <3>1. /\ spc[k] = "write" /\ ssize[k] \in Int
          /\ \A j \in Handles : spc'[j] = IF j = k THEN "loop" ELSE spc[j]
          /\ \A j \in Handles : ssize'[j] = IF j = k THEN 0 ELSE ssize[j]
          /\ \A j \in Handles : q_size'[j] = IF j = k THEN ssize[k] - 1 ELSE q_size[j]
          /\ UNCHANGED <<h, size, pc, accepted>>
      BY <2>15 DEF DecWrite, TypeOK, rings, sems, scan, callerVars, sendVars
    <3>2. \A j \in Handles : Len(accepted[j]) \in Nat /\ q_size[j] \in Int
      BY DEF TypeOK
    <3>3. SizeBounded'
      <4>1. /\ ssize[k] \in Int /\ 1 <= ssize[k] /\ ssize[k] <= Len(accepted[k])
            /\ Len(accepted[k]) \in Nat
        BY <3>1, <3>2 DEF CounterInv
      <4>2. ASSUME NEW j \in Handles
            PROVE  0 <= q_size'[j] /\ q_size'[j] <= Len(accepted'[j])
        <5>1. /\ accepted'[j] = accepted[j]
              /\ q_size'[j] = IF j = k THEN ssize[k] - 1 ELSE q_size[j]
          BY <3>1
        <5>2. 0 <= q_size[j] /\ q_size[j] <= Len(accepted[j])
          BY DEF CounterInv, SizeBounded
        <5>3. QED
          BY <4>1, <5>1, <5>2
      <4>3. QED
        BY <4>2 DEF SizeBounded
    <3>4. \A d \in Threads : pc'[d] = "inc" =>
             0 <= size'[d] /\ size'[d] + 1 <= Len(accepted'[h'[d]])
      BY <3>1, <3>2 DEF CounterInv, SizeBounded
    <3>5. \A j \in Handles :
             /\ spc'[j] = "dec" => q_size'[j] > 0
             /\ spc'[j] = "write" => 1 <= ssize'[j] /\ ssize'[j] <= Len(accepted'[j])
      <4>1. TAKE j \in Handles
      <4>2. /\ spc[j] = "dec" => q_size[j] > 0
            /\ spc[j] = "write" => 1 <= ssize[j] /\ ssize[j] <= Len(accepted[j])
            /\ 0 <= q_size[j] /\ q_size[j] <= Len(accepted[j])
        BY DEF CounterInv, SizeBounded
      <4>3. q_size[j] \in Int /\ Len(accepted[j]) \in Nat
        BY <3>2
      <4>4. /\ accepted'[j] = accepted[j]
            /\ spc'[j] = IF j = k THEN "loop" ELSE spc[j]
            /\ j # k => ssize'[j] = ssize[j] /\ q_size'[j] = q_size[j]
        BY <3>1
      <4>5. CASE j = k
        BY <4>4, <4>5
      <4>6. CASE j # k
        BY <4>2, <4>4, <4>6
      <4>7. QED
        BY <4>5, <4>6
    <3>6. QED
      BY <3>3, <3>4, <3>5 DEF CounterInv
  <2>16. ASSUME NEW k \in Handles, LoopEnd(k) PROVE CounterInv'
    BY <2>16 DEF LoopEnd, CounterInv, SizeBounded, TypeOK,
       rings, sems, scan, callerVars, sendVars
  <2>17. CASE UNCHANGED vars
    BY <2>17 DEF vars, CounterInv, SizeBounded
  <2>18. QED
    BY <2>1, <2>2, <2>3, <2>4, <2>5, <2>6, <2>7, <2>8, <2>9, <2>10, <2>11,
    <2>12, <2>13, <2>14, <2>15, <2>16, <2>17
    DEF Next, LoadStep, CallerStep, SendStep, Rest
<1>3. QED
  BY <1>1, <1>2, HandlesTypeCorrect, PTL DEF Spec

\* However the updates of q_size race, it stays between zero and the number of
\* messages that were stored.
THEOREM SizeCorrect == Spec => []SizeBounded
<1>1. CounterInv => SizeBounded
  BY DEF CounterInv
<1>2. QED
  BY <1>1, CounterCorrect, PTL

\* A counter that is left positive has its thread woken, before it first sleeps
\* as well.
OwedInv ==
  /\ \A k \in Handles : k >= started => spc[k] = "off"
  /\ \A k \in Handles : (spc[k] \in {"off", "down"} /\ q_size[k] > 0)
       => q_empty[k] > 0 \/ \E c \in Threads : pc[c] = "up" /\ h[c] = k

\* OwedInv holds, in any order of the starts and of the updates of the counter.
LEMMA OwedHolds == Spec => []OwedInv
<1> USE HandleFacts, ThreadFacts
<1>1. Init => OwedInv
  BY DEF Init, OwedInv
<1>2. TypeOK /\ OwedInv /\ [Next]_vars => OwedInv'
  <2> SUFFICES ASSUME TypeOK, OwedInv, [Next]_vars PROVE OwedInv'
    OBVIOUS
  <2>1. CASE TestCall
    BY <2>1 DEF TestCall, OwedInv, TypeOK, rings, sems, scan, callerVars, sendVars
  <2>2. ASSUME NEW k \in Handles, StartHandlers(k) PROVE OwedInv'
    <3>1. /\ k = started /\ started' = started + 1 /\ started \in Nat
          /\ \A j \in Handles : spc'[j] = IF j = k THEN "down" ELSE spc[j]
          /\ UNCHANGED <<q_size, q_empty, pc, h>>
      BY <2>2 DEF StartHandlers, TypeOK, rings, sems, scan, callerVars, sendVars
    <3>2. \A j \in Handles : j >= started + 1 => j >= started /\ j # started
      BY <3>1 DEF TypeOK
    <3>3. started \in Nat /\ \A j \in Handles : j \in Nat
      BY <3>1, HandleFacts
    <3>4. \A j \in Handles : j >= started' => spc'[j] = "off"
      BY <3>1, <3>2 DEF OwedInv
    <3>5. spc[k] = "off"
      BY <3>1, <3>3 DEF OwedInv
    <3>6. \A j \in Handles : spc'[j] \in {"off", "down"} => spc[j] \in {"off", "down"}
      BY <3>1, <3>5
    <3>7. QED
      BY <3>1, <3>4, <3>6 DEF OwedInv
  <2>3. ASSUME NEW c \in Threads, Call(c) PROVE OwedInv'
    BY <2>3 DEF Call, OwedInv, TypeOK, rings, sems, scan, callerVars, sendVars
  <2>4. ASSUME NEW c \in Threads, ScanEmpty(c) PROVE OwedInv'
    BY <2>4 DEF ScanEmpty, OwedInv, TypeOK, rings, sems, scan, callerVars, sendVars
  <2>5. ASSUME NEW c \in Threads, ScanNext(c) PROVE OwedInv'
    <3>1. /\ \A d \in Threads : d # c => pc'[d] = pc[d] /\ h'[d] = h[d]
          /\ pc[c] = "scan"
          /\ UNCHANGED <<q_size, q_empty, spc, started>>
      BY <2>5 DEF ScanNext, TypeOK, rings, sems, scan, callerVars, sendVars
    <3>2. \A j \in Handles : j >= started' => spc'[j] = "off"
      BY <3>1 DEF OwedInv
    <3>3. ASSUME NEW j \in Handles, spc'[j] \in {"off", "down"}, q_size'[j] > 0
          PROVE  q_empty'[j] > 0 \/ \E d \in Threads : pc'[d] = "up" /\ h'[d] = j
      <4>1. q_empty[j] > 0 \/ \E d \in Threads : pc[d] = "up" /\ h[d] = j
        BY <3>1, <3>3 DEF OwedInv
      <4>2. ASSUME NEW d \in Threads, pc[d] = "up", h[d] = j
            PROVE  pc'[d] = "up" /\ h'[d] = j
        BY <3>1, <4>2
      <4>3. QED
        BY <3>1, <4>1, <4>2
    <3>4. QED
      BY <3>2, <3>3 DEF OwedInv
  <2>6. ASSUME NEW c \in Threads, DownFull(c) PROVE OwedInv'
    BY <2>6 DEF DownFull, OwedInv, TypeOK, rings, sems, scan, callerVars, sendVars
  <2>7. ASSUME NEW c \in Threads, EnqStore(c) PROVE OwedInv'
    BY <2>7 DEF EnqStore, OwedInv, TypeOK, rings, sems, scan, callerVars, sendVars
  <2>8. ASSUME NEW c \in Threads, EnqInc(c) PROVE OwedInv'
    BY SMTT(30), <2>8 DEF EnqInc, OwedInv, TypeOK, rings, sems, scan, callerVars, sendVars
  <2>9. ASSUME NEW c \in Threads, UpEmpty(c) PROVE OwedInv'
    <3>1. /\ \A d \in Threads : d # c => pc'[d] = pc[d] /\ h'[d] = h[d]
          /\ h[c] \in Handles
          /\ \A j \in Handles : q_empty'[j] = IF j = h[c] THEN q_empty[j] + 1 ELSE q_empty[j]
          /\ UNCHANGED <<q_size, spc, started>>
      BY <2>9 DEF UpEmpty, TypeOK, rings, sems, scan, callerVars, sendVars
    <3>2. \A j \in Handles : q_empty[j] \in Nat
      BY DEF TypeOK
    <3>3. QED
      <4>1. \A j \in Handles : j >= started' => spc'[j] = "off"
        BY <3>1 DEF OwedInv
      <4>2. ASSUME NEW j \in Handles, spc'[j] \in {"off", "down"}, q_size'[j] > 0
            PROVE  q_empty'[j] > 0 \/ \E d \in Threads : pc'[d] = "up" /\ h'[d] = j
        <5>1. CASE j = h[c]
          BY <3>1, <3>2, <5>1
        <5>2. CASE j # h[c]
          <6>1. q_empty[j] > 0 \/ \E d \in Threads : pc[d] = "up" /\ h[d] = j
            BY <3>1, <4>2 DEF OwedInv
          <6>2. CASE q_empty[j] > 0
            BY <3>1, <5>2, <6>2
          <6>3. ASSUME NEW d \in Threads, pc[d] = "up", h[d] = j
                PROVE  pc'[d] = "up" /\ h'[d] = j
            BY <3>1, <5>2, <6>3
          <6>4. QED
            BY <6>1, <6>2, <6>3
        <5>3. QED
          BY <5>1, <5>2
      <4>3. QED
        BY <4>1, <4>2 DEF OwedInv
  <2>10. ASSUME NEW k \in Handles, DownEmpty(k) PROVE OwedInv'
    BY <2>10 DEF DownEmpty, OwedInv, TypeOK, rings, sems, scan, callerVars, sendVars
  <2>11. ASSUME NEW k \in Handles, DeqFetch(k) PROVE OwedInv'
    BY <2>11 DEF DeqFetch, OwedInv, TypeOK, rings, sems, scan, callerVars, sendVars
  <2>12. ASSUME NEW k \in Handles, UpFull(k) PROVE OwedInv'
    BY <2>12 DEF UpFull, OwedInv, TypeOK, rings, sems, scan, callerVars, sendVars
  <2>13. ASSUME NEW k \in Handles, LoopSend(k) PROVE OwedInv'
    BY <2>13 DEF LoopSend, OwedInv, TypeOK, rings, sems, scan, callerVars, sendVars
  <2>14. ASSUME NEW k \in Handles, DecRead(k) PROVE OwedInv'
    BY <2>14 DEF DecRead, OwedInv, TypeOK, rings, sems, scan, callerVars, sendVars
  <2>15. ASSUME NEW k \in Handles, DecWrite(k) PROVE OwedInv'
    BY <2>15 DEF DecWrite, OwedInv, TypeOK, rings, sems, scan, callerVars, sendVars
  <2>16. ASSUME NEW k \in Handles, LoopEnd(k) PROVE OwedInv'
    <3>1. /\ spc[k] = "loop" /\ q_size[k] <= 0 /\ q_size[k] \in Int
          /\ \A j \in Handles : spc'[j] = IF j = k THEN "down" ELSE spc[j]
          /\ UNCHANGED <<q_size, q_empty, pc, h, started>>
      BY <2>16 DEF LoopEnd, TypeOK, rings, sems, scan, callerVars, sendVars
    <3>2. spc[k] # "off" /\ ~(q_size[k] > 0)
      BY <3>1
    <3>3. \A j \in Handles : j >= started' => spc'[j] = "off"
      BY <3>1, <3>2 DEF OwedInv
    <3>4. ASSUME NEW j \in Handles, spc'[j] \in {"off", "down"}, q_size'[j] > 0
          PROVE  q_empty'[j] > 0 \/ \E d \in Threads : pc'[d] = "up" /\ h'[d] = j
      <4>1. j # k /\ spc[j] = spc'[j]
        BY <3>1, <3>2, <3>4
      <4>2. QED
        BY <3>1, <3>4, <4>1 DEF OwedInv
    <3>5. QED
      BY <3>3, <3>4 DEF OwedInv
  <2>17. CASE UNCHANGED vars
    BY <2>17 DEF vars, OwedInv
  <2>18. QED
    BY <2>1, <2>2, <2>3, <2>4, <2>5, <2>6, <2>7, <2>8, <2>9, <2>10, <2>11,
    <2>12, <2>13, <2>14, <2>15, <2>16, <2>17
    DEF Next, LoadStep, CallerStep, SendStep, Rest
<1>3. QED
  BY <1>1, <1>2, HandlesTypeCorrect, PTL DEF Spec

\* A send thread that sleeps on q_empty with a positive counter is being
\* woken.
THEOREM OwedCorrect == Spec => []SizeIsOwed
<1>1. OwedInv => SizeIsOwed
  BY DEF OwedInv, SizeIsOwed
<1>2. QED
  BY <1>1, OwedHolds, PTL

-----------------------------------------------------------------------------
(* find_low_queue, while only test_func sends *)

Quiet == calls = 0 /\ started = 0

\* Nobody else is at work,
Alone == (\A c \in Callers : pc[c] = "idle") /\ \A k \in Handles : spc[k] = "off"

\* the counters are the numbers of messages, and with the room they make the depth,
SizesCount ==
  \A k \in Handles :
    q_size[k] = IF pc[Loader] = "inc" /\ h[Loader] = k THEN Len(accepted[k]) - 1
                                                      ELSE Len(accepted[k])
RoomLeft ==
  \A k \in Handles :
    Len(accepted[k]) + q_full[k] = IF pc[Loader] = "lock" /\ h[Loader] = k
                                   THEN MAX_SEND_DEPTH - 1 ELSE MAX_SEND_DEPTH

\* the scan has the lowest counter of those it has passed,
ScanLowest ==
  /\ pc[Loader] = "idle" => i[Loader] = 0 /\ mincount[Loader] = Inf /\ min[Loader] = 0
  /\ pc[Loader] = "scan" =>
       IF i[Loader] = 0 THEN mincount[Loader] = Inf /\ min[Loader] = 0
       ELSE /\ mincount[Loader] = q_size[min[Loader]]
            /\ \A j \in Handles : j < i[Loader] => mincount[Loader] <= q_size[j]

\* and the message is stored where the fewest are.
PickLowest ==
  /\ pc[Loader] = "inc" => size[Loader] = q_size[h[Loader]]
  /\ pc[Loader] \in {"down", "lock"} =>
       \A j \in Handles : Len(accepted[h[Loader]]) <= Len(accepted[j])
Even == \A k1, k2 \in Handles : Len(accepted[k1]) <= Len(accepted[k2]) + 1

BalanceInv ==
  Quiet => Alone /\ SizesCount /\ RoomLeft /\ ScanLowest /\ PickLowest /\ Even

LEMMA HandleNext ==
  ASSUME NEW x \in Handles, NEW j \in Handles
  PROVE  /\ x + 1 # 0
         /\ j < x + 1 => j = x \/ j < x
         /\ x = NUMBER_OF_HANDLES - 1 => j < x + 1
BY HandlesAssumption DEF Handles

LEMMA CountTheStored ==
  ASSUME NEW a \in Nat, NEW b \in Nat, NEW q \in Nat
  PROVE  /\ a + q = MAX_SEND_DEPTH => a + (q - 1) = MAX_SEND_DEPTH - 1
         /\ a + q = MAX_SEND_DEPTH - 1 => (a + 1) + q = MAX_SEND_DEPTH
         /\ a = b => a = (b + 1) - 1
         /\ a <= b => a + 1 <= b + 1
         /\ a <= b + 1 => a <= (b + 1) + 1
BY DepthAssumption

\* As long as only test_func sends and no send thread runs, find_low_queue
\* spreads its messages evenly: two queues differ by one message at most, if
\* the depth is not above the 10000 that find_low_queue starts from.
THEOREM BalancedCorrect == ASSUME MAX_SEND_DEPTH <= Inf PROVE Spec => []Balanced
<1> USE HandleFacts, ThreadFacts
<1>1. Init => BalanceInv
  BY DEF Init, BalanceInv, Quiet, Alone, SizesCount, RoomLeft, ScanLowest, PickLowest, Even
<1>2. TypeOK /\ BalanceInv /\ [Next]_vars => BalanceInv'
  <2> SUFFICES ASSUME TypeOK, BalanceInv, [Next]_vars PROVE BalanceInv'
    OBVIOUS
  <2>1. CASE TestCall
    <3>1. /\ \A d \in Threads : pc'[d] = IF d = Loader THEN "scan" ELSE pc[d]
          /\ pc[Loader] = "idle"
          /\ UNCHANGED <<calls, started, i, min, mincount, h, size, spc, q_size, q_full,
                         accepted>>
      BY <2>1 DEF TestCall, TypeOK, sems, scan, sendVars
    <3>2. QED
      BY <3>1 DEF BalanceInv, Quiet, Alone, SizesCount, RoomLeft, ScanLowest,
         PickLowest, Even
  <2>2. ASSUME NEW k \in Handles, StartHandlers(k) PROVE BalanceInv'
    <3>1. started + 1 # 0
      BY DEF TypeOK
    <3>2. QED
      BY <2>2, <3>1 DEF StartHandlers, BalanceInv, Quiet
  <2>3. ASSUME NEW c \in Threads, Call(c) PROVE BalanceInv'
    <3>1. calls + 1 # 0
      BY DEF TypeOK
    <3>2. QED
      BY <2>3, <3>1 DEF Call, BalanceInv, Quiet
  <2>4. ASSUME NEW c \in Threads, ScanEmpty(c) PROVE BalanceInv'
    <3>1. UNCHANGED <<calls, started>>
      BY <2>4 DEF ScanEmpty, sendVars
    <3>2. SUFFICES ASSUME Quiet PROVE BalanceInv'
      BY <3>1 DEF BalanceInv, Quiet
    <3>3. c = Loader /\ pc[Loader] = "scan"
      BY <2>4, <3>2 DEF ScanEmpty, BalanceInv, Alone, Threads
    <3>4. \A k \in Handles : Len(accepted[k]) \in Nat
      BY DEF TypeOK
    <3>5. \A k \in Handles : q_full[k] \in Nat /\ q_size[k] \in Int
      BY DEF TypeOK
    <3>6. h[Loader] \in Handles /\ i[Loader] \in Handles /\ min[Loader] \in Handles
      BY DEF TypeOK
    <3>7. mincount[Loader] \in Int
      BY DEF TypeOK
    <3> USE DEF Alone, SizesCount, RoomLeft, ScanLowest, PickLowest, Even
    <3>8. /\ \A d \in Threads : pc'[d] = IF d = Loader THEN "down" ELSE pc[d]
          /\ h'[Loader] = i[Loader] /\ q_size[i[Loader]] = 0
          /\ UNCHANGED <<i, min, mincount, size, spc, q_size, q_full, accepted>>
      BY <2>4, <3>3 DEF ScanEmpty, TypeOK, sems, scan, sendVars
    <3>9. Len(accepted[i[Loader]]) = 0
      BY <3>2, <3>3, <3>6, <3>8 DEF BalanceInv
    <3>10. QED
      BY <3>2, <3>3, <3>4, <3>6, <3>8, <3>9 DEF BalanceInv
  <2>5. ASSUME NEW c \in Threads, ScanNext(c) PROVE BalanceInv'
    <3>1. UNCHANGED <<calls, started>>
      BY <2>5 DEF ScanNext, sendVars
    <3>2. SUFFICES ASSUME Quiet PROVE BalanceInv'
      BY <3>1 DEF BalanceInv, Quiet
    <3>3. c = Loader /\ pc[Loader] = "scan"
      BY <2>5, <3>2 DEF ScanNext, BalanceInv, Alone, Threads
    <3>4. \A k \in Handles : Len(accepted[k]) \in Nat
      BY DEF TypeOK
    <3>5. \A k \in Handles : q_full[k] \in Nat /\ q_size[k] \in Int
      BY DEF TypeOK
    <3>6. h[Loader] \in Handles /\ i[Loader] \in Handles /\ min[Loader] \in Handles
      BY DEF TypeOK
    <3>7. mincount[Loader] \in Int
      BY DEF TypeOK
    <3> USE DEF Alone, SizesCount, RoomLeft, ScanLowest, PickLowest, Even
    <3> DEFINE x == i[Loader]
               better == q_size[x] < mincount[Loader]
    <3>8. /\ min'[Loader] = IF better THEN x ELSE min[Loader]
          /\ mincount'[Loader] = IF better THEN q_size[x] ELSE mincount[Loader]
          /\ UNCHANGED <<size, spc, q_size, q_full, accepted>>
      BY <2>5, <3>3 DEF ScanNext, TypeOK, sems, sendVars
    <3>9. \A j \in Handles : q_size[j] = Len(accepted[j]) /\ q_size[j] <= Inf
      BY <3>2, <3>3, <3>4, <3>5 DEF BalanceInv, Inf
    <3>10. /\ mincount'[Loader] = q_size[min'[Loader]]
           /\ \A j \in Handles : j < x + 1 => mincount'[Loader] <= q_size[j]
      <4>1. \A j \in Handles : j < x + 1 => j = x \/ j < x
        BY <3>6, HandleNext
      <4>2. CASE x = 0
        <5>1. mincount[Loader] = Inf /\ min[Loader] = 0
          BY <3>2, <3>3, <4>2 DEF BalanceInv
        <5>2. \A j \in Handles : j < x + 1 => j = 0
          BY <4>1, <4>2
        <5>3. QED
          BY <3>5, <3>6, <3>8, <3>9, <4>2, <5>1, <5>2 DEF Inf
      <4>3. CASE x # 0
        <5>1. /\ mincount[Loader] = q_size[min[Loader]]
              /\ \A j \in Handles : j < x => mincount[Loader] <= q_size[j]
          BY <3>2, <3>3, <4>3 DEF BalanceInv
        <5>2. CASE better
          <6>1. mincount'[Loader] = q_size[x] /\ min'[Loader] = x
            BY <3>8, <5>2
          <6>2. q_size[x] \in Int /\ q_size[x] < mincount[Loader]
            BY <3>5, <3>6, <5>2
          <6>3. \A j \in Handles : j < x => q_size[x] <= q_size[j]
            BY <3>5, <3>7, <5>1, <6>2
          <6>4. \A j \in Handles : j = x => q_size[x] <= q_size[j]
            BY <6>2
          <6>5. QED
            BY <4>1, <6>1, <6>3, <6>4
        <5>3. CASE ~ better
          <6>1. mincount'[Loader] = mincount[Loader] /\ min'[Loader] = min[Loader]
            BY <3>8, <5>3
          <6>2. q_size[x] \in Int /\ ~ (q_size[x] < mincount[Loader])
            BY <3>5, <3>6, <5>3
          <6>3. mincount[Loader] <= q_size[x]
            BY <3>7, <6>2
          <6>4. QED
            BY <4>1, <5>1, <6>1, <6>3
        <5>4. QED
          BY <5>2, <5>3
      <4>4. QED
        BY <4>2, <4>3
    <3>11. CASE x = NUMBER_OF_HANDLES - 1
      <4>1. /\ \A d \in Threads : pc'[d] = IF d = Loader THEN "down" ELSE pc[d]
            /\ h'[Loader] = min'[Loader]
        BY <2>5, <3>3, <3>11 DEF ScanNext, TypeOK
      <4>2. min'[Loader] \in Handles
        BY <3>6, <3>8
      <4>3. \A j \in Handles : j < x + 1
        BY <3>6, <3>11, HandleNext
      <4>4. \A j \in Handles : Len(accepted[h'[Loader]]) <= Len(accepted[j])
        BY <3>9, <3>10, <4>1, <4>2, <4>3
      <4>5. QED
        BY <3>2, <3>3, <3>8, <4>1, <4>4 DEF BalanceInv
    <3>12. CASE x # NUMBER_OF_HANDLES - 1
      <4>1. pc' = pc /\ h' = h /\ i'[Loader] = x + 1
        BY <2>5, <3>3, <3>12 DEF ScanNext, TypeOK
      <4>2. x + 1 # 0
        BY <3>6, HandleNext
      <4>3. QED
        BY <3>2, <3>3, <3>8, <3>10, <4>1, <4>2 DEF BalanceInv
    <3>13. QED
      BY <3>11, <3>12
  <2>6. ASSUME NEW c \in Threads, DownFull(c) PROVE BalanceInv'
    <3>1. UNCHANGED <<calls, started>>
      BY <2>6 DEF DownFull, sendVars
    <3>2. SUFFICES ASSUME Quiet PROVE BalanceInv'
      BY <3>1 DEF BalanceInv, Quiet
    <3>3. c = Loader /\ pc[Loader] = "down"
      BY <2>6, <3>2 DEF DownFull, BalanceInv, Alone, Threads
    <3>4. \A k \in Handles : Len(accepted[k]) \in Nat
      BY DEF TypeOK
    <3>5. \A k \in Handles : q_full[k] \in Nat /\ q_size[k] \in Int
      BY DEF TypeOK
    <3>6. h[Loader] \in Handles /\ i[Loader] \in Handles /\ min[Loader] \in Handles
      BY DEF TypeOK
    <3>7. mincount[Loader] \in Int
      BY DEF TypeOK
    <3> USE DEF Alone, SizesCount, RoomLeft, ScanLowest, PickLowest, Even
    <3>8. /\ \A d \in Threads : pc'[d] = IF d = Loader THEN "lock" ELSE pc[d]
          /\ \A k \in Handles : q_full'[k] = IF k = h[Loader] THEN q_full[k] - 1
                                                              ELSE q_full[k]
          /\ UNCHANGED <<i, min, mincount, h, size, spc, q_size, accepted>>
      BY <2>6, <3>3 DEF DownFull, TypeOK, scan, sendVars
    <3>9. RoomLeft'
      <4>1. \A k \in Handles : Len(accepted[k]) + q_full[k] = MAX_SEND_DEPTH
        BY <3>2, <3>3 DEF BalanceInv
      <4>2. \A k \in Handles : Len(accepted[k]) + (q_full[k] - 1) = MAX_SEND_DEPTH - 1
        BY <3>4, <3>5, <4>1, CountTheStored
      <4>3. QED
        BY <3>8, <4>1, <4>2
    <3>10. QED
      BY <3>2, <3>3, <3>8, <3>9 DEF BalanceInv
  <2>7. ASSUME NEW c \in Threads, EnqStore(c) PROVE BalanceInv'
    <3>1. UNCHANGED <<calls, started>>
      BY <2>7 DEF EnqStore, sendVars
    <3>2. SUFFICES ASSUME Quiet PROVE BalanceInv'
      BY <3>1 DEF BalanceInv, Quiet
    <3>3. c = Loader /\ pc[Loader] = "lock"
      BY <2>7, <3>2 DEF EnqStore, BalanceInv, Alone, Threads
    <3>4. \A k \in Handles : Len(accepted[k]) \in Nat
      BY DEF TypeOK
    <3>5. \A k \in Handles : q_full[k] \in Nat /\ q_size[k] \in Int
      BY DEF TypeOK
    <3>6. h[Loader] \in Handles /\ i[Loader] \in Handles /\ min[Loader] \in Handles
      BY DEF TypeOK
    <3>7. mincount[Loader] \in Int
      BY DEF TypeOK
    <3> USE DEF Alone, SizesCount, RoomLeft, ScanLowest, PickLowest, Even
    <3>8. /\ \A d \in Threads : pc'[d] = IF d = Loader THEN "inc" ELSE pc[d]
          /\ size'[Loader] = q_size[h[Loader]]
          /\ UNCHANGED <<i, min, mincount, h, spc, q_size, q_full>>
      BY <2>7, <3>3 DEF EnqStore, TypeOK, scan, sems, sendVars
    <3>9. accepted' = [accepted EXCEPT ![h[Loader]] = Append(@, msg[Loader])]
      BY <2>7, <3>3 DEF EnqStore
    <3>10. \A k \in Handles : Len(accepted'[k]) = IF k = h[Loader] THEN Len(accepted[k]) + 1
                                                                  ELSE Len(accepted[k])
      BY <3>9, LenOne
    <3>11. \A k1, k2 \in Handles : Len(accepted'[k1]) <= Len(accepted'[k2]) + 1
      <4>1. /\ \A k1, k2 \in Handles : Len(accepted[k1]) <= Len(accepted[k2]) + 1
            /\ \A k2 \in Handles : Len(accepted[h[Loader]]) <= Len(accepted[k2])
        BY <3>2, <3>3 DEF BalanceInv
      <4>2. \A k1, k2 \in Handles : /\ Len(accepted[k1]) <= (Len(accepted[k2]) + 1) + 1
                                    /\ Len(accepted[h[Loader]]) + 1 <= Len(accepted[k2]) + 1
        BY <3>4, <3>6, <4>1, CountTheStored
      <4>3. Len(accepted[h[Loader]]) + 1 <= (Len(accepted[h[Loader]]) + 1) + 1
        BY <3>4, <3>6
      <4>4. QED
        BY <3>10, <4>1, <4>2, <4>3
    <3>12. RoomLeft'
      <4>1. \A k \in Handles :
              Len(accepted[k]) + q_full[k] = IF k = h[Loader] THEN MAX_SEND_DEPTH - 1
                                                              ELSE MAX_SEND_DEPTH
        BY <3>2, <3>3 DEF BalanceInv
      <4>2. (Len(accepted[h[Loader]]) + 1) + q_full[h[Loader]] = MAX_SEND_DEPTH
        <5>1. Len(accepted[h[Loader]]) + q_full[h[Loader]] = MAX_SEND_DEPTH - 1
          BY <3>6, <4>1
        <5>2. Len(accepted[h[Loader]]) \in Nat /\ q_full[h[Loader]] \in Nat
          BY <3>4, <3>5, <3>6
        <5>3. QED
          BY <5>1, <5>2, CountTheStored
      <4>3. QED
        BY <3>3, <3>8, <3>10, <4>1, <4>2
    <3>13. SizesCount'
      <4>1. \A k \in Handles : q_size[k] = Len(accepted[k])
        BY <3>2, <3>3 DEF BalanceInv
      <4>2. \A k \in Handles : q_size[k] = (Len(accepted[k]) + 1) - 1
        BY <3>4, <4>1
      <4>3. QED
        BY <3>3, <3>8, <3>10, <4>1, <4>2
    <3>14. QED
      BY <3>2, <3>3, <3>8, <3>11, <3>12, <3>13 DEF BalanceInv
  <2>8. ASSUME NEW c \in Threads, EnqInc(c) PROVE BalanceInv'
    <3>1. UNCHANGED <<calls, started>>
      BY <2>8 DEF EnqInc, sendVars
    <3>2. SUFFICES ASSUME Quiet PROVE BalanceInv'
      BY <3>1 DEF BalanceInv, Quiet
    <3>3. c = Loader /\ pc[Loader] = "inc"
      BY <2>8, <3>2 DEF EnqInc, BalanceInv, Alone, Threads
    <3>4. \A k \in Handles : Len(accepted[k]) \in Nat
      BY DEF TypeOK
    <3>5. \A k \in Handles : q_full[k] \in Nat /\ q_size[k] \in Int
      BY DEF TypeOK
    <3>6. h[Loader] \in Handles /\ i[Loader] \in Handles /\ min[Loader] \in Handles
      BY DEF TypeOK
    <3>7. mincount[Loader] \in Int
      BY DEF TypeOK
    <3> USE DEF Alone, SizesCount, RoomLeft, ScanLowest, PickLowest, Even
    <3>8. /\ \A d \in Threads : pc'[d] = IF d = Loader THEN "up" ELSE pc[d]
          /\ \A k \in Handles : q_size'[k] = IF k = h[Loader] THEN size[Loader] + 1
                                                              ELSE q_size[k]
          /\ UNCHANGED <<i, min, mincount, h, size, spc, q_full, accepted>>
      BY <2>8, <3>3 DEF EnqInc, TypeOK, scan, sems, sendVars
    <3>9. size[Loader] + 1 = Len(accepted[h[Loader]])
      <4>1. size[Loader] = q_size[h[Loader]]
        BY <3>2, <3>3 DEF BalanceInv
      <4>2. q_size[h[Loader]] = Len(accepted[h[Loader]]) - 1
        BY <3>2, <3>3, <3>6 DEF BalanceInv
      <4>3. QED
        BY <3>4, <3>6, <4>1, <4>2
    <3>10. QED
      BY <3>2, <3>3, <3>8, <3>9 DEF BalanceInv
  <2>9. ASSUME NEW c \in Threads, UpEmpty(c) PROVE BalanceInv'
    <3>1. UNCHANGED <<calls, started>>
      BY <2>9 DEF UpEmpty, sendVars
    <3>2. SUFFICES ASSUME Quiet PROVE BalanceInv'
      BY <3>1 DEF BalanceInv, Quiet
    <3>3. c = Loader /\ pc[Loader] = "up"
      BY <2>9, <3>2 DEF UpEmpty, BalanceInv, Alone, Threads
    <3>4. \A k \in Handles : Len(accepted[k]) \in Nat
      BY DEF TypeOK
    <3>5. \A k \in Handles : q_full[k] \in Nat /\ q_size[k] \in Int
      BY DEF TypeOK
    <3>6. h[Loader] \in Handles /\ i[Loader] \in Handles /\ min[Loader] \in Handles
      BY DEF TypeOK
    <3>7. mincount[Loader] \in Int
      BY DEF TypeOK
    <3> USE DEF Alone, SizesCount, RoomLeft, ScanLowest, PickLowest, Even
    <3>8. /\ \A d \in Threads : pc'[d] = IF d = Loader THEN "idle" ELSE pc[d]
          /\ i'[Loader] = 0 /\ min'[Loader] = 0 /\ mincount'[Loader] = Inf
          /\ UNCHANGED <<spc, q_size, q_full, accepted>>
      BY <2>9, <3>3 DEF UpEmpty, TypeOK, sendVars
    <3>9. QED
      BY <3>2, <3>3, <3>8 DEF BalanceInv
  <2>10. ASSUME NEW k \in Handles, DownEmpty(k) PROVE BalanceInv'
    <3>1. Quiet' => Quiet
      BY <2>10 DEF Quiet, DownEmpty, callerVars
    <3>2. Quiet => spc[k] = "off"
      BY DEF BalanceInv, Alone
    <3>3. QED
      BY <2>10, <3>1, <3>2 DEF BalanceInv, DownEmpty
  <2>11. ASSUME NEW k \in Handles, DeqFetch(k) PROVE BalanceInv'
    <3>1. Quiet' => Quiet
      BY <2>11 DEF Quiet, DeqFetch, callerVars
    <3>2. Quiet => spc[k] = "off"
      BY DEF BalanceInv, Alone
    <3>3. QED
      BY <2>11, <3>1, <3>2 DEF BalanceInv, DeqFetch
  <2>12. ASSUME NEW k \in Handles, UpFull(k) PROVE BalanceInv'
    <3>1. Quiet' => Quiet
      BY <2>12 DEF Quiet, UpFull, callerVars
    <3>2. Quiet => spc[k] = "off"
      BY DEF BalanceInv, Alone
    <3>3. QED
      BY <2>12, <3>1, <3>2 DEF BalanceInv, UpFull
  <2>13. ASSUME NEW k \in Handles, LoopSend(k) PROVE BalanceInv'
    <3>1. Quiet' => Quiet
      BY <2>13 DEF Quiet, LoopSend, callerVars
    <3>2. Quiet => spc[k] = "off"
      BY DEF BalanceInv, Alone
    <3>3. QED
      BY <2>13, <3>1, <3>2 DEF BalanceInv, LoopSend
  <2>14. ASSUME NEW k \in Handles, DecRead(k) PROVE BalanceInv'
    <3>1. Quiet' => Quiet
      BY <2>14 DEF Quiet, DecRead, callerVars
    <3>2. Quiet => spc[k] = "off"
      BY DEF BalanceInv, Alone
    <3>3. QED
      BY <2>14, <3>1, <3>2 DEF BalanceInv, DecRead
  <2>15. ASSUME NEW k \in Handles, DecWrite(k) PROVE BalanceInv'
    <3>1. Quiet' => Quiet
      BY <2>15 DEF Quiet, DecWrite, callerVars
    <3>2. Quiet => spc[k] = "off"
      BY DEF BalanceInv, Alone
    <3>3. QED
      BY <2>15, <3>1, <3>2 DEF BalanceInv, DecWrite
  <2>16. ASSUME NEW k \in Handles, LoopEnd(k) PROVE BalanceInv'
    <3>1. Quiet' => Quiet
      BY <2>16 DEF Quiet, LoopEnd, callerVars
    <3>2. Quiet => spc[k] = "off"
      BY DEF BalanceInv, Alone
    <3>3. QED
      BY <2>16, <3>1, <3>2 DEF BalanceInv, LoopEnd
  <2>17. CASE UNCHANGED vars
    BY <2>17 DEF vars, BalanceInv, Quiet, Alone, SizesCount, RoomLeft, ScanLowest,
                 PickLowest, Even
  <2>18. QED
    BY <2>1, <2>2, <2>3, <2>4, <2>5, <2>6, <2>7, <2>8, <2>9, <2>10, <2>11,
    <2>12, <2>13, <2>14, <2>15, <2>16, <2>17
    DEF Next, LoadStep, CallerStep, SendStep, Rest
<1>3. BalanceInv => Balanced
  BY DEF BalanceInv, Balanced, Quiet, Even
<1>4. QED
  BY <1>1, <1>2, <1>3, HandlesTypeCorrect, PTL DEF Spec
-----------------------------------------------------------------------------
(* The semaphores of every handle *)

\* How many messages of handle k wait, which threads have a slot of it reserved
\* and which have yet to announce a message in it.
Waiting(k) == Len(accepted[k]) - Len(taken[k])
Claiming(k) == {c \in Threads : pc[c] = "lock" /\ h[c] = k}
Posting(k) == {c \in Threads : pc[c] \in {"inc", "up"} /\ h[c] = k}

\* The messages of handle k are counted by q_empty and its slots by q_full, but
\* for those that somebody is about to count.
Accounted(k) ==
  /\ Waiting(k) = q_empty[k] + Cardinality(Posting(k))
                  + (IF spc[k] = "fetch" THEN 1 ELSE 0)
  /\ MAX_SEND_DEPTH = q_full[k] + Cardinality(Claiming(k)) + Waiting(k)
                      + (IF spc[k] = "up" THEN 1 ELSE 0)
SlotsAccounted == \A k \in Handles : Accounted(k)

LEMMA CountIn == ASSUME NEW S, NEW c, IsFiniteSet(S), c \notin S
                 PROVE  Cardinality(S \cup {c}) = Cardinality(S) + 1
BY FS_AddElement

LEMMA CountOut == ASSUME NEW S, NEW c, IsFiniteSet(S), c \in S
                  PROVE  Cardinality(S \ {c}) = Cardinality(S) - 1 /\ Cardinality(S) > 0
<1>1. Cardinality(S) \in Nat /\ Cardinality(S \ {c}) = Cardinality(S) - 1
  BY FS_RemoveElement, FS_CardinalityType
<1>2. Cardinality(S \ {c}) \in Nat
  BY FS_RemoveElement, FS_CardinalityType
<1>3. QED
  BY <1>1, <1>2

LEMMA Numbers ==
  ASSUME TypeOK, NEW k \in Handles
  PROVE  /\ IsFiniteSet(Claiming(k)) /\ Cardinality(Claiming(k)) \in Nat
         /\ IsFiniteSet(Posting(k)) /\ Cardinality(Posting(k)) \in Nat
         /\ Len(accepted[k]) \in Nat /\ Len(taken[k]) \in Nat /\ Waiting(k) \in Int
         /\ q_empty[k] \in Nat /\ q_full[k] \in Nat
<1>1. IsFiniteSet(Threads)
  BY ThreadsAssumption, FS_AddElement DEF Threads
<1>2. Claiming(k) \subseteq Threads /\ Posting(k) \subseteq Threads
  BY DEF Claiming, Posting
<1>3. IsFiniteSet(Claiming(k)) /\ IsFiniteSet(Posting(k))
  BY <1>1, <1>2, FS_Subset
<1>4. accepted[k] \in Seq(Msg) /\ taken[k] \in Seq(Msg \cup {NoMsg})
  BY DEF TypeOK
<1>5. Len(accepted[k]) \in Nat /\ Len(taken[k]) \in Nat
  BY <1>4
<1>6. q_empty[k] \in Nat /\ q_full[k] \in Nat
  BY DEF TypeOK
<1>7. QED
  BY <1>3, <1>5, <1>6, FS_CardinalityType DEF Waiting

\* A handle that a step leaves alone stays accounted for.
LEMMA StillAccounted ==
  ASSUME NEW k \in Handles, Accounted(k),
         Cardinality(Claiming(k)') = Cardinality(Claiming(k)),
         Cardinality(Posting(k)') = Cardinality(Posting(k)),
         accepted'[k] = accepted[k], taken'[k] = taken[k],
         q_empty'[k] = q_empty[k], q_full'[k] = q_full[k],
         spc'[k] = spc[k] \/ {spc[k], spc'[k]} \cap {"fetch", "up"} = {}
  PROVE  Accounted(k)'
BY DEF Accounted, Waiting

\* A step of one thread moves at most that thread in or out of the two sets.
LEMMA CountClaims ==
  ASSUME TypeOK, NEW c \in Threads, NEW k \in Handles,
         \A d \in Threads : d # c => pc'[d] = pc[d] /\ h'[d] = h[d]
  PROVE  LET was == pc[c] = "lock" /\ h[c] = k
             is == pc'[c] = "lock" /\ h'[c] = k
         IN  /\ (was <=> is) => Cardinality(Claiming(k)') = Cardinality(Claiming(k))
             /\ ~ was /\ is => Cardinality(Claiming(k)') = Cardinality(Claiming(k)) + 1
             /\ was /\ ~ is => Cardinality(Claiming(k)') = Cardinality(Claiming(k)) - 1
<1> DEFINE was == pc[c] = "lock" /\ h[c] = k
           is == pc'[c] = "lock" /\ h'[c] = k
<1>1. IsFiniteSet(Claiming(k))
  BY Numbers
<1>2. was <=> c \in Claiming(k)
  BY DEF Claiming
<1>3. (was <=> is) => Claiming(k)' = Claiming(k)
  BY DEF Claiming
<1>4. ~ was /\ is => Claiming(k)' = Claiming(k) \cup {c}
  BY DEF Claiming
<1>5. was /\ ~ is => Claiming(k)' = Claiming(k) \ {c}
  BY DEF Claiming
<1> HIDE DEF was, is
<1>6. /\ (was <=> is) => Cardinality(Claiming(k)') = Cardinality(Claiming(k))
      /\ ~ was /\ is => Cardinality(Claiming(k)') = Cardinality(Claiming(k)) + 1
      /\ was /\ ~ is => Cardinality(Claiming(k)') = Cardinality(Claiming(k)) - 1
  BY <1>1, <1>2, <1>3, <1>4, <1>5, CountIn, CountOut
<1>7. QED
  BY <1>6 DEF was, is

LEMMA CountPosts ==
  ASSUME TypeOK, NEW c \in Threads, NEW k \in Handles,
         \A d \in Threads : d # c => pc'[d] = pc[d] /\ h'[d] = h[d]
  PROVE  LET was == pc[c] \in {"inc", "up"} /\ h[c] = k
             is == pc'[c] \in {"inc", "up"} /\ h'[c] = k
         IN  /\ (was <=> is) => Cardinality(Posting(k)') = Cardinality(Posting(k))
             /\ ~ was /\ is => Cardinality(Posting(k)') = Cardinality(Posting(k)) + 1
             /\ was /\ ~ is => Cardinality(Posting(k)') = Cardinality(Posting(k)) - 1
<1> DEFINE was == pc[c] \in {"inc", "up"} /\ h[c] = k
           is == pc'[c] \in {"inc", "up"} /\ h'[c] = k
<1>1. IsFiniteSet(Posting(k))
  BY Numbers
<1>2. was <=> c \in Posting(k)
  BY DEF Posting
<1>3. (was <=> is) => Posting(k)' = Posting(k)
  BY DEF Posting
<1>4. ~ was /\ is => Posting(k)' = Posting(k) \cup {c}
  BY DEF Posting
<1>5. was /\ ~ is => Posting(k)' = Posting(k) \ {c}
  BY DEF Posting
<1> HIDE DEF was, is
<1>6. /\ (was <=> is) => Cardinality(Posting(k)') = Cardinality(Posting(k))
      /\ ~ was /\ is => Cardinality(Posting(k)') = Cardinality(Posting(k)) + 1
      /\ was /\ ~ is => Cardinality(Posting(k)') = Cardinality(Posting(k)) - 1
  BY <1>1, <1>2, <1>3, <1>4, <1>5, CountIn, CountOut
<1>7. QED
  BY <1>6 DEF was, is

\* The semaphores of every handle account for its slots, whichever threads
\* call enq_send and however find_low_queue spreads them: never more than
\* MAX_SEND_DEPTH messages wait, and the send thread is let in once for each.
THEOREM SlotsCorrect == Spec => []SlotsAccounted
<1>1. Init => SlotsAccounted
  <2> SUFFICES ASSUME Init, NEW k \in Handles PROVE Accounted(k)
    BY DEF SlotsAccounted
  <2>1. Claiming(k) = {} /\ Posting(k) = {}
    BY DEF Init, Claiming, Posting
  <2>2. Waiting(k) = 0
    BY DEF Init, Waiting
  <2>3. QED
    BY <2>1, <2>2, FS_EmptySet, HandleFacts DEF Init, Accounted
<1>2. TypeOK /\ OwedInv /\ SlotsAccounted /\ [Next]_vars => SlotsAccounted'
  <2> SUFFICES ASSUME TypeOK, OwedInv, SlotsAccounted, [Next]_vars, NEW k \in Handles
               PROVE  Accounted(k)'
    BY DEF SlotsAccounted
  <2> DEFINE C == Cardinality(Claiming(k))  P == Cardinality(Posting(k))
             In == IF spc[k] = "fetch" THEN 1 ELSE 0
             Out == IF spc[k] = "up" THEN 1 ELSE 0
  <2>h. /\ Accounted(k) /\ C \in Nat /\ P \in Nat
        /\ Len(accepted[k]) \in Nat /\ Len(taken[k]) \in Nat /\ Waiting(k) \in Int
        /\ q_empty[k] \in Nat /\ q_full[k] \in Nat
        /\ In \in Nat /\ Out \in Nat /\ MAX_SEND_DEPTH \in Nat
    BY Numbers, HandleFacts DEF SlotsAccounted
  <2>n. /\ C \in Nat /\ P \in Nat /\ In \in Nat /\ Out \in Nat
        /\ Waiting(k) \in Int /\ q_empty[k] \in Nat /\ q_full[k] \in Nat
        /\ MAX_SEND_DEPTH \in Nat
    BY <2>h
  <2>e. /\ Waiting(k) = q_empty[k] + P + In
        /\ MAX_SEND_DEPTH = q_full[k] + C + Waiting(k) + Out
    BY <2>h DEF Accounted
  <2>g. (/\ Waiting(k)' = q_empty'[k] + P' + In'
         /\ MAX_SEND_DEPTH = q_full'[k] + C' + Waiting(k)' + Out')
        => Accounted(k)'
    BY DEF Accounted
  <2>s. ASSUME C' = C, P' = P, accepted'[k] = accepted[k], taken'[k] = taken[k],
               q_empty'[k] = q_empty[k], q_full'[k] = q_full[k],
               spc'[k] = spc[k] \/ {spc[k], spc'[k]} \cap {"fetch", "up"} = {}
        PROVE  Accounted(k)'
    BY <2>h, <2>s, StillAccounted
  <2>w. accepted'[k] = accepted[k] /\ taken'[k] = taken[k] => Waiting(k)' = Waiting(k)
    BY DEF Waiting
  <2>1. CASE UNCHANGED <<pc, h, accepted, taken, q_empty, q_full, spc>>
    <3>1. C' = C /\ P' = P
      BY <2>1 DEF Claiming, Posting
    <3>2. QED
      BY <2>1, <2>s, <3>1
  <2>2. ASSUME NEW c \in Threads,
               \/ c = Loader /\ TestCall
               \/ Call(c) \/ ScanEmpty(c) \/ ScanNext(c)
        PROVE  Accounted(k)'
    <3>1. \A d \in Threads : d # c => pc'[d] = pc[d]
      <4>1. CASE i[c] = NUMBER_OF_HANDLES - 1 /\ ScanNext(c)
        BY <4>1 DEF ScanNext, TypeOK
      <4>2. CASE i[c] # NUMBER_OF_HANDLES - 1 /\ ScanNext(c)
        BY <4>2 DEF ScanNext, TypeOK
      <4>3. QED
        BY <2>2, <4>1, <4>2 DEF TestCall, Call, ScanEmpty, TypeOK
    <3>2. \A d \in Threads : d # c => h'[d] = h[d]
      <4>1. CASE i[c] = NUMBER_OF_HANDLES - 1 /\ ScanNext(c)
        BY <4>1 DEF ScanNext, TypeOK
      <4>2. CASE i[c] # NUMBER_OF_HANDLES - 1 /\ ScanNext(c)
        BY <4>2 DEF ScanNext, TypeOK
      <4>3. QED
        BY <2>2, <4>1, <4>2 DEF TestCall, Call, ScanEmpty, TypeOK
    <3>3. pc[c] \in {"idle", "scan"} /\ pc'[c] \in {"scan", "down"}
      BY <2>2 DEF TestCall, Call, ScanEmpty, ScanNext, TypeOK
    <3>4. UNCHANGED <<accepted, taken, q_empty, q_full, spc>>
      BY <2>2 DEF TestCall, Call, ScanEmpty, ScanNext, sems, sendVars
    <3>5. C' = C
      BY <3>1, <3>2, <3>3, CountClaims
    <3>6. P' = P
      BY <3>1, <3>2, <3>3, CountPosts
    <3>7. QED
      BY <2>s, <3>4, <3>5, <3>6
  <2>3. ASSUME NEW c \in Threads, DownFull(c) PROVE Accounted(k)'
    <3>1. \A d \in Threads : d # c => pc'[d] = pc[d] /\ h'[d] = h[d]
      BY <2>3 DEF DownFull, TypeOK
    <3>2. /\ pc[c] = "down" /\ pc'[c] = "lock" /\ h'[c] = h[c] /\ h[c] \in Handles
          /\ q_full[h[c]] > 0
          /\ q_full'[k] = IF k = h[c] THEN q_full[k] - 1 ELSE q_full[k]
          /\ UNCHANGED <<accepted, taken, q_empty, spc>>
      BY <2>3 DEF DownFull, TypeOK, sendVars
    <3>3. P' = P
      BY <3>1, <3>2, CountPosts
    <3>4. C' = IF k = h[c] THEN C + 1 ELSE C
      BY <3>1, <3>2, CountClaims
    <3> HIDE DEF C, P
    <3>5. CASE k = h[c]
      <4>1. Waiting(k)' = Waiting(k) /\ In' = In /\ Out' = Out
        BY <2>w, <3>2
      <4>2. MAX_SEND_DEPTH = (q_full[k] - 1) + (C + 1) + Waiting(k) + Out
        BY <2>n, <2>e
      <4>3. QED
        BY <2>e, <2>g, <3>2, <3>3, <3>4, <3>5, <4>1, <4>2
    <3>6. CASE k # h[c]
      BY <2>s, <3>2, <3>3, <3>4, <3>6
    <3>7. QED
      BY <3>5, <3>6
  <2>4. ASSUME NEW c \in Threads, EnqStore(c) PROVE Accounted(k)'
    <3>1. \A d \in Threads : d # c => pc'[d] = pc[d] /\ h'[d] = h[d]
      BY <2>4 DEF EnqStore, TypeOK
    <3>2. /\ pc[c] = "lock" /\ pc'[c] = "inc" /\ h'[c] = h[c] /\ h[c] \in Handles
          /\ UNCHANGED <<taken, q_empty, q_full, spc>>
      BY <2>4 DEF EnqStore, TypeOK, sems, sendVars
    <3>3. accepted' = [accepted EXCEPT ![h[c]] = Append(@, msg[c])]
      BY <2>4 DEF EnqStore
    <3>4. C' = IF k = h[c] THEN C - 1 ELSE C
      BY <3>1, <3>2, CountClaims
    <3>5. P' = IF k = h[c] THEN P + 1 ELSE P
      BY <3>1, <3>2, CountPosts
    <3> HIDE DEF C, P
    <3>6. CASE k = h[c]
      <4>1. Len(accepted'[k]) = Len(accepted[k]) + 1
        BY <3>3, <3>6, LenOne
      <4>2. Waiting(k)' = Waiting(k) + 1 /\ In' = In /\ Out' = Out
        BY <2>h, <3>2, <4>1 DEF Waiting
      <4> HIDE DEF In, Out
      <4>3. Waiting(k) + 1 = q_empty[k] + (P + 1) + In
        BY <2>n, <2>e
      <4>4. MAX_SEND_DEPTH = q_full[k] + (C - 1) + (Waiting(k) + 1) + Out
        BY <2>n, <2>e
      <4>5. QED
        BY <2>g, <3>2, <3>4, <3>5, <3>6, <4>2, <4>3, <4>4
    <3>7. CASE k # h[c]
      <4>1. accepted'[k] = accepted[k]
        BY <3>3, <3>7 DEF TypeOK
      <4>2. QED
        BY <2>s, <3>2, <3>4, <3>5, <3>7, <4>1
    <3>8. QED
      BY <3>6, <3>7
  <2>5. ASSUME NEW c \in Threads, EnqInc(c) PROVE Accounted(k)'
    <3>1. \A d \in Threads : d # c => pc'[d] = pc[d] /\ h'[d] = h[d]
      BY <2>5 DEF EnqInc, TypeOK
    <3>2. /\ pc[c] = "inc" /\ pc'[c] = "up" /\ h'[c] = h[c]
          /\ UNCHANGED <<accepted, taken, q_empty, q_full, spc>>
      BY <2>5 DEF EnqInc, TypeOK, sems, sendVars
    <3>3. C' = C
      BY <3>1, <3>2, CountClaims
    <3>4. P' = P
      BY <3>1, <3>2, CountPosts
    <3>5. QED
      BY <2>s, <3>2, <3>3, <3>4
  <2>6. ASSUME NEW c \in Threads, UpEmpty(c) PROVE Accounted(k)'
    <3>1. \A d \in Threads : d # c => pc'[d] = pc[d] /\ h'[d] = h[d]
      BY <2>6 DEF UpEmpty, TypeOK
    <3>2. /\ pc[c] = "up" /\ pc'[c] = "idle" /\ h[c] \in Handles
          /\ q_empty'[k] = IF k = h[c] THEN q_empty[k] + 1 ELSE q_empty[k]
          /\ UNCHANGED <<accepted, taken, q_full, spc>>
      BY <2>6 DEF UpEmpty, TypeOK, sendVars
    <3>3. C' = C
      BY <3>1, <3>2, CountClaims
    <3>4. P' = IF k = h[c] THEN P - 1 ELSE P
      BY <3>1, <3>2, CountPosts
    <3> HIDE DEF C, P
    <3>5. CASE k = h[c]
      <4>1. Waiting(k)' = Waiting(k) /\ In' = In /\ Out' = Out
        BY <2>w, <3>2
      <4> HIDE DEF In, Out
      <4>2. Waiting(k) = (q_empty[k] + 1) + (P - 1) + In
        BY <2>n, <2>e
      <4>3. QED
        BY <2>e, <2>g, <3>2, <3>3, <3>4, <3>5, <4>1, <4>2
    <3>6. CASE k # h[c]
      BY <2>s, <3>2, <3>3, <3>4, <3>6
    <3>7. QED
      BY <3>5, <3>6
  <2>7. ASSUME NEW j \in Handles, SendStep(j) \/ StartHandlers(j) PROVE Accounted(k)'
    <3>1. C' = C /\ P' = P /\ accepted' = accepted
      BY <2>7 DEF SendStep, DownEmpty, DeqFetch, UpFull, LoopSend, DecRead, DecWrite,
                  LoopEnd, StartHandlers, callerVars, Claiming, Posting
    <3> HIDE DEF C, P
    <3>2. /\ spc'[k] = IF k = j THEN spc'[j] ELSE spc[k]
          /\ taken'[k] = IF k = j THEN taken'[j] ELSE taken[k]
          /\ q_empty'[k] = IF k = j THEN q_empty'[j] ELSE q_empty[k]
          /\ q_full'[k] = IF k = j THEN q_full'[j] ELSE q_full[k]
      BY ZenonT(40), <2>7 DEF SendStep, DownEmpty, DeqFetch, UpFull, LoopSend, DecRead, DecWrite,
                  LoopEnd, StartHandlers, sems, TypeOK
    <3>3. CASE k # j
      BY <2>s, <3>1, <3>2, <3>3
    <3>4. CASE k = j
      <4>1. CASE DownEmpty(k)
        <5>1. /\ q_empty[k] > 0 /\ q_empty'[k] = q_empty[k] - 1 /\ q_full'[k] = q_full[k]
              /\ spc[k] = "down" /\ spc'[k] = "fetch" /\ taken' = taken
          BY <4>1 DEF DownEmpty, TypeOK
        <5>2. Waiting(k)' = Waiting(k) /\ In = 0 /\ In' = 1 /\ Out = 0 /\ Out' = 0
          BY <2>w, <3>1, <5>1
        <5>3. Waiting(k) = (q_empty[k] - 1) + P + 1
          BY <2>h, <2>e, <5>2
        <5>4. QED
          BY <2>e, <2>g, <3>1, <5>1, <5>2, <5>3
      <4>2. CASE DeqFetch(k)
        <5>1. /\ q_empty'[k] = q_empty[k] /\ q_full'[k] = q_full[k]
              /\ spc[k] = "fetch" /\ spc'[k] = "up"
              /\ taken'[k] = Append(taken[k], msg_q[k][q_head[k]])
              /\ taken[k] \in Seq(Msg \cup {NoMsg})
          BY <4>2 DEF DeqFetch, TypeOK, sems
        <5>2. Len(taken'[k]) = Len(taken[k]) + 1
          BY <5>1
        <5>3. Waiting(k)' = Waiting(k) - 1 /\ In = 1 /\ In' = 0 /\ Out = 0 /\ Out' = 1
          BY <2>h, <3>1, <5>1, <5>2 DEF Waiting
        <5> HIDE DEF In, Out
        <5>4. /\ Waiting(k) - 1 = q_empty[k] + P + 0
              /\ MAX_SEND_DEPTH = q_full[k] + C + (Waiting(k) - 1) + 1
          BY <2>n, <2>e, <5>3
        <5>5. QED
          BY <2>g, <3>1, <5>1, <5>3, <5>4
      <4>3. CASE UpFull(k)
        <5>1. /\ q_empty'[k] = q_empty[k] /\ q_full'[k] = q_full[k] + 1
              /\ spc[k] = "up" /\ spc'[k] = "loop" /\ taken' = taken
          BY <4>3 DEF UpFull, TypeOK
        <5>2. Waiting(k)' = Waiting(k) /\ In = 0 /\ In' = 0 /\ Out = 1 /\ Out' = 0
          BY <2>w, <3>1, <5>1
        <5>3. MAX_SEND_DEPTH = (q_full[k] + 1) + C + Waiting(k) + 0
          BY <2>h, <2>e, <5>2
        <5>4. QED
          BY <2>e, <2>g, <3>1, <5>1, <5>2, <5>3
      <4>4. CASE LoopSend(k) \/ DecRead(k) \/ DecWrite(k) \/ LoopEnd(k)
        <5>1. /\ UNCHANGED <<q_empty, q_full, taken>>
              /\ spc[k] \in {"loop", "dec", "write"}
              /\ spc'[k] \in {"loop", "dec", "write", "down"}
          BY <4>4 DEF LoopSend, DecRead, DecWrite, LoopEnd, TypeOK, sems
        <5>2. QED
          BY <2>s, <3>1, <5>1
      <4>5. CASE StartHandlers(k)
        <5>1. /\ UNCHANGED <<q_empty, q_full, taken>> /\ spc'[k] = "down"
              /\ k = started /\ started \in Nat
          BY <4>5 DEF StartHandlers, TypeOK, sems
        <5>2. spc[k] = "off"
          BY <5>1, HandleFacts DEF OwedInv
        <5>3. QED
          BY <2>s, <3>1, <5>1, <5>2
      <4>6. QED
        BY <2>7, <3>4, <4>1, <4>2, <4>3, <4>4, <4>5 DEF SendStep
    <3>5. QED
      BY <3>3, <3>4
  <2>8. QED
    BY <2>1, <2>2, <2>3, <2>4, <2>5, <2>6, <2>7, ThreadFacts
    DEF Next, LoadStep, CallerStep, Rest, vars
<1>3. QED
  BY <1>1, <1>2, HandlesTypeCorrect, OwedHolds, PTL DEF Spec

\* What SlotsAccounted says of the steps that touch the ring of handle k.
LEMMA WaitingFacts ==
  ASSUME TypeOK, SlotsAccounted, NEW k \in Handles
  PROVE  /\ Waiting(k) \in Nat /\ Waiting(k) <= MAX_SEND_DEPTH
         /\ \A c \in Threads : pc[c] = "lock" /\ h[c] = k => Waiting(k) < MAX_SEND_DEPTH
         /\ spc[k] = "fetch" => Waiting(k) > 0
         /\ Len(accepted[k]) \in Nat /\ Len(taken[k]) \in Nat
         /\ Len(accepted[k]) = Len(taken[k]) + Waiting(k)
<1> DEFINE C == Cardinality(Claiming(k))  P == Cardinality(Posting(k))
           In == IF spc[k] = "fetch" THEN 1 ELSE 0
           Out == IF spc[k] = "up" THEN 1 ELSE 0
<1>1. /\ C \in Nat /\ P \in Nat /\ In \in Nat /\ Out \in Nat /\ MAX_SEND_DEPTH \in Nat
      /\ q_empty[k] \in Nat /\ q_full[k] \in Nat /\ Waiting(k) \in Int
  BY Numbers, HandleFacts
<1>2. /\ Waiting(k) = q_empty[k] + P + In
      /\ MAX_SEND_DEPTH = q_full[k] + C + Waiting(k) + Out
  BY DEF SlotsAccounted, Accounted
<1>3. ASSUME NEW c \in Threads, pc[c] = "lock", h[c] = k PROVE C > 0
  BY <1>3, Numbers, CountOut DEF Claiming
<1>4. spc[k] = "fetch" => In = 1
  OBVIOUS
<1> HIDE DEF C, P, In, Out
<1>5. Waiting(k) \in Nat /\ Waiting(k) <= MAX_SEND_DEPTH
  BY <1>1, <1>2
<1>6. ASSUME NEW c \in Threads, pc[c] = "lock", h[c] = k
      PROVE  Waiting(k) < MAX_SEND_DEPTH
  <2>1. C > 0
    BY <1>3, <1>6
  <2>2. QED
    BY <1>1, <1>2, <2>1
<1>7. spc[k] = "fetch" => Waiting(k) > 0
  BY <1>1, <1>2, <1>4
<1>8. /\ Len(accepted[k]) \in Nat /\ Len(taken[k]) \in Nat
      /\ Len(accepted[k]) = Len(taken[k]) + Waiting(k)
  BY Numbers DEF Waiting
<1>9. QED
  BY <1>5, <1>6, <1>7, <1>8

-----------------------------------------------------------------------------
(* The rings of the handles, for the depths whose mask is the remainder *)

\* The messages that wait in handle k fill its ring from q_head on, in the order
\* of acceptance, and q_tail is the slot after them.
Row(k) ==
  /\ q_tail[k] = Wrap(q_head[k] + Waiting(k))
  /\ \A j \in 0 .. Waiting(k) - 1 :
       msg_q[k][Wrap(q_head[k] + j)] = accepted[k][Len(taken[k]) + 1 + j]
RowInv == \A k \in Handles : Row(k)

\* What a send thread has fetched is the beginning of what was stored for it.
FifoOrder ==
  \A k \in Handles :
    /\ Len(taken[k]) <= Len(accepted[k])
    /\ \A n \in 1 .. Len(taken[k]) : taken[k][n] = accepted[k][n]

\* Only two steps touch a ring, and each touches the ring of one handle.
LEMMA RingMoves ==
  ASSUME [Next]_vars
  PROVE  \/ \E c \in Threads : EnqStore(c)
         \/ \E k \in Handles : DeqFetch(k)
         \/ UNCHANGED <<q_head, q_tail, msg_q, accepted, taken>>
<1>1. CASE LoadStep \/ \E c \in Callers : Call(c)
  BY <1>1 DEF LoadStep, TestCall, StartHandlers, Call, rings, sendVars
<1>2. ASSUME NEW c \in Threads, CallerStep(c), ~ EnqStore(c)
      PROVE  UNCHANGED <<q_head, q_tail, msg_q, accepted, taken>>
  BY <1>2 DEF CallerStep, ScanEmpty, ScanNext, DownFull, EnqInc, UpEmpty, rings, sendVars
<1>3. ASSUME NEW k \in Handles, SendStep(k), ~ DeqFetch(k)
      PROVE  UNCHANGED <<q_head, q_tail, msg_q, accepted, taken>>
  BY <1>3 DEF SendStep, DownEmpty, UpFull, LoopSend, DecRead, DecWrite, LoopEnd, rings
<1>4. CASE UNCHANGED vars
  BY <1>4 DEF vars
<1>5. QED
  BY <1>1, <1>2, <1>3, <1>4 DEF Next, Rest

LEMMA EnqStoreAt ==
  ASSUME HeldInv, NEW c \in Threads, EnqStore(c), NEW k \in Handles
  PROVE  /\ h[c] \in Handles /\ msg[c] \in Msg /\ pc[c] = "lock"
         /\ q_head' = q_head /\ taken' = taken
         /\ k = h[c] => /\ q_tail'[k] = NextSlot(q_tail[k])
                        /\ msg_q'[k] = [msg_q[k] EXCEPT ![q_tail[k]] = msg[c]]
                        /\ accepted'[k] = Append(accepted[k], msg[c])
         /\ k # h[c] => /\ q_tail'[k] = q_tail[k] /\ msg_q'[k] = msg_q[k]
                        /\ accepted'[k] = accepted[k]
<1>1. h[c] \in Handles /\ msg[c] \in Msg /\ pc[c] = "lock"
  BY DEF HeldInv, TypeOK, EnqStore
<1>2. q_head' = q_head /\ taken' = taken
  BY DEF EnqStore, sendVars
<1>3. /\ q_tail' = [q_tail EXCEPT ![h[c]] = NextSlot(@)]
      /\ msg_q' = [msg_q EXCEPT ![h[c]][q_tail[h[c]]] = msg[c]]
      /\ accepted' = [accepted EXCEPT ![h[c]] = Append(@, msg[c])]
  BY DEF EnqStore
<1>4. k \in DOMAIN q_tail /\ k \in DOMAIN msg_q /\ k \in DOMAIN accepted
  BY DEF HeldInv, TypeOK
<1>5. QED
  BY <1>1, <1>2, <1>3, <1>4

LEMMA DeqFetchAt ==
  ASSUME HeldInv, NEW j \in Handles, DeqFetch(j), NEW k \in Handles
  PROVE  /\ spc[j] = "fetch" /\ q_tail' = q_tail /\ msg_q' = msg_q /\ accepted' = accepted
         /\ k = j => /\ q_head'[k] = NextSlot(q_head[k])
                     /\ taken'[k] = Append(taken[k], msg_q[k][q_head[k]])
                     /\ smsg'[k] = msg_q[k][q_head[k]] /\ spc'[k] = "up"
         /\ k # j => /\ q_head'[k] = q_head[k] /\ taken'[k] = taken[k]
                     /\ smsg'[k] = smsg[k] /\ spc'[k] = spc[k]
BY DEF HeldInv, TypeOK, DeqFetch

LEMMA NextIsWrap ==
  ASSUME WrapsAtDepth, NEW s \in Slots
  PROVE  NextSlot(s) = Wrap(s + 1)
BY DepthAssumption DEF WrapsAtDepth, Wrap, Slots

\* Two messages that wait never share a slot.
LEMMA RowIsInjective ==
  ASSUME NEW s \in Slots, NEW a \in Nat, NEW b \in Nat, a < b, b < MAX_SEND_DEPTH
  PROVE  Wrap(s + a) # Wrap(s + b) /\ Wrap(s + a) \in Slots
BY DepthAssumption DEF Wrap, Slots

LEMMA WrapShift ==
  ASSUME NEW s \in Slots, NEW j \in Nat, j < MAX_SEND_DEPTH
  PROVE  /\ Wrap(Wrap(s + 1) + j) = Wrap(s + (j + 1))
         /\ Wrap(s + 1) \in Slots
         /\ Wrap(Wrap(s + j) + 1) = Wrap(s + (j + 1))
         /\ Wrap(s + 0) = s
BY DepthAssumption DEF Wrap, Slots

\* A step of enq_send puts one more message at the end of the row; the slot it
\* writes is free because a waiting message would be counted by q_full.
LEMMA StoreExtendsRow ==
  ASSUME HeldInv, SlotsAccounted, RowInv, WrapsAtDepth,
         NEW c \in Threads, EnqStore(c), NEW k \in Handles
  PROVE  Row(k)'
<1> DEFINE L == Len(accepted[k])  T == Len(taken[k])  W == Waiting(k)
           hd == q_head[k]
<1>1. /\ L \in Nat /\ T \in Nat /\ W \in Nat /\ L = T + W
      /\ k = h[c] => W < MAX_SEND_DEPTH
  BY WaitingFacts DEF HeldInv, EnqStore
<1>2. /\ hd \in Slots /\ q_tail[k] \in Slots
      /\ msg_q[k] \in [Slots -> Msg \cup {NoMsg}] /\ accepted[k] \in Seq(Msg)
      /\ q_tail[k] = Wrap(hd + W)
      /\ \A j \in 0 .. W - 1 : msg_q[k][Wrap(hd + j)] = accepted[k][T + 1 + j]
  BY DEF HeldInv, TypeOK, RowInv, Row
<1>3. CASE k # h[c]
  <2>1. /\ q_tail'[k] = q_tail[k] /\ msg_q'[k] = msg_q[k] /\ accepted'[k] = accepted[k]
        /\ q_head'[k] = hd /\ taken'[k] = taken[k]
    BY <1>3, EnqStoreAt
  <2>2. Waiting(k)' = W
    BY <2>1 DEF Waiting
  <2>3. QED
    BY <1>2, <2>1, <2>2 DEF Row
<1>4. CASE k = h[c]
  <2>1. /\ q_head'[k] = hd /\ taken'[k] = taken[k] /\ msg[c] \in Msg
        /\ q_tail'[k] = NextSlot(q_tail[k])
        /\ msg_q'[k] = [msg_q[k] EXCEPT ![q_tail[k]] = msg[c]]
        /\ accepted'[k] = Append(accepted[k], msg[c])
    BY <1>4, EnqStoreAt
  <2>2. /\ Len(accepted'[k]) = L + 1
        /\ \A n \in 1 .. L : accepted'[k][n] = accepted[k][n]
        /\ accepted'[k][L + 1] = msg[c]
    BY <1>2, <2>1
  <2>3. Waiting(k)' = W + 1
    BY <1>1, <2>1, <2>2 DEF Waiting
  <2>4. q_tail'[k] = Wrap(hd + (W + 1))
    <3>1. NextSlot(q_tail[k]) = Wrap(q_tail[k] + 1)
      BY <1>2, NextIsWrap
    <3>2. Wrap(Wrap(hd + W) + 1) = Wrap(hd + (W + 1))
      BY <1>1, <1>2, <1>4, WrapShift
    <3>3. QED
      BY <1>2, <2>1, <3>1, <3>2
  <2>5. ASSUME NEW j \in 0 .. (W + 1) - 1
        PROVE  msg_q'[k][Wrap(hd + j)] = accepted'[k][T + 1 + j]
    <3>1. j \in Nat /\ (j < W \/ j = W)
      BY <1>1
    <3>2. CASE j < W
      <4>1. Wrap(hd + j) # q_tail[k] /\ Wrap(hd + j) \in Slots
        BY <1>1, <1>2, <1>4, <3>1, <3>2, RowIsInjective
      <4>2. j \in 0 .. W - 1 /\ T + 1 + j \in 1 .. L
        BY <1>1, <3>1, <3>2
      <4>3. msg_q[k][Wrap(hd + j)] = accepted[k][T + 1 + j]
        BY <1>2, <4>2
      <4>4. msg_q'[k][Wrap(hd + j)] = msg_q[k][Wrap(hd + j)]
        BY <1>2, <2>1, <4>1
      <4>5. QED
        BY <2>2, <4>2, <4>3, <4>4
    <3>3. CASE j = W
      <4>1. T + 1 + j = L + 1
        BY <1>1, <3>3
      <4>2. msg_q'[k][q_tail[k]] = msg[c]
        BY <1>2, <2>1
      <4>3. QED
        BY <1>2, <2>2, <3>3, <4>1, <4>2
    <3>4. QED
      BY <3>1, <3>2, <3>3
  <2>6. QED
    BY <2>1, <2>3, <2>4, <2>5 DEF Row
<1>5. QED
  BY <1>3, <1>4

\* A step of deq_send takes the first message of the row, and it is the next
\* one that was accepted.
LEMMA FetchShortensRow ==
  ASSUME HeldInv, SlotsAccounted, RowInv, WrapsAtDepth,
         NEW k \in Handles, DeqFetch(k)
  PROVE  /\ Row(k)'
         /\ Len(taken[k]) < Len(accepted[k])
         /\ msg_q[k][q_head[k]] = accepted[k][Len(taken[k]) + 1]
<1> DEFINE L == Len(accepted[k])  T == Len(taken[k])  W == Waiting(k)
           hd == q_head[k]
<1>1. /\ spc[k] = "fetch" /\ q_tail' = q_tail /\ msg_q' = msg_q /\ accepted' = accepted
      /\ q_head'[k] = NextSlot(hd) /\ taken'[k] = Append(taken[k], msg_q[k][hd])
  BY DeqFetchAt
<1>2. /\ L \in Nat /\ T \in Nat /\ W \in Nat /\ L = T + W
      /\ W > 0 /\ W <= MAX_SEND_DEPTH /\ MAX_SEND_DEPTH \in Nat
  BY <1>1, WaitingFacts, HandleFacts DEF HeldInv
<1>3. /\ hd \in Slots /\ q_tail[k] \in Slots /\ taken[k] \in Seq(Msg \cup {NoMsg})
      /\ q_tail[k] = Wrap(hd + W)
      /\ \A j \in 0 .. W - 1 : msg_q[k][Wrap(hd + j)] = accepted[k][T + 1 + j]
  BY DEF HeldInv, TypeOK, RowInv, Row
<1>4. Len(taken'[k]) = T + 1
  BY <1>1, <1>3
<1>5. Waiting(k)' = W - 1
  BY <1>1, <1>2, <1>4 DEF Waiting
<1>6. q_head'[k] = Wrap(hd + 1)
  BY <1>1, <1>3, NextIsWrap
<1>7. ASSUME NEW j \in Nat, j < W
      PROVE  Wrap(q_head'[k] + j) = Wrap(hd + (j + 1))
  <2>1. j < MAX_SEND_DEPTH
    BY <1>2, <1>7
  <2>2. Wrap(Wrap(hd + 1) + j) = Wrap(hd + (j + 1))
    BY <2>1, <1>3, <1>7, WrapShift
  <2>3. QED
    BY <2>2, <1>6
<1>8. q_tail'[k] = Wrap(q_head'[k] + (W - 1))
  <2>1. W - 1 \in Nat /\ W - 1 < W /\ (W - 1) + 1 = W
    BY <1>2
  <2>2. Wrap(q_head'[k] + (W - 1)) = Wrap(hd + ((W - 1) + 1))
    BY <1>7, <2>1
  <2>3. QED
    BY <1>1, <1>3, <2>1, <2>2
<1>9. ASSUME NEW j \in 0 .. (W - 1) - 1
      PROVE  msg_q[k][Wrap(q_head'[k] + j)] = accepted[k][(T + 1) + 1 + j]
  <2>1. j \in Nat /\ j < W /\ j + 1 \in 0 .. W - 1
    BY <1>2
  <2>2. msg_q[k][Wrap(hd + (j + 1))] = accepted[k][T + 1 + (j + 1)]
    BY <1>3, <2>1
  <2>3. Wrap(q_head'[k] + j) = Wrap(hd + (j + 1))
    BY <1>7, <2>1
  <2>4. T \in Nat /\ j \in Nat
    BY <1>2, <2>1
  <2> HIDE DEF hd, T
  <2>5. (T + 1) + 1 + j = T + 1 + (j + 1)
    BY <2>4
  <2>6. QED
    BY <2>2, <2>3, <2>5
<1>10. Row(k)'
  BY <1>1, <1>4, <1>5, <1>8, <1>9 DEF Row
<1>11. msg_q[k][hd] = accepted[k][T + 1]
  <2>1. 0 \in 0 .. W - 1
    BY <1>2
  <2>2. msg_q[k][Wrap(hd + 0)] = accepted[k][T + 1 + 0]
    BY <1>3, <2>1
  <2>3. Wrap(hd + 0) = hd
    BY <1>2, <1>3, WrapShift
  <2>4. QED
    BY <1>2, <2>2, <2>3
<1>12. QED
  BY <1>2, <1>10, <1>11

\* With a depth that is a power of two, every message waits in a slot of its own,
\* in the order of acceptance, in every handle.
LEMMA RowCorrect == ASSUME WrapsAtDepth PROVE Spec => []RowInv
<1>1. Init => RowInv
  BY DepthAssumption DEF Init, RowInv, Row, Waiting, Wrap, Slots
<1>2. HeldInv /\ SlotsAccounted /\ RowInv /\ [Next]_vars => RowInv'
  <2> SUFFICES ASSUME HeldInv, SlotsAccounted, RowInv, [Next]_vars, NEW k \in Handles
               PROVE  Row(k)'
    BY DEF RowInv
  <2>1. ASSUME NEW c \in Threads, EnqStore(c) PROVE Row(k)'
    BY <2>1, StoreExtendsRow
  <2>2. ASSUME NEW j \in Handles, DeqFetch(j) PROVE Row(k)'
    <3>1. CASE k = j
      BY <2>2, <3>1, FetchShortensRow
    <3>2. CASE k # j
      <4>1. /\ q_tail'[k] = q_tail[k] /\ msg_q'[k] = msg_q[k] /\ accepted'[k] = accepted[k]
            /\ q_head'[k] = q_head[k] /\ taken'[k] = taken[k]
        BY <2>2, <3>2, DeqFetchAt
      <4>2. Waiting(k)' = Waiting(k)
        BY <4>1 DEF Waiting
      <4>3. QED
        BY <4>1, <4>2 DEF RowInv, Row
    <3>3. QED
      BY <3>1, <3>2
  <2>3. CASE UNCHANGED <<q_head, q_tail, msg_q, accepted, taken>>
    BY <2>3 DEF RowInv, Row, Waiting
  <2>4. QED
    BY <2>1, <2>2, <2>3, RingMoves
<1>3. QED
  BY <1>1, <1>2, HeldCorrect, SlotsCorrect, PTL DEF Spec

\* What the send threads have fetched is the beginning of what enq_send stored.
LEMMA OrderCorrect == ASSUME WrapsAtDepth PROVE Spec => []FifoOrder
<1>1. Init => FifoOrder
  BY DEF Init, FifoOrder
<1>2. HeldInv /\ SlotsAccounted /\ RowInv /\ FifoOrder /\ [Next]_vars => FifoOrder'
  <2> SUFFICES ASSUME HeldInv, SlotsAccounted, RowInv, FifoOrder, [Next]_vars,
                      NEW k \in Handles
               PROVE  /\ Len(taken'[k]) <= Len(accepted'[k])
                      /\ \A n \in 1 .. Len(taken'[k]) : taken'[k][n] = accepted'[k][n]
    BY DEF FifoOrder
  <2> DEFINE L == Len(accepted[k])  T == Len(taken[k])
  <2>h. /\ L \in Nat /\ T \in Nat /\ T <= L
        /\ accepted[k] \in Seq(Msg) /\ taken[k] \in Seq(Msg \cup {NoMsg})
        /\ \A n \in 1 .. T : taken[k][n] = accepted[k][n]
    BY DEF HeldInv, TypeOK, FifoOrder
  <2>1. ASSUME NEW c \in Threads, EnqStore(c)
        PROVE  /\ Len(taken'[k]) <= Len(accepted'[k])
               /\ \A n \in 1 .. Len(taken'[k]) : taken'[k][n] = accepted'[k][n]
    <3>1. CASE k = h[c]
      <4>1. taken'[k] = taken[k] /\ accepted'[k] = Append(accepted[k], msg[c])
        BY <2>1, <3>1, EnqStoreAt
      <4>2. Len(accepted'[k]) = L + 1 /\ \A n \in 1 .. L : accepted'[k][n] = accepted[k][n]
        BY <2>h, <4>1
      <4>3. QED
        BY <2>h, <4>1, <4>2
    <3>2. CASE k # h[c]
      BY <2>h, <2>1, <3>2, EnqStoreAt
    <3>3. QED
      BY <3>1, <3>2
  <2>2. ASSUME NEW j \in Handles, DeqFetch(j)
        PROVE  /\ Len(taken'[k]) <= Len(accepted'[k])
               /\ \A n \in 1 .. Len(taken'[k]) : taken'[k][n] = accepted'[k][n]
    <3>1. CASE k = j
      <4>1. /\ T < L /\ accepted' = accepted
            /\ taken'[k] = Append(taken[k], accepted[k][T + 1])
        BY <2>2, <3>1, FetchShortensRow, DeqFetchAt
      <4>2. /\ Len(taken'[k]) = T + 1
            /\ \A n \in 1 .. T : taken'[k][n] = taken[k][n]
            /\ taken'[k][T + 1] = accepted[k][T + 1]
        BY <2>h, <4>1
      <4>3. QED
        BY <2>h, <4>1, <4>2
    <3>2. CASE k # j
      BY <2>h, <2>2, <3>2, DeqFetchAt
    <3>3. QED
      BY <3>1, <3>2
  <2>3. CASE UNCHANGED <<q_head, q_tail, msg_q, accepted, taken>>
    BY <2>h, <2>3
  <2>4. QED
    BY <2>1, <2>2, <2>3, RingMoves
<1>3. QED
  BY <1>1, <1>2, HeldCorrect, SlotsCorrect, RowCorrect, PTL DEF Spec

-----------------------------------------------------------------------------
(* Messages are told apart: no two calls of enq_send store the same one *)

Issued == ({"demo"} \X (1 .. demos)) \cup ({"upper"} \X (1 .. calls))
Holds(c) == pc[c] \in {"scan", "down", "lock"}

\* Every message was handed over by some call, to one thread, which stores it
\* once, in one place.
IdentityInv ==
  /\ demos <= NUM_MSGS /\ calls <= MaxCalls
  /\ \A c \in Threads : Holds(c) => msg[c] \in Issued
  /\ \A c, d \in Threads : Holds(c) /\ Holds(d) /\ msg[c] = msg[d] => c = d
  /\ \A k \in Handles : \A n \in 1 .. Len(accepted[k]) :
        /\ accepted[k][n] \in Issued
        /\ \A c \in Threads : Holds(c) => accepted[k][n] # msg[c]
        /\ \A m \in 1 .. Len(accepted[k]) : accepted[k][n] = accepted[k][m] => n = m

LEMMA Fresh ==
  ASSUME calls \in Nat, demos \in Nat
  PROVE  <<"upper", calls + 1>> \notin Issued /\ <<"demo", demos + 1>> \notin Issued
BY DEF Issued

\* A thread that takes up a message nobody has seen keeps messages apart ...
LEMMA NewMessage ==
  ASSUME TypeOK, IdentityInv, NEW c \in Threads, ~ Holds(c), NEW m,
         m \notin Issued, m \in Issued', Issued \subseteq Issued',
         demos' <= NUM_MSGS, calls' <= MaxCalls,
         msg' = [msg EXCEPT ![c] = m], pc' = [pc EXCEPT ![c] = "scan"],
         accepted' = accepted
  PROVE  IdentityInv'
<1>1. \A d \in Threads : msg'[d] = IF d = c THEN m ELSE msg[d]
  BY DEF TypeOK
<1>2. \A d \in Threads : d # c => (Holds(d)' <=> Holds(d))
  BY DEF TypeOK, Holds
<1>3. \A d \in Threads : Holds(d)' => msg'[d] \in Issued'
  BY <1>1, <1>2 DEF IdentityInv
<1>4. \A d, e \in Threads : Holds(d)' /\ Holds(e)' /\ msg'[d] = msg'[e] => d = e
  BY <1>1, <1>2 DEF IdentityInv
<1>5. \A k \in Handles : \A n \in 1 .. Len(accepted[k]) :
        \A d \in Threads : Holds(d)' => accepted[k][n] # msg'[d]
  BY <1>1, <1>2 DEF IdentityInv
<1>6. QED
  BY <1>3, <1>4, <1>5 DEF IdentityInv

\* ... and so does one that goes on with its message, or is done with it.
LEMMA SameMessages ==
  ASSUME IdentityInv, UNCHANGED <<calls, demos, accepted>>,
         \A d \in Threads : Holds(d)' => Holds(d) /\ msg'[d] = msg[d]
  PROVE  IdentityInv'
<1>1. Issued' = Issued
  BY DEF Issued
<1>2. \A d \in Threads : Holds(d)' => msg'[d] \in Issued
  BY DEF IdentityInv
<1>3. \A d, e \in Threads : Holds(d)' /\ Holds(e)' /\ msg'[d] = msg'[e] => d = e
  BY DEF IdentityInv
<1>4. \A k \in Handles : \A n \in 1 .. Len(accepted[k]) :
        \A d \in Threads : Holds(d)' => accepted[k][n] # msg'[d]
  BY DEF IdentityInv
<1>5. QED
  BY <1>1, <1>2, <1>3, <1>4 DEF IdentityInv

\* IdentityInv holds, whichever threads call enq_send.
LEMMA IdentityCorrect == Spec => []IdentityInv
<1>1. Init => IdentityInv
  BY CountsAssumption DEF Init, IdentityInv, Holds
<1>2. HeldInv /\ IdentityInv /\ [Next]_vars => IdentityInv'
  <2> SUFFICES ASSUME HeldInv, IdentityInv, [Next]_vars PROVE IdentityInv'
    OBVIOUS
  <2>h. TypeOK /\ calls \in Nat /\ demos \in Nat
    BY DEF HeldInv, TypeOK
  <2>1. CASE TestCall
    <3>1. /\ demos' = demos + 1 /\ calls' = calls /\ accepted' = accepted
          /\ pc[Loader] = "idle" /\ pc' = [pc EXCEPT ![Loader] = "scan"]
          /\ msg' = [msg EXCEPT ![Loader] = <<"demo", demos + 1>>]
          /\ demos < NUM_MSGS
      BY <2>1 DEF TestCall
    <3>2. <<"demo", demos + 1>> \in Issued' /\ Issued \subseteq Issued'
      BY <2>h, <3>1 DEF Issued
    <3>3. demos' <= NUM_MSGS /\ calls' <= MaxCalls
      BY <2>h, <3>1, CountsAssumption DEF IdentityInv
    <3>4. ~ Holds(Loader)
      BY <3>1 DEF Holds
    <3>5. QED
      BY <2>h, <3>1, <3>2, <3>3, <3>4, Fresh, NewMessage, ThreadFacts
  <2>2. ASSUME NEW c \in Threads, Call(c) PROVE IdentityInv'
    <3>1. /\ calls' = calls + 1 /\ demos' = demos /\ accepted' = accepted
          /\ pc[c] = "idle" /\ pc' = [pc EXCEPT ![c] = "scan"]
          /\ msg' = [msg EXCEPT ![c] = <<"upper", calls + 1>>]
          /\ calls < MaxCalls
      BY <2>2 DEF Call
    <3>2. <<"upper", calls + 1>> \in Issued' /\ Issued \subseteq Issued'
      BY <2>h, <3>1 DEF Issued
    <3>3. demos' <= NUM_MSGS /\ calls' <= MaxCalls
      BY <2>h, <3>1, CountsAssumption DEF IdentityInv
    <3>4. ~ Holds(c)
      BY <3>1 DEF Holds
    <3>5. QED
      BY <2>h, <3>1, <3>2, <3>3, <3>4, Fresh, NewMessage
  <2>3. ASSUME NEW c \in Threads, ScanEmpty(c) \/ ScanNext(c) \/ DownFull(c)
        PROVE  IdentityInv'
    <3>1. msg' = msg /\ UNCHANGED <<calls, demos, accepted>>
      BY <2>3 DEF ScanEmpty, ScanNext, DownFull
    <3>2. pc[c] \in {"scan", "down"} /\ \A d \in Threads : d # c => pc'[d] = pc[d]
      <4>1. CASE i[c] = NUMBER_OF_HANDLES - 1 /\ ScanNext(c)
        BY <2>h, <4>1 DEF ScanNext, TypeOK
      <4>2. CASE i[c] # NUMBER_OF_HANDLES - 1 /\ ScanNext(c)
        BY <2>h, <4>2 DEF ScanNext, TypeOK
      <4>3. QED
        BY <2>h, <2>3, <4>1, <4>2 DEF ScanEmpty, DownFull, TypeOK
    <3>3. \A d \in Threads : Holds(d)' => Holds(d)
      BY <3>2 DEF Holds
    <3>4. QED
      BY <3>1, <3>3, SameMessages
  <2>4. ASSUME NEW c \in Threads, EnqStore(c) PROVE IdentityInv'
    <3>1. /\ msg' = msg /\ UNCHANGED <<calls, demos>> /\ pc[c] = "lock"
          /\ \A d \in Threads : pc'[d] = IF d = c THEN "inc" ELSE pc[d]
      BY <2>h, <2>4 DEF EnqStore, TypeOK
    <3>2. Holds(c) /\ \A d \in Threads : Holds(d)' <=> Holds(d) /\ d # c
      BY <3>1 DEF Holds
    <3>3. Issued' = Issued
      BY <3>1 DEF Issued
    <3>4. ASSUME NEW k \in Handles, NEW n \in 1 .. Len(accepted'[k])
          PROVE  /\ accepted'[k][n] \in Issued
                 /\ \A d \in Threads : Holds(d)' => accepted'[k][n] # msg[d]
                 /\ \A m \in 1 .. Len(accepted'[k]) :
                      accepted'[k][n] = accepted'[k][m] => n = m
      <4>1. CASE k # h[c]
        <5>1. accepted'[k] = accepted[k]
          BY <2>4, <4>1, EnqStoreAt
        <5>2. QED
          BY <3>2, <3>4, <5>1 DEF IdentityInv
      <4>2. CASE k = h[c]
        <5> DEFINE L == Len(accepted[k])
        <5>1. accepted[k] \in Seq(Msg) /\ accepted'[k] = Append(accepted[k], msg[c])
          BY <2>h, <2>4, <4>2, EnqStoreAt DEF TypeOK
        <5>2. /\ L \in Nat /\ Len(accepted'[k]) = L + 1
              /\ \A m \in 1 .. L : accepted'[k][m] = accepted[k][m]
              /\ accepted'[k][L + 1] = msg[c]
          BY <5>1
        <5>3. \A m \in 1 .. L + 1 : m \in 1 .. L \/ m = L + 1
          BY <5>2
        <5>4. /\ msg[c] \in Issued
              /\ \A d \in Threads : Holds(d)' => msg[c] # msg[d]
              /\ \A m \in 1 .. L : accepted[k][m] # msg[c]
          BY <3>2 DEF IdentityInv
        <5>5. \A m \in 1 .. L :
                /\ accepted[k][m] \in Issued
                /\ \A d \in Threads : Holds(d)' => accepted[k][m] # msg[d]
                /\ \A q \in 1 .. L : accepted[k][m] = accepted[k][q] => m = q
          BY <3>2 DEF IdentityInv
        <5> HIDE DEF L
        <5>6. QED
          BY <3>4, <5>2, <5>3, <5>4, <5>5
      <4>3. QED
        BY <4>1, <4>2
    <3>5. /\ \A d \in Threads : Holds(d)' => msg'[d] \in Issued
          /\ \A d, e \in Threads : Holds(d)' /\ Holds(e)' /\ msg'[d] = msg'[e] => d = e
          /\ demos' <= NUM_MSGS /\ calls' <= MaxCalls
      BY <3>1, <3>2 DEF IdentityInv
    <3>6. QED
      BY <3>1, <3>3, <3>4, <3>5 DEF IdentityInv
  <2>5. ASSUME NEW c \in Threads, EnqInc(c) \/ UpEmpty(c) PROVE IdentityInv'
    <3>1. /\ UNCHANGED <<calls, demos, accepted>>
          /\ \A d \in Threads : d # c => pc'[d] = pc[d] /\ msg'[d] = msg[d]
          /\ pc'[c] \in {"up", "idle"}
      BY <2>h, <2>5 DEF EnqInc, UpEmpty, TypeOK
    <3>2. \A d \in Threads : Holds(d)' => Holds(d) /\ msg'[d] = msg[d]
      BY <3>1 DEF Holds
    <3>3. QED
      BY <3>1, <3>2, SameMessages
  <2>6. CASE UNCHANGED <<pc, msg, calls, demos, accepted>>
    BY <2>6, SameMessages DEF Holds
  <2>7. ASSUME NEW k \in Handles, SendStep(k) \/ StartHandlers(k) PROVE IdentityInv'
    BY <2>6, <2>7 DEF SendStep, DownEmpty, DeqFetch, UpFull, LoopSend, DecRead, DecWrite,
                      LoopEnd, StartHandlers, callerVars
  <2>8. QED
    BY <2>1, <2>2, <2>3, <2>4, <2>5, <2>6, <2>7, ThreadFacts
    DEF Next, LoadStep, CallerStep, Rest, vars
<1>3. QED
  BY <1>1, <1>2, HeldCorrect, PTL DEF Spec

\* Every handle implements the bounded FIFO, for every depth that is a power of
\* two: a store of enq_send is an acceptance by the handle that find_low_queue
\* chose, a fetch of deq_send a taking, and nothing else shows.
THEOREM HandlesImplementFifo == ASSUME WrapsAtDepth PROVE Spec => QueuesAreFifo
<1>1. Init => \A k \in Handles : Queue(k)!Init
  BY DEF Init, Queue!Init
<1>2. /\ HeldInv /\ SlotsAccounted /\ RowInv /\ IdentityInv /\ [Next]_vars
      => [\A k \in Handles : [Queue(k)!Next]_(Queue(k)!fifoVars)]_<<accepted, taken>>
  <2> SUFFICES ASSUME HeldInv, SlotsAccounted, RowInv, IdentityInv, [Next]_vars,
                      NEW k \in Handles
               PROVE  \/ Queue(k)!Next
                      \/ accepted'[k] = accepted[k] /\ taken'[k] = taken[k]
    BY DEF Queue!fifoVars
  <2>1. ASSUME NEW c \in Threads, EnqStore(c), k = h[c] PROVE Queue(k)!Next
    <3>1. accepted'[k] = Append(accepted[k], msg[c]) /\ taken'[k] = taken[k] /\ pc[c] = "lock"
      BY <2>1, EnqStoreAt
    <3>2. msg[c] \in Sendable
      <4>1. Holds(c) /\ msg[c] \in Issued
        BY <3>1 DEF IdentityInv, Holds
      <4>2. calls \in Nat /\ demos \in Nat /\ demos <= NUM_MSGS /\ calls <= MaxCalls
        BY DEF HeldInv, TypeOK, IdentityInv
      <4>3. 1 .. demos \subseteq 1 .. NUM_MSGS /\ 1 .. calls \subseteq 1 .. MaxCalls
        BY <4>2, CountsAssumption
      <4>4. QED
        BY <4>1, <4>3 DEF Issued, Sendable
    <3>3. Len(accepted[k]) < Len(taken[k]) + MAX_SEND_DEPTH
      <4>1. /\ Waiting(k) \in Nat /\ Waiting(k) < MAX_SEND_DEPTH
            /\ Len(accepted[k]) = Len(taken[k]) + Waiting(k)
            /\ Len(taken[k]) \in Nat /\ MAX_SEND_DEPTH \in Nat
        BY <2>1, <3>1, WaitingFacts, HandleFacts DEF HeldInv
      <4>2. QED
        BY <4>1
    <3>4. Queue(k)!Accept(msg[c])
      BY <3>1, <3>3 DEF Queue!Accept
    <3>5. QED
      BY <3>2, <3>4 DEF Queue!Next
  <2>2. ASSUME DeqFetch(k) PROVE Queue(k)!Next
    <3>1. /\ Len(taken[k]) < Len(accepted[k]) /\ accepted'[k] = accepted[k]
          /\ taken'[k] = Append(taken[k], accepted[k][Len(taken[k]) + 1])
      BY <2>2, FetchShortensRow, DeqFetchAt
    <3>2. Queue(k)!Take
      BY <3>1 DEF Queue!Take
    <3>3. QED
      BY <3>2 DEF Queue!Next
  <2>3. ASSUME NEW c \in Threads, EnqStore(c), k # h[c]
        PROVE  accepted'[k] = accepted[k] /\ taken'[k] = taken[k]
    BY <2>3, EnqStoreAt
  <2>4. ASSUME NEW j \in Handles, DeqFetch(j), k # j
        PROVE  accepted'[k] = accepted[k] /\ taken'[k] = taken[k]
    BY <2>4, DeqFetchAt
  <2>5. QED
    BY <2>1, <2>2, <2>3, <2>4, RingMoves
<1>3. QED
  BY <1>1, <1>2, HeldCorrect, SlotsCorrect, RowCorrect, IdentityCorrect, PTL
  DEF Spec, QueuesAreFifo

-----------------------------------------------------------------------------
(* The order on the wire *)

Sending == {"up", "loop", "dec", "write"}

\* A send thread has the last message it fetched in hand, and what it has sent
\* are fetched messages, in the order of fetching: some more than once, some
\* not at all.
WireInv ==
  \A k \in Handles :
    /\ spc[k] \in Sending => Len(taken[k]) > 0 /\ smsg[k] = taken[k][Len(taken[k])]
    /\ \A n \in 1 .. Len(wire[k]) :
         /\ \E p \in 1 .. Len(taken[k]) : taken[k][p] = wire[k][n]
         /\ \A p, q \in 1 .. Len(taken[k]) :
              n > 1 /\ taken[k][p] = wire[k][n - 1] /\ taken[k][q] = wire[k][n] => p <= q

\* What was fetched is told apart as what was stored is.
TakenApart ==
  \A k \in Handles : \A p, q \in 1 .. Len(taken[k]) : taken[k][p] = taken[k][q] => p = q

LEMMA TakenCorrect == ASSUME WrapsAtDepth PROVE Spec => []TakenApart
<1>1. TypeOK /\ FifoOrder /\ IdentityInv => TakenApart
  <2> SUFFICES ASSUME TypeOK, FifoOrder, IdentityInv, NEW k \in Handles,
                      NEW p \in 1 .. Len(taken[k]), NEW q \in 1 .. Len(taken[k]),
                      taken[k][p] = taken[k][q]
               PROVE  p = q
    BY DEF TakenApart
  <2>1. /\ Len(taken[k]) \in Nat /\ Len(accepted[k]) \in Nat
        /\ Len(taken[k]) <= Len(accepted[k])
    BY DEF TypeOK, FifoOrder
  <2>2. p \in 1 .. Len(accepted[k]) /\ q \in 1 .. Len(accepted[k])
    BY <2>1
  <2>3. accepted[k][p] = accepted[k][q]
    BY DEF FifoOrder
  <2>4. QED
    BY <2>2, <2>3 DEF IdentityInv
<1>2. QED
  BY <1>1, HandlesTypeCorrect, OrderCorrect, IdentityCorrect, PTL

\* The steps that leave what was fetched and sent alone.
LEMMA WireKeeps ==
  ASSUME TypeOK, [Next]_vars, \A k \in Handles : ~ DeqFetch(k) /\ ~ LoopSend(k)
  PROVE  /\ taken' = taken /\ wire' = wire
         /\ \A k \in Handles : spc'[k] \in Sending => spc[k] \in Sending /\ smsg'[k] = smsg[k]
<1>1. CASE TestCall \/ (\E c \in Callers : Call(c)) \/ \E c \in Threads : CallerStep(c)
  BY <1>1 DEF TestCall, Call, CallerStep, ScanEmpty, ScanNext, DownFull, EnqStore, EnqInc,
              UpEmpty, sendVars
<1>2. ASSUME NEW k \in Handles, SendStep(k) \/ StartHandlers(k), ~ DeqFetch(k), ~ LoopSend(k)
      PROVE  /\ taken' = taken /\ wire' = wire
             /\ \A j \in Handles : spc'[j] \in Sending => spc[j] \in Sending /\ smsg'[j] = smsg[j]
  <2>1. taken' = taken /\ wire' = wire
    BY <1>2 DEF SendStep, DownEmpty, UpFull, DecRead, DecWrite, LoopEnd, StartHandlers
  <2>2. ASSUME NEW j \in Handles, spc'[j] \in Sending
        PROVE  spc[j] \in Sending /\ smsg'[j] = smsg[j]
    BY <1>2, <2>2 DEF SendStep, DownEmpty, UpFull, DecRead, DecWrite, LoopEnd, StartHandlers,
                      Sending, TypeOK
  <2>3. QED
    BY <2>1, <2>2
<1>3. CASE UNCHANGED vars
  BY <1>3 DEF vars
<1>4. QED
  BY <1>1, <1>2, <1>3 DEF Next, LoadStep, Rest

\* WireInv holds: a fetch moves the message in hand on by one, and whatever the
\* counter says, the loop of deq_send sends that message.
LEMMA WireCorrect == ASSUME WrapsAtDepth PROVE Spec => []WireInv
<1>1. Init => WireInv
  BY DEF Init, WireInv, Sending
<1>2. HeldInv /\ TakenApart /\ TakenApart' /\ WireInv /\ [Next]_vars => WireInv'
  <2> SUFFICES ASSUME HeldInv, TakenApart, TakenApart', WireInv, [Next]_vars,
                      NEW k \in Handles
               PROVE  /\ spc'[k] \in Sending => Len(taken'[k]) > 0
                                                /\ smsg'[k] = taken'[k][Len(taken'[k])]
                      /\ \A n \in 1 .. Len(wire'[k]) :
                           /\ \E p \in 1 .. Len(taken'[k]) : taken'[k][p] = wire'[k][n]
                           /\ \A p, q \in 1 .. Len(taken'[k]) :
                                n > 1 /\ taken'[k][p] = wire'[k][n - 1]
                                      /\ taken'[k][q] = wire'[k][n] => p <= q
    BY DEF WireInv
  <2> DEFINE T == Len(taken[k])  N == Len(wire[k])
  <2>t. TypeOK
    BY DEF HeldInv
  <2>h. /\ T \in Nat /\ N \in Nat
        /\ taken[k] \in Seq(Msg \cup {NoMsg}) /\ wire[k] \in Seq(Msg \cup {NoMsg})
    BY <2>t DEF TypeOK
  <2>w. /\ spc[k] \in Sending => T > 0 /\ smsg[k] = taken[k][T]
        /\ \A n \in 1 .. N :
             /\ \E p \in 1 .. T : taken[k][p] = wire[k][n]
             /\ \A p, q \in 1 .. T :
                  n > 1 /\ taken[k][p] = wire[k][n - 1] /\ taken[k][q] = wire[k][n] => p <= q
    BY DEF WireInv
  <2>d. \A p, q \in 1 .. T : taken[k][p] = taken[k][q] => p = q
    BY DEF TakenApart
  <2>1. CASE DeqFetch(k)
    <3> DEFINE m == msg_q[k][q_head[k]]
    <3>1. /\ taken'[k] = Append(taken[k], m) /\ smsg'[k] = m /\ wire' = wire
      BY <2>1, DeqFetchAt DEF DeqFetch
    <3>2. /\ Len(taken'[k]) = T + 1 /\ taken'[k][T + 1] = m
          /\ \A p \in 1 .. T : taken'[k][p] = taken[k][p]
      BY <2>h, <3>1
    <3>3. \A p \in 1 .. T : taken[k][p] # m
      <4>1. \A p, q \in 1 .. Len(taken'[k]) : taken'[k][p] = taken'[k][q] => p = q
        BY DEF TakenApart
      <4>2. T + 1 \in 1 .. T + 1 /\ \A p \in 1 .. T : p \in 1 .. T + 1 /\ p # T + 1
        BY <2>h
      <4>3. QED
        BY <3>2, <4>1, <4>2
    <3>4. \A p \in 1 .. T + 1 : p \in 1 .. T \/ p = T + 1
      BY <2>h
    <3>5. \A n \in 1 .. N : \E p \in 1 .. T + 1 : taken'[k][p] = wire[k][n]
      BY <2>h, <2>w, <3>2
    <3>6. \A n \in 1 .. N : wire[k][n] # m
      BY <2>w, <3>3
    <3>7. ASSUME NEW n \in 1 .. N, NEW p \in 1 .. T + 1, NEW q \in 1 .. T + 1, n > 1,
                 taken'[k][p] = wire[k][n - 1], taken'[k][q] = wire[k][n]
          PROVE  p <= q
      <4>1. n - 1 \in 1 .. N
        BY <2>h, <3>7
      <4>2. p \in 1 .. T /\ q \in 1 .. T
        BY <3>2, <3>4, <3>6, <3>7, <4>1
      <4>3. QED
        BY <2>w, <3>2, <3>7, <4>2
    <3>8. T + 1 > 0
      BY <2>h
    <3>9. QED
      BY <3>1, <3>2, <3>5, <3>7, <3>8
  <2>2. CASE LoopSend(k)
    <3>1. /\ spc[k] = "loop" /\ wire'[k] = Append(wire[k], smsg[k])
          /\ taken' = taken /\ smsg' = smsg
      BY <2>2, <2>t DEF LoopSend, TypeOK
    <3>2. T > 0 /\ smsg[k] = taken[k][T] /\ T \in 1 .. T
      BY <2>h, <2>w, <3>1 DEF Sending
    <3>3. /\ Len(wire'[k]) = N + 1 /\ wire'[k][N + 1] = taken[k][T]
          /\ \A n \in 1 .. N : wire'[k][n] = wire[k][n]
      BY <2>h, <3>1, <3>2
    <3>4. \A n \in 1 .. N + 1 : n \in 1 .. N \/ n = N + 1
      BY <2>h
    <3>5. \A n \in 1 .. N + 1 : \E p \in 1 .. T : taken[k][p] = wire'[k][n]
      BY <2>w, <3>2, <3>3, <3>4
    <3>6. ASSUME NEW n \in 1 .. N + 1, NEW p \in 1 .. T, NEW q \in 1 .. T, n > 1,
                 taken[k][p] = wire'[k][n - 1], taken[k][q] = wire'[k][n]
          PROVE  p <= q
      <4>1. CASE n \in 1 .. N
        <5>1. n - 1 \in 1 .. N
          BY <2>h, <3>6, <4>1
        <5>2. QED
          BY <2>w, <3>3, <3>6, <4>1, <5>1
      <4>2. CASE n = N + 1
        <5>1. q = T
          BY <2>d, <3>2, <3>3, <3>6, <4>2
        <5>2. QED
          BY <2>h, <5>1
      <4>3. QED
        BY <3>4, <4>1, <4>2
    <3>7. QED
      BY <3>1, <3>2, <3>3, <3>5, <3>6
  <2>3. ASSUME NEW j \in Handles, DeqFetch(j) \/ LoopSend(j), k # j
        PROVE  taken'[k] = taken[k] /\ wire'[k] = wire[k] /\ spc'[k] = spc[k] /\ smsg'[k] = smsg[k]
    BY <2>3, <2>t DEF DeqFetch, LoopSend, TypeOK
  <2>4. CASE \A j \in Handles : ~ DeqFetch(j) /\ ~ LoopSend(j)
    BY <2>t, <2>w, <2>4, WireKeeps
  <2>5. QED
    BY <2>w, <2>1, <2>2, <2>3, <2>4
<1>3. QED
  BY <1>1, <1>2, HeldCorrect, TakenCorrect, PTL DEF Spec

\* The place of a message in the order of enq_send is where it was stored.
LEMMA PlaceIs ==
  ASSUME IdentityInv, NEW k \in Handles, NEW p \in 1 .. Len(accepted[k])
  PROVE  Place(k, accepted[k][p]) = p
BY DEF Place, IdentityInv

\* Messages of a handle go out in the order in which they were stored, whatever
\* the races of the counter make of their number, for every depth that is a
\* power of two.
THEOREM WireOrderCorrect == ASSUME WrapsAtDepth PROVE Spec => []WireInOrder
<1>1. TypeOK /\ FifoOrder /\ IdentityInv /\ WireInv => WireInOrder
  <2> SUFFICES ASSUME TypeOK, FifoOrder, IdentityInv, WireInv,
                      NEW k \in Handles, NEW n \in 1 .. Len(wire[k])
               PROVE  /\ \E p \in 1 .. Len(accepted[k]) : accepted[k][p] = wire[k][n]
                      /\ n > 1 => Place(k, wire[k][n - 1]) <= Place(k, wire[k][n])
    BY DEF WireInOrder
  <2>1. /\ Len(taken[k]) \in Nat /\ Len(accepted[k]) \in Nat /\ Len(wire[k]) \in Nat
        /\ Len(taken[k]) <= Len(accepted[k])
    BY DEF TypeOK, FifoOrder
  <2>2. \A p \in 1 .. Len(taken[k]) : p \in 1 .. Len(accepted[k])
    BY <2>1
  <2>3. PICK q \in 1 .. Len(taken[k]) : taken[k][q] = wire[k][n]
    BY DEF WireInv
  <2>4. accepted[k][q] = wire[k][n] /\ Place(k, wire[k][n]) = q
    BY <2>2, <2>3, PlaceIs DEF FifoOrder
  <2>5. ASSUME n > 1 PROVE Place(k, wire[k][n - 1]) <= Place(k, wire[k][n])
    <3>1. n - 1 \in 1 .. Len(wire[k])
      BY <2>1, <2>5
    <3>2. PICK p \in 1 .. Len(taken[k]) : taken[k][p] = wire[k][n - 1]
      BY <3>1 DEF WireInv
    <3>3. accepted[k][p] = wire[k][n - 1] /\ Place(k, wire[k][n - 1]) = p
      BY <2>2, <3>2, PlaceIs DEF FifoOrder
    <3>4. p <= q
      BY <2>3, <2>5, <3>2 DEF WireInv
    <3>5. QED
      BY <2>4, <3>3, <3>4
  <2>6. QED
    BY <2>2, <2>4, <2>5
<1>2. QED
  BY <1>1, HandlesTypeCorrect, OrderCorrect, IdentityCorrect, WireCorrect, PTL
=============================================================================
