--------------------------- MODULE SendRingProofs ---------------------------
(***************************************************************************)
(* Proofs about SendRing, for every set of callers, every depth and every  *)
(* number of calls.                                                        *)
(***************************************************************************)
EXTENDS SendRing, RingIndexProofs

LEMMA SlotsFacts == /\ 0 \in Slots
                    /\ Slots \subseteq Nat
                    /\ \A i \in Slots : NextSlot(i) \in Slots
BY DepthAssumption, MaskStays DEF Slots

-----------------------------------------------------------------------------
(* Types *)

\* Every variable keeps its type in every run of the queue.
THEOREM TypeCorrect == Spec => []TypeOK
<1>1. Init => TypeOK
  BY DepthAssumption, SlotsFacts DEF Init, TypeOK
<1>2. TypeOK /\ [Next]_vars => TypeOK'
  <2> SUFFICES ASSUME TypeOK, [Next]_vars PROVE TypeOK'
    OBVIOUS
  <2> USE SlotsFacts, MessagesAssumption, CallersAssumption
      DEF TypeOK, ring, callerVars, sendVars, history
  <2>1. ASSUME NEW c \in Callers, NEW m \in Messages, Call(c, m) PROVE TypeOK'
    BY <2>1 DEF Call
  <2>2. ASSUME NEW c \in Callers, DownFull(c) PROVE TypeOK'
    BY <2>2 DEF DownFull
  <2>3. ASSUME NEW c \in Callers, EnqLock(c) PROVE TypeOK'
    BY <2>3 DEF EnqLock
  <2>4. ASSUME NEW c \in Callers, EnqStore(c) PROVE TypeOK'
    <3>1. /\ accepted' \in Seq(Messages \cup {NoMsg})
          /\ slots' \in Seq(Slots)
      BY <2>4 DEF EnqStore
    <3>2. q_tail' \in Slots /\ msg_q' \in [Slots -> Messages \cup {NoMsg}]
      BY <2>4 DEF EnqStore
    <3>3. QED
      BY <2>4, <3>1, <3>2 DEF EnqStore
  <2>5. ASSUME NEW c \in Callers, UpEmpty(c) PROVE TypeOK'
    BY <2>5 DEF UpEmpty
  <2>6. CASE DownEmpty
    BY <2>6 DEF DownEmpty
  <2>7. CASE DeqLock
    BY <2>7 DEF DeqLock
  <2>8. CASE DeqFetch
    BY <2>8 DEF DeqFetch
  <2>9. CASE UpFull
    BY <2>9 DEF UpFull
  <2>10. CASE Transmit
    BY <2>10 DEF Transmit
  <2>11. CASE UNCHANGED vars
    BY <2>11 DEF vars
  <2>12. QED
    BY <2>1, <2>2, <2>3, <2>4, <2>5, <2>6, <2>7, <2>8, <2>9, <2>10, <2>11
    DEF Next, CallerStep, SendStep, Rest
<1>3. QED
  BY <1>1, <1>2, PTL DEF Spec

-----------------------------------------------------------------------------
(* The lock *)

\* Whoever is between spin_lock and spin_unlock owns q_lock, alone, and the
\* index it read under the lock is still the current one.
THEOREM LockCorrect == Spec => []LockInv
<1>1. Init => LockInv
  BY CallersAssumption DEF Init, LockInv
<1>2. TypeOK /\ LockInv /\ [Next]_vars => LockInv'
  <2> SUFFICES ASSUME TypeOK, LockInv, [Next]_vars PROVE LockInv'
    OBVIOUS
  <2> USE CallersAssumption
      DEF TypeOK, LockInv, ring, callerVars, sendVars, history
  <2>1. ASSUME NEW c \in Callers, NEW m \in Messages, Call(c, m) PROVE LockInv'
    BY <2>1 DEF Call
  <2>2. ASSUME NEW c \in Callers, DownFull(c) PROVE LockInv'
    BY <2>2 DEF DownFull
  <2>3. ASSUME NEW c \in Callers, EnqLock(c) PROVE LockInv'
    BY <2>3 DEF EnqLock
  <2>4. ASSUME NEW c \in Callers, EnqStore(c) PROVE LockInv'
    BY <2>4 DEF EnqStore
  <2>5. ASSUME NEW c \in Callers, UpEmpty(c) PROVE LockInv'
    BY <2>5 DEF UpEmpty
  <2>6. CASE DownEmpty
    BY <2>6 DEF DownEmpty
  <2>7. CASE DeqLock
    BY <2>7 DEF DeqLock
  <2>8. CASE DeqFetch
    BY <2>8 DEF DeqFetch
  <2>9. CASE UpFull
    BY <2>9 DEF UpFull
  <2>10. CASE Transmit
    BY <2>10 DEF Transmit
  <2>11. CASE UNCHANGED vars
    BY <2>11 DEF vars
  <2>12. QED
    BY <2>1, <2>2, <2>3, <2>4, <2>5, <2>6, <2>7, <2>8, <2>9, <2>10, <2>11
    DEF Next, CallerStep, SendStep, Rest
<1>3. QED
  BY <1>1, <1>2, TypeCorrect, PTL DEF Spec

\* What a step of the queue can do to the messages: a caller that is inside
\* enq_send keeps the one it has, or has just been called with it, and
\* accepted grows by the message of a caller that is inside.
LEMMA MessageSteps ==
  ASSUME TypeOK, [Next]_vars
  PROVE  /\ \A d \in Callers : pc'[d] # "idle" =>
               \/ pc[d] # "idle" /\ msg'[d] = msg[d]
               \/ msg'[d] \in Messages
         /\ \/ accepted' = accepted
            \/ \E c \in Callers : pc[c] # "idle" /\ accepted' = Append(accepted, msg[c])
<1> USE DEF TypeOK, ring, callerVars, sendVars, history
<1>idle. CASE UNCHANGED vars
  BY <1>idle DEF vars
<1>send. CASE SendStep
  BY <1>send DEF SendStep, DownEmpty, DeqLock, DeqFetch, UpFull, Transmit
<1>call. ASSUME NEW c \in Callers, NEW m \in Messages, Call(c, m)
         PROVE  /\ accepted' = accepted
                /\ \A d \in Callers : IF d = c THEN msg'[d] = m
                                              ELSE pc'[d] = pc[d] /\ msg'[d] = msg[d]
  BY <1>call DEF Call
<1>enq. ASSUME NEW c \in Callers, CallerStep(c)
        PROVE  /\ msg' = msg /\ pc[c] # "idle"
               /\ \A d \in Callers : d # c => pc'[d] = pc[d]
               /\ accepted' \in {accepted, Append(accepted, msg[c])}
  BY <1>enq DEF CallerStep, DownFull, EnqLock, EnqStore, UpEmpty
<1> QED
  BY <1>call, <1>enq, <1>idle, <1>send DEF Next, Rest

\* Only messages that callers handed over are stored.
THEOREM MsgCorrect == Spec => []MsgInv
<1>1. MsgInv /\ TypeOK /\ [Next]_vars => MsgInv'
  <2> SUFFICES ASSUME MsgInv, TypeOK, [Next]_vars PROVE MsgInv'
    OBVIOUS
  <2>held. \A d \in Callers : pc'[d] # "idle" => msg'[d] \in Messages
    BY MessageSteps DEF MsgInv
  <2>stored. accepted' \in Seq(Messages)
    <3>1. CASE accepted' = accepted
      BY <3>1 DEF MsgInv
    <3>2. ASSUME NEW c \in Callers, pc[c] # "idle", accepted' = Append(accepted, msg[c])
          PROVE  accepted' \in Seq(Messages)
      <4>1. msg[c] \in Messages /\ accepted \in Seq(Messages)
        BY <3>2 DEF MsgInv
      <4>2. QED
        BY <3>2, <4>1
    <3>3. QED
      BY <3>1, <3>2, MessageSteps
  <2> QED
    BY <2>held, <2>stored DEF MsgInv
<1>2. Init => MsgInv
  BY DEF Init, MsgInv
<1>3. QED
  BY <1>1, <1>2, TypeCorrect, PTL DEF Spec

-----------------------------------------------------------------------------
(* The semaphores *)

\* Moving one caller into, or out of, a counted set changes the count by one.
LEMMA CountIn == ASSUME NEW S, NEW c, IsFiniteSet(S), c \notin S
                 PROVE  /\ Cardinality(S \cup {c}) = Cardinality(S) + 1
                        /\ Cardinality(S) \in Nat
BY FS_AddElement, FS_CardinalityType

LEMMA CountOut == ASSUME NEW S, NEW c, IsFiniteSet(S), c \in S
                  PROVE  /\ Cardinality(S \ {c}) = Cardinality(S) - 1
                         /\ Cardinality(S) \in Nat
                         /\ Cardinality(S) > 0
<1>1. Cardinality(S) \in Nat /\ Cardinality(S \ {c}) = Cardinality(S) - 1
  BY FS_RemoveElement, FS_CardinalityType
<1>2. Cardinality(S \ {c}) \in Nat
  BY FS_RemoveElement, FS_CardinalityType
<1>3. QED
  BY <1>1, <1>2

LEMMA Finite == /\ IsFiniteSet(Claiming) /\ Cardinality(Claiming) \in Nat
                /\ IsFiniteSet(Posting) /\ Cardinality(Posting) \in Nat
BY CallersAssumption, FS_Subset, FS_CardinalityType DEF Claiming, Posting

\* The semaphores account for every slot, with any number of callers and any
\* depth: never more than MAX_SEND_DEPTH messages wait, and the send thread is
\* let in once per message.
THEOREM SlotsCorrect == Spec => []SlotsAccounted
<1>1. Init => SlotsAccounted
  <2> SUFFICES ASSUME Init PROVE SlotsAccounted
    OBVIOUS
  <2>1. Claiming = {} /\ Posting = {}
    BY DEF Init, Claiming, Posting
  <2>2. QED
    BY <2>1, FS_EmptySet, DepthAssumption DEF Init, SlotsAccounted, Waiting
<1>2. TypeOK /\ SlotsAccounted /\ [Next]_vars => SlotsAccounted'
  <2> SUFFICES ASSUME TypeOK, SlotsAccounted, [Next]_vars PROVE SlotsAccounted'
    OBVIOUS
  <2> USE Finite, DepthAssumption
  <2>h. /\ Len(accepted) \in Nat /\ Len(taken) \in Nat
        /\ q_empty \in Nat /\ q_full \in Nat
    BY DEF TypeOK
  <2>1. ASSUME NEW c \in Callers, NEW m \in Messages, Call(c, m) PROVE SlotsAccounted'
    <3>1. Claiming' = Claiming /\ Posting' = Posting
      BY <2>1 DEF Call, Claiming, Posting, TypeOK
    <3>2. QED
      BY <2>1, <3>1 DEF Call, SlotsAccounted, Waiting, sendVars, history
  <2>2. ASSUME NEW c \in Callers, DownFull(c) PROVE SlotsAccounted'
    <3>1. c \notin Claiming /\ Claiming' = Claiming \cup {c} /\ Posting' = Posting
      BY <2>2 DEF DownFull, Claiming, Posting, TypeOK
    <3>2. Cardinality(Claiming') = Cardinality(Claiming) + 1
      BY <3>1, CountIn
    <3>3. QED
      BY <2>2, <2>h, <3>1, <3>2 DEF DownFull, SlotsAccounted, Waiting, sendVars, history
  <2>3. ASSUME NEW c \in Callers, EnqLock(c) PROVE SlotsAccounted'
    <3>1. Claiming' = Claiming /\ Posting' = Posting
      BY <2>3 DEF EnqLock, Claiming, Posting, TypeOK
    <3>2. QED
      BY <2>3, <3>1 DEF EnqLock, SlotsAccounted, Waiting, sendVars, history
  <2>4. ASSUME NEW c \in Callers, EnqStore(c) PROVE SlotsAccounted'
    <3>1. c \in Claiming /\ Claiming' = Claiming \ {c}
      BY <2>4 DEF EnqStore, Claiming, TypeOK
    <3>2. c \notin Posting /\ Posting' = Posting \cup {c}
      BY <2>4 DEF EnqStore, Posting, TypeOK
    <3>3. Cardinality(Claiming') = Cardinality(Claiming) - 1
      BY <3>1, CountOut
    <3>4. Cardinality(Posting') = Cardinality(Posting) + 1
      BY <3>2, CountIn
    <3>5. Len(accepted') = Len(accepted) + 1
      BY <2>4 DEF EnqStore, TypeOK
    <3>6. q_empty' = q_empty /\ q_full' = q_full /\ spc' = spc /\ taken' = taken
      BY <2>4 DEF EnqStore, sendVars
    <3>7. Waiting' = Waiting + 1 /\ Waiting \in Int
      BY <2>h, <3>5, <3>6 DEF Waiting
    <3> DEFINE C == Cardinality(Claiming)  P == Cardinality(Posting)
    <3>8. C \in Nat /\ P \in Nat /\ C' = C - 1 /\ P' = P + 1
      BY <3>3, <3>4
    <3>9. /\ Waiting = q_empty + P + (IF spc \in {"lock", "fetch"} THEN 1 ELSE 0)
          /\ MAX_SEND_DEPTH = q_full + C + Waiting + (IF spc = "up_full" THEN 1 ELSE 0)
      BY DEF SlotsAccounted
    <3> HIDE DEF C, P
    <3>10. /\ Waiting' = q_empty' + P' + (IF spc' \in {"lock", "fetch"} THEN 1 ELSE 0)
          /\ MAX_SEND_DEPTH = q_full' + C' + Waiting' + (IF spc' = "up_full" THEN 1 ELSE 0)
      BY <2>h, <3>6, <3>7, <3>8, <3>9
    <3>11. QED
      BY <3>10 DEF SlotsAccounted, C, P
  <2>5. ASSUME NEW c \in Callers, UpEmpty(c) PROVE SlotsAccounted'
    <3>1. c \in Posting /\ Posting' = Posting \ {c} /\ Claiming' = Claiming
      BY <2>5 DEF UpEmpty, Claiming, Posting, TypeOK
    <3>2. Cardinality(Posting') = Cardinality(Posting) - 1
      BY <3>1, CountOut
    <3>3. QED
      BY <2>5, <2>h, <3>1, <3>2 DEF UpEmpty, SlotsAccounted, Waiting, sendVars, history
  <2>6. CASE SendStep
    <3>1. Claiming' = Claiming /\ Posting' = Posting
      BY <2>6 DEF SendStep, DownEmpty, DeqLock, DeqFetch, UpFull, Transmit,
                  callerVars, Claiming, Posting
    <3> DEFINE C == Cardinality(Claiming)  P == Cardinality(Posting)
               In(s) == IF s \in {"lock", "fetch"} THEN 1 ELSE 0
               Out(s) == IF s = "up_full" THEN 1 ELSE 0
    <3>2. C \in Nat /\ P \in Nat /\ C' = C /\ P' = P
      BY <3>1
    <3>3. /\ Waiting = q_empty + P + In(spc)
          /\ MAX_SEND_DEPTH = q_full + C + Waiting + Out(spc)
      BY DEF SlotsAccounted
    <3>4. (/\ Waiting' = q_empty' + P' + In(spc')
           /\ MAX_SEND_DEPTH = q_full' + C' + Waiting' + Out(spc'))
          => SlotsAccounted'
      BY DEF SlotsAccounted
    <3> HIDE DEF C, P
    <3>5. Waiting \in Int
      BY <2>h DEF Waiting
    <3>6. CASE DeqFetch
      <4>1. Len(taken') = Len(taken) + 1
        BY <3>6 DEF DeqFetch, TypeOK
      <4>2. Waiting' = Waiting - 1
        BY <2>h, <3>6, <4>1 DEF DeqFetch, Waiting
      <4>3. QED
        BY <2>h, <3>2, <3>3, <3>4, <3>5, <3>6, <4>2 DEF DeqFetch
    <3>7. CASE ~ DeqFetch
      <4>1. Waiting' = Waiting
        BY <2>6, <3>7 DEF SendStep, DownEmpty, DeqLock, UpFull, Transmit, history, Waiting
      <4>2. CASE DownEmpty
        BY <2>h, <3>2, <3>3, <3>4, <3>5, <4>1, <4>2 DEF DownEmpty
      <4>3. CASE DeqLock
        BY <2>h, <3>2, <3>3, <3>4, <3>5, <4>1, <4>3 DEF DeqLock
      <4>4. CASE UpFull
        BY <2>h, <3>2, <3>3, <3>4, <3>5, <4>1, <4>4 DEF UpFull
      <4>5. CASE Transmit
        BY <2>h, <3>2, <3>3, <3>4, <3>5, <4>1, <4>5 DEF Transmit
      <4>6. QED
        BY <2>6, <3>7, <4>2, <4>3, <4>4, <4>5 DEF SendStep
    <3>8. QED
      BY <3>6, <3>7
  <2>7. CASE UNCHANGED vars
    BY <2>7 DEF vars, SlotsAccounted, Waiting, Claiming, Posting
  <2>8. QED
    BY <2>1, <2>2, <2>3, <2>4, <2>5, <2>6, <2>7 DEF Next, CallerStep, Rest
<1>3. QED
  BY <1>1, <1>2, TypeCorrect, PTL DEF Spec

\* What SlotsAccounted says of the steps that touch the ring.
LEMMA WaitingFacts ==
  ASSUME TypeOK, SlotsAccounted
  PROVE  /\ Waiting \in Nat
         /\ Waiting <= MAX_SEND_DEPTH
         /\ \A c \in Callers : pc[c] = "store" => Waiting < MAX_SEND_DEPTH
         /\ spc = "fetch" => Waiting > 0
         /\ Len(accepted) \in Nat /\ Len(taken) \in Nat
         /\ Len(accepted) = Len(taken) + Waiting
<1> DEFINE C == Cardinality(Claiming)  P == Cardinality(Posting)
<1>1. /\ C \in Nat /\ P \in Nat
      /\ Len(accepted) \in Nat /\ Len(taken) \in Nat
      /\ q_empty \in Nat /\ q_full \in Nat
  BY Finite DEF TypeOK
<1>2. /\ Waiting = q_empty + P + (IF spc \in {"lock", "fetch"} THEN 1 ELSE 0)
      /\ MAX_SEND_DEPTH = q_full + C + Waiting + (IF spc = "up_full" THEN 1 ELSE 0)
  BY DEF SlotsAccounted
<1>3. ASSUME NEW c \in Callers, pc[c] = "store" PROVE C > 0
  BY <1>3, Finite, CountOut DEF Claiming
<1> HIDE DEF C, P
<1>4. Waiting \in Nat /\ Waiting <= MAX_SEND_DEPTH
  BY <1>1, <1>2, DepthAssumption
<1>5. ASSUME NEW c \in Callers, pc[c] = "store" PROVE Waiting < MAX_SEND_DEPTH
  BY <1>1, <1>2, <1>3, <1>4, <1>5, DepthAssumption
<1>6. spc = "fetch" => Waiting > 0
  BY <1>1, <1>2
<1>7. Len(accepted) = Len(taken) + Waiting
  BY <1>1 DEF Waiting
<1>8. QED
  BY <1>1, <1>4, <1>5, <1>6, <1>7

-----------------------------------------------------------------------------
(* The chain of slots, for every depth *)

\* q_head goes through the slots that q_tail went through, and never through
\* one that was not written, whatever the mask makes of MAX_SEND_DEPTH.
THEOREM ChainCorrect == Spec => []ChainInv
<1> USE SlotsFacts, MessagesAssumption
<1>1. Init => ChainInv
  BY DEF Init, ChainInv, HeadRetracesTail, Waiting
<1>2. /\ TypeOK /\ LockInv /\ MsgInv /\ SlotsAccounted /\ ChainInv
      /\ [Next]_vars
      => ChainInv'
  <2> SUFFICES ASSUME TypeOK, LockInv, MsgInv, SlotsAccounted, ChainInv, [Next]_vars
               PROVE  ChainInv'
    OBVIOUS
  <2>1. ASSUME NEW c \in Callers, EnqStore(c) PROVE ChainInv'
    <3> DEFINE L == Len(accepted)  T == Len(taken)
    <3>1. /\ L \in Nat /\ T \in Nat /\ L = Len(slots) /\ L = T + Waiting /\ Waiting \in Nat
      BY WaitingFacts DEF ChainInv
    <3>2. /\ slots \in Seq(Slots) /\ q_tail \in Slots
          /\ slots' = Append(slots, q_tail)
          /\ q_tail' = NextSlot(q_tail) /\ q_head' = q_head /\ taken' = taken
          /\ msg_q' = [msg_q EXCEPT ![q_tail] = msg[c]]
          /\ msg[c] # NoMsg /\ msg_q \in [Slots -> Messages \cup {NoMsg}]
      BY <2>1 DEF EnqStore, LockInv, MsgInv, TypeOK
    <3>3. /\ Len(slots') = L + 1
          /\ \A k \in 1 .. L : slots'[k] = slots[k] /\ slots[k] \in Slots
          /\ slots'[L + 1] = q_tail
      BY <3>1, <3>2
    <3>4. Len(accepted') = L + 1
      BY <2>1 DEF EnqStore, TypeOK
    <3>5. ASSUME NEW k \in 1 .. L + 1 PROVE msg_q'[slots'[k]] # NoMsg
      BY <3>1, <3>2, <3>3 DEF ChainInv
    <3>6. ASSUME NEW k \in 1 .. L PROVE slots'[k + 1] = NextSlot(slots'[k])
      BY <3>1, <3>3 DEF ChainInv
    <3>7. Waiting' = Waiting + 1
      BY <3>1, <3>2, <3>4 DEF Waiting
    <3>8. q_head = slots'[T + 1]
      <4>1. CASE Waiting = 0
        BY <4>1, <3>1, <3>3 DEF ChainInv, HeadRetracesTail
      <4>2. CASE Waiting > 0
        BY <4>2, <3>1, <3>3 DEF ChainInv, HeadRetracesTail
      <4>3. QED
        BY <4>1, <4>2, <3>1
    <3>9. HeadRetracesTail'
      BY <3>1, <3>2, <3>7, <3>8 DEF HeadRetracesTail, ChainInv
    <3>10. QED
      BY <3>1, <3>2, <3>3, <3>4, <3>5, <3>6, <3>9 DEF ChainInv
  <2>2. CASE DeqFetch
    <3> DEFINE L == Len(accepted)  T == Len(taken)
    <3>1. /\ L \in Nat /\ T \in Nat /\ L = Len(slots) /\ L = T + Waiting
          /\ Waiting \in Nat /\ Waiting > 0
      BY <2>2, WaitingFacts DEF ChainInv, DeqFetch
    <3>2. /\ q_head' = NextSlot(q_head) /\ q_tail' = q_tail
          /\ slots' = slots /\ accepted' = accepted /\ msg_q' = msg_q
          /\ taken' = Append(taken, msg_q[q_head])
          /\ taken \in Seq(Messages \cup {NoMsg})
          /\ slots \in Seq(Slots) /\ msg_q \in [Slots -> Messages \cup {NoMsg}]
          /\ q_head \in Slots
      BY <2>2 DEF DeqFetch, LockInv, TypeOK
    <3>3. q_head = slots[T + 1] /\ T + 1 \in 1 .. L
      BY <3>1 DEF ChainInv, HeadRetracesTail
    <3>4. msg_q[q_head] # NoMsg
      BY <3>1, <3>3 DEF ChainInv
    <3>5. /\ Len(taken') = T + 1
          /\ \A k \in 1 .. T + 1 : taken'[k] # NoMsg
      BY <3>1, <3>2, <3>4 DEF ChainInv, HeadRetracesTail
    <3>6. Waiting' = Waiting - 1
      BY <3>1, <3>2, <3>5 DEF Waiting
    <3>7. q_head' = IF Waiting' = 0 THEN q_tail' ELSE slots'[Len(taken') + 1]
      <4>1. CASE Waiting = 1
        BY <4>1, <3>1, <3>2, <3>3, <3>6 DEF ChainInv
      <4>2. CASE Waiting > 1
        <5>1. T + 1 \in 1 .. Len(slots) - 1
          BY <4>2, <3>1
        <5>2. slots[T + 1 + 1] = NextSlot(slots[T + 1])
          BY <5>1 DEF ChainInv
        <5>3. Waiting' # 0
          BY <4>2, <3>1, <3>6
        <5>4. slots'[Len(taken') + 1] = slots[T + 1 + 1]
          BY <3>2, <3>5
        <5>5. QED
          BY <5>2, <5>3, <5>4, <3>2, <3>3
      <4>3. QED
        BY <4>1, <4>2, <3>1
    <3>8. HeadRetracesTail'
      BY <3>5, <3>7 DEF HeadRetracesTail
    <3>9. QED
      BY <3>2, <3>8 DEF ChainInv
  <2>3. CASE UNCHANGED <<q_head, q_tail, msg_q, accepted, slots, taken>>
    BY <2>3 DEF ChainInv, HeadRetracesTail, Waiting
  <2>4. QED
    BY <2>1, <2>2, <2>3 DEF Next, CallerStep, SendStep, Rest, vars, ring, history, Call,
       DownFull, EnqLock, UpEmpty, DownEmpty, DeqLock, UpFull, Transmit
<1>3. QED
  BY <1>1, <1>2, TypeCorrect, LockCorrect, MsgCorrect, SlotsCorrect, PTL DEF Spec

\* The same as a property of its own.
THEOREM HeadCorrect == Spec => []HeadRetracesTail
<1>1. ChainInv => HeadRetracesTail
  BY DEF ChainInv
<1>2. QED
  BY <1>1, ChainCorrect, PTL

-----------------------------------------------------------------------------
(* The FIFO, for the depths whose mask is the remainder *)

LEMMA NextIsWrap ==
  ASSUME WrapsAtDepth, NEW i \in Slots
  PROVE  NextSlot(i) = Wrap(i + 1)
BY DepthAssumption DEF WrapsAtDepth, Wrap, Slots

\* Two messages that wait never share a slot.
LEMMA RowIsInjective ==
  ASSUME NEW h \in Slots, NEW i \in Nat, NEW j \in Nat,
         i < j, j < MAX_SEND_DEPTH
  PROVE  Wrap(h + i) # Wrap(h + j) /\ Wrap(h + i) \in Slots
BY DepthAssumption DEF Wrap, Slots

LEMMA WrapShift ==
  ASSUME NEW h \in Slots, NEW j \in Nat, j < MAX_SEND_DEPTH
  PROVE  /\ Wrap(Wrap(h + 1) + j) = Wrap(h + (j + 1))
         /\ Wrap(h + 1) \in Slots
         /\ Wrap(Wrap(h + j) + 1) = Wrap(h + (j + 1))
BY DepthAssumption DEF Wrap, Slots

\* A step of enq_send puts one more message at the end of the row; the slot it
\* writes is free because a waiting message would be counted by q_full.
LEMMA StoreExtendsRow ==
  ASSUME TypeOK, LockInv, SlotsAccounted, RowInv, WrapsAtDepth,
         NEW c \in Callers, EnqStore(c)
  PROVE  RowInv'
<1> DEFINE L == Len(accepted)  T == Len(taken)  W == Waiting
<1>1. /\ L \in Nat /\ T \in Nat /\ W \in Nat /\ L = T + W /\ W < MAX_SEND_DEPTH
  BY WaitingFacts DEF EnqStore
<1>2. /\ q_head \in Slots /\ q_tail \in Slots
      /\ msg_q \in [Slots -> Messages \cup {NoMsg}]
      /\ accepted \in Seq(Messages \cup {NoMsg})
      /\ q_head' = q_head /\ taken' = taken
      /\ q_tail' = NextSlot(q_tail)
      /\ msg_q' = [msg_q EXCEPT ![q_tail] = msg[c]]
      /\ accepted' = Append(accepted, msg[c])
      /\ msg[c] \in Messages \cup {NoMsg}
  BY DEF EnqStore, LockInv, TypeOK
<1>3. /\ Len(accepted') = L + 1
      /\ \A k \in 1 .. L : accepted'[k] = accepted[k]
      /\ accepted'[L + 1] = msg[c]
  BY <1>2
<1>4. Waiting' = W + 1
  BY <1>1, <1>2, <1>3 DEF Waiting
<1>5. q_tail = Wrap(q_head + W)
  BY DEF RowInv
<1>6. q_tail' = Wrap(q_head' + Waiting')
  BY <1>1, <1>2, <1>4, <1>5, NextIsWrap, WrapShift
<1>7. ASSUME NEW j \in 0 .. Waiting' - 1
      PROVE  msg_q'[Wrap(q_head' + j)] = accepted'[Len(taken') + 1 + j]
  <2>1. j \in Nat /\ (j < W \/ j = W)
    BY <1>1, <1>4
  <2>2. CASE j < W
    <3>1. Wrap(q_head + j) # q_tail /\ Wrap(q_head + j) \in Slots
      BY <1>1, <1>2, <1>5, <2>1, <2>2, RowIsInjective
    <3>2. msg_q[Wrap(q_head + j)] = accepted[T + 1 + j]
      BY <1>1, <2>1, <2>2 DEF RowInv
    <3>3. T + 1 + j \in 1 .. L
      BY <1>1, <2>1, <2>2
    <3>4. QED
      BY <1>2, <1>3, <3>1, <3>2, <3>3
  <2>3. CASE j = W
    <3>1. T + 1 + j = L + 1
      BY <1>1, <2>3
    <3>2. msg_q'[q_tail] = msg[c]
      BY <1>2
    <3>3. QED
      BY <1>2, <1>3, <1>5, <2>3, <3>1, <3>2
  <2>4. QED
    BY <2>1, <2>2, <2>3
<1>8. QED
  BY <1>6, <1>7 DEF RowInv

\* A step of deq_send takes the first message of the row, and it is the next
\* one that was accepted.
LEMMA FetchShortensRow ==
  ASSUME TypeOK, LockInv, SlotsAccounted, RowInv, WrapsAtDepth, DeqFetch
  PROVE  /\ RowInv'
         /\ Len(taken) < Len(accepted)
         /\ taken' = Append(taken, accepted[Len(taken) + 1])
<1> DEFINE L == Len(accepted)  T == Len(taken)  W == Waiting
<1>1. /\ L \in Nat /\ T \in Nat /\ W \in Nat /\ L = T + W
      /\ W > 0 /\ W <= MAX_SEND_DEPTH
  BY WaitingFacts DEF DeqFetch
<1>2. /\ q_head \in Slots
      /\ q_head' = NextSlot(q_head) /\ q_tail' = q_tail
      /\ msg_q' = msg_q /\ accepted' = accepted
      /\ taken' = Append(taken, msg_q[q_head])
      /\ taken \in Seq(Messages \cup {NoMsg})
  BY DEF DeqFetch, LockInv, TypeOK
<1>3. Len(taken') = T + 1
  BY <1>2
<1>4. Waiting' = W - 1
  BY <1>1, <1>2, <1>3 DEF Waiting
<1>5. q_head' = Wrap(q_head + 1)
  BY <1>2, NextIsWrap
<1>6. ASSUME NEW j \in Nat, j < W
      PROVE  Wrap(q_head' + j) = Wrap(q_head + (j + 1))
  <2>1. j < MAX_SEND_DEPTH
    BY <1>1, <1>6, DepthAssumption
  <2>2. Wrap(Wrap(q_head + 1) + j) = Wrap(q_head + (j + 1))
    BY <2>1, <1>2, <1>6, WrapShift
  <2>3. QED
    BY <2>2, <1>5
<1>7. q_tail' = Wrap(q_head' + Waiting')
  <2>1. q_tail = Wrap(q_head + W)
    BY DEF RowInv
  <2>2. W - 1 \in Nat /\ W - 1 < W /\ (W - 1) + 1 = W
    BY <1>1
  <2>3. Wrap(q_head' + (W - 1)) = Wrap(q_head + ((W - 1) + 1))
    BY <1>6, <2>2
  <2>4. QED
    BY <1>2, <1>4, <2>1, <2>2, <2>3
<1>8. ASSUME NEW j \in 0 .. Waiting' - 1
      PROVE  msg_q'[Wrap(q_head' + j)] = accepted'[Len(taken') + 1 + j]
  <2>1. j \in Nat /\ j < W /\ j + 1 \in 0 .. W - 1
    BY <1>1, <1>4
  <2>2. msg_q[Wrap(q_head + (j + 1))] = accepted[T + 1 + (j + 1)]
    BY <2>1 DEF RowInv
  <2>3. Len(taken') + 1 + j = T + 1 + (j + 1)
    BY <1>1, <1>3, <2>1
  <2>4. QED
    BY <1>2, <1>6, <2>1, <2>2, <2>3
<1>9. RowInv'
  BY <1>7, <1>8 DEF RowInv
<1>10. msg_q[q_head] = accepted[T + 1]
  <2>1. 0 \in 0 .. W - 1
    BY <1>1
  <2>2. msg_q[Wrap(q_head + 0)] = accepted[T + 1 + 0]
    BY <2>1 DEF RowInv
  <2>3. Wrap(q_head + 0) = q_head
    BY <1>2, DepthAssumption DEF Wrap, Slots
  <2>4. QED
    BY <1>1, <2>2, <2>3
<1>11. QED
  BY <1>1, <1>2, <1>9, <1>10

\* With a depth that is a power of two, every message waits in its own slot,
\* in the order of acceptance, whatever the callers do.
THEOREM RowCorrect == ASSUME WrapsAtDepth PROVE Spec => []RowInv
<1>1. Init => RowInv
  BY SlotsFacts, DepthAssumption DEF Init, RowInv, Waiting, Wrap
<1>2. TypeOK /\ LockInv /\ SlotsAccounted /\ RowInv /\ [Next]_vars => RowInv'
  <2> SUFFICES ASSUME TypeOK, LockInv, SlotsAccounted, RowInv, [Next]_vars
               PROVE  RowInv'
    OBVIOUS
  <2>1. ASSUME NEW c \in Callers, EnqStore(c) PROVE RowInv'
    BY <2>1, StoreExtendsRow
  <2>2. CASE DeqFetch
    BY <2>2, FetchShortensRow
  <2>3. CASE UNCHANGED <<q_head, q_tail, msg_q, accepted, taken>>
    BY <2>3 DEF RowInv, Waiting
  <2>4. QED
    BY <2>1, <2>2, <2>3 DEF Next, CallerStep, SendStep, Rest, vars, ring, history, Call,
       DownFull, EnqLock, UpEmpty, DownEmpty, DeqLock, UpFull, Transmit
<1>3. QED
  BY <1>1, <1>2, TypeCorrect, LockCorrect, SlotsCorrect, PTL DEF Spec

\* What deq_send has fetched is the beginning of what enq_send has stored.
THEOREM OrderCorrect == ASSUME WrapsAtDepth PROVE Spec => []FifoOrder
<1>1. Init => FifoOrder
  BY DEF Init, FifoOrder
<1>2. /\ TypeOK /\ LockInv /\ SlotsAccounted /\ RowInv /\ FifoOrder
      /\ [Next]_vars
      => FifoOrder'
  <2> SUFFICES ASSUME TypeOK, LockInv, SlotsAccounted, RowInv, FifoOrder, [Next]_vars
               PROVE  FifoOrder'
    OBVIOUS
  <2> DEFINE L == Len(accepted)  T == Len(taken)
  <2>h. /\ L \in Nat /\ T \in Nat /\ T <= L
        /\ accepted \in Seq(Messages \cup {NoMsg})
        /\ taken \in Seq(Messages \cup {NoMsg})
    BY DEF TypeOK, FifoOrder
  <2>1. ASSUME NEW c \in Callers, EnqStore(c) PROVE FifoOrder'
    <3>1. /\ taken' = taken
          /\ Len(accepted') = L + 1
          /\ \A k \in 1 .. L : accepted'[k] = accepted[k]
      BY <2>1, <2>h DEF EnqStore, TypeOK
    <3>2. QED
      BY <2>h, <3>1 DEF FifoOrder
  <2>2. CASE DeqFetch
    <3>1. T < L /\ taken' = Append(taken, accepted[T + 1]) /\ accepted' = accepted
      BY <2>2, FetchShortensRow DEF DeqFetch
    <3>2. /\ Len(taken') = T + 1
          /\ \A k \in 1 .. T : taken'[k] = taken[k]
          /\ taken'[T + 1] = accepted[T + 1]
      BY <2>h, <3>1
    <3>3. QED
      BY <2>h, <3>1, <3>2 DEF FifoOrder
  <2>3. CASE UNCHANGED <<accepted, taken>>
    BY <2>3 DEF FifoOrder
  <2>4. QED
    BY <2>1, <2>2, <2>3 DEF Next, CallerStep, SendStep, Rest, vars, history, Call,
       DownFull, EnqLock, UpEmpty, DownEmpty, DeqLock, UpFull, Transmit
<1>3. QED
  BY <1>1, <1>2, TypeCorrect, LockCorrect, SlotsCorrect, RowCorrect, PTL DEF Spec

\* The queue implements the bounded FIFO, for every depth that is a power of
\* two: the store of enq_send is the acceptance, the fetch of deq_send the
\* taking, and every other step of either changes nothing a caller can see.
THEOREM ImplementsFifo == ASSUME WrapsAtDepth PROVE Spec => FifoSpec
<1>1. Init => Fifo!Init
  BY DEF Init, Fifo!Init
<1>2. /\ TypeOK /\ LockInv /\ MsgInv /\ SlotsAccounted /\ RowInv
      /\ [Next]_vars
      => [Fifo!Next]_(Fifo!fifoVars)
  <2> SUFFICES ASSUME TypeOK, LockInv, MsgInv, SlotsAccounted, RowInv, [Next]_vars
               PROVE  Fifo!Next \/ UNCHANGED <<accepted, taken>>
    BY DEF Fifo!fifoVars
  <2>1. ASSUME NEW c \in Callers, EnqStore(c) PROVE Fifo!Next
    <3>1. msg[c] \in Messages /\ accepted' = Append(accepted, msg[c]) /\ taken' = taken
      BY <2>1 DEF EnqStore, MsgInv
    <3>2. Len(accepted) < Len(taken) + MAX_SEND_DEPTH
      BY <2>1, WaitingFacts, DepthAssumption DEF EnqStore
    <3>3. Fifo!Accept(msg[c])
      BY <3>1, <3>2 DEF Fifo!Accept
    <3>4. QED
      BY <3>1, <3>3 DEF Fifo!Next
  <2>2. CASE DeqFetch
    BY <2>2, FetchShortensRow DEF DeqFetch, Fifo!Next, Fifo!Take
  <2>3. CASE UNCHANGED <<accepted, taken>>
    BY <2>3
  <2>4. QED
    BY <2>1, <2>2, <2>3 DEF Next, CallerStep, SendStep, Rest, vars, history, Call,
       DownFull, EnqLock, UpEmpty, DownEmpty, DeqLock, UpFull, Transmit
<1>3. QED
  BY <1>1, <1>2, TypeCorrect, LockCorrect, MsgCorrect, SlotsCorrect, RowCorrect, PTL
  DEF Spec, FifoSpec, Fifo!Spec
=============================================================================
