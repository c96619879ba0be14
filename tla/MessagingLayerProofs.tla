------------------------ MODULE MessagingLayerProofs ------------------------
(***************************************************************************)
(* Proofs about MessagingLayer: the composition does nothing on the send   *)
(* side that SendHandles does not do, and nothing in the partition that    *)
(* SharedSlot does not do, so what is proved of either holds from end to   *)
(* end, for any depth, any callers and a body of any length.               *)
(***************************************************************************)
EXTENDS MessagingLayer, SendHandlesProofs

LEMMA OneHandle == Handles = {0}
BY LayerAssumption DEF Handles

-----------------------------------------------------------------------------
(* The refinements *)

\* The send side of the composition is SendHandles: a step inside ivshmem_send,
\* of the receive thread or of the x86 VM changes nothing of it, and the return
\* of ivshmem_send is the one step LoopSend.
THEOREM LayerIsHandles == LayerSpec => Spec
<1> USE OneHandle
<1>1. LayerInit => Init
  BY DEF LayerInit
<1>2. [LayerNext]_layerVars => [Next]_vars
  <2> SUFFICES ASSUME [LayerNext]_layerVars PROVE [Next]_vars
    OBVIOUS
  <2>1. CASE LoadArm
    BY <2>1 DEF LoadArm, Next, LoadStep
  <2>2. CASE (TestCall \/ \E c \in Callers : Call(c)) /\ UNCHANGED slotVars
    BY <2>2 DEF Next, LoadStep
  <2>3. CASE \E c \in Threads : CallerStep(c) /\ UNCHANGED slotVars
    BY <2>3 DEF Next
  <2>4. CASE SendThread
    <3>1. CASE EnterSend \/ InSend
      BY <3>1 DEF EnterSend, InSend
    <3>2. CASE ReturnFromSend
      BY <3>2 DEF ReturnFromSend, Next, SendStep
    <3>3. CASE QueueStep
      BY <3>3 DEF QueueStep, Next, SendStep
    <3>4. QED
      BY <2>4, <3>1, <3>2, <3>3 DEF SendThread
  <2>5. CASE LoadPeer \/ RecvThread
    BY <2>5 DEF LoadPeer, RecvThread
  <2>6. CASE UNCHANGED layerVars
    BY <2>6 DEF layerVars
  <2>7. QED
    BY <2>1, <2>2, <2>3, <2>4, <2>5, <2>6 DEF LayerNext
<1>3. QED
  BY <1>1, <1>2, PTL DEF LayerSpec, Spec

\* The partition of the composition is SharedSlot: deq_send calls ivshmem_send as
\* the send thread of the ARM VM does there, and enq_send never touches the
\* shared memory.
THEOREM LayerIsSlot == LayerSpec => Slot!Spec
<1>1. LayerInit => Slot!Init
  BY DEF LayerInit
<1>2. [LayerNext]_layerVars => [Slot!Next]_Slot!vars
  <2> SUFFICES ASSUME [LayerNext]_layerVars PROVE [Slot!Next]_Slot!vars
    OBVIOUS
  <2>1. arm \in Slot!VM /\ x86 \in Slot!VM
    BY DEF Slot!VM
  <2>2. CASE LoadArm \/ LoadPeer
    BY <2>2 DEF LoadArm, LoadPeer, Slot!Next, Slot!Load
  <2>3. CASE SendThread
    <3>1. CASE EnterSend
      BY <3>1 DEF EnterSend, Slot!Next
    <3>2. CASE InSend \/ ReturnFromSend
      BY <2>1, <3>2 DEF InSend, ReturnFromSend, Slot!Next, Slot!SendStep
    <3>3. CASE QueueStep
      BY <3>3 DEF QueueStep, slotVars, Slot!vars
    <3>4. QED
      BY <2>3, <3>1, <3>2, <3>3 DEF SendThread
  <2>4. CASE RecvThread
    BY <2>1, <2>4 DEF RecvThread, Slot!Next
  <2>5. CASE UNCHANGED slotVars
    BY <2>5 DEF slotVars, Slot!vars
  <2>6. QED
    BY <2>2, <2>3, <2>4, <2>5 DEF LayerNext, layerVars
<1>3. QED
  BY <1>1, <1>2, PTL DEF LayerSpec, Slot!Spec

-----------------------------------------------------------------------------
(* Types *)

LEMMA SlotFacts ==
  /\ arm \in Slot!VM /\ x86 \in Slot!VM /\ arm # x86
  /\ Slot!OPEN = 2 /\ Slot!Mark(arm) = 0 /\ Slot!Peer(x86) = arm
  /\ \A n \in Nat : <<arm, n>> \in Slot!Word
  /\ 1 \in Slot!WordIndex /\ Slot!NoWords \in [Slot!WordIndex -> Slot!Word]
  /\ \A w \in Slot!WordIndex : w # Words => w + 1 \in Slot!WordIndex
BY PartitionAssumption
   DEF Slot!VM, Slot!OPEN, Slot!Mark, Slot!Peer, Slot!Word, Slot!WordIndex, Slot!NoWords

LEMMA SlotInit == Slot!Init => Slot!TypeOK
BY SlotFacts DEF Slot!Init, Slot!TypeOK

\* Each step of the two threads keeps the types of the partition.
LEMMA SlotTypes ==
  ASSUME Slot!TypeOK,
         \/ Slot!LoadX86 \/ Slot!LoadArm \/ Slot!StartSend(arm)
         \/ Slot!PollOpen(arm) \/ Slot!WriteMark(arm) \/ Slot!CopyIn(arm)
         \/ Slot!RecvStep(x86)
  PROVE  Slot!TypeOK'
<1> USE SlotFacts DEF Slot!TypeOK, Slot!memory, Slot!vms, Slot!sender, Slot!receiver
<1>1. CASE Slot!LoadX86
  <2>1. live' \in [Slot!VM -> BOOLEAN] /\ boots' \in [Slot!VM -> Nat]
    BY <1>1 DEF Slot!LoadX86
  <2>2. QED
    BY <1>1, <2>1 DEF Slot!LoadX86
<1>2. CASE Slot!LoadArm
  BY <1>2 DEF Slot!LoadArm
<1>3. CASE Slot!StartSend(arm)
  BY <1>3 DEF Slot!StartSend
<1>4. CASE Slot!PollOpen(arm)
  BY <1>4 DEF Slot!PollOpen
<1>5. CASE Slot!WriteMark(arm)
  <2>1. sent' \in [Slot!VM -> Nat] /\ flag' \in {0, 1, 2}
    BY <1>5 DEF Slot!WriteMark
  <2>2. slotpc' \in [Slot!VM -> {"idle", "poll", "mark", "copy"}]
    BY <1>5 DEF Slot!WriteMark
  <2>3. QED
    BY <1>5, <2>1, <2>2 DEF Slot!WriteMark
<1>6. CASE Slot!CopyIn(arm)
  BY <1>6 DEF Slot!CopyIn
<1>7. CASE Slot!PollMark(x86)
  <2>1. sent[arm] \in Nat /\ marks[x86] \in Seq(Nat)
    OBVIOUS
  <2>2. Append(marks[x86], sent[arm]) \in Seq(Nat)
    BY <2>1
  <2>3. marks' \in [Slot!VM -> Seq(Nat)]
    BY <1>7, <2>2 DEF Slot!PollMark
  <2>4. QED
    BY <1>7, <2>3 DEF Slot!PollMark
<1>8. CASE Slot!CopyOut(x86)
  BY <1>8 DEF Slot!CopyOut
<1>9. CASE Slot!Reopen(x86)
  <2>1. Append(received[x86], rbuf[x86]) \in Seq([Slot!WordIndex -> Slot!Word])
    OBVIOUS
  <2>2. received' \in [Slot!VM -> Seq([Slot!WordIndex -> Slot!Word])]
    BY <1>9, <2>1 DEF Slot!Reopen
  <2>3. QED
    BY <1>9, <2>2 DEF Slot!Reopen
<1>10. QED
  BY <1>1, <1>2, <1>3, <1>4, <1>5, <1>6, <1>7, <1>8, <1>9 DEF Slot!RecvStep

\* Which steps of the partition a step of the composition can be.
LEMMA LayerMoves ==
  ASSUME [LayerNext]_layerVars
  PROVE  \/ LoadArm \/ LoadPeer \/ EnterSend \/ InSend \/ ReturnFromSend \/ RecvThread
         \/ UNCHANGED slotVars
BY DEF LayerNext, layerVars, SendThread, QueueStep

\* What the steps do to the places of the two threads, the flag and the counts.
LEMMA SlotEffect ==
  ASSUME Slot!TypeOK
  PROVE  /\ slotpc[arm] \in {"idle", "poll", "mark", "copy"}
         /\ rpc[x86] \in {"poll", "copy", "open"}
         /\ sent[arm] \in Nat /\ Len(received[x86]) \in Nat
         /\ Slot!LoadX86 =>
              /\ ~ live[x86] /\ live'[x86] /\ live'[arm] = live[arm] /\ flag' = 2
              /\ UNCHANGED <<slotpc, rpc, sent, received>>
         /\ Slot!LoadArm =>
              /\ ~ live[arm] /\ live'[arm] /\ live'[x86] = live[x86]
              /\ UNCHANGED <<flag, slotpc, rpc, sent, received>>
         /\ Slot!StartSend(arm) =>
              /\ live[arm] /\ slotpc[arm] = "idle" /\ slotpc'[arm] = "poll"
              /\ UNCHANGED <<flag, live, rpc, sent, received>>
         /\ Slot!PollOpen(arm) =>
              /\ flag = 2 /\ slotpc[arm] = "poll" /\ slotpc'[arm] = "mark"
              /\ UNCHANGED <<flag, live, rpc, sent, received>>
         /\ Slot!WriteMark(arm) =>
              /\ slotpc[arm] = "mark" /\ slotpc'[arm] = "copy"
              /\ flag' = 0 /\ sent'[arm] = sent[arm] + 1
              /\ UNCHANGED <<live, rpc, received>>
         /\ Slot!CopyIn(arm) =>
              /\ slotpc[arm] = "copy" /\ slotpc'[arm] \in {"idle", "copy"}
              /\ UNCHANGED <<flag, live, rpc, sent, received>>
         /\ Slot!PollMark(x86) =>
              /\ flag = 0 /\ rpc[x86] = "poll" /\ rpc'[x86] = "copy"
              /\ live[x86]
              /\ UNCHANGED <<flag, live, slotpc, sent, received>>
         /\ Slot!CopyOut(x86) =>
              /\ rpc[x86] = "copy" /\ rpc'[x86] \in {"copy", "open"}
              /\ UNCHANGED <<flag, live, slotpc, sent, received>>
         /\ Slot!Reopen(x86) =>
              /\ rpc[x86] = "open" /\ rpc'[x86] = "poll" /\ flag' = 2
              /\ Len(received'[x86]) = Len(received[x86]) + 1
              /\ UNCHANGED <<live, slotpc, sent>>
<1> USE SlotFacts DEF Slot!TypeOK, Slot!memory, Slot!vms, Slot!sender, Slot!receiver
<1>1. /\ slotpc[arm] \in {"idle", "poll", "mark", "copy"}
      /\ rpc[x86] \in {"poll", "copy", "open"}
      /\ sent[arm] \in Nat
  OBVIOUS
<1>2. received[x86] \in Seq([Slot!WordIndex -> Slot!Word])
  OBVIOUS
<1>3. Len(received[x86]) \in Nat
  BY <1>2
<1>4. Slot!LoadX86 =>
      /\ ~ live[x86] /\ live'[x86] /\ live'[arm] = live[arm] /\ flag' = 2
      /\ UNCHANGED <<slotpc, rpc, sent, received>>
  BY DEF Slot!LoadX86
<1>5. Slot!LoadArm =>
      /\ ~ live[arm] /\ live'[arm] /\ live'[x86] = live[x86]
      /\ UNCHANGED <<flag, slotpc, rpc, sent, received>>
  BY DEF Slot!LoadArm
<1>6. Slot!StartSend(arm) =>
      /\ live[arm] /\ slotpc[arm] = "idle" /\ slotpc'[arm] = "poll"
      /\ UNCHANGED <<flag, live, rpc, sent, received>>
  BY DEF Slot!StartSend
<1>7. Slot!PollOpen(arm) =>
      /\ flag = 2 /\ slotpc[arm] = "poll" /\ slotpc'[arm] = "mark"
      /\ UNCHANGED <<flag, live, rpc, sent, received>>
  BY DEF Slot!PollOpen
<1>8. Slot!WriteMark(arm) =>
      /\ slotpc[arm] = "mark" /\ slotpc'[arm] = "copy"
      /\ flag' = 0 /\ sent'[arm] = sent[arm] + 1
      /\ UNCHANGED <<live, rpc, received>>
  BY DEF Slot!WriteMark
<1>9. Slot!CopyIn(arm) =>
      /\ slotpc[arm] = "copy" /\ slotpc'[arm] \in {"idle", "copy"}
      /\ UNCHANGED <<flag, live, rpc, sent, received>>
  BY DEF Slot!CopyIn
<1>10. Slot!PollMark(x86) =>
      /\ flag = 0 /\ rpc[x86] = "poll" /\ rpc'[x86] = "copy"
      /\ live[x86]
      /\ UNCHANGED <<flag, live, slotpc, sent, received>>
  BY DEF Slot!PollMark
<1>11. Slot!CopyOut(x86) =>
      /\ rpc[x86] = "copy" /\ rpc'[x86] \in {"copy", "open"}
      /\ UNCHANGED <<flag, live, slotpc, sent, received>>
  BY DEF Slot!CopyOut
<1>12. Slot!Reopen(x86) =>
      /\ rpc[x86] = "open" /\ rpc'[x86] = "poll" /\ flag' = 2
      /\ Len(received'[x86]) = Len(received[x86]) + 1
      /\ UNCHANGED <<live, slotpc, sent>>
  <2>1. Slot!Reopen(x86) => received'[x86] = Append(received[x86], rbuf[x86])
    BY DEF Slot!Reopen
  <2>2. Len(Append(received[x86], rbuf[x86])) = Len(received[x86]) + 1
    BY <1>2
  <2>3. QED
    BY <2>1, <2>2 DEF Slot!Reopen
<1>13. QED
  BY <1>1, <1>3, <1>4, <1>5, <1>6, <1>7, <1>8, <1>9, <1>10, <1>11, <1>12

\* The send thread is in ivshmem_send only from the loop of deq_send, whose test
\* of q_size stays true meanwhile, and while it copies a message it has marked
\* one more than it has finished.
CallInv ==
  /\ slotpc[arm] # "idle" => live[arm] /\ spc[0] = "loop" /\ q_size[0] > 0
  /\ sent[arm] = IF slotpc[arm] = "copy" THEN Len(wire[0]) + 1 ELSE Len(wire[0])

LEMMA WireOne ==
  ASSUME TypeOK, NEW e, wire' = [wire EXCEPT ![0] = Append(@, e)]
  PROVE  Len(wire[0]) \in Nat /\ Len(wire'[0]) = Len(wire[0]) + 1
<1>1. 0 \in Handles
  BY OneHandle
<1>2. wire[0] \in Seq(Msg \cup {NoMsg}) /\ wire'[0] = Append(wire[0], e)
  BY <1>1 DEF TypeOK
<1>3. QED
  BY <1>2

\* A caller leaves the send thread in its loop, and the counter positive.
LEMMA CallerKeeps ==
  ASSUME TypeOK, CounterInv, NEW c \in Threads, CallerStep(c)
  PROVE  spc' = spc /\ wire' = wire /\ (q_size[0] > 0 => q_size'[0] > 0)
<1>1. 0 \in Handles /\ h[c] = 0
  BY OneHandle DEF TypeOK
<1>2. CASE EnqInc(c)
  <2>1. size[c] \in Int /\ 0 <= size[c]
    BY <1>2 DEF EnqInc, CounterInv, TypeOK
  <2>2. q_size'[0] = size[c] + 1
    BY <1>1, <1>2 DEF EnqInc, TypeOK
  <2>3. q_size'[0] > 0
    BY <2>1, <2>2
  <2>4. QED
    BY <1>2, <2>3 DEF EnqInc, sendVars
<1>3. CASE ~ EnqInc(c)
  BY <1>3 DEF CallerStep, ScanEmpty, ScanNext, DownFull, EnqStore, UpEmpty, sendVars
<1>4. QED
  BY <1>2, <1>3

LEMMA CallStep ==
  ASSUME TypeOK, CounterInv, Slot!TypeOK, CallInv, [LayerNext]_layerVars
  PROVE  CallInv'
<1>1. CASE LoadArm
  BY <1>1, SlotEffect DEF LoadArm, StartHandlers, CallInv
<1>2. CASE (TestCall \/ \E c \in Callers : Call(c)) /\ UNCHANGED slotVars
  BY <1>2 DEF TestCall, Call, sendVars, slotVars, CallInv
<1>3. CASE \E c \in Threads : CallerStep(c) /\ UNCHANGED slotVars
  BY <1>3, CallerKeeps DEF slotVars, CallInv
<1>4. CASE EnterSend
  BY <1>4, SlotEffect DEF EnterSend, vars, CallInv
<1>5. CASE InSend
  <2>1. UNCHANGED <<spc, q_size, wire>>
    BY <1>5 DEF InSend, vars
  <2>2. Len(wire[0]) \in Nat
    BY OneHandle DEF TypeOK
  <2>3. CASE Slot!PollOpen(arm)
    BY <2>1, <2>3, SlotEffect DEF CallInv
  <2>4. CASE Slot!WriteMark(arm)
    BY <2>1, <2>2, <2>4, SlotEffect DEF CallInv
  <2>5. CASE Slot!CopyIn(arm)
    BY <1>5, <2>1, <2>5, SlotEffect DEF InSend, CallInv
  <2>6. QED
    BY <1>5, <2>3, <2>4, <2>5 DEF InSend
<1>6. CASE ReturnFromSend
  <2>1. wire' = [wire EXCEPT ![0] = Append(@, smsg[0])]
    BY <1>6 DEF ReturnFromSend, LoopSend
  <2>2. slotpc[arm] = "copy" /\ slotpc'[arm] = "idle" /\ UNCHANGED sent
    BY <1>6, SlotEffect DEF ReturnFromSend
  <2>3. QED
    BY <2>1, <2>2, WireOne DEF CallInv
<1>7. CASE QueueStep
  <2>1. UNCHANGED <<slotpc, sent, live, wire>>
    BY <1>7 DEF QueueStep, slotVars, DownEmpty, DeqFetch, UpFull, DecRead, DecWrite, LoopEnd
  <2>2. slotpc[arm] = "idle"
    BY <1>7, OneHandle
       DEF QueueStep, DownEmpty, DeqFetch, UpFull, DecRead, DecWrite, LoopEnd, CallInv, TypeOK
  <2>3. QED
    BY <2>1, <2>2 DEF CallInv
<1>8. CASE LoadPeer
  BY <1>8, SlotEffect DEF LoadPeer, vars, CallInv
<1>9. CASE RecvThread
  BY <1>9, SlotEffect DEF RecvThread, Slot!RecvStep, vars, CallInv
<1>10. CASE UNCHANGED layerVars
  BY <1>10 DEF layerVars, slotVars, vars, CallInv
<1>11. QED
  BY <1>1, <1>2, <1>3, <1>4, <1>5, <1>6, <1>7, <1>8, <1>9, <1>10
     DEF LayerNext, SendThread

LEMMA CallCorrect == LayerSpec => [](TypeOK /\ Slot!TypeOK /\ CallInv)
<1>1. LayerInit => Slot!TypeOK /\ CallInv
  BY SlotInit, SlotFacts, OneHandle DEF LayerInit, Init, Slot!Init, CallInv
<1>2. TypeOK /\ CounterInv /\ Slot!TypeOK /\ CallInv /\ [LayerNext]_layerVars
        => Slot!TypeOK' /\ CallInv'
  <2> SUFFICES ASSUME TypeOK, CounterInv, Slot!TypeOK, CallInv, [LayerNext]_layerVars
               PROVE  Slot!TypeOK' /\ CallInv'
    OBVIOUS
  <2>1. UNCHANGED slotVars => Slot!TypeOK'
    BY DEF slotVars, Slot!TypeOK, Slot!VM, Slot!WordIndex, Slot!Word
  <2>2. Slot!TypeOK'
    BY <2>1, SlotTypes, LayerMoves
       DEF LoadArm, LoadPeer, EnterSend, InSend, ReturnFromSend, RecvThread
  <2>3. QED
    BY <2>2, CallStep
<1>3. QED
  BY <1>1, <1>2, LayerIsHandles, HandlesTypeCorrect, CounterCorrect, PTL DEF LayerSpec

\* Every variable of the composition keeps its type, and deq_send is in its loop
\* for as long as ivshmem_send runs: the counter it has tested stays positive
\* meanwhile, whatever the callers make of it.
THEOREM LayerTypeCorrect == LayerSpec => []LayerTypeOK
<1>1. TypeOK /\ Slot!TypeOK /\ CallInv => LayerTypeOK
  BY DEF CallInv, LayerTypeOK
<1>2. QED
  BY <1>1, CallCorrect, PTL

-----------------------------------------------------------------------------
(* One message in flight *)

\* The flag alternates between the mark of the ARM VM and OPEN, what a thread saw
\* in it stays true until that thread changes it, and only the one message whose
\* mark is in the flag has not been received.
FlightInv ==
  /\ ~ live[x86] => /\ flag = 0 /\ sent[arm] = 0
                    /\ slotpc[arm] \in {"idle", "poll"} /\ rpc[x86] = "poll"
  /\ flag \in {0, 2}
  /\ slotpc[arm] = "mark" => flag = 2
  /\ rpc[x86] # "poll" => flag = 0
  /\ sent[arm] = IF live[x86] /\ flag = 0 THEN Len(received[x86]) + 1
                                          ELSE Len(received[x86])

LEMMA FlightCorrect == LayerSpec => []FlightInv
<1>1. LayerInit => FlightInv
  BY SlotFacts DEF LayerInit, Slot!Init, FlightInv
<1>2. LayerTypeOK /\ FlightInv /\ [LayerNext]_layerVars => FlightInv'
  <2> SUFFICES ASSUME LayerTypeOK, FlightInv, [LayerNext]_layerVars PROVE FlightInv'
    OBVIOUS
  <2>1. Slot!TypeOK
    BY DEF LayerTypeOK
  <2> USE SlotEffect DEF FlightInv
  <2>2. CASE Slot!LoadX86
    BY <2>1, <2>2
  <2>3. CASE Slot!LoadArm
    BY <2>1, <2>3
  <2>4. CASE Slot!StartSend(arm)
    BY <2>1, <2>4
  <2>5. CASE Slot!PollOpen(arm)
    BY <2>1, <2>5
  <2>6. CASE Slot!WriteMark(arm)
    BY <2>1, <2>6
  <2>7. CASE Slot!CopyIn(arm)
    BY <2>1, <2>7
  <2>8. CASE Slot!PollMark(x86)
    BY <2>1, <2>8
  <2>9. CASE Slot!CopyOut(x86)
    BY <2>1, <2>9
  <2>10. CASE Slot!Reopen(x86)
    BY <2>1, <2>10
  <2>11. CASE UNCHANGED slotVars
    BY <2>11 DEF slotVars
  <2>12. QED
    BY <2>2, <2>3, <2>4, <2>5, <2>6, <2>7, <2>8, <2>9, <2>10, <2>11, LayerMoves
       DEF LoadArm, LoadPeer, EnterSend, InSend, ReturnFromSend, RecvThread, Slot!RecvStep
<1>3. QED
  BY <1>1, <1>2, LayerTypeCorrect, PTL DEF LayerSpec

\* The receive thread of the x86 VM is never more than one message behind the
\* loop of deq_send on the ARM VM, and never more than one ahead of it.
THEOREM PeerKeepsUpCorrect == LayerSpec => []PeerKeepsUp
<1>1. LayerTypeOK /\ CallInv /\ FlightInv => PeerKeepsUp
  <2> SUFFICES ASSUME LayerTypeOK, CallInv, FlightInv PROVE PeerKeepsUp
    OBVIOUS
  <2>1. Len(wire[0]) \in Nat
    BY OneHandle DEF LayerTypeOK, TypeOK
  <2>2. Len(received[x86]) \in Nat
    BY SlotEffect DEF LayerTypeOK
  <2>3. QED
    BY <2>1, <2>2 DEF CallInv, FlightInv, PeerKeepsUp
<1>2. QED
  BY <1>1, FlightCorrect, LayerTypeCorrect, CallCorrect, PTL

-----------------------------------------------------------------------------
(* The words of a message *)

\* With the ARM VM the only sender, WordsInv of SharedSlot speaks of two threads.
Older == Slot!Nth(arm, sent[arm] - 1)
Newer == Slot!Nth(arm, sent[arm])
CopyPlaces == /\ IF slotpc[arm] = "copy" THEN sent[arm] > 0 ELSE sw[arm] = 1
              /\ rpc[x86] # "copy" => rw[x86] = 1
BodyWords == \A w \in Slot!WordIndex :
  body[w] = IF slotpc[arm] = "copy" /\ w >= sw[arm] THEN Older ELSE Newer
Copied(w) == rpc[x86] = "open" \/ (rpc[x86] = "copy" /\ w < rw[x86])
BufferWords == \A w \in Slot!WordIndex : Copied(w) => rbuf[x86][w] \in {Older, Newer}
ReceivedWords == \A n \in 1 .. Len(received[x86]) : \A w \in Slot!WordIndex :
  received[x86][n][w] \in {Slot!Nth(arm, n - 1), Slot!Nth(arm, n)}
PathWordsInv == CopyPlaces /\ BodyWords /\ BufferWords /\ ReceivedWords

LEMMA PathWordsStep ==
  ASSUME Slot!TypeOK, FlightInv, PathWordsInv, [LayerNext]_layerVars
  PROVE  PathWordsInv'
<1> USE DEF Slot!memory, Slot!vms, Slot!sender, Slot!receiver
<1>0. CopyPlaces /\ BodyWords /\ BufferWords /\ ReceivedWords
  BY DEF PathWordsInv
<1>h. /\ sent[arm] \in Nat /\ Len(received[x86]) \in Nat
      /\ sw[arm] \in Slot!WordIndex /\ rw[x86] \in Slot!WordIndex
      /\ body \in [Slot!WordIndex -> Slot!Word] /\ rbuf[x86] \in [Slot!WordIndex -> Slot!Word]
      /\ received[x86] \in Seq([Slot!WordIndex -> Slot!Word])
  BY SlotFacts, SlotEffect DEF Slot!TypeOK
<1>w. /\ Slot!WordIndex \subseteq Nat /\ 1 \in Slot!WordIndex /\ Words \in Nat
      /\ \A w \in Slot!WordIndex : 1 <= w /\ w <= Words
  BY PartitionAssumption DEF Slot!WordIndex
<1>1. ASSUME UNCHANGED <<body, sent, sw, rw, rbuf, received>>,
             slotpc'[arm] = "copy" <=> slotpc[arm] = "copy", rpc' = rpc
      PROVE  PathWordsInv'
  <2>1. Older' = Older /\ Newer' = Newer
    BY <1>1 DEF Older, Newer
  <2>2. CopyPlaces' /\ BodyWords'
    BY <1>0, <1>1, <2>1 DEF CopyPlaces, BodyWords
  <2>3. BufferWords' /\ ReceivedWords'
    BY <1>0, <1>1, <2>1 DEF BufferWords, ReceivedWords, Copied
  <2>4. QED
    BY <2>2, <2>3 DEF PathWordsInv
<1>2. CASE Slot!LoadX86 \/ Slot!LoadArm
  BY <1>1, <1>2 DEF Slot!LoadX86, Slot!LoadArm
<1>3. CASE Slot!StartSend(arm) \/ Slot!PollOpen(arm)
  <2>1. arm \in Slot!VM /\ slotpc \in [Slot!VM -> {"idle", "poll", "mark", "copy"}]
    BY SlotFacts DEF Slot!TypeOK
  <2>2. QED
    BY <1>1, <1>3, <2>1 DEF Slot!StartSend, Slot!PollOpen
<1>4. CASE Slot!WriteMark(arm)
  <2>1. /\ slotpc[arm] = "mark" /\ slotpc'[arm] = "copy" /\ sent'[arm] = sent[arm] + 1
        /\ UNCHANGED <<body, sw, rpc, rw, rbuf, received>>
    BY <1>4, SlotEffect DEF Slot!WriteMark
  <2>2. rpc[x86] = "poll"
    BY <2>1 DEF FlightInv
  <2>3. CopyPlaces'
    BY <1>0, <1>h, <2>1, <2>2 DEF CopyPlaces
  <2>4. Older' = Newer
    BY <1>h, <2>1 DEF Older, Newer, Slot!Nth
  <2>5. \A w \in Slot!WordIndex : w >= sw'[arm] /\ body'[w] = Newer
    BY <1>0, <1>w, <2>1 DEF CopyPlaces, BodyWords
  <2>6. BodyWords'
    BY <2>1, <2>4, <2>5 DEF BodyWords
  <2>7. BufferWords'
    BY <2>1, <2>2 DEF BufferWords, Copied
  <2>8. ReceivedWords'
    BY <1>0, <2>1 DEF ReceivedWords
  <2>9. QED
    BY <2>3, <2>6, <2>7, <2>8 DEF PathWordsInv
<1>5. CASE Slot!CopyIn(arm)
  <2>1. /\ slotpc[arm] = "copy" /\ sent[arm] > 0
        /\ body' = [body EXCEPT ![sw[arm]] = <<arm, sent[arm]>>]
        /\ sw'[arm] = IF sw[arm] = Words THEN 1 ELSE sw[arm] + 1
        /\ slotpc'[arm] = IF sw[arm] = Words THEN "idle" ELSE "copy"
        /\ UNCHANGED <<sent, rpc, rw, rbuf, received>>
    BY <1>0, <1>5, SlotFacts DEF Slot!CopyIn, Slot!TypeOK, CopyPlaces
  <2>2. CopyPlaces'
    BY <1>0, <2>1 DEF CopyPlaces
  <2>3. Newer = <<arm, sent[arm]>> /\ Newer' = Newer /\ Older' = Older
    BY <1>h, <2>1 DEF Older, Newer, Slot!Nth
  <2>4. BodyWords'
    <3> DEFINE Word(w) == IF slotpc[arm] = "copy" /\ w >= sw[arm] THEN Older ELSE Newer
    <3> SUFFICES ASSUME NEW w \in Slot!WordIndex PROVE body'[w] = Word(w)'
      BY DEF BodyWords
    <3>1. body[w] = Word(w)
      BY <1>0 DEF BodyWords
    <3>2. w \in Nat /\ sw[arm] \in Nat /\ w <= Words
      BY <1>h, <1>w
    <3>3. CASE w = sw[arm]
      <4>1. body'[w] = Newer
        BY <1>h, <2>1, <2>3, <3>3
      <4>2. Word(w)' = Newer
        BY <1>h, <2>1, <2>3, <3>2, <3>3
      <4>3. QED
        BY <4>1, <4>2
    <3>4. CASE w # sw[arm]
      <4>1. body'[w] = body[w]
        BY <1>h, <2>1, <3>4
      <4>2. Word(w)' = Word(w)
        BY <1>h, <2>1, <2>3, <3>2, <3>4
      <4>3. QED
        BY <3>1, <4>1, <4>2
    <3>5. QED
      BY <3>3, <3>4
  <2>5. BufferWords' /\ ReceivedWords'
    BY <1>0, <2>1, <2>3 DEF BufferWords, ReceivedWords, Copied
  <2>6. QED
    BY <2>2, <2>4, <2>5 DEF PathWordsInv
<1>6. CASE Slot!PollMark(x86)
  <2>1. /\ rpc[x86] = "poll" /\ rpc'[x86] = "copy"
        /\ UNCHANGED <<body, sent, slotpc, sw, rw, rbuf, received>>
    BY <1>6, SlotEffect DEF Slot!PollMark
  <2>2. CopyPlaces' /\ BodyWords' /\ ReceivedWords'
    BY <1>0, <2>1 DEF CopyPlaces, BodyWords, ReceivedWords, Older, Newer
  <2>3. \A w \in Slot!WordIndex : ~ Copied(w)'
    BY <1>0, <1>w, <2>1 DEF CopyPlaces, Copied
  <2>4. QED
    BY <2>2, <2>3 DEF PathWordsInv, BufferWords
<1>7. CASE Slot!CopyOut(x86)
  <2>1. /\ rpc[x86] = "copy"
        /\ rbuf'[x86] = [rbuf[x86] EXCEPT ![rw[x86]] = body[rw[x86]]]
        /\ rw'[x86] = IF rw[x86] = Words THEN 1 ELSE rw[x86] + 1
        /\ rpc'[x86] = IF rw[x86] = Words THEN "open" ELSE "copy"
        /\ UNCHANGED <<body, sent, slotpc, sw, received>>
    BY <1>7, SlotFacts DEF Slot!CopyOut, Slot!TypeOK
  <2>2. Older' = Older /\ Newer' = Newer
    BY <2>1 DEF Older, Newer
  <2>3. CopyPlaces' /\ BodyWords' /\ ReceivedWords'
    BY <1>0, <2>1, <2>2 DEF CopyPlaces, BodyWords, ReceivedWords
  <2>4. BufferWords'
    <3> SUFFICES ASSUME NEW w \in Slot!WordIndex, Copied(w)'
                 PROVE  rbuf'[x86][w] \in {Older, Newer}
      BY <2>2 DEF BufferWords
    <3>1. CASE w = rw[x86]
      <4>1. rbuf'[x86][w] = body[w]
        BY <1>h, <2>1, <3>1
      <4>2. QED
        BY <1>0, <4>1 DEF BodyWords
    <3>2. CASE w # rw[x86]
      <4>1. w \in Nat /\ rw[x86] \in Nat /\ rw[x86] <= Words /\ w <= Words
        BY <1>h, <1>w
      <4>2. w < rw[x86]
        BY <2>1, <3>2, <4>1 DEF Copied
      <4>3. rbuf[x86][w] \in {Older, Newer}
        BY <1>0, <2>1, <4>2 DEF BufferWords, Copied
      <4>4. QED
        BY <1>h, <2>1, <3>2, <4>3
    <3>3. QED
      BY <3>1, <3>2
  <2>5. QED
    BY <2>3, <2>4 DEF PathWordsInv
<1>8. CASE Slot!Reopen(x86)
  <2>1. /\ rpc[x86] = "open" /\ rpc'[x86] = "poll"
        /\ received'[x86] = Append(received[x86], rbuf[x86])
        /\ UNCHANGED <<body, sent, slotpc, sw, rw>>
    BY <1>8, SlotFacts DEF Slot!Reopen, Slot!TypeOK
  <2>2. CopyPlaces' /\ BodyWords' /\ BufferWords'
    BY <1>0, <2>1 DEF CopyPlaces, BodyWords, BufferWords, Copied, Older, Newer
  <2>3. ReceivedWords'
    <3> DEFINE L == Len(received[x86])
    <3>1. /\ Len(received'[x86]) = L + 1 /\ received'[x86][L + 1] = rbuf[x86]
          /\ \A n \in 1 .. L : received'[x86][n] = received[x86][n]
      BY <1>h, <2>1
    <3>2. sent[arm] = L + 1
      BY <1>h, <2>1 DEF FlightInv
    <3>3. \A w \in Slot!WordIndex : rbuf[x86][w] \in {Slot!Nth(arm, L), Slot!Nth(arm, L + 1)}
      <4>1. sent[arm] - 1 = L
        BY <1>h, <3>2
      <4>2. QED
        BY <1>0, <2>1, <3>2, <4>1 DEF BufferWords, Copied, Older, Newer
    <3>4. \A n \in 1 .. L + 1 : n \in 1 .. L \/ (n = L + 1 /\ n - 1 = L)
      BY <1>h
    <3>5. QED
      BY <1>0, <3>1, <3>3, <3>4 DEF ReceivedWords
  <2>4. QED
    BY <2>2, <2>3 DEF PathWordsInv
<1>9. CASE UNCHANGED slotVars
  BY <1>1, <1>9 DEF slotVars
<1>10. QED
  BY <1>2, <1>3, <1>4, <1>5, <1>6, <1>7, <1>8, <1>9, LayerMoves
     DEF LoadArm, LoadPeer, EnterSend, InSend, ReturnFromSend, RecvThread, Slot!RecvStep

LEMMA PathWordsCorrect == LayerSpec => []PathWordsInv
<1>1. LayerInit => PathWordsInv
  <2> SUFFICES ASSUME Slot!Init PROVE PathWordsInv
    BY DEF LayerInit
  <2>1. /\ slotpc[arm] = "idle" /\ sw[arm] = 1 /\ rpc[x86] = "poll" /\ rw[x86] = 1
        /\ sent[arm] = 0 /\ received[x86] = <<>> /\ body = Slot!NoWords
    BY SlotFacts DEF Slot!Init
  <2>2. CopyPlaces /\ BufferWords /\ ReceivedWords
    BY <2>1 DEF CopyPlaces, BufferWords, Copied, ReceivedWords
  <2>3. BodyWords
    BY <2>1 DEF BodyWords, Newer, Slot!Nth, Slot!NoWords
  <2>4. QED
    BY <2>2, <2>3 DEF PathWordsInv
<1>2. LayerTypeOK /\ FlightInv /\ PathWordsInv /\ [LayerNext]_layerVars => PathWordsInv'
  BY PathWordsStep DEF LayerTypeOK
<1>3. QED
  BY <1>1, <1>2, LayerTypeCorrect, FlightCorrect, PTL DEF LayerSpec

-----------------------------------------------------------------------------
(* The order from end to end *)

\* What has a mark was fetched: the n-th mark stands for a message that enq_send
\* stored, and not for one before that of the mark before.
LEMMA CarriedInOrder ==
  ASSUME LayerTypeOK, CallInv, PeerKeepsUp, FlightInv, FifoOrder, IdentityInv, WireInv,
         TakenApart, NEW n \in 1 .. Len(received[x86])
  PROVE  /\ \E p \in 1 .. Len(accepted[0]) : accepted[0][p] = Carried(n)
         /\ Place(0, Carried(n)) \in Nat
         /\ n > 1 => Place(0, Carried(n - 1)) <= Place(0, Carried(n))
<1> DEFINE T == Len(taken[0])  W == Len(wire[0])
<1>1. 0 \in Handles
  BY OneHandle
<1>2. /\ T \in Nat /\ W \in Nat /\ Len(accepted[0]) \in Nat /\ T <= Len(accepted[0])
      /\ \A p \in 1 .. T : taken[0][p] = accepted[0][p]
  BY <1>1 DEF LayerTypeOK, TypeOK, FifoOrder
<1>3. \A p \in 1 .. T : /\ p \in 1 .. Len(accepted[0]) /\ p \in Nat
                        /\ accepted[0][p] = taken[0][p]
                        /\ Place(0, taken[0][p]) = p
  <2> TAKE p \in 1 .. T
  <2>1. p \in 1 .. Len(accepted[0]) /\ p \in Nat
    BY <1>2
  <2>2. QED
    BY <1>1, <1>2, <2>1, PlaceIs
<1>4. /\ \A m \in 1 .. W : \E p \in 1 .. T : taken[0][p] = wire[0][m]
      /\ \A m \in 1 .. W : \A p, q \in 1 .. T :
           m > 1 /\ taken[0][p] = wire[0][m - 1] /\ taken[0][q] = wire[0][m] => p <= q
  BY <1>1 DEF WireInv
<1>5. Len(received[x86]) \in Nat /\ sent[arm] \in Nat
  BY SlotEffect DEF LayerTypeOK
<1>6. CASE n \in 1 .. W
  <2>1. Carried(n) = wire[0][n]
    BY <1>2, <1>6 DEF Carried
  <2>2. PICK q \in 1 .. T : taken[0][q] = Carried(n)
    BY <1>4, <1>6, <2>1
  <2>3. ASSUME n > 1 PROVE Place(0, Carried(n - 1)) <= Place(0, Carried(n))
    <3>1. n - 1 \in 1 .. W /\ Carried(n - 1) = wire[0][n - 1]
      BY <1>2, <1>6, <2>3 DEF Carried
    <3>2. PICK p \in 1 .. T : taken[0][p] = Carried(n - 1)
      BY <1>4, <3>1
    <3>3. p <= q
      BY <1>4, <1>6, <2>1, <2>2, <2>3, <3>1, <3>2
    <3>4. QED
      BY <1>3, <2>2, <3>2, <3>3
  <2>4. QED
    BY <1>3, <2>2, <2>3
<1>7. CASE n \notin 1 .. W
  <2>1. n = W + 1
    BY <1>2, <1>5, <1>7 DEF PeerKeepsUp
  <2>2. slotpc[arm] = "copy"
    BY <1>2, <1>5, <2>1 DEF FlightInv, CallInv
  <2>3. spc[0] = "loop"
    BY <2>2 DEF CallInv
  <2>4. T > 0 /\ smsg[0] = taken[0][T]
    BY <1>1, <2>3 DEF WireInv, Sending
  <2>5. T \in 1 .. T /\ Carried(n) = taken[0][T]
    BY <1>2, <2>1, <2>4 DEF Carried
  <2>6. ASSUME n > 1 PROVE Place(0, Carried(n - 1)) <= Place(0, Carried(n))
    <3>1. n - 1 \in 1 .. W /\ Carried(n - 1) = wire[0][n - 1]
      BY <1>2, <2>1, <2>6 DEF Carried
    <3>2. PICK p \in 1 .. T : taken[0][p] = Carried(n - 1)
      BY <1>4, <3>1
    <3>3. p <= T
      BY <1>2
    <3>4. QED
      BY <1>3, <2>5, <3>2, <3>3
  <2>7. QED
    BY <1>3, <2>5, <2>6
<1>8. QED
  BY <1>6, <1>7

\* Every word that the receive thread of the x86 VM hands up belongs to a message
\* that enq_send stored on the ARM VM, and words do not overtake each other: the
\* races of q_size, the transmit loop, the early mark and the copy of a body that
\* is still being written together lose and repeat, but never reorder.
THEOREM DeliveredInOrderCorrect ==
  ASSUME WrapsAtDepth PROVE LayerSpec => []DeliveredInOrder
<1>1. LayerTypeOK /\ CallInv /\ PeerKeepsUp /\ FlightInv /\ PathWordsInv /\ FifoOrder
        /\ IdentityInv /\ WireInv /\ TakenApart => DeliveredInOrder
  <2> SUFFICES ASSUME LayerTypeOK, CallInv, PeerKeepsUp, FlightInv, PathWordsInv, FifoOrder,
                      IdentityInv, WireInv, TakenApart
               PROVE  DeliveredInOrder
    OBVIOUS
  <2> DEFINE R == Len(received[x86])
  <2>h. R \in Nat /\ Slot!WordIndex = 1 .. Words
    BY SlotEffect DEF LayerTypeOK, Slot!WordIndex
  <2> SUFFICES ASSUME NEW n \in 1 .. R, NEW w \in Slot!WordIndex
               PROVE  LET word == received[x86][n][w] IN
                        /\ word # Blank => \E p \in 1 .. Len(accepted[0]) :
                                              accepted[0][p] = Carried(word[2])
                        /\ n > 1 => Rank(word) >= Rank(received[x86][n - 1][w])
                        /\ n > 1 => Rank(word) >= Place(0, Carried(n - 1))
                        /\ Rank(word) <= Place(0, Carried(n))
    BY <2>h DEF DeliveredInOrder
  <2> DEFINE word == received[x86][n][w]
             N(m) == Slot!Nth(arm, m)
  <2>1. word \in {N(n - 1), N(n)}
    BY DEF PathWordsInv, ReceivedWords
  <2>2. /\ N(0) = Blank /\ Rank(N(0)) = 0
        /\ \A m \in 1 .. R : N(m) # Blank /\ N(m)[2] = m /\ Rank(N(m)) = Place(0, Carried(m))
    <3>1. N(0) = Blank
      BY DEF Slot!Nth
    <3>2. ASSUME NEW m \in 1 .. R PROVE N(m) = <<arm, m>> /\ <<arm, m>> # Blank
      BY <2>h, PartitionAssumption DEF Slot!Nth
    <3>3. \A m \in 1 .. R : N(m) # Blank /\ N(m)[2] = m
      BY <3>2
    <3>4. QED
      BY <3>1, <3>3 DEF Rank
  <2> HIDE DEF N
  <2>3. \A m \in 1 .. R :
          /\ \E p \in 1 .. Len(accepted[0]) : accepted[0][p] = Carried(m)
          /\ Place(0, Carried(m)) \in Nat
          /\ m > 1 => Place(0, Carried(m - 1)) <= Place(0, Carried(m))
    BY CarriedInOrder
  <2>4. n - 1 \in 1 .. R \/ n - 1 = 0
    BY <2>h
  <2>5. word # Blank => \E p \in 1 .. Len(accepted[0]) : accepted[0][p] = Carried(word[2])
    <3> HIDE DEF R
    <3>1. word # Blank => \E m \in 1 .. R : word = N(m)
      BY <2>1, <2>2, <2>4
    <3>2. SUFFICES ASSUME word # Blank
                   PROVE  \E p \in 1 .. Len(accepted[0]) : accepted[0][p] = Carried(word[2])
      OBVIOUS
    <3>3. PICK m \in 1 .. R : word = N(m)
      BY <3>1, <3>2
    <3>4. word[2] = m
      BY <2>2, <3>3
    <3>5. QED
      BY <2>3, <3>4
  <2>6. ASSUME n > 1
        PROVE  /\ Rank(word) >= Rank(received[x86][n - 1][w])
               /\ Rank(word) >= Place(0, Carried(n - 1))
    <3>1. n - 1 \in 1 .. R /\ (n - 2 \in 1 .. R \/ n - 2 = 0) /\ (n - 1) - 1 = n - 2
      BY <2>h, <2>6
    <3>2. received[x86][n - 1][w] \in {N(n - 2), N(n - 1)}
      BY <3>1 DEF PathWordsInv, ReceivedWords, N
    <3>3. /\ Rank(N(n)) \in Nat /\ Rank(N(n - 1)) \in Nat /\ Rank(N(n - 2)) \in Nat
          /\ Rank(N(n - 1)) = Place(0, Carried(n - 1))
      <4>1. \A m \in 1 .. R : Rank(N(m)) = Place(0, Carried(m)) /\ Rank(N(m)) \in Nat
        BY <2>2, <2>3
      <4>2. Rank(N(n - 2)) \in Nat
        BY <2>2, <3>1, <4>1
      <4>3. QED
        BY <3>1, <4>1, <4>2
    <3>4. Rank(N(n - 1)) <= Rank(N(n))
      BY <2>2, <2>3, <2>6, <3>1
    <3>5. Rank(N(n - 2)) <= Rank(N(n - 1))
      <4>1. CASE n - 2 = 0
        BY <2>2, <3>3, <4>1
      <4>2. CASE n - 2 \in 1 .. R
        <5>1. n - 1 > 1
          BY <2>h, <4>2
        <5>2. QED
          BY <2>2, <2>3, <3>1, <4>2, <5>1
      <4>3. QED
        BY <3>1, <4>1, <4>2
    <3>6. \A r1 \in {Rank(N(n - 1)), Rank(N(n))} : \A r2 \in {Rank(N(n - 2)), Rank(N(n - 1))} :
            r1 >= r2 /\ r1 >= Rank(N(n - 1))
      BY <3>3, <3>4, <3>5
    <3>7. /\ Rank(word) \in {Rank(N(n - 1)), Rank(N(n))}
          /\ Rank(received[x86][n - 1][w]) \in {Rank(N(n - 2)), Rank(N(n - 1))}
      BY <2>1, <3>2
    <3>8. QED
      BY <3>3, <3>6, <3>7
  <2>7. Rank(word) <= Place(0, Carried(n))
    <3>1. Rank(N(n)) = Place(0, Carried(n)) /\ Rank(N(n)) \in Nat
      BY <2>2, <2>3
    <3>2. Rank(N(n - 1)) \in Nat /\ Rank(N(n - 1)) <= Rank(N(n))
      <4>1. CASE n - 1 = 0
        BY <2>2, <3>1, <4>1
      <4>2. CASE n - 1 \in 1 .. R
        <5>1. n > 1
          BY <2>h, <4>2
        <5>2. /\ Rank(N(n - 1)) = Place(0, Carried(n - 1))
              /\ Place(0, Carried(n - 1)) \in Nat
          BY <2>2, <2>3, <4>2
        <5>3. Place(0, Carried(n - 1)) <= Place(0, Carried(n))
          BY <2>3, <5>1
        <5>4. QED
          BY <3>1, <5>2, <5>3
      <4>3. QED
        BY <2>4, <4>1, <4>2
    <3>3. Rank(word) = Rank(N(n - 1)) \/ Rank(word) = Rank(N(n))
      BY <2>1
    <3>4. QED
      BY <3>1, <3>2, <3>3
  <2>8. QED
    BY <2>5, <2>6, <2>7
<1>2. QED
  BY <1>1, LayerIsHandles, LayerTypeCorrect, CallCorrect, PeerKeepsUpCorrect, FlightCorrect,
     PathWordsCorrect, OrderCorrect, IdentityCorrect, WireCorrect, TakenCorrect, PTL
=============================================================================
