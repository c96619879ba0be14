--------------------------- MODULE MessagingLayer ---------------------------
(***************************************************************************)
(* One direction of the messaging layer from end to end: the upper layer   *)
(* of the ARM VM calls enq_send, the send thread of its handle takes the   *)
(* message through the partition, and the receive thread of the x86 VM     *)
(* returns it.  SendHandles, with the one handle 0, is composed with       *)
(* SharedSlot.  There ivshmem_send is one step that always returns; here   *)
(* it is the steps of the partition, it waits for the peer, and callers go *)
(* on meanwhile.  Neither VM is reset and the x86 VM does not send.        *)
(***************************************************************************)
EXTENDS SendHandles

CONSTANTS arm, x86, Words, MaxSends, Blank

\* The variables of the partition; slotpc is its spc.
VARIABLES flag, body, live, boots, slotpc, sw, rpc, rw, rbuf, sent, received, marks

slotVars == <<flag, body, live, boots, slotpc, sw, rpc, rw, rbuf, sent, received, marks>>
layerVars == <<vars, slotVars>>

Slot == INSTANCE SharedSlot WITH spc <- slotpc, Senders <- {arm}, MaxBoots <- 1

ASSUME LayerAssumption == NUMBER_OF_HANDLES = 1
ASSUME PartitionAssumption == /\ arm # x86 /\ Words \in Nat \ {0} /\ MaxSends \in Nat
                              /\ Blank \notin {arm, x86} \X Nat

LayerInit == Init /\ Slot!Init

-----------------------------------------------------------------------------
(* Plausible slips, each a variant of one step below                        *)

\* ivshmem_send gives up after the mark, with part of the body
ReturnEarly ==
  /\ \/ Slot!CopyIn(arm)
     \/ /\ slotpc[arm] = "copy" /\ sw[arm] = 2
        /\ slotpc' = [slotpc EXCEPT ![arm] = "idle"]
        /\ sw' = [sw EXCEPT ![arm] = 1]
        /\ UNCHANGED <<flag, body, live, boots, rpc, rw, rbuf, sent, received, marks>>
  /\ slotpc'[arm] = "idle"
  /\ LoopSend(0)

\* deq_send does not wait for ivshmem_send to return
EnterSendAsync ==
  /\ spc[0] = "loop" /\ q_size[0] > 0
  /\ Slot!StartSend(arm)
  /\ LoopSend(0)

-----------------------------------------------------------------------------
(* The ARM VM *)

\* The threads of the VM start together: the partition gets a user.
LoadArm ==
  /\ StartHandlers(0)
  /\ Slot!LoadArm

\* The loop of deq_send calls ivshmem_send ...
EnterSend ==
  /\ spc[0] = "loop" /\ q_size[0] > 0
  /\ Slot!StartSend(arm)
  /\ UNCHANGED vars

\* ... which polls, marks and copies while spc[0] stays in the loop ...
InSend ==
  /\ Slot!PollOpen(arm) \/ Slot!WriteMark(arm) \/ Slot!CopyIn(arm)
  /\ slotpc'[arm] # "idle"
  /\ UNCHANGED vars

\* ... and returns with the last word.
ReturnFromSend ==
  /\ Slot!CopyIn(arm)
  /\ slotpc'[arm] = "idle"
  /\ LoopSend(0)

\* The rest of enq_send, deq_send and test_func does not touch the partition.
QueueStep ==
  /\ \/ DownEmpty(0) \/ DeqFetch(0) \/ UpFull(0)
     \/ DecRead(0) \/ DecWrite(0) \/ LoopEnd(0)
  /\ UNCHANGED slotVars

SendThread == EnterSend \/ InSend \/ ReturnFromSend \/ QueueStep

-----------------------------------------------------------------------------
(* The x86 VM *)

LoadPeer == Slot!LoadX86 /\ UNCHANGED vars
RecvThread == Slot!RecvStep(x86) /\ UNCHANGED vars

-----------------------------------------------------------------------------
LayerNext ==
  \/ LoadArm
  \/ (TestCall \/ \E c \in Callers : Call(c)) /\ UNCHANGED slotVars
  \/ \E c \in Threads : CallerStep(c) /\ UNCHANGED slotVars
  \/ SendThread
  \/ LoadPeer
  \/ RecvThread

LayerSpec == LayerInit /\ [][LayerNext]_layerVars

\* Both modules are loaded, and threads that can run do run.
LayerFairness ==
  /\ WF_layerVars(LoadArm) /\ WF_layerVars(TestCall /\ UNCHANGED slotVars)
  /\ \A c \in Threads : WF_layerVars(CallerStep(c) /\ UNCHANGED slotVars)
  /\ WF_layerVars(SendThread)
  /\ WF_layerVars(LoadPeer)
  /\ WF_layerVars(RecvThread)
LayerFairSpec == LayerSpec /\ LayerFairness

-----------------------------------------------------------------------------
(* Properties *)

LayerTypeOK ==
  /\ TypeOK /\ Slot!TypeOK
  /\ slotpc[arm] # "idle" => spc[0] = "loop"

\* The message that the n-th mark of the ARM VM stands for; the last one is
\* still being sent.
Carried(n) == IF n <= Len(wire[0]) THEN wire[0][n] ELSE smsg[0]

\* Where in the order of enq_send the message of a body word is; an unwritten
\* word comes before all.
Rank(word) == IF word = Blank THEN 0 ELSE Place(0, Carried(word[2]))

\* From end to end nothing is invented, torn over more than two neighbours or
\* overtaken: every word that ivshmem_recv returns on the x86 VM belongs to a
\* message that enq_send stored on the ARM VM, no word is of an older message
\* than the same word before, none is older than the previous message, and none
\* is newer than the message whose mark was seen.
DeliveredInOrder ==
  \A n \in 1 .. Len(received[x86]) : \A w \in 1 .. Words :
    LET word == received[x86][n][w] IN
      /\ word # Blank => \E p \in 1 .. Len(accepted[0]) :
                            accepted[0][p] = Carried(word[2])
      /\ n > 1 => Rank(word) >= Rank(received[x86][n - 1][w])
      /\ n > 1 => Rank(word) >= Place(0, Carried(n - 1))
      /\ Rank(word) <= Place(0, Carried(n))

\* The receiver is at most one message behind what deq_send believes it has
\* sent, and at most one ahead: it may return before ivshmem_send does.
PeerKeepsUp ==
  /\ Len(wire[0]) <= Len(received[x86]) + 1
  /\ Len(received[x86]) <= Len(wire[0]) + 1

\* SendHandles is right to take ivshmem_send for one step that returns: with the
\* partition in between, and a peer that is loaded some time, its send side does
\* nothing else, and everything that must happen there still does.
HandlesFairSpec == FairSpec

\* Once initialize has got past test_func, all that deq_send sends is received,
\* and everybody comes to rest.
WireDelivered ==
  <>(started = 1) => <>[](Len(received[x86]) = Len(wire[0]) /\ AtRest)
=============================================================================
