---------------------------- MODULE SendHandles ----------------------------
(***************************************************************************)
(* The send side of one VM: NUMBER_OF_HANDLES queues, the choice among     *)
(* them (find_low_queue), and the counter q_size that both the callers of  *)
(* enq_send and the send threads update: enq_send increments it under      *)
(* q_lock, deq_send decrements it without, and find_low_queue and the loop *)
(* of deq_send read it without.  An update is a read and a later write, so *)
(* one of two concurrent updates may be lost.                              *)
(*                                                                         *)
(* initialize comes first: it makes the queues, calls enq_send NUM_MSGS    *)
(* times itself (test_func) and starts the send threads only then.  Code   *)
(* under q_lock that no other thread can see (all but q_size) is one step; *)
(* SendRing has the ring and the semaphores step by step.  The peer opens  *)
(* the slot of a handle in the end, so ivshmem_send returns.               *)
(***************************************************************************)
EXTENDS RingIndex, Integers, Sequences, FiniteSets

CONSTANTS NUMBER_OF_HANDLES,
          NUM_MSGS,  \* messages test_func sends
          Callers,   \* threads of the upper layer that call enq_send
          MaxCalls,  \* bound on their calls
          Loader,    \* the thread that runs initialize
          Nobody,    \* the owner of a free lock
          NoMsg      \* what an unwritten slot holds

Handles == 0 .. NUMBER_OF_HANDLES - 1
Threads == Callers \cup {Loader}
Inf == 10000  \* the initial mincount of find_low_queue

ASSUME HandlesAssumption == NUMBER_OF_HANDLES \in Nat \ {0}
ASSUME CountsAssumption == NUM_MSGS \in Nat /\ MaxCalls \in Nat
ASSUME ThreadsAssumption == /\ IsFiniteSet(Callers)
                            /\ Loader \notin Callers /\ Nobody \notin Threads

VARIABLES
  q_head, q_tail, msg_q, q_size,       \* of each handle: the ring and its counter
  q_empty, q_full, q_lock,             \* its semaphores and its lock
  pc, msg, i, min, mincount, h, size,  \* of each caller: its place and its locals
  spc, smsg, ssize,                    \* of each send thread: the same
  started,                             \* number of handles whose threads run
  calls, demos,                        \* calls of the upper layer and of test_func
  accepted, taken, wire                \* history, of each handle: stored, fetched, sent

rings == <<q_head, q_tail, msg_q>>
sems == <<q_empty, q_full>>
scan == <<i, min, mincount>>
callerVars == <<pc, msg, i, min, mincount, h, size, calls, demos>>
sendVars == <<spc, smsg, ssize, started, taken, wire>>
vars == <<q_head, q_tail, msg_q, q_size, q_empty, q_full, q_lock, pc, msg, i, min,
          mincount, h, size, spc, smsg, ssize, started, calls, demos, accepted,
          taken, wire>>

Init ==
  /\ q_head = [k \in Handles |-> 0] /\ q_tail = [k \in Handles |-> 0]
  /\ msg_q = [k \in Handles |-> [s \in Slots |-> NoMsg]]
  /\ q_size = [k \in Handles |-> 0]
  /\ q_empty = [k \in Handles |-> 0]
  /\ q_full = [k \in Handles |-> MAX_SEND_DEPTH]
  /\ q_lock = [k \in Handles |-> Nobody]
  /\ pc = [c \in Threads |-> "idle"] /\ msg = [c \in Threads |-> NoMsg]
  /\ i = [c \in Threads |-> 0] /\ min = [c \in Threads |-> 0]
  /\ mincount = [c \in Threads |-> Inf]
  /\ h = [c \in Threads |-> 0] /\ size = [c \in Threads |-> 0]
  /\ spc = [k \in Handles |-> "off"]
  /\ smsg = [k \in Handles |-> NoMsg] /\ ssize = [k \in Handles |-> 0]
  /\ started = 0
  /\ calls = 0 /\ demos = 0
  /\ accepted = [k \in Handles |-> <<>>] /\ taken = [k \in Handles |-> <<>>]
  /\ wire = [k \in Handles |-> <<>>]

-----------------------------------------------------------------------------
(* Plausible slips, each a variant of one step below                        *)

\* enq_send forgets to count the message
EnqIncForgotten(c) ==
  /\ pc[c] = "inc"
  /\ q_lock' = [q_lock EXCEPT ![h[c]] = Nobody]
  /\ pc' = [pc EXCEPT ![c] = "up"]
  /\ UNCHANGED <<rings, q_size, sems, msg, scan, h, size, calls, demos, sendVars, accepted>>

\* a down of q_full that a signal interrupts is not tried again
DownFullOnce(c) ==
  /\ pc[c] = "down"
  /\ q_full' = [q_full EXCEPT ![h[c]] = IF @ > 0 THEN @ - 1 ELSE 0]
  /\ pc' = [pc EXCEPT ![c] = "lock"]
  /\ UNCHANGED <<rings, q_size, q_empty, q_lock, msg, scan, h, size, calls, demos,
                 sendVars, accepted>>

\* enq_send returns without waking the send thread
UpEmptyForgotten(c) ==
  /\ pc[c] = "up"
  /\ pc' = [pc EXCEPT ![c] = "idle"]
  /\ UNCHANGED <<rings, q_size, sems, q_lock, msg, scan, h, size, calls, demos,
                 sendVars, accepted>>

\* a down of q_empty that a signal interrupts is not tried again
DownEmptyOnce(k) ==
  /\ spc[k] = "down"
  /\ q_empty' = [q_empty EXCEPT ![k] = IF @ > 0 THEN @ - 1 ELSE 0]
  /\ spc' = [spc EXCEPT ![k] = "fetch"]
  /\ UNCHANGED <<rings, q_size, q_full, q_lock, callerVars, smsg, ssize, started,
                 accepted, taken, wire>>

\* deq_send takes its spin lock twice (as the doorbell variant does) and spins
DeqFetchTwice(k) ==
  /\ spc[k] = "fetch"
  /\ UNCHANGED vars

\* a transmission that fails is tried again ("continue"), for ever
LoopSendRetries(k) ==
  /\ spc[k] = "loop"
  /\ q_size[k] > 0
  /\ UNCHANGED vars

\* one message more than q_size says
LoopSendOnce(k) ==
  /\ spc[k] = "loop"
  /\ q_size[k] >= 0
  /\ wire' = [wire EXCEPT ![k] = Append(@, smsg[k])]
  /\ spc' = [spc EXCEPT ![k] = "dec"]
  /\ UNCHANGED <<rings, q_size, sems, q_lock, callerVars, smsg, ssize, started,
                 accepted, taken>>

-----------------------------------------------------------------------------
(* Calls of enq_send: by the upper layer, and by test_func in initialize *)

Call(c) ==
  /\ c \in Callers
  /\ pc[c] = "idle" /\ calls < MaxCalls
  /\ calls' = calls + 1
  /\ msg' = [msg EXCEPT ![c] = <<"upper", calls + 1>>]
  /\ pc' = [pc EXCEPT ![c] = "scan"]
  /\ UNCHANGED <<rings, q_size, sems, q_lock, scan, h, size, demos, sendVars, accepted>>

TestCall ==
  /\ pc[Loader] = "idle" /\ demos < NUM_MSGS
  /\ demos' = demos + 1
  /\ msg' = [msg EXCEPT ![Loader] = <<"demo", demos + 1>>]
  /\ pc' = [pc EXCEPT ![Loader] = "scan"]
  /\ UNCHANGED <<rings, q_size, sems, q_lock, scan, h, size, calls, sendVars, accepted>>

\* test_func has returned; __start_handlers(k), for one handle after the other.
StartHandlers(k) ==
  /\ pc[Loader] = "idle" /\ demos = NUM_MSGS
  /\ k = started
  /\ started' = started + 1
  /\ spc' = [spc EXCEPT ![k] = "down"]
  /\ UNCHANGED <<rings, q_size, sems, q_lock, callerVars, smsg, ssize, accepted, taken,
                 wire>>

-----------------------------------------------------------------------------
(* enq_send, run by caller c; find_low_queue reads one counter per step *)

\* An empty queue ends the search ...
ScanEmpty(c) ==
  /\ pc[c] = "scan"
  /\ q_size[i[c]] = 0
  /\ h' = [h EXCEPT ![c] = i[c]]
  /\ pc' = [pc EXCEPT ![c] = "down"]
  /\ UNCHANGED <<rings, q_size, sems, q_lock, msg, scan, size, calls, demos, sendVars,
                 accepted>>

\* ... else the first of the lowest counters is taken.  The counter is a plain int
\* that the loop body names three times with nothing in between: it is loaded once.
ScanNext(c) ==
  /\ pc[c] = "scan"
  /\ LET n == q_size[i[c]]
         better == n < mincount[c]
     IN  /\ n # 0
         /\ min' = [min EXCEPT ![c] = IF better THEN i[c] ELSE @]
         /\ mincount' = [mincount EXCEPT ![c] = IF better THEN n ELSE @]
  /\ IF i[c] = NUMBER_OF_HANDLES - 1
     THEN h' = [h EXCEPT ![c] = min'[c]] /\ pc' = [pc EXCEPT ![c] = "down"] /\ UNCHANGED i
     ELSE i' = [i EXCEPT ![c] = @ + 1] /\ UNCHANGED <<h, pc>>
  /\ UNCHANGED <<rings, q_size, sems, q_lock, msg, size, calls, demos, sendVars, accepted>>

DownFull(c) ==
  /\ pc[c] = "down"
  /\ q_full[h[c]] > 0
  /\ q_full' = [q_full EXCEPT ![h[c]] = @ - 1]
  /\ pc' = [pc EXCEPT ![c] = "lock"]
  /\ UNCHANGED <<rings, q_size, q_empty, q_lock, msg, scan, h, size, calls, demos,
                 sendVars, accepted>>

\* Under the lock the message is stored, and q_size is read ...
EnqStore(c) ==
  /\ pc[c] = "lock" /\ q_lock[h[c]] = Nobody
  /\ q_lock' = [q_lock EXCEPT ![h[c]] = c]
  /\ msg_q' = [msg_q EXCEPT ![h[c]][q_tail[h[c]]] = msg[c]]
  /\ q_tail' = [q_tail EXCEPT ![h[c]] = NextSlot(@)]
  /\ size' = [size EXCEPT ![c] = q_size[h[c]]]
  /\ accepted' = [accepted EXCEPT ![h[c]] = Append(@, msg[c])]
  /\ pc' = [pc EXCEPT ![c] = "inc"]
  /\ UNCHANGED <<q_head, q_size, sems, msg, scan, h, calls, demos, sendVars>>

\* ... and written, before the lock is released.
EnqInc(c) ==
  /\ pc[c] = "inc"
  /\ q_size' = [q_size EXCEPT ![h[c]] = size[c] + 1]
  /\ q_lock' = [q_lock EXCEPT ![h[c]] = Nobody]
  /\ pc' = [pc EXCEPT ![c] = "up"]
  /\ UNCHANGED <<rings, sems, msg, scan, h, size, calls, demos, sendVars, accepted>>

\* The call returns and its locals go.
UpEmpty(c) ==
  /\ pc[c] = "up"
  /\ q_empty' = [q_empty EXCEPT ![h[c]] = @ + 1]
  /\ pc' = [pc EXCEPT ![c] = "idle"] /\ msg' = [msg EXCEPT ![c] = NoMsg]
  /\ i' = [i EXCEPT ![c] = 0] /\ min' = [min EXCEPT ![c] = 0]
  /\ mincount' = [mincount EXCEPT ![c] = Inf]
  /\ h' = [h EXCEPT ![c] = 0] /\ size' = [size EXCEPT ![c] = 0]
  /\ UNCHANGED <<rings, q_size, q_full, q_lock, calls, demos, sendVars, accepted>>

-----------------------------------------------------------------------------
(* deq_send, run by the send thread of handle k *)

DownEmpty(k) ==
  /\ spc[k] = "down"
  /\ q_empty[k] > 0
  /\ q_empty' = [q_empty EXCEPT ![k] = @ - 1]
  /\ spc' = [spc EXCEPT ![k] = "fetch"]
  /\ UNCHANGED <<rings, q_size, q_full, q_lock, callerVars, smsg, ssize, started,
                 accepted, taken, wire>>

DeqFetch(k) ==
  /\ spc[k] = "fetch" /\ q_lock[k] = Nobody
  /\ smsg' = [smsg EXCEPT ![k] = msg_q[k][q_head[k]]]
  /\ q_head' = [q_head EXCEPT ![k] = NextSlot(@)]
  /\ taken' = [taken EXCEPT ![k] = Append(@, msg_q[k][q_head[k]])]
  /\ spc' = [spc EXCEPT ![k] = "up"]
  /\ UNCHANGED <<q_tail, msg_q, q_size, sems, q_lock, callerVars, ssize, started,
                 accepted, wire>>

UpFull(k) ==
  /\ spc[k] = "up"
  /\ q_full' = [q_full EXCEPT ![k] = @ + 1]
  /\ spc' = [spc EXCEPT ![k] = "loop"]
  /\ UNCHANGED <<rings, q_size, q_empty, q_lock, callerVars, smsg, ssize, started,
                 accepted, taken, wire>>

\* The one message fetched is sent as often as q_size says.
LoopSend(k) ==
  /\ spc[k] = "loop"
  /\ q_size[k] > 0
  /\ wire' = [wire EXCEPT ![k] = Append(@, smsg[k])]
  /\ spc' = [spc EXCEPT ![k] = "dec"]
  /\ UNCHANGED <<rings, q_size, sems, q_lock, callerVars, smsg, ssize, started,
                 accepted, taken>>

DecRead(k) ==
  /\ spc[k] = "dec"
  /\ ssize' = [ssize EXCEPT ![k] = q_size[k]]
  /\ spc' = [spc EXCEPT ![k] = "write"]
  /\ UNCHANGED <<rings, q_size, sems, q_lock, callerVars, smsg, started, accepted, taken,
                 wire>>

DecWrite(k) ==
  /\ spc[k] = "write"
  /\ q_size' = [q_size EXCEPT ![k] = ssize[k] - 1]
  /\ ssize' = [ssize EXCEPT ![k] = 0]
  /\ spc' = [spc EXCEPT ![k] = "loop"]
  /\ UNCHANGED <<rings, sems, q_lock, callerVars, smsg, started, accepted, taken,
                 wire>>

LoopEnd(k) ==
  /\ spc[k] = "loop"
  /\ q_size[k] <= 0
  /\ smsg' = [smsg EXCEPT ![k] = NoMsg]
  /\ spc' = [spc EXCEPT ![k] = "down"]
  /\ UNCHANGED <<rings, q_size, sems, q_lock, callerVars, ssize, started, accepted, taken,
                 wire>>

-----------------------------------------------------------------------------
CallerStep(c) == \/ ScanEmpty(c) \/ ScanNext(c) \/ DownFull(c)
                 \/ EnqStore(c) \/ EnqInc(c) \/ UpEmpty(c)
SendStep(k) == \/ DownEmpty(k) \/ DeqFetch(k) \/ UpFull(k)
               \/ LoopSend(k) \/ DecRead(k) \/ DecWrite(k) \/ LoopEnd(k)
LoadStep == TestCall \/ \E k \in Handles : StartHandlers(k)

\* Everything accepted has been fetched, and nobody is about to send more.
AtRest == /\ started = NUMBER_OF_HANDLES
          /\ \A c \in Threads : pc[c] = "idle"
          /\ \A k \in Handles : spc[k] = "down" /\ q_empty[k] = 0
Rest == AtRest /\ calls = MaxCalls /\ UNCHANGED vars

Next == \/ LoadStep
        \/ \E c \in Callers : Call(c)
        \/ \E c \in Threads : CallerStep(c)
        \/ \E k \in Handles : SendStep(k)
        \/ Rest

Spec == Init /\ [][Next]_vars

\* Threads that can run do run; the upper layer need not send.
Fairness == /\ WF_vars(LoadStep)
            /\ \A c \in Threads : WF_vars(CallerStep(c))
            /\ \A k \in Handles : WF_vars(SendStep(k))
FairSpec == Spec /\ Fairness

-----------------------------------------------------------------------------
(* Properties *)

Msg == {"demo", "upper"} \X Nat

TypeOK ==
  /\ q_head \in [Handles -> Slots] /\ q_tail \in [Handles -> Slots]
  /\ msg_q \in [Handles -> [Slots -> Msg \cup {NoMsg}]]
  /\ q_size \in [Handles -> Int]
  /\ q_empty \in [Handles -> Nat] /\ q_full \in [Handles -> Nat]
  /\ q_lock \in [Handles -> Threads \cup {Nobody}]
  /\ pc \in [Threads -> {"idle", "scan", "down", "lock", "inc", "up"}]
  /\ msg \in [Threads -> Msg \cup {NoMsg}]
  /\ i \in [Threads -> Handles] /\ min \in [Threads -> Handles]
  /\ mincount \in [Threads -> Int]
  /\ h \in [Threads -> Handles] /\ size \in [Threads -> Int]
  /\ spc \in [Handles -> {"off", "down", "fetch", "up", "loop", "dec", "write"}]
  /\ smsg \in [Handles -> Msg \cup {NoMsg}] /\ ssize \in [Handles -> Int]
  /\ started \in 0 .. NUMBER_OF_HANDLES
  /\ calls \in Nat /\ demos \in Nat
  /\ accepted \in [Handles -> Seq(Msg)]
  /\ taken \in [Handles -> Seq(Msg \cup {NoMsg})]
  /\ wire \in [Handles -> Seq(Msg \cup {NoMsg})]

\* However the updates of q_size race, the counter stays between zero and the
\* number of messages ever stored: it is not a count of the waiting messages,
\* but it never goes negative, which would make find_low_queue prefer the
\* handle for ever and the loop of deq_send skip every message on it.
SizeBounded ==
  \A k \in Handles : 0 <= q_size[k] /\ q_size[k] <= Len(accepted[k])

\* A counter that a lost update left positive is worked off: while the send
\* thread sleeps on q_empty, it is being woken, or the counter is zero and the
\* handle counts as empty again for find_low_queue.
SizeIsOwed ==
  \A k \in Handles : (spc[k] = "down" /\ q_size[k] > 0)
     => q_empty[k] > 0 \/ \E c \in Threads : pc[c] = "up" /\ h[c] = k

\* Callers that lost their way to a counter still meet at a queue: each handle is
\* a bounded FIFO, of every message its callers store, whoever they are and
\* whichever handle find_low_queue gave them.  Meant for a depth that is a power
\* of two.
Sendable == ({"demo"} \X (1 .. NUM_MSGS)) \cup ({"upper"} \X (1 .. MaxCalls))
Queue(k) == INSTANCE BoundedFifo WITH Messages <- Sendable, Capacity <- MAX_SEND_DEPTH,
                                      accepted <- accepted[k], taken <- taken[k]
QueuesAreFifo ==
  /\ \A k \in Handles : Queue(k)!Init
  /\ [][\A k \in Handles : [Queue(k)!Next]_(Queue(k)!fifoVars)]_<<accepted, taken>>

\* Messages of a handle go out in the order in which enq_send stored them: one
\* may be sent again and another never, but none after a later one.  Meant for
\* a depth that is a power of two.
Place(k, m) == CHOOSE n \in 1 .. Len(accepted[k]) : accepted[k][n] = m
WireInOrder ==
  \A k \in Handles : \A n \in 1 .. Len(wire[k]) :
     /\ \E p \in 1 .. Len(accepted[k]) : accepted[k][p] = wire[k][n]
     /\ n > 1 => Place(k, wire[k][n - 1]) <= Place(k, wire[k][n])

\* What the guide promises of the upper layer's messages: once everything is at
\* rest, every message stored has been transmitted.
EveryMessageTransmitted ==
  AtRest => \A k \in Handles : \A n \in 1 .. Len(accepted[k]) :
               \E p \in 1 .. Len(wire[k]) : wire[k][p] = accepted[k][n]

\* deq_send returns to its semaphore, however callers add to q_size meanwhile.
LoopEnds == \A k \in Handles : (spc[k] = "loop") ~> (spc[k] = "down")

\* A call of enq_send returns once the send threads run.
CallsReturn ==
  \A c \in Threads : (pc[c] # "idle" /\ started = NUMBER_OF_HANDLES) ~> (pc[c] = "idle")

-----------------------------------------------------------------------------
(* The demo, while the upper layer is quiet *)

\* find_low_queue spreads the demo messages evenly: as long as no send thread
\* runs and nobody else sends, two queues differ by at most one message.
Balanced ==
  (started = 0 /\ calls = 0 /\ pc[Loader] = "idle") =>
     \A k1, k2 \in Handles : Len(accepted[k1]) <= Len(accepted[k2]) + 1

\* If its queues have room for the demo ("could tweak parameters here"), initialize
\* returns, though it waits for slots before any send thread runs; and then
\* NUM_MSGS messages are sent, no more and no fewer, and it stays at that:
\* deq_send sends one message for several, and none for those.
DemoTransmitted ==
  (NUM_MSGS <= NUMBER_OF_HANDLES * MAX_SEND_DEPTH /\ [](calls = 0)) =>
    <>[](/\ started = NUMBER_OF_HANDLES /\ demos = NUM_MSGS
         /\ \A k \in Handles : Len(wire[k]) = Len(accepted[k]))
=============================================================================
