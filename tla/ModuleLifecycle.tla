-------------------------- MODULE ModuleLifecycle --------------------------
(***************************************************************************)
(* The life of the module on one VM: insmod with the failures that         *)
(* initialize handles, the threads it starts, and rmmod, which stops them  *)
(* one after the other.  kthread_stop sets a flag and waits for the thread *)
(* to end; a thread looks at its flag only between two messages, asleep on *)
(* q_empty or polling the slot it never does.                              *)
(*                                                                         *)
(* The queues are reduced to the messages that wait in them and the        *)
(* partitions to who may use them next: SendRing, SendHandles and          *)
(* SharedSlot have the detail.  The peer and the upper layer may act at    *)
(* any time.  A call of enq_send before its queue exists, and what orphans *)
(* of a failed insmod do, is beyond the model: it is undefined behaviour.  *)
(***************************************************************************)
EXTENDS Naturals

CONSTANTS NUMBER_OF_HANDLES, MAX_SEND_DEPTH,
          NUM_MSGS,  \* messages test_func sends
          MaxSends   \* bound on the transmissions of one deq_send

ASSUME CountsAssumption == /\ NUMBER_OF_HANDLES \in Nat \ {0}
                           /\ MAX_SEND_DEPTH \in Nat \ {0}
                           /\ NUM_MSGS \in Nat /\ MaxSends \in Nat

Handles == 0 .. NUMBER_OF_HANDLES - 1
Threads == {"send", "recv"} \X Handles

VARIABLES
  pc, n,           \* the thread that runs insmod and rmmod: its place, its index
  mapped,          \* is the device mapped
  msg_q, frees,    \* of each handle: its ring, and how often that was freed
  q_empty, slot,   \* messages waiting, and the flag of its partition
  send, recv,      \* the places of its threads
  left,            \* transmissions the loop of deq_send has left
  asked, late      \* of each thread: asked to stop, messages it took since then

loader == <<pc, n, mapped>>
queues == <<msg_q, frees, q_empty>>
threads == <<send, recv, left>>
vars == <<pc, n, mapped, msg_q, frees, q_empty, slot, send, recv, left, asked, late>>

\* The slot may hold anything from an earlier life of either VM.
Init ==
  /\ pc = "start" /\ n = 0 /\ mapped = FALSE
  /\ msg_q = [k \in Handles |-> "none"] /\ frees = [k \in Handles |-> 0]
  /\ q_empty = [k \in Handles |-> 0]
  /\ slot \in [Handles -> {"open", "ours", "theirs"}]
  /\ send = [k \in Handles |-> "none"] /\ recv = [k \in Handles |-> "none"]
  /\ left = [k \in Handles |-> 0]
  /\ asked = {} /\ late = [t \in Threads |-> 0]

Last == n = NUMBER_OF_HANDLES - 1
NextHandle == IF Last THEN 0 ELSE n + 1
Late(t) == IF t \in asked THEN [late EXCEPT ![t] = @ + 1] ELSE late

-----------------------------------------------------------------------------
(* Plausible slips, each a variant of one step below                        *)

\* unload stops the send threads only, as that of the doorbell variant
JoinSendOnly ==
  /\ pc = "join_send" /\ send[n] \in {"exited", "dropped"}
  /\ pc' = IF Last THEN "unmap" ELSE "stop_send"
  /\ n' = NextHandle
  /\ UNCHANGED <<mapped, queues, slot, threads, asked, late>>

\* unload frees the ring of a thread that it stopped
JoinSendFrees ==
  /\ pc = "join_send" /\ send[n] \in {"exited", "dropped"}
  /\ pc' = "stop_recv"
  /\ msg_q' = [msg_q EXCEPT ![n] = "freed"]
  /\ frees' = [frees EXCEPT ![n] = @ + 1]
  /\ UNCHANGED <<n, mapped, q_empty, slot, threads, asked, late>>

\* __start_handlers returns the error and leaves the send thread running
StartRecvFailsBare ==
  /\ pc = "recv"
  /\ pc' = "failed"
  /\ UNCHANGED <<n, mapped, queues, slot, threads, asked, late>>

\* a handler that does not look whether it should stop
SendContinueAlways(k) ==
  /\ send[k] = "check"
  /\ send' = [send EXCEPT ![k] = "down"]
  /\ UNCHANGED <<loader, queues, slot, recv, left, asked, late>>

\* unload waits for the receive thread without asking it to stop
StopRecvUnasked ==
  /\ pc = "stop_recv"
  /\ pc' = "join_recv"
  /\ UNCHANGED <<n, mapped, queues, slot, threads, asked, late>>

-----------------------------------------------------------------------------
(* insmod: initialize and __start_handlers *)

Fail == pc' = "failed" /\ UNCHANGED <<n, mapped, queues, slot, threads, asked, late>>

MapDevice ==
  /\ pc = "start"
  /\ pc' = "queues" /\ mapped' = TRUE
  /\ UNCHANGED <<n, queues, slot, threads, asked, late>>

MakeQueue ==
  /\ pc = "queues"
  /\ msg_q' = [msg_q EXCEPT ![n] = "ready"]
  /\ slot' = [slot EXCEPT ![n] = "open"]
  /\ n' = NextHandle
  /\ pc' = IF Last THEN "test" ELSE "queues"
  /\ UNCHANGED <<mapped, frees, q_empty, threads, asked, late>>

\* The rings made so far, the mapping and the transport are left as they are.
MakeQueueFails == pc = "queues" /\ Fail

\* test_func: enq_send on a queue with the lowest count, where it may sleep
Demo(k) ==
  /\ pc = "test" /\ n < NUM_MSGS
  /\ \A j \in Handles : q_empty[k] <= q_empty[j]
  /\ q_empty[k] < MAX_SEND_DEPTH
  /\ q_empty' = [q_empty EXCEPT ![k] = @ + 1]
  /\ n' = n + 1
  /\ UNCHANGED <<pc, mapped, msg_q, frees, slot, threads, asked, late>>

RingBufferInit ==
  /\ pc = "test" /\ n = NUM_MSGS
  /\ pc' = "send" /\ n' = 0
  /\ UNCHANGED <<mapped, queues, slot, threads, asked, late>>

RingBufferInitFails == /\ pc = "test" /\ n = NUM_MSGS
                       /\ pc' = "failed" /\ n' = 0
                       /\ UNCHANGED <<mapped, queues, slot, threads, asked, late>>

StartSend ==
  /\ pc = "send"
  /\ send' = [send EXCEPT ![n] = "new"]
  /\ pc' = "recv"
  /\ UNCHANGED <<n, mapped, queues, slot, recv, left, asked, late>>

StartSendFails == pc = "send" /\ Fail

StartRecv ==
  /\ pc = "recv"
  /\ recv' = [recv EXCEPT ![n] = "new"]
  /\ pc' = IF Last THEN "live" ELSE "send"
  /\ n' = NextHandle
  /\ UNCHANGED <<mapped, queues, slot, send, left, asked, late>>

\* kthread_stop(tsk_send) ...
StartRecvFails ==
  /\ pc = "recv"
  /\ asked' = asked \cup {<<"send", n>>}
  /\ pc' = "undo"
  /\ UNCHANGED <<n, mapped, queues, slot, threads, late>>

\* ... returns when the thread has ended.
Undone == pc = "undo" /\ send[n] \in {"exited", "dropped"} /\ Fail

-----------------------------------------------------------------------------
(* rmmod: unload.  insmod has set every thread pointer, so that the branch  *)
(* that frees the ring of a handle without a send thread is never taken.    *)

Rmmod ==
  /\ pc = "live"
  /\ pc' = "stop_send"
  /\ UNCHANGED <<n, mapped, queues, slot, threads, asked, late>>

StopSend ==
  /\ pc = "stop_send"
  /\ asked' = asked \cup {<<"send", n>>}
  /\ pc' = "join_send"
  /\ UNCHANGED <<n, mapped, queues, slot, threads, late>>

JoinSend ==
  /\ pc = "join_send" /\ send[n] \in {"exited", "dropped"}
  /\ pc' = "stop_recv"
  /\ UNCHANGED <<n, mapped, queues, slot, threads, asked, late>>

StopRecv ==
  /\ pc = "stop_recv"
  /\ asked' = asked \cup {<<"recv", n>>}
  /\ pc' = "join_recv"
  /\ UNCHANGED <<n, mapped, queues, slot, threads, late>>

JoinRecv ==
  /\ pc = "join_recv" /\ recv[n] \in {"exited", "dropped"}
  /\ pc' = IF Last THEN "unmap" ELSE "stop_send"
  /\ n' = NextHandle
  /\ UNCHANGED <<mapped, queues, slot, threads, asked, late>>

Unmap ==
  /\ pc = "unmap"
  /\ pc' = "gone" /\ mapped' = FALSE
  /\ UNCHANGED <<n, queues, slot, threads, asked, late>>

-----------------------------------------------------------------------------
(* The send thread of handle k: send_handler and deq_send *)

\* A thread that is asked to stop before it ran does not run at all, and so
\* does not free its ring.
SendBegin(k) ==
  /\ send[k] = "new"
  /\ send' = [send EXCEPT ![k] = IF <<"send", k>> \in asked THEN "dropped" ELSE "check"]
  /\ UNCHANGED <<loader, queues, slot, recv, left, asked, late>>

SendContinue(k) ==
  /\ send[k] = "check" /\ <<"send", k>> \notin asked
  /\ send' = [send EXCEPT ![k] = "down"]
  /\ UNCHANGED <<loader, queues, slot, recv, left, asked, late>>

SendQuit(k) ==
  /\ send[k] = "check" /\ <<"send", k>> \in asked
  /\ send' = [send EXCEPT ![k] = "exited"]
  /\ msg_q' = [msg_q EXCEPT ![k] = "freed"]
  /\ frees' = [frees EXCEPT ![k] = @ + 1]
  /\ UNCHANGED <<loader, q_empty, slot, recv, left, asked, late>>

\* However often its loop will run: SendHandles has what that depends on.
SendFetch(k) ==
  /\ send[k] = "down" /\ q_empty[k] > 0
  /\ q_empty' = [q_empty EXCEPT ![k] = @ - 1]
  /\ \E m \in 0 .. MaxSends : left' = [left EXCEPT ![k] = m]
  /\ send' = [send EXCEPT ![k] = "poll"]
  /\ late' = Late(<<"send", k>>)
  /\ UNCHANGED <<loader, msg_q, frees, slot, recv, asked>>

SendMsg(k) ==
  /\ send[k] = "poll" /\ left[k] > 0
  /\ slot[k] = "open"
  /\ slot' = [slot EXCEPT ![k] = "ours"]
  /\ left' = [left EXCEPT ![k] = @ - 1]
  /\ UNCHANGED <<loader, queues, send, recv, asked, late>>

SendDone(k) ==
  /\ send[k] = "poll" /\ left[k] = 0
  /\ send' = [send EXCEPT ![k] = "check"]
  /\ UNCHANGED <<loader, queues, slot, recv, left, asked, late>>

-----------------------------------------------------------------------------
(* The receive thread of handle k: recv_handler and ivshmem_recv *)

RecvBegin(k) ==
  /\ recv[k] = "new"
  /\ recv' = [recv EXCEPT ![k] = IF <<"recv", k>> \in asked THEN "dropped" ELSE "check"]
  /\ UNCHANGED <<loader, queues, slot, send, left, asked, late>>

RecvContinue(k) ==
  /\ recv[k] = "check" /\ <<"recv", k>> \notin asked
  /\ recv' = [recv EXCEPT ![k] = "poll"]
  /\ UNCHANGED <<loader, queues, slot, send, left, asked, late>>

RecvQuit(k) ==
  /\ recv[k] = "check" /\ <<"recv", k>> \in asked
  /\ recv' = [recv EXCEPT ![k] = "exited"]
  /\ UNCHANGED <<loader, queues, slot, send, left, asked, late>>

RecvMsg(k) ==
  /\ recv[k] = "poll"
  /\ slot[k] = "theirs"
  /\ slot' = [slot EXCEPT ![k] = "open"]
  /\ recv' = [recv EXCEPT ![k] = "check"]
  /\ late' = Late(<<"recv", k>>)
  /\ UNCHANGED <<loader, queues, send, left, asked>>

-----------------------------------------------------------------------------
(* The upper layer, which has the transport until the VM goes down, and the *)
(* peer                                                                     *)

Enqueue(k) ==
  /\ msg_q[k] # "none" /\ q_empty[k] < MAX_SEND_DEPTH
  /\ q_empty' = [q_empty EXCEPT ![k] = @ + 1]
  /\ UNCHANGED <<loader, msg_q, frees, slot, threads, asked, late>>

PeerTakes(k) ==
  /\ slot[k] = "ours"
  /\ slot' = [slot EXCEPT ![k] = "open"]
  /\ UNCHANGED <<loader, queues, threads, asked, late>>

PeerMarks(k) ==
  /\ slot[k] = "open"
  /\ slot' = [slot EXCEPT ![k] = "theirs"]
  /\ UNCHANGED <<loader, queues, threads, asked, late>>

-----------------------------------------------------------------------------
LoadStep == \/ MapDevice \/ MakeQueue \/ MakeQueueFails
            \/ \E k \in Handles : Demo(k)
            \/ RingBufferInit \/ RingBufferInitFails
            \/ StartSend \/ StartSendFails \/ StartRecv \/ StartRecvFails \/ Undone
UnloadStep == StopSend \/ JoinSend \/ StopRecv \/ JoinRecv \/ Unmap
SendStep(k) == \/ SendBegin(k) \/ SendContinue(k) \/ SendQuit(k)
               \/ SendFetch(k) \/ SendMsg(k) \/ SendDone(k)
RecvStep(k) == RecvBegin(k) \/ RecvContinue(k) \/ RecvQuit(k) \/ RecvMsg(k)

Next == /\ pc # "failed"
        /\ \/ LoadStep \/ Rmmod \/ UnloadStep
           \/ \E k \in Handles : \/ SendStep(k) \/ RecvStep(k)
                                 \/ Enqueue(k) \/ PeerTakes(k) \/ PeerMarks(k)

Spec == Init /\ [][Next]_vars

\* Threads that can run do run; nobody has to call rmmod.
Fairness == /\ WF_vars(pc # "failed" /\ (LoadStep \/ UnloadStep))
            /\ \A k \in Handles : /\ WF_vars(pc # "failed" /\ SendStep(k))
                                  /\ WF_vars(pc # "failed" /\ RecvStep(k))
FairSpec == Spec /\ Fairness

-----------------------------------------------------------------------------
(* Properties *)

Ended == {"exited", "dropped"}

TypeOK ==
  /\ pc \in {"start", "queues", "test", "send", "recv", "undo", "failed", "live",
             "stop_send", "join_send", "stop_recv", "join_recv", "unmap", "gone"}
  /\ n \in Nat /\ (pc # "test" => n \in Handles)
  /\ mapped \in BOOLEAN
  /\ msg_q \in [Handles -> {"none", "ready", "freed"}] /\ frees \in [Handles -> Nat]
  /\ q_empty \in [Handles -> 0 .. MAX_SEND_DEPTH]
  /\ slot \in [Handles -> {"open", "ours", "theirs"}]
  /\ send \in [Handles -> {"none", "new", "check", "down", "poll"} \cup Ended]
  /\ recv \in [Handles -> {"none", "new", "check", "poll"} \cup Ended]
  /\ left \in [Handles -> Nat]
  /\ asked \subseteq Threads /\ late \in [Threads -> Nat]

\* The device stays mapped, and the words VM1, VM2 and OPEN allocated, as long
\* as a thread may be in ivshmem_send or ivshmem_recv.
MappedWhileUsed ==
  ~ mapped => \A k \in Handles : /\ send[k] \in {"none"} \cup Ended
                                 /\ recv[k] \in {"none"} \cup Ended

\* A ring is freed by the send thread that used it, when it ends and at no other
\* time: never twice, never under a send thread that goes on, and not at all
\* when the thread was stopped before it ran.
FreedByItsThread ==
  \A k \in Handles : /\ frees[k] = IF send[k] = "exited" THEN 1 ELSE 0
                     /\ send[k] \notin {"none", "exited"} => msg_q[k] = "ready"

\* When insmod fails, __start_handlers has left no thread of the handle at which
\* it failed, nor of a later one (of the earlier ones it leaves both).
NoThreadsPastFailure ==
  pc = "failed" => \A k \in n .. NUMBER_OF_HANDLES - 1 :
                      send[k] \in {"none"} \cup Ended /\ recv[k] = "none"

\* A thread that is asked to stop takes at most one more message, however many
\* wait for it; but that one it waits for.
StopsAfterOne == \A t \in Threads : late[t] <= 1

\* rmmod ends if messages keep coming: callers send on every handle, the peer
\* takes our messages and sends its own, and our sender gets at the slot.
Traffic == \A k \in Handles : /\ WF_vars(Enqueue(k)) /\ WF_vars(PeerTakes(k))
                              /\ WF_vars(PeerMarks(k)) /\ SF_vars(SendMsg(k))
RmmodEnds == Traffic => ((pc = "stop_send") ~> (pc = "gone"))

-----------------------------------------------------------------------------
(* Inductive invariants, for the proofs *)

\* How far insmod, or rmmod, has got: which handles have a ring, which of their
\* threads exist, and which have ended.
PhaseInv ==
  /\ ~ mapped => pc \in {"start", "gone"}
  /\ pc \in {"start", "live"} => n = 0
  /\ pc \in {"start", "queues", "test"}
       => \A k \in Handles : send[k] = "none" /\ recv[k] = "none"
  /\ pc = "queues" => \A k \in 0 .. n - 1 : msg_q[k] = "ready"
  /\ pc = "test" => \A k \in Handles : msg_q[k] = "ready"
  /\ pc \in {"send", "recv", "undo"}
       => \A k \in n .. NUMBER_OF_HANDLES - 1 :
             /\ recv[k] = "none"
             /\ (pc = "send" \/ k > n) => send[k] = "none" /\ msg_q[k] = "ready"
  /\ pc \in {"stop_send", "join_send", "stop_recv", "join_recv"}
       => \A k \in 0 .. n - 1 : send[k] \in Ended /\ recv[k] \in Ended
  /\ pc \in {"stop_recv", "join_recv"} => send[n] \in Ended
  /\ pc \in {"unmap", "gone"}
       => \A k \in Handles : send[k] \in Ended /\ recv[k] \in Ended
  /\ NoThreadsPastFailure

\* A thread that still waits for a message has taken none since it was asked.
LateInv ==
  /\ \A t \in Threads : t \notin asked => late[t] = 0
  /\ \A k \in Handles : /\ send[k] = "down" => late[<<"send", k>>] = 0
                        /\ recv[k] = "poll" => late[<<"recv", k>>] = 0
  /\ StopsAfterOne
=============================================================================
