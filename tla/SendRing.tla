------------------------------ MODULE SendRing ------------------------------
(***************************************************************************)
(* The send queue of one struct ivshmem_handle: the ring msg_q with its    *)
(* indices q_head and q_tail, the two counting semaphores that bound it    *)
(* and the spin lock that guards it.  Any number of kernel threads (the    *)
(* Callers) run enq_send, one send thread runs deq_send; what deq_send     *)
(* does with a message once it is out of the ring is the step Transmit.    *)
(*                                                                         *)
(* The step from slot to slot is that of RingIndex, which goes round the   *)
(* ring only when MAX_SEND_DEPTH is a power of two; so every property says *)
(* for which depths it is meant.                                           *)
(***************************************************************************)
EXTENDS RingIndex, Sequences, FiniteSets

CONSTANTS Callers,    \* threads that call enq_send
          Messages,   \* what they send
          MaxCalls,   \* bound on the calls of enq_send
          NoMsg,      \* what an unwritten slot holds
          SendThread, \* the kthread that runs send_handler
          Nobody      \* the owner of a free lock

ASSUME CallsAssumption == MaxCalls \in Nat
ASSUME CallersAssumption == /\ IsFiniteSet(Callers)
                            /\ Nobody \notin Callers
                            /\ SendThread \notin Callers \cup {Nobody}
ASSUME MessagesAssumption == NoMsg \notin Messages

VARIABLES
  q_head, q_tail, msg_q,   \* the ring
  q_empty, q_full, q_lock, \* semaphores (their counts) and spin lock (its owner)
  pc, msg, at,             \* of each caller: its place in enq_send and its locals
  spc, from, smsg,         \* the same of the send thread in deq_send
  calls,                   \* number of calls of enq_send so far
  accepted, slots, taken   \* history: messages stored, their slots, messages fetched

ring == <<q_head, q_tail, msg_q>>
callerVars == <<pc, msg, at, calls>>
sendVars == <<spc, from, smsg>>
history == <<accepted, slots, taken>>
vars == <<q_head, q_tail, msg_q, q_empty, q_full, q_lock, pc, msg, at,
          spc, from, smsg, calls, accepted, slots, taken>>

Init ==
  /\ q_head = 0 /\ q_tail = 0
  /\ msg_q = [i \in Slots |-> NoMsg]
  /\ q_empty = 0 /\ q_full = MAX_SEND_DEPTH
  /\ q_lock = Nobody
  /\ pc = [c \in Callers |-> "idle"]
  /\ msg = [c \in Callers |-> NoMsg]
  /\ at = [c \in Callers |-> 0]
  /\ spc = "down_empty" /\ from = 0 /\ smsg = NoMsg
  /\ calls = 0
  /\ accepted = <<>> /\ slots = <<>> /\ taken = <<>>

-----------------------------------------------------------------------------
(* Plausible slips in enq_send and deq_send, each a variant of one step     *)
(* below: no run contains them, they show what the properties catch.        *)

\* enq_send reads q_tail without taking the lock
EnqUnlocked(c) ==
  /\ pc[c] = "lock"
  /\ at' = [at EXCEPT ![c] = q_tail]
  /\ pc' = [pc EXCEPT ![c] = "store"]
  /\ UNCHANGED <<ring, q_empty, q_full, q_lock, msg, calls, sendVars, history>>

\* The slot is computed after q_tail was advanced
EnqStoreAfter(c) ==
  /\ pc[c] = "store"
  /\ q_tail' = NextSlot(at[c])
  /\ msg_q' = [msg_q EXCEPT ![q_tail'] = msg[c]]
  /\ q_lock' = Nobody
  /\ accepted' = Append(accepted, msg[c])
  /\ slots' = Append(slots, q_tail')
  /\ pc' = [pc EXCEPT ![c] = "up_empty"]
  /\ UNCHANGED <<q_head, q_empty, q_full, msg, at, calls, sendVars, taken>>

\* A wake-up flag instead of a count
UpEmptyBinary(c) ==
  /\ pc[c] = "up_empty"
  /\ q_empty' = 1
  /\ pc' = [pc EXCEPT ![c] = "idle"]
  /\ UNCHANGED <<ring, q_full, q_lock, msg, at, calls, sendVars, history>>

\* q_head advances without the mask
DeqFetchUnmasked ==
  /\ spc = "fetch"
  /\ q_head' = from + 1
  /\ smsg' = msg_q[from]
  /\ q_lock' = Nobody
  /\ taken' = Append(taken, msg_q[from])
  /\ spc' = "up_full"
  /\ UNCHANGED <<q_tail, msg_q, q_empty, q_full, callerVars, from, accepted, slots>>

\* The slot is never given back
UpFullForgotten ==
  /\ spc = "up_full"
  /\ spc' = "transmit"
  /\ UNCHANGED <<ring, q_empty, q_full, q_lock, callerVars, from, smsg, history>>

\* A transmission that fails is tried again, for ever
TransmitRetries ==
  /\ spc = "transmit"
  /\ UNCHANGED vars

-----------------------------------------------------------------------------
(* enq_send, run by caller c *)

Call(c, m) ==
  /\ pc[c] = "idle"
  /\ calls < MaxCalls
  /\ calls' = calls + 1
  /\ pc' = [pc EXCEPT ![c] = "down_full"]
  /\ msg' = [msg EXCEPT ![c] = m]
  /\ UNCHANGED <<ring, q_empty, q_full, q_lock, at, sendVars, history>>

\* A down interrupted by a signal is tried again: only success is a step.
DownFull(c) ==
  /\ pc[c] = "down_full"
  /\ q_full > 0
  /\ q_full' = q_full - 1
  /\ pc' = [pc EXCEPT ![c] = "lock"]
  /\ UNCHANGED <<ring, q_empty, q_lock, msg, at, calls, sendVars, history>>

EnqLock(c) ==
  /\ pc[c] = "lock"
  /\ q_lock = Nobody
  /\ q_lock' = c
  /\ at' = [at EXCEPT ![c] = q_tail]
  /\ pc' = [pc EXCEPT ![c] = "store"]
  /\ UNCHANGED <<ring, q_empty, q_full, msg, calls, sendVars, history>>

EnqStore(c) ==
  /\ pc[c] = "store"
  /\ q_tail' = NextSlot(at[c])
  /\ msg_q' = [msg_q EXCEPT ![at[c]] = msg[c]]
  /\ q_lock' = Nobody
  /\ accepted' = Append(accepted, msg[c])
  /\ slots' = Append(slots, at[c])
  /\ pc' = [pc EXCEPT ![c] = "up_empty"]
  /\ UNCHANGED <<q_head, q_empty, q_full, msg, at, calls, sendVars, taken>>

UpEmpty(c) ==
  /\ pc[c] = "up_empty"
  /\ q_empty' = q_empty + 1
  /\ pc' = [pc EXCEPT ![c] = "idle"]
  /\ UNCHANGED <<ring, q_full, q_lock, msg, at, calls, sendVars, history>>

-----------------------------------------------------------------------------
(* deq_send, run by the send thread *)

DownEmpty ==
  /\ spc = "down_empty"
  /\ q_empty > 0
  /\ q_empty' = q_empty - 1
  /\ spc' = "lock"
  /\ UNCHANGED <<ring, q_full, q_lock, callerVars, from, smsg, history>>

DeqLock ==
  /\ spc = "lock"
  /\ q_lock = Nobody
  /\ q_lock' = SendThread
  /\ from' = q_head
  /\ spc' = "fetch"
  /\ UNCHANGED <<ring, q_empty, q_full, callerVars, smsg, history>>

DeqFetch ==
  /\ spc = "fetch"
  /\ q_head' = NextSlot(from)
  /\ smsg' = msg_q[from]
  /\ q_lock' = Nobody
  /\ taken' = Append(taken, msg_q[from])
  /\ spc' = "up_full"
  /\ UNCHANGED <<q_tail, msg_q, q_empty, q_full, callerVars, from, accepted, slots>>

UpFull ==
  /\ spc = "up_full"
  /\ q_full' = q_full + 1
  /\ spc' = "transmit"
  /\ UNCHANGED <<ring, q_empty, q_lock, callerVars, from, smsg, history>>

\* The loop around ivshmem_send ends and send_handler calls deq_send again.
Transmit ==
  /\ spc = "transmit"
  /\ spc' = "down_empty"
  /\ UNCHANGED <<ring, q_empty, q_full, q_lock, callerVars, from, smsg, history>>

-----------------------------------------------------------------------------
CallerStep(c) == DownFull(c) \/ EnqLock(c) \/ EnqStore(c) \/ UpEmpty(c)
SendStep == DownEmpty \/ DeqLock \/ DeqFetch \/ UpFull \/ Transmit

\* Nothing is left to do: the only state in which the queue may stand still.
AtRest == /\ \A c \in Callers : pc[c] = "idle"
          /\ calls = MaxCalls
          /\ spc = "down_empty" /\ q_empty = 0
Rest == AtRest /\ UNCHANGED vars

Next == \/ \E c \in Callers : (\E m \in Messages : Call(c, m)) \/ CallerStep(c)
        \/ SendStep
        \/ Rest

Spec == Init /\ [][Next]_vars

\* Threads that can run do run: a ready kernel thread is scheduled, a spin
\* lock and a semaphore are granted.  Nobody has to call enq_send.
Fairness == WF_vars(SendStep) /\ \A c \in Callers : WF_vars(CallerStep(c))
FairSpec == Spec /\ Fairness

-----------------------------------------------------------------------------
(* Properties *)

TypeOK ==
  /\ q_head \in Slots /\ q_tail \in Slots
  /\ msg_q \in [Slots -> Messages \cup {NoMsg}]
  /\ q_empty \in Nat /\ q_full \in Nat
  /\ q_lock \in Callers \cup {SendThread, Nobody}
  /\ pc \in [Callers -> {"idle", "down_full", "lock", "store", "up_empty"}]
  /\ msg \in [Callers -> Messages \cup {NoMsg}]
  /\ at \in [Callers -> Slots]
  /\ spc \in {"down_empty", "lock", "fetch", "up_full", "transmit"}
  /\ from \in Slots
  /\ smsg \in Messages \cup {NoMsg}
  /\ calls \in Nat
  /\ accepted \in Seq(Messages \cup {NoMsg})
  /\ slots \in Seq(Slots)
  /\ taken \in Seq(Messages \cup {NoMsg})

Claiming == {c \in Callers : pc[c] \in {"lock", "store"}}
Posting == {c \in Callers : pc[c] = "up_empty"}
Waiting == Len(accepted) - Len(taken)

\* The two semaphores account for every slot, whatever the depth: a message
\* that waits in the ring is counted by q_empty, or its caller is about to
\* count it, or the send thread has been let in for it; every other slot is
\* counted by q_full, or claimed by a caller, or about to be given back
\* (enq_send and deq_send take and give the semaphores on opposite sides of
\* the ring).  So at most MAX_SEND_DEPTH messages wait.
SlotsAccounted ==
  /\ Waiting = q_empty + Cardinality(Posting)
                 + (IF spc \in {"lock", "fetch"} THEN 1 ELSE 0)
  /\ MAX_SEND_DEPTH = q_full + Cardinality(Claiming) + Waiting
                        + (IF spc = "up_full" THEN 1 ELSE 0)

\* Whatever the depth, q_head retraces the slots that q_tail went through, so
\* the slot deq_send reads is one that enq_send filled: the send thread never
\* gets hold of an uninitialised msg pointer, even with a depth whose mask
\* skips most of the slots.
HeadRetracesTail ==
  /\ q_head = IF Waiting = 0 THEN q_tail ELSE slots[Len(taken) + 1]
  /\ \A k \in 1 .. Len(taken) : taken[k] # NoMsg

\* The ring is a FIFO: what deq_send fetched so far is exactly the beginning
\* of what enq_send stored so far.  Meant for a depth that is a power of two.
FifoOrder ==
  /\ Len(taken) <= Len(accepted)
  /\ \A k \in 1 .. Len(taken) : taken[k] = accepted[k]

\* The queue implements the bounded FIFO its callers rely on (depths that are
\* powers of two); with FairSpec, also that every stored message is fetched.
Fifo == INSTANCE BoundedFifo WITH Capacity <- MAX_SEND_DEPTH
FifoSpec == Fifo!Spec
FifoFairSpec == Fifo!FairSpec

\* A call of enq_send returns, even when it has to wait for a free slot.
CallsReturn == \A c \in Callers : (pc[c] # "idle") ~> (pc[c] = "idle")

-----------------------------------------------------------------------------
(* The inductive invariants of the proofs (SendRingProofs) *)

\* Who holds the lock, and that what it read under it is still current.
LockInv ==
  /\ \A c \in Callers : /\ pc[c] = "store" <=> q_lock = c
                        /\ pc[c] = "store" => at[c] = q_tail
  /\ spc = "fetch" <=> q_lock = SendThread
  /\ spc = "fetch" => from = q_head

\* A caller in a call holds a message, not an unwritten slot's content.
MsgInv ==
  /\ \A c \in Callers : pc[c] # "idle" => msg[c] \in Messages
  /\ accepted \in Seq(Messages)

\* The chain of slots: each the successor of the one before, q_tail after the
\* last, q_head at the oldest message that waits.
ChainInv ==
  /\ Len(slots) = Len(accepted)
  /\ \A k \in 1 .. Len(slots) : msg_q[slots[k]] # NoMsg
  /\ \A k \in 1 .. Len(slots) - 1 : slots[k + 1] = NextSlot(slots[k])
  /\ Len(slots) > 0 => q_tail = NextSlot(slots[Len(slots)])
  /\ HeadRetracesTail

\* The waiting messages lie in a row that starts at q_head and ends before
\* q_tail, each in its own slot.
RowInv ==
  /\ q_tail = Wrap(q_head + Waiting)
  /\ \A j \in 0 .. Waiting - 1 :
        msg_q[Wrap(q_head + j)] = accepted[Len(taken) + 1 + j]
=============================================================================
