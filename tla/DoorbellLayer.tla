--------------------------- MODULE DoorbellLayer ---------------------------
(***************************************************************************)
(* The variant of the messaging layer with interrupts, on both VMs.  A     *)
(* sender writes the body of its message, takes the one lock of its VM and *)
(* rings the peer's doorbell; ivshmem_send returns with the lock held.     *)
(* The peer's handler reads a body and rings back, and the handler of that *)
(* doorbell releases the lock.  There is no other acknowledgement, no      *)
(* timeout and no second try.                                              *)
(*                                                                         *)
(* The handlers are on the vectors that the comment before them names.     *)
(* Which VM the DEST_ID of each file reaches depends on the order in which *)
(* the ivshmem server met the VMs: dest is any choice, also that a         *)
(* doorbell reaches nobody.  What the send threads send and how often is   *)
(* the queue of SendHandles; here each calls ivshmem_send when it likes.   *)
(***************************************************************************)
EXTENDS Naturals, Sequences

CONSTANTS arm, x86,           \* the VMs
          Nowhere,            \* where a doorbell goes that reaches no VM
          Free,               \* the owner of a free lock
          Blank,              \* a body word nobody has written
          NUMBER_OF_HANDLES,  \* read_arm needs handle 1
          Words,              \* words in a message body
          MaxSends,           \* bound on the calls of ivshmem_send per thread
          MaxBoots            \* bound on the loads of the module on a VM

VM == {arm, x86}
Handles == 0 .. NUMBER_OF_HANDLES - 1
WordIndex == 1 .. Words

ASSUME DoorbellVMs == arm # x86 /\ Nowhere \notin VM
ASSUME DoorbellHandles ==
  NUMBER_OF_HANDLES \in Nat /\ NUMBER_OF_HANDLES >= 2 /\ Free \notin Handles
ASSUME DoorbellBounds == Words \in Nat \ {0} /\ MaxSends \in Nat /\ MaxBoots \in Nat
ASSUME DoorbellBlank == Blank \notin VM \X Handles \X Nat

\* read_x86 and read_arm, write_x86 and write_arm.  Handler r of the first two
\* reads the partition of handle r and rings vector 3 - r.
ReadVectors == {0, 1}
WriteVectors == {2, 3}
\* The vector that v rings after writing, and the one that releases its lock.
ReadVector(v) == IF v = arm THEN 0 ELSE 1
WriteVector(v) == 3 - ReadVector(v)

Word == {Blank} \cup (VM \X Handles \X Nat)
NoWords == [w \in WordIndex |-> Blank]

VARIABLES
  dest,                      \* the VM that the DEST_ID of each VM reaches
  live, boots,               \* of each VM: is the module loaded, how often it was
  body,                      \* of each handle: the body in the shared memory
  lock,                      \* arm_lock of arm, x86_lock of x86: who took it
  spc, sw, sent,             \* of each send thread: place, next word, calls so far
  pending,                   \* of each VM: vectors that are latched
  hpc, hw, hbuf,             \* of each read handler of a VM: place, next word, buffer
  rung, heard, answered,     \* history, by sender: announced, read, answered
  received                   \* history, by reader: the bodies read

life == <<dest, live, boots>>
sender == <<spc, sw, sent>>
handler == <<hpc, hw, hbuf>>
history == <<rung, heard, answered, received>>
vars == <<dest, live, boots, body, lock, spc, sw, sent, pending, hpc, hw, hbuf,
          rung, heard, answered, received>>

Init ==
  /\ dest \in [VM -> VM \cup {Nowhere}]
  /\ live = [v \in VM |-> FALSE] /\ boots = [v \in VM |-> 0]
  /\ body = [k \in Handles |-> NoWords]
  /\ lock = [v \in VM |-> Free]
  /\ spc = [v \in VM |-> [k \in Handles |-> "idle"]]
  /\ sw = [v \in VM |-> [k \in Handles |-> 1]]
  /\ sent = [v \in VM |-> [k \in Handles |-> 0]]
  /\ pending = [v \in VM |-> {}]
  /\ hpc = [v \in VM |-> [r \in ReadVectors |-> "off"]]
  /\ hw = [v \in VM |-> [r \in ReadVectors |-> 1]]
  /\ hbuf = [v \in VM |-> [r \in ReadVectors |-> NoWords]]
  /\ rung = [v \in VM |-> <<>>]
  /\ heard = [v \in VM |-> 0] /\ answered = [v \in VM |-> 0]
  /\ received = [v \in VM |-> <<>>]

\* A doorbell rung by v: latched by the VM it reaches, lost if nobody is there.
Rings(v, vector) ==
  pending' = [u \in VM |-> IF u = dest[v] /\ live[u] THEN pending[u] \cup {vector}
                                                    ELSE pending[u]]

-----------------------------------------------------------------------------
(* Loading the module; losing the ARM VM.  (The x86 VM is not restarted: its *)
(* lock would be new while an answer to the old one is under way.)           *)

Load(v) ==
  /\ ~ live[v] /\ boots[v] < MaxBoots
  /\ live' = [live EXCEPT ![v] = TRUE]
  /\ boots' = [boots EXCEPT ![v] = @ + 1]
  /\ UNCHANGED <<dest, body, lock, sender, pending, handler, history>>

Reset ==
  /\ live[arm] /\ boots[arm] < MaxBoots
  /\ live' = [live EXCEPT ![arm] = FALSE]
  /\ lock' = [lock EXCEPT ![arm] = Free]
  /\ spc' = [spc EXCEPT ![arm] = [k \in Handles |-> "idle"]]
  /\ sw' = [sw EXCEPT ![arm] = [k \in Handles |-> 1]]
  /\ pending' = [pending EXCEPT ![arm] = {}]
  /\ hpc' = [hpc EXCEPT ![arm] = [r \in ReadVectors |-> "off"]]
  /\ hw' = [hw EXCEPT ![arm] = [r \in ReadVectors |-> 1]]
  /\ hbuf' = [hbuf EXCEPT ![arm] = [r \in ReadVectors |-> NoWords]]
  /\ UNCHANGED <<dest, boots, body, sent, history>>

-----------------------------------------------------------------------------
(* Plausible slips, each a variant of one step below                        *)

\* ivshmem_send takes the lock without waiting for it
LockAnyway(v, k) ==
  /\ spc[v][k] = "lock"
  /\ lock' = [lock EXCEPT ![v] = k]
  /\ spc' = [spc EXCEPT ![v][k] = "ring"]
  /\ UNCHANGED <<life, body, sw, sent, pending, handler, history>>

\* the read handlers ring each other's vector back
RingBackSwapped(v, r) ==
  /\ hpc[v][r] = "ring"
  /\ Rings(v, 2 + r)
  /\ hpc' = [hpc EXCEPT ![v][r] = "off"]
  /\ UNCHANGED <<life, body, lock, sender, hw, hbuf, history>>

\* the read handlers answer and never read
ReadBodyNot(v, r) ==
  /\ hpc[v][r] = "read"
  /\ hpc' = [hpc EXCEPT ![v][r] = "off"]
  /\ Rings(v, 3 - r)
  /\ UNCHANGED <<life, body, lock, sender, hw, hbuf, history>>

\* the write handler of x86 is empty, like that of ARM
WriteHandlerNone(v, q) ==
  /\ q \in pending[v]
  /\ pending' = [pending EXCEPT ![v] = @ \ {q}]
  /\ UNCHANGED <<life, body, lock, sender, handler, history>>

\* a handler that is interrupted by its own vector starts again
TakeInterruptNested(v, r) ==
  /\ r \in pending[v]
  /\ hpc' = [hpc EXCEPT ![v][r] = "read"]
  /\ hw' = [hw EXCEPT ![v][r] = 1]
  /\ UNCHANGED <<life, body, lock, sender, pending, hbuf, history>>

\* ivshmem_send rings with the last word still to be written
CopyInShort(v, k) ==
  /\ spc[v][k] = "copy"
  /\ body' = IF sw[v][k] = Words THEN body
             ELSE [body EXCEPT ![k][sw[v][k]] = <<v, k, sent[v][k]>>]
  /\ sw' = [sw EXCEPT ![v][k] = IF @ = Words THEN 1 ELSE @ + 1]
  /\ spc' = [spc EXCEPT ![v][k] = IF sw[v][k] = Words THEN "lock" ELSE "copy"]
  /\ UNCHANGED <<life, lock, sent, pending, handler, history>>

-----------------------------------------------------------------------------
(* deq_send and ivshmem_send, run by the send thread of handle k of VM v *)

\* deq_send of the x86 VM calls ivshmem_send at once ...
SendX86(k) ==
  /\ live[x86] /\ spc[x86][k] = "idle" /\ sent[x86][k] < MaxSends
  /\ spc' = [spc EXCEPT ![x86][k] = "copy"]
  /\ sent' = [sent EXCEPT ![x86][k] = @ + 1]
  /\ UNCHANGED <<life, body, lock, sw, pending, handler, history>>

\* ... and that of the ARM VM takes arm_lock, which ivshmem_send takes again.
SendArm(k) ==
  /\ live[arm] /\ spc[arm][k] = "idle" /\ sent[arm][k] < MaxSends
  /\ lock[arm] = Free
  /\ lock' = [lock EXCEPT ![arm] = k]
  /\ spc' = [spc EXCEPT ![arm][k] = "copy"]
  /\ sent' = [sent EXCEPT ![arm][k] = @ + 1]
  /\ UNCHANGED <<life, body, sw, pending, handler, history>>

\* The body is written while the peer may still read the last one.
CopyIn(v, k) ==
  /\ spc[v][k] = "copy"
  /\ body' = [body EXCEPT ![k][sw[v][k]] = <<v, k, sent[v][k]>>]
  /\ sw' = [sw EXCEPT ![v][k] = IF @ = Words THEN 1 ELSE @ + 1]
  /\ spc' = [spc EXCEPT ![v][k] = IF sw[v][k] = Words THEN "lock" ELSE "copy"]
  /\ UNCHANGED <<life, lock, sent, pending, handler, history>>

Lock(v, k) ==
  /\ spc[v][k] = "lock"
  /\ lock[v] = Free
  /\ lock' = [lock EXCEPT ![v] = k]
  /\ spc' = [spc EXCEPT ![v][k] = "ring"]
  /\ UNCHANGED <<life, body, sw, sent, pending, handler, history>>

\* The call returns with the lock held.  (What deq_send of the ARM VM does then
\* is left out, as ArmMute allows: it never gets here.)
RingPeer(v, k) ==
  /\ spc[v][k] = "ring"
  /\ Rings(v, ReadVector(v))
  /\ rung' = [rung EXCEPT ![v] = Append(@, <<k, sent[v][k]>>)]
  /\ spc' = [spc EXCEPT ![v][k] = "idle"]
  /\ UNCHANGED <<life, body, lock, sw, sent, handler, heard, answered, received>>

-----------------------------------------------------------------------------
(* The interrupt handlers of VM v; one vector's runs are one after the other *)

\* read_x86 (r = 0) and read_arm (r = 1) ...
TakeInterrupt(v, r) ==
  /\ r \in pending[v] /\ hpc[v][r] = "off"
  /\ pending' = [pending EXCEPT ![v] = @ \ {r}]
  /\ hpc' = [hpc EXCEPT ![v][r] = "read"]
  /\ UNCHANGED <<life, body, lock, sender, hw, hbuf, history>>

\* ... read the partition of handle r, whichever was written ...
ReadBody(v, r) ==
  /\ hpc[v][r] = "read"
  /\ hbuf' = [hbuf EXCEPT ![v][r][hw[v][r]] = body[r][hw[v][r]]]
  /\ hw' = [hw EXCEPT ![v][r] = IF @ = Words THEN 1 ELSE @ + 1]
  /\ hpc' = [hpc EXCEPT ![v][r] = IF hw[v][r] = Words THEN "done" ELSE "read"]
  /\ UNCHANGED <<life, body, lock, sender, pending, history>>

\* ... drop the buffer (the call of the upper layer is commented out) ...
Consume(v, r) ==
  /\ hpc[v][r] = "done"
  /\ LET s == IF r = ReadVector(arm) THEN arm ELSE x86
     IN  /\ heard' = [heard EXCEPT ![s] = @ + 1]
         /\ received' = [received EXCEPT ![v] =
              Append(@, [of |-> <<s, rung[s][Len(rung[s])]>>, words |-> hbuf[v][r]])]
  /\ hbuf' = [hbuf EXCEPT ![v][r] = NoWords]
  /\ hpc' = [hpc EXCEPT ![v][r] = "ring"]
  /\ UNCHANGED <<life, body, lock, sender, pending, hw, rung, answered>>

\* ... and ring back.
RingBack(v, r) ==
  /\ hpc[v][r] = "ring"
  /\ Rings(v, 3 - r)
  /\ hpc' = [hpc EXCEPT ![v][r] = "off"]
  /\ UNCHANGED <<life, body, lock, sender, hw, hbuf, history>>

\* write_x86 (q = 2) and write_arm (q = 3): each VM has the body of one of them
\* commented out.
WriteHandler(v, q) ==
  /\ q \in pending[v]
  /\ pending' = [pending EXCEPT ![v] = @ \ {q}]
  /\ IF q = WriteVector(v)
     THEN /\ lock' = [lock EXCEPT ![v] = Free]
          /\ answered' = [answered EXCEPT ![v] = @ + 1]
     ELSE UNCHANGED <<lock, answered>>
  /\ UNCHANGED <<life, body, sender, handler, rung, heard, received>>

-----------------------------------------------------------------------------
SendStep(v, k) == CopyIn(v, k) \/ Lock(v, k) \/ RingPeer(v, k)
ReadHandler(v, r) ==
  TakeInterrupt(v, r) \/ ReadBody(v, r) \/ Consume(v, r) \/ RingBack(v, r)

Next == \/ \E v \in VM : Load(v)
        \/ Reset
        \/ \E k \in Handles : SendX86(k) \/ SendArm(k)
        \/ \E v \in VM : \E k \in Handles : SendStep(v, k)
        \/ \E v \in VM : \E r \in ReadVectors : ReadHandler(v, r)
        \/ \E v \in VM : \E q \in WriteVectors : WriteHandler(v, q)

Spec == Init /\ [][Next]_vars

\* Threads that can run do run, and a latched interrupt is taken.  The modules
\* need not be loaded, and the upper layer need not send.
Fairness ==
  \A v \in VM : /\ \A k \in Handles : WF_vars(SendStep(v, k))
                /\ \A r \in ReadVectors : WF_vars(ReadHandler(v, r))
                /\ \A q \in WriteVectors : WF_vars(WriteHandler(v, q))
FairSpec == Spec /\ Fairness

-----------------------------------------------------------------------------
(* Properties *)

TypeOK ==
  /\ dest \in [VM -> VM \cup {Nowhere}]
  /\ live \in [VM -> BOOLEAN] /\ boots \in [VM -> Nat]
  /\ body \in [Handles -> [WordIndex -> Word]]
  /\ lock \in [VM -> Handles \cup {Free}]
  /\ spc \in [VM -> [Handles -> {"idle", "copy", "lock", "ring"}]]
  /\ sw \in [VM -> [Handles -> WordIndex]]
  /\ sent \in [VM -> [Handles -> Nat]]
  /\ pending \in [VM -> SUBSET (ReadVectors \cup WriteVectors)]
  /\ hpc \in [VM -> [ReadVectors -> {"off", "read", "done", "ring"}]]
  /\ hw \in [VM -> [ReadVectors -> WordIndex]]
  /\ hbuf \in [VM -> [ReadVectors -> [WordIndex -> Word]]]
  /\ rung \in [VM -> Seq(Handles \X Nat)]
  /\ heard \in [VM -> Nat] /\ answered \in [VM -> Nat]
  /\ received \in [VM -> Seq([of : VM \X (Handles \X Nat),
                              words : [WordIndex -> Word]])]

\* Where the lock of VM v may be: with a thread that is about to ring, in the
\* doorbell for the reader, with the reader, or in the doorbell back.
Tokens(v) ==
  {<<"ring", k>> : k \in {k \in Handles : spc[v][k] = "ring"}}
    \cup {<<"told", u>> : u \in {u \in VM : ReadVector(v) \in pending[u]}}
    \cup {<<"read", u>> : u \in {u \in VM : hpc[u][ReadVector(v)] # "off"}}
    \cup {<<"back", u>> : u \in {u \in VM : WriteVector(v) \in pending[u]}}

\* A lock that is taken is on its way through the doorbells once at most, and
\* one that is free not at all: however threads, handlers and a restart of ARM
\* interleave, no handler releases a lock twice or one that nobody holds, which
\* would let two threads announce at once and a doorbell be lost among others.
OneToken ==
  \A v \in VM : /\ \A s, t \in Tokens(v) : s = t
                /\ lock[v] = Free => Tokens(v) = {}

\* The ARM VM never rings: its send thread waits for a lock that it holds, and
\* no doorbell, wherever the DEST_IDs lead, makes a handler release it.
ArmMute ==
  /\ \A k \in Handles : spc[arm][k] # "ring"
  /\ Tokens(arm) = {}
  /\ \A j, k \in Handles : (spc[arm][j] # "idle" /\ spc[arm][k] # "idle") => j = k

\* x86_lock is taken, and nothing is under way that would release it.
Lost == lock[x86] # Free /\ Tokens(x86) = {}

\* Nothing gets lost on the way while ARM stays loaded and the DEST_IDs lead to
\* each other: x86_lock cannot get stuck by the interleaving of handlers.
Routed == dest[x86] = arm /\ dest[arm] = x86
NoneLostInTransit ==
  [][(Routed /\ ~ Lost /\ live[arm] /\ live'[arm]) => ~ Lost']_vars

\* A doorbell that is lost is final: the send threads of x86 wait for ever, also
\* when ARM is loaded later, as nothing rings again and nothing gives up.
LossIsFinal == [][Lost => (Lost' /\ rung'[x86] = rung[x86])]_vars

\* What is read in answer to a message of handle 1 is that message, or in part
\* the next of the thread, which is copied before the lock is taken, or what the
\* ARM VM wrote over it: never an older one, and never one two ahead.
NewerByOne ==
  \A v \in VM : \A n \in 1 .. Len(received[v]) :
    LET m == received[v][n]
    IN  (m.of[1] = x86 /\ m.of[2][1] = 1) =>
          \A w \in WordIndex :
            m.words[w] \in {<<x86, 1, m.of[2][2]>>, <<x86, 1, m.of[2][2] + 1>>}
                             \cup ({arm} \X {1} \X Nat)

\* The messages of the x86 VM are announced one at a time, each read and
\* answered at most once, and in this order.
Meeting == INSTANCE Rendezvous WITH announced <- Len(rung[x86]),
                                    heard <- heard[x86], answered <- answered[x86]
RendezvousSpec == Meeting!Spec

\* With no loss, every call of ivshmem_send of the x86 VM returns.
SendReturns ==
  (Routed /\ [](~ Lost)) =>
    \A k \in Handles : (spc[x86][k] = "lock") ~> (spc[x86][k] = "idle")
=============================================================================
