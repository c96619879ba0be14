# Verification of the Popcorn shared-memory messaging layer

Two virtual machines, one ARM and one x86, exchange messages of the Popcorn
kernels through an ivshmem device: a piece of memory that both map, without a
working interrupt between them. The repository holds the kernel module of each
VM in several stages. This directory holds TLA+ models of it, checked with TLC,
and proofs about them, checked with TLAPS.

Paths below are relative to `src/`; `arm` stands for `final_arm.c` and `x86` for
`final_x86.c`. The two files are the same program but for `my_nid`,
`MAX_SEND_DEPTH` (100 and 10), the mark they write and wait for, and one line
of `initialize` (x86:752). The directory `Usage_Guides/` holds copies for use:
that of arm is the same file, that of x86 has a `schedule()` more in the loop of
each handler. `PROJECT.json` maps some modules to the one and some
to the other.


## 1. The system

| Component | State | Operations | Interacts with |
|---|---|---|---|
| Send queue of a handle | `msg_q`, `q_head`, `q_tail`, semaphores `q_empty` and `q_full`, spin lock `q_lock` | `enq_send` (arm:340), first half of `deq_send` (arm:397-423) | any kernel thread calls `enq_send`; one send thread per handle calls `deq_send` |
| Handles of a VM | `ivshmem_handles[]`, the counters `q_size` | `find_low_queue` (arm:168), `q_size++` (372), the transmit loop (429-444), `test_func` (665) | chooses the queue of each call; the loop calls `ivshmem_send` |
| Partition of the shared memory | a flag word (0 and 1: message from ARM and x86, 2: open) and a message body | `ivshmem_send` (arm:211), `ivshmem_recv` (arm:241) | polled by the send and receive threads of both VMs |
| Receive thread | a buffer per message | `recv_handler` (arm:279) | calls `ivshmem_recv`; the call of `pcn_kmsg_process` is commented out |
| Loading and unloading | the thread pointers, the mapped device | `initialize` (arm:709), `__start_handlers` (550), `unload` (576) | announces the transport, makes the queues, runs `test_func`, starts the threads |
| Transport operations | messages, completions | `ivshmem_kmsg_get/send/post/put/done` (arm:473-520) | called by the upper layer |
| Callback table | `callbacks[]` | `pcn_kmsg_register_callback`, `..unregister..` (arm:191) | read by nobody in this version |
| Doorbell variant | `arm_lock` and `x86_lock`, a body per handle, the latched interrupts | `Usage_Guides/Messaging_Layer_with_Interrupts/`: `ivshmem_send` takes the lock and rings, `read_x86`/`read_arm` read and ring back, `write_x86`/`write_arm` release the lock | the doorbells of the device; its queue is that of the other layer |
| Interrupt check and `second_phase.c` | MSI-X vectors and handlers, the mapped device | `init_interrupt`, `initialize`, `unload`, the handlers | the device, and a peer that rings it |
| `final_phase.c` | an earlier queue, depth 1024 | as the send queue | nothing: no thread is started |
| `first_phase.c`, `Using_shmem`, `Using_memio` | none | straight-line examples | the device |

What is hard about it:

* *Concurrency without common locks.* Four threads of two kernels poll and write
  one flag word. The locks of `ivshmem_send` and `ivshmem_recv` are commented
  out, and none could span two VMs. Each thread acts on a flag it read earlier.
* *Ordering.* The mark is written before the body (arm:232-233).
* *Restarts.* The module cannot be unloaded (`README.md:54`), so a VM is
  restarted instead, at any line of its threads, while the shared memory stays
  as it is. Loading the x86 module writes OPEN whatever the ARM VM is doing.
* *A counter that is updated with and without its lock* (`q_size`, arm:372 and
  439) and read without one, and that decides both where the next message goes
  and how often a message is sent.
* *Bounded queues* on which callers sleep, also `initialize` itself, before the
  threads exist that empty them.
* *Index arithmetic* that is right only for powers of two (arm:360), with depths
  that are not.
* *Locks released by interrupt handlers* of the other side's doorbell, which may
  come never, or twice, or for another lock (the doorbell variant).
* *Partial failure*: `initialize` fails in the middle, and what it had set up stays
  or goes, while interrupts arrive.

`PROJECT.json` lists these hazards line by line, with the properties that cover
each, or the reason why none does yet.

What makes each component correct:

* send queue: a FIFO, at most `MAX_SEND_DEPTH` messages, each fetched once, no
  unwritten slot fetched, callers never stuck once there is room;
* handles: the counter stays within what was stored and is worked off, messages
  of a handle go out in order, every message goes out, the load is spread;
* partition: a mark is answered at most once, and its message is received whole, in
  order, and not lost;
  the slot does not stay marked for ever;
* loading: `insmod` returns, and a failure on the way leaves nothing behind;
  unloading ends;
* the whole path: what is stored on one VM is received on the other, in order,
  and a slow peer holds up the sender without stopping it for ever;
* doorbell variant: one message at a time is announced, read and answered, and a
  lock is released once for each time it is taken;
* interrupt check: a handler runs only while its code and the device are there.

Some of these hold, some only under conditions that the models make explicit,
and some fail: section 4.


## 2. The modules

`RingIndex` is the index arithmetic alone: `NextSlot(i)` is
`(i + 1) & (MAX_SEND_DEPTH - 1)`, with `&` as a recursive function on naturals.
`WrapsAtDepth` says that this is the remainder, which is so exactly for powers
of two; properties that need it say so. `RingIndexProofs` has the proofs.

`SendRing` is the send queue of one handle. One action per access that another
thread can see: `Call`, `DownFull`, `EnqLock`, `EnqStore`, `UpEmpty` are
`enq_send`; `DownEmpty`, `DeqLock`, `DeqFetch`, `UpFull`, `Transmit` are
`deq_send`. `EnqStore` and `DeqFetch` each stand for the statements between the
read of the index and the unlock, which no other thread sees one by one.
`q_size` is left out: it plays no part in the ring. History variables record what
was stored (`accepted`), where (`slots`) and what was fetched (`taken`). `BoundedFifo` is what the queue
promises, in two actions; `SendRing!Fifo` instantiates it with `Capacity` the
depth and the histories for its variables. `MCSendRing` adds the symmetry for
the run that checks safety only, and `MCSendRingPow2` the assumption that the
depth is a power of two. `SendRingProofs` has the proofs.

`SharedSlot` is one partition and the four threads that use it. `PollOpen`,
`WriteMark` and `CopyIn` (one word of the body per step) are `ivshmem_send`;
`PollMark`, `CopyOut` and `Reopen` are `ivshmem_recv`. A poll that fails changes
nothing and is no step. A message is a number per VM, and each word of the body
carries the message it belongs to, so a mixture of two messages is a state that
can be seen. The history `marks` records which mark each receive answers; the same
words may be received under two marks, as each mark is written before its words. `LoadX86` (which writes OPEN), `LoadArm` (which does not) and
`Reset` are the life of the module; the memory starts zeroed, and zero is the
mark of the ARM VM. Partitions are disjoint (arm:755), so one stands for all.
The model takes single words to be atomic and in program order, as for device
memory that is not cached; it grants the hardware more order than
`memcpy_toio` promises, so what fails here fails on the machine too.
`SharedSlotProofs` has the proofs.

`SendHandles` is the send side of a VM: all handles, `find_low_queue` reading
one counter per step (`ScanEmpty`, `ScanNext`: a plain `int` that the compiler may
load once for both comparisons, as the model does), both updates of `q_size` as a
read (`EnqStore`, `DecRead`) and a write (`EnqInc`, `DecWrite`), the transmit
loop (`LoopSend`, `LoopEnd`), and `initialize` as far as it touches the queues:
`TestCall`, `NUM_MSGS` times, and only then `StartHandlers`. Here the code
under `q_lock` is one step but for `q_size`, which others read and write without
the lock. `ivshmem_send` returns at once: that it may be taken so is what
`MessagingLayer` shows. Of each handle three histories are kept: `accepted` is what
`EnqStore` stored, `taken` what `DeqFetch` fetched, `wire` what `LoopSend` sent.
`Queue(k)` is `BoundedFifo` with the first two of handle k; its messages are those
that a call hands over (`Sendable`). `SendHandlesProofs` has the proofs.

`MessagingLayer` is one direction from end to end: `SendHandles`, with one handle
(as each has a partition of its own), composed with `SharedSlot`, with one sender
and no reset. `LoadArm` starts the threads and gives the partition its user. Where `SendHandles` has the
one step `LoopSend`, here are `EnterSend` (the call of `ivshmem_send`), `InSend`
(its poll, its mark, its words) and `ReturnFromSend` (the last word, joined with
`LoopSend`), with the steps of all other threads in between. Everything else is a
step of one of the two with the other unchanged. `MessagingLayerProofs` has the
proofs.

`ModuleLifecycle` is the life of the module on one VM: `initialize` with each
failure that it handles, `__start_handlers`, `unload`, and the two threads of
every handle. `kthread_stop` is two steps, to ask (`StopSend`, `StopRecv`,
`StartRecvFails`) and to wait for the end (`JoinSend`, `JoinRecv`, `Undone`); a
thread sees that it is asked at the head of its loop only (`SendContinue` and
`SendQuit`, `RecvContinue` and `RecvQuit`), or does not run at all if it is asked
before it first ran. The queue is reduced to the number of messages that wait,
the partition to who may use it next, and the transmit loop to some number of
rounds, up to `MaxSends`. The upper layer calls `enq_send` at any time from when
the queue exists until after the unload, as nothing withdraws the transport.
Two things are undefined behaviour and outside the model: a call before the
queue exists (the transport is announced at arm:738), and all that happens after
a failed `insmod`, whose remaining threads run code that is being freed
(`Next` has `pc # "failed"`). The branch of `unload` that frees a ring without a
send thread (arm:585) is never taken: `unload` runs only after an `insmod` that
has set every thread pointer. `ModuleLifecycleProofs` has the proofs.

`DoorbellLayer` is the variant with interrupts, both VMs. `CopyIn`, `Lock` and
`RingPeer` are `ivshmem_send`; it returns with the lock held. `TakeInterrupt`,
`ReadBody`, `Consume` and `RingBack` are the handlers `read_x86` and `read_arm`,
with `recv_handler` and `ivshmem_recv`, `WriteHandler` the handlers that release a
lock. `SendArm` has the lock that `deq_send` of the ARM VM takes first. `dest` is
where the doorbells of each VM lead: both files have `DEST_ID` 1, and which VM that
is is the server's choice, so any pair, also nowhere. A doorbell to a VM that
has not loaded the module is lost; one that is latched already is not latched
again. `Reset` is the loss of the ARM VM. What the threads send is left to the
queue, which is that of `SendHandles`. `Rendezvous` is what the variant promises,
in three actions; `DoorbellProofs` has the proofs. The two files do not compile
and register no handler, so the model reads them as follows:

* the handlers are on the vectors that the comment before them names
  (`final_x86_interrupts.c:258`);
* `msg` in `ivshmem_send` and in the handlers, which is not declared, is a local
  as in `x86_side.c`; the call with a garbled name in `recv_handler` is `kmalloc`;
* the `schedule()` of `recv_handler`, which an interrupt handler must not call,
  returns, and so does `kmalloc` there.

`IrqVectors` is the three programs that try out interrupts: `arm_side.c` and
`x86_side.c` of `Checking_Interrupts_Presence` ("check", the same code), and
`second_phase.c` ("second"). Their `insmod` is a sequence of steps, each with its
failure (`EnableDevice`, `RequestRegions` or `RegionsFail`, `AllocVectors` or
`AllocVectorsFails`, `RequestIrq` or `RequestIrqFails` once per vector,
`RingDoorbells`), their `rmmod` another (`FreeIrqs`, `DisableMsix`, `Unmap`,
`Release`; none in `second_phase.c`, whose `initialize` runs the last two). A
handler is entered and reads the device in two steps, with any step of the process
between. Of the kernel it assumes three things: MSI-X is refused for a device that
has it; freeing the vectors of a device under a registered handler is a `BUG` that
kills the process; `free_irq` with a `dev_id` nobody registered frees nothing. The
`dev_id` of `unload` is the address of the pointer, not the pointer
(`arm_side.c:271`). `IrqVectorsProofs` has the proofs.

In every module a section *plausible slips* holds variants of single steps,
each a bug that could have been made there. No specification contains them;
`PROJECT.json` pairs each property with one that breaks it.


## 3. The runs

| Run | Instance | Shows |
|---|---|---|
| `ring_fifo` | 4 slots, 2 callers, 2 messages, 6 calls | the FIFO (`FifoSpec`), the accounting of the semaphores (`SlotsAccounted`), no unwritten slot read (`HeadRetracesTail`), stored messages fetched (`FifoFairSpec`), calls return |
| `ring_x86_depth` | 10 slots, 4 calls | *violation*: the ring of x86 is no FIFO |
| `slot_both_ways` | both VMs send 2 messages of 1 word, 2 loads each | each receive answers a mark of its own (`EachMarkOnce`; the words that come with it may still be old ones: `slot_stale`), no mark without an opening (`Backpressure`), the slot is opened again (`SlotReopens`), with resets at every step |
| `slot_one_way` | ARM sends 5 messages of 3 words, no reset | nothing lost or overtaken (`OneInFlight`), at most one message behind (`StaleByOne`), sends return |
| `slot_stale` | ARM sends 3 messages of 2 words | *violation*: a received message is not whole |
| `slot_lost` | both send 2 messages | *violation*: a message is lost |
| `handles_race` | 2 handles of 2 slots, `NUM_MSGS` 3, 1 caller with 2 calls | the counter (`SizeBounded`, `SizeIsOwed`), each queue a bounded FIFO (`QueuesAreFifo`), order on the wire (`WireInOrder`), the demo spread evenly (`Balanced`) and transmitted in number (`DemoTransmitted`, with it that `insmod` returns), the transmit loop ends, calls return |
| `handles_dropped` | 2 handles of 2 slots, 1 caller, 3 calls | *violation*: a stored message is never transmitted |
| `lifecycle` | 2 handles of 2 slots, `NUM_MSGS` 3, `MaxSends` 1 | no memory unmapped or freed under a thread (`MappedWhileUsed`, `FreedByItsThread`), what a failed `insmod` leaves (`NoThreadsPastFailure`), a stopped thread takes one more message at most (`StopsAfterOne`), when `rmmod` ends (`RmmodEnds`) |
| `end_to_end` | a queue of 1 slot, `NUM_MSGS` 1, 1 caller with 2 calls, 2 words | messages received in the order stored, mixed with a neighbour at most (`DeliveredInOrder`), the receiver keeps up (`PeerKeepsUp`), the whole implements `SendHandles` with its fairness (`HandlesFairSpec`), all that is sent is received (`WireDelivered`) |
| `doorbell` | 2 handles, 2 calls of 1 word per thread, ARM lost once, every `dest` | one place for each lock (`OneToken`), ARM never rings (`ArmMute`), the promise (`RendezvousSpec`), what is read (`NewerByOne`), when a doorbell is lost (`NoneLostInTransit`), that it is final (`LossIsFinal`), and that nothing else stops a sender (`SendReturns`) |
| `irq_vectors` | both kinds of program, 4 vectors, 2 loads, every failure | handlers and the device (`ReadsMapped`), what a failure leaves (`NothingLeftBehind`), why neither can be loaded twice (`HandlersStay`, `LoadsOnce`) |

Bounds, and why they are enough for the cases that matter:

* `MaxCalls` bounds the calls of `enq_send`. In `ring_fifo` six calls on four
  slots fill the ring, make callers wait, and wrap both indices. In
  `handles_race` the three messages of `test_func` are one more than an even
  spread, and its two calls race with both send threads: enough to lose an update
  in either direction, to have `q_size` exceed the number of messages waiting, and,
  when the caller comes while `test_func` still runs, to fill all queues before a
  send thread exists. In `end_to_end` the queue is full with one message, so that
  callers wait for the peer through both modules.
* `MaxSends` bounds the marks of a VM, `MaxBoots` the loads of its module. Two
  loads on each side allow a reset at every line of every thread with a mark, an
  open slot or a half-written body in the memory, and two messages per VM let
  one be lost and the next arrive. The proofs have no such bounds.
* `MaxSends` of `ModuleLifecycle` is the number of rounds of one transmit loop: 0
  and 1 are the loop that is skipped, and one that waits for the slot while its
  thread is asked to stop. More rounds repeat the latter. Two handles are enough
  for a failure at a later one and for an unload that is held up at each.
* `MaxSends` and `MaxBoots` of `DoorbellLayer` are the calls of `ivshmem_send` per
  thread and the loads of ARM: with two of each a thread waits for the lock with
  its second message written, ARM is lost at each step of an answer, and doorbells
  come before the first load. In `end_to_end`, `MaxSends` 6 cuts nothing off: with lost
  decrements the loop sends the three messages up to six times, and no more.
* Four vectors (`IrqVectors`) are those of the check; with two loads the second finds
  what the first left.
* `Words` is one where only flags and counts matter, two or three where the
  words of two messages can mix.

Fairness. Each thread is weakly fair: a kernel thread that can run is scheduled,
and a polling loop reads the flag again and again. This is used only for a
condition that stays true once it is (OPEN stays until the one sender acts, a
positive semaphore until its one sleeper takes it), or where the bound on calls
ends the competition; `CallsReturn` of several callers rests on the bound
`MaxCalls` in that sense: a caller could be overtaken as often as there are calls.
Loading the module after a reset is fair, since a slot with one VM is of no use;
sending and being reset are not. In `slot_one_way` one VM sends: with two, a
sender may find the slot taken at each poll and nothing in the code prevents it,
so `SendReturns` is not claimed there.

`RmmodEnds` needs more than fair threads, and says so in its antecedent `Traffic`:
the upper layer keeps calling `enq_send` on every handle, the peer keeps taking
our messages and sending its own, and our sender is not kept from the slot for
ever by the peer's. None of this is in the code of this VM; without it a thread
that was asked to stop sleeps or polls on, and `rmmod` hangs, which is the
"Unable to rmmod" of `README.md:54`. The property shows that this is the only
reason: nothing else in `unload` can keep it from ending. `StopsAfterOne` is the
other half: the one message a thread waits for is also the last it takes.

In `end_to_end` loading both modules is fair too, as is the first step of
`test_func`: the path is about what happens then. In `doorbell` a latched interrupt
is taken and threads run, while loading and sending are not fair: `SendReturns` has
the antecedent that no doorbell is lost. `irq_vectors` is safety only.

The deadlock check is off where the system really may stop: `handles_race` (a call of
the upper layer during `test_func` may take the slots the demo needs, and `insmod`
sleeps for ever) and `end_to_end` for the same reason; `lifecycle` (a module that
waits in `kthread_stop` for a message, is gone, or failed to load); `doorbell` (ARM
waits for its own lock, and x86 for an answer that got lost); `irq_vectors` (loads
used up and nothing to ring). In all other runs a stuck system would be an error;
`Rest` is the one state in which standing still is right.


## 4. What fails, and where

* `ring_x86_depth`: `& (MAX_SEND_DEPTH - 1)` with depth 10 visits the slots 0 and
  1 only, while `q_full` admits ten messages (x86:351). Waiting messages are
  overwritten and others fetched twice. With depth 100 the slots are 0 to 3.
* `slot_stale`: mark before body (arm:232). The receiver may copy words of the
  message before (never of an older one: `StaleByOne`).
* `slot_lost`: both senders may see OPEN (arm:226). One message is erased.
* `handles_dropped`: `deq_send` sends the message it fetched until `q_size` is 0
  (arm:429): once for itself and once for each of those that wait, which then
  find the counter at 0 and are dropped. The demo does not show it, because
  `test_func` queues the same message each time, and the number is right.

These are violations that runs show. The passing runs show five more, as what holds
instead of what one would expect, or as the condition that a property needs:

* `DemoTransmitted` excludes the sleep of `insmod` by its conditions. `test_func` runs
  before the send threads exist (arm:763), so with more demo messages than slots, or
  with callers of the upper layer that take the slots first (the transport is announced
  at arm:738), `insmod` sleeps for ever. The property shows that it returns otherwise; it
  would not catch the sleep.
* `ArmMute`: `deq_send` of the ARM VM holds `arm_lock` (`final_arm_interrupts.c:484`)
  when `ivshmem_send` takes it again (229). The ARM VM never announces a message.
* `LossIsFinal`: a doorbell that x86 rings before ARM is loaded, or that `DEST_ID` sends
  elsewhere, leaves `x86_lock` taken for ever; nothing is sent again. The same
  `DEST_ID` in both files cannot be right for both.
* `NewerByOne` speaks of handle 1 only: `read_arm` always reads that partition
  (`final_arm_interrupts.c:290`), so a message of handle 0 is answered without being
  read. And the body is written before the lock is taken
  (`final_x86_interrupts.c:226`), so even a message of
  handle 1 may be read as the next one.
* `HandlesStay` and `LoadsOnce`: the check passes `&pdev` to `free_irq` where it
  passed `pdev` to `request_irq`, so once a handler is registered `rmmod` dies in
  `pci_disable_msix`: the "Couldn't rmmod. Need to restart VM" of its README.
  `second_phase.c` leaves its handlers registered after it unmapped the device and
  after it is unloaded; the condition of `ReadsMapped` says from when they read what is gone.

The guide of this version says that messages are transferred between the VMs
(`Usage_Guides/Messaging_Layer_Without_Interrupts/README:3`), that its only
problem is "Nothing ;)" (line 23), and that the number of demo messages can be
changed (`README.md:49`).


## 5. What is proved

From the specifications alone, for all values of the constants that satisfy the
assumptions of the modules.

`RingIndexProofs`, for any depth: what `&` computes. The library's induction theorems
cannot be used (they take a predicate for a parameter), so the induction is made of
sets: the intervals `0 .. n` are finite, strict inclusion of finite sets is well
founded, and so a set of counterexamples has a least one (`Least`).

* `BitAndStep`: the function that `BitAnd` chooses exists and satisfies its equation,
  by gluing together its restrictions to arguments up to n. From it `BitAndBound`
  and `MaskStays`: a masked index is a slot, for every depth.
* `WrapsForPowersOnly`: `WrapsAtDepth` holds exactly for `PowersOfTwo` (defined as the
  numbers in every set that has 1 and the double of each of its elements).
* `SlotUnused`: at any other depth the indices miss a slot, which is why the ring of
  `ring_x86_depth` cannot hold what `q_full` admits.

`SendRingProofs`, for any number of callers, messages and calls and any depth:

* `TypeCorrect`; `LockCorrect` (a thread between lock and unlock owns the lock
  and what it read is still current); `SlotsCorrect`: `SlotsAccounted`, by
  counting, with the cardinalities of the sets of callers at each place.
* `HeadCorrect`: `HeadRetracesTail`. It needs `ChainInv`: the slots used form a
  chain under `NextSlot`, `q_tail` follows the last, `q_head` is the oldest that
  waits. Nothing in it depends on the depth, which is why even the wrong mask
  never lets `deq_send` read an unwritten slot.
* For depths with `WrapsAtDepth`: `RowCorrect` (the waiting messages lie in a
  row from `q_head`, so that by `SlotsAccounted` a store never hits one),
  and from it `OrderCorrect` and `ImplementsFifo`, each step of the ring mapped
  to `Accept`, to `Take` or to a stutter.

`SharedSlotProofs`, for messages of any length and any number of them:

* `SlotTypeCorrect`; `LifeCorrect` (before the first load on x86 nobody gets
  past a poll for OPEN).
* `EachMarkOnceCorrect`: a mark in the flag that is not being read is newer than
  all that its receiver has answered (`MarksInv`), since the receiver writes OPEN before it
  looks again; what it has seen and not yet returned is the last entry of `marks`, which a
  reset takes back. `BackpressureCorrect`: an open slot, or a sender that has seen
  it open, is an opening not used yet (`OpenInv`). Both hold with two senders
  and resets of either VM, where `NothingLost` does not.
* With one sender and no reset (`OneWay`): `OneInFlightCorrect` from `TurnInv`,
  the alternation of mark and OPEN, and `StaleByOneCorrect` from `WordsInv`,
  which says of each word of the body and of the receiver's buffer which message
  it may belong to.

`ModuleLifecycleProofs`, for any number of handles and messages and any depth:

* `LifecycleTypeCorrect`; `PhaseCorrect`: what each step of `initialize` and
  `unload` may suppose of the handles before and after the one it is at
  (`PhaseInv`, which the loops over handles need as their invariant). From it
  `MappedCorrect`, `FailureCorrect` and `FreedCorrect`.
* `LateCorrect`: `StopsAfterOne` from `LateInv`, that a thread that waits for a
  message has taken none since it was asked to stop.

`SendHandlesProofs`, for any number of handles, callers, calls and demo messages and
any depth:

* `HandlesTypeCorrect`, strengthened by what a caller holds (`HeldInv`).
* `SizeCorrect`: `SizeBounded`. `CounterInv` says of each read of `q_size` that has
  not been written back that it cannot exceed the messages stored by then, and that
  only the owner of `q_lock` has one on the side of `enq_send`.
* `OwedCorrect`: `SizeIsOwed`, from the same and `OwedInv`.
* `BalancedCorrect`, for depths up to the 10000 with which the scan starts: while only
  `initialize` calls, the counter is exact and the scan finds a lowest handle
  (`BalanceInv`, with the invariant of the scan's loop as `ScanLowest`).
* `SlotsCorrect`: of every handle, the messages waiting and the slots free are those
  that `q_empty` and `q_full` count, but for what somebody is about to count
  (`Accounted`, with the cardinalities of the callers at each place). It is `SendRing`'s
  `SlotsAccounted` for callers that choose their handle by a racing scan.
* For depths with `WrapsAtDepth`, in this order: `RowCorrect` (the messages waiting lie
  in a row from `q_head`; by the accounting a store never hits one), `OrderCorrect` (what was
  fetched is the beginning of what was stored), `IdentityCorrect` (no two calls store the
  same message, and a caller that still has one in hand has not stored it), and
  `HandlesImplementFifo`: each step maps to a step of the FIFO of each handle or to a
  stutter. Then `WireCorrect` (a send thread has in hand the last message it fetched, and
  has sent only messages fetched before, in that order) and `WireOrderCorrect`.
  `q_size` plays no part in these: its races change how often a message is sent,
  never which comes after which.

`MessagingLayerProofs`, for any depth and callers and messages of any length:

* `LayerIsHandles` and `LayerIsSlot`: the composition implements both of its parts,
  step by step. So what is proved of `SendHandles` holds of it (`SizeCorrect` and the
  others apply by `LayerIsHandles`, and are used so), and what is proved of
  `SharedSlot` with one sender does by `LayerIsSlot`; the prover cannot cite a theorem
  of an instantiated module, so there the second step is the reader's.
* `LayerTypeCorrect` and `PeerKeepsUpCorrect`, from `CallInv` (the send thread is in
  `ivshmem_send` only from the loop, with `q_size` positive, and one mark ahead of
  the wire while it copies) and `FlightInv` (mark and OPEN alternate).
* `DeliveredInOrderCorrect`, for depths with `WrapsAtDepth`, puts the two halves
  together. `PathWordsInv` says of each word of the body, of the receiver's buffer and of what
  was received which mark it can belong to; by `CallInv` the n-th mark is the n-th entry of
  `wire`, or the message in hand while the last one is being copied; and by `OrderCorrect`,
  `IdentityCorrect` and `WireCorrect`, which `LayerIsHandles` carries over, those were stored
  in that order (`CarriedInOrder`).

`DoorbellProofs`, for any number of handles, any routing and messages of any length:

* `OneTokenCorrect` and `ArmMuteCorrect` from `TokenInv`, which says where on its way
  through the doorbells a lock can be; `DoorbellTypeCorrect`.
* `RendezvousCorrect`: the refinement, from `MeetInv`, which ties that place to the
  three counters. `LossIsFinalCorrect` needs no more.
* `NoneLostCorrect` from `RouteInv`: with the routing right, the token is at the VM
  where it should be.
* `NewerByOneCorrect` from `CopyInv`, `AheadInv` and `BufferInv`: which messages the
  words of partition 1 and of the handler's buffer can be of while a message is
  under way and its thread may be writing the next.

`IrqVectorsProofs`, for any number of vectors and loads: `PhaseInv` says for each step
of `insmod` and `rmmod` what is enabled, mapped and registered there, by program.
`IrqTypeCorrect`, `ReadsMappedCorrect`, `VectorsBackedCorrect` (a registered handler
has a vector, unless its process died of taking it), `NothingLeftCorrect`,
`HandlersStayCorrect` and `LoadsOnceCorrect` follow from it.

The inductive invariants are stated at the end of the modules they are about or in
the proof modules before their proof; TLC agreed with each before it was proved.

Only model-checked is all that is about liveness (`CallsReturn`, `FifoFairSpec`,
`SlotReopens`, `SendReturns`, `LoopEnds`, `DemoTransmitted`, `RmmodEnds`, `WireDelivered`, and
the fairness in `HandlesFairSpec`), which is out of the prover's reach. Each invariant, each
action property and each refinement that a passing run checks without fairness is also a
theorem, for all values of the constants; those of the FIFO and of the order for depths that
are powers of two. The condition `WrapsAtDepth` of these theorems is evaluated by TLC for the
depth of `ring_fifo`, and for the others follows from `WrapsForPowersOnly`.

The type invariants of `SendHandles`, `SharedSlot`, `ModuleLifecycle`, `DoorbellLayer`, `IrqVectors` and
`MessagingLayer`, `VectorsBacked`, and `FifoOrder` for depths that are powers of two are
theorems; no passing run repeats them. (`FifoSpec` implies `FifoOrder`, and the run
`ring_x86_depth` shows it broken for the other depths.)


## 6. Not modelled

* The callback table: sequential, and nothing reads it in this version.
* `final_phase.c`: its queue is that of `SendRing` with depth 1024. No thread is ever
  started, `ivshmem_send` and `ivshmem_recv` only return 0, and so all it could do is
  fill its queue.
* The examples that only map the device: straight-line calls.
* The lifetime of messages: `test_func` frees the message that it queued (arm:697), and
  calls of `enq_send` may come before the queues exist or after they are freed
  (arm:738, 358). What happens then is up to the heap; the models identify a message
  with its content, and start and end the upper layer's calls with the queue.
* In the doorbell variant: `unload`, and a restart of the x86 VM while an answer to
  its old lock is under way (it would release the new one).
* What the threads do that a failed `insmod` leaves running: code that is being freed.
* The kernel itself: semaphores, spin locks, threads and interrupts are taken as the
  code uses them; a failed poll, logging and the content of messages are abstracted.
* Allocation failures inside the send and receive loops.


## 7. Plan

Done, in this order: `RingIndex` and `SendRing` with its abstraction, `SharedSlot`,
`SendHandles`, `ModuleLifecycle`, `DoorbellLayer` with its abstraction, `IrqVectors`,
`MessagingLayer`, each with its proofs.

Left, most useful first:

1. Both directions in `MessagingLayer`, where `NothingLost` fails and the send side
   may be held up by the peer's sender.
2. A restart of the x86 VM in `DoorbellLayer`, with an answer to its old lock under way.
3. An abstract specification of the whole path (a channel that may repeat and drop, but
   not reorder), which `MessagingLayer` would implement word by word.
