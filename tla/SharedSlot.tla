----------------------------- MODULE SharedSlot -----------------------------
(***************************************************************************)
(* One partition of the ivshmem memory as both VMs use it: a flag word,    *)
(* polled by two send threads and two receive threads (one of each per     *)
(* VM), and after it the body of one message.  A sender waits for OPEN,    *)
(* writes its mark and then the body; the receiver of the other VM waits   *)
(* for that mark, reads the body and writes OPEN.  Nothing else orders the *)
(* four threads: the locks in ivshmem_send and ivshmem_recv are commented  *)
(* out, and no lock could span two VMs.                                    *)
(*                                                                         *)
(* A poll that fails is a stuttering step and is not modelled.  Words of   *)
(* the shared memory are read and written one at a time and in program     *)
(* order (uncached device memory); a message body is Words words, each     *)
(* the identity <<VM, n>> of the n-th message that VM marked.              *)
(***************************************************************************)
EXTENDS Naturals, Sequences, FiniteSets

CONSTANTS arm, x86,  \* the VMs
          Senders,   \* the VMs whose upper layer sends at all
          Words,     \* words in a message body
          MaxSends,  \* bound on the messages each VM marks
          MaxBoots,  \* bound on the loads of the module on each VM
          Blank      \* a body word nobody has written

VM == {arm, x86}

ASSUME VMAssumption == arm # x86 /\ Senders \subseteq VM
ASSUME WordsAssumption == Words \in Nat \ {0}
ASSUME BoundsAssumption == MaxSends \in Nat /\ MaxBoots \in Nat
ASSUME BlankAssumption == Blank \notin VM \X Nat

Peer(v) == IF v = arm THEN x86 ELSE arm

\* The three values of the flag word: *VM1, *VM2 and *OPEN of initialize.
Mark(v) == IF v = arm THEN 0 ELSE 1
OPEN == 2

WordIndex == 1 .. Words
Word == {Blank} \cup (VM \X Nat)
NoWords == [i \in WordIndex |-> Blank]

VARIABLES
  flag, body,    \* the shared memory; a new ivshmem server hands it out zeroed
  live, boots,   \* of each VM: is the module loaded, how often it was
  spc, sw,       \* send thread: place in ivshmem_send, next word to write
  rpc, rw, rbuf, \* receive thread: place in ivshmem_recv, next word, buffer
  sent, received,\* history: marks written, buffers received
  marks          \* history: which of the peer's marks each receive answers

memory == <<flag, body>>
vms == <<live, boots>>
sender == <<spc, sw, sent>>
receiver == <<rpc, rw, rbuf, received, marks>>
vars == <<flag, body, live, boots, spc, sw, rpc, rw, rbuf, sent, received, marks>>

Init ==
  /\ flag = 0 /\ body = NoWords
  /\ live = [v \in VM |-> FALSE] /\ boots = [v \in VM |-> 0]
  /\ spc = [v \in VM |-> "idle"] /\ sw = [v \in VM |-> 1]
  /\ rpc = [v \in VM |-> "poll"] /\ rw = [v \in VM |-> 1]
  /\ rbuf = [v \in VM |-> NoWords]
  /\ sent = [v \in VM |-> 0] /\ received = [v \in VM |-> <<>>]
  /\ marks = [v \in VM |-> <<>>]

\* A receive thread that has seen a mark and not yet opened the slot.
Reading(v) == rpc[v] \in {"copy", "open"}

\* A receive that comes to nothing leaves its mark unanswered.
GiveUp(v) == marks' = [marks EXCEPT ![v] = IF Reading(v) THEN SubSeq(@, 1, Len(@) - 1)
                                                         ELSE @]

-----------------------------------------------------------------------------
(* Plausible slips, each a variant of one step below                        *)

\* initialize of the x86 VM leaves the flag alone, as that of the ARM VM does
LoadX86Silent ==
  /\ ~ live[x86] /\ boots[x86] < MaxBoots
  /\ live' = [live EXCEPT ![x86] = TRUE]
  /\ boots' = [boots EXCEPT ![x86] = @ + 1]
  /\ UNCHANGED <<memory, sender, receiver>>

\* ivshmem_send waits for the other mark to be gone instead of for OPEN
PollNotPeers(v) ==
  /\ live[v] /\ spc[v] = "poll"
  /\ flag # Mark(Peer(v))
  /\ spc' = [spc EXCEPT ![v] = "mark"]
  /\ UNCHANGED <<memory, vms, sw, sent, receiver>>

\* ivshmem_send returns with the last word still to be written
CopyInShort(v) ==
  /\ live[v] /\ spc[v] = "copy"
  /\ body' = IF sw[v] = Words THEN body ELSE [body EXCEPT ![sw[v]] = <<v, sent[v]>>]
  /\ sw' = [sw EXCEPT ![v] = IF sw[v] = Words THEN 1 ELSE @ + 1]
  /\ spc' = [spc EXCEPT ![v] = IF sw[v] = Words THEN "idle" ELSE "copy"]
  /\ UNCHANGED <<flag, vms, sent, receiver>>

\* ivshmem_recv gives up after the copy: no message, and no OPEN
ReopenForgotten(v) ==
  /\ live[v] /\ rpc[v] = "open"
  /\ rpc' = [rpc EXCEPT ![v] = "poll"]
  /\ rbuf' = [rbuf EXCEPT ![v] = NoWords]
  /\ GiveUp(v)
  /\ UNCHANGED <<memory, vms, sender, rw, received>>

\* ivshmem_recv returns the message without writing OPEN
ReopenSkipped(v) ==
  /\ live[v] /\ rpc[v] = "open"
  /\ received' = [received EXCEPT ![v] = Append(@, rbuf[v])]
  /\ rpc' = [rpc EXCEPT ![v] = "poll"]
  /\ rbuf' = [rbuf EXCEPT ![v] = NoWords]
  /\ UNCHANGED <<memory, vms, sender, rw, marks>>

-----------------------------------------------------------------------------
(* Loading the module, and losing a VM *)

\* initialize on the x86 VM opens the slot, whatever is in it ...
LoadX86 ==
  /\ ~ live[x86] /\ boots[x86] < MaxBoots
  /\ live' = [live EXCEPT ![x86] = TRUE]
  /\ boots' = [boots EXCEPT ![x86] = @ + 1]
  /\ flag' = OPEN
  /\ UNCHANGED <<body, sender, receiver>>

\* ... and on the ARM VM it leaves the shared memory alone.
LoadArm ==
  /\ ~ live[arm] /\ boots[arm] < MaxBoots
  /\ live' = [live EXCEPT ![arm] = TRUE]
  /\ boots' = [boots EXCEPT ![arm] = @ + 1]
  /\ UNCHANGED <<memory, sender, receiver>>

\* A VM is reset (the module cannot be unloaded, a restart is the way out):
\* its threads are gone at whatever line they were, the memory stays.
Reset(v) ==
  /\ live[v] /\ boots[v] < MaxBoots
  /\ live' = [live EXCEPT ![v] = FALSE]
  /\ spc' = [spc EXCEPT ![v] = "idle"]
  /\ sw' = [sw EXCEPT ![v] = 1]
  /\ rpc' = [rpc EXCEPT ![v] = "poll"]
  /\ rw' = [rw EXCEPT ![v] = 1]
  /\ rbuf' = [rbuf EXCEPT ![v] = NoWords]
  /\ GiveUp(v)
  /\ UNCHANGED <<memory, boots, sent, received>>

-----------------------------------------------------------------------------
(* ivshmem_send, run by the send thread of VM v *)

StartSend(v) ==
  /\ live[v] /\ spc[v] = "idle" /\ sent[v] < MaxSends
  /\ spc' = [spc EXCEPT ![v] = "poll"]
  /\ UNCHANGED <<memory, vms, sw, sent, receiver>>

PollOpen(v) ==
  /\ live[v] /\ spc[v] = "poll"
  /\ flag = OPEN
  /\ spc' = [spc EXCEPT ![v] = "mark"]
  /\ UNCHANGED <<memory, vms, sw, sent, receiver>>

\* The mark is written on the strength of a flag that was read earlier.
WriteMark(v) ==
  /\ live[v] /\ spc[v] = "mark"
  /\ flag' = Mark(v)
  /\ sent' = [sent EXCEPT ![v] = @ + 1]
  /\ spc' = [spc EXCEPT ![v] = "copy"]
  /\ UNCHANGED <<body, vms, sw, receiver>>

CopyIn(v) ==
  /\ live[v] /\ spc[v] = "copy"
  /\ body' = [body EXCEPT ![sw[v]] = <<v, sent[v]>>]
  /\ sw' = [sw EXCEPT ![v] = IF sw[v] = Words THEN 1 ELSE @ + 1]
  /\ spc' = [spc EXCEPT ![v] = IF sw[v] = Words THEN "idle" ELSE "copy"]
  /\ UNCHANGED <<flag, vms, sent, receiver>>

-----------------------------------------------------------------------------
(* ivshmem_recv, run by the receive thread of VM v *)

PollMark(v) ==
  /\ live[v] /\ rpc[v] = "poll"
  /\ flag = Mark(Peer(v))
  /\ rpc' = [rpc EXCEPT ![v] = "copy"]
  /\ marks' = [marks EXCEPT ![v] = Append(@, sent[Peer(v)])]
  /\ UNCHANGED <<memory, vms, sender, rw, rbuf, received>>

CopyOut(v) ==
  /\ live[v] /\ rpc[v] = "copy"
  /\ rbuf' = [rbuf EXCEPT ![v][rw[v]] = body[rw[v]]]
  /\ rw' = [rw EXCEPT ![v] = IF rw[v] = Words THEN 1 ELSE @ + 1]
  /\ rpc' = [rpc EXCEPT ![v] = IF rw[v] = Words THEN "open" ELSE "copy"]
  /\ UNCHANGED <<memory, vms, sender, received, marks>>

\* OPEN is written over whatever the flag has become meanwhile; recv_handler
\* frees the buffer and takes a fresh one for the next message.
Reopen(v) ==
  /\ live[v] /\ rpc[v] = "open"
  /\ flag' = OPEN
  /\ received' = [received EXCEPT ![v] = Append(@, rbuf[v])]
  /\ rpc' = [rpc EXCEPT ![v] = "poll"]
  /\ rbuf' = [rbuf EXCEPT ![v] = NoWords]
  /\ UNCHANGED <<body, vms, sender, rw, marks>>

-----------------------------------------------------------------------------
Load == LoadX86 \/ LoadArm
SendStep(v) == PollOpen(v) \/ WriteMark(v) \/ CopyIn(v)
RecvStep(v) == PollMark(v) \/ CopyOut(v) \/ Reopen(v)

\* Nothing is left to send, and no mark is left that a receiver waits for.
Settled == /\ flag = OPEN
           /\ \A v \in VM : live[v] /\ spc[v] = "idle" /\ rpc[v] = "poll"
Rest == Settled /\ (\A v \in Senders : sent[v] = MaxSends) /\ UNCHANGED vars

Next == \/ Load
        \/ \E v \in Senders : StartSend(v)
        \/ \E v \in VM : Reset(v) \/ SendStep(v) \/ RecvStep(v)
        \/ Rest

Spec == Init /\ [][Next]_vars

\* Both modules get loaded, also after a reset (a slot with one VM has no use),
\* and kernel threads that can run do run.  No VM has to send or to be reset.
Fairness == /\ WF_vars(LoadX86) /\ WF_vars(LoadArm)
            /\ \A v \in VM : WF_vars(SendStep(v)) /\ WF_vars(RecvStep(v))
FairSpec == Spec /\ Fairness

-----------------------------------------------------------------------------
(* Properties *)

TypeOK ==
  /\ flag \in {0, 1, 2}
  /\ body \in [WordIndex -> Word]
  /\ live \in [VM -> BOOLEAN] /\ boots \in [VM -> Nat]
  /\ spc \in [VM -> {"idle", "poll", "mark", "copy"}]
  /\ sw \in [VM -> WordIndex]
  /\ rpc \in [VM -> {"poll", "copy", "open"}]
  /\ rw \in [VM -> WordIndex]
  /\ rbuf \in [VM -> [WordIndex -> Word]]
  /\ sent \in [VM -> Nat]
  /\ received \in [VM -> Seq([WordIndex -> Word])]
  /\ marks \in [VM -> Seq(Nat)]

\* How many messages ivshmem_recv of VM v has returned.
Got(v) == Len(received[v])

\* Each message that ivshmem_recv returns, or is about to, answers a mark of its
\* own: one that ivshmem_send of the other VM wrote, later than those answered
\* before, whoever sends, however the marks and the OPENs of the four threads
\* overtake each other and whenever a VM is reset.  A mark may be lost, but none
\* is taken for two messages or for one that was not sent.  The zeroed memory of a
\* new server already holds the mark of the ARM VM; that it is not taken for a
\* message hangs on the OPEN that initialize of the x86 VM writes.  Which words
\* come with a mark is another matter: it is written before the body, so they
\* may be those of an earlier message, or words that were never written.
EachMarkOnce ==
  \A v \in VM :
    /\ Len(marks[v]) = Got(v) + (IF Reading(v) THEN 1 ELSE 0)
    /\ \A n \in 1 .. Len(marks[v]) : marks[v][n] \in 1 .. sent[Peer(v)]
    /\ \A m, n \in 1 .. Len(marks[v]) : m < n => marks[v][m] < marks[v][n]

\* How often the slot was opened: by a receiver, or by loading the x86 module.
Opened == Got(arm) + Got(x86) + boots[x86]

\* A VM writes at most one mark each time the slot is opened, so it is never
\* ahead of the receivers by more than the loads of the x86 module account for.
Backpressure == \A v \in VM : sent[v] <= Opened

-----------------------------------------------------------------------------
(* One direction: only one VM sends, and no VM is reset *)

\* Nothing is lost or overtaken: what is marked and not yet received is the one
\* message whose mark is in the flag.
OneInFlight ==
  \A v \in Senders :
     sent[v] = Got(Peer(v)) + (IF live[x86] /\ flag = Mark(v) THEN 1 ELSE 0)

\* The n-th message of VM v as a body word; before the first, an unwritten one.
Nth(v, n) == IF n = 0 THEN Blank ELSE <<v, n>>

\* The n-th message received consists of words of the n-th message sent and of
\* the one before it: the mark precedes the body, so a receiver may read words
\* that are not written yet, but it is never more than one message behind.
StaleByOne ==
  \A v \in Senders : \A n \in 1 .. Got(Peer(v)) : \A i \in WordIndex :
     received[Peer(v)][n][i] \in {Nth(v, n - 1), Nth(v, n)}

\* The message received is the message sent, whole ("the message being
\* transferred", as the guide puts it).
Intact ==
  \A v \in Senders : \A n \in 1 .. Got(Peer(v)) : \A i \in WordIndex :
     received[Peer(v)][n][i] = <<v, n>>

\* A mark that is written is received in the end, so when the slot is open and
\* no thread is busy with it every message sent has been received.
NothingLost == Settled => \A v \in VM : Got(Peer(v)) = sent[v]

-----------------------------------------------------------------------------
(* Progress *)

\* The slot never stays marked: once the x86 module has been loaded, every mark
\* is followed by an OPEN, even if its receiver is reset while it reads.
SlotReopens == (live[x86] /\ flag # OPEN) ~> (flag = OPEN)

\* A call of ivshmem_send returns.
SendReturns == \A v \in Senders : (spc[v] = "poll") ~> (spc[v] = "idle")

-----------------------------------------------------------------------------
(* The inductive invariants of the proofs (SharedSlotProofs) *)

\* A VM whose module is not loaded runs no threads, and before the first load
\* on the x86 VM nobody gets past the poll for OPEN.
LifeInv ==
  /\ \A v \in VM : ~ live[v] => spc[v] = "idle" /\ rpc[v] = "poll"
  /\ live[x86] => boots[x86] > 0
  /\ boots[x86] = 0 => /\ flag = 0
                       /\ \A v \in VM : /\ spc[v] \in {"idle", "poll"} /\ sent[v] = 0
                                       /\ rpc[v] = "poll"

\* A mark in the flag that is not being read was not answered before.
MarksInv ==
  /\ \A v \in VM : (boots[x86] > 0 /\ flag = Mark(Peer(v)) /\ ~ Reading(v)) =>
        /\ sent[Peer(v)] > 0
        /\ \A n \in 1 .. Len(marks[v]) : marks[v][n] < sent[Peer(v)]
  /\ EachMarkOnce

\* An open slot, or a sender that saw it open, is an opening not yet used.
OpenInv ==
  /\ \A v \in VM : (flag = OPEN \/ spc[v] = "mark") => sent[v] + 1 <= Opened
  /\ Backpressure

\* The setting of OneInFlight and StaleByOne.
OneWay == (\E s \in VM : Senders = {s}) /\ MaxBoots = 1

\* With one sender and no reset: the flag alternates between the mark of s and
\* OPEN, and what a thread saw in it stays true until that thread changes it.
TurnInv ==
  \A s \in Senders : LET r == Peer(s) IN
     /\ spc[r] = "idle" /\ rpc[s] = "poll"
     /\ \A v \in VM : boots[v] = IF live[v] THEN 1 ELSE 0
     /\ \A v \in VM : ~ live[v] => spc[v] = "idle" /\ rpc[v] = "poll"
     /\ ~ live[x86] => flag = 0 /\ sent[s] = 0
     /\ live[x86] => flag \in {OPEN, Mark(s)}
     /\ spc[s] \in {"mark", "copy"} => live[x86]
     /\ spc[s] = "mark" => flag = OPEN
     /\ Reading(r) => live[x86] /\ flag = Mark(s)
     /\ OneInFlight

\* A copy starts at word 1.  The words of the body before sw are those of the
\* message being written, the rest those of the one before it; each word that a
\* receiver has copied is of one of the two.
WordsInv ==
  \A s \in Senders : LET r == Peer(s) IN
     /\ IF spc[s] = "copy" THEN sent[s] > 0 ELSE sw[s] = 1
     /\ rpc[r] # "copy" => rw[r] = 1
     /\ \A i \in WordIndex :
          body[i] = IF spc[s] = "copy" /\ i >= sw[s] THEN Nth(s, sent[s] - 1)
                                                    ELSE Nth(s, sent[s])
     /\ \A i \in WordIndex :
          (rpc[r] = "open" \/ (rpc[r] = "copy" /\ i < rw[r]))
            => rbuf[r][i] \in {Nth(s, sent[s] - 1), Nth(s, sent[s])}
     /\ StaleByOne
=============================================================================
