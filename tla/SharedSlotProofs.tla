-------------------------- MODULE SharedSlotProofs --------------------------
(***************************************************************************)
(* Proofs about SharedSlot, for every length of a message body and every   *)
(* number of messages and of resets.                                       *)
(***************************************************************************)
EXTENDS SharedSlot, SequenceTheorems, TLAPS

\* The two marks differ from each other and from OPEN.
LEMMA MarkFacts ==
  /\ \A v \in VM : Peer(v) \in VM /\ Peer(v) # v /\ Peer(Peer(v)) = v
  /\ \A v \in VM : Mark(v) \in {0, 1} /\ Mark(v) # OPEN
  /\ \A v, w \in VM : Mark(v) = Mark(w) => v = w
  /\ Mark(arm) = 0 /\ Mark(x86) = 1
BY VMAssumption DEF VM, Peer, Mark, OPEN

LEMMA WordFacts == /\ 1 \in WordIndex
                   /\ NoWords \in [WordIndex -> Word]
                   /\ \A i \in WordIndex : i # Words => i + 1 \in WordIndex
                   /\ \A v \in VM, n \in Nat : <<v, n>> \in Word
BY WordsAssumption DEF WordIndex, NoWords, Word

\* The marks of a VM with one more at the end, and with the last one dropped.
LEMMA OneMore ==
  ASSUME NEW s \in Seq(Nat), NEW e \in Nat
  PROVE  /\ Append(s, e) \in Seq(Nat) /\ Len(Append(s, e)) = Len(s) + 1
         /\ \A n \in 1 .. Len(s) + 1 : Append(s, e)[n] = IF n <= Len(s) THEN s[n] ELSE e
OBVIOUS

LEMMA OneLess ==
  ASSUME NEW s \in Seq(Nat)
  PROVE  /\ SubSeq(s, 1, Len(s) - 1) \in Seq(Nat)
         /\ Len(s) > 0 => Len(SubSeq(s, 1, Len(s) - 1)) = Len(s) - 1
         /\ \A n \in 1 .. Len(s) - 1 : SubSeq(s, 1, Len(s) - 1)[n] = s[n]
<1>0. Len(s) \in Nat
  OBVIOUS
<1>1. Len(s) \in Nat /\ \A n \in 1 .. Len(s) - 1 : s[n] \in Nat
  OBVIOUS
<1>2. /\ SubSeq(s, 1, Len(s) - 1) \in Seq(Nat)
      /\ Len(SubSeq(s, 1, Len(s) - 1)) = IF 1 <= Len(s) - 1 THEN Len(s) - 1 - 1 + 1 ELSE 0
      /\ \A n \in 1 .. Len(s) - 1 - 1 + 1 : SubSeq(s, 1, Len(s) - 1)[n] = s[1 + n - 1]
  BY <1>1, SubSeqProperties
<1>3. \A n \in 1 .. Len(s) - 1 : n \in 1 .. Len(s) - 1 - 1 + 1 /\ 1 + n - 1 = n
  BY <1>1
<1>4. Len(s) > 0 => Len(SubSeq(s, 1, Len(s) - 1)) = Len(s) - 1
  <2>1. CASE Len(s) > 1
    BY <1>1, <1>2, <2>1
  <2>2. CASE Len(s) = 1
    BY <1>1, <1>2, <2>2
  <2>3. Len(s) > 0 => Len(s) > 1 \/ Len(s) = 1
    <3>1. \A k \in Nat : k > 0 => k > 1 \/ k = 1
      OBVIOUS
    <3>2. QED
      BY <1>0, <3>1, Zenon
  <2>4. QED
    BY <2>1, <2>2, <2>3
<1>5. ASSUME NEW n \in 1 .. Len(s) - 1
      PROVE  SubSeq(s, 1, Len(s) - 1)[n] = s[n]
  <2>1. SubSeq(s, 1, Len(s) - 1)[n] = s[1 + n - 1]
    BY <1>2, <1>3
  <2>2. QED
    BY <1>3, <2>1
<1>6. QED
  BY <1>2, <1>4, <1>5

-----------------------------------------------------------------------------
(* Types *)

\* Every variable keeps its type; no copy runs past the message body.
THEOREM SlotTypeCorrect == Spec => []TypeOK
<1> USE WordFacts
<1>0. arm \in VM /\ x86 \in VM
  BY DEF VM
<1>1. Init => TypeOK
  BY DEF Init, TypeOK
<1>2. TypeOK /\ [Next]_vars => TypeOK'
  <2> SUFFICES ASSUME TypeOK, [Next]_vars PROVE TypeOK'
    OBVIOUS
  <2> USE DEF TypeOK, memory, vms, sender, receiver
  <2>1. CASE LoadX86
    <3>1. live' \in [VM -> BOOLEAN] /\ boots' \in [VM -> Nat]
      BY <2>1, <1>0 DEF LoadX86
    <3>2. QED
      BY <2>1, <3>1 DEF LoadX86, OPEN
  <2>2. CASE LoadArm
    <3>1. live' \in [VM -> BOOLEAN] /\ boots' \in [VM -> Nat]
      BY <2>2, <1>0 DEF LoadArm
    <3>2. QED
      BY <2>2, <3>1 DEF LoadArm
  <2>3. ASSUME NEW v \in VM, Reset(v) PROVE TypeOK'
    <3>1. marks' \in [VM -> Seq(Nat)]
      BY <2>3, OneLess DEF Reset, GiveUp
    <3>2. QED
      BY <2>3, <3>1 DEF Reset
  <2>4. ASSUME NEW v \in VM, StartSend(v) PROVE TypeOK'
    BY <2>4 DEF StartSend
  <2>5. ASSUME NEW v \in VM, PollOpen(v) PROVE TypeOK'
    BY <2>5 DEF PollOpen
  <2>6. ASSUME NEW v \in VM, WriteMark(v) PROVE TypeOK'
    BY <2>6, MarkFacts DEF WriteMark
  <2>7. ASSUME NEW v \in VM, CopyIn(v) PROVE TypeOK'
    <3>1. <<v, sent[v]>> \in Word
      OBVIOUS
    <3>2. sw' \in [VM -> WordIndex]
      BY <2>7 DEF CopyIn
    <3>3. QED
      BY <2>7, <3>1, <3>2 DEF CopyIn
  <2>8. ASSUME NEW v \in VM, PollMark(v) PROVE TypeOK'
    <3>1. sent[Peer(v)] \in Nat
      BY MarkFacts
    <3>2. marks' \in [VM -> Seq(Nat)]
      BY <2>8, <3>1, OneMore DEF PollMark
    <3>3. QED
      BY <2>8, <3>2 DEF PollMark
  <2>9. ASSUME NEW v \in VM, CopyOut(v) PROVE TypeOK'
    <3>1. rw' \in [VM -> WordIndex]
      BY <2>9 DEF CopyOut
    <3>2. rbuf' \in [VM -> [WordIndex -> Word]]
      BY <2>9 DEF CopyOut
    <3>3. QED
      BY <2>9, <3>1, <3>2 DEF CopyOut
  <2>10. ASSUME NEW v \in VM, Reopen(v) PROVE TypeOK'
    <3>1. received' \in [VM -> Seq([WordIndex -> Word])]
      BY <2>10 DEF Reopen
    <3>2. QED
      BY <2>10, <3>1 DEF Reopen, OPEN
  <2>11. CASE UNCHANGED vars
    BY <2>11 DEF vars
  <2>12. QED
    BY <2>1, <2>2, <2>3, <2>4, <2>5, <2>6, <2>7, <2>8, <2>9, <2>10, <2>11, VMAssumption
    DEF Next, Load, SendStep, RecvStep, Rest
<1>3. QED
  BY <1>1, <1>2, PTL DEF Spec

-----------------------------------------------------------------------------
(* Any senders, any resets *)

\* Nobody marks the slot before the x86 module has opened it.
THEOREM LifeCorrect == Spec => []LifeInv
<1> USE MarkFacts
<1>1. Init => LifeInv
  BY VMAssumption DEF Init, LifeInv, VM
<1>2. TypeOK /\ LifeInv /\ [Next]_vars => LifeInv'
  <2> SUFFICES ASSUME TypeOK, LifeInv, [Next]_vars PROVE LifeInv'
    OBVIOUS
  <2> USE DEF LifeInv, TypeOK, memory, vms, sender, receiver
  <2>h. x86 \in VM /\ arm \in VM /\ arm # x86
    BY VMAssumption DEF VM
  <2>1. CASE LoadX86
    BY <2>1, <2>h DEF LoadX86
  <2>2. CASE LoadArm
    BY <2>2, <2>h DEF LoadArm
  <2>3. ASSUME NEW v \in VM, Reset(v) PROVE LifeInv'
    BY <2>3, <2>h DEF Reset
  <2>4. ASSUME NEW v \in VM, StartSend(v) PROVE LifeInv'
    BY <2>4, <2>h DEF StartSend
  <2>5. ASSUME NEW v \in VM, PollOpen(v) PROVE LifeInv'
    BY <2>5, <2>h DEF PollOpen, OPEN
  <2>6. ASSUME NEW v \in VM, WriteMark(v) PROVE LifeInv'
    BY <2>6, <2>h DEF WriteMark
  <2>7. ASSUME NEW v \in VM, CopyIn(v) PROVE LifeInv'
    BY <2>7, <2>h DEF CopyIn
  <2>8. ASSUME NEW v \in VM, PollMark(v) PROVE LifeInv'
    <3>1. /\ live[v] /\ flag = Mark(Peer(v))
          /\ UNCHANGED <<flag, live, boots, spc, sent>>
          /\ \A w \in VM : rpc'[w] = IF w = v THEN "copy" ELSE rpc[w]
      BY <2>8 DEF PollMark
    <3>2. boots[x86] = 0 => v # x86 /\ v # arm
      BY <2>h, <3>1 DEF Peer
    <3>3. QED
      BY <2>h, <3>1, <3>2 DEF VM
  <2>9. ASSUME NEW v \in VM, CopyOut(v) PROVE LifeInv'
    BY <2>9, <2>h DEF CopyOut
  <2>10. ASSUME NEW v \in VM, Reopen(v) PROVE LifeInv'
    BY <2>10, <2>h DEF Reopen
  <2>11. CASE UNCHANGED vars
    BY <2>11 DEF vars
  <2>12. QED
    BY <2>1, <2>2, <2>3, <2>4, <2>5, <2>6, <2>7, <2>8, <2>9, <2>10, <2>11, VMAssumption
    DEF Next, Load, SendStep, RecvStep, Rest
<1>3. QED
  BY <1>1, <1>2, SlotTypeCorrect, PTL DEF Spec

\* Only Reopen receives a message, and only on its own VM.
LEMMA GotType == ASSUME TypeOK, NEW v \in VM
                 PROVE  Got(v) \in Nat /\ sent[v] \in Nat /\ boots[v] \in Nat
BY DEF TypeOK, Got

LEMMA GotKept == ASSUME UNCHANGED received, NEW v
                 PROVE  Got(v)' = Got(v)
BY DEF Got

LEMMA GotOne == ASSUME TypeOK, NEW w \in VM, Reopen(w), NEW v \in VM
                PROVE  Got(v)' = IF v = w THEN Got(v) + 1 ELSE Got(v)
<1>1. received' = [received EXCEPT ![w] = Append(@, rbuf[w])]
  BY DEF Reopen
<1>2. CASE v = w
  <2>1. received[v] \in Seq([WordIndex -> Word]) /\ rbuf[v] \in [WordIndex -> Word]
    BY DEF TypeOK
  <2>2. received'[v] = Append(received[v], rbuf[v])
    BY <1>1, <1>2 DEF TypeOK
  <2>3. Len(received'[v]) = Len(received[v]) + 1
    BY <2>1, <2>2
  <2>4. QED
    BY <1>2, <2>3 DEF Got
<1>3. CASE v # w
  BY <1>1, <1>3 DEF TypeOK, Got
<1>4. QED
  BY <1>2, <1>3

\* Each message received answers a mark of its own, in the order of the marks,
\* in any interleaving of the four threads and with any number of resets.
THEOREM EachMarkOnceCorrect == Spec => []EachMarkOnce
<1> USE MarkFacts
<1> DEFINE Mid(v) == IF Reading(v) THEN 1 ELSE 0
           Due(v) == boots[x86] > 0 /\ flag = Mark(Peer(v)) /\ ~ Reading(v)
           Count(v) == Len(marks[v]) = Got(v) + Mid(v)
           Rising(v) == /\ \A n \in 1 .. Len(marks[v]) : marks[v][n] \in 1 .. sent[Peer(v)]
                        /\ \A m, n \in 1 .. Len(marks[v]) : m < n => marks[v][m] < marks[v][n]
           Fresh(v) == /\ sent[Peer(v)] > 0
                       /\ \A n \in 1 .. Len(marks[v]) : marks[v][n] < sent[Peer(v)]
           Good(v) == Count(v) /\ Rising(v) /\ (Due(v) => Fresh(v))
<1>0. MarksInv <=> \A v \in VM : Good(v)
  BY DEF MarksInv, EachMarkOnce
<1>1. Init => MarksInv
  BY DEF Init, MarksInv, EachMarkOnce, Reading, VM, Got
<1>2. TypeOK /\ LifeInv /\ MarksInv /\ [Next]_vars => MarksInv'
  <2> SUFFICES ASSUME TypeOK, LifeInv, MarksInv, [Next]_vars, NEW v \in VM
               PROVE  Good(v)'
    BY DEF MarksInv, EachMarkOnce
  <2>h. /\ Got(v) \in Nat /\ sent[Peer(v)] \in Nat /\ boots[x86] \in Nat
        /\ Mid(v) \in {0, 1} /\ Peer(v) \in VM
        /\ marks[v] \in Seq(Nat) /\ Len(marks[v]) \in Nat
    BY GotType DEF VM, TypeOK
  <2>i. Count(v) /\ Rising(v) /\ (Due(v) => Fresh(v))
    BY <1>0
  <2>k. ASSUME marks'[v] = marks[v], sent'[Peer(v)] = sent[Peer(v)],
               Got(v)' = Got(v), Mid(v)' = Mid(v), Due(v)' => Due(v)
        PROVE  Good(v)'
    BY <2>i, <2>k
  <2> USE DEF memory, vms, sender, receiver
  <2>1. CASE LoadX86
    <3>1. /\ ~ Due(v)' /\ sent' = sent /\ Got(v)' = Got(v) /\ Mid(v)' = Mid(v)
          /\ marks' = marks
      BY <2>1, GotKept DEF LoadX86, Reading
    <3>2. QED
      BY <3>1, <2>k
  <2>2. CASE LoadArm
    <3>1. boots'[x86] = boots[x86]
      BY <2>2, VMAssumption DEF LoadArm, TypeOK, VM
    <3>2. /\ Due(v)' = Due(v) /\ sent' = sent /\ marks' = marks
          /\ Got(v)' = Got(v) /\ Mid(v)' = Mid(v)
      BY <2>2, <3>1, GotKept DEF LoadArm, Reading
    <3>3. QED
      BY <3>2, <2>k
  <2>3. ASSUME NEW w \in VM,
               StartSend(w) \/ PollOpen(w) \/ CopyIn(w) \/ CopyOut(w)
        PROVE  Good(v)'
    <3>1. /\ sent' = sent /\ received' = received /\ marks' = marks
          /\ flag' = flag /\ boots' = boots
      BY <2>3 DEF StartSend, PollOpen, CopyIn, CopyOut
    <3>2. Reading(v)' = Reading(v)
      BY <2>3 DEF StartSend, PollOpen, CopyIn, CopyOut, Reading, TypeOK
    <3>3. Got(v)' = Got(v) /\ Mid(v)' = Mid(v) /\ Due(v)' = Due(v)
      BY <3>1, <3>2, GotKept
    <3>4. QED
      BY <3>1, <3>3, <2>k
  <2>4. ASSUME NEW w \in VM, Reset(w) PROVE Good(v)'
    <3>1. /\ sent' = sent /\ Got(v)' = Got(v) /\ flag' = flag /\ boots' = boots
      BY <2>4, GotKept DEF Reset
    <3>2. CASE v = w /\ Reading(v)
      <4>1. ~ Reading(v)'
        BY <2>4, <3>2 DEF Reset, Reading, TypeOK
      <4>2. marks'[v] = SubSeq(marks[v], 1, Len(marks[v]) - 1)
        BY <2>4, <3>2 DEF Reset, GiveUp, TypeOK
      <4>3. Len(marks[v]) > 0 /\ Len(marks[v]) = Got(v) + 1
        BY <2>h, <2>i, <3>2
      <4>4. /\ Len(marks'[v]) = Len(marks[v]) - 1
            /\ \A n \in 1 .. Len(marks[v]) - 1 : marks'[v][n] = marks[v][n]
        <5>1. /\ Len(marks[v]) > 0
                    => Len(SubSeq(marks[v], 1, Len(marks[v]) - 1)) = Len(marks[v]) - 1
              /\ \A n \in 1 .. Len(marks[v]) - 1 :
                    SubSeq(marks[v], 1, Len(marks[v]) - 1)[n] = marks[v][n]
          BY <2>h, OneLess
        <5>2. QED
          BY <4>2, <4>3, <5>1
      <4>5. \A n \in 1 .. Len(marks'[v]) :
              /\ n \in 1 .. Len(marks[v]) /\ n < Len(marks[v]) /\ marks'[v][n] = marks[v][n]
        <5>1. TAKE n \in 1 .. Len(marks'[v])
        <5>2. n \in 1 .. Len(marks[v]) - 1
          BY <4>4
        <5>3. n \in 1 .. Len(marks[v]) /\ n < Len(marks[v])
          BY <2>h, <5>2
        <5>4. QED
          BY <4>4, <5>2, <5>3
      <4>6. Len(marks[v]) \in 1 .. Len(marks[v])
        BY <2>h, <4>3
      <4>7. Count(v)'
        BY <2>h, <3>1, <4>1, <4>3, <4>4
      <4>8. Rising(v)'
        BY <2>i, <3>1, <4>5
      <4>9. Fresh(v)'
        <5>1. marks[v][Len(marks[v])] \in 1 .. sent[Peer(v)]
          BY <2>i, <4>6
        <5>2. \A n \in 1 .. Len(marks'[v]) :
                marks'[v][n] < marks[v][Len(marks[v])] /\ marks'[v][n] \in 1 .. sent[Peer(v)]
          BY <2>i, <4>5, <4>6
        <5>3. QED
          BY <2>h, <3>1, <5>1, <5>2
      <4>10. QED
        BY <4>7, <4>8, <4>9
    <3>3. CASE ~ (v = w /\ Reading(v))
      <4>1. Reading(v)' = Reading(v)
        BY <2>4, <3>3 DEF Reset, Reading, TypeOK
      <4>2. marks'[v] = marks[v]
        BY <2>4, <3>3 DEF Reset, GiveUp, TypeOK
      <4>3. QED
        BY <3>1, <4>1, <4>2, <2>k
    <3>4. QED
      BY <3>2, <3>3
  <2>5. ASSUME NEW w \in VM, WriteMark(w) PROVE Good(v)'
    <3>1. Got(v)' = Got(v) /\ Mid(v)' = Mid(v) /\ marks' = marks
      BY <2>5, GotKept DEF WriteMark, Reading
    <3>2. sent'[Peer(v)] = IF w = Peer(v) THEN sent[Peer(v)] + 1 ELSE sent[Peer(v)]
      BY <2>5 DEF WriteMark, TypeOK
    <3>3. Due(v)' => w = Peer(v)
      BY <2>5 DEF WriteMark
    <3>4. Count(v)'
      BY <2>i, <3>1
    <3>5. Rising(v)'
      <4>1. \A n \in Nat : n \in 1 .. sent[Peer(v)] => n \in 1 .. sent'[Peer(v)]
        BY <2>h, <3>2
      <4>2. \A n \in 1 .. Len(marks'[v]) : marks'[v][n] \in 1 .. sent'[Peer(v)]
        BY <2>i, <3>1, <4>1
      <4>3. QED
        BY <2>i, <3>1, <4>2
    <3>6. w = Peer(v) => Fresh(v)'
      BY <2>h, <2>i, <3>1, <3>2
    <3>7. QED
      BY <3>3, <3>4, <3>5, <3>6
  <2>6. ASSUME NEW w \in VM, PollMark(w) PROVE Good(v)'
    <3>1. sent' = sent /\ Got(v)' = Got(v) /\ flag' = flag /\ boots' = boots
      BY <2>6, GotKept DEF PollMark
    <3>2. CASE v = w
      <4>1. live[v] /\ flag = Mark(Peer(v)) /\ ~ Reading(v) /\ Reading(v)'
        BY <2>6, <3>2 DEF PollMark, TypeOK, Reading
      <4>2. boots[x86] > 0
        <5>1. CASE v = x86
          BY <4>1, <5>1 DEF LifeInv
        <5>2. CASE v = arm
          BY <2>6, <3>2, <4>1, <5>2, <2>h, VMAssumption DEF LifeInv, Peer
        <5>3. QED
          BY <5>1, <5>2 DEF VM
      <4>3. Fresh(v)
        BY <2>i, <4>1, <4>2
      <4>4. marks'[v] = Append(marks[v], sent[Peer(v)])
        BY <2>6, <3>2 DEF PollMark, TypeOK
      <4>5. /\ Len(marks'[v]) = Len(marks[v]) + 1
            /\ \A n \in 1 .. Len(marks'[v]) :
                 marks'[v][n] = IF n <= Len(marks[v]) THEN marks[v][n] ELSE sent[Peer(v)]
        BY <2>h, <4>3, <4>4, OneMore
      <4>6. Count(v)'
        BY <2>h, <2>i, <3>1, <4>1, <4>5
      <4>7. \A n \in 1 .. Len(marks'[v]) :
              IF n <= Len(marks[v])
              THEN n \in 1 .. Len(marks[v]) /\ marks'[v][n] = marks[v][n]
              ELSE n = Len(marks[v]) + 1 /\ marks'[v][n] = sent[Peer(v)]
        BY <2>h, <4>5
      <4>8. Rising(v)'
        <5>1. \A n \in 1 .. Len(marks'[v]) : marks'[v][n] \in 1 .. sent[Peer(v)]
          BY <2>h, <2>i, <4>3, <4>7
        <5>2. ASSUME NEW m \in 1 .. Len(marks'[v]), NEW n \in 1 .. Len(marks'[v]), m < n
              PROVE  marks'[v][m] < marks'[v][n]
          <6>1. m \in 1 .. Len(marks[v]) /\ marks'[v][m] = marks[v][m]
            BY <2>h, <4>5, <5>2
          <6>2. CASE n <= Len(marks[v])
            BY <2>i, <4>7, <5>2, <6>1, <6>2
          <6>3. CASE ~ (n <= Len(marks[v]))
            BY <4>3, <4>7, <6>1, <6>3
          <6>4. QED
            BY <6>2, <6>3
        <5>3. QED
          BY <3>1, <5>1, <5>2
      <4>9. QED
        BY <4>1, <4>6, <4>8
    <3>3. CASE v # w
      <4>1. Reading(v)' = Reading(v) /\ marks'[v] = marks[v]
        BY <2>6, <3>3 DEF PollMark, Reading, TypeOK
      <4>2. QED
        BY <3>1, <4>1, <2>k
    <3>4. QED
      BY <3>2, <3>3
  <2>7. ASSUME NEW w \in VM, Reopen(w) PROVE Good(v)'
    <3>1. ~ Due(v)' /\ sent' = sent /\ marks' = marks
      BY <2>7 DEF Reopen
    <3>2. Got(v)' = IF v = w THEN Got(v) + 1 ELSE Got(v)
      BY <2>7, GotOne
    <3>3. IF v = w THEN Mid(v) = 1 /\ Mid(v)' = 0 ELSE Mid(v)' = Mid(v)
      BY <2>7 DEF Reopen, TypeOK, Reading
    <3>4. Got(v)' + Mid(v)' = Got(v) + Mid(v)
      <4> HIDE DEF Mid
      <4>1. QED
        BY <2>h, <3>2, <3>3
    <3>5. QED
      BY <2>i, <3>1, <3>4
  <2>8. CASE UNCHANGED vars
    <3>1. /\ Due(v)' = Due(v) /\ Got(v)' = Got(v) /\ Mid(v)' = Mid(v)
          /\ sent' = sent /\ marks' = marks
      BY <2>8, GotKept DEF vars, Reading
    <3>2. QED
      BY <3>1, <2>k
  <2>9. QED
    BY <2>1, <2>2, <2>3, <2>4, <2>5, <2>6, <2>7, <2>8, VMAssumption
    DEF Next, Load, SendStep, RecvStep, Rest
<1>3. MarksInv => EachMarkOnce
  BY DEF MarksInv
<1>4. QED
  BY <1>1, <1>2, <1>3, SlotTypeCorrect, LifeCorrect, PTL DEF Spec

\* No VM gets ahead of the openings of the slot.
THEOREM BackpressureCorrect == Spec => []Backpressure
<1> USE MarkFacts
<1>0. arm \in VM /\ x86 \in VM /\ arm # x86 /\ VM = {arm, x86}
  BY VMAssumption DEF VM
<1>1. Init => OpenInv
  BY <1>0 DEF Init, OpenInv, Backpressure, Opened, OPEN, Got
<1>2. TypeOK /\ OpenInv /\ [Next]_vars => OpenInv'
  <2> SUFFICES ASSUME TypeOK, OpenInv, [Next]_vars PROVE OpenInv'
    OBVIOUS
  <2> USE DEF OpenInv, Backpressure, memory, vms, sender, receiver
  <2>h. /\ \A v \in VM : sent[v] \in Nat
        /\ Got(arm) \in Nat /\ Got(x86) \in Nat /\ boots[x86] \in Nat
    BY GotType, <1>0
  <2>i. Opened \in Nat
    BY <2>h DEF Opened
  <2>1. CASE LoadX86
    <3>1. Got(arm)' = Got(arm) /\ Got(x86)' = Got(x86) /\ boots'[x86] = boots[x86] + 1
      BY <2>1, <1>0, GotKept DEF LoadX86, TypeOK
    <3>2. Opened' = Opened + 1
      BY <3>1, <2>h DEF Opened
    <3>3. QED
      BY <2>1, <2>h, <2>i, <3>2 DEF LoadX86
  <2>2. CASE LoadArm
    <3>1. Got(arm)' = Got(arm) /\ Got(x86)' = Got(x86) /\ boots'[x86] = boots[x86]
      BY <2>2, <1>0, GotKept DEF LoadArm, TypeOK
    <3>2. Opened' = Opened
      BY <3>1 DEF Opened
    <3>3. QED
      BY <2>2, <2>h, <3>2 DEF LoadArm
  <2>3. ASSUME NEW v \in VM, Reopen(v) PROVE OpenInv'
    <3>1. /\ Got(arm)' = IF arm = v THEN Got(arm) + 1 ELSE Got(arm)
          /\ Got(x86)' = IF x86 = v THEN Got(x86) + 1 ELSE Got(x86)
          /\ boots' = boots
      BY <2>3, <1>0, GotOne DEF Reopen
    <3>2. Opened' = Opened + 1
      BY <1>0, <2>h, <3>1 DEF Opened
    <3>3. QED
      BY <2>3, <2>h, <2>i, <3>2 DEF Reopen
  <2>4. ASSUME NEW v \in VM, WriteMark(v) PROVE OpenInv'
    <3>1. Opened' = Opened
      BY <2>4, GotKept DEF WriteMark, Opened
    <3>2. QED
      BY <2>4, <2>h, <2>i, <3>1 DEF WriteMark, TypeOK
  <2>5. ASSUME NEW v \in VM,
               Reset(v) \/ StartSend(v) \/ PollOpen(v) \/ CopyIn(v)
               \/ PollMark(v) \/ CopyOut(v)
        PROVE  OpenInv'
    <3>1. Opened' = Opened /\ sent' = sent /\ flag' = flag
      BY <2>5, GotKept
      DEF Reset, StartSend, PollOpen, CopyIn, PollMark, CopyOut, Opened
    <3>2. \A w \in VM : spc'[w] = "mark" => spc[w] = "mark" \/ flag = OPEN
      BY <2>5 DEF Reset, StartSend, PollOpen, CopyIn, PollMark, CopyOut, TypeOK
    <3>3. QED
      BY <3>1, <3>2
  <2>6. CASE UNCHANGED vars
    BY <2>6, GotKept DEF vars, Opened
  <2>7. QED
    BY <2>1, <2>2, <2>3, <2>4, <2>5, <2>6, VMAssumption
    DEF Next, Load, SendStep, RecvStep, Rest
<1>3. OpenInv => Backpressure
  BY DEF OpenInv
<1>4. QED
  BY <1>1, <1>2, <1>3, SlotTypeCorrect, PTL DEF Spec

-----------------------------------------------------------------------------
(* One sender, no resets *)

\* The step lemma of OneInFlightCorrect.
LEMMA TurnStep ==
  ASSUME NEW s \in VM, Senders = {s}, MaxBoots = 1, TypeOK, TurnInv, [Next]_vars
  PROVE  TurnInv'
<1> DEFINE r == Peer(s)
           InFlag == IF live[x86] /\ flag = Mark(s) THEN 1 ELSE 0
<1> USE DEF memory, vms, sender, receiver
<1>h. /\ r \in VM /\ r # s /\ VM = {s, r} /\ x86 \in VM /\ Peer(r) = s
      /\ Mark(s) # OPEN /\ Mark(r) # OPEN /\ Mark(s) # Mark(r)
      /\ Got(r) \in Nat /\ sent[s] \in Nat
  BY MarkFacts, GotType, VMAssumption DEF VM
<1>i. /\ spc[r] = "idle" /\ rpc[s] = "poll"
      /\ \A v \in VM : boots[v] = IF live[v] THEN 1 ELSE 0
      /\ \A v \in VM : ~ live[v] => spc[v] = "idle" /\ rpc[v] = "poll"
      /\ ~ live[x86] => flag = 0 /\ sent[s] = 0
      /\ live[x86] => flag \in {OPEN, Mark(s)}
      /\ spc[s] \in {"mark", "copy"} => live[x86]
      /\ spc[s] = "mark" => flag = OPEN
      /\ Reading(r) => live[x86] /\ flag = Mark(s)
      /\ sent[s] = Got(r) + InFlag
  BY DEF TurnInv, OneInFlight
<1> SUFFICES
      /\ spc'[r] = "idle" /\ rpc'[s] = "poll"
      /\ \A v \in VM : boots'[v] = IF live'[v] THEN 1 ELSE 0
      /\ \A v \in VM : ~ live'[v] => spc'[v] = "idle" /\ rpc'[v] = "poll"
      /\ ~ live'[x86] => flag' = 0 /\ sent'[s] = 0
      /\ live'[x86] => flag' \in {OPEN, Mark(s)}
      /\ spc'[s] \in {"mark", "copy"} => live'[x86]
      /\ spc'[s] = "mark" => flag' = OPEN
      /\ Reading(r)' => live'[x86] /\ flag' = Mark(s)
      /\ sent'[s] = Got(r)' + InFlag'
  BY DEF TurnInv, OneInFlight
<1>1. CASE LoadX86
  <2>1. Got(r)' = Got(r) /\ InFlag = 0 /\ InFlag' = 0 /\ sent' = sent
    BY <1>1, <1>h, GotKept DEF LoadX86
  <2>2. ~ Reading(r)
    BY <1>1, <1>i DEF LoadX86
  <2>3. QED
    BY <1>1, <1>h, <1>i, <2>1, <2>2 DEF LoadX86, TypeOK, Reading
<1>2. CASE LoadArm
  <2>1. live'[x86] = live[x86]
    BY <1>2, VMAssumption DEF LoadArm, TypeOK, VM
  <2>2. Got(r)' = Got(r) /\ InFlag' = InFlag /\ sent' = sent
    BY <1>2, <2>1, GotKept DEF LoadArm
  <2>3. \A v \in VM : boots'[v] = IF live'[v] THEN 1 ELSE 0
    BY <1>2, <1>i DEF LoadArm, TypeOK, VM
  <2>4. QED
    BY <1>2, <1>h, <1>i, <2>1, <2>2, <2>3 DEF LoadArm, TypeOK, Reading
<1>3. ASSUME NEW v \in VM PROVE ~ Reset(v)
  BY <1>i DEF Reset
<1>4. ASSUME NEW v \in VM, StartSend(v) \/ PollOpen(v) \/ CopyIn(v), v = s
      PROVE  TurnInv'
  <2>1. Got(r)' = Got(r) /\ InFlag' = InFlag /\ sent' = sent
    BY <1>4, GotKept DEF StartSend, PollOpen, CopyIn
  <2>2. spc'[r] = spc[r] /\ (spc'[s] # spc[s] => live[s])
    BY <1>4, <1>h DEF StartSend, PollOpen, CopyIn, TypeOK
  <2>3. (spc'[s] \in {"mark", "copy"} => live[x86]) /\ (spc'[s] = "mark" => flag = OPEN)
    <3>1. CASE PollOpen(s)
      <4>1. live[x86]
        BY <3>1, <1>i DEF PollOpen, OPEN
      <4>2. QED
        BY <3>1, <4>1 DEF PollOpen
    <3>2. CASE StartSend(s)
      BY <3>2, <1>i DEF StartSend, TypeOK
    <3>3. CASE CopyIn(s)
      BY <3>3, <1>i DEF CopyIn, TypeOK
    <3>4. QED
      BY <1>4, <3>1, <3>2, <3>3
  <2>4. live' = live /\ boots' = boots /\ flag' = flag /\ rpc' = rpc
    BY <1>4 DEF StartSend, PollOpen, CopyIn
  <2>5. \A w \in VM : ~ live[w] => spc'[w] = "idle"
    BY <1>h, <1>i, <2>2
  <2>6. QED
    BY <1>h, <1>i, <2>1, <2>2, <2>3, <2>4, <2>5 DEF Reading, TurnInv, OneInFlight
<1>5. ASSUME NEW v \in VM, WriteMark(v), v = s PROVE TurnInv'
  <2>1. /\ live[s] /\ spc[s] = "mark" /\ live[x86] /\ flag = OPEN
        /\ flag' = Mark(s) /\ live' = live /\ boots' = boots /\ rpc' = rpc
        /\ sent'[s] = sent[s] + 1 /\ spc'[s] = "copy" /\ spc'[r] = spc[r]
        /\ ~ Reading(r)
    BY <1>5, <1>h, <1>i DEF WriteMark, TypeOK
  <2>2. Got(r)' = Got(r) /\ InFlag = 0 /\ InFlag' = 1
    BY <1>5, <1>h, <2>1, GotKept DEF WriteMark
  <2>3. \A w \in VM : ~ live[w] => spc'[w] = "idle"
    BY <1>h, <1>i, <2>1
  <2>4. QED
    BY <1>h, <1>i, <2>1, <2>2, <2>3 DEF Reading, TurnInv, OneInFlight
<1>6. ASSUME NEW v \in VM, PollMark(v) \/ CopyOut(v) PROVE TurnInv'
  <2>1. v = r
    <3>1. CASE PollMark(s)
      <4>1. live[x86]
        <5>1. CASE s = x86
          BY <3>1, <5>1 DEF PollMark
        <5>2. CASE s = arm
          BY <3>1, <5>2, <1>i, MarkFacts, VMAssumption DEF PollMark, Peer
        <5>3. QED
          BY <5>1, <5>2 DEF VM
      <4>2. QED
        BY <3>1, <4>1, <1>h, <1>i DEF PollMark
    <3>2. QED
      BY <1>6, <3>1, <1>h, <1>i DEF CopyOut
  <2>2. Got(r)' = Got(r) /\ InFlag' = InFlag /\ sent' = sent
    BY <1>6, GotKept DEF PollMark, CopyOut
  <2>3. Reading(r)' => live[x86] /\ flag = Mark(s)
    <3>1. CASE PollMark(r)
      <4>1. flag = Mark(s) /\ live[r]
        BY <3>1, <1>h DEF PollMark
      <4>2. live[x86]
        <5>1. CASE r = x86
          BY <4>1, <5>1
        <5>2. CASE r = arm
          BY <4>1, <5>2, <1>h, <1>i, MarkFacts DEF VM
        <5>3. QED
          BY <5>1, <5>2, <1>h DEF VM
      <4>3. QED
        BY <4>1, <4>2
    <3>2. CASE CopyOut(r)
      BY <3>2, <1>i DEF CopyOut, Reading
    <3>3. QED
      BY <1>6, <2>1, <3>1, <3>2
  <2>4. /\ live' = live /\ boots' = boots /\ flag' = flag /\ spc' = spc
        /\ rpc'[s] = rpc[s] /\ live[r]
    BY <1>6, <2>1, <1>h DEF PollMark, CopyOut, TypeOK
  <2>5. QED
    BY <1>h, <1>i, <2>2, <2>3, <2>4 DEF TurnInv, OneInFlight
<1>7. ASSUME NEW v \in VM, Reopen(v) PROVE TurnInv'
  <2>1. v = r
    BY <1>7, <1>h, <1>i DEF Reopen
  <2>2. /\ live[x86] /\ flag = Mark(s) /\ flag' = OPEN
        /\ live' = live /\ boots' = boots /\ spc' = spc /\ sent' = sent
        /\ rpc'[r] = "poll" /\ rpc'[s] = rpc[s] /\ spc[s] # "mark"
    BY <1>7, <2>1, <1>h, <1>i DEF Reopen, TypeOK, Reading
  <2>3. Got(r)' = Got(r) + 1 /\ InFlag = 1 /\ InFlag' = 0
    BY <1>7, <2>1, <2>2, <1>h, GotOne
  <2>4. QED
    BY <1>h, <1>i, <2>2, <2>3 DEF Reading, TurnInv, OneInFlight
<1>8. CASE UNCHANGED vars
  <2>1. Got(r)' = Got(r) /\ InFlag' = InFlag
    BY <1>8, GotKept DEF vars
  <2>2. QED
    BY <1>8, <1>i, <2>1 DEF vars, Reading
<1>9. ASSUME NEW v \in VM, PollOpen(v) \/ WriteMark(v) \/ CopyIn(v) PROVE v = s
  BY <1>9, <1>h, <1>i DEF PollOpen, WriteMark, CopyIn
<1>10. QED
  BY <1>1, <1>2, <1>3, <1>4, <1>5, <1>6, <1>7, <1>8, <1>9
  DEF Next, Load, SendStep, RecvStep, Rest, TurnInv, OneInFlight

\* With one sender and no resets no message is lost or overtaken, for bodies of
\* any length: at most one is marked and not yet received.
THEOREM OneInFlightCorrect == ASSUME OneWay PROVE Spec => []OneInFlight
<1> PICK s \in VM : Senders = {s} /\ MaxBoots = 1
  BY DEF OneWay
<1>1. Init => TurnInv
  BY MarkFacts DEF Init, TurnInv, OneInFlight, Got, Reading, VM
<1>2. TypeOK /\ TurnInv /\ [Next]_vars => TurnInv'
  BY TurnStep
<1>3. TurnInv => OneInFlight
  BY DEF TurnInv
<1>4. QED
  BY <1>1, <1>2, <1>3, SlotTypeCorrect, PTL DEF Spec

\* The step lemma of StaleByOneCorrect.
LEMMA WordsStep ==
  ASSUME NEW s \in VM, Senders = {s}, MaxBoots = 1,
         TypeOK, TurnInv, WordsInv, [Next]_vars
  PROVE  WordsInv'
<1> DEFINE r == Peer(s)
           Old == Nth(s, sent[s] - 1)
           New == Nth(s, sent[s])
           Body(i) == IF spc[s] = "copy" /\ i >= sw[s] THEN Old ELSE New
           Copied(i) == rpc[r] = "open" \/ (rpc[r] = "copy" /\ i < rw[r])
           Start == /\ IF spc[s] = "copy" THEN sent[s] > 0 ELSE sw[s] = 1
                    /\ rpc[r] # "copy" => rw[r] = 1
           Bodies == \A i \in WordIndex : body[i] = Body(i)
           Buffers == \A i \in WordIndex : Copied(i) => rbuf[r][i] \in {Old, New}
<1> USE DEF memory, vms, sender, receiver
<1>0. WordsInv <=> Start /\ Bodies /\ Buffers /\ StaleByOne
  BY DEF WordsInv
<1>0a. Start' /\ Bodies' /\ Buffers' /\ StaleByOne' => WordsInv'
  BY DEF WordsInv
<1>h. /\ r \in VM /\ r # s /\ VM = {s, r} /\ Peer(r) = s
      /\ Got(r) \in Nat /\ sent[s] \in Nat
      /\ sw[s] \in WordIndex /\ rw[r] \in WordIndex
      /\ body \in [WordIndex -> Word] /\ rbuf[r] \in [WordIndex -> Word]
      /\ WordIndex \subseteq Nat /\ 1 \in WordIndex
      /\ \A i \in WordIndex : 1 <= i /\ i <= Words
      /\ Words \in Nat
  <2>1. r \in VM /\ r # s /\ VM = {s, r} /\ Peer(r) = s
    BY MarkFacts DEF VM
  <2>2. Got(r) \in Nat /\ sent[s] \in Nat
    BY <2>1, GotType
  <2>3. /\ sw[s] \in WordIndex /\ rw[r] \in WordIndex
        /\ body \in [WordIndex -> Word] /\ rbuf[r] \in [WordIndex -> Word]
    BY <2>1 DEF TypeOK
  <2>4. /\ WordIndex \subseteq Nat /\ 1 \in WordIndex /\ Words \in Nat
        /\ \A i \in WordIndex : 1 <= i /\ i <= Words
    BY WordsAssumption DEF WordIndex
  <2>5. QED
    BY <2>1, <2>2, <2>3, <2>4
<1>i. /\ spc[r] = "idle" /\ rpc[s] = "poll"
      /\ spc[s] = "mark" => flag = OPEN
      /\ Reading(r) => flag = Mark(s) /\ live[x86]
      /\ sent[s] = Got(r) + (IF live[x86] /\ flag = Mark(s) THEN 1 ELSE 0)
  BY DEF TurnInv, OneInFlight
<1>1. ASSUME UNCHANGED <<body, sent, sw, rw, rbuf, received>>,
             spc'[s] = "copy" <=> spc[s] = "copy", rpc' = rpc
      PROVE  WordsInv'
  <2>1. Start' /\ Bodies' /\ Buffers'
    BY <1>0, <1>1
  <2>2. StaleByOne'
    BY <1>0, <1>1 DEF StaleByOne, Got
  <2>3. QED
    BY <1>0a, <2>1, <2>2
<1>2. CASE Load
  BY <1>1, <1>2 DEF Load, LoadX86, LoadArm
<1>3. ASSUME NEW v \in VM, v = s, StartSend(v) \/ PollOpen(v) PROVE WordsInv'
  BY <1>1, <1>3 DEF StartSend, PollOpen, TypeOK
<1>4. ASSUME NEW v \in VM, v = s, WriteMark(v) PROVE WordsInv'
  <2>1. /\ spc[s] = "mark" /\ spc'[s] = "copy" /\ sent'[s] = sent[s] + 1
        /\ UNCHANGED <<body, sw, rpc, rw, rbuf, received>>
    BY <1>4 DEF WriteMark, TypeOK
  <2>2. rpc[r] = "poll"
    BY <1>h, <1>i, <2>1, MarkFacts DEF Reading, TypeOK
  <2>3. Start'
    BY <1>0, <1>h, <2>1, <2>2
  <2>4. Old' = New
    BY <1>h, <2>1 DEF Nth
  <2>5. Bodies'
    BY <1>0, <1>h, <2>1, <2>4
  <2>6. Buffers'
    BY <2>1, <2>2
  <2>7. StaleByOne'
    BY <1>0, <2>1 DEF StaleByOne, Got
  <2>8. QED
    BY <1>0a, <2>3, <2>5, <2>6, <2>7
<1>5. ASSUME NEW v \in VM, v = s, CopyIn(v) PROVE WordsInv'
  <2>1. /\ spc[s] = "copy" /\ sent[s] > 0
        /\ body' = [body EXCEPT ![sw[s]] = <<s, sent[s]>>]
        /\ sw'[s] = IF sw[s] = Words THEN 1 ELSE sw[s] + 1
        /\ spc'[s] = IF sw[s] = Words THEN "idle" ELSE "copy"
        /\ UNCHANGED <<sent, rpc, rw, rbuf, received>>
    BY <1>0, <1>5 DEF CopyIn, TypeOK
  <2>2. Start'
    BY <1>0, <2>1
  <2>3. Bodies'
    <3> SUFFICES ASSUME NEW i \in WordIndex PROVE body'[i] = Body(i)'
      OBVIOUS
    <3>1. New = <<s, sent[s]>> /\ New' = New /\ Old' = Old
      BY <1>h, <2>1 DEF Nth
    <3>2. body[i] = Body(i)
      BY <1>0
    <3>3. i \in Nat /\ sw[s] \in Nat /\ i <= Words
      BY <1>h
    <3> HIDE DEF Old, New
    <3>4. CASE i = sw[s]
      <4>1. body'[i] = New
        BY <1>h, <2>1, <3>1, <3>4
      <4>2. Body(i)' = New
        BY <1>h, <2>1, <3>1, <3>3, <3>4
      <4>3. QED
        BY <4>1, <4>2
    <3>5. CASE i # sw[s]
      <4>1. body'[i] = body[i]
        BY <1>h, <2>1, <3>5
      <4>2. Body(i)' = Body(i)
        BY <1>h, <2>1, <3>1, <3>3, <3>5
      <4>3. QED
        BY <3>2, <4>1, <4>2
    <3>6. QED
      BY <3>4, <3>5
  <2>4. Buffers'
    BY <1>0, <2>1
  <2>5. StaleByOne'
    BY <1>0, <2>1 DEF StaleByOne, Got
  <2>6. QED
    BY <1>0a, <2>2, <2>3, <2>4, <2>5
<1>6. ASSUME NEW v \in VM, v = r, PollMark(v) PROVE WordsInv'
  <2>1. /\ rpc[r] = "poll" /\ rpc'[r] = "copy"
        /\ UNCHANGED <<body, sent, spc, sw, rw, rbuf, received>>
    BY <1>6 DEF PollMark, TypeOK
  <2>2. Start' /\ Bodies'
    BY <1>0, <2>1
  <2>3. Buffers'
    BY <1>0, <1>h, <2>1
  <2>4. StaleByOne'
    BY <1>0, <2>1 DEF StaleByOne, Got
  <2>5. QED
    BY <1>0a, <2>2, <2>3, <2>4
<1>7. ASSUME NEW v \in VM, v = r, CopyOut(v) PROVE WordsInv'
  <2>1. /\ rpc[r] = "copy"
        /\ rbuf'[r] = [rbuf[r] EXCEPT ![rw[r]] = body[rw[r]]]
        /\ rw'[r] = IF rw[r] = Words THEN 1 ELSE rw[r] + 1
        /\ rpc'[r] = IF rw[r] = Words THEN "open" ELSE "copy"
        /\ UNCHANGED <<body, sent, spc, sw, received>>
    BY <1>7 DEF CopyOut, TypeOK
  <2>2. Start' /\ Bodies'
    BY <1>0, <2>1
  <2>3. Buffers'
    <3> SUFFICES ASSUME NEW i \in WordIndex, Copied(i)'
                 PROVE  rbuf'[r][i] \in {Old, New}
      BY <2>1
    <3>1. CASE i = rw[r]
      BY <1>0, <1>h, <2>1, <3>1
    <3>2. CASE i # rw[r]
      <4>1. i < rw[r]
        <5>1. i \in Nat /\ rw[r] \in Nat /\ rw[r] <= Words /\ i <= Words
          BY <1>h
        <5>2. CASE rw[r] = Words
          BY <5>1, <5>2, <3>2
        <5>3. CASE rw[r] # Words
          <6>1. i < rw[r] + 1
            BY <2>1, <5>3
          <6>2. QED
            BY <5>1, <6>1, <3>2
        <5>4. QED
          BY <5>2, <5>3
      <4>2. rbuf[r][i] \in {Old, New}
        BY <1>0, <2>1, <4>1
      <4>3. QED
        BY <1>h, <2>1, <3>2, <4>2
    <3>3. QED
      BY <3>1, <3>2
  <2>4. StaleByOne'
    BY <1>0, <2>1 DEF StaleByOne, Got
  <2>5. QED
    BY <1>0a, <2>2, <2>3, <2>4
<1>8. ASSUME NEW v \in VM, v = r, Reopen(v) PROVE WordsInv'
  <2>1. /\ rpc[r] = "open" /\ rpc'[r] = "poll"
        /\ received'[r] = Append(received[r], rbuf[r])
        /\ received[r] \in Seq([WordIndex -> Word])
        /\ UNCHANGED <<body, sent, spc, sw, rw>>
    BY <1>8 DEF Reopen, TypeOK
  <2>2. Start' /\ Bodies' /\ Buffers'
    BY <1>0, <2>1
  <2>3. StaleByOne'
    <3>1. Got(r)' = Got(r) + 1
      BY <1>8, GotOne
    <3>2. sent[s] = Got(r) + 1
      BY <1>i, <2>1 DEF Reading
    <3> SUFFICES ASSUME NEW n \in 1 .. Got(r) + 1, NEW i \in WordIndex
                 PROVE  received'[r][n][i] \in {Nth(s, n - 1), Nth(s, n)}
      BY <3>1 DEF StaleByOne
    <3>3. CASE n = Got(r) + 1
      <4>1. received'[r][n] = rbuf[r]
        BY <2>1, <3>3 DEF Got
      <4>2. rbuf[r][i] \in {Old, New}
        BY <1>0, <2>1
      <4>3. QED
        BY <4>1, <4>2, <3>2, <3>3
    <3>4. CASE n \in 1 .. Got(r)
      <4>1. received'[r][n] = received[r][n]
        BY <2>1, <3>4 DEF Got
      <4>2. received[r][n][i] \in {Nth(s, n - 1), Nth(s, n)}
        BY <1>0, <3>4 DEF StaleByOne
      <4>3. QED
        BY <4>1, <4>2
    <3>5. QED
      BY <1>h, <3>3, <3>4
  <2>4. QED
    BY <1>0a, <2>2, <2>3
<1>9. CASE UNCHANGED vars
  BY <1>1, <1>9 DEF vars
<1>10. ASSUME NEW v \in VM PROVE ~ Reset(v)
  BY DEF TurnInv, Reset
<1>11. ASSUME NEW v \in VM, PollOpen(v) \/ WriteMark(v) \/ CopyIn(v) PROVE v = s
  BY <1>11, <1>h, <1>i DEF PollOpen, WriteMark, CopyIn
<1>12. ASSUME NEW v \in VM, CopyOut(v) \/ Reopen(v) PROVE v = r
  BY <1>12, <1>h, <1>i DEF CopyOut, Reopen
<1>13. ~ PollMark(s)
  <2>1. SUFFICES ASSUME PollMark(s) PROVE FALSE
    OBVIOUS
  <2>2. live[s] /\ flag = Mark(r)
    BY <2>1 DEF PollMark
  <2>3. /\ ~ live[x86] => flag = 0
        /\ live[x86] => flag \in {OPEN, Mark(s)}
    BY DEF TurnInv
  <2>4. live[x86]
    BY <1>h, <2>2, <2>3, MarkFacts DEF VM
  <2>5. QED
    BY <1>h, <2>2, <2>3, <2>4, MarkFacts
<1>14. QED
  BY <1>2, <1>3, <1>4, <1>5, <1>6, <1>7, <1>8, <1>9, <1>10, <1>11, <1>12, <1>13, <1>h
  DEF Next, SendStep, RecvStep, Rest

\* With one sender and no resets a received message is never more than one
\* message behind, for bodies of any length and any interleaving of the copies.
THEOREM StaleByOneCorrect == ASSUME OneWay PROVE Spec => []StaleByOne
<1> PICK s \in VM : Senders = {s} /\ MaxBoots = 1
  BY DEF OneWay
<1>1. Init => TurnInv
  BY MarkFacts DEF Init, TurnInv, OneInFlight, Got, Reading, VM
<1>2. Init => WordsInv
  BY MarkFacts DEF Init, WordsInv, StaleByOne, Got, Nth, NoWords, VM
<1>3. TypeOK /\ TurnInv /\ [Next]_vars => TurnInv'
  BY TurnStep
<1>4. TypeOK /\ TurnInv /\ WordsInv /\ [Next]_vars => WordsInv'
  BY WordsStep
<1>5. WordsInv => StaleByOne
  BY DEF WordsInv
<1>6. QED
  BY <1>1, <1>2, <1>3, <1>4, <1>5, SlotTypeCorrect, PTL DEF Spec
=============================================================================
