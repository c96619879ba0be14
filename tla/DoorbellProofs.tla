--------------------------- MODULE DoorbellProofs ---------------------------
(***************************************************************************)
(* Proofs about DoorbellLayer, for any number of handles (two at least),   *)
(* any number of words and of messages, and wherever the DEST_IDs lead.    *)
(***************************************************************************)
EXTENDS DoorbellLayer, TLAPS

LEMMA VectorFacts ==
  /\ ReadVector(arm) = 0 /\ ReadVector(x86) = 1
  /\ WriteVector(arm) = 3 /\ WriteVector(x86) = 2
  /\ \A v \in VM : ReadVector(v) \in ReadVectors /\ WriteVector(v) \in WriteVectors
  /\ \A r \in ReadVectors : r = 0 \/ r = 1
  /\ \A q \in WriteVectors : q = 2 \/ q = 3
  /\ \A r \in ReadVectors : 3 - r \in WriteVectors
BY DoorbellVMs DEF VM, ReadVector, WriteVector, ReadVectors, WriteVectors

LEMMA DoorbellFacts ==
  /\ arm \in VM /\ x86 \in VM /\ arm # x86 /\ \A v \in VM : v = arm \/ v = x86
  /\ 1 \in WordIndex /\ \A w \in WordIndex : w # Words => w + 1 \in WordIndex
  /\ 0 \in Handles /\ 1 \in Handles /\ Free \notin Handles
  /\ ReadVectors \subseteq Handles
BY DoorbellVMs, DoorbellHandles, DoorbellBounds
DEF VM, WordIndex, Handles, ReadVectors

LEMMA WordNat ==
  /\ Words \in WordIndex /\ \A w \in WordIndex : w \in Nat /\ 1 <= w /\ w <= Words
BY DoorbellBounds DEF WordIndex

LEMMA WordFacts ==
  /\ NoWords \in [WordIndex -> Word]
  /\ \A v \in VM, k \in Handles, n \in Nat : <<v, k, n>> \in Word
BY DEF NoWords, Word

LEMMA CountOne ==
  ASSUME NEW f \in [VM -> Nat], NEW v \in VM
  PROVE  [f EXCEPT ![v] = @ + 1] \in [VM -> Nat]
OBVIOUS

LEMMA LogOne ==
  ASSUME NEW f \in [VM -> Seq(Handles \X Nat)], NEW v \in VM, NEW e \in Handles \X Nat
  PROVE  [f EXCEPT ![v] = Append(@, e)] \in [VM -> Seq(Handles \X Nat)]
OBVIOUS

LEMMA LenAppend ==
  ASSUME NEW s \in Seq(Handles \X Nat), NEW e \in Handles \X Nat
  PROVE  Len(Append(s, e)) = Len(s) + 1 /\ Append(s, e)[Len(Append(s, e))] = e
OBVIOUS

LEMMA WordAt ==
  ASSUME NEW f \in [VM -> [ReadVectors -> [WordIndex -> Word]]], NEW v \in VM,
         NEW r \in ReadVectors, NEW x \in WordIndex, NEW e, NEW g,
         g = [f EXCEPT ![v][r][x] = e]
  PROVE  \A u \in VM, s \in ReadVectors, w \in WordIndex :
           g[u][s][w] = IF u = v /\ s = r /\ w = x THEN e ELSE f[u][s][w]
OBVIOUS

LEMMA WordOne ==
  ASSUME NEW f \in [VM -> [ReadVectors -> [WordIndex -> Word]]], NEW v \in VM,
         NEW r \in ReadVectors, NEW w \in WordIndex, NEW e \in Word
  PROVE  [f EXCEPT ![v][r][w] = e] \in [VM -> [ReadVectors -> [WordIndex -> Word]]]
OBVIOUS

-----------------------------------------------------------------------------
(* Types *)

\* TypeOK without the bodies read: that a reader knows which message it answers
\* takes MeetInv, below.
StateTypeOK ==
  /\ dest \in [VM -> VM \cup {Nowhere}]
  /\ live \in [VM -> BOOLEAN] /\ boots \in [VM -> Nat]
  /\ body \in [Handles -> [WordIndex -> Word]]
  /\ lock \in [VM -> Handles \cup {Free}]
  /\ spc \in [VM -> [Handles -> {"idle", "copy", "lock", "ring"}]]
  /\ sw \in [VM -> [Handles -> WordIndex]]
  /\ sent \in [VM -> [Handles -> Nat]]
  /\ pending \in [VM -> SUBSET (ReadVectors \cup WriteVectors)]
  /\ hpc \in [VM -> [ReadVectors -> {"off", "read", "done", "ring"}]]
  /\ hw \in [VM -> [ReadVectors -> WordIndex]]
  /\ hbuf \in [VM -> [ReadVectors -> [WordIndex -> Word]]]
  /\ rung \in [VM -> Seq(Handles \X Nat)]
  /\ heard \in [VM -> Nat] /\ answered \in [VM -> Nat]

\* Every variable but received keeps its type: no thread or handler runs past
\* a body.
LEMMA StateTypes == Spec => []StateTypeOK
<1> USE DoorbellFacts, VectorFacts, WordFacts
<1>1. Init => StateTypeOK
  BY DEF Init, StateTypeOK
<1>2. StateTypeOK /\ [Next]_vars => StateTypeOK'
  <2> SUFFICES ASSUME StateTypeOK, [Next]_vars PROVE StateTypeOK'
    OBVIOUS
  <2> USE DEF StateTypeOK, life, sender, handler, history
  <2>1. ASSUME NEW v \in VM, Load(v) PROVE StateTypeOK'
    <3>1. live' \in [VM -> BOOLEAN]
      BY <2>1 DEF Load
    <3>2. boots' \in [VM -> Nat]
      BY <2>1, CountOne DEF Load
    <3>3. QED
      BY <2>1, <3>1, <3>2 DEF Load
  <2>2. CASE Reset
    <3>1. live' \in [VM -> BOOLEAN]
      BY <2>2 DEF Reset
    <3>2. lock' \in [VM -> Handles \cup {Free}]
      BY <2>2 DEF Reset
    <3>3. spc' \in [VM -> [Handles -> {"idle", "copy", "lock", "ring"}]]
      BY <2>2 DEF Reset
    <3>4. sw' \in [VM -> [Handles -> WordIndex]]
      BY <2>2 DEF Reset
    <3>5. pending' \in [VM -> SUBSET (ReadVectors \cup WriteVectors)]
      BY <2>2 DEF Reset
    <3>6. hpc' \in [VM -> [ReadVectors -> {"off", "read", "done", "ring"}]]
      BY <2>2 DEF Reset
    <3>7. hw' \in [VM -> [ReadVectors -> WordIndex]]
      BY <2>2 DEF Reset
    <3>8. NoWords \in [WordIndex -> Word]
      OBVIOUS
    <3>9. hbuf' \in [VM -> [ReadVectors -> [WordIndex -> Word]]]
      BY <2>2, <3>8 DEF Reset
    <3>10. QED
      BY <2>2, <3>1, <3>2, <3>3, <3>4, <3>5, <3>6, <3>7, <3>8, <3>9 DEF Reset
  <2>3. ASSUME NEW k \in Handles, SendX86(k) PROVE StateTypeOK'
    <3>1. spc' \in [VM -> [Handles -> {"idle", "copy", "lock", "ring"}]]
      BY <2>3 DEF SendX86
    <3>2. sent[x86][k] + 1 \in Nat
      BY SMTT(30)
    <3>3. sent' \in [VM -> [Handles -> Nat]]
      BY <2>3, <3>2 DEF SendX86
    <3>4. QED
      BY <2>3, <3>1, <3>2, <3>3 DEF SendX86
  <2>4. ASSUME NEW k \in Handles, SendArm(k) PROVE StateTypeOK'
    <3>1. lock' \in [VM -> Handles \cup {Free}]
      BY <2>4 DEF SendArm
    <3>2. spc' \in [VM -> [Handles -> {"idle", "copy", "lock", "ring"}]]
      BY <2>4 DEF SendArm
    <3>3. sent[arm][k] + 1 \in Nat
      BY SMTT(30)
    <3>4. sent' \in [VM -> [Handles -> Nat]]
      BY <2>4, <3>3 DEF SendArm
    <3>5. QED
      BY <2>4, <3>1, <3>2, <3>3, <3>4 DEF SendArm
  <2>5. ASSUME NEW v \in VM, NEW k \in Handles, CopyIn(v, k) PROVE StateTypeOK'
    <3>1. <<v, k, sent[v][k]>> \in Word
      OBVIOUS
    <3>2. body' \in [Handles -> [WordIndex -> Word]]
      BY <2>5, <3>1 DEF CopyIn
    <3>3. (IF sw[v][k] = Words THEN 1 ELSE sw[v][k] + 1) \in WordIndex
      OBVIOUS
    <3>4. sw' \in [VM -> [Handles -> WordIndex]]
      BY <2>5, <3>3 DEF CopyIn
    <3>5. spc' \in [VM -> [Handles -> {"idle", "copy", "lock", "ring"}]]
      BY <2>5 DEF CopyIn
    <3>6. QED
      BY <2>5, <3>1, <3>2, <3>3, <3>4, <3>5 DEF CopyIn
  <2>6. ASSUME NEW v \in VM, NEW k \in Handles, Lock(v, k) PROVE StateTypeOK'
    BY <2>6 DEF Lock
  <2>7. ASSUME NEW v \in VM, NEW k \in Handles, RingPeer(v, k) PROVE StateTypeOK'
    <3>1. ReadVector(v) \in ReadVectors \cup WriteVectors
      OBVIOUS
    <3>2. pending' \in [VM -> SUBSET (ReadVectors \cup WriteVectors)]
      BY ZenonT(60), <2>7, <3>1 DEF RingPeer, Rings
    <3>3. <<k, sent[v][k]>> \in Handles \X Nat
      OBVIOUS
    <3>4. rung' \in [VM -> Seq(Handles \X Nat)]
      BY <2>7, <3>3, LogOne DEF RingPeer, Rings
    <3>5. spc' \in [VM -> [Handles -> {"idle", "copy", "lock", "ring"}]]
      BY <2>7 DEF RingPeer, Rings
    <3>6. QED
      BY <2>7, <3>1, <3>2, <3>3, <3>4, <3>5 DEF RingPeer
  <2>8. ASSUME NEW v \in VM, NEW r \in ReadVectors, TakeInterrupt(v, r) PROVE StateTypeOK'
    BY <2>8 DEF TakeInterrupt
  <2>9. ASSUME NEW v \in VM, NEW r \in ReadVectors, ReadBody(v, r) PROVE StateTypeOK'
    <3>1. hbuf' \in [VM -> [ReadVectors -> [WordIndex -> Word]]]
      <4>1. hbuf' = [hbuf EXCEPT ![v][r][hw[v][r]] = body[r][hw[v][r]]]
        BY <2>9 DEF ReadBody
      <4>2. body[r][hw[v][r]] \in Word /\ hw[v][r] \in WordIndex
        OBVIOUS
      <4>3. QED
        BY <4>1, <4>2, WordOne
    <3>2. (IF hw[v][r] = Words THEN 1 ELSE hw[v][r] + 1) \in WordIndex
      OBVIOUS
    <3>3. hw' \in [VM -> [ReadVectors -> WordIndex]]
      BY <2>9, <3>2 DEF ReadBody
    <3>4. hpc' \in [VM -> [ReadVectors -> {"off", "read", "done", "ring"}]]
      BY <2>9 DEF ReadBody
    <3>5. QED
      BY <2>9, <3>1, <3>2, <3>3, <3>4 DEF ReadBody
  <2>10. ASSUME NEW v \in VM, NEW r \in ReadVectors, Consume(v, r) PROVE StateTypeOK'
    <3>1. heard' \in [VM -> Nat]
      BY <2>10, CountOne DEF Consume
    <3>2. NoWords \in [WordIndex -> Word]
      OBVIOUS
    <3>3. hbuf' \in [VM -> [ReadVectors -> [WordIndex -> Word]]]
      BY <2>10, <3>2 DEF Consume
    <3>4. hpc' \in [VM -> [ReadVectors -> {"off", "read", "done", "ring"}]]
      BY <2>10 DEF Consume
    <3>5. QED
      BY <2>10, <3>1, <3>2, <3>3, <3>4 DEF Consume
  <2>11. ASSUME NEW v \in VM, NEW r \in ReadVectors, RingBack(v, r) PROVE StateTypeOK'
    <3>1. 3 - r \in ReadVectors \cup WriteVectors
      OBVIOUS
    <3>2. pending' \in [VM -> SUBSET (ReadVectors \cup WriteVectors)]
      BY ZenonT(60), <2>11, <3>1 DEF RingBack, Rings
    <3>3. hpc' \in [VM -> [ReadVectors -> {"off", "read", "done", "ring"}]]
      BY <2>11 DEF RingBack, Rings
    <3>4. QED
      BY <2>11, <3>1, <3>2, <3>3 DEF RingBack
  <2>12. ASSUME NEW v \in VM, NEW q \in WriteVectors, WriteHandler(v, q) PROVE StateTypeOK'
    <3>1. pending' \in [VM -> SUBSET (ReadVectors \cup WriteVectors)]
      BY <2>12 DEF WriteHandler
    <3>2. lock' \in [VM -> Handles \cup {Free}]
      BY <2>12 DEF WriteHandler
    <3>3. answered' \in [VM -> Nat]
      <4>1. answered' = answered \/ answered' = [answered EXCEPT ![v] = @ + 1]
        BY <2>12 DEF WriteHandler
      <4>2. [answered EXCEPT ![v] = @ + 1] \in [VM -> Nat]
        BY CountOne
      <4>3. QED
        BY <4>1, <4>2
    <3>4. QED
      BY <2>12, <3>1, <3>2, <3>3 DEF WriteHandler
  <2>13. CASE UNCHANGED vars
    BY <2>13 DEF vars
  <2>14. QED
    BY <2>1, <2>2, <2>3, <2>4, <2>5, <2>6, <2>7, <2>8, <2>9, <2>10, <2>11,
    <2>12, <2>13
    DEF Next, SendStep, ReadHandler
<1>3. QED
  BY <1>1, <1>2, PTL DEF Spec

-----------------------------------------------------------------------------
(* What each step does to the control state, point by point *)

LEMMA LoadEffect ==
  ASSUME StateTypeOK, NEW v \in VM, Load(v)
  PROVE  /\ \A u \in VM : live'[u] <=> live[u] \/ u = v
         /\ UNCHANGED <<dest, spc, lock, pending, hpc, rung, heard, answered>>
BY DoorbellFacts, VectorFacts DEF StateTypeOK, Load, life, sender, handler, history

LEMMA ResetEffect ==
  ASSUME StateTypeOK, Reset
  PROVE  /\ live[arm] /\ \A u \in VM : live'[u] <=> live[u] /\ u # arm
         /\ \A u \in VM, j \in Handles :
              spc'[u][j] = IF u = arm THEN "idle" ELSE spc[u][j]
         /\ \A u \in VM : lock'[u] = IF u = arm THEN Free ELSE lock[u]
         /\ \A u \in VM, p \in 0 .. 3 : p \in pending'[u] <=> p \in pending[u] /\ u # arm
         /\ \A u \in VM, s \in ReadVectors :
              hpc'[u][s] = IF u = arm THEN "off" ELSE hpc[u][s]
         /\ UNCHANGED <<dest, rung, heard, answered>>
BY ZenonT(60), DoorbellFacts, VectorFacts DEF StateTypeOK, Reset, life, sender, handler, history

LEMMA SendX86Effect ==
  ASSUME StateTypeOK, NEW k \in Handles, SendX86(k)
  PROVE  /\ live[x86] /\ spc[x86][k] = "idle"
         /\ \A u \in VM, j \in Handles :
              spc'[u][j] = IF u = x86 /\ j = k THEN "copy" ELSE spc[u][j]
         /\ UNCHANGED <<dest, live, lock, pending, hpc, rung, heard, answered>>
BY DoorbellFacts, VectorFacts DEF StateTypeOK, SendX86, life, sender, handler, history

LEMMA SendArmEffect ==
  ASSUME StateTypeOK, NEW k \in Handles, SendArm(k)
  PROVE  /\ lock[arm] = Free
         /\ \A u \in VM, j \in Handles :
              spc'[u][j] = IF u = arm /\ j = k THEN "copy" ELSE spc[u][j]
         /\ \A u \in VM : lock'[u] = IF u = arm THEN k ELSE lock[u]
         /\ UNCHANGED <<dest, live, pending, hpc, rung, heard, answered>>
BY ZenonT(60), DoorbellFacts, VectorFacts DEF StateTypeOK, SendArm, life, sender, handler, history

LEMMA CopyInEffect ==
  ASSUME StateTypeOK, NEW v \in VM, NEW k \in Handles, CopyIn(v, k)
  PROVE  /\ spc[v][k] = "copy" /\ spc'[v][k] \in {"copy", "lock"}
         /\ \A u \in VM, j \in Handles : (u # v \/ j # k) => spc'[u][j] = spc[u][j]
         /\ UNCHANGED <<dest, live, lock, pending, hpc, rung, heard, answered>>
BY DoorbellFacts, VectorFacts DEF StateTypeOK, CopyIn, life, sender, handler, history

LEMMA LockEffect ==
  ASSUME StateTypeOK, NEW v \in VM, NEW k \in Handles, Lock(v, k)
  PROVE  /\ spc[v][k] = "lock" /\ lock[v] = Free
         /\ \A u \in VM, j \in Handles :
              spc'[u][j] = IF u = v /\ j = k THEN "ring" ELSE spc[u][j]
         /\ \A u \in VM : lock'[u] = IF u = v THEN k ELSE lock[u]
         /\ UNCHANGED <<dest, live, pending, hpc, rung, heard, answered>>
BY ZenonT(60), DoorbellFacts, VectorFacts DEF StateTypeOK, Lock, life, sender, handler, history

LEMMA RingPeerEffect ==
  ASSUME StateTypeOK, NEW v \in VM, NEW k \in Handles, RingPeer(v, k)
  PROVE  /\ spc[v][k] = "ring"
         /\ \A u \in VM, j \in Handles :
              spc'[u][j] = IF u = v /\ j = k THEN "idle" ELSE spc[u][j]
         /\ \A u \in VM, p \in 0 .. 3 :
              p \in pending'[u] <=> \/ p \in pending[u]
                                    \/ p = ReadVector(v) /\ u = dest[v] /\ live[u]
         /\ \A u \in VM : Len(rung'[u]) = IF u = v THEN Len(rung[u]) + 1 ELSE Len(rung[u])
         /\ \A u \in VM : u # v => rung'[u] = rung[u]
         /\ UNCHANGED <<dest, live, lock, hpc, heard, answered>>
<1> USE DoorbellFacts, VectorFacts DEF StateTypeOK, life, sender, handler, history
<1>1. /\ spc[v][k] = "ring"
      /\ \A u \in VM, j \in Handles :
           spc'[u][j] = IF u = v /\ j = k THEN "idle" ELSE spc[u][j]
      /\ UNCHANGED <<dest, live, lock, hpc, heard, answered>>
  BY DEF RingPeer
<1>2. \A u \in VM, p \in 0 .. 3 :
        p \in pending'[u] <=> \/ p \in pending[u]
                              \/ p = ReadVector(v) /\ u = dest[v] /\ live[u]
  BY DEF RingPeer, Rings
<1>3. \A u \in VM : rung'[u] = IF u = v THEN Append(rung[u], <<k, sent[v][k]>>)
                                        ELSE rung[u]
  BY DEF RingPeer
<1>4. \A u \in VM : Len(rung'[u]) = IF u = v THEN Len(rung[u]) + 1 ELSE Len(rung[u])
  <2> SUFFICES ASSUME NEW u \in VM
               PROVE  Len(rung'[u]) = IF u = v THEN Len(rung[u]) + 1 ELSE Len(rung[u])
    OBVIOUS
  <2>1. rung[u] \in Seq(Handles \X Nat)
    OBVIOUS
  <2>2. Len(Append(rung[u], <<k, sent[v][k]>>)) = Len(rung[u]) + 1
    BY <2>1, LenAppend
  <2>3. QED
    BY <1>3, <2>2
<1>5. QED
  BY <1>1, <1>2, <1>3, <1>4

LEMMA TakeInterruptEffect ==
  ASSUME StateTypeOK, NEW v \in VM, NEW r \in ReadVectors, TakeInterrupt(v, r)
  PROVE  /\ r \in pending[v] /\ hpc[v][r] = "off"
         /\ \A u \in VM, p \in 0 .. 3 :
              p \in pending'[u] <=> p \in pending[u] /\ ~ (u = v /\ p = r)
         /\ \A u \in VM, s \in ReadVectors :
              hpc'[u][s] = IF u = v /\ s = r THEN "read" ELSE hpc[u][s]
         /\ UNCHANGED <<dest, live, spc, lock, rung, heard, answered>>
BY DoorbellFacts, VectorFacts DEF StateTypeOK, TakeInterrupt, life, sender, handler, history

LEMMA ReadBodyEffect ==
  ASSUME StateTypeOK, NEW v \in VM, NEW r \in ReadVectors, ReadBody(v, r)
  PROVE  /\ hpc[v][r] = "read" /\ hpc'[v][r] \in {"read", "done"}
         /\ \A u \in VM, s \in ReadVectors : (u # v \/ s # r) => hpc'[u][s] = hpc[u][s]
         /\ UNCHANGED <<dest, live, spc, lock, pending, rung, heard, answered>>
BY DoorbellFacts, VectorFacts DEF StateTypeOK, ReadBody, life, sender, handler, history

LEMMA ConsumeEffect ==
  ASSUME StateTypeOK, NEW v \in VM, NEW r \in ReadVectors, Consume(v, r)
  PROVE  /\ hpc[v][r] = "done"
         /\ \A u \in VM, s \in ReadVectors :
              hpc'[u][s] = IF u = v /\ s = r THEN "ring" ELSE hpc[u][s]
         /\ \A u \in VM : heard'[u] = IF u = (IF r = 0 THEN arm ELSE x86)
                                      THEN heard[u] + 1 ELSE heard[u]
         /\ UNCHANGED <<dest, live, spc, lock, pending, rung, answered>>
BY DoorbellFacts, VectorFacts DEF StateTypeOK, Consume, life, sender, handler, history

LEMMA RingBackEffect ==
  ASSUME StateTypeOK, NEW v \in VM, NEW r \in ReadVectors, RingBack(v, r)
  PROVE  /\ hpc[v][r] = "ring"
         /\ \A u \in VM, s \in ReadVectors :
              hpc'[u][s] = IF u = v /\ s = r THEN "off" ELSE hpc[u][s]
         /\ \A u \in VM, p \in 0 .. 3 :
              p \in pending'[u] <=> \/ p \in pending[u]
                                    \/ p = 3 - r /\ u = dest[v] /\ live[u]
         /\ UNCHANGED <<dest, live, spc, lock, rung, heard, answered>>
BY DoorbellFacts, VectorFacts DEF StateTypeOK, RingBack, Rings, life, sender, handler, history

LEMMA WriteHandlerEffect ==
  ASSUME StateTypeOK, NEW v \in VM, NEW q \in WriteVectors, WriteHandler(v, q)
  PROVE  /\ q \in pending[v]
         /\ \A u \in VM, p \in 0 .. 3 :
              p \in pending'[u] <=> p \in pending[u] /\ ~ (u = v /\ p = q)
         /\ \A u \in VM : lock'[u] = IF u = v /\ q = WriteVector(v) THEN Free ELSE lock[u]
         /\ \A u \in VM : answered'[u] =
              IF u = v /\ q = WriteVector(v) THEN answered[u] + 1 ELSE answered[u]
         /\ UNCHANGED <<dest, live, spc, hpc, rung, heard>>
<1> USE DoorbellFacts, VectorFacts DEF StateTypeOK, life, sender, handler, history
<1>1. /\ q \in pending[v]
      /\ \A u \in VM, p \in 0 .. 3 :
           p \in pending'[u] <=> p \in pending[u] /\ ~ (u = v /\ p = q)
      /\ UNCHANGED <<dest, live, spc, hpc, rung, heard>>
  BY DEF WriteHandler
<1>2. CASE q = WriteVector(v)
  <2>1. /\ lock' = [lock EXCEPT ![v] = Free]
        /\ answered' = [answered EXCEPT ![v] = @ + 1]
    BY <1>2 DEF WriteHandler
  <2>2. QED
    BY <1>1, <1>2, <2>1
<1>3. CASE q # WriteVector(v)
  <2>1. UNCHANGED <<lock, answered>>
    BY <1>3 DEF WriteHandler
  <2>2. QED
    BY <1>1, <1>3, <2>1
<1>4. QED
  BY <1>2, <1>3

-----------------------------------------------------------------------------
(* The token: at any time at most one of these is under way for x86_lock *)

\* Tokens, spelled out: a handler is woken or a lock released once for each time
\* x86_lock is taken, and never for arm_lock, which nobody gets to ring for.
TokenInv ==
  /\ \A k \in Handles : /\ spc[arm][k] # "ring"
                        /\ spc[arm][k] # "idle" => lock[arm] = k
  /\ \A u \in VM : 0 \notin pending[u] /\ 3 \notin pending[u] /\ hpc[u][0] = "off"
  /\ \A j, k \in Handles : spc[x86][j] = "ring" /\ spc[x86][k] = "ring" => j = k
  /\ \A k \in Handles, u \in VM :
        spc[x86][k] = "ring" =>
          1 \notin pending[u] /\ hpc[u][1] = "off" /\ 2 \notin pending[u]
  /\ \A t, u \in VM :
        /\ 1 \in pending[t] => /\ hpc[u][1] = "off" /\ 2 \notin pending[u]
                               /\ 1 \in pending[u] => t = u
        /\ hpc[t][1] # "off" => /\ 2 \notin pending[u]
                                /\ hpc[u][1] # "off" => t = u
        /\ 2 \in pending[t] /\ 2 \in pending[u] => t = u
  /\ lock[x86] = Free =>
        /\ \A k \in Handles : spc[x86][k] # "ring"
        /\ \A u \in VM : 1 \notin pending[u] /\ hpc[u][1] = "off" /\ 2 \notin pending[u]

\* Every step moves the token on, loses it, or, with x86_lock free, makes it.
LEMMA TokenCorrect == Spec => []TokenInv
<1> USE DoorbellFacts, VectorFacts
<1>1. Init => TokenInv
  BY DEF Init, TokenInv
<1>2. StateTypeOK /\ TokenInv /\ [Next]_vars => TokenInv'
  <2> SUFFICES ASSUME StateTypeOK, TokenInv, [Next]_vars PROVE TokenInv'
    OBVIOUS
  <2> USE DEF TokenInv
  <2>1. ASSUME NEW v \in VM, Load(v) PROVE TokenInv'
    BY <2>1, LoadEffect
  <2>2. CASE Reset
    BY <2>2, ResetEffect
  <2>3. ASSUME NEW k \in Handles, SendX86(k) PROVE TokenInv'
    BY <2>3, SendX86Effect
  <2>4. ASSUME NEW k \in Handles, SendArm(k) PROVE TokenInv'
    BY <2>4, SendArmEffect
  <2>5. ASSUME NEW v \in VM, NEW k \in Handles, CopyIn(v, k) PROVE TokenInv'
    BY <2>5, CopyInEffect
  <2>6. ASSUME NEW v \in VM, NEW k \in Handles, Lock(v, k) PROVE TokenInv'
    BY <2>6, LockEffect
  <2>7. ASSUME NEW v \in VM, NEW k \in Handles, RingPeer(v, k) PROVE TokenInv'
    BY <2>7, RingPeerEffect
  <2>8. ASSUME NEW v \in VM, NEW r \in ReadVectors, TakeInterrupt(v, r) PROVE TokenInv'
    BY <2>8, TakeInterruptEffect
  <2>9. ASSUME NEW v \in VM, NEW r \in ReadVectors, ReadBody(v, r) PROVE TokenInv'
    BY <2>9, ReadBodyEffect
  <2>10. ASSUME NEW v \in VM, NEW r \in ReadVectors, Consume(v, r) PROVE TokenInv'
    BY <2>10, ConsumeEffect
  <2>11. ASSUME NEW v \in VM, NEW r \in ReadVectors, RingBack(v, r) PROVE TokenInv'
    BY <2>11, RingBackEffect
  <2>12. ASSUME NEW v \in VM, NEW q \in WriteVectors, WriteHandler(v, q) PROVE TokenInv'
    BY <2>12, WriteHandlerEffect
  <2>13. CASE UNCHANGED vars
    BY <2>13 DEF vars
  <2>14. QED
    BY <2>1, <2>2, <2>3, <2>4, <2>5, <2>6, <2>7, <2>8, <2>9, <2>10, <2>11,
    <2>12, <2>13
    DEF Next, SendStep, ReadHandler
<1>3. QED
  BY <1>1, <1>2, StateTypes, PTL DEF Spec

\* However threads, handlers and a restart of ARM interleave, a lock is given back
\* once for each time it is taken: of each lock there is at most one token.
THEOREM OneTokenCorrect == Spec => []OneToken
<1>1. StateTypeOK /\ TokenInv => OneToken
  <2> SUFFICES ASSUME StateTypeOK, TokenInv, NEW v \in VM
               PROVE  /\ \A s, t \in Tokens(v) : s = t
                      /\ lock[v] = Free => Tokens(v) = {}
    BY DEF OneToken
  <2> USE DoorbellFacts, VectorFacts
  <2>1. CASE v = arm
    <3>1. Tokens(arm) = {}
      BY DEF Tokens, TokenInv
    <3>2. QED
      BY <2>1, <3>1
  <2>2. CASE v = x86
    BY <2>2 DEF Tokens, TokenInv
  <2>3. QED
    BY <2>1, <2>2
<1>2. QED
  BY <1>1, StateTypes, TokenCorrect, PTL

\* The ARM VM never rings a doorbell, whatever arrives from the other VM.
THEOREM ArmMuteCorrect == Spec => []ArmMute
<1>1. StateTypeOK /\ TokenInv => ArmMute
  BY DoorbellFacts, VectorFacts DEF TokenInv, ArmMute, Tokens
<1>2. QED
  BY <1>1, StateTypes, TokenCorrect, PTL

-----------------------------------------------------------------------------
(* The meeting: how far the messages of x86 have got, by where the token is *)

MeetInv ==
  LET a == Len(rung[x86])
      h == heard[x86]
      n == answered[x86]
  IN  /\ n <= h /\ h <= a /\ a <= n + 1
      /\ lock[x86] = Free => a = n
      /\ \A k \in Handles : spc[x86][k] = "ring" => a = n
      /\ \A u \in VM : /\ 1 \in pending[u] => a = h + 1
                       /\ hpc[u][1] \in {"read", "done"} => a = h + 1
                       /\ hpc[u][1] = "ring" => a = h /\ h = n + 1
                       /\ 2 \in pending[u] => a = h /\ h = n + 1

\* Announced, read and answered are in step with the token of x86_lock.
LEMMA MeetCorrect == Spec => []MeetInv
<1> USE DoorbellFacts, VectorFacts
<1>1. Init => MeetInv
  BY DEF Init, MeetInv
<1>2. StateTypeOK /\ TokenInv /\ MeetInv /\ [Next]_vars => MeetInv'
  <2> SUFFICES ASSUME StateTypeOK, TokenInv, MeetInv, [Next]_vars PROVE MeetInv'
    OBVIOUS
  <2> USE DEF MeetInv, TokenInv
  <2>1. ASSUME NEW v \in VM, Load(v) PROVE MeetInv'
    BY <2>1, LoadEffect
  <2>2. CASE Reset
    BY <2>2, ResetEffect
  <2>3. ASSUME NEW k \in Handles, SendX86(k) PROVE MeetInv'
    BY <2>3, SendX86Effect
  <2>4. ASSUME NEW k \in Handles, SendArm(k) PROVE MeetInv'
    BY <2>4, SendArmEffect
  <2>5. ASSUME NEW v \in VM, NEW k \in Handles, CopyIn(v, k) PROVE MeetInv'
    BY <2>5, CopyInEffect
  <2>6. ASSUME NEW v \in VM, NEW k \in Handles, Lock(v, k) PROVE MeetInv'
    BY <2>6, LockEffect
  <2>7. ASSUME NEW v \in VM, NEW k \in Handles, RingPeer(v, k) PROVE MeetInv'
    <3>1. /\ Len(rung[x86]) \in Nat
          /\ heard[x86] \in Nat /\ answered[x86] \in Nat
      BY DEF StateTypeOK
    <3>2. v = x86
      BY <2>7, RingPeerEffect
    <3>3. QED
      BY SMTT(30), <2>7, <3>1, <3>2, RingPeerEffect
  <2>8. ASSUME NEW v \in VM, NEW r \in ReadVectors, TakeInterrupt(v, r) PROVE MeetInv'
    BY <2>8, TakeInterruptEffect
  <2>9. ASSUME NEW v \in VM, NEW r \in ReadVectors, ReadBody(v, r) PROVE MeetInv'
    BY <2>9, ReadBodyEffect
  <2>10. ASSUME NEW v \in VM, NEW r \in ReadVectors, Consume(v, r) PROVE MeetInv'
    <3>1. /\ Len(rung[x86]) \in Nat
          /\ heard[x86] \in Nat /\ answered[x86] \in Nat
      BY DEF StateTypeOK
    <3>2. r = 1
      BY <2>10, ConsumeEffect
    <3>3. QED
      BY SMTT(30), <2>10, <3>1, <3>2, ConsumeEffect
  <2>11. ASSUME NEW v \in VM, NEW r \in ReadVectors, RingBack(v, r) PROVE MeetInv'
    BY <2>11, RingBackEffect
  <2>12. ASSUME NEW v \in VM, NEW q \in WriteVectors, WriteHandler(v, q) PROVE MeetInv'
    BY <2>12, WriteHandlerEffect
  <2>13. CASE UNCHANGED vars
    BY <2>13 DEF vars
  <2>14. QED
    BY <2>1, <2>2, <2>3, <2>4, <2>5, <2>6, <2>7, <2>8, <2>9, <2>10, <2>11,
    <2>12, <2>13
    DEF Next, SendStep, ReadHandler
<1>3. QED
  BY <1>1, <1>2, StateTypes, TokenCorrect, PTL DEF Spec

\* Every variable keeps its type: a reader that has a body always has a message
\* of its sender to put it down to.
THEOREM DoorbellTypeCorrect == Spec => []TypeOK
<1> DEFINE Reads == Seq([of : VM \X (Handles \X Nat), words : [WordIndex -> Word]])
           ReadsOK == received \in [VM -> Reads]
<1> USE DoorbellFacts, VectorFacts
<1>1. Init => ReadsOK
  BY DEF Init
<1>2. ReadsOK /\ StateTypeOK /\ TokenInv /\ MeetInv /\ [Next]_vars => ReadsOK'
  <2> SUFFICES ASSUME ReadsOK, StateTypeOK, TokenInv, MeetInv, [Next]_vars
               PROVE  ReadsOK'
    OBVIOUS
  <2> HIDE DEF Reads, ReadsOK
  <2>1. ASSUME NEW v \in VM, NEW r \in ReadVectors, Consume(v, r) PROVE ReadsOK'
    <3>1. r = 1 /\ hpc[v][1] = "done"
      BY <2>1, ConsumeEffect DEF TokenInv
    <3>2. rung[x86] \in Seq(Handles \X Nat) /\ heard[x86] \in Nat
      BY DEF StateTypeOK
    <3>3. hbuf[v][r] \in [WordIndex -> Word]
      BY DEF StateTypeOK
    <3>4. Len(rung[x86]) = heard[x86] + 1
      BY <3>1 DEF MeetInv
    <3>5. rung[x86][Len(rung[x86])] \in Handles \X Nat
      BY <3>2, <3>4
    <3>6. received' = [received EXCEPT ![v] =
             Append(@, [of |-> <<x86, rung[x86][Len(rung[x86])]>>, words |-> hbuf[v][r]])]
      BY <2>1, <3>1 DEF Consume
    <3>7. [of |-> <<x86, rung[x86][Len(rung[x86])]>>, words |-> hbuf[v][r]]
             \in [of : VM \X (Handles \X Nat), words : [WordIndex -> Word]]
      BY <3>3, <3>5
    <3>8. Append(received[v], [of |-> <<x86, rung[x86][Len(rung[x86])]>>,
                               words |-> hbuf[v][r]]) \in Reads
      <4>1. received[v] \in Reads
        BY DEF ReadsOK
      <4>2. QED
        BY <3>7, <4>1 DEF Reads
    <3>9. QED
      BY <3>6, <3>8 DEF ReadsOK
  <2>2. CASE UNCHANGED received
    BY <2>2 DEF ReadsOK
  <2>3. QED
    BY <2>1, <2>2 DEF Next, SendStep, ReadHandler, Load, Reset, SendX86, SendArm, CopyIn,
      Lock, RingPeer, TakeInterrupt, ReadBody, RingBack, WriteHandler, history, vars
<1>3. ReadsOK /\ StateTypeOK => TypeOK
  BY DEF StateTypeOK, TypeOK
<1>4. QED
  BY <1>1, <1>2, <1>3, StateTypes, TokenCorrect, MeetCorrect, PTL DEF Spec

\* The messages of x86 are announced one at a time, each is read and answered at
\* most once, and the next is announced after the answer.
THEOREM RendezvousCorrect == Spec => RendezvousSpec
<1> USE DoorbellFacts, VectorFacts
<1> DEFINE Here == <<Len(rung[x86]), heard[x86], answered[x86]>>
           Meets == Meeting!Next \/ UNCHANGED Here
<1>1. Init => Meeting!Init
  BY DEF Init, Meeting!Init
<1>2. StateTypeOK /\ TokenInv /\ MeetInv /\ [Next]_vars => [Meeting!Next]_Here
  <2> SUFFICES ASSUME StateTypeOK, TokenInv, MeetInv, [Next]_vars
               PROVE  Meets
    OBVIOUS
  <2>0. /\ Len(rung[x86]) \in Nat
        /\ heard[x86] \in Nat /\ answered[x86] \in Nat
    BY DEF StateTypeOK
  <2>1. ASSUME NEW v \in VM, Load(v) PROVE Meets
    BY <2>1, LoadEffect
  <2>2. CASE Reset
    BY <2>2, ResetEffect
  <2>3. ASSUME NEW k \in Handles, SendX86(k) PROVE Meets
    BY <2>3, SendX86Effect
  <2>4. ASSUME NEW k \in Handles, SendArm(k) PROVE Meets
    BY <2>4, SendArmEffect
  <2>5. ASSUME NEW v \in VM, NEW k \in Handles, CopyIn(v, k) PROVE Meets
    BY <2>5, CopyInEffect
  <2>6. ASSUME NEW v \in VM, NEW k \in Handles, Lock(v, k) PROVE Meets
    BY <2>6, LockEffect
  <2>7. ASSUME NEW v \in VM, NEW k \in Handles, RingPeer(v, k) PROVE Meets
    <3>1. v = x86 /\ answered[x86] = Len(rung[x86])
      BY <2>7, RingPeerEffect DEF TokenInv, MeetInv
    <3>2. Meeting!Announce
      BY <2>7, <3>1, RingPeerEffect DEF Meeting!Announce
    <3>3. QED
      BY <3>2 DEF Meeting!Next
  <2>8. ASSUME NEW v \in VM, NEW r \in ReadVectors, TakeInterrupt(v, r) PROVE Meets
    BY <2>8, TakeInterruptEffect
  <2>9. ASSUME NEW v \in VM, NEW r \in ReadVectors, ReadBody(v, r) PROVE Meets
    BY <2>9, ReadBodyEffect
  <2>10. ASSUME NEW v \in VM, NEW r \in ReadVectors, Consume(v, r) PROVE Meets
    <3>1. r = 1 /\ heard[x86] < Len(rung[x86])
      BY <2>10, <2>0, ConsumeEffect DEF TokenInv, MeetInv
    <3>2. Meeting!Hear
      BY <2>10, <3>1, ConsumeEffect DEF Meeting!Hear
    <3>3. QED
      BY <3>2 DEF Meeting!Next
  <2>11. ASSUME NEW v \in VM, NEW r \in ReadVectors, RingBack(v, r) PROVE Meets
    BY <2>11, RingBackEffect
  <2>12. ASSUME NEW v \in VM, NEW q \in WriteVectors, WriteHandler(v, q) PROVE Meets
    <3>1. CASE v = x86 /\ q = 2
      <4>1. answered[x86] < heard[x86]
        BY <2>12, <2>0, <3>1, WriteHandlerEffect DEF MeetInv
      <4>2. Meeting!Answer
        BY <2>12, <3>1, <4>1, WriteHandlerEffect DEF Meeting!Answer
      <4>3. QED
        BY <4>2 DEF Meeting!Next
    <3>2. CASE ~ (v = x86 /\ q = 2)
      BY <2>12, <3>2, WriteHandlerEffect
    <3>3. QED
      BY <3>1, <3>2
  <2>13. CASE UNCHANGED vars
    BY <2>13 DEF vars
  <2>14. QED
    BY <2>1, <2>2, <2>3, <2>4, <2>5, <2>6, <2>7, <2>8, <2>9, <2>10, <2>11,
    <2>12, <2>13
    DEF Next, SendStep, ReadHandler
<1>3. QED
  BY <1>1, <1>2, StateTypes, TokenCorrect, MeetCorrect, PTL
  DEF Spec, RendezvousSpec, Meeting!Spec, Meeting!vars

-----------------------------------------------------------------------------
(* A doorbell lost *)

\* Lost, spelled out like TokenInv
NoToken == /\ lock[x86] # Free
           /\ \A k \in Handles : spc[x86][k] # "ring"
           /\ \A u \in VM : 1 \notin pending[u] /\ hpc[u][1] = "off" /\ 2 \notin pending[u]

LEMMA LostMeans ==
  /\ StateTypeOK => (Lost <=> NoToken)
  /\ StateTypeOK' => (Lost' <=> NoToken')
<1> USE DoorbellFacts, VectorFacts
<1>1. StateTypeOK => (Lost <=> NoToken)
  <2> SUFFICES ASSUME StateTypeOK PROVE Lost <=> NoToken
    OBVIOUS
  <2>1. ASSUME NoToken PROVE Lost
    BY <2>1 DEF Lost, NoToken, Tokens
  <2>2. /\ \A k \in Handles : spc[x86][k] = "ring" => <<"ring", k>> \in Tokens(x86)
        /\ \A u \in VM : /\ 1 \in pending[u] => <<"told", u>> \in Tokens(x86)
                         /\ hpc[u][1] # "off" => <<"read", u>> \in Tokens(x86)
                         /\ 2 \in pending[u] => <<"back", u>> \in Tokens(x86)
    BY DEF Tokens
  <2>3. QED
    BY <2>1, <2>2 DEF Lost, NoToken
<1>2. StateTypeOK' => (Lost' <=> NoToken')
  <2> SUFFICES ASSUME StateTypeOK' PROVE Lost' <=> NoToken'
    OBVIOUS
  <2>1. ASSUME NoToken' PROVE Lost'
    BY <2>1 DEF Lost, NoToken, Tokens
  <2>2. /\ \A k \in Handles : spc'[x86][k] = "ring" => <<"ring", k>> \in Tokens(x86)'
        /\ \A u \in VM : /\ 1 \in pending'[u] => <<"told", u>> \in Tokens(x86)'
                         /\ hpc'[u][1] # "off" => <<"read", u>> \in Tokens(x86)'
                         /\ 2 \in pending'[u] => <<"back", u>> \in Tokens(x86)'
    BY DEF Tokens
  <2>3. QED
    BY <2>1, <2>2 DEF Lost, NoToken
<1>3. QED
  BY <1>1, <1>2

\* A doorbell that is lost is final: no step of anybody, a new load of ARM
\* included, frees x86_lock or rings for x86 again.
THEOREM LossIsFinalCorrect == Spec => LossIsFinal
<1> USE DoorbellFacts, VectorFacts
<1> DEFINE Stuck == NoToken' /\ rung'[x86] = rung[x86]
<1>1. StateTypeOK /\ NoToken /\ TokenInv /\ [Next]_vars => Stuck
  <2> SUFFICES ASSUME StateTypeOK, NoToken, TokenInv, [Next]_vars
               PROVE  Stuck
    OBVIOUS
  <2> USE DEF NoToken
  <2>1. ASSUME NEW v \in VM, Load(v) PROVE Stuck
    BY <2>1, LoadEffect
  <2>2. CASE Reset
    BY <2>2, ResetEffect
  <2>3. ASSUME NEW k \in Handles, SendX86(k) PROVE Stuck
    BY <2>3, SendX86Effect
  <2>4. ASSUME NEW k \in Handles, SendArm(k) PROVE Stuck
    BY <2>4, SendArmEffect
  <2>5. ASSUME NEW v \in VM, NEW k \in Handles, CopyIn(v, k) PROVE Stuck
    BY <2>5, CopyInEffect
  <2>6. ASSUME NEW v \in VM, NEW k \in Handles, Lock(v, k) PROVE Stuck
    BY <2>6, LockEffect
  <2>7. ASSUME NEW v \in VM, NEW k \in Handles, RingPeer(v, k) PROVE Stuck
    BY <2>7, RingPeerEffect
  <2>8. ASSUME NEW v \in VM, NEW r \in ReadVectors, TakeInterrupt(v, r) PROVE Stuck
    BY <2>8, TakeInterruptEffect
  <2>9. ASSUME NEW v \in VM, NEW r \in ReadVectors, ReadBody(v, r) PROVE Stuck
    BY <2>9, ReadBodyEffect
  <2>10. ASSUME NEW v \in VM, NEW r \in ReadVectors, Consume(v, r) PROVE Stuck
    BY <2>10, ConsumeEffect DEF TokenInv
  <2>11. ASSUME NEW v \in VM, NEW r \in ReadVectors, RingBack(v, r) PROVE Stuck
    BY <2>11, RingBackEffect
  <2>12. ASSUME NEW v \in VM, NEW q \in WriteVectors, WriteHandler(v, q) PROVE Stuck
    BY <2>12, WriteHandlerEffect
  <2>13. CASE UNCHANGED vars
    BY <2>13 DEF vars
  <2>14. QED
    BY <2>1, <2>2, <2>3, <2>4, <2>5, <2>6, <2>7, <2>8, <2>9, <2>10, <2>11,
    <2>12, <2>13
    DEF Next, SendStep, ReadHandler
<1>2. StateTypeOK /\ StateTypeOK' /\ TokenInv /\ [Next]_vars
         => [Lost => (Lost' /\ rung'[x86] = rung[x86])]_vars
  BY <1>1, LostMeans
<1>3. QED
  BY <1>2, StateTypes, TokenCorrect, PTL DEF Spec, LossIsFinal

\* Where the DEST_IDs lead to each other, the token of x86_lock is on the side
\* that it should be on, and x86, which holds the lock, is loaded.
RouteInv ==
  /\ \A k \in Handles : spc[x86][k] # "idle" => live[x86]
  /\ lock[x86] # Free => live[x86]
  /\ Routed => \A u \in VM : /\ 1 \in pending[u] => u = arm
                             /\ hpc[u][1] # "off" => u = arm
                             /\ 2 \in pending[u] => u = x86

\* Doorbells go to the other VM, and x86 stays loaded.
LEMMA RouteCorrect == Spec => []RouteInv
<1> USE DoorbellFacts, VectorFacts
<1>1. Init => RouteInv
  BY DEF Init, RouteInv
<1>2. StateTypeOK /\ TokenInv /\ RouteInv /\ [Next]_vars => RouteInv'
  <2> SUFFICES ASSUME StateTypeOK, TokenInv, RouteInv, [Next]_vars PROVE RouteInv'
    OBVIOUS
  <2> USE DEF RouteInv, TokenInv, Routed
  <2>1. ASSUME NEW v \in VM, Load(v) PROVE RouteInv'
    BY <2>1, LoadEffect
  <2>2. CASE Reset
    BY <2>2, ResetEffect
  <2>3. ASSUME NEW k \in Handles, SendX86(k) PROVE RouteInv'
    BY <2>3, SendX86Effect
  <2>4. ASSUME NEW k \in Handles, SendArm(k) PROVE RouteInv'
    BY <2>4, SendArmEffect
  <2>5. ASSUME NEW v \in VM, NEW k \in Handles, CopyIn(v, k) PROVE RouteInv'
    BY <2>5, CopyInEffect
  <2>6. ASSUME NEW v \in VM, NEW k \in Handles, Lock(v, k) PROVE RouteInv'
    BY <2>6, LockEffect
  <2>7. ASSUME NEW v \in VM, NEW k \in Handles, RingPeer(v, k) PROVE RouteInv'
    BY <2>7, RingPeerEffect
  <2>8. ASSUME NEW v \in VM, NEW r \in ReadVectors, TakeInterrupt(v, r) PROVE RouteInv'
    BY <2>8, TakeInterruptEffect
  <2>9. ASSUME NEW v \in VM, NEW r \in ReadVectors, ReadBody(v, r) PROVE RouteInv'
    BY <2>9, ReadBodyEffect
  <2>10. ASSUME NEW v \in VM, NEW r \in ReadVectors, Consume(v, r) PROVE RouteInv'
    BY <2>10, ConsumeEffect
  <2>11. ASSUME NEW v \in VM, NEW r \in ReadVectors, RingBack(v, r) PROVE RouteInv'
    BY <2>11, RingBackEffect
  <2>12. ASSUME NEW v \in VM, NEW q \in WriteVectors, WriteHandler(v, q) PROVE RouteInv'
    BY <2>12, WriteHandlerEffect
  <2>13. CASE UNCHANGED vars
    BY <2>13 DEF vars
  <2>14. QED
    BY <2>1, <2>2, <2>3, <2>4, <2>5, <2>6, <2>7, <2>8, <2>9, <2>10, <2>11,
    <2>12, <2>13
    DEF Next, SendStep, ReadHandler
<1>3. QED
  BY <1>1, <1>2, StateTypes, TokenCorrect, PTL DEF Spec

\* While ARM stays loaded and the DEST_IDs lead to each other, no interleaving of
\* threads and handlers loses the token: x86_lock is given back or can still be.
THEOREM NoneLostCorrect == Spec => NoneLostInTransit
<1> USE DoorbellFacts, VectorFacts
<1> DEFINE Kept == (Routed /\ ~ NoToken /\ live[arm] /\ live'[arm]) => ~ NoToken'
<1>1. StateTypeOK /\ TokenInv /\ RouteInv /\ [Next]_vars => Kept
  <2> SUFFICES ASSUME StateTypeOK, TokenInv, RouteInv, [Next]_vars,
                      Routed, ~ NoToken, live[arm], live'[arm]
               PROVE  ~ NoToken'
    OBVIOUS
  <2> USE DEF NoToken, RouteInv, Routed
  <2>1. ASSUME NEW v \in VM, Load(v) PROVE ~ NoToken'
    BY <2>1, LoadEffect
  <2>2. CASE Reset
    BY <2>2, ResetEffect
  <2>3. ASSUME NEW k \in Handles, SendX86(k) PROVE ~ NoToken'
    BY <2>3, SendX86Effect
  <2>4. ASSUME NEW k \in Handles, SendArm(k) PROVE ~ NoToken'
    BY <2>4, SendArmEffect
  <2>5. ASSUME NEW v \in VM, NEW k \in Handles, CopyIn(v, k) PROVE ~ NoToken'
    BY <2>5, CopyInEffect
  <2>6. ASSUME NEW v \in VM, NEW k \in Handles, Lock(v, k) PROVE ~ NoToken'
    BY <2>6, LockEffect
  <2>7. ASSUME NEW v \in VM, NEW k \in Handles, RingPeer(v, k) PROVE ~ NoToken'
    BY <2>7, RingPeerEffect
  <2>8. ASSUME NEW v \in VM, NEW r \in ReadVectors, TakeInterrupt(v, r) PROVE ~ NoToken'
    BY <2>8, TakeInterruptEffect
  <2>9. ASSUME NEW v \in VM, NEW r \in ReadVectors, ReadBody(v, r) PROVE ~ NoToken'
    BY <2>9, ReadBodyEffect
  <2>10. ASSUME NEW v \in VM, NEW r \in ReadVectors, Consume(v, r) PROVE ~ NoToken'
    BY <2>10, ConsumeEffect
  <2>11. ASSUME NEW v \in VM, NEW r \in ReadVectors, RingBack(v, r) PROVE ~ NoToken'
    BY <2>11, RingBackEffect
  <2>12. ASSUME NEW v \in VM, NEW q \in WriteVectors, WriteHandler(v, q) PROVE ~ NoToken'
    BY <2>12, WriteHandlerEffect
  <2>13. CASE UNCHANGED vars
    BY <2>13 DEF vars
  <2>14. QED
    BY <2>1, <2>2, <2>3, <2>4, <2>5, <2>6, <2>7, <2>8, <2>9, <2>10, <2>11,
    <2>12, <2>13
    DEF Next, SendStep, ReadHandler
<1>2. StateTypeOK /\ StateTypeOK' /\ TokenInv /\ RouteInv /\ [Next]_vars
         => [(Routed /\ ~ Lost /\ live[arm] /\ live'[arm]) => ~ Lost']_vars
  BY <1>1, LostMeans
<1>3. QED
  BY <1>2, StateTypes, TokenCorrect, RouteCorrect, PTL DEF Spec, NoneLostInTransit

-----------------------------------------------------------------------------
(* What each step does to the bodies, and what it leaves alone *)

LEMMA ResetData ==
  ASSUME StateTypeOK, Reset
  PROVE  /\ \A u \in VM, j \in Handles : sw'[u][j] = IF u = arm THEN 1 ELSE sw[u][j]
         /\ \A u \in VM, s \in ReadVectors :
              /\ hw'[u][s] = IF u = arm THEN 1 ELSE hw[u][s]
              /\ u # arm => hbuf'[u][s] = hbuf[u][s]
         /\ UNCHANGED <<body, sent, received>>
BY DoorbellFacts, VectorFacts DEF StateTypeOK, Reset, life, sender, handler, history

LEMMA SendX86Data ==
  ASSUME StateTypeOK, NEW k \in Handles, SendX86(k)
  PROVE  /\ \A u \in VM, j \in Handles :
              sent'[u][j] = IF u = x86 /\ j = k THEN sent[u][j] + 1 ELSE sent[u][j]
         /\ UNCHANGED <<body, sw, hw, hbuf, received>>
BY DoorbellFacts, VectorFacts DEF StateTypeOK, SendX86, life, sender, handler, history

LEMMA SendArmData ==
  ASSUME StateTypeOK, NEW k \in Handles, SendArm(k)
  PROVE  /\ \A u \in VM, j \in Handles :
              sent'[u][j] = IF u = arm /\ j = k THEN sent[u][j] + 1 ELSE sent[u][j]
         /\ UNCHANGED <<body, sw, hw, hbuf, received>>
BY DoorbellFacts, VectorFacts DEF StateTypeOK, SendArm, life, sender, handler, history

LEMMA CopyInData ==
  ASSUME StateTypeOK, NEW v \in VM, NEW k \in Handles, CopyIn(v, k)
  PROVE  /\ \A j \in Handles, w \in WordIndex :
              body'[j][w] = IF j = k /\ w = sw[v][k] THEN <<v, k, sent[v][k]>>
                                                        ELSE body[j][w]
         /\ UNCHANGED <<sent, hw, hbuf, received>>
BY DoorbellFacts DEF StateTypeOK, CopyIn, handler, history

LEMMA ReadBodyData ==
  ASSUME StateTypeOK, NEW v \in VM, NEW r \in ReadVectors, ReadBody(v, r)
  PROVE  /\ hpc'[v][r] = IF hw[v][r] = Words THEN "done" ELSE "read"
         /\ \A u \in VM, s \in ReadVectors : (u # v \/ s # r) => hw'[u][s] = hw[u][s]
         /\ hw'[v][r] = IF hw[v][r] = Words THEN 1 ELSE hw[v][r] + 1
         /\ \A u \in VM, s \in ReadVectors, w \in WordIndex :
              hbuf'[u][s][w] = IF u = v /\ s = r /\ w = hw[v][r]
                                THEN body[r][w] ELSE hbuf[u][s][w]
         /\ UNCHANGED <<body, sw, sent, received>>
<1>1. /\ UNCHANGED <<body, sw, sent, received>>
      /\ hpc'[v][r] = IF hw[v][r] = Words THEN "done" ELSE "read"
  BY DEF StateTypeOK, ReadBody, life, sender, handler, history
<1>2. /\ \A u \in VM, s \in ReadVectors : (u # v \/ s # r) => hw'[u][s] = hw[u][s]
      /\ hw'[v][r] = IF hw[v][r] = Words THEN 1 ELSE hw[v][r] + 1
  BY DoorbellFacts DEF StateTypeOK, ReadBody
<1>3. hbuf' = [hbuf EXCEPT ![v][r][hw[v][r]] = body[r][hw[v][r]]]
  BY DEF ReadBody
<1>4. hw[v][r] \in WordIndex
  BY DEF StateTypeOK
<1>5. hbuf \in [VM -> [ReadVectors -> [WordIndex -> Word]]]
  BY DEF StateTypeOK
<1>6. \A u \in VM, s \in ReadVectors, w \in WordIndex :
         hbuf'[u][s][w] = IF u = v /\ s = r /\ w = hw[v][r] THEN body[r][hw[v][r]]
                                                          ELSE hbuf[u][s][w]
  BY <1>3, <1>4, <1>5, WordAt
<1>7. QED
  BY <1>1, <1>2, <1>6

LEMMA ConsumeData ==
  ASSUME StateTypeOK, NEW v \in VM, NEW r \in ReadVectors, Consume(v, r)
  PROVE  /\ \A u \in VM, s \in ReadVectors : (u # v \/ s # r) => hbuf'[u][s] = hbuf[u][s]
         /\ UNCHANGED <<body, sw, sent, hw>>
BY DoorbellFacts, VectorFacts DEF StateTypeOK, Consume, life, sender, handler, history

-----------------------------------------------------------------------------
(* What is read in answer to a message of handle 1 *)

FromArm(word) == \E n \in Nat : word = <<arm, 1, n>>

\* The partition of handle 1 while ivshmem_send copies a body, and afterwards
CopyInv ==
  /\ spc[x86][1] # "copy" => sw[x86][1] = 1
  /\ spc[x86][1] # "idle" => sent[x86][1] > 0
  /\ \A w \in WordIndex : ~ FromArm(body[1][w]) =>
       IF spc[x86][1] = "copy" /\ w >= sw[x86][1]
       THEN sent[x86][1] > 1 => body[1][w] = <<x86, 1, sent[x86][1] - 1>>
       ELSE sent[x86][1] > 0 => body[1][w] = <<x86, 1, sent[x86][1]>>

\* The thread of handle 1 overwrites its last body word by word, and only ARM
\* writes there too.
LEMMA CopyCorrect == Spec => []CopyInv
<1> USE DoorbellFacts, VectorFacts, WordNat
<1>1. Init => CopyInv
  BY DEF Init, CopyInv
<1>2. StateTypeOK /\ TokenInv /\ CopyInv /\ [Next]_vars => CopyInv'
  <2> SUFFICES ASSUME StateTypeOK, TokenInv, CopyInv, [Next]_vars PROVE CopyInv'
    OBVIOUS
  <2>1. ASSUME NEW v \in VM, Load(v) PROVE CopyInv'
    <3>1. UNCHANGED <<body, sw, sent, hw, hbuf, received>>
      BY <2>1 DEF Load, life, sender, handler, history
    <3>2. QED
      BY <2>1, <3>1, LoadEffect DEF CopyInv
  <2>2. CASE Reset
    BY <2>2, ResetEffect, ResetData DEF CopyInv
  <2>3. ASSUME NEW k \in Handles, SendX86(k) PROVE CopyInv'
    <3>1. sent[x86][1] \in Nat /\ sent[x86][1] + 1 - 1 = sent[x86][1]
      BY DEF StateTypeOK
    <3>2. CASE k = 1
      <4>1. /\ spc[x86][1] = "idle" /\ spc'[x86][1] = "copy"
            /\ sent'[x86][1] = sent[x86][1] + 1
            /\ sw[x86][1] = 1 /\ UNCHANGED <<sw, body>>
        BY <2>3, <3>2, SendX86Effect, SendX86Data DEF CopyInv
      <4>2. \A w \in WordIndex : ~ FromArm(body[1][w]) =>
              (sent[x86][1] > 0 => body[1][w] = <<x86, 1, sent[x86][1]>>)
        BY <4>1 DEF CopyInv
      <4>3. QED
        BY <3>1, <4>1, <4>2 DEF CopyInv
    <3>3. CASE k # 1
      BY <2>3, <3>3, SendX86Effect, SendX86Data DEF CopyInv
    <3>4. QED
      BY <3>2, <3>3
  <2>4. ASSUME NEW k \in Handles, SendArm(k) PROVE CopyInv'
    BY <2>4, SendArmEffect, SendArmData DEF CopyInv
  <2>5. ASSUME NEW v \in VM, NEW k \in Handles, CopyIn(v, k) PROVE CopyInv'
    <3>1. \A j \in Handles, w \in WordIndex :
            body'[j][w] = IF j = k /\ w = sw[v][k] THEN <<v, k, sent[v][k]>>
                                                  ELSE body[j][w]
      BY <2>5, CopyInData
    <3>2. /\ \A u \in VM, j \in Handles : (u # v \/ j # k) => sw'[u][j] = sw[u][j]
          /\ sent' = sent
      BY <2>5 DEF CopyIn, StateTypeOK
    <3>3. /\ sw[v][k] # Words => spc'[v][k] = "copy" /\ sw'[v][k] = sw[v][k] + 1
          /\ sw[v][k] = Words => spc'[v][k] = "lock" /\ sw'[v][k] = 1
      BY <2>5 DEF CopyIn, StateTypeOK
    <3>4. /\ sent[v][1] \in Nat /\ sent[x86][1] \in Nat
      BY DEF StateTypeOK
    <3>5. sw[x86][1] \in WordIndex
      BY DEF StateTypeOK
    <3>6. CASE k # 1
      <4>1. spc'[x86][1] = spc[x86][1]
        BY <2>5, <3>6, CopyInEffect
      <4>2. sw'[x86][1] = sw[x86][1] /\ sent' = sent
        BY <3>6, <3>1, <3>2
      <4>3. \A w \in WordIndex : body'[1][w] = body[1][w]
        BY <3>6, <3>1, <3>2
      <4>4. QED
        BY <4>1, <4>2, <4>3 DEF CopyInv
    <3>7. CASE v = arm /\ k = 1
      <4>1. spc'[x86][1] = spc[x86][1]
        BY <2>5, <3>7, CopyInEffect
      <4>2. sw'[x86][1] = sw[x86][1] /\ sent' = sent
        BY <3>7, <3>1, <3>2
      <4>3. \A w \in WordIndex : body'[1][w] = body[1][w] \/ FromArm(body'[1][w])
        BY <3>4, <3>7, <3>1 DEF FromArm
      <4>4. QED
        BY <4>1, <4>2, <4>3 DEF CopyInv
    <3>8. CASE v = x86 /\ k = 1
      <4>1. /\ spc[x86][1] = "copy" /\ sent' = sent
            /\ \A w \in WordIndex :
                 body'[1][w] = IF w = sw[x86][1] THEN <<x86, 1, sent[x86][1]>>
                                                 ELSE body[1][w]
        BY <2>5, <3>8, CopyInEffect, <3>1, <3>2
      <4>2. CASE sw[x86][1] = Words
        <5>1. spc'[x86][1] = "lock" /\ sw'[x86][1] = 1
          BY <3>8, <3>3, <4>2
        <5>2. \A w \in WordIndex : w = sw[x86][1] \/ ~ (w >= sw[x86][1])
          BY <4>2
        <5>3. QED
          BY <4>1, <5>1, <5>2 DEF CopyInv
      <4>3. CASE sw[x86][1] # Words
        <5>1. spc'[x86][1] = "copy" /\ sw'[x86][1] = sw[x86][1] + 1
          BY <3>8, <3>3, <4>3
        <5>2. \A w \in WordIndex : w # sw[x86][1] =>
                 (w >= sw[x86][1] + 1 <=> w >= sw[x86][1])
          BY <3>5
        <5>3. ~ (sw[x86][1] >= sw[x86][1] + 1)
          BY <3>5
        <5>4. QED
          BY <4>1, <5>1, <5>2, <5>3 DEF CopyInv
      <4>4. QED
        BY <4>2, <4>3
    <3>9. QED
      BY <3>6, <3>7, <3>8
  <2>6. ASSUME NEW v \in VM, NEW k \in Handles, Lock(v, k) PROVE CopyInv'
    <3>1. UNCHANGED <<body, sw, sent, hw, hbuf, received>>
      BY <2>6 DEF Lock, life, sender, handler, history
    <3>2. QED
      BY <2>6, <3>1, LockEffect DEF CopyInv
  <2>7. ASSUME NEW v \in VM, NEW k \in Handles, RingPeer(v, k) PROVE CopyInv'
    <3>1. UNCHANGED <<body, sw, sent, hw, hbuf, received>>
      BY <2>7 DEF RingPeer, life, sender, handler, history
    <3>2. QED
      BY <2>7, <3>1, RingPeerEffect DEF CopyInv
  <2>8. ASSUME NEW v \in VM, NEW r \in ReadVectors, TakeInterrupt(v, r) PROVE CopyInv'
    <3>1. UNCHANGED <<body, sw, sent, hw, hbuf, received>>
      BY <2>8 DEF TakeInterrupt, life, sender, handler, history
    <3>2. QED
      BY <2>8, <3>1, TakeInterruptEffect DEF CopyInv
  <2>9. ASSUME NEW v \in VM, NEW r \in ReadVectors, ReadBody(v, r) PROVE CopyInv'
    BY <2>9, ReadBodyEffect, ReadBodyData DEF CopyInv
  <2>10. ASSUME NEW v \in VM, NEW r \in ReadVectors, Consume(v, r) PROVE CopyInv'
    BY <2>10, ConsumeEffect, ConsumeData DEF CopyInv
  <2>11. ASSUME NEW v \in VM, NEW r \in ReadVectors, RingBack(v, r) PROVE CopyInv'
    <3>1. UNCHANGED <<body, sw, sent, hw, hbuf, received>>
      BY <2>11 DEF RingBack, life, sender, handler, history
    <3>2. QED
      BY <2>11, <3>1, RingBackEffect DEF CopyInv
  <2>12. ASSUME NEW v \in VM, NEW q \in WriteVectors, WriteHandler(v, q) PROVE CopyInv'
    <3>1. UNCHANGED <<body, sw, sent, hw, hbuf, received>>
      BY <2>12 DEF WriteHandler, life, sender, handler, history
    <3>2. QED
      BY <2>12, <3>1, WriteHandlerEffect DEF CopyInv
  <2>13. CASE UNCHANGED vars
    BY <2>13 DEF vars, CopyInv
  <2>14. QED
    BY <2>1, <2>2, <2>3, <2>4, <2>5, <2>6, <2>7, <2>8, <2>9, <2>10, <2>11,
    <2>12, <2>13
    DEF Next, SendStep, ReadHandler
<1>3. QED
  BY <1>1, <1>2, StateTypes, TokenCorrect, PTL DEF Spec

\* While a message of handle 1 waits for its answer, its thread is at rest or has
\* begun the next one, which it cannot announce.
LastRung == rung[x86][Len(rung[x86])]
AheadInv ==
  \A u \in VM : (1 \in pending[u] \/ hpc[u][1] \in {"read", "done"}) =>
    (LastRung[1] = 1 =>
      /\ LastRung[2] \in Nat /\ LastRung[2] > 0
      /\ \/ sent[x86][1] = LastRung[2] /\ spc[x86][1] = "idle"
         \/ sent[x86][1] = LastRung[2] + 1 /\ spc[x86][1] \in {"copy", "lock"})

\* The thread of handle 1 is at most one message ahead of the answers.
LEMMA AheadCorrect == Spec => []AheadInv
<1> USE DoorbellFacts, VectorFacts, WordNat
<1>1. Init => AheadInv
  BY DEF Init, AheadInv
<1>2. StateTypeOK /\ TokenInv /\ CopyInv /\ AheadInv /\ [Next]_vars => AheadInv'
  <2> SUFFICES ASSUME StateTypeOK, TokenInv, CopyInv, AheadInv, [Next]_vars PROVE AheadInv'
    OBVIOUS
  <2>1. ASSUME NEW v \in VM, Load(v) PROVE AheadInv'
    <3>1. UNCHANGED <<body, sw, sent, hw, hbuf, received>>
      BY <2>1 DEF Load, life, sender, handler, history
    <3>2. QED
      BY <2>1, <3>1, LoadEffect DEF AheadInv, TokenInv, LastRung
  <2>2. CASE Reset
    BY <2>2, ResetEffect, ResetData DEF AheadInv, TokenInv, LastRung
  <2>3. ASSUME NEW k \in Handles, SendX86(k) PROVE AheadInv'
    BY <2>3, SendX86Effect, SendX86Data DEF AheadInv, TokenInv, LastRung
  <2>4. ASSUME NEW k \in Handles, SendArm(k) PROVE AheadInv'
    BY <2>4, SendArmEffect, SendArmData DEF AheadInv, TokenInv, LastRung
  <2>5. ASSUME NEW v \in VM, NEW k \in Handles, CopyIn(v, k) PROVE AheadInv'
    <3>1. sent' = sent
      BY <2>5 DEF CopyIn
    <3>2. QED
      BY <2>5, <3>1, CopyInEffect DEF AheadInv, TokenInv, LastRung
  <2>6. ASSUME NEW v \in VM, NEW k \in Handles, Lock(v, k) PROVE AheadInv'
    <3>1. UNCHANGED <<body, sw, sent, hw, hbuf, received>>
      BY <2>6 DEF Lock, life, sender, handler, history
    <3>2. QED
      BY <2>6, <3>1, LockEffect DEF AheadInv, TokenInv, LastRung
  <2>7. ASSUME NEW v \in VM, NEW k \in Handles, RingPeer(v, k) PROVE AheadInv'
    <3>1. v = x86 /\ spc[x86][k] = "ring" /\ sent' = sent
      BY <2>7, RingPeerEffect DEF RingPeer, TokenInv
    <3>2. /\ spc'[x86][k] = "idle"
          /\ \A u \in VM : hpc'[u][1] = "off"
      BY <2>7, <3>1, RingPeerEffect DEF TokenInv
    <3>3. LastRung' = <<k, sent[x86][k]>>
      <4>1. rung'[x86] = Append(rung[x86], <<k, sent[x86][k]>>)
        BY <2>7, <3>1 DEF RingPeer, StateTypeOK
      <4>2. rung[x86] \in Seq(Handles \X Nat)
        BY DEF StateTypeOK
      <4>3. sent[x86][k] \in Nat
        BY DEF StateTypeOK
      <4>4. QED
        BY <4>1, <4>2, <4>3, LenAppend DEF LastRung
    <3>4. k = 1 => sent[x86][1] \in Nat /\ sent[x86][1] > 0
      BY <3>1 DEF CopyInv, StateTypeOK
    <3>5. QED
      BY <3>1, <3>2, <3>3, <3>4 DEF AheadInv
  <2>8. ASSUME NEW v \in VM, NEW r \in ReadVectors, TakeInterrupt(v, r) PROVE AheadInv'
    <3>1. UNCHANGED <<body, sw, sent, hw, hbuf, received>>
      BY <2>8 DEF TakeInterrupt, life, sender, handler, history
    <3>2. QED
      BY <2>8, <3>1, TakeInterruptEffect DEF AheadInv, TokenInv, LastRung
  <2>9. ASSUME NEW v \in VM, NEW r \in ReadVectors, ReadBody(v, r) PROVE AheadInv'
    BY <2>9, ReadBodyEffect, ReadBodyData DEF AheadInv, TokenInv, LastRung
  <2>10. ASSUME NEW v \in VM, NEW r \in ReadVectors, Consume(v, r) PROVE AheadInv'
    BY <2>10, ConsumeEffect, ConsumeData DEF AheadInv, TokenInv, LastRung
  <2>11. ASSUME NEW v \in VM, NEW r \in ReadVectors, RingBack(v, r) PROVE AheadInv'
    <3>1. UNCHANGED <<body, sw, sent, hw, hbuf, received>>
      BY <2>11 DEF RingBack, life, sender, handler, history
    <3>2. QED
      BY <2>11, <3>1, RingBackEffect DEF AheadInv, TokenInv, LastRung
  <2>12. ASSUME NEW v \in VM, NEW q \in WriteVectors, WriteHandler(v, q) PROVE AheadInv'
    <3>1. UNCHANGED <<body, sw, sent, hw, hbuf, received>>
      BY <2>12 DEF WriteHandler, life, sender, handler, history
    <3>2. QED
      BY <2>12, <3>1, WriteHandlerEffect DEF AheadInv, TokenInv, LastRung
  <2>13. CASE UNCHANGED vars
    BY <2>13 DEF vars, AheadInv, LastRung
  <2>14. QED
    BY <2>1, <2>2, <2>3, <2>4, <2>5, <2>6, <2>7, <2>8, <2>9, <2>10, <2>11,
    <2>12, <2>13
    DEF Next, SendStep, ReadHandler
<1>3. QED
  BY <1>1, <1>2, StateTypes, TokenCorrect, CopyCorrect, PTL DEF Spec

\* The words that a handler has read so far of the partition of handle 1
Near(word, n) == word = <<x86, 1, n>> \/ word = <<x86, 1, n + 1>> \/ FromArm(word)

BufferInv ==
  \A u \in VM :
    /\ hpc[u][1] # "read" => hw[u][1] = 1
    /\ (hpc[u][1] \in {"read", "done"} /\ LastRung[1] = 1) =>
         \A w \in WordIndex :
           (hpc[u][1] = "done" \/ w < hw[u][1]) => Near(hbuf[u][1][w], LastRung[2])

\* The partition of handle 1 while a message of it waits for its answer
LEMMA BodyIsNear ==
  ASSUME StateTypeOK, CopyInv, AheadInv, NEW u \in VM, hpc[u][1] \in {"read", "done"},
         LastRung[1] = 1, NEW w \in WordIndex
  PROVE  Near(body[1][w], LastRung[2])
<1>1. /\ LastRung[2] \in Nat /\ LastRung[2] > 0
      /\ \/ sent[x86][1] = LastRung[2] /\ spc[x86][1] = "idle"
         \/ sent[x86][1] = LastRung[2] + 1 /\ spc[x86][1] \in {"copy", "lock"}
  BY DEF AheadInv
<1>2. CASE sent[x86][1] = LastRung[2] /\ spc[x86][1] = "idle"
  BY <1>1, <1>2 DEF CopyInv, Near
<1>3. CASE sent[x86][1] = LastRung[2] + 1 /\ spc[x86][1] \in {"copy", "lock"}
  BY <1>1, <1>3 DEF CopyInv, Near
<1>4. QED
  BY <1>1, <1>2, <1>3

\* The reader's buffer fills with words of the message it answers, of the
\* next, or of ARM.
LEMMA BufferCorrect == Spec => []BufferInv
<1> USE DoorbellFacts, VectorFacts, WordNat
<1>1. Init => BufferInv
  BY DEF Init, BufferInv
<1>2. StateTypeOK /\ TokenInv /\ CopyInv /\ AheadInv /\ BufferInv /\ [Next]_vars => BufferInv'
  <2> SUFFICES ASSUME StateTypeOK, TokenInv, CopyInv, AheadInv, BufferInv, [Next]_vars
               PROVE  BufferInv'
    OBVIOUS
  <2>1. ASSUME NEW v \in VM, Load(v) PROVE BufferInv'
    <3>1. UNCHANGED <<body, sw, sent, hw, hbuf, received>>
      BY <2>1 DEF Load, life, sender, handler, history
    <3>2. QED
      BY <2>1, <3>1, LoadEffect DEF BufferInv, LastRung
  <2>2. CASE Reset
    BY <2>2, ResetEffect, ResetData DEF BufferInv, LastRung
  <2>3. ASSUME NEW k \in Handles, SendX86(k) PROVE BufferInv'
    BY <2>3, SendX86Effect, SendX86Data DEF BufferInv, LastRung
  <2>4. ASSUME NEW k \in Handles, SendArm(k) PROVE BufferInv'
    BY <2>4, SendArmEffect, SendArmData DEF BufferInv, LastRung
  <2>5. ASSUME NEW v \in VM, NEW k \in Handles, CopyIn(v, k) PROVE BufferInv'
    <3>1. UNCHANGED <<hbuf, hw, hpc, rung>>
      BY <2>5 DEF CopyIn, handler, history
    <3>2. QED
      BY <3>1 DEF BufferInv, LastRung
  <2>6. ASSUME NEW v \in VM, NEW k \in Handles, Lock(v, k) PROVE BufferInv'
    <3>1. UNCHANGED <<body, sw, sent, hw, hbuf, received>>
      BY <2>6 DEF Lock, life, sender, handler, history
    <3>2. QED
      BY <2>6, <3>1, LockEffect DEF BufferInv, LastRung
  <2>7. ASSUME NEW v \in VM, NEW k \in Handles, RingPeer(v, k) PROVE BufferInv'
    <3>1. \A u \in VM : hpc[u][1] = "off"
      BY <2>7, RingPeerEffect DEF TokenInv
    <3>2. UNCHANGED <<hbuf, hw, hpc>>
      BY <2>7 DEF RingPeer, handler
    <3>3. QED
      BY <3>1, <3>2 DEF BufferInv
  <2>8. ASSUME NEW v \in VM, NEW r \in ReadVectors, TakeInterrupt(v, r) PROVE BufferInv'
    <3>1. UNCHANGED <<body, sw, sent, hw, hbuf, received>>
      BY <2>8 DEF TakeInterrupt, life, sender, handler, history
    <3>2. QED
      BY <2>8, <3>1, TakeInterruptEffect DEF BufferInv, LastRung
  <2>9. ASSUME NEW v \in VM, NEW r \in ReadVectors, ReadBody(v, r) PROVE BufferInv'
    <3>1. r = 1 /\ hpc[v][1] = "read"
      BY <2>9, ReadBodyEffect DEF TokenInv
    <3>2. LastRung' = LastRung
      BY <2>9 DEF ReadBody, history, LastRung
    <3>3. SUFFICES ASSUME NEW u \in VM
                   PROVE  /\ hpc'[u][1] # "read" => hw'[u][1] = 1
                          /\ (hpc'[u][1] \in {"read", "done"} /\ LastRung[1] = 1) =>
                               \A w \in WordIndex :
                                 (hpc'[u][1] = "done" \/ w < hw'[u][1]) =>
                                    Near(hbuf'[u][1][w], LastRung[2])
      BY <3>2 DEF BufferInv, Near, FromArm
    <3>4. CASE u # v
      BY <2>9, <3>4, ReadBodyEffect, ReadBodyData DEF BufferInv
    <3>5. CASE u = v
      <4>1. hw[v][1] \in WordIndex
        BY DEF StateTypeOK
      <4>2. /\ hpc'[v][1] = IF hw[v][1] = Words THEN "done" ELSE "read"
            /\ hw'[v][1] = IF hw[v][1] = Words THEN 1 ELSE hw[v][1] + 1
        BY <2>9, <3>1, ReadBodyData
      <4>3. \A w \in WordIndex :
              hbuf'[v][1][w] = IF w = hw[v][1] THEN body[1][w] ELSE hbuf[v][1][w]
        BY <2>9, <3>1, ReadBodyData
      <4>4. \A w \in WordIndex :
              (hpc'[v][1] = "done" \/ w < hw'[v][1]) => w = hw[v][1] \/ w < hw[v][1]
        BY <4>1, <4>2
      <4>5. LastRung[1] = 1 =>
              \A w \in WordIndex : w = hw[v][1] \/ w < hw[v][1] =>
                Near(hbuf'[v][1][w], LastRung[2])
        BY <3>1, <4>3, BodyIsNear DEF BufferInv
      <4>6. QED
        BY <3>5, <4>2, <4>4, <4>5
    <3>6. QED
      BY <3>4, <3>5
  <2>10. ASSUME NEW v \in VM, NEW r \in ReadVectors, Consume(v, r) PROVE BufferInv'
    BY <2>10, ConsumeEffect, ConsumeData DEF BufferInv, LastRung
  <2>11. ASSUME NEW v \in VM, NEW r \in ReadVectors, RingBack(v, r) PROVE BufferInv'
    <3>1. UNCHANGED <<body, sw, sent, hw, hbuf, received>>
      BY <2>11 DEF RingBack, life, sender, handler, history
    <3>2. QED
      BY <2>11, <3>1, RingBackEffect DEF BufferInv, LastRung
  <2>12. ASSUME NEW v \in VM, NEW q \in WriteVectors, WriteHandler(v, q) PROVE BufferInv'
    <3>1. UNCHANGED <<body, sw, sent, hw, hbuf, received>>
      BY <2>12 DEF WriteHandler, life, sender, handler, history
    <3>2. QED
      BY <2>12, <3>1, WriteHandlerEffect DEF BufferInv, LastRung
  <2>13. CASE UNCHANGED vars
    BY <2>13 DEF vars, BufferInv, LastRung
  <2>14. QED
    BY <2>1, <2>2, <2>3, <2>4, <2>5, <2>6, <2>7, <2>8, <2>9, <2>10, <2>11,
    <2>12, <2>13
    DEF Next, SendStep, ReadHandler
<1>3. QED
  BY <1>1, <1>2, StateTypes, TokenCorrect, CopyCorrect, AheadCorrect, PTL DEF Spec

\* What is read in answer to a message of handle 1 is that message, the next of
\* its thread in part, or what the ARM VM wrote over it: never an older one, and
\* never one two ahead.
THEOREM NewerByOneCorrect == Spec => []NewerByOne
<1> USE DoorbellFacts, VectorFacts
<1> DEFINE Entry(m) == (m.of[1] = x86 /\ m.of[2][1] = 1) =>
                          \A w \in WordIndex : Near(m.words[w], m.of[2][2])
           Entries == \A v \in VM : \A n \in 1 .. Len(received[v]) : Entry(received[v][n])
           Inv == StateTypeOK /\ TypeOK /\ TokenInv /\ MeetInv /\ BufferInv
<1>1. Init => Entries
  BY DEF Init
<1>2. Entries /\ Inv /\ [Next]_vars => Entries'
  <2> SUFFICES ASSUME Entries, Inv, [Next]_vars PROVE Entries'
    OBVIOUS
  <2>1. ASSUME NEW v \in VM, NEW r \in ReadVectors, Consume(v, r) PROVE Entries'
    <3>1. r = 1 /\ hpc[v][1] = "done"
      BY <2>1, ConsumeEffect DEF TokenInv
    <3> DEFINE m == [of |-> <<x86, LastRung>>, words |-> hbuf[v][1]]
    <3>2. received' = [received EXCEPT ![v] = Append(@, m)]
      BY <2>1, <3>1 DEF Consume, LastRung
    <3>3. Entry(m)
      BY <3>1 DEF BufferInv
    <3>4. SUFFICES ASSUME NEW u \in VM, NEW n \in 1 .. Len(received'[u])
                   PROVE  Entry(received'[u][n])
      OBVIOUS
    <3>5. /\ Len(received[u]) \in Nat
          /\ received'[u] = IF u = v THEN Append(received[v], m) ELSE received[u]
      BY <3>2 DEF TypeOK
    <3> HIDE DEF m, Entry
    <3>6. CASE u = v /\ n = Len(received[v]) + 1
      BY <3>3, <3>5, <3>6
    <3>7. CASE ~ (u = v /\ n = Len(received[v]) + 1)
      <4>1. n \in 1 .. Len(received[u]) /\ received'[u][n] = received[u][n]
        BY <3>5, <3>7
      <4>2. QED
        BY <4>1
    <3>8. QED
      BY <3>6, <3>7
  <2>2. CASE UNCHANGED received
    BY <2>2
  <2>3. QED
    BY <2>1, <2>2 DEF Next, SendStep, ReadHandler, Load, Reset, SendX86, SendArm, CopyIn,
      Lock, RingPeer, TakeInterrupt, ReadBody, RingBack, WriteHandler, history, vars
<1>3. Entries => NewerByOne
  <2> SUFFICES ASSUME Entries, NEW v \in VM, NEW n \in 1 .. Len(received[v]),
                      received[v][n].of[1] = x86 /\ received[v][n].of[2][1] = 1,
                      NEW w \in WordIndex
               PROVE  received[v][n].words[w] \in
                        {<<x86, 1, received[v][n].of[2][2]>>,
                         <<x86, 1, received[v][n].of[2][2] + 1>>} \cup ({arm} \X {1} \X Nat)
    BY DEF NewerByOne
  <2>1. Near(received[v][n].words[w], received[v][n].of[2][2])
    OBVIOUS
  <2>2. \A y \in Nat : <<arm, 1, y>> \in {arm} \X {1} \X Nat
    OBVIOUS
  <2>3. FromArm(received[v][n].words[w]) =>
           received[v][n].words[w] \in {arm} \X {1} \X Nat
    BY <2>2 DEF FromArm
  <2> HIDE DEF Entries
  <2>4. QED
    BY <2>1, <2>3 DEF Near
<1>4. QED
  BY <1>1, <1>2, <1>3, StateTypes, DoorbellTypeCorrect, TokenCorrect, MeetCorrect,
     BufferCorrect, PTL DEF Spec
=============================================================================
