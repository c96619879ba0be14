-------------------------- MODULE RingIndexProofs --------------------------
(***************************************************************************)
(* Proofs about RingIndex: what & computes, for every argument.  They are  *)
(* by induction, in the form that a counterexample would have a least one: *)
(* the sets 0 .. n are finite, and strict inclusion of finite sets is well *)
(* founded.                                                                *)
(***************************************************************************)
EXTENDS RingIndex, FiniteSetTheorems, TLAPS

\* Every set of naturals that is not empty has a least element.
LEMMA Least ==
  ASSUME NEW T \in SUBSET Nat, T # {}
  PROVE  \E n \in T : \A m \in T : n <= m
<1> DEFINE U == {0 .. n : n \in T}
           R == StrictSubsetOrdering(Nat)
<1>1. U \subseteq FiniteSubsetsOf(Nat) /\ U # {}
  <2>1. \A n \in T : 0 .. n \subseteq Nat /\ IsFiniteSet(0 .. n)
    BY FS_Interval
  <2>2. QED
    BY <2>1 DEF FiniteSubsetsOf
<1>2. ASSUME NEW n \in T, NEW m \in T, m < n PROVE <<0 .. m, 0 .. n>> \in R
  <2>1. 0 .. m \subseteq 0 .. n /\ n \in 0 .. n /\ n \notin 0 .. m
    BY <1>2
  <2>2. 0 .. n \in SUBSET Nat /\ 0 .. m \in SUBSET Nat /\ 0 .. n # 0 .. m
    BY <2>1
  <2>3. QED
    BY <2>1, <2>2 DEF StrictSubsetOrdering
<1>3. IsWellFoundedOn(R, FiniteSubsetsOf(Nat))
  BY FS_StrictSubsetOrderingWellFounded
<1>4. PICK X \in U : \A Y \in U : ~ (<<Y, X>> \in R)
  <2> HIDE DEF U, R
  <2> QED
    BY <1>1, <1>3, WFMin
<1>5. PICK n \in T : X = 0 .. n
  BY <1>4
<1>6. \A m \in T : ~ (m < n)
  <2> TAKE m \in T
  <2>1. 0 .. m \in U
    OBVIOUS
  <2>2. ~ (<<0 .. m, 0 .. n>> \in R)
    BY <1>4, <1>5, <2>1
  <2> HIDE DEF U, R
  <2>3. QED
    BY <1>2, <2>2
<1>7. QED
  BY <1>6

\* The half of a number and the rest, and the number with a given half and rest.
LEMMA Halves ==
  \A a \in Nat : /\ a \div 2 \in Nat /\ (a # 0 => a \div 2 < a)
                 /\ a % 2 \in {0, 1} /\ a = 2 * (a \div 2) + (a % 2)
OBVIOUS

LEMMA Doubles ==
  \A a \in Nat : /\ 2 * a \in Nat /\ (2 * a) \div 2 = a /\ (2 * a) % 2 = 0
                 /\ 2 * a + 1 \in Nat /\ (2 * a + 1) \div 2 = a /\ (2 * a + 1) % 2 = 1
OBVIOUS

-----------------------------------------------------------------------------
(* The function that BitAnd defines exists *)

\* One step of the recursion, with g for the function.
Bit(a, b) == IF a % 2 = 1 /\ b % 2 = 1 THEN 1 ELSE 0
Step(g, a, b) == IF a = 0 \/ b = 0 THEN 0 ELSE 2 * g[<<a \div 2, b \div 2>>] + Bit(a, b)

\* g is the function for first arguments up to n.
UpTo(n, g) ==
  /\ g \in [(0 .. n) \X Nat -> Nat]
  /\ \A a \in 0 .. n, b \in Nat : g[<<a, b>>] = Step(g, a, b)

\* Two such functions agree.
LEMMA UpToIsUnique ==
  ASSUME NEW n \in Nat, NEW m \in Nat, NEW f, NEW g, UpTo(n, f), UpTo(m, g)
  PROVE  \A a \in Nat, b \in Nat : a <= n /\ a <= m => f[<<a, b>>] = g[<<a, b>>]
<1> DEFINE Wrong(a) == a <= n /\ a <= m /\ \E b \in Nat : f[<<a, b>>] # g[<<a, b>>]
           T == {a \in Nat : Wrong(a)}
<1>1. SUFFICES ASSUME T # {} PROVE FALSE
  OBVIOUS
<1>2. PICK a \in T : \A c \in T : a <= c
  <2> HIDE DEF T
  <2>1. T \in SUBSET Nat
    BY DEF T
  <2>2. QED
    BY <1>1, <2>1, Least
<1>3. a \in Nat /\ a <= n /\ a <= m /\ a \in 0 .. n /\ a \in 0 .. m
  BY <1>2
<1>4. PICK b \in Nat : f[<<a, b>>] # g[<<a, b>>]
  BY <1>2
<1>5. f[<<a, b>>] = Step(f, a, b) /\ g[<<a, b>>] = Step(g, a, b)
  BY <1>3 DEF UpTo
<1>6. a # 0 /\ b # 0
  BY <1>4, <1>5 DEF Step
<1>7. a \div 2 \in Nat /\ a \div 2 < a /\ b \div 2 \in Nat
  BY <1>3, <1>6, Halves
<1>8. ~ Wrong(a \div 2)
  BY <1>2, <1>3, <1>7
<1>9. f[<<a \div 2, b \div 2>>] = g[<<a \div 2, b \div 2>>]
  BY <1>3, <1>7, <1>8
<1>10. QED
  BY <1>4, <1>5, <1>9 DEF Step

\* There is one for each n.
LEMMA UpToExists == \A n \in Nat : \E g : UpTo(n, g)
<1> DEFINE T == {n \in Nat : ~ \E g : UpTo(n, g)}
<1>1. SUFFICES ASSUME T # {} PROVE FALSE
  OBVIOUS
<1>2. PICK n \in T : \A m \in T : n <= m
  <2> HIDE DEF T
  <2>1. T \in SUBSET Nat
    BY DEF T
  <2>2. QED
    BY <1>1, <2>1, Least
<1>3. n \in Nat /\ ~ \E g : UpTo(n, g)
  BY <1>2
<1>4. CASE n = 0
  <2> DEFINE g == [p \in (0 .. n) \X Nat |-> 0]
  <2>1. UpTo(n, g)
    <3>1. \A a \in 0 .. n : a = 0
      BY <1>4
    <3>2. QED
      BY <3>1 DEF UpTo, Step
  <2>2. QED
    BY <1>3, <2>1
<1>5. CASE n # 0
  <2>1. n - 1 \in Nat /\ ~ (n <= n - 1)
    BY <1>3, <1>5
  <2>2. PICK g : UpTo(n - 1, g)
    BY <1>2, <2>1
  <2> DEFINE k == [p \in (0 .. n) \X Nat |->
                     IF p[1] < n THEN g[p] ELSE Step(g, p[1], p[2])]
  <2>3. ASSUME NEW a \in 0 .. n, NEW b \in Nat
        PROVE  k[<<a, b>>] = IF a < n THEN g[<<a, b>>] ELSE Step(g, a, b)
    OBVIOUS
  <2>4. ASSUME NEW a \in 0 .. n, NEW b \in Nat PROVE k[<<a, b>>] = Step(g, a, b)
    <3>1. CASE a < n
      <4>1. a \in 0 .. n - 1
        BY <1>3, <3>1
      <4>2. QED
        BY <2>2, <2>3, <3>1, <4>1 DEF UpTo
    <3>2. QED
      BY <2>3, <3>1
  <2>5. ASSUME NEW a \in 0 .. n, NEW b \in Nat, a # 0, b # 0
        PROVE  /\ g[<<a \div 2, b \div 2>>] \in Nat
               /\ k[<<a \div 2, b \div 2>>] = g[<<a \div 2, b \div 2>>]
    <3>1. a \div 2 \in 0 .. n /\ a \div 2 < n /\ a \div 2 \in 0 .. n - 1 /\ b \div 2 \in Nat
      BY <1>3, <2>5, Halves
    <3>2. g[<<a \div 2, b \div 2>>] \in Nat
      BY <2>2, <3>1 DEF UpTo
    <3>3. QED
      BY <2>3, <3>1, <3>2
  <2> HIDE DEF k
  <2>6. ASSUME NEW a \in 0 .. n, NEW b \in Nat
        PROVE  k[<<a, b>>] = Step(k, a, b) /\ k[<<a, b>>] \in Nat
    BY <2>4, <2>5 DEF Step, Bit
  <2>7. k \in [(0 .. n) \X Nat -> Nat]
    <3>1. \A p \in (0 .. n) \X Nat : p = <<p[1], p[2]>> /\ p[1] \in 0 .. n /\ p[2] \in Nat
      OBVIOUS
    <3>2. \A p \in (0 .. n) \X Nat : k[p] \in Nat
      BY <2>6, <3>1
    <3>3. QED
      BY <3>2 DEF k
  <2>8. UpTo(n, k)
    BY <2>6, <2>7 DEF UpTo
  <2>9. QED
    BY <1>3, <2>8
<1>6. QED
  BY <1>4, <1>5

\* BitAnd satisfies the equation by which it is defined.
LEMMA BitAndStep ==
  \A a, b \in Nat : BitAnd[<<a, b>>] = Step(BitAnd, a, b)
<1> DEFINE G(a) == CHOOSE g : UpTo(a, g)
           f == [p \in Nat \X Nat |-> G(p[1])[p]]
           Rec(e) == [p \in Nat \X Nat |->
                        IF p[1] = 0 \/ p[2] = 0 THEN 0
                        ELSE 2 * e[<<p[1] \div 2, p[2] \div 2>>]
                             + (IF p[1] % 2 = 1 /\ p[2] % 2 = 1 THEN 1 ELSE 0)]
<1>1. \A a \in Nat : UpTo(a, G(a))
  BY UpToExists
<1> HIDE DEF G
<1>2. ASSUME NEW a \in Nat, NEW b \in Nat
      PROVE  f[<<a, b>>] = Step(f, a, b) /\ f[<<a, b>>] \in Nat
  <2>1. \A c, d \in Nat : f[<<c, d>>] = G(c)[<<c, d>>]
    OBVIOUS
  <2>2. a \in 0 .. a
    OBVIOUS
  <2>3. G(a)[<<a, b>>] \in Nat /\ G(a)[<<a, b>>] = Step(G(a), a, b)
    BY <1>1, <2>2 DEF UpTo
  <2>4. ASSUME a # 0
        PROVE  G(a)[<<a \div 2, b \div 2>>] = f[<<a \div 2, b \div 2>>]
    <3>1. a \div 2 \in Nat /\ a \div 2 <= a /\ b \div 2 \in Nat
      BY <2>4, Halves
    <3>2. UpTo(a, G(a)) /\ UpTo(a \div 2, G(a \div 2))
      BY <1>1, <3>1
    <3>3. G(a)[<<a \div 2, b \div 2>>] = G(a \div 2)[<<a \div 2, b \div 2>>]
      BY <3>1, <3>2, UpToIsUnique
    <3>4. QED
      BY <2>1, <3>1, <3>3
  <2> HIDE DEF f
  <2>5. QED
    BY <2>1, <2>3, <2>4 DEF Step
<1>3. f = Rec(f)
  <2>1. \A p \in Nat \X Nat : p = <<p[1], p[2]>> /\ p[1] \in Nat /\ p[2] \in Nat
    OBVIOUS
  <2>2. \A p \in Nat \X Nat : f[p] = Rec(f)[p]
    <3> HIDE DEF f
    <3> QED
      BY <1>2, <2>1 DEF Step, Bit
  <2>3. DOMAIN f = Nat \X Nat /\ f = [p \in Nat \X Nat |-> f[p]]
    OBVIOUS
  <2> HIDE DEF f
  <2>4. QED
    BY <2>2, <2>3
<1>4. BitAnd = Rec(BitAnd)
  <2> HIDE DEF f
  <2>1. \E e : e = Rec(e)
    BY <1>3
  <2>2. QED
    BY <2>1 DEF BitAnd
<1>5. ASSUME NEW a \in Nat, NEW b \in Nat
      PROVE  BitAnd[<<a, b>>] = Step(BitAnd, a, b)
  BY <1>4 DEF Step, Bit
<1>6. QED
  BY <1>5

\* Where neither argument is 0, & goes bit by bit.
LEMMA BitAndHalves ==
  ASSUME NEW a \in Nat, NEW b \in Nat, a # 0, b # 0
  PROVE  BitAnd[<<a, b>>] = 2 * BitAnd[<<a \div 2, b \div 2>>] + Bit(a, b)
BY BitAndStep DEF Step

-----------------------------------------------------------------------------
(* What the mask does to an index *)

\* a & b is at most b.
LEMMA BitAndBound == \A a, b \in Nat : BitAnd[<<a, b>>] \in 0 .. b
<1> DEFINE T == {a \in Nat : \E b \in Nat : BitAnd[<<a, b>>] \notin 0 .. b}
<1>1. SUFFICES ASSUME T # {} PROVE FALSE
  OBVIOUS
<1>2. PICK a \in T : \A c \in T : a <= c
  <2> HIDE DEF T
  <2>1. T \in SUBSET Nat
    BY DEF T
  <2>2. QED
    BY <1>1, <2>1, Least
<1>3. PICK b \in Nat : BitAnd[<<a, b>>] \notin 0 .. b
  BY <1>2
<1>4. BitAnd[<<a, b>>] = Step(BitAnd, a, b)
  BY BitAndStep
<1>5. a # 0 /\ b # 0
  BY <1>3, <1>4 DEF Step
<1>6. /\ a \div 2 \in Nat /\ a \div 2 < a
      /\ b \div 2 \in Nat /\ b % 2 \in {0, 1} /\ b = 2 * (b \div 2) + (b % 2)
  BY <1>5, Halves
<1>7. BitAnd[<<a \div 2, b \div 2>>] \in 0 .. b \div 2
  <2>1. a \div 2 \notin T
    BY <1>2, <1>6
  <2>2. QED
    BY <1>6, <2>1
<1>8. Bit(a, b) \in Nat /\ Bit(a, b) <= b % 2
  BY <1>6 DEF Bit
<1>9. \A x, y, z, u \in Nat : x <= y /\ z <= u => 2 * x + z \in 0 .. 2 * y + u
  OBVIOUS
<1>10. 2 * BitAnd[<<a \div 2, b \div 2>>] + Bit(a, b) \in 0 .. b
  <2> DEFINE x == BitAnd[<<a \div 2, b \div 2>>]  y == b \div 2  z == Bit(a, b)  u == b % 2
  <2>1. x \in Nat /\ y \in Nat /\ z \in Nat /\ u \in Nat /\ x <= y /\ z <= u /\ b = 2 * y + u
    BY <1>6, <1>7, <1>8
  <2> HIDE DEF x, y, z, u
  <2>2. 2 * x + z \in 0 .. b
    BY <1>9, <2>1
  <2>3. QED
    BY <2>2 DEF x, z
<1>11. QED
  BY <1>3, <1>4, <1>5, <1>10 DEF Step

\* enq_send and deq_send never leave the ring: a masked index is one of its slots,
\* for every depth, whether it is a power of two or not.
THEOREM MaskStays == \A s \in Slots : NextSlot(s) \in Slots
<1> SUFFICES ASSUME NEW s \in Slots PROVE NextSlot(s) \in Slots
  OBVIOUS
<1>1. s + 1 \in Nat /\ MAX_SEND_DEPTH - 1 \in Nat
  BY DepthAssumption DEF Slots
<1>2. QED
  BY <1>1, BitAndBound DEF NextSlot, Slots

\* Masking twice is masking once.
LEMMA BitAndTwice == \A a, b \in Nat : BitAnd[<<BitAnd[<<a, b>>], b>>] = BitAnd[<<a, b>>]
<1> DEFINE M(a, b) == BitAnd[<<a, b>>]
           T == {a \in Nat : \E b \in Nat : M(M(a, b), b) # M(a, b)}
<1>1. SUFFICES ASSUME T # {} PROVE FALSE
  OBVIOUS
<1>0. \A a, b \in Nat : M(a, b) \in Nat
  <2> TAKE a, b \in Nat
  <2>1. BitAnd[<<a, b>>] \in 0 .. b
    BY BitAndBound
  <2>2. QED
    BY <2>1
<1>2. PICK a \in T : \A c \in T : a <= c
  <2> HIDE DEF T
  <2>1. T \in SUBSET Nat
    BY DEF T
  <2>2. QED
    BY <1>1, <2>1, Least
<1>3. PICK b \in Nat : M(M(a, b), b) # M(a, b)
  BY <1>2
<1>4. M(a, b) = Step(BitAnd, a, b)
  BY BitAndStep
<1>5. M(0, b) = 0
  BY BitAndStep DEF Step
<1>6. a # 0 /\ b # 0
  BY <1>3, <1>4, <1>5 DEF Step
<1> DEFINE x == a \div 2  y == b \div 2  e == Bit(a, b)
<1>7. x \in Nat /\ x < a /\ y \in Nat /\ e \in {0, 1}
  BY <1>6, Halves DEF Bit
<1>8. M(M(x, y), y) = M(x, y) /\ M(x, y) \in Nat
  <2>1. x \notin T
    BY <1>2, <1>7
  <2>2. QED
    BY <1>0, <1>7, <2>1
<1>9. M(a, b) = 2 * M(x, y) + e
  BY <1>4, <1>6 DEF Step
<1>10. M(a, b) \in Nat /\ M(a, b) \div 2 = M(x, y) /\ M(a, b) % 2 = e
  <2> DEFINE z == M(x, y)
  <2>1. z \in Nat /\ M(a, b) = 2 * z + e
    BY <1>8, <1>9
  <2> HIDE DEF z, e
  <2>2. (e = 0 => M(a, b) = 2 * z) /\ (e = 1 => M(a, b) = 2 * z + 1)
    BY <2>1
  <2> HIDE DEF M
  <2>3. M(a, b) \in Nat /\ M(a, b) \div 2 = z /\ M(a, b) % 2 = e
    BY <1>7, <2>1, <2>2, Doubles
  <2>4. QED
    BY <2>3 DEF z
<1>11. Bit(M(a, b), b) = e
  BY <1>10 DEF Bit
<1>12. M(M(a, b), b) = Step(BitAnd, M(a, b), b)
  BY <1>10, BitAndStep
<1>13. CASE M(a, b) = 0
  BY <1>3, <1>5, <1>13
<1>14. CASE M(a, b) # 0
  <2>1. M(M(a, b), b) = 2 * M(M(x, y), y) + e
    BY <1>6, <1>10, <1>11, <1>12, <1>14 DEF Step
  <2>2. QED
    BY <1>3, <1>8, <1>9, <2>1
<1>15. QED
  BY <1>13, <1>14

-----------------------------------------------------------------------------
(* Powers of two *)

\* 1, 2, 4 and so on: what is in every set that has 1 and the double of each of
\* its numbers.
Doubling(S) == 1 \in S /\ \A d \in S : 2 * d \in S
PowersOfTwo == {d \in Nat \ {0} : \A S \in SUBSET Nat : Doubling(S) => d \in S}

\* A mask that keeps each smaller number, and one that wraps the next number.
Keeps(d) == \A s \in 0 .. d - 1 : BitAnd[<<s, d - 1>>] = s
Wraps(d) == \A s \in 0 .. d - 1 : BitAnd[<<s + 1, d - 1>>] = IF s = d - 1 THEN 0 ELSE s + 1

\* Powers of two wrap: from d to 2 * d, where the last bit is masked with 1.
LEMMA PowersWrap == \A d \in PowersOfTwo : Wraps(d)
<1> DEFINE S == {d \in Nat \ {0} : Wraps(d)}
<1>1. 1 \in S
  <2>1. BitAnd[<<1, 0>>] = 0
    BY BitAndStep DEF Step
  <2>2. \A s \in 0 .. 1 - 1 : s = 0
    OBVIOUS
  <2>3. QED
    BY <2>1, <2>2 DEF Wraps
<1>2. ASSUME NEW d \in S PROVE 2 * d \in S
  <2>1. d \in Nat /\ d # 0 /\ Wraps(d)
    BY <1>2
  <2>2. d - 1 \in Nat /\ 2 * d \in Nat \ {0} /\ 2 * d - 1 \in Nat /\ 2 * d - 1 # 0
        /\ 2 * d - 1 = 2 * (d - 1) + 1
    BY <2>1
  <2>3. (2 * d - 1) \div 2 = d - 1 /\ (2 * d - 1) % 2 = 1
    BY <2>2, Doubles
  <2>4. ASSUME NEW t \in 0 .. 2 * d - 1
        PROVE  BitAnd[<<t + 1, 2 * d - 1>>] = IF t = 2 * d - 1 THEN 0 ELSE t + 1
    <3>1. t + 1 \in Nat /\ t + 1 # 0
      BY <2>2
    <3>2. Bit(t + 1, 2 * d - 1) = (t + 1) % 2
      BY <2>3, <3>1, Halves DEF Bit
    <3> DEFINE x == (t + 1) \div 2  u == (t + 1) % 2
    <3>3. BitAnd[<<t + 1, 2 * d - 1>>] = 2 * BitAnd[<<x, d - 1>>] + u
      <4>1. BitAnd[<<t + 1, 2 * d - 1>>]
              = 2 * BitAnd[<<x, (2 * d - 1) \div 2>>] + Bit(t + 1, 2 * d - 1)
        BY <2>2, <3>1, BitAndHalves
      <4>2. QED
        BY <2>3, <3>2, <4>1
    <3>4. x \in Nat /\ u \in {0, 1} /\ t + 1 = 2 * x + u
      BY <3>1, Halves
    <3> HIDE DEF x, u
    <3>5. CASE x = 0
      <4>1. BitAnd[<<x, d - 1>>] = 0
        BY <2>2, <3>5, BitAndStep DEF Step
      <4>2. BitAnd[<<t + 1, 2 * d - 1>>] = t + 1 /\ t + 1 = 1
        BY <3>1, <3>4, <3>5, <3>3, <4>1
      <4>3. QED
        BY <2>2, <4>2
    <3>6. CASE x # 0
      <4>1. x - 1 \in 0 .. d - 1 /\ (x - 1) + 1 = x
        BY <2>1, <3>4, <3>6
      <4>2. BitAnd[<<x, d - 1>>] = IF x - 1 = d - 1 THEN 0 ELSE x
        BY <2>1, <4>1 DEF Wraps
      <4>4. CASE x = d
        <5>1. t = 2 * d - 1 /\ u = 0
          BY <2>1, <3>4, <4>4
        <5>2. BitAnd[<<x, d - 1>>] = 0
          BY <4>2, <4>4
        <5>3. QED
          BY <3>3, <5>1, <5>2
      <4>5. CASE x # d
        <5>1. BitAnd[<<x, d - 1>>] = x
          BY <2>1, <3>4, <4>2, <4>5
        <5>2. t # 2 * d - 1
          BY <2>1, <3>4, <4>1, <4>5
        <5>3. QED
          BY <3>4, <3>3, <5>1, <5>2
      <4>6. QED
        BY <4>4, <4>5
    <3>7. QED
      BY <3>5, <3>6
  <2>5. QED
    BY <2>2, <2>4 DEF Wraps
<1>3. S \in SUBSET Nat /\ Doubling(S)
  <2> HIDE DEF S
  <2>1. S \in SUBSET Nat
    BY DEF S
  <2>2. QED
    BY <1>1, <1>2, <2>1 DEF Doubling
<1>4. QED
  <2>1. \A d \in PowersOfTwo : d \in S
    <3> HIDE DEF S
    <3> QED
      BY <1>3 DEF PowersOfTwo
  <2>2. QED
    BY <2>1

\* A depth whose mask keeps each smaller number is a power of two: the last bit of
\* the mask is set unless it is 0, and the other bits keep the halves.
LEMMA KeepersArePowers == \A d \in Nat \ {0} : Keeps(d) => d \in PowersOfTwo
<1> DEFINE T == {d \in Nat \ {0} : Keeps(d) /\ d \notin PowersOfTwo}
<1>1. SUFFICES ASSUME T # {} PROVE FALSE
  OBVIOUS
<1>2. PICK d \in T : \A e \in T : d <= e
  <2> HIDE DEF T
  <2>1. T \in SUBSET Nat
    BY DEF T
  <2>2. QED
    BY <1>1, <2>1, Least
<1>3. d \in Nat /\ d # 0 /\ Keeps(d) /\ d \notin PowersOfTwo
  BY <1>2
<1>4. d # 1
  BY <1>3 DEF PowersOfTwo, Doubling
<1>5. d - 1 \in Nat /\ d - 1 # 0 /\ 1 \in 0 .. d - 1
  BY <1>3, <1>4
<1>6. (d - 1) % 2 = 1
  <2>1. BitAnd[<<1, d - 1>>] = 1
    BY <1>3, <1>5 DEF Keeps
  <2>2. BitAnd[<<1, d - 1>>] = 2 * BitAnd[<<1 \div 2, (d - 1) \div 2>>] + Bit(1, d - 1)
    BY <1>5, BitAndHalves
  <2>3. 1 \div 2 = 0 /\ (d - 1) \div 2 \in Nat
    BY <1>5, Halves
  <2>4. BitAnd[<<0, (d - 1) \div 2>>] = 0
    BY <2>3, BitAndStep DEF Step
  <2>5. Bit(1, d - 1) = 1
    BY <2>1, <2>2, <2>3, <2>4 DEF Bit
  <2>6. QED
    BY <2>5 DEF Bit
<1> DEFINE e == ((d - 1) \div 2) + 1
<1>7. e \in Nat /\ e # 0 /\ d = 2 * e /\ e < d /\ e - 1 = (d - 1) \div 2
  <2>1. (d - 1) \div 2 \in Nat /\ d - 1 = 2 * ((d - 1) \div 2) + 1
    BY <1>5, <1>6, Halves
  <2>2. QED
    BY <1>3, <2>1
<1> HIDE DEF e
<1>8. Keeps(e)
  <2> SUFFICES ASSUME NEW s \in 0 .. e - 1 PROVE BitAnd[<<s, e - 1>>] = s
    BY DEF Keeps
  <2>1. s \in Nat /\ e - 1 \in Nat /\ 2 * s \in 0 .. d - 1
    BY <1>7
  <2>2. CASE s = 0
    BY <2>1, <2>2, BitAndStep DEF Step
  <2>3. CASE s # 0
    <3>1. BitAnd[<<2 * s, d - 1>>] = 2 * s
      BY <1>3, <2>1 DEF Keeps
    <3>2. 2 * s \in Nat /\ 2 * s # 0 /\ (2 * s) \div 2 = s /\ (2 * s) % 2 = 0
      BY <2>1, <2>3, Doubles
    <3>3. BitAnd[<<2 * s, d - 1>>] = 2 * BitAnd[<<s, e - 1>>] + Bit(2 * s, d - 1)
      BY <1>5, <1>7, <3>2, BitAndStep DEF Step
    <3>4. Bit(2 * s, d - 1) = 0
      BY <3>2 DEF Bit
    <3>5. BitAnd[<<s, e - 1>>] \in Nat
      BY <2>1, BitAndBound
    <3>6. QED
      BY <2>1, <3>1, <3>3, <3>4, <3>5
  <2>4. QED
    BY <2>2, <2>3
<1>9. e \in PowersOfTwo
  BY <1>2, <1>3, <1>7, <1>8
<1>10. d \in PowersOfTwo
  BY <1>3, <1>7, <1>9 DEF PowersOfTwo, Doubling
<1>11. QED
  BY <1>3, <1>10

\* The mask of enq_send and deq_send is the remainder that it stands for exactly
\* when the depth is a power of two, as 1024 is, and 100 and 10 are not.
THEOREM WrapsForPowersOnly == WrapsAtDepth <=> MAX_SEND_DEPTH \in PowersOfTwo
<1> DEFINE D == MAX_SEND_DEPTH
<1>0. D \in Nat \ {0} /\ D - 1 \in Nat
  BY DepthAssumption
<1>1. WrapsAtDepth <=> Wraps(D)
  BY DEF WrapsAtDepth, Wraps, NextSlot, Slots
<1>2. ASSUME Wraps(D) PROVE Keeps(D)
  <2> SUFFICES ASSUME NEW s \in 0 .. D - 1 PROVE BitAnd[<<s, D - 1>>] = s
    BY DEF Keeps
  <2>1. CASE s = 0
    BY <1>0, <2>1, BitAndStep DEF Step
  <2>2. CASE s # 0
    <3>1. s - 1 \in 0 .. D - 1 /\ (s - 1) + 1 = s /\ s - 1 # D - 1
      BY <1>0, <2>2
    <3>2. QED
      BY <1>2, <3>1 DEF Wraps
  <2>3. QED
    BY <2>1, <2>2
<1>3. QED
  BY <1>0, <1>1, <1>2, PowersWrap, KeepersArePowers

\* With any other depth there is a slot that no index ever reaches, though q_full
\* admits as many messages as there are slots.
THEOREM SlotUnused ==
  ASSUME MAX_SEND_DEPTH \notin PowersOfTwo
  PROVE  \E s \in Slots : \A t \in Slots : NextSlot(t) # s
<1> DEFINE D == MAX_SEND_DEPTH
<1>0. D \in Nat \ {0} /\ D - 1 \in Nat
  BY DepthAssumption
<1>1. PICK s \in 0 .. D - 1 : BitAnd[<<s, D - 1>>] # s
  BY <1>0, KeepersArePowers DEF Keeps
<1>2. ASSUME NEW t \in Slots PROVE NextSlot(t) # s
  <2>1. t + 1 \in Nat
    BY <1>0 DEF Slots
  <2>2. QED
    BY <1>0, <1>1, <2>1, BitAndTwice DEF NextSlot
<1>3. QED
  BY <1>1, <1>2 DEF Slots
=============================================================================
