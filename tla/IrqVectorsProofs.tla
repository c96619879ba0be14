-------------------------- MODULE IrqVectorsProofs --------------------------
(***************************************************************************)
(* Proofs about IrqVectors, for any number of vectors and of loads.        *)
(***************************************************************************)
EXTENDS IrqVectors, TLAPS

LEMMA VectorFacts ==
  /\ 0 \in 0 .. nvectors /\ 0 \in 0 .. MaxLoads
  /\ 0 \in Vectors /\ nvectors - 1 \in Vectors /\ Vectors \subseteq Nat
  /\ \A q \in Vectors : q + 1 \in 0 .. nvectors /\ (q # nvectors - 1 => q + 1 \in Vectors)
BY VectorsAssumption, LoadsAssumption DEF Vectors

-----------------------------------------------------------------------------
(* Where insmod and rmmod are, and what is set up there *)

Owned == {"request", "ring", "unmap", "release", "loaded", "free", "disable", "dead"}
Mapped == {"vectors", "request", "ring", "unmap", "dead"}
Unloading == {"loaded", "free", "disable"}

PhaseInv ==
  /\ pc # "absent" => loads > 0
  /\ pc = "request" => i \in Vectors /\ msix
  /\ pc \in {"free", "disable"} => prog = "check"
  /\ pc \in Owned => \A q \in registered : handlers[q] = loads
  /\ registered # {} => msix \/ pc = "dead"
  /\ pc \in Mapped => mapped
  /\ regions => pc \in (Mapped \cup {"release"}) \/ (prog = "check" /\ pc \in Unloading)
  /\ pc = "failed" => ~ regions
  /\ prog = "check" =>
       /\ pc \notin {"request", "ring", "loaded", "free", "disable", "dead"} =>
             registered = {} /\ ~ msix
       /\ pc \in Unloading => mapped
       /\ mapped => pc \in Mapped \cup Unloading
       /\ enabled => pc \notin {"absent", "failed", "gone", "enable"}
  /\ (prog = "second" /\ ~ unmaps) =>
       /\ pc \notin {"release", "loaded", "gone"}
       /\ registered # {} => pc \in Mapped \ {"vectors"}

\* A process in insmod has begun a load, and requests vectors there are.
CountInv ==
  /\ loads \in 0 .. MaxLoads /\ i \in 0 .. nvectors
  /\ pc # "absent" => loads > 0
  /\ pc = "request" => i \in Vectors

\* The counters of insmod stay in bounds.
LEMMA StepCorrect == Spec => []CountInv
<1> USE VectorFacts, LoadsAssumption
<1>1. Init => CountInv
  BY VectorsAssumption DEF Init, CountInv
<1>2. CountInv /\ [Next]_vars => CountInv'
  <2> SUFFICES ASSUME CountInv, [Next]_vars PROVE CountInv'
    OBVIOUS
  <2> USE DEF CountInv, process, device, interrupts
  <2>1. CASE Insmod
    BY <2>1 DEF Insmod
  <2>2. CASE EnableDevice
    BY <2>2 DEF EnableDevice
  <2>3. CASE RequestRegions
    BY <2>3 DEF RequestRegions
  <2>4. CASE RegionsFail
    BY <2>4 DEF RegionsFail
  <2>5. CASE AllocVectors
    BY <2>5 DEF AllocVectors
  <2>6. CASE AllocVectorsFails
    BY <2>6 DEF AllocVectorsFails
  <2>7. CASE RequestIrq
    BY <2>7 DEF RequestIrq
  <2>8. CASE RequestIrqFails
    BY <2>8 DEF RequestIrqFails, TakeVectors
  <2>9. CASE RingDoorbells
    BY <2>9 DEF RingDoorbells
  <2>10. CASE Rmmod
    BY <2>10 DEF Rmmod
  <2>11. CASE FreeIrqs
    BY <2>11 DEF FreeIrqs
  <2>12. CASE DisableMsix
    BY <2>12 DEF DisableMsix, TakeVectors
  <2>13. CASE Unmap
    BY <2>13 DEF Unmap
  <2>14. CASE Release
    BY <2>14 DEF Release
  <2>15. ASSUME NEW q \in Vectors, PeerRings(q) PROVE CountInv'
    BY <2>15 DEF PeerRings
  <2>16. ASSUME NEW q \in Vectors, TakeInterrupt(q) PROVE CountInv'
    BY <2>16 DEF TakeInterrupt
  <2>17. ASSUME NEW q \in Vectors, HandlerReads(q) PROVE CountInv'
    BY <2>17 DEF HandlerReads, Loaded
  <2>18. CASE UNCHANGED vars
    BY <2>18 DEF vars
  <2>19. QED
    BY <2>1, <2>2, <2>3, <2>4, <2>5, <2>6, <2>7, <2>8, <2>9, <2>10, <2>11,
    <2>12, <2>13, <2>14, <2>15, <2>16, <2>17, <2>18
    DEF Next, Load, Unload, Interrupt
<1>3. QED
  BY <1>1, <1>2, PTL DEF Spec

\* Every variable keeps its type, and a handler that runs is one that was
\* registered.
THEOREM IrqTypeCorrect == Spec => []TypeOK
<1> USE VectorFacts
<1>1. Init => TypeOK
  BY VectorsAssumption DEF Init, TypeOK, registered
<1>2. CountInv /\ TypeOK /\ [Next]_vars => TypeOK'
  <2> SUFFICES ASSUME CountInv, TypeOK, [Next]_vars PROVE TypeOK'
    OBVIOUS
  <2> USE DEF TypeOK, CountInv, process, device, interrupts, registered
  <2>1. CASE Insmod
    BY <2>1, LoadsAssumption DEF Insmod
  <2>2. CASE EnableDevice
    BY <2>2 DEF EnableDevice
  <2>3. CASE RequestRegions
    BY <2>3 DEF RequestRegions
  <2>4. CASE RegionsFail
    BY <2>4 DEF RegionsFail
  <2>5. CASE AllocVectors
    BY <2>5 DEF AllocVectors
  <2>6. CASE AllocVectorsFails
    BY <2>6 DEF AllocVectorsFails
  <2>7. CASE RequestIrq
    BY <2>7 DEF RequestIrq
  <2>8. CASE RequestIrqFails
    BY <2>8 DEF RequestIrqFails, TakeVectors
  <2>9. CASE RingDoorbells
    BY <2>9 DEF RingDoorbells
  <2>10. CASE Rmmod
    BY <2>10 DEF Rmmod
  <2>11. CASE FreeIrqs
    BY <2>11 DEF FreeIrqs
  <2>12. CASE DisableMsix
    BY <2>12 DEF DisableMsix, TakeVectors
  <2>13. CASE Unmap
    BY <2>13 DEF Unmap
  <2>14. CASE Release
    BY <2>14 DEF Release
  <2>15. ASSUME NEW q \in Vectors, PeerRings(q) PROVE TypeOK'
    BY <2>15 DEF PeerRings
  <2>16. ASSUME NEW q \in Vectors, TakeInterrupt(q) PROVE TypeOK'
    BY <2>16 DEF TakeInterrupt
  <2>17. ASSUME NEW q \in Vectors, HandlerReads(q) PROVE TypeOK'
    BY <2>17 DEF HandlerReads, Loaded
  <2>18. CASE UNCHANGED vars
    BY <2>18 DEF vars
  <2>19. QED
    BY <2>1, <2>2, <2>3, <2>4, <2>5, <2>6, <2>7, <2>8, <2>9, <2>10, <2>11,
    <2>12, <2>13, <2>14, <2>15, <2>16, <2>17, <2>18
    DEF Next, Load, Unload, Interrupt
<1>3. QED
  BY <1>1, <1>2, StepCorrect, PTL DEF Spec

\* Every step of insmod and rmmod finds what the steps before it left, also
\* those that failed.
LEMMA PhaseCorrect == Spec => []PhaseInv
<1> USE VectorFacts
<1>1. Init => PhaseInv
  BY DEF Init, PhaseInv, Owned, Mapped, Unloading, registered
<1>2. TypeOK /\ PhaseInv /\ [Next]_vars => PhaseInv'
  <2> SUFFICES ASSUME TypeOK, PhaseInv, [Next]_vars PROVE PhaseInv'
    OBVIOUS
  <2> USE DEF PhaseInv, Owned, Mapped, Unloading, process, device, interrupts, registered
  <2>1. CASE Insmod
    <3>1. loads \in Nat /\ loads + 1 > 0
      BY LoadsAssumption DEF TypeOK
    <3>2. QED
      BY <2>1, <3>1 DEF Insmod
  <2>2. CASE EnableDevice
    BY <2>2 DEF EnableDevice
  <2>3. CASE RequestRegions
    BY <2>3 DEF RequestRegions
  <2>4. CASE RegionsFail
    BY <2>4 DEF RegionsFail
  <2>5. CASE AllocVectors
    BY <2>5 DEF AllocVectors
  <2>6. CASE AllocVectorsFails
    BY <2>6 DEF AllocVectorsFails
  <2>7. CASE RequestIrq
    <3>1. i \in Vectors /\ loads > 0 /\ loads # 0
      BY <2>7, LoadsAssumption DEF RequestIrq, TypeOK, PhaseInv
    <3>2. \A q \in Vectors : handlers'[q] = IF q = i THEN loads ELSE handlers[q]
      BY <2>7 DEF RequestIrq, TypeOK
    <3>3. registered' = registered \cup {i} /\ \A q \in registered' : handlers'[q] = loads
      BY <2>7, <3>1, <3>2 DEF RequestIrq
    <3>4. i # nvectors - 1 => i + 1 \in Vectors
      BY <3>1
    <3>5. /\ pc = "request" /\ i' = i + 1 
          /\ pc' = (IF i = nvectors - 1 THEN "ring" ELSE "request")
          /\ UNCHANGED <<prog, loads, enabled, regions, mapped, msix, unmaps>>
      BY <2>7 DEF RequestIrq
    <3> HIDE DEF registered
    <3>6. QED
      BY <3>1, <3>3, <3>4, <3>5
  <2>8. CASE RequestIrqFails
    BY <2>8 DEF RequestIrqFails, TakeVectors
  <2>9. CASE RingDoorbells
    BY <2>9 DEF RingDoorbells
  <2>10. CASE Rmmod
    BY <2>10 DEF Rmmod
  <2>11. CASE FreeIrqs
    BY <2>11 DEF FreeIrqs
  <2>12. CASE DisableMsix
    BY <2>12 DEF DisableMsix, TakeVectors
  <2>13. CASE Unmap
    BY <2>13 DEF Unmap
  <2>14. CASE Release
    BY <2>14 DEF Release
  <2>15. ASSUME NEW q \in Vectors, PeerRings(q) PROVE PhaseInv'
    BY <2>15 DEF PeerRings
  <2>16. ASSUME NEW q \in Vectors, TakeInterrupt(q) PROVE PhaseInv'
    BY <2>16 DEF TakeInterrupt
  <2>17. ASSUME NEW q \in Vectors, HandlerReads(q) PROVE PhaseInv'
    BY <2>17 DEF HandlerReads, Loaded
  <2>18. CASE UNCHANGED vars
    BY <2>18 DEF vars
  <2>19. QED
    BY <2>1, <2>2, <2>3, <2>4, <2>5, <2>6, <2>7, <2>8, <2>9, <2>10, <2>11,
    <2>12, <2>13, <2>14, <2>15, <2>16, <2>17, <2>18
    DEF Next, Load, Unload, Interrupt
<1>3. QED
  BY <1>1, <1>2, IrqTypeCorrect, PTL DEF Spec

-----------------------------------------------------------------------------
(* The properties *)

\* In the check no handler reads the device or runs after these are gone, at
\* whatever step insmod failed; in second_phase.c not before initialize unmaps.
THEOREM ReadsMappedCorrect == Spec => []ReadsMapped
<1>1. Init => ReadsMapped
  BY DEF Init, ReadsMapped
<1>2. TypeOK /\ PhaseInv /\ ReadsMapped /\ [Next]_vars => ReadsMapped'
  <2> SUFFICES ASSUME TypeOK, PhaseInv, ReadsMapped, [Next]_vars PROVE ReadsMapped'
    OBVIOUS
  <2>1. ASSUME NEW q \in Vectors, HandlerReads(q) PROVE ReadsMapped'
    <3>1. UNCHANGED <<prog, unmaps>>
      BY <2>1 DEF HandlerReads, device
    <3>2. CASE prog = "second" /\ unmaps
      BY <3>1, <3>2 DEF ReadsMapped
    <3>3. CASE ~ (prog = "second" /\ unmaps)
      <4>1. q \in registered
        BY <2>1 DEF HandlerReads, TypeOK
      <4>2. pc \in (Mapped \cup Unloading) \ {"vectors"}
        BY <3>3, <4>1 DEF PhaseInv, TypeOK, Mapped, Unloading
      <4>3. mapped /\ Loaded /\ handlers[q] = loads
        BY <3>3, <4>1, <4>2 DEF PhaseInv, TypeOK, Mapped, Unloading, Owned, Loaded
      <4>4. oops' = oops
        BY <2>1, <4>3 DEF HandlerReads
      <4>5. QED
        BY <3>1, <4>4 DEF ReadsMapped
    <3>4. QED
      BY <3>2, <3>3
  <2>2. CASE UNCHANGED oops /\ (unmaps => unmaps') /\ UNCHANGED prog
    BY <2>2 DEF ReadsMapped
  <2>3. QED
    BY <2>1, <2>2 DEF Next, Load, Unload, Interrupt, vars, device, interrupts, process,
      Insmod, EnableDevice, RequestRegions, RegionsFail, AllocVectors,
      AllocVectorsFails, RequestIrq, RequestIrqFails, RingDoorbells, Rmmod, FreeIrqs,
      DisableMsix, Unmap, Release, PeerRings, TakeInterrupt
<1>3. QED
  BY <1>1, <1>2, IrqTypeCorrect, PhaseCorrect, PTL DEF Spec

\* A handler is registered only on a vector that the device has, or the process
\* that took the vectors is dead.
THEOREM VectorsBackedCorrect == Spec => []VectorsBacked
<1>1. PhaseInv => VectorsBacked
  BY DEF PhaseInv, VectorsBacked
<1>2. QED
  BY <1>1, PhaseCorrect, PTL

\* The check is never out of memory with a part of the device still set up, and
\* second_phase.c gives back the regions at least when it fails.
THEOREM NothingLeftCorrect == Spec => []NothingLeftBehind
<1>1. TypeOK /\ PhaseInv => NothingLeftBehind
  BY DEF TypeOK, PhaseInv, NothingLeftBehind, Loaded, Mapped, Unloading
<1>2. QED
  BY <1>1, IrqTypeCorrect, PhaseCorrect, PTL

\* One handler that was registered keeps the check loaded for ever.
THEOREM HandlersStayCorrect == Spec => HandlersStay
<1> USE VectorFacts
<1>1. TypeOK /\ PhaseInv /\ [Next]_vars => \A q \in registered : q \in registered'
  <2> SUFFICES ASSUME TypeOK, PhaseInv, [Next]_vars, NEW q \in registered
               PROVE  q \in registered'
    OBVIOUS
  <2>1. CASE RequestIrq
    <3>1. loads # 0
      BY <2>1, LoadsAssumption DEF RequestIrq, TypeOK, PhaseInv
    <3>2. QED
      BY <2>1, <3>1 DEF RequestIrq, TypeOK, registered
  <2>2. CASE UNCHANGED handlers
    BY <2>2 DEF registered
  <2>3. QED
    BY <2>1, <2>2 DEF Next, Load, Unload, Interrupt, vars, device, interrupts, process,
      Insmod, EnableDevice, RequestRegions, RegionsFail, AllocVectors,
      AllocVectorsFails, RequestIrqFails, RingDoorbells, Rmmod, FreeIrqs,
      DisableMsix, Unmap, Release, PeerRings, TakeInterrupt, HandlerReads
<1>2. [Next]_vars => prog' = prog
  BY DEF Next, Load, Unload, Interrupt, vars, device, interrupts, process,
      Insmod, EnableDevice, RequestRegions, RegionsFail, AllocVectors,
      AllocVectorsFails, RequestIrq, RequestIrqFails, RingDoorbells, Rmmod, FreeIrqs,
      DisableMsix, Unmap, Release, PeerRings, TakeInterrupt, HandlerReads
<1>3. PhaseInv' /\ prog' = "check" /\ registered' # {} => pc' # "gone"
  BY DEF PhaseInv
<1>4. TypeOK /\ PhaseInv /\ PhaseInv' /\ [Next]_vars =>
        [(prog = "check" /\ registered # {}) => (registered' # {} /\ pc' # "gone")]_vars
  BY <1>1, <1>2, <1>3
<1>5. QED
  BY <1>4, IrqTypeCorrect, PhaseCorrect, PTL DEF Spec, HandlersStay

\* While a handler of an earlier load of second_phase.c is registered, no insmod
\* of it succeeds.
THEOREM LoadsOnceCorrect == Spec => LoadsOnce
<1> DEFINE Older == prog = "second" /\ \E q \in registered : handlers[q] # loads
<1>1. PhaseInv /\ Older => pc \notin Owned
  BY DEF PhaseInv
<1>2. PhaseInv /\ Older /\ [Next]_vars => pc' # "loaded"
  <2> SUFFICES ASSUME pc \notin Owned, [Next]_vars PROVE pc' # "loaded"
    BY <1>1
  <2> USE DEF Owned
  <2>1. CASE UNCHANGED vars \/ Load
    BY <2>1 DEF vars, Load, Insmod, EnableDevice, RequestRegions, RegionsFail,
      AllocVectors, AllocVectorsFails, RequestIrq, RequestIrqFails, RingDoorbells
  <2>2. CASE Unload
    BY <2>2 DEF Unload, Rmmod, FreeIrqs, DisableMsix, Unmap, Release
  <2>3. ASSUME NEW q \in Vectors, Interrupt(q) PROVE pc' # "loaded"
    BY <2>3 DEF Interrupt, PeerRings, TakeInterrupt, HandlerReads, process
  <2>4. QED
    BY <2>1, <2>2, <2>3 DEF Next
<1>3. PhaseInv /\ [Next]_vars => [Older => pc' # "loaded"]_vars
  BY <1>2
<1>4. QED
  BY <1>3, PhaseCorrect, PTL DEF Spec, LoadsOnce
=============================================================================
