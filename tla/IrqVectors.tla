---------------------------- MODULE IrqVectors ----------------------------
(***************************************************************************)
(* The programs that try the interrupts of the device: the check of        *)
(* Checking_Interrupts_Presence (arm_side.c and x86_side.c, the same but   *)
(* for the doorbells that x86_side.c rings on load) and second_phase.c.    *)
(* insmod sets up the device, its MSI-X vectors and a handler per vector,  *)
(* each step may fail; rmmod takes them down, in the check in the reverse  *)
(* order and in second_phase.c not at all.  Meanwhile the peer rings.      *)
(*                                                                         *)
(* The kernel is as the programs use it: it refuses MSI-X for a device     *)
(* that has it, and MSI-X cannot be taken from a device while a handler is *)
(* registered on a vector, which is a BUG that kills the calling process.  *)
(***************************************************************************)
EXTENDS Naturals, FiniteSets

CONSTANTS nvectors,  \* 4 in the check, NUM_VECTOR = 2 in second_phase.c
          MaxLoads   \* bound on insmod

Vectors == 0 .. nvectors - 1

ASSUME VectorsAssumption == nvectors \in Nat \ {0}
ASSUME LoadsAssumption == MaxLoads \in Nat

VARIABLES
  prog,                    \* "check" or "second"
  pc, i, loads,            \* the process in insmod or rmmod; the vector it is at
  enabled, regions,        \* is the device enabled, are its regions ours,
  mapped, msix,            \* is it mapped, does it have MSI-X vectors
  handlers,                \* of each vector: the load whose handler it has, or 0
  pending, running,        \* vectors latched, handlers between start and read
  oops,                    \* history: what a handler used that was gone
  unmaps                   \* history: has the device ever been unmapped

process == <<pc, i, loads>>
device == <<enabled, regions, mapped, msix, unmaps>>
interrupts == <<pending, running, oops>>
vars == <<prog, pc, i, loads, enabled, regions, mapped, msix, unmaps, handlers,
          pending, running, oops>>

Init ==
  /\ prog \in {"check", "second"}
  /\ pc = "absent" /\ i = 0 /\ loads = 0
  /\ enabled = FALSE /\ regions = FALSE /\ mapped = FALSE /\ msix = FALSE
  /\ unmaps = FALSE
  /\ handlers = [q \in Vectors |-> 0]
  /\ pending = {} /\ running = {} /\ oops = {}

\* Is the code of the module in memory?  It is gone after rmmod and after an
\* insmod that returned an error; it stays if the process dies in between.
Loaded == pc \notin {"absent", "failed", "gone"}

registered == {q \in Vectors : handlers[q] # 0}

-----------------------------------------------------------------------------
(* Plausible slips, each a variant of one step below                        *)

\* initialize returns the error, and leaves the device enabled
RegionsFailBare ==
  /\ pc = "regions"
  /\ pc' = "failed"
  /\ UNCHANGED <<prog, i, loads, device, handlers, interrupts>>

\* unload frees the handlers by the dev_id they were requested with
FreeIrqsByDev ==
  /\ pc = "free" /\ prog = "check"
  /\ handlers' = [q \in Vectors |-> 0]
  /\ pc' = "disable"
  /\ UNCHANGED <<prog, i, loads, device, interrupts>>

\* unload unmaps the device before it takes down the vectors
FreeIrqsLast ==
  /\ pc = "free" /\ prog = "check"
  /\ mapped' = FALSE /\ unmaps' = TRUE
  /\ pc' = "disable"
  /\ UNCHANGED <<prog, i, loads, enabled, regions, msix, handlers, interrupts>>

\* initialize goes on without vectors
AllocVectorsIgnored ==
  /\ pc = "vectors"
  /\ pc' = "ring"
  /\ UNCHANGED <<prog, i, loads, device, handlers, interrupts>>

-----------------------------------------------------------------------------
(* insmod: initialize and init_interrupt, each step with its failure *)

Insmod ==
  /\ pc \in {"absent", "failed", "gone"} /\ loads < MaxLoads
  /\ loads' = loads + 1 /\ pc' = "enable"
  /\ UNCHANGED <<prog, i, device, handlers, interrupts>>

EnableDevice ==
  /\ pc = "enable"
  /\ \/ enabled' = TRUE /\ pc' = "regions"
     \/ pc' = "failed" /\ UNCHANGED enabled
  /\ UNCHANGED <<prog, i, loads, regions, mapped, msix, unmaps, handlers, interrupts>>

\* Then both parts of the device are mapped; no result is looked at.
RequestRegions ==
  /\ pc = "regions"
  /\ regions' = TRUE /\ mapped' = TRUE
  /\ pc' = "vectors"
  /\ UNCHANGED <<prog, i, loads, enabled, msix, unmaps, handlers, interrupts>>

RegionsFail ==
  /\ pc = "regions"
  /\ enabled' = FALSE
  /\ pc' = "failed"
  /\ UNCHANGED <<prog, i, loads, regions, mapped, msix, unmaps, handlers, interrupts>>

\* pci_enable_msix, pci_alloc_irq_vectors
AllocVectors ==
  /\ pc = "vectors" /\ ~ msix
  /\ msix' = TRUE
  /\ i' = 0 /\ pc' = "request"
  /\ UNCHANGED <<prog, loads, enabled, regions, mapped, unmaps, handlers, interrupts>>

\* The check goes on without vectors; second_phase.c releases the regions, but
\* neither unmaps nor disables the device, and its insmod fails.
AllocVectorsFails ==
  /\ pc = "vectors"
  /\ IF prog = "check" THEN pc' = "ring" /\ UNCHANGED regions
                       ELSE pc' = "failed" /\ regions' = FALSE
  /\ UNCHANGED <<prog, i, loads, enabled, mapped, msix, unmaps, handlers, interrupts>>

RequestIrq ==
  /\ pc = "request"
  /\ handlers' = [handlers EXCEPT ![i] = loads]
  /\ i' = i + 1
  /\ pc' = IF i = nvectors - 1 THEN "ring" ELSE "request"
  /\ UNCHANGED <<prog, loads, device, interrupts>>

\* The kernel takes the vectors from the device, or dies over a handler.
TakeVectors(next) ==
  /\ msix' = FALSE
  /\ pc' = IF registered = {} THEN next ELSE "dead"

\* The handlers requested so far stay: the check goes on, and second_phase.c
\* frees the vectors under them.
RequestIrqFails ==
  /\ pc = "request"
  /\ IF prog = "check"
     THEN pc' = "ring" /\ UNCHANGED <<msix, regions>>
     ELSE /\ TakeVectors("failed")
          /\ regions' = (pc' = "dead")
  /\ UNCHANGED <<prog, i, loads, enabled, mapped, unmaps, handlers, interrupts>>

\* The DEST_ID may be the VM itself.
RingDoorbells ==
  /\ pc = "ring"
  /\ \E hit \in {{}, Vectors} : pending' = IF msix THEN pending \cup hit ELSE pending
  /\ pc' = IF prog = "check" THEN "loaded" ELSE "unmap"
  /\ UNCHANGED <<prog, i, loads, device, handlers, running, oops>>

-----------------------------------------------------------------------------
(* rmmod *)

\* unload of second_phase.c only prints a line.
Rmmod ==
  /\ pc = "loaded"
  /\ pc' = IF prog = "check" THEN "free" ELSE "gone"
  /\ UNCHANGED <<prog, i, loads, device, handlers, interrupts>>

\* free_irq(vector, &pdev) finds no handler: they were requested with pdev.
FreeIrqs ==
  /\ pc = "free" /\ prog = "check"
  /\ pc' = "disable"
  /\ UNCHANGED <<prog, i, loads, device, handlers, interrupts>>

DisableMsix ==
  /\ pc = "disable"
  /\ IF msix THEN TakeVectors("unmap") ELSE pc' = "unmap" /\ UNCHANGED msix
  /\ UNCHANGED <<prog, i, loads, enabled, regions, mapped, unmaps, handlers, interrupts>>

\* The end of unload of the check, and of initialize of second_phase.c.
Unmap ==
  /\ pc = "unmap"
  /\ mapped' = FALSE /\ unmaps' = TRUE
  /\ pc' = "release"
  /\ UNCHANGED <<prog, i, loads, enabled, regions, msix, handlers, interrupts>>

Release ==
  /\ pc = "release"
  /\ regions' = FALSE /\ enabled' = FALSE
  /\ pc' = IF prog = "check" THEN "gone" ELSE "loaded"
  /\ UNCHANGED <<prog, i, loads, mapped, msix, unmaps, handlers, interrupts>>

-----------------------------------------------------------------------------
(* Interrupts *)

PeerRings(q) ==
  /\ msix
  /\ pending' = pending \cup {q}
  /\ UNCHANGED <<prog, process, device, handlers, running, oops>>

TakeInterrupt(q) ==
  /\ q \in pending /\ q \in registered /\ q \notin running
  /\ pending' = pending \ {q}
  /\ running' = running \cup {q}
  /\ UNCHANGED <<prog, process, device, handlers, oops>>

\* interrupt_handler_0 and _1, irq_handler: they read the device and return.
HandlerReads(q) ==
  /\ q \in running
  /\ running' = running \ {q}
  /\ oops' = oops \cup (IF mapped THEN {} ELSE {"unmapped"})
                  \cup (IF Loaded /\ handlers[q] = loads THEN {} ELSE {"freed"})
  /\ UNCHANGED <<prog, process, device, handlers, pending>>

-----------------------------------------------------------------------------
Load == \/ Insmod \/ EnableDevice \/ RequestRegions \/ RegionsFail
        \/ AllocVectors \/ AllocVectorsFails
        \/ RequestIrq \/ RequestIrqFails \/ RingDoorbells
Unload == Rmmod \/ FreeIrqs \/ DisableMsix \/ Unmap \/ Release
Interrupt(q) == PeerRings(q) \/ TakeInterrupt(q) \/ HandlerReads(q)

Next == Load \/ Unload \/ \E q \in Vectors : Interrupt(q)

Spec == Init /\ [][Next]_vars

-----------------------------------------------------------------------------
(* Properties *)

TypeOK ==
  /\ prog \in {"check", "second"}
  /\ pc \in {"absent", "enable", "regions", "vectors", "request", "ring", "loaded",
             "free", "disable", "unmap", "release", "gone", "failed", "dead"}
  /\ i \in 0 .. nvectors /\ loads \in 0 .. MaxLoads
  /\ {enabled, regions, mapped, msix, unmaps} \subseteq BOOLEAN
  /\ handlers \in [Vectors -> 0 .. MaxLoads]
  /\ pending \subseteq Vectors /\ running \subseteq registered
  /\ oops \subseteq {"unmapped", "freed"}

\* A handler reads the device only while it is mapped, and runs only while its
\* code is there, at whatever step insmod failed and whenever the peer rings
\* during rmmod: always in the check (where the kernel's BUG, not unload, keeps
\* the device mapped under the handlers), and in second_phase.c until its
\* initialize has unmapped the device.
ReadsMapped == oops # {} => (prog = "second" /\ unmaps)

\* A handler is never left on a vector the device no longer has, except where
\* the process that took the vectors died of it.
VectorsBacked == registered # {} => (msix \/ pc = "dead")

\* The check fails or is unloaded without leaving anything of the device behind;
\* second_phase.c keeps no regions when it fails, but may keep the rest.
NothingLeftBehind ==
  /\ (prog = "check" /\ ~ Loaded) =>
        registered = {} /\ ~ msix /\ ~ mapped /\ ~ regions /\ ~ enabled
  /\ pc = "failed" => ~ regions

\* "Couldn't rmmod": one handler that was registered keeps the check from ever
\* being unloaded, as unload does not find it and the kernel does not let go.
HandlersStay ==
  [][(prog = "check" /\ registered # {}) => (registered' # {} /\ pc' # "gone")]_vars

\* second_phase.c loads once: its unload leaves handlers and vectors behind, so
\* while there is one of an earlier load no insmod succeeds.
LoadsOnce ==
  [][(prog = "second" /\ \E q \in registered : handlers[q] # loads)
       => pc' # "loaded"]_vars
=============================================================================
