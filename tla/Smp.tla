--------------------------------- MODULE Smp ---------------------------------
(***************************************************************************)
(* SMP bring-up: smp::init on the bootstrap processor (BSP) and init_ap on *)
(* every application processor (AP), from x86_64/cpu/smp/mod.rs, with the  *)
(* processor table of processor/mod.rs.                                    *)
(*                                                                         *)
(* For each MADT processor entry but the BSP, in order, the BSP allocates *)
(* a temporary stack, registers a Processor, closes the trampoline lock,   *)
(* sends INIT, SIPI, SIPI, opens the lock and polls BSP_LOCK.  An AP that  *)
(* got a SIPI waits in the trampoline for the lock, takes the stack top    *)
(* from the BSP's local, enters init_ap, clears BSP_LOCK and waits at the  *)
(* INIT_AP_LOCK gate, then looks its Processor up.                         *)
(*                                                                         *)
(* Time is abstracted: every wait of the BSP is a step between which APs   *)
(* take any number of steps.  How late an AP may answer is the constant    *)
(* Deadline: an AP that answers at all has cleared BSP_LOCK by the end of  *)
(* the BSP's Deadline-th 500 us wait.  APs in Dead never answer (a         *)
(* disabled MADT entry: processor_lapic_iter does not look at the flags).  *)
(***************************************************************************)
EXTENDS Naturals, Sequences, FiniteSets

CONSTANTS
    APs,        \* LAPIC ids of the MADT entries other than the BSP, in order
    MaxTries,   \* WAS_TRAMPOLINE_EXECUTED_MAX_TRIES
    Deadline    \* waits of 500 us by whose end an answering AP cleared BSP_LOCK

ApSet == {APs[k] : k \in 1..Len(APs)}

VARIABLES
    pc,          \* where smp::init is
    i,           \* index of the MADT entry being started
    tries,       \* 500 us waits done for it
    wasInit,     \* was_ap_init
    stackTop,    \* curr_ap_stack_top_addr: the id (index) of the temp stack
    go,          \* trampoline_lock, a local of smp::init
    bspLock,     \* BSP_LOCK
    initApLock,  \* INIT_AP_LOCK
    registered,  \* keys of PROCESSORS other than the BSP
    dead,        \* APs that never leave wait-for-SIPI
    ap,          \* where each AP is
    stack        \* the temp stack each AP took in the trampoline

vars == <<pc, i, tries, wasInit, stackTop, go, bspLock, initApLock,
          registered, dead, ap, stack>>

\* AP states in which it has already cleared BSP_LOCK
Answered == {"gate", "running"}

\* processor::register and processor::unregister, on the BSP only
Register(r, a) == r \cup {a}
Unregister(r, a) == r \ {a}

\* lapic::send_init_ipi: INIT asserted and deasserted at the receiver,
\* each write waited on until delivered; a live AP then waits for a SIPI
InitIpi(a) == IF a \in dead THEN ap ELSE [ap EXCEPT ![a] = "waitSipi"]

\* lapic::send_startup_ipi: an AP waiting for a SIPI that gets it starts
\* the trampoline; any other AP ignores it
StartupIpi(a, got) ==
    IF got /\ ap[a] = "waitSipi" THEN [ap EXCEPT ![a] = "tramp"] ELSE ap

Init ==
    /\ pc = "alloc"
    /\ i = 1
    /\ tries = 0
    /\ wasInit = FALSE
    /\ stackTop = 0
    /\ go = 1
    /\ bspLock = TRUE
    /\ initApLock = TRUE
    /\ registered = {}
    /\ dead \in SUBSET ApSet
    /\ ap = [a \in ApSet |-> "off"]
    /\ stack = [a \in ApSet |-> 0]

\* the loop head: a new temp stack, the Processor, the trampoline lock.
\* alloc_temp_stack's assert on a null buffer (line 113) is not taken:
\* the heap holds the few 4 KiB stacks smp::init allocates.
BspAlloc ==
    /\ pc = "alloc"
    /\ i <= Len(APs)
    /\ stackTop' = i
    /\ registered' = Register(registered, APs[i])
    /\ go' = 1
    /\ pc' = "init"
    /\ UNCHANGED <<i, tries, wasInit, bspLock, initApLock, dead, ap, stack>>

\* send_init_ipi, then the 10 ms wait: a live AP waits for a SIPI
BspInitIpi ==
    /\ pc = "init"
    /\ ap' = InitIpi(APs[i])
    /\ pc' = "sipi1"
    /\ UNCHANGED <<i, tries, wasInit, stackTop, go, bspLock, initApLock, registered, dead, stack>>

\* the first send_startup_ipi; the AP may miss it
BspSipi1 ==
    /\ pc = "sipi1"
    /\ \E got \in BOOLEAN : ap' = StartupIpi(APs[i], got)
    /\ pc' = "sipi2"
    /\ UNCHANGED <<i, tries, wasInit, stackTop, go, bspLock, initApLock, registered, dead, stack>>

\* the second send_startup_ipi, the lock opened, the poll loop entered
BspSipi2 ==
    /\ pc = "sipi2"
    /\ ap' = StartupIpi(APs[i], TRUE)
    /\ go' = 0
    /\ wasInit' = FALSE
    /\ tries' = 0
    /\ pc' = "check"
    /\ UNCHANGED <<i, stackTop, bspLock, initApLock, registered, dead, stack>>

\* the loop body's test of BSP_LOCK
BspCheck ==
    /\ pc = "check"
    /\ IF bspLock THEN pc' = "wait" /\ UNCHANGED wasInit
                  ELSE pc' = "store" /\ wasInit' = TRUE
    /\ UNCHANGED <<i, tries, stackTop, go, bspLock, initApLock, registered, dead, ap, stack>>

\* timer::wait(500 us); the loop ends after MaxTries of them.  A live AP
\* has answered by the end of the Deadline-th.
BspWait ==
    /\ pc = "wait"
    /\ tries + 1 = Deadline /\ APs[i] \notin dead => ap[APs[i]] \in Answered
    /\ tries' = tries + 1
    /\ pc' = IF tries + 1 < MaxTries THEN "check" ELSE "store"
    /\ UNCHANGED <<i, wasInit, stackTop, go, bspLock, initApLock, registered, dead, ap, stack>>

\* BSP_LOCK re-armed; an AP not seen is unregistered
BspStore ==
    /\ pc = "store"
    /\ bspLock' = TRUE
    /\ registered' = IF wasInit THEN registered ELSE Unregister(registered, APs[i])
    /\ i' = i + 1
    /\ pc' = "alloc"
    /\ UNCHANGED <<tries, wasInit, stackTop, go, initApLock, dead, ap, stack>>

\* all entries done: the INIT_AP_LOCK gate opens and smp::init returns
BspOpenGate ==
    /\ pc = "alloc"
    /\ i > Len(APs)
    /\ initApLock' = FALSE
    /\ pc' = "done"
    /\ UNCHANGED <<i, tries, wasInit, stackTop, go, bspLock, registered, dead, ap, stack>>

\* the trampoline: wait for the lock, load the stack top, call init_ap
ApTrampoline(a) ==
    /\ ap[a] = "tramp"
    /\ go = 0
    /\ stack' = [stack EXCEPT ![a] = stackTop]
    /\ ap' = [ap EXCEPT ![a] = "entered"]
    /\ UNCHANGED <<pc, i, tries, wasInit, stackTop, go, bspLock, initApLock, registered, dead>>

\* init_ap: BSP_LOCK cleared
ApInitAp(a) ==
    /\ ap[a] = "entered"
    /\ bspLock' = FALSE
    /\ ap' = [ap EXCEPT ![a] = "gate"]
    /\ UNCHANGED <<pc, i, tries, wasInit, stackTop, go, initApLock, registered, dead, stack>>

\* init_ap past the gate: GDT, processor::get(), the init task scheduled
ApPassGate(a) ==
    /\ ap[a] = "gate"
    /\ ~initApLock
    /\ ap' = [ap EXCEPT ![a] = "running"]
    /\ UNCHANGED <<pc, i, tries, wasInit, stackTop, go, bspLock, initApLock, registered, dead, stack>>

\* smp::init has returned and every AP that answered is past the gate
Finished ==
    /\ pc = "done"
    /\ \A a \in ApSet : ap[a] \in {"off", "running"}
    /\ UNCHANGED vars

Next ==
    \/ Finished
    \/ BspAlloc \/ BspInitIpi \/ BspSipi1 \/ BspSipi2
    \/ BspCheck \/ BspWait \/ BspStore \/ BspOpenGate
    \/ \E a \in ApSet : ApTrampoline(a) \/ ApInitAp(a) \/ ApPassGate(a)

Spec == Init /\ [][Next]_vars

-----------------------------------------------------------------------------
(* Properties *)

\* Every AP that passes the INIT_AP_LOCK gate finds its Processor in the
\* table (processor::get() "should never fail"): smp::init unregisters only
\* APs that did not reach init_ap within the N polls of 500 us (spec 4.10).
RunningIsRegistered == \A a \in ApSet : ap[a] = "running" => a \in registered

=============================================================================
