----------------------------- MODULE Scheduler -----------------------------
(***************************************************************************)
(* The per-CPU scheduler of the kernel (src/kernel/src/scheduler) on the   *)
(* bootstrap processor, together with everything that drives it there:    *)
(*   - the boot thread of _start, which adds the tasks, enables            *)
(*     preemption and calls schedule();                                    *)
(*   - the terminal task, which parks on the keyboard through              *)
(*     retrieve_scancode / yield_on_condition / HALTED_TASK_ID;            *)
(*   - CPU-bound worker tasks, which only ever get preempted;              *)
(*   - the idle task (STI; HLT forever);                                   *)
(*   - the keyboard ISR, which pushes a scancode and wakes the parked task; *)
(*   - the LAPIC timer ISR, which calls schedule() when the preemption     *)
(*     alarm is armed.                                                      *)
(*                                                                         *)
(* A CPU context (what the registers hold, or a SavedState block) is a     *)
(* record [ctx, pc, rcx]: whose code it is, where in that code, and what   *)
(* rcx means there. In a saved block, rcx is "live" when the block is an  *)
(* interrupted frame (every register holds a value the code still needs)  *)
(* and "dead" for a Task::new block or a far-ret resume point; in the CPU  *)
(* registers "clobbered" says rcx was loaded with a value that is not the  *)
(* task's. The two paths of switch_task are modelled separately: the      *)
(* interrupt path copies whole blocks, the thread path (switch_task_far_ret) *)
(* saves the asm block's resume label and loads the incoming block with   *)
(* its own load sequence.                                                  *)
(*                                                                         *)
(* SCANCODE_QUEUE is the ArrayQueue module, with the terminal as its       *)
(* consumer (the first pop of retrieve_scancode step by step, the second  *)
(* one under CLI) and the keyboard ISR as its producer.                   *)
(*                                                                         *)
(* Both ISRs are installed as interrupt gates (Flags::BASE = 0x8E), so IF  *)
(* is clear while they run: an ISR is one atomic step that ends with the  *)
(* IRETQ into whatever the outermost frame holds after the handler.       *)
(***************************************************************************)
EXTENDS Naturals, Sequences, FiniteSets

CONSTANTS
    Terminal,   \* the task running terminal_task
    Workers,    \* tasks that compute forever and are only preempted
    Idle,       \* the per-CPU idle task (TaskId 0)
    Boot,       \* the _start thread, never a Task
    NoTask,     \* None, for curr_task and HALTED_TASK_ID
    BootOrder,  \* the order in which _start adds the tasks
    KbdCap,     \* capacity of SCANCODE_QUEUE
    MaxKeys,    \* number of key presses the environment makes
    NoScancode  \* None in a SCANCODE_QUEUE slot

Tasks == {Terminal} \cup Workers
Ctxs  == Tasks \cup {Idle, Boot}

ASSUME /\ Terminal \notin Workers
       /\ {Idle, Boot, NoTask} \cap Tasks = {}
       /\ BootOrder \in Seq(Tasks) /\ Len(BootOrder) = Cardinality(Tasks)
       /\ {BootOrder[i] : i \in 1..Len(BootOrder)} = Tasks
       /\ KbdCap \in Nat \ {0} /\ MaxKeys \in Nat

VARIABLES
    preempt,    \* Scheduler.is_preemption_enabled
    curr,       \* Scheduler.curr_task (a task or NoTask)
    queue,      \* Scheduler.task_queue (VecDeque of tasks)
    blocked,    \* keys of Scheduler.blocked_task_map
    isBlocked,  \* Task.is_blocked of every task
    regs,       \* the context the CPU is executing
    saved,      \* Task.saved_state of every task and of the idle task
    spawned,    \* how many tasks _start has added so far
    halted,     \* keyboard HALTED_TASK_ID
    head, tail, slot, cpc, oldHead, eTail, cval, nv, pushed, popped
                \* SCANCODE_QUEUE and its consumer, as in ArrayQueue

kbdVars == <<head, tail, slot, cpc, oldHead, eTail, cval, nv, pushed, popped>>
schedVars == <<preempt, curr, queue, blocked, isBlocked, regs, saved, spawned,
               halted>>
vars == <<schedVars, kbdVars>>

KQ == INSTANCE ArrayQueue WITH Size <- KbdCap, MaxPush <- MaxKeys,
                               InterruptiblePop <- TRUE, None <- NoScancode

Ctx(c, p) == [ctx |-> c, pc |-> p, rcx |-> "dead"]
At(c, p) == regs.ctx = c /\ regs.pc = p

(* Where a task starts: Task::new points rip at init_task_fn_wrapper,     *)
(* which calls the task function.                                         *)
EntryPc(t) == IF t = Terminal THEN "t_pop" ELSE "w_run"

(* Task::idle_task: idle_task_fn loops on STI; HLT, so the idle context *)
(* only ever waits, with IF set, for an interrupt.                        *)
IdleEntry == Ctx(Idle, "idle")

(* Program points at which IF is set, i.e. an interrupt may be taken.    *)
(* "t_sti" is the rest of yield_on_condition after the yield returned:    *)
(* the task resumes there inside interrupts_disabled.                     *)
IntrOn(r) == r.pc # "t_sti"

Init ==
    /\ preempt = FALSE
    /\ curr = NoTask
    /\ queue = <<>>
    /\ blocked = {}
    /\ isBlocked = [t \in Tasks |-> FALSE]
    /\ regs = Ctx(Boot, "b_add")
    /\ saved = [c \in Tasks \cup {Idle} |->
                    IF c = Idle THEN IdleEntry ELSE Ctx(c, EntryPc(c))]
    /\ spawned = 0
    /\ halted = NoTask
    /\ KQ!Init

-----------------------------------------------------------------------------
(* An interrupt taken in context r: the entry stub pushes r's registers  *)
(* as a SavedState and handler_wrapper counts the interrupt and, for the  *)
(* outermost one, records that SavedState as curr_interrupt_saved_state,  *)
(* which switch_task_from_interrupt overwrites; the stub's pops and iretq *)
(* resume whatever it then holds. ISRs run with IF clear (interrupt       *)
(* gates), so the count is 1 and the frame is the interrupted context,    *)
(* in which every register, rcx included, is live.                       *)
InterruptFrame(r) == [r EXCEPT !.rcx = IF @ = "clobbered" THEN @ ELSE "live"]

(* Mutant: the interrupt path stores the incoming block into the         *)
(* outgoing task's slot instead of the interrupted frame.                 *)
SwitchTaskFromInterruptSaveIncoming(out, next, frame) ==
    /\ saved' = IF out # NoTask THEN [saved EXCEPT ![out] = saved[next]] ELSE saved
    /\ regs' = saved[next]

(* switch_task_from_interrupt: the outgoing task (if any) gets the       *)
(* interrupted frame, the frame is overwritten with the incoming block   *)
(* and the stub's pops and iretq load all of it.                          *)
SwitchTaskFromInterrupt(out, next, frame) ==
    /\ saved' = IF out # NoTask THEN [saved EXCEPT ![out] = frame] ELSE saved
    /\ regs' = saved[next]

(* switch_task_far_ret: the outgoing task (if any) saves its registers    *)
(* except rax and rcx, rip = the label 1 after the asm block, RFLAGS and  *)
(* rsp; then every register of the incoming block is loaded, rcx last,    *)
(* from offset 0x18, which is the rdx field of SavedState: a block whose  *)
(* rcx is live resumes with its rdx in rcx.                               *)
SwitchTaskFarRet(out, next, resume) ==
    /\ saved' = IF out # NoTask THEN [saved EXCEPT ![out] = resume] ELSE saved
    /\ regs' = [saved[next] EXCEPT !.rcx = IF @ = "live" THEN "clobbered" ELSE @]

(* switch_task: the interrupt path when active_interrupt_count > 0, that *)
(* is, when schedule() runs inside an ISR and `resume` is its frame.     *)
SwitchTask(out, next, resume) ==
    IF resume.rcx = "live" THEN SwitchTaskFromInterrupt(out, next, resume)
                           ELSE SwitchTaskFarRet(out, next, resume)

(* Mutant: schedule() pops the next task but forgets to push the current *)
(* one back on the queue.                                                 *)
SchedNoRequeue(flags, q, b, resume) ==
    LET toBlock == curr # NoTask /\ flags[curr]
        c1      == IF toBlock THEN NoTask ELSE curr
        ref1    == IF toBlock THEN curr ELSE NoTask
    IN /\ isBlocked' = flags
       /\ blocked' = IF toBlock THEN b \cup {curr} ELSE b
       /\ IF q # <<>>
            THEN /\ queue' = Tail(q)
                 /\ curr' = Head(q)
                 /\ SwitchTask(IF c1 # NoTask THEN c1 ELSE ref1, Head(q), resume)
            ELSE /\ queue' = q
                 /\ curr' = c1
                 /\ IF c1 # NoTask
                      THEN regs' = resume /\ saved' = saved
                      ELSE SwitchTask(ref1, Idle, resume)

(* Mutant: schedule() keeps a running, unblocked task instead of rotating. *)
SchedKeepCurrent(flags, q, b, resume) ==
    LET toBlock == curr # NoTask /\ flags[curr]
    IN IF curr # NoTask /\ ~toBlock
         THEN /\ regs' = resume /\ queue' = q /\ blocked' = b
              /\ isBlocked' = flags
              /\ UNCHANGED <<curr, saved>>
         ELSE /\ isBlocked' = flags
              /\ blocked' = IF toBlock THEN b \cup {curr} ELSE b
              /\ IF q # <<>>
                   THEN /\ queue' = Tail(q) /\ curr' = Head(q)
                        /\ SwitchTask(curr, Head(q), resume)
                   ELSE /\ queue' = q /\ curr' = NoTask
                        /\ SwitchTask(IF toBlock THEN curr ELSE NoTask, Idle, resume)

(* Scheduler::schedule, run from flags/q/b (the state its caller left).   *)
(* `resume` is the context that continues if no switch happens.           *)
(* is_idle is never set anywhere, so its early return is never taken.     *)
Sched(flags, q, b, resume) ==
    LET toBlock == curr # NoTask /\ flags[curr]
        c1      == IF toBlock THEN NoTask ELSE curr
        ref1    == IF toBlock THEN curr ELSE NoTask
    IN /\ isBlocked' = flags
       /\ blocked' = IF toBlock THEN b \cup {curr} ELSE b
       /\ IF q # <<>>
            THEN /\ queue' = IF c1 # NoTask THEN Append(Tail(q), c1) ELSE Tail(q)
                 /\ curr' = Head(q)
                 /\ SwitchTask(IF c1 # NoTask THEN c1 ELSE ref1, Head(q), resume)
            ELSE /\ queue' = q
                 /\ curr' = c1
                 /\ IF c1 # NoTask
                      THEN regs' = resume /\ saved' = saved
                      ELSE SwitchTask(ref1, Idle, resume)

Schedule(resume) == Sched(isBlocked, queue, blocked, resume)

(* Scheduler::yield_task *)
YieldTask(resume) ==
    IF curr # NoTask
      THEN Sched([isBlocked EXCEPT ![curr] = TRUE], queue, blocked, resume)
      ELSE /\ regs' = resume
           /\ UNCHANGED <<curr, queue, blocked, isBlocked, saved>>

(* Scheduler::wake_up_task *)
WakeUpTask(t, resume) ==
    IF t \in blocked
      THEN Sched([isBlocked EXCEPT ![t] = FALSE], <<t>> \o queue,
                 blocked \ {t}, resume)
      ELSE /\ regs' = resume
           /\ UNCHANGED <<curr, queue, blocked, isBlocked, saved>>

-----------------------------------------------------------------------------
(* _start: scheduler::add_task(task), one task per step, with IF set.    *)
BootAddTask ==
    /\ At(Boot, "b_add")
    /\ queue' = Append(queue, BootOrder[spawned + 1])
    /\ spawned' = spawned + 1
    /\ regs' = IF spawned + 1 = Len(BootOrder) THEN Ctx(Boot, "b_enable")
                                               ELSE regs
    /\ UNCHANGED <<preempt, curr, blocked, isBlocked, saved, halted, kbdVars>>

(* _start: scheduler::enable_preemption() *)
BootEnablePreemption ==
    /\ At(Boot, "b_enable")
    /\ preempt' = TRUE
    /\ regs' = Ctx(Boot, "b_sched")
    /\ UNCHANGED <<curr, queue, blocked, isBlocked, saved, spawned, halted,
                   kbdVars>>

(* _start: scheduler::schedule(); the boot thread is never resumed.      *)
BootSchedule ==
    /\ At(Boot, "b_sched")
    /\ Schedule(Ctx(Boot, "b_end"))
    /\ UNCHANGED <<preempt, spawned, halted, kbdVars>>

(* retrieve_scancode, first queue.pop(), with IF set, one shared access  *)
(* per step. It ends in the condition when pop() returns None, and       *)
(* otherwise the terminal consumes the scancode and calls again.         *)
TerminalPopBegin ==
    /\ At(Terminal, "t_pop") /\ KQ!PopBegin
    /\ UNCHANGED schedVars

TerminalPopCheckEmpty ==
    /\ At(Terminal, "t_pop") /\ KQ!PopCheckEmpty
    /\ regs' = IF cpc' = "idle" THEN Ctx(Terminal, "t_cond") ELSE regs
    /\ UNCHANGED <<preempt, curr, queue, blocked, isBlocked, saved, spawned,
                   halted>>

TerminalPopCas ==
    /\ At(Terminal, "t_pop") /\ KQ!PopCas
    /\ UNCHANGED schedVars

TerminalPopRead ==
    /\ At(Terminal, "t_pop") /\ KQ!PopRead
    /\ UNCHANGED schedVars

TerminalPopWrite ==
    /\ At(Terminal, "t_pop") /\ KQ!PopWrite
    /\ regs' = IF cval = NoScancode THEN Ctx(Terminal, "t_cond") ELSE regs
    /\ UNCHANGED <<preempt, curr, queue, blocked, isBlocked, saved, spawned,
                   halted>>

(* Mutant: yield_on_condition without the re-check under CLI.            *)
TerminalYieldNoRecheck ==
    /\ At(Terminal, "t_cond")
    /\ halted' = curr
    /\ YieldTask(Ctx(Terminal, "t_sti"))
    /\ UNCHANGED <<preempt, spawned, kbdVars>>

(* yield_on_condition with the closure of retrieve_scancode, under CLI:  *)
(* pop again; on Some the loop ends and the terminal calls again; on     *)
(* None record HALTED_TASK_ID = get_executing_task_id() and yield_task(). *)
TerminalYieldOnCondition ==
    /\ At(Terminal, "t_cond")
    /\ KQ!PopAtomic
    /\ \/ /\ popped' # popped
          /\ regs' = Ctx(Terminal, "t_pop")
          /\ UNCHANGED <<curr, queue, blocked, isBlocked, saved, halted>>
       \/ /\ popped' = popped
          /\ halted' = curr
          /\ YieldTask(Ctx(Terminal, "t_sti"))
    /\ UNCHANGED <<preempt, spawned>>

(* The end of interrupts_disabled after the yield returned: STI, loop.   *)
TerminalResume ==
    /\ At(Terminal, "t_sti")
    /\ regs' = Ctx(Terminal, "t_pop")
    /\ UNCHANGED <<preempt, curr, queue, blocked, isBlocked, saved, spawned,
                   halted, kbdVars>>

(* Mutant: the ISR pushes but never wakes the parked task.                *)
KeyboardIsrNoWake ==
    /\ IntrOn(regs)
    /\ KQ!Push
    /\ UNCHANGED schedVars

(* keyboard_handler: a key press; push the scancode, and on success take *)
(* HALTED_TASK_ID and wake that task; a full queue drops the key.        *)
KeyboardIsr ==
    /\ IntrOn(regs)
    /\ KQ!Push
    /\ IF pushed' # pushed
         THEN /\ halted' = NoTask
              /\ IF halted # NoTask
                   THEN WakeUpTask(halted, InterruptFrame(regs))
                   ELSE UNCHANGED <<curr, queue, blocked, isBlocked, saved, regs>>
         ELSE UNCHANGED <<halted, curr, queue, blocked, isBlocked, saved, regs>>
    /\ UNCHANGED <<preempt, spawned>>

(* timer_handler, reduced to its effect on the scheduler: when the       *)
(* preemption alarm is armed it is due at some tick and update_queue     *)
(* calls scheduler::schedule() from interrupt context.                   *)
TimerIsr ==
    /\ IntrOn(regs)
    /\ preempt
    /\ Schedule(InterruptFrame(regs))
    /\ UNCHANGED <<preempt, spawned, halted, kbdVars>>

Next ==
    \/ BootAddTask
    \/ BootEnablePreemption
    \/ BootSchedule
    \/ TerminalPopBegin
    \/ TerminalPopCheckEmpty
    \/ TerminalPopCas
    \/ TerminalPopRead
    \/ TerminalPopWrite
    \/ TerminalYieldOnCondition
    \/ TerminalResume
    \/ KeyboardIsr
    \/ TimerIsr

(* The timer interrupt is delivered whenever IF is set again while it is *)
(* pending (strong fairness). A thread step is strongly fair: a context   *)
(* that gets the CPU infinitely often executes its next instruction, as   *)
(* every switch-in re-arms a 100 ms quantum (DEFAULT_PRREMPT_FREQUENCY).  *)
(* Key presses are the user's and are not fair. A spurious failure of    *)
(* compare_exchange_weak is not fair either: only the successful CAS is. *)
Fairness ==
    /\ SF_vars(TimerIsr)
    /\ SF_vars(BootAddTask) /\ SF_vars(BootEnablePreemption)
    /\ SF_vars(BootSchedule)
    /\ SF_vars(TerminalPopBegin) /\ SF_vars(TerminalPopCheckEmpty)
    /\ SF_vars(TerminalPopCas /\ head' # head)
    /\ SF_vars(TerminalPopRead) /\ SF_vars(TerminalPopWrite)
    /\ SF_vars(TerminalYieldOnCondition) /\ SF_vars(TerminalResume)

Spec == Init /\ [][Next]_vars /\ Fairness

-----------------------------------------------------------------------------
InQueue(t) == \E i \in 1..Len(queue) : queue[i] = t

CtxRec == [ctx : Ctxs, pc : STRING, rcx : {"dead", "live", "clobbered"}]

TypeOK ==
    /\ preempt \in BOOLEAN
    /\ curr \in Tasks \cup {NoTask}
    /\ queue \in Seq(Tasks)
    /\ blocked \subseteq Tasks
    /\ isBlocked \in [Tasks -> BOOLEAN]
    /\ regs \in CtxRec
    /\ saved \in [Tasks \cup {Idle} -> CtxRec]
    /\ spawned \in 0..Len(BootOrder)
    /\ halted \in Tasks \cup {NoTask}
    /\ KQ!TypeOK

(* Every task _start has added is in exactly one place: it is curr_task, *)
(* or it occurs exactly once in task_queue, or it is in blocked_task_map *)
(* with is_blocked set; a task outside the map is never flagged blocked. *)
(* A schedule() that drops or duplicates a task breaks it.               *)
TaskAccounting ==
    \A t \in Tasks :
        LET n == Cardinality({i \in 1..Len(queue) : queue[i] = t})
                 + (IF curr = t THEN 1 ELSE 0)
                 + (IF t \in blocked THEN 1 ELSE 0)
            added == \E i \in 1..spawned : BootOrder[i] = t
        IN /\ n = (IF added THEN 1 ELSE 0)
           /\ isBlocked[t] <=> t \in blocked

(* The CPU executes what the scheduler believes it executes: curr_task   *)
(* when there is one, otherwise the idle task or the boot thread (before *)
(* the first schedule), and every SavedState block belongs to its task.  *)
(* A switch that saves the wrong frame, or loads the wrong block, makes  *)
(* one task run on another's state.                                      *)
CpuRunsCurrent ==
    /\ IF curr # NoTask THEN regs.ctx = curr ELSE regs.ctx \in {Idle, Boot}
    /\ \A c \in DOMAIN saved : saved[c].ctx = c

(* No lost wake-up: the terminal is never parked while the queue reports *)
(* a scancode (is_empty() false), and whenever it is parked               *)
(* HALTED_TASK_ID names it, so the next accepted key press wakes it.      *)
NoLostWakeup ==
    isBlocked[Terminal] => KQ!IsEmpty /\ halted = Terminal

(* A parked terminal is woken by the next key the ISR accepts: from any   *)
(* state in which it is parked after n accepted keys, it eventually runs  *)
(* again, unless no further key is ever accepted.                         *)
ParkedTerminalWoken ==
    \A n \in 0..MaxKeys :
        (isBlocked[Terminal] /\ Len(pushed) = n)
            ~> (~isBlocked[Terminal] \/ [](Len(pushed) = n))

(* With preemption on, a task in the ready queue eventually runs.        *)
ReadyTaskRuns ==
    \A t \in Tasks : InQueue(t) ~> regs.ctx = t

(* pop() never returns a scancode twice or one that was never accepted,  *)
(* with the terminal preempted anywhere inside its first pop.             *)
PopsDistinct == KQ!PopsDistinct

RegistersRestored == regs.rcx # "clobbered"
=============================================================================
