------------------------------- MODULE Timer -------------------------------
(***************************************************************************)
(* The per-CPU timer of time/timer.rs with the LAPIC timer it programs,    *)
(* its interrupt handler, and the thread and keyboard ISR that call into   *)
(* it on one CPU.                                                          *)
(*                                                                         *)
(* Time. One time unit is one timer tick; the ticks <-> Time conversions   *)
(* (time_to_ticks / ticks_to_time) are exact at that granularity, and     *)
(* their sub-tick rounding is left to TimeArith: in TSC mode at a         *)
(* non-integer GHz rate ticks_to_time overestimates the sub-microsecond   *)
(* part, so `lag` may dip below 0 by a fraction of a tick, which this     *)
(* model cannot show; RuntimeNeverAhead is meaningful here only for the   *)
(* whole-period advance of LAPIC mode (MCTimerLapic.cfg). All deadlines   *)
(* are kept relative to `runtime`: an alarm's `rem` is trigger_runtime -  *)
(* runtime, clamped at 0 (due) since the code only asks "trigger <=        *)
(* runtime" and computes trigger - runtime when it is positive. `lag` is  *)
(* real time minus runtime: the clock runs `lag` behind the hardware.      *)
(*                                                                         *)
(* Hardware. The one-shot timer (LAPIC initial count, or a TSC deadline)  *)
(* counts `sinceStart` up to `period`; reaching it sets the pending bit    *)
(* `irr`. Stopping the timer (initial count 0 / deadline 0) does not clear *)
(* a pending interrupt. A pending interrupt is taken before the next      *)
(* instruction whenever IF is set. The disable/update window is a few     *)
(* hundred instructions, far shorter than a tick: no tick falls inside it *)
(* while the timer is stopped.                                             *)
(*                                                                         *)
(* The thread. It runs the calls of Script one after the other: wait(d),  *)
(* enable_preemption(), a schedule() from thread context under CLI        *)
(* ("yield", as in yield_on_condition), add_schedule_alarm(d) and         *)
(* disable_preemption(). Between calls it is in code that runs with IF   *)
(* set (the idle loop or the terminal).                                    *)
(***************************************************************************)
EXTENDS Naturals, Integers, Sequences, SequencesExt

CONSTANTS
    UseTsc,       \* Timer.is_using_tsc: the LAPIC supports TSC-deadline mode
    Default,      \* TIMER_DEFAULT_FREQUENCY (1 s)
    Quantum,      \* DEFAULT_PRREMPT_FREQUENCY (100 ms)
    Script,       \* the thread's calls, a sequence of [kind, d]
    KbdWakes,     \* keyboard interrupts whose handler calls wake_up_task
    KbdAnywhere,  \* TRUE: they may also arrive inside a thread's timer call
    None          \* Option::None

Kinds == {"wait", "enable", "yield", "alarm", "stop"}

ASSUME /\ UseTsc \in BOOLEAN /\ KbdAnywhere \in BOOLEAN
       /\ Default \in Nat \ {0} /\ Quantum \in 1..Default
       /\ KbdWakes \in Nat
       /\ \A i \in DOMAIN Script : Script[i].kind \in Kinds
                                  /\ Script[i].d \in 1..Default

VARIABLES
    pc,          \* where the thread is
    step,        \* calls of Script completed
    preempt,     \* Scheduler.is_preemption_enabled
    period,      \* curr_frequency = last_lapic_timer_tick_count (last start)
    sinceStart,  \* ticks since the last start (rdtsc - last_tsc_read)
    running,     \* the one-shot timer is counting
    irr,         \* a timer interrupt is pending at the LAPIC
    ignore,      \* Timer.should_ignore_interrupt
    snap,        \* curr_lapic_ticks, read in the disable block
    lag,         \* real time - runtime
    schedRem,    \* schedule_alarm: trigger - runtime, or None
    heap,        \* alarm_queue as a sequence sorted by rem
    flag,        \* the Wait alarm's was_triggered
    kbdLeft      \* keyboard wake-ups still to come

vars == <<pc, step, preempt, period, sinceStart, running, irr, ignore, snap,
          lag, schedRem, heap, flag, kbdLeft>>

Op == Script[step + 1]

MinT(a, b) == IF a < b THEN a ELSE b
Sat(a) == IF a > 0 THEN a ELSE 0

(* The interrupt flag at the thread's current point: set between calls    *)
(* and in the HLT loop of hlt_wait; inside disable_and_update_timer_run_ *)
(* then_reenable after its CLI block it is whatever the caller had, and   *)
(* schedule() runs under CLI.                                              *)
CallerIF == Op.kind # "yield"
IntrOn == \/ pc \in {"idle", "hlt"}
          \/ pc \in {"du_cli", "du_elapsed", "du_update"} /\ CallerIF

(* A pending timer interrupt with IF set is taken before the thread's     *)
(* next instruction.                                                       *)
NoneTaken == ~(irr /\ IntrOn)

(* lapic.read_curr_timer_tick_count(): 0 once expired or stopped.        *)
Count == IF running THEN period - sinceStart ELSE 0

Init ==
    /\ pc = "idle" /\ step = 0 /\ preempt = FALSE
    /\ period = Default /\ sinceStart = 0 /\ running = TRUE  \* Timer::init
    /\ irr = FALSE /\ ignore = FALSE /\ snap = 0 /\ lag = 0
    /\ schedRem = None /\ heap = <<>> /\ flag = FALSE
    /\ kbdLeft = KbdWakes

-----------------------------------------------------------------------------
(* runtime += x: every deadline comes x closer.                           *)
ShiftRem(r, x) == IF r = None THEN None ELSE Sat(r - x)
ShiftHeap(h, x) == [i \in DOMAIN h |-> [h[i] EXCEPT !.rem = Sat(@ - x)]]

(* Alarm's Eq and Ord: alarms compare by trigger_runtime alone.          *)
AlarmLeq(x, y) == x.rem <= y.rem

(* BinaryHeap::push of Reverse(alarm): placed after every alarm that is  *)
(* due no later.                                                          *)
Push(h, a) == InsertAt(h, Cardinality({i \in DOMAIN h : AlarmLeq(h[i], a)}) + 1, a)

(* The alarms the while-peek loop pops: the due prefix of the heap.      *)
DueCount(h) == Cardinality({i \in DOMAIN h : \A j \in 1..i : h[j].rem = 0})

(* Mutant: a Wait alarm is popped without being notified.                *)
UpdateQueueNoWaitNotify(sr, h) ==
    LET sr1  == IF sr = 0 THEN (IF preempt THEN Quantum ELSE None) ELSE sr
        f1   == IF sr1 # None THEN MinT(Default, sr1) ELSE Default
        due  == SubSeq(h, 1, DueCount(h))
        rest == SubSeq(h, DueCount(h) + 1, Len(h))
        sr2  == IF preempt /\ \E i \in DOMAIN due : due[i].kind = "sched"
                  THEN Quantum ELSE sr1
        f2   == IF rest # <<>> THEN MinT(f1, rest[1].rem) ELSE f1
    IN [sr |-> sr2, heap |-> rest, f |-> f2, wake |-> FALSE]

(* Mutant: the frequency leaves out the first alarm left in the heap.     *)
UpdateQueueIgnoreHeap(sr, h) ==
    LET sr1  == IF sr = 0 THEN (IF preempt THEN Quantum ELSE None) ELSE sr
        f1   == IF sr1 # None THEN MinT(Default, sr1) ELSE Default
        due  == SubSeq(h, 1, DueCount(h))
        rest == SubSeq(h, DueCount(h) + 1, Len(h))
        sr2  == IF preempt /\ \E i \in DOMAIN due : due[i].kind = "sched"
                  THEN Quantum ELSE sr1
    IN [sr |-> sr2, heap |-> rest, f |-> f1,
        wake |-> \E i \in DOMAIN due : due[i].kind = "wait"]

(* Timer::update_queue on (schedule alarm, heap). A due schedule alarm is *)
(* taken, then notified: schedule() re-arms it (start_schedule_timer     *)
(* while is_updating_queue) if preemption is on. Then every due alarm of *)
(* the heap is notified and popped: Wait sets its flag, Schedule calls   *)
(* schedule(), which again re-arms schedule_alarm. The frequency is the  *)
(* least of the default, the schedule alarm as it stands after step one, *)
(* and the first alarm left in the heap.                                  *)
UpdateQueue(sr, h) ==
    LET sr1  == IF sr = 0 THEN (IF preempt THEN Quantum ELSE None) ELSE sr
        f1   == IF sr1 # None THEN MinT(Default, sr1) ELSE Default
        due  == SubSeq(h, 1, DueCount(h))
        rest == SubSeq(h, DueCount(h) + 1, Len(h))
        sr2  == IF preempt /\ \E i \in DOMAIN due : due[i].kind = "sched"
                  THEN Quantum ELSE sr1
        f2   == IF rest # <<>> THEN MinT(f1, rest[1].rem) ELSE f1
    IN [sr |-> sr2, heap |-> rest, f |-> f2,
        wake |-> \E i \in DOMAIN due : due[i].kind = "wait"]

(* Mutant: the restart does not record last_tsc_read.                    *)
StartTimerKeepTsc(f) ==
    /\ period' = IF f < Default THEN f ELSE Default
    /\ running' = TRUE
    /\ UNCHANGED sinceStart

(* Mutant: the timer is always restarted with the default frequency.     *)
StartTimerDefault(f) ==
    /\ period' = Default
    /\ sinceStart' = 0
    /\ running' = TRUE

(* Timer::start_timer with the choice between the frequency and the     *)
(* default made by its callers.                                           *)
StartTimer(f) ==
    /\ period' = IF f < Default THEN f ELSE Default
    /\ sinceStart' = 0
    /\ running' = TRUE

(* The closure a call passes to disable_and_update_timer_run_then_      *)
(* reenable, on (schedule alarm, heap) after the runtime update.          *)
Closure(kind, d, sr, h) ==
    CASE kind = "wait"  -> [sr |-> sr, heap |-> Push(h, [rem |-> d, kind |-> "wait"])]
      [] kind = "alarm" -> [sr |-> sr, heap |-> Push(h, [rem |-> d, kind |-> "sched"])]
      [] OTHER          -> [sr |-> Quantum, heap |-> h]

(* Ticks elapsed as the disable block measures them.                     *)
Elapsed(s) == IF UseTsc THEN sinceStart ELSE period - s

(* How far the handler advances runtime: the TSC delta, or the frequency *)
(* the timer was last started with.                                       *)
IsrAdvance == IF UseTsc THEN sinceStart ELSE period

-----------------------------------------------------------------------------
(* The thread starts its next call. enable_preemption sets the flag and  *)
(* calls start_schedule_timer; schedule() (under CLI) calls it only with *)
(* preemption on; disable_preemption clears the flag and the alarm.       *)
Begin ==
    /\ pc = "idle" /\ step < Len(Script) /\ NoneTaken
    /\ CASE Op.kind \in {"wait", "alarm"} ->
              pc' = "du_cli" /\ UNCHANGED <<step, preempt, schedRem>>
         [] Op.kind = "enable" ->
              pc' = "du_cli" /\ preempt' = TRUE /\ UNCHANGED <<step, schedRem>>
         [] Op.kind = "yield" ->
              /\ pc' = IF preempt THEN "du_cli" ELSE "idle"
              /\ step' = IF preempt THEN step ELSE step + 1
              /\ UNCHANGED <<preempt, schedRem>>
         [] Op.kind = "stop" ->
              /\ preempt' = FALSE /\ schedRem' = None /\ step' = step + 1
              /\ UNCHANGED pc
    /\ UNCHANGED <<period, sinceStart, running, irr, ignore, snap, lag, heap,
                   flag, kbdLeft>>

(* disable_and_update_timer_run_then_reenable, interrupts_disabled: CLI. *)
DuCli ==
    /\ pc = "du_cli" /\ NoneTaken
    /\ pc' = "du_stop"
    /\ UNCHANGED <<step, preempt, period, sinceStart, running, irr, ignore,
                   snap, lag, schedRem, heap, flag, kbdLeft>>

(* ... inside it: set the ignore flag, read the count (LAPIC mode) and   *)
(* stop the timer (initial count 0, or TSC deadline 0); then restore IF. *)
DuStop ==
    /\ pc = "du_stop"
    /\ ignore' = TRUE
    /\ snap' = IF UseTsc THEN snap ELSE Count
    /\ running' = FALSE
    /\ pc' = "du_elapsed"
    /\ UNCHANGED <<step, preempt, period, sinceStart, irr, lag, schedRem, heap,
                   flag, kbdLeft>>

(* ticks_elapsed = last_lapic_timer_tick_count - curr_lapic_ticks, or    *)
(* rdtsc - last_tsc_read; runtime += ticks_to_time(ticks_elapsed).        *)
DuElapsed ==
    /\ pc = "du_elapsed" /\ NoneTaken
    /\ LET e == Elapsed(snap)
       IN /\ lag' = lag - e
          /\ schedRem' = ShiftRem(schedRem, e)
          /\ heap' = ShiftHeap(heap, e)
    /\ pc' = "du_update"
    /\ UNCHANGED <<step, preempt, period, sinceStart, running, irr, ignore,
                   snap, flag, kbdLeft>>

(* closure(self); curr_frequency = update_queue(); clear the ignore      *)
(* flag; start the timer with the frequency or the default.              *)
DuUpdate ==
    /\ pc = "du_update" /\ NoneTaken
    /\ LET c  == Closure(Op.kind, Op.d, schedRem, heap)
           uq == UpdateQueue(c.sr, c.heap)
       IN /\ schedRem' = uq.sr /\ heap' = uq.heap
          /\ flag' = (flag \/ uq.wake)
          /\ StartTimer(uq.f)
    /\ ignore' = FALSE
    /\ pc' = IF Op.kind = "wait" THEN "hlt" ELSE "idle"
    /\ step' = IF Op.kind = "wait" THEN step ELSE step + 1
    /\ UNCHANGED <<preempt, irr, snap, lag, kbdLeft>>

(* hlt_wait: under CLI check was_triggered; STI;HLT until it is set.     *)
WaitReturn ==
    /\ pc = "hlt" /\ NoneTaken /\ flag
    /\ flag' = FALSE /\ pc' = "idle" /\ step' = step + 1
    /\ UNCHANGED <<preempt, period, sinceStart, running, irr, ignore, snap,
                   lag, schedRem, heap, kbdLeft>>

(* One tick of the running timer; the last one raises the interrupt.     *)
Tick ==
    /\ running
    /\ sinceStart' = sinceStart + 1 /\ lag' = lag + 1
    /\ IF sinceStart + 1 = period
         THEN running' = FALSE /\ irr' = TRUE
         ELSE UNCHANGED <<running, irr>>
    /\ UNCHANGED <<pc, step, preempt, period, ignore, snap, schedRem, heap,
                   flag, kbdLeft>>

(* timer_handler: ignored while the flag is set; otherwise advance       *)
(* runtime, update the queue and restart the timer.                       *)
TimerIsr ==
    /\ irr /\ IntrOn
    /\ irr' = FALSE
    /\ IF ignore
         THEN UNCHANGED <<period, sinceStart, running, lag, schedRem, heap, flag>>
         ELSE LET x  == IsrAdvance
                  uq == UpdateQueue(ShiftRem(schedRem, x), ShiftHeap(heap, x))
              IN /\ lag' = lag - x
                 /\ schedRem' = uq.sr /\ heap' = uq.heap
                 /\ flag' = (flag \/ uq.wake)
                 /\ StartTimer(uq.f)
    /\ UNCHANGED <<pc, step, preempt, ignore, snap, kbdLeft>>

(* keyboard_handler waking a parked task: wake_up_task -> schedule() ->  *)
(* start_schedule_timer(quantum) with is_updating_queue clear, so a whole *)
(* disable_and_update_timer_run_then_reenable runs inside the ISR.       *)
KeyboardWake ==
    /\ kbdLeft > 0 /\ IntrOn
    /\ pc = "idle" \/ KbdAnywhere
    /\ kbdLeft' = kbdLeft - 1
    /\ IF preempt
         THEN LET e  == Elapsed(Count)
                  uq == UpdateQueue(Quantum, ShiftHeap(heap, e))
              IN /\ lag' = lag - e
                 /\ schedRem' = uq.sr /\ heap' = uq.heap
                 /\ flag' = (flag \/ uq.wake)
                 /\ StartTimer(uq.f)
                 /\ ignore' = FALSE
         ELSE UNCHANGED <<period, sinceStart, running, lag, schedRem, heap, flag,
                          ignore>>
    /\ UNCHANGED <<pc, step, preempt, irr, snap>>

Thread == Begin \/ DuCli \/ DuStop \/ DuElapsed \/ DuUpdate \/ WaitReturn

Next == Thread \/ Tick \/ TimerIsr \/ KeyboardWake

(* Hardware time advances while the timer runs; a pending interrupt is    *)
(* taken whenever IF is set again; the thread is scheduled often enough   *)
(* to execute its next statement (it is the only thread of the model).   *)
Fairness ==
    /\ WF_vars(Tick)
    /\ SF_vars(TimerIsr)
    /\ SF_vars(Thread)

Spec == Init /\ [][Next]_vars /\ Fairness

-----------------------------------------------------------------------------
Window == {"du_stop", "du_elapsed", "du_update"}

TypeOK ==
    /\ pc \in {"idle", "hlt", "du_cli"} \cup Window
    /\ step \in 0..Len(Script)
    /\ preempt \in BOOLEAN /\ running \in BOOLEAN /\ irr \in BOOLEAN
    /\ ignore \in BOOLEAN /\ flag \in BOOLEAN
    /\ period \in 1..Default /\ sinceStart \in 0..period
    /\ snap \in 0..Default /\ lag \in Int
    /\ schedRem \in 0..Default \cup {None}
    /\ heap \in Seq([rem : 0..Default, kind : {"wait", "sched"}])
    /\ kbdLeft \in 0..KbdWakes

(* runtime never runs ahead of the time that has really passed. Every    *)
(* update adds to runtime what the hardware measured since the last one  *)
(* (disable_and_update_timer_run_then_reenable, timer_handler), and the *)
(* ignore flag keeps a stale interrupt from being counted again; if it   *)
(* failed, a Wait or the preemption alarm would fire before its time.    *)
RuntimeNeverAhead == lag >= 0

(* Whenever the timer runs, it expires no later than the earliest pending *)
(* deadline (schedule_alarm and the alarm heap) in real time: the         *)
(* frequency update_queue returns, min'ed with the default, is what the  *)
(* LAPIC is started with, so no alarm is notified late.                  *)
TimerCoversAlarms ==
    running =>
        /\ schedRem # None => Count <= schedRem - lag
        /\ \A i \in DOMAIN heap : Count <= heap[i].rem - lag

(* timer::wait(d) returns: its Wait alarm is notified by some update and *)
(* hlt_wait sees the flag.                                                *)
WaitReturns == pc = "hlt" ~> pc = "idle"

(* The LAPIC elapsed-tick subtraction last_lapic_timer_tick_count -       *)
(* curr_lapic_ticks never underflows: the count read in the disable block *)
(* was taken from the timer the last start programmed.                    *)
NoElapsedUnderflow == pc = "du_elapsed" /\ ~UseTsc => snap <= period
=============================================================================
