---------------------------- MODULE MCScheduler ----------------------------
(* Instantiates Scheduler for TLC with a two-slot scancode queue and a    *)
(* few key presses, so the queue fills, a key is dropped and the terminal *)
(* parks and is woken again.                                               *)
(*   MCBootOrder: the terminal task _start (kernel/src/main.rs) adds on   *)
(*     the BSP, then a CPU-bound worker through the public add_task, so   *)
(*     the ready queue, preemption and the wake-up path interleave.        *)
EXTENDS Scheduler

CONSTANTS term, w1

MCWorkers == {w1}
MCBootOrder == <<term, w1>>
=============================================================================
