------------------------------ MODULE MCTimer ------------------------------
(* Instantiates Timer for TLC. Time is scaled to small integers that keep *)
(* the order of the code's durations: the waits of smp::init (10 ms,      *)
(* 200 us, 500 us) < the 100 ms quantum < the 1 s default frequency.      *)
EXTENDS Timer

Call(k, d) == [kind |-> k, d |-> d]

(* The bootstrap processor: smp::init waits for one AP (INIT, SIPI, one  *)
(* poll), _start enables preemption, then the terminal yields on the     *)
(* keyboard twice.                                                         *)
BspScript == <<Call("wait", 3), Call("wait", 1), Call("wait", 1),
               Call("enable", 1), Call("yield", 1), Call("yield", 1)>>

(* The public timer API beyond what the kernel calls today: a wait and a  *)
(* schedule alarm after preemption is on, then preemption off again.      *)
ApiScript == <<Call("enable", 1), Call("wait", 2), Call("alarm", 1),
               Call("yield", 1), Call("stop", 1), Call("wait", 1)>>
=============================================================================
