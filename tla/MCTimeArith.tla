----------------------------- MODULE MCTimeArith -----------------------------
(***************************************************************************)
(* Checks TimeArith against integer nanoseconds over bounded inputs.  The  *)
(* state holds the inputs: two times a and b and a tick count k; each step *)
(* picks a new one, so every combination is a reachable state.             *)
(***************************************************************************)
EXTENDS TimeArith

CONSTANT TicksPerMs   \* what lapic.get_*_per_ms measured at boot

VARIABLES a, b, k

vars == <<a, b, k>>

\* Sub-second parts at their edges: zero, one and the largest field value
Field == {0, 1, 999}

\* Times below one second; their sums carry into secs
Times == {New(0, ms, us, ns) : ms \in Field, us \in Field, ns \in Field}

\* Durations a timer is armed with: update_queue caps them at
\* TIMER_DEFAULT_FREQUENCY, one second
Durations == Times \cup {New(1, 0, 0, 0)}

\* Tick counts around the factor boundaries of ticks_to_time
TickCounts == {0, 1, 7, 999, 1001, 2399, 2401, 6001, 123457, 1999999}

Zero == New(0, 0, 0, 0)

Init == a = Zero /\ b = Zero /\ k = 0

PickA == \E t \in Durations : a' = t /\ UNCHANGED <<b, k>>
PickB == \E t \in Times : b' = t /\ UNCHANGED <<a, k>>
PickK == \E n \in TickCounts : k' = n /\ UNCHANGED <<a, b>>

Next == PickA \/ PickB \/ PickK

Spec == Init /\ [][Next]_vars

-----------------------------------------------------------------------------
(* Properties *)

TypeOK ==
    /\ a \in Durations
    /\ b \in Times
    /\ k \in TickCounts

\* Add for Time, with its three carries, is addition of nanoseconds.
AddAgrees == Nanos(Add(a, b)) = Nanos(a) + Nanos(b)

\* Sub for Time, with its borrow chain, is subtraction of nanoseconds
\* whenever the result is not negative (spec 9: a + b - b = a).
SubAgrees == Nanos(a) >= Nanos(b) => Nanos(Sub(a, b)) = Nanos(a) - Nanos(b)

\* from_ns, from_us and from_ms build the time of k nanoseconds,
\* microseconds and milliseconds (spec 9: from_ms(s*1000+m) = {s, m, 0, 0}).
FromUnitsAgree ==
    /\ Nanos(FromNs(k)) = k
    /\ Nanos(FromUs(k)) = 1000 * k
    /\ FromMs(k).secs * 1000 + FromMs(k).ms = k
    /\ FromMs(k).us = 0 /\ FromMs(k).ns = 0

\* The timer is never armed for longer than asked: time_to_ticks of a
\* duration is at most one tick more than the ticks the timer counts in
\* that duration, so enable_lapic_timer and set_timer_tsc_deadline never
\* fire late by more than the rounding.
TicksNotLate == TimeToTicks(Rates(TicksPerMs), a) <= RealTicks(TicksPerMs, a) + 1

\* runtime never gains on real time: ticks_to_time of k elapsed ticks is at
\* most the time k ticks take, so disable_and_update and the TSC handler
\* never advance runtime past the present.
TimeNotAhead ==
    Nanos(TicksToTime(Rates(TicksPerMs), k)) * (TicksPerMs \div 1000) <= k * 1000

=============================================================================
