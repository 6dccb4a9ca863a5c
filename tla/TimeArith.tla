------------------------------- MODULE TimeArith -------------------------------
(***************************************************************************)
(* Time arithmetic of time/mod.rs and the tick conversions of              *)
(* time/timer.rs, as operators.                                            *)
(*                                                                         *)
(* A Time is a record [secs, ms, us, ns] whose sub-second fields are below *)
(* 1000.  A Timestamp is [ts, type] with type 0..3 for Seconds,            *)
(* Miliseconds, Microseconds and Nanoseconds, the discriminants            *)
(* to_ts_type subtracts.  The u16 sums of Add stay below 2000 and cannot   *)
(* overflow.  The u64 saturations (secs, timestamps, tick products) are    *)
(* only reached about 2^64 ns after boot, so they are left out.            *)
(***************************************************************************)
EXTENDS Integers, FiniteSetsExt, TLC

\* Time::new: the constructor asserts every sub-second field is below 1000
New(s, ms, us, ns) ==
    IF Assert(ms < 1000 /\ us < 1000 /\ ns < 1000, "Time::new: field out of range")
    THEN [secs |-> s, ms |-> ms, us |-> us, ns |-> ns]
    ELSE [secs |-> s, ms |-> ms, us |-> us, ns |-> ns]

FromMs(x) == New(x \div 1000, x % 1000, 0, 0)

FromUsNoDiv(x) == [FromMs(x) EXCEPT !.us = x % 1000]

FromUs(x) == [FromMs(x \div 1000) EXCEPT !.us = x % 1000]

FromNs(x) == [FromUs(x \div 1000) EXCEPT !.ns = x % 1000]

\* u64::saturating_sub
SatSub(x, y) == IF x >= y THEN x - y ELSE 0

AddNoCarry(a, b) ==
    New(a.secs + b.secs, (a.ms + b.ms) % 1000, (a.us + b.us) % 1000, (a.ns + b.ns) % 1000)

\* Add for Time: div_rem carries from ns to us to ms to secs
Add(a, b) ==
    LET nsSum == a.ns + b.ns
        usSum == a.us + b.us + nsSum \div 1000
        msSum == a.ms + b.ms + usSum \div 1000
    IN  New(a.secs + b.secs + msSum \div 1000, msSum % 1000, usSum % 1000, nsSum % 1000)

BorrowSubOffByOne(l, r) ==
    IF r > l THEN [v |-> 999 - (r - l), borrow |-> 1] ELSE [v |-> l - r, borrow |-> 0]

\* sub_over and the borrow of one field: the field's difference and
\* whether the next field must lend 1
BorrowSub(l, r) ==
    IF r > l THEN [v |-> 1000 - (r - l), borrow |-> 1] ELSE [v |-> l - r, borrow |-> 0]

\* Sub for Time once the ns field's borrow n is known
SubFromUs(a, b, n) ==
    LET u == BorrowSub(a.us, b.us + n.borrow)
        m == BorrowSub(a.ms, b.ms + u.borrow)
    IN  New(SatSub(a.secs, b.secs + m.borrow), m.v, u.v, n.v)

\* Sub for Time: borrows from ns up to secs; only secs saturates
Sub(a, b) == SubFromUs(a, b, BorrowSub(a.ns, b.ns))

\* to_ts: the type of the lowest precision the time needs
TsType(t) ==
    CASE t.ns > 0 -> 3
      [] t.us > 0 -> 2
      [] t.ms > 0 -> 1
      [] OTHER    -> 0

\* Timestamp::to_ts_type: scale by 1000 per step between the types
ToTsType(stamp, type) ==
    LET diff == type - stamp.type
        mult == 1000 ^ (IF diff < 0 THEN -diff ELSE diff)
    IN  [ts |-> IF diff < 0 THEN stamp.ts \div mult ELSE stamp.ts * mult, type |-> type]

\* to_secs_ts, to_ms_ts, to_us_ts, to_ns_ts: convert up one type at a time
\* and add the next field
RECURSIVE ToTypeTs(_, _)
ToTypeTs(t, type) ==
    IF type = 0 THEN [ts |-> t.secs, type |-> 0]
    ELSE LET up == ToTsType(ToTypeTs(t, type - 1), type)
             field == CASE type = 1 -> t.ms [] type = 2 -> t.us [] OTHER -> t.ns
         IN  [up EXCEPT !.ts = @ + field]

\* Time::to_ts
ToTs(t) == ToTypeTs(t, TsType(t))

RatesNsNoDiv(perMs, perUs) ==
    [sec |-> perMs * 1000, ms |-> perMs, us |-> perUs, ns |-> perUs]

\* calc_ticks_per_time in Timer::init: the four conversion factors from the
\* measured ticks per millisecond, each at least 1
RatesFromUs(perMs, perUs) ==
    [sec |-> perMs * 1000, ms |-> perMs, us |-> perUs, ns |-> Max({perUs \div 1000, 1})]

Rates(perMs) == RatesFromUs(perMs, Max({perMs \div 1000, 1}))

\* the factor time_to_ticks multiplies a timestamp of this type by
RateOf(r, type) == CASE type = 0 -> r.sec [] type = 1 -> r.ms [] type = 2 -> r.us [] OTHER -> r.ns

\* Timer::time_to_ticks
TimeToTicks(r, t) == ToTs(t).ts * RateOf(r, ToTs(t).type)

\* ticks_to_time before its carries: each field is the quotient of what the
\* larger fields left by that field's factor
RawTime(r, k) ==
    [secs |-> k \div r.sec,
     ms   |-> (k % r.sec) \div r.ms,
     us   |-> ((k % r.sec) % r.ms) \div r.us,
     ns   |-> (((k % r.sec) % r.ms) % r.us) \div r.ns]

\* ticks_to_time's three carries, from ns up
CarryNs(t) == IF t.ns >= 1000 THEN [t EXCEPT !.us = @ + t.ns \div 1000, !.ns = @ % 1000] ELSE t
CarryUs(t) == IF t.us >= 1000 THEN [t EXCEPT !.ms = @ + t.us \div 1000, !.us = @ % 1000] ELSE t
CarryMs(t) == IF t.ms >= 1000 THEN [t EXCEPT !.secs = @ + t.ms \div 1000, !.ms = @ % 1000] ELSE t

Normalized(t) == New(t.secs, t.ms, t.us, t.ns)

\* Timer::ticks_to_time
TicksToTime(r, k) == Normalized(CarryMs(CarryUs(CarryNs(RawTime(r, k)))))

-----------------------------------------------------------------------------
(* Reference definitions *)

\* a Time as a count of nanoseconds
Nanos(t) == ((t.secs * 1000 + t.ms) * 1000 + t.us) * 1000 + t.ns

\* the ticks a timer at perMs ticks per millisecond counts in time t,
\* rounded down; exact in the sub-ms part when perMs is a multiple of 1000
RealTicks(perMs, t) ==
    t.secs * perMs * 1000 + t.ms * perMs + t.us * (perMs \div 1000)
    + (t.ns * (perMs \div 1000)) \div 1000

=============================================================================
