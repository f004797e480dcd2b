------------------------------ MODULE SysTime ------------------------------
(***************************************************************************)
(* include/toolpex/convert_to_systime.h: time points of some clock to      *)
(* seconds and a part of a second (timespec: in nanoseconds, timeval: in   *)
(* microseconds), and back to the system clock.  Rates are ticks a second; *)
(* times before the epoch are negative.                                    *)
(***************************************************************************)
EXTENDS Integers, Question

CONSTANTS Rates,      \* the clocks, units and system clocks asked about
          MaxTicks    \* bound: of a time point, on either side of the epoch

Divides(a, b) == b % a = 0

RateAssumption ==
    /\ \A r \in Rates :
           /\ {r.clock, r.unit, r.system} \subseteq Nat \ {0}
           /\ Divides(r.unit, r.system)
           /\ Divides(r.clock, r.unit) \/ Divides(r.unit, r.clock)
    /\ MaxTicks \in Nat

\* What is converted between, and the time point converted.
rates == question.rates
tp == question.tp
ClockRate == rates.clock
UnitRate == rates.unit
SystemRate == rates.system

\* chrono's conversion of a count between rates drops the fraction.
duration_cast(ticks, from, to) ==
    IF ticks >= 0 THEN (ticks * to) \div from ELSE -(((-ticks) * to) \div from)

\* Mutant of Seconds: a time before the epoch keeps its truncated second.
MutantSecondsTruncated(t) == duration_cast(t, ClockRate, 1)

\* The second a time point is in: truncated, then lowered if that is later.
Seconds(t) == LET s == duration_cast(t, ClockRate, 1)
              IN IF s * ClockRate > t THEN s - 1 ELSE s

\* convert_to_timespec() and convert_to_timeval().
Convert(t) ==
    [tv_sec |-> Seconds(t),
     part   |-> duration_cast(t - Seconds(t) * ClockRate, ClockRate, UnitRate)]

to_time_point(tv) ==
    tv.tv_sec * SystemRate + (tv.part * SystemRate) \div UnitRate

-----------------------------------------------------------------------------
Questions == [about : {"time"}, rates : Rates, tp : -MaxTicks .. MaxTicks]

-----------------------------------------------------------------------------
(* Properties.                                                             *)

\* The part of the second is one the kernel accepts, before the epoch too.
PartInRange == About("time") => Convert(tp).part \in 0 .. UnitRate - 1

\* A converted time is the latest one that is not after the time point: back
\* on the system clock it is less than a unit early, and exact on a clock no
\* finer than the unit.
RoundTrip ==
    About("time") =>
        LET back == to_time_point(Convert(tp)) * ClockRate    \* in a common unit
            time == tp * SystemRate
        IN /\ back <= time
           /\ (time - back) * UnitRate < ClockRate * SystemRate
           /\ Divides(ClockRate, UnitRate) => back = time

\* A later time point is never converted to an earlier time.
KeepsOrder ==
    About("time") => \A later \in tp .. MaxTicks :
        \/ Convert(tp).tv_sec < Convert(later).tv_sec
        \/ /\ Convert(tp).tv_sec = Convert(later).tv_sec
           /\ Convert(tp).part <= Convert(later).part

\* Conversions round down to a unit, on both sides of the epoch, in order.
TimesRight == PartInRange /\ RoundTrip /\ KeepsOrder
=============================================================================
