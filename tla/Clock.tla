-------------------------------- MODULE Clock --------------------------------
(***************************************************************************)
(* The monotonic clock that every time-windowed component reads through    *)
(* time.Now(), counted in whole ticks up to a bound. Several steps may     *)
(* happen at one reading of the clock.                                     *)
(***************************************************************************)
EXTENDS Integers

CONSTANT MaxTime    \* bound on the clock, for model checking

ASSUME ClockAssumption == MaxTime \in Nat

VARIABLE now

ClockInit == now = 0

\* A ticker (time.Ticker) has ticked since a moment; -1 is before its start.
Ticked(since, interval) == now \div interval > since \div interval

ClockTick == now < MaxTime /\ now' = now + 1
=============================================================================
