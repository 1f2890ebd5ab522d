--------------------------- MODULE MCIntervalCache ---------------------------
(* Instances of IntervalCache for TLC. *)
EXTENDS IntervalCache

(* One minute and two, in half-minutes.                                     *)
HourAndDay == [hour |-> 2, day |-> 4]
==============================================================================
