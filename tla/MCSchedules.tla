---------------------------- MODULE MCSchedules ----------------------------
(***************************************************************************)
(* Schedules for TLC: hours of two minutes, days of three hours, weeks of  *)
(* three days, and a year of a month of two days and one of three.         *)
(***************************************************************************)
EXTENDS Schedules

TwoMonths == <<2, 3>>

SomeExprs ==
    [minute : {<<Star>>, <<Only(1)>>},
     hour : {<<Star>>, <<Only(1), Only(2)>>},
     dom : {<<Star>>, <<Only(3)>>, <<EveryNth(2)>>},
     month : {<<Star>>, <<Only(2)>>},
     dow : {<<Star>>, <<Only(3)>>, <<Between(1, 2), Only(3)>>}]

(* A zone whose clock is never set, and zones east and west of UTC whose    *)
(* clock is set back or forward by an hour within the third day.            *)
Zone(before, after, at) == [before |-> before, after |-> after, at |-> at]
SomeZones ==
    {Zone(0, 0, 0), Zone(2, 4, 14), Zone(4, 2, 14), Zone(-2, -4, 18), Zone(-4, -2, 18)}
ScheduleOfOnce == [kind |-> "once", start |-> Earliest(StartTimes)]
WestOfUTC == {Zone(-2, -4, 18)}
=============================================================================
