------------------------- MODULE MaintenanceWindow -------------------------
(***************************************************************************)
(* utils/timewindow.go: the daily window in which a policy of mode         *)
(* "MaintenanceWindow" may scale.  A user writes begin and end as times of *)
(* day in a time zone; the controller turns both into times of a UTC day,  *)
(* field by field, and compares those with the clock.                      *)
(*                                                                         *)
(* The clock ticks in seconds and comes round every day; what the code     *)
(* drops (the date, fractions of a second) is left out.  Times beyond the  *)
(* range of NewMaintenanceTime panic there: Parse never makes one.         *)
(***************************************************************************)
EXTENDS Integers

CONSTANTS
    Written,    \* windows that users write
    Unknown     \* nobody saw the window open

Day == 86400    \* seconds: 24 hours of 60 minutes of 60

\* The farthest zone that time.Parse accepts: 24 hours and 60 minutes.
MaxZone == 1500

\* What time.Parse accepts for "150405-0700"; the zone is in minutes.
Clock == [hour : 0..23, minute : 0..59, second : 0..59, zone : (-MaxZone)..MaxZone]

ASSUME WindowAssumption ==
    /\ Written # {} /\ Written \subseteq [begin : Clock, end : Clock]
    /\ Unknown \notin Nat

VARIABLES
    now,        \* the second of the UTC day
    written,    \* the window in the spec
    age         \* history: seconds since it opened, if that was seen

vars == <<now, written, age>>

-----------------------------------------------------------------------------
(* Times of day. *)

Time == [hour : 0..23, minute : 0..59, second : 0..59]

SecondOf(t) == 3600 * t.hour + 60 * t.minute + t.second

NewMaintenanceTime(hour, minute, second) ==
    [hour |-> hour, minute |-> minute, second |-> second]

\* The fields of an instant, given by the seconds since some UTC midnight.
TimeToMaintenanceTime_AnyDay(instant) ==
    NewMaintenanceTime(instant \div 3600, (instant \div 60) % 60, instant % 60)

TimeToMaintenanceTime(instant) ==
    NewMaintenanceTime((instant \div 3600) % 24, (instant \div 60) % 60, instant % 60)

ParseMaintenanceTime_IgnoresZone(clock) == TimeToMaintenanceTime(SecondOf(clock))

ParseMaintenanceTime(clock) == TimeToMaintenanceTime(SecondOf(clock) - 60 * clock.zone)

Compare(t, other) ==
    CASE t.hour # other.hour     -> t.hour - other.hour
      [] t.hour = other.hour /\ t.minute # other.minute
                                 -> t.minute - other.minute
      [] OTHER                   -> t.second - other.second

-----------------------------------------------------------------------------
(* Windows. *)

ParseMaintenanceTimeWindow(w) ==
    [begin |-> ParseMaintenanceTime(w.begin), end |-> ParseMaintenanceTime(w.end)]

SpansDifferentDays_Never(w) == FALSE

SpansDifferentDays(w) == Compare(w.end, w.begin) < 0

Contains_EndsEarly(w, instant) ==
    LET t == TimeToMaintenanceTime(instant)
    IN  IF SpansDifferentDays(w)
        THEN ~(Compare(t, w.end) >= 0 /\ Compare(t, w.begin) < 0)
        ELSE Compare(t, w.begin) >= 0 /\ Compare(t, w.end) < 0

Contains(w, instant) ==
    LET t == TimeToMaintenanceTime(instant)
    IN  IF SpansDifferentDays(w)
        THEN ~(Compare(t, w.end) > 0 /\ Compare(t, w.begin) < 0)
        ELSE Compare(t, w.begin) >= 0 /\ Compare(t, w.end) <= 0

\* An end that is not after the begin is one of the next day.
AdjustedEnd(w) == SecondOf(w.end) + IF Compare(w.end, w.begin) <= 0 THEN Day ELSE 0

Duration(w) == AdjustedEnd(w) - SecondOf(w.begin)

-----------------------------------------------------------------------------
(* The clock and the user. *)

Window == ParseMaintenanceTimeWindow(written)
Open   == Contains(Window, now)

TypeOK ==
    /\ now \in 0..(Day - 1) /\ written \in Written
    /\ Window \in [begin : Time, end : Time]
    /\ age = Unknown \/ age \in 0..(Day - 1)

Init == now \in 0..(Day - 1) /\ written \in Written /\ age = Unknown

Tick ==
    /\ now' = (now + 1) % Day /\ UNCHANGED written
    /\ age' = CASE ~Open'                        -> Unknown
                [] Open' /\ ~Open                -> 0
                [] Open' /\ Open /\ age = Unknown -> Unknown
                [] OTHER                         -> age + 1

UserEdits ==
    /\ written' \in Written \ {written}
    /\ age' = Unknown
    /\ UNCHANGED now

Next == Tick \/ UserEdits

Spec == Init /\ [][Next]_vars

\* Time passes.
FairSpec == Spec /\ WF_vars(Tick)

-----------------------------------------------------------------------------
(* Properties. *)

\* Read on a clock of the zone it is written in, a window is open from its begin
\* to its end, both included, and round midnight if the end is the earlier one:
\* no matter on which UTC days the zone puts them, and in which order.
LocalTime(zone) == (now + 60 * zone) % Day

OpenInItsZone ==
    LET begin == SecondOf(written.begin)
        end   == SecondOf(written.end)
        local == LocalTime(written.begin.zone)
    IN  written.begin.zone = written.end.zone =>
          (Open <=> IF begin <= end THEN begin <= local /\ local <= end
                                    ELSE begin <= local \/ local <= end)

\* A window that closes has been open for what Duration says, and for the second
\* of its end.  If the end is the begin it was open for that second alone, and
\* Duration says a day.
OpenForDuration ==
    [][Tick /\ Open /\ ~Open' /\ age # Unknown
       => age = IF Window.begin = Window.end THEN 0 ELSE Duration(Window)]_vars

\* Once the user leaves the window as it is, Contains holds again every day.  (A
\* window of one second may still fall between two reconciles.)
OpensAgain == <>[][UNCHANGED written]_vars => []<>Open
=============================================================================
