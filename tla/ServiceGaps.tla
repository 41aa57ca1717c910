----------------------------- MODULE ServiceGaps -----------------------------
(***************************************************************************)
(* Schedule.validate_service_range_and_exceptions: the checks of a feed's  *)
(* date range against today, ending with the walk over the days of         *)
(* validate_service_gaps.  A day is an integer.  Each report reaches a     *)
(* problem accumulator that either collects it or raises, and then the     *)
(* whole validation ends there.                                            *)
(***************************************************************************)
EXTENDS Integers, FiniteSets

CONSTANTS Days,         \* bound: the days of the model
          MaxInterval,  \* bound: the largest service_gap_interval
          Year,         \* days looked ahead (365 in the code)
          SixMonths,    \* feeds shorter than this need no exceptions (182)
          WarnDays      \* days before the expiry that are warned about (60)

ASSUME GapsAssumption ==
    /\ Days \subseteq Int
    /\ {MaxInterval, Year, SixMonths, WarnDays} \subseteq Nat

NoInterval == 0   \* service_gap_interval is None

VARIABLES range,          \* what get_date_range_with_origins gave
          withTrips,      \* days on which some trip runs
          firstDay,       \* first_service_day
          lastDay,        \* last_service_day
          hasExceptions,  \* some service period has exceptions
          today,
          interval,       \* service_gap_interval
          raising,        \* the accumulator raises
          phase,          \* where the validation is; "building": not begun
          date,           \* day_date of the loop
          days,           \* consecutive_days_without_service
          first,          \* first_day_without_service
          last,           \* last_day_without_service
          reports,        \* problems reported before the loop
          gaps            \* gaps reported: too_many_days_without_service

inputs == <<range, withTrips, firstDay, lastDay, hasExceptions, today, interval,
            raising>>
loop == <<date, days, first, last>>
gapsVars == <<inputs, phase, loop, reports, gaps>>

Phases == {"building", "exceptions", "expiration", "future", "gaps", "done", "raised"}
Ranges == {"valid", "missing", "malformed"}
Kinds == {"no_service_dates", "no_service_exceptions", "expiration_date", "future_service"}
Gap == [first : Int, last : Int, days : Int]

GapsTypeOK ==
    /\ range \in Ranges
    /\ withTrips \in SUBSET Days
    /\ firstDay \in Days /\ lastDay \in Days /\ today \in Days
    /\ hasExceptions \in BOOLEAN /\ raising \in BOOLEAN
    /\ interval \in 0 .. MaxInterval
    /\ phase \in Phases
    /\ date \in Int /\ days \in Nat /\ first \in Int /\ last \in Int
    /\ reports \in SUBSET Kinds
    /\ gaps \in SUBSET Gap

-----------------------------------------------------------------------------
(* The window [start, end) that is searched for gaps.                      *)

(* Fault: one day too far into the past.                                   *)
StartTooEarly ==
    IF firstDay > today - interval THEN firstDay ELSE today - interval

Start == IF firstDay > today - (interval - 1) THEN firstDay
                                              ELSE today - (interval - 1)

End == IF lastDay < today + Year THEN lastDay ELSE today + Year

(* One check that reports a problem of this kind when it fails.            *)
Check(kind, fails, next) ==
    /\ reports' = IF fails THEN reports \cup {kind} ELSE reports
    /\ phase' = IF fails /\ raising THEN "raised" ELSE next
    /\ UNCHANGED <<inputs, loop, gaps>>

(* A feed without dates is reported; dates that do not parse are passed    *)
(* over, as ServicePeriod has checked them.                                *)
NoServiceRange ==
    /\ phase = "exceptions" /\ range # "valid"
    /\ Check("no_service_dates", range = "missing", "done")

ValidateServiceExceptions ==
    /\ phase = "exceptions" /\ range = "valid"
    /\ Check("no_service_exceptions",
             lastDay - firstDay >= SixMonths /\ ~ hasExceptions, "expiration")

ValidateExpiration ==
    /\ phase = "expiration"
    /\ Check("expiration_date", lastDay < today + WarnDays, "future")

ValidateFutureService ==
    /\ phase = "future"
    /\ Check("future_service", firstDay > today,
             IF interval = NoInterval THEN "done" ELSE "gaps")

(* The report of the current gap, when it is long enough.                  *)
LongEnough == days >= interval
ReportGap == gaps' = gaps \cup {[first |-> first, last |-> last, days |-> days]}

DayWithoutService ==
    /\ phase = "gaps" /\ date < End
    /\ date \notin withTrips
    /\ first' = IF days = 0 THEN date ELSE first
    /\ last' = date
    /\ days' = days + 1
    /\ date' = date + 1
    /\ UNCHANGED <<inputs, phase, reports, gaps>>

(* Fault: the count is not reset after a gap that is too short to report.  *)
DayWithServiceUnreset ==
    /\ phase = "gaps" /\ date < End
    /\ date \in withTrips
    /\ IF LongEnough THEN ReportGap /\ days' = 0 ELSE UNCHANGED <<gaps, days>>
    /\ phase' = IF LongEnough /\ raising THEN "raised" ELSE "gaps"
    /\ date' = date + 1
    /\ UNCHANGED <<inputs, first, last, reports>>

DayWithService ==
    /\ phase = "gaps" /\ date < End
    /\ date \in withTrips
    /\ IF LongEnough THEN ReportGap ELSE UNCHANGED gaps
    /\ phase' = IF LongEnough /\ raising THEN "raised" ELSE "gaps"
    /\ days' = 0
    /\ date' = date + 1
    /\ UNCHANGED <<inputs, first, last, reports>>

(* Fault: a gap at the end of the window is not looked at.                 *)
EndOfRangeUnchecked ==
    /\ phase = "gaps" /\ date >= End
    /\ phase' = "done"
    /\ UNCHANGED <<inputs, loop, reports, gaps>>

(* Fault: the check at the end runs again and again.                       *)
EndOfRangeRepeated ==
    /\ phase = "gaps" /\ date >= End
    /\ IF LongEnough THEN ReportGap ELSE UNCHANGED gaps
    /\ phase' = IF LongEnough THEN "gaps" ELSE "done"
    /\ UNCHANGED <<inputs, loop, reports>>

(* A gap at the end of the range is checked after the loop.                *)
EndOfRange ==
    /\ phase = "gaps" /\ date >= End
    /\ IF LongEnough THEN ReportGap ELSE UNCHANGED gaps
    /\ phase' = IF LongEnough /\ raising THEN "raised" ELSE "done"
    /\ UNCHANGED <<inputs, loop, reports>>

GapsNext ==
    \/ NoServiceRange
    \/ ValidateServiceExceptions
    \/ ValidateExpiration
    \/ ValidateFutureService
    \/ DayWithoutService
    \/ DayWithService
    \/ EndOfRange

-----------------------------------------------------------------------------
(* Properties.                                                             *)

Idle(a, b) == \A d \in a .. b : d \notin withTrips

(* A longest stretch of days a .. b without service, within the days up to *)
(* stop, of at least interval days.                                        *)
IsGap(a, b, stop) ==
    /\ Start <= a /\ a <= b /\ b < stop
    /\ Idle(a, b)
    /\ a = Start \/ a - 1 \in withTrips
    /\ b - a + 1 >= interval

GapRecord(a, b) == [first |-> a, last |-> b, days |-> b - a + 1]

(* validate_service_gaps reports nothing but the longest stretches without *)
(* service in its window, each with its right bounds and length.           *)
GapsAreReal ==
    \A g \in gaps : /\ g.days = g.last - g.first + 1
                    /\ IsGap(g.first, g.last, End)
                    /\ g.last + 1 < End => g.last + 1 \in withTrips

(* When it returns it has reported every one of them, the one that touches *)
(* the end of the window included.                                         *)
GapsAreComplete ==
    phase = "done" /\ range = "valid" /\ interval # NoInterval =>
        \A a \in Start .. End, b \in Start .. End :
            /\ IsGap(a, b, End)
            /\ b + 1 < End => b + 1 \in withTrips
            => GapRecord(a, b) \in gaps

(* "We subtract 1 from service_gap_interval so that if today has service   *)
(* no warning is issued": no gap that ended before today is reported.      *)
PastGapsAreSilent == \A g \in gaps : g.last >= today

(* With an accumulator that raises, the first report is the only one.      *)
RaisingReportsOnce ==
    raising => Cardinality(reports) + Cardinality(gaps) <= 1
=============================================================================
