------------------------------ MODULE Calendar ------------------------------
(***************************************************************************)
(* The service periods of a schedule: class ServicePeriod (calendar.txt    *)
(* rows with their calendar_dates.txt exceptions) and the queries of       *)
(* Schedule that put several periods together.  A date is a number; the    *)
(* missing date None is 0, which like None is false in a condition.        *)
(***************************************************************************)
EXTENDS Naturals, Sequences, FiniteSetsExt

CONSTANTS MaxDate,     \* bound: the last date of the model
          Week,        \* days in a week (7 in the code)
          Weekend,     \* the weekend days of 0 .. Week-1 ({5, 6})
          BadDates,    \* dates outside the years 1900 to 2100
          MaxPeriods   \* bound: service periods in the schedule

ASSUME CalendarAssumption ==
    /\ MaxDate \in Nat /\ MaxPeriods \in Nat /\ Week \in Nat \ {0}
    /\ Weekend \subseteq 0 .. Week - 1
    /\ BadDates \subseteq 1 .. MaxDate

Dates == 1 .. MaxDate
NoDate == 0
OptDates == Dates \cup {NoDate}
Weekday(date) == date % Week

Period == [start : OptDates, end : OptDates, days : SUBSET (0 .. Week - 1),
           exception : [Dates -> {"none", "add", "remove"}]]

VARIABLES periods,   \* Schedule.service_periods, in the order of the dict
          feedDates  \* feed_start_date and feed_end_date of feed_info

vars == <<periods, feedDates>>

TypeOK == /\ periods \in Seq(Period)
          /\ Len(periods) <= MaxPeriods
          /\ feedDates \in [start : OptDates, end : OptDates]

NewPeriod == [start |-> NoDate, end |-> NoDate, days |-> {},
              exception |-> [date \in Dates |-> "none"]]

-----------------------------------------------------------------------------
(* Queries of one period.                                                  *)

AddedDates(p) == {date \in Dates : p.exception[date] = "add"}

(* Fault: the range is the one of calendar.txt alone.                      *)
CalendarDateRange(p) == <<p.start, p.end>>

(* get_date_range: the loop over date_exceptions takes the least and the   *)
(* greatest added date into account; one missing end copies the other.     *)
GetDateRange(p) ==
    LET starts == ({p.start} \ {NoDate}) \cup AddedDates(p)
        ends == ({p.end} \ {NoDate}) \cup AddedDates(p)
        start == IF starts = {} THEN NoDate ELSE Min(starts)
        end == IF ends = {} THEN NoDate ELSE Max(ends)
    IN  <<IF start = NoDate THEN end ELSE start,
          IF end = NoDate THEN start ELSE end>>

IsActiveOn(p, date) ==
    \/ p.exception[date] = "add"
    \/ /\ p.exception[date] = "none"
       /\ p.start # NoDate /\ p.end # NoDate
       /\ p.start <= date /\ date <= p.end
       /\ Weekday(date) \in p.days

(* active_dates walks the days of the range and keeps the active ones.     *)
ActiveDates(p) ==
    LET range == GetDateRange(p) IN
    IF range[1] = NoDate THEN {}
    ELSE {date \in range[1] .. range[2] : IsActiveOn(p, date)}

-----------------------------------------------------------------------------
(* Queries of the schedule.                                                *)

(* The positions of the periods whose range has a first (or last) date, in *)
(* order: the lists starts and ends of get_date_range_with_origins.        *)
Dated(side) == SelectSeq([i \in 1 .. Len(periods) |-> i],
                         LAMBDA i : GetDateRange(periods[i])[side] # NoDate)

Bounds(side) == {GetDateRange(periods[i])[side] : i \in 1 .. Len(periods)}
                    \ {NoDate}

HasServiceDates == Bounds(1) # {}

Earliest == IF feedDates.start # NoDate THEN feedDates.start ELSE Min(Bounds(1))
Latest == IF feedDates.end # NoDate THEN feedDates.end ELSE Max(Bounds(2))

(* minindex and maxindex are positions in starts and ends, the lists       *)
(* without the dateless periods, but the code uses them as positions in    *)
(* period_list.                                                            *)
MinIndex == Min({k \in 1 .. Len(Dated(1)) :
                    GetDateRange(periods[Dated(1)[k]])[1] = Min(Bounds(1))})
MaxIndex == Max({k \in 1 .. Len(Dated(2)) :
                    GetDateRange(periods[Dated(2)[k]])[2] = Max(Bounds(2))})

Origin(feedDate, index, date) ==
    IF feedDate # NoDate THEN "feed_info.txt"
    ELSE IF periods[index].exception[date] = "add" THEN "calendar_dates.txt"
    ELSE "calendar.txt"

MinOrigin == Origin(feedDates.start, MinIndex, Min(Bounds(1)))
MaxOrigin == Origin(feedDates.end, MaxIndex, Max(Bounds(2)))

-----------------------------------------------------------------------------
Init ==
    /\ periods = <<>>
    /\ feedDates = [start |-> NoDate, end |-> NoDate]

AddPeriod ==
    /\ Len(periods) < MaxPeriods
    /\ periods' = Append(periods, NewPeriod)
    /\ UNCHANGED feedDates

(* set_start_date, set_end_date                                            *)
SetStartDate(i, date) ==
    periods' = [periods EXCEPT ![i].start = date] /\ UNCHANGED feedDates
SetEndDate(i, date) ==
    periods' = [periods EXCEPT ![i].end = date] /\ UNCHANGED feedDates

SetDays(i, days, hasService) ==
    /\ periods' = [periods EXCEPT ![i].days =
                      IF hasService THEN @ \cup days ELSE @ \ days]
    /\ UNCHANGED feedDates

(* set_day_of_week_has_service, set_weekday_service, set_weekend_service   *)
SetDayOfWeekHasService(i, day, hasService) == SetDays(i, {day}, hasService)
SetWeekdayService(i, hasService) ==
    SetDays(i, (0 .. Week - 1) \ Weekend, hasService)
SetWeekendService(i, hasService) == SetDays(i, Weekend, hasService)

(* With a problem reporter a second exception for a date is reported; if   *)
(* that raises, the first one stays, otherwise the second replaces it.     *)
SetDateHasService(i, date, hasService, raising) ==
    /\ periods' =
          IF raising /\ periods[i].exception[date] # "none" THEN periods
          ELSE [periods EXCEPT ![i].exception[date] =
                   IF hasService THEN "add" ELSE "remove"]
    /\ UNCHANGED feedDates

ResetDateToNormalService(i, date) ==
    /\ periods' = [periods EXCEPT ![i].exception[date] = "none"]
    /\ UNCHANGED feedDates

(* Fault: only the start date is dropped.                                  *)
ValidatedHalf(p) == [p EXCEPT !.start = IF @ \in BadDates THEN p.end ELSE @]

(* ServicePeriod.validate drops a start or end date out of the valid years *)
(* when the reporter lets it go on; bad exception dates stay.              *)
Validated(p) ==
    [p EXCEPT !.start = IF @ \in BadDates THEN NoDate ELSE @,
              !.end = IF @ \in BadDates THEN NoDate ELSE @]

ValidatePeriod(i) ==
    periods' = [periods EXCEPT ![i] = Validated(@)] /\ UNCHANGED feedDates

(* Schedule.add_feed_info_object, with a feed_info.txt row                 *)
SetFeedInfo(start, end) ==
    feedDates' = [start |-> start, end |-> end] /\ UNCHANGED periods

Next ==
    \/ AddPeriod
    \/ \E i \in 1 .. Len(periods) :
          \/ \E date \in OptDates : SetStartDate(i, date) \/ SetEndDate(i, date)
          \/ \E day \in 0 .. Week - 1, b \in BOOLEAN :
                SetDayOfWeekHasService(i, day, b)
          \/ \E b \in BOOLEAN : SetWeekdayService(i, b) \/ SetWeekendService(i, b)
          \/ \E date \in Dates, b, raising \in BOOLEAN :
                SetDateHasService(i, date, b, raising)
          \/ \E date \in Dates : ResetDateToNormalService(i, date)
          \/ ValidatePeriod(i)
    \/ \E start, end \in OptDates : SetFeedInfo(start, end)

Spec == Init /\ [][Next]_vars

-----------------------------------------------------------------------------
(* Properties.                                                             *)

(* active_dates only looks inside get_date_range; it still finds every     *)
(* date on which is_active_on says there is service, whichever ends are    *)
(* missing, reversed or overtaken by exceptions.                           *)
ActiveDatesAreExact ==
    \A i \in 1 .. Len(periods) :
        ActiveDates(periods[i]) = {d \in Dates : IsActiveOn(periods[i], d)}

(* Schedule.get_date_range, unless feed_info overrides it: every day with  *)
(* service in any period lies inside, and it is never half missing.        *)
ScheduleRangeCoversService ==
    /\ \A i \in 1 .. Len(periods) : \A d \in ActiveDates(periods[i]) :
          /\ HasServiceDates
          /\ feedDates.start = NoDate => Earliest <= d
          /\ feedDates.end = NoDate => d <= Latest
    /\ HasServiceDates <=> Bounds(2) # {}

(* ServicePeriod.validate may only take service away.                      *)
ValidateAddsNoService ==
    [][\A i \in 1 .. Len(periods) :
          ValidatePeriod(i) =>
             ActiveDates(periods'[i]) \subseteq ActiveDates(periods[i])]_vars

(* schedule.py, get_date_range_with_origins: "The origins specify where    *)
(* the earliest or latest dates come from".                                *)
OriginsAreRight ==
    HasServiceDates =>
        /\ MinOrigin = "calendar_dates.txt" =>
             \E i \in 1 .. Len(periods) : periods[i].exception[Earliest] = "add"
        /\ MinOrigin = "calendar.txt" =>
             \E i \in 1 .. Len(periods) :
                 Earliest \in {periods[i].start, periods[i].end}
        /\ MaxOrigin = "calendar_dates.txt" =>
             \E i \in 1 .. Len(periods) : periods[i].exception[Latest] = "add"
        /\ MaxOrigin = "calendar.txt" =>
             \E i \in 1 .. Len(periods) :
                 Latest \in {periods[i].start, periods[i].end}
=============================================================================
