---------------------------- MODULE ServiceProofs ----------------------------
(***************************************************************************)
(* When there is service.  The date queries of service periods and          *)
(* schedules are exact, for every number of dates and periods, length of    *)
(* week and set of bad dates.  The search for service gaps finds them all,  *)
(* for every set of service days, window and interval: the argument is the  *)
(* loop invariant of validate_service_gaps, whose counters describe the     *)
(* stretch of days without service that ends just before date, and every    *)
(* earlier stretch that is long enough has been reported.                   *)
(***************************************************************************)
EXTENDS Service, FiniteSetTheorems, WellFoundedInduction, TLAPS

-----------------------------------------------------------------------------
(* Least and greatest dates.                                               *)

\* A set of numbers has a least one.
LEMMA MinIsLeast ==
    ASSUME NEW S \in SUBSET Nat, S # {}
    PROVE  Min(S) \in S /\ \A y \in S : Min(S) <= y
<1> DEFINE R == OpToRel(<, Nat)
<1>1. PICK x \in S : \A y \in S : ~(<<y, x>> \in R)
  BY NatLessThanWellFounded, WFMin
<1>2. \A y \in S : x <= y
  <2> SUFFICES ASSUME NEW y \in S, ~(x <= y) PROVE FALSE
    OBVIOUS
  <2>1. x \in Nat /\ y \in Nat /\ y < x
    OBVIOUS
  <2>2. <<y, x>> \in R
    BY <2>1, Zenon DEF OpToRel
  <2> QED
    BY <2>2, <1>1
<1> QED
  BY <1>1, <1>2 DEF Min

\* A set of numbers up to n has a greatest one.
LEMMA MaxIsGreatest ==
    ASSUME NEW n \in Nat, NEW S \in SUBSET (0 .. n), S # {}
    PROVE  Max(S) \in S /\ \A y \in S : y <= Max(S)
<1> DEFINE T == {k \in Nat : \A y \in S : y <= k}
<1>1. T \in SUBSET Nat /\ T # {}
  <2>1. n \in T
    OBVIOUS
  <2> QED
    BY <2>1
<1>2. PICK m \in T : \A k \in T : m <= k
  <2>1. Min(T) \in T /\ \A k \in T : Min(T) <= k
    BY <1>1, MinIsLeast
  <2> QED
    BY <2>1
<1>3. m \in S
  <2>1. SUFFICES ASSUME m \notin S PROVE FALSE
    OBVIOUS
  <2>2. \A y \in S : y \in Nat /\ y < m
    BY <2>1, <1>2
  <2>3. PICK z \in S : z \in Nat /\ z < m
    BY <2>2
  <2>4. m \in Nat /\ m - 1 \in Nat /\ \A y \in S : y <= m - 1
    BY <2>2, <2>3, <1>2
  <2> QED
    BY <2>4, <1>2
<1>4. \E x \in S : \A y \in S : x >= y
  BY <1>2, <1>3
<1> QED
  BY <1>4 DEF Max

-----------------------------------------------------------------------------
(* The queries of one period.                                              *)

\* GetDateRange with its local definitions named.
Starts(p) == ({p.start} \ {NoDate}) \cup AddedDates(p)
Ends(p) == ({p.end} \ {NoDate}) \cup AddedDates(p)
First(p) == IF Starts(p) = {} THEN NoDate ELSE Min(Starts(p))
Last(p) == IF Ends(p) = {} THEN NoDate ELSE Max(Ends(p))

LEMMA PeriodFields ==
    ASSUME NEW p \in Period
    PROVE  /\ p.start \in OptDates /\ p.end \in OptDates
           /\ p.days \subseteq 0 .. Week - 1
           /\ p.exception \in [Dates -> {"none", "add", "remove"}]
BY DEF Period

\* The first date found is the least of the start and the added dates.
LEMMA FirstIsLeast ==
    ASSUME NEW p \in Period
    PROVE  /\ First(p) \in OptDates
           /\ First(p) = NoDate <=> Starts(p) = {}
           /\ \A d \in Starts(p) : First(p) <= d
<1>1. Starts(p) \subseteq Dates /\ Starts(p) \in SUBSET Nat
  BY PeriodFields, CalendarAssumption DEF Starts, AddedDates, OptDates, Dates, NoDate
<1>2. CASE Starts(p) = {}
  BY <1>2 DEF First, OptDates
<1>3. CASE Starts(p) # {}
  <2>1. Min(Starts(p)) \in Starts(p) /\ \A y \in Starts(p) : Min(Starts(p)) <= y
    BY <1>1, <1>3, MinIsLeast
  <2> QED
    BY <2>1, <1>1, <1>3, CalendarAssumption DEF First, OptDates, Dates, NoDate
<1> QED
  BY <1>2, <1>3

\* The last date found is the greatest of the end and the added dates.
LEMMA LastIsGreatest ==
    ASSUME NEW p \in Period
    PROVE  /\ Last(p) \in OptDates
           /\ Last(p) = NoDate <=> Ends(p) = {}
           /\ \A d \in Ends(p) : d <= Last(p)
<1>1. Ends(p) \subseteq Dates /\ Ends(p) \in SUBSET (0 .. MaxDate)
  BY PeriodFields, CalendarAssumption DEF Ends, AddedDates, OptDates, Dates, NoDate
<1>2. CASE Ends(p) = {}
  BY <1>2 DEF Last, OptDates
<1>3. CASE Ends(p) # {}
  <2>1. Max(Ends(p)) \in Ends(p) /\ \A y \in Ends(p) : y <= Max(Ends(p))
    BY <1>1, <1>3, MaxIsGreatest, CalendarAssumption
  <2> QED
    BY <2>1, <1>1, <1>3, CalendarAssumption DEF Last, OptDates, Dates, NoDate
<1> QED
  BY <1>2, <1>3

LEMMA RangeIsFirstLast ==
    ASSUME NEW p
    PROVE  /\ GetDateRange(p)[1] = IF First(p) = NoDate THEN Last(p) ELSE First(p)
           /\ GetDateRange(p)[2] = IF Last(p) = NoDate THEN First(p) ELSE Last(p)
BY DEF GetDateRange, First, Last, Starts, Ends

\* get_date_range is missing at both ends or at none, and an active date is inside.
LEMMA RangeCovers ==
    ASSUME NEW p \in Period
    PROVE  /\ GetDateRange(p)[1] \in OptDates /\ GetDateRange(p)[2] \in OptDates
           /\ GetDateRange(p)[1] = NoDate <=> GetDateRange(p)[2] = NoDate
           /\ \A d \in Dates : IsActiveOn(p, d) =>
                 /\ GetDateRange(p)[1] # NoDate
                 /\ GetDateRange(p)[1] <= d /\ d <= GetDateRange(p)[2]
<1> DEFINE lo == GetDateRange(p)[1]
           hi == GetDateRange(p)[2]
<1>1. /\ lo = IF First(p) = NoDate THEN Last(p) ELSE First(p)
      /\ hi = IF Last(p) = NoDate THEN First(p) ELSE Last(p)
  BY RangeIsFirstLast
<1>2. lo \in OptDates /\ hi \in OptDates /\ (lo = NoDate <=> hi = NoDate)
  BY <1>1, FirstIsLeast, LastIsGreatest
<1>3. ASSUME NEW d \in Dates, IsActiveOn(p, d)
      PROVE  lo # NoDate /\ lo <= d /\ d <= hi
  <2>1. CASE d \in AddedDates(p)
    <3>1. d \in Starts(p) /\ d \in Ends(p)
      BY <2>1 DEF Starts, Ends
    <3> QED
      BY <3>1, <1>1, FirstIsLeast, LastIsGreatest
  <2>2. CASE d \notin AddedDates(p)
    <3>1. p.start # NoDate /\ p.end # NoDate /\ p.start <= d /\ d <= p.end
      BY <2>2, <1>3 DEF IsActiveOn, AddedDates
    <3>2. p.start \in Starts(p) /\ p.end \in Ends(p)
      BY <3>1 DEF Starts, Ends
    <3>3. First(p) # NoDate /\ Last(p) # NoDate /\ First(p) <= p.start /\ p.end <= Last(p)
      BY <3>2, FirstIsLeast, LastIsGreatest
    <3>4. First(p) \in Nat /\ Last(p) \in Nat /\ p.start \in Nat /\ p.end \in Nat /\ d \in Nat
      BY FirstIsLeast, LastIsGreatest, PeriodFields, CalendarAssumption
         DEF OptDates, Dates, NoDate
    <3> HIDE DEF lo, hi
    <3> QED
      BY <3>1, <3>3, <3>4, <1>1
  <2> QED
    BY <2>1, <2>2
<1> QED
  BY <1>2, <1>3

\* active_dates finds exactly the dates is_active_on accepts.
LEMMA ActiveDatesExact ==
    ASSUME NEW p \in Period
    PROVE  ActiveDates(p) = {d \in Dates : IsActiveOn(p, d)}
<1> DEFINE lo == GetDateRange(p)[1]
           hi == GetDateRange(p)[2]
<1>1. /\ lo \in OptDates /\ hi \in OptDates
      /\ lo = NoDate <=> hi = NoDate
      /\ \A d \in Dates : IsActiveOn(p, d) => lo # NoDate /\ lo <= d /\ d <= hi
  BY RangeCovers
<1>2. ActiveDates(p) = IF lo = NoDate THEN {} ELSE {d \in lo .. hi : IsActiveOn(p, d)}
  BY DEF ActiveDates
<1> HIDE DEF lo, hi
<1>3. CASE lo = NoDate
  BY <1>1, <1>2, <1>3
<1>4. CASE lo # NoDate
  <2>1. lo .. hi \subseteq Dates
    BY <1>1, <1>4, CalendarAssumption DEF OptDates, Dates, NoDate
  <2>2. \A d \in Dates : IsActiveOn(p, d) => d \in lo .. hi
    BY <1>1, CalendarAssumption DEF OptDates, Dates, NoDate
  <2> QED
    BY <1>2, <1>4, <2>1, <2>2
<1> QED
  BY <1>3, <1>4

-----------------------------------------------------------------------------
(* The invariant: every operation keeps the periods well formed.           *)

LEMMA PutPeriod ==
    ASSUME TypeOK, NEW i \in 1 .. Len(periods), NEW q \in Period,
           periods' = [periods EXCEPT ![i] = q], UNCHANGED feedDates
    PROVE  TypeOK'
BY DEF TypeOK

LEMMA ChangedPeriod ==
    ASSUME NEW p \in Period
    PROVE  /\ \A day \in OptDates : [p EXCEPT !.start = day] \in Period
           /\ \A day \in OptDates : [p EXCEPT !.end = day] \in Period
           /\ \A week \in SUBSET (0 .. Week - 1) : [p EXCEPT !.days = week] \in Period
           /\ \A day \in Dates : \A kind \in {"none", "add", "remove"} :
                 [p EXCEPT !.exception[day] = kind] \in Period
           /\ Validated(p) \in Period
<1>1. \A day \in OptDates : [p EXCEPT !.start = day] \in Period
  BY DEF Period
<1>2. \A day \in OptDates : [p EXCEPT !.end = day] \in Period
  BY DEF Period
<1>3. \A week \in SUBSET (0 .. Week - 1) : [p EXCEPT !.days = week] \in Period
  BY DEF Period
<1>4. ASSUME NEW day \in Dates, NEW kind \in {"none", "add", "remove"}
      PROVE  [p EXCEPT !.exception[day] = kind] \in Period
  BY DEF Period
<1>5. Validated(p) \in Period
  BY PeriodFields DEF Validated, Period, OptDates
<1> QED
  BY <1>1, <1>2, <1>3, <1>4, <1>5

LEMMA NextKeepsTypes ==
    ASSUME TypeOK, [Next]_vars
    PROVE  TypeOK'
<1>0. CASE UNCHANGED vars
  BY <1>0 DEF TypeOK, vars
<1>1. CASE AddPeriod
  <2>1. NewPeriod \in Period
    BY DEF NewPeriod, Period, OptDates
  <2> QED
    BY <1>1, <2>1, CalendarAssumption DEF AddPeriod, TypeOK
<1>2. CASE \E start, end \in OptDates : SetFeedInfo(start, end)
  BY <1>2 DEF SetFeedInfo, TypeOK
<1>3. ASSUME NEW i \in 1 .. Len(periods)
      PROVE  /\ periods[i] \in Period /\ i \in DOMAIN periods
             /\ periods \in Seq(Period)
  BY DEF TypeOK
<1>4. ASSUME NEW i \in 1 .. Len(periods), NEW day \in OptDates,
             SetStartDate(i, day) \/ SetEndDate(i, day)
      PROVE  TypeOK'
  <2>1. CASE SetStartDate(i, day)
    <3>1. periods' = [periods EXCEPT ![i] = [periods[i] EXCEPT !.start = day]]
      BY <2>1, <1>3 DEF SetStartDate
    <3> QED
      BY <3>1, <2>1, <1>3, ChangedPeriod, PutPeriod DEF SetStartDate
  <2>2. CASE SetEndDate(i, day)
    <3>1. periods' = [periods EXCEPT ![i] = [periods[i] EXCEPT !.end = day]]
      BY <2>2, <1>3 DEF SetEndDate
    <3> QED
      BY <3>1, <2>2, <1>3, ChangedPeriod, PutPeriod DEF SetEndDate
  <2> QED
    BY <1>4, <2>1, <2>2
<1>5. ASSUME NEW i \in 1 .. Len(periods), NEW week \in SUBSET (0 .. Week - 1),
             NEW b \in BOOLEAN, SetDays(i, week, b)
      PROVE  TypeOK'
  <2> DEFINE new == IF b THEN periods[i].days \cup week ELSE periods[i].days \ week
  <2>1. periods' = [periods EXCEPT ![i] = [periods[i] EXCEPT !.days = new]]
    BY <1>5, <1>3 DEF SetDays
  <2>2. new \in SUBSET (0 .. Week - 1)
    BY <1>3, PeriodFields
  <2> HIDE DEF new
  <2> QED
    BY <2>1, <2>2, <1>5, <1>3, ChangedPeriod, PutPeriod DEF SetDays
<1>6. ASSUME NEW i \in 1 .. Len(periods), NEW day \in Dates,
             NEW b \in BOOLEAN, NEW strict \in BOOLEAN,
             SetDateHasService(i, day, b, strict)
      PROVE  TypeOK'
  <2>1. CASE strict /\ periods[i].exception[day] # "none"
    BY <1>6, <2>1 DEF SetDateHasService, TypeOK
  <2>2. CASE ~(strict /\ periods[i].exception[day] # "none")
    <3> DEFINE kind == IF b THEN "add" ELSE "remove"
    <3>1. periods' = [periods EXCEPT ![i] = [periods[i] EXCEPT !.exception[day] = kind]]
      BY <1>6, <2>2, <1>3 DEF SetDateHasService
    <3>2. kind \in {"none", "add", "remove"}
      OBVIOUS
    <3> HIDE DEF kind
    <3> QED
      BY <3>1, <3>2, <1>6, <1>3, ChangedPeriod, PutPeriod, ZenonT(60) DEF SetDateHasService
  <2> QED
    BY <2>1, <2>2
<1>7. ASSUME NEW i \in 1 .. Len(periods), NEW day \in Dates,
             ResetDateToNormalService(i, day)
      PROVE  TypeOK'
  <2>1. periods' = [periods EXCEPT ![i] = [periods[i] EXCEPT !.exception[day] = "none"]]
    BY <1>7, <1>3 DEF ResetDateToNormalService
  <2> QED
    BY <2>1, <1>7, <1>3, ChangedPeriod, PutPeriod DEF ResetDateToNormalService
<1>8. ASSUME NEW i \in 1 .. Len(periods), ValidatePeriod(i)
      PROVE  TypeOK'
  <2>1. periods' = [periods EXCEPT ![i] = Validated(periods[i])]
    BY <1>8, <1>3 DEF ValidatePeriod
  <2> QED
    BY <2>1, <1>8, <1>3, ChangedPeriod, PutPeriod DEF ValidatePeriod
<1>9. ASSUME NEW i \in 1 .. Len(periods), NEW day \in 0 .. Week - 1, NEW b \in BOOLEAN,
             SetDayOfWeekHasService(i, day, b)
      PROVE  TypeOK'
  BY <1>9, <1>5 DEF SetDayOfWeekHasService
<1>10. ASSUME NEW i \in 1 .. Len(periods), NEW b \in BOOLEAN,
              SetWeekdayService(i, b) \/ SetWeekendService(i, b)
       PROVE  TypeOK'
  <2>1. Weekend \in SUBSET (0 .. Week - 1)
    BY CalendarAssumption
  <2> QED
    BY <1>10, <1>5, <2>1 DEF SetWeekdayService, SetWeekendService
<1> QED
  BY <1>0, <1>1, <1>2, <1>4, <1>6, <1>7, <1>8, <1>9, <1>10 DEF Next

\* Every operation of ServicePeriod and add_feed_info_object keeps the periods and
\* the feed dates well typed.
THEOREM TypeCorrect == Spec => []TypeOK
<1>1. Init => TypeOK
  BY CalendarAssumption DEF Init, TypeOK, OptDates
<1>2. TypeOK /\ [Next]_vars => TypeOK'
  BY NextKeepsTypes
<1> QED
  BY <1>1, <1>2, PTL DEF Spec

-----------------------------------------------------------------------------
(* The properties.                                                         *)

\* active_dates returns exactly the dates is_active_on accepts, in every period
\* any sequence of the operations can make.
THEOREM ActiveDatesCorrect == Spec => []ActiveDatesAreExact
<1>1. TypeOK => ActiveDatesAreExact
  BY ActiveDatesExact DEF TypeOK, ActiveDatesAreExact
<1> QED
  BY <1>1, TypeCorrect, PTL

LEMMA RangeOfAll ==
    ASSUME TypeOK
    PROVE  ScheduleRangeCoversService
<1>1. ASSUME NEW i \in 1 .. Len(periods)
      PROVE  periods[i] \in Period
  BY DEF TypeOK
<1>2. /\ Bounds(1) \in SUBSET Dates /\ Bounds(1) \in SUBSET Nat
      /\ Bounds(2) \in SUBSET (0 .. MaxDate)
  BY <1>1, RangeCovers, CalendarAssumption DEF Bounds, OptDates, Dates, NoDate
<1>3. ASSUME NEW i \in 1 .. Len(periods), NEW d \in ActiveDates(periods[i])
      PROVE  /\ HasServiceDates
             /\ feedDates.start = NoDate => Earliest <= d
             /\ feedDates.end = NoDate => d <= Latest
  <2> DEFINE lo == GetDateRange(periods[i])[1]
             hi == GetDateRange(periods[i])[2]
  <2>1. d \in Dates /\ IsActiveOn(periods[i], d)
    BY <1>1, ActiveDatesExact
  <2>2. lo # NoDate /\ hi # NoDate /\ lo <= d /\ d <= hi
        /\ lo \in OptDates /\ hi \in OptDates
    BY <2>1, <1>1, RangeCovers
  <2>3. lo \in Bounds(1) /\ hi \in Bounds(2)
    BY <2>2 DEF Bounds
  <2>4. Min(Bounds(1)) \in Bounds(1) /\ Min(Bounds(1)) <= lo
    BY <2>3, <1>2, MinIsLeast
  <2>5. Max(Bounds(2)) \in Bounds(2) /\ hi <= Max(Bounds(2))
    BY <2>3, <1>2, MaxIsGreatest, CalendarAssumption
  <2>6. /\ Min(Bounds(1)) \in Nat /\ Max(Bounds(2)) \in Nat
        /\ lo \in Nat /\ hi \in Nat /\ d \in Nat
    BY <2>1, <2>2, <2>4, <2>5, <1>2, CalendarAssumption DEF OptDates, Dates, NoDate
  <2> HIDE DEF lo, hi
  <2>7. Min(Bounds(1)) <= d /\ d <= Max(Bounds(2))
    BY <2>2, <2>4, <2>5, <2>6
  <2> QED
    BY <2>3, <2>7 DEF HasServiceDates, Earliest, Latest
<1>4. HasServiceDates <=> Bounds(2) # {}
  BY <1>1, RangeCovers DEF HasServiceDates, Bounds
<1> QED
  BY <1>3, <1>4 DEF ScheduleRangeCoversService

\* Schedule.get_date_range covers the service of all periods unless feed_info says
\* otherwise.
THEOREM ScheduleRangeCovers == Spec => []ScheduleRangeCoversService
BY RangeOfAll, TypeCorrect, PTL

LEMMA ValidatedIsLess ==
    ASSUME NEW p \in Period
    PROVE  ActiveDates(Validated(p)) \subseteq ActiveDates(p)
<1>1. /\ Validated(p) \in Period
      /\ Validated(p).exception = p.exception /\ Validated(p).days = p.days
      /\ Validated(p).start \in {p.start, NoDate}
      /\ Validated(p).end \in {p.end, NoDate}
  BY ChangedPeriod DEF Validated, Period
<1>2. \A d \in Dates : IsActiveOn(Validated(p), d) => IsActiveOn(p, d)
  BY <1>1 DEF IsActiveOn
<1> QED
  BY <1>1, <1>2, ActiveDatesExact

\* ServicePeriod.validate drops bad ends and never adds a day of service.
THEOREM ValidateOnlyTakesAway == Spec => ValidateAddsNoService
<1>1. ASSUME TypeOK, NEW i \in 1 .. Len(periods), ValidatePeriod(i)
      PROVE  ActiveDates(periods'[i]) \subseteq ActiveDates(periods[i])
  <2>1. periods[i] \in Period /\ periods'[i] = Validated(periods[i])
    BY <1>1 DEF TypeOK, ValidatePeriod
  <2> QED
    BY <2>1, ValidatedIsLess
<1>2. TypeOK => [\A i \in 1 .. Len(periods) :
                   ValidatePeriod(i) =>
                     ActiveDates(periods'[i]) \subseteq ActiveDates(periods[i])]_vars
  BY <1>1
<1> QED
  BY <1>2, TypeCorrect, PTL DEF ValidateAddsNoService

-----------------------------------------------------------------------------
(* validate_service_gaps.                                                  *)

(* What the counters mean while the loop runs.                             *)
CountersAreRight ==
    /\ Start <= date
    /\ date <= End \/ date = Start
    /\ days = 0 => date = Start \/ date - 1 \in withTrips
    /\ days > 0 => /\ first = date - days /\ last = date - 1
                   /\ Start <= first
                   /\ Idle(first, date - 1)
                   /\ first = Start \/ first - 1 \in withTrips

(* The stretches that ended before date have been reported.                *)
EarlierGapsReported ==
    \A a \in Int, b \in Int :
        IsGap(a, b, date) /\ b + 1 < date /\ b + 1 \in withTrips
            => GapRecord(a, b) \in gaps

LoopInv ==
    /\ GapsTypeOK
    /\ phase = "building" => gaps = {}
    /\ phase \in {"exceptions", "expiration", "future"} =>
          gaps = {} /\ days = 0 /\ date = Start
    /\ phase = "gaps" =>
          interval # NoInterval /\ CountersAreRight /\ EarlierGapsReported
    /\ GapsAreReal
    /\ GapsAreComplete

(* The bounds of the searched window are days.                             *)
LEMMA WindowType == GapsTypeOK => Start \in Int /\ End \in Int
BY GapsAssumption DEF GapsTypeOK, Start, End

(* No validation has begun.                                                *)
LEMMA InitLoopInv == ServiceInit => LoopInv
<1>1. NoDate \in Days /\ NoDate \in Int
  BY ServiceAssumption, GapsAssumption DEF OptDates
<1> SUFFICES ASSUME ServiceInit PROVE LoopInv
  OBVIOUS
<1>2. interval \in 0 .. MaxInterval
  BY GapsAssumption DEF ServiceInit, NoInterval
<1>3. phase = "building" /\ gaps = {}
  BY DEF ServiceInit
<1>4. GapsTypeOK
  BY <1>1, <1>2, <1>3 DEF ServiceInit, GapsTypeOK, Phases, Ranges
<1> QED
  BY <1>3, <1>4 DEF LoopInv, GapsAreReal, GapsAreComplete

(* The range and the days with trips that a validation begins with.        *)
LEMMA RangeTypes ==
    ASSUME TypeOK
    PROVE  /\ HasServiceDates => Earliest \in Days /\ Latest \in Days
           /\ NoDate \in Days
           /\ \A used : DaysWithTrips(used) \in SUBSET Days
<1>1. \A i \in 1 .. Len(periods) : periods[i] \in Period
  BY DEF TypeOK
<1>2. /\ Bounds(1) \in SUBSET Nat /\ Bounds(1) \in SUBSET OptDates
      /\ Bounds(2) \in SUBSET OptDates /\ Bounds(2) \in SUBSET (0 .. MaxDate)
      /\ HasServiceDates <=> Bounds(2) # {}
  <2>1. Bounds(1) \in SUBSET OptDates /\ Bounds(2) \in SUBSET OptDates
    BY <1>1, RangeCovers DEF Bounds
  <2>2. OptDates \in SUBSET Nat /\ OptDates \in SUBSET (0 .. MaxDate)
    BY CalendarAssumption DEF OptDates, Dates, NoDate
  <2>3. HasServiceDates <=> Bounds(2) # {}
    BY RangeOfAll DEF ScheduleRangeCoversService
  <2> QED BY <2>1, <2>2, <2>3
<1>3. ASSUME HasServiceDates PROVE Earliest \in OptDates /\ Latest \in OptDates
  <2>1. Min(Bounds(1)) \in Bounds(1)
    BY <1>2, <1>3, MinIsLeast DEF HasServiceDates
  <2>2. Max(Bounds(2)) \in Bounds(2)
    BY <1>2, <1>3, MaxIsGreatest, CalendarAssumption DEF HasServiceDates
  <2> QED
    BY <1>2, <2>1, <2>2 DEF Earliest, Latest, TypeOK
<1> QED
  BY <1>3, ServiceAssumption DEF OptDates, DaysWithTrips

(* A validation begins with nothing counted and nothing reported.          *)
LEMMA StartLoopInv == TypeOK /\ LoopInv /\ StartValidation => LoopInv'
<1> SUFFICES ASSUME TypeOK, LoopInv, StartValidation PROVE LoopInv'
  OBVIOUS
<1>1. /\ firstDay' \in Days /\ lastDay' \in Days /\ today' \in Days
      /\ interval' \in 0 .. MaxInterval
  BY RangeTypes DEF StartValidation
<1>2. withTrips' \in SUBSET Days /\ range' \in Ranges
  BY RangeTypes DEF StartValidation, Ranges
<1>3. Start' \in Int
  <2>1. firstDay' \in Int /\ today' \in Int /\ interval' \in Int
    BY <1>1, GapsAssumption
  <2>2. Start' = IF firstDay' > today' - (interval' - 1)
                   THEN firstDay' ELSE today' - (interval' - 1)
    BY DEF Start
  <2>3. today' - (interval' - 1) \in Int
    BY <2>1
  <2>4. Start' = firstDay' \/ Start' = today' - (interval' - 1)
    BY <2>2, Zenon
  <2> QED BY <2>1, <2>3, <2>4, Zenon
<1>4. hasExceptions' \in BOOLEAN /\ raising' \in BOOLEAN
  BY DEF StartValidation
<1>5. /\ phase' = "exceptions" /\ gaps' = {} /\ reports' \in SUBSET Kinds
      /\ date' = Start' /\ days' = 0 /\ first' = Start' /\ last' = Start'
  BY DEF StartValidation, LoopInv, GapsTypeOK
<1>6. GapsTypeOK'
  BY <1>1, <1>2, <1>3, <1>4, <1>5 DEF GapsTypeOK, Phases
<1> QED
  BY <1>5, <1>6 DEF LoopInv, GapsAreReal, GapsAreComplete

(* The steps before the loop.                                              *)
LEMMA CheckLoopInv ==
    ASSUME LoopInv, NEW kind \in Kinds, NEW fails \in BOOLEAN, NEW next,
           phase \in {"exceptions", "expiration", "future"},
           \/ next \in {"expiration", "future"}
           \/ next = "done" /\ (range # "valid" \/ interval = NoInterval)
           \/ next = "gaps" /\ interval # NoInterval,
           Check(kind, fails, next)
    PROVE  LoopInv'
<1> USE DEF inputs, loop
<1>1. phase' \in {"raised", next} /\ phase' \in Phases /\ reports' \in SUBSET Kinds
  BY DEF Check, LoopInv, GapsTypeOK, Phases
<1>2. UNCHANGED <<range, withTrips, firstDay, lastDay, hasExceptions, today,
                  interval, raising, date, days, first, last, gaps>>
  BY DEF Check
<1>3. GapsTypeOK'
  BY <1>1, <1>2 DEF LoopInv, GapsTypeOK
<1>4. gaps = {} /\ days = 0 /\ date = Start /\ GapsTypeOK
  BY DEF LoopInv
<1>5. Start' = Start /\ End' = End
  BY <1>2 DEF Start, End
<1>6. phase' = "gaps" => interval # NoInterval
  BY <1>1
<1>7. CountersAreRight'
  BY <1>2, <1>4, <1>5, WindowType DEF CountersAreRight
<1>8. EarlierGapsReported'
  <2> SUFFICES ASSUME NEW a \in Int, NEW b \in Int, IsGap(a, b, date)',
                      b + 1 < date', b + 1 \in withTrips'
               PROVE  FALSE
    BY DEF EarlierGapsReported
  <2>1. Start <= a /\ a <= b
    BY <1>5 DEF IsGap
  <2> QED BY <1>2, <1>4, <2>1, WindowType
<1>9. GapsAreReal'
  BY <1>2, <1>4 DEF GapsAreReal
<1>10. GapsAreComplete'
  BY <1>1, <1>2 DEF GapsAreComplete
<1>11. phase' \in {"exceptions", "expiration", "future"} =>
          gaps' = {} /\ days' = 0 /\ date' = Start'
  BY <1>2, <1>4, <1>5
<1> QED BY <1>2, <1>3, <1>6, <1>7, <1>8, <1>9, <1>10, <1>11 DEF LoopInv

(* Only one stretch of days without service ends at a given day: the one   *)
(* that the counters describe.                                             *)
LEMMA OnlyOneGapEndsHere ==
    ASSUME GapsTypeOK, CountersAreRight, NEW a \in Int, NEW stop \in Int,
           IsGap(a, date - 1, stop)
    PROVE  days > 0 /\ a = first
<1>1. Start \in Int /\ End \in Int /\ date \in Int /\ days \in Nat /\ first \in Int
  BY WindowType DEF GapsTypeOK
<1>2. /\ Start <= a /\ a <= date - 1
      /\ \A d \in a .. date - 1 : d \notin withTrips
      /\ a = Start \/ a - 1 \in withTrips
  BY DEF IsGap, Idle
<1>3. days > 0
  <2>1. date - 1 \notin withTrips
    BY <1>1, <1>2
  <2>2. date # Start
    BY <1>1, <1>2
  <2> QED BY <1>1, <2>1, <2>2 DEF CountersAreRight
<1>4. /\ Start <= first /\ first = date - days
      /\ \A d \in first .. date - 1 : d \notin withTrips
      /\ first = Start \/ first - 1 \in withTrips
  BY <1>3 DEF CountersAreRight, Idle
<1>5. ~ a < first
  <2> SUFFICES ASSUME a < first PROVE FALSE
    OBVIOUS
  <2>1. first - 1 \in a .. date - 1 /\ first # Start
    BY <1>1, <1>2, <1>3, <1>4
  <2> QED BY <1>2, <1>4, <2>1
<1>6. ~ first < a
  <2> SUFFICES ASSUME first < a PROVE FALSE
    OBVIOUS
  <2>1. a - 1 \in first .. date - 1 /\ a # Start
    BY <1>1, <1>2, <1>4
  <2> QED BY <1>2, <1>4, <2>1
<1> QED BY <1>1, <1>3, <1>5, <1>6

(* A day without service keeps the loop invariant.                         *)
LEMMA DayWithoutServiceInv == LoopInv /\ DayWithoutService => LoopInv'
<1> SUFFICES ASSUME LoopInv, DayWithoutService PROVE LoopInv'
  OBVIOUS
<1>1. /\ phase = "gaps" /\ date < End /\ date \notin withTrips
      /\ first' = (IF days = 0 THEN date ELSE first) /\ last' = date
      /\ days' = days + 1 /\ date' = date + 1
      /\ UNCHANGED <<range, withTrips, firstDay, lastDay, hasExceptions, today,
                     interval, raising, phase, reports, gaps>>
  BY DEF DayWithoutService, inputs
<1>2. GapsTypeOK /\ CountersAreRight /\ EarlierGapsReported
  BY <1>1 DEF LoopInv
<1>3. GapsTypeOK'
  BY <1>1, <1>2 DEF GapsTypeOK
<1>4. Start' = Start /\ End' = End /\ Start \in Int /\ End \in Int
  BY <1>1, <1>2, WindowType DEF Start, End
<1>5. date \in Int /\ days \in Nat /\ first \in Int
  BY <1>2 DEF GapsTypeOK
<1>6. CountersAreRight'
  <2>1. Start <= date
    BY <1>2 DEF CountersAreRight
  <2>2. /\ first' = date' - days' /\ last' = date' - 1 /\ Start <= first'
        /\ \A d \in first' .. date' - 1 : d \notin withTrips
        /\ first' = Start \/ first' - 1 \in withTrips
    <3>1. CASE days = 0
      BY <1>1, <1>2, <1>4, <1>5, <2>1, <3>1 DEF CountersAreRight
    <3>2. CASE days # 0
      <4>1. days > 0
        BY <1>5, <3>2
      <4>2. /\ first = date - days /\ Start <= first
            /\ \A d \in first .. date - 1 : d \notin withTrips
            /\ first = Start \/ first - 1 \in withTrips
        BY <1>2, <4>1 DEF CountersAreRight, Idle
      <4>3. \A d \in first .. date : d \notin withTrips
        BY <1>1, <1>5, <4>2
      <4> QED BY <1>1, <1>5, <3>2, <4>2, <4>3
    <3> QED BY <3>1, <3>2
  <2> QED BY <1>1, <1>4, <1>5, <2>1, <2>2 DEF CountersAreRight, Idle
<1>7. EarlierGapsReported'
  <2> SUFFICES ASSUME NEW a \in Int, NEW b \in Int, IsGap(a, b, date)',
                      b + 1 < date', b + 1 \in withTrips'
               PROVE  GapRecord(a, b)' \in gaps'
    BY DEF EarlierGapsReported
  <2>1. b + 1 < date
    BY <1>1, <1>5
  <2>2. IsGap(a, b, date)
    BY <1>1, <1>4, <1>5, <2>1 DEF IsGap, Idle
  <2> QED BY <1>1, <1>2, <2>1, <2>2 DEF EarlierGapsReported, GapRecord
<1>8. GapsAreReal'
  BY <1>1, <1>4 DEF LoopInv, GapsAreReal, IsGap, Idle
<1>9. GapsAreComplete'
  BY <1>1 DEF GapsAreComplete
<1> QED BY <1>1, <1>3, <1>6, <1>7, <1>8, <1>9 DEF LoopInv

(* The gap that the counters describe is a real one: it may be reported at *)
(* a day with service or at the end of the window.                         *)
LEMMA CurrentGapIsReal ==
    ASSUME LoopInv, phase = "gaps", LongEnough,
           date < End => date \in withTrips
    PROVE  /\ days = last - first + 1
           /\ IsGap(first, last, End)
           /\ last + 1 < End => last + 1 \in withTrips
<1>1. GapsTypeOK /\ CountersAreRight /\ interval # 0
  BY DEF LoopInv, NoInterval
<1>2. /\ Start \in Int /\ End \in Int /\ date \in Int /\ days \in Nat
      /\ first \in Int /\ last \in Int /\ interval \in Nat
  BY <1>1, WindowType, GapsAssumption DEF GapsTypeOK
<1>3. days > 0 /\ days >= interval
  BY <1>1, <1>2 DEF LongEnough
<1>4. /\ first = date - days /\ last = date - 1 /\ Start <= first
      /\ Idle(first, date - 1) /\ (first = Start \/ first - 1 \in withTrips)
      /\ date <= End \/ date = Start
  BY <1>1, <1>3 DEF CountersAreRight
<1>5. date <= End
  BY <1>2, <1>3, <1>4
<1> QED BY <1>2, <1>3, <1>4, <1>5 DEF IsGap

(* A report adds a real gap and keeps the ones before it.                  *)
LEMMA ReportKeepsReal ==
    ASSUME LoopInv, phase = "gaps", date < End => date \in withTrips,
           UNCHANGED <<range, withTrips, firstDay, lastDay, today, interval>>,
           IF LongEnough THEN ReportGap ELSE UNCHANGED gaps
    PROVE  GapsAreReal' /\ gaps' \in SUBSET Gap /\ gaps \subseteq gaps'
<1> DEFINE g == [first |-> first, last |-> last, days |-> days]
<1>1. g \in Gap
  BY DEF LoopInv, GapsTypeOK, Gap
<1>2. Start' = Start /\ End' = End
  BY DEF Start, End
<1>3. GapsAreReal /\ gaps \in SUBSET Gap
  BY DEF LoopInv, GapsTypeOK
<1>4. CASE LongEnough
  <2>1. gaps' = gaps \cup {g}
    BY <1>4 DEF ReportGap
  <2>2. /\ g.days = g.last - g.first + 1
        /\ IsGap(g.first, g.last, End)
        /\ g.last + 1 < End => g.last + 1 \in withTrips
    BY <1>4, CurrentGapIsReal
  <2> HIDE DEF g
  <2>3. \A h \in gaps' : /\ h.days = h.last - h.first + 1
                         /\ IsGap(h.first, h.last, End)
                         /\ h.last + 1 < End => h.last + 1 \in withTrips
    BY <1>3, <2>1, <2>2 DEF GapsAreReal
  <2> QED BY <1>1, <1>2, <1>3, <2>1, <2>3 DEF GapsAreReal, IsGap, Idle
<1>5. CASE ~ LongEnough
  BY <1>2, <1>3, <1>5 DEF GapsAreReal, IsGap, Idle
<1> QED BY <1>4, <1>5

(* A stretch that ends just before date and is long enough is the one that *)
(* ReportGap reports.                                                      *)
LEMMA ReportedHere ==
    ASSUME LoopInv, phase = "gaps", NEW a \in Int, NEW stop \in Int,
           IsGap(a, date - 1, stop),
           IF LongEnough THEN ReportGap ELSE UNCHANGED gaps
    PROVE  GapRecord(a, date - 1) \in gaps'
<1>1. GapsTypeOK /\ CountersAreRight
  BY DEF LoopInv
<1>2. days > 0 /\ a = first
  BY <1>1, OnlyOneGapEndsHere
<1>3. /\ date \in Int /\ days \in Nat /\ interval \in Nat /\ first \in Int
      /\ first = date - days /\ last = date - 1
  BY <1>1, <1>2, GapsAssumption DEF GapsTypeOK, CountersAreRight
<1>4. days = (date - 1) - a + 1
  BY <1>2, <1>3
<1>5. LongEnough
  BY <1>3, <1>4 DEF IsGap, LongEnough
<1> QED BY <1>2, <1>3, <1>4, <1>5 DEF ReportGap, GapRecord

(* A day with service keeps the loop invariant.                            *)
LEMMA DayWithServiceInv == LoopInv /\ DayWithService => LoopInv'
<1> SUFFICES ASSUME LoopInv, DayWithService PROVE LoopInv'
  OBVIOUS
<1>1. /\ phase = "gaps" /\ date < End /\ date \in withTrips
      /\ IF LongEnough THEN ReportGap ELSE UNCHANGED gaps
      /\ phase' \in {"raised", "gaps"} /\ days' = 0 /\ date' = date + 1
      /\ UNCHANGED <<range, withTrips, firstDay, lastDay, hasExceptions, today,
                     interval, raising, first, last, reports>>
  BY DEF DayWithService, inputs
<1>2. GapsTypeOK /\ CountersAreRight /\ EarlierGapsReported /\ interval # NoInterval
  BY <1>1 DEF LoopInv
<1>3. GapsAreReal' /\ gaps' \in SUBSET Gap /\ gaps \subseteq gaps'
  BY <1>1, ReportKeepsReal
<1>4. GapsTypeOK'
  BY <1>1, <1>2, <1>3 DEF GapsTypeOK, Phases
<1>5. Start' = Start /\ End' = End /\ Start \in Int /\ End \in Int
  BY <1>1, <1>2, WindowType DEF Start, End
<1>6. date \in Int /\ Start <= date
  BY <1>2 DEF GapsTypeOK, CountersAreRight
<1>7. CountersAreRight'
  BY <1>1, <1>5, <1>6 DEF CountersAreRight
<1>8. EarlierGapsReported'
  <2> SUFFICES ASSUME NEW a \in Int, NEW b \in Int, IsGap(a, b, date)',
                      b + 1 < date', b + 1 \in withTrips'
               PROVE  GapRecord(a, b) \in gaps'
    BY DEF EarlierGapsReported, GapRecord
  <2>1. IsGap(a, b, date)
    BY <1>1, <1>5, <1>6 DEF IsGap, Idle
  <2>2. CASE b + 1 < date
    BY <1>1, <1>2, <1>3, <2>1, <2>2 DEF EarlierGapsReported
  <2>3. CASE b + 1 = date
    <3>1. b = date - 1
      BY <1>6, <2>3
    <3> QED BY <1>1, <1>6, <2>1, <3>1, ReportedHere
  <2> QED BY <1>1, <1>6, <2>2, <2>3
<1>9. GapsAreComplete'
  BY <1>1 DEF GapsAreComplete
<1> QED BY <1>1, <1>2, <1>3, <1>4, <1>7, <1>8, <1>9 DEF LoopInv

(* The check after the loop keeps the loop invariant.                      *)
LEMMA EndOfRangeInv == LoopInv /\ EndOfRange => LoopInv'
<1> SUFFICES ASSUME LoopInv, EndOfRange PROVE LoopInv'
  OBVIOUS
<1>1. /\ phase = "gaps" /\ date >= End
      /\ IF LongEnough THEN ReportGap ELSE UNCHANGED gaps
      /\ phase' \in {"raised", "done"}
      /\ UNCHANGED <<range, withTrips, firstDay, lastDay, hasExceptions, today,
                     interval, raising, date, days, first, last, reports>>
  BY DEF EndOfRange, inputs, loop
<1>2. GapsTypeOK /\ CountersAreRight /\ EarlierGapsReported
  BY <1>1 DEF LoopInv
<1>3. Start' = Start /\ End' = End /\ Start \in Int /\ End \in Int /\ date \in Int
  BY <1>1, <1>2, WindowType DEF Start, End, GapsTypeOK
<1>4. GapsAreReal' /\ gaps' \in SUBSET Gap /\ gaps \subseteq gaps'
  <2>1. ~ date < End
    BY <1>1, <1>3
  <2> QED BY <1>1, <2>1, ReportKeepsReal
<1>5. GapsTypeOK'
  BY <1>1, <1>2, <1>4 DEF GapsTypeOK, Phases
<1>6. GapsAreComplete'
  <2> SUFFICES ASSUME NEW a \in Start .. End, NEW b \in Start .. End,
                      IsGap(a, b, End), b + 1 < End => b + 1 \in withTrips
               PROVE  GapRecord(a, b) \in gaps'
    BY <1>1, <1>3 DEF GapsAreComplete, IsGap, Idle, GapRecord
  <2>1. a \in Int /\ b \in Int /\ b < End /\ Start <= a /\ a <= b
    BY <1>3 DEF IsGap
  <2>2. date = End
    BY <1>1, <1>2, <1>3, <2>1 DEF CountersAreRight
  <2>3. CASE b + 1 < End
    BY <1>2, <1>4, <2>1, <2>2, <2>3 DEF EarlierGapsReported
  <2>4. CASE b + 1 = End
    <3>1. b = date - 1
      BY <2>1, <2>2, <2>4
    <3> QED BY <1>1, <1>3, <2>1, <3>1, ReportedHere
  <2> QED BY <1>3, <2>1, <2>3, <2>4
<1> QED BY <1>1, <1>4, <1>5, <1>6 DEF LoopInv

(* Every step of the validation keeps the loop invariant.                  *)
LEMMA NextLoopInv == LoopInv /\ [GapsNext]_gapsVars => LoopInv'
<1> SUFFICES ASSUME LoopInv, [GapsNext]_gapsVars PROVE LoopInv'
  OBVIOUS
<1>1. CASE UNCHANGED gapsVars
  <2>1. UNCHANGED <<range, withTrips, firstDay, lastDay, hasExceptions, today,
                    interval, raising, phase, date, days, first, last, reports,
                    gaps>>
    BY <1>1 DEF gapsVars, inputs, loop
  <2>2. Start' = Start /\ End' = End
    BY <2>1 DEF Start, End
  <2>3. GapsTypeOK'
    BY <2>1 DEF LoopInv, GapsTypeOK
  <2>4. GapsAreReal' /\ GapsAreComplete'
    BY <2>1, <2>2 DEF LoopInv, GapsAreReal, GapsAreComplete, IsGap, Idle, GapRecord
  <2>5. CountersAreRight => CountersAreRight'
    BY <2>1, <2>2 DEF CountersAreRight, Idle
  <2>6. EarlierGapsReported => EarlierGapsReported'
    BY <2>1, <2>2 DEF EarlierGapsReported, IsGap, Idle, GapRecord
  <2> QED BY <2>1, <2>2, <2>3, <2>4, <2>5, <2>6 DEF LoopInv
<1>2. CASE NoServiceRange
  <2> DEFINE fails == range = "missing"
  <2>1. Check("no_service_dates", fails, "done") /\ fails \in BOOLEAN
    BY <1>2 DEF NoServiceRange
  <2> HIDE DEF fails
  <2> QED BY <1>2, <2>1, CheckLoopInv DEF NoServiceRange, Kinds
<1>3. CASE ValidateServiceExceptions
  <2> DEFINE fails == lastDay - firstDay >= SixMonths /\ ~ hasExceptions
  <2>1. Check("no_service_exceptions", fails, "expiration") /\ fails \in BOOLEAN
    BY <1>3 DEF ValidateServiceExceptions
  <2> HIDE DEF fails
  <2> QED BY <1>3, <2>1, CheckLoopInv DEF ValidateServiceExceptions, Kinds
<1>4. CASE ValidateExpiration
  <2> DEFINE fails == lastDay < today + WarnDays
  <2>1. Check("expiration_date", fails, "future") /\ fails \in BOOLEAN
    BY <1>4 DEF ValidateExpiration
  <2> HIDE DEF fails
  <2> QED BY <1>4, <2>1, CheckLoopInv DEF ValidateExpiration, Kinds
<1>5. CASE ValidateFutureService
  <2> DEFINE fails == firstDay > today
             next == IF interval = NoInterval THEN "done" ELSE "gaps"
  <2>1. Check("future_service", fails, next) /\ fails \in BOOLEAN
    BY <1>5 DEF ValidateFutureService
  <2>2. \/ next = "done" /\ interval = NoInterval
        \/ next = "gaps" /\ interval # NoInterval
    OBVIOUS
  <2> HIDE DEF fails, next
  <2> QED BY <1>5, <2>1, <2>2, CheckLoopInv DEF ValidateFutureService, Kinds
<1> QED BY <1>1, <1>2, <1>3, <1>4, <1>5, DayWithoutServiceInv, DayWithServiceInv,
   EndOfRangeInv DEF GapsNext

(* Building periods does not touch the validation, nor the validation the  *)
(* periods.                                                                *)
LEMMA ServiceSteps ==
    /\ [ServiceNext]_serviceVars => [Next]_vars
    /\ TypeOK /\ LoopInv /\ [ServiceNext]_serviceVars => LoopInv'
<1>1. [ServiceNext]_serviceVars =>
          \/ [Next]_vars /\ UNCHANGED gapsVars
          \/ StartValidation
          \/ UNCHANGED vars /\ GapsNext
  BY DEF ServiceNext, Build, Validate, serviceVars
<1>2. StartValidation => UNCHANGED vars
  BY DEF StartValidation, vars
<1> QED
  BY <1>1, <1>2, StartLoopInv, NextLoopInv

(* What validates a schedule leaves its periods alone: all that holds of   *)
(* the service periods holds of those that are validated.                  *)
THEOREM ServiceImplementsCalendar == ServiceSpec => Spec
<1>1. ServiceInit => Init
  BY DEF ServiceInit
<1> QED BY <1>1, ServiceSteps, PTL DEF ServiceSpec, Spec

(* The loop invariant holds from the first period to the last gap.         *)
THEOREM LoopInvariant == ServiceSpec => []LoopInv
<1>1. ServiceSpec => []TypeOK
  BY ServiceImplementsCalendar, TypeCorrect, PTL
<1> QED BY <1>1, InitLoopInv, ServiceSteps, PTL DEF ServiceSpec

(* validate_service_gaps reports only longest stretches of days without    *)
(* service in its window, with their right bounds and lengths.             *)
THEOREM ReportedGapsAreReal == ServiceSpec => []GapsAreReal
<1>1. LoopInv => GapsAreReal
  BY DEF LoopInv
<1> QED BY <1>1, LoopInvariant, PTL

(* When it returns, it has reported all of them.                           *)
THEOREM AllGapsAreReported == ServiceSpec => []GapsAreComplete
<1>1. LoopInv => GapsAreComplete
  BY DEF LoopInv
<1> QED BY <1>1, LoopInvariant, PTL

(* A gap that ended before today is never reported.                        *)
THEOREM PastGapsNotReported == ServiceSpec => []PastGapsAreSilent
<1>1. LoopInv => PastGapsAreSilent
  <2> SUFFICES ASSUME LoopInv, NEW g \in gaps PROVE g.last >= today
    BY DEF PastGapsAreSilent
  <2>1. /\ g.first \in Int /\ g.last \in Int /\ today \in Int /\ interval \in Int
        /\ firstDay \in Int
    BY GapsAssumption DEF LoopInv, GapsTypeOK, Gap
  <2>2. Start <= g.first /\ g.last - g.first + 1 >= interval
    BY DEF LoopInv, GapsAreReal, IsGap
  <2>3. Start >= today - (interval - 1)
    BY <2>1 DEF Start
  <2> QED BY <2>1, <2>2, <2>3, WindowType DEF LoopInv
<1> QED BY <1>1, LoopInvariant, PTL

-----------------------------------------------------------------------------
(* Under a raising accumulator a report ends the validation.               *)
RaiseInv ==
    /\ phase = "building" => reports = {} /\ gaps = {}
    /\ raising => \/ reports = {} /\ gaps = {}
                  \/ phase = "raised" /\ gaps = {} /\ \E k : reports = {k}
                  \/ phase = "raised" /\ reports = {} /\ \E g : gaps = {g}

(* One step keeps RaiseInv: nothing happens after a report that raised.    *)
LEMMA NextRaiseInv == RaiseInv /\ [GapsNext]_gapsVars => RaiseInv'
<1> SUFFICES ASSUME RaiseInv, [GapsNext]_gapsVars PROVE RaiseInv'
  OBVIOUS
<1>1. CASE UNCHANGED gapsVars
  BY <1>1 DEF gapsVars, inputs, RaiseInv
<1>2. ASSUME NEW kind, NEW fails, NEW next, phase # "raised", next # "building",
             Check(kind, fails, next)
      PROVE  RaiseInv'
  BY <1>2 DEF Check, inputs, RaiseInv
<1>3. CASE NoServiceRange \/ ValidateServiceExceptions \/ ValidateExpiration
           \/ ValidateFutureService
  BY <1>2, <1>3 DEF NoServiceRange, ValidateServiceExceptions,
     ValidateExpiration, ValidateFutureService
<1>4. CASE DayWithoutService
  BY <1>4 DEF DayWithoutService, inputs, RaiseInv
<1>5. CASE DayWithService
  BY <1>5 DEF DayWithService, ReportGap, inputs, RaiseInv
<1>6. CASE EndOfRange
  BY <1>6 DEF EndOfRange, ReportGap, inputs, RaiseInv
<1> QED BY <1>1, <1>3, <1>4, <1>5, <1>6 DEF GapsNext

(* A raising accumulator gets at most one report from one validation.      *)
THEOREM RaisingReportsAtMostOnce == ServiceSpec => []RaisingReportsOnce
<1>1. ServiceInit => RaiseInv
  BY DEF ServiceInit, RaiseInv
<1>2. RaiseInv => RaisingReportsOnce
  <2> SUFFICES ASSUME RaiseInv, raising
               PROVE  Cardinality(reports) + Cardinality(gaps) <= 1
    BY DEF RaisingReportsOnce
  <2>1. Cardinality({}) = 0
    BY FS_EmptySet
  <2>2. \A x : Cardinality({x}) = 1
    BY FS_Singleton
  <2>3. CASE reports = {} /\ gaps = {}
    <3>1. Cardinality(reports) = 0 /\ Cardinality(gaps) = 0
      BY <2>1, <2>3, Zenon
    <3> QED BY <3>1
  <2>4. CASE gaps = {} /\ \E k : reports = {k}
    <3>1. Cardinality(reports) = 1 /\ Cardinality(gaps) = 0
      BY <2>1, <2>2, <2>4, Zenon
    <3> QED BY <3>1
  <2>5. CASE reports = {} /\ \E g : gaps = {g}
    <3>1. Cardinality(reports) = 0 /\ Cardinality(gaps) = 1
      BY <2>1, <2>2, <2>5, Zenon
    <3> QED BY <3>1
  <2> QED BY <2>3, <2>4, <2>5 DEF RaiseInv
<1>3. RaiseInv /\ [ServiceNext]_serviceVars => RaiseInv'
  <2>1. RaiseInv /\ StartValidation => RaiseInv'
    <3> SUFFICES ASSUME RaiseInv, StartValidation PROVE RaiseInv'
      OBVIOUS
    <3>1. reports' = {} /\ gaps' = {} /\ phase' = "exceptions"
      BY DEF RaiseInv, StartValidation
    <3> QED BY <3>1 DEF RaiseInv
  <2>2. RaiseInv /\ UNCHANGED gapsVars => RaiseInv'
    BY NextRaiseInv
  <2>3. RaiseInv /\ GapsNext => RaiseInv'
    BY NextRaiseInv
  <2> QED BY <2>1, <2>2, <2>3 DEF ServiceNext, Build, Validate, serviceVars
<1> QED BY <1>1, <1>2, <1>3, PTL DEF ServiceSpec

==============================================================================
