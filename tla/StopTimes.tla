------------------------------ MODULE StopTimes ------------------------------
(***************************************************************************)
(* The stop times of one trip: its rows in the stop_times table, the       *)
(* operations of class Trip that change them, and the checks and queries   *)
(* that walk over them in the order of stop_sequence.                      *)
(*                                                                         *)
(* A stop is its position on a line, so that the distance of two stops is  *)
(* a difference.  A row is untimed, or has an arrival and a departure, or  *)
(* (when StopTime.__init__ could report that and go on) an arrival alone;  *)
(* a departure alone is a TypeError of StopTime.__init__ and makes no row. *)
(***************************************************************************)
EXTENDS Integers, Sequences, FiniteSetsExt

CONSTANTS Stops,      \* the positions of the stops
          MaxSecs,    \* bound: the latest time
          Numbers,    \* stop_sequence values of the rows of a file
          MaxRows,    \* bound: rows of a trip that was built in order
          MaxMixed,   \* bound: rows of any other trip
          MaxReplace, \* bound: rows of a trip one of which is replaced
          SameLimit   \* stop times at one time that are accepted (5)

ASSUME StopTimesAssumption ==
    /\ Stops \subseteq Nat /\ Numbers \subseteq Nat
    /\ {MaxSecs, MaxRows, MaxMixed, MaxReplace, SameLimit} \subseteq Nat

None == -1   \* Python's None; times and sequence numbers are not negative

VARIABLES rows,    \* the rows of the trip in stop_times, oldest first
          origin,  \* how they got there: history for the properties
          strict   \* the problem reporter raises

vars == <<rows, origin, strict>>

Row == [seq : Nat, stop : Stops, arr : Nat \cup {None}, dep : Nat \cup {None}]
Origins == {"appended", "replaced", "loaded"}

TypeOK ==
    /\ rows \in Seq(Row)
    /\ \A i \in 1 .. Len(rows) : rows[i].dep # None => rows[i].arr # None
    /\ origin \in Origins
    /\ strict \in BOOLEAN

Init == rows = <<>> /\ origin = "appended" /\ strict \in BOOLEAN

(* What StopTime.__init__ makes of its arguments: it reports an arrival    *)
(* without a departure.                                                    *)
Times ==
    LET secs == 0 .. MaxSecs IN
    {<<None, None>>} \cup (secs \X secs)
        \cup IF strict THEN {} ELSE secs \X {None}

StopTime(seq, stop, time) ==
    [seq |-> seq, stop |-> stop, arr |-> time[1], dep |-> time[2]]

(* The bound on the number of rows.                                        *)
Room == Len(rows) < IF strict /\ origin = "appended" THEN MaxRows ELSE MaxMixed

(* SQL's max of a column, which passes over NULL.                          *)
SqlMax(column) == IF column \subseteq {None} THEN None ELSE Max(column)

Arrivals == {rows[i].arr : i \in 1 .. Len(rows)}
Departures == {rows[i].dep : i \in 1 .. Len(rows)}
SequenceNumbers == {rows[i].seq : i \in 1 .. Len(rows)}

-----------------------------------------------------------------------------
(* Operations.                                                             *)

(* Fault: the new time is compared with arrivals only.                     *)
AddFailsArrivalsOnly(time) ==
    IF rows = <<>> THEN strict /\ time[1] = None
    ELSE \/ None \in {SqlMax(Arrivals), SqlMax(Departures)}
         \/ strict /\ time[1] # None /\ time[1] < SqlMax(Arrivals)

(* Whether add_stop_time_object leaves before the INSERT: the reporter     *)
(* raises on a problem, or Python's max meets None (TypeError).            *)
AddFails(time) ==
    IF rows = <<>> THEN strict /\ time[1] = None
    ELSE LET latest == {SqlMax(Arrivals), SqlMax(Departures)} IN
         \/ None \in latest
         \/ strict /\ time[1] # None /\ time[1] < Max(latest)

NextNumber == IF rows = <<>> THEN 1 ELSE Max(SequenceNumbers) + 1

AddStopTimeObject ==
    /\ Room
    /\ \E stop \in Stops, time \in Times :
          /\ ~ AddFails(time)
          /\ rows' = Append(rows, StopTime(NextNumber, stop, time))
    /\ UNCHANGED <<origin, strict>>

(* _add_stop_time_object_unordered, as the loader calls it for a row of    *)
(* stop_times.txt with a known stop and trip.                              *)
AddStopTimeObjectUnordered ==
    /\ Len(rows) < MaxMixed
    /\ \E seq \in Numbers, stop \in Stops, time \in Times :
          rows' = Append(rows, StopTime(seq, stop, time))
    /\ origin' = "loaded"
    /\ UNCHANGED strict

(* The rows that the DELETE of replace_stop_time_object leaves.            *)
Without(seq, stop) ==
    LET kept[k \in 0 .. Len(rows)] ==
            IF k = 0 THEN <<>>
            ELSE IF rows[k].seq = seq /\ rows[k].stop = stop THEN kept[k - 1]
            ELSE Append(kept[k - 1], rows[k])
    IN  kept[Len(rows)]

(* replace_stop_time_object deletes the rows with the number and the stop  *)
(* of its argument; it raises when there are none.                         *)
ReplaceStopTimeObject ==
    /\ Len(rows) <= MaxReplace
    /\ \E i \in 1 .. Len(rows), time \in Times :
          LET seq == rows[i].seq
              stop == rows[i].stop
          IN  rows' = Append(Without(seq, stop), StopTime(seq, stop, time))
    /\ origin' = IF origin = "loaded" THEN "loaded" ELSE "replaced"
    /\ UNCHANGED strict

ClearStopTimes ==
    /\ rows' = <<>>
    /\ origin' = "appended"
    /\ UNCHANGED strict

Next ==
    \/ AddStopTimeObject
    \/ AddStopTimeObjectUnordered
    \/ ReplaceStopTimeObject
    \/ ClearStopTimes

Spec == Init /\ [][Next]_vars

-----------------------------------------------------------------------------
(* Queries and checks.                                                     *)

(* get_stop_times: the rows ORDER BY stop_sequence.  SQL leaves the order  *)
(* of equal numbers open.                                                  *)
GetStopTimes ==
    LET n == Len(rows)
        orders == {p \in [1 .. n -> 1 .. n] :
                     \A i, j \in 1 .. n : i < j =>
                        /\ p[i] # p[j]
                        /\ rows[p[i]].seq <= rows[p[j]].seq}
    IN  {[k \in 1 .. n |-> rows[p[k]]] : p \in orders}

(* Rows with an arrival alone make the walks below fail with a TypeError.  *)
Timed(st) == st.arr # None
FullyTimed(st) == st.arr # None /\ st.dep # None
Walkable(sts) == \A i \in 1 .. Len(sts) : Timed(sts[i]) => FullyTimed(sts[i])

(* Fault: the last arrival is remembered, not the last departure.          *)
PrevArrival(sts) ==
    LET prev[k \in 0 .. Len(sts)] ==
            IF k = 0 THEN 0
            ELSE IF Timed(sts[k]) THEN sts[k].arr ELSE prev[k - 1]
    IN  prev

(* prev_departure of validate_stop_times_sequence_has_increasing_time_and_ *)
(* distance after k stop times: a time point that travels back in time     *)
(* does not count.                                                         *)
PrevDeparture(sts) ==
    LET prev[k \in 0 .. Len(sts)] ==
            IF k = 0 THEN 0
            ELSE IF Timed(sts[k]) /\ sts[k].arr >= prev[k - 1] THEN sts[k].dep
            ELSE prev[k - 1]
    IN  prev

Timetravels(sts) ==
    {k \in 1 .. Len(sts) : Timed(sts[k]) /\ sts[k].arr < PrevDeparture(sts)[k - 1]}

(* Python's round: to the nearest, ties to the even number.                *)
Round(num, den) ==
    LET q == num \div den
        r == num % den
    IN  IF 2 * r < den \/ (2 * r = den /\ q % 2 = 0) THEN q ELSE q + 1

ApproximateDistance(a, b) == IF a < b THEN b - a ELSE a - b

(* The length of the way from the first stop to the k-th, and of the way   *)
(* from the stop at i to the stop at j.                                    *)
Travelled(sts) ==
    LET sum[k \in 0 .. Len(sts)] ==
            IF k <= 1 THEN 0
            ELSE sum[k - 1] + ApproximateDistance(sts[k - 1].stop, sts[k].stop)
    IN  sum

Way(sts, i, j) == Travelled(sts)[j] - Travelled(sts)[i]

CanInterpolate(sts) == sts # <<>> => Timed(sts[1]) /\ Timed(sts[Len(sts)])

(* The time points that the loop has in cur_timepoint and next_timepoint.  *)
CurTimepoint(sts, i) == Max({k \in 1 .. i : Timed(sts[k])})
NextTimepoint(sts, i) == Min({k \in i .. Len(sts) : Timed(sts[k])})

DividesByZero(sts) ==
    \E i \in 1 .. Len(sts) :
        /\ ~ Timed(sts[i])
        /\ Way(sts, CurTimepoint(sts, i), NextTimepoint(sts, i)) = 0

(* Fault: the way is measured from the previous stop, not the time point.  *)
InterpolatedFromPrevious(sts, i) ==
    IF Timed(sts[i]) THEN sts[i].arr
    ELSE LET cur == CurTimepoint(sts, i)
             next == NextTimepoint(sts, i)
             total == sts[next].arr - sts[cur].arr
         IN  Round(Way(sts, i - 1, i) * total
                     + sts[cur].arr * Way(sts, cur, next),
                   Way(sts, cur, next))

(* The seconds that get_time_interpolated_stops gives the i-th stop time.  *)
Interpolated(sts, i) ==
    IF Timed(sts[i]) THEN sts[i].arr
    ELSE LET cur == CurTimepoint(sts, i)
             next == NextTimepoint(sts, i)
             total == sts[next].arr - sts[cur].arr
         IN  Round(Way(sts, cur, i) * total
                     + sts[cur].arr * Way(sts, cur, next),
                   Way(sts, cur, next))

(* check_same_time_count of validate_stop_times_for_trip.                  *)
Checked(c) ==
    IF c.prev # -1 /\ c.full > SameLimit
    THEN c.reports \cup {<<c.full, c.prev>>} ELSE c.reports

(* Fault: untimed stops are counted as soon as they are met.               *)
CountEagerly(c, st) ==
    IF ~ FullyTimed(st)
    THEN [c EXCEPT !.maybe = @ + 1, !.full = c.maybe + 1]
    ELSE IF c.prev = st.arr /\ st.arr = st.dep
    THEN [c EXCEPT !.maybe = @ + 1, !.full = c.maybe + 1, !.prev = st.dep]
    ELSE [maybe |-> 1, full |-> 1, prev |-> st.dep, reports |-> Checked(c)]

(* One turn of its loop: an untimed stop counts once a stop at the same    *)
(* time follows it.                                                        *)
Count(c, st) ==
    IF ~ FullyTimed(st) THEN [c EXCEPT !.maybe = @ + 1]
    ELSE IF c.prev = st.arr /\ st.arr = st.dep
    THEN [c EXCEPT !.maybe = @ + 1, !.full = c.maybe + 1, !.prev = st.dep]
    ELSE [maybe |-> 1, full |-> 1, prev |-> st.dep, reports |-> Checked(c)]

SameTimeReports(sts) ==
    LET c[k \in 0 .. Len(sts)] ==
            IF k = 0 THEN [maybe |-> 0, full |-> 0, prev |-> -1, reports |-> {}]
            ELSE Count(c[k - 1], sts[k])
    IN  Checked(c[Len(sts)])

-----------------------------------------------------------------------------
(* Properties.                                                             *)

(* "Add a StopTime object to the end of this trip": with a reporter that   *)
(* raises, no stop is reached before one that was added earlier is left.   *)
AppendedTripMovesForward ==
    strict /\ origin = "appended" =>
        \A i, j \in 1 .. Len(rows) :
            i < j /\ Timed(rows[j]) => /\ rows[i].arr <= rows[j].arr
                                       /\ rows[i].dep <= rows[j].arr

(* "Checks that the arrival time for each time point is after the          *)
(* departure time of the previous": the check is silent exactly on the     *)
(* trips for which that is so, in every order SQL may return.              *)
TimetravelCheckIsExact ==
    \A sts \in GetStopTimes : Walkable(sts) =>
        (Timetravels(sts) = {} <=>
         \A i, j \in 1 .. Len(sts) :
             /\ i < j /\ Timed(sts[i]) /\ Timed(sts[j])
             /\ \A k \in i + 1 .. j - 1 : ~ Timed(sts[k])
             => sts[i].dep <= sts[j].arr)

(* A trip that add_stop_time_object accepted has interpolated times that   *)
(* never go back, unless the interpolation divides by zero.                *)
InterpolationMovesForward ==
    strict /\ origin = "appended" =>
        \A sts \in GetStopTimes :
            CanInterpolate(sts) /\ ~ DividesByZero(sts) =>
                \A i \in 2 .. Len(sts) :
                    Interpolated(sts, i - 1) <= Interpolated(sts, i)

(* A stretch of stop times at one time t: it begins with a departure at t, *)
(* every later time in it is t, and it cannot be made longer.              *)
SameTime(sts, i, j, t) ==
    /\ FullyTimed(sts[i]) /\ sts[i].dep = t
    /\ FullyTimed(sts[j])
    /\ \A k \in i + 1 .. j :
          FullyTimed(sts[k]) => sts[k].arr = t /\ sts[k].dep = t
LongestSameTime(sts, i, j, t) ==
    /\ SameTime(sts, i, j, t)
    /\ \A k \in j + 1 .. Len(sts) : ~ SameTime(sts, i, k, t)
    /\ \A k \in 1 .. i - 1 : ~ (SameTime(sts, k, j, t) /\ SameTime(sts, k, i, t))

(* validate_stop_times_for_trip reports exactly the stretches of more than *)
(* SameLimit stop times, with untimed stops inside them counted and those  *)
(* after them not.                                                         *)
SameTimeReportsAreExact ==
    \A sts \in GetStopTimes :
        SameTimeReports(sts) =
            {<<r[2] - r[1] + 1, r[3]>> : r \in
                {x \in (1 .. Len(sts)) \X (1 .. Len(sts)) \X (0 .. MaxSecs) :
                    /\ x[1] <= x[2] /\ x[2] - x[1] + 1 > SameLimit
                    /\ LongestSameTime(sts, x[1], x[2], x[3])}}
=============================================================================
