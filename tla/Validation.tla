----------------------------- MODULE Validation -----------------------------
(***************************************************************************)
(* What Schedule.validate does to a whole feed: the checks that read        *)
(* several tables at once (stops and stations, nearby stops, route names,   *)
(* trips, blocks, shapes), with the validation of each stop and route at    *)
(* load time before it and the frequency periods a trip is given.           *)
(*                                                                          *)
(* Objects are named by their position in the feed's tables, which is the   *)
(* order of the Python dictionaries.  A report is <<kind, subject, other,   *)
(* detail>>; reports on a single attribute (names, URLs, colours) change    *)
(* nothing and are left out, but what a check does to an object, and        *)
(* whether it raises, is kept.  The reports on the times of one trip are    *)
(* in StopTimes, those on the calendar in ServiceGaps.                      *)
(***************************************************************************)
EXTENDS Integers, Sequences, SequencesExt, FiniteSets

CONSTANTS
    Feeds,          \* the feeds considered
    Near,           \* stops closer than this (2 m) may be the same place
    FarWarning,     \* distance to the parent station that is a warning
    FarError,       \* and that is an error
    LongWarning,    \* distance of a transfer that is a warning
    LongError,      \* and that is an error
    Grace,          \* seconds a transfer may lack before its walk is too fast
    Walk,           \* the speed of a fast walk
    Minute,         \* the unit to which exporters round times
    Speeds,         \* route type -> the highest plausible speed; 0 is Tram
    Times,          \* start and end times a frequency may be given
    Headways        \* headways a frequency may be given

\* Values of a field that are no number.
Missing == -1   \* the attribute is absent, or None
Blank   == -2   \* the empty string of a column without a value
Bad     == -3   \* a string that does not convert

Subway == 1
Bus    == 3
Station == 1

Fields == Nat \cup {Missing, Blank, Bad}

\* What the checks look at in each object.
StopRow     == [lat : Fields, lon : Fields, type : Fields, parent : Nat]
RouteRow    == [type : Fields, name : Nat \X Nat, agency : Nat]
TransferRow == [from : Nat, to : Nat, type : Fields, time : Fields]
TimeRow     == [stop : Nat, seq : Nat, arr : Fields, dep : Fields, dist : Fields]
TripRow     == [route : Nat, service : Nat, block : Nat, shape : Nat, times : Seq(TimeRow)]

ASSUME FeedsAssumption ==
    \A f \in Feeds :
        /\ {f.loaded, f.children, f.prints, f.check_duplicates} \subseteq BOOLEAN
        /\ f.stops \in Seq(StopRow)
        /\ f.routes \in Seq(RouteRow)
        /\ f.transfers \in Seq(TransferRow)
        /\ f.trips \in Seq(TripRow)
        /\ f.frequencies \in Nat

ASSUME BoundsAssumption ==
    /\ {Near, FarWarning, FarError, LongWarning, LongError, Grace, Walk} \subseteq Nat
    /\ Minute \in Nat \ {0}
    /\ 0 \in DOMAIN Speeds /\ \A type \in DOMAIN Speeds : Speeds[type] \in Nat
    /\ Times \subseteq Int /\ Headways \subseteq Int

VARIABLES
    feed,        \* what was given: tables, and how they came in
    stops,       \* the stops as validated so far
    transfers,   \* the transfers kept, by their position in the file
    headways,    \* trip -> its _headways
    pass,        \* the loop that is running
    at,          \* its index
    inner,       \* the index of the loop inside it
    route_names, \* validate_route_names: name -> first route
    stop_types,  \* validate_trips: stop -> [route, type, is_match]
    trips,       \* validate_trips: key -> first trip
    blocks,      \* validate_trips: [id, intervals] by first use
    block,       \* validate_blocks: the block being compared
    cache,       \* validate_blocks: service pair -> do their dates meet
    reports      \* the problems reported, in order

tables == <<route_names, stop_types, trips, blocks, block, cache>>
vars == <<feed, stops, transfers, headways, pass, at, inner, tables, reports>>

EmptyMap == [x \in {} |-> x]

\* The map with x bound to v.
With(map, x, v) == [y \in DOMAIN map \cup {x} |-> IF y = x THEN v ELSE map[y]]

\* sorted: the elements of S in the order of Before, which no two of them share.
InOrder(S, Before(_, _)) ==
    CHOOSE s \in [1..Cardinality(S) -> S] :
        /\ \A j, k \in DOMAIN s : j < k => Before(s[j], s[k])
        /\ Range(s) = S

Init ==
    /\ feed \in Feeds
    /\ stops = feed.stops
    /\ transfers = {}
    /\ headways = [t \in 1..Len(feed.trips) |-> <<>>]
    /\ pass = IF feed.loaded THEN "load stops" ELSE "frequencies"
    /\ at = 1
    /\ inner = 1
    /\ route_names = EmptyMap
    /\ stop_types = EmptyMap
    /\ trips = EmptyMap
    /\ blocks = <<>>
    /\ block = 1
    /\ cache = EmptyMap
    /\ reports = <<>>

\* One problem, about one or two objects.
Report(kind, subject, other, detail) == <<<<kind, subject, other, detail>>>>

GoTo(p) == pass' = p /\ at' = 1 /\ inner' = 2

\* An exception that no caller handles, seen after the reports found before it.
Raise(found) ==
    /\ reports' = reports \o found \o Report("exception", at, 0, pass)
    /\ GoTo("raised")

\* The square of the distance in the plane stands for the distance.
Distance2(s, r) == (s.lat - r.lat) * (s.lat - r.lat) + (s.lon - r.lon) * (s.lon - r.lon)

(***************************************************************************)
(* Stops and routes: validate_before_add on the strings of the feed, and    *)
(* again, on what the first time left, when children are validated.         *)
(***************************************************************************)

\* util.is_empty is "not value", so a parsed 0 is empty and '0' is not.
IsEmpty(v, raw) == v \in {Missing, Blank} \/ (v = 0 /\ ~raw)

\* validate_stop_required_fields, then validate_stop_latitude (longitude).
Coordinate(v, raw) == IF IsEmpty(v, raw) \/ v = Bad THEN Missing ELSE v

LocationType(v) == CASE v = Blank -> 0
                     [] v = Bad   -> Missing
                     [] OTHER     -> v

StopValidate(s, raw) ==
    [s EXCEPT !.lat = Coordinate(s.lat, raw),
              !.lon = Coordinate(s.lon, raw),
              !.type = LocationType(s.type)]

\* del of an attribute that is not there; abs() of a missing coordinate.
StopRaises(s, raw) ==
    \/ s.type = Missing
    \/ Coordinate(s.lat, raw) = Missing
    \/ Coordinate(s.lon, raw) = Missing

\* Fault: the type is converted before it is looked at.
RouteRaisesFault(r, raw) == IsEmpty(r.type, FALSE)

\* A route without a type is reported with a method that does not exist.
RouteRaises(r, raw) == IsEmpty(r.type, raw)

LoadStop ==
    /\ pass = "load stops"
    /\ at <= Len(stops)
    /\ UNCHANGED <<feed, transfers, headways, tables>>
    /\ IF StopRaises(stops[at], TRUE)
       THEN Raise(<<>>) /\ UNCHANGED stops
       ELSE /\ stops' = [stops EXCEPT ![at] = StopValidate(@, TRUE)]
            /\ at' = at + 1
            /\ UNCHANGED <<pass, inner, reports>>

LoadRoute ==
    /\ pass = "load routes"
    /\ at <= Len(feed.routes)
    /\ UNCHANGED <<feed, stops, transfers, headways, tables>>
    /\ IF RouteRaises(feed.routes[at], TRUE)
       THEN Raise(<<>>)
       ELSE at' = at + 1 /\ UNCHANGED <<pass, inner, reports>>

(***************************************************************************)
(* Transfers, as the loader reads them: an id is 0 when its column is empty.*)
(***************************************************************************)

\* The constructor's default for an empty type.
TransferType(x) == IF x.type \in {Missing, Blank} THEN 0 ELSE x.type

\* min_transfer_time was converted by the constructor: a 0 counts as empty.
HasTime(x) == ~IsEmpty(x.time, FALSE)

\* validate_before_add: what is false for a transfer that is not added.
TransferIsValid(x) ==
    /\ x.from # 0
    /\ x.to # 0
    /\ TransferType(x) \in 0..3
    /\ HasTime(x) => x.time # Bad

\* The message on a time without type 2 asks for a key the report has not.
TimeReportRaises(x) == feed.prints /\ HasTime(x) /\ TransferType(x) # 2

\* ids(): a second transfer is reported with a method that does not exist.
SameTransfer(x, y) == x.from = y.from /\ x.to = y.to

\* validate_after_add, with both stops known: every loaded stop has its
\* coordinates.
WalkReports(n, x) ==
    LET far(d) == Distance2(stops[x.from], stops[x.to]) > d * d
    IN  (IF far(LongError) THEN Report("transfer_too_long", n, 0, "error")
         ELSE IF far(LongWarning) THEN Report("transfer_too_long", n, 0, "warning")
         ELSE <<>>)
        \o (IF HasTime(x) /\ far(Walk * (x.time + Grace))
            THEN Report("walk_too_fast", n, 0, 0) ELSE <<>>)

TransferReports(n, x) ==
    LET unknown(i) == IF i \in DOMAIN stops THEN <<>> ELSE Report("unknown_stop", n, i, 0)
    IN  IF {x.from, x.to} \subseteq DOMAIN stops THEN WalkReports(n, x)
        ELSE unknown(x.from) \o unknown(x.to)

LoadTransfer ==
    /\ pass = "load transfers"
    /\ at <= Len(feed.transfers)
    /\ UNCHANGED <<feed, stops, headways, tables>>
    /\ LET x == feed.transfers[at]
       IN  IF \/ TimeReportRaises(x)
              \/ TransferIsValid(x) /\ \E n \in transfers : SameTransfer(feed.transfers[n], x)
           THEN Raise(<<>>) /\ UNCHANGED transfers
           ELSE /\ at' = at + 1
                /\ IF TransferIsValid(x)
                   THEN /\ transfers' = transfers \cup {at}
                        /\ reports' = reports \o TransferReports(at, x)
                   ELSE UNCHANGED <<transfers, reports>>
                /\ UNCHANGED <<pass, inner>>

(***************************************************************************)
(* Frequencies of a trip.                                                   *)
(***************************************************************************)

\* The values add_frequency appends; it raises for every other.
FrequencyIsValid(start, end, headway) ==
    /\ start >= 0
    /\ end > start
    /\ headway > 0

AddFrequency(t, start, end, headway) ==
    /\ pass = "frequencies"
    /\ Len(headways[t]) < feed.frequencies   \* bound on the periods of a trip
    /\ UNCHANGED <<feed, stops, transfers, tables>>
    /\ IF FrequencyIsValid(start, end, headway)
       THEN /\ headways' = [headways EXCEPT ![t] = Append(@, <<start, end, headway>>)]
            /\ UNCHANGED <<pass, at, inner, reports>>
       ELSE /\ feed.loaded      \* the caller of the API is left where it was
            /\ Raise(<<>>)
            /\ UNCHANGED headways

ClearFrequencies(t) ==
    /\ pass = "frequencies"
    /\ headways[t] # <<>>
    /\ headways' = [headways EXCEPT ![t] = <<>>]
    /\ UNCHANGED <<feed, stops, transfers, pass, at, inner, tables, reports>>

\* get_frequency_start_times: the runs of each period, in their order.
PeriodRuns(h) == [k \in 1..((h[2] - h[1] + h[3] - 1) \div h[3]) |-> h[1] + (k - 1) * h[3]]

FrequencyStartTimes(t) ==
    LET runs[n \in 0..Len(headways[t])] ==
            IF n = 0 THEN <<>> ELSE runs[n - 1] \o PeriodRuns(headways[t][n])
    IN  runs[Len(headways[t])]

\* Fault: a period that starts earlier is passed over.
HeadwaysOverlapFault(h, other) == other[1] < h[2] /\ other[1] > h[1]

\* validate_frequencies: the reported pairs of periods.
HeadwaysOverlap(h, other) == other[1] < h[2] /\ other[2] > h[1]

PairBefore(p, q) == p[1] < q[1] \/ (p[1] = q[1] /\ p[2] < q[2])

OverlappingPairs(t) ==
    {p \in (DOMAIN headways[t]) \X (DOMAIN headways[t]) :
        p[1] < p[2] /\ HeadwaysOverlap(headways[t][p[1]], headways[t][p[2]])}

FrequencyReports(t) ==
    LET pairs == InOrder(OverlappingPairs(t), PairBefore)
    IN  [k \in DOMAIN pairs |-> <<"overlapping_headways", t, pairs[k][1], pairs[k][2]>>]

(***************************************************************************)
(* validate_stops                                                           *)
(***************************************************************************)

StopTimesAt(i) ==
    UNION {{<<t, k>> : k \in {k \in DOMAIN feed.trips[t].times : feed.trips[t].times[k].stop = i}} :
               t \in DOMAIN feed.trips}

UsageReports(i, s) ==
    CASE s.type = 0 /\ StopTimesAt(i) = {}        -> Report("unused_stop", i, 0, 0)
      [] s.type = Station /\ StopTimesAt(i) # {}  -> Report("used_station", i, 0, 0)
      [] OTHER                                    -> <<>>

\* The stop is the validated one, its parent what the table holds now.
ParentReports(i, s) ==
    LET p == s.parent
    IN  IF s.type = Station \/ p = 0 THEN <<>>
        ELSE IF p \notin DOMAIN stops THEN Report("parent_not_found", i, p, 0)
        ELSE IF stops[p].type # Station THEN Report("parent_no_station", i, p, 0)
        ELSE IF Missing \in {s.lat, s.lon, stops[p].lat, stops[p].lon} THEN <<>>
        ELSE IF Distance2(s, stops[p]) > FarError * FarError
             THEN Report("too_far_from_parent", i, p, "error")
        ELSE IF Distance2(s, stops[p]) > FarWarning * FarWarning
             THEN Report("too_far_from_parent", i, p, "warning")
        ELSE <<>>

ValidateStop ==
    /\ pass = "stops"
    /\ at <= Len(stops)
    /\ UNCHANGED <<feed, transfers, headways, tables>>
    /\ IF feed.children /\ StopRaises(stops[at], FALSE)
       THEN Raise(<<>>) /\ UNCHANGED stops
       ELSE LET s == IF feed.children THEN StopValidate(stops[at], FALSE) ELSE stops[at]
            IN  /\ stops' = [stops EXCEPT ![at] = s]
                /\ reports' = reports \o UsageReports(at, s) \o ParentReports(at, s)
                /\ at' = at + 1
                /\ UNCHANGED <<pass, inner>>

(***************************************************************************)
(* validate_nearby_stops: the stops with coordinates, sorted by latitude,   *)
(* each compared with those after it up to Near further north.              *)
(***************************************************************************)

\* The filter takes a coordinate 0 for a missing one.
Located(i) == stops[i].lat \notin {Missing, 0} /\ stops[i].lon \notin {Missing, 0}

\* Fault: the stops are sorted by longitude.
SortedBeforeFault(i, j) ==
    \/ stops[i].lon < stops[j].lon
    \/ stops[i].lon = stops[j].lon /\ i < j

SortedBefore(i, j) ==
    \/ stops[i].lat < stops[j].lat
    \/ stops[i].lat = stops[j].lat /\ stops[i].lon < stops[j].lon
    \/ stops[i].lat = stops[j].lat /\ stops[i].lon = stops[j].lon /\ i < j

SortedStops == InOrder({i \in 1..Len(stops) : Located(i)}, SortedBefore)

PairReports(i, j) ==
    LET types == <<stops[i].type, stops[j].type>>
    IN  CASE types = <<0, 0>>             -> Report("stops_too_close", i, j, 0)
          [] types = <<Station, Station>> -> Report("stations_too_close", i, j, 0)
          [] types = <<0, Station>> /\ stops[i].parent # j ->
                 Report("different_station_too_close", i, j, 0)
          [] types = <<Station, 0>> /\ stops[j].parent # i ->
                 Report("different_station_too_close", j, i, 0)
          [] OTHER -> <<>>

InWindow == /\ inner <= Len(SortedStops)
            /\ stops[SortedStops[inner]].lat - stops[SortedStops[at]].lat < Near

\* Fault: the index only advances past a pair at the same place.
CompareStopsFault ==
    /\ pass = "nearby stops"
    /\ at < Len(SortedStops)
    /\ InWindow
    /\ LET i == SortedStops[at]
           j == SortedStops[inner]
       IN  IF Distance2(stops[i], stops[j]) < Near * Near
           THEN reports' = reports \o PairReports(i, j) /\ inner' = inner + 1
           ELSE UNCHANGED <<reports, inner>>
    /\ UNCHANGED <<feed, stops, transfers, headways, pass, at, tables>>

CompareStops ==
    /\ pass = "nearby stops"
    /\ at < Len(SortedStops)
    /\ InWindow
    /\ LET i == SortedStops[at]
           j == SortedStops[inner]
       IN  reports' = reports \o (IF Distance2(stops[i], stops[j]) < Near * Near
                                  THEN PairReports(i, j) ELSE <<>>)
    /\ inner' = inner + 1
    /\ UNCHANGED <<feed, stops, transfers, headways, pass, at, tables>>

NextStop ==
    /\ pass = "nearby stops"
    /\ at < Len(SortedStops)
    /\ ~InWindow
    /\ at' = at + 1
    /\ inner' = at + 2
    /\ UNCHANGED <<feed, stops, transfers, headways, pass, tables, reports>>

(***************************************************************************)
(* validate_route_names                                                     *)
(***************************************************************************)

\* A name is a text and a style (case, blanks around it) that lower() and
\* strip() remove.
Normal(name) == name[1]

ValidateRoute ==
    /\ pass = "routes"
    /\ at <= Len(feed.routes)
    /\ UNCHANGED <<feed, stops, transfers, headways, stop_types, trips, blocks, block, cache>>
    /\ IF feed.children /\ RouteRaises(feed.routes[at], FALSE)
       THEN Raise(<<>>) /\ UNCHANGED route_names
       ELSE LET name == Normal(feed.routes[at].name)
            IN  /\ at' = at + 1
                /\ IF name \in DOMAIN route_names
                   THEN /\ reports' = Append(reports, <<"same_name", at, route_names[name], 0>>)
                        /\ UNCHANGED route_names
                   ELSE /\ route_names' = With(route_names, name, at)
                        /\ UNCHANGED reports
                /\ UNCHANGED <<pass, inner>>

(***************************************************************************)
(* validate_trips: one step per trip, in the order of route and trip ids.   *)
(***************************************************************************)

TripBefore(t, u) ==
    \/ feed.trips[t].route < feed.trips[u].route
    \/ feed.trips[t].route = feed.trips[u].route /\ t < u

SortedTrips == InOrder(DOMAIN feed.trips, TripBefore)

RouteType(t) == feed.routes[feed.trips[t].route].type

\* Fault: is_match is never set.
StopTypesAfterFault(acc, st, t) ==
    LET r == feed.trips[t].route
        type == RouteType(t)
    IN  IF type \notin {Subway, Bus} THEN acc
        ELSE IF st.stop \notin DOMAIN acc.types
             THEN [acc EXCEPT !.types = With(@, st.stop, <<r, type, 0>>)]
        ELSE IF acc.types[st.stop][2] # type
             THEN [acc EXCEPT !.found = Append(@, <<"multiple_route_types", st.stop,
                                                    IF type = Subway THEN r ELSE acc.types[st.stop][1],
                                                    IF type = Bus THEN r ELSE acc.types[st.stop][1]>>)]
        ELSE acc

\* One stop time of trip t: the first bus or subway route at a stop is kept,
\* the first one of the other type is reported.
StopTypesAfter(acc, st, t) ==
    LET r == feed.trips[t].route
        type == RouteType(t)
        first == acc.types[st.stop]
        subway == IF first[2] = Subway THEN first[1] ELSE r
        bus    == IF first[2] = Subway THEN r ELSE first[1]
    IN  IF type \notin {Subway, Bus} THEN acc
        ELSE IF st.stop \notin DOMAIN acc.types
             THEN [acc EXCEPT !.types = With(@, st.stop, <<r, type, 0>>)]
        ELSE IF first[2] # type /\ first[3] = 0
             THEN [types |-> [acc.types EXCEPT ![st.stop] = <<first[1], first[2], 1>>],
                   found |-> Append(acc.found, <<"multiple_route_types", st.stop, subway, bus>>)]
        ELSE acc

\* The loop over the stop times of trip t.
StopTypesMarked(t) ==
    LET times == feed.trips[t].times
        acc[k \in 0..Len(times)] ==
            IF k = 0 THEN [types |-> stop_types, found |-> <<>>]
            ELSE StopTypesAfter(acc[k - 1], times[k], t)
    IN  acc[Len(times)]

\* The interval of a trip is kept under its block when both ends are known.
WithInterval(t) ==
    LET trip == feed.trips[t]
        n == Len(trip.times)
        interval == <<t, trip.times[1].arr, trip.times[n].dep>>
        known == {b \in DOMAIN blocks : blocks[b].id = trip.block}
    IN  IF trip.block = 0 \/ n = 0 THEN blocks
        ELSE IF Missing \in {trip.times[1].arr, trip.times[n].dep} THEN blocks
        ELSE IF known = {} THEN Append(blocks, [id |-> trip.block, intervals |-> <<interval>>])
        ELSE LET b == CHOOSE b \in known : TRUE
             IN  [blocks EXCEPT ![b].intervals = Append(@, interval)]

TripKey(t) ==
    LET times == feed.trips[t].times
    IN  <<feed.trips[t].service, times[1].arr, [k \in 1..Len(times) |-> times[k].stop]>>

ValidateTrip ==
    /\ pass = "trips"
    /\ at <= Len(feed.trips)
    /\ at' = at + 1
    /\ LET t == SortedTrips[at]
           times == feed.trips[t].times
           marked == StopTypesMarked(t)
       IN  IF feed.trips[t].route \notin DOMAIN feed.routes
           THEN UNCHANGED <<stop_types, blocks, trips, reports>>
           ELSE /\ stop_types' = marked.types
                /\ blocks' = WithInterval(t)
                /\ IF ~feed.check_duplicates \/ times = <<>>
                   THEN /\ reports' = reports \o marked.found
                        /\ UNCHANGED trips
                   ELSE IF TripKey(t) \in DOMAIN trips
                   THEN /\ reports' = reports \o marked.found
                                      \o Report("duplicate_trip", t, trips[TripKey(t)], 0)
                        /\ UNCHANGED trips
                   ELSE /\ reports' = reports \o marked.found
                        /\ trips' = With(trips, TripKey(t), t)
    /\ UNCHANGED <<feed, stops, transfers, headways, pass, inner, route_names, block, cache>>

(***************************************************************************)
(* validate_blocks: the intervals of each block, sorted by first arrival,   *)
(* each compared with those after it until one starts after its end.        *)
(***************************************************************************)

\* Fault: the intervals stay in the order of the trips.
SortedIntervalsFault(b) == blocks[b].intervals

SortedIntervals(b) ==
    LET s == blocks[b].intervals
        order == InOrder(DOMAIN s, LAMBDA j, k : s[j][2] < s[k][2] \/ (s[j][2] = s[k][2] /\ j < k))
    IN  [k \in DOMAIN s |-> s[order[k]]]

Service(interval) == feed.trips[interval[1]].service

PairKey(a, b) == {Service(a), Service(b)}

\* The second trip starts before the first one has ended: go on comparing.
StillRunning(a, b) == a[3] > b[2]

Comparing ==
    /\ pass = "blocks"
    /\ block <= Len(blocks)
    /\ at <= Len(SortedIntervals(block))
    /\ inner <= Len(SortedIntervals(block))
    /\ StillRunning(SortedIntervals(block)[at], SortedIntervals(block)[inner])

DatesMeet(a, b) == feed.dates[Service(a)] \cap feed.dates[Service(b)] # {}

\* The entry for the two services, which the first pair that needs it adds.
CacheWith(a, b) ==
    IF PairKey(a, b) \in DOMAIN cache THEN cache
    ELSE With(cache, PairKey(a, b), DatesMeet(a, b))

Overlap(a, b) == Report("overlapping_trips", a[1], b[1], blocks[block].id)

CompareTrips ==
    /\ Comparing
    /\ LET a == SortedIntervals(block)[at]
           b == SortedIntervals(block)[inner]
       IN  \/ /\ Service(a) = Service(b)
              /\ reports' = reports \o Overlap(a, b)
              /\ inner' = inner + 1
              /\ UNCHANGED <<cache, pass, at>>
           \/ /\ Service(a) # Service(b)
              /\ PairKey(a, b) \in DOMAIN cache \/ PairKey(a, b) \subseteq DOMAIN feed.dates
              /\ cache' = CacheWith(a, b)
              /\ reports' = reports \o (IF cache'[PairKey(a, b)] THEN Overlap(a, b) ELSE <<>>)
              /\ inner' = inner + 1
              /\ UNCHANGED <<pass, at>>
           \/ /\ Service(a) # Service(b)
              /\ ~(PairKey(a, b) \subseteq DOMAIN feed.dates)   \* return
              /\ GoTo("agencies")
              /\ UNCHANGED <<cache, reports>>
    /\ UNCHANGED <<feed, stops, transfers, headways, route_names, stop_types, trips, blocks, block>>

NextInterval ==
    /\ pass = "blocks"
    /\ block <= Len(blocks)
    /\ ~Comparing
    /\ IF at < Len(SortedIntervals(block))
       THEN at' = at + 1 /\ inner' = at + 2 /\ UNCHANGED block
       ELSE at' = 1 /\ inner' = 2 /\ block' = block + 1
    /\ UNCHANGED <<feed, stops, transfers, headways, pass, route_names, stop_types, trips, blocks, cache, reports>>

(***************************************************************************)
(* validate_idless_agency and validate_route_agency_id; an agency is its    *)
(* id, 0 when it is empty.                                                  *)
(***************************************************************************)

AgencyReports ==
    LET idless == IF Cardinality(feed.agencies) > 1 /\ 0 \in feed.agencies
                  THEN Report("idless_agency", 0, 0, 0) ELSE <<>>
        lost == InOrder({r \in DOMAIN feed.routes : feed.routes[r].agency \notin feed.agencies \cup {0}}, <)
    IN  idless \o [k \in DOMAIN lost |-> <<"invalid_agency", lost[k], feed.routes[lost[k]].agency, 0>>]

ValidateAgencies ==
    /\ pass = "agencies"
    /\ reports' = reports \o AgencyReports
    /\ GoTo("stop times")
    /\ UNCHANGED <<feed, stops, transfers, headways, tables>>

(***************************************************************************)
(* validate_trip_stop_times, with Trip.validate_children.                   *)
(***************************************************************************)

Timed(st) == st.arr # Missing \/ st.dep # Missing

\* A repeated stop_sequence is reported with a method that does not exist.
SequenceRaises(t) ==
    LET times == feed.trips[t].times
    IN  \E j, k \in DOMAIN times : j # k /\ times[j].seq = times[k].seq

MaxSpeed(t) ==
    IF /\ feed.trips[t].route \in DOMAIN feed.routes
       /\ RouteType(t) \in DOMAIN Speeds
    THEN Speeds[RouteType(t)] ELSE Speeds[0]

\* _check_speed between two stops that are timed, prev the last such stop.
TooFast(t, prev, stop, depart, arrive) ==
    LET time == arrive - depart
        far(d) == Distance2(stops[prev], stops[stop]) > d * d
    IN  /\ prev # 0
        /\ depart # Missing
        /\ Missing \notin {stops[i].lat : i \in {prev, stop}} \cup {stops[i].lon : i \in {prev, stop}}
        /\ \/ time = 0 /\ (depart % Minute # 0 \/ far(MaxSpeed(t) * Minute))
           \/ time > 0 /\ far(MaxSpeed(t) * time)

\* validate_stop_times_sequence_has_increasing_time_and_distance at one stop
\* time: a distance is compared with None, an arrival with a departure that
\* may be None, and a printed TooFastTravel asks for a key it has not.
TimepointAfter(acc, st, t) ==
    LET fast == st.arr # Missing /\ TooFast(t, acc.stop, st.stop, acc.departure, st.arr)
        found == acc.found \o (IF fast THEN Report("too_fast", t, acc.stop, st.stop) ELSE <<>>)
    IN  IF acc.raised THEN acc
        ELSE IF st.dist # Missing THEN [acc EXCEPT !.raised = TRUE]
        ELSE IF st.arr = Missing THEN acc
        ELSE IF fast /\ feed.prints THEN [acc EXCEPT !.raised = TRUE]
        ELSE IF acc.departure = Missing THEN [acc EXCEPT !.raised = TRUE]
        ELSE IF st.arr >= acc.departure
             THEN [departure |-> st.dep, stop |-> st.stop, found |-> found, raised |-> FALSE]
        ELSE [acc EXCEPT !.found = Append(found, <<"timetravel", t, st.seq, 0>>)]

Timepoints(t) ==
    LET times == feed.trips[t].times
        acc[k \in 0..Len(times)] ==
            IF k = 0 THEN [departure |-> 0, stop |-> 0, found |-> <<>>, raised |-> FALSE]
            ELSE TimepointAfter(acc[k - 1], times[k], t)
    IN  acc[Len(times)]

\* get_start_time and get_end_time, when the trip has two stops or more.
StartTimeRaises(t) == ~Timed(feed.trips[t].times[1])
EndTimeRaises(t) == LET times == feed.trips[t].times IN ~Timed(times[Len(times)])
TimesRaise(t) == Len(feed.trips[t].times) >= 2 /\ (StartTimeRaises(t) \/ EndTimeRaises(t))

CountReports(t) ==
    CASE feed.trips[t].times = <<>> ->
             Report("no_stop_times", t, 0, 0)
             \o (IF headways[t] # <<>> THEN Report("frequencies_without_stops", t, 0, 0) ELSE <<>>)
      [] Len(feed.trips[t].times) = 1 -> Report("one_stop", t, 0, 0)
      [] OTHER -> <<>>

\* validate_trip_start_and_end_times makes no report: it compares attributes
\* with None that are '' for a stop without times.
ValidateStopTimes ==
    /\ pass = "stop times"
    /\ at <= Len(feed.trips)
    /\ UNCHANGED <<feed, stops, transfers, headways, tables>>
    /\ LET found == Timepoints(at).found
           rest  == FrequencyReports(at) \o CountReports(at)
       IN  IF SequenceRaises(at) THEN Raise(<<>>)
           ELSE IF Timepoints(at).raised THEN Raise(found)
           ELSE IF TimesRaise(at) THEN Raise(found \o rest)
           ELSE /\ reports' = reports \o found \o rest
                /\ at' = at + 1
                /\ UNCHANGED <<pass, inner>>

ValidateUnusedShapes ==
    /\ pass = "shapes"
    /\ reports' = IF feed.shapes \subseteq {feed.trips[t].shape : t \in DOMAIN feed.trips}
                  THEN reports ELSE Append(reports, <<"unused_shapes", 0, 0, 0>>)
    /\ GoTo("done")
    /\ UNCHANGED <<feed, stops, transfers, headways, tables>>

-----------------------------------------------------------------------------

\* The end of a loop starts the next one, in the order of Loader.load and
\* Schedule.validate.
Finished(p, n, q) == pass = p /\ at > n /\ GoTo(q)

NextPass ==
    /\ \/ Finished("load stops", Len(stops), "load routes")
       \/ Finished("load routes", Len(feed.routes), "load transfers")
       \/ Finished("load transfers", Len(feed.transfers), "frequencies")
       \/ Finished("frequencies", 0, "stops")
       \/ Finished("stops", Len(stops), "nearby stops")
       \/ Finished("nearby stops", Len(SortedStops) - 1, "routes")
       \/ Finished("routes", Len(feed.routes), "trips")
       \/ Finished("trips", Len(feed.trips), "blocks")
       \/ block > Len(blocks) /\ Finished("blocks", 0, "agencies")
       \/ Finished("stop times", Len(feed.trips), "shapes")
    /\ UNCHANGED <<feed, stops, transfers, headways, tables, reports>>

Ended == pass \in {"done", "raised"} /\ UNCHANGED vars

\* What the program does by itself, in its one thread.
Steps ==
    \/ LoadStop \/ LoadRoute \/ LoadTransfer \/ ValidateStop \/ CompareStops \/ NextStop
    \/ ValidateRoute \/ ValidateTrip \/ CompareTrips \/ NextInterval
    \/ ValidateAgencies \/ ValidateStopTimes \/ ValidateUnusedShapes \/ NextPass

Next ==
    \/ Steps
    \/ \E t \in DOMAIN headways :
          \/ \E s, e \in Times, h \in Headways : AddFrequency(t, s, e, h)
          \/ ClearFrequencies(t)
    \/ Ended

\* The program runs on; only its caller decides how many frequencies are
\* added.
Spec == Init /\ [][Next]_vars /\ WF_vars(Steps)

-----------------------------------------------------------------------------
(* Properties.                                                             *)

PassOrder == <<"load stops", "load routes", "load transfers", "frequencies", "stops",
               "nearby stops", "routes", "trips", "blocks", "agencies", "stop times", "shapes", "done">>

Past(p) == \E j, k \in DOMAIN PassOrder : PassOrder[j] = p /\ PassOrder[k] = pass /\ j < k

Raised(p) == pass = "raised" /\ Last(reports)[4] = p

\* The number of reports of some kinds about two objects, in either order.
CountOf(kinds, i, j) ==
    Cardinality({k \in DOMAIN reports : reports[k][1] \in kinds
                                        /\ {reports[k][2], reports[k][3]} = {i, j}})

SamePlace(i, j) ==
    /\ Located(i) /\ Located(j)
    /\ Distance2(stops[i], stops[j]) < Near * Near
    /\ {stops[i].type, stops[j].type} \subseteq {0, Station}
    /\ ~ (stops[i].type = 0 /\ stops[j].type = Station /\ stops[i].parent = j)
    /\ ~ (stops[j].type = 0 /\ stops[i].type = Station /\ stops[j].parent = i)

(* validate_nearby_stops sorts the stops and compares each one only with   *)
(* the stops that follow it within the window of latitude: it still        *)
(* reports every pair of stops or stations at the same place, exactly      *)
(* once, and no stop with its own station.                                 *)
NearbyReportsAreExact ==
    Past("nearby stops") =>
        \A i, j \in 1..Len(stops) : i < j =>
            CountOf({"stops_too_close", "stations_too_close", "different_station_too_close"}, i, j)
                = IF SamePlace(i, j) THEN 1 ELSE 0

First(t) == feed.trips[t].times[1].arr
LastTime(t) == feed.trips[t].times[Len(feed.trips[t].times)].dep

\* The trips validate_trips gives an interval.
HasInterval(t) ==
    /\ feed.trips[t].route \in DOMAIN feed.routes
    /\ feed.trips[t].block # 0
    /\ feed.trips[t].times # <<>>
    /\ Missing \notin {First(t), LastTime(t)}

RunTogether(t, u) ==
    LET services == {feed.trips[t].service, feed.trips[u].service}
    IN  \/ Cardinality(services) = 1
        \/ /\ services \subseteq DOMAIN feed.dates
           /\ feed.dates[feed.trips[t].service] \cap feed.dates[feed.trips[u].service] # {}

(* validate_blocks sorts the trips of a block, stops comparing at the first*)
(* one that starts late enough, and shares what it finds out about two     *)
(* services between all blocks.  What it reports is right: two trips of the*)
(* block, at most once, the second starting while the first one runs, that *)
(* run on a common day.  And when every trip has a known service it        *)
(* reports every two trips of a block that are on the road at one time.    *)
BlockReportsAreExact ==
    Past("blocks") =>
        /\ \A k \in DOMAIN reports : reports[k][1] = "overlapping_trips" =>
              LET t == reports[k][2]
                  u == reports[k][3]
              IN  /\ HasInterval(t) /\ HasInterval(u)
                  /\ {feed.trips[t].block, feed.trips[u].block} = {reports[k][4]}
                  /\ First(t) <= First(u) /\ First(u) < LastTime(t)
                  /\ RunTogether(t, u)
        /\ \A t, u \in DOMAIN feed.trips : t < u =>
              /\ CountOf({"overlapping_trips"}, t, u) <= 1
              /\ /\ \A v \in DOMAIN feed.trips : feed.trips[v].service \in DOMAIN feed.dates
                 /\ HasInterval(t) /\ HasInterval(u)
                 /\ feed.trips[t].block = feed.trips[u].block
                 /\ First(t) < LastTime(t) /\ First(u) < LastTime(u)
                 /\ First(t) < LastTime(u) /\ First(u) < LastTime(t)
                 /\ RunTogether(t, u)
                 => CountOf({"overlapping_trips"}, t, u) = 1

\* The routes of a type whose trips stop at a stop.
RoutesAt(i, type) ==
    {r \in DOMAIN feed.routes : feed.routes[r].type = type
                                /\ \E tk \in StopTimesAt(i) : feed.trips[tk[1]].route = r}

TypeReports(i) ==
    {k \in DOMAIN reports : reports[k][1] = "multiple_route_types" /\ reports[k][2] = i}

\* Every member of a group but the first is reported, and names the first.
FirstComeReported(kind, group, Before(_, _)) ==
    \E first \in group :
        /\ \A x \in group \ {first} : Before(first, x)
        /\ \A x \in group :
              {reports[k] : k \in {k \in DOMAIN reports : reports[k][1] = kind /\ reports[k][2] = x}}
                  = IF x = first THEN {} ELSE {<<kind, x, first, 0>>}

Comparable == {t \in DOMAIN feed.trips : feed.trips[t].route \in DOMAIN feed.routes
                                         /\ feed.trips[t].times # <<>>}

(* validate_route_names and validate_trips keep the first object they meet *)
(* under a name, a stop or a key.  Among routes of one name, and trips of  *)
(* one service, start and stops, every one but the first is reported and   *)
(* names the first; a stop of both bus and subway routes is reported once, *)
(* with a subway route and a bus route that really stop there.             *)
TripReportsAreExact ==
    /\ Past("routes") =>
          \A r \in DOMAIN feed.routes :
              FirstComeReported("same_name",
                                {q \in DOMAIN feed.routes : feed.routes[q].name[1] = feed.routes[r].name[1]}, <)
    /\ Past("trips") =>
          /\ \A i \in DOMAIN stops :
                /\ Cardinality(TypeReports(i)) =
                      IF RoutesAt(i, Subway) # {} /\ RoutesAt(i, Bus) # {} THEN 1 ELSE 0
                /\ \A k \in TypeReports(i) : /\ reports[k][3] \in RoutesAt(i, Subway)
                                             /\ reports[k][4] \in RoutesAt(i, Bus)
          /\ feed.check_duplicates =>
                \A t \in Comparable :
                    FirstComeReported("duplicate_trip",
                                      {u \in Comparable : TripKey(u) = TripKey(t)}, TripBefore)

(* Overlapping periods would put two vehicles of one trip on the road at   *)
(* once.  validate_frequencies reports two periods exactly when they share *)
(* an instant; without such a report no two runs of                        *)
(* get_frequency_start_times leave at the same time, and every run leaves  *)
(* inside one period only.                                                 *)
RunsAreSeparate ==
    Past("stop times") =>
        \A t \in DOMAIN headways :
            LET h == headways[t]
                runs == FrequencyStartTimes(t)
                reported == {<<reports[k][3], reports[k][4]>> : k \in
                                {k \in DOMAIN reports : reports[k][1] = "overlapping_headways"
                                                        /\ reports[k][2] = t}}
                Holds(m, x) == h[m][1] <= x /\ x < h[m][2]
            IN  /\ \A m, n \in DOMAIN h : m < n =>
                      (<<m, n>> \in reported <=> \E x \in Times : Holds(m, x) /\ Holds(n, x))
                /\ reported = {} =>
                      \A j \in DOMAIN runs :
                          /\ \A k \in DOMAIN runs : runs[j] = runs[k] => j = k
                          /\ Cardinality({m \in DOMAIN h : Holds(m, runs[j])}) = 1

\* What validating a stop or a route that was validated before trips over.
FailsAgain(s) == s.type \in {Missing, Bad} \/ {s.lat, s.lon} \cap {Missing, 0} # {}

\* Two transfers that are well formed and join the same stops.
SecondTransfer ==
    \E n, k \in DOMAIN feed.transfers :
        /\ n < k
        /\ TransferIsValid(feed.transfers[n]) /\ TransferIsValid(feed.transfers[k])
        /\ SameTransfer(feed.transfers[n], feed.transfers[k])

(* Which exceptions end the validation.  Loading is ended only by a stop    *)
(* without two coordinates and a type column, a route without a type, a     *)
(* second transfer between two stops, or the printed report on a transfer   *)
(* time that its type does not allow.  Validating a loaded feed is ended    *)
(* only when its children are validated again, by stops on the equator or   *)
(* the prime meridian, stops whose type was rejected, or trams; adding a    *)
(* frequency and looking at the times of a trip may fail too, and nothing   *)
(* else does.  That these feeds should be read to the end as well is what   *)
(* ChecksAreNotBlocking says.                                               *)
ExceptionsAreExplained ==
    /\ pass = "raised" =>
          Last(reports)[4] \in {"load stops", "load routes", "load transfers", "frequencies",
                               "stops", "routes", "stop times"}
    /\ Raised("load stops") => \E i \in DOMAIN stops :
          stops[i].type = Missing \/ {stops[i].lat, stops[i].lon} \cap {Missing, Blank, Bad} # {}
    /\ Raised("load routes") => \E r \in DOMAIN feed.routes : feed.routes[r].type \in {Missing, Blank}
    /\ Raised("load transfers") =>
          \/ SecondTransfer
          \/ feed.prints /\ \E n \in DOMAIN feed.transfers : /\ HasTime(feed.transfers[n])
                                                          /\ feed.transfers[n].type # 2
    /\ feed.loaded /\ Raised("stops") => feed.children /\ \E i \in DOMAIN stops : FailsAgain(feed.stops[i])
    /\ Raised("routes") => feed.children /\ \E r \in DOMAIN feed.routes : feed.routes[r].type \in {0, Missing, Blank}

(* What stop.py:275 and route.py:274 say of the checks made before a stop   *)
(* or a route is added, "None of these checks are blocking", and the tests  *)
(* expect of them, of a second transfer between two stops and of a repeated *)
(* stop_sequence: with a reporter that collects its problems the feed is    *)
(* read and validated to the end.                                           *)
ChecksAreNotBlocking ==
    ~ feed.prints =>
        \A p \in {"load stops", "load routes", "load transfers", "stop times"} : ~ Raised(p)

(* Validation ends, with a result or an exception: every loop over stops,  *)
(* pairs of stops, trips and blocks comes to its end.                      *)
Termination == <>(pass \in {"done", "raised"})

=============================================================================
