---------------------------- MODULE MCValidation ----------------------------
(***************************************************************************)
(* Families of small feeds for Validation, each about one of its passes.    *)
(***************************************************************************)
EXTENDS Validation, TLC

Stop(lat, lon, type, parent) == [lat |-> lat, lon |-> lon, type |-> type, parent |-> parent]
Route(type, name, agency) == [type |-> type, name |-> name, agency |-> agency]
Time(stop, seq, arr, dep, dist) == [stop |-> stop, seq |-> seq, arr |-> arr, dep |-> dep, dist |-> dist]
Trip(route, service, blk, times) ==
    [route |-> route, service |-> service, block |-> blk, shape |-> 0, times |-> times]

\* Two stops far apart, one bus route, nothing else.
Plain ==
    [loaded |-> FALSE, children |-> FALSE, prints |-> FALSE, check_duplicates |-> TRUE,
     frequencies |-> 0, agencies |-> {1}, shapes |-> {0}, dates |-> <<{1, 2}, {2, 3}>>,
     stops |-> <<Stop(1, 1, 0, 0), Stop(4, 1, 0, 0)>>,
     routes |-> <<Route(Bus, <<1, 1>>, 0)>>,
     transfers |-> <<>>, trips |-> <<>>]

\* Three stops and stations near each other; the third may be the child of
\* the first.
NearbyFeeds ==
    LET Places == {Stop(lat, lon, type, 0) : lat \in {1, 2, 3}, lon \in {1, 3}, type \in {0, Station}}
    IN  {[Plain EXCEPT !.stops = <<a, b, [c EXCEPT !.parent = p]>>, !.children = (p = 1)] :
            a, b, c \in Places, p \in {0, 1}}

\* Every kind of coordinate, type and parent, loaded or built, validated
\* once or twice.
StopFeeds ==
    LET Lats(loaded) == IF loaded THEN {0, 2, Missing, Blank, Bad} ELSE {0, 2, Missing}
        Types(loaded) == IF loaded THEN {0, Station, 2, Missing, Blank, Bad} ELSE {0, Station, 2, Missing}
    IN  UNION {{[Plain EXCEPT !.loaded = loaded, !.children = children,
                              !.stops = <<Stop(lat, 2, type, parent), Stop(far, 2, other, 0)>>] :
                    lat \in Lats(loaded), type \in Types(loaded), parent \in {0, 2, 3},
                    far \in {2, 6, 9}, other \in {0, Station}, children \in BOOLEAN} :
               loaded \in BOOLEAN}

RouteFeeds ==
    LET Names == {<<1, 1>>, <<1, 2>>, <<2, 1>>}
    IN  {[Plain EXCEPT !.loaded = loaded, !.children = children, !.agencies = a[1], !.shapes = {0, 1},
                       !.routes = <<Route(type, x, 1), Route(Bus, y, a[2]), Route(Subway, z, 0)>>] :
            loaded, children \in BOOLEAN, type \in {0, Bus, 9, Missing, Blank, Bad},
            x, y, z \in Names, a \in {<<{1}, 1>>, <<{0, 1}, 2>>}}

\* Two transfers between two stops, an unknown stop (3) and none (0).
TransferFeeds ==
    LET Transfer(ends, type, time) == [from |-> ends[1], to |-> ends[2], type |-> type, time |-> time]
    IN  {[Plain EXCEPT !.loaded = TRUE, !.prints = prints,
                       !.stops = <<Stop(1, 1, 0, 0), Stop(far, 1, 0, 0)>>,
                       !.transfers = <<Transfer(a, type, time), Transfer(b, 0, Blank)>>] :
            prints \in BOOLEAN, far \in {2, 5, 9}, a, b \in {<<1, 2>>, <<2, 1>>, <<1, 3>>, <<0, 2>>},
            type \in {Blank, 0, 2, 5, Bad}, time \in {Blank, 0, 1, Bad}}

Interval(i) == <<Time(1, 1, i[1], i[1], Missing), Time(2, 2, i[2], i[2], Missing)>>

\* Trips of one or two blocks, of services that share a day, share none or
\* are unknown (9).
BlockFeeds ==
    LET Dates == {<<{1, 2}, {2, 3}>>, <<{1, 2}, {3}>>}
        Intervals == {<<0, 2>>, <<1, 1>>, <<1, 3>>, <<2, 3>>, <<2, 1>>}
        Services == {<<1, 1, 1>>, <<1, 2, 1>>, <<2, 1, 1>>, <<1, 2, 9>>, <<9, 2, 1>>, <<9, 9, 1>>}
    IN  {[Plain EXCEPT !.dates = dates,
                       !.trips = <<Trip(1, s[1], b[1], Interval(i)), Trip(1, s[2], b[2], Interval(j)),
                                   Trip(1, s[3], b[3], Interval(k))>>] :
            dates \in Dates, i, j, k \in Intervals, s \in Services, b \in {<<1, 1, 1>>, <<1, 2, 1>>}}
        \cup
        {[Plain EXCEPT !.dates = dates,
                       !.trips = <<Trip(1, s[1], 1, Interval(i)), Trip(1, s[2], 1, Interval(j)),
                                   Trip(1, s[3], 2, Interval(k)), Trip(1, s[4], 2, Interval(l))>>] :
            dates \in Dates, i, j, k, l \in {<<0, 2>>, <<1, 3>>},
            s \in {<<1, 2, 2, 1>>, <<9, 2, 1, 1>>}}

\* Trips of a bus, a subway and an unknown route (9) through two stops.
TripFeeds ==
    LET Visits(start, path) ==
            [k \in 1..Len(path) |-> Time(path[k], k, start + 2 * k, start + 2 * k, Missing)]
        Paths == {<<>>, <<1, 2>>, <<2>>}
    IN  {[Plain EXCEPT !.check_duplicates = dup,
                       !.routes = <<Route(Bus, <<1, 1>>, 0), Route(Subway, <<2, 1>>, 0)>>,
                       !.trips = <<Trip(r1, 1, 0, Visits(0, p1)), Trip(r2, 1, 0, Visits(start, p2)),
                                   Trip(r3, 1, 0, Visits(0, p3))>>] :
            dup \in BOOLEAN, r1, r2, r3 \in {1, 2, 9}, p1, p2, p3 \in Paths, start \in {0, 1}}

\* One trip with timed, half timed and untimed stops, numbers that repeat
\* and distances, under an accumulator that keeps or prints its reports.
TimeFeeds ==
    LET Whens == {<<Missing, Missing>>, <<0, 0>>, <<1, 1>>, <<1, Missing>>, <<2, 2>>}
        Two == {<<Time(1, 1, w[1], w[2], d), Time(2, q, x[1], x[2], Missing)>> :
                    w, x \in Whens, d \in {0, Missing}, q \in {1, 2}}
        Three == {<<Time(1, 1, w[1], w[2], Missing), Time(i, 2, x[1], x[2], Missing),
                    Time(2, 3, y[1], y[2], Missing)>> : w, x, y \in Whens, i \in {1, 2}}
    IN  {[Plain EXCEPT !.loaded = TRUE, !.prints = prints, !.trips = <<Trip(1, 1, 1, times)>>] :
            prints \in BOOLEAN, times \in Two \cup Three}

\* Up to three frequency periods of a trip with stops, one without.
FrequencyFeeds ==
    {[Plain EXCEPT !.frequencies = 3, !.loaded = loaded, !.trips = <<Trip(1, 1, 0, Interval(<<0, 3>>))>>] :
        loaded \in BOOLEAN}
    \cup {[Plain EXCEPT !.frequencies = 1, !.trips = <<Trip(1, 1, 0, <<>>)>>]}

MCFeeds == NearbyFeeds \cup StopFeeds \cup RouteFeeds \cup TransferFeeds \cup BlockFeeds \cup TripFeeds
               \cup TimeFeeds \cup FrequencyFeeds

\* Loaded feeds with one flaw each, of those the checks report and then trip
\* over: a stop without a latitude, a route without a type, two transfers
\* between the same stops, and a trip with a stop_sequence that repeats.
FlawedFeeds ==
    LET Loaded == [Plain EXCEPT !.loaded = TRUE]
        Again == [from |-> 1, to |-> 2, type |-> 0, time |-> Blank]
    IN  {[Loaded EXCEPT !.stops[1].lat = Blank],
         [Loaded EXCEPT !.routes[1].type = Blank],
         [Loaded EXCEPT !.transfers = <<Again, Again>>],
         [Loaded EXCEPT !.trips = <<Trip(1, 1, 0, <<Time(1, 1, 0, 0, Missing), Time(2, 1, 1, 1, Missing)>>)>>]}

MCTimes == {Missing} \cup 0..3

MCSpeeds == (0 :> 1) @@ (Bus :> 2)
=============================================================================
