------------------------------- MODULE MCMerge -------------------------------
(***************************************************************************)
(* Pairs of feeds for Merge.  Each family varies one part of the two feeds *)
(* and keeps the rest simple; every reference of a feed resolves in it, as *)
(* in a feed that load_without_errors accepts.                             *)
(***************************************************************************)
EXTENDS Merge, TLC

X == <<1, << >>>>       \* "x"
X1 == <<1, <<1>>>>      \* "x_merged_1", an id that looks generated
Y == <<2, << >>>>
Z == <<3, << >>>>       \* zones
Z1 == <<3, <<1>>>>      \* "z_merged_1"

\* The tables over some of the ids of S.
Tables(S, Rows) == UNION {[T -> Rows] : T \in SUBSET S}

Simple(lo, hi) ==
    [agency |-> (X :> [val |-> 1]),
     stop |-> Empty, route |-> Empty,
     period |-> (X :> [lo |-> lo, hi |-> hi]),
     fare |-> Empty, shape |-> Empty, trip |-> Empty, rule |-> {}, transfer |-> Empty]
Old == Simple(1, 2)
New == Simple(3, 4)

TripOf(r, st, sh, bl) == [route |-> r, service |-> X, shape |-> sh, stop |-> st, block |-> bl]

\* Agencies and routes, with a trip on each route.
AgencyTables ==
    {(X :> [val |-> 1]), (X :> [val |-> 2]), (NoId :> [val |-> 1])}
        \cup {(X :> [val |-> 1]) @@ (X1 :> [val |-> 1])}
RouteFeeds(base) ==
    {[base EXCEPT
        !.agency = g, !.route = r,
        !.stop = (X :> [val |-> 1, zone |-> NoId, parent |-> NoId]),
        !.trip = [i \in DOMAIN r |-> TripOf(i, X, NoId, << >>)]] :
        g \in AgencyTables,
        r \in Tables({X}, [val : {1}, url : {0, 1, 2}, agency : {NoId, X}]
                          \cup [val : {2}, url : {0}, agency : {X}])}
RouteInputs ==
    {f \in RouteFeeds(Old) \cup RouteFeeds(New) :
        \A i \in DOMAIN f.route :
            \/ f.route[i].agency \in DOMAIN f.agency
            \/ f.route[i].agency = NoId /\ Cardinality(DOMAIN f.agency) = 1}

\* Stops with zones and parents, a fare rule for every zone, transfers.
StopFeeds(base, own) ==
    {[base EXCEPT
        !.stop = s @@ p,
        !.fare = (X :> [val |-> 1]),
        !.rule = {[fare |-> X, route |-> NoId, zone |-> (s @@ p)[i].zone] :
                     i \in DOMAIN (s @@ p)},
        !.transfer = [k \in (DOMAIN s) \X (DOMAIN p \cup {NoId}) |-> own]] :
        s \in Tables({X}, [val : {1, 2}, zone : {NoId, Z1}, parent : {NoId, Y}]),
        p \in Tables({Y}, [val : {1}, zone : {Z, Z1}, parent : {NoId, X}])}
StopInputs ==
    {f \in StopFeeds(Old, 1) \cup StopFeeds(New, 2) :
        \A i \in DOMAIN f.stop : f.stop[i].parent \in DOMAIN f.stop \cup {NoId}}

\* Service, shapes, fares and trips in blocks.
TripFeeds(ranges) ==
    {[Old EXCEPT
        !.period = (X :> r), !.shape = q, !.fare = q,
        !.stop = (Y :> [val |-> 1, zone |-> Z, parent |-> NoId]),
        !.route = (X :> [val |-> v, url |-> 0, agency |-> X]),
        !.rule = {[fare |-> i, route |-> X, zone |-> NoId] : i \in DOMAIN q},
        !.trip = [i \in T |-> TripOf(X, Y, IF q = Empty THEN NoId ELSE X, <<1>>)]] :
        r \in ranges, v \in {1, 2}, T \in SUBSET {X, X1} \ {{}},
        q \in Tables({X}, [val : {1, 2}])}

MCInputs ==
    {[a |-> f, b |-> g] : f \in {h \in RouteInputs : h.period = Old.period},
                          g \in {h \in RouteInputs : h.period = New.period}}
    \cup {[a |-> f, b |-> g] : f \in {h \in StopInputs : h.period = Old.period},
                               g \in {h \in StopInputs : h.period = New.period}}
    \cup {[a |-> f, b |-> g] : f \in TripFeeds({[lo |-> 1, hi |-> 2]}),
                               g \in TripFeeds({[lo |-> 2, hi |-> 3], [lo |-> 3, hi |-> 4]})}

\* add_default_mergers, and a TransferMerger behind them.
DefaultMergers == <<"agency", "stop", "route", "period", "fare", "shape", "trip", "rule">>
MCMergers == {Append(DefaultMergers, "transfer")}

=============================================================================
