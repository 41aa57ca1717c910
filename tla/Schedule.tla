------------------------------ MODULE Schedule ------------------------------
(***************************************************************************)
(* The registry at the centre of transitfeed: class Schedule and the       *)
(* operations that add agencies, service periods, stops, routes, trips,    *)
(* shapes, fares, fare rules, transfers and feed info to it.               *)
(*                                                                         *)
(* Every table of the class is a dict keyed by an id; it is modelled as a  *)
(* total function over the ids in which Absent marks a missing key.  Each  *)
(* public operation is one action, whole: a call that raises keeps exactly *)
(* the assignments the code made before the exception, because the caller  *)
(* can catch the exception and go on using the schedule.                   *)
(*                                                                         *)
(* Two kinds of exception occur.  A problem reporter whose accumulator     *)
(* raises (the default one) ends the call with "raised".  The reporter     *)
(* methods DuplicateID, InvalidValue and MissingValue do not exist on      *)
(* ProblemReporter (problems.py names them duplicate_id, invalid_value,    *)
(* missing_value), so a call to one of them ends with an AttributeError,   *)
(* "undefined", whatever the accumulator does.                             *)
(***************************************************************************)
EXTENDS Naturals, Sequences, FiniteSets

CONSTANTS AgencyIds, ServiceIds, StopIds, RouteIds, TripIds, ShapeIds,
          FareIds,     \* the ids a caller can choose, per table
          Zones,       \* fare zone ids of stops and fare rules
          Toks,        \* tell apart distinct objects that carry the same id
          FeedToks,    \* FeedInfo objects
          MaxRules,    \* bound: fare rules per fare in the model
          NoId,        \* Python's None where an id is expected
          IdBuiltin,   \* the builtin function `id` used as a dict key
          Absent,      \* "not a key of this dict"
          NoObj        \* Python's None where an object is expected

ASSUME MaxRulesAssumption == MaxRules \in Nat

(* The sentinels are not ids, and are distinct.                            *)
ASSUME SentinelAssumption ==
    /\ NoId \notin AgencyIds \cup ServiceIds \cup StopIds \cup RouteIds
    /\ NoId \notin TripIds \cup ShapeIds \cup FareIds \cup Zones
    /\ IdBuiltin \notin AgencyIds
    /\ NoId # IdBuiltin

AgencyKeys == AgencyIds \cup {NoId, IdBuiltin}
Agency == [id : AgencyKeys, tok : Toks]
ServicePeriod == [id : ServiceIds, tok : Toks]
FeedInfo == FeedToks
Trip == [route : RouteIds \cup {NoId}, service : ServiceIds \cup {NoId},
         shape : ShapeIds \cup {NoId}]
Route == [agency : AgencyKeys, trips : Seq(TripIds)]
FareRule == [route : RouteIds \cup {NoId}, zones : SUBSET Zones]
Outcomes == {"ok", "raised", "undefined", "assert"}

ASSUME AbsentAssumption ==
    /\ Absent \notin Agency \cup ServicePeriod \cup Trip \cup Route
    /\ Absent \notin Zones \cup {NoId} \cup Seq(FareRule)
    /\ NoObj \notin Agency \cup ServicePeriod \cup FeedInfo

VARIABLES
    agencies,        \* Schedule._agencies
    owned,           \* agency objects whose _schedule attribute is set
    defaultAgency,   \* Schedule._default_agency
    servicePeriods,  \* Schedule.service_periods
    defaultPeriod,   \* Schedule._default_service_period
    stops,           \* Schedule.stops, each stop abstracted to its zone_id
    fareZones,       \* Schedule.fare_zones
    routes,          \* Schedule.routes, with Route._trips
    trips,           \* Schedule.trips
    shapes,          \* keys of Schedule._shapes
    fares,           \* Schedule.fares, each fare abstracted to its rules
    transfers,       \* Schedule._transfers, as the length of each list
    feedInfo,        \* Schedule.feed_info
    feedOwned,       \* FeedInfo objects whose _schedule attribute is set
    last             \* how the latest call ended

agencyVars == <<agencies, owned, defaultAgency>>
periodVars == <<servicePeriods, defaultPeriod>>
stopVars == <<stops, fareZones>>
feedVars == <<feedInfo, feedOwned>>
vars == <<agencyVars, periodVars, stopVars, routes, trips, shapes, fares,
          transfers, feedVars, last>>

Keys(table) == {k \in DOMAIN table : table[k] # Absent}

Put(table, k, v) == [table EXCEPT ![k] = v]

(* How a call ended.                                                       *)
Ended(out) == last' = out

TypeOK ==
    /\ agencies \in [AgencyKeys -> Agency \cup {Absent}]
    /\ owned \in SUBSET Agency
    /\ defaultAgency \in Agency \cup {NoObj}
    /\ servicePeriods \in [ServiceIds -> ServicePeriod \cup {Absent}]
    /\ defaultPeriod \in ServicePeriod \cup {NoObj}
    /\ stops \in [StopIds -> Zones \cup {NoId, Absent}]
    /\ fareZones \in SUBSET Zones
    /\ routes \in [RouteIds -> Route \cup {Absent}]
    /\ trips \in [TripIds -> Trip \cup {Absent}]
    /\ shapes \in SUBSET ShapeIds
    /\ fares \in [FareIds -> Seq(FareRule) \cup {Absent}]
    /\ transfers \in [StopIds \X StopIds -> Nat]
    /\ feedInfo \in FeedInfo \cup {NoObj}
    /\ feedOwned \in SUBSET FeedInfo
    /\ last \in Outcomes

Init ==
    /\ agencies = [k \in AgencyKeys |-> Absent]
    /\ owned = {}
    /\ defaultAgency = NoObj
    /\ servicePeriods = [k \in ServiceIds |-> Absent]
    /\ defaultPeriod = NoObj
    /\ stops = [k \in StopIds |-> Absent]
    /\ fareZones = {}
    /\ routes = [k \in RouteIds |-> Absent]
    /\ trips = [k \in TripIds |-> Absent]
    /\ shapes = {}
    /\ fares = [k \in FareIds |-> Absent]
    /\ transfers = [k \in StopIds \X StopIds |-> 0]
    /\ feedInfo = NoObj
    /\ feedOwned = {}
    /\ last = "ok"

(* util.find_unique_id: str(len(dic)) when that key is free, otherwise a   *)
(* random name that is.                                                    *)
FindUniqueId(table, ids) ==
    LET n == Cardinality(Keys(table))
        free == ids \ Keys(table)
    IN  IF n \in free THEN {n} ELSE free

-----------------------------------------------------------------------------
(* Agencies.  What add_agency_object does to <<_agencies, _schedule set>>, *)
(* given that validation meets a problem (bad) and the accumulator raises  *)
(* on it (raising): _schedule is set before validation, the table after.   *)

AgencyInUse(o) == o \in owned \/ o = defaultAgency \/ agencies[o.id] = o

AddAgencyObjectOutcome(o, validate, bad, raising) ==
    IF o \in owned THEN "assert"
    ELSE IF agencies[o.id] # Absent THEN "undefined"
    ELSE IF validate /\ bad /\ raising THEN "raised"
    ELSE "ok"

AddAgencyObject(o, validate, bad, raising) ==
    LET out == AddAgencyObjectOutcome(o, validate, bad, raising) IN
    /\ owned' = IF out \in {"raised", "ok"} THEN owned \cup {o} ELSE owned
    /\ agencies' = IF out = "ok" THEN Put(agencies, o.id, o) ELSE agencies
    /\ Ended(out)

(* The caller passes an Agency of its own, possibly one passed before.     *)
CallAddAgencyObject ==
    /\ \E o \in Agency, validate, bad, raising \in BOOLEAN :
          AddAgencyObject(o, validate, bad, raising)
    /\ UNCHANGED <<defaultAgency, periodVars, stopVars, routes, trips, shapes,
                   fares, transfers, feedVars>>

(* Agency.__init__ stores the builtin `id` when an id argument is given.   *)
AgencyKeyOf(idd) == IF idd = NoId THEN NoId ELSE IdBuiltin

AddAgency ==
    /\ \E idd \in AgencyIds \cup {NoId} : \E o \in Agency :
          /\ o.id = AgencyKeyOf(idd)
          /\ ~ AgencyInUse(o)
          /\ AddAgencyObject(o, FALSE, FALSE, FALSE)
    /\ UNCHANGED <<defaultAgency, periodVars, stopVars, routes, trips, shapes,
                   fares, transfers, feedVars>>

(* Fault: the default is set and not added.                                *)
GetDefaultAgencyUnadded(o, validate, bad, raising) ==
    defaultAgency' = o /\ UNCHANGED <<agencies, owned>> /\ Ended("ok")

(* get_default_agency makes its argument the default, then adds it unless  *)
(* its id is already a key.                                                *)
GetDefaultAgency(o, validate, bad, raising) ==
    /\ defaultAgency' = o
    /\ IF agencies[o.id] = Absent
       THEN AddAgencyObject(o, validate, bad, raising)
       ELSE UNCHANGED <<agencies, owned>> /\ Ended("ok")

CallGetDefaultAgency ==
    /\ \E o \in Agency, validate, bad, raising \in BOOLEAN :
          GetDefaultAgency(o, validate, bad, raising)
    /\ UNCHANGED <<periodVars, stopVars, routes, trips, shapes, fares,
                   transfers, feedVars>>

(* new_default_agency(agency_id=...) or, without one, a unique id.         *)
NewDefaultAgency ==
    /\ \E i \in AgencyIds \cup FindUniqueId(agencies, AgencyIds) :
       \E o \in Agency :
          /\ o.id = i
          /\ ~ AgencyInUse(o)
          /\ GetDefaultAgency(o, FALSE, FALSE, FALSE)
    /\ UNCHANGED <<periodVars, stopVars, routes, trips, shapes, fares,
                   transfers, feedVars>>

(* The states init_default_agency can leave: with no default set, a sole   *)
(* agency becomes the default and an empty table gets a new one.           *)
InitDefaultAgencyResults ==
    LET known == Keys(agencies) IN
    IF defaultAgency = NoObj /\ known = {}
    THEN {[table |-> Put(agencies, o.id, o), owned |-> owned \cup {o},
           default |-> o] :
          o \in {a \in Agency : /\ a.id \in FindUniqueId(agencies, AgencyIds)
                                /\ ~ AgencyInUse(a)}}
    ELSE IF defaultAgency = NoObj /\ \E k \in known : known = {k}
    THEN {[table |-> agencies, owned |-> owned, default |-> agencies[k]] :
          k \in known}
    ELSE {[table |-> agencies, owned |-> owned, default |-> defaultAgency]}

InitDefaultAgency ==
    /\ \E r \in InitDefaultAgencyResults :
          /\ agencies' = r.table
          /\ owned' = r.owned
          /\ defaultAgency' = r.default
    /\ Ended("ok")
    /\ UNCHANGED <<periodVars, stopVars, routes, trips, shapes, fares,
                   transfers, feedVars>>

-----------------------------------------------------------------------------
(* Service periods have no _schedule attribute and no column bookkeeping.  *)

PeriodInUse(o) == o = defaultPeriod \/ servicePeriods[o.id] = o

AddServicePeriodObject(o, validate, bad, raising) ==
    LET out == IF servicePeriods[o.id] # Absent THEN "undefined"
               ELSE IF validate /\ bad /\ raising THEN "raised" ELSE "ok"
    IN  /\ servicePeriods' = IF out = "ok" THEN Put(servicePeriods, o.id, o)
                                           ELSE servicePeriods
        /\ Ended(out)

CallAddServicePeriodObject ==
    /\ \E o \in ServicePeriod, validate, bad, raising \in BOOLEAN :
          AddServicePeriodObject(o, validate,
                                 bad, raising)
    /\ UNCHANGED <<agencyVars, defaultPeriod, stopVars, routes, trips, shapes,
                   fares, transfers, feedVars>>

(* The default is assigned before the period is validated and added.       *)
SetDefaultServicePeriod(o, validate, bad, raising) ==
    /\ defaultPeriod' = o
    /\ IF servicePeriods[o.id] = Absent
       THEN AddServicePeriodObject(o, validate, bad, raising)
       ELSE UNCHANGED servicePeriods /\ Ended("ok")

CallSetDefaultServicePeriod ==
    /\ \E o \in ServicePeriod, validate, bad, raising \in BOOLEAN :
          SetDefaultServicePeriod(o, validate,
                                  bad, raising)
    /\ UNCHANGED <<agencyVars, stopVars, routes, trips, shapes, fares,
                   transfers, feedVars>>

NewDefaultServicePeriod ==
    /\ \E o \in ServicePeriod :
          /\ o.id \in FindUniqueId(servicePeriods, ServiceIds)
          /\ ~ PeriodInUse(o)
          /\ SetDefaultServicePeriod(o, FALSE,
                                     FALSE, FALSE)
    /\ UNCHANGED <<agencyVars, stopVars, routes, trips, shapes, fares,
                   transfers, feedVars>>

(* The states get_default_service_period can leave.                        *)
GetDefaultServicePeriodResults ==
    LET known == Keys(servicePeriods) IN
    IF defaultPeriod = NoObj /\ known = {}
    THEN {[table |-> Put(servicePeriods, o.id, o), default |-> o] :
          o \in {p \in ServicePeriod :
                    /\ p.id \in FindUniqueId(servicePeriods, ServiceIds)
                    /\ ~ PeriodInUse(p)}}
    ELSE IF defaultPeriod = NoObj /\ \E k \in known : known = {k}
    THEN {[table |-> servicePeriods, default |-> servicePeriods[k]] :
          k \in known}
    ELSE {[table |-> servicePeriods, default |-> defaultPeriod]}

GetDefaultServicePeriod ==
    /\ \E r \in GetDefaultServicePeriodResults :
          /\ servicePeriods' = r.table
          /\ defaultPeriod' = r.default
    /\ Ended("ok")
    /\ UNCHANGED <<agencyVars, stopVars, routes, trips, shapes, fares,
                   transfers, feedVars>>

-----------------------------------------------------------------------------
(* Stops.  add_stop picks an id when none is given; a stop with a blank id *)
(* passed to add_stop_object is dropped in silence.                        *)

ZonesAfter(zone) == IF zone = NoId THEN fareZones ELSE fareZones \cup {zone}

(* Fault: the zone is recorded before the duplicate check.                 *)
AddStopObjectZoneFirst(i, zone) ==
    /\ fareZones' = ZonesAfter(zone)
    /\ IF i = NoId \/ stops[i] # Absent
       THEN UNCHANGED stops /\ Ended("undefined")
       ELSE stops' = Put(stops, i, zone) /\ Ended("ok")

AddStopObject(i, zone) ==
    IF i = NoId
    THEN UNCHANGED stopVars /\ Ended("ok")
    ELSE IF stops[i] # Absent
    THEN UNCHANGED stopVars /\ Ended("undefined")
    ELSE /\ stops' = Put(stops, i, zone)
         /\ fareZones' = ZonesAfter(zone)
         /\ Ended("ok")

CallAddStopObject ==
    /\ \E i \in StopIds \cup {NoId}, zone \in Zones \cup {NoId} :
          AddStopObject(i, zone)
    /\ UNCHANGED <<agencyVars, periodVars, routes, trips, shapes, fares,
                   transfers, feedVars>>

AddStop ==
    /\ \E i \in StopIds \cup FindUniqueId(stops, StopIds) :
          AddStopObject(i, NoId)
    /\ UNCHANGED <<agencyVars, periodVars, routes, trips, shapes, fares,
                   transfers, feedVars>>

-----------------------------------------------------------------------------
(* Routes.  A route without an agency is accepted while there is exactly   *)
(* one agency.                                                             *)

(* Fault: the agency is not checked.                                       *)
RouteAgencyUnchecked(agency, table) == agency \in DOMAIN table

RouteAgencyAccepted(agency, table) ==
    \/ table[agency] # Absent
    \/ agency = NoId /\ \E k \in AgencyKeys : Keys(table) = {k}

AddRouteObject(r, agency, table) ==
    IF routes[r] = Absent /\ RouteAgencyAccepted(agency, table)
    THEN /\ routes' = Put(routes, r, [agency |-> agency, trips |-> <<>>])
         /\ Ended("ok")
    ELSE UNCHANGED routes /\ Ended("undefined")

CallAddRouteObject ==
    /\ \E r \in RouteIds, agency \in AgencyIds \cup {NoId} :
          AddRouteObject(r, agency, agencies)
    /\ UNCHANGED <<agencyVars, periodVars, stopVars, trips, shapes, fares,
                   transfers, feedVars>>

(* add_route gives the route the default agency, which it may have to      *)
(* create; with several agencies and no default it fails on None.          *)
AddRoute ==
    /\ \E r \in RouteIds \cup FindUniqueId(routes, RouteIds) :
       \E d \in InitDefaultAgencyResults :
          /\ agencies' = d.table
          /\ owned' = d.owned
          /\ defaultAgency' = d.default
          /\ IF d.default = NoObj
             THEN UNCHANGED routes /\ Ended("undefined")
             ELSE AddRouteObject(r, d.default.id, d.table)
    /\ UNCHANGED <<periodVars, stopVars, trips, shapes, fares, transfers,
                   feedVars>>

-----------------------------------------------------------------------------
(* Trips.  The trip enters Schedule.trips first, is validated next (when   *)
(* asked for) and is appended to its route's list last; an unknown route   *)
(* id there is a KeyError that the code swallows.                          *)

(* Trip.validate calls InvalidValue, which does not exist, for a reference *)
(* it cannot resolve.                                                      *)
DanglingReference(trip) ==
    \/ trip.route # NoId /\ routes[trip.route] = Absent
    \/ trip.service # NoId /\ servicePeriods[trip.service] = Absent
    \/ trip.shape # NoId /\ trip.shape \notin shapes

(* The flaws of a trip's other attributes: a bad direction_id is one more  *)
(* call of InvalidValue, the others reach the reporter.                    *)
Flaws == {"none", "direction", "other"}

TripIdMissing(trip) == trip.route = NoId \/ trip.service = NoId

(* Missing route and service ids are reported before direction_id is       *)
(* looked at and references are resolved, other values after.              *)
TripValidateOutcome(trip, flaw, raising) ==
    IF raising /\ TripIdMissing(trip) THEN "raised"
    ELSE IF flaw = "direction" \/ DanglingReference(trip) THEN "undefined"
    ELSE IF raising /\ flaw = "other" THEN "raised"
    ELSE "ok"

LinkTrip(t, trip) ==
    IF trip.route = NoId THEN routes
    ELSE IF routes[trip.route] = Absent THEN routes
    ELSE LET r == routes[trip.route] IN
         Put(routes, trip.route, [agency |-> r.agency,
                                  trips |-> Append(r.trips, t)])

(* Fault: no duplicate check.                                              *)
AddTripObjectTwice(t, trip, validate, flaw, raising) ==
    LET out == IF validate THEN TripValidateOutcome(trip, flaw, raising)
                           ELSE "ok"
    IN  /\ trips' = Put(trips, t, trip)
        /\ routes' = IF out = "ok" THEN LinkTrip(t, trip) ELSE routes
        /\ Ended(out)

(* Fault: the trip is appended to its route's list before it is validated. *)
AddTripObjectLinkFirst(t, trip, validate, flaw, raising) ==
    IF trips[t] # Absent
    THEN UNCHANGED <<trips, routes>> /\ Ended("undefined")
    ELSE LET out == IF validate THEN TripValidateOutcome(trip, flaw, raising)
                                ELSE "ok"
         IN  /\ trips' = Put(trips, t, trip)
             /\ routes' = LinkTrip(t, trip)
             /\ Ended(out)

AddTripObject(t, trip, validate, flaw, raising) ==
    IF trips[t] # Absent
    THEN UNCHANGED <<trips, routes>> /\ Ended("undefined")
    ELSE LET out == IF validate THEN TripValidateOutcome(trip, flaw, raising)
                                ELSE "ok"
         IN  /\ trips' = Put(trips, t, trip)
             /\ routes' = IF out = "ok" THEN LinkTrip(t, trip) ELSE routes
             /\ Ended(out)

CallAddTripObject ==
    /\ \E t \in TripIds, trip \in Trip, validate, raising \in BOOLEAN :
       \E flaw \in IF validate THEN Flaws ELSE {"none"} :
          AddTripObject(t, trip, validate, flaw, raising)
    /\ UNCHANGED <<agencyVars, periodVars, stopVars, shapes, fares, transfers,
                   feedVars>>

(* Route.add_trip on a route that need not be in this schedule, with the   *)
(* default service period unless one is given.                             *)
RouteAddTrip ==
    /\ \E r \in RouteIds, t \in TripIds \cup FindUniqueId(trips, TripIds) :
       \E d \in GetDefaultServicePeriodResults :
          /\ servicePeriods' = d.table
          /\ defaultPeriod' = d.default
          /\ LET s == IF d.default = NoObj THEN NoId ELSE d.default.id
             IN  AddTripObject(t,
                               [route |-> r, service |-> s, shape |-> NoId],
                               FALSE, "none", FALSE)
    /\ UNCHANGED <<agencyVars, stopVars, shapes, fares, transfers, feedVars>>

-----------------------------------------------------------------------------
(* Shapes, fares, fare rules, transfers and feed info.                     *)

(* Shapes and fares are validated before the duplicate check.              *)
AddShapeObject ==
    /\ \E i \in ShapeIds, bad, raising \in BOOLEAN :
          LET out == IF bad /\ raising THEN "raised"
                     ELSE IF i \in shapes THEN "undefined" ELSE "ok"
          IN  /\ shapes' = IF out = "ok" THEN shapes \cup {i} ELSE shapes
              /\ Ended(out)
    /\ UNCHANGED <<agencyVars, periodVars, stopVars, routes, trips, fares,
                   transfers, feedVars>>

(* How FareAttribute.validate ends: it calls missing reporter methods for  *)
(* some of the problems it finds and existing ones for others.             *)
FareVerdicts == {"ok", "raised", "undefined"}

AddFareAttributeObject ==
    /\ \E i \in FareIds, v \in FareVerdicts :
          LET out == IF v # "ok" THEN v
                     ELSE IF fares[i] # Absent THEN "undefined" ELSE "ok"
          IN  /\ fares' = IF out = "ok" THEN Put(fares, i, <<>>) ELSE fares
              /\ Ended(out)
    /\ UNCHANGED <<agencyVars, periodVars, stopVars, routes, trips, shapes,
                   transfers, feedVars>>

(* The three zone fields of a rule are checked alike; a rule is abstracted *)
(* to its route and the set of zones it names.                             *)
(* Fault: the rule's route is not looked up.                               *)
RuleZonesResolve(rule) == rule.zones \subseteq fareZones

RuleResolves(rule) ==
    /\ rule.route # NoId => routes[rule.route] # Absent
    /\ rule.zones \subseteq fareZones

AddFareRuleObject ==
    /\ \E i \in FareIds \cup {NoId}, rule \in FareRule :
          IF i # NoId /\ RuleResolves(rule) /\ fares[i] # Absent
          THEN /\ Len(fares[i]) < MaxRules
               /\ fares' = [fares EXCEPT ![i] = Append(@, rule)]
               /\ Ended("ok")
          ELSE /\ UNCHANGED fares
               /\ Ended("undefined")
    /\ UNCHANGED <<agencyVars, periodVars, stopVars, routes, trips, shapes,
                   transfers, feedVars>>

(* The id of a transfer is its pair of stop ids; neither has to be known.  *)
AddTransferObject ==
    /\ \E pair \in StopIds \X StopIds :
          IF transfers[pair] > 0
          THEN /\ UNCHANGED transfers
               /\ Ended("undefined")
          ELSE /\ transfers' = [transfers EXCEPT ![pair] = @ + 1]
               /\ Ended("ok")
    /\ UNCHANGED <<agencyVars, periodVars, stopVars, routes, trips, shapes,
                   fares, feedVars>>

(* FeedInfo has no method validate: asking for validation fails after the  *)
(* object was tied to the schedule and before it is stored.                *)
AddFeedInfoObject ==
    /\ \E f \in FeedInfo, validate \in BOOLEAN :
          LET out == IF f \in feedOwned THEN "assert"
                     ELSE IF validate THEN "undefined" ELSE "ok"
          IN  /\ feedOwned' = feedOwned \cup {f}
              /\ feedInfo' = IF out = "ok" THEN f ELSE feedInfo
              /\ Ended(out)
    /\ UNCHANGED <<agencyVars, periodVars, stopVars, routes, trips, shapes,
                   fares, transfers>>

-----------------------------------------------------------------------------
Next ==
    \/ CallAddAgencyObject
    \/ AddAgency
    \/ CallGetDefaultAgency
    \/ NewDefaultAgency
    \/ InitDefaultAgency
    \/ CallAddServicePeriodObject
    \/ CallSetDefaultServicePeriod
    \/ NewDefaultServicePeriod
    \/ GetDefaultServicePeriod
    \/ CallAddStopObject
    \/ AddStop
    \/ CallAddRouteObject
    \/ AddRoute
    \/ CallAddTripObject
    \/ RouteAddTrip
    \/ AddShapeObject
    \/ AddFareAttributeObject
    \/ AddFareRuleObject
    \/ AddTransferObject
    \/ AddFeedInfoObject

Spec == Init /\ [][Next]_vars

-----------------------------------------------------------------------------
(* Properties.                                                             *)

(* add_route and add_route_object: a route in the schedule names an agency *)
(* in the schedule; one that names none was added when there was one.      *)
RouteAgencyRegistered ==
    \A r \in Keys(routes) :
        IF routes[r].agency = NoId THEN Keys(agencies) # {}
        ELSE agencies[routes[r].agency] # Absent

(* Route._trips against Schedule.trips: a route lists only registered      *)
(* trips that name it, each of them once, whatever calls failed before.    *)
RouteListsAreExact ==
    \A r \in Keys(routes) :
        LET listed == routes[r].trips IN
        /\ \A i \in 1..Len(listed) :
              /\ trips[listed[i]] # Absent
              /\ trips[listed[i]].route = r
        /\ \A i, j \in 1..Len(listed) : listed[i] = listed[j] => i = j

Listed(t) == \E r \in Keys(routes) :
                \E i \in 1..Len(routes[r].trips) : routes[r].trips[i] = t

(* fare_zones is the set of zones of the registered stops: no zone of a    *)
(* rejected or dropped stop gets in, none is lost.                         *)
FareZonesAreExact == fareZones = {stops[i] : i \in Keys(stops)} \ {NoId}

(* add_fare_rule_object: every rule kept by a fare names a registered      *)
(* route and known zones.                                                  *)
FareRulesResolve ==
    \A f \in Keys(fares) : \A i \in 1..Len(fares[f]) :
        /\ fares[f][i].zones \subseteq fareZones
        /\ fares[f][i].route \in Keys(routes) \cup {NoId}

(* What one call leaves in place in every table.                           *)
KeepsRegistered ==
    /\ \A k \in Keys(agencies) : agencies'[k] = agencies[k]
    /\ \A k \in Keys(servicePeriods) : servicePeriods'[k] = servicePeriods[k]
    /\ \A k \in Keys(stops) : stops'[k] = stops[k]
    /\ fareZones \subseteq fareZones'
    /\ \A k \in Keys(routes) : /\ routes'[k] # Absent
                               /\ routes'[k].agency = routes[k].agency
    /\ \A k \in Keys(trips) : trips'[k] = trips[k]
    /\ shapes \subseteq shapes'
    /\ \A k \in Keys(fares) : fares'[k] # Absent

(* No operation replaces or removes an object, or forgets a fare zone: the *)
(* first object registered under an id keeps it.                           *)
RegistrationIsPermanent == [][KeepsRegistered]_vars

(* An agency object that is tied to the schedule but not in its table: the *)
(* validation in add_agency_object raised between the two assignments.     *)
Stranded(o) == o \in owned /\ agencies[o.id] # o

(* The id of the default agency, which add_route gives to new routes, is   *)
(* registered unless the default is a stranded object.                     *)
DefaultAgencyKnownOrStranded ==
    defaultAgency # NoObj => \/ agencies[defaultAgency.id] # Absent
                             \/ Stranded(defaultAgency)

(* A stranded agency cannot be rescued: the assertion at the top of        *)
(* add_agency_object refuses it for ever after.                            *)
StrandedStaysOut == [][\A o \in Agency : Stranded(o) => Stranded(o)']_vars

(* What a call that raises may have changed: it may have created the first *)
(* agency or the first service period, as the default that add_route or    *)
(* add_trip asked for, and it may have left behind the trip whose          *)
(* validation failed, in no route's list; every other table is as before.  *)
FailedCallKeepsTables ==
    [][last' # "ok" =>
          /\ UNCHANGED <<stopVars, routes, shapes, fares, transfers, feedInfo>>
          /\ agencies' # agencies => defaultAgency = NoObj /\ Keys(agencies) = {}
          /\ servicePeriods' # servicePeriods =>
                defaultPeriod = NoObj /\ Keys(servicePeriods) = {}
          /\ \A t \in TripIds : trips'[t] # trips[t] => ~ Listed(t)']_vars

=============================================================================
