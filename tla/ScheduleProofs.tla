--------------------------- MODULE ScheduleProofs ---------------------------
(***************************************************************************)
(* Machine-checked proofs about the registry, for every choice of ids,     *)
(* zones and objects: type correctness, and the safety properties proved   *)
(* from it.                                                                *)
(***************************************************************************)
EXTENDS Schedule, TLAPS

(* What find_unique_id returns is a free id of its table.                  *)
LEMMA UniqueIdIsFree ==
    ASSUME NEW table, NEW ids, NEW k \in FindUniqueId(table, ids)
    PROVE  k \in ids /\ k \notin Keys(table)
BY DEF FindUniqueId

(* What Ended records is well typed.                                       *)
LEMMA EndedType ==
    ASSUME NEW out \in Outcomes, Ended(out)
    PROVE  last' \in Outcomes
BY DEF Ended

(* Adding an agency object keeps the tables well typed.                    *)
LEMMA AddAgencyObjectType ==
    ASSUME TypeOK, NEW o \in Agency, NEW validate \in BOOLEAN,
           NEW bad \in BOOLEAN, NEW raising \in BOOLEAN,
           AddAgencyObject(o, validate, bad, raising)
    PROVE  /\ agencies' \in [AgencyKeys -> Agency \cup {Absent}]
           /\ owned' \in SUBSET Agency
           /\ last' \in Outcomes
<1>1. o.id \in AgencyKeys
  BY DEF Agency
<1> DEFINE out == AddAgencyObjectOutcome(o, validate, bad, raising)
<1>2. out \in Outcomes
  BY DEF AddAgencyObjectOutcome, Outcomes
<1>3. /\ owned' = IF out \in {"raised", "ok"} THEN owned \cup {o} ELSE owned
      /\ agencies' = IF out = "ok" THEN Put(agencies, o.id, o) ELSE agencies
      /\ last' = out
  BY DEF AddAgencyObject, Ended
<1> HIDE DEF out
<1>4. agencies' \in [AgencyKeys -> Agency \cup {Absent}]
  BY <1>1, <1>3 DEF TypeOK, Put
<1>5. owned' \in SUBSET Agency
  BY <1>3 DEF TypeOK
<1>6. last' \in Outcomes
  BY <1>2, <1>3
<1> QED BY <1>4, <1>5, <1>6

(* The states init_default_agency can leave are well typed.                *)
LEMMA InitDefaultAgencyType ==
    ASSUME TypeOK, NEW r \in InitDefaultAgencyResults
    PROVE  /\ r.table \in [AgencyKeys -> Agency \cup {Absent}]
           /\ r.owned \in SUBSET Agency
           /\ r.default \in Agency \cup {NoObj}
<1>1. CASE defaultAgency = NoObj /\ Keys(agencies) = {}
  <2>1. PICK o \in Agency :
           r = [table |-> Put(agencies, o.id, o), owned |-> owned \cup {o},
                default |-> o]
    BY <1>1 DEF InitDefaultAgencyResults
  <2>2. o.id \in AgencyKeys
    BY DEF Agency
  <2> QED BY <2>1, <2>2 DEF TypeOK, Put
<1>2. CASE /\ ~ (defaultAgency = NoObj /\ Keys(agencies) = {})
           /\ defaultAgency = NoObj /\ \E k \in Keys(agencies) : Keys(agencies) = {k}
  <2>1. PICK k \in Keys(agencies) :
           r = [table |-> agencies, owned |-> owned, default |-> agencies[k]]
    BY <1>2 DEF InitDefaultAgencyResults
  <2>2. agencies[k] \in Agency
    BY DEF TypeOK, Keys
  <2> QED BY <2>1, <2>2 DEF TypeOK
<1>3. CASE /\ ~ (defaultAgency = NoObj /\ Keys(agencies) = {})
           /\ ~ (defaultAgency = NoObj /\ \E k \in Keys(agencies) : Keys(agencies) = {k})
  <2>1. r = [table |-> agencies, owned |-> owned, default |-> defaultAgency]
    BY <1>3 DEF InitDefaultAgencyResults
  <2> QED BY <2>1 DEF TypeOK
<1> QED BY <1>1, <1>2, <1>3

(* Adding a service period keeps its table well typed.                     *)
LEMMA AddServicePeriodObjectType ==
    ASSUME TypeOK, NEW o \in ServicePeriod, NEW validate \in BOOLEAN,
           NEW bad \in BOOLEAN, NEW raising \in BOOLEAN,
           AddServicePeriodObject(o, validate, bad, raising)
    PROVE  /\ servicePeriods' \in [ServiceIds -> ServicePeriod \cup {Absent}]
           /\ last' \in Outcomes
<1>1. o.id \in ServiceIds
  BY DEF ServicePeriod
<1> DEFINE out == IF servicePeriods[o.id] # Absent THEN "undefined"
                  ELSE IF validate /\ bad /\ raising THEN "raised" ELSE "ok"
<1>2. out \in Outcomes
  BY DEF Outcomes
<1>3. /\ servicePeriods' = IF out = "ok" THEN Put(servicePeriods, o.id, o)
                                         ELSE servicePeriods
      /\ last' = out
  BY DEF AddServicePeriodObject, Ended
<1> HIDE DEF out
<1> QED BY <1>1, <1>2, <1>3 DEF TypeOK, Put

(* The states get_default_service_period can leave are well typed.         *)
LEMMA GetDefaultServicePeriodType ==
    ASSUME TypeOK, NEW r \in GetDefaultServicePeriodResults
    PROVE  /\ r.table \in [ServiceIds -> ServicePeriod \cup {Absent}]
           /\ r.default \in ServicePeriod \cup {NoObj}
<1>1. CASE defaultPeriod = NoObj /\ Keys(servicePeriods) = {}
  <2>1. PICK o \in ServicePeriod :
           r = [table |-> Put(servicePeriods, o.id, o), default |-> o]
    BY <1>1 DEF GetDefaultServicePeriodResults
  <2>2. o.id \in ServiceIds
    BY DEF ServicePeriod
  <2> QED BY <2>1, <2>2 DEF TypeOK, Put
<1>2. CASE /\ ~ (defaultPeriod = NoObj /\ Keys(servicePeriods) = {})
           /\ defaultPeriod = NoObj
           /\ \E k \in Keys(servicePeriods) : Keys(servicePeriods) = {k}
  <2>1. PICK k \in Keys(servicePeriods) :
           r = [table |-> servicePeriods, default |-> servicePeriods[k]]
    BY <1>2 DEF GetDefaultServicePeriodResults
  <2>2. servicePeriods[k] \in ServicePeriod
    BY DEF TypeOK, Keys
  <2> QED BY <2>1, <2>2 DEF TypeOK
<1>3. CASE /\ ~ (defaultPeriod = NoObj /\ Keys(servicePeriods) = {})
           /\ ~ (/\ defaultPeriod = NoObj
                 /\ \E k \in Keys(servicePeriods) : Keys(servicePeriods) = {k})
  <2>1. r = [table |-> servicePeriods, default |-> defaultPeriod]
    BY <1>3 DEF GetDefaultServicePeriodResults
  <2> QED BY <2>1 DEF TypeOK
<1> QED BY <1>1, <1>2, <1>3

(* Adding a stop keeps the stops and the fare zones well typed.            *)
LEMMA AddStopObjectType ==
    ASSUME TypeOK, NEW i \in StopIds \cup {NoId}, NEW zone \in Zones \cup {NoId},
           AddStopObject(i, zone)
    PROVE  /\ stops' \in [StopIds -> Zones \cup {NoId, Absent}]
           /\ fareZones' \in SUBSET Zones
           /\ last' \in Outcomes
BY EndedType DEF TypeOK, AddStopObject, stopVars, Put, ZonesAfter, Outcomes

(* Adding a route keeps the routes well typed.                             *)
LEMMA AddRouteObjectType ==
    ASSUME TypeOK, NEW r \in RouteIds, NEW agency \in AgencyKeys, NEW table,
           AddRouteObject(r, agency, table)
    PROVE  /\ routes' \in [RouteIds -> Route \cup {Absent}]
           /\ last' \in Outcomes
<1>1. [agency |-> agency, trips |-> <<>>] \in Route
  BY DEF Route
<1> QED BY <1>1, EndedType DEF TypeOK, AddRouteObject, Put, Outcomes

(* Linking a trip to its route keeps the routes well typed.                *)
LEMMA LinkTripType ==
    ASSUME TypeOK, NEW t \in TripIds, NEW trip \in Trip
    PROVE  LinkTrip(t, trip) \in [RouteIds -> Route \cup {Absent}]
<1>1. CASE trip.route = NoId \/ routes[trip.route] = Absent
  BY <1>1 DEF LinkTrip, TypeOK
<1>2. CASE trip.route # NoId /\ routes[trip.route] # Absent
  <2>1. trip.route \in RouteIds
    BY <1>2 DEF Trip
  <2>2. routes[trip.route] \in Route
    BY <1>2, <2>1 DEF TypeOK
  <2>3. Append(routes[trip.route].trips, t) \in Seq(TripIds)
    BY <2>2 DEF Route
  <2>4. [agency |-> routes[trip.route].agency,
         trips |-> Append(routes[trip.route].trips, t)] \in Route
    BY <2>2, <2>3 DEF Route
  <2> QED BY <1>2, <2>1, <2>4 DEF LinkTrip, TypeOK, Put
<1> QED BY <1>1, <1>2

(* Adding a trip keeps the trips and the routes well typed.                *)
LEMMA AddTripObjectType ==
    ASSUME TypeOK, NEW t \in TripIds, NEW trip \in Trip,
           NEW validate \in BOOLEAN, NEW flaw, NEW raising \in BOOLEAN,
           AddTripObject(t, trip, validate, flaw, raising)
    PROVE  /\ trips' \in [TripIds -> Trip \cup {Absent}]
           /\ routes' \in [RouteIds -> Route \cup {Absent}]
           /\ last' \in Outcomes
<1>1. CASE trips[t] # Absent
  <2>1. UNCHANGED <<trips, routes>> /\ Ended("undefined")
    BY <1>1 DEF AddTripObject
  <2>2. "undefined" \in Outcomes
    BY DEF Outcomes
  <2> QED BY <2>1, <2>2, EndedType DEF TypeOK
<1>2. CASE trips[t] = Absent
  <2> DEFINE out == IF validate THEN TripValidateOutcome(trip, flaw, raising)
                                ELSE "ok"
  <2>1. out \in Outcomes
    BY DEF TripValidateOutcome, Outcomes
  <2>3. /\ trips' = Put(trips, t, trip)
        /\ routes' = IF out = "ok" THEN LinkTrip(t, trip) ELSE routes
        /\ last' = out
    BY <1>2 DEF AddTripObject, Ended
  <2> HIDE DEF out
  <2> QED BY <2>1, <2>3, LinkTripType DEF TypeOK, Put
<1> QED BY <1>1, <1>2

(* Route.add_trip ends in a call of add_trip_object, without validation.   *)
LEMMA RouteAddTripCall ==
    ASSUME TypeOK, RouteAddTrip
    PROVE  \E t \in TripIds, trip \in Trip, d \in GetDefaultServicePeriodResults :
              /\ servicePeriods' = d.table
              /\ defaultPeriod' = d.default
              /\ AddTripObject(t, trip, FALSE, "none", FALSE)
<1>1. PICK r \in RouteIds, t \in TripIds \cup FindUniqueId(trips, TripIds),
           d \in GetDefaultServicePeriodResults :
        /\ servicePeriods' = d.table
        /\ defaultPeriod' = d.default
        /\ LET s == IF d.default = NoObj THEN NoId ELSE d.default.id
           IN  AddTripObject(t, [route |-> r, service |-> s, shape |-> NoId],
                             FALSE, "none", FALSE)
  BY DEF RouteAddTrip
<1> DEFINE s == IF d.default = NoObj THEN NoId ELSE d.default.id
           trip == [route |-> r, service |-> s, shape |-> NoId]
<1>2. t \in TripIds
  BY <1>1, UniqueIdIsFree
<1>3. s \in ServiceIds \cup {NoId}
  BY GetDefaultServicePeriodType DEF ServicePeriod
<1>4. trip \in Trip
  BY <1>3 DEF Trip
<1>5. AddTripObject(t, trip, FALSE, "none", FALSE)
  BY <1>1
<1> HIDE DEF trip
<1> QED BY <1>1, <1>2, <1>4, <1>5

(* add_route ends in a call of add_route_object, unless there is no agency *)
(* to give the route.                                                      *)
LEMMA AddRouteCall ==
    ASSUME TypeOK, AddRoute
    PROVE  \E d \in InitDefaultAgencyResults :
              /\ agencies' = d.table
              /\ owned' = d.owned
              /\ defaultAgency' = d.default
              /\ \/ UNCHANGED routes /\ Ended("undefined")
                 \/ \E r \in RouteIds, agency \in AgencyKeys :
                       AddRouteObject(r, agency, d.table)
<1>1. PICK r \in RouteIds \cup FindUniqueId(routes, RouteIds),
           d \in InitDefaultAgencyResults :
        /\ agencies' = d.table
        /\ owned' = d.owned
        /\ defaultAgency' = d.default
        /\ IF d.default = NoObj
           THEN UNCHANGED routes /\ Ended("undefined")
           ELSE AddRouteObject(r, d.default.id, d.table)
  BY DEF AddRoute
<1>2. r \in RouteIds
  BY <1>1, UniqueIdIsFree
<1>3. d.default # NoObj => d.default.id \in AgencyKeys
  BY InitDefaultAgencyType DEF Agency
<1> QED BY <1>1, <1>2, <1>3

(* Schedule.__init__ leaves well typed tables.                             *)
LEMMA InitType == Init => TypeOK
BY DEF Init, TypeOK, Outcomes, Agency, AgencyKeys

-----------------------------------------------------------------------------
(* The agency operations of Schedule keep every table typed.               *)
LEMMA AgencyStepType ==
    ASSUME TypeOK,
           \/ CallAddAgencyObject
           \/ AddAgency
           \/ CallGetDefaultAgency
           \/ NewDefaultAgency
           \/ InitDefaultAgency
    PROVE  TypeOK'
<1>1. CASE CallAddAgencyObject
  BY <1>1, AddAgencyObjectType DEF CallAddAgencyObject, TypeOK, periodVars,
     stopVars, feedVars
<1>2. CASE AddAgency
  <2>1. PICK o \in Agency : AddAgencyObject(o, FALSE, FALSE, FALSE)
    BY <1>2 DEF AddAgency
  <2> QED BY <1>2, <2>1, AddAgencyObjectType DEF AddAgency, TypeOK, periodVars,
     stopVars, feedVars
<1>3. ASSUME NEW o \in Agency, NEW validate \in BOOLEAN, NEW bad \in BOOLEAN,
             NEW raising \in BOOLEAN, GetDefaultAgency(o, validate, bad, raising)
      PROVE  /\ agencies' \in [AgencyKeys -> Agency \cup {Absent}]
             /\ owned' \in SUBSET Agency
             /\ defaultAgency' \in Agency \cup {NoObj}
             /\ last' \in Outcomes
  <2>1. CASE agencies[o.id] = Absent
    BY <1>3, <2>1, AddAgencyObjectType DEF GetDefaultAgency
  <2>2. CASE agencies[o.id] # Absent
    <3>1. defaultAgency' = o /\ UNCHANGED <<agencies, owned>> /\ Ended("ok")
      BY <1>3, <2>2 DEF GetDefaultAgency
    <3>2. "ok" \in Outcomes
      BY DEF Outcomes
    <3> QED BY <3>1, <3>2, EndedType DEF TypeOK
  <2> QED BY <2>1, <2>2
<1>4. CASE CallGetDefaultAgency
  BY <1>3, <1>4 DEF CallGetDefaultAgency, TypeOK, periodVars, stopVars, feedVars
<1>5. CASE NewDefaultAgency
  <2>1. PICK o \in Agency : GetDefaultAgency(o, FALSE, FALSE, FALSE)
    BY <1>5 DEF NewDefaultAgency
  <2> QED BY <1>3, <1>5, <2>1 DEF NewDefaultAgency, TypeOK, periodVars,
     stopVars, feedVars
<1>6. CASE InitDefaultAgency
  BY <1>6, InitDefaultAgencyType DEF InitDefaultAgency, Ended, Outcomes,
     TypeOK, periodVars, stopVars, feedVars
<1> QED BY <1>1, <1>2, <1>4, <1>5, <1>6

(* The service period operations keep every table typed.                   *)
LEMMA PeriodStepType ==
    ASSUME TypeOK,
           \/ CallAddServicePeriodObject
           \/ CallSetDefaultServicePeriod
           \/ NewDefaultServicePeriod
           \/ GetDefaultServicePeriod
    PROVE  TypeOK'
<1>1. CASE CallAddServicePeriodObject
  BY <1>1, AddServicePeriodObjectType DEF CallAddServicePeriodObject, TypeOK,
     agencyVars, stopVars, feedVars
<1>2. ASSUME NEW o \in ServicePeriod, NEW validate \in BOOLEAN,
             NEW bad \in BOOLEAN, NEW raising \in BOOLEAN,
             SetDefaultServicePeriod(o, validate, bad, raising)
      PROVE  /\ servicePeriods' \in [ServiceIds -> ServicePeriod \cup {Absent}]
             /\ defaultPeriod' \in ServicePeriod \cup {NoObj}
             /\ last' \in Outcomes
  <2>1. CASE servicePeriods[o.id] = Absent
    BY <1>2, <2>1, AddServicePeriodObjectType DEF SetDefaultServicePeriod
  <2>2. CASE servicePeriods[o.id] # Absent
    <3>1. defaultPeriod' = o /\ UNCHANGED servicePeriods /\ Ended("ok")
      BY <1>2, <2>2 DEF SetDefaultServicePeriod
    <3>2. "ok" \in Outcomes
      BY DEF Outcomes
    <3> QED BY <3>1, <3>2, EndedType DEF TypeOK
  <2> QED BY <2>1, <2>2
<1>3. CASE CallSetDefaultServicePeriod
  BY <1>2, <1>3 DEF CallSetDefaultServicePeriod, TypeOK, agencyVars, stopVars,
     feedVars
<1>4. CASE NewDefaultServicePeriod
  <2>1. PICK o \in ServicePeriod : SetDefaultServicePeriod(o, FALSE, FALSE, FALSE)
    BY <1>4 DEF NewDefaultServicePeriod
  <2> QED BY <1>2, <1>4, <2>1 DEF NewDefaultServicePeriod, TypeOK, agencyVars,
     stopVars, feedVars
<1>5. CASE GetDefaultServicePeriod
  <2>1. "ok" \in Outcomes
    BY DEF Outcomes
  <2> QED BY <1>5, <2>1, GetDefaultServicePeriodType, EndedType
     DEF GetDefaultServicePeriod, TypeOK, agencyVars, stopVars, feedVars
<1> QED BY <1>1, <1>3, <1>4, <1>5

(* The operations on stops, routes and trips keep every table typed.       *)
LEMMA StopRouteTripStepType ==
    ASSUME TypeOK,
           \/ CallAddStopObject
           \/ AddStop
           \/ CallAddRouteObject
           \/ AddRoute
           \/ CallAddTripObject
           \/ RouteAddTrip
    PROVE  TypeOK'
<1>1. CASE CallAddStopObject
  BY <1>1, AddStopObjectType DEF CallAddStopObject, TypeOK, agencyVars,
     periodVars, feedVars
<1>2. CASE AddStop
  <2>1. PICK i \in StopIds \cup FindUniqueId(stops, StopIds) : AddStopObject(i, NoId)
    BY <1>2 DEF AddStop
  <2>2. i \in StopIds
    BY <2>1, UniqueIdIsFree
  <2> QED BY <1>2, <2>1, <2>2, AddStopObjectType DEF AddStop, TypeOK, agencyVars,
     periodVars, feedVars
<1>3. CASE CallAddRouteObject
  <2>1. AgencyIds \cup {NoId} \subseteq AgencyKeys
    BY DEF AgencyKeys
  <2> QED BY <1>3, <2>1, AddRouteObjectType DEF CallAddRouteObject, TypeOK,
     agencyVars, periodVars, stopVars, feedVars
<1>4. CASE AddRoute
  <2>1. PICK d \in InitDefaultAgencyResults :
          /\ agencies' = d.table
          /\ owned' = d.owned
          /\ defaultAgency' = d.default
          /\ \/ UNCHANGED routes /\ Ended("undefined")
             \/ \E r \in RouteIds, agency \in AgencyKeys :
                   AddRouteObject(r, agency, d.table)
    BY <1>4, AddRouteCall
  <2>2. "undefined" \in Outcomes
    BY DEF Outcomes
  <2>3. /\ routes' \in [RouteIds -> Route \cup {Absent}]
        /\ last' \in Outcomes
    BY <2>1, <2>2, AddRouteObjectType, EndedType DEF TypeOK
  <2> QED BY <1>4, <2>1, <2>3, InitDefaultAgencyType DEF AddRoute, TypeOK,
     periodVars, stopVars, feedVars
<1>5. CASE CallAddTripObject
  BY <1>5, AddTripObjectType DEF CallAddTripObject, TypeOK, agencyVars,
     periodVars, stopVars, feedVars
<1>6. CASE RouteAddTrip
  <2>1. PICK t \in TripIds, trip \in Trip, d \in GetDefaultServicePeriodResults :
          /\ servicePeriods' = d.table
          /\ defaultPeriod' = d.default
          /\ AddTripObject(t, trip, FALSE, "none", FALSE)
    BY <1>6, RouteAddTripCall
  <2> QED BY <1>6, <2>1, AddTripObjectType, GetDefaultServicePeriodType
     DEF RouteAddTrip, TypeOK, agencyVars, stopVars, feedVars
<1> QED BY <1>1, <1>2, <1>3, <1>4, <1>5, <1>6

(* The remaining operations of Schedule keep every table typed.            *)
LEMMA RestStepType ==
    ASSUME TypeOK,
           \/ AddShapeObject
           \/ AddFareAttributeObject
           \/ AddFareRuleObject
           \/ AddTransferObject
           \/ AddFeedInfoObject
    PROVE  TypeOK'
<1>0. {"ok", "raised", "undefined", "assert"} = Outcomes
  BY DEF Outcomes
<1>1. CASE AddShapeObject
  <2>1. PICK i \in ShapeIds, bad \in BOOLEAN, raising \in BOOLEAN :
          LET out == IF bad /\ raising THEN "raised"
                     ELSE IF i \in shapes THEN "undefined" ELSE "ok"
          IN  /\ shapes' = IF out = "ok" THEN shapes \cup {i} ELSE shapes
              /\ Ended(out)
    BY <1>1 DEF AddShapeObject
  <2>2. last' \in Outcomes
    BY <1>0, <2>1, EndedType
  <2>3. shapes' \in SUBSET ShapeIds
    BY <2>1 DEF TypeOK
  <2> QED BY <1>1, <2>2, <2>3 DEF AddShapeObject, TypeOK, agencyVars,
     periodVars, stopVars, feedVars
<1>2. CASE AddFareAttributeObject
  <2>1. PICK i \in FareIds, v \in FareVerdicts :
          LET out == IF v # "ok" THEN v
                     ELSE IF fares[i] # Absent THEN "undefined" ELSE "ok"
          IN  /\ fares' = IF out = "ok" THEN Put(fares, i, <<>>) ELSE fares
              /\ Ended(out)
    BY <1>2 DEF AddFareAttributeObject
  <2>2. last' \in Outcomes
    <3> DEFINE out == IF v # "ok" THEN v
                      ELSE IF fares[i] # Absent THEN "undefined" ELSE "ok"
    <3>1. out \in Outcomes
      BY <1>0 DEF FareVerdicts
    <3>2. Ended(out)
      BY <2>1
    <3> HIDE DEF out
    <3> QED BY <3>1, <3>2, EndedType
  <2>3. fares' \in [FareIds -> Seq(FareRule) \cup {Absent}]
    BY <2>1 DEF TypeOK, Put
  <2> QED BY <1>2, <2>2, <2>3 DEF AddFareAttributeObject, TypeOK, agencyVars,
     periodVars, stopVars, feedVars
<1>3. CASE AddFareRuleObject
  <2>1. PICK i \in FareIds \cup {NoId}, rule \in FareRule :
          IF i # NoId /\ RuleResolves(rule) /\ fares[i] # Absent
          THEN /\ Len(fares[i]) < MaxRules
               /\ fares' = [fares EXCEPT ![i] = Append(@, rule)]
               /\ Ended("ok")
          ELSE /\ UNCHANGED fares
               /\ Ended("undefined")
    BY <1>3 DEF AddFareRuleObject
  <2>2. last' \in Outcomes
    BY <1>0, <2>1, EndedType
  <2>3. fares' \in [FareIds -> Seq(FareRule) \cup {Absent}]
    <3>1. CASE i # NoId /\ RuleResolves(rule) /\ fares[i] # Absent
      <4>1. i \in FareIds /\ fares[i] \in Seq(FareRule)
        BY <3>1 DEF TypeOK
      <4>2. Append(fares[i], rule) \in Seq(FareRule)
        BY <4>1
      <4> QED BY <2>1, <3>1, <4>1, <4>2 DEF TypeOK
    <3>2. CASE ~ (i # NoId /\ RuleResolves(rule) /\ fares[i] # Absent)
      BY <2>1, <3>2 DEF TypeOK
    <3> QED BY <3>1, <3>2
  <2> QED BY <1>3, <2>2, <2>3 DEF AddFareRuleObject, TypeOK, agencyVars,
     periodVars, stopVars, feedVars
<1>4. CASE AddTransferObject
  <2>1. PICK pair \in StopIds \X StopIds :
          IF transfers[pair] > 0
          THEN /\ UNCHANGED transfers
               /\ Ended("undefined")
          ELSE /\ transfers' = [transfers EXCEPT ![pair] = @ + 1]
               /\ Ended("ok")
    BY <1>4 DEF AddTransferObject
  <2>2. last' \in Outcomes
    BY <1>0, <2>1, EndedType
  <2>3. transfers' \in [StopIds \X StopIds -> Nat]
    BY <2>1 DEF TypeOK
  <2> QED BY <1>4, <2>2, <2>3 DEF AddTransferObject, TypeOK, agencyVars,
     periodVars, stopVars, feedVars
<1>5. CASE AddFeedInfoObject
  <2>1. PICK f \in FeedInfo, validate \in BOOLEAN :
          LET out == IF f \in feedOwned THEN "assert"
                     ELSE IF validate THEN "undefined" ELSE "ok"
          IN  /\ feedOwned' = feedOwned \cup {f}
              /\ feedInfo' = IF out = "ok" THEN f ELSE feedInfo
              /\ Ended(out)
    BY <1>5 DEF AddFeedInfoObject
  <2>2. last' \in Outcomes
    BY <1>0, <2>1, EndedType
  <2> QED BY <1>5, <2>1, <2>2 DEF AddFeedInfoObject, TypeOK, agencyVars,
     periodVars, stopVars, feedVars
<1> QED BY <1>1, <1>2, <1>3, <1>4, <1>5

(* One step of the registry, or a stutter, keeps it well typed.            *)
LEMMA NextType == TypeOK /\ [Next]_vars => TypeOK'
<1> SUFFICES ASSUME TypeOK, [Next]_vars PROVE TypeOK'
  OBVIOUS
<1>1. CASE UNCHANGED vars
  BY <1>1 DEF vars, agencyVars, periodVars, stopVars, feedVars, TypeOK
<1> QED BY <1>1, AgencyStepType, PeriodStepType, StopRouteTripStepType,
   RestStepType DEF Next

(* Every table of a schedule holds well-formed entries, after any sequence *)
(* of calls, the ones that raise included: in particular no call stores    *)
(* None as a fare zone.                                                    *)
THEOREM TypeCorrect == Spec => []TypeOK
BY InitType, NextType, PTL DEF Spec

-----------------------------------------------------------------------------
(* Nothing registered is lost.                                             *)

(* add_agency_object leaves registered agencies in place.                  *)
LEMMA AddAgencyObjectKeeps ==
    ASSUME TypeOK, NEW o \in Agency, NEW validate, NEW bad, NEW raising,
           AddAgencyObject(o, validate, bad, raising)
    PROVE  \A k \in Keys(agencies) : agencies'[k] = agencies[k]
<1>1. CASE agencies[o.id] = Absent
  <2>1. o.id \notin Keys(agencies)
    BY <1>1 DEF Keys
  <2>2. agencies' = Put(agencies, o.id, o) \/ agencies' = agencies
    BY DEF AddAgencyObject
  <2> QED BY <2>1, <2>2 DEF Put, TypeOK, Keys
<1>2. CASE agencies[o.id] # Absent
  <2>1. AddAgencyObjectOutcome(o, validate, bad, raising) # "ok"
    BY <1>2 DEF AddAgencyObjectOutcome
  <2> QED BY <2>1 DEF AddAgencyObject
<1> QED BY <1>1, <1>2

(* init_default_agency leaves registered agencies in place.                *)
LEMMA InitDefaultAgencyKeeps ==
    ASSUME TypeOK, NEW r \in InitDefaultAgencyResults
    PROVE  \A k \in Keys(agencies) : r.table[k] = agencies[k]
<1>1. CASE Keys(agencies) = {}
  BY <1>1
<1>2. CASE Keys(agencies) # {}
  <2>1. r.table = agencies
    BY <1>2 DEF InitDefaultAgencyResults
  <2> QED BY <2>1
<1> QED BY <1>1, <1>2

(* add_service_period_object leaves registered periods in place.           *)
LEMMA AddServicePeriodObjectKeeps ==
    ASSUME TypeOK, NEW o \in ServicePeriod, NEW validate, NEW bad, NEW raising,
           AddServicePeriodObject(o, validate, bad, raising)
    PROVE  \A k \in Keys(servicePeriods) : servicePeriods'[k] = servicePeriods[k]
<1>1. CASE servicePeriods[o.id] = Absent
  <2>1. o.id \notin Keys(servicePeriods)
    BY <1>1 DEF Keys
  <2>2. \/ servicePeriods' = Put(servicePeriods, o.id, o)
        \/ servicePeriods' = servicePeriods
    BY DEF AddServicePeriodObject
  <2> QED BY <2>1, <2>2 DEF Put, TypeOK, Keys
<1>2. CASE servicePeriods[o.id] # Absent
  BY <1>2 DEF AddServicePeriodObject
<1> QED BY <1>1, <1>2

(* get_default_service_period leaves registered periods in place.          *)
LEMMA GetDefaultServicePeriodKeeps ==
    ASSUME TypeOK, NEW r \in GetDefaultServicePeriodResults
    PROVE  \A k \in Keys(servicePeriods) : r.table[k] = servicePeriods[k]
<1>1. CASE Keys(servicePeriods) = {}
  BY <1>1
<1>2. CASE Keys(servicePeriods) # {}
  <2>1. r.table = servicePeriods
    BY <1>2 DEF GetDefaultServicePeriodResults
  <2> QED BY <2>1
<1> QED BY <1>1, <1>2

(* add_stop_object leaves registered stops and their zones in place.       *)
LEMMA AddStopObjectKeeps ==
    ASSUME TypeOK, NEW i \in StopIds \cup {NoId}, NEW zone, AddStopObject(i, zone)
    PROVE  /\ \A k \in Keys(stops) : stops'[k] = stops[k]
           /\ fareZones \subseteq fareZones'
BY DEF AddStopObject, stopVars, Put, Keys, ZonesAfter, TypeOK

(* The agencies and the trip lists of the routes after add_route_object.   *)
LEMMA AddRouteObjectKeeps ==
    ASSUME TypeOK, NEW r \in RouteIds, NEW agency, NEW table,
           AddRouteObject(r, agency, table)
    PROVE  /\ \A k \in Keys(routes) : routes'[k] = routes[k]
           /\ \A k \in Keys(routes)' : k = r \/ k \in Keys(routes)
BY DEF AddRouteObject, Put, Keys, TypeOK

(* Appending to Route._trips leaves the route and its agency in place.     *)
LEMMA LinkTripKeeps ==
    ASSUME TypeOK, NEW t \in TripIds, NEW trip \in Trip, NEW k \in Keys(routes)
    PROVE  /\ LinkTrip(t, trip)[k] # Absent
           /\ LinkTrip(t, trip)[k].agency = routes[k].agency
<1>1. LinkTrip(t, trip)[k] \in Route \cup {Absent}
  BY LinkTripType DEF Keys, TypeOK
<1>2. CASE trip.route # k
  BY <1>2 DEF LinkTrip, Put, Keys, TypeOK
<1>3. CASE trip.route = k
  <2>1. k \in RouteIds /\ k # NoId /\ routes[k] # Absent
    BY SentinelAssumption DEF Keys, TypeOK
  <2>2. LinkTrip(t, trip)[k] = [agency |-> routes[k].agency,
                                trips |-> Append(routes[k].trips, t)]
    BY <1>3, <2>1 DEF LinkTrip, Put, TypeOK
  <2>3. [agency |-> routes[k].agency, trips |-> Append(routes[k].trips, t)] \in Route
    <3>1. routes[k] \in Route
      BY <2>1 DEF TypeOK
    <3> QED BY <3>1 DEF Route
  <2> QED BY <2>2, <2>3, AbsentAssumption, SMTT(30)
<1> QED BY <1>2, <1>3

(* add_trip_object leaves registered trips and routes in place.            *)
LEMMA AddTripObjectKeeps ==
    ASSUME TypeOK, NEW t \in TripIds, NEW trip \in Trip, NEW validate, NEW flaw,
           NEW raising, AddTripObject(t, trip, validate, flaw, raising)
    PROVE  /\ \A k \in Keys(trips) : trips'[k] = trips[k]
           /\ \A k \in Keys(routes) : /\ routes'[k] # Absent
                                      /\ routes'[k].agency = routes[k].agency
<1>1. \/ UNCHANGED <<trips, routes>>
      \/ /\ trips[t] = Absent /\ trips' = Put(trips, t, trip)
         /\ routes' = routes \/ routes' = LinkTrip(t, trip)
  BY DEF AddTripObject
<1>2. CASE UNCHANGED <<trips, routes>>
  BY <1>2 DEF Keys
<1>3. CASE trips[t] = Absent /\ trips' = Put(trips, t, trip) /\ routes' = routes
  BY <1>3 DEF Keys, Put, TypeOK
<1>4. CASE trips[t] = Absent /\ trips' = Put(trips, t, trip)
           /\ routes' = LinkTrip(t, trip)
  <2>1. \A k \in Keys(trips) : trips'[k] = trips[k]
    BY <1>4 DEF Keys, Put, TypeOK
  <2> QED BY <1>4, <2>1, LinkTripKeeps
<1> QED BY <1>1, <1>2, <1>3, <1>4

(* One step of the registry keeps what is registered.                      *)
LEMMA NextKeeps == TypeOK /\ [Next]_vars => KeepsRegistered
<1> SUFFICES ASSUME TypeOK, [Next]_vars PROVE KeepsRegistered
  OBVIOUS
<1> USE DEF agencyVars, periodVars, stopVars, feedVars
<1>1. ASSUME UNCHANGED <<agencies, servicePeriods, stops, fareZones, routes,
                         trips, shapes, fares>>
      PROVE  KeepsRegistered
  BY <1>1 DEF KeepsRegistered, Keys
<1>2. CASE UNCHANGED vars
  BY <1>1, <1>2 DEF vars
<1>3. CASE CallAddAgencyObject
  BY <1>3, AddAgencyObjectKeeps DEF CallAddAgencyObject, KeepsRegistered, Keys
<1>4. CASE AddAgency
  <2>1. PICK o \in Agency : AddAgencyObject(o, FALSE, FALSE, FALSE)
    BY <1>4 DEF AddAgency
  <2>2. \A k \in Keys(agencies) : agencies'[k] = agencies[k]
    BY <2>1, AddAgencyObjectKeeps
  <2> QED BY <1>4, <2>2 DEF AddAgency, KeepsRegistered, Keys
<1>5. CASE CallGetDefaultAgency \/ NewDefaultAgency
  <2>0. PICK o \in Agency : \E validate, bad, raising :
           GetDefaultAgency(o, validate, bad, raising)
    BY <1>5 DEF CallGetDefaultAgency, NewDefaultAgency
  <2>1. PICK validate, bad, raising : GetDefaultAgency(o, validate, bad, raising)
    BY <2>0
  <2>2. \A k \in Keys(agencies) : agencies'[k] = agencies[k]
    BY <2>1, AddAgencyObjectKeeps DEF GetDefaultAgency
  <2> QED BY <1>5, <2>2 DEF CallGetDefaultAgency, NewDefaultAgency,
     KeepsRegistered, Keys
<1>6. CASE InitDefaultAgency
  BY <1>6, InitDefaultAgencyKeeps DEF InitDefaultAgency, KeepsRegistered, Keys
<1>7. CASE CallAddServicePeriodObject
  BY <1>7, AddServicePeriodObjectKeeps DEF CallAddServicePeriodObject,
     KeepsRegistered, Keys
<1>8. CASE CallSetDefaultServicePeriod \/ NewDefaultServicePeriod
  <2>0. PICK o \in ServicePeriod : \E validate, bad, raising :
           SetDefaultServicePeriod(o, validate, bad, raising)
    BY <1>8 DEF CallSetDefaultServicePeriod, NewDefaultServicePeriod
  <2>1. PICK validate, bad, raising :
           SetDefaultServicePeriod(o, validate, bad, raising)
    BY <2>0
  <2>2. \A k \in Keys(servicePeriods) : servicePeriods'[k] = servicePeriods[k]
    BY <2>1, AddServicePeriodObjectKeeps DEF SetDefaultServicePeriod
  <2> QED BY <1>8, <2>2 DEF CallSetDefaultServicePeriod, NewDefaultServicePeriod,
     KeepsRegistered, Keys
<1>9. CASE GetDefaultServicePeriod
  BY <1>9, GetDefaultServicePeriodKeeps DEF GetDefaultServicePeriod,
     KeepsRegistered, Keys
<1>10. CASE CallAddStopObject \/ AddStop
  <2>1. PICK i \in StopIds \cup {NoId}, zone \in Zones \cup {NoId} :
           AddStopObject(i, zone)
    BY <1>10, UniqueIdIsFree DEF CallAddStopObject, AddStop
  <2> QED BY <1>10, <2>1, AddStopObjectKeeps DEF CallAddStopObject, AddStop,
     KeepsRegistered, Keys
<1>11. CASE CallAddRouteObject
  <2>1. PICK r \in RouteIds, agency \in AgencyKeys :
           AddRouteObject(r, agency, agencies)
    BY <1>11 DEF CallAddRouteObject, AgencyKeys
  <2> QED BY <1>11, <2>1, AddRouteObjectKeeps DEF CallAddRouteObject,
     KeepsRegistered, Keys
<1>12. CASE AddRoute
  <2>1. PICK d \in InitDefaultAgencyResults :
          /\ agencies' = d.table
          /\ \/ UNCHANGED routes
             \/ \E r \in RouteIds, agency \in AgencyKeys :
                   AddRouteObject(r, agency, d.table)
    BY <1>12, AddRouteCall
  <2> QED BY <1>12, <2>1, AddRouteObjectKeeps, InitDefaultAgencyKeeps
     DEF AddRoute, KeepsRegistered, Keys
<1>13. CASE CallAddTripObject
  BY <1>13, AddTripObjectKeeps DEF CallAddTripObject, KeepsRegistered, Keys
<1>14. CASE RouteAddTrip
  <2>1. PICK t \in TripIds, trip \in Trip, d \in GetDefaultServicePeriodResults :
          /\ servicePeriods' = d.table
          /\ AddTripObject(t, trip, FALSE, "none", FALSE)
    BY <1>14, RouteAddTripCall
  <2>2. \A k \in Keys(servicePeriods) : servicePeriods'[k] = servicePeriods[k]
    BY <2>1, GetDefaultServicePeriodKeeps
  <2>3. /\ \A k \in Keys(trips) : trips'[k] = trips[k]
        /\ \A k \in Keys(routes) : /\ routes'[k] # Absent
                                   /\ routes'[k].agency = routes[k].agency
    BY <2>1, AddTripObjectKeeps
  <2> QED BY <1>14, <2>2, <2>3 DEF RouteAddTrip, KeepsRegistered, Keys
<1>15. CASE AddShapeObject
  BY <1>15 DEF AddShapeObject, KeepsRegistered, Keys
<1>16. CASE AddFareAttributeObject
  <2>1. PICK i \in FareIds : \/ fares' = fares
                             \/ fares[i] = Absent /\ fares' = Put(fares, i, <<>>)
    BY <1>16 DEF AddFareAttributeObject
  <2> QED BY <1>16, <2>1 DEF AddFareAttributeObject, KeepsRegistered, Keys, Put,
     TypeOK
<1>17. CASE AddFareRuleObject
  <2>1. PICK i \in FareIds \cup {NoId}, rule \in FareRule :
           \/ fares' = fares
           \/ /\ i # NoId /\ fares[i] # Absent
              /\ fares' = [fares EXCEPT ![i] = Append(@, rule)]
    BY <1>17 DEF AddFareRuleObject
  <2>2. \A k \in Keys(fares) : fares'[k] # Absent
    <3>1. CASE fares' = fares
      BY <3>1 DEF Keys
    <3>2. CASE /\ i # NoId /\ fares[i] # Absent
               /\ fares' = [fares EXCEPT ![i] = Append(@, rule)]
      <4>1. i \in FareIds /\ fares[i] \in Seq(FareRule)
        BY <3>2 DEF TypeOK
      <4>2. Append(fares[i], rule) # Absent
        BY <4>1, AbsentAssumption
      <4> QED BY <3>2, <4>1, <4>2 DEF Keys, TypeOK
    <3> QED BY <2>1, <3>1, <3>2
  <2> QED BY <1>17, <2>2 DEF AddFareRuleObject, KeepsRegistered, Keys
<1>18. CASE AddTransferObject \/ AddFeedInfoObject
  BY <1>1, <1>18 DEF AddTransferObject, AddFeedInfoObject
<1> QED BY <1>2, <1>3, <1>4, <1>5, <1>6, <1>7, <1>8, <1>9, <1>10, <1>11, <1>12,
   <1>13, <1>14, <1>15, <1>16, <1>17, <1>18 DEF Next

(* No operation of the schedule replaces or removes an object or forgets a *)
(* fare zone, whatever calls failed before.                                *)
THEOREM NothingIsLost == Spec => RegistrationIsPermanent
<1>1. TypeOK /\ [Next]_vars => [KeepsRegistered]_vars
  BY NextKeeps
<1> QED BY <1>1, TypeCorrect, PTL DEF Spec, RegistrationIsPermanent

-----------------------------------------------------------------------------
(* Fare zones and fare rules.                                              *)

(* A step that leaves stops and fareZones alone keeps them in agreement;   *)
(* only the two stop operations change them.                               *)
LEMMA NextZones ==
    TypeOK /\ FareZonesAreExact /\ [Next]_vars => FareZonesAreExact'
<1> SUFFICES ASSUME TypeOK, FareZonesAreExact, [Next]_vars
             PROVE  FareZonesAreExact'
  OBVIOUS
<1>1. CASE UNCHANGED stopVars
  BY <1>1 DEF stopVars, FareZonesAreExact, Keys
<1>2. CASE CallAddStopObject \/ AddStop
  <2>1. PICK i \in StopIds \cup {NoId}, zone \in Zones \cup {NoId} :
           AddStopObject(i, zone)
    BY <1>2, UniqueIdIsFree DEF CallAddStopObject, AddStop
  <2>2. CASE i = NoId \/ stops[i] # Absent
    BY <1>1, <2>1, <2>2 DEF AddStopObject
  <2>3. CASE i # NoId /\ stops[i] = Absent
    <3>1. i \in StopIds /\ stops' = Put(stops, i, zone) /\ fareZones' = ZonesAfter(zone)
      BY <2>1, <2>3 DEF AddStopObject
    <3>2. zone # Absent
      BY AbsentAssumption
    <3>3. Keys(stops') = Keys(stops) \cup {i}
      BY <3>1, <3>2 DEF Keys, Put, TypeOK
    <3>4. stops'[i] = zone /\ \A k \in Keys(stops) : stops'[k] = stops[k]
      BY <2>3, <3>1 DEF Keys, Put, TypeOK
    <3>5. {stops'[k] : k \in Keys(stops')} = {stops[k] : k \in Keys(stops)} \cup {zone}
      BY <3>3, <3>4
    <3> QED BY <3>1, <3>5 DEF FareZonesAreExact, ZonesAfter
  <2> QED BY <2>2, <2>3
<1>3. \/ UNCHANGED stopVars
      \/ CallAddStopObject \/ AddStop
  BY DEF Next, vars, stopVars, CallAddAgencyObject, AddAgency, CallGetDefaultAgency,
     NewDefaultAgency, InitDefaultAgency, CallAddServicePeriodObject,
     CallSetDefaultServicePeriod, NewDefaultServicePeriod, GetDefaultServicePeriod,
     CallAddRouteObject, AddRoute, CallAddTripObject, RouteAddTrip, AddShapeObject,
     AddFareAttributeObject, AddFareRuleObject, AddTransferObject, AddFeedInfoObject
<1> QED BY <1>1, <1>2, <1>3

(* fare_zones always is the set of the zones of the registered stops.      *)
THEOREM ZonesExact == Spec => []FareZonesAreExact
<1>1. Init => FareZonesAreExact
  BY DEF Init, FareZonesAreExact, Keys
<1> QED BY <1>1, NextZones, TypeCorrect, PTL DEF Spec

(* No operation leaves a fare rule without its route or zones.             *)
LEMMA NextFareRules ==
    TypeOK /\ FareRulesResolve /\ [Next]_vars => FareRulesResolve'
<1> SUFFICES ASSUME TypeOK, FareRulesResolve, [Next]_vars PROVE FareRulesResolve'
  OBVIOUS
<1>1. /\ fareZones \subseteq fareZones'
      /\ Keys(routes) \subseteq Keys(routes')
  <2>1. DOMAIN routes = RouteIds /\ DOMAIN routes' = RouteIds
    BY NextType DEF TypeOK
  <2> QED BY <2>1, NextKeeps DEF KeepsRegistered, Keys
<1>2. CASE UNCHANGED fares
  BY <1>1, <1>2 DEF FareRulesResolve, Keys
<1>3. CASE AddFareAttributeObject
  <2>1. PICK i \in FareIds : \/ fares' = fares
                             \/ fares[i] = Absent /\ fares' = Put(fares, i, <<>>)
    BY <1>3 DEF AddFareAttributeObject
  <2>2. CASE fares[i] = Absent /\ fares' = Put(fares, i, <<>>)
    <3>1. fares'[i] = <<>> /\ \A k \in Keys(fares') : k = i \/ (k \in Keys(fares) /\ fares'[k] = fares[k])
      BY <2>2 DEF Put, Keys, TypeOK
    <3>2. \A k \in Keys(fares') : k # i => k \in Keys(fares) /\ fares'[k] = fares[k]
      BY <3>1
    <3>3. 1 .. Len(fares'[i]) = {}
      BY <3>1
    <3> QED BY <1>1, <3>2, <3>3 DEF FareRulesResolve
  <2> QED BY <1>2, <2>1, <2>2
<1>4. CASE AddFareRuleObject
  <2>1. PICK i \in FareIds \cup {NoId}, rule \in FareRule :
           \/ fares' = fares
           \/ /\ i # NoId /\ fares[i] # Absent /\ RuleResolves(rule)
              /\ fares' = [fares EXCEPT ![i] = Append(@, rule)]
    BY <1>4 DEF AddFareRuleObject
  <2>2. CASE /\ i # NoId /\ fares[i] # Absent /\ RuleResolves(rule)
             /\ fares' = [fares EXCEPT ![i] = Append(@, rule)]
    <3>1. i \in FareIds /\ fares[i] \in Seq(FareRule)
      BY <2>2 DEF TypeOK
    <3>2. /\ fares'[i] = Append(fares[i], rule)
          /\ \A k \in Keys(fares') : k # i => k \in Keys(fares) /\ fares'[k] = fares[k]
      BY <2>2, <3>1 DEF Keys, TypeOK
    <3>3. rule.zones \subseteq fareZones' /\ rule.route \in Keys(routes') \cup {NoId}
      <4>1. rule.route \in RouteIds \cup {NoId}
        BY DEF FareRule
      <4> QED BY <1>1, <2>2, <4>1 DEF RuleResolves, Keys, TypeOK
    <3>4. ASSUME NEW j \in 1 .. Len(fares'[i])
          PROVE  /\ fares'[i][j].zones \subseteq fareZones'
                 /\ fares'[i][j].route \in Keys(routes') \cup {NoId}
      <4>1. CASE j = Len(fares[i]) + 1
        BY <3>1, <3>2, <3>3, <4>1
      <4>2. CASE j # Len(fares[i]) + 1
        <5>1. j \in 1 .. Len(fares[i]) /\ fares'[i][j] = fares[i][j]
          BY <3>1, <3>2, <4>2
        <5>2. i \in Keys(fares)
          BY <2>2, <3>1 DEF Keys, TypeOK
        <5> QED BY <1>1, <5>1, <5>2 DEF FareRulesResolve
      <4> QED BY <4>1, <4>2
    <3> QED BY <1>1, <3>2, <3>4 DEF FareRulesResolve
  <2> QED BY <1>2, <2>1, <2>2
<1>5. UNCHANGED fares \/ AddFareAttributeObject \/ AddFareRuleObject
  BY DEF Next, vars, CallAddAgencyObject, AddAgency, CallGetDefaultAgency,
     NewDefaultAgency, InitDefaultAgency, CallAddServicePeriodObject,
     CallSetDefaultServicePeriod, NewDefaultServicePeriod, GetDefaultServicePeriod,
     CallAddStopObject, AddStop, CallAddRouteObject, AddRoute, CallAddTripObject,
     RouteAddTrip, AddShapeObject, AddTransferObject, AddFeedInfoObject
<1> QED BY <1>2, <1>3, <1>4, <1>5

(* Every fare rule that a fare keeps names a registered route and known    *)
(* zones, in every later state too.                                        *)
THEOREM FareRulesStayResolved == Spec => []FareRulesResolve
<1>1. Init => FareRulesResolve
  BY DEF Init, FareRulesResolve, Keys
<1> QED BY <1>1, NextFareRules, TypeCorrect, PTL DEF Spec

-----------------------------------------------------------------------------
(* Routes and their agencies.                                              *)

(* A route enters the table with an agency that the table of agencies, as  *)
(* the call leaves it, accepts.                                            *)
LEMMA NewRouteIsAccepted ==
    ASSUME TypeOK, Next, NEW k \in Keys(routes)', k \notin Keys(routes)
    PROVE  RouteAgencyAccepted(routes'[k].agency, agencies')
<1>1. ASSUME NEW r \in RouteIds, NEW agency \in AgencyKeys, NEW table,
             AddRouteObject(r, agency, table)
      PROVE  RouteAgencyAccepted(routes'[k].agency, table)
  <2>1. routes' # routes
    BY DEF Keys
  <2>2. /\ routes' = Put(routes, r, [agency |-> agency, trips |-> <<>>])
        /\ RouteAgencyAccepted(agency, table)
    BY <1>1, <2>1 DEF AddRouteObject
  <2>3. k = r
    BY <1>1, AddRouteObjectKeeps
  <2>4. routes'[k] = [agency |-> agency, trips |-> <<>>]
    BY <2>2, <2>3 DEF Put, TypeOK
  <2> QED BY <2>2, <2>4
<1>2. CASE CallAddRouteObject
  <2>1. PICK r \in RouteIds, agency \in AgencyKeys :
           AddRouteObject(r, agency, agencies) /\ agencies' = agencies
    BY <1>2 DEF CallAddRouteObject, AgencyKeys, agencyVars
  <2>2. RouteAgencyAccepted(routes'[k].agency, agencies)
    BY <1>1, <2>1
  <2> QED BY <2>1, <2>2
<1>3. CASE AddRoute
  <2>1. PICK d \in InitDefaultAgencyResults :
          /\ agencies' = d.table
          /\ \/ UNCHANGED routes
             \/ \E r \in RouteIds, agency \in AgencyKeys :
                   AddRouteObject(r, agency, d.table)
    BY <1>3, AddRouteCall
  <2>2. routes' # routes
    BY DEF Keys
  <2> QED BY <1>1, <2>1, <2>2
<1>4. CASE CallAddTripObject \/ RouteAddTrip
  <2>1. PICK t \in TripIds, trip \in Trip :
           UNCHANGED routes \/ routes' = LinkTrip(t, trip)
    BY <1>4, RouteAddTripCall DEF CallAddTripObject, AddTripObject
  <2>2. CASE UNCHANGED routes
    BY <2>2 DEF Keys
  <2>3. CASE routes' = LinkTrip(t, trip)
    BY <2>3 DEF LinkTrip, Put, Keys, TypeOK
  <2> QED BY <2>1, <2>2, <2>3
<1>5. \/ UNCHANGED routes \/ CallAddRouteObject \/ AddRoute
      \/ CallAddTripObject \/ RouteAddTrip
  BY DEF Next, CallAddAgencyObject, AddAgency, CallGetDefaultAgency,
     NewDefaultAgency, InitDefaultAgency, CallAddServicePeriodObject,
     CallSetDefaultServicePeriod, NewDefaultServicePeriod, GetDefaultServicePeriod,
     CallAddStopObject, AddStop, AddShapeObject, AddFareAttributeObject,
     AddFareRuleObject, AddTransferObject, AddFeedInfoObject
<1>6. CASE UNCHANGED routes
  BY <1>6 DEF Keys
<1> QED BY <1>2, <1>3, <1>4, <1>5, <1>6

(* No operation leaves a route without its agency.                         *)
LEMMA NextRouteAgencies ==
    TypeOK /\ RouteAgencyRegistered /\ [Next]_vars => RouteAgencyRegistered'
<1> SUFFICES ASSUME TypeOK, RouteAgencyRegistered, [Next]_vars,
                    NEW k \in Keys(routes)'
             PROVE  IF routes'[k].agency = NoId THEN Keys(agencies)' # {}
                    ELSE agencies'[routes'[k].agency] # Absent
  BY DEF RouteAgencyRegistered
<1>1. Keys(agencies) \subseteq Keys(agencies)'
  <2>1. DOMAIN agencies = AgencyKeys /\ DOMAIN agencies' = AgencyKeys
    BY NextType DEF TypeOK
  <2> QED BY <2>1, NextKeeps DEF KeepsRegistered, Keys
<1>2. CASE k \in Keys(routes)
  <2>1. routes'[k].agency = routes[k].agency
    BY <1>2, NextKeeps DEF KeepsRegistered
  <2>2. routes[k].agency \in AgencyKeys
    BY <1>2 DEF Keys, TypeOK, Route
  <2>3. DOMAIN agencies = AgencyKeys
    BY DEF TypeOK
  <2> QED BY <1>1, <1>2, <2>1, <2>2, <2>3 DEF RouteAgencyRegistered, Keys
<1>3. CASE k \notin Keys(routes)
  <2>1. Next
    BY <1>3 DEF vars, Keys
  <2>2. RouteAgencyAccepted(routes'[k].agency, agencies')
    BY <1>3, <2>1, NewRouteIsAccepted
  <2>3. DOMAIN agencies' = AgencyKeys
    BY NextType DEF TypeOK
  <2> QED BY <2>2, <2>3 DEF RouteAgencyAccepted, Keys, AgencyKeys
<1> QED BY <1>2, <1>3

(* Every registered route names a registered agency, or none when some     *)
(* agency is registered.                                                   *)
THEOREM RouteAgenciesRegistered == Spec => []RouteAgencyRegistered
<1>1. Init => RouteAgencyRegistered
  BY DEF Init, RouteAgencyRegistered, Keys
<1> QED BY <1>1, NextRouteAgencies, TypeCorrect, PTL DEF Spec

-----------------------------------------------------------------------------
(* Trips and the lists of their routes.                                    *)

(* How one step can change the trips and the trip lists: not at all, by a  *)
(* new route with an empty list, or by a new trip that is or is not        *)
(* appended to the list of its route.                                      *)
LEMMA ListsChange ==
    ASSUME TypeOK, [Next]_vars
    PROVE  \/ UNCHANGED <<trips, routes>>
           \/ /\ UNCHANGED trips
              /\ \E r \in RouteIds, agency \in AgencyKeys :
                    /\ routes[r] = Absent
                    /\ routes' = Put(routes, r, [agency |-> agency, trips |-> <<>>])
           \/ \E t \in TripIds, trip \in Trip :
                 /\ trips[t] = Absent
                 /\ trips' = Put(trips, t, trip)
                 /\ UNCHANGED routes \/ routes' = LinkTrip(t, trip)
<1>1. CASE CallAddRouteObject
  BY <1>1 DEF CallAddRouteObject, AddRouteObject, AgencyKeys
<1>2. CASE AddRoute
  <2>1. UNCHANGED trips
    BY <1>2 DEF AddRoute
  <2>2. \/ UNCHANGED routes
        \/ \E r \in RouteIds, agency \in AgencyKeys : \E table :
              AddRouteObject(r, agency, table)
    BY <1>2, AddRouteCall
  <2> QED BY <2>1, <2>2 DEF AddRouteObject
<1>3. CASE CallAddTripObject \/ RouteAddTrip
  <2>1. PICK t \in TripIds, trip \in Trip : \E validate, flaw, raising :
           AddTripObject(t, trip, validate, flaw, raising)
    BY <1>3, RouteAddTripCall DEF CallAddTripObject
  <2> QED BY <2>1 DEF AddTripObject
<1>4. \/ UNCHANGED <<trips, routes>> \/ CallAddRouteObject \/ AddRoute
      \/ CallAddTripObject \/ RouteAddTrip
  BY DEF Next, vars, CallAddAgencyObject, AddAgency, CallGetDefaultAgency,
     NewDefaultAgency, InitDefaultAgency, CallAddServicePeriodObject,
     CallSetDefaultServicePeriod, NewDefaultServicePeriod, GetDefaultServicePeriod,
     CallAddStopObject, AddStop, AddShapeObject, AddFareAttributeObject,
     AddFareRuleObject, AddTransferObject, AddFeedInfoObject
<1> QED BY <1>1, <1>2, <1>3, <1>4

(* What LinkTrip does to each list.                                        *)
LEMMA LinkedLists ==
    ASSUME TypeOK, NEW t \in TripIds, NEW trip \in Trip,
           routes' = LinkTrip(t, trip)
    PROVE  /\ Keys(routes') = Keys(routes)
           /\ \A k \in Keys(routes) :
                 /\ routes[k].trips \in Seq(TripIds)
                 /\ routes'[k].trips = IF k = trip.route
                                       THEN Append(routes[k].trips, t)
                                       ELSE routes[k].trips
<1>1. \A k \in Keys(routes) : k \in RouteIds /\ k # NoId /\ routes[k] \in Route
  BY SentinelAssumption DEF Keys, TypeOK
<1>2. CASE trip.route = NoId \/ routes[trip.route] = Absent
  <2>1. routes' = routes /\ trip.route \notin Keys(routes)
    BY <1>1, <1>2 DEF LinkTrip, Keys
  <2> QED BY <1>1, <2>1 DEF Route
<1>3. CASE trip.route # NoId /\ routes[trip.route] # Absent
  <2> DEFINE new == [agency |-> routes[trip.route].agency,
                     trips |-> Append(routes[trip.route].trips, t)]
  <2>1. trip.route \in Keys(routes) /\ trip.route \in RouteIds
    BY <1>3 DEF Keys, TypeOK, Trip
  <2>2. new \in Route
    BY <1>1, <2>1 DEF Route
  <2>3. new # Absent
    BY <2>2, AbsentAssumption
  <2>4. new.trips = Append(routes[trip.route].trips, t)
    OBVIOUS
  <2>5. routes' = Put(routes, trip.route, new)
    BY <1>3 DEF LinkTrip
  <2> HIDE DEF new
  <2>6. Keys(routes') = Keys(routes)
    BY <2>1, <2>3, <2>5 DEF Put, Keys, TypeOK
  <2>7. \A k \in Keys(routes) : routes'[k] = IF k = trip.route THEN new ELSE routes[k]
    BY <1>1, <2>1, <2>5 DEF Put, TypeOK
  <2> QED BY <1>1, <2>4, <2>6, <2>7 DEF Route
<1> QED BY <1>2, <1>3

(* No operation breaks the agreement of Route._trips and trips.            *)
LEMMA NextLists ==
    TypeOK /\ RouteListsAreExact /\ [Next]_vars => RouteListsAreExact'
<1> SUFFICES ASSUME TypeOK, RouteListsAreExact, [Next]_vars
             PROVE  RouteListsAreExact'
  OBVIOUS
<1>1. CASE UNCHANGED <<trips, routes>>
  BY <1>1 DEF RouteListsAreExact, Keys
<1>2. CASE /\ UNCHANGED trips
           /\ \E r \in RouteIds, agency \in AgencyKeys :
                 /\ routes[r] = Absent
                 /\ routes' = Put(routes, r, [agency |-> agency, trips |-> <<>>])
  <2>1. PICK r \in RouteIds, agency \in AgencyKeys :
                 /\ routes[r] = Absent
                 /\ routes' = Put(routes, r, [agency |-> agency, trips |-> <<>>])
    BY <1>2
  <2>2. routes'[r].trips = <<>>
    BY <2>1 DEF Put, TypeOK
  <2>3. \A k \in Keys(routes') : k # r => k \in Keys(routes) /\ routes'[k] = routes[k]
    BY <2>1 DEF Put, Keys, TypeOK
  <2>4. 1 .. Len(routes'[r].trips) = {}
    BY <2>2
  <2> QED BY <1>2, <2>3, <2>4 DEF RouteListsAreExact
<1>3. CASE \E t \in TripIds, trip \in Trip :
              /\ trips[t] = Absent
              /\ trips' = Put(trips, t, trip)
              /\ UNCHANGED routes \/ routes' = LinkTrip(t, trip)
  <2>1. PICK t \in TripIds, trip \in Trip :
              /\ trips[t] = Absent
              /\ trips' = Put(trips, t, trip)
              /\ UNCHANGED routes \/ routes' = LinkTrip(t, trip)
    BY <1>3
  <2>2. trips'[t] = trip /\ \A u \in TripIds : u # t => trips'[u] = trips[u]
    BY <2>1 DEF Put, TypeOK
  <2>3. trip # Absent
    BY AbsentAssumption
  <2>4. \A k \in Keys(routes) :
           /\ routes[k].trips \in Seq(TripIds)
           /\ \A i \in 1 .. Len(routes[k].trips) : routes[k].trips[i] # t
    <3>1. \A k \in Keys(routes) : routes[k].trips \in Seq(TripIds)
      BY DEF Keys, TypeOK, Route
    <3> QED BY <2>1, <3>1 DEF RouteListsAreExact
  <2>5. ASSUME NEW k \in Keys(routes)
        PROVE  /\ \A i \in 1 .. Len(routes[k].trips) :
                     /\ trips'[routes[k].trips[i]] # Absent
                     /\ trips'[routes[k].trips[i]].route = k
               /\ \A i, j \in 1 .. Len(routes[k].trips) :
                     routes[k].trips[i] = routes[k].trips[j] => i = j
    <3>1. \A i \in 1 .. Len(routes[k].trips) : routes[k].trips[i] \in TripIds
      BY <2>4
    <3> QED BY <2>2, <2>4, <3>1 DEF RouteListsAreExact
  <2>6. CASE UNCHANGED routes
    BY <2>5, <2>6 DEF RouteListsAreExact, Keys
  <2>7. CASE routes' = LinkTrip(t, trip)
    <3>1. Keys(routes') = Keys(routes)
      BY <2>7, LinkedLists
    <3>2. ASSUME NEW k \in Keys(routes)
          PROVE  /\ \A i \in 1 .. Len(routes'[k].trips) :
                       /\ trips'[routes'[k].trips[i]] # Absent
                       /\ trips'[routes'[k].trips[i]].route = k
                 /\ \A i, j \in 1 .. Len(routes'[k].trips) :
                       routes'[k].trips[i] = routes'[k].trips[j] => i = j
      <4>1. CASE k # trip.route
        <5>1. routes'[k].trips = routes[k].trips
          BY <2>7, <4>1, LinkedLists
        <5> QED BY <2>5, <5>1
      <4>2. CASE k = trip.route
        <5> DEFINE old == routes[k].trips
        <5>1. routes'[k].trips = Append(old, t) /\ old \in Seq(TripIds)
          BY <2>7, <4>2, LinkedLists
        <5>2. /\ \A i \in 1 .. Len(old) : /\ trips'[old[i]] # Absent
                                          /\ trips'[old[i]].route = k
                                          /\ old[i] # t
              /\ \A i, j \in 1 .. Len(old) : old[i] = old[j] => i = j
          BY <2>4, <2>5
        <5> HIDE DEF old
        <5>3. /\ Len(Append(old, t)) = Len(old) + 1
              /\ Append(old, t)[Len(old) + 1] = t
              /\ \A i \in 1 .. Len(old) : Append(old, t)[i] = old[i]
              /\ Len(old) \in Nat
          BY <5>1
        <5> QED BY <2>2, <2>3, <4>2, <5>1, <5>2, <5>3
      <4> QED BY <4>1, <4>2
    <3> QED BY <3>1, <3>2 DEF RouteListsAreExact
  <2> QED BY <2>1, <2>6, <2>7
<1> QED BY <1>1, <1>2, <1>3, ListsChange

(* Every route lists only registered trips that name it, each once.        *)
THEOREM RouteListsExact == Spec => []RouteListsAreExact
<1>1. Init => RouteListsAreExact
  BY DEF Init, RouteListsAreExact, Keys
<1> QED BY <1>1, NextLists, TypeCorrect, PTL DEF Spec

-----------------------------------------------------------------------------
(* The default agency.                                                     *)

(* Each agency is registered under its own id.                             *)
AgenciesKeyedById == \A k \in Keys(agencies) : agencies[k].id = k

AgencyInv == AgenciesKeyedById /\ DefaultAgencyKnownOrStranded

(* What a call can do to one agency object: add it to the table, strand    *)
(* it, or leave table and object alone.                                    *)
Registers(o) == /\ agencies[o.id] = Absent /\ o \notin owned
                /\ agencies' = Put(agencies, o.id, o)
                /\ owned' = owned \cup {o}
Strands(o) == /\ agencies[o.id] = Absent
              /\ UNCHANGED agencies
              /\ owned' = owned \cup {o}

(* add_agency_object registers, strands or refuses its agency.             *)
LEMMA AddAgencyObjectEffect ==
    ASSUME NEW o, NEW validate, NEW bad, NEW raising,
           AddAgencyObject(o, validate, bad, raising)
    PROVE  \/ Registers(o)
           \/ Strands(o)
           \/ UNCHANGED <<agencies, owned>> /\ (o \in owned \/ agencies[o.id] # Absent)
BY DEF AddAgencyObject, AddAgencyObjectOutcome, Registers, Strands

(* init_default_agency keeps, adopts or creates the default agency.        *)
LEMMA InitDefaultAgencyEffect ==
    ASSUME TypeOK, NEW r \in InitDefaultAgencyResults,
           agencies' = r.table, owned' = r.owned, defaultAgency' = r.default
    PROVE  \/ UNCHANGED <<agencies, owned, defaultAgency>>
           \/ /\ UNCHANGED <<agencies, owned>>
              /\ \E k \in Keys(agencies) : defaultAgency' = agencies[k]
           \/ \E o \in Agency : Registers(o) /\ defaultAgency' = o
<1>1. CASE defaultAgency = NoObj /\ Keys(agencies) = {}
  <2>1. PICK o \in Agency :
           /\ ~ AgencyInUse(o)
           /\ r = [table |-> Put(agencies, o.id, o), owned |-> owned \cup {o},
                   default |-> o]
    BY <1>1 DEF InitDefaultAgencyResults
  <2>2. agencies[o.id] = Absent
    BY <1>1 DEF Keys, TypeOK, Agency
  <2> QED BY <2>1, <2>2 DEF Registers, AgencyInUse
<1>2. CASE /\ ~ (defaultAgency = NoObj /\ Keys(agencies) = {})
           /\ defaultAgency = NoObj /\ \E k \in Keys(agencies) : Keys(agencies) = {k}
  <2>1. PICK k \in Keys(agencies) :
           r = [table |-> agencies, owned |-> owned, default |-> agencies[k]]
    BY <1>2 DEF InitDefaultAgencyResults
  <2> QED BY <2>1
<1>3. CASE /\ ~ (defaultAgency = NoObj /\ Keys(agencies) = {})
           /\ ~ (defaultAgency = NoObj /\ \E k \in Keys(agencies) : Keys(agencies) = {k})
  <2>1. r = [table |-> agencies, owned |-> owned, default |-> defaultAgency]
    BY <1>3 DEF InitDefaultAgencyResults
  <2> QED BY <2>1
<1> QED BY <1>1, <1>2, <1>3

(* How one step can change the agencies and the default one.               *)
LEMMA AgenciesChange ==
    ASSUME TypeOK, [Next]_vars
    PROVE  \/ UNCHANGED <<agencies, owned, defaultAgency>>
           \/ /\ UNCHANGED <<agencies, owned>>
              /\ \E k \in Keys(agencies) : defaultAgency' = agencies[k]
           \/ \E o \in Agency :
                 /\ defaultAgency' \in {defaultAgency, o}
                 /\ \/ Registers(o)
                    \/ Strands(o)
                    \/ /\ UNCHANGED <<agencies, owned>>
                       /\ o \in owned \/ agencies[o.id] # Absent
<1>1. CASE CallAddAgencyObject
  BY <1>1, AddAgencyObjectEffect DEF CallAddAgencyObject
<1>2. CASE AddAgency
  <2>1. PICK o \in Agency : AddAgencyObject(o, FALSE, FALSE, FALSE)
    BY <1>2 DEF AddAgency
  <2>2. defaultAgency' = defaultAgency
    BY <1>2 DEF AddAgency
  <2> QED BY <2>1, <2>2, AddAgencyObjectEffect
<1>3. CASE CallGetDefaultAgency \/ NewDefaultAgency
  <2>0. PICK o \in Agency : \E validate, bad, raising :
           GetDefaultAgency(o, validate, bad, raising)
    BY <1>3 DEF CallGetDefaultAgency, NewDefaultAgency
  <2>1. PICK validate, bad, raising : GetDefaultAgency(o, validate, bad, raising)
    BY <2>0
  <2>2. defaultAgency' = o
    BY <2>1 DEF GetDefaultAgency
  <2>3. CASE agencies[o.id] = Absent
    <3>1. AddAgencyObject(o, validate, bad, raising)
      BY <2>1, <2>3 DEF GetDefaultAgency
    <3> QED BY <2>2, <3>1, AddAgencyObjectEffect
  <2>4. CASE agencies[o.id] # Absent
    BY <2>1, <2>2, <2>4 DEF GetDefaultAgency
  <2> QED BY <2>3, <2>4
<1>4. CASE InitDefaultAgency \/ AddRoute
  <2>1. PICK r \in InitDefaultAgencyResults :
           agencies' = r.table /\ owned' = r.owned /\ defaultAgency' = r.default
    BY <1>4, AddRouteCall DEF InitDefaultAgency
  <2> QED BY <2>1, InitDefaultAgencyEffect
<1>5. \/ UNCHANGED <<agencies, owned, defaultAgency>>
      \/ CallAddAgencyObject \/ AddAgency \/ CallGetDefaultAgency
      \/ NewDefaultAgency \/ InitDefaultAgency \/ AddRoute
  BY DEF Next, vars, agencyVars, CallAddServicePeriodObject,
     CallSetDefaultServicePeriod, NewDefaultServicePeriod, GetDefaultServicePeriod,
     CallAddStopObject, AddStop, CallAddRouteObject, CallAddTripObject,
     RouteAddTrip, AddShapeObject, AddFareAttributeObject, AddFareRuleObject,
     AddTransferObject, AddFeedInfoObject
<1> QED BY <1>1, <1>2, <1>3, <1>4, <1>5

(* An agency object that is stranded stays so.                             *)
LEMMA NextStranded ==
    ASSUME TypeOK, [Next]_vars, NEW d \in Agency, Stranded(d)
    PROVE  Stranded(d)'
<1>1. ASSUME NEW o \in Agency, Registers(o)
      PROVE  Stranded(d)'
  <2>1. o # d /\ o.id \in AgencyKeys /\ d.id \in AgencyKeys
    BY <1>1 DEF Registers, Stranded, Agency
  <2>2. agencies'[d.id] = IF d.id = o.id THEN o ELSE agencies[d.id]
    BY <1>1, <2>1 DEF Registers, Put, TypeOK
  <2> QED BY <1>1, <2>1, <2>2 DEF Registers, Stranded
<1>2. ASSUME NEW o \in Agency, Strands(o)
      PROVE  Stranded(d)'
  BY <1>2 DEF Strands, Stranded
<1>3. CASE UNCHANGED <<agencies, owned>>
  BY <1>3 DEF Stranded
<1> QED BY <1>1, <1>2, <1>3, AgenciesChange

(* An agency whose validation raised in add_agency_object can never be     *)
(* added to the schedule later.                                            *)
THEOREM StrandedForEver == Spec => StrandedStaysOut
<1>1. TypeOK /\ [Next]_vars => [\A o \in Agency : Stranded(o) => Stranded(o)']_vars
  BY NextStranded
<1> QED BY <1>1, TypeCorrect, PTL DEF Spec, StrandedStaysOut

(* Every operation keeps agencies under their own ids.                     *)
LEMMA NextKeyed ==
    ASSUME TypeOK, AgenciesKeyedById, [Next]_vars
    PROVE  AgenciesKeyedById'
<1>1. CASE UNCHANGED agencies
  BY <1>1 DEF AgenciesKeyedById, Keys
<1>2. ASSUME NEW o \in Agency, Registers(o)
      PROVE  AgenciesKeyedById'
  <2>1. o.id \in AgencyKeys
    BY DEF Agency
  <2>2. agencies'[o.id] = o /\ \A k \in Keys(agencies') :
           k # o.id => k \in Keys(agencies) /\ agencies'[k] = agencies[k]
    BY <1>2, <2>1 DEF Registers, Put, Keys, TypeOK
  <2> QED BY <2>2 DEF AgenciesKeyedById
<1> QED BY <1>1, <1>2, AgenciesChange DEF Strands

(* Every operation keeps the default agency known or stranded.             *)
LEMMA NextDefaultAgency == TypeOK /\ AgencyInv /\ [Next]_vars => AgencyInv'
<1> SUFFICES ASSUME TypeOK, AgencyInv, [Next]_vars, defaultAgency' # NoObj
             PROVE  \/ agencies'[defaultAgency'.id] # Absent
                    \/ Stranded(defaultAgency)'
  BY NextKeyed DEF AgencyInv, DefaultAgencyKnownOrStranded
<1>1. \A k \in Keys(agencies) : agencies'[k] = agencies[k]
  BY NextKeeps DEF KeepsRegistered
<1>2. CASE defaultAgency' = defaultAgency
  <2>1. defaultAgency \in Agency /\ defaultAgency.id \in AgencyKeys
    BY <1>2 DEF TypeOK, Agency
  <2>2. CASE agencies[defaultAgency.id] # Absent
    BY <1>1, <1>2, <2>1, <2>2 DEF Keys, TypeOK
  <2>3. CASE Stranded(defaultAgency)
    <3>1. PICK d \in Agency : d = defaultAgency
      BY <2>1
    <3>2. Stranded(d)'
      BY <2>3, <3>1, NextStranded
    <3> QED BY <1>2, <3>1, <3>2 DEF Stranded
  <2> QED BY <1>2, <2>2, <2>3 DEF AgencyInv, DefaultAgencyKnownOrStranded
<1>3. CASE UNCHANGED <<agencies, owned>>
           /\ \E k \in Keys(agencies) : defaultAgency' = agencies[k]
  BY <1>3 DEF AgencyInv, AgenciesKeyedById, Keys
<1>4. ASSUME NEW o \in Agency, defaultAgency' = o,
             \/ Registers(o)
             \/ Strands(o)
             \/ /\ UNCHANGED <<agencies, owned>>
                /\ o \in owned \/ agencies[o.id] # Absent
      PROVE  \/ agencies'[defaultAgency'.id] # Absent
             \/ Stranded(defaultAgency)'
  <2>1. o # Absent /\ o.id \in AgencyKeys
    BY AbsentAssumption DEF Agency
  <2>2. CASE Registers(o)
    <3>1. agencies'[o.id] = o
      BY <2>1, <2>2 DEF Registers, Put, TypeOK
    <3> QED BY <1>4, <2>1, <3>1
  <2>3. CASE Strands(o)
    BY <1>4, <2>1, <2>3 DEF Strands, Stranded
  <2>4. CASE UNCHANGED <<agencies, owned>>
             /\ (o \in owned \/ agencies[o.id] # Absent)
    BY <1>4, <2>1, <2>4 DEF Stranded
  <2> QED BY <1>4, <2>2, <2>3, <2>4
<1> QED BY <1>2, <1>3, <1>4, AgenciesChange

(* The id of the default agency is registered, unless the default is an    *)
(* agency object whose validation raised.                                  *)
THEOREM DefaultAgencyKnown == Spec => []DefaultAgencyKnownOrStranded
<1>1. Init => AgencyInv
  BY DEF Init, AgencyInv, AgenciesKeyedById, DefaultAgencyKnownOrStranded, Keys
<1>2. AgencyInv => DefaultAgencyKnownOrStranded
  BY DEF AgencyInv
<1> QED BY <1>1, <1>2, NextDefaultAgency, TypeCorrect, PTL DEF Spec

-----------------------------------------------------------------------------
(* What a call that fails leaves behind.                                   *)

(* A step that fails changes no other table than those that a new default  *)
(* agency, a new default service period or a trip would enter.             *)
LEMMA FailedCallTables ==
    ASSUME TypeOK, Next, last' # "ok"
    PROVE  UNCHANGED <<stopVars, routes, shapes, fares, transfers, feedInfo>>
<1> USE DEF agencyVars, periodVars, stopVars, feedVars
<1>1. CASE \/ CallAddAgencyObject \/ AddAgency \/ CallGetDefaultAgency
           \/ NewDefaultAgency \/ InitDefaultAgency
  BY <1>1 DEF CallAddAgencyObject, AddAgency, CallGetDefaultAgency, NewDefaultAgency,
     InitDefaultAgency
<1>2. CASE \/ CallAddServicePeriodObject \/ CallSetDefaultServicePeriod
           \/ NewDefaultServicePeriod \/ GetDefaultServicePeriod
  BY <1>2 DEF CallAddServicePeriodObject, CallSetDefaultServicePeriod,
     NewDefaultServicePeriod, GetDefaultServicePeriod
<1>3. CASE CallAddStopObject \/ AddStop
  BY <1>3 DEF CallAddStopObject, AddStop, AddStopObject, Ended
<1>4. CASE CallAddRouteObject \/ AddRoute
  BY <1>4 DEF CallAddRouteObject, AddRoute, AddRouteObject, Ended
<1>5. CASE CallAddTripObject \/ RouteAddTrip
  BY <1>5 DEF CallAddTripObject, RouteAddTrip, AddTripObject, Ended
<1>6. CASE AddShapeObject \/ AddFareAttributeObject
  BY <1>6 DEF AddShapeObject, AddFareAttributeObject, Ended
<1>7. CASE AddFareRuleObject \/ AddTransferObject
  BY <1>7 DEF AddFareRuleObject, AddTransferObject, Ended
<1>8. CASE AddFeedInfoObject
  BY <1>8 DEF AddFeedInfoObject, Ended
<1> QED BY <1>1, <1>2, <1>3, <1>4, <1>5, <1>6, <1>7, <1>8 DEF Next

(* A step that fails adds an agency only as the first one and the default  *)
(* that add_route asked for.                                               *)
LEMMA FailedCallAgencies ==
    ASSUME TypeOK, Next, last' # "ok", agencies' # agencies
    PROVE  defaultAgency = NoObj /\ Keys(agencies) = {}
<1> USE DEF agencyVars
<1>0. ASSUME NEW o, NEW validate, NEW bad, NEW raising,
             \/ AddAgencyObject(o, validate, bad, raising)
             \/ GetDefaultAgency(o, validate, bad, raising)
      PROVE  FALSE
  <2>1. AddAgencyObject(o, validate, bad, raising)
    BY <1>0 DEF GetDefaultAgency
  <2> QED BY <2>1 DEF AddAgencyObject, Ended
<1>1. CASE CallAddAgencyObject \/ AddAgency
  BY <1>0, <1>1 DEF CallAddAgencyObject, AddAgency
<1>2. CASE CallGetDefaultAgency \/ NewDefaultAgency
  BY <1>0, <1>2 DEF CallGetDefaultAgency, NewDefaultAgency
<1>3. CASE AddRoute
  <2>1. PICK d \in InitDefaultAgencyResults : agencies' = d.table
    BY <1>3 DEF AddRoute
  <2>2. ASSUME ~ (defaultAgency = NoObj /\ Keys(agencies) = {})
        PROVE  d.table = agencies
    BY <2>2 DEF InitDefaultAgencyResults
  <2> QED BY <2>1, <2>2
<1>4. agencies' = agencies \/ last' = "ok" \/ CallAddAgencyObject \/ AddAgency
      \/ CallGetDefaultAgency \/ NewDefaultAgency \/ AddRoute
  BY DEF Next, Ended, InitDefaultAgency, CallAddServicePeriodObject,
     CallSetDefaultServicePeriod, NewDefaultServicePeriod, GetDefaultServicePeriod,
     CallAddStopObject, AddStop, CallAddRouteObject, CallAddTripObject, RouteAddTrip,
     AddShapeObject, AddFareAttributeObject, AddFareRuleObject, AddTransferObject,
     AddFeedInfoObject
<1> QED BY <1>1, <1>2, <1>3, <1>4

(* The same for service periods: only Route.add_trip creates one and then  *)
(* fails.                                                                  *)
LEMMA FailedCallPeriods ==
    ASSUME TypeOK, Next, last' # "ok", servicePeriods' # servicePeriods
    PROVE  defaultPeriod = NoObj /\ Keys(servicePeriods) = {}
<1> USE DEF periodVars
<1>1. CASE CallAddServicePeriodObject
  BY <1>1 DEF CallAddServicePeriodObject, AddServicePeriodObject, Ended
<1>2. CASE CallSetDefaultServicePeriod \/ NewDefaultServicePeriod
  BY <1>2 DEF CallSetDefaultServicePeriod, NewDefaultServicePeriod,
     SetDefaultServicePeriod, AddServicePeriodObject, Ended
<1>3. CASE RouteAddTrip
  <2>1. PICK d \in GetDefaultServicePeriodResults : servicePeriods' = d.table
    BY <1>3 DEF RouteAddTrip
  <2>2. ASSUME ~ (defaultPeriod = NoObj /\ Keys(servicePeriods) = {})
        PROVE  d.table = servicePeriods
    BY <2>2 DEF GetDefaultServicePeriodResults
  <2> QED BY <2>1, <2>2
<1>4. servicePeriods' = servicePeriods \/ last' = "ok" \/ CallAddServicePeriodObject
      \/ CallSetDefaultServicePeriod \/ NewDefaultServicePeriod \/ RouteAddTrip
  BY DEF Next, Ended, CallAddAgencyObject, AddAgency, CallGetDefaultAgency,
     NewDefaultAgency, InitDefaultAgency, GetDefaultServicePeriod,
     CallAddStopObject, AddStop, CallAddRouteObject, AddRoute, CallAddTripObject,
     AddShapeObject, AddFareAttributeObject, AddFareRuleObject, AddTransferObject,
     AddFeedInfoObject
<1> QED BY <1>1, <1>2, <1>3, <1>4

(* A trip whose validation failed is in no route's list: its id was free,  *)
(* and lists contain only registered trips.                                *)
LEMMA FailedCallTrips ==
    ASSUME TypeOK, RouteListsAreExact, Next, last' # "ok",
           NEW t \in TripIds, trips'[t] # trips[t]
    PROVE  ~ Listed(t)'
<1>1. routes' = routes
  BY FailedCallTables
<1>2. trips[t] = Absent
  <2>1. PICK u \in TripIds, trip \in Trip :
           trips[u] = Absent /\ trips' = Put(trips, u, trip)
    BY ListsChange
  <2> QED BY <2>1 DEF Put, TypeOK
<1>3. \A r \in Keys(routes) : \A i \in 1 .. Len(routes[r].trips) : routes[r].trips[i] # t
  BY <1>2 DEF RouteListsAreExact
<1> QED BY <1>1, <1>3 DEF Listed, Keys

(* A call that raises leaves every table as it was, but for the first      *)
(* agency or service period, created as a default on the way, and for a    *)
(* trip that is in no route's list.                                        *)
THEOREM FailedCallsKeepTables == Spec => FailedCallKeepsTables
<1> DEFINE Failure == last' # "ok" =>
          /\ UNCHANGED <<stopVars, routes, shapes, fares, transfers, feedInfo>>
          /\ agencies' # agencies => defaultAgency = NoObj /\ Keys(agencies) = {}
          /\ servicePeriods' # servicePeriods =>
                defaultPeriod = NoObj /\ Keys(servicePeriods) = {}
          /\ \A t \in TripIds : trips'[t] # trips[t] => ~ Listed(t)'
<1>1. TypeOK /\ RouteListsAreExact /\ [Next]_vars => [Failure]_vars
  <2> SUFFICES ASSUME TypeOK, RouteListsAreExact, Next PROVE Failure
    OBVIOUS
  <2>1. last' # "ok" =>
           UNCHANGED <<stopVars, routes, shapes, fares, transfers, feedInfo>>
    BY FailedCallTables
  <2>2. last' # "ok" /\ agencies' # agencies =>
           defaultAgency = NoObj /\ Keys(agencies) = {}
    BY FailedCallAgencies
  <2>3. last' # "ok" /\ servicePeriods' # servicePeriods =>
           defaultPeriod = NoObj /\ Keys(servicePeriods) = {}
    BY FailedCallPeriods
  <2>4. last' # "ok" => \A t \in TripIds : trips'[t] # trips[t] => ~ Listed(t)'
    BY FailedCallTrips
  <2> QED BY <2>1, <2>2, <2>3, <2>4
<1> QED BY <1>1, TypeCorrect, RouteListsExact, PTL DEF Spec, FailedCallKeepsTables

=============================================================================
