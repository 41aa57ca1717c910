------------------------------ MODULE Service -------------------------------
(***************************************************************************)
(* Service periods that are built up (Calendar) and then validated         *)
(* (ServiceGaps): Schedule.validate_service_range_and_exceptions takes the *)
(* date range of the schedule, the exceptions of its periods and the days  *)
(* on which trips run from the periods as they are then.                   *)
(***************************************************************************)
EXTENDS Calendar, ServiceGaps

ASSUME ServiceAssumption == OptDates \subseteq Days

(* generate_date_trips_departures_list: the days on which a service period *)
(* with trips is active.                                                   *)
DaysWithTrips(used) == {d \in Dates : \E i \in used : IsActiveOn(periods[i], d)}

HasExceptions(p) == \E d \in Dates : p.exception[d] # "none"

(* The validation begins.  A date that is no date, in feed_info.txt or an  *)
(* exception, does not parse: "malformed".                                 *)
StartValidation ==
    /\ phase = "building"
    /\ \/ /\ HasServiceDates /\ range' = "valid"
          /\ firstDay' = Earliest /\ lastDay' = Latest
          /\ \E used \in SUBSET (1 .. Len(periods)) : withTrips' = DaysWithTrips(used)
       \/ /\ range' = IF HasServiceDates THEN "malformed" ELSE "missing"
          /\ firstDay' = NoDate /\ lastDay' = NoDate /\ withTrips' = {}
    /\ hasExceptions' = \E i \in 1 .. Len(periods) : HasExceptions(periods[i])
    /\ today' \in Days /\ interval' \in 0 .. MaxInterval /\ raising' \in BOOLEAN
    /\ phase' = "exceptions"
    /\ date' = Start' /\ days' = 0 /\ first' = Start' /\ last' = Start'
    /\ UNCHANGED <<vars, reports, gaps>>

(* At first there are no periods, and no validation has begun.             *)
ServiceInit ==
    /\ Init
    /\ range = "missing" /\ withTrips = {} /\ hasExceptions = FALSE
    /\ firstDay = NoDate /\ lastDay = NoDate /\ today = NoDate
    /\ interval = NoInterval /\ raising = FALSE
    /\ phase = "building"
    /\ date = NoDate /\ days = 0 /\ first = NoDate /\ last = NoDate
    /\ reports = {} /\ gaps = {}

Build == phase = "building" /\ Next /\ UNCHANGED gapsVars
Validate == GapsNext /\ UNCHANGED vars

ServiceNext == Build \/ StartValidation \/ Validate

serviceVars == <<vars, gapsVars>>

(* The validation is sequential code: once begun it runs to its end.       *)
ServiceSpec ==
    ServiceInit /\ [][ServiceNext]_serviceVars /\ WF_serviceVars(Validate)

-----------------------------------------------------------------------------
(* Properties.                                                             *)

(* Once begun, the walk over the days ends, whatever the periods make of   *)
(* its window: empty, reversed, or without a single day of service.        *)
ValidationEnds == phase = "exceptions" ~> phase \in {"done", "raised"}
=============================================================================
