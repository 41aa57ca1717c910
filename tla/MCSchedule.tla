----------------------------- MODULE MCSchedule -----------------------------
(***************************************************************************)
(* Schedule, bounded to three scopes, for the product of all tables is too *)
(* large for one run: the tables that refer to one another, with no agency *)
(* but a default one; the agencies, with one route; and the tables that    *)
(* nothing refers to.  The calls are the same in all of them.              *)
(***************************************************************************)
EXTENDS Schedule

CONSTANTS Agency1, Tok1,  \* the only agency of the first scope
          Route1          \* the only route of the second

NoneOfTheOthers ==
    /\ shapes = {} /\ feedOwned = {}
    /\ \A pair \in StopIds \X StopIds : transfers[pair] = 0

ReferringTables ==
    /\ NoneOfTheOthers
    /\ Keys(agencies) \subseteq {Agency1}
    /\ owned = {agencies[k] : k \in Keys(agencies)}
    /\ owned = {defaultAgency} \ {NoObj}
    /\ \A o \in owned : o.tok = Tok1
    /\ \A t \in Keys(trips) : trips[t].shape = NoId

NoTrips ==
    /\ Keys(stops) \cup Keys(servicePeriods) \cup Keys(trips) \cup Keys(fares) = {}
    /\ defaultPeriod = NoObj

Agencies == NoneOfTheOthers /\ NoTrips /\ Keys(routes) \subseteq {Route1}

Others ==
    /\ NoTrips /\ owned = {} /\ defaultAgency = NoObj /\ Keys(routes) = {}

BoundedNext == Next /\ (ReferringTables \/ Agencies \/ Others)'

BoundedSpec == Init /\ [][BoundedNext]_vars
=============================================================================
