----------------------------- MODULE MCService ------------------------------
(***************************************************************************)
(* Service with few dates.  The periods of a schedule that is validated    *)
(* are not part of the view: nothing reads them any more.                  *)
(***************************************************************************)
EXTENDS Service

CONSTANT MaxEntries  \* bound: dates in calendar, calendar_dates and feed_info

Entries ==
    LET all == 1 .. Len(periods) IN
    Cardinality({side \in DOMAIN feedDates : feedDates[side] # NoDate})
      + Cardinality({i \in all : periods[i].start # NoDate})
      + Cardinality({i \in all : periods[i].end # NoDate})
      + Cardinality({e \in all \X Dates : periods[e[1]].exception[e[2]] # "none"})

BoundedNext == ServiceNext /\ (Entries <= MaxEntries)'

BoundedSpec ==
    ServiceInit /\ [][BoundedNext]_serviceVars /\ WF_serviceVars(Validate)

View == IF phase = "building" THEN vars ELSE gapsVars
=============================================================================
