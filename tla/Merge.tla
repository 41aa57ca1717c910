-------------------------------- MODULE Merge --------------------------------
(***************************************************************************)
(* merge.py: FeedMerger runs its dataset mergers one after another over an *)
(* old feed "a" and a new feed "b" and fills the merged schedule.  The     *)
(* mergers share the merge maps, the zone maps and the counter behind      *)
(* generate_id.  Iteration over a table takes the rows in any order, since *)
(* a feed may list them in any order.                                      *)
(*                                                                         *)
(* An id is <<n, s>>: the name n followed by the numbers s that            *)
(* generate_id appends, so "x_merged_3" is <<x, <<3>>>> and the number     *)
(* that ends an id is the last of s.  NoId is a missing id.  What a merge  *)
(* scheme compares is one value (val), equal when the scheme merges.       *)
(***************************************************************************)
EXTENDS Integers, Sequences, FiniteSets

CONSTANTS Inputs,       \* the pairs of feeds [a, b] to merge
          Mergers       \* the lists of mergers that FeedMerger may run

\* No merger is added twice, tables are finite and ids are as described above.
ASSUME MergersAssumption ==
    \A m \in Mergers :
        /\ m \in Seq(STRING)
        /\ \A j, k \in DOMAIN m : m[j] = m[k] => j = k
ASSUME InputsAssumption ==
    \A p \in Inputs : \A f \in {"a", "b"} :
        \A t \in {"agency", "stop", "route", "period", "fare", "shape", "trip"} :
            DOMAIN p[f][t] \subseteq Nat \X Seq(Nat) /\ IsFiniteSet(DOMAIN p[f][t])

VARIABLES feed,         \* a_schedule and b_schedule
          hashable,     \* the classes of the entities can be keys of a dict
          cutoff,       \* --cutoff_date is given
          mergers,      \* mergers still to run; the first one is running
          phase,        \* where the running merger is
          todo,         \* ids left in its current loop
          both,         \* ids it merged
          aRest,        \* a_not_merged
          bRest,        \* b_not_merged
          merge_map,    \* a_merge_map and b_merge_map: <<side, kind, id>> -> id
          zone_map,     \* a_zone_map and b_zone_map
          idnum,        \* _idnum
          merged,       \* merged_schedule: the tables of the merged feed
          listed,       \* the trips in the trip lists of the merged routes
          stats,        \* merged, not_merged_a and not_merged_b of each merger
          warnings,     \* problems the accumulator holds, by merger
          errors,
          outcome,      \* "checking", then "merging" until the merge ends
          report        \* the HTML report

inputs == <<feed, hashable, cutoff>>
control == <<mergers, phase, todo, both, aRest, bRest>>
results == <<stats, warnings, errors, outcome, report>>
vars == <<inputs, control, merge_map, zone_map, idnum, merged, listed, results>>

Types == {"agency", "stop", "route", "period", "fare", "shape", "trip"}

\* get_schedule_name of the two feeds.
Sides == {"a", "b"}
Other(f) == IF f = "a" THEN "b" ELSE "a"

NoId == <<0, << >>>>
Empty == [x \in {} |-> x]
Put(f, k, v) == [x \in DOMAIN f \cup {k} |-> IF x = k THEN v ELSE f[x]]

\* add_default_mergers has a merger for every kind, and a merger that reads what
\* another one mapped runs after it.
RunsBefore ==
    {<<"agency", "route">>, <<"period", "trip">>, <<"stop", "trip">>, <<"route", "trip">>,
     <<"shape", "trip">>, <<"stop", "rule">>, <<"stop", "transfer">>}
ASSUME OrderAssumption ==
    \A m \in Mergers :
        /\ \A t \in Types : \E k \in DOMAIN m : m[k] = t
        /\ \A p \in RunsBefore : \A j, k \in DOMAIN m :
              m[j] = p[1] /\ m[k] = p[2] => j < k

\* A feed that load_without_errors accepts: its references resolve, it has a period
\* of service, for otherwise it has no effective service dates, and only the one
\* agency of a feed goes without an id or unnamed by a route.
Resolves(d) ==
    /\ DOMAIN d.period # {}
    /\ NoId \in DOMAIN d.agency => DOMAIN d.agency = {NoId}
    /\ \A i \in DOMAIN d.route :
          /\ DOMAIN d.route[i] = {"val", "url", "agency"}
          /\ \/ d.route[i].agency \in DOMAIN d.agency
             \/ d.route[i].agency = NoId /\ \E g \in DOMAIN d.agency : DOMAIN d.agency = {g}
    /\ \A i \in DOMAIN d.stop :
          /\ DOMAIN d.stop[i] = {"val", "zone", "parent"}
          /\ d.stop[i].parent \in DOMAIN d.stop \cup {NoId}
    /\ \A i \in DOMAIN d.trip :
          /\ DOMAIN d.trip[i] = {"route", "service", "shape", "stop", "block"}
          /\ d.trip[i].route \in DOMAIN d.route /\ d.trip[i].service \in DOMAIN d.period
          /\ d.trip[i].stop \in DOMAIN d.stop
          /\ d.trip[i].shape \in DOMAIN d.shape \cup {NoId}
    /\ \A r \in d.rule : r.zone \in {d.stop[i].zone : i \in DOMAIN d.stop} \cup {NoId}
    /\ \A k \in DOMAIN d.transfer : {k[1], k[2]} \subseteq DOMAIN d.stop \cup {NoId}
ASSUME ReferencesAssumption ==
    \A p \in Inputs : \A f \in Sides : Resolves(p[f])

\* load_without_errors: only feeds that load are merged.
LoadedFeeds == {[a |-> p.a, b |-> p.b] : p \in Inputs}

\* _has_id: feed f has an entity of kind t with id i.
HasId(f, t, i) == i \in DOMAIN feed[f][t]

\* extract_postfix_number: the number that ends an id, or 0.
Postfix(i) == IF i[2] = << >> THEN 0 ELSE i[2][Len(i[2])]

\* Fault: the ids of the new feed are not looked at.
PostfixNumbersFault ==
    {0} \cup UNION {{Postfix(i) : i \in DOMAIN feed["a"][t]} : t \in Types}

\* _find_largest_id_postfix_number looks at the ids of the seven kinds, not
\* at zone ids.
PostfixNumbers ==
    {0} \cup UNION {{Postfix(i) : i \in DOMAIN feed[f][t]} : f \in Sides, t \in Types}

\* generate_id: the number after the counter is appended to the id.
generate_id(i) == <<i[1], Append(i[2], idnum + 1)>>

\* A route that names no agency has the feed's only one: init_default_agency.
AgencyOf(f, r) ==
    IF r.agency = NoId THEN CHOOSE g \in DOMAIN feed[f].agency : TRUE ELSE r.agency

\* The merged id that a reference of feed f to entity i of kind t becomes.
Image(f, t, i) == merge_map[<<f, t, i>>]
ImageOrNone(f, t, i) == IF i = NoId THEN NoId ELSE Image(f, t, i)

-----------------------------------------------------------------------------
(* Merging and migrating one entity of each kind *)

\* _merge_identical, and _merge_identical_case_insensitive up to case.
MergeIdentical(u, v) == u = v

\* _merge_optional merges unless two values are given and differ.
MergeOptional(u, v) == u = 0 \/ v = 0 \/ u = v

\* _merge_same_agency: both routes belong to agencies that became one.
MergeSameAgency(x, y) ==
    Image("a", "agency", AgencyOf("a", x)) = Image("b", "agency", AgencyOf("b", y))

\* The merge schemes of the mergers: what must agree in two entities with one id.
AgencyScheme(x, y) == MergeIdentical(x.val, y.val)
StopScheme(x, y) == MergeIdentical(x.val, y.val) /\ MergeIdentical(x.zone, y.zone)
RouteScheme(x, y) ==
    /\ MergeIdentical(x.val, y.val)
    /\ MergeSameAgency(x, y)
    /\ MergeOptional(x.url, y.url)
FareScheme(x, y) == MergeIdentical(x.val, y.val)
ShapeScheme(x, y) == MergeIdentical(x.val, y.val)

\* ServicePeriodMerger._merge_entities and that of trips always raise a MergeError,
\* which these mergers do not report.
NeverMerge == {"period", "trip"}

\* _merge_entities raises no MergeError for the entities with id i.
Mergeable(t, i) ==
    LET x == feed["a"][t][i]
        y == feed["b"][t][i]
    IN CASE t = "agency" -> AgencyScheme(x, y)
         [] t = "stop" -> StopScheme(x, y)
         [] t = "route" -> RouteScheme(x, y)
         [] t = "fare" -> FareScheme(x, y)
         [] t = "shape" -> ShapeScheme(x, y)
         [] t \in NeverMerge -> FALSE

\* RouteMerger._migrate and TripMerger._migrate move the references of the copy.
MigratedRoute(f, e) == [e EXCEPT !.agency = Image(f, "agency", AgencyOf(f, e))]
MigratedTrip(f, e) ==
    [e EXCEPT !.route = Image(f, "route", e.route),
              !.service = Image(f, "period", e.service),
              !.shape = ImageOrNone(f, "shape", e.shape),
              !.stop = Image(f, "stop", e.stop),
              !.block = IF e.block = << >> THEN << >> ELSE <<f>> \o e.block]

\* _migrate: the copy of entity i of feed f.  A stop is copied here and gets its
\* zone and parent later.
Migrated(f, t, i) ==
    LET e == feed[f][t][i] IN
    CASE t = "route" -> MigratedRoute(f, e)
      [] t = "trip" -> MigratedTrip(f, e)
      [] OTHER -> e

\* _schemed_merge: the copy of the new entity with the merged attributes.
MergedEntity(t, i) ==
    LET m == Migrated("b", t, i) IN
    IF t = "route"
    THEN [m EXCEPT !.url = IF feed["a"].route[i].url = 0
                           THEN feed["b"].route[i].url
                           ELSE feed["a"].route[i].url]
    ELSE m

\* MergeProblemReporter hands a problem of merger t to the accumulator, which
\* keeps warnings and errors apart by merger.
Warned(t) == [warnings EXCEPT ![t] = @ + 1]
Failed(t) == [errors EXCEPT ![t] = @ + 1]

\* The merged schedule's add_..._object: the first object with an id stays.
AddObject(t, n, e) ==
    merged' = [merged EXCEPT ![t] = IF n \in DOMAIN @ THEN @ ELSE Put(@, n, e)]

\* add_trip_object is called while the copy still has the old feed's route_id.
ListTrip(f, n, i) ==
    LET r == feed[f].trip[i].route IN
    listed' = IF r \in DOMAIN merged.route THEN listed \cup {<<r, n>>} ELSE listed

-----------------------------------------------------------------------------
\* FeedMerger.__init__.
Init ==
    /\ feed \in LoadedFeeds
    /\ hashable \in BOOLEAN
    /\ cutoff \in BOOLEAN
    /\ mergers \in Mergers
    /\ phase = "start"
    /\ todo = {} /\ both = {} /\ aRest = {} /\ bRest = {}
    /\ merge_map = Empty
    /\ zone_map = [a |-> Empty, b |-> Empty]
    /\ idnum \in {n \in PostfixNumbers : \A m \in PostfixNumbers : m <= n}
    /\ merged = [t \in Types \cup {"rule", "transfer"} |->
                    IF t = "rule" THEN {} ELSE Empty]
    /\ listed = {}
    /\ stats = Empty
    /\ warnings = [t \in Types \cup {"rule"} |-> 0]
    /\ errors = [t \in Types \cup {"rule"} |-> 0]
    /\ outcome = "checking"
    /\ report = {}

\* util.check_version, before the merge.  A newer version, or a server that does not
\* answer, is reported with no dataset merger or with a keyword other_problem does
\* not take, and the exception ends main.
CheckVersion ==
    /\ outcome = "checking"
    /\ outcome' \in {"merging", "check failed"}
    /\ UNCHANGED <<inputs, control, merge_map, zone_map, idnum, merged, listed, stats,
                   warnings, errors, report>>

Running(t) == outcome = "merging" /\ mergers # << >> /\ Head(mergers) = t
Current == Head(mergers)

\* A merger is done: merge_schedules goes on to the next one.
NextMerger == mergers' = Tail(mergers) /\ phase' = "start"

-----------------------------------------------------------------------------
(* ServicePeriodMerger.merge_data_sets, disjoin_calendars *)

\* check_disjoint_calendars compares the date ranges, not the days of service.
CalendarsOverlap ==
    \E i \in DOMAIN feed["a"].period : \E j \in DOMAIN feed["b"].period :
        LET x == feed["a"].period[i]
            y == feed["b"].period[j]
        IN (IF x.hi < y.hi THEN x.hi ELSE y.hi) >= (IF x.lo > y.lo THEN x.lo ELSE y.lo)

\* Fault: the overlap is not reported.
AbortMergeFault ==
    /\ Running("period") /\ phase = "start"
    /\ ~cutoff
    /\ CalendarsOverlap
    /\ outcome' = "aborted"
    /\ UNCHANGED <<inputs, control, merge_map, zone_map, idnum, merged, listed, stats,
                   warnings, errors, report>>

\* A failed check of the calendars ends the whole merge.
AbortMerge ==
    /\ Running("period") /\ phase = "start"
    /\ ~cutoff
    /\ CalendarsOverlap
    /\ errors' = Failed("period")
    /\ outcome' = "aborted"
    /\ UNCHANGED <<inputs, control, merge_map, zone_map, idnum, merged, listed, stats,
                   warnings, report>>

\* --cutoff_date: truncate_period compares a date with 0 at the first period of
\* the old feed.
DisjoinCalendars ==
    /\ outcome = "merging" /\ cutoff
    /\ outcome' = "TypeError"
    /\ UNCHANGED <<inputs, control, merge_map, zone_map, idnum, merged, listed, stats,
                   warnings, errors, report>>

-----------------------------------------------------------------------------
(* DataSetMerger._merge_same_id *)

Begin(t) ==
    /\ Running(t) /\ phase = "start"
    /\ ~cutoff
    /\ t = "period" => ~CalendarsOverlap
    /\ phase' = "pairs"
    /\ todo' = DOMAIN feed["a"][t]
    /\ both' = {} /\ aRest' = {} /\ bRest' = {}
    /\ UNCHANGED <<inputs, mergers, merge_map, zone_map, idnum, merged, listed, results>>

\* The new feed has no entity with the id.
NoPartner(t, i) ==
    /\ Running(t) /\ phase = "pairs" /\ i \in todo
    /\ i \notin DOMAIN feed["b"][t]
    /\ todo' = todo \ {i}
    /\ aRest' = aRest \cup {i}
    /\ UNCHANGED <<inputs, mergers, phase, both, bRest, merge_map, zone_map, idnum,
                   merged, listed, results>>

\* The two entities merge: _add registers them and, but for stops, adds the
\* merged entity to the schedule.
MergePair(t, i) ==
    /\ Running(t) /\ phase = "pairs" /\ i \in todo
    /\ hashable
    /\ i \in DOMAIN feed["b"][t] /\ Mergeable(t, i)
    /\ todo' = todo \ {i}
    /\ both' = both \cup {i}
    /\ merge_map' = Put(Put(merge_map, <<"a", t, i>>, i), <<"b", t, i>>, i)
    /\ IF t = "stop" THEN UNCHANGED merged ELSE AddObject(t, i, MergedEntity(t, i))
    /\ UNCHANGED <<inputs, mergers, phase, aRest, bRest, zone_map, idnum, listed, results>>

\* Fault: the pair is not reported.
NotMergedFault(t, i) ==
    /\ Running(t) /\ phase = "pairs" /\ i \in todo
    /\ i \in DOMAIN feed["b"][t] /\ ~Mergeable(t, i)
    /\ todo' = todo \ {i}
    /\ aRest' = aRest \cup {i}
    /\ bRest' = bRest \cup {i}
    /\ UNCHANGED <<inputs, mergers, phase, both, merge_map, zone_map, idnum, merged,
                   listed, results>>

\* A MergeError: both entities are copied later.  Periods and trips, which never
\* merge, do not report it.
NotMerged(t, i) ==
    /\ Running(t) /\ phase = "pairs" /\ i \in todo
    /\ i \in DOMAIN feed["b"][t] /\ ~Mergeable(t, i)
    /\ todo' = todo \ {i}
    /\ aRest' = aRest \cup {i}
    /\ bRest' = bRest \cup {i}
    /\ warnings' = IF t \in NeverMerge THEN warnings ELSE Warned(t)
    /\ UNCHANGED <<inputs, mergers, phase, both, merge_map, zone_map, idnum, merged,
                   listed, stats, errors, outcome, report>>

\* Fault: the scan forgets the entities that failed to merge.
ScanNewFault(t) ==
    /\ Running(t) /\ phase = "pairs" /\ todo = {}
    /\ bRest' = DOMAIN feed["b"][t] \ DOMAIN feed["a"][t]
    /\ phase' = "a"
    /\ todo' = aRest
    /\ UNCHANGED <<inputs, mergers, both, aRest, merge_map, zone_map, idnum, merged,
                   listed, results>>

\* The loop over the new feed collects what has no partner in the old one.
ScanNew(t) ==
    /\ Running(t) /\ phase = "pairs" /\ todo = {}
    /\ bRest' = bRest \cup (DOMAIN feed["b"][t] \ DOMAIN feed["a"][t])
    /\ phase' = "a"
    /\ todo' = aRest
    /\ UNCHANGED <<inputs, mergers, both, aRest, merge_map, zone_map, idnum, merged,
                   listed, results>>

\* An entity that did not merge is copied, under a new id if the other feed
\* uses its id.
MigrateOne(f, t, i) ==
    LET new_id == HasId(Other(f), t, i)
        n == IF new_id THEN generate_id(i) ELSE i
    IN
    /\ Running(t) /\ phase = f /\ i \in todo
    /\ hashable
    /\ todo' = todo \ {i}
    /\ idnum' = IF new_id THEN idnum + 1 ELSE idnum
    /\ merge_map' = Put(merge_map, <<f, t, i>>, n)
    /\ IF t = "stop" THEN UNCHANGED merged ELSE AddObject(t, n, Migrated(f, t, i))
    /\ IF t = "trip" THEN ListTrip(f, n, i) ELSE UNCHANGED listed
    /\ UNCHANGED <<inputs, mergers, phase, both, aRest, bRest, zone_map, results>>

OldIsMigrated(t) ==
    /\ Running(t) /\ phase = "a" /\ todo = {}
    /\ phase' = "b"
    /\ todo' = bRest
    /\ UNCHANGED <<inputs, mergers, both, aRest, bRest, merge_map, zone_map, idnum,
                   merged, listed, results>>

\* get_merge_stats: (merged, not_merged_a, not_merged_b).
MergeStats == [merged |-> Cardinality(both),
               a |-> Cardinality(aRest), b |-> Cardinality(bRest)]

\* Both loops are done.  Stops go on to their zones; the mergers of periods and
\* trips report merge_not_implemented (and keep their counts to themselves).
EndSameId(t) ==
    /\ Running(t) /\ phase = "b" /\ todo = {}
    /\ stats' = Put(stats, t, MergeStats)
    /\ warnings' = IF t \in NeverMerge THEN Warned(t) ELSE warnings
    /\ IF t = "stop"
       THEN phase' = "zones" /\ todo' = both /\ UNCHANGED mergers
       ELSE NextMerger /\ UNCHANGED todo
    /\ UNCHANGED <<inputs, both, aRest, bRest, merge_map, zone_map, idnum, merged,
                   listed, errors, outcome, report>>

\* register puts an entity into a dictionary, which a class with __eq__ and
\* without __hash__ does not allow.
RegisterFails(t) ==
    /\ Running(t) /\ ~hashable
    /\ \/ /\ phase = "pairs"
          /\ \E i \in todo : i \in DOMAIN feed["b"][t] /\ Mergeable(t, i)
       \/ phase \in Sides /\ todo # {}
    /\ outcome' = "TypeError"
    /\ UNCHANGED <<inputs, control, merge_map, zone_map, idnum, merged, listed, stats,
                   warnings, errors, report>>

-----------------------------------------------------------------------------
(* StopMerger.merge_data_sets: zones and parents, then the merged table *)

\* Fault: the parent is looked up among the copies of the old feed's stops.
KeepZoneFault(i) ==
    LET s == feed["b"].stop[i] IN
    /\ Running("stop") /\ phase = "zones" /\ i \in todo
    /\ todo' = todo \ {i}
    /\ zone_map' = [f \in Sides |-> Put(zone_map[f], s.zone, s.zone)]
    /\ AddObject("stop", i, [s EXCEPT !.parent =
          IF <<"a", "stop", @>> \in DOMAIN merge_map THEN Image("a", "stop", @) ELSE @])
    /\ UNCHANGED <<inputs, mergers, phase, both, aRest, bRest, merge_map, idnum, listed,
                   results>>

\* A merged stop keeps its zone and has the parent it had in the new feed.
KeepZone(i) ==
    LET s == feed["b"].stop[i] IN
    /\ Running("stop") /\ phase = "zones" /\ i \in todo
    /\ todo' = todo \ {i}
    /\ zone_map' = [f \in Sides |-> Put(zone_map[f], s.zone, s.zone)]
    /\ AddObject("stop", i, [s EXCEPT !.parent = ImageOrNone("b", "stop", @)])
    /\ UNCHANGED <<inputs, mergers, phase, both, aRest, bRest, merge_map, idnum, listed,
                   results>>

ZonePass == [a |-> "zones_a", b |-> "zones_b"]

\* _update_and_migrate_unmerged: a copied stop uses the zone its zone was mapped
\* to, or a new one.
MoveZone(f, i) ==
    LET s == feed[f].stop[i]
        known == s.zone \in DOMAIN zone_map[f]
        z == IF known THEN zone_map[f][s.zone] ELSE generate_id(s.zone)
    IN
    /\ Running("stop") /\ phase = ZonePass[f] /\ i \in todo
    /\ todo' = todo \ {i}
    /\ idnum' = IF known THEN idnum ELSE idnum + 1
    /\ zone_map' = [zone_map EXCEPT ![f] = Put(@, s.zone, z)]
    /\ AddObject("stop", Image(f, "stop", i),
                 [s EXCEPT !.zone = z, !.parent = ImageOrNone(f, "stop", @)])
    /\ UNCHANGED <<inputs, mergers, phase, both, aRest, bRest, merge_map, listed, results>>

\* Fault: the passes over the zones do not end.
NextZonePassFault ==
    /\ Running("stop") /\ todo = {}
    /\ \/ phase = "zones" /\ phase' = "zones_a" /\ todo' = aRest
       \/ phase = "zones_a" /\ phase' = "zones_b" /\ todo' = bRest
    /\ UNCHANGED <<inputs, mergers, both, aRest, bRest, merge_map, zone_map, idnum, merged,
                   listed, results>>

NextZonePass ==
    /\ Running("stop") /\ todo = {}
    /\ \/ phase = "zones" /\ phase' = "zones_a" /\ todo' = aRest /\ UNCHANGED mergers
       \/ phase = "zones_a" /\ phase' = "zones_b" /\ todo' = bRest /\ UNCHANGED mergers
       \/ phase = "zones_b" /\ NextMerger /\ UNCHANGED todo
    /\ UNCHANGED <<inputs, both, aRest, bRest, merge_map, zone_map, idnum, merged, listed,
                   results>>

-----------------------------------------------------------------------------
(* FareRuleMerger and TransferMerger.  A rule names at most one zone here and a *)
(* feed one transfer for two stops, the last of its rows for them.           *)

\* A rule of feed f with its fare, route and zone moved to the merged feed.
MigratedRule(f, r) ==
    [fare |-> Image(f, "fare", r.fare),
     route |-> ImageOrNone(f, "route", r.route),
     zone |-> IF r.zone = NoId THEN NoId ELSE zone_map[f][r.zone]]

\* The rules of both feeds are migrated into one set, which drops duplicates.
MergeFareRules ==
    LET rules == {MigratedRule("a", r) : r \in feed["a"].rule}
                   \cup {MigratedRule("b", r) : r \in feed["b"].rule}
    IN
    /\ Running("rule") /\ phase = "start"
    /\ merged' = [merged EXCEPT !["rule"] = rules]
    /\ warnings' = IF rules = {} THEN warnings ELSE Warned("rule")
    /\ NextMerger
    /\ UNCHANGED <<inputs, todo, both, aRest, bRest, merge_map, zone_map, idnum, listed,
                   stats, errors, outcome, report>>

\* Transfers by the merged ids of their two stops; a missing stop stays missing.
MigratedTransfers(f) ==
    LET key(k) == <<ImageOrNone(f, "stop", k[1]), ImageOrNone(f, "stop", k[2])>>
        old == DOMAIN feed[f].transfer
    IN [n \in {key(k) : k \in old} |-> feed[f].transfer[CHOOSE k \in old : key(k) = n]]

\* _merge_by_id_keep_new: all of the new table, and of the old one what has
\* another id.
KeepNew(old, new) ==
    [n \in DOMAIN old \cup DOMAIN new |-> IF n \in DOMAIN new THEN new[n] ELSE old[n]]

\* TransferMerger.merge_data_sets.
MergeTransfers ==
    LET a == MigratedTransfers("a")
        b == MigratedTransfers("b")
    IN
    /\ Running("transfer") /\ phase = "start"
    /\ merged' = [merged EXCEPT !["transfer"] = KeepNew(a, b)]
    /\ stats' = Put(stats, "transfer", [merged |-> 0,
                                        a |-> Cardinality(DOMAIN a \ DOMAIN b),
                                        b |-> Cardinality(DOMAIN b)])
    /\ NextMerger
    /\ UNCHANGED <<inputs, todo, both, aRest, bRest, merge_map, zone_map, idnum, listed,
                   warnings, errors, outcome, report>>

-----------------------------------------------------------------------------
(* main *)

\* merge_schedules returned True: the merged feed is written.
WriteFeed ==
    /\ outcome = "merging" /\ mergers = << >>
    /\ outcome' = "written"
    /\ UNCHANGED <<inputs, control, merge_map, zone_map, idnum, merged, listed, stats,
                   warnings, errors, report>>

Shown(counts) == \E t \in DOMAIN counts : counts[t] > 0

\* write_output: the path of the merged feed if there is one, and a summary that
\* names the kinds of problems or says that the feeds merged successfully.
WriteReport ==
    /\ outcome \in {"written", "aborted"} /\ report = {}
    /\ report' = (IF outcome = "written" THEN {"feed created"} ELSE {})
                   \cup (IF Shown(errors) THEN {"errors"} ELSE {})
                   \cup (IF Shown(warnings) THEN {"warnings"} ELSE {})
                   \cup (IF Shown(errors) \/ Shown(warnings) THEN {} ELSE {"successful"})
    /\ UNCHANGED <<inputs, control, merge_map, zone_map, idnum, merged, listed, stats,
                   warnings, errors, outcome>>

Next ==
    \/ CheckVersion
    \/ AbortMerge
    \/ DisjoinCalendars
    \/ \E t \in Types :
          \/ Begin(t)
          \/ \E i \in todo : NoPartner(t, i) \/ MergePair(t, i) \/ NotMerged(t, i)
          \/ ScanNew(t)
          \/ \E f \in Sides : \E i \in todo : MigrateOne(f, t, i)
          \/ OldIsMigrated(t)
          \/ EndSameId(t)
          \/ RegisterFails(t)
    \/ \E i \in todo : KeepZone(i)
    \/ \E f \in Sides : \E i \in todo : MoveZone(f, i)
    \/ NextZonePass
    \/ MergeFareRules
    \/ MergeTransfers
    \/ WriteFeed
    \/ WriteReport

Spec == Init /\ [][Next]_vars /\ WF_vars(Next)

-----------------------------------------------------------------------------
(* Properties *)

Finished(t) == \A k \in DOMAIN mergers : mergers[k] # t
Entities(t) == {<<f, t, i>> : f \in Sides, i \in DOMAIN feed["a"][t] \cup DOMAIN feed["b"][t]}
Placed(t) == {e \in Entities(t) : e \in DOMAIN merge_map}

\* merge.py as a whole keeps the promise of FeedUnion: two entities share a place
\* in the merged feed only if they have the same id and come from the two feeds,
\* and generate_id never gives an entity of the seven kinds an id that is in use.
\* Zone ids, which it also gives, are not looked at.
Union == INSTANCE FeedUnion WITH
            ids <- [f \in Sides |-> [t \in Types |-> DOMAIN feed[f][t]]],
            image <- merge_map
ImplementsUnion == Union!UnionSpec

\* Once the merger of a kind has run, every entity of both feeds is in the merged
\* table and nothing else is: no id was taken when its object was added.
MergedTablesAreExact ==
    \A t \in Types : Finished(t) =>
        /\ \A f \in Sides : \A i \in DOMAIN feed[f][t] : <<f, t, i>> \in DOMAIN merge_map
        /\ DOMAIN merged[t] = {merge_map[e] : e \in Placed(t)}

\* The references of a copied entity lead to the copies of what it referred to.
\* A merged stop has the parent of the new feed's stop.
Follows(f, t, i) ==
    LET old == feed[f][t][i]
        new == merged[t][Image(f, t, i)]
        shared == i \in DOMAIN feed[Other(f)][t]
                    /\ Image(f, t, i) = Image(Other(f), t, i)
    IN CASE t = "route" -> new.agency = Image(f, "agency", AgencyOf(f, old))
         [] t = "stop" ->
              (f = "b" \/ ~shared) => new.parent = ImageOrNone(f, "stop", old.parent)
         [] t = "trip" ->
              /\ new.route = Image(f, "route", old.route)
              /\ new.service = Image(f, "period", old.service)
              /\ new.shape = ImageOrNone(f, "shape", old.shape)
              /\ new.stop = Image(f, "stop", old.stop)
         [] OTHER -> TRUE

\* The zone of every stop is the one its feed's zone map gives, also for the stops
\* whose zone was mapped before a merged stop was seen, and a migrated fare rule
\* names a zone that some stop of the merged feed is in.
ZonesFollow ==
    Finished("stop") =>
        /\ \A f \in Sides : \A i \in DOMAIN feed[f].stop :
              merged.stop[Image(f, "stop", i)].zone = zone_map[f][feed[f].stop[i].zone]
        /\ \A r \in merged.rule :
              r.zone \in {merged.stop[n].zone : n \in DOMAIN merged.stop} \cup {NoId}

\* A trip is only ever listed under the route it has in the merged feed, although
\* it is added while it names the route of its own feed.
ListedTripsBelong ==
    \A p \in listed : p[2] \in DOMAIN merged.trip /\ merged.trip[p[2]].route = p[1]

\* References resolve in the merged feed, to the right entities, although stops are
\* registered before their parents and zones are known, and trips are added and
\* listed while they name the route of their own feed.
ReferencesResolve ==
    /\ \A t \in Types : Finished(t) =>
          \A f \in Sides : \A i \in DOMAIN feed[f][t] : Follows(f, t, i)
    /\ Finished("stop") => \A n \in DOMAIN merged.stop :
          merged.stop[n].parent \in DOMAIN merged.stop \cup {NoId}
    /\ \A k \in DOMAIN merged.transfer :
          {k[1], k[2]} \subseteq DOMAIN merged.stop \cup {NoId}
    /\ ZonesFollow
    /\ ListedTripsBelong

\* The statistics of a merger account for every entity of both feeds, and every
\* pair with one id that was kept apart was reported.
StatsAddUp ==
    \A t \in Types \cap DOMAIN stats :
        LET pairs == DOMAIN feed["a"][t] \cap DOMAIN feed["b"][t] IN
        /\ \A f \in Sides : stats[t].merged + stats[t][f] = Cardinality(DOMAIN feed[f][t])
        /\ stats[t].merged = Cardinality({i \in pairs : Image("a", t, i) = Image("b", t, i)})
        /\ t \notin NeverMerge =>
              warnings[t] = Cardinality(pairs) - stats[t].merged

\* main's report shows errors exactly when no merged feed was written, never says
\* that the feeds merged successfully, since two mergers always warn, and a merge
\* that was given up leaves no trip behind.
ReportIsExact ==
    /\ report # {} => /\ "errors" \in report <=> "feed created" \notin report
                      /\ "successful" \notin report
                      /\ "warnings" \in report <=> \E t \in DOMAIN warnings : warnings[t] > 0
    /\ outcome = "aborted" => merged.period = Empty /\ merged.trip = Empty

\* main ends: with a report, unless the version check fails, a cutoff date is given
\* or the entities do not hash.
Termination ==
    <>(\/ report # {}
       \/ outcome = "check failed"
       \/ outcome = "TypeError" /\ (cutoff \/ ~hashable))

=============================================================================
