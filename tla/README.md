# A TLA+ verification of transitfeed

transitfeed reads, builds, validates, merges and writes GTFS transit feeds. This
directory holds TLA+ models of its core, the TLC runs that check them on small
instances and TLAPS proofs of the most important properties for every instance.

All paths below are relative to `src/`.

## 1. The system

| part | state | operations | talks to |
|---|---|---|---|
| **Schedule registry** (`transitfeed/schedule.py`, `agency.py`, `route.py`) | one dict per kind of object, keyed by id; the default agency and service period; `fare_zones`; the `_trips` list of each route; back references `_schedule` | `add_*`, `add_*_object`, `get_default_*`, `new_default_*`, `set_default_*`, `init_default_agency` | objects validate themselves against the tables while they are being added; the problem reporter may raise in the middle |
| **Service periods** (`serviceperiod.py`) | first and last date, days of the week, a dict of exceptions | setters, `reset_date_to_normal_service`, `get_date_range`, `is_active_on`, `active_dates`, `validate` | the schedule's date range is computed from all periods and from `feed_info` |
| **Service range validation** (`schedule.py`, `validate_service_range_and_exceptions`) | the running gap of the day-by-day walk | one pass per validation | reads service periods and trips, reports problems |
| **Shapes** (`shape.py`, `shapepoint.py`) | three parallel lists and `max_distance` | insert a point, clear, look up a position by distance | filled by the loader in file order |
| **Trips and stop times** (`trip.py`, `stoptime.py`, `frequency.py`) | rows of the `stop_times` table, frequencies, a cached pattern id | add, replace and clear stop times, interpolate, expand frequencies | the schedule's SQLite database |
| **Trip and block validation** (`schedule.py`) | - | `validate_blocks`, `validate_trips`, `validate_stop_times_for_trip` | reads trips, stop times, service periods |
| **Stop, route, transfer validation** | - | `validate_stops`, `validate_routes`, nearest-stop search | reads the tables |
| **Problem reporting** (`problems.py`) | file context, accumulator, counters | one method per kind of problem | every part reports here; the default accumulator raises |
| **Loader** (`loader.py`, `shapeloader.py`) | the schedule under construction, file context | one method per file, in a fixed order | registry, reporter |
| **Writer** (`schedule.py`, `gtfsobjectbase.py`, `util.py`) | the columns known per table, kept apart from the objects | set and delete attributes, `write_google_transit_feed` | the loader replaces the columns of a table it reads |
| **Merger** (`merge.py`) | id and zone maps of the two input feeds, the id counter, statistics | one merger per kind of object, in dependency order | two schedules in, one out |
| **Feed validator** (`feedvalidator.py`) | counted and size-limited problem lists, the page | accumulate, format, exit code | reporter, loader |
| **Tools** (KML, shape library, viewer, scripts) | - | conversion and output | read a loaded schedule |

The program is sequential: no threads, no messages. What makes it hard is
*partial failure* and *order*:

* An operation changes several pieces of state one after the other. Between two
  of them it validates, and validation reports problems to an accumulator that
  by default raises. A caller may catch the exception and go on, so the states in
  between are visible for ever after.
* Calls come in any order: a trip before its route, a fare rule before its zone,
  shape points out of sequence, a second default agency.
* Several structures are indexes of each other (`fare_zones` of the stops,
  `Route._trips` of `Schedule.trips`, the three lists of a shape) and nothing
  but the order of assignments keeps them in step.
* Dates and distances may be missing, equal or reversed, and the boundaries of
  ranges and windows are where the arithmetic can be one off.
* The loops of the validation and of the merger carry tables, caches and maps from
  one object to the next, break early and depend on the order of the objects.
* Output is written last: a page or an archive is opened, then filled, and an
  exception in between leaves what is there.

One feature of this version of the code matters everywhere. `ProblemReporter`
has the methods `duplicate_id`, `invalid_value` and `missing_value`, but much of
the library calls `DuplicateID`, `InvalidValue` and `MissingValue`, which do not
exist. Such a call ends with an `AttributeError` whatever accumulator is in use.
The models keep the two kinds of failure apart: `"raised"` (the accumulator) and
`"undefined"` (the missing method).

## 2. Modules

| module | models | checked by | proofs |
|---|---|---|---|
| `Schedule` | the registry | `schedule` (bounds in `MCSchedule`) | `ScheduleProofs` |
| `Calendar` | service periods and the date range of a schedule | `service`, `calendar_origins` | `ServiceProofs` |
| `ServiceGaps` | `validate_service_range_and_exceptions` with the walk of `validate_service_gaps` | `service` | `ServiceProofs` |
| `Service` | composition of the two: a validation that begins on the periods as they are | `service` (bounds in `MCService`) | `ServiceProofs` |
| `Shape` | the points of a shape | `shape_points` | `ShapeProofs` |
| `StopTimes` | the stop times of a trip and the walks over them | `stop_times` | `StopTimesProofs` |
| `Validation` | `Schedule.validate` over stops, routes, transfers, frequencies, trips, blocks | `validation`, `validation_blocking` (feeds in `MCValidation`) | `ValidationProofs` |
| `Loader` | a run of the feed validator: load, problem reporting, page, exit code | `loader` (symmetry and scope in `MCLoader`), `loader_types` | `LoaderProofs` |
| `FeedUnion` | abstract specification: what a merge promises | - | - |
| `Merge` | `FeedMerger` with all its mergers; implements `FeedUnion` | `merge` (feeds in `MCMerge`) | `MergeProofs` |
| `Writer` | attributes, columns and `write_google_transit_feed` | `writer`, `writer_values` (schedule in `MCWriter`) | `WriterProofs` |

Each module but `Service` can be read on its own. `Service` composes periods that
change with a validation that reads them; `Loader` composes the loader, the problem
reporter and the validator; `Validation` the load-time checks with those of
`Schedule.validate`; `Merge` all mergers with the maps they share. `Writer` takes
what `Calendar`, `StopTimes`, `Shape` and `Schedule` leave to be written as an input.
The modules with simple constants are instantiated by their `.cfg` files alone, the
others by an MC module, which gives constants their values and may bound a state space
with a conjunct of `Next` or `Init`. Definitions commented
*Fault* are wrong variants of the definition below them. No specification uses them;
putting one in the place of its original must make TLC find the property that it is
named with in `PROJECT.json` violated.

### Schedule

Each table is a total function over its ids in which `Absent` marks a missing
key. Objects are abstracted to what the operations look at: a stop to its
`zone_id`, a fare to its list of rules, a route to its agency id and its list of
trips, a trip to its three references. Agencies and service periods keep an
identity (`tok`) besides their id, because the code compares objects: a caller
may pass two objects with the same id, or the same object twice. `owned` and
`feedOwned` are the objects whose `_schedule` attribute is set, which the
assertions in `add_agency_object` and `add_feed_info_object` look at. Each public
operation is one action; `last` is how the latest call ended.

What validation finds in attributes that are abstracted away is chosen freely
(`bad`, `flaw`, `FareVerdicts`), and so is whether the accumulator raises; what
it finds in the tables (`DanglingReference`, `RuleResolves`,
`RouteAgencyAccepted`) is computed. The columns known per table and the database
of stop times are not in this module (see `Writer`, `StopTimes`). `FindUniqueId` is `str(len(table))` when
free and any free id otherwise.

### Calendar

A date is a number, the missing date is 0 (which, like `None`, is false). The
length of the week is a constant so that a few dates already contain several
weeks. `GetDateRange`, `IsActiveOn`, `ActiveDates` are the queries, the actions
are the setters and `validate`, which resets bad dates.

### ServiceGaps

The inputs (days with trips, range, today, interval, accumulator) do not change during
a validation. The checks run in the order of the code (`phase`)
and the loop of `validate_service_gaps` takes one step per day. The horizon of a
year, the six months and the sixty days of the code are constants.

### Service

`Build` is a step of `Calendar` before the validation, `StartValidation` takes the
inputs of `ServiceGaps` from the periods of that moment: the range and its missing ends from
`get_date_range_with_origins`, the days with trips from `IsActiveOn` of the periods that some trip
uses, the exceptions. A date that is no date makes the range "malformed". `Validate` is a
step of `ServiceGaps`.

### Shape

The three lists are sequences. `Bisect` is the contract of `bisect.bisect`, which
is all the library promises on a list that is not sorted. The comparison of a
distance with a missing one is Python's `TypeError`; it ends the call before the
lists change. `cleared` remembers that `clear_points` emptied `points` and
nothing else, which is what `ListsAgree` depends on. Negative sequence numbers
and distances are refused by `ShapePoint` before a shape sees them.

### StopTimes

`rows` are the rows of one trip in the `stop_times` table, in the order of their
insertion; `GetStopTimes` is the set of orders that `ORDER BY stop_sequence` allows.
The actions are `add_stop_time_object` (which numbers the row and compares it with the
maxima over all rows), `_add_stop_time_object_unordered` as the loader uses it,
`replace_stop_time_object` and `clear_stop_times`. Calls that raise change nothing and
are guards. `origin` is a history variable: how the rows of the trip came to be. The
time travel check, the interpolation and the count of stop times at one time are
operators on an ordered list, the loops as recursive functions over its positions;
properties compare them with definitions that do not mention the loops. A stop is its
position on a line; the interpolation is computed exactly and rounded as Python rounds
(ties to even), so floating-point error is not modelled.

### Validation

A feed is chosen by `Init`; its objects are named by their position in their table.
`pass` is the loop that is running, `at` and `inner` its indexes. A loaded feed first
goes through the validation of each stop, route and transfer at load time
(`feed.loaded`), which parses, deletes and replaces attributes; with
`feed.children` the objects are validated a second time in what the first left
(`StopRaises`, `RouteRaises`). The frequencies of a trip are added and cleared by the
caller before the validation starts. Then come the passes of `Schedule.validate` in its
order. `validate_nearby_stops` takes one step per comparison, `validate_trips` one
per trip, `validate_blocks` one per comparison. The dictionaries of the code
(`stop_types`, `trips`, `blocks`, the cache of service pairs) are variables. A report is
a tuple of its kind and its objects; an exception ends the validation
(`Raise`). Distances are squared distances in the plane, times and speeds small
numbers. `InOrder` stands for Python's `sorted`: the one list of a set in a given strict
order, ties broken by position as a stable sort does. Loops over the rows of one object
(stop times, periods) are recursive functions over positions. `feed.prints` says
that the accumulator formats a problem when it is reported, which for some classes is
a `KeyError`. `validate_trip_start_and_end_times` has no part in the model: what it
compares with `None` is `''` for an untimed stop, so it never reports.

### Merge and FeedUnion

`FeedUnion` says what a merge is, without any pass or counter: every entity gets one
place and keeps it; two entities share a place only if they have the same id and come
from different feeds; otherwise an entity keeps its id if the other feed does not use
it, or gets one that nobody uses.

`Merge` follows `merge_schedules`: the mergers of a list one by one, each with the
phases of `_merge_same_id` (pairs, then what was not merged of the old and of the new
feed), the disjoining of the calendars, the zone and parent passes of the stops, the
migration of trips, fare rules and transfers. The rows of a table come in any order.
An id is a name and the list of numbers that `generate_id` appended to it, so that an
input id may already look generated. Whether two entities merge, and why
they may not (`MergeError`), is computed from one value per entity. `report` is what
`main` shows. `hashable` is a fact about the classes of the entities: with those of
the library the first `register` ends in a `TypeError` (`RegisterFails`); the rest of
the module holds for classes with a hash, which a `GtfsFactory` may supply.
`CheckVersion` is the version check before the merge: a newer version is an error for
`HTMLProblemAccumulator.report`, which looks for a dataset merger that it does not have, and so
the end of `main`. Input feeds load without errors (`Resolves`): their references resolve, they
have a service period, as a feed without effective service dates is an error, and only a sole
agency has no id or is left out by a route. The code has ways for other feeds
(`init_default_agency` without a default, `disjoin_calendars` without periods), which `main` does not reach.
The refinement mapping is `ids <- ` the ids of the input feeds, `image <- merge_map`.

### Writer

`attrs` are the public attributes of the objects and `table_columns` the list that
decides what is written. `SetAttribute` is `__setattr__`, `AddObject` the common part
of the add methods, `AddFails` a validation that raises after `_schedule` was set,
`ReadTable` the loader reading a file, after which the columns are its header. `Write`
makes the archive as a whole, or its first part when it raises. A cell is written as
the code writes it: `Encoded` is the `b'...'` of an encoded string, `NumberCell` loses
a `stop_sequence` of 0. `outdated` is a history variable: the objects whose columns
were replaced.

### Loader

One run of the validator, or of `Loader.load` alone with the raising accumulator
(`acc = "raise"`, where there is no version check). `Stages` is the order of
`Loader.load`; `NextStage` passes over the files outside `Varied`, which have no rows
and no flaws, so that reading them changes nothing. Within a file `phase` goes from opening
it through header and columns to its rows. What a row says is left open: how often it
is reported (`RowReport`), whether it is kept, dropped (a stop without an id), turned down or meets a call
that is a Python error (`outcome` "crash"). Every place where the code reports a problem with
a parameter `type`, or by a method name in capitals, is such an error; the models keep
them, because they decide which problems of a feed a user ever sees. `context` is
`ProblemReporter._context`; `RowRejected` leaves it set, as the `continue` in the
code does. The three accumulators are the raising one, the limiting one of the HTML
report (`problist`) and the counting one of the console (`tally`). `log`, `read` and
`kept` are history variables. Only calendar rows have an id, as the loader joins them
by it; a calendar row's other columns are part of `Calendar`.

`page` is the output file of the validator: it is opened before the feed is read and
written after the validation, with a section for each class of problem (`Section`).
`Crash` is the crash handler (exit code 127), `OutputNotOpened`, `PageNotWritten` and
`ExtensionMissing` give 2. The problem class `TooFastTravel` cannot be formatted
(`Unprintable`).

## 3. What the runs show

| run | bounds | properties |
|---|---|---|
| `schedule` | three scopes that share `Init`: the tables that refer to one another (1 stop, 1 zone, 2 routes, 1 trip, 1 service id, 1 fare, 1 rule), with a default agency; the agencies (1 chosen id besides `None` and the builtin `id`, 2 objects per id) with one route; a shape, transfers and a feed info | `RouteListsAreExact`: a route lists only registered trips that name it, each once. `FareZonesAreExact`: the index of zones. `FareRulesResolve`: references of rules stay valid. `RouteAgencyRegistered`, `DefaultAgencyKnownOrStranded`: what a validation that raises between "tie to the schedule" and "enter the table" does to the default agency and to the routes that take its id. `FailedCallKeepsTables`: all that a failed call can leave behind |
| `service` | 2 periods, 4 dates of which one is no date, a week of one day, at most 3 dates set in periods and feed_info (`MaxEntries`), a window of 5 days, intervals up to 2, both accumulators | `ActiveDatesAreExact` (the walk over the range loses no active day), `ScheduleRangeCoversService`, `ValidateAddsNoService`. `GapsAreReal`, `GapsAreComplete`: the reported gaps are the maximal stretches without service. `PastGapsAreSilent`, `ValidationEnds` |
| `shape_points` | 4 points, sequence numbers up to 3, distances up to 2 or missing, both reporters | `ListsAgree`, `StrictShapeIsOrdered`: comparing neighbours orders all. `LookupFindsSegment` |
| `stop_times` | 4 rows appended in order or 3 rows of any origin, 2 stops, times 0 to 2, a limit of 2 for stop times at one time | `AppendedTripMovesForward`, `TimetravelCheckIsExact`, `InterpolationMovesForward`, `SameTimeReportsAreExact` |
| `validation` | eight families of feeds: 3 stops near each other; every kind of coordinate, type and parent; 3 routes; 2 transfers; 3 or 4 trips in 2 blocks; 3 trips of 2 routes; 3 stop times; 3 frequency periods | `NearbyReportsAreExact`, `BlockReportsAreExact`, `TripReportsAreExact`: reports against a definition without loops, tables and caches. `RunsAreSeparate`: the overlap check against the runs that are expanded. `ExceptionsAreExplained`: only an object with a known flaw ends a validation with an exception, in a pass that can raise. `Termination` |
| `loader` | calendar, calendar_dates and one of shapes and stops vary, 2 rows in all, 2 service ids, 1 date, up to 2 avoidable problems, limit 1, one ignored problem type | `ContextIsCurrentOrRejected`: a problem never carries the context of another row, except after a row that was turned down. `RowsAreAccountedFor`: no row vanishes without a problem. `ListsAreExact`: the lists of a class count all its problems and keep as many as the limit, none twice. `ExitCodeIsExact`: 0 only without errors and warnings, 1 only with a report. `PageIsExact`: a complete page exactly with exit codes 0 and 1, its verdict and the numbers of its sections |
| `merge` | three families of pairs of feeds: agencies and routes; stops with zones, parents, fare rules and transfers; shapes, fares, trips in blocks and overlapping calendars; two ids per table, one of them of generated form | `ImplementsUnion`; `MergedTablesAreExact`; `ReferencesResolve`: agency, parent, zone, route, service, shape and stop of every migrated entity. `StatsAddUp`, `ReportIsExact`, `Termination` |
| `writer` | 1 agency, 2 feed infos, 2 columns, 4 contents of the other tables | `EveryValueHasACell`: an attribute that has a value when the feed is written has a cell in the row of its object, and there is a row for each object in the schedule and no other. `CalendarIsWritten`, `FailedWriteIsNoFeed` |

Four runs show that the code does not do what its documentation or its tests say:

* `calendar_origins`: `get_date_range_with_origins` takes positions in lists from
  which the dateless periods were filtered out and uses them in the list with
  them, so the reported origin can be that of another period.
* `loader_types`: a problem takes its type from a keyword `type` while the reporter
  passes `problem_type`, so warnings and notices are stored, counted and raised as
  errors, against `tests/testfeedvalidator.py` (`testLimitOtherProblems`, and
  `testCheckVersionIsRun`, which expects exit code 0 and no error on the page when
  the only problem is the notice of a newer version; the code says 1 and shows an error).
  `ExitCodeIsExact` and `PageIsExact` leave open what is said when there are notices only.
* `validation_blocking`: "None of these checks are blocking" (`stop.py`, line 275,
  `route.py`, line 274), and the tests of stops, routes, transfers and trips
  (`teststop.py`, `testroute.py`, `testtransfer.py`, `testtrip.py`) expect a report after which the load goes on. A
  stop without a latitude, a route without a type, two transfers between the same stops
  and a repeated `stop_sequence` each end it with an exception instead. The run has
  one feed for each; each alone is a counterexample. `ExceptionsAreExplained` says no more than
  that nothing else ends a load.
* `writer_values`: columns and values are written as `b'...'` and do not come back when the
  feed is loaded, against the docstring of `CsvUnicodeWriter` and `testCustomAttribute`.
  `EveryValueHasACell` is about the presence of a cell only.

Why the bounds are enough: an operation of the registry touches one id, and
compares it with one other (the same id used twice, a reference, a sole agency
against several), so one or two objects of a kind show every case. All safety
properties of every passing run are also proved, for any bounds (section 4); what the
bounds below are for is liveness, and to let TLC find what is wrong before a proof is
tried. The
window of `service` holds two gaps with a day of service between them, at
each end and in the middle, and shorter and longer than the interval. Three dates give a
period with both ends and an exception inside or outside them, or two periods of which one
has one end. In `MCService` the view of a state during a validation leaves out the periods, which
no step of it reads; they no longer change then, and the properties about them are checked before.
A scope of `schedule` says which tables may have entries together; the calls are those
of the module, and each table is filled together with those that its calls look at. Four shape
points give an insertion in front, in the middle, at the end and on a duplicate,
next to missing, equal and falling distances. Four stop times give two untimed stops
between two time points, and three rows in any order a time point after one that
travelled back in time; rows are replaced in trips of up to two rows, which then grow.
The service ids of `loader` may change places, and no property tells them apart, so
symmetry is sound. Two rows are a duplicate id, two rows of one service in two files, or a shape row that is
turned down before or after one that is kept; two problems are one more than the
limit of a list.

In `validation` three stops are a pair and one that separates them in the order of
latitudes or lies beyond the window; three trips of a block are an interval that
contains, meets or follows another, with a third behind the break; four trips in two
blocks use the cache of one block in the other. Three trips through a stop are a
type, the other type and a repetition. `feed.frequencies` bounds the periods: three
can come in an order other than that of their times. The families vary one pass each, as
the passes share nothing but the stops and the reports. In `merge` two ids per table, one of them
`x` and one `x_merged_1`, are a merged pair, a pair that is kept apart, an entity of one
feed, and an input id that the counter must avoid. The two columns and the two
feed infos of `writer` are interchangeable, so symmetry is sound there: the
properties and `MCDefaults` do not tell them apart.

Deadlock checking is off where the model has a real end: a registry whose tables
are full under the bounds, the end of a gap validation or of a merge. In
`Loader`, `Validation` and `Writer` the end is an action, so deadlock checking is on and
shows that no run gets stuck.

Fairness: the program is one thread, and Python executes the next statement of a
function it has entered. `Merge` therefore assumes weak fairness of
`Next` as a whole, `Service` of `Validate`, as nothing makes a caller begin, and `Validation` of `Steps`, which leaves out the frequencies: how many of
those are added is the caller's choice.

## 4. What is proved

For all constants that satisfy the assumptions (`SentinelAssumption`,
`AbsentAssumption`: `None` and the "missing key" marker are not objects or ids;
`MaxRulesAssumption`, `GapsAssumption`, `ShapeAssumption`, `CalendarAssumption`,
`StopTimesAssumption`, `LoaderAssumption`: days, times, positions and bounds are natural
numbers, the varied files are files, the accumulators those of the code;
`MergersAssumption`, `InputsAssumption`: no merger runs twice, ids have the form above,
tables are finite; `OrderAssumption`: each kind has a merger, after the mergers of what it
refers to, as `merge.py` lists them in `add_default_mergers` (lines 1728-1737);
`ReferencesAssumption`: the references of an input feed resolve, as `main` gives up on feeds
that load with errors (lines 350-365); `TablesAssumption`: the tables are those with
columns, `None` is no value; `FeedsAssumption`, `BoundsAssumption`: the tables of a feed
are sequences of rows whose fields are numbers or one of the three kinds of no number,
distances and speeds are natural numbers, `Tram` has a speed, and frequencies are given
numbers). The MC modules satisfy all of them: TLC evaluates them.

* `ScheduleProofs.TypeCorrect`: `TypeOK` is inductive. One lemma per operation that
  several actions share (`AddAgencyObjectType`, ...), one per group of actions.
* `ScheduleProofs.NothingIsLost`: every step keeps every registered object, an
  action property from `TypeOK` alone. `FareRulesStayResolved` and
  `RouteAgenciesRegistered` rest on it: a reference is checked once, and stays valid
  because nothing is removed.
* `ZonesExact`: `FareZonesAreExact` is inductive relative to `TypeOK`.
* `RouteListsExact`: `RouteListsAreExact` is inductive relative to `TypeOK`: a trip is
  appended only in the call that registers it, and before that no list can contain
  it, since lists contain only registered trips.
* `StrandedForEver`, `DefaultAgencyKnown`: with the strengthening that an agency is
  stored under its own id. The default agency's id is registered or the default is
  stranded, and `StrandedForEver` keeps the second case.
* `FailedCallsKeepTables`: what a call that raises leaves behind. A default that was
  created on the way is the first of its table; a trip whose validation failed is in no
  list, because its id was free and, by `RouteListsExact`, lists hold registered trips only.
* `ServiceProofs.ServiceImplementsCalendar`: `ServiceSpec` implies the specification of
  `Calendar`, so what is proved of periods holds in the composition too.
* `ServiceProofs`, service gaps, for every behaviour of `ServiceSpec`: `LoopInv` relates the counters of the walk to the days already
  seen (`days` idle days end at `date`, `first` and `last` bound them, the reported gaps
  are those that ended before). `GapsAreReal`, `GapsAreComplete` and
  `PastGapsAreSilent` follow; `RaisingReportsAtMostOnce` from an invariant of its own.
* `ShapeProofs`: `ShapeInv` is the conjunction of the properties of the lists with the
  types. `StrictShapeIsOrdered` is the interesting part: comparing a new distance with
  its two neighbours orders *all* distances, as long as none is missing. `LookupIsRight`
  then shows that a lookup finds a segment of positive length around the distance, for
  any number of points and even when the distances are out of order.
* `StopTimesProofs`: `TripInv` says that rows have their types, that the numbers of an
  appended trip rise in the order of insertion, and that its times do not fall. With it
  `GetStopTimes` of an appended trip is the order of insertion, and
  `AppendedTripsMoveForward` follows. The walks over an ordered list are recursive
  functions; `Recursion` derives their defining equation, `Induction` is induction as a
  statement about sets of numbers, from the existence of a least counterexample.
  `TimetravelCheckIsRight`: the walk that remembers one departure is silent exactly when
  no time point comes before the departure of the time point before it. `InterpolationIsForward`: between two time points
  the travelled distance rises, so the interpolated and rounded times do not fall.
  `SameTimeReportsAreRight`: the counter of the loop is the length of the stretch of equal
  times up to the current position.
* `LoaderProofs`: `IInv` says which rows can have been read at this point of the order of
  files (`ReadInv`), whose context the reporter has (`ContextInv`), that a row which is not
  at hand was kept or reported (`RowsInv`), that a period has the first row of its
  id (`PeriodsInv`), what lists and counters know of the log (`ListsInv`, `TallyInv`) and
  that page and exit code were made from them (`EndInv`). The five properties of `loader`
  follow for any number of rows, problems and files and any limit.
* `ServiceProofs`, calendar: `TypeOK` is inductive, and the queries are correct for every typed
  state: `RangeCovers` shows that a day on which a period is active lies between the
  least and the greatest of its dates, whichever of the ends are missing or reversed.
  `ActiveDatesCorrect` and `ScheduleRangeCovers` follow, `ValidateOnlyTakesAway` from
  the comparison of a period before and after (`ValidatedIsLess`).
* `MergeProofs.MergeImplementsUnion`: `Merge` refines `FeedUnion`. The invariant
  says that generated ids carry numbers up to the counter and input ids numbers below
  its start (`FeedOK`, `CounterOK`), that a placed entity has its own id or a generated
  one (`MapOK`), that the kinds whose merger waits have no places yet (`MergersOK`,
  `WaitingOK`), and that what a phase still has to do has none either (`StageOK`). With
  it `MergePair` is a `Share`, `MigrateOne` a `Copy`, and every other step a stutter.
* `MergeProofs.InvariantHolds`: the larger invariant `JInv` adds who may share a place
  (`ImagesOK`), the order of the mergers (`OrderOK`), how the running merger has divided its
  entities (`SplitOK`), that a merger that has run left nothing out (`CompleteOK`), and what the
  merged tables, stops with zones and parents, routes and trips, warnings, statistics
  and the report hold so far (`TablesOK`, `StopsOK`, `RowsOK`, `CountsOK`, `StatsOK`,
  `ReportOK`). `TablesAreRight`, `ReferencesAreRight`, `StatsAreRight` and `ReportIsRight`
  are what it says at the end of a merger or of the merge. `ReferencesAreRight` needs the
  order of the mergers: an image is looked up when an entity migrates, so what it names
  must have its place by then.
* `WriterProofs` (`ValuesHaveCells`, `CalendarWritten`, `FailedWriteNoFeed`): the invariant says that the columns of a table cover the attributes of
  its objects that are not outdated (`ColumnsOK`), that there is a feed info exactly when one was added
  (`FeedInfoOK`), and that an archive is what the schedule would write now (`ArchiveOK`).

* `ValidationProofs`: `TypeInv` holds always, and `PassesStayApart` is the action property
  that the rest is built on: reports are only appended, each pass has its own kinds of
  report and its own tables, and it is followed by the next pass or by an exception. So
  what a pass has established stays as it was, and each pass needs an invariant of its
  own loop only, stated about the objects it has been through (`TripDone`, `Compared`,
  `Covered`):
  * `ExceptionsExplained`, from `RaisesExact`, which says exactly which objects raise and
    is defined with the proofs: `StopsInv` is what each stop looks like after the first and the second
    validation, `TransfersInv` that no two kept transfers join the same stops, `ChecksInv`
    that no object passed so far raises and that what was raised names one that does.
  * `FrequencyRuns`: the reports on a trip are exactly its overlapping pairs
    (`FrequencyInv`). Periods that do not overlap share no instant, every run leaves inside its
    own period, and the runs of one period are a headway apart; the list of all runs is
    followed position by position, by induction over the periods.
  * `TripReportsExact`: `NamesInv` and `DuplicatesInv` say that the table holds the first
    object met under each name or key and that all others are reported with it.
    `TypesInv` is about the visits of stops made so far (`VisitsDone`), inside a trip up
    to a stop time: the type that was met first, whether the other one was met too
    (`is_match`), and one report exactly in that case.
  * `NearbyReportsExact`: `NearbyInv` says that of the pairs of positions compared so far
    exactly those at the same place are reported, once. A pair that was passed over by
    the break is a window or more apart in latitude, as the list is sorted, so it is not
    at the same place.
  * `BlockReportsExact`: `IntervalsInv` says that the blocks hold the interval of each trip
    that has one, once, under its block; `CacheInv` that an entry of the cache is the truth
    about the two services, whichever block made it; `CollisionsInv` that during the pass the
    reports are exactly the overlapping pairs among those `Covered`, none twice. Pairs behind
    the break start later than the one at the break, so they are covered. A pair with
    an unknown service ends the pass early; then every report is still right, and all pairs
    are reported if no service is unknown.

Only model-checked: `ValidationEnds` of `Service` and `Termination` of `Merge` and `Validation`, as liveness
under fairness is out of the prover's reach. The
library's induction theorems take an operator as a parameter, which the provers cannot
instantiate; where induction over data was needed, in `StopTimesProofs`, `ShapeProofs` and
`ValidationProofs`, it is
stated over sets of numbers instead. The conversions that the models leave open (see
the modules) are outside both the runs and the proofs.

## 5. Observations about the code

Met while modelling and kept in the models as the code has them:

* `Agency.__init__` stores the builtin function `id` when an `agency_id` argument is
  given (`agency.py`, line 70), so `add_agency(..., agency_id='x')` registers the
  agency under that function (`AgencyKeyOf`).
* `add_transfer_object` says "Duplicates are still added", but the call of the missing
  `DuplicateID` leaves before the append.
* `add_trip_object` swallows an unknown route with the remark that it "was reported in
  the Trip.Validate call above"; without validation nothing reports it.
* `add_feed_info_object` with validation calls a method that `FeedInfo` does not have,
  after it tied the object to the schedule: the object can never be added again.
* `validate_trip_start_and_end_times` asks whether `arrival_time` is `None`, but for an
  untimed stop the attribute is `''` (`stoptime.py`, `__getattr__`): trips without a
  time at an end are never reported there.
* After an untimed first stop (possible with a collecting reporter)
  `add_stop_time_object` fails with a `TypeError`, as Python's `max` meets `None`.
* `Trip.add_stop_time` passes `loader_problems` to `StopTime`, which has no such
  parameter, so it always fails.
* A `service_gap_interval` of 0 would report a gap of no days before every day with
  service; `ServiceGaps` uses 0 for "no interval" and takes intervals from 1 up.
* `BoundedProblemList.add` means to keep the most significant problems, but Python 3 does
  not use `__cmp__`: `insort` fails for every class, and the first problems are kept
  (`AddToList`), against `testLimitSortedTooFastTravel`, `testLimitSortedStopTooFarFromParentStation`
  and `testLimitSortedStopsTooClose` (`tests/testfeedvalidator.py`, lines 377 to 415).
  `ListsAreExact` does not say which problems of such a class (`Sorted`) are kept.
* After a transfer or shape point that was turned down, the report of a missing file or
  a duplicate column has the right file name and the row number of that row (`OfFile`).
* A required file that consists of a byte order mark is neither missing nor empty and is
  passed over without a problem (`FileOnlyMark`).
* `loader.py` and `util.py` pass `type=` to reporter methods that have no such parameter:
  rows with too few or too many cells, headers with blanks and a failed version check
  end the run with a `TypeError`; so does a null in a file.
* `FeedMerger.register` uses GTFS objects as dictionary keys. Their base class defines
  `__eq__` without `__hash__`, so on Python 3 the first entity ends the merge.
  `--cutoff_date` ends in a `TypeError` as well, against `testDisjoinCalendars`: it compares the
  date of a period with a number. `Termination` of `Merge` counts both as ends of the merge, so no
  property fails on either of them.
* A newer version of transitfeed ends the merge with an `AttributeError`, as the report has no
  dataset merger (`merge.py`, line 186), against `testCheckVersionIsRun` (`tests/testmerge.py`,
  line 1535), which expects the new version in the report and exit code 0 (`CheckVersion`).
* A second row of `feed_info.txt` replaces the first without a report, and a shape point with
  a sequence number that was there is reported and inserted all the same.
* `generate_id` starts above the numbers of all ids but does not look at zone ids, so
  a generated zone id can be one that is in use and two zones become one.
* `TransferMerger` is not among the default mergers: transfers of both feeds are lost.
  The trips of routes that were not merged are in no route's list of trips.
  `_merge_different_id` is never called. The report never says that the
  feeds merged successfully, as two mergers always warn (`ReportIsExact`).
* `get_default_agency` assigns the default before it looks at the table and need not
  add it, against its docstring (`schedule.py`, line 204).
* The comment "None of these checks are blocking" (`stop.py`, line 275, `route.py`, line
  274) does not hold: a stop without coordinates, or without a `location_type`
  column, and a route without a type end the load with an exception
  (`validation_blocking`). Trams and stops on the equator do not survive a second
  validation, as a parsed 0 counts as missing. The loader and the validator ask
  for no second validation (`validate_children=False`).
* The start times of `get_frequency_start_times` are not sorted when periods were added
  out of order, against its docstring (`trip.py`, line 333).
* The texts of `TooFastTravel` and `MinimumTransferTimeSetWithInvalidTransferType` name
  keys their reports do not pass: printing one is a `KeyError`. The validator then
  leaves an empty page and exits with 127.
* `Schedule.__del__` calls `os.remove(None)` for a database in memory.
* Written strings are `b'...'` (`util.py`, line 534; `writer_values`); a `stop_sequence` of 0 is written as
  nothing (`stoptime.py`, line 197); a table that is read into a schedule with objects
  loses their other columns (`loader.py`, line 193); a `feed_info.txt` with a header and
  no row makes writing fail (`schedule.py`, line 646).

## 6. Not modelled, and what could come next

* `pattern_id` of a trip and the queries of a route: the cache promises nothing about
  later changes, and only the viewer and the KML writer use it.
* `GtfsFactory`: its table of classes can be edited by extensions; the models take the
  shipped classes (and, in `Merge`, classes with a hash).
* Proofs: `PassesStayApart` gives the order of the passes; that every loop ends needs a
  decreasing measure and fairness, which the prover cannot use.

Left out for good: floating-point geometry (`shapelib.py`, distances of stops), XML and
KML output, the wording of pages and reports, the schedule viewer, the Google transit
extension and other checks that look at one attribute of one object, parsing and
formatting of single values, the parsing of options, and the one-pass command line scripts.
