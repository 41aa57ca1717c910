------------------------------- MODULE Loader -------------------------------
(***************************************************************************)
(* One run of the feed validator: the version check, Loader.load with the  *)
(* files of a feed in the order the code reads them, Schedule.validate,    *)
(* the page with the results and the exit code; and on the way of every    *)
(* problem the ProblemReporter with its file context and the problem       *)
(* accumulator it hands problems to.  Accumulator "raise" is Loader.load   *)
(* called as a library, "console" the output to the console and "limit"    *)
(* the output to a page.                                                   *)
(*                                                                         *)
(* What a row says is left open until it is read: it is blank, has a wrong *)
(* number of cells, is reported any number of times, and ends up in the    *)
(* schedule or not.  Only the rows of calendar.txt and calendar_dates.txt  *)
(* have an id, because the loader joins them.  A problem whose report is a *)
(* Python error (a parameter or method that does not exist) ends the run:  *)
(* outcome "crash".                                                        *)
(***************************************************************************)
EXTENDS Naturals, Sequences, FiniteSets

CONSTANTS Varied,        \* files that may be absent, broken or have rows
          ServiceIds,    \* service ids of calendar rows
          Dates,         \* dates of calendar_dates rows
          Accumulators,  \* kinds of problem accumulator
          RaiseWarnings, \* parameter of ExceptionProblemAccumulator
          LimitPerType,  \* option limit_per_type
          IgnoreTypes,   \* option error_types_ignore_list
          MaxRows,       \* bound: rows of all files together
          MaxReports     \* bound: reports after which no avoidable one is made

-----------------------------------------------------------------------------
(* Files and stages.                                                       *)

LoadingOrder ==
    <<"agency", "stops", "routes", "transfers", "trips", "fare_attributes",
      "fare_rules", "frequencies", "feed_info">>

Required == {"agency", "stops", "routes", "trips", "stop_times"}

(* Loader.load, and the validator around it.                               *)
Stages ==
    <<"output", "version", "format", "names", "calendar", "calendar_dates", "periods", "shapes">>
        \o LoadingOrder \o <<"stop_times", "validate", "exit">>

Calendars == {"calendar", "calendar_dates"}
FeedFiles == {LoadingOrder[i] : i \in 1 .. Len(LoadingOrder)}
Files == Calendars \cup {"shapes", "stop_times"} \cup FeedFiles

(* Files a row of which can be turned down: only Transfer and ShapePoint   *)
(* have checks that block.                                                 *)
Rejecting == {"shapes", "transfers"}

ASSUME LoaderAssumption ==
    /\ Varied \subseteq Files
    /\ Accumulators \subseteq {"raise", "limit", "console"}
    /\ RaiseWarnings \in BOOLEAN
    /\ {LimitPerType, MaxRows, MaxReports} \subseteq Nat

None == <<>>     \* no file context
NoId == "no id"  \* rows of files without a service id

Types == {"error", "warning", "notice"}
Classes ==
    {"NewVersionAvailable", "FeedNotFound", "UnknownFormat", "UnknownFile",
     "MissingFile", "EmptyFile", "FileFormat", "DuplicateColumn",
     "UnrecognizedColumn", "OtherProblem", "InvalidValue", "DuplicateID",
     "UnusedStop", "TooFastTravel"}

VARIABLES acc,      \* the accumulator of this run
          present,  \* the files of Varied that the feed has
          stage,    \* index in Stages
          phase,    \* where in the stage: "open", "header", "columns",
                    \* "rows" between two rows, "row" inside one
          current,  \* the row in progress: <<file, row number, id>>
          rowNum,   \* line number of the last row read from this file
          context,  \* ProblemReporter._context: <<file, row number>>
          problist, \* _type_to_name_to_problist: its entries
          tally,    \* CountingConsoleProblemAccumulator: type -> count
          periods,  \* local of _load_calendar: id -> [context, dates]
          services, \* ids of the service periods of the schedule
          outcome,  \* "running", "raised", "crash" (exit code 127), or the
                    \* exit code
          page,     \* the HTML output file and what it shows
          log,      \* history: every problem that was reported
          read,     \* history: rows that were read, as in current
          kept      \* history: contexts of the rows the program took over

vars == <<acc, present, stage, phase, current, rowNum, context, problist,
          tally, periods, services, outcome, page, log, read, kept>>

Contexts == {None} \cup (Files \X Nat)
Problem == [class : Classes, problem_type : Types, context : Contexts]
ProblemList == [count : Nat, problems : Seq(Problem)]
PageStates == {"none", "empty", "cut off", "complete"}

TypeOK ==
    /\ acc \in Accumulators
    /\ present \subseteq Files
    /\ stage \in 1 .. Len(Stages)
    /\ phase \in {"open", "header", "columns", "rows", "row"}
    /\ current \in {None} \cup (Files \X Nat \X (ServiceIds \cup {NoId}))
    /\ rowNum \in Nat
    /\ context \in Contexts
    /\ DOMAIN problist \subseteq Types \X Classes
    /\ \A name \in DOMAIN problist : problist[name] \in ProblemList
    /\ tally \in [Types -> Nat]
    /\ DOMAIN periods \subseteq ServiceIds
    /\ \A id \in DOMAIN periods :
          periods[id] \in [context : Files \X Nat, dates : SUBSET Dates]
    /\ services \subseteq ServiceIds
    /\ outcome \in {"running", "raised", "crash", "0", "1", "2"}
    /\ page.state \in PageStates
    /\ log \in Seq(Problem)
    /\ read \subseteq Files \X Nat \X (ServiceIds \cup {NoId})
    /\ kept \subseteq Files \X Nat

Init ==
    /\ acc \in Accumulators
    /\ present \in SUBSET Varied
    /\ stage = 1 /\ phase = "open" /\ current = None /\ rowNum = 0
    /\ context = None
    /\ problist = <<>>
    /\ tally = [t \in Types |-> 0]
    /\ periods = <<>> /\ services = {}
    /\ outcome = "running"
    /\ page = [state |-> "none", verdict |-> "", sections |-> <<>>]
    /\ log = <<>> /\ read = {} /\ kept = {}

-----------------------------------------------------------------------------
(* Problems and accumulators.                                              *)

(* ExceptionWithContext.__init__: context2, the one of the reporter, is    *)
(* used when no context is passed.                                         *)
ProblemOf(class, problem_type, explicit) ==
    [class |-> class, problem_type |-> problem_type,
     context |-> IF explicit # None THEN explicit ELSE context]

(* A keyword file_name wins over that of the context, whose row stays.     *)
OfFile(e, file) ==
    [e EXCEPT !.context = <<file, IF @ = None THEN 0 ELSE @[2]>>]

(* ... and its _type: the keyword looked for is "type", while the methods  *)
(* of ProblemReporter pass problem_type.                                   *)
TypeOf(e) ==
    IF "type" \in DOMAIN e /\ e.type \in Types THEN e.type ELSE "error"

(* ExceptionProblemAccumulator.report                                      *)
Raises(e) == acc = "raise" /\ (RaiseWarnings \/ TypeOf(e) = "error")

(* Fault: one problem too many is kept.                                    *)
AddToListOneMore(list, e) ==
    [count |-> list.count + 1,
     problems |-> IF list.count <= LimitPerType
                    THEN Append(list.problems, e) ELSE list.problems]

(* BoundedProblemList.add: no problem class has an order (Python 3 does    *)
(* not know __cmp__), so bisect.insort fails unless the list is empty.     *)
AddToList(list, e) ==
    LET count == list.count + 1 IN
    [count |-> count,
     problems |-> IF list.problems = <<>>
                    THEN IF count > LimitPerType THEN <<>> ELSE <<e>>
                  ELSE IF count <= LimitPerType
                    THEN Append(list.problems, e)
                  ELSE list.problems]

(* The entry of a defaultdict is made when it is first used.               *)
AddToMap(name, e) ==
    [n \in DOMAIN problist \cup {name} |->
        IF n # name THEN problist[n]
        ELSE IF n \in DOMAIN problist THEN AddToList(problist[n], e)
        ELSE AddToList([count |-> 0, problems |-> <<>>], e)]

(* add_to_accumulator, for the three accumulators.                         *)
Report(e) ==
    LET listed == e.class \notin IgnoreTypes IN
    /\ log' = Append(log, e)
    /\ problist' = IF acc = "limit" /\ listed
                     THEN AddToMap(<<TypeOf(e), e.class>>, e) ELSE problist
    /\ tally' = IF acc = "console" /\ listed
                  THEN [tally EXCEPT ![TypeOf(e)] = @ + 1] ELSE tally
    /\ outcome' = IF Raises(e) THEN "raised" ELSE "running"

Silent == UNCHANGED <<problist, tally, log, outcome>>

(* Fault: only what is typed as a warning counts.                          *)
HasWarnings ==
    \/ \E name \in DOMAIN problist : name[1] = "warning"
    \/ tally["warning"] > 0

(* has_issues of the two accumulators of the validator.                    *)
HasIssues ==
    \/ \E name \in DOMAIN problist : name[1] \in {"error", "warning"}
    \/ tally["error"] + tally["warning"] > 0

-----------------------------------------------------------------------------
At(name) == outcome = "running" /\ Stages[stage] = name
File == Stages[stage]
Reading == outcome = "running" /\ File \in Files

(* An avoidable problem is met only below the bound.                       *)
MayReport == Len(log) < MaxReports

GoTo(name) ==
    /\ stage' = CHOOSE i \in 1 .. Len(Stages) : Stages[i] = name
    /\ phase' = "open" /\ rowNum' = 0

(* A file outside Varied is in the feed if it has to be, has no rows and   *)
(* no flaws, and so reading it changes nothing: its stage is left out.     *)
Visited(i) == Stages[i] \in Files => Stages[i] \in Varied

NextStage ==
    /\ stage' = CHOOSE i \in stage + 1 .. Len(Stages) :
                    Visited(i) /\ \A j \in stage + 1 .. i - 1 : ~ Visited(j)
    /\ phase' = "open" /\ rowNum' = 0

Still == UNCHANGED <<acc, present, page>>
SameTables == UNCHANGED <<periods, services, read, kept>>
SameRow == UNCHANGED <<current, context>>

(* The run ends at this point; nothing is undone.                          *)
End(code) ==
    /\ outcome' = code
    /\ UNCHANGED <<acc, present, stage, phase, current, rowNum, context,
                   problist, tally, periods, services, log, read, kept>>

(* A Python error: run_with_crash_handler reports it and exits with 127.   *)
Crash == End("crash") /\ UNCHANGED page

(* A problem is reported; the accumulator may raise, and else the code     *)
(* goes on as rest says.                                                   *)
ReportThen(e, rest) ==
    /\ Report(e)
    /\ IF Raises(e)
         THEN UNCHANGED <<acc, present, stage, phase, current, rowNum,
                          context, periods, services, page, read, kept>>
         ELSE Still /\ rest

-----------------------------------------------------------------------------
(* Before the files.                                                       *)

(* run_validation_output_from_options: the output file is opened, if there *)
(* is one, before the feed is looked at.                                   *)
OutputOpened ==
    /\ At("output")
    /\ page' = [page EXCEPT !.state = IF acc = "limit" THEN "empty" ELSE @]
    /\ NextStage /\ Silent /\ UNCHANGED <<acc, present>> /\ SameRow /\ SameTables

(* An IOError of open.                                                     *)
OutputNotOpened ==
    At("output") /\ acc = "limit" /\ End("2") /\ UNCHANGED page

(* check_version, which Loader.load without the validator does not have.   *)
VersionIsCurrent ==
    /\ At("version")
    /\ context' = None        \* load begins with clear_context
    /\ NextStage /\ Silent /\ Still /\ SameTables /\ UNCHANGED current

NewerVersion ==
    /\ At("version") /\ acc # "raise" /\ MayReport
    /\ ReportThen(ProblemOf("NewVersionAvailable", "notice", None),
                  NextStage /\ SameRow /\ SameTables)

(* other_problem has no parameter "type".                                  *)
VersionUnknown == At("version") /\ acc # "raise" /\ Crash

(* run_validation: the extension named by an option cannot be imported.    *)
ExtensionMissing ==
    At("format") /\ acc # "raise" /\ End("2") /\ UNCHANGED page

FormatKnown ==
    At("format") /\ NextStage /\ Silent /\ Still /\ SameRow /\ SameTables

(* load returns the empty schedule, which run_validation validates.        *)
FormatUnknown ==
    /\ At("format") /\ MayReport
    /\ \E class \in {"FeedNotFound", "UnknownFormat"} :
          ReportThen(ProblemOf(class, "error", None),
                     GoTo("validate") /\ SameRow /\ SameTables)

UnknownFile ==
    /\ At("names") /\ MayReport
    /\ ReportThen(ProblemOf("UnknownFile", "warning", None),
                  UNCHANGED <<stage, phase, rowNum>> /\ SameRow /\ SameTables)

NamesChecked ==
    At("names") /\ NextStage /\ Silent /\ Still /\ SameRow /\ SameTables

-----------------------------------------------------------------------------
(* Opening a file and reading its header.                                  *)

Opening == Reading /\ phase = "open"
InHeader == Reading /\ phase \in {"header", "columns"}

NoCalendar ==
    File = "calendar" /\ Calendars \subseteq Varied \ present

FileSkipped ==
    /\ Opening /\ File \notin present \cup Required /\ ~NoCalendar
    /\ NextStage /\ Silent /\ Still /\ SameRow /\ SameTables

(* _file_contents; _load_calendar reports when both its files are absent.  *)
FileMissing ==
    /\ Opening /\ File \notin present /\ (File \in Required \/ NoCalendar)
    /\ ReportThen(OfFile(ProblemOf("MissingFile", "error", None), File),
                  NextStage /\ SameRow /\ SameTables)

FileEmpty ==
    /\ Opening /\ File \in present /\ MayReport
    /\ ReportThen(OfFile(ProblemOf("EmptyFile", "error", None), File),
                  NextStage /\ SameRow /\ SameTables)

(* Python errors before the first row: nulls (a text pattern cannot search *)
(* bytes), bytes that are not UTF-8, and blanks in the header              *)
(* (csv_syntax has no parameter "type").                                   *)
FileBroken ==
    /\ Reading /\ phase \in {"open", "header"} /\ File \in present
    /\ Crash

(* Nothing but a byte order mark: neither missing nor empty.               *)
FileOnlyMark ==
    /\ Opening /\ File \in present
    /\ NextStage /\ Silent /\ Still /\ SameRow /\ SameTables

FileInUtf16 ==
    /\ Opening /\ File \in present /\ MayReport
    /\ ReportThen(ProblemOf("FileFormat", "error", <<File, 0>>),
                  /\ phase' = "header" /\ UNCHANGED <<stage, rowNum>>
                  /\ SameRow /\ SameTables)

FileOpened ==
    /\ Opening /\ File \in present
    /\ phase' = "header" /\ UNCHANGED <<stage, rowNum>>
    /\ Silent /\ Still /\ SameRow /\ SameTables

DuplicateColumn ==
    /\ InHeader /\ phase = "header" /\ MayReport
    /\ ReportThen(OfFile(ProblemOf("DuplicateColumn", "error", None), File),
                  UNCHANGED <<stage, phase, rowNum>> /\ SameRow /\ SameTables)

(* Unrecognized columns, and likewise missing and deprecated ones.         *)
UnrecognizedColumn ==
    /\ InHeader /\ MayReport
    /\ ReportThen(ProblemOf("UnrecognizedColumn", "warning", <<File, 1>>),
                  /\ phase' = "columns" /\ UNCHANGED <<stage, rowNum>>
                  /\ SameRow /\ SameTables)

HeaderRead ==
    /\ InHeader
    /\ phase' = "rows" /\ rowNum' = 1 /\ UNCHANGED stage
    /\ Silent /\ Still /\ SameRow /\ SameTables

-----------------------------------------------------------------------------
(* Rows.                                                                   *)

BetweenRows == Reading /\ phase = "rows"
MayRead == Cardinality(read) < MaxRows
InRow == outcome = "running" /\ phase = "row"

BlankRow ==
    /\ BetweenRows /\ rowNum <= MaxRows
    /\ rowNum' = rowNum + 1 /\ UNCHANGED <<stage, phase>>
    /\ Silent /\ Still /\ SameRow /\ SameTables

(* Python errors at a line: a wrong number of cells (other_problem has no  *)
(* parameter "type") and, in EndOfLineChecker, a wrong line end (there is  *)
(* no codec string_escape).                                                *)
LineBroken == BetweenRows /\ Crash

(* set_file_context                                                        *)
BeginRow ==
    /\ BetweenRows /\ MayRead
    /\ \E id \in IF File \in Calendars THEN ServiceIds ELSE {NoId} :
          /\ current' = <<File, rowNum + 1, id>>
          /\ read' = read \cup {current'}
    /\ context' = <<File, rowNum + 1>>
    /\ rowNum' = rowNum + 1 /\ phase' = "row" /\ UNCHANGED stage
    /\ Silent /\ Still /\ UNCHANGED <<periods, services, kept>>

(* What the checks of the row, or of a whole service period, report.       *)
RowReport ==
    /\ InRow /\ File \notin Calendars /\ MayReport
    /\ \E type \in {"error", "warning"} :
          ReportThen(ProblemOf("InvalidValue", type, None),
                     UNCHANGED <<stage, phase, rowNum>> /\ SameRow /\ SameTables)

(* A check that calls a reporter method by its old name, as for an id that *)
(* exists already or a reference that does not: AttributeError.            *)
RowBroken == InRow /\ File \in Files \ Calendars /\ Crash

RowDone(nextContext) ==
    /\ context' = nextContext /\ current' = None /\ phase' = "rows"
    /\ UNCHANGED <<stage, rowNum>>

(* Fault: the context is not cleared after a row.                          *)
RowTakenContextLeft ==
    /\ InRow /\ File \in Files \ Calendars
    /\ RowDone(context) /\ kept' = kept \cup {context}
    /\ Silent /\ Still /\ UNCHANGED <<periods, services, read>>

RowTaken ==
    /\ InRow /\ File \in Files \ Calendars
    /\ RowDone(None) /\ kept' = kept \cup {context}
    /\ Silent /\ Still /\ UNCHANGED <<periods, services, read>>

(* The row of this context is what some problem is about.                  *)
RowWasReported(row) ==
    \E i \in 1 .. Len(log) :
        log[i].context = row /\ log[i].class \in {"InvalidValue", "DuplicateID"}

(* add_stop_object passes over a stop without id, which is reported.  A    *)
(* point with a known sequence number is reported and taken (RowTaken).    *)
RowDropped ==
    /\ InRow /\ File = "stops" /\ RowWasReported(context)
    /\ RowDone(None) /\ Silent /\ Still /\ SameTables

(* Fault: a row is turned down without a word.                             *)
RowRejectedSilently ==
    /\ InRow /\ File \in Rejecting
    /\ RowDone(context) /\ Silent /\ Still /\ SameTables

(* validate_before_add or parse_attributes was not content: continue, past *)
(* clear_context.                                                          *)
RowRejected ==
    /\ InRow /\ File \in Rejecting /\ RowWasReported(context)
    /\ RowDone(context) /\ Silent /\ Still /\ SameTables

(* EndOfLineChecker, when it meets the last line.                          *)
MixedLineEnds ==
    /\ BetweenRows /\ MayReport
    /\ ReportThen(ProblemOf("OtherProblem", "error", <<File, 0>>),
                  NextStage /\ SameRow /\ SameTables)

FileDone ==
    /\ BetweenRows
    /\ NextStage /\ Silent /\ Still /\ SameRow /\ SameTables

-----------------------------------------------------------------------------
(* Service periods, joined from two files.                                 *)

Id == current[3]

(* The periods dictionary after an entry was made or replaced.             *)
PutPeriod(id, period) ==
    [i \in DOMAIN periods \cup {id} |-> IF i = id THEN period ELSE periods[i]]

CalendarRow ==
    /\ InRow /\ File = "calendar"
    /\ IF Id \in DOMAIN periods
         THEN ReportThen(ProblemOf("DuplicateID", "error", None),
                         RowDone(None) /\ SameTables)
         ELSE /\ periods' = PutPeriod(Id, [context |-> context, dates |-> {}])
              /\ kept' = kept \cup {context}
              /\ RowDone(None) /\ Silent /\ Still /\ UNCHANGED <<services, read>>

(* The period a row of calendar_dates.txt is about.                        *)
PeriodOfRow ==
    IF Id \in DOMAIN periods THEN periods[Id]
    ELSE [context |-> context, dates |-> {}]

(* set_date_has_service reports a date it has and takes it over; another   *)
(* exception_type than 1 and 2 is reported, the period stays.              *)
DatesRow ==
    /\ InRow /\ File = "calendar_dates"
    /\ \E date \in Dates, valid \in BOOLEAN :
          LET new == [PeriodOfRow EXCEPT
                        !.dates = IF valid THEN @ \cup {date} ELSE @]
              done == /\ periods' = PutPeriod(Id, new)
                      /\ kept' = IF valid THEN kept \cup {context} ELSE kept
                      /\ RowDone(None) /\ UNCHANGED <<services, read>>
          IN  IF valid /\ date \notin PeriodOfRow.dates
                THEN Silent /\ Still /\ done
                ELSE ReportThen(IF valid
                                  THEN ProblemOf("DuplicateID", "warning", None)
                                  ELSE ProblemOf("InvalidValue", "error", None),
                                done)

(* The last loop of _load_calendar: set_file_context.                      *)
BeginPeriod ==
    /\ At("periods") /\ phase # "row"
    /\ \E id \in DOMAIN periods \ services :
          /\ context' = periods[id].context
          /\ current' = <<context'[1], context'[2], id>>
    /\ phase' = "row" /\ UNCHANGED <<stage, rowNum>>
    /\ Silent /\ Still /\ SameTables

(* add_service_period_object, after the reports of validate.               *)
AddPeriod ==
    /\ At("periods") /\ phase = "row"
    /\ services' = services \cup {Id}
    /\ RowDone(None)
    /\ Silent /\ Still /\ UNCHANGED <<periods, read, kept>>

PeriodsAdded ==
    /\ At("periods") /\ phase # "row" /\ DOMAIN periods \subseteq services
    /\ NextStage /\ Silent /\ Still /\ SameRow /\ SameTables

-----------------------------------------------------------------------------
(* After the files.                                                        *)

ValidateReport ==
    /\ At("validate") /\ MayReport
    /\ ReportThen(ProblemOf("UnusedStop", "warning", None),
                  UNCHANGED <<stage, phase, rowNum>> /\ SameRow /\ SameTables)

ValidateBroken == At("validate") /\ Crash

(* A class of problems whose text asks for an attribute the report does    *)
(* not have: too_fast_travel passes time_travelled, format_problem uses    *)
(* time.  The console accumulator formats it at once (ValidateBroken).     *)
Unprintable == {"TooFastTravel"}

SpeedReport ==
    /\ At("validate") /\ MayReport /\ acc # "console"
    /\ ReportThen(ProblemOf("TooFastTravel", "warning", None),
                  UNCHANGED <<stage, phase, rowNum>> /\ SameRow /\ SameTables)

Validated ==
    At("validate") /\ NextStage /\ Silent /\ Still /\ SameRow /\ SameTables

(* Fault: all problems of the class are said to be missing.                *)
SectionFault(name) ==
    [shown |-> problist[name].problems, more |-> problist[name].count]

(* format_type: the problems of a class, "and %d more of this type".       *)
Section(name) ==
    [shown |-> problist[name].problems,
     more |-> problist[name].count - Len(problist[name].problems)]

(* format_exception needs the text of every problem that was kept.         *)
PageFails ==
    \E name \in DOMAIN problist :
        name[2] \in Unprintable /\ problist[name].problems # <<>>

(* write_output, without the figures of the feed and its calendar.         *)
Page == [state |-> "complete",
         verdict |-> IF HasIssues THEN "fail" ELSE "pass",
         sections |-> [name \in DOMAIN problist |-> Section(name)]]

ExitCode == IF HasIssues THEN "1" ELSE "0"

(* run_validation_output_to_file writes the page before the exit code is   *)
(* given back.                                                             *)
Exit ==
    /\ At("exit")
    /\ acc = "limit" => ~PageFails
    /\ page' = IF acc = "limit" THEN Page ELSE page
    /\ End(ExitCode)

PageBroken == At("exit") /\ acc = "limit" /\ PageFails /\ Crash

(* An IOError of write or close.                                           *)
PageNotWritten ==
    /\ At("exit") /\ acc = "limit" /\ ~PageFails
    /\ page' = [page EXCEPT !.state = "cut off"]
    /\ End("2")

-----------------------------------------------------------------------------
OpenOutput == OutputOpened \/ OutputNotOpened
CheckVersion == VersionIsCurrent \/ NewerVersion \/ VersionUnknown
CheckFeed ==
    \/ ExtensionMissing \/ FormatKnown \/ FormatUnknown \/ UnknownFile \/ NamesChecked
OpenFile ==
    \/ FileSkipped \/ FileMissing \/ FileEmpty \/ FileBroken \/ FileInUtf16
    \/ FileOnlyMark \/ FileOpened
ReadHeader == DuplicateColumn \/ UnrecognizedColumn \/ HeaderRead
ReadRows ==
    \/ BlankRow \/ LineBroken \/ BeginRow \/ RowReport \/ RowBroken
    \/ RowTaken \/ RowDropped \/ RowRejected \/ CalendarRow \/ DatesRow
    \/ MixedLineEnds \/ FileDone
LoadPeriods == BeginPeriod \/ AddPeriod \/ PeriodsAdded
Finish ==
    \/ ValidateReport \/ ValidateBroken \/ SpeedReport \/ Validated \/ Exit
    \/ PageBroken \/ PageNotWritten

(* The process is over.  Any other state without a successor is a deadlock *)
(* of the model.                                                           *)
Ended == outcome # "running" /\ UNCHANGED vars

Next ==
    \/ OpenOutput \/ CheckVersion \/ CheckFeed \/ OpenFile \/ ReadHeader \/ ReadRows
    \/ LoadPeriods \/ Finish \/ Ended

Spec == Init /\ [][Next]_vars

-----------------------------------------------------------------------------
(* Properties.                                                             *)

(* In a row the reporter's context names that row.  Between rows it is     *)
(* cleared, or it is what loader.py's "continue" left behind: the context  *)
(* of a row that was turned down and reported.                             *)
ContextIsCurrentOrRejected ==
    outcome = "running" =>
        \/ context = None
        \/ phase = "row" /\ context = <<current[1], current[2]>>
        \/ /\ phase # "row" /\ context \notin kept /\ context[1] \in Rejecting
           /\ RowWasReported(context)

PeriodsLoaded == \E i \in 1 .. stage - 1 : Stages[i] = "periods"

(* The two calendar files are joined without loss: once they are loaded    *)
(* every service id of either is one period of the schedule, and problems  *)
(* of the period point to its first row, in calendar.txt if it is there.   *)
PeriodsAreComplete ==
    (PeriodsLoaded /\ outcome \in {"running", "0", "1"}) =>
        LET rows == {r \in read : r[1] \in Calendars}
            First(id, r) ==
                \A q \in rows : q[3] = id =>
                    \/ r[1] = q[1] /\ r[2] <= q[2]
                    \/ r[1] = "calendar" /\ q[1] = "calendar_dates"
        IN  /\ services = {r[3] : r \in rows}
            /\ \A id \in services : \E r \in rows :
                  /\ r[3] = id /\ First(id, r)
                  /\ periods[id].context = <<r[1], r[2]>>

(* No row disappears without a word: every row that loader.py read and     *)
(* finished was taken over into the schedule or is the context of a        *)
(* problem, and the rows of the two calendar files end up in complete      *)
(* periods.  (A second row of feed_info.txt is taken over too: it replaces *)
(* the first.)                                                             *)
RowsAreAccountedFor ==
    /\ outcome \in {"running", "0", "1"} =>
          \A r \in read \ {current} :
              <<r[1], r[2]>> \in kept \/ RowWasReported(<<r[1], r[2]>>)
    /\ PeriodsAreComplete

(* What was reported and is not ignored, and of that what is no notice.    *)
Listed == {i \in 1 .. Len(log) : log[i].class \notin IgnoreTypes}
Serious == {i \in Listed : log[i].problem_type # "notice"}

(* The reports of a class, those before the i-th report that are of its    *)
(* class and problem_type, and the classes whose problems have an order of *)
(* their own (__cmp__).                                                    *)
OfClass(class) == {i \in Listed : log[i].class = class}
EarlierLike(i) ==
    {j \in 1 .. i - 1 : /\ log[j].class = log[i].class
                        /\ log[j].problem_type = log[i].problem_type}
Sorted == {"TooFastTravel"}

CountOf(name) == IF name \in DOMAIN problist THEN problist[name].count ELSE 0
ShownOf(name) ==
    IF name \in DOMAIN page.sections
      THEN Len(page.sections[name].shown) + page.sections[name].more ELSE 0

(* LimitPerTypeProblemAccumulator loses count of no problem: the lists of  *)
(* a class count all of its problems, whatever file, row and stage they    *)
(* come from, and none that is ignored.  Each list holds as many of them   *)
(* as limit_per_type allows, none twice.  Of a class without an order of   *)
(* its own it holds only problems with fewer than limit_per_type of their  *)
(* kind before them (testLimitOtherProblems: "The first N of each type     *)
(* should be kept").  Which list of the class a problem is in, and which   *)
(* problems of an ordered class are kept, is not said here.                *)
ListsAreExact ==
    acc = "limit" =>
        /\ \A class \in Classes :
              CountOf(<<"error", class>>) + CountOf(<<"warning", class>>)
                  + CountOf(<<"notice", class>>) = Cardinality(OfClass(class))
        /\ \A name \in DOMAIN problist :
              LET list == problist[name]
                  places == 1 .. Len(list.problems)
              IN  /\ Len(list.problems) = IF list.count < LimitPerType THEN list.count ELSE LimitPerType
                  /\ \E which \in [places -> OfClass(name[2])] :
                        /\ \A j, k \in places : which[j] = which[k] => j = k
                        /\ \A k \in places :
                              /\ list.problems[k] = log[which[k]]
                              /\ name[2] \in Sorted \/ Cardinality(EarlierLike(which[k])) < LimitPerType

(* A validator that says 0 has reported no error or warning in the whole   *)
(* run, from version check to validation, but ignored ones; and it does    *)
(* not say 1 when nothing was reported.  What it says when there were only *)
(* notices is left to TypesAreKept.                                        *)
ExitCodeIsExact ==
    acc # "raise" =>
        /\ outcome = "0" => Serious = {}
        /\ outcome = "1" => Listed # {}

(* The page is complete exactly when the validator says 0 or 1: no crash   *)
(* or failed write leaves a page that looks like a result.  A complete     *)
(* page that calls the feed valid follows a run without errors and         *)
(* warnings, one that does not a run with reports, and its sections show   *)
(* or count every problem of a class that is not ignored, once.            *)
PageIsExact ==
    acc = "limit" =>
        /\ page.state = "complete" <=> outcome \in {"0", "1"}
        /\ page.state = "complete" =>
              /\ page.verdict = "pass" => Serious = {}
              /\ page.verdict = "fail" => Listed # {}
              /\ \A class \in Classes :
                    ShownOf(<<"error", class>>) + ShownOf(<<"warning", class>>)
                        + ShownOf(<<"notice", class>>) = Cardinality(OfClass(class))
              /\ \A name \in DOMAIN page.sections :
                    LET shown == page.sections[name].shown IN
                    \A k \in 1 .. Len(shown) : shown[k] \in {log[i] : i \in OfClass(name[2])}

(* What tests/testfeedvalidator.py expects of the accumulator: a problem   *)
(* is counted under the type it is reported with.  testLimitOtherProblems  *)
(* counts warnings as warnings, and testCheckVersionIsRun expects that a   *)
(* notice of a newer version is not an error on the page and leaves the    *)
(* exit code 0.                                                            *)
TypesAreKept ==
    acc = "limit" =>
        \A type \in Types, class \in Classes :
            CountOf(<<type, class>>) =
                Cardinality({i \in OfClass(class) : log[i].problem_type = type})
=============================================================================
