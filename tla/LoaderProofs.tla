---------------------------- MODULE LoaderProofs ----------------------------
(***************************************************************************)
(* A run of the validator, for any files, rows, problems and bounds: no    *)
(* row is lost, contexts name the row at hand, and lists, exit code and    *)
(* page say what was reported.                                             *)
(***************************************************************************)
EXTENDS Loader, SequenceTheorems, FiniteSetTheorems, WellFoundedInduction, TLAPS

(* The stages one by one. *)
LEMMA StagesAre ==
    /\ Len(Stages) = 20
    /\ Stages[1] = "output" /\ Stages[2] = "version" /\ Stages[3] = "format"
    /\ Stages[4] = "names" /\ Stages[5] = "calendar" /\ Stages[6] = "calendar_dates"
    /\ Stages[7] = "periods" /\ Stages[8] = "shapes"
    /\ Stages[9] = "agency" /\ Stages[10] = "stops" /\ Stages[11] = "routes"
    /\ Stages[12] = "transfers" /\ Stages[13] = "trips" /\ Stages[14] = "fare_attributes"
    /\ Stages[15] = "fare_rules" /\ Stages[16] = "frequencies" /\ Stages[17] = "feed_info"
    /\ Stages[18] = "stop_times" /\ Stages[19] = "validate" /\ Stages[20] = "exit"
  <1> DEFINE Names == {"output", "version", "format", "names", "calendar", "calendar_dates",
                       "periods", "shapes", "agency", "stops", "routes", "transfers", "trips",
                       "fare_attributes", "fare_rules", "frequencies", "feed_info", "stop_times",
                       "validate", "exit"}
             before == <<"output", "version", "format", "names", "calendar", "calendar_dates",
                         "periods", "shapes">>
             after == <<"stop_times", "validate", "exit">>
             first == before \o LoadingOrder
  <1>1. /\ LoadingOrder \in Seq(Names) /\ Len(LoadingOrder) = 9
        /\ LoadingOrder[1] = "agency" /\ LoadingOrder[2] = "stops" /\ LoadingOrder[3] = "routes"
        /\ LoadingOrder[4] = "transfers" /\ LoadingOrder[5] = "trips"
        /\ LoadingOrder[6] = "fare_attributes" /\ LoadingOrder[7] = "fare_rules"
        /\ LoadingOrder[8] = "frequencies" /\ LoadingOrder[9] = "feed_info"
    BY DEF LoadingOrder
  <1>2. /\ before \in Seq(Names) /\ Len(before) = 8
        /\ before[1] = "output" /\ before[2] = "version" /\ before[3] = "format"
        /\ before[4] = "names" /\ before[5] = "calendar" /\ before[6] = "calendar_dates"
        /\ before[7] = "periods" /\ before[8] = "shapes"
    OBVIOUS
  <1>3. /\ after \in Seq(Names) /\ Len(after) = 3
        /\ after[1] = "stop_times" /\ after[2] = "validate" /\ after[3] = "exit"
    OBVIOUS
  <1>4. Stages = first \o after
    BY DEF Stages
  <1> HIDE DEF LoadingOrder, Names, before, after
  <1>5. /\ first \in Seq(Names)
        /\ Len(first) = Len(before) + Len(LoadingOrder)
        /\ \A i \in 1 .. Len(before) + Len(LoadingOrder) :
              first[i] = IF i <= Len(before) THEN before[i] ELSE LoadingOrder[i - Len(before)]
    BY <1>1, <1>2, ConcatProperties, ZenonT(60)
  <1> HIDE DEF first
  <1>6. /\ Len(Stages) = Len(first) + Len(after)
        /\ \A i \in 1 .. Len(first) + Len(after) :
              Stages[i] = IF i <= Len(first) THEN first[i] ELSE after[i - Len(first)]
    <2>1. /\ Len(first \o after) = Len(first) + Len(after)
          /\ \A i \in 1 .. Len(first) + Len(after) :
                (first \o after)[i] = IF i <= Len(first) THEN first[i] ELSE after[i - Len(first)]
      <3>1. first \in Seq(Names) /\ after \in Seq(Names)
        BY <1>3, <1>5
      <3>2. QED
        BY <3>1, ConcatProperties
    <2>2. QED
      BY <2>1, <1>4
  <1>7. QED
    BY <1>1, <1>2, <1>3, <1>5, <1>6

(* No stage comes twice, and which of them read a file. *)
LEMMA StagesOrder ==
    ASSUME NEW i \in 1 .. 20, NEW j \in 1 .. 20
    PROVE  /\ Stages[i] = Stages[j] => i = j
           /\ Stages[i] \in Files <=> i \in {5, 6} \cup (8 .. 18)
           /\ Stages[i] \in Calendars <=> i \in {5, 6}
  <1>1. i \in {1, 2, 3, 4, 5, 6, 7, 8, 9, 10, 11, 12, 13, 14, 15, 16, 17, 18, 19, 20}
    OBVIOUS
  <1>2. j \in {1, 2, 3, 4, 5, 6, 7, 8, 9, 10, 11, 12, 13, 14, 15, 16, 17, 18, 19, 20}
    OBVIOUS
  <1>3. FeedFiles = {"agency", "stops", "routes", "transfers", "trips", "fare_attributes",
                     "fare_rules", "frequencies", "feed_info"}
    <2>1. Len(LoadingOrder) = 9
      BY DEF LoadingOrder
    <2>2. 1 .. 9 = {1, 2, 3, 4, 5, 6, 7, 8, 9}
      OBVIOUS
    <2>3. QED
      BY <2>1, <2>2 DEF FeedFiles, LoadingOrder
  <1>4. Stages[i] = Stages[j] => i = j
    BY <1>1, <1>2, StagesAre
  <1>5. Stages[i] \in Files <=> i \in {5, 6} \cup (8 .. 18)
    BY <1>1, <1>3, StagesAre DEF Files, Calendars
  <1>6. Stages[i] \in Calendars <=> i \in {5, 6}
    BY <1>1, StagesAre DEF Calendars
  <1>7. QED
    BY <1>4, <1>5, <1>6
(* A nonempty set of numbers has a least one. *)
LEMMA LeastNumber ==
    ASSUME NEW S \in SUBSET Nat, S # {}
    PROVE  \E x \in S : \A y \in S : x <= y
  <1> DEFINE R == OpToRel(<, Nat)
  <1>1. PICK x \in S : \A y \in S : ~(<<y, x>> \in R)
    BY NatLessThanWellFounded, WFMin
  <1>2. ASSUME NEW y \in S, ~(x <= y)
        PROVE  FALSE
    <2>1. x \in Nat /\ y \in Nat /\ y < x
      BY <1>2
    <2>2. <<y, x>> \in R
      BY <2>1, Zenon DEF OpToRel
    <2>3. QED
      BY <2>2, <1>1
  <1>3. QED
    BY <1>2

(* NextStage goes to a later stage and never passes over "periods". *)
LEMMA NextStageMoves ==
    ASSUME stage \in 1 .. 19, NextStage
    PROVE  /\ stage' \in stage + 1 .. 20
           /\ stage < 7 => stage' <= 7
           /\ phase' = "open" /\ rowNum' = 0
  <1> DEFINE S == {i \in stage + 1 .. 20 : Visited(i)}
             IsNext(i) == Visited(i) /\ \A j \in stage + 1 .. i - 1 : ~ Visited(j)
  <1>1. 20 \in S
    BY StagesOrder DEF Visited
  <1>2. S \in SUBSET Nat /\ S # {}
    BY <1>1
  <1>3. PICK x \in S : \A y \in S : x <= y
    BY <1>2, LeastNumber
  <1>4. x \in stage + 1 .. 20 /\ IsNext(x)
    BY <1>3
  <1>5. stage' = CHOOSE i \in stage + 1 .. 20 : IsNext(i)
    BY StagesAre DEF NextStage
  <1> HIDE DEF IsNext
  <1>6. stage' \in stage + 1 .. 20 /\ IsNext(stage')
    BY <1>4, <1>5
  <1>7. Visited(7)
    BY StagesOrder DEF Visited
  <1>8. ASSUME stage < 7, stage' > 7
        PROVE  FALSE
    <2>1. 7 \in stage + 1 .. stage' - 1
      <3> DEFINE next == stage'
      <3>1. next \in stage + 1 .. 20 /\ stage < 7 /\ next > 7
        BY <1>6, <1>8
      <3> HIDE DEF next
      <3>2. 7 \in stage + 1 .. next - 1
        BY <3>1
      <3>3. QED
        BY <3>2 DEF next
    <2>2. QED
      BY <2>1, <1>6, <1>7 DEF IsNext
  <1>9. QED
    BY <1>6, <1>8 DEF NextStage

-----------------------------------------------------------------------------
(* The inductive invariant.                                                *)

Row(r) == <<r[1], r[2]>>
InProgress(r) == phase = "row" /\ File \in Files /\ r = current
Alive == outcome \in {"running", "0", "1"}

(* Where the rows that were read come from: a stage up to this one, and in *)
(* this one a line up to this one.                                         *)
ReadInv ==
    /\ \A r \in read : \E i \in 1 .. stage :
          Stages[i] = r[1] /\ (i = stage => r[2] <= rowNum)
    /\ phase \in {"open", "header", "columns"} => rowNum = 0
    /\ phase # "open" => stage \in 5 .. 18
    /\ \A c \in kept : \E r \in read : Row(r) = c

(* The row at hand and the context of the reporter.                        *)
ContextInv ==
    outcome = "running" =>
        /\ phase = "row" =>
              /\ context = Row(current)
              /\ File \in Files =>
                    /\ current \in read /\ current[1] = File /\ current[2] = rowNum
                    /\ context \notin kept
                    /\ File \in Calendars => current[3] \in ServiceIds
              /\ File \notin Files => current[3] \in DOMAIN periods
        /\ phase # "row" =>
              /\ current = None
              /\ \/ context = None
                 \/ context \notin kept /\ context[1] \in Rejecting /\ RowWasReported(context)

(* A row that is not at hand any more was taken over or reported.          *)
RowsInv ==
    Alive => \A r \in read :
        InProgress(r) \/ Row(r) \in kept \/ RowWasReported(Row(r))

(* No row of the calendar files for the same id comes before r.            *)
FirstOf(r) ==
    \A q \in read : (q[1] \in Calendars /\ q[3] = r[3]) =>
        \/ r[1] = q[1] /\ r[2] <= q[2]
        \/ r[1] = "calendar" /\ q[1] = "calendar_dates"

(* Every finished row of the calendar files has its period, and every      *)
(* period the first row of its id.                                         *)
PeriodsInv ==
    Alive =>
        /\ \A r \in read : r[1] \in Calendars => InProgress(r) \/ r[3] \in DOMAIN periods
        /\ \A id \in DOMAIN periods : \E r \in read :
              /\ r[1] \in Calendars /\ r[3] = id /\ FirstOf(r)
              /\ periods[id].context = Row(r)
        /\ services \subseteq DOMAIN periods
        /\ stage > 7 => DOMAIN periods \subseteq services

(* The list a problem belongs to, the places in the log of the problems of *)
(* one list, and the number of the i-th problem in its list.               *)
ListOf(e) == <<TypeOf(e), e.class>>
OfList(name) == {i \in 1 .. Len(log) : ListOf(log[i]) = name}
Rank(i) == Cardinality({j \in 1 .. i : ListOf(log[j]) = ListOf(log[i])})

(* LimitPerTypeProblemAccumulator has a list exactly for the types and     *)
(* classes that were reported and are not ignored; each counts all of them *)
(* and keeps the first limit_per_type, whatever file, row and stage they   *)
(* come from: the k-th problem of a list is the k-th that was reported.    *)
ListsKeepTheFirst ==
    acc = "limit" =>
        /\ DOMAIN problist = {ListOf(log[i]) : i \in {j \in 1 .. Len(log) : log[j].class \notin IgnoreTypes}}
        /\ \A name \in DOMAIN problist :
              LET list == problist[name] IN
              /\ list.count = Cardinality(OfList(name))
              /\ Len(list.problems) = IF list.count < LimitPerType THEN list.count ELSE LimitPerType
              /\ \A k \in 1 .. Len(list.problems) :
                    \E i \in OfList(name) : Rank(i) = k /\ list.problems[k] = log[i]

(* What the lists and counters know of the log.                            *)
ListsInv ==
    /\ ListsKeepTheFirst
    /\ acc # "limit" => DOMAIN problist = {}

TallyInv ==
    /\ tally["warning"] = 0
    /\ acc # "console" => tally["error"] = 0
    /\ acc = "console" => (tally["error"] > 0 <=> Listed # {})

(* The page and the exit code come from the lists at the end.              *)
EndInv ==
    /\ page = [state |-> page.state, verdict |-> page.verdict, sections |-> page.sections]
    /\ page.state = "complete" => outcome \in {"0", "1"}
    /\ outcome \in {"0", "1"} =>
          stage = 20 /\ outcome = ExitCode /\ (acc = "limit" => page = Page)

IInv ==
    /\ TypeOK /\ ReadInv /\ ContextInv /\ RowsInv /\ PeriodsInv
    /\ ListsInv /\ TallyInv /\ EndInv

-----------------------------------------------------------------------------
(* Every step is of one kind for the lists, the page and the outcome, and  *)
(* of one kind for the stages, rows and periods.                           *)

Reports == (\E e \in Problem : Report(e)) /\ UNCHANGED page

Quiet ==
    /\ UNCHANGED <<problist, tally, log>>
    /\ \/ UNCHANGED page /\ outcome' \in {outcome, "crash", "2"}
       \/ /\ page' = [page EXCEPT !.state = IF acc = "limit" THEN "empty" ELSE page.state]
          /\ outcome' = outcome
       \/ Exit
       \/ page' = [page EXCEPT !.state = "cut off"] /\ outcome' = "2"

StaysPut ==
    UNCHANGED <<stage, phase, current, rowNum, context, periods, services, read, kept>>

(* To a later stage. *)
Onward ==
    /\ stage' \in stage + 1 .. 20 /\ phase' = "open" /\ rowNum' = 0
    /\ stage < 7 => stage' <= 7 \/ stage = 3
    /\ stage = 7 => DOMAIN periods \subseteq services

(* Further in the file, outside a row. *)
Within ==
    /\ UNCHANGED stage /\ File \in Files
    /\ phase' \in {"header", "columns", "rows"} /\ rowNum' \in Nat /\ rowNum' >= rowNum
    /\ phase' # "rows" => rowNum' = rowNum /\ phase # "rows"

Ahead ==
    /\ phase # "row" /\ (Onward \/ Within)
    /\ UNCHANGED <<current, periods, services, read, kept>>
    /\ context' \in {context, None}

RowStep ==
    \/ BeginRow \/ RowTaken \/ RowDropped \/ RowRejected \/ CalendarRow \/ DatesRow
    \/ BeginPeriod \/ AddPeriod

Kind ==
    /\ outcome = "running" /\ UNCHANGED <<acc, present>>
    /\ Reports \/ Quiet
    /\ StaysPut \/ Ahead \/ RowStep

LEMMA ProblemOfType ==
    ASSUME context \in Contexts, NEW class \in Classes, NEW type \in Types, NEW c \in Contexts
    PROVE  ProblemOf(class, type, c) \in Problem
  BY DEF ProblemOf, Problem

LEMMA OfFileType ==
    ASSUME NEW e \in Problem, NEW file \in Files
    PROVE  OfFile(e, file) \in Problem
  <1>1. (IF e.context = None THEN 0 ELSE e.context[2]) \in Nat
    BY DEF Problem, Contexts
  <1>2. <<file, IF e.context = None THEN 0 ELSE e.context[2]>> \in Contexts
    BY <1>1 DEF Contexts
  <1>3. QED
    BY <1>2 DEF OfFile, Problem

(* The stages by name. *)
LEMMA AtStage ==
    ASSUME stage \in 1 .. 20
    PROVE  /\ At("output") => stage = 1
           /\ At("version") => stage = 2
           /\ At("format") => stage = 3
           /\ At("names") => stage = 4
           /\ At("periods") => stage = 7
           /\ At("validate") => stage = 19
           /\ At("exit") => stage = 20
           /\ Reading => stage \in {5, 6} \cup (8 .. 18)
           /\ File \in Files <=> stage \in {5, 6} \cup (8 .. 18)
           /\ File \in Calendars <=> stage \in {5, 6}
           /\ File = "calendar" <=> stage = 5
           /\ File = "calendar_dates" <=> stage = 6
  <1>1. \A i \in 1 .. 20 : Stages[i] = Stages[stage] => i = stage
    BY StagesOrder
  <1>2. Stages[stage] \in Files <=> stage \in {5, 6} \cup (8 .. 18)
    BY StagesOrder
  <1>3. Stages[stage] \in Calendars <=> stage \in {5, 6}
    BY StagesOrder
  <1>4. QED
    BY <1>1, <1>2, <1>3, StagesAre DEF At, Reading, File

LEMMA GoToValidate == GoTo("validate") => stage' = 19 /\ phase' = "open" /\ rowNum' = 0
  <1>1. \A i \in 1 .. 20 : Stages[i] = Stages[19] => i = 19
    BY StagesOrder
  <1>2. QED
    BY <1>1, StagesAre DEF GoTo

LEMMA BeforeFilesKind ==
    ASSUME TypeOK, ReadInv, OpenOutput \/ CheckVersion \/ CheckFeed
    PROVE  Kind
  <1> stage \in 1 .. 20 /\ context \in Contexts
    BY StagesAre DEF TypeOK
  <1> stage \in 1 .. 4 => phase # "row"
    BY DEF ReadInv
  <1> None \in Contexts
    BY DEF Contexts
  <1>1. CASE OutputOpened
    BY <1>1, AtStage, NextStageMoves
       DEF OutputOpened, Kind, Quiet, Ahead, Onward, Silent, SameRow, SameTables, At
  <1>2. CASE OutputNotOpened
    BY <1>2 DEF OutputNotOpened, End, Kind, Quiet, StaysPut, At
  <1>3. CASE VersionIsCurrent
    BY <1>3, AtStage, NextStageMoves
       DEF VersionIsCurrent, Kind, Quiet, Ahead, Onward, Silent, Still, SameTables, At
  <1>4. CASE NewerVersion
    <2>1. ProblemOf("NewVersionAvailable", "notice", None) \in Problem
      BY ProblemOfType DEF Classes, Types
    <2>2. QED
      BY <1>4, <2>1, AtStage, NextStageMoves
         DEF NewerVersion, ReportThen, Kind, Reports, StaysPut, Ahead, Onward, Still, SameRow,
             SameTables, At
  <1>5. CASE VersionUnknown
    BY <1>5 DEF VersionUnknown, Crash, End, Kind, Quiet, StaysPut, At
  <1>6. CASE ExtensionMissing
    BY <1>6 DEF ExtensionMissing, End, Kind, Quiet, StaysPut, At
  <1>7. CASE FormatKnown
    BY <1>7, AtStage, NextStageMoves
       DEF FormatKnown, Kind, Quiet, Ahead, Onward, Silent, Still, SameRow, SameTables, At
  <1>8. CASE FormatUnknown
    <2>1. PICK class \in {"FeedNotFound", "UnknownFormat"} :
             ReportThen(ProblemOf(class, "error", None),
                        GoTo("validate") /\ SameRow /\ SameTables)
      BY <1>8 DEF FormatUnknown
    <2>2. ProblemOf(class, "error", None) \in Problem
      BY ProblemOfType DEF Classes, Types
    <2>3. QED
      BY <1>8, <2>1, <2>2, AtStage, GoToValidate
         DEF FormatUnknown, ReportThen, Kind, Reports, StaysPut, Ahead, Onward, Still, SameRow,
             SameTables, At
  <1>9. CASE UnknownFile
    <2>1. ProblemOf("UnknownFile", "warning", None) \in Problem
      BY ProblemOfType DEF Classes, Types
    <2>2. QED
      BY <1>9, <2>1
         DEF UnknownFile, ReportThen, Kind, Reports, StaysPut, Still, SameRow, SameTables, At
  <1>10. CASE NamesChecked
    BY <1>10, AtStage, NextStageMoves
       DEF NamesChecked, Kind, Quiet, Ahead, Onward, Silent, Still, SameRow, SameTables, At
  <1>11. QED
    BY <1>1, <1>2, <1>3, <1>4, <1>5, <1>6, <1>7, <1>8, <1>9, <1>10
       DEF OpenOutput, CheckVersion, CheckFeed

LEMMA OpenFileKind ==
    ASSUME TypeOK, ReadInv, OpenFile \/ ReadHeader
    PROVE  Kind
  <1> stage \in 1 .. 20 /\ context \in Contexts /\ rowNum \in Nat
    BY StagesAre DEF TypeOK
  <1> None \in Contexts /\ (File \in Files => <<File, 0>> \in Contexts /\ <<File, 1>> \in Contexts)
    BY DEF Contexts
  <1>1. CASE FileSkipped
    BY <1>1, AtStage, NextStageMoves
       DEF FileSkipped, Kind, Quiet, Ahead, Onward, Silent, Still, SameRow, SameTables, Opening,
           Reading
  <1>2. CASE FileMissing
    <2>1. OfFile(ProblemOf("MissingFile", "error", None), File) \in Problem
      BY <1>2, ProblemOfType, OfFileType DEF Classes, Types, FileMissing, Opening, Reading
    <2>2. QED
      BY <1>2, <2>1, AtStage, NextStageMoves
         DEF FileMissing, ReportThen, Kind, Reports, StaysPut, Ahead, Onward, Still, SameRow,
             SameTables, Opening, Reading
  <1>3. CASE FileEmpty
    <2>1. OfFile(ProblemOf("EmptyFile", "error", None), File) \in Problem
      BY <1>3, ProblemOfType, OfFileType DEF Classes, Types, FileEmpty, Opening, Reading
    <2>2. QED
      BY <1>3, <2>1, AtStage, NextStageMoves
         DEF FileEmpty, ReportThen, Kind, Reports, StaysPut, Ahead, Onward, Still, SameRow,
             SameTables, Opening, Reading
  <1>4. CASE FileBroken
    BY <1>4 DEF FileBroken, Crash, End, Kind, Quiet, StaysPut, Reading
  <1>5. CASE FileInUtf16
    <2>1. ProblemOf("FileFormat", "error", <<File, 0>>) \in Problem
      BY <1>5, ProblemOfType DEF Classes, Types, FileInUtf16, Opening, Reading
    <2>2. QED
      BY <1>5, <2>1
         DEF FileInUtf16, ReportThen, Kind, Reports, StaysPut, Ahead, Within, Still, SameRow,
             SameTables, Opening, Reading
  <1>6. CASE FileOnlyMark
    BY <1>6, AtStage, NextStageMoves
       DEF FileOnlyMark, Kind, Quiet, Ahead, Onward, Silent, Still, SameRow, SameTables, Opening,
           Reading
  <1>7. CASE FileOpened
    BY <1>7
       DEF FileOpened, Kind, Quiet, Ahead, Within, Silent, Still, SameRow, SameTables, Opening,
           Reading
  <1>8. CASE DuplicateColumn
    <2>1. OfFile(ProblemOf("DuplicateColumn", "error", None), File) \in Problem
      BY <1>8, ProblemOfType, OfFileType DEF Classes, Types, DuplicateColumn, InHeader, Reading
    <2>2. QED
      BY <1>8, <2>1
         DEF DuplicateColumn, ReportThen, Kind, Reports, StaysPut, Still, SameRow, SameTables,
             InHeader, Reading
  <1>9. CASE UnrecognizedColumn
    <2>1. ProblemOf("UnrecognizedColumn", "warning", <<File, 1>>) \in Problem
      BY <1>9, ProblemOfType DEF Classes, Types, UnrecognizedColumn, InHeader, Reading
    <2>2. QED
      BY <1>9, <2>1
         DEF UnrecognizedColumn, ReportThen, Kind, Reports, StaysPut, Ahead, Within, Still,
             SameRow, SameTables, InHeader, Reading
  <1>10. CASE HeaderRead
    <2>1. rowNum = 0
      BY <1>10 DEF HeaderRead, InHeader, ReadInv
    <2>2. QED
      BY <1>10, <2>1
         DEF HeaderRead, Kind, Quiet, Ahead, Within, Silent, Still, SameRow, SameTables, InHeader,
             Reading
  <1>11. QED
    BY <1>1, <1>2, <1>3, <1>4, <1>5, <1>6, <1>7, <1>8, <1>9, <1>10 DEF OpenFile, ReadHeader

LEMMA ReadRowsKind ==
    ASSUME TypeOK, ReadInv, ReadRows
    PROVE  Kind
  <1> stage \in 1 .. 20 /\ context \in Contexts /\ rowNum \in Nat
    BY StagesAre DEF TypeOK
  <1> None \in Contexts /\ (File \in Files => <<File, 0>> \in Contexts)
    BY DEF Contexts
  <1>1. CASE BlankRow
    BY <1>1
       DEF BlankRow, Kind, Quiet, Ahead, Within, Silent, Still, SameRow, SameTables, BetweenRows,
           Reading
  <1>2. CASE LineBroken
    BY <1>2 DEF LineBroken, Crash, End, Kind, Quiet, StaysPut, BetweenRows, Reading
  <1>3. CASE BeginRow
    BY <1>3 DEF BeginRow, Kind, Quiet, RowStep, Silent, Still, BetweenRows, Reading
  <1>4. CASE RowReport
    <2>1. PICK type \in {"error", "warning"} :
             ReportThen(ProblemOf("InvalidValue", type, None),
                        UNCHANGED <<stage, phase, rowNum>> /\ SameRow /\ SameTables)
      BY <1>4 DEF RowReport
    <2>2. ProblemOf("InvalidValue", type, None) \in Problem
      BY ProblemOfType DEF Classes, Types
    <2>3. QED
      BY <1>4, <2>1, <2>2
         DEF RowReport, ReportThen, Kind, Reports, StaysPut, Still, SameRow, SameTables, InRow
  <1>5. CASE RowBroken
    BY <1>5 DEF RowBroken, Crash, End, Kind, Quiet, StaysPut, InRow
  <1>6. CASE RowTaken
    BY <1>6 DEF RowTaken, Kind, Quiet, RowStep, Silent, Still, InRow
  <1>7. CASE RowDropped
    BY <1>7 DEF RowDropped, Kind, Quiet, RowStep, Silent, Still, InRow
  <1>8. CASE RowRejected
    BY <1>8 DEF RowRejected, Kind, Quiet, RowStep, Silent, Still, InRow
  <1>9. CASE CalendarRow
    <2>1. ProblemOf("DuplicateID", "error", None) \in Problem
      BY ProblemOfType DEF Classes, Types
    <2>2. QED
      BY <1>9, <2>1
         DEF CalendarRow, ReportThen, Kind, Reports, Quiet, RowStep, Silent, Still, InRow
  <1>10. CASE DatesRow
    <2>1. /\ ProblemOf("DuplicateID", "warning", None) \in Problem
          /\ ProblemOf("InvalidValue", "error", None) \in Problem
      BY ProblemOfType DEF Classes, Types
    <2>2. outcome = "running" /\ UNCHANGED <<acc, present>> /\ (Reports \/ Quiet)
      BY <1>10, <2>1 DEF DatesRow, ReportThen, Reports, Quiet, Silent, Still, InRow
    <2>3. QED
      BY <1>10, <2>2 DEF Kind, RowStep
  <1>11. CASE MixedLineEnds
    <2>1. ProblemOf("OtherProblem", "error", <<File, 0>>) \in Problem
      BY <1>11, ProblemOfType DEF Classes, Types, MixedLineEnds, BetweenRows, Reading
    <2>2. QED
      BY <1>11, <2>1, AtStage, NextStageMoves
         DEF MixedLineEnds, ReportThen, Kind, Reports, StaysPut, Ahead, Onward, Still, SameRow,
             SameTables, BetweenRows, Reading
  <1>12. CASE FileDone
    BY <1>12, AtStage, NextStageMoves
       DEF FileDone, Kind, Quiet, Ahead, Onward, Silent, Still, SameRow, SameTables, BetweenRows,
           Reading
  <1>13. QED
    BY <1>1, <1>2, <1>3, <1>4, <1>5, <1>6, <1>7, <1>8, <1>9, <1>10, <1>11, <1>12 DEF ReadRows

LEMMA FinishKind ==
    ASSUME TypeOK, ReadInv, LoadPeriods \/ Finish
    PROVE  Kind
  <1> stage \in 1 .. 20 /\ context \in Contexts
    BY StagesAre DEF TypeOK
  <1> stage \in 19 .. 20 => phase # "row"
    BY DEF ReadInv
  <1> None \in Contexts
    BY DEF Contexts
  <1>1. CASE BeginPeriod
    BY <1>1 DEF BeginPeriod, Kind, Quiet, RowStep, Silent, Still, At
  <1>2. CASE AddPeriod
    BY <1>2 DEF AddPeriod, Kind, Quiet, RowStep, Silent, Still, At
  <1>3. CASE PeriodsAdded
    BY <1>3, AtStage, NextStageMoves
       DEF PeriodsAdded, Kind, Quiet, Ahead, Onward, Silent, Still, SameRow, SameTables, At
  <1>4. CASE ValidateReport
    <2>1. ProblemOf("UnusedStop", "warning", None) \in Problem
      BY ProblemOfType DEF Classes, Types
    <2>2. QED
      BY <1>4, <2>1
         DEF ValidateReport, ReportThen, Kind, Reports, StaysPut, Still, SameRow, SameTables, At
  <1>5. CASE ValidateBroken
    BY <1>5 DEF ValidateBroken, Crash, End, Kind, Quiet, StaysPut, At
  <1>6. CASE SpeedReport
    <2>1. ProblemOf("TooFastTravel", "warning", None) \in Problem
      BY ProblemOfType DEF Classes, Types
    <2>2. QED
      BY <1>6, <2>1
         DEF SpeedReport, ReportThen, Kind, Reports, StaysPut, Still, SameRow, SameTables, At
  <1>7. CASE Validated
    BY <1>7, AtStage, NextStageMoves
       DEF Validated, Kind, Quiet, Ahead, Onward, Silent, Still, SameRow, SameTables, At
  <1>8. CASE Exit
    BY <1>8 DEF Exit, End, Kind, Quiet, StaysPut, At
  <1>9. CASE PageBroken
    BY <1>9 DEF PageBroken, Crash, End, Kind, Quiet, StaysPut, At
  <1>10. CASE PageNotWritten
    BY <1>10 DEF PageNotWritten, End, Kind, Quiet, StaysPut, At
  <1>11. QED
    BY <1>1, <1>2, <1>3, <1>4, <1>5, <1>6, <1>7, <1>8, <1>9, <1>10 DEF LoadPeriods, Finish

LEMMA EveryStepHasAKind ==
    ASSUME TypeOK, ReadInv, [Next]_vars
    PROVE  Kind \/ UNCHANGED vars
  BY BeforeFilesKind, OpenFileKind, ReadRowsKind, FinishKind DEF Next, Ended

-----------------------------------------------------------------------------
(* The lists and counters of problems.                                     *)

LEMMA TypeIsError ==
    ASSUME NEW e \in Problem
    PROVE  TypeOf(e) = "error" /\ ListOf(e) = <<"error", e.class>>
  BY DEF TypeOf, ListOf, Problem

LEMMA LogGrows ==
    ASSUME TypeOK, Kind
    PROVE  /\ log' \in Seq(Problem) /\ Len(log') >= Len(log)
           /\ \A i \in 1 .. Len(log) : log'[i] = log[i]
           /\ \A c : RowWasReported(c) => RowWasReported(c)'
  <1> log \in Seq(Problem) /\ Len(log) \in Nat
    BY DEF TypeOK
  <1>1. log' = log \/ \E e \in Problem : log' = Append(log, e)
    BY DEF Kind, Reports, Quiet, Report
  <1>2. /\ log' \in Seq(Problem) /\ Len(log') >= Len(log)
        /\ \A i \in 1 .. Len(log) : log'[i] = log[i]
    <2>1. CASE log' = log
      BY <2>1
    <2>2. CASE \E e \in Problem : log' = Append(log, e)
      BY <2>2
    <2>3. QED
      BY <1>1, <2>1, <2>2
  <1>3. \A i \in 1 .. Len(log) : i \in 1 .. Len(log') /\ log'[i] = log[i]
    BY <1>2
  <1>4. QED
    BY <1>2, <1>3 DEF RowWasReported

(* The lists after a report. *)
LEMMA AddToListType ==
    ASSUME NEW list \in ProblemList, NEW e \in Problem
    PROVE  AddToList(list, e) \in ProblemList
  <1>1. list.count + 1 \in Nat /\ list.problems \in Seq(Problem)
    BY DEF ProblemList
  <1>2. <<e>> \in Seq(Problem) /\ <<>> \in Seq(Problem) /\ Append(list.problems, e) \in Seq(Problem)
    BY <1>1
  <1>3. QED
    BY <1>1, <1>2 DEF AddToList, ProblemList

LEMMA ReportType ==
    ASSUME TypeOK, Kind
    PROVE  /\ DOMAIN problist' \subseteq Types \X Classes
           /\ \A name \in DOMAIN problist' : problist'[name] \in ProblemList
           /\ tally' \in [Types -> Nat]
           /\ outcome' \in {"running", "raised", "crash", "0", "1", "2"}
  <1>1. CASE Quiet
    BY <1>1 DEF TypeOK, Kind, Quiet, Exit, End, ExitCode
  <1>2. CASE Reports
    <2>1. PICK e \in Problem : Report(e)
      BY <1>2 DEF Reports
    <2> DEFINE name == <<TypeOf(e), e.class>>
    <2>2. name \in Types \X Classes /\ TypeOf(e) = "error" /\ "error" \in Types
      BY TypeIsError DEF Types, Problem
    <2>3. [count |-> 0, problems |-> <<>>] \in ProblemList
      BY DEF ProblemList
    <2>4. DOMAIN AddToMap(name, e) = DOMAIN problist \cup {name}
      BY DEF AddToMap
    <2>5. \A n \in DOMAIN AddToMap(name, e) : AddToMap(name, e)[n] \in ProblemList
      BY <2>3, AddToListType DEF AddToMap, TypeOK
    <2>6. /\ DOMAIN problist' \subseteq Types \X Classes
          /\ \A n \in DOMAIN problist' : problist'[n] \in ProblemList
      BY <2>1, <2>2, <2>4, <2>5 DEF Report, TypeOK
    <2>7. tally' \in [Types -> Nat]
      BY <2>1, <2>2 DEF Report, TypeOK
    <2>8. outcome' \in {"running", "raised"}
      BY <2>1 DEF Report
    <2>9. QED
      BY <2>6, <2>7, <2>8
  <1>3. QED
    BY <1>1, <1>2 DEF Kind

(* What OfList and Rank become when a problem is logged. *)
LEMMA OfListGrows ==
    ASSUME TypeOK, NEW e \in Problem, log' = Append(log, e)
    PROVE  /\ \A n : /\ IsFiniteSet(OfList(n)) /\ Cardinality(OfList(n)) \in Nat
                     /\ n # ListOf(e) => OfList(n)' = OfList(n)
           /\ OfList(ListOf(e))' = OfList(ListOf(e)) \cup {Len(log) + 1}
           /\ Cardinality(OfList(ListOf(e))') = Cardinality(OfList(ListOf(e))) + 1
           /\ \A i \in 1 .. Len(log) : Rank(i)' = Rank(i)
           /\ \A i : i = Len(log) + 1 => Rank(i)' = Cardinality(OfList(ListOf(e))) + 1
  <1> DEFINE name == ListOf(e)
             N == Len(log)
  <1>1. /\ N \in Nat /\ Len(log') = N + 1 /\ log'[N + 1] = e
        /\ \A i \in 1 .. N : log'[i] = log[i]
    BY DEF TypeOK
  <1>2. \A n : IsFiniteSet(OfList(n)) /\ Cardinality(OfList(n)) \in Nat
    <2> TAKE n
    <2>1. OfList(n) \subseteq 1 .. N /\ IsFiniteSet(1 .. N)
      BY <1>1, FS_Interval DEF OfList
    <2>2. QED
      BY <2>1, FS_Subset, FS_CardinalityType
  <1>3. \A n : n # name => OfList(n)' = OfList(n)
    BY <1>1 DEF OfList, ListOf, TypeOf
  <1>4. OfList(name)' = OfList(name) \cup {N + 1}
    BY <1>1 DEF OfList, ListOf, TypeOf
  <1>5. N + 1 \notin OfList(name)
    BY <1>1 DEF OfList
  <1>6. Cardinality(OfList(name) \cup {N + 1}) = Cardinality(OfList(name)) + 1
    BY <1>2, <1>5, FS_AddElement
  <1>7. \A i \in 1 .. N : Rank(i)' = Rank(i)
    <2> TAKE i \in 1 .. N
    <2>1. \A j \in 1 .. i : j \in 1 .. N
      BY <1>1
    <2>2. {j \in 1 .. i : ListOf(log'[j]) = ListOf(log'[i])} = {j \in 1 .. i : ListOf(log[j]) = ListOf(log[i])}
      BY <1>1, <2>1
    <2>3. QED
      BY <2>2 DEF Rank, ListOf, TypeOf
  <1>8. \A i : i = N + 1 => Rank(i)' = Cardinality(OfList(name)')
    <2> TAKE i
    <2> HAVE i = N + 1
    <2>1. {j \in 1 .. i : ListOf(log'[j]) = ListOf(log'[i])}
            = {j \in 1 .. Len(log') : ListOf(log'[j]) = name}
      BY <1>1
    <2>2. QED
      BY <2>1 DEF Rank, OfList, ListOf, TypeOf
  <1>9. QED
    BY <1>2, <1>3, <1>4, <1>6, <1>7, <1>8

(* One more problem in its list. *)
LEMMA AddToListIsExact ==
    ASSUME NEW list \in ProblemList, NEW e \in Problem,
           Len(list.problems) = IF list.count < LimitPerType THEN list.count ELSE LimitPerType
    PROVE  LET new == AddToList(list, e) IN
           /\ new.count = list.count + 1
           /\ Len(new.problems) = IF new.count < LimitPerType THEN new.count ELSE LimitPerType
           /\ Len(new.problems) \in {Len(list.problems), Len(list.problems) + 1}
           /\ \A k \in 1 .. Len(list.problems) : new.problems[k] = list.problems[k]
           /\ Len(new.problems) = Len(list.problems) + 1 =>
                 /\ Len(new.problems) = new.count
                 /\ new.problems[Len(new.problems)] = e
  <1> DEFINE P == list.problems
             c == list.count
             new == AddToList(list, e)
  <1>1. P \in Seq(Problem) /\ Len(P) \in Nat /\ c \in Nat /\ LimitPerType \in Nat
    BY LoaderAssumption DEF ProblemList
  <1>2. new.count = c + 1
    BY DEF AddToList
  <1>3. CASE c + 1 <= LimitPerType
    <2>1. Len(P) = c
      BY <1>1, <1>3
    <2>2. new.problems = Append(P, e)
      <3>1. CASE P = <<>>
        BY <1>1, <1>3, <3>1 DEF AddToList
      <3>2. CASE P # <<>>
        BY <1>1, <1>3, <3>2 DEF AddToList
      <3>3. QED
        BY <3>1, <3>2
    <2>3. /\ Len(Append(P, e)) = Len(P) + 1 /\ Append(P, e)[Len(P) + 1] = e
          /\ \A k \in 1 .. Len(P) : Append(P, e)[k] = P[k]
      BY <1>1
    <2> HIDE DEF P, c, new
    <2>4. QED
      BY <1>1, <1>2, <1>3, <2>1, <2>2, <2>3 DEF P, c, new
  <1>4. CASE ~(c + 1 <= LimitPerType)
    <2>1. Len(P) = LimitPerType
      BY <1>1, <1>4
    <2>2. new.problems = P
      BY <1>1, <1>4 DEF AddToList
    <2>3. QED
      BY <1>1, <1>2, <1>4, <2>1, <2>2
  <1>5. QED
    BY <1>3, <1>4

LEMMA ListsStep ==
    ASSUME TypeOK, ListsInv, Kind
    PROVE  ListsInv'
  <1>1. CASE UNCHANGED <<log, problist>>
    <2>1. acc' = acc /\ log' = log /\ problist' = problist
      BY <1>1 DEF Kind
    <2>2. (\A n : OfList(n)' = OfList(n)) /\ \A i : Rank(i)' = Rank(i)
      BY <2>1 DEF OfList, Rank, ListOf, TypeOf
    <2>3. QED
      BY <2>1, <2>2 DEF ListsInv, ListsKeepTheFirst, ListOf, TypeOf
  <1>2. ASSUME NEW e \in Problem, Report(e)
        PROVE  ListsInv'
    <2> DEFINE name == ListOf(e)
               N == Len(log)
               list == IF name \in DOMAIN problist THEN problist[name]
                       ELSE [count |-> 0, problems |-> <<>>]
               new == AddToList(list, e)
    <2>1. acc' = acc /\ log' = Append(log, e)
      BY <1>2 DEF Kind, Report
    <2>2. /\ N \in Nat /\ Len(log') = N + 1 /\ log'[N + 1] = e
          /\ \A i \in 1 .. N : log'[i] = log[i] /\ log[i] \in Problem
      BY <2>1 DEF TypeOK
    <2>3. /\ \A n : /\ IsFiniteSet(OfList(n)) /\ Cardinality(OfList(n)) \in Nat
                    /\ n # name => OfList(n)' = OfList(n)
          /\ OfList(name)' = OfList(name) \cup {N + 1}
          /\ Cardinality(OfList(name)') = Cardinality(OfList(name)) + 1
          /\ \A i \in 1 .. N : Rank(i)' = Rank(i)
          /\ \A i : i = N + 1 => Rank(i)' = Cardinality(OfList(name)) + 1
      BY <2>1, OfListGrows
    <2>4. \A n : OfList(n) \subseteq 1 .. N
      BY DEF OfList
    <2> DEFINE Exact(l, n) ==
                 /\ l.count = Cardinality(OfList(n)')
                 /\ Len(l.problems) = IF l.count < LimitPerType THEN l.count ELSE LimitPerType
                 /\ \A k \in 1 .. Len(l.problems) :
                       \E i \in OfList(n)' : Rank(i)' = k /\ l.problems[k] = log'[i]
    <2>5. ASSUME acc = "limit", NEW n \in DOMAIN problist, n # name
          PROVE  Exact(problist[n], n)
      <3> DEFINE l == problist[n]
      <3>1. /\ l.count = Cardinality(OfList(n))
            /\ Len(l.problems) = IF l.count < LimitPerType THEN l.count ELSE LimitPerType
            /\ \A k \in 1 .. Len(l.problems) :
                  \E i \in OfList(n) : Rank(i) = k /\ l.problems[k] = log[i]
        BY <2>5 DEF ListsInv, ListsKeepTheFirst
      <3>2. OfList(n)' = OfList(n)
        BY <2>3, <2>5
      <3>3. \A i \in OfList(n) : i \in 1 .. N /\ Rank(i)' = Rank(i) /\ log'[i] = log[i]
        BY <2>2, <2>3, <2>4
      <3> HIDE DEF l
      <3>4. \A k \in 1 .. Len(l.problems) :
               \E i \in OfList(n)' : Rank(i)' = k /\ l.problems[k] = log'[i]
        BY <3>1, <3>2, <3>3
      <3>5. QED
        BY <3>1, <3>2, <3>4 DEF l
    <2> HIDE DEF Exact
    <2>6. CASE acc # "limit"
      BY <1>2, <2>1, <2>6 DEF ListsInv, ListsKeepTheFirst, Report
    <2>7. CASE acc = "limit" /\ e.class \in IgnoreTypes
      <3>1. problist' = problist
        BY <1>2, <2>7 DEF Report
      <3>2. \A n \in DOMAIN problist : n # name
        BY <2>2, <2>7, TypeIsError DEF ListsInv, ListsKeepTheFirst
      <3>3. DOMAIN problist' = {ListOf(log'[i]) : i \in {j \in 1 .. Len(log') : log'[j].class \notin IgnoreTypes}}
        BY <2>2, <2>7, <3>1 DEF ListsInv, ListsKeepTheFirst
      <3>4. \A n \in DOMAIN problist' : Exact(problist'[n], n)
        BY <2>7, <2>5, <3>1, <3>2
      <3>5. QED
        BY <2>1, <2>7, <3>3, <3>4 DEF ListsInv, ListsKeepTheFirst, ListOf, TypeOf, Exact
    <2>8. CASE acc = "limit" /\ e.class \notin IgnoreTypes
      <3>1. problist' = AddToMap(name, e)
        BY <1>2, <2>8 DEF Report, ListOf
      <3>2. DOMAIN problist' = DOMAIN problist \cup {name}
        BY <3>1 DEF AddToMap
      <3>3. problist'[name] = new
        BY <3>1 DEF AddToMap
      <3>4. \A n \in DOMAIN problist : n # name => problist'[n] = problist[n]
        BY <3>1 DEF AddToMap
      <3>5. list \in ProblemList /\ list.count = Cardinality(OfList(name))
            /\ Len(list.problems) = (IF list.count < LimitPerType THEN list.count ELSE LimitPerType)
            /\ \A k \in 1 .. Len(list.problems) :
                  \E i \in OfList(name) : Rank(i) = k /\ list.problems[k] = log[i]
        <4>1. CASE name \in DOMAIN problist
          BY <2>8, <4>1, SMTT(30) DEF ListsInv, ListsKeepTheFirst, TypeOK
        <4>2. CASE name \notin DOMAIN problist
          <5>1. OfList(name) = {}
            BY <2>2, <2>8, <4>2, TypeIsError DEF ListsInv, ListsKeepTheFirst, OfList
          <5>2. list = [count |-> 0, problems |-> <<>>] /\ list \in ProblemList
            BY <4>2 DEF ProblemList
          <5>3. Cardinality({}) = 0
            BY FS_EmptySet
          <5>4. QED
            BY <5>1, <5>2, <5>3, LoaderAssumption
        <4>3. QED
          BY <4>1, <4>2
      <3> HIDE DEF list, name, new
      <3>6. /\ new.count = list.count + 1
            /\ Len(new.problems) = (IF new.count < LimitPerType THEN new.count ELSE LimitPerType)
            /\ Len(new.problems) \in {Len(list.problems), Len(list.problems) + 1}
            /\ \A k \in 1 .. Len(list.problems) : new.problems[k] = list.problems[k]
            /\ Len(new.problems) = Len(list.problems) + 1 =>
                  /\ Len(new.problems) = new.count
                  /\ new.problems[Len(new.problems)] = e
        BY <3>5, AddToListIsExact DEF new
      <3>7. DOMAIN problist' = {ListOf(log'[i]) : i \in {j \in 1 .. Len(log') : log'[j].class \notin IgnoreTypes}}
        BY <2>2, <2>8, <3>2 DEF ListsInv, ListsKeepTheFirst, name
      <3>8. \A k \in 1 .. Len(new.problems) :
               \E i \in OfList(name)' : Rank(i)' = k /\ new.problems[k] = log'[i]
        <4> TAKE k \in 1 .. Len(new.problems)
        <4>1. Len(list.problems) \in Nat
          BY <3>5 DEF ProblemList
        <4>2. CASE k \in 1 .. Len(list.problems)
          <5>1. PICK i \in OfList(name) : Rank(i) = k /\ list.problems[k] = log[i]
            BY <3>5, <4>2
          <5>2. QED
            BY <2>2, <2>3, <2>4, <3>6, <4>2, <5>1
        <4>3. CASE k \notin 1 .. Len(list.problems)
          <5>1. k = Len(new.problems) /\ k = list.count + 1 /\ new.problems[k] = e
            BY <3>6, <4>1, <4>3
          <5>2. N + 1 \in OfList(name)'
            BY <2>3
          <5>3. \A i : i = N + 1 => Rank(i)' = k
            BY <2>3, <3>5, <5>1
          <5>4. PICK i : i = N + 1
            OBVIOUS
          <5>5. i \in OfList(name)' /\ Rank(i)' = k /\ new.problems[k] = log'[i]
            BY <2>2, <5>1, <5>2, <5>3, <5>4
          <5>6. QED
            BY <5>5
        <4>4. QED
          BY <4>2, <4>3
      <3>9. \A n \in DOMAIN problist' : Exact(problist'[n], n)
        <4>1. Exact(new, name)
          BY <2>3, <3>5, <3>6, <3>8 DEF Exact
        <4>2. QED
          BY <2>8, <2>5, <3>2, <3>3, <3>4, <4>1
      <3>10. ListsKeepTheFirst'
        BY <3>7, <3>9 DEF ListsKeepTheFirst, ListOf, TypeOf, Exact
      <3>11. QED
        BY <2>1, <2>8, <3>10 DEF ListsInv
    <2>9. QED
      BY <2>6, <2>7, <2>8
  <1>3. QED
    BY <1>1, <1>2 DEF Kind, Reports, Quiet

LEMMA TallyStep ==
    ASSUME TypeOK, TallyInv, Kind
    PROVE  TallyInv'
  <1>1. CASE UNCHANGED <<log, tally>>
    BY <1>1 DEF Kind, TallyInv, Listed
  <1>2. ASSUME NEW e \in Problem, Report(e)
        PROVE  TallyInv'
    <2>1. acc' = acc /\ log' = Append(log, e) /\ TypeOf(e) = "error"
      BY <1>2, TypeIsError DEF Kind, Report
    <2>2. /\ Len(log) \in Nat /\ Len(log') = Len(log) + 1 /\ log'[Len(log) + 1] = e
          /\ \A i \in 1 .. Len(log) : log'[i] = log[i]
      BY <2>1 DEF TypeOK
    <2>3. tally \in [Types -> Nat] /\ "error" \in Types /\ "warning" \in Types
      BY DEF TypeOK, Types
    <2>4. Listed' = IF e.class \notin IgnoreTypes THEN Listed \cup {Len(log) + 1} ELSE Listed
      BY <2>2 DEF Listed
    <2>5. tally' = IF acc = "console" /\ e.class \notin IgnoreTypes
                     THEN [tally EXCEPT !["error"] = @ + 1] ELSE tally
      BY <1>2, <2>1 DEF Report
    <2>6. tally["error"] \in Nat /\ tally["warning"] \in Nat
      BY <2>3
    <2>7. CASE acc = "console" /\ e.class \notin IgnoreTypes
      <3>1. tally'["error"] = tally["error"] + 1 /\ tally'["warning"] = tally["warning"]
        BY <2>3, <2>5, <2>7
      <3>2. Listed' # {} /\ acc' = "console"
        BY <2>1, <2>4, <2>7
      <3>3. QED
        BY <2>6, <3>1, <3>2 DEF TallyInv
    <2>8. CASE ~(acc = "console" /\ e.class \notin IgnoreTypes)
      <3>1. tally' = tally /\ acc' = acc
        BY <2>1, <2>5, <2>8
      <3>2. acc = "console" => Listed' = Listed
        BY <2>4, <2>8
      <3>3. QED
        BY <3>1, <3>2 DEF TallyInv
    <2>9. QED
      BY <2>7, <2>8
  <1>3. QED
    BY <1>1, <1>2 DEF Kind, Reports, Quiet

(* The lists and counters hold something exactly when something was        *)
(* reported that is not ignored.                                           *)
LEMMA IssuesAreListed ==
    ASSUME TypeOK, ListsInv, TallyInv
    PROVE  acc # "raise" => (HasIssues <=> Listed # {})
  <1>1. \A i \in 1 .. Len(log) : log[i] \in Problem
    BY DEF TypeOK
  <1>2. acc \in {"raise", "limit", "console"}
    BY LoaderAssumption DEF TypeOK
  <1>3. tally["error"] \in Nat /\ tally["warning"] \in Nat
    BY DEF TypeOK, Types
  <1>4. CASE acc = "limit"
    <2>1. DOMAIN problist = {ListOf(log[i]) : i \in Listed}
      BY <1>4 DEF ListsInv, ListsKeepTheFirst, Listed
    <2>2. \A i \in Listed : ListOf(log[i])[1] = "error"
      BY <1>1, TypeIsError DEF Listed
    <2>3. tally["error"] + tally["warning"] = 0
      BY <1>3, <1>4 DEF TallyInv
    <2>4. QED
      BY <2>1, <2>2, <2>3 DEF HasIssues
  <1>5. CASE acc = "console"
    BY <1>3, <1>5 DEF HasIssues, TallyInv, ListsInv
  <1>6. QED
    BY <1>2, <1>4, <1>5

LEMMA EndStep ==
    ASSUME TypeOK, EndInv, Kind
    PROVE  EndInv' /\ page'.state \in PageStates
  <1> DEFINE p(state) == [state |-> state, verdict |-> page.verdict, sections |-> page.sections]
  <1>1. outcome = "running" /\ page = p(page.state) /\ page.state # "complete"
    BY DEF EndInv, Kind
  <1>2. page.state \in PageStates
    BY DEF TypeOK
  <1>3. \A s : [page EXCEPT !.state = s] = p(s)
    BY <1>1
  <1>4. CASE UNCHANGED page /\ outcome' \in {"running", "raised", "crash", "2"}
    BY <1>1, <1>2, <1>4 DEF EndInv
  <1>5. CASE Exit
    <2>1. UNCHANGED <<acc, problist, tally>> /\ outcome' = ExitCode
      BY <1>5 DEF Exit, End
    <2>2. ExitCode' = ExitCode /\ Page' = Page /\ ExitCode \in {"0", "1"}
      BY <2>1 DEF ExitCode, Page, HasIssues, Section
    <2>3. page' = IF acc = "limit" THEN Page ELSE page
      BY <1>5 DEF Exit
    <2>4. /\ Page = [state |-> Page.state, verdict |-> Page.verdict, sections |-> Page.sections]
          /\ Page.state \in PageStates
      BY DEF Page, PageStates
    <2>5. stage' = 20
      BY <1>5, AtStage, StagesAre DEF Exit, End, TypeOK
    <2>6. QED
      BY <1>1, <1>2, <2>1, <2>2, <2>3, <2>4, <2>5 DEF EndInv
  <1>6. CASE /\ page' = [page EXCEPT !.state = IF acc = "limit" THEN "empty" ELSE page.state]
             /\ outcome' = outcome
    <2>1. page' = p(IF acc = "limit" THEN "empty" ELSE page.state)
      BY <1>3, <1>6
    <2>2. QED
      BY <1>1, <1>2, <1>6, <2>1 DEF EndInv, PageStates
  <1>7. CASE page' = [page EXCEPT !.state = "cut off"] /\ outcome' = "2"
    <2>1. page' = p("cut off")
      BY <1>3, <1>7
    <2>2. QED
      BY <1>7, <2>1 DEF EndInv, PageStates
  <1>8. QED
    BY <1>1, <1>4, <1>5, <1>6, <1>7 DEF Kind, Reports, Report, Quiet

-----------------------------------------------------------------------------
(* Rows and service periods.                                               *)

(* The row at hand is over: taken over, or reported. *)
FinishesRow ==
    /\ phase = "row" /\ File \in Files
    /\ UNCHANGED <<stage, rowNum, services, read>>
    /\ current' = None /\ phase' = "rows"
    /\ \/ kept' = kept \cup {context}
       \/ kept' = kept /\ \A c : c = context => RowWasReported(c)'
    /\ \/ context' = None
       \/ /\ context' = context /\ kept' = kept /\ File \in Rejecting /\ UNCHANGED periods
          /\ RowWasReported(context)
    /\ File \notin Calendars => periods' = periods
    /\ File \in Calendars =>
          /\ DOMAIN periods' = DOMAIN periods \cup {Id}
          /\ Id \notin DOMAIN periods => periods'[Id].context = context
          /\ \A id \in DOMAIN periods : periods'[id].context = periods[id].context
    /\ \A id \in DOMAIN periods' :
          periods'[id] \in [context : Files \X Nat, dates : SUBSET Dates]

LEMMA ReportedNow ==
    ASSUME TypeOK, NEW class \in {"InvalidValue", "DuplicateID"}, NEW type \in Types,
           Report(ProblemOf(class, type, None))
    PROVE  \A c : c = context => RowWasReported(c)'
  <1> DEFINE e == ProblemOf(class, type, None)
  <1>1. e \in Problem
    BY ProblemOfType DEF TypeOK, Classes, Contexts
  <1>2. e.context = context /\ e.class = class
    BY DEF ProblemOf
  <1>3. log \in Seq(Problem) /\ log' = Append(log, e)
    BY DEF TypeOK, Report
  <1> HIDE DEF e
  <1>4. Len(log') \in 1 .. Len(log') /\ log'[Len(log')] = e
    BY <1>1, <1>3
  <1>5. QED
    BY <1>2, <1>4 DEF RowWasReported

(* The row at hand while it is read. *)
LEMMA RowAtHand ==
    ASSUME TypeOK, ContextInv, InRow, File \in Files
    PROVE  /\ context = Row(current) /\ context \in Files \X Nat
           /\ current \in read /\ current[1] = File /\ current[2] = rowNum /\ context \notin kept
           /\ File \in Calendars => Id \in ServiceIds
  <1>1. /\ context = Row(current) /\ current \in read /\ current[1] = File /\ current[2] = rowNum
        /\ context \notin kept /\ (File \in Calendars => current[3] \in ServiceIds)
    BY DEF ContextInv, InRow
  <1>2. current \in Files \X Nat \X (ServiceIds \cup {NoId})
    BY <1>1 DEF TypeOK
  <1>3. QED
    BY <1>1, <1>2 DEF Row, Id

LEMMA RowFinishes ==
    ASSUME TypeOK, ContextInv, Kind,
           RowTaken \/ RowDropped \/ RowRejected \/ CalendarRow \/ DatesRow
    PROVE  StaysPut \/ FinishesRow
  <1> DEFINE PeriodType == [context : Files \X Nat, dates : SUBSET Dates]
  <1> stage \in 1 .. 20
    BY StagesAre DEF TypeOK
  <1>1. File \in Rejecting \cup {"stops", "shapes"} => File \in Files \ Calendars
    <2>1. \A i \in 1 .. 20 : Stages[i] = Stages[stage] => i = stage
      BY StagesOrder
    <2>2. QED
      BY <2>1, StagesAre, AtStage DEF Rejecting, File
  <1>2. \A id \in DOMAIN periods : periods[id] \in PeriodType
    BY DEF TypeOK
  <1>3. \A c : RowWasReported(c) => RowWasReported(c)'
    BY LogGrows
  <1>4. CASE RowTaken
    BY <1>2, <1>4 DEF RowTaken, InRow, RowDone, FinishesRow
  <1>5. CASE RowDropped
    BY <1>1, <1>2, <1>3, <1>5 DEF RowDropped, InRow, RowDone, FinishesRow, SameTables
  <1>6. CASE RowRejected
    BY <1>1, <1>2, <1>3, <1>6 DEF RowRejected, InRow, RowDone, FinishesRow, SameTables
  <1>7. CASE CalendarRow
    <2>1. InRow /\ File \in Calendars /\ File \in Files
      BY <1>7 DEF CalendarRow, Calendars, Files
    <2>2. context \in Files \X Nat
      BY <2>1, RowAtHand
    <2>3. CASE Id \in DOMAIN periods
      <3>1. \A c : c = context => RowWasReported(c)'
        BY <1>7, <2>3, ReportedNow DEF CalendarRow, ReportThen, Types
      <3>2. StaysPut \/ (RowDone(None) /\ SameTables)
        BY <1>7, <2>3 DEF CalendarRow, ReportThen, StaysPut
      <3>3. QED
        BY <1>2, <2>1, <2>3, <3>1, <3>2 DEF InRow, RowDone, SameTables, FinishesRow
    <2>4. CASE Id \notin DOMAIN periods
      <3> DEFINE new == [context |-> context, dates |-> {}]
      <3>1. new \in PeriodType /\ new.context = context
        BY <2>2
      <3>2. /\ periods' = PutPeriod(Id, new) /\ kept' = kept \cup {context}
            /\ RowDone(None) /\ UNCHANGED <<services, read>>
        BY <1>7, <2>4 DEF CalendarRow
      <3> HIDE DEF new
      <3>3. /\ DOMAIN periods' = DOMAIN periods \cup {Id} /\ periods'[Id] = new
            /\ \A i \in DOMAIN periods : i # Id => periods'[i] = periods[i]
            /\ \A i \in DOMAIN periods' : periods'[i] \in PeriodType
        BY <1>2, <3>1, <3>2 DEF PutPeriod
      <3>4. QED
        BY <2>1, <2>4, <3>1, <3>2, <3>3 DEF InRow, RowDone, FinishesRow
    <2>5. QED
      BY <2>3, <2>4
  <1>8. CASE DatesRow
    <2>1. InRow /\ File \in Calendars /\ File \in Files
      BY <1>8 DEF DatesRow, Calendars, Files
    <2>2. context \in Files \X Nat
      BY <2>1, RowAtHand
    <2>3. /\ PeriodOfRow \in PeriodType
          /\ PeriodOfRow.context = IF Id \in DOMAIN periods THEN periods[Id].context ELSE context
      BY <1>2, <2>2 DEF PeriodOfRow
    <2>4. PICK date \in Dates, valid \in BOOLEAN :
             LET new == [PeriodOfRow EXCEPT
                           !.dates = IF valid THEN @ \cup {date} ELSE @]
                 done == /\ periods' = PutPeriod(Id, new)
                         /\ kept' = IF valid THEN kept \cup {context} ELSE kept
                         /\ RowDone(None) /\ UNCHANGED <<services, read>>
             IN  IF valid /\ date \notin PeriodOfRow.dates
                   THEN Silent /\ Still /\ done
                   ELSE ReportThen(IF valid
                                     THEN ProblemOf("DuplicateID", "warning", None)
                                     ELSE ProblemOf("InvalidValue", "error", None),
                                   done)
      BY <1>8 DEF DatesRow
    <2> DEFINE new == [PeriodOfRow EXCEPT !.dates = IF valid THEN @ \cup {date} ELSE @]
    <2>5. new \in PeriodType /\ new.context = PeriodOfRow.context
      BY <2>3
    <2>6. \/ StaysPut
          \/ /\ periods' = PutPeriod(Id, new)
             /\ kept' = IF valid THEN kept \cup {context} ELSE kept
             /\ RowDone(None) /\ UNCHANGED <<services, read>>
      BY <2>4 DEF ReportThen, StaysPut
    <2>7. ~valid => \A c : c = context => RowWasReported(c)'
      BY <2>4, ReportedNow DEF ReportThen, Types
    <2> HIDE DEF new
    <2>8. ASSUME periods' = PutPeriod(Id, new)
          PROVE  /\ DOMAIN periods' = DOMAIN periods \cup {Id} /\ periods'[Id] = new
                 /\ \A i \in DOMAIN periods : i # Id => periods'[i] = periods[i]
                 /\ \A i \in DOMAIN periods' : periods'[i] \in PeriodType
      BY <1>2, <2>5, <2>8 DEF PutPeriod
    <2>9. QED
      BY <2>1, <2>3, <2>5, <2>6, <2>7, <2>8 DEF InRow, RowDone, FinishesRow
  <1>9. QED
    BY <1>4, <1>5, <1>6, <1>7, <1>8

RowKind ==
    StaysPut \/ Ahead \/ BeginRow \/ FinishesRow \/ BeginPeriod \/ AddPeriod

LEMMA EveryRowStepHasAKind ==
    ASSUME TypeOK, ContextInv, Kind
    PROVE  RowKind
  BY RowFinishes DEF Kind, RowStep, RowKind

(* The rows at hand after a row or a period was begun. *)
LEMMA BegunRow ==
    ASSUME TypeOK, BeginRow
    PROVE  \E id \in ServiceIds \cup {NoId} :
              /\ current' = <<File, rowNum + 1, id>> /\ context' = Row(current')
              /\ current' \in Files \X Nat \X (ServiceIds \cup {NoId})
              /\ context' \in Files \X Nat
              /\ File \in Calendars => id \in ServiceIds
  <1>1. PICK id \in IF File \in Calendars THEN ServiceIds ELSE {NoId} :
           current' = <<File, rowNum + 1, id>>
    BY DEF BeginRow
  <1>2. File \in Files /\ rowNum + 1 \in Nat /\ id \in ServiceIds \cup {NoId}
    BY DEF BeginRow, BetweenRows, Reading, TypeOK
  <1>3. context' = <<File, rowNum + 1>>
    BY DEF BeginRow
  <1>4. QED
    BY <1>1, <1>2, <1>3 DEF Row

LEMMA BegunPeriod ==
    ASSUME TypeOK, BeginPeriod
    PROVE  /\ context' = Row(current') /\ context' \in Files \X Nat
           /\ current' \in Files \X Nat \X (ServiceIds \cup {NoId})
           /\ current'[3] \in DOMAIN periods
  <1>1. PICK id \in DOMAIN periods : context' = periods[id].context
                                     /\ current' = <<context'[1], context'[2], id>>
    BY DEF BeginPeriod
  <1>2. periods[id].context \in Files \X Nat /\ id \in ServiceIds
    BY DEF TypeOK
  <1>3. QED
    BY <1>1, <1>2 DEF Row

LEMMA ControlType ==
    ASSUME TypeOK, ContextInv, Kind
    PROVE  /\ stage' \in 1 .. Len(Stages)
           /\ phase' \in {"open", "header", "columns", "rows", "row"}
           /\ current' \in {None} \cup (Files \X Nat \X (ServiceIds \cup {NoId}))
           /\ rowNum' \in Nat
           /\ context' \in Contexts
           /\ DOMAIN periods' \subseteq ServiceIds
           /\ \A id \in DOMAIN periods' :
                 periods'[id] \in [context : Files \X Nat, dates : SUBSET Dates]
           /\ services' \subseteq ServiceIds
           /\ read' \subseteq Files \X Nat \X (ServiceIds \cup {NoId})
           /\ kept' \subseteq Files \X Nat
  <1> stage \in 1 .. 20 /\ Len(Stages) = 20
    BY StagesAre DEF TypeOK
  <1>1. CASE StaysPut
    BY <1>1 DEF StaysPut, TypeOK
  <1>2. CASE Ahead
    <2>1. /\ stage' \in 1 .. 20 /\ rowNum' \in Nat
          /\ phase' \in {"open", "header", "columns", "rows", "row"}
      BY <1>2 DEF Ahead, Onward, Within
    <2>2. context' \in Contexts /\ UNCHANGED <<current, periods, services, read, kept>>
      BY <1>2 DEF Ahead, TypeOK, Contexts
    <2>3. QED
      BY <2>1, <2>2 DEF TypeOK
  <1>3. CASE BeginRow
    <2>1. /\ current' \in Files \X Nat \X (ServiceIds \cup {NoId})
          /\ context' \in Files \X Nat
      BY <1>3, BegunRow
    <2>2. /\ rowNum' = rowNum + 1 /\ phase' = "row" /\ read' = read \cup {current'}
          /\ UNCHANGED <<stage, periods, services, kept>>
      BY <1>3 DEF BeginRow
    <2>3. QED
      BY <2>1, <2>2 DEF TypeOK, Contexts
  <1>4. CASE FinishesRow
    <2>1. InRow /\ File \in Files
      BY <1>4 DEF FinishesRow, InRow, Kind
    <2>2. context \in Files \X Nat /\ (File \in Calendars => Id \in ServiceIds)
      BY <2>1, RowAtHand
    <2>3. kept' \subseteq Files \X Nat
      BY <1>4, <2>2 DEF FinishesRow, TypeOK
    <2>4. DOMAIN periods' \subseteq ServiceIds
      BY <1>4, <2>2 DEF FinishesRow, TypeOK
    <2>5. context' \in Contexts
      BY <1>4 DEF FinishesRow, TypeOK, Contexts
    <2>6. QED
      BY <1>4, <2>3, <2>4, <2>5 DEF FinishesRow, TypeOK
  <1>5. CASE BeginPeriod
    <2>1. /\ current' \in Files \X Nat \X (ServiceIds \cup {NoId})
          /\ context' \in Files \X Nat
      BY <1>5, BegunPeriod
    <2>2. phase' = "row" /\ UNCHANGED <<stage, rowNum, periods, services, read, kept>>
      BY <1>5 DEF BeginPeriod, SameTables
    <2>3. QED
      BY <2>1, <2>2 DEF TypeOK, Contexts
  <1>6. CASE AddPeriod
    <2>1. Id \in DOMAIN periods
      BY <1>6, AtStage DEF AddPeriod, ContextInv, At, Id
    <2>2. /\ services' = services \cup {Id} /\ context' = None /\ current' = None
          /\ phase' = "rows" /\ UNCHANGED <<stage, rowNum, periods, read, kept>>
      BY <1>6 DEF AddPeriod, RowDone
    <2>3. QED
      BY <2>1, <2>2 DEF TypeOK, Contexts
  <1>7. QED
    BY <1>1, <1>2, <1>3, <1>4, <1>5, <1>6, EveryRowStepHasAKind DEF RowKind

LEMMA TypeStep ==
    ASSUME TypeOK, ContextInv, EndInv, Kind
    PROVE  TypeOK'
  <1>1. acc' \in Accumulators /\ present' \subseteq Files
    BY DEF TypeOK, Kind
  <1>2. log' \in Seq(Problem)
    BY LogGrows
  <1>3. page'.state \in PageStates
    BY EndStep
  <1>4. /\ DOMAIN problist' \subseteq Types \X Classes
        /\ \A name \in DOMAIN problist' : problist'[name] \in ProblemList
        /\ tally' \in [Types -> Nat]
        /\ outcome' \in {"running", "raised", "crash", "0", "1", "2"}
    BY ReportType
  <1>5. QED
    BY <1>1, <1>2, <1>3, <1>4, ControlType DEF TypeOK, Problem, Contexts, ProblemList

LEMMA ReadStep ==
    ASSUME TypeOK, ReadInv, ContextInv, Kind
    PROVE  ReadInv'
  <1> stage \in 1 .. 20 /\ rowNum \in Nat /\ read \subseteq Files \X Nat \X (ServiceIds \cup {NoId})
    BY StagesAre DEF TypeOK
  <1>1. CASE StaysPut
    BY <1>1 DEF StaysPut, ReadInv
  <1>2. CASE Ahead /\ Onward
    <2>1. \A r \in read' : \E i \in 1 .. stage' :
             Stages[i] = r[1] /\ (i = stage' => r[2] <= rowNum')
      BY <1>2 DEF Ahead, Onward, ReadInv
    <2>2. QED
      BY <1>2, <2>1 DEF Ahead, Onward, ReadInv
  <1>3. CASE Ahead /\ Within
    <2>1. \A r \in read : r[2] \in Nat
      OBVIOUS
    <2>2. \A r \in read' : \E i \in 1 .. stage' :
             Stages[i] = r[1] /\ (i = stage' => r[2] <= rowNum')
      BY <1>3, <2>1 DEF Ahead, Within, ReadInv
    <2>3. stage \in 5 .. 18
      BY <1>3, AtStage DEF Within
    <2>4. phase' \in {"open", "header", "columns"} => rowNum' = 0
      BY <1>3 DEF Ahead, Within, ReadInv, TypeOK
    <2>5. QED
      BY <1>3, <2>2, <2>3, <2>4 DEF Ahead, Within, ReadInv
  <1>4. CASE BeginRow
    <2>1. PICK id : current' = <<File, rowNum + 1, id>>
      BY <1>4, BegunRow
    <2>2. /\ rowNum' = rowNum + 1 /\ phase' = "row" /\ read' = read \cup {current'}
          /\ UNCHANGED <<stage, kept>> /\ phase = "rows"
      BY <1>4 DEF BeginRow, BetweenRows
    <2>3. \A r \in read : r[2] \in Nat
      OBVIOUS
    <2>4. \A r \in read' : \E i \in 1 .. stage' :
             Stages[i] = r[1] /\ (i = stage' => r[2] <= rowNum')
      <3> TAKE r \in read'
      <3>1. CASE r \in read
        BY <2>2, <2>3, <3>1 DEF ReadInv
      <3>2. CASE r = current'
        BY <2>1, <2>2, <3>2 DEF File
      <3>3. QED
        BY <2>2, <3>1, <3>2
    <2>5. QED
      BY <2>2, <2>4 DEF ReadInv
  <1>5. CASE FinishesRow
    <2>1. InRow /\ File \in Files
      BY <1>5 DEF FinishesRow, InRow, Kind
    <2>2. context = Row(current) /\ current \in read
      BY <2>1, RowAtHand
    <2>3. /\ UNCHANGED <<stage, rowNum, read>> /\ phase' = "rows" /\ phase = "row"
          /\ kept' \subseteq kept \cup {context}
      BY <1>5 DEF FinishesRow
    <2>4. QED
      BY <2>2, <2>3 DEF ReadInv, Row
  <1>6. CASE BeginPeriod
    <2>1. stage = 7 /\ phase' = "row" /\ UNCHANGED <<stage, rowNum, read, kept>>
      BY <1>6, AtStage DEF BeginPeriod, SameTables
    <2>2. QED
      BY <2>1 DEF ReadInv
  <1>7. CASE AddPeriod
    <2>1. stage = 7 /\ phase' = "rows" /\ UNCHANGED <<stage, rowNum, read, kept>>
      BY <1>7, AtStage DEF AddPeriod, RowDone
    <2>2. QED
      BY <2>1 DEF ReadInv
  <1>8. QED
    BY <1>1, <1>2, <1>3, <1>4, <1>5, <1>6, <1>7, EveryRowStepHasAKind DEF RowKind, Ahead

LEMMA ContextStep ==
    ASSUME TypeOK, ReadInv, ContextInv, Kind
    PROVE  ContextInv'
  <1> stage \in 1 .. 20 /\ rowNum \in Nat
    BY StagesAre DEF TypeOK
  <1>1. /\ phase = "row" =>
              /\ context = Row(current)
              /\ File \in Files =>
                    /\ current \in read /\ current[1] = File /\ current[2] = rowNum
                    /\ context \notin kept
                    /\ File \in Calendars => current[3] \in ServiceIds
              /\ File \notin Files => current[3] \in DOMAIN periods
        /\ phase # "row" =>
              /\ current = None
              /\ \/ context = None
                 \/ context \notin kept /\ context[1] \in Rejecting /\ RowWasReported(context)
    BY DEF ContextInv, Kind
  <1>2. \A c : RowWasReported(c) => RowWasReported(c)'
    BY LogGrows
  <1>3. ASSUME context' = context, RowWasReported(context)
        PROVE  RowWasReported(context)'
    BY <1>2, <1>3 DEF RowWasReported
  <1>4. CASE StaysPut
    <2>1. UNCHANGED <<stage, phase, current, rowNum, context, periods, read, kept>> /\ File' = File
      BY <1>4 DEF StaysPut, File
    <2>2. QED
      BY <1>1, <1>3, <2>1 DEF ContextInv, Row
  <1>5. CASE Ahead
    <2>1. /\ phase # "row" /\ phase' # "row" /\ UNCHANGED <<current, kept>>
          /\ context' = context \/ context' = None
      BY <1>5 DEF Ahead, Onward, Within
    <2>2. QED
      BY <1>1, <1>3, <2>1 DEF ContextInv
  <1>6. CASE BeginRow
    <2>1. PICK id : /\ current' = <<File, rowNum + 1, id>> /\ context' = Row(current')
                    /\ File \in Calendars => id \in ServiceIds
      BY <1>6, BegunRow
    <2>2. /\ rowNum' = rowNum + 1 /\ phase' = "row" /\ read' = read \cup {current'}
          /\ kept' = kept /\ File' = File /\ File \in Files
      BY <1>6 DEF BeginRow, BetweenRows, Reading, File
    <2>3. context' \notin kept
      <3> SUFFICES ASSUME context' \in kept
                   PROVE  FALSE
        OBVIOUS
      <3>1. PICK r \in read : Row(r) = context'
        BY DEF ReadInv
      <3>2. r[1] = File /\ r[2] = rowNum + 1
        BY <2>1, <3>1 DEF Row
      <3>3. PICK i \in 1 .. stage : Stages[i] = r[1] /\ (i = stage => r[2] <= rowNum)
        BY <3>1 DEF ReadInv
      <3>4. i = stage
        BY <3>2, <3>3, StagesOrder DEF File
      <3>5. QED
        BY <3>2, <3>3, <3>4
    <2>4. QED
      BY <2>1, <2>2, <2>3 DEF ContextInv, Row
  <1>7. CASE FinishesRow
    <2>1. phase = "row" /\ File \in Files /\ current' = None /\ phase' = "rows"
      BY <1>7 DEF FinishesRow
    <2>2. context[1] = File /\ context \notin kept
      BY <1>1, <2>1 DEF Row
    <2>3. \/ context' = None
          \/ context' = context /\ kept' = kept /\ File \in Rejecting /\ RowWasReported(context)
      BY <1>7 DEF FinishesRow
    <2>4. QED
      BY <1>3, <2>1, <2>2, <2>3 DEF ContextInv
  <1>8. CASE BeginPeriod
    <2>1. phase' = "row" /\ stage = 7 /\ File' = File /\ periods' = periods
      BY <1>8, AtStage DEF BeginPeriod, SameTables, File
    <2>2. File \notin Files
      BY <2>1, AtStage
    <2>3. context' = Row(current') /\ current'[3] \in DOMAIN periods
      BY <1>8, BegunPeriod
    <2>4. QED
      BY <2>1, <2>2, <2>3 DEF ContextInv, Row
  <1>9. CASE AddPeriod
    BY <1>9 DEF AddPeriod, RowDone, ContextInv
  <1>10. QED
    BY <1>4, <1>5, <1>6, <1>7, <1>8, <1>9, EveryRowStepHasAKind DEF RowKind

LEMMA RowsStep ==
    ASSUME TypeOK, ReadInv, ContextInv, RowsInv, Kind
    PROVE  RowsInv'
  <1> stage \in 1 .. 20
    BY StagesAre DEF TypeOK
  <1>1. \A r \in read : InProgress(r) \/ Row(r) \in kept \/ RowWasReported(Row(r))
    BY DEF RowsInv, Alive, Kind
  <1>2. \A c : RowWasReported(c) => RowWasReported(c)'
    BY LogGrows
  <1>3. SUFFICES ASSUME NEW r \in read'
                 PROVE  InProgress(r)' \/ Row(r) \in kept' \/ RowWasReported(Row(r))'
    BY DEF RowsInv, Row
  <1>4. CASE StaysPut
    BY <1>1, <1>2, <1>3, <1>4 DEF StaysPut, InProgress, File
  <1>5. CASE Ahead
    BY <1>1, <1>2, <1>3, <1>5 DEF Ahead, InProgress
  <1>6. CASE BeginRow
    <2>1. /\ phase' = "row" /\ phase # "row" /\ read' = read \cup {current'} /\ kept' = kept
          /\ File' = File /\ File \in Files
      BY <1>6 DEF BeginRow, BetweenRows, Reading, File
    <2>2. QED
      BY <1>1, <1>2, <1>3, <2>1 DEF InProgress
  <1>7. CASE FinishesRow
    <2>1. InRow /\ File \in Files
      BY <1>7 DEF FinishesRow, InRow, Kind
    <2>2. context = Row(current)
      BY <2>1, RowAtHand
    <2>3. /\ read' = read /\ kept \subseteq kept'
          /\ context \in kept' \/ \A c : c = context => RowWasReported(c)'
      BY <1>7 DEF FinishesRow
    <2>4. CASE r = current
      BY <2>2, <2>3, <2>4
    <2>5. CASE r # current
      BY <1>1, <1>2, <1>3, <2>3, <2>5 DEF InProgress
    <2>6. QED
      BY <2>4, <2>5
  <1>8. CASE BeginPeriod
    <2>1. phase # "row" /\ UNCHANGED <<read, kept>>
      BY <1>8 DEF BeginPeriod, SameTables
    <2>2. QED
      BY <1>1, <1>2, <1>3, <2>1 DEF InProgress
  <1>9. CASE AddPeriod
    <2>1. stage = 7 /\ UNCHANGED <<read, kept>>
      BY <1>9, AtStage DEF AddPeriod
    <2>2. File \notin Files
      BY <2>1, AtStage
    <2>3. QED
      BY <1>1, <1>2, <1>3, <2>1, <2>2 DEF InProgress
  <1>10. QED
    BY <1>4, <1>5, <1>6, <1>7, <1>8, <1>9, EveryRowStepHasAKind DEF RowKind

LEMMA PeriodsStep ==
    ASSUME TypeOK, ReadInv, ContextInv, PeriodsInv, Kind
    PROVE  PeriodsInv'
  <1> stage \in 1 .. 20 /\ rowNum \in Nat /\ read \subseteq Files \X Nat \X (ServiceIds \cup {NoId})
    BY StagesAre DEF TypeOK
  <1>1. /\ \A r \in read : r[1] \in Calendars => InProgress(r) \/ r[3] \in DOMAIN periods
        /\ \A id \in DOMAIN periods : \E r \in read :
              /\ r[1] \in Calendars /\ r[3] = id /\ FirstOf(r)
              /\ periods[id].context = Row(r)
        /\ services \subseteq DOMAIN periods
        /\ stage > 7 => DOMAIN periods \subseteq services
    BY DEF PeriodsInv, Alive, Kind
  <1>2. ASSUME UNCHANGED <<periods, read>>
        PROVE  \A id \in DOMAIN periods' : \E r \in read' :
                  /\ r[1] \in Calendars /\ r[3] = id /\ FirstOf(r)'
                  /\ periods'[id].context = Row(r)
    BY <1>1, <1>2 DEF FirstOf
  <1>3. CASE StaysPut
    BY <1>1, <1>2, <1>3 DEF StaysPut, PeriodsInv, InProgress, File, Row
  <1>4. CASE Ahead
    <2>1. phase # "row" /\ UNCHANGED <<periods, services, read>>
      BY <1>4 DEF Ahead
    <2>2. ASSUME stage' > 7
          PROVE  DOMAIN periods \subseteq services
      <3>1. CASE Within
        BY <1>1, <2>2, <3>1 DEF Within
      <3>2. CASE Onward /\ stage >= 7
        BY <1>1, <3>2 DEF Onward
      <3>3. CASE Onward /\ stage < 7
        <4>1. stage = 3
          BY <2>2, <3>3 DEF Onward
        <4>2. \A i \in 1 .. stage : Stages[i] \notin Files
          BY <4>1, StagesOrder
        <4>3. read = {}
          BY <4>2 DEF ReadInv
        <4>4. QED
          BY <1>1, <4>3
      <3>4. QED
        BY <1>4, <3>1, <3>2, <3>3 DEF Ahead
    <2>3. QED
      BY <1>1, <1>2, <2>1, <2>2 DEF PeriodsInv, InProgress, Row
  <1>5. CASE BeginRow
    <2>1. PICK d : current' = <<File, rowNum + 1, d>>
      BY <1>5, BegunRow
    <2>2. /\ phase' = "row" /\ phase # "row" /\ read' = read \cup {current'} /\ File' = File
          /\ File \in Files /\ UNCHANGED <<stage, periods, services>>
      BY <1>5 DEF BeginRow, BetweenRows, Reading, File
    <2>3. ASSUME NEW r \in read, r[1] \in Calendars, File \in Calendars
          PROVE  \/ r[1] = File /\ r[2] <= rowNum + 1
                 \/ r[1] = "calendar" /\ File = "calendar_dates"
      <3>1. PICK i \in 1 .. stage : Stages[i] = r[1] /\ (i = stage => r[2] <= rowNum)
        BY <2>3 DEF ReadInv
      <3>2. stage \in {5, 6} /\ i \in {5, 6}
        BY <2>3, <3>1, AtStage, StagesOrder
      <3>3. r[2] \in Nat
        BY <2>3
      <3>4. CASE i = stage
        BY <3>1, <3>3, <3>4 DEF File
      <3>5. CASE i # stage
        BY <3>1, <3>2, <3>5, StagesAre DEF File
      <3>6. QED
        BY <3>4, <3>5
    <2>4. \A r \in read : (r[1] \in Calendars /\ FirstOf(r)) => FirstOf(r)'
      BY <2>1, <2>2, <2>3 DEF FirstOf
    <2>5. \A id \in DOMAIN periods' : \E r \in read' :
             /\ r[1] \in Calendars /\ r[3] = id /\ FirstOf(r)'
             /\ periods'[id].context = Row(r)
      BY <1>1, <2>2, <2>4
    <2>6. \A r \in read' : r[1] \in Calendars => InProgress(r)' \/ r[3] \in DOMAIN periods'
      BY <1>1, <2>2 DEF InProgress
    <2>7. QED
      BY <1>1, <2>2, <2>5, <2>6 DEF PeriodsInv, Row
  <1>6. CASE FinishesRow
    <2>1. InRow /\ File \in Files /\ read' = read /\ services' = services /\ stage' = stage
      BY <1>6 DEF FinishesRow, InRow, Kind
    <2>2. context = Row(current) /\ current \in read /\ current[1] = File /\ Id = current[3]
      BY <2>1, RowAtHand DEF Id
    <2>3. CASE File \notin Calendars
      <3>1. periods' = periods
        BY <1>6, <2>3 DEF FinishesRow
      <3>2. \A r \in read : r[1] \in Calendars => r[3] \in DOMAIN periods
        BY <1>1, <2>2, <2>3 DEF InProgress
      <3>3. QED
        BY <1>1, <1>2, <2>1, <3>1, <3>2 DEF PeriodsInv, Row
    <2>4. CASE File \in Calendars
      <3>1. /\ DOMAIN periods' = DOMAIN periods \cup {Id}
            /\ Id \notin DOMAIN periods => periods'[Id].context = context
            /\ \A id \in DOMAIN periods : periods'[id].context = periods[id].context
        BY <1>6, <2>4 DEF FinishesRow
      <3>2. \A r \in read : r[1] \in Calendars => r[3] \in DOMAIN periods'
        BY <1>1, <2>2, <3>1 DEF InProgress
      <3>3. \A r \in read : FirstOf(r)' <=> FirstOf(r)
        BY <2>1 DEF FirstOf
      <3>4. ASSUME Id \notin DOMAIN periods
            PROVE  FirstOf(current)
        <4>1. \A q \in read : (q[1] \in Calendars /\ q[3] = Id) => q = current
          BY <1>1, <3>4 DEF InProgress
        <4>2. current[2] \in Nat
          BY <2>2
        <4>3. QED
          BY <2>2, <4>1, <4>2 DEF FirstOf
      <3>5. ASSUME NEW id \in DOMAIN periods'
            PROVE  \E r \in read' : /\ r[1] \in Calendars /\ r[3] = id /\ FirstOf(r)'
                                    /\ periods'[id].context = Row(r)
        <4>1. CASE id \in DOMAIN periods
          BY <1>1, <2>1, <3>1, <3>3, <4>1
        <4>2. CASE id \notin DOMAIN periods
          <5>1. id = Id
            BY <3>1, <3>5, <4>2
          <5>2. PICK r \in read : r = current
            BY <2>2
          <5>3. FirstOf(r)'
            BY <3>3, <3>4, <4>2, <5>1, <5>2
          <5>4. r[1] \in Calendars /\ r[3] = id /\ periods'[id].context = Row(r)
            BY <2>2, <2>4, <3>1, <4>2, <5>1, <5>2
          <5>5. QED
            BY <2>1, <5>2, <5>3, <5>4
        <4>3. QED
          BY <4>1, <4>2
      <3>6. ~(stage > 7)
        BY <2>4, AtStage
      <3>7. QED
        BY <1>1, <2>1, <3>1, <3>2, <3>5, <3>6 DEF PeriodsInv, Row
    <2>5. QED
      BY <2>3, <2>4
  <1>7. CASE BeginPeriod
    <2>1. phase # "row" /\ UNCHANGED <<stage, periods, services, read>>
      BY <1>7 DEF BeginPeriod, SameTables
    <2>2. QED
      BY <1>1, <1>2, <2>1 DEF PeriodsInv, InProgress, Row
  <1>8. CASE AddPeriod
    <2>1. /\ stage = 7 /\ UNCHANGED <<stage, periods, read>> /\ services' = services \cup {Id}
          /\ phase = "row" /\ outcome = "running"
      BY <1>8, AtStage DEF AddPeriod, RowDone, At
    <2>2. File \notin Files
      BY <2>1, AtStage
    <2>3. Id \in DOMAIN periods
      BY <2>1, <2>2 DEF ContextInv, Id
    <2>4. QED
      BY <1>1, <1>2, <2>1, <2>2, <2>3 DEF PeriodsInv, InProgress, Row
  <1>9. QED
    BY <1>3, <1>4, <1>5, <1>6, <1>7, <1>8, EveryRowStepHasAKind DEF RowKind

-----------------------------------------------------------------------------
(* The theorems.                                                           *)

LEMMA NothingYet ==
    ASSUME Init
    PROVE  /\ log \in Seq(Problem) /\ 1 .. Len(log) = {}
           /\ DOMAIN problist = {} /\ DOMAIN periods = {}
           /\ tally \in [Types -> Nat] /\ tally["error"] = 0 /\ tally["warning"] = 0
  <1>1. <<>> \in Seq(Problem) /\ Len(<<>>) = 0 /\ DOMAIN <<>> = {}
    OBVIOUS
  <1>2. 1 .. 0 = {}
    OBVIOUS
  <1>3. tally \in [Types -> Nat] /\ tally["error"] = 0 /\ tally["warning"] = 0
    <2>1. tally = [t \in Types |-> 0] /\ "error" \in Types /\ "warning" \in Types
      BY DEF Init, Types
    <2>2. QED
      BY <2>1
  <1>4. log = <<>> /\ problist = <<>> /\ periods = <<>>
    BY DEF Init
  <1>5. QED
    BY <1>1, <1>2, <1>3, <1>4

LEMMA IInvHolds == Spec => []IInv
  <1>1. Init => IInv
    <2> SUFFICES ASSUME Init
                 PROVE  IInv
      OBVIOUS
    <2>1. TypeOK
      <3>1. stage \in 1 .. Len(Stages) /\ present \subseteq Files
        <4>1. Len(Stages) = 20 /\ Varied \subseteq Files
          BY StagesAre, LoaderAssumption
        <4>2. stage = 1 /\ present \subseteq Varied
          BY DEF Init
        <4>3. QED
          BY <4>1, <4>2
      <3>2. page.state \in PageStates
        BY DEF Init, PageStates
      <3>3. context \in Contexts
        BY DEF Init, Contexts
      <3>4. QED
        BY <3>1, <3>2, <3>3, NothingYet DEF Init, TypeOK
    <2>2. ReadInv /\ ContextInv /\ RowsInv
      BY DEF Init, ReadInv, ContextInv, RowsInv
    <2>3. PeriodsInv
      BY NothingYet DEF Init, PeriodsInv
    <2>4. ListsInv
      BY NothingYet DEF ListsInv, ListsKeepTheFirst
    <2>5. TallyInv
      <3>1. Listed = {}
        BY NothingYet DEF Listed
      <3>2. QED
        BY <3>1, NothingYet DEF TallyInv
    <2>6. EndInv
      BY DEF Init, EndInv
    <2>7. QED
      BY <2>1, <2>2, <2>3, <2>4, <2>5, <2>6 DEF IInv
  <1>2. IInv /\ [Next]_vars => IInv'
    <2> SUFFICES ASSUME IInv, [Next]_vars
                 PROVE  IInv'
      OBVIOUS
    <2>1. CASE Kind
      BY <2>1, TypeStep, ReadStep, ContextStep, RowsStep, PeriodsStep, ListsStep, TallyStep,
         EndStep DEF IInv
    <2>2. CASE UNCHANGED vars
      <3>1. TypeOK' /\ ReadInv' /\ TallyInv'
        <4>1. TypeOK'
          BY <2>2 DEF IInv, vars, TypeOK, Problem, Contexts, ProblemList
        <4>2. ReadInv'
          BY <2>2 DEF IInv, vars, ReadInv, Row
        <4>3. Listed' = Listed
          BY <2>2 DEF vars, Listed
        <4>4. TallyInv'
          BY <2>2, <4>3 DEF IInv, vars, TallyInv
        <4>5. QED
          BY <4>1, <4>2, <4>4
      <3>2. ContextInv' /\ RowsInv'
        BY <2>2 DEF IInv, vars, ContextInv, RowsInv, RowWasReported, InProgress, Alive, File, Row
      <3>3. PeriodsInv'
        BY <2>2 DEF IInv, vars, PeriodsInv, FirstOf, InProgress, Alive, File, Row
      <3>4. ListsInv'
        <4>1. (\A n : OfList(n)' = OfList(n)) /\ \A i : Rank(i)' = Rank(i)
          BY <2>2 DEF vars, OfList, Rank, ListOf, TypeOf
        <4>2. QED
          BY <2>2, <4>1 DEF IInv, vars, ListsInv, ListsKeepTheFirst, ListOf, TypeOf
      <3>5. EndInv'
        <4>1. ExitCode' = ExitCode /\ Page' = Page
          BY <2>2 DEF vars, ExitCode, Page, HasIssues, Section
        <4>2. QED
          BY <2>2, <4>1 DEF IInv, vars, EndInv
      <3>6. QED
        BY <3>1, <3>2, <3>3, <3>4, <3>5 DEF IInv
    <2>3. QED
      BY <2>1, <2>2, EveryStepHasAKind DEF IInv
  <1>3. QED
    BY <1>1, <1>2, PTL DEF Spec

(* Every run of the validator keeps its variables in their types, however *)
(* the feed, the accumulator and the bounds are chosen.                    *)
THEOREM TypeCorrect == Spec => []TypeOK
  BY IInvHolds, PTL DEF IInv

(* The context of ProblemReporter, with loader.py's set_file_context and   *)
(* clear_context: it is that of the row at hand, or of a row that was      *)
(* turned down and reported.                                               *)
THEOREM ContextIsRight == Spec => []ContextIsCurrentOrRejected
  <1>1. ContextInv => ContextIsCurrentOrRejected
    BY DEF ContextInv, ContextIsCurrentOrRejected, Row
  <1>2. QED
    BY <1>1, IInvHolds, PTL DEF IInv

(* Loader.load loses no row of a feed of any size: it is taken over or the *)
(* context of a problem; and _load_calendar joins its two files into one   *)
(* period for every service id, with the context of the id's first row.    *)
THEOREM NoRowIsLost == Spec => []RowsAreAccountedFor
  <1>1. ASSUME IInv
        PROVE  RowsAreAccountedFor
    <2> stage \in 1 .. 20
      BY <1>1, StagesAre DEF IInv, TypeOK
    <2>1. outcome \in {"running", "0", "1"} => Alive
      BY DEF Alive
    <2>2. outcome \in {"running", "0", "1"} =>
             \A r \in read \ {current} :
                 <<r[1], r[2]>> \in kept \/ RowWasReported(<<r[1], r[2]>>)
      BY <1>1, <2>1 DEF IInv, RowsInv, InProgress, Row
    <2>3. ASSUME PeriodsLoaded, outcome \in {"running", "0", "1"}
          PROVE  PeriodsAreComplete
      <3> DEFINE rows == {r \in read : r[1] \in Calendars}
      <3>1. stage > 7
        <4>1. PICK i \in 1 .. stage - 1 : Stages[i] = "periods"
          BY <2>3 DEF PeriodsLoaded
        <4>2. i = 7
          BY <4>1, StagesAre, StagesOrder
        <4>3. QED
          BY <4>1, <4>2
      <3>2. /\ \A r \in read : r[1] \in Calendars => InProgress(r) \/ r[3] \in DOMAIN periods
            /\ \A id \in DOMAIN periods : \E r \in read :
                  /\ r[1] \in Calendars /\ r[3] = id /\ FirstOf(r)
                  /\ periods[id].context = Row(r)
            /\ services = DOMAIN periods
        BY <1>1, <2>1, <2>3, <3>1 DEF IInv, PeriodsInv
      <3>3. \A r \in rows : ~InProgress(r)
        <4>1. File \notin Calendars
          BY <3>1, AtStage
        <4>2. ASSUME NEW r \in rows, InProgress(r)
              PROVE  FALSE
          <5>1. phase = "row" /\ File \in Files /\ r = current
            BY <4>2 DEF InProgress
          <5>2. outcome = "running"
            <6>1. stage \in 5 .. 18
              BY <1>1, <5>1 DEF IInv, ReadInv
            <6>2. outcome \notin {"0", "1"}
              BY <1>1, <6>1 DEF IInv, EndInv
            <6>3. QED
              BY <2>3, <6>2
          <5>3. current[1] = File
            BY <1>1, <5>1, <5>2 DEF IInv, ContextInv
          <5>4. QED
            BY <4>1, <4>2, <5>1, <5>3
        <4>3. QED
          BY <4>2
      <3>4. services = {r[3] : r \in rows}
        BY <3>2, <3>3
      <3>5. \A id \in services : \E r \in rows :
               /\ r[3] = id /\ FirstOf(r) /\ periods[id].context = <<r[1], r[2]>>
        BY <3>2 DEF Row
      <3>6. QED
        BY <3>4, <3>5 DEF PeriodsAreComplete, FirstOf
    <2>4. QED
      BY <2>2, <2>3 DEF RowsAreAccountedFor, PeriodsAreComplete
  <1>2. QED
    BY <1>1, IInvHolds, PTL

(* What the invariant says of the lists: they are lists of "errors", and   *)
(* the list of a class is that of all its problems.                        *)
LEMMA ListsOfClasses ==
    ASSUME IInv, acc = "limit"
    PROVE  /\ \A class : OfClass(class) \subseteq 1 .. Len(log)
           /\ \A name \in DOMAIN problist :
                 /\ name = <<"error", name[2]>> /\ name[2] \in Classes
                 /\ name[2] \notin IgnoreTypes
                 /\ OfList(name) = OfClass(name[2])
                 /\ problist[name] \in ProblemList
           /\ \A class \in Classes :
                 /\ CountOf(<<"error", class>>) = Cardinality(OfClass(class))
                 /\ <<"warning", class>> \notin DOMAIN problist
                 /\ <<"notice", class>> \notin DOMAIN problist
                 /\ Cardinality(OfClass(class)) \in Nat
  <1>1. \A j \in 1 .. Len(log) : /\ log[j] \in Problem /\ log[j].class \in Classes
                                 /\ ListOf(log[j]) = <<"error", log[j].class>>
    <2>1. \A j \in 1 .. Len(log) : log[j] \in Problem
      BY DEF IInv, TypeOK
    <2>2. \A p \in Problem : p.class \in Classes
      BY DEF Problem
    <2>3. \A j \in 1 .. Len(log) : ListOf(log[j]) = <<"error", log[j].class>>
      BY <2>1, TypeIsError DEF ListOf
    <2>4. QED
      BY <2>1, <2>2, <2>3
  <1>2. DOMAIN problist = {ListOf(log[i]) : i \in Listed}
    BY DEF IInv, ListsInv, ListsKeepTheFirst, Listed
  <1>3. \A class : OfClass(class) \subseteq 1 .. Len(log)
    BY DEF OfClass, Listed
  <1>4. ASSUME NEW name \in DOMAIN problist
        PROVE  /\ name = <<"error", name[2]>> /\ name[2] \in Classes
               /\ name[2] \notin IgnoreTypes
               /\ OfList(name) = OfClass(name[2])
               /\ problist[name] \in ProblemList
    <2>1. PICK i \in Listed : name = <<"error", log[i].class>>
      BY <1>1, <1>2 DEF Listed
    <2>2. name[2] = log[i].class
      BY <2>1
    <2>3. OfList(name) = OfClass(name[2])
      BY <1>1, <2>1, <2>2 DEF OfList, OfClass, Listed
    <2>4. QED
      BY <1>1, <2>1, <2>2, <2>3 DEF Listed, IInv, TypeOK
  <1>5. ASSUME NEW class \in Classes
        PROVE  /\ CountOf(<<"error", class>>) = Cardinality(OfClass(class))
               /\ <<"warning", class>> \notin DOMAIN problist
               /\ <<"notice", class>> \notin DOMAIN problist
               /\ Cardinality(OfClass(class)) \in Nat
    <2> DEFINE name == <<"error", class>>
    <2>1. <<"warning", class>> \notin DOMAIN problist /\ <<"notice", class>> \notin DOMAIN problist
      BY <1>1, <1>2 DEF Listed
    <2>2. Cardinality(OfClass(class)) \in Nat
      <3>1. IsFiniteSet(1 .. Len(log))
        BY FS_Interval DEF IInv, TypeOK
      <3>2. QED
        BY <3>1, <1>3, FS_Subset, FS_CardinalityType
    <2>3. CASE name \in DOMAIN problist
      <3>1. OfList(name) = OfClass(name[2]) /\ name[2] = class
        BY <1>4, <2>3
      <3>2. problist[name].count = Cardinality(OfList(name))
        BY <2>3 DEF IInv, ListsInv, ListsKeepTheFirst
      <3>3. QED
        BY <2>1, <2>2, <2>3, <3>1, <3>2 DEF CountOf
    <2>4. CASE name \notin DOMAIN problist
      <3>1. OfClass(class) = {}
        BY <1>1, <1>2, <2>4 DEF OfClass, Listed
      <3>2. Cardinality(OfClass(class)) = 0
        BY <3>1, FS_EmptySet
      <3>3. QED
        BY <2>1, <2>2, <2>4, <3>2 DEF CountOf
    <2>5. QED
      BY <2>3, <2>4
  <1>6. QED
    BY <1>3, <1>4, <1>5

(* The k-th problem of a list has fewer than k of its kind before it.      *)
LEMMA RankBoundsEarlier ==
    ASSUME IInv, acc = "limit", NEW i \in 1 .. Len(log)
    PROVE  /\ Cardinality(EarlierLike(i)) \in Nat /\ Rank(i) \in Nat
           /\ Cardinality(EarlierLike(i)) < Rank(i)
  <1> DEFINE upTo == {j \in 1 .. i : ListOf(log[j]) = ListOf(log[i])}
  <1>1. i \in Nat /\ Len(log) \in Nat
    BY DEF IInv, TypeOK
  <1>2. \A j \in 1 .. Len(log) : ListOf(log[j]) = <<"error", log[j].class>>
    BY TypeIsError DEF IInv, TypeOK
  <1>3. EarlierLike(i) \subseteq upTo \ {i}
    BY <1>1, <1>2 DEF EarlierLike
  <1>4. IsFiniteSet(upTo) /\ i \in upTo
    <2>1. IsFiniteSet(1 .. i)
      BY <1>1, FS_Interval
    <2>2. QED
      BY <2>1, <1>1, FS_Subset
  <1>5. /\ IsFiniteSet(upTo \ {i}) /\ Cardinality(upTo \ {i}) = Cardinality(upTo) - 1
        /\ Cardinality(upTo) \in Nat
    BY <1>4, FS_RemoveElement, FS_CardinalityType
  <1>6. /\ Cardinality(EarlierLike(i)) <= Cardinality(upTo \ {i})
        /\ Cardinality(EarlierLike(i)) \in Nat
    BY <1>3, <1>5, FS_Subset, FS_CardinalityType
  <1>7. Rank(i) = Cardinality(upTo)
    BY DEF Rank
  <1> HIDE DEF upTo
  <1>8. QED
    BY <1>5, <1>6, <1>7

(* BoundedProblemList and LimitPerTypeProblemAccumulator with any limit,   *)
(* any ignore list and any number of reports.                              *)
THEOREM ListsAreRight == Spec => []ListsAreExact
  <1>1. ASSUME IInv, acc = "limit", NEW name \in DOMAIN problist
        PROVE  LET list == problist[name]
                   places == 1 .. Len(list.problems)
               IN  /\ Len(list.problems) = IF list.count < LimitPerType THEN list.count ELSE LimitPerType
                   /\ \E which \in [places -> OfClass(name[2])] :
                         /\ \A j, k \in places : which[j] = which[k] => j = k
                         /\ \A k \in places :
                               /\ list.problems[k] = log[which[k]]
                               /\ name[2] \in Sorted \/ Cardinality(EarlierLike(which[k])) < LimitPerType
    <2> DEFINE list == problist[name]
               places == 1 .. Len(list.problems)
               which == [k \in places |->
                           CHOOSE i \in OfList(name) : Rank(i) = k /\ list.problems[k] = log[i]]
    <2>1. /\ list.count = Cardinality(OfList(name))
          /\ Len(list.problems) = IF list.count < LimitPerType THEN list.count ELSE LimitPerType
          /\ \A k \in places : \E i \in OfList(name) : Rank(i) = k /\ list.problems[k] = log[i]
      BY <1>1 DEF IInv, ListsInv, ListsKeepTheFirst
    <2>2. list \in ProblemList /\ OfList(name) = OfClass(name[2]) /\ OfClass(name[2]) \subseteq 1 .. Len(log)
      BY <1>1, ListsOfClasses
    <2>3. \A k \in places : /\ which[k] \in OfList(name) /\ Rank(which[k]) = k
                            /\ list.problems[k] = log[which[k]]
      BY <2>1
    <2>4. list.count \in Nat /\ Len(list.problems) \in Nat /\ LimitPerType \in Nat
      BY <2>2, LoaderAssumption DEF ProblemList
    <2>5. \A k \in places : k \in Nat /\ k <= LimitPerType
      BY <2>1, <2>4
    <2>6. \A k \in places : Cardinality(EarlierLike(which[k])) < LimitPerType
      <3> SUFFICES ASSUME NEW k \in places PROVE Cardinality(EarlierLike(which[k])) < LimitPerType
        OBVIOUS
      <3>1. which[k] \in 1 .. Len(log) /\ Rank(which[k]) = k
        BY <2>2, <2>3
      <3>2. /\ Cardinality(EarlierLike(which[k])) \in Nat
            /\ Cardinality(EarlierLike(which[k])) < k
        BY <1>1, <3>1, RankBoundsEarlier
      <3>3. k \in Nat /\ k <= LimitPerType
        BY <2>5
      <3> HIDE DEF which, places
      <3>4. QED
        BY <2>4, <3>2, <3>3
    <2>7. which \in [places -> OfClass(name[2])]
      BY <2>2, <2>3
    <2>8. \A j, k \in places : which[j] = which[k] => j = k
      BY <2>3
    <2> HIDE DEF which, places, list
    <2>9. \E w \in [places -> OfClass(name[2])] :
             /\ \A j, k \in places : w[j] = w[k] => j = k
             /\ \A k \in places :
                   /\ list.problems[k] = log[w[k]]
                   /\ name[2] \in Sorted \/ Cardinality(EarlierLike(w[k])) < LimitPerType
      BY <2>3, <2>6, <2>7, <2>8
    <2>10. QED
      BY <2>1, <2>9 DEF list, places
  <1>2. ASSUME IInv, acc = "limit", NEW class \in Classes
        PROVE  CountOf(<<"error", class>>) + CountOf(<<"warning", class>>)
                 + CountOf(<<"notice", class>>) = Cardinality(OfClass(class))
    <2>1. CountOf(<<"warning", class>>) = 0 /\ CountOf(<<"notice", class>>) = 0
      BY <1>2, ListsOfClasses DEF CountOf
    <2>2. CountOf(<<"error", class>>) = Cardinality(OfClass(class)) /\ Cardinality(OfClass(class)) \in Nat
      BY <1>2, ListsOfClasses
    <2>3. QED
      BY <2>1, <2>2
  <1>3. IInv => ListsAreExact
    BY <1>1, <1>2 DEF ListsAreExact
  <1>4. QED
    BY <1>3, IInvHolds, PTL

(* The exit code of the validator, over every run that gives one.          *)
THEOREM ExitCodeIsRight == Spec => []ExitCodeIsExact
  <1>1. ASSUME IInv, acc # "raise", outcome \in {"0", "1"}
        PROVE  outcome = "0" <=> Listed = {}
    <2>1. outcome = ExitCode
      BY <1>1 DEF IInv, EndInv
    <2>2. HasIssues <=> Listed # {}
      BY <1>1, IssuesAreListed DEF IInv
    <2>3. QED
      BY <2>1, <2>2 DEF ExitCode
  <1>2. IInv => ExitCodeIsExact
    BY <1>1 DEF ExitCodeIsExact, Serious
  <1>3. QED
    BY <1>2, IInvHolds, PTL

(* The page of feedvalidator.py: whole exactly with an exit code, and      *)
(* every problem shown or counted in the sections of its class.            *)
THEOREM PageIsRight == Spec => []PageIsExact
  <1>1. ASSUME IInv, acc = "limit", page.state = "complete"
        PROVE  /\ page.verdict = "pass" => Serious = {}
               /\ page.verdict = "fail" => Listed # {}
               /\ \A class \in Classes :
                     ShownOf(<<"error", class>>) + ShownOf(<<"warning", class>>)
                         + ShownOf(<<"notice", class>>) = Cardinality(OfClass(class))
               /\ \A name \in DOMAIN page.sections :
                     LET shown == page.sections[name].shown IN
                     \A k \in 1 .. Len(shown) : shown[k] \in {log[i] : i \in OfClass(name[2])}
    <2>1. page = Page
      BY <1>1 DEF IInv, EndInv
    <2>2. page.verdict = "pass" <=> Listed = {}
      <3>1. HasIssues <=> Listed # {}
        BY <1>1, IssuesAreListed DEF IInv
      <3>2. QED
        BY <2>1, <3>1 DEF Page
    <2>3. page.sections = [name \in DOMAIN problist |-> Section(name)]
      BY <2>1 DEF Page
    <2>4. ASSUME NEW name \in DOMAIN problist
          PROVE  /\ page.sections[name].shown = problist[name].problems
                 /\ ShownOf(name) = problist[name].count
                 /\ \A k \in 1 .. Len(problist[name].problems) :
                       problist[name].problems[k] \in {log[i] : i \in OfClass(name[2])}
      <3> DEFINE list == problist[name]
                 section == page.sections[name]
      <3>1. section = [shown |-> list.problems, more |-> list.count - Len(list.problems)]
        BY <2>3 DEF Section
      <3>2. section.shown = list.problems /\ section.more = list.count - Len(list.problems)
        BY <3>1
      <3>3. list \in ProblemList /\ OfList(name) = OfClass(name[2])
        BY <1>1, ListsOfClasses
      <3>4. list.count \in Nat /\ Len(list.problems) \in Nat
        BY <3>3 DEF ProblemList
      <3>5. ShownOf(name) = Len(section.shown) + section.more
        BY <2>3 DEF ShownOf
      <3>6. \A k \in 1 .. Len(list.problems) : \E i \in OfList(name) : list.problems[k] = log[i]
        BY <1>1 DEF IInv, ListsInv, ListsKeepTheFirst
      <3> HIDE DEF list, section
      <3>7. ShownOf(name) = list.count
        BY <3>2, <3>4, <3>5
      <3>8. \A k \in 1 .. Len(list.problems) : list.problems[k] \in {log[i] : i \in OfClass(name[2])}
        BY <3>3, <3>6
      <3>9. QED
        BY <3>2, <3>7, <3>8 DEF list, section
    <2>5. ASSUME NEW class \in Classes
          PROVE  ShownOf(<<"error", class>>) + ShownOf(<<"warning", class>>)
                   + ShownOf(<<"notice", class>>) = Cardinality(OfClass(class))
      <3>1. DOMAIN page.sections = DOMAIN problist
        BY <2>3
      <3>2. \A type \in Types : ShownOf(<<type, class>>) = CountOf(<<type, class>>)
        BY <2>4, <3>1 DEF ShownOf, CountOf
      <3>3. /\ ShownOf(<<"warning", class>>) = 0 /\ ShownOf(<<"notice", class>>) = 0
            /\ ShownOf(<<"error", class>>) = Cardinality(OfClass(class))
            /\ Cardinality(OfClass(class)) \in Nat
        BY <1>1, <3>2, ListsOfClasses DEF CountOf, Types
      <3>4. QED
        BY <3>3
    <2>6. QED
      BY <2>2, <2>3, <2>4, <2>5 DEF Serious
  <1>2. ASSUME IInv
        PROVE  PageIsExact
    <2> SUFFICES ASSUME acc = "limit"
                 PROVE  PageIsExact
      BY DEF PageIsExact
    <2>1. page.state = "complete" <=> outcome \in {"0", "1"}
      BY <1>2 DEF IInv, EndInv, Page
    <2>2. QED
      BY <1>1, <1>2, <2>1 DEF PageIsExact
  <1>3. QED
    BY <1>2, IInvHolds, PTL

=============================================================================
