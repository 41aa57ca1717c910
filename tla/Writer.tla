------------------------------- MODULE Writer -------------------------------
(***************************************************************************)
(* How the objects of a schedule reach the files of a written feed: the     *)
(* attributes of a GtfsObjectBase, the list of columns the schedule keeps   *)
(* for each table, and write_google_transit_feed.                           *)
(*                                                                          *)
(* The column lists are kept apart from the objects.  They grow when an     *)
(* object is added and when an attribute of an object in the schedule is    *)
(* set, and the loader replaces them by the header of the file it reads.    *)
(* The order of columns and rows is left out.                               *)
(***************************************************************************)
EXTENDS Naturals, FiniteSets

CONSTANTS
    Tables,      \* the tables with column lists: agency, feed_info, stops, ...
    Objects,     \* their objects
    TableOf,     \* object -> its _TABLE_NAME
    Columns,     \* names of public attributes
    Defaults,    \* table -> the attributes its constructor always sets
    Values,      \* strings an attribute or a cell may hold
    None,        \* the Python value
    Contents     \* what Calendar, StopTimes, Shape and Schedule leave to be written

\* The files written only when they have rows.
RowFiles == {"frequencies", "fare_attributes", "fare_rules", "shapes"}

Empty == ""

ASSUME TablesAssumption ==
    /\ Tables \subseteq {"agency", "feed_info", "stops", "routes", "trips", "transfers"}
    /\ TableOf \in [Objects -> Tables]
    /\ Defaults \in [Tables -> SUBSET Columns]
    /\ None \notin Values \cup Objects

VARIABLES
    attrs,          \* object -> its public attributes and their values
    status,         \* object -> "new", "added", or "stranded": _schedule set, no table
    table_columns,  \* _table_columns: table -> its columns
    feed_info,      \* the last FeedInfo added, or None
    contents,       \* periods: id -> [start, end, exceptions]; numbers: the
                    \* stop_sequence values; rows: row file -> how many rows
    outdated,       \* history: objects whose table was read again after them
    archive         \* the file written

vars == <<attrs, status, table_columns, feed_info, contents, outdated, archive>>

NoFile == [f \in {} |-> f]
NotWritten == [state |-> "none", files |-> NoFile]

Init ==
    /\ attrs = [o \in Objects |-> [c \in Defaults[TableOf[o]] |-> None]]
    /\ status = [o \in Objects |-> "new"]
    /\ table_columns = [t \in {} |-> {}]
    /\ feed_info = None
    /\ contents \in Contents
    /\ outdated = {}
    /\ archive = NotWritten

(***************************************************************************)
(* Attributes and columns.                                                  *)
(***************************************************************************)

With(f, x, v) == [y \in DOMAIN f \cup {x} |-> IF y = x THEN v ELSE f[y]]

\* add_table_columns: the columns a table has, and these.
AddTableColumns(t, columns) ==
    table_columns' = With(table_columns, t,
                          columns \cup (IF t \in DOMAIN table_columns THEN table_columns[t] ELSE {}))

\* Fault: only the object is told of the new attribute.
SetAttributeFault(o, c, v) ==
    /\ attrs' = [attrs EXCEPT ![o] = With(attrs[o], c, v)]
    /\ UNCHANGED <<status, table_columns, feed_info, contents, outdated, archive>>

\* __setattr__.  For a feed_info stranded before its table exists the call
\* raises a KeyError, with the attribute set.
SetAttribute(o, c, v) ==
    /\ attrs' = [attrs EXCEPT ![o] = With(attrs[o], c, v)]
    /\ IF status[o] # "new" /\ TableOf[o] \in DOMAIN table_columns
       THEN AddTableColumns(TableOf[o], {c})
       ELSE UNCHANGED table_columns
    /\ UNCHANGED <<status, feed_info, contents, outdated, archive>>

\* del object.c: the column stays.
DelAttribute(o, c) ==
    /\ c \in DOMAIN attrs[o]
    /\ attrs' = [attrs EXCEPT ![o] = [x \in DOMAIN attrs[o] \ {c} |-> attrs[o][x]]]
    /\ UNCHANGED <<status, table_columns, feed_info, contents, outdated, archive>>

\* add_stop_object and its siblings; the calls they reject change nothing.
AddObject(o) ==
    /\ status[o] = "new"
    /\ AddTableColumns(TableOf[o], DOMAIN attrs[o])
    /\ status' = [status EXCEPT ![o] = "added"]
    /\ feed_info' = IF TableOf[o] = "feed_info" THEN o ELSE feed_info
    /\ UNCHANGED <<attrs, contents, outdated, archive>>

\* Validation raises inside add_agency_object, after the columns, or inside
\* add_feed_info_object, before them; _schedule is set by then.
AddFails(o) ==
    /\ status[o] = "new"
    /\ TableOf[o] \in {"agency", "feed_info"}
    /\ status' = [status EXCEPT ![o] = "stranded"]
    /\ IF TableOf[o] = "agency" THEN AddTableColumns("agency", DOMAIN attrs[o])
                                ELSE UNCHANGED table_columns
    /\ UNCHANGED <<attrs, feed_info, contents, outdated, archive>>

\* The loader reads the file of a table: the columns become its header, then
\* its rows become objects with the attributes of the header and those of the
\* constructor.  A file may have no rows, or none that is accepted.
ReadTable(t, header, objects, v) ==
    /\ objects \subseteq {o \in Objects : TableOf[o] = t /\ status[o] = "new"}
    /\ LET keys == header \cup Defaults[t]
       IN  /\ attrs' = [o \in Objects |-> IF o \in objects
                                               THEN [c \in keys |-> IF c \in header THEN v ELSE None]
                                               ELSE attrs[o]]
           /\ table_columns' = With(table_columns, t, IF objects = {} THEN header ELSE keys)
    /\ status' = [o \in Objects |-> IF o \in objects THEN "added" ELSE status[o]]
    /\ IF t = "feed_info" /\ objects # {} THEN feed_info' \in objects ELSE UNCHANGED feed_info
    /\ outdated' = outdated \cup {o \in Objects : TableOf[o] = t /\ status[o] = "added"}
    /\ UNCHANGED <<contents, archive>>

(***************************************************************************)
(* write_google_transit_feed.                                               *)
(***************************************************************************)

\* The objects of a table that a written feed has rows for.
Stored(t) == IF t = "feed_info" THEN {feed_info} \ {None}
             ELSE {o \in Objects : TableOf[o] = t /\ status[o] = "added"}

\* __getitem__
Item(o, c) == IF c \in DOMAIN attrs[o] /\ attrs[o][c] # None THEN attrs[o][c] ELSE Empty

\* CsvUnicodeWriter: csv writes the bytes of an encoded string as b'...'.
Encoded(v) == <<"b", v>>

\* A stop_sequence is written as a number, but 0 counts as no value.
NumberCell(n) == IF n = 0 THEN Encoded(Empty) ELSE <<"int", n>>

TableFile(t) ==
    [header |-> {Encoded(c) : c \in table_columns[t]},
     rows   |-> [o \in Stored(t) |-> [c \in table_columns[t] |-> Encoded(Item(o, c))]]]

\* get_calendar_field_values_tuple: no row for a period without both ends.
CalendarRows == {p \in DOMAIN contents.periods : contents.periods[p].start /\ contents.periods[p].end}
DatesRows == {p \in DOMAIN contents.periods : contents.periods[p].exceptions > 0}

\* Fault: calendar.txt is left out when it would be empty.
CalendarFilesFault ==
    (IF DatesRows # {} THEN {"calendar_dates"} ELSE {})
    \cup (IF CalendarRows # {} THEN {"calendar"} ELSE {})

CalendarFiles ==
    (IF DatesRows # {} THEN {"calendar_dates"} ELSE {})
    \cup (IF CalendarRows # {} \/ DatesRows = {} THEN {"calendar"} ELSE {})

Files ==
    (Tables \cap DOMAIN table_columns)
    \cup CalendarFiles
    \cup {f \in RowFiles : contents.rows[f] > 0}
    \cup {"stop_times"}

Content(f) ==
    CASE f \in Tables     -> TableFile(f)
      [] f = "calendar"         -> CalendarRows
      [] f = "calendar_dates"   -> DatesRows
      [] f = "stop_times"       -> {NumberCell(n) : n \in contents.numbers}
      [] OTHER                  -> contents.rows[f]

\* Fault: the optional file is written after the others.
BeforeFeedInfoFault == {"agency", "calendar", "calendar_dates", "stops", "routes", "trips", "stop_times"}

\* The files that are in the archive when feed_info.txt is written.
BeforeFeedInfo == {"agency"}

\* The table has columns, read from a file without rows, and no object.
WriteRaises == "feed_info" \in DOMAIN table_columns /\ feed_info = None

\* An exception leaves the archive to be closed with what it has.
Write ==
    /\ archive' = IF WriteRaises
                  THEN [state |-> "raised", files |-> [f \in Files \cap BeforeFeedInfo |-> Content(f)]]
                  ELSE [state |-> "closed", files |-> [f \in Files |-> Content(f)]]
    /\ UNCHANGED <<attrs, status, table_columns, feed_info, contents, outdated>>

-----------------------------------------------------------------------------

Change ==
    \/ \E o \in Objects :
          \/ \E c \in Columns :
                \/ \E v \in Values \cup {None} : SetAttribute(o, c, v)
                \/ DelAttribute(o, c)
          \/ AddObject(o)
          \/ AddFails(o)
    \/ \E t \in Tables, header \in SUBSET Columns \ {{}}, objects \in SUBSET Objects :
          \E v \in Values : ReadTable(t, header, objects, v)

\* Writing changes nothing but the file, which it starts anew: a behaviour
\* ends with its first write.
Next ==
    \/ archive.state = "none" /\ Change
    \/ archive.state = "none" /\ Write
    \/ archive.state # "none" /\ UNCHANGED vars

Spec == Init /\ [][Next]_vars

-----------------------------------------------------------------------------
(* Properties.                                                             *)

\* The row of an object has a cell for each of its attributes that has a
\* value, and it is not the cell of an attribute without one.
RowHasValues(o, row) ==
    \A c \in DOMAIN attrs[o] : attrs[o][c] \notin {None, Empty} =>
        c \in DOMAIN row /\ row[c] # Encoded(Empty)

(* The columns of a table are a list of their own, extended by __setattr__ *)
(* and by every add method.  A feed that is written to its end has the     *)
(* file of every table with objects, a row for each object in the schedule *)
(* and for no stranded or replaced one, and in the row a cell for every    *)
(* attribute the object has at that time, whenever it was set; unless the  *)
(* loader read the table again after the object and so replaced its        *)
(* columns.  What the text of a cell is, is the subject of                 *)
(* ValuesAreReadBack.                                                      *)
EveryValueHasACell ==
    archive.state = "closed" =>
        \A t \in Tables :
            /\ Stored(t) # {} => t \in DOMAIN archive.files
            /\ t \in DOMAIN archive.files => DOMAIN archive.files[t].rows = Stored(t)
            /\ \A o \in Stored(t) \ outdated : RowHasValues(o, archive.files[t].rows[o])

(* A written feed can be loaded again: the values of an attribute that is  *)
(* an unknown column come back "foo1" as they were set, for the tests; and *)
(* the csv writer "can safely write unicode values", for its docstring.    *)
(* So the header has the name of the attribute, and the cell its value.    *)
ValuesAreReadBack ==
    archive.state = "closed" =>
        \A t \in Tables \cap DOMAIN archive.files :
            \A o \in Stored(t) \ outdated : \A c \in DOMAIN attrs[o] :
                attrs[o][c] # None => /\ c \in archive.files[t].header
                                      /\ archive.files[t].rows[o][c] = attrs[o][c]

(* calendar.txt is written when it has rows or calendar_dates.txt has none:*)
(* a written feed has one of the two, which the loader requires, and every *)
(* period with both ends or with exceptions is in one of them.             *)
CalendarIsWritten ==
    archive.state = "closed" =>
        /\ {"calendar", "calendar_dates"} \cap DOMAIN archive.files # {}
        /\ \A p \in DOMAIN contents.periods :
              /\ contents.periods[p].start /\ contents.periods[p].end =>
                    "calendar" \in DOMAIN archive.files /\ p \in archive.files["calendar"]
              /\ contents.periods[p].exceptions > 0 =>
                    "calendar_dates" \in DOMAIN archive.files /\ p \in archive.files["calendar_dates"]

(* The write of a schedule without a feed_info object whose feed_info      *)
(* columns were read from a file raises, with the target file replaced.    *)
(* What it leaves has none of the files every feed must have but agency:   *)
(* no reader can take it for a feed.  No other schedule fails.             *)
FailedWriteIsNoFeed ==
    /\ archive.state = "raised" =>
          /\ {"stops", "routes", "trips", "stop_times"} \cap DOMAIN archive.files = {}
          /\ \A o \in Objects : TableOf[o] = "feed_info" => status[o] # "added"
    /\ archive.state = "closed" /\ "feed_info" \in DOMAIN table_columns =>
          \E o \in Objects : TableOf[o] = "feed_info" /\ status[o] = "added"
=============================================================================
