---------------------------- MODULE WriterProofs ----------------------------
(***************************************************************************)
(* A feed written to its end has a cell for every attribute of every        *)
(* object and a row for every service period, and one that is not cannot be *)
(* taken for a feed: for any tables, objects, columns, values and other     *)
(* contents.                                                                *)
(***************************************************************************)
EXTENDS Writer, TLAPS

\* Columns cover attributes, except those of outdated objects.
ColumnsOK ==
    /\ \A o \in Objects : status[o] = "added" => TableOf[o] \in DOMAIN table_columns
    /\ \A o \in Objects \ outdated :
          status[o] = "added" => DOMAIN attrs[o] \subseteq table_columns[TableOf[o]]

\* There is a feed_info exactly when one was added.
FeedInfoOK ==
    /\ feed_info # None => /\ feed_info \in Objects
                           /\ TableOf[feed_info] = "feed_info"
                           /\ status[feed_info] = "added"
    /\ \A o \in Objects : TableOf[o] = "feed_info" /\ status[o] = "added" => feed_info # None

\* What was written is what the schedule, unchanged since, would write.
ArchiveOK ==
    /\ archive.state = "closed" => ~WriteRaises /\ archive.files = [f \in Files |-> Content(f)]
    /\ archive.state = "raised" => WriteRaises /\ DOMAIN archive.files \subseteq BeforeFeedInfo

IInv ==
    /\ DOMAIN attrs = Objects
    /\ DOMAIN status = Objects
    /\ ColumnsOK
    /\ FeedInfoOK
    /\ ArchiveOK

-----------------------------------------------------------------------------

\* Adding columns to a table drops none of any table.
LEMMA AddTableColumnsGrows ==
    ASSUME NEW t, NEW columns, AddTableColumns(t, columns)
    PROVE  /\ DOMAIN table_columns' = DOMAIN table_columns \cup {t}
           /\ columns \subseteq table_columns'[t]
           /\ \A u \in DOMAIN table_columns : table_columns[u] \subseteq table_columns'[u]
BY DEF AddTableColumns, With

\* The invariant holds in an empty schedule.
LEMMA InitInv == Init => IInv
<1>. SUFFICES ASSUME Init PROVE IInv
  OBVIOUS
<1>1. /\ DOMAIN attrs = Objects
      /\ DOMAIN status = Objects
      /\ \A o \in Objects : status[o] # "added"
  BY DEF Init
<1>2. FeedInfoOK
  BY DEF Init, FeedInfoOK
<1>3. archive.state = "none"
  BY DEF Init, NotWritten
<1> QED
  BY <1>1, <1>2, <1>3 DEF IInv, ColumnsOK, ArchiveOK

\* An action that only adds columns, for the attributes it adds.
LEMMA SetAttributeInv ==
    ASSUME IInv, NEW o \in Objects, NEW c, NEW v, SetAttribute(o, c, v)
    PROVE  ColumnsOK' /\ FeedInfoOK' /\ DOMAIN attrs' = Objects /\ DOMAIN status' = Objects
<1>1. /\ UNCHANGED <<status, feed_info, outdated>>
      /\ DOMAIN attrs' = Objects
      /\ DOMAIN attrs'[o] = DOMAIN attrs[o] \cup {c}
      /\ \A p \in Objects : p # o => attrs'[p] = attrs[p]
  BY DEF IInv, SetAttribute, With
<1>2. /\ DOMAIN table_columns \subseteq DOMAIN table_columns'
      /\ \A u \in DOMAIN table_columns : table_columns[u] \subseteq table_columns'[u]
      /\ status[o] = "added" => c \in table_columns'[TableOf[o]]
  <2>1. CASE status[o] # "new" /\ TableOf[o] \in DOMAIN table_columns
    <3>1. AddTableColumns(TableOf[o], {c})
      BY <2>1 DEF SetAttribute
    <3> QED
      BY <3>1, AddTableColumnsGrows
  <2>2. CASE ~(status[o] # "new" /\ TableOf[o] \in DOMAIN table_columns)
    <3>1. UNCHANGED table_columns
      BY <2>2 DEF SetAttribute
    <3>2. status[o] # "added"
      BY <2>2 DEF IInv, ColumnsOK
    <3> QED
      BY <3>1, <3>2
  <2> QED
    BY <2>1, <2>2
<1>3. ColumnsOK'
  BY <1>1, <1>2 DEF IInv, ColumnsOK
<1> QED
  BY <1>1, <1>3 DEF IInv, FeedInfoOK

LEMMA DelAttributeInv ==
    ASSUME IInv, NEW o \in Objects, NEW c, DelAttribute(o, c)
    PROVE  ColumnsOK' /\ FeedInfoOK' /\ DOMAIN attrs' = Objects /\ DOMAIN status' = Objects
<1>1. /\ UNCHANGED <<status, table_columns, feed_info, outdated>>
      /\ DOMAIN attrs' = Objects
      /\ \A p \in Objects : DOMAIN attrs'[p] \subseteq DOMAIN attrs[p]
  BY DEF IInv, DelAttribute
<1> QED
  BY <1>1 DEF IInv, ColumnsOK, FeedInfoOK

LEMMA AddObjectInv ==
    ASSUME IInv, NEW o \in Objects, AddObject(o)
    PROVE  ColumnsOK' /\ FeedInfoOK' /\ DOMAIN attrs' = Objects /\ DOMAIN status' = Objects
<1>1. /\ UNCHANGED <<attrs, outdated>>
      /\ DOMAIN status' = Objects
      /\ status'[o] = "added"
      /\ \A p \in Objects : p # o => status'[p] = status[p]
      /\ feed_info' = IF TableOf[o] = "feed_info" THEN o ELSE feed_info
      /\ AddTableColumns(TableOf[o], DOMAIN attrs[o])
  BY DEF IInv, AddObject
<1>2. /\ DOMAIN table_columns \cup {TableOf[o]} \subseteq DOMAIN table_columns'
      /\ \A u \in DOMAIN table_columns : table_columns[u] \subseteq table_columns'[u]
      /\ DOMAIN attrs[o] \subseteq table_columns'[TableOf[o]]
  BY <1>1, AddTableColumnsGrows
<1>3. ColumnsOK'
  BY <1>1, <1>2 DEF IInv, ColumnsOK
<1>4. FeedInfoOK'
  BY <1>1, TablesAssumption DEF IInv, FeedInfoOK
<1> QED
  BY <1>1, <1>3, <1>4 DEF IInv

LEMMA AddFailsInv ==
    ASSUME IInv, NEW o \in Objects, AddFails(o)
    PROVE  ColumnsOK' /\ FeedInfoOK' /\ DOMAIN attrs' = Objects /\ DOMAIN status' = Objects
<1>1. /\ UNCHANGED <<attrs, feed_info, outdated>>
      /\ DOMAIN status' = Objects
      /\ status[o] = "new" /\ status'[o] = "stranded"
      /\ \A p \in Objects : p # o => status'[p] = status[p]
  BY DEF IInv, AddFails
<1>2. /\ DOMAIN table_columns \subseteq DOMAIN table_columns'
      /\ \A u \in DOMAIN table_columns : table_columns[u] \subseteq table_columns'[u]
  BY AddTableColumnsGrows DEF AddFails
<1>3. ColumnsOK'
  BY <1>1, <1>2 DEF IInv, ColumnsOK
<1>4. FeedInfoOK'
  BY <1>1 DEF IInv, FeedInfoOK
<1> QED
  BY <1>1, <1>3, <1>4 DEF IInv

\* Reading a table replaces its columns: every object that was in it becomes
\* outdated, and the objects read have the columns of the new list.
LEMMA ReadTableInv ==
    ASSUME IInv, NEW t, NEW header, NEW objects, NEW v, ReadTable(t, header, objects, v)
    PROVE  ColumnsOK' /\ FeedInfoOK' /\ DOMAIN attrs' = Objects /\ DOMAIN status' = Objects
<1> DEFINE keys == header \cup Defaults[t]
<1>1. /\ DOMAIN attrs' = Objects
      /\ DOMAIN status' = Objects
      /\ \A o \in Objects : IF o \in objects
                            THEN DOMAIN attrs'[o] = keys /\ status'[o] = "added"
                            ELSE attrs'[o] = attrs[o] /\ status'[o] = status[o]
      /\ \A o \in objects : o \in Objects /\ TableOf[o] = t /\ status[o] = "new"
  BY DEF ReadTable
<1>2. /\ DOMAIN table_columns' = DOMAIN table_columns \cup {t}
      /\ objects # {} => table_columns'[t] = keys
      /\ \A u \in DOMAIN table_columns : u # t => table_columns'[u] = table_columns[u]
  BY DEF ReadTable, With
<1>3. \A o \in Objects : o \in outdated' <=> o \in outdated \/ (TableOf[o] = t /\ status[o] = "added")
  BY DEF ReadTable
<1>4. ColumnsOK'
  <2>1. \A o \in Objects : status'[o] = "added" => TableOf[o] \in DOMAIN table_columns'
    BY <1>1, <1>2 DEF IInv, ColumnsOK
  <2>2. ASSUME NEW o \in Objects, o \notin outdated', status'[o] = "added"
        PROVE  DOMAIN attrs'[o] \subseteq table_columns'[TableOf[o]]
    <3>1. CASE o \in objects
      BY <3>1, <1>1, <1>2
    <3>2. CASE o \notin objects
      <4>1. status[o] = "added" /\ TableOf[o] # t /\ o \notin outdated
        BY <3>2, <2>2, <1>1, <1>3
      <4> QED
        BY <3>2, <4>1, <1>1, <1>2 DEF IInv, ColumnsOK
    <3> QED
      BY <3>1, <3>2
  <2> QED
    BY <2>1, <2>2 DEF ColumnsOK
<1>5. FeedInfoOK'
  <2>1. CASE t = "feed_info" /\ objects # {}
    <3>1. feed_info' \in objects
      BY <2>1 DEF ReadTable
    <3>2. feed_info' # None
      BY <3>1, <1>1, TablesAssumption
    <3> QED
      BY <2>1, <3>1, <3>2, <1>1 DEF FeedInfoOK
  <2>2. CASE ~(t = "feed_info" /\ objects # {})
    <3>1. feed_info' = feed_info
      BY <2>2 DEF ReadTable
    <3> QED
      BY <2>2, <3>1, <1>1 DEF IInv, FeedInfoOK
  <2> QED
    BY <2>1, <2>2
<1> QED
  BY <1>1, <1>4, <1>5

\* Writing reads the schedule and changes the archive only.
LEMMA WriteInv ==
    ASSUME IInv, Write
    PROVE  IInv'
<1>1. UNCHANGED <<attrs, status, table_columns, feed_info, contents, outdated>>
  BY DEF Write
<1>2. Files' = Files
  BY <1>1 DEF Files, CalendarFiles, CalendarRows, DatesRows
<1>3. ASSUME NEW f PROVE Content(f)' = Content(f)
  <2>1. TableFile(f)' = TableFile(f)
    BY <1>1 DEF TableFile, Stored, Item
  <2> QED
    BY <1>1, <2>1 DEF Content, CalendarRows, DatesRows
<1>4. /\ archive'.state = "closed" => ~WriteRaises /\ archive'.files = [f \in Files |-> Content(f)]
      /\ archive'.state = "raised" => WriteRaises /\ DOMAIN archive'.files \subseteq BeforeFeedInfo
  <2>1. CASE WriteRaises
    BY <2>1 DEF Write
  <2>2. CASE ~WriteRaises
    BY <2>2 DEF Write
  <2> QED
    BY <2>1, <2>2
<1>5. ArchiveOK'
  BY <1>1, <1>2, <1>3, <1>4 DEF ArchiveOK, WriteRaises, BeforeFeedInfo
<1> QED
  BY <1>1, <1>5 DEF IInv, ColumnsOK, FeedInfoOK

LEMMA ChangeInv ==
    ASSUME IInv, archive.state = "none", Change
    PROVE  IInv'
<1>1. archive' = archive
  BY DEF Change, SetAttribute, DelAttribute, AddObject, AddFails, ReadTable
<1>2. ArchiveOK'
  BY <1>1 DEF ArchiveOK
<1>3. ColumnsOK' /\ FeedInfoOK' /\ DOMAIN attrs' = Objects /\ DOMAIN status' = Objects
  BY SetAttributeInv, DelAttributeInv, AddObjectInv, AddFailsInv, ReadTableInv DEF Change
<1> QED
  BY <1>2, <1>3 DEF IInv

LEMMA NextInv == IInv /\ [Next]_vars => IInv'
<1>. SUFFICES ASSUME IInv, [Next]_vars PROVE IInv'
  OBVIOUS
<1>1. CASE archive.state = "none" /\ Change
  BY <1>1, ChangeInv
<1>2. CASE archive.state = "none" /\ Write
  BY <1>2, WriteInv
<1>3. CASE UNCHANGED vars
  <2>1. Files' = Files
    BY <1>3 DEF vars, Files, CalendarFiles, CalendarRows, DatesRows
  <2>2. ASSUME NEW f PROVE Content(f)' = Content(f)
    <3>1. TableFile(f)' = TableFile(f)
      BY <1>3 DEF vars, TableFile, Stored, Item
    <3> QED
      BY <1>3, <3>1 DEF vars, Content, CalendarRows, DatesRows
  <2>3. ArchiveOK'
    BY <1>3, <2>1, <2>2 DEF vars, IInv, ArchiveOK, WriteRaises, BeforeFeedInfo
  <2> QED
    BY <1>3, <2>3 DEF vars, IInv, ColumnsOK, FeedInfoOK
<1> QED
  BY <1>1, <1>2, <1>3 DEF Next

-----------------------------------------------------------------------------

\* The columns of the schedule cover the attributes of its objects, so the
\* rows of a closed archive are complete.
LEMMA InvImpliesComplete == IInv => EveryValueHasACell
<1>. SUFFICES ASSUME IInv, archive.state = "closed", NEW t \in Tables
              PROVE  /\ Stored(t) # {} => t \in DOMAIN archive.files
                     /\ t \in DOMAIN archive.files => DOMAIN archive.files[t].rows = Stored(t)
                     /\ \A o \in Stored(t) \ outdated : RowHasValues(o, archive.files[t].rows[o])
  BY DEF EveryValueHasACell
<1>1. archive.files = [f \in Files |-> Content(f)]
  BY DEF IInv, ArchiveOK
<1>2. \A o \in Stored(t) : o \in Objects /\ TableOf[o] = t /\ status[o] = "added"
  BY DEF Stored, IInv, FeedInfoOK
<1>3. Stored(t) # {} => t \in Files
  BY <1>2 DEF IInv, ColumnsOK, Files
<1>4. t \in Files => archive.files[t] = TableFile(t)
  <2>1. t \notin {"calendar", "calendar_dates", "stop_times"}
    BY TablesAssumption
  <2>2. Content(t) = TableFile(t)
    BY <2>1 DEF Content
  <2> QED
    BY <1>1, <2>2
<1>5. DOMAIN TableFile(t).rows = Stored(t)
  BY DEF TableFile
<1>6. ASSUME NEW o \in Stored(t), o \notin outdated
      PROVE  RowHasValues(o, TableFile(t).rows[o])
  <2>1. DOMAIN attrs[o] \subseteq table_columns[t]
    BY <1>2, <1>6 DEF IInv, ColumnsOK
  <2>2. ASSUME NEW c \in DOMAIN attrs[o], attrs[o][c] \notin {None, Empty}
        PROVE  /\ c \in DOMAIN TableFile(t).rows[o]
               /\ TableFile(t).rows[o][c] # Encoded(Empty)
    <3>1. /\ c \in DOMAIN TableFile(t).rows[o]
          /\ TableFile(t).rows[o][c] = Encoded(Item(o, c))
      BY <2>1, <1>6 DEF TableFile
    <3>2. Item(o, c) = attrs[o][c]
      BY <2>2 DEF Item
    <3> QED
      BY <2>2, <3>1, <3>2 DEF Encoded
  <2> QED
    BY <2>2 DEF RowHasValues
<1> QED
  BY <1>1, <1>3, <1>4, <1>5, <1>6

\* The calendar files of a closed archive are those of the schedule.
LEMMA InvImpliesCalendar == IInv => CalendarIsWritten
<1>. SUFFICES ASSUME IInv, archive.state = "closed"
              PROVE  /\ {"calendar", "calendar_dates"} \cap DOMAIN archive.files # {}
                     /\ \A p \in CalendarRows : /\ "calendar" \in DOMAIN archive.files
                                               /\ p \in archive.files["calendar"]
                     /\ \A p \in DatesRows : /\ "calendar_dates" \in DOMAIN archive.files
                                            /\ p \in archive.files["calendar_dates"]
  BY DEF CalendarIsWritten, CalendarRows, DatesRows
<1>1. archive.files = [f \in Files |-> Content(f)]
  BY DEF IInv, ArchiveOK
<1>2. /\ CalendarRows # {} => "calendar" \in Files
      /\ DatesRows # {} => "calendar_dates" \in Files
      /\ {"calendar", "calendar_dates"} \cap Files # {}
  BY DEF Files, CalendarFiles
<1>3. {"calendar", "calendar_dates"} \cap Tables = {}
  BY TablesAssumption
<1>4. Content("calendar") = CalendarRows
  BY <1>3 DEF Content
<1>5. Content("calendar_dates") = DatesRows
  BY <1>3 DEF Content
<1> QED
  BY <1>1, <1>2, <1>4, <1>5

\* A write stops at feed_info.txt for want of a feed_info.
LEMMA InvImpliesNoFeed == IInv => FailedWriteIsNoFeed
<1>. SUFFICES ASSUME IInv PROVE FailedWriteIsNoFeed
  OBVIOUS
<1>1. ASSUME archive.state = "raised"
      PROVE  /\ {"stops", "routes", "trips", "stop_times"} \cap DOMAIN archive.files = {}
             /\ \A o \in Objects : TableOf[o] = "feed_info" => status[o] # "added"
  <2>1. WriteRaises /\ DOMAIN archive.files \subseteq {"agency"}
    BY <1>1 DEF IInv, ArchiveOK, BeforeFeedInfo
  <2> QED
    BY <2>1 DEF IInv, FeedInfoOK, WriteRaises
<1>2. ASSUME archive.state = "closed", "feed_info" \in DOMAIN table_columns
      PROVE  \E o \in Objects : TableOf[o] = "feed_info" /\ status[o] = "added"
  BY <1>2 DEF IInv, ArchiveOK, FeedInfoOK, WriteRaises
<1> QED
  BY <1>1, <1>2 DEF FailedWriteIsNoFeed

\* The invariant is inductive.
LEMMA Invariant == Spec => []IInv
BY InitInv, NextInv, PTL DEF Spec

(* Whatever the order in which objects are built, added, changed and read, *)
(* a feed that write_google_transit_feed closes has a cell for every       *)
(* attribute of every object whose columns the loader has not replaced.    *)
THEOREM ValuesHaveCells == Spec => []EveryValueHasACell
BY Invariant, InvImpliesComplete, PTL

(* A feed that is written to its end has a calendar file, and every period *)
(* with both ends or with exceptions is in one.                            *)
THEOREM CalendarWritten == Spec => []CalendarIsWritten
BY Invariant, InvImpliesCalendar, PTL

(* A write that raises leaves no file that could be taken for a feed, and  *)
(* it raises only when there is no feed_info for the columns that were read.*)
THEOREM FailedWriteNoFeed == Spec => []FailedWriteIsNoFeed
BY Invariant, InvImpliesNoFeed, PTL
=============================================================================
