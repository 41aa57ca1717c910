------------------------------ MODULE MCWriter ------------------------------
(***************************************************************************)
(* A small schedule for Writer: an agency, and two feed_infos of which the  *)
(* second to be added replaces the first.                                   *)
(***************************************************************************)
EXTENDS Writer, TLC

CONSTANTS agency1, info1, info2, c1, c2

MCTableOf == [o \in Objects |-> IF o = agency1 THEN "agency" ELSE "feed_info"]

MCDefaults == [t \in Tables |-> IF t = "agency" THEN Columns ELSE {}]

\* The two columns, and the two feed_infos, may change places.
Symmetry == {f @@ g : f \in Permutations({c1, c2}), g \in Permutations({info1, info2})}

\* No period; periods with exceptions, with both ends or with one; rows in
\* some files, and stop times from 0.
MCContents ==
    LET Period(s, e, n) == [start |-> s, end |-> e, exceptions |-> n]
        NoRows == [f \in RowFiles |-> 0]
        Some(periods) == [periods |-> periods, numbers |-> {0, 1}, rows |-> [f \in RowFiles |-> 1]]
    IN  {[periods |-> <<>>, numbers |-> {}, rows |-> NoRows],
         [periods |-> <<Period(TRUE, FALSE, 0)>>, numbers |-> {1}, rows |-> [NoRows EXCEPT !["shapes"] = 2]],
         Some(<<Period(FALSE, FALSE, 1)>>),
         Some(<<Period(TRUE, TRUE, 0), Period(FALSE, TRUE, 2)>>)}
=============================================================================
