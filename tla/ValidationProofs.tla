-------------------------- MODULE ValidationProofs --------------------------
(***************************************************************************)
(* What Schedule.validate promises, for every feed, every bound and every  *)
(* sequence of frequencies: the loops that sort, stop early and remember   *)
(* the first object of a group report exactly what a comparison of         *)
(* everything with everything would, and only the feeds that are named     *)
(* raise.  Each loop has its own invariant, which says what the part of    *)
(* the loop that is over has found.                                        *)
(***************************************************************************)
EXTENDS Validation, FiniteSetTheorems, WellFoundedInduction, TLAPS

-----------------------------------------------------------------------------
(* Numbers and recursive functions.                                        *)

(* A set of numbers has a least one.                                       *)
LEMMA Least ==
    ASSUME NEW T \in SUBSET Nat, T # {}
    PROVE  \E m \in T : \A k \in T : m <= k
<1> DEFINE R == OpToRel(<, Nat)
<1>1. PICK m \in T : \A k \in T : ~ (<<k, m>> \in R)
  BY NatLessThanWellFounded, WFMin
<1>2. ASSUME NEW k \in T
      PROVE  m <= k
  <2>1. <<k, m>> \in Nat \X Nat /\ <<k, m>>[1] = k /\ <<k, m>>[2] = m
    OBVIOUS
  <2>2. k < m => <<k, m>> \in R
    BY <2>1, Zenon DEF OpToRel
  <2>3. ~ k < m
    BY <1>1, <2>2
  <2> QED BY <2>3
<1> QED BY <1>2

(* What holds of 0 and passes from each number to the next holds of all.   *)
LEMMA Induction ==
    ASSUME NEW n \in Nat, NEW P \in SUBSET Nat, 0 \in P,
           \A k \in 1 .. n : k - 1 \in P => k \in P
    PROVE  0 .. n \subseteq P
<1> DEFINE T == {k \in 0 .. n : k \notin P}
<1> SUFFICES ASSUME T # {} PROVE FALSE
  OBVIOUS
<1>1. T \in SUBSET Nat
  OBVIOUS
<1>2. PICK m \in T : \A k \in T : m <= k
  <2> HIDE DEF T
  <2> QED BY <1>1, Least
<1>3. m \in 1 .. n /\ m - 1 \in 0 .. n /\ m - 1 \notin T
  BY <1>2
<1> QED BY <1>2, <1>3

(* The function f begins with b and goes on with the step function g.      *)
Follows(n, b, g, f) ==
    \A k \in 0 .. n : f[k] = IF k = 0 THEN b ELSE g[<<k, f[k - 1]>>]

(* A step function defines a recursive function along the numbers.         *)
LEMMA Recursion ==
    ASSUME NEW n \in Nat, NEW S, NEW b \in S, NEW g \in [(1 .. n) \X S -> S]
    PROVE  \E f \in [0 .. n -> S] : Follows(n, b, g, f)
<1> DEFINE Q(m, f) == \A k \in 0 .. m : f[k] = IF k = 0 THEN b ELSE g[<<k, f[k - 1]>>]
           P == {m \in 0 .. n : \E f \in [0 .. m -> S] : Q(m, f)}
<1>1. 0 \in P
  <2> DEFINE f == [k \in 0 .. 0 |-> b]
  <2>1. f \in [0 .. 0 -> S] /\ Q(0, f)
    OBVIOUS
  <2> HIDE DEF f
  <2> QED BY <2>1
<1>2. ASSUME NEW m \in 1 .. n, m - 1 \in P
      PROVE  m \in P
  <2>1. PICK f \in [0 .. m - 1 -> S] : Q(m - 1, f)
    BY <1>2
  <2> DEFINE h == [k \in 0 .. m |-> IF k < m THEN f[k] ELSE g[<<m, f[m - 1]>>]]
  <2>2. m - 1 \in 0 .. m - 1 /\ f[m - 1] \in S
    OBVIOUS
  <2>3. g[<<m, f[m - 1]>>] \in S
    BY <2>2
  <2>4. h \in [0 .. m -> S]
    BY <2>3
  <2>5. /\ \A k \in 0 .. m - 1 : h[k] = f[k]
        /\ h[m] = g[<<m, f[m - 1]>>]
    OBVIOUS
  <2> HIDE DEF h
  <2>6. ASSUME NEW k \in 0 .. m
        PROVE  h[k] = IF k = 0 THEN b ELSE g[<<k, h[k - 1]>>]
    <3>1. CASE k = m
      <4>1. h[m - 1] = f[m - 1] /\ m # 0
        BY <2>2, <2>5
      <4> QED BY <3>1, <2>5, <4>1
    <3>2. CASE k # m /\ k # 0
      <4>1. k \in 0 .. m - 1 /\ k - 1 \in 0 .. m - 1
        BY <3>2
      <4>2. h[k] = f[k] /\ h[k - 1] = f[k - 1]
        BY <2>5, <4>1
      <4>3. f[k] = g[<<k, f[k - 1]>>]
        BY <2>1, <3>2, <4>1
      <4> QED BY <3>2, <4>2, <4>3
    <3>3. CASE k # m /\ k = 0
      <4>1. k \in 0 .. m - 1
        BY <3>3
      <4> QED BY <2>1, <2>5, <3>3, <4>1
    <3> QED BY <3>1, <3>2, <3>3
  <2>7. Q(m, h)
    BY <2>6
  <2> QED BY <2>4, <2>7
<1>3. n \in P
  <2> HIDE DEF P
  <2>1. P \in SUBSET Nat
    BY DEF P
  <2>2. 0 .. n \subseteq P
    BY <1>1, <1>2, <2>1, Induction
  <2> QED BY <2>2
<1> QED BY <1>3 DEF Follows

-----------------------------------------------------------------------------
(* Sorting.                                                                *)

\* R orders the elements of S strictly, one after the other.
Orders(R, S) ==
    /\ \A x \in S : <<x, x>> \notin R
    /\ \A x, y \in S : x # y => <<x, y>> \in R \/ <<y, x>> \in R
    /\ \A x, y, z \in S : <<x, y>> \in R /\ <<y, z>> \in R => <<x, z>> \in R

\* s lists the elements of S in the order R.
Lists(s, R, S) ==
    /\ s \in [1 .. Cardinality(S) -> S]
    /\ \A j, k \in 1 .. Cardinality(S) : j < k => <<s[j], s[k]>> \in R
    /\ \A x \in S : \E k \in 1 .. Cardinality(S) : s[k] = x

(* A finite set that is not empty has a last element.                      *)
LEMMA LastElement ==
    ASSUME NEW R, NEW S, IsFiniteSet(S), Orders(R, S), S # {}
    PROVE  \E g \in S : \A x \in S \ {g} : <<x, g>> \in R
<1> DEFINE Q(T) == T = {} \/ \E g \in T : \A x \in T \ {g} : <<x, g>> \in R
           P == {n \in 0 .. Cardinality(S) : \A T \in SUBSET S : Cardinality(T) = n => Q(T)}
<1>0. Cardinality(S) \in Nat /\ \A T \in SUBSET S : IsFiniteSet(T) /\ Cardinality(T) \in Nat
  BY FS_CardinalityType, FS_Subset
<1>1. 0 \in P
  BY <1>0, FS_EmptySet
<1>2. ASSUME NEW n \in 1 .. Cardinality(S), n - 1 \in P
      PROVE  n \in P
  <2> SUFFICES ASSUME NEW T \in SUBSET S, Cardinality(T) = n PROVE Q(T)
    OBVIOUS
  <2>1. PICK y \in T : TRUE
    BY <1>0, FS_EmptySet
  <2>2. T \ {y} \in SUBSET S /\ Cardinality(T \ {y}) = n - 1
    BY <1>0, <2>1, FS_RemoveElement
  <2>3. Q(T \ {y})
    BY <1>2, <2>2
  <2>4. CASE T \ {y} = {}
    BY <2>4, <2>1
  <2>5. CASE T \ {y} # {}
    <3>1. PICK g \in T \ {y} : \A x \in (T \ {y}) \ {g} : <<x, g>> \in R
      BY <2>3, <2>5
    <3>2. CASE <<y, g>> \in R
      BY <3>1, <3>2
    <3>3. CASE <<y, g>> \notin R
      <4>1. <<g, y>> \in R
        BY <3>1, <3>3, <2>1 DEF Orders
      <4>2. \A x \in T \ {y} : <<x, y>> \in R
        BY <3>1, <4>1, <2>1 DEF Orders
      <4> QED BY <4>2, <2>1
    <3> QED BY <3>2, <3>3
  <2> QED BY <2>4, <2>5
<1>3. Cardinality(S) \in P
  <2> HIDE DEF P
  <2>1. P \in SUBSET Nat
    BY <1>0 DEF P
  <2>2. 0 .. Cardinality(S) \subseteq P
    BY <1>0, <1>1, <1>2, <2>1, Induction
  <2> QED BY <2>2, <1>0
<1> QED BY <1>3

(* A finite set can be listed in its order.                                *)
LEMMA SortExists ==
    ASSUME NEW R, NEW S, IsFiniteSet(S), Orders(R, S)
    PROVE  \E s : Lists(s, R, S)
<1> DEFINE P == {n \in 0 .. Cardinality(S) : \A T \in SUBSET S : Cardinality(T) = n => \E s : Lists(s, R, T)}
<1>0. Cardinality(S) \in Nat /\ \A T \in SUBSET S : IsFiniteSet(T) /\ Cardinality(T) \in Nat
  BY FS_CardinalityType, FS_Subset
<1>1. 0 \in P
  <2> SUFFICES ASSUME NEW T \in SUBSET S, Cardinality(T) = 0 PROVE \E s : Lists(s, R, T)
    BY <1>0
  <2>1. T = {}
    BY <1>0, FS_EmptySet
  <2> DEFINE s == [k \in 1 .. 0 |-> 0]
  <2>2. s \in [1 .. 0 -> T]
    OBVIOUS
  <2>3. Lists(s, R, T)
    BY <2>1, <2>2 DEF Lists
  <2> QED BY <2>3
<1>2. ASSUME NEW n \in 1 .. Cardinality(S), n - 1 \in P
      PROVE  n \in P
  <2> SUFFICES ASSUME NEW T \in SUBSET S, Cardinality(T) = n PROVE \E s : Lists(s, R, T)
    OBVIOUS
  <2>1. T # {} /\ IsFiniteSet(T) /\ Orders(R, T)
    BY <1>0, FS_EmptySet DEF Orders
  <2>2. PICK g \in T : \A x \in T \ {g} : <<x, g>> \in R
    BY <2>1, LastElement
  <2>3. T \ {g} \in SUBSET S /\ Cardinality(T \ {g}) = n - 1
    BY <2>1, <2>2, FS_RemoveElement
  <2>4. PICK s : Lists(s, R, T \ {g})
    BY <1>2, <2>3
  <2> DEFINE u == [k \in 1 .. n |-> IF k < n THEN s[k] ELSE g]
  <2>5. /\ s \in [1 .. n - 1 -> T \ {g}]
        /\ \A j, k \in 1 .. n - 1 : j < k => <<s[j], s[k]>> \in R
        /\ \A x \in T \ {g} : \E k \in 1 .. n - 1 : s[k] = x
    BY <2>3, <2>4 DEF Lists
  <2>6. /\ \A k \in 1 .. n - 1 : k \in 1 .. n /\ u[k] = s[k] /\ s[k] \in T \ {g}
        /\ u[n] = g /\ n \in 1 .. n
        /\ \A k \in 1 .. n : k = n \/ k \in 1 .. n - 1
    BY <2>5
  <2>7. u \in [1 .. n -> T]
    BY <2>5, <2>6
  <2> HIDE DEF u
  <2>8. \A j, k \in 1 .. n : j < k => <<u[j], u[k]>> \in R
    BY <2>2, <2>5, <2>6
  <2>9. \A x \in T : \E k \in 1 .. n : u[k] = x
    BY <2>5, <2>6
  <2> QED BY <2>7, <2>8, <2>9 DEF Lists
<1>3. Cardinality(S) \in P
  <2> HIDE DEF P
  <2>1. P \in SUBSET Nat
    BY <1>0 DEF P
  <2>2. 0 .. Cardinality(S) \subseteq P
    BY <1>0, <1>1, <1>2, <2>1, Induction
  <2> QED BY <2>2, <1>0
<1> QED BY <1>3

-----------------------------------------------------------------------------
(* The types of the state.                                                 *)

AfterStopTimes    == {"shapes", "done"}
AfterBlocks       == {"agencies", "stop times"} \cup AfterStopTimes
AfterTrips        == {"blocks"} \cup AfterBlocks
AfterRoutes       == {"trips"} \cup AfterTrips
AfterNearby       == {"routes"} \cup AfterRoutes
AfterStops        == {"nearby stops"} \cup AfterNearby
AfterTransfers    == {"frequencies", "stops"} \cup AfterStops
AfterLoadRoutes   == {"load transfers"} \cup AfterTransfers
AfterLoadStops    == {"load routes"} \cup AfterLoadRoutes
Passes            == {"load stops", "raised"} \cup AfterLoadStops

IsSeq(s) == \E S : s \in Seq(S)

\* The frequency periods that add_frequency accepts.
Period == {h \in Times \X Times \X Headways : FrequencyIsValid(h[1], h[2], h[3])}

\* The entries of stop_types: route, type, is_match.
Marks == UNION {[D -> Nat \X {Subway, Bus} \X {0, 1}] : D \in SUBSET Nat}

TypeInv ==
    /\ feed \in Feeds
    /\ stops \in Seq(StopRow) /\ Len(stops) = Len(feed.stops)
    /\ transfers \subseteq DOMAIN feed.transfers
    /\ headways \in [DOMAIN feed.trips -> Seq(Period)]
    /\ pass \in Passes
    /\ at \in Nat \ {0} /\ inner \in Nat
    /\ stop_types \in Marks
    /\ block \in Nat \ {0}
    /\ IsSeq(reports)

(* What FeedsAssumption says of the feed.                                  *)
LEMMA FeedFacts ==
    ASSUME TypeInv
    PROVE  /\ feed.loaded \in BOOLEAN /\ feed.children \in BOOLEAN
           /\ feed.prints \in BOOLEAN /\ feed.check_duplicates \in BOOLEAN
           /\ feed.stops \in Seq(StopRow) /\ feed.routes \in Seq(RouteRow)
           /\ feed.transfers \in Seq(TransferRow) /\ feed.trips \in Seq(TripRow)
           /\ feed.frequencies \in Nat
BY FeedsAssumption DEF TypeInv

LEMMA SeqAsFunction ==
    ASSUME NEW S, NEW s \in Seq(S)
    PROVE  Len(s) \in Nat /\ DOMAIN s = 1 .. Len(s) /\ \A k \in DOMAIN s : s[k] \in S
OBVIOUS

LEMMA EitherFirst ==
    ASSUME NEW n \in Nat, NEW j \in 1 .. n, NEW k \in 1 .. n, j # k
    PROVE  j < k \/ k < j
OBVIOUS

(* A sequence as a function.                                               *)
LEMMA SeqFacts ==
    ASSUME NEW s, IsSeq(s)
    PROVE  Len(s) \in Nat /\ DOMAIN s = 1 .. Len(s)
BY DEF IsSeq

-----------------------------------------------------------------------------
(* What a step reports.                                                    *)

\* s is a list of reports of some kinds.
Lines(s, kinds) == IsSeq(s) /\ \A k \in DOMAIN s : s[k][1] \in kinds

\* The list r2 goes on where r stops, with reports of some kinds.
Grows(r, r2, kinds) ==
    /\ Len(r) \in Nat /\ Len(r2) \in Nat /\ Len(r) <= Len(r2)
    /\ DOMAIN r = 1 .. Len(r) /\ DOMAIN r2 = 1 .. Len(r2)
    /\ \A k \in 1 .. Len(r) : r2[k] = r[k]
    /\ \A k \in Len(r) + 1 .. Len(r2) : r2[k][1] \in kinds

LEMMA EmptyLines ==
    ASSUME NEW K
    PROVE  Lines(<<>>, K)
<1>1. <<>> \in Seq({})
  OBVIOUS
<1> QED BY <1>1 DEF Lines, IsSeq

LEMMA ReportLines ==
    ASSUME NEW K, NEW kind \in K, NEW a, NEW b, NEW c
    PROVE  Lines(Report(kind, a, b, c), K)
<1>1. <<<<kind, a, b, c>>>> \in Seq({<<kind, a, b, c>>})
  OBVIOUS
<1> DEFINE row == <<kind, a, b, c>>
<1>2. row[1] = kind
  OBVIOUS
<1> HIDE DEF row
<1>3. \A k \in DOMAIN <<row>> : <<row>>[k] = row
  OBVIOUS
<1>4. IsSeq(<<row>>)
  BY <1>1 DEF IsSeq, row
<1>5. Lines(<<row>>, K)
  BY <1>2, <1>3, <1>4, Zenon DEF Lines
<1> QED BY <1>5 DEF Report, row

LEMMA ConcatFacts ==
    ASSUME NEW r, NEW s, IsSeq(r), IsSeq(s)
    PROVE  /\ IsSeq(r \o s) /\ Len(r \o s) = Len(r) + Len(s)
           /\ \A k \in 1 .. Len(r) : (r \o s)[k] = r[k]
           /\ \A k \in 1 .. Len(s) : (r \o s)[Len(r) + k] = s[k]
<1>1. PICK S, T : r \in Seq(S) /\ s \in Seq(T)
  BY DEF IsSeq
<1>2. r \in Seq(S \cup T) /\ s \in Seq(S \cup T)
  BY <1>1
<1>3. r \o s \in Seq(S \cup T)
  BY <1>2
<1>4. IsSeq(r \o s)
  BY <1>3 DEF IsSeq
<1> QED BY <1>2, <1>4

LEMMA ConcatLines ==
    ASSUME NEW K, NEW r, NEW s, Lines(r, K), Lines(s, K)
    PROVE  Lines(r \o s, K)
<1>1. IsSeq(r) /\ IsSeq(s)
  BY DEF Lines
<1>2. Len(r) \in Nat /\ Len(s) \in Nat /\ DOMAIN r = 1 .. Len(r) /\ DOMAIN s = 1 .. Len(s)
  BY <1>1, SeqFacts
<1>3. ASSUME NEW k \in 1 .. Len(r) + Len(s)
      PROVE  (r \o s)[k][1] \in K
  <2>1. CASE k <= Len(r)
    BY <1>1, <1>2, <2>1, ConcatFacts DEF Lines
  <2>2. CASE k > Len(r)
    <3>1. k - Len(r) \in 1 .. Len(s) /\ k = Len(r) + (k - Len(r))
      BY <1>2, <2>2
    <3>2. (r \o s)[k] = s[k - Len(r)]
      BY <1>1, <3>1, ConcatFacts
    <3> QED BY <1>2, <3>1, <3>2 DEF Lines
  <2> QED BY <1>2, <2>1, <2>2
<1>4. IsSeq(r \o s) /\ DOMAIN (r \o s) = 1 .. Len(r) + Len(s)
  BY <1>1, ConcatFacts, SeqFacts
<1> QED BY <1>3, <1>4 DEF Lines

LEMMA ConcatGrows ==
    ASSUME NEW K, NEW r, NEW s, IsSeq(r), Lines(s, K)
    PROVE  Grows(r, r \o s, K)
<1>1. IsSeq(s)
  BY DEF Lines
<1>2. /\ Len(r) \in Nat /\ Len(s) \in Nat /\ DOMAIN r = 1 .. Len(r) /\ DOMAIN s = 1 .. Len(s)
      /\ Len(r \o s) = Len(r) + Len(s) /\ DOMAIN (r \o s) = 1 .. Len(r) + Len(s)
  BY <1>1, SeqFacts, ConcatFacts
<1>3. ASSUME NEW k \in Len(r) + 1 .. Len(r) + Len(s)
      PROVE  (r \o s)[k][1] \in K
  <2>1. k - Len(r) \in 1 .. Len(s) /\ k = Len(r) + (k - Len(r))
    BY <1>2
  <2>2. (r \o s)[k] = s[k - Len(r)]
    BY <1>1, <2>1, ConcatFacts
  <2> QED BY <1>2, <2>1, <2>2 DEF Lines
<1>4. \A k \in 1 .. Len(r) : (r \o s)[k] = r[k]
  BY <1>1, ConcatFacts
<1> QED BY <1>2, <1>3, <1>4 DEF Grows

LEMMA AppendIsConcat ==
    ASSUME NEW r, NEW x, IsSeq(r)
    PROVE  Append(r, x) = r \o <<x>>
<1>1. PICK S : r \in Seq(S)
  BY DEF IsSeq
<1>2. r \in Seq(S \cup {x}) /\ <<x>> \in Seq(S \cup {x})
  BY <1>1
<1> QED BY <1>2

LEMMA AppendReport ==
    ASSUME NEW r, NEW kind, NEW a, NEW b, NEW c, IsSeq(r)
    PROVE  Append(r, <<kind, a, b, c>>) = r \o Report(kind, a, b, c)
<1> DEFINE row == <<kind, a, b, c>>
<1> HIDE DEF row
<1>1. Append(r, row) = r \o <<row>>
  BY AppendIsConcat
<1> QED BY <1>1 DEF row, Report

LEMMA SameGrows ==
    ASSUME NEW K, NEW r, IsSeq(r)
    PROVE  Grows(r, r, K)
BY SeqFacts DEF Grows

-----------------------------------------------------------------------------
(* The sorted lists of the loops.                                          *)

LEMMA FunctionIsSeq ==
    ASSUME NEW n \in Nat, NEW S, NEW s \in [1 .. n -> S]
    PROVE  s \in Seq(S) /\ Len(s) = n /\ DOMAIN s = 1 .. n
OBVIOUS

LEMMA ExceptSeq ==
    ASSUME NEW S, NEW s \in Seq(S), NEW a \in 1 .. Len(s), NEW v \in S
    PROVE  /\ [s EXCEPT ![a] = v] \in Seq(S)
           /\ Len([s EXCEPT ![a] = v]) = Len(s)
OBVIOUS

LEMMA StopsSorted ==
    ASSUME TypeInv
    PROVE  /\ SortedStops \in Seq({i \in 1 .. Len(stops) : Located(i)})
           /\ \A j, k \in DOMAIN SortedStops : j < k => SortedBefore(SortedStops[j], SortedStops[k])
           /\ \A i \in 1 .. Len(stops) : Located(i) => \E k \in DOMAIN SortedStops : SortedStops[k] = i
<1> DEFINE S == {i \in 1 .. Len(stops) : Located(i)}
           R == {z \in S \X S : SortedBefore(z[1], z[2])}
<1>1. IsFiniteSet(S) /\ Cardinality(S) \in Nat
  <2>1. IsFiniteSet(1 .. Len(stops))
    BY FS_Interval DEF TypeInv
  <2> QED BY <2>1, FS_Subset, FS_CardinalityType
<1>2. \A i \in S : stops[i].lat \in Int /\ stops[i].lon \in Int /\ i \in Int
  <2>1. \A i \in S : stops[i] \in StopRow
    BY DEF TypeInv
  <2> QED BY <2>1 DEF StopRow, Fields, Missing, Blank, Bad
<1>3. \A x, y \in S : <<x, y>> \in R <=> SortedBefore(x, y)
  OBVIOUS
<1>4. Orders(R, S)
  <2> HIDE DEF S, R
  <2> QED BY <1>2, <1>3 DEF Orders, SortedBefore
<1>5. PICK s : Lists(s, R, S)
  <2> HIDE DEF S, R
  <2> QED BY <1>1, <1>4, SortExists
<1>6. /\ s \in [1 .. Cardinality(S) -> S]
      /\ \A j, k \in DOMAIN s : j < k => SortedBefore(s[j], s[k])
      /\ Range(s) = S
  <2>1. /\ s \in [1 .. Cardinality(S) -> S] /\ DOMAIN s = 1 .. Cardinality(S)
        /\ \A j, k \in 1 .. Cardinality(S) : j < k => <<s[j], s[k]>> \in R
        /\ \A x \in S : \E k \in 1 .. Cardinality(S) : s[k] = x
    BY <1>5 DEF Lists
  <2> HIDE DEF S, R
  <2> QED BY <2>1, <1>3 DEF Range
<1>7. /\ SortedStops \in [1 .. Cardinality(S) -> S]
      /\ \A j, k \in DOMAIN SortedStops : j < k => SortedBefore(SortedStops[j], SortedStops[k])
      /\ Range(SortedStops) = S
  BY <1>6 DEF SortedStops, InOrder
<1>8. \A i \in S : \E k \in DOMAIN SortedStops : SortedStops[k] = i
  <2> HIDE DEF S
  <2> QED BY <1>7 DEF Range
<1>9. SortedStops \in Seq(S)
  <2> HIDE DEF S
  <2> QED BY <1>1, <1>7, FunctionIsSeq
<1> QED BY <1>7, <1>8, <1>9

LEMMA TripsSorted ==
    ASSUME TypeInv
    PROVE  /\ SortedTrips \in Seq(DOMAIN feed.trips) /\ Len(SortedTrips) = Len(feed.trips)
           /\ \A j, k \in DOMAIN SortedTrips : j < k => TripBefore(SortedTrips[j], SortedTrips[k])
           /\ \A t \in DOMAIN feed.trips : \E k \in DOMAIN SortedTrips : SortedTrips[k] = t
<1> DEFINE S == DOMAIN feed.trips
           R == {z \in S \X S : TripBefore(z[1], z[2])}
<1>0. feed.trips \in Seq(TripRow)
  BY FeedFacts
<1>1. S = 1 .. Len(feed.trips) /\ IsFiniteSet(S) /\ Cardinality(S) = Len(feed.trips) /\ Len(feed.trips) \in Nat
  BY <1>0, FS_Interval
<1>2. \A t \in S : feed.trips[t].route \in Int /\ t \in Int
  <2>1. \A t \in S : feed.trips[t] \in TripRow /\ t \in Int
    BY <1>0
  <2> QED BY <2>1 DEF TripRow
<1>3. \A x, y \in S : <<x, y>> \in R <=> TripBefore(x, y)
  OBVIOUS
<1>4. Orders(R, S)
  <2> HIDE DEF S, R
  <2> QED BY <1>2, <1>3 DEF Orders, TripBefore
<1>5. PICK s : Lists(s, R, S)
  <2> HIDE DEF S, R
  <2> QED BY <1>1, <1>4, SortExists
<1>6. /\ s \in [1 .. Cardinality(S) -> S]
      /\ \A j, k \in DOMAIN s : j < k => TripBefore(s[j], s[k])
      /\ Range(s) = S
  <2>1. /\ s \in [1 .. Cardinality(S) -> S] /\ DOMAIN s = 1 .. Cardinality(S)
        /\ \A j, k \in 1 .. Cardinality(S) : j < k => <<s[j], s[k]>> \in R
        /\ \A x \in S : \E k \in 1 .. Cardinality(S) : s[k] = x
    BY <1>5 DEF Lists
  <2> HIDE DEF S, R
  <2> QED BY <2>1, <1>3 DEF Range
<1>7. /\ SortedTrips \in [1 .. Cardinality(S) -> S]
      /\ \A j, k \in DOMAIN SortedTrips : j < k => TripBefore(SortedTrips[j], SortedTrips[k])
      /\ Range(SortedTrips) = S
  BY <1>6 DEF SortedTrips, InOrder
<1>8. \A i \in S : \E k \in DOMAIN SortedTrips : SortedTrips[k] = i
  <2> HIDE DEF S
  <2> QED BY <1>7 DEF Range
<1>9. SortedTrips \in Seq(S) /\ Len(SortedTrips) = Cardinality(S)
  <2> HIDE DEF S
  <2> QED BY <1>1, <1>7, FunctionIsSeq
<1> QED BY <1>1, <1>7, <1>8, <1>9

LEMMA PairsSorted ==
    ASSUME TypeInv, NEW t \in DOMAIN headways
    PROVE  /\ InOrder(OverlappingPairs(t), PairBefore) \in Seq(OverlappingPairs(t))
           /\ \A p \in OverlappingPairs(t) :
                 \E k \in DOMAIN InOrder(OverlappingPairs(t), PairBefore) :
                     InOrder(OverlappingPairs(t), PairBefore)[k] = p
<1> DEFINE S == OverlappingPairs(t)
           R == {z \in S \X S : PairBefore(z[1], z[2])}
           D == DOMAIN headways[t]
           order == InOrder(S, PairBefore)
<1>1. D = 1 .. Len(headways[t]) /\ Len(headways[t]) \in Nat
  BY DEF TypeInv
<1>2. IsFiniteSet(S) /\ Cardinality(S) \in Nat
  <2>1. IsFiniteSet(D)
    <3> HIDE DEF D
    <3>1. IsFiniteSet(1 .. Len(headways[t]))
      BY <1>1, FS_Interval
    <3> QED BY <1>1, <3>1
  <2>2. IsFiniteSet(D \X D)
    BY <2>1, FS_Product
  <2>3. S \in SUBSET (D \X D)
    BY DEF OverlappingPairs
  <2> HIDE DEF S, D
  <2> QED BY <2>2, <2>3, FS_Subset, FS_CardinalityType
<1>3. \A p \in S : p = <<p[1], p[2]>> /\ p[1] \in Int /\ p[2] \in Int
  BY <1>1 DEF OverlappingPairs
<1>4. \A x, y \in S : <<x, y>> \in R <=> PairBefore(x, y)
  OBVIOUS
<1>5. Orders(R, S)
  <2> HIDE DEF S, R
  <2>1. \A x, y \in S : x # y => x[1] # y[1] \/ x[2] # y[2]
    BY <1>3
  <2> QED BY <1>3, <1>4, <2>1 DEF Orders, PairBefore
<1>6. PICK s : Lists(s, R, S)
  <2> HIDE DEF S, R
  <2> QED BY <1>2, <1>5, SortExists
<1>7. /\ s \in [1 .. Cardinality(S) -> S]
      /\ \A j, k \in DOMAIN s : j < k => PairBefore(s[j], s[k])
      /\ Range(s) = S
  <2>1. /\ s \in [1 .. Cardinality(S) -> S] /\ DOMAIN s = 1 .. Cardinality(S)
        /\ \A j, k \in 1 .. Cardinality(S) : j < k => <<s[j], s[k]>> \in R
        /\ \A x \in S : \E k \in 1 .. Cardinality(S) : s[k] = x
    BY <1>6 DEF Lists
  <2> HIDE DEF S, R
  <2> QED BY <2>1, <1>4 DEF Range
<1>8. order \in [1 .. Cardinality(S) -> S] /\ Range(order) = S
  <2> HIDE DEF S
  <2> QED BY <1>7 DEF InOrder
<1> HIDE DEF S, order
<1>9. order \in Seq(S) /\ \A p \in S : \E k \in DOMAIN order : order[k] = p
  BY <1>2, <1>8, FunctionIsSeq DEF Range
<1> QED BY <1>9 DEF S, order

-----------------------------------------------------------------------------
(* The walk over the time points of a trip.                                *)

Point == [departure : Fields, stop : Nat,
          found : Seq({"too_fast", "timetravel"} \X Nat \X Nat \X Nat), raised : BOOLEAN]

(* One stop time: an exception is kept, and a distance raises one.         *)
LEMMA PointAfter ==
    ASSUME NEW acc \in Point, NEW st \in TimeRow, NEW t \in Nat
    PROVE  /\ TimepointAfter(acc, st, t) \in Point
           /\ acc.raised => TimepointAfter(acc, st, t).raised
           /\ st.dist # Missing => TimepointAfter(acc, st, t).raised
<1> DEFINE fast == st.arr # Missing /\ TooFast(t, acc.stop, st.stop, acc.departure, st.arr)
           found == acc.found \o (IF fast THEN Report("too_fast", t, acc.stop, st.stop) ELSE <<>>)
           Rows == {"too_fast", "timetravel"} \X Nat \X Nat \X Nat
           new == TimepointAfter(acc, st, t)
<1>1. fast \in BOOLEAN
  OBVIOUS
<1>2. new = IF acc.raised THEN acc
            ELSE IF st.dist # Missing THEN [acc EXCEPT !.raised = TRUE]
            ELSE IF st.arr = Missing THEN acc
            ELSE IF fast /\ feed.prints THEN [acc EXCEPT !.raised = TRUE]
            ELSE IF acc.departure = Missing THEN [acc EXCEPT !.raised = TRUE]
            ELSE IF st.arr >= acc.departure
                 THEN [departure |-> st.dep, stop |-> st.stop, found |-> found, raised |-> FALSE]
            ELSE [acc EXCEPT !.found = Append(found, <<"timetravel", t, st.seq, 0>>)]
  BY Zenon DEF TimepointAfter
<1>3. /\ acc.departure \in Fields /\ acc.stop \in Nat /\ acc.found \in Seq(Rows) /\ acc.raised \in BOOLEAN
      /\ st.dep \in Fields /\ st.stop \in Nat /\ st.seq \in Nat
  BY DEF Point, TimeRow
<1>4. found \in Seq(Rows) /\ Append(found, <<"timetravel", t, st.seq, 0>>) \in Seq(Rows)
  <2>1. <<"too_fast", t, acc.stop, st.stop>> \in Rows /\ <<"timetravel", t, st.seq, 0>> \in Rows
    BY <1>3
  <2>2. Report("too_fast", t, acc.stop, st.stop) \in Seq(Rows) /\ <<>> \in Seq(Rows)
    BY <2>1 DEF Report
  <2> HIDE DEF Rows, fast
  <2>3. found \in Seq(Rows)
    BY <1>3, <2>2
  <2> HIDE DEF found
  <2> QED BY <2>1, <2>3
<1>5. /\ [acc EXCEPT !.raised = TRUE] \in Point /\ [acc EXCEPT !.raised = TRUE].raised
      /\ [departure |-> st.dep, stop |-> st.stop, found |-> found, raised |-> FALSE] \in Point
      /\ [acc EXCEPT !.found = Append(found, <<"timetravel", t, st.seq, 0>>)] \in Point
  <2> HIDE DEF found
  <2> QED BY <1>3, <1>4 DEF Point
<1> HIDE DEF fast, found, new
<1>6. CASE acc.raised
  <2>1. new = acc
    BY <1>2, <1>3, <1>6
  <2> QED BY <2>1, <1>6 DEF new
<1>7. CASE ~ acc.raised /\ st.dist # Missing
  <2>1. new = [acc EXCEPT !.raised = TRUE]
    BY <1>2, <1>3, <1>7
  <2> QED BY <2>1, <1>5, <1>7 DEF new
<1>8. CASE ~ acc.raised /\ st.dist = Missing
  <2>1. \/ new = acc
        \/ new = [acc EXCEPT !.raised = TRUE]
        \/ new = [departure |-> st.dep, stop |-> st.stop, found |-> found, raised |-> FALSE]
        \/ new = [acc EXCEPT !.found = Append(found, <<"timetravel", t, st.seq, 0>>)]
    BY <1>2, <1>8
  <2>2. new \in Point
    BY <2>1, <1>5
  <2> QED BY <2>2, <1>8 DEF new
<1> QED BY <1>6, <1>7, <1>8

(* The whole trip: without an exception there is no distance.              *)
LEMMA TimepointsFacts ==
    ASSUME TypeInv, NEW t \in DOMAIN feed.trips
    PROVE  /\ Timepoints(t) \in Point
           /\ \A k \in DOMAIN feed.trips[t].times :
                 feed.trips[t].times[k].dist # Missing => Timepoints(t).raised
<1>0. feed.trips \in Seq(TripRow) /\ t \in Nat
  BY FeedFacts
<1>1. feed.trips[t].times \in Seq(TimeRow)
  <2>1. feed.trips[t] \in TripRow
    BY <1>0
  <2> QED BY <2>1 DEF TripRow
<1> DEFINE times == feed.trips[t].times
<1>2. PICK n : n = Len(times)
  OBVIOUS
<1>3. n \in Nat /\ DOMAIN times = 1 .. n /\ \A k \in 1 .. n : times[k] \in TimeRow
  BY <1>1, <1>2
<1> DEFINE b == [departure |-> 0, stop |-> 0, found |-> <<>>, raised |-> FALSE]
           Step(k, x) == TimepointAfter(x, times[k], t)
           F(acc) == [k \in 0 .. n |-> IF k = 0 THEN b ELSE Step(k, acc[k - 1])]
<1>4. Timepoints(t) = (CHOOSE h : h = F(h))[n]
  BY <1>2, Zenon DEF Timepoints
<1>5. b \in Point
  BY DEF Point, Fields
<1>6. \A x \in Point : \A k \in 1 .. n :
         /\ Step(k, x) \in Point
         /\ x.raised => Step(k, x).raised
         /\ times[k].dist # Missing => Step(k, x).raised
  BY <1>0, <1>3, PointAfter
<1> HIDE DEF Step, b
<1>7. PICK g : g = [x \in (1 .. n) \X Point |-> Step(x[1], x[2])]
  OBVIOUS
<1>8. /\ g \in [(1 .. n) \X Point -> Point]
      /\ \A s \in Point : \A k \in 1 .. n : g[<<k, s>>] = Step(k, s)
  BY <1>6, <1>7
<1>9. PICK f \in [0 .. n -> Point] :
         \A k \in 0 .. n : f[k] = IF k = 0 THEN b ELSE g[<<k, f[k - 1]>>]
  <2>1. \E f \in [0 .. n -> Point] : Follows(n, b, g, f)
    BY <1>3, <1>5, <1>8, Recursion
  <2> QED BY <2>1, Zenon DEF Follows
<1>10. f = F(f)
  <2>1. ASSUME NEW k \in 1 .. n
        PROVE  f[k] = Step(k, f[k - 1])
    <3>1. k - 1 \in 0 .. n /\ k # 0 /\ k \in 0 .. n
      BY <1>3
    <3>2. f[k - 1] \in Point /\ f[k] = g[<<k, f[k - 1]>>]
      BY <1>9, <3>1
    <3> QED BY <1>8, <3>2
  <2>2. \A k \in 0 .. n : k = 0 \/ k \in 1 .. n
    BY <1>3
  <2>3. \A k \in 0 .. n : f[k] = IF k = 0 THEN b ELSE Step(k, f[k - 1])
    BY <1>9, <2>1, <2>2
  <2> QED BY <2>3
<1>11. PICK acc : acc = F(acc) /\ Timepoints(t) = acc[n]
  <2> HIDE DEF F
  <2> QED BY <1>4, <1>10
<1>12. \A k \in 0 .. n : acc[k] = IF k = 0 THEN b ELSE Step(k, acc[k - 1])
  BY <1>11
<1> DEFINE P == {k \in 0 .. n : /\ acc[k] \in Point
                                /\ \A j \in 1 .. k : times[j].dist # Missing => acc[k].raised}
<1> HIDE DEF times
<1>13. 0 \in P
  BY <1>3, <1>5, <1>12
<1>14. ASSUME NEW k \in 1 .. n, k - 1 \in P
       PROVE  k \in P
  <2>1. k \in 0 .. n /\ k # 0 /\ acc[k - 1] \in Point
    BY <1>3, <1>14
  <2>2. acc[k] = Step(k, acc[k - 1])
    BY <1>12, <2>1
  <2>3. \A j \in 1 .. k : j = k \/ j \in 1 .. k - 1
    BY <1>3
  <2> QED BY <1>6, <1>14, <2>1, <2>2, <2>3
<1>15. n \in P
  <2> HIDE DEF P
  <2>1. P \in SUBSET Nat
    BY <1>3 DEF P
  <2>2. 0 .. n \subseteq P
    BY <1>3, <1>13, <1>14, <2>1, Induction
  <2> QED BY <1>3, <2>2
<1> QED BY <1>3, <1>11, <1>15 DEF times

-----------------------------------------------------------------------------
(* The walk over the stops of a trip.                                      *)

Mark == [types : Marks, found : Seq({"multiple_route_types"} \X Nat \X Nat \X Nat)]

LEMMA MarkAfter ==
    ASSUME TypeInv, NEW acc \in Mark, NEW st \in TimeRow, NEW t \in DOMAIN feed.trips
    PROVE  StopTypesAfter(acc, st, t) \in Mark
<1> DEFINE r == feed.trips[t].route
           type == RouteType(t)
           first == acc.types[st.stop]
           subway == IF first[2] = Subway THEN first[1] ELSE r
           bus    == IF first[2] = Subway THEN r ELSE first[1]
           Rows == {"multiple_route_types"} \X Nat \X Nat \X Nat
           Cell == Nat \X {Subway, Bus} \X {0, 1}
           new == With(acc.types, st.stop, <<r, type, 0>>)
           both == [acc.types EXCEPT ![st.stop] = <<first[1], first[2], 1>>]
           line == <<"multiple_route_types", st.stop, subway, bus>>
<1>0. r \in Nat /\ st.stop \in Nat
  <2>1. feed.trips[t] \in TripRow
    BY FeedFacts
  <2> QED BY <2>1 DEF TripRow, TimeRow
<1>1. acc.types \in Marks /\ acc.found \in Seq(Rows) /\ acc = [types |-> acc.types, found |-> acc.found]
  BY DEF Mark
<1>2. PICK D \in SUBSET Nat : acc.types \in [D -> Cell]
  BY <1>1 DEF Marks
<1>3. StopTypesAfter(acc, st, t) =
        IF type \notin {Subway, Bus} THEN acc
        ELSE IF st.stop \notin DOMAIN acc.types THEN [acc EXCEPT !.types = new]
        ELSE IF first[2] # type /\ first[3] = 0 THEN [types |-> both, found |-> Append(acc.found, line)]
        ELSE acc
  BY Zenon DEF StopTypesAfter
<1>4. CASE type \in {Subway, Bus} /\ st.stop \notin DOMAIN acc.types
  <2>1. <<r, type, 0>> \in Cell /\ D \cup {st.stop} \in SUBSET Nat
    BY <1>0, <1>4
  <2>2. new \in [D \cup {st.stop} -> Cell]
    <3> HIDE DEF Cell, r, type
    <3> QED BY <1>2, <2>1 DEF With
  <2>3. new \in Marks
    BY <2>1, <2>2 DEF Marks
  <2> HIDE DEF new, first
  <2>4. StopTypesAfter(acc, st, t) = [types |-> new, found |-> acc.found]
    BY <1>1, <1>3, <1>4
  <2> QED BY <2>3, <2>4, <1>1 DEF Mark
<1>5. CASE st.stop \in DOMAIN acc.types /\ first[2] # type /\ first[3] = 0 /\ type \in {Subway, Bus}
  <2>1. st.stop \in D /\ first \in Cell
    BY <1>2, <1>5
  <2>2. <<first[1], first[2], 1>> \in Cell /\ first[1] \in Nat
    BY <2>1
  <2>3. both \in [D -> Cell]
    <3> HIDE DEF Cell, first
    <3> QED BY <1>2, <2>2
  <2>4. both \in Marks
    BY <2>3 DEF Marks
  <2>5. line \in Rows
    BY <1>0, <2>2
  <2>6. Append(acc.found, line) \in Seq(Rows)
    <3> HIDE DEF Rows, line
    <3> QED BY <1>1, <2>5
  <2> HIDE DEF both, first, line
  <2>7. StopTypesAfter(acc, st, t) = [types |-> both, found |-> Append(acc.found, line)]
    BY <1>3, <1>5
  <2> QED BY <2>4, <2>6, <2>7 DEF Mark
<1>6. CASE ~ (type \in {Subway, Bus} /\ st.stop \notin DOMAIN acc.types)
           /\ ~ (st.stop \in DOMAIN acc.types /\ first[2] # type /\ first[3] = 0 /\ type \in {Subway, Bus})
  <2> HIDE DEF new, both, first, line
  <2>1. StopTypesAfter(acc, st, t) = acc
    BY <1>3, <1>6
  <2> QED BY <2>1
<1> QED BY <1>4, <1>5, <1>6

(* The walk is a list of accumulators, one after the other.                *)
LEMMA Marking ==
    ASSUME TypeInv, NEW t \in DOMAIN feed.trips
    PROVE  \E acc \in [0 .. Len(feed.trips[t].times) -> Mark] :
              /\ acc[0] = [types |-> stop_types, found |-> <<>>]
              /\ \A k \in 1 .. Len(feed.trips[t].times) :
                    acc[k] = StopTypesAfter(acc[k - 1], feed.trips[t].times[k], t)
              /\ StopTypesMarked(t) = acc[Len(feed.trips[t].times)]
<1>1. feed.trips[t].times \in Seq(TimeRow)
  <2>1. feed.trips[t] \in TripRow
    BY FeedFacts
  <2> QED BY <2>1 DEF TripRow
<1> DEFINE times == feed.trips[t].times
<1>2. PICK n : n = Len(times)
  OBVIOUS
<1>3. n \in Nat /\ DOMAIN times = 1 .. n /\ \A k \in 1 .. n : times[k] \in TimeRow
  BY <1>1, <1>2
<1> DEFINE b == [types |-> stop_types, found |-> <<>>]
           Step(k, x) == StopTypesAfter(x, times[k], t)
           F(acc) == [k \in 0 .. n |-> IF k = 0 THEN b ELSE Step(k, acc[k - 1])]
<1>4. StopTypesMarked(t) = (CHOOSE h : h = F(h))[n]
  BY <1>2, Zenon DEF StopTypesMarked
<1>5. b \in Mark
  BY DEF Mark, TypeInv
<1>6. \A x \in Mark : \A k \in 1 .. n : Step(k, x) \in Mark
  BY <1>3, MarkAfter
<1> HIDE DEF Step, b
<1>7. PICK g : g = [x \in (1 .. n) \X Mark |-> Step(x[1], x[2])]
  OBVIOUS
<1>8. /\ g \in [(1 .. n) \X Mark -> Mark]
      /\ \A s \in Mark : \A k \in 1 .. n : g[<<k, s>>] = Step(k, s)
  BY <1>6, <1>7
<1>9. PICK f \in [0 .. n -> Mark] :
         \A k \in 0 .. n : f[k] = IF k = 0 THEN b ELSE g[<<k, f[k - 1]>>]
  <2>1. \E f \in [0 .. n -> Mark] : Follows(n, b, g, f)
    BY <1>3, <1>5, <1>8, Recursion
  <2> QED BY <2>1, Zenon DEF Follows
<1>10. f = F(f)
  <2>1. ASSUME NEW k \in 1 .. n
        PROVE  f[k] = Step(k, f[k - 1])
    <3>1. k - 1 \in 0 .. n /\ k # 0 /\ k \in 0 .. n
      BY <1>3
    <3>2. f[k - 1] \in Mark /\ f[k] = g[<<k, f[k - 1]>>]
      BY <1>9, <3>1
    <3> QED BY <1>8, <3>2
  <2>2. \A k \in 0 .. n : k = 0 \/ k \in 1 .. n
    BY <1>3
  <2>3. \A k \in 0 .. n : f[k] = IF k = 0 THEN b ELSE Step(k, f[k - 1])
    BY <1>9, <2>1, <2>2
  <2> QED BY <2>3
<1>11. PICK acc : acc = F(acc) /\ StopTypesMarked(t) = acc[n]
  <2> HIDE DEF F
  <2> QED BY <1>4, <1>10
<1>12. \A k \in 0 .. n : acc[k] = IF k = 0 THEN b ELSE Step(k, acc[k - 1])
  BY <1>11
<1> DEFINE P == {k \in 0 .. n : acc[k] \in Mark}
<1>13. 0 \in P
  BY <1>3, <1>5, <1>12
<1>14. ASSUME NEW k \in 1 .. n, k - 1 \in P
       PROVE  k \in P
  <2>1. k \in 0 .. n /\ k # 0 /\ acc[k - 1] \in Mark
    BY <1>3, <1>14
  <2>2. acc[k] = Step(k, acc[k - 1])
    BY <1>12, <2>1
  <2> QED BY <1>6, <2>1, <2>2
<1>15. \A k \in 0 .. n : acc[k] \in Mark
  <2> HIDE DEF P
  <2>1. P \in SUBSET Nat
    BY <1>3 DEF P
  <2>2. 0 .. n \subseteq P
    BY <1>3, <1>13, <1>14, <2>1, Induction
  <2> QED BY <2>2 DEF P
<1>16. acc \in [0 .. n -> Mark]
  <2>1. acc = [k \in 0 .. n |-> IF k = 0 THEN b ELSE Step(k, acc[k - 1])]
    BY <1>11
  <2>2. acc = [k \in 0 .. n |-> acc[k]]
    BY <2>1, <1>12
  <2> QED BY <1>15, <2>2
<1>17. acc[0] = b /\ \A k \in 1 .. n : acc[k] = Step(k, acc[k - 1])
  BY <1>3, <1>12
<1> QED BY <1>2, <1>11, <1>16, <1>17 DEF Step, b

-----------------------------------------------------------------------------
(* What every step does.                                                   *)

NearbyKinds == {"stops_too_close", "stations_too_close", "different_station_too_close"}

TimeKinds == {"exception", "too_fast", "timetravel",
              "overlapping_headways", "no_stop_times", "frequencies_without_stops", "one_stop"}

OtherKinds == {"exception", "transfer_too_long", "walk_too_fast", "unknown_stop", "unused_stop",
               "used_station", "parent_not_found", "parent_no_station", "too_far_from_parent",
               "idless_agency", "invalid_agency", "unused_shapes"}

\* The reports a pass may make.
Kinds(p) ==
    IF p = "nearby stops" THEN NearbyKinds
    ELSE IF p = "routes" THEN {"exception", "same_name"}
    ELSE IF p = "trips" THEN {"multiple_route_types", "duplicate_trip"}
    ELSE IF p = "blocks" THEN {"overlapping_trips"}
    ELSE IF p = "stop times" THEN TimeKinds
    ELSE OtherKinds

\* The pass that comes after each one.
Onward == {<<"load stops", "load routes">>, <<"load routes", "load transfers">>,
           <<"load transfers", "frequencies">>, <<"frequencies", "stops">>,
           <<"stops", "nearby stops">>, <<"nearby stops", "routes">>, <<"routes", "trips">>,
           <<"trips", "blocks">>, <<"blocks", "agencies">>, <<"agencies", "stop times">>,
           <<"stop times", "shapes">>, <<"shapes", "done">>}

\* A step reports what its pass may, and changes what its pass works on.
Moves ==
    /\ Grows(reports, reports', Kinds(pass))
    /\ IsSeq(reports')
    /\ pass' = pass \/ pass' = "raised" \/ <<pass, pass'>> \in Onward
    /\ pass' # pass => at' = 1 /\ inner' = 2
    /\ feed' = feed
    /\ pass \notin {"load stops", "stops"} => stops' = stops
    /\ pass # "load transfers" => transfers' = transfers
    /\ pass # "frequencies" => headways' = headways
    /\ pass # "routes" => route_names' = route_names
    /\ pass # "trips" => stop_types' = stop_types /\ trips' = trips /\ blocks' = blocks
    /\ pass # "blocks" => block' = block /\ cache' = cache

LEMMA GrowsOn ==
    ASSUME NEW K, NEW r, NEW s, NEW u, Grows(r, s, K), Grows(s, u, K)
    PROVE  Grows(r, u, K)
<1>1. ASSUME NEW k \in Len(r) + 1 .. Len(u)
      PROVE  u[k][1] \in K
  <2>0. Len(r) \in Nat /\ Len(s) \in Nat /\ Len(u) \in Nat
    BY DEF Grows
  <2>1. CASE k <= Len(s)
    <3>1. k \in Len(r) + 1 .. Len(s) /\ k \in 1 .. Len(s)
      BY <2>0, <2>1
    <3>2. s[k][1] \in K
      <4>1. \A l \in Len(r) + 1 .. Len(s) : s[l][1] \in K
        BY Zenon DEF Grows
      <4> QED BY <3>1, <4>1
    <3>3. u[k] = s[k]
      <4>1. \A l \in 1 .. Len(s) : u[l] = s[l]
        BY Zenon DEF Grows
      <4> QED BY <3>1, <4>1
    <3> QED BY <3>2, <3>3
  <2>2. CASE k > Len(s)
    <3>1. k \in Len(s) + 1 .. Len(u)
      BY <2>0, <2>2
    <3>2. \A l \in Len(s) + 1 .. Len(u) : u[l][1] \in K
      BY Zenon DEF Grows
    <3> QED BY <3>1, <3>2
  <2> QED BY <2>0, <2>1, <2>2
<1>2. /\ Len(r) \in Nat /\ Len(s) \in Nat /\ Len(u) \in Nat /\ Len(r) <= Len(s) /\ Len(s) <= Len(u)
      /\ DOMAIN r = 1 .. Len(r) /\ DOMAIN u = 1 .. Len(u)
      /\ \A k \in 1 .. Len(r) : s[k] = r[k]
      /\ \A k \in 1 .. Len(s) : u[k] = s[k]
  BY Zenon DEF Grows
<1>3. Len(r) <= Len(u) /\ \A k \in 1 .. Len(r) : u[k] = r[k]
  BY <1>2
<1> QED BY <1>1, <1>2, <1>3, Zenon DEF Grows

(* Reports are only ever added.                                            *)
LEMMA ConcatReports ==
    ASSUME IsSeq(reports), NEW K, NEW s, Lines(s, K), reports' = reports \o s
    PROVE  Grows(reports, reports', K) /\ IsSeq(reports')
BY ConcatGrows, ConcatFacts DEF Lines

LEMMA TwoConcatReports ==
    ASSUME IsSeq(reports), NEW K, NEW s, NEW u, Lines(s, K), Lines(u, K), reports' = reports \o s \o u
    PROVE  Grows(reports, reports', K) /\ IsSeq(reports')
<1>1. IsSeq(s) /\ IsSeq(u) /\ IsSeq(reports \o s)
  BY ConcatFacts DEF Lines
<1>2. Grows(reports, reports \o s, K) /\ Grows(reports \o s, reports', K)
  BY <1>1, ConcatGrows
<1> QED BY <1>1, <1>2, GrowsOn, ConcatFacts

LEMMA RaiseReports ==
    ASSUME IsSeq(reports), NEW K, "exception" \in K, NEW s, Lines(s, K), Raise(s)
    PROVE  /\ Grows(reports, reports', K) /\ IsSeq(reports')
           /\ pass' = "raised" /\ at' = 1 /\ inner' = 2
<1>1. Lines(Report("exception", at, 0, pass), K)
  BY ReportLines
<1> QED BY <1>1, TwoConcatReports DEF Raise, GoTo

LEMMA SameReports ==
    ASSUME IsSeq(reports), NEW K, reports' = reports
    PROVE  Grows(reports, reports', K) /\ IsSeq(reports')
BY SameGrows

LEMMA PassesOn ==
    ASSUME pass \in Passes, pass' = pass \/ pass' = "raised" \/ <<pass, pass'>> \in Onward
    PROVE  pass' \in Passes
<1>1. pass' = pass \/ pass' = "raised" \/ <<pass, pass'>> \in Onward
  OBVIOUS
<1>2. <<pass, pass'>> \in Onward => pass' \in {"load routes", "load transfers", "frequencies", "stops",
          "nearby stops", "routes", "trips", "blocks", "agencies", "stop times", "shapes", "done"}
  BY DEF Onward
<1> QED BY <1>1, <1>2 DEF Passes, AfterStopTimes, AfterBlocks, AfterTrips, AfterRoutes, AfterNearby,
           AfterStops, AfterTransfers, AfterLoadRoutes, AfterLoadStops

(* The types, from what a step leaves and what it changes.                 *)
LEMMA TypesKept ==
    ASSUME TypeInv, Moves,
           stops' = stops \/ (stops' \in Seq(StopRow) /\ Len(stops') = Len(stops)),
           transfers' = transfers \/ transfers' \subseteq DOMAIN feed.transfers,
           headways' = headways \/ headways' \in [DOMAIN feed.trips -> Seq(Period)],
           at' \in {1, at, at + 1}, inner' \in {2, inner, inner + 1, at + 2},
           stop_types' = stop_types \/ stop_types' \in Marks,
           block' \in {block, block + 1}
    PROVE  TypeInv'
<1>1. pass \in Passes /\ feed' = feed /\ IsSeq(reports')
  BY DEF TypeInv, Moves
<1>2. pass' \in Passes
  BY <1>1, PassesOn DEF Moves
<1>3. at' \in Nat \ {0} /\ inner' \in Nat /\ block' \in Nat \ {0}
  <2>1. at \in Nat \ {0} /\ inner \in Nat /\ block \in Nat \ {0}
    BY DEF TypeInv
  <2> QED BY <2>1
<1>4. feed' \in Feeds /\ stops' \in Seq(StopRow) /\ Len(stops') = Len(feed'.stops)
  BY <1>1 DEF TypeInv
<1>5. /\ transfers' \subseteq DOMAIN feed'.transfers
      /\ headways' \in [DOMAIN feed'.trips -> Seq(Period)]
      /\ stop_types' \in Marks
  BY <1>1 DEF TypeInv
<1> QED BY <1>1, <1>2, <1>3, <1>4, <1>5 DEF TypeInv

LEMMA LoadStopMoves ==
    ASSUME TypeInv, LoadStop
    PROVE  Moves /\ TypeInv'
<1>0. /\ pass = "load stops" /\ at <= Len(stops)
      /\ feed' = feed /\ transfers' = transfers /\ headways' = headways
      /\ route_names' = route_names /\ stop_types' = stop_types /\ trips' = trips
      /\ blocks' = blocks /\ block' = block /\ cache' = cache
  BY DEF LoadStop, tables
<1>1. Kinds(pass) = OtherKinds /\ "exception" \in OtherKinds
  BY <1>0 DEF Kinds, OtherKinds
<1>2. IsSeq(reports) /\ stops \in Seq(StopRow) /\ at \in Nat \ {0}
  BY DEF TypeInv
<1>a. at \in 1 .. Len(stops) /\ stops[at] \in StopRow
  <2>1. at <= Len(stops)
    BY DEF LoadStop
  <2> QED BY <1>2, <2>1
<1>3. CASE StopRaises(stops[at], TRUE)
  <2>1. /\ Grows(reports, reports', OtherKinds) /\ IsSeq(reports')
        /\ pass' = "raised" /\ at' = 1 /\ inner' = 2
    BY <1>1, <1>2, <1>3, EmptyLines, RaiseReports DEF LoadStop
  <2>2. stops' = stops
    BY <1>3 DEF LoadStop
  <2>3. Moves
    BY <1>0, <1>1, <2>1, <2>2 DEF Moves
  <2>4. TypeInv'
    BY <1>0, <2>1, <2>2, <2>3, TypesKept
  <2> QED BY <2>3, <2>4
<1>4. CASE ~ StopRaises(stops[at], TRUE)
  <2>1. /\ Grows(reports, reports', OtherKinds) /\ IsSeq(reports') /\ pass' = pass
        /\ at' = at + 1 /\ inner' = inner
    BY <1>2, <1>4, SameReports DEF LoadStop
  <2>2. StopValidate(stops[at], TRUE) \in StopRow
    BY <1>a DEF StopRow, StopValidate, Coordinate, LocationType, Fields, Missing, Blank, Bad
  <2>3. stops' = [stops EXCEPT ![at] = StopValidate(stops[at], TRUE)]
    BY <1>4 DEF LoadStop
  <2>4. stops' \in Seq(StopRow) /\ Len(stops') = Len(stops)
    <3>1. PICK v : v = StopValidate(stops[at], TRUE)
      OBVIOUS
    <3>2. v \in StopRow /\ stops' = [stops EXCEPT ![at] = v]
      BY <2>2, <2>3, <3>1
    <3>3. [stops EXCEPT ![at] = v] \in Seq(StopRow) /\ Len([stops EXCEPT ![at] = v]) = Len(stops)
      BY <1>2, <1>a, <3>2, ExceptSeq
    <3> QED BY <3>2, <3>3
  <2>5. Moves
    BY <1>0, <1>1, <2>1, <2>4 DEF Moves
  <2>6. TypeInv'
    BY <1>0, <2>1, <2>4, <2>5, TypesKept
  <2> QED BY <2>5, <2>6
<1> QED BY <1>3, <1>4

LEMMA LoadRouteMoves ==
    ASSUME TypeInv, LoadRoute
    PROVE  Moves /\ TypeInv'
<1>0. /\ pass = "load routes" /\ at <= Len(feed.routes)
      /\ feed' = feed /\ stops' = stops /\ transfers' = transfers /\ headways' = headways
      /\ route_names' = route_names /\ stop_types' = stop_types /\ trips' = trips
      /\ blocks' = blocks /\ block' = block /\ cache' = cache
  BY DEF LoadRoute, tables
<1>1. Kinds(pass) = OtherKinds /\ "exception" \in OtherKinds
  BY <1>0 DEF Kinds, OtherKinds
<1>2. IsSeq(reports)
  BY DEF TypeInv
<1>3. /\ Grows(reports, reports', OtherKinds) /\ IsSeq(reports')
      /\ \/ pass' = "raised" /\ at' = 1 /\ inner' = 2
         \/ pass' = pass /\ at' = at + 1 /\ inner' = inner
  <2>1. CASE RouteRaises(feed.routes[at], TRUE)
    BY <1>1, <1>2, <2>1, EmptyLines, RaiseReports DEF LoadRoute
  <2>2. CASE ~ RouteRaises(feed.routes[at], TRUE)
    BY <1>2, <2>2, SameReports DEF LoadRoute
  <2> QED BY <2>1, <2>2
<1>4. Moves
  BY <1>0, <1>1, <1>3 DEF Moves
<1>5. TypeInv'
  BY <1>0, <1>3, <1>4, TypesKept
<1> QED BY <1>4, <1>5

(* Two of the cases of a list of reports.                                  *)
LEMMA TransferLines ==
    ASSUME NEW n, NEW x
    PROVE  Lines(TransferReports(n, x), OtherKinds)
<1> DEFINE far(d) == Distance2(stops[x.from], stops[x.to]) > d * d
           long == IF far(LongError) THEN Report("transfer_too_long", n, 0, "error")
                   ELSE IF far(LongWarning) THEN Report("transfer_too_long", n, 0, "warning")
                   ELSE <<>>
           walk == IF HasTime(x) /\ far(Walk * (x.time + Grace))
                   THEN Report("walk_too_fast", n, 0, 0) ELSE <<>>
           unknown(i) == IF i \in DOMAIN stops THEN <<>> ELSE Report("unknown_stop", n, i, 0)
<1>1. TransferReports(n, x) = IF {x.from, x.to} \subseteq DOMAIN stops THEN long \o walk
                              ELSE unknown(x.from) \o unknown(x.to)
  BY Zenon DEF TransferReports, WalkReports
<1>2. /\ "transfer_too_long" \in OtherKinds /\ "walk_too_fast" \in OtherKinds
      /\ "unknown_stop" \in OtherKinds
  BY DEF OtherKinds
<1>3. /\ Lines(<<>>, OtherKinds)
      /\ Lines(Report("transfer_too_long", n, 0, "error"), OtherKinds)
      /\ Lines(Report("transfer_too_long", n, 0, "warning"), OtherKinds)
      /\ Lines(Report("walk_too_fast", n, 0, 0), OtherKinds)
      /\ \A i : Lines(Report("unknown_stop", n, i, 0), OtherKinds)
  BY <1>2, EmptyLines, ReportLines
<1>4. /\ Lines(long, OtherKinds) /\ Lines(walk, OtherKinds)
      /\ Lines(unknown(x.from), OtherKinds) /\ Lines(unknown(x.to), OtherKinds)
  BY <1>3, Zenon
<1> HIDE DEF long, walk, unknown
<1>5. Lines(long \o walk, OtherKinds) /\ Lines(unknown(x.from) \o unknown(x.to), OtherKinds)
  BY <1>4, ConcatLines
<1> QED BY <1>1, <1>5, Zenon

LEMMA LoadTransferMoves ==
    ASSUME TypeInv, LoadTransfer
    PROVE  Moves /\ TypeInv'
<1> DEFINE x == feed.transfers[at]
           raises == \/ TimeReportRaises(x)
                     \/ TransferIsValid(x) /\ \E n \in transfers : SameTransfer(feed.transfers[n], x)
<1>0. /\ pass = "load transfers" /\ at <= Len(feed.transfers)
      /\ feed' = feed /\ stops' = stops /\ headways' = headways
      /\ route_names' = route_names /\ stop_types' = stop_types /\ trips' = trips
      /\ blocks' = blocks /\ block' = block /\ cache' = cache
  BY DEF LoadTransfer, tables
<1>1. Kinds(pass) = OtherKinds /\ "exception" \in OtherKinds
  BY <1>0 DEF Kinds, OtherKinds
<1>2. IsSeq(reports) /\ at \in DOMAIN feed.transfers /\ transfers \subseteq DOMAIN feed.transfers
  <2>1. at <= Len(feed.transfers)
    BY <1>0
  <2>2. at \in Nat \ {0} /\ feed.transfers \in Seq(TransferRow)
    BY FeedFacts DEF TypeInv
  <2>3. at \in DOMAIN feed.transfers
    BY <2>1, <2>2
  <2> QED BY <2>3 DEF TypeInv
<1>3. /\ Grows(reports, reports', OtherKinds) /\ IsSeq(reports')
      /\ \/ pass' = "raised" /\ at' = 1 /\ inner' = 2 /\ transfers' = transfers
         \/ pass' = pass /\ at' = at + 1 /\ inner' = inner /\ transfers' \in {transfers, transfers \cup {at}}
  <2>1. CASE raises
    <3>1. Raise(<<>>) /\ transfers' = transfers
      BY <2>1 DEF LoadTransfer
    <3> QED BY <1>1, <1>2, <3>1, EmptyLines, RaiseReports
  <2>2. CASE ~ raises /\ TransferIsValid(x)
    <3>1. /\ reports' = reports \o TransferReports(at, x)
          /\ pass' = pass /\ at' = at + 1 /\ inner' = inner /\ transfers' = transfers \cup {at}
      BY <2>2 DEF LoadTransfer
    <3> QED BY <1>2, <3>1, TransferLines, ConcatReports
  <2>3. CASE ~ raises /\ ~ TransferIsValid(x)
    <3>1. reports' = reports /\ pass' = pass /\ at' = at + 1 /\ inner' = inner /\ transfers' = transfers
      BY <2>3 DEF LoadTransfer
    <3> QED BY <1>2, <3>1, SameReports
  <2> QED BY <2>1, <2>2, <2>3
<1>4. Moves
  BY <1>0, <1>1, <1>3 DEF Moves
<1>5. transfers' \subseteq DOMAIN feed.transfers
  BY <1>2, <1>3
<1>6. TypeInv'
  BY <1>0, <1>3, <1>4, <1>5, TypesKept
<1> QED BY <1>4, <1>6

LEMMA AddFrequencyMoves ==
    ASSUME TypeInv, NEW t \in DOMAIN headways, NEW s \in Times, NEW e \in Times, NEW h \in Headways,
           AddFrequency(t, s, e, h)
    PROVE  Moves /\ TypeInv'
<1>0. /\ pass = "frequencies"
      /\ feed' = feed /\ stops' = stops /\ transfers' = transfers
      /\ route_names' = route_names /\ stop_types' = stop_types /\ trips' = trips
      /\ blocks' = blocks /\ block' = block /\ cache' = cache
  BY DEF AddFrequency, tables
<1>1. Kinds(pass) = OtherKinds /\ "exception" \in OtherKinds
  BY <1>0 DEF Kinds, OtherKinds
<1>2. IsSeq(reports) /\ headways \in [DOMAIN feed.trips -> Seq(Period)]
  BY DEF TypeInv
<1>3. CASE FrequencyIsValid(s, e, h)
  <2>1. /\ reports' = reports /\ pass' = pass /\ at' = at /\ inner' = inner
        /\ headways' = [headways EXCEPT ![t] = Append(headways[t], <<s, e, h>>)]
    BY <1>3 DEF AddFrequency
  <2>2. <<s, e, h>> \in Period
    BY <1>3 DEF Period
  <2>3. headways' \in [DOMAIN feed.trips -> Seq(Period)]
    BY <1>2, <2>1, <2>2
  <2>4. Grows(reports, reports', OtherKinds) /\ IsSeq(reports')
    BY <1>2, <2>1, SameReports
  <2>5. Moves
    BY <1>0, <1>1, <2>1, <2>4 DEF Moves
  <2>6. TypeInv'
    BY <1>0, <2>1, <2>3, <2>5, TypesKept
  <2> QED BY <2>5, <2>6
<1>4. CASE ~ FrequencyIsValid(s, e, h)
  <2>1. Raise(<<>>) /\ headways' = headways
    BY <1>4 DEF AddFrequency
  <2>2. /\ Grows(reports, reports', OtherKinds) /\ IsSeq(reports')
        /\ pass' = "raised" /\ at' = 1 /\ inner' = 2
    BY <1>1, <1>2, <2>1, EmptyLines, RaiseReports
  <2>3. Moves
    BY <1>0, <1>1, <2>1, <2>2 DEF Moves
  <2>4. TypeInv'
    BY <1>0, <2>1, <2>2, <2>3, TypesKept
  <2> QED BY <2>3, <2>4
<1> QED BY <1>3, <1>4

LEMMA ClearFrequenciesMoves ==
    ASSUME TypeInv, NEW t \in DOMAIN headways, ClearFrequencies(t)
    PROVE  Moves /\ TypeInv'
<1>0. /\ pass = "frequencies" /\ pass' = pass /\ at' = at /\ inner' = inner /\ reports' = reports
      /\ feed' = feed /\ stops' = stops /\ transfers' = transfers
      /\ headways' = [headways EXCEPT ![t] = <<>>]
      /\ route_names' = route_names /\ stop_types' = stop_types /\ trips' = trips
      /\ blocks' = blocks /\ block' = block /\ cache' = cache
  BY DEF ClearFrequencies, tables
<1>2. IsSeq(reports) /\ headways \in [DOMAIN feed.trips -> Seq(Period)]
  BY DEF TypeInv
<1>3. headways' \in [DOMAIN feed.trips -> Seq(Period)]
  BY <1>0, <1>2
<1>4. Grows(reports, reports', Kinds(pass)) /\ IsSeq(reports')
  BY <1>0, <1>2, SameReports
<1>5. Moves
  BY <1>0, <1>4 DEF Moves
<1>6. TypeInv'
  BY <1>0, <1>3, <1>5, TypesKept
<1> QED BY <1>5, <1>6

LEMMA StopLines ==
    ASSUME NEW i, NEW s
    PROVE  Lines(UsageReports(i, s), OtherKinds) /\ Lines(ParentReports(i, s), OtherKinds)
<1>1. {"unused_stop", "used_station", "parent_not_found", "parent_no_station", "too_far_from_parent"}
          \subseteq OtherKinds
  BY DEF OtherKinds
<1>2. /\ Lines(<<>>, OtherKinds)
      /\ Lines(Report("unused_stop", i, 0, 0), OtherKinds)
      /\ Lines(Report("used_station", i, 0, 0), OtherKinds)
      /\ Lines(Report("parent_not_found", i, s.parent, 0), OtherKinds)
      /\ Lines(Report("parent_no_station", i, s.parent, 0), OtherKinds)
      /\ Lines(Report("too_far_from_parent", i, s.parent, "error"), OtherKinds)
      /\ Lines(Report("too_far_from_parent", i, s.parent, "warning"), OtherKinds)
  BY <1>1, EmptyLines, ReportLines
<1>3. Lines(UsageReports(i, s), OtherKinds)
  <2>1. UsageReports(i, s) \in {<<>>, Report("unused_stop", i, 0, 0), Report("used_station", i, 0, 0)}
    BY DEF UsageReports
  <2> QED BY <1>2, <2>1
<1>4. Lines(ParentReports(i, s), OtherKinds)
  <2>1. \/ ParentReports(i, s) = <<>>
        \/ ParentReports(i, s) = Report("parent_not_found", i, s.parent, 0)
        \/ ParentReports(i, s) = Report("parent_no_station", i, s.parent, 0)
        \/ ParentReports(i, s) = Report("too_far_from_parent", i, s.parent, "error")
        \/ ParentReports(i, s) = Report("too_far_from_parent", i, s.parent, "warning")
    BY Zenon DEF ParentReports
  <2> QED BY <1>2, <2>1
<1> QED BY <1>3, <1>4

LEMMA ValidateStopMoves ==
    ASSUME TypeInv, ValidateStop
    PROVE  Moves /\ TypeInv'
<1> DEFINE s == IF feed.children THEN StopValidate(stops[at], FALSE) ELSE stops[at]
           raises == feed.children /\ StopRaises(stops[at], FALSE)
<1>0. /\ pass = "stops" /\ at <= Len(stops)
      /\ feed' = feed /\ transfers' = transfers /\ headways' = headways
      /\ route_names' = route_names /\ stop_types' = stop_types /\ trips' = trips
      /\ blocks' = blocks /\ block' = block /\ cache' = cache
  BY DEF ValidateStop, tables
<1>1. Kinds(pass) = OtherKinds /\ "exception" \in OtherKinds
  BY <1>0 DEF Kinds, OtherKinds
<1>2. IsSeq(reports) /\ stops \in Seq(StopRow) /\ at \in Nat \ {0}
  BY DEF TypeInv
<1>3. at \in 1 .. Len(stops) /\ stops[at] \in StopRow
  <2>1. at <= Len(stops)
    BY <1>0
  <2> QED BY <1>2, <2>1
<1>4. CASE raises
  <2>1. Raise(<<>>) /\ stops' = stops
    BY <1>4 DEF ValidateStop
  <2>2. /\ Grows(reports, reports', OtherKinds) /\ IsSeq(reports')
        /\ pass' = "raised" /\ at' = 1 /\ inner' = 2
    BY <1>1, <1>2, <2>1, EmptyLines, RaiseReports
  <2>3. Moves
    BY <1>0, <1>1, <2>1, <2>2 DEF Moves
  <2>4. TypeInv'
    BY <1>0, <2>1, <2>2, <2>3, TypesKept
  <2> QED BY <2>3, <2>4
<1>5. CASE ~ raises
  <2>1. /\ stops' = [stops EXCEPT ![at] = s]
        /\ reports' = reports \o UsageReports(at, s) \o ParentReports(at, s)
        /\ pass' = pass /\ at' = at + 1 /\ inner' = inner
    BY <1>5 DEF ValidateStop
  <2>2. s \in StopRow
    <3>1. StopValidate(stops[at], FALSE) \in StopRow
      BY <1>3 DEF StopRow, StopValidate, Coordinate, LocationType, Fields, Missing, Blank, Bad
    <3> QED BY <1>3, <3>1
  <2> HIDE DEF s
  <2>3. stops' \in Seq(StopRow) /\ Len(stops') = Len(stops)
    BY <1>2, <1>3, <2>1, <2>2, ExceptSeq
  <2>4. Grows(reports, reports', OtherKinds) /\ IsSeq(reports')
    BY <1>2, <2>1, StopLines, TwoConcatReports
  <2>5. Moves
    BY <1>0, <1>1, <2>1, <2>4 DEF Moves
  <2>6. TypeInv'
    BY <1>0, <2>1, <2>3, <2>5, TypesKept
  <2> QED BY <2>5, <2>6
<1> QED BY <1>4, <1>5

LEMMA PairLines ==
    ASSUME NEW i, NEW j
    PROVE  Lines(PairReports(i, j), NearbyKinds)
<1>1. /\ Lines(<<>>, NearbyKinds)
      /\ Lines(Report("stops_too_close", i, j, 0), NearbyKinds)
      /\ Lines(Report("stations_too_close", i, j, 0), NearbyKinds)
      /\ Lines(Report("different_station_too_close", i, j, 0), NearbyKinds)
      /\ Lines(Report("different_station_too_close", j, i, 0), NearbyKinds)
  BY EmptyLines, ReportLines DEF NearbyKinds
<1>2. PairReports(i, j) \in {<<>>, Report("stops_too_close", i, j, 0), Report("stations_too_close", i, j, 0),
          Report("different_station_too_close", i, j, 0), Report("different_station_too_close", j, i, 0)}
  BY DEF PairReports
<1> QED BY <1>1, <1>2

LEMMA CompareStopsMoves ==
    ASSUME TypeInv, CompareStops
    PROVE  Moves /\ TypeInv'
<1> DEFINE i == SortedStops[at]
           j == SortedStops[inner]
           found == IF Distance2(stops[i], stops[j]) < Near * Near THEN PairReports(i, j) ELSE <<>>
<1>0. /\ pass = "nearby stops" /\ pass' = pass /\ at' = at /\ inner' = inner + 1
      /\ feed' = feed /\ stops' = stops /\ transfers' = transfers /\ headways' = headways
      /\ route_names' = route_names /\ stop_types' = stop_types /\ trips' = trips
      /\ blocks' = blocks /\ block' = block /\ cache' = cache
      /\ reports' = reports \o found
  BY DEF CompareStops, tables
<1>1. Kinds(pass) = NearbyKinds
  BY <1>0 DEF Kinds
<1>2. IsSeq(reports)
  BY DEF TypeInv
<1>3. Lines(found, NearbyKinds)
  <2>1. Lines(PairReports(i, j), NearbyKinds) /\ Lines(<<>>, NearbyKinds)
    BY PairLines, EmptyLines
  <2> QED BY <2>1, Zenon
<1> HIDE DEF found
<1>4. Grows(reports, reports', NearbyKinds) /\ IsSeq(reports')
  BY <1>0, <1>2, <1>3, ConcatReports
<1>5. Moves
  BY <1>0, <1>1, <1>4 DEF Moves
<1>6. TypeInv'
  BY <1>0, <1>5, TypesKept
<1> QED BY <1>5, <1>6

LEMMA NextStopMoves ==
    ASSUME TypeInv, NextStop
    PROVE  Moves /\ TypeInv'
<1>0. /\ pass = "nearby stops" /\ pass' = pass /\ at' = at + 1 /\ inner' = at + 2
      /\ feed' = feed /\ stops' = stops /\ transfers' = transfers /\ headways' = headways
      /\ route_names' = route_names /\ stop_types' = stop_types /\ trips' = trips
      /\ blocks' = blocks /\ block' = block /\ cache' = cache /\ reports' = reports
  BY DEF NextStop, tables
<1>1. Grows(reports, reports', Kinds(pass)) /\ IsSeq(reports')
  BY <1>0, SameReports DEF TypeInv
<1>2. Moves
  BY <1>0, <1>1 DEF Moves
<1>3. TypeInv'
  BY <1>0, <1>2, TypesKept
<1> QED BY <1>2, <1>3

LEMMA ValidateRouteMoves ==
    ASSUME TypeInv, ValidateRoute
    PROVE  Moves /\ TypeInv'
<1> DEFINE raises == feed.children /\ RouteRaises(feed.routes[at], FALSE)
           name == Normal(feed.routes[at].name)
           K == {"exception", "same_name"}
<1>0. /\ pass = "routes"
      /\ feed' = feed /\ stops' = stops /\ transfers' = transfers /\ headways' = headways
      /\ stop_types' = stop_types /\ trips' = trips
      /\ blocks' = blocks /\ block' = block /\ cache' = cache
  BY DEF ValidateRoute
<1>1. Kinds(pass) = K
  BY <1>0 DEF Kinds
<1>2. IsSeq(reports)
  BY DEF TypeInv
<1>3. /\ Grows(reports, reports', K) /\ IsSeq(reports')
      /\ \/ pass' = "raised" /\ at' = 1 /\ inner' = 2
         \/ pass' = pass /\ at' = at + 1 /\ inner' = inner
  <2>1. CASE raises
    <3>1. Raise(<<>>)
      BY <2>1 DEF ValidateRoute
    <3> QED BY <1>2, <3>1, EmptyLines, RaiseReports
  <2>2. CASE ~ raises /\ name \in DOMAIN route_names
    <3>1. /\ reports' = Append(reports, <<"same_name", at, route_names[name], 0>>)
          /\ pass' = pass /\ at' = at + 1 /\ inner' = inner
      BY <2>2 DEF ValidateRoute
    <3>2. reports' = reports \o Report("same_name", at, route_names[name], 0)
      BY <1>2, <3>1, AppendReport
    <3>3. Lines(Report("same_name", at, route_names[name], 0), K)
      BY ReportLines
    <3> QED BY <1>2, <3>1, <3>2, <3>3, ConcatReports
  <2>3. CASE ~ raises /\ name \notin DOMAIN route_names
    <3>1. reports' = reports /\ pass' = pass /\ at' = at + 1 /\ inner' = inner
      BY <2>3 DEF ValidateRoute
    <3> QED BY <1>2, <3>1, SameReports
  <2> QED BY <2>1, <2>2, <2>3
<1>4. Moves
  BY <1>0, <1>1, <1>3 DEF Moves
<1>5. TypeInv'
  BY <1>0, <1>3, <1>4, TypesKept
<1> QED BY <1>4, <1>5

LEMMA ValidateTripMoves ==
    ASSUME TypeInv, ValidateTrip
    PROVE  Moves /\ TypeInv'
<1> DEFINE t == SortedTrips[at]
           marked == StopTypesMarked(t)
           K == {"multiple_route_types", "duplicate_trip"}
<1>0. /\ pass = "trips" /\ pass' = pass /\ at' = at + 1 /\ inner' = inner
      /\ feed' = feed /\ stops' = stops /\ transfers' = transfers /\ headways' = headways
      /\ route_names' = route_names /\ block' = block /\ cache' = cache
  BY DEF ValidateTrip
<1>1. Kinds(pass) = K
  BY <1>0 DEF Kinds
<1>2. IsSeq(reports)
  BY DEF TypeInv
<1>3. t \in DOMAIN feed.trips
  <2>1. at <= Len(feed.trips) /\ at \in Nat \ {0}
    BY DEF ValidateTrip, TypeInv
  <2>2. SortedTrips \in Seq(DOMAIN feed.trips) /\ Len(SortedTrips) = Len(feed.trips)
    BY TripsSorted
  <2> QED BY <2>1, <2>2
<1>4. marked \in Mark
  <2>1. feed.trips[t].times \in Seq(TimeRow)
    <3>1. feed.trips[t] \in TripRow
      BY <1>3, FeedFacts
    <3> QED BY <3>1 DEF TripRow
  <2>2. PICK n : n = Len(feed.trips[t].times)
    OBVIOUS
  <2>3. n \in Nat
    BY <2>1, <2>2
  <2> HIDE DEF t
  <2> QED BY <1>3, <2>2, <2>3, Marking
<1>5. marked.types \in Marks /\ Lines(marked.found, K)
  <2>1. marked.types \in Marks /\ marked.found \in Seq({"multiple_route_types"} \X Nat \X Nat \X Nat)
    BY <1>4 DEF Mark
  <2>2. \A k \in DOMAIN marked.found : marked.found[k][1] \in K
    BY <2>1
  <2> QED BY <2>1, <2>2 DEF Lines, IsSeq
<1> HIDE DEF marked, t
<1>6. /\ Grows(reports, reports', K) /\ IsSeq(reports')
      /\ stop_types' \in {stop_types, marked.types}
  <2>1. CASE feed.trips[t].route \notin DOMAIN feed.routes
    <3>1. reports' = reports /\ stop_types' = stop_types
      BY <2>1 DEF ValidateTrip, t
    <3> QED BY <1>2, <3>1, SameReports
  <2>2. CASE /\ feed.trips[t].route \in DOMAIN feed.routes
             /\ reports' = reports \o marked.found
    <3>1. stop_types' = marked.types
      BY <2>2 DEF ValidateTrip, t, marked
    <3> QED BY <1>2, <1>5, <2>2, <3>1, ConcatReports
  <2>3. CASE /\ feed.trips[t].route \in DOMAIN feed.routes
             /\ reports' = reports \o marked.found \o Report("duplicate_trip", t, trips[TripKey(t)], 0)
    <3>1. stop_types' = marked.types
      BY <2>3 DEF ValidateTrip, t, marked
    <3>2. Lines(Report("duplicate_trip", t, trips[TripKey(t)], 0), K)
      BY ReportLines
    <3> QED BY <1>2, <1>5, <2>3, <3>1, <3>2, TwoConcatReports
  <2> QED BY <2>1, <2>2, <2>3 DEF ValidateTrip, t, marked
<1>7. Moves
  BY <1>0, <1>1, <1>6 DEF Moves
<1>8. stop_types' = stop_types \/ stop_types' \in Marks
  BY <1>5, <1>6
<1>9. TypeInv'
  BY <1>0, <1>7, <1>8, TypesKept
<1> QED BY <1>7, <1>9

LEMMA CompareTripsMoves ==
    ASSUME TypeInv, CompareTrips
    PROVE  Moves /\ TypeInv'
<1> DEFINE a == SortedIntervals(block)[at]
           b == SortedIntervals(block)[inner]
           K == {"overlapping_trips"}
<1>0. /\ pass = "blocks"
      /\ feed' = feed /\ stops' = stops /\ transfers' = transfers /\ headways' = headways
      /\ route_names' = route_names /\ stop_types' = stop_types /\ trips' = trips
      /\ blocks' = blocks /\ block' = block
  BY DEF CompareTrips, Comparing
<1>1. Kinds(pass) = K
  BY <1>0 DEF Kinds
<1>2. IsSeq(reports)
  BY DEF TypeInv
<1>3. Lines(Overlap(a, b), K) /\ Lines(<<>>, K)
  BY ReportLines, EmptyLines DEF Overlap
<1>4. \/ reports' = reports \o Overlap(a, b) /\ pass' = pass /\ at' = at /\ inner' = inner + 1
      \/ reports' = reports \o <<>> /\ pass' = pass /\ at' = at /\ inner' = inner + 1
      \/ reports' = reports /\ pass' = "agencies" /\ at' = 1 /\ inner' = 2
  BY Zenon DEF CompareTrips, GoTo
<1>5. Grows(reports, reports', K) /\ IsSeq(reports')
  <2>1. CASE reports' = reports \o Overlap(a, b)
    BY <1>2, <1>3, <2>1, ConcatReports
  <2>2. CASE reports' = reports \o <<>>
    BY <1>2, <1>3, <2>2, ConcatReports
  <2>3. CASE reports' = reports
    BY <1>2, <2>3, SameReports
  <2> QED BY <1>4, <2>1, <2>2, <2>3
<1>6. <<"blocks", "agencies">> \in Onward
  BY DEF Onward
<1>7. Moves
  BY <1>0, <1>1, <1>4, <1>5, <1>6 DEF Moves
<1>8. TypeInv'
  BY <1>0, <1>4, <1>7, TypesKept
<1> QED BY <1>7, <1>8

LEMMA NextIntervalMoves ==
    ASSUME TypeInv, NextInterval
    PROVE  Moves /\ TypeInv'
<1>0. /\ pass = "blocks" /\ pass' = pass
      /\ feed' = feed /\ stops' = stops /\ transfers' = transfers /\ headways' = headways
      /\ route_names' = route_names /\ stop_types' = stop_types /\ trips' = trips
      /\ blocks' = blocks /\ cache' = cache /\ reports' = reports
  BY DEF NextInterval
<1>1. at' \in {1, at + 1} /\ inner' \in {2, at + 2} /\ block' \in {block, block + 1}
  <2>1. CASE at < Len(SortedIntervals(block))
    BY <2>1 DEF NextInterval
  <2>2. CASE ~ at < Len(SortedIntervals(block))
    BY <2>2 DEF NextInterval
  <2> QED BY <2>1, <2>2
<1>2. Grows(reports, reports', Kinds(pass)) /\ IsSeq(reports')
  BY <1>0, SameReports DEF TypeInv
<1>3. Moves
  BY <1>0, <1>2 DEF Moves
<1>4. TypeInv'
  BY <1>0, <1>1, <1>3, TypesKept
<1> QED BY <1>3, <1>4

LEMMA NextPassMoves ==
    ASSUME TypeInv, NextPass
    PROVE  Moves /\ TypeInv'
<1>0. /\ <<pass, pass'>> \in Onward /\ at' = 1 /\ inner' = 2
      /\ feed' = feed /\ stops' = stops /\ transfers' = transfers /\ headways' = headways
      /\ route_names' = route_names /\ stop_types' = stop_types /\ trips' = trips
      /\ blocks' = blocks /\ block' = block /\ cache' = cache /\ reports' = reports
  BY DEF NextPass, Finished, GoTo, tables, Onward
<1>1. Grows(reports, reports', Kinds(pass)) /\ IsSeq(reports')
  BY <1>0, SameReports DEF TypeInv
<1>2. Moves
  BY <1>0, <1>1 DEF Moves
<1>3. TypeInv'
  BY <1>0, <1>2, TypesKept
<1> QED BY <1>2, <1>3

LEMMA UnchangedMoves ==
    ASSUME TypeInv, UNCHANGED vars
    PROVE  Moves /\ TypeInv'
<1>0. /\ pass' = pass /\ at' = at /\ inner' = inner
      /\ feed' = feed /\ stops' = stops /\ transfers' = transfers /\ headways' = headways
      /\ route_names' = route_names /\ stop_types' = stop_types /\ trips' = trips
      /\ blocks' = blocks /\ block' = block /\ cache' = cache /\ reports' = reports
  BY DEF vars, tables
<1>1. Grows(reports, reports', Kinds(pass)) /\ IsSeq(reports')
  BY <1>0, SameReports DEF TypeInv
<1>2. Moves
  BY <1>0, <1>1 DEF Moves
<1>3. TypeInv'
  BY <1>0, <1>2, TypesKept
<1> QED BY <1>2, <1>3

LEMMA ValidateUnusedShapesMoves ==
    ASSUME TypeInv, ValidateUnusedShapes
    PROVE  Moves /\ TypeInv'
<1>0. /\ pass = "shapes" /\ pass' = "done" /\ at' = 1 /\ inner' = 2
      /\ feed' = feed /\ stops' = stops /\ transfers' = transfers /\ headways' = headways
      /\ route_names' = route_names /\ stop_types' = stop_types /\ trips' = trips
      /\ blocks' = blocks /\ block' = block /\ cache' = cache
      /\ reports' = reports \/ reports' = Append(reports, <<"unused_shapes", 0, 0, 0>>)
  BY DEF ValidateUnusedShapes, GoTo, tables
<1>1. Kinds(pass) = OtherKinds /\ "unused_shapes" \in OtherKinds /\ <<pass, pass'>> \in Onward
  BY <1>0 DEF Kinds, OtherKinds, Onward
<1>2. IsSeq(reports)
  BY DEF TypeInv
<1>3. Grows(reports, reports', OtherKinds) /\ IsSeq(reports')
  <2>1. CASE reports' = reports
    BY <1>2, <2>1, SameReports
  <2>2. CASE reports' = Append(reports, <<"unused_shapes", 0, 0, 0>>)
    <3>1. reports' = reports \o Report("unused_shapes", 0, 0, 0)
      BY <1>2, <2>2, AppendReport
    <3>2. Lines(Report("unused_shapes", 0, 0, 0), OtherKinds)
      BY <1>1, ReportLines
    <3> QED BY <1>2, <3>1, <3>2, ConcatReports
  <2> QED BY <1>0, <2>1, <2>2
<1>4. Moves
  BY <1>0, <1>1, <1>3 DEF Moves
<1>5. TypeInv'
  BY <1>0, <1>4, TypesKept
<1> QED BY <1>4, <1>5

LEMMA AgencyLines ==
    ASSUME TypeInv
    PROVE  Lines(AgencyReports, OtherKinds)
<1> DEFINE S == {r \in DOMAIN feed.routes : feed.routes[r].agency \notin feed.agencies \cup {0}}
           R == {z \in S \X S : z[1] < z[2]}
           idless == IF Cardinality(feed.agencies) > 1 /\ 0 \in feed.agencies
                     THEN Report("idless_agency", 0, 0, 0) ELSE <<>>
           lost == InOrder(S, <)
           lines == [k \in DOMAIN lost |-> <<"invalid_agency", lost[k], feed.routes[lost[k]].agency, 0>>]
<1>1. DOMAIN feed.routes = 1 .. Len(feed.routes) /\ Len(feed.routes) \in Nat
  BY FeedFacts
<1>2. IsFiniteSet(S) /\ Cardinality(S) \in Nat /\ S \in SUBSET Int
  <2>1. IsFiniteSet(1 .. Len(feed.routes))
    BY <1>1, FS_Interval
  <2>2. S \in SUBSET (1 .. Len(feed.routes)) /\ S \in SUBSET Int
    BY <1>1
  <2> HIDE DEF S
  <2> QED BY <2>1, <2>2, FS_Subset, FS_CardinalityType
<1>3. \A x, y \in S : <<x, y>> \in R <=> x < y
  OBVIOUS
<1>4. AgencyReports = idless \o lines
  BY Zenon DEF AgencyReports
<1> HIDE DEF S, R
<1>5. Orders(R, S)
  BY <1>2, <1>3 DEF Orders
<1>6. PICK s : Lists(s, R, S)
  BY <1>2, <1>5, SortExists
<1>7. /\ s \in [1 .. Cardinality(S) -> S]
      /\ \A j, k \in DOMAIN s : j < k => s[j] < s[k]
      /\ Range(s) = S
  <2>1. /\ s \in [1 .. Cardinality(S) -> S] /\ DOMAIN s = 1 .. Cardinality(S)
        /\ \A j, k \in 1 .. Cardinality(S) : j < k => <<s[j], s[k]>> \in R
        /\ \A x \in S : \E k \in 1 .. Cardinality(S) : s[k] = x
    BY <1>6 DEF Lists
  <2>2. \A j, k \in DOMAIN s : j < k => s[j] < s[k]
    BY <1>3, <2>1
  <2>3. Range(s) = S
    BY <2>1 DEF Range
  <2> QED BY <2>1, <2>2, <2>3
<1>8. DOMAIN lost = 1 .. Cardinality(S)
  BY <1>7 DEF InOrder
<1>9. Lines(lines, OtherKinds)
  <2> DEFINE Line(k) == <<"invalid_agency", lost[k], feed.routes[lost[k]].agency, 0>>
  <2>1. \A k : Line(k)[1] = "invalid_agency"
    OBVIOUS
  <2>2. lines = [k \in 1 .. Cardinality(S) |-> Line(k)]
    BY <1>8
  <2> HIDE DEF Line, lines, lost
  <2>3. lines \in [1 .. Cardinality(S) -> {Line(k) : k \in 1 .. Cardinality(S)}]
    BY <2>2
  <2>4. IsSeq(lines)
    <3>1. PICK n, L : n = Cardinality(S) /\ L = {Line(k) : k \in 1 .. Cardinality(S)}
      OBVIOUS
    <3>2. n \in Nat /\ lines \in [1 .. n -> L]
      BY <1>2, <2>3, <3>1
    <3>3. lines \in Seq(L)
      BY <3>2, FunctionIsSeq
    <3> QED BY <3>3 DEF IsSeq
  <2>5. \A k \in DOMAIN lines : lines[k][1] = "invalid_agency"
    BY <2>1, <2>2
  <2>6. "invalid_agency" \in OtherKinds
    BY DEF OtherKinds
  <2> QED BY <2>4, <2>5, <2>6 DEF Lines
<1>10. Lines(idless, OtherKinds)
  <2>1. "idless_agency" \in OtherKinds
    BY DEF OtherKinds
  <2>2. Lines(Report("idless_agency", 0, 0, 0), OtherKinds) /\ Lines(<<>>, OtherKinds)
    BY <2>1, ReportLines, EmptyLines
  <2> QED BY <2>2, Zenon
<1> HIDE DEF idless, lines
<1> QED BY <1>4, <1>9, <1>10, ConcatLines

LEMMA ValidateAgenciesMoves ==
    ASSUME TypeInv, ValidateAgencies
    PROVE  Moves /\ TypeInv'
<1>0. /\ pass = "agencies" /\ pass' = "stop times" /\ at' = 1 /\ inner' = 2
      /\ feed' = feed /\ stops' = stops /\ transfers' = transfers /\ headways' = headways
      /\ route_names' = route_names /\ stop_types' = stop_types /\ trips' = trips
      /\ blocks' = blocks /\ block' = block /\ cache' = cache
      /\ reports' = reports \o AgencyReports
  BY DEF ValidateAgencies, GoTo, tables
<1>1. Kinds(pass) = OtherKinds /\ <<pass, pass'>> \in Onward
  BY <1>0 DEF Kinds, OtherKinds, Onward
<1>2. IsSeq(reports)
  BY DEF TypeInv
<1>3. Grows(reports, reports', OtherKinds) /\ IsSeq(reports')
  BY <1>0, <1>2, AgencyLines, ConcatReports
<1>4. Moves
  BY <1>0, <1>1, <1>3 DEF Moves
<1>5. TypeInv'
  BY <1>0, <1>4, TypesKept
<1> QED BY <1>4, <1>5

(* The reports on the times of a trip, but for its frequencies.            *)
LEMMA QuietLines ==
    ASSUME TypeInv, NEW t \in DOMAIN feed.trips, NEW K,
           {"too_fast", "timetravel",
            "no_stop_times", "frequencies_without_stops", "one_stop"} \subseteq K
    PROVE  Lines(Timepoints(t).found, K) /\ Lines(CountReports(t), K)
<1>1. {"too_fast", "timetravel",
       "no_stop_times", "frequencies_without_stops", "one_stop"} \subseteq K
  OBVIOUS
<1>2. /\ Lines(<<>>, K)
      /\ Lines(Report("no_stop_times", t, 0, 0), K)
      /\ Lines(Report("frequencies_without_stops", t, 0, 0), K)
      /\ Lines(Report("one_stop", t, 0, 0), K)
  BY <1>1, EmptyLines, ReportLines
<1>4. Lines(CountReports(t), K)
  <2> DEFINE b == IF headways[t] # <<>> THEN Report("frequencies_without_stops", t, 0, 0) ELSE <<>>
  <2>1. \/ CountReports(t) = Report("no_stop_times", t, 0, 0) \o b
        \/ CountReports(t) = Report("one_stop", t, 0, 0)
        \/ CountReports(t) = <<>>
    BY DEF CountReports
  <2>2. Lines(b, K)
    BY <1>2, Zenon
  <2> HIDE DEF b
  <2>3. Lines(Report("no_stop_times", t, 0, 0) \o b, K)
    BY <1>2, <2>2, ConcatLines
  <2> QED BY <1>2, <2>1, <2>3
<1>5. Lines(Timepoints(t).found, K)
  <2>1. Timepoints(t) \in Point
    BY TimepointsFacts
  <2>2. Timepoints(t).found \in Seq({"too_fast", "timetravel"} \X Nat \X Nat \X Nat)
    BY <2>1 DEF Point
  <2> DEFINE found == Timepoints(t).found
  <2> HIDE DEF found
  <2>3. \A k \in DOMAIN found : found[k][1] \in {"too_fast", "timetravel"}
    BY <2>2 DEF found
  <2>4. IsSeq(found)
    BY <2>2 DEF IsSeq, found
  <2> QED BY <1>1, <2>3, <2>4 DEF Lines, found
<1> QED BY <1>4, <1>5

(* The reports on the frequencies of a trip: one for each pair of periods  *)
(* that overlap.                                                           *)
LEMMA FrequencyLines ==
    ASSUME TypeInv, NEW t \in DOMAIN feed.trips
    PROVE  /\ Lines(FrequencyReports(t), {"overlapping_headways"})
           /\ \A k \in DOMAIN FrequencyReports(t) : \E p \in OverlappingPairs(t) :
                 FrequencyReports(t)[k] = <<"overlapping_headways", t, p[1], p[2]>>
           /\ \A p \in OverlappingPairs(t) : \E k \in DOMAIN FrequencyReports(t) :
                 FrequencyReports(t)[k] = <<"overlapping_headways", t, p[1], p[2]>>
<1> DEFINE pairs == InOrder(OverlappingPairs(t), PairBefore)
           Line(p) == <<"overlapping_headways", t, p[1], p[2]>>
<1>1. t \in DOMAIN headways
  BY DEF TypeInv
<1>2. pairs \in Seq(OverlappingPairs(t)) /\ \A p \in OverlappingPairs(t) : \E k \in DOMAIN pairs : pairs[k] = p
  BY <1>1, PairsSorted
<1>3. FrequencyReports(t) = [k \in DOMAIN pairs |-> Line(pairs[k])]
  BY DEF FrequencyReports
<1>4. \A p : Line(p)[1] = "overlapping_headways"
  OBVIOUS
<1> HIDE DEF pairs, Line
<1>5. PICK n \in Nat : DOMAIN pairs = 1 .. n /\ \A k \in 1 .. n : pairs[k] \in OverlappingPairs(t)
  BY <1>2
<1>6. FrequencyReports(t) \in [1 .. n -> {Line(pairs[k]) : k \in 1 .. n}]
  BY <1>3, <1>5
<1>7. IsSeq(FrequencyReports(t))
  BY <1>6, FunctionIsSeq DEF IsSeq
<1>8. \A k \in DOMAIN FrequencyReports(t) : FrequencyReports(t)[k][1] = "overlapping_headways"
  BY <1>3, <1>4
<1>9. Lines(FrequencyReports(t), {"overlapping_headways"})
  BY <1>7, <1>8 DEF Lines
<1>10. /\ \A k \in DOMAIN FrequencyReports(t) : \E p \in OverlappingPairs(t) : FrequencyReports(t)[k] = Line(p)
       /\ \A p \in OverlappingPairs(t) : \E k \in DOMAIN FrequencyReports(t) : FrequencyReports(t)[k] = Line(p)
  BY <1>2, <1>3, <1>5
<1> QED BY <1>9, <1>10 DEF Line

LEMMA TimeLines ==
    ASSUME TypeInv, NEW t \in DOMAIN feed.trips
    PROVE  /\ Lines(Timepoints(t).found, TimeKinds)
           /\ Lines(FrequencyReports(t), TimeKinds) /\ Lines(CountReports(t), TimeKinds)
<1>1. /\ {"too_fast", "timetravel",
          "no_stop_times", "frequencies_without_stops", "one_stop"} \subseteq TimeKinds
      /\ "overlapping_headways" \in TimeKinds
  BY DEF TimeKinds
<1>2. Lines(FrequencyReports(t), TimeKinds)
  BY <1>1, FrequencyLines DEF Lines
<1> QED BY <1>1, <1>2, QuietLines

LEMMA ValidateStopTimesMoves ==
    ASSUME TypeInv, ValidateStopTimes
    PROVE  Moves /\ TypeInv'
<1> DEFINE found == Timepoints(at).found
           rest  == FrequencyReports(at) \o CountReports(at)
<1>0. /\ pass = "stop times"
      /\ feed' = feed /\ stops' = stops /\ transfers' = transfers /\ headways' = headways
      /\ route_names' = route_names /\ stop_types' = stop_types /\ trips' = trips
      /\ blocks' = blocks /\ block' = block /\ cache' = cache
  BY DEF ValidateStopTimes, tables
<1>1. Kinds(pass) = TimeKinds /\ "exception" \in TimeKinds
  BY <1>0 DEF Kinds, TimeKinds
<1>2. IsSeq(reports)
  BY DEF TypeInv
<1>3. at \in DOMAIN feed.trips
  <2>1. at <= Len(feed.trips)
    BY DEF ValidateStopTimes
  <2>2. at \in Nat \ {0} /\ feed.trips \in Seq(TripRow)
    BY FeedFacts DEF TypeInv
  <2> QED BY <2>1, <2>2
<1>4. Lines(found, TimeKinds) /\ Lines(rest, TimeKinds)
  BY <1>3, TimeLines, ConcatLines
<1>5. \/ Raise(<<>>) \/ Raise(found) \/ Raise(found \o rest)
      \/ reports' = reports \o found \o rest /\ pass' = pass /\ at' = at + 1 /\ inner' = inner
  BY DEF ValidateStopTimes
<1> HIDE DEF found, rest
<1>6. Lines(found \o rest, TimeKinds) /\ Lines(<<>>, TimeKinds)
  BY <1>4, ConcatLines, EmptyLines
<1>7. /\ Grows(reports, reports', TimeKinds) /\ IsSeq(reports')
      /\ \/ pass' = "raised" /\ at' = 1 /\ inner' = 2
         \/ pass' = pass /\ at' = at + 1 /\ inner' = inner
  <2>1. CASE Raise(<<>>) \/ Raise(found) \/ Raise(found \o rest)
    BY <1>1, <1>2, <1>4, <1>6, <2>1, RaiseReports
  <2>2. CASE reports' = reports \o found \o rest /\ pass' = pass /\ at' = at + 1 /\ inner' = inner
    BY <1>2, <1>4, <2>2, TwoConcatReports
  <2> QED BY <1>5, <2>1, <2>2
<1>8. Moves
  BY <1>0, <1>1, <1>7 DEF Moves
<1>9. TypeInv'
  BY <1>0, <1>7, <1>8, TypesKept
<1> QED BY <1>8, <1>9

(* Every step.                                                             *)
LEMMA StepMoves ==
    ASSUME TypeInv, [Next]_vars
    PROVE  Moves /\ TypeInv'
<1>1. CASE Steps
  BY <1>1, LoadStopMoves, LoadRouteMoves, LoadTransferMoves, ValidateStopMoves, CompareStopsMoves,
     NextStopMoves, ValidateRouteMoves, ValidateTripMoves, CompareTripsMoves, NextIntervalMoves,
     ValidateAgenciesMoves, ValidateStopTimesMoves, ValidateUnusedShapesMoves, NextPassMoves DEF Steps
<1>2. CASE \E t \in DOMAIN headways :
              \/ \E s, e \in Times, h \in Headways : AddFrequency(t, s, e, h)
              \/ ClearFrequencies(t)
  BY <1>2, AddFrequencyMoves, ClearFrequenciesMoves
<1>3. CASE Ended \/ UNCHANGED vars
  BY <1>3, UnchangedMoves DEF Ended
<1> QED BY <1>1, <1>2, <1>3 DEF Next

LEMMA TypeInit ==
    ASSUME Init
    PROVE  TypeInv
<1>1. /\ feed \in Feeds /\ stops = feed.stops /\ transfers = {} /\ at = 1 /\ inner = 1 /\ block = 1
      /\ headways = [t \in 1 .. Len(feed.trips) |-> <<>>] /\ stop_types = EmptyMap /\ reports = <<>>
  BY DEF Init
<1>2. feed.stops \in Seq(StopRow) /\ feed.trips \in Seq(TripRow)
  BY <1>1, FeedsAssumption
<1>3. pass \in Passes
  BY DEF Init, Passes, AfterLoadStops, AfterLoadRoutes, AfterTransfers
<1>4. headways \in [DOMAIN feed.trips -> Seq(Period)]
  BY <1>1, <1>2
<1>5. stop_types \in Marks
  <2>1. EmptyMap \in [{} -> Nat \X {Subway, Bus} \X {0, 1}]
    BY DEF EmptyMap
  <2> QED BY <1>1, <2>1 DEF Marks
<1>6. IsSeq(reports)
  BY <1>1, EmptyLines DEF Lines
<1> QED BY <1>1, <1>2, <1>3, <1>4, <1>5, <1>6 DEF TypeInv

-----------------------------------------------------------------------------
(* The passes.                                                             *)

(* A pass has its own steps.                                               *)
LEMMA OwnSteps ==
    ASSUME [Next]_vars
    PROVE  /\ pass = "load stops" => LoadStop \/ NextPass \/ UNCHANGED vars
           /\ pass = "load routes" => LoadRoute \/ NextPass \/ UNCHANGED vars
           /\ pass = "load transfers" => LoadTransfer \/ NextPass \/ UNCHANGED vars
           /\ pass = "frequencies" =>
                 \/ \E t \in DOMAIN headways :
                       \/ \E s, e \in Times, h \in Headways : AddFrequency(t, s, e, h)
                       \/ ClearFrequencies(t)
                 \/ NextPass \/ UNCHANGED vars
           /\ pass = "stops" => ValidateStop \/ NextPass \/ UNCHANGED vars
           /\ pass = "nearby stops" => CompareStops \/ NextStop \/ NextPass \/ UNCHANGED vars
           /\ pass = "routes" => ValidateRoute \/ NextPass \/ UNCHANGED vars
           /\ pass = "trips" => ValidateTrip \/ NextPass \/ UNCHANGED vars
           /\ pass = "blocks" => CompareTrips \/ NextInterval \/ NextPass \/ UNCHANGED vars
           /\ pass = "agencies" => ValidateAgencies \/ UNCHANGED vars
           /\ pass = "stop times" => ValidateStopTimes \/ NextPass \/ UNCHANGED vars
           /\ pass = "shapes" => ValidateUnusedShapes \/ UNCHANGED vars
           /\ pass \in {"done", "raised"} => UNCHANGED vars
<1>1. /\ LoadStop => pass = "load stops"
      /\ LoadRoute => pass = "load routes"
      /\ LoadTransfer => pass = "load transfers"
      /\ ValidateStop => pass = "stops"
      /\ CompareStops => pass = "nearby stops"
      /\ NextStop => pass = "nearby stops"
      /\ ValidateRoute => pass = "routes"
      /\ ValidateTrip => pass = "trips"
  BY Zenon DEF LoadStop, LoadRoute, LoadTransfer, ValidateStop, CompareStops, NextStop, ValidateRoute,
     ValidateTrip
<1>2. /\ CompareTrips => pass = "blocks"
      /\ NextInterval => pass = "blocks"
      /\ ValidateAgencies => pass = "agencies"
      /\ ValidateStopTimes => pass = "stop times"
      /\ ValidateUnusedShapes => pass = "shapes"
      /\ Ended => UNCHANGED vars
  BY Zenon DEF CompareTrips, Comparing, NextInterval, ValidateAgencies, ValidateStopTimes,
     ValidateUnusedShapes, Ended
<1>3. /\ \A t : ClearFrequencies(t) => pass = "frequencies"
      /\ \A t, s, e, h : AddFrequency(t, s, e, h) => pass = "frequencies"
  BY Zenon DEF AddFrequency, ClearFrequencies
<1>4. NextPass => pass \notin {"agencies", "shapes", "done", "raised"}
  BY DEF NextPass, Finished
<1>5. \/ LoadStop \/ LoadRoute \/ LoadTransfer \/ ValidateStop \/ CompareStops \/ NextStop
      \/ ValidateRoute \/ ValidateTrip \/ CompareTrips \/ NextInterval
      \/ ValidateAgencies \/ ValidateStopTimes \/ ValidateUnusedShapes \/ NextPass
      \/ \E t \in DOMAIN headways :
            \/ \E s, e \in Times, h \in Headways : AddFrequency(t, s, e, h)
            \/ ClearFrequencies(t)
      \/ UNCHANGED vars
  BY <1>2, Zenon DEF Next, Steps
<1>6. CASE \E t \in DOMAIN headways :
            \/ \E s, e \in Times, h \in Headways : AddFrequency(t, s, e, h)
            \/ ClearFrequencies(t)
  <2>1. pass = "frequencies"
    BY <1>3, <1>6
  <2> QED BY <1>6, <2>1
<1>7. CASE ~ \E t \in DOMAIN headways :
            \/ \E s, e \in Times, h \in Headways : AddFrequency(t, s, e, h)
            \/ ClearFrequencies(t)
  BY <1>1, <1>2, <1>4, <1>5, <1>7
<1> QED BY <1>6, <1>7

(* A loop is left when its index has passed the end; validate_blocks       *)
(* also returns early.                                                     *)
LEMMA LoopEnds ==
    ASSUME NextPass
    PROVE  /\ pass = "load stops" => at > Len(stops)
           /\ pass = "load transfers" => at > Len(feed.transfers)
           /\ pass = "stops" => at > Len(stops)
           /\ pass = "nearby stops" => at > Len(SortedStops) - 1
           /\ pass = "routes" => at > Len(feed.routes)
           /\ pass = "trips" => at > Len(feed.trips)
           /\ pass = "blocks" => block > Len(blocks)
           /\ pass = "stop times" => at > Len(feed.trips)
           /\ pass' # pass /\ pass' # "raised" /\ <<pass, pass'>> \in Onward
           /\ feed' = feed /\ stops' = stops /\ transfers' = transfers /\ headways' = headways
           /\ route_names' = route_names /\ stop_types' = stop_types /\ trips' = trips
           /\ blocks' = blocks /\ block' = block /\ cache' = cache /\ reports' = reports
           /\ at' = 1 /\ inner' = 2
<1>1. /\ pass = "load stops" => at > Len(stops)
      /\ pass = "load transfers" => at > Len(feed.transfers)
      /\ pass = "stops" => at > Len(stops)
      /\ pass = "nearby stops" => at > Len(SortedStops) - 1
      /\ pass = "routes" => at > Len(feed.routes)
      /\ pass = "trips" => at > Len(feed.trips)
      /\ pass = "blocks" => block > Len(blocks)
      /\ pass = "stop times" => at > Len(feed.trips)
  BY DEF NextPass, Finished
<1>2. pass' # pass /\ pass' # "raised" /\ <<pass, pass'>> \in Onward /\ at' = 1 /\ inner' = 2
  BY DEF NextPass, Finished, GoTo, Onward
<1>3. /\ feed' = feed /\ stops' = stops /\ transfers' = transfers /\ headways' = headways
      /\ route_names' = route_names /\ stop_types' = stop_types /\ trips' = trips
      /\ blocks' = blocks /\ block' = block /\ cache' = cache /\ reports' = reports
  BY Zenon DEF NextPass, tables
<1> QED BY <1>1, <1>2, <1>3

(* An exception is no pass of the order.                                   *)
LEMMA PassNames == \A k \in DOMAIN PassOrder : PassOrder[k] # "raised"
<1>1. DOMAIN PassOrder = 1 .. 13
  BY DEF PassOrder
<1>2. \A k \in 1 .. 13 : \/ k = 1 \/ k = 2 \/ k = 3 \/ k = 4 \/ k = 5 \/ k = 6 \/ k = 7
                         \/ k = 8 \/ k = 9 \/ k = 10 \/ k = 11 \/ k = 12 \/ k = 13
  OBVIOUS
<1>3. /\ PassOrder[1] = "load stops" /\ PassOrder[2] = "load routes" /\ PassOrder[3] = "load transfers"
      /\ PassOrder[4] = "frequencies" /\ PassOrder[5] = "stops" /\ PassOrder[6] = "nearby stops"
      /\ PassOrder[7] = "routes" /\ PassOrder[8] = "trips" /\ PassOrder[9] = "blocks"
      /\ PassOrder[10] = "agencies" /\ PassOrder[11] = "stop times" /\ PassOrder[12] = "shapes"
      /\ PassOrder[13] = "done"
  BY DEF PassOrder
<1> QED BY <1>1, <1>2, <1>3

(* What is past, in the order of the passes.                               *)
LEMMA PastIs ==
    /\ Past("load routes") => pass \in AfterLoadRoutes
    /\ Past("load transfers") => pass \in AfterTransfers
    /\ Past("stops") => pass \in AfterStops
    /\ Past("nearby stops") => pass \in AfterNearby
    /\ Past("routes") => pass \in AfterRoutes
    /\ Past("trips") => pass \in AfterTrips
    /\ Past("blocks") => pass \in AfterBlocks
    /\ Past("stop times") => pass \in AfterStopTimes
<1>1. DOMAIN PassOrder = 1 .. 13
  BY DEF PassOrder
<1>2. /\ PassOrder[1] = "load stops" /\ PassOrder[2] = "load routes" /\ PassOrder[3] = "load transfers"
      /\ PassOrder[4] = "frequencies" /\ PassOrder[5] = "stops" /\ PassOrder[6] = "nearby stops"
      /\ PassOrder[7] = "routes" /\ PassOrder[8] = "trips" /\ PassOrder[9] = "blocks"
      /\ PassOrder[10] = "agencies" /\ PassOrder[11] = "stop times" /\ PassOrder[12] = "shapes"
      /\ PassOrder[13] = "done"
  BY DEF PassOrder
<1>3. \A k \in 1 .. 13 : \/ k = 1 \/ k = 2 \/ k = 3 \/ k = 4 \/ k = 5 \/ k = 6 \/ k = 7
                         \/ k = 8 \/ k = 9 \/ k = 10 \/ k = 11 \/ k = 12 \/ k = 13
  OBVIOUS
<1>4. \A j \in 1 .. 13 :
         /\ PassOrder[j] = "load routes" => j = 2
         /\ PassOrder[j] = "load transfers" => j = 3
         /\ PassOrder[j] = "stops" => j = 5
         /\ PassOrder[j] = "nearby stops" => j = 6
         /\ PassOrder[j] = "routes" => j = 7
         /\ PassOrder[j] = "trips" => j = 8
         /\ PassOrder[j] = "blocks" => j = 9
         /\ PassOrder[j] = "stop times" => j = 11
  BY <1>2, <1>3
<1>5. \A k \in 1 .. 13 : k > 11 => PassOrder[k] \in AfterStopTimes
  <2>1. \A k \in 1 .. 13 : k > 11 => k = 12 \/ k = 13
    OBVIOUS
  <2> QED BY <1>2, <2>1 DEF AfterStopTimes
<1>6. \A k \in 1 .. 13 : k > 9 => PassOrder[k] \in AfterBlocks
  <2>1. \A k \in 1 .. 13 : k > 9 => k > 11 \/ k = 10 \/ k = 11
    OBVIOUS
  <2> QED BY <1>2, <1>5, <2>1 DEF AfterBlocks
<1>7. \A k \in 1 .. 13 : k > 8 => PassOrder[k] \in AfterTrips
  <2>1. \A k \in 1 .. 13 : k > 8 => k > 9 \/ k = 9
    OBVIOUS
  <2> QED BY <1>2, <1>6, <2>1 DEF AfterTrips
<1>8. \A k \in 1 .. 13 : k > 7 => PassOrder[k] \in AfterRoutes
  <2>1. \A k \in 1 .. 13 : k > 7 => k > 8 \/ k = 8
    OBVIOUS
  <2> QED BY <1>2, <1>7, <2>1 DEF AfterRoutes
<1>9. \A k \in 1 .. 13 : k > 6 => PassOrder[k] \in AfterNearby
  <2>1. \A k \in 1 .. 13 : k > 6 => k > 7 \/ k = 7
    OBVIOUS
  <2> QED BY <1>2, <1>8, <2>1 DEF AfterNearby
<1>10. \A k \in 1 .. 13 : k > 5 => PassOrder[k] \in AfterStops
  <2>1. \A k \in 1 .. 13 : k > 5 => k > 6 \/ k = 6
    OBVIOUS
  <2> QED BY <1>2, <1>9, <2>1 DEF AfterStops
<1>11. \A k \in 1 .. 13 : k > 3 => PassOrder[k] \in AfterTransfers
  <2>1. \A k \in 1 .. 13 : k > 3 => k > 5 \/ k = 4 \/ k = 5
    OBVIOUS
  <2> QED BY <1>2, <1>10, <2>1 DEF AfterTransfers
<1>12. \A k \in 1 .. 13 : k > 2 => PassOrder[k] \in AfterLoadRoutes
  <2>1. \A k \in 1 .. 13 : k > 2 => k > 3 \/ k = 3
    OBVIOUS
  <2> QED BY <1>2, <1>11, <2>1 DEF AfterLoadRoutes
<1>13. ASSUME Past("load routes") PROVE pass \in AfterLoadRoutes
  <2>1. PICK j, k \in 1 .. 13 : PassOrder[j] = "load routes" /\ PassOrder[k] = pass /\ j < k
    BY <1>1, <1>13 DEF Past
  <2> QED BY <1>4, <1>12, <2>1
<1>14. ASSUME Past("load transfers") PROVE pass \in AfterTransfers
  <2>1. PICK j, k \in 1 .. 13 : PassOrder[j] = "load transfers" /\ PassOrder[k] = pass /\ j < k
    BY <1>1, <1>14 DEF Past
  <2> QED BY <1>4, <1>11, <2>1
<1>15. ASSUME Past("stops") PROVE pass \in AfterStops
  <2>1. PICK j, k \in 1 .. 13 : PassOrder[j] = "stops" /\ PassOrder[k] = pass /\ j < k
    BY <1>1, <1>15 DEF Past
  <2> QED BY <1>4, <1>10, <2>1
<1>16. ASSUME Past("nearby stops") PROVE pass \in AfterNearby
  <2>1. PICK j, k \in 1 .. 13 : PassOrder[j] = "nearby stops" /\ PassOrder[k] = pass /\ j < k
    BY <1>1, <1>16 DEF Past
  <2> QED BY <1>4, <1>9, <2>1
<1>17. ASSUME Past("routes") PROVE pass \in AfterRoutes
  <2>1. PICK j, k \in 1 .. 13 : PassOrder[j] = "routes" /\ PassOrder[k] = pass /\ j < k
    BY <1>1, <1>17 DEF Past
  <2> QED BY <1>4, <1>8, <2>1
<1>18. ASSUME Past("trips") PROVE pass \in AfterTrips
  <2>1. PICK j, k \in 1 .. 13 : PassOrder[j] = "trips" /\ PassOrder[k] = pass /\ j < k
    BY <1>1, <1>18 DEF Past
  <2> QED BY <1>4, <1>7, <2>1
<1>19. ASSUME Past("blocks") PROVE pass \in AfterBlocks
  <2>1. PICK j, k \in 1 .. 13 : PassOrder[j] = "blocks" /\ PassOrder[k] = pass /\ j < k
    BY <1>1, <1>19 DEF Past
  <2> QED BY <1>4, <1>6, <2>1
<1>20. ASSUME Past("stop times") PROVE pass \in AfterStopTimes
  <2>1. PICK j, k \in 1 .. 13 : PassOrder[j] = "stop times" /\ PassOrder[k] = pass /\ j < k
    BY <1>1, <1>20 DEF Past
  <2> QED BY <1>4, <1>5, <2>1
<1> QED BY <1>13, <1>14, <1>15, <1>16, <1>17, <1>18, <1>19, <1>20

(* How a step can enter and stay in the passes after each one.             *)
LEMMA Entering ==
    ASSUME Moves, pass \in Passes
    PROVE  /\ pass' \in AfterLoadStops => pass \in {"load stops"} \cup AfterLoadStops
           /\ pass' \in AfterTransfers => pass \in {"load transfers"} \cup AfterTransfers
           /\ pass' \in AfterStops => pass \in {"stops"} \cup AfterStops
           /\ pass' \in AfterNearby => pass \in {"nearby stops"} \cup AfterNearby
           /\ pass' \in AfterRoutes => pass \in {"routes"} \cup AfterRoutes
           /\ pass' \in AfterTrips => pass \in {"trips"} \cup AfterTrips
           /\ pass' \in AfterBlocks => pass \in {"blocks"} \cup AfterBlocks
           /\ pass' \in AfterStopTimes => pass \in {"stop times"} \cup AfterStopTimes
<1>1. pass' = pass \/ pass' = "raised" \/ <<pass, pass'>> \in Onward
  BY DEF Moves
<1>2. CASE pass' = pass
  BY <1>2
<1>3. CASE pass' = "raised"
  BY <1>3 DEF AfterStopTimes, AfterBlocks, AfterTrips, AfterRoutes, AfterNearby,
     AfterStops, AfterTransfers, AfterLoadRoutes, AfterLoadStops
<1>4. CASE <<pass, pass'>> \in Onward
  BY <1>4 DEF Onward, AfterStopTimes, AfterBlocks, AfterTrips, AfterRoutes, AfterNearby,
     AfterStops, AfterTransfers, AfterLoadRoutes, AfterLoadStops
<1> QED BY <1>1, <1>2, <1>3, <1>4

-----------------------------------------------------------------------------
(* Stops, transfers, and what raises.                                      *)

\* A stop of the feed f as the load and as the validation of children leave it.
LoadedStop(f, i) == IF f.loaded THEN StopValidate(f.stops[i], TRUE) ELSE f.stops[i]
ValidStop(f, i) == IF f.children THEN StopValidate(LoadedStop(f, i), FALSE) ELSE LoadedStop(f, i)

\* Stop i when pass p is at index a.
StopAt(f, p, a, i) ==
    CASE p = "load stops" -> IF i < a THEN LoadedStop(f, i) ELSE f.stops[i]
      [] p = "stops"      -> IF i < a THEN ValidStop(f, i) ELSE LoadedStop(f, i)
      [] p \in AfterStops -> ValidStop(f, i)
      [] OTHER            -> LoadedStop(f, i)

StopsInv ==
    /\ pass \in {"load stops", "load routes", "load transfers"} => feed.loaded
    /\ pass # "raised" => \A i \in DOMAIN stops : stops[i] = StopAt(feed, pass, at, i)
    /\ feed.loaded => \A i \in DOMAIN stops :
          \/ pass = "load stops" /\ i < at
          \/ pass \in AfterLoadStops
          => ~StopRaises(feed.stops[i], TRUE)
    /\ feed.children => \A i \in DOMAIN stops :
          \/ pass = "stops" /\ i < at
          \/ pass \in AfterStops
          => ~StopRaises(LoadedStop(feed, i), FALSE)

LEMMA StopAtIs ==
    ASSUME NEW f, NEW a, NEW i
    PROVE  /\ StopAt(f, "load stops", a, i) = IF i < a THEN LoadedStop(f, i) ELSE f.stops[i]
           /\ StopAt(f, "stops", a, i) = IF i < a THEN ValidStop(f, i) ELSE LoadedStop(f, i)
           /\ \A p \in AfterStops : StopAt(f, p, a, i) = ValidStop(f, i)
           /\ \A p \in {"load routes", "load transfers", "frequencies"} :
                 StopAt(f, p, a, i) = LoadedStop(f, i)
<1>1. /\ "load stops" \notin AfterStops /\ "stops" \notin AfterStops
      /\ \A p \in {"load routes", "load transfers", "frequencies"} : p \notin AfterStops
  BY DEF AfterStopTimes, AfterBlocks, AfterTrips, AfterRoutes, AfterNearby, AfterStops
<1> QED BY <1>1 DEF StopAt

(* The passes apart.                                                       *)
LEMMA PassSets ==
    /\ Passes = {"load stops", "raised"} \cup AfterLoadStops
    /\ AfterLoadStops = {"load routes", "load transfers", "frequencies", "stops"} \cup AfterStops
    /\ {"raised", "load stops", "load routes", "load transfers", "frequencies", "stops"} \cap AfterStops = {}
BY DEF Passes, AfterStopTimes, AfterBlocks, AfterTrips, AfterRoutes, AfterNearby, AfterStops,
   AfterTransfers, AfterLoadRoutes, AfterLoadStops

LEMMA StopsStep ==
    ASSUME TypeInv, StopsInv, [Next]_vars
    PROVE  StopsInv'
<1>0. Moves /\ TypeInv'
  BY StepMoves
<1>1. /\ pass \in Passes /\ feed' = feed /\ at \in Nat \ {0} /\ stops \in Seq(StopRow)
      /\ DOMAIN stops = 1 .. Len(stops) /\ DOMAIN stops' = 1 .. Len(stops) /\ Len(stops) \in Nat
  <2>1. feed' = feed
    BY <1>0 DEF Moves
  <2>2. pass \in Passes /\ at \in Nat \ {0} /\ stops \in Seq(StopRow) /\ Len(stops) = Len(feed.stops)
    BY DEF TypeInv
  <2>3. stops' \in Seq(StopRow) /\ Len(stops') = Len(stops)
    BY <1>0, <2>1, <2>2 DEF TypeInv
  <2>4. DOMAIN stops = 1 .. Len(stops) /\ DOMAIN stops' = 1 .. Len(stops) /\ Len(stops) \in Nat
    BY <2>2, <2>3
  <2> QED BY <2>1, <2>2, <2>4
<1>8. at > Len(stops) => \A i \in DOMAIN stops : i < at
  <2>1. at \in Nat /\ Len(stops) \in Nat /\ DOMAIN stops = 1 .. Len(stops)
    BY <1>1
  <2> QED BY <2>1
<1>2. CASE pass' = "raised"
  <2>1. pass' \notin AfterLoadStops /\ pass' \notin AfterStops
    BY <1>2, PassSets
  <2> QED BY <1>2, <2>1 DEF StopsInv
<1>3. ASSUME pass' = pass, pass \notin {"load stops", "stops"}, pass # "raised"
      PROVE  StopsInv'
  <2>1. stops' = stops
    BY <1>0, <1>3 DEF Moves
  <2>2. pass \in {"load routes", "load transfers", "frequencies"} \cup AfterStops
    BY <1>1, <1>3, PassSets
  <2>3. ASSUME NEW i
        PROVE  StopAt(feed, pass, at', i) = StopAt(feed, pass, at, i)
    <3>1. CASE pass \in AfterStops
      BY <3>1, StopAtIs, ZenonT(60)
    <3>2. CASE pass \in {"load routes", "load transfers", "frequencies"}
      BY <3>2, StopAtIs, ZenonT(60)
    <3> QED BY <2>2, <3>1, <3>2
  <2> QED BY <1>1, <1>3, <2>1, <2>3 DEF StopsInv
<1>4. ASSUME LoadStop, pass' # "raised"
      PROVE  StopsInv'
  <2>1. ~ StopRaises(stops[at], TRUE)
    BY <1>4 DEF LoadStop, Raise, GoTo
  <2>2. /\ pass = "load stops" /\ pass' = pass /\ at' = at + 1
        /\ stops' = [stops EXCEPT ![at] = StopValidate(stops[at], TRUE)]
    BY <1>4, <2>1 DEF LoadStop
  <2>3. at \in DOMAIN stops
    <3>1. at <= Len(stops)
      BY <1>4 DEF LoadStop
    <3> QED BY <1>1, <3>1
  <2>4. feed.loaded
    BY <2>2 DEF StopsInv
  <2>5. \A i \in DOMAIN stops : stops[i] = IF i < at THEN LoadedStop(feed, i) ELSE feed.stops[i]
    <3>1. \A i \in DOMAIN stops : stops[i] = StopAt(feed, "load stops", at, i)
      BY <2>2 DEF StopsInv
    <3> QED BY <3>1, StopAtIs, ZenonT(60)
  <2>6. stops[at] = feed.stops[at]
    BY <1>1, <2>3, <2>5
  <2>7. \A i \in DOMAIN stops : stops'[i] = IF i < at + 1 THEN LoadedStop(feed, i) ELSE feed.stops[i]
    <3> TAKE i \in DOMAIN stops
    <3>1. CASE i = at
      <4>0. at \in Nat
        BY <1>1
      <4>1. stops'[at] = StopValidate(stops[at], TRUE)
        BY <2>2, <2>3, Zenon
      <4>3. at < at + 1
        BY <4>0
      <4>2. LoadedStop(feed, at) = StopValidate(feed.stops[at], TRUE)
        BY <2>4 DEF LoadedStop
      <4> QED BY <2>6, <3>1, <4>1, <4>2, <4>3
    <3>2. CASE i # at
      <4>1. stops'[i] = stops[i]
        BY <2>2, <3>2
      <4>2. i < at + 1 <=> i < at
        BY <1>1, <3>2
      <4> QED BY <2>5, <4>1, <4>2
    <3> QED BY <3>1, <3>2
  <2>8. \A i \in DOMAIN stops : i < at + 1 => ~ StopRaises(feed.stops[i], TRUE)
    <3> TAKE i \in DOMAIN stops
    <3>1. CASE i = at
      BY <2>1, <2>6, <3>1
    <3>2. CASE i # at
      <4>1. i < at + 1 => i < at
        BY <1>1, <3>2
      <4> QED BY <2>2, <2>4, <4>1 DEF StopsInv
    <3> QED BY <3>1, <3>2
  <2>9. pass \notin AfterLoadStops /\ pass \notin AfterStops /\ pass # "stops" /\ pass # "raised"
    BY <2>2, PassSets
  <2>10. \A i \in DOMAIN stops' : stops'[i] = StopAt(feed', pass', at', i)
    <3>1. \A i : StopAt(feed, "load stops", at + 1, i) =
                     IF i < at + 1 THEN LoadedStop(feed, i) ELSE feed.stops[i]
      BY StopAtIs, ZenonT(60)
    <3>2. \A i \in DOMAIN stops : stops'[i] = StopAt(feed, "load stops", at + 1, i)
      BY <2>7, <3>1, Zenon
    <3> QED BY <1>1, <2>2, <3>2
  <2> QED BY <1>1, <2>2, <2>4, <2>8, <2>9, <2>10 DEF StopsInv
<1>5. ASSUME ValidateStop, pass' # "raised"
      PROVE  StopsInv'
  <2> DEFINE s == IF feed.children THEN StopValidate(stops[at], FALSE) ELSE stops[at]
  <2>1. ~ (feed.children /\ StopRaises(stops[at], FALSE))
    BY <1>5 DEF ValidateStop, Raise, GoTo
  <2>2. /\ pass = "stops" /\ pass' = pass /\ at' = at + 1
        /\ stops' = [stops EXCEPT ![at] = s]
    BY <1>5, <2>1 DEF ValidateStop
  <2>3. at \in DOMAIN stops
    <3>1. at <= Len(stops)
      BY <1>5 DEF ValidateStop
    <3> QED BY <1>1, <3>1
  <2>4. \A i \in DOMAIN stops : stops[i] = IF i < at THEN ValidStop(feed, i) ELSE LoadedStop(feed, i)
    <3>1. \A i \in DOMAIN stops : stops[i] = StopAt(feed, "stops", at, i)
      BY <2>2 DEF StopsInv
    <3> QED BY <3>1, StopAtIs, ZenonT(60)
  <2>5. stops[at] = LoadedStop(feed, at)
    BY <1>1, <2>3, <2>4
  <2>6. s = ValidStop(feed, at)
    BY <2>5 DEF ValidStop
  <2> HIDE DEF s
  <2>7. \A i \in DOMAIN stops : stops'[i] = IF i < at + 1 THEN ValidStop(feed, i) ELSE LoadedStop(feed, i)
    <3> TAKE i \in DOMAIN stops
    <3>1. CASE i = at
      BY <1>1, <2>2, <2>3, <2>6, <3>1
    <3>2. CASE i # at
      <4>1. stops'[i] = stops[i]
        BY <2>2, <3>2
      <4>2. i < at + 1 <=> i < at
        BY <1>1, <3>2
      <4> QED BY <2>4, <4>1, <4>2
    <3> QED BY <3>1, <3>2
  <2>8. feed.children => \A i \in DOMAIN stops : i < at + 1 => ~ StopRaises(LoadedStop(feed, i), FALSE)
    <3> SUFFICES ASSUME feed.children, NEW i \in DOMAIN stops, i < at + 1
                 PROVE  ~ StopRaises(LoadedStop(feed, i), FALSE)
      OBVIOUS
    <3>1. CASE i = at
      BY <2>1, <2>5, <3>1
    <3>2. CASE i # at
      <4>1. i < at
        BY <1>1, <3>2
      <4> QED BY <2>2, <4>1 DEF StopsInv
    <3> QED BY <3>1, <3>2
  <2>9. /\ pass \in AfterLoadStops /\ pass \notin AfterStops
        /\ pass \notin {"raised", "load stops", "load routes", "load transfers"}
    BY <2>2, PassSets
  <2>10. \A i \in DOMAIN stops' : stops'[i] = StopAt(feed', pass', at', i)
    <3>1. \A i : StopAt(feed, "stops", at + 1, i) =
                     IF i < at + 1 THEN ValidStop(feed, i) ELSE LoadedStop(feed, i)
      BY StopAtIs, ZenonT(60)
    <3>2. \A i \in DOMAIN stops : stops'[i] = StopAt(feed, "stops", at + 1, i)
      BY <2>7, <3>1, Zenon
    <3> QED BY <1>1, <2>2, <3>2
  <2> QED BY <1>1, <2>2, <2>8, <2>9, <2>10 DEF StopsInv
<1>6. ASSUME pass' # pass, pass' # "raised"
      PROVE  StopsInv'
  <2>1. <<pass, pass'>> \in Onward /\ at' = 1
    BY <1>0, <1>6 DEF Moves
  <2>2. pass \in {"load stops", "stops"} => NextPass
    BY <1>6, OwnSteps, <1>0 DEF LoadStop, ValidateStop, vars, Raise, GoTo
  <2>3. stops' = stops /\ (pass \in {"load stops", "stops"} => at > Len(stops))
    <3>1. CASE pass \in {"load stops", "stops"}
      BY <2>2, <3>1, LoopEnds
    <3>2. CASE pass \notin {"load stops", "stops"}
      BY <1>0, <3>2 DEF Moves
    <3> QED BY <3>1, <3>2
  <2>4. \/ pass = "load stops" /\ pass' = "load routes"
        \/ pass \in {"load routes", "load transfers"} /\ pass' \in {"load transfers", "frequencies"}
        \/ pass = "frequencies" /\ pass' = "stops"
        \/ pass = "stops" /\ pass' \in AfterStops
        \/ pass \in AfterStops /\ pass' \in AfterStops
    BY <2>1 DEF Onward, AfterStopTimes, AfterBlocks, AfterTrips, AfterRoutes, AfterNearby, AfterStops
  <2>5. \A i \in DOMAIN stops : stops[i] = StopAt(feed, pass', at', i)
    <3> TAKE i \in DOMAIN stops
    <3>1. stops[i] = StopAt(feed, pass, at, i)
      BY <2>4, PassSets DEF StopsInv
    <3>2. i \in 1 .. Len(stops) /\ at' = 1 /\ at \in Nat /\ Len(stops) \in Nat
      BY <1>1, <2>1
    <3>3. ~ i < at' /\ (at > Len(stops) => i < at)
      BY <3>2
    <3>4. StopAt(feed, "load stops", at, i) = IF i < at THEN LoadedStop(feed, i) ELSE feed.stops[i]
      BY StopAtIs, ZenonT(60)
    <3>5. /\ StopAt(feed, "stops", at, i) = IF i < at THEN ValidStop(feed, i) ELSE LoadedStop(feed, i)
          /\ StopAt(feed, "stops", at', i) = IF i < at' THEN ValidStop(feed, i) ELSE LoadedStop(feed, i)
      BY StopAtIs, ZenonT(60)
    <3>6. \A p \in AfterStops : StopAt(feed, p, at, i) = ValidStop(feed, i) /\ StopAt(feed, p, at', i) = ValidStop(feed, i)
      BY StopAtIs, ZenonT(60)
    <3>7. \A p \in {"load routes", "load transfers", "frequencies"} :
             StopAt(feed, p, at, i) = LoadedStop(feed, i) /\ StopAt(feed, p, at', i) = LoadedStop(feed, i)
      BY StopAtIs, ZenonT(60)
    <3>8. CASE pass = "load stops" /\ pass' = "load routes"
      BY <2>3, <3>1, <3>3, <3>4, <3>7, <3>8
    <3>9. CASE pass = "stops" /\ pass' \in AfterStops
      BY <2>3, <3>1, <3>3, <3>5, <3>6, <3>9
    <3>10. CASE pass \in {"load routes", "load transfers"} /\ pass' \in {"load transfers", "frequencies"}
      BY <3>1, <3>7, <3>10
    <3>11. CASE pass = "frequencies" /\ pass' = "stops"
      BY <3>1, <3>3, <3>5, <3>7, <3>11
    <3>12. CASE pass \in AfterStops /\ pass' \in AfterStops
      BY <3>1, <3>6, <3>12
    <3> QED BY <2>4, <3>8, <3>9, <3>10, <3>11, <3>12
  <2>6. pass' \in {"load stops", "load routes", "load transfers"} => feed.loaded
    BY <2>4, PassSets DEF StopsInv
  <2>7. feed.loaded => \A i \in DOMAIN stops : ~ StopRaises(feed.stops[i], TRUE)
    <3>1. CASE pass = "load stops"
      <4>1. \A i \in DOMAIN stops : i < at
        BY <1>8, <2>3, <3>1
      <4> QED BY <3>1, <4>1 DEF StopsInv
    <3>2. CASE pass # "load stops"
      BY <2>4, <3>2, PassSets DEF StopsInv
    <3> QED BY <3>1, <3>2
  <2>8. feed.children /\ pass' \in AfterStops =>
            \A i \in DOMAIN stops : ~ StopRaises(LoadedStop(feed, i), FALSE)
    <3>1. CASE pass = "stops"
      <4>1. \A i \in DOMAIN stops : i < at
        BY <1>8, <2>3, <3>1
      <4> QED BY <3>1, <4>1 DEF StopsInv
    <3>2. CASE pass # "stops"
      BY <2>4, <3>2, PassSets DEF StopsInv
    <3> QED BY <3>1, <3>2
  <2>9. pass' = "stops" => \A i \in DOMAIN stops : ~ i < at'
    BY <1>1, <2>1
  <2> QED BY <1>1, <1>6, <2>3, <2>4, <2>5, <2>6, <2>7, <2>8, <2>9, PassSets DEF StopsInv
<1>7. CASE UNCHANGED vars
  <2>1. stops' = stops /\ pass' = pass /\ at' = at
    BY <1>7 DEF vars
  <2> QED BY <1>1, <2>1 DEF StopsInv
<1> QED BY <1>1, <1>2, <1>3, <1>4, <1>5, <1>6, <1>7, OwnSteps, LoopEnds

TransfersInv ==
    /\ pass \in {"load stops", "load routes"} => transfers = {}
    /\ pass = "load transfers" =>
          /\ \A n \in DOMAIN feed.transfers :
                n \in transfers <=> n < at /\ TransferIsValid(feed.transfers[n])
          /\ \A n, k \in transfers : n < k => ~SameTransfer(feed.transfers[n], feed.transfers[k])
    /\ feed.loaded /\ pass \in AfterTransfers => ~SecondTransfer

LEMMA TransfersStep ==
    ASSUME TypeInv, TransfersInv, [Next]_vars
    PROVE  TransfersInv'
<1>0. Moves /\ TypeInv'
  BY StepMoves
<1>1. pass \in Passes /\ feed' = feed /\ at \in Nat \ {0} /\ transfers \subseteq DOMAIN feed.transfers
  <2>1. feed' = feed
    BY <1>0 DEF Moves
  <2> QED BY <2>1 DEF TypeInv
<1>2. DOMAIN feed.transfers = 1 .. Len(feed.transfers) /\ Len(feed.transfers) \in Nat
  BY FeedFacts
<1>3. SecondTransfer' <=> SecondTransfer
  BY <1>1 DEF SecondTransfer
<1>4. "load transfers" \notin AfterTransfers /\ "load stops" \notin AfterTransfers
      /\ "load routes" \notin AfterTransfers /\ "raised" \notin AfterTransfers
  BY DEF AfterStopTimes, AfterBlocks, AfterTrips, AfterRoutes, AfterNearby, AfterStops, AfterTransfers
<1>5. CASE pass # "load transfers"
  <2>1. transfers' = transfers
    BY <1>0, <1>5 DEF Moves
  <2>2. pass' \in AfterTransfers => pass \in AfterTransfers
    BY <1>0, <1>1, <1>5, Entering
  <2>3. pass' \in {"load stops", "load routes"} => pass \in {"load stops", "load routes"}
    BY <1>0 DEF Moves, Onward
  <2>4. pass' = "load transfers" => pass = "load routes" /\ at' = 1
    BY <1>0, <1>5 DEF Moves, Onward
  <2>5. \A n \in DOMAIN feed.transfers : ~ n < 1
    BY <1>2
  <2>6. pass' \in {"load stops", "load routes", "load transfers"} => transfers' = {}
    BY <2>1, <2>3, <2>4 DEF TransfersInv
  <2>7. pass' = "load transfers" =>
          /\ \A n \in DOMAIN feed.transfers :
                n \in transfers' <=> n < at' /\ TransferIsValid(feed.transfers[n])
          /\ \A n, k \in transfers' : n < k => ~SameTransfer(feed.transfers[n], feed.transfers[k])
    BY <2>4, <2>5, <2>6
  <2>8. feed.loaded /\ pass' \in AfterTransfers => ~SecondTransfer
    BY <2>2 DEF TransfersInv
  <2> QED BY <1>1, <1>3, <2>6, <2>7, <2>8 DEF TransfersInv
<1>6. CASE pass = "load transfers" /\ NextPass
  <2>1. at > Len(feed.transfers) /\ transfers' = transfers /\ <<pass, pass'>> \in Onward
    BY <1>6, LoopEnds
  <2>2. pass' = "frequencies"
    BY <1>6, <2>1 DEF Onward
  <2>3. \A n \in DOMAIN feed.transfers : n < at
    <3>1. at \in Nat
      BY <1>1
    <3> QED BY <1>2, <2>1, <3>1
  <2>4. \A n \in DOMAIN feed.transfers : TransferIsValid(feed.transfers[n]) => n \in transfers
    BY <1>6, <2>3 DEF TransfersInv
  <2>5. ~ SecondTransfer
    BY <1>6, <2>4 DEF TransfersInv, SecondTransfer
  <2> QED BY <1>3, <2>2, <2>5 DEF TransfersInv
<1>7. CASE pass = "load transfers" /\ LoadTransfer
  <2> DEFINE x == feed.transfers[at]
             raises == \/ TimeReportRaises(x)
                       \/ TransferIsValid(x) /\ \E n \in transfers : SameTransfer(feed.transfers[n], x)
  <2>1. CASE raises
    <3>1. pass' = "raised"
      BY <1>7, <2>1 DEF LoadTransfer, Raise, GoTo
    <3> QED BY <1>4, <3>1 DEF TransfersInv
  <2>2. CASE ~ raises
    <3>1. /\ pass' = pass /\ at' = at + 1
          /\ transfers' = IF TransferIsValid(x) THEN transfers \cup {at} ELSE transfers
      BY <1>7, <2>2 DEF LoadTransfer
    <3>2. at \in DOMAIN feed.transfers /\ at \in Nat
      <4>1. at <= Len(feed.transfers)
        BY <1>7 DEF LoadTransfer
      <4> QED BY <1>1, <1>2, <4>1
    <3>3. \A n \in DOMAIN feed.transfers : n < at + 1 <=> n < at \/ n = at
      BY <1>2, <3>2
    <3>4. \A n \in transfers : n < at
      BY <1>1, <1>7 DEF TransfersInv
    <3>5. ASSUME NEW n \in DOMAIN feed.transfers
          PROVE  n \in transfers' <=> n < at' /\ TransferIsValid(feed.transfers[n])
      <4>1. n \in transfers <=> n < at /\ TransferIsValid(feed.transfers[n])
        BY <1>7 DEF TransfersInv
      <4>2. CASE n = at
        <5>1. ~ n < at
          BY <3>2, <4>2
        <5> QED BY <3>1, <3>2, <3>3, <4>1, <4>2, <5>1
      <4>3. CASE n # at
        BY <3>1, <3>3, <4>1, <4>3
      <4> QED BY <4>2, <4>3
    <3>6. ASSUME NEW n \in transfers', NEW k \in transfers', n < k
          PROVE  ~ SameTransfer(feed.transfers[n], feed.transfers[k])
      <4>1. n \in transfers \/ (n = at /\ TransferIsValid(x))
        BY <3>1
      <4>2. k \in transfers \/ (k = at /\ TransferIsValid(x))
        BY <3>1
      <4>3. CASE n \in transfers /\ k \in transfers
        BY <1>7, <3>6, <4>3 DEF TransfersInv
      <4>4. CASE n \in transfers /\ k = at /\ TransferIsValid(x)
        BY <2>2, <4>4
      <4>5. CASE n = at
        <5>1. k \in Nat /\ (k < at \/ k = at)
          BY <1>1, <1>2, <3>2, <3>4, <4>2
        <5> QED BY <3>2, <3>6, <4>5, <5>1
      <4> QED BY <4>1, <4>2, <4>3, <4>4, <4>5
    <3> QED BY <1>1, <1>4, <1>7, <3>1, <3>5, <3>6 DEF TransfersInv
  <2> QED BY <2>1, <2>2
<1>8. CASE UNCHANGED vars
  <2>1. transfers' = transfers /\ pass' = pass /\ at' = at /\ feed' = feed
    BY <1>8 DEF vars
  <2> QED BY <1>3, <2>1 DEF TransfersInv
<1> QED BY <1>5, <1>6, <1>7, <1>8, OwnSteps

(* The exception that ends validation names the pass it came from.         *)
LEMMA RaisedIs ==
    ASSUME IsSeq(reports), NEW s, IsSeq(s), Raise(s)
    PROVE  pass' = "raised" /\ Last(reports')[4] = pass
<1> DEFINE row == <<"exception", at, 0, pass>>
<1>1. row[4] = pass
  OBVIOUS
<1> HIDE DEF row
<1>2. reports' = (reports \o s) \o <<row>> /\ pass' = "raised"
  BY DEF Raise, Report, GoTo, row
<1>3. IsSeq(reports \o s)
  BY ConcatFacts
<1>4. IsSeq(<<row>>) /\ Len(<<row>>) = 1 /\ <<row>>[1] = row
  <2>1. <<row>> \in Seq({row})
    OBVIOUS
  <2> QED BY <2>1 DEF IsSeq
<1>5. Len(reports') = Len(reports \o s) + 1 /\ reports'[Len(reports \o s) + 1] = row
  BY <1>2, <1>3, <1>4, ConcatFacts
<1> QED BY <1>1, <1>2, <1>5 DEF Last

-----------------------------------------------------------------------------
(* Whose turn is over.                                                     *)

\* The routes and the trips whose turn is over in their pass.
RouteDone(r) == pass \in AfterRoutes \/ (pass = "routes" /\ r < at)
TimesDone(t) == pass \in AfterStopTimes \/ (pass = "stop times" /\ t < at)
TripDone(t)  == pass \in AfterTrips \/ (pass = "trips" /\ \E k \in DOMAIN SortedTrips :
                                            k < at /\ SortedTrips[k] = t)

(* The passes apart, again.                                                *)
LEMMA LaterPasses ==
    /\ AfterStops = {"nearby stops", "routes", "trips", "blocks", "agencies", "stop times", "shapes", "done"}
    /\ AfterNearby = {"routes", "trips", "blocks", "agencies", "stop times", "shapes", "done"}
    /\ AfterRoutes = {"trips", "blocks", "agencies", "stop times", "shapes", "done"}
    /\ AfterTrips = {"blocks", "agencies", "stop times", "shapes", "done"}
    /\ AfterBlocks = {"agencies", "stop times", "shapes", "done"}
    /\ AfterStopTimes = {"shapes", "done"}
BY DEF AfterStopTimes, AfterBlocks, AfterTrips, AfterRoutes, AfterNearby, AfterStops

LEMMA RouteTurn ==
    ASSUME TypeInv, [Next]_vars, pass' # "raised"
    PROVE  \A r \in DOMAIN feed.routes : RouteDone(r)' <=> RouteDone(r) \/ (ValidateRoute /\ r = at)
<1>0. Moves
  BY StepMoves
<1>1. at \in Nat \ {0} /\ DOMAIN feed.routes = 1 .. Len(feed.routes) /\ Len(feed.routes) \in Nat /\ pass \in Passes
  BY FeedFacts DEF TypeInv
<1>2. \A r \in DOMAIN feed.routes : r \in Nat /\ ~ r < 1 /\ (r < at + 1 <=> r < at \/ r = at)
                                    /\ (at > Len(feed.routes) => r < at)
  BY <1>1
<1>3. CASE pass # "routes"
  <2>1. ~ ValidateRoute
    BY <1>3 DEF ValidateRoute
  <2>2. pass' \in AfterRoutes <=> pass \in AfterRoutes
    BY <1>0, <1>3, LaterPasses DEF Moves, Onward
  <2>3. pass' = "routes" => at' = 1
    BY <1>0, <1>3 DEF Moves
  <2> QED BY <1>2, <1>3, <2>1, <2>2, <2>3 DEF RouteDone
<1>4. CASE pass = "routes" /\ ValidateRoute
  <2>1. pass' = pass /\ at' = at + 1
    BY <1>4 DEF ValidateRoute, Raise, GoTo
  <2> QED BY <1>2, <1>4, <2>1, LaterPasses DEF RouteDone
<1>5. CASE pass = "routes" /\ NextPass
  <2>1. at > Len(feed.routes) /\ pass' = "trips"
    BY <1>5, LoopEnds DEF Onward
  <2> QED BY <1>2, <1>5, <2>1, LaterPasses DEF RouteDone
<1>6. CASE UNCHANGED vars
  <2>1. pass' = pass /\ at' = at
    BY <1>6 DEF vars
  <2>2. ~ ValidateRoute
    <3>1. ASSUME ValidateRoute PROVE at' = at + 1
      BY <3>1 DEF ValidateRoute, Raise, GoTo
    <3>2. at # at + 1
      BY <1>1
    <3> QED BY <2>1, <3>1, <3>2
  <2> QED BY <2>1, <2>2 DEF RouteDone
<1> QED BY <1>3, <1>4, <1>5, <1>6, OwnSteps

LEMMA TimesTurn ==
    ASSUME TypeInv, [Next]_vars, pass' # "raised"
    PROVE  \A t \in DOMAIN feed.trips : TimesDone(t)' <=> TimesDone(t) \/ (ValidateStopTimes /\ t = at)
<1>0. Moves
  BY StepMoves
<1>1. at \in Nat \ {0} /\ DOMAIN feed.trips = 1 .. Len(feed.trips) /\ Len(feed.trips) \in Nat /\ pass \in Passes
  BY FeedFacts DEF TypeInv
<1>2. \A r \in DOMAIN feed.trips : r \in Nat /\ ~ r < 1 /\ (r < at + 1 <=> r < at \/ r = at)
                                   /\ (at > Len(feed.trips) => r < at)
  BY <1>1
<1>3. CASE pass # "stop times"
  <2>1. ~ ValidateStopTimes
    BY <1>3 DEF ValidateStopTimes
  <2>2. pass' \in AfterStopTimes <=> pass \in AfterStopTimes
    BY <1>0, <1>3, LaterPasses DEF Moves, Onward
  <2>3. pass' = "stop times" => at' = 1
    BY <1>0, <1>3 DEF Moves
  <2> QED BY <1>2, <1>3, <2>1, <2>2, <2>3 DEF TimesDone
<1>4. CASE pass = "stop times" /\ ValidateStopTimes
  <2>1. pass' = pass /\ at' = at + 1
    BY <1>4 DEF ValidateStopTimes, Raise, GoTo
  <2> QED BY <1>2, <1>4, <2>1, LaterPasses DEF TimesDone
<1>5. CASE pass = "stop times" /\ NextPass
  <2>1. at > Len(feed.trips) /\ pass' = "shapes"
    BY <1>5, LoopEnds DEF Onward
  <2> QED BY <1>2, <1>5, <2>1, LaterPasses DEF TimesDone
<1>6. CASE UNCHANGED vars
  <2>1. pass' = pass /\ at' = at
    BY <1>6 DEF vars
  <2>2. ~ ValidateStopTimes
    <3>1. ASSUME ValidateStopTimes PROVE at' = at + 1
      BY <3>1 DEF ValidateStopTimes, Raise, GoTo
    <3>2. at # at + 1
      BY <1>1
    <3> QED BY <2>1, <3>1, <3>2
  <2> QED BY <2>1, <2>2 DEF TimesDone
<1> QED BY <1>3, <1>4, <1>5, <1>6, OwnSteps

LEMMA TripTurn ==
    ASSUME TypeInv, [Next]_vars, pass' # "raised"
    PROVE  \A t \in DOMAIN feed.trips :
              TripDone(t)' <=> TripDone(t) \/ (ValidateTrip /\ t = SortedTrips[at])
<1>0. Moves
  BY StepMoves
<1>1. /\ at \in Nat \ {0} /\ pass \in Passes /\ feed' = feed
      /\ SortedTrips \in Seq(DOMAIN feed.trips) /\ Len(SortedTrips) = Len(feed.trips)
      /\ \A t \in DOMAIN feed.trips : \E k \in DOMAIN SortedTrips : SortedTrips[k] = t
  <2>1. feed' = feed
    BY <1>0 DEF Moves
  <2> QED BY <2>1, TripsSorted DEF TypeInv
<1>2. SortedTrips' = SortedTrips
  BY <1>1 DEF SortedTrips, InOrder, TripBefore
<1> DEFINE n == Len(feed.trips)
<1>3. n \in Nat /\ DOMAIN SortedTrips = 1 .. n
  BY <1>1
<1>4. \A k \in DOMAIN SortedTrips : k \in Nat /\ ~ k < 1 /\ (k < at + 1 <=> k < at \/ k = at)
                                    /\ (at > n => k < at)
  <2>1. at \in Nat
    BY <1>1
  <2> HIDE DEF n
  <2> QED BY <1>3, <2>1
<1> HIDE DEF n
<1>5. CASE pass # "trips"
  <2>1. ~ ValidateTrip
    BY <1>5 DEF ValidateTrip
  <2>2. pass' \in AfterTrips <=> pass \in AfterTrips
    BY <1>0, <1>5, LaterPasses DEF Moves, Onward
  <2>3. pass' = "trips" => at' = 1
    BY <1>0, <1>5 DEF Moves
  <2> QED BY <1>2, <1>4, <1>5, <2>1, <2>2, <2>3 DEF TripDone
<1>6. CASE pass = "trips" /\ ValidateTrip
  <2>1. pass' = pass /\ at' = at + 1 /\ at <= n
    BY <1>6 DEF ValidateTrip, n
  <2>2. at \in DOMAIN SortedTrips
    BY <1>1, <1>3, <2>1
  <2>3. pass \notin AfterTrips
    BY <1>6, LaterPasses
  <2> QED BY <1>2, <1>4, <1>6, <2>1, <2>2, <2>3 DEF TripDone
<1>7. CASE pass = "trips" /\ NextPass
  <2>1. at > n /\ pass' = "blocks" /\ at' = 1
    BY <1>7, LoopEnds DEF Onward, n
  <2>2. pass' \in AfterTrips
    BY <2>1, LaterPasses
  <2>3. \A t \in DOMAIN feed.trips : TripDone(t)
    BY <1>1, <1>4, <1>7, <2>1 DEF TripDone
  <2> QED BY <2>2, <2>3 DEF TripDone
<1>8. CASE UNCHANGED vars
  <2>1. pass' = pass /\ at' = at
    BY <1>8 DEF vars
  <2>2. ~ ValidateTrip
    <3>1. ASSUME ValidateTrip PROVE at' = at + 1
      BY <3>1 DEF ValidateTrip
    <3>2. at # at + 1
      BY <1>1
    <3> QED BY <2>1, <3>1, <3>2
  <2> QED BY <1>2, <2>1, <2>2 DEF TripDone
<1> QED BY <1>5, <1>6, <1>7, <1>8, OwnSteps

-----------------------------------------------------------------------------
(* What raises.                                                            *)

WellTimed(t) ==
    LET times == feed.trips[t].times
    IN  /\ \A j, k \in DOMAIN times : times[j].seq = times[k].seq => j = k
        /\ \A k \in DOMAIN times : times[k].dist = Missing
        /\ Len(times) >= 2 => \A k \in {1, Len(times)} : times[k].arr # Missing \/ times[k].dep # Missing

\* Which feeds raise, and where: each exception has its cause, and a pass
\* that is over met no cause of one.
RaisesAreExact ==
    /\ pass = "raised" =>
          Last(reports)[4] \in {"load stops", "load routes", "load transfers", "frequencies",
                               "stops", "routes", "stop times"}
    /\ Raised("load stops") => \E i \in DOMAIN stops :
          stops[i].type = Missing \/ {stops[i].lat, stops[i].lon} \cap {Missing, Blank, Bad} # {}
    /\ Raised("load routes") => \E r \in DOMAIN feed.routes : feed.routes[r].type \in {Missing, Blank}
    /\ Raised("load transfers") =>
          \/ SecondTransfer
          \/ feed.prints /\ \E n \in DOMAIN feed.transfers : /\ HasTime(feed.transfers[n])
                                                          /\ feed.transfers[n].type # 2
    /\ feed.loaded /\ Past("load transfers") => ~SecondTransfer
    /\ feed.loaded /\ Past("load routes") =>
          \A i \in DOMAIN stops : /\ feed.stops[i].type # Missing
                                  /\ stops[i].lat >= 0 /\ stops[i].lon >= 0
    /\ feed.loaded /\ Raised("stops") => feed.children /\ \E i \in DOMAIN stops : FailsAgain(feed.stops[i])
    /\ feed.loaded /\ feed.children /\ Past("stops") => \A i \in DOMAIN stops : ~FailsAgain(feed.stops[i])
    /\ Raised("routes") => feed.children /\ \E r \in DOMAIN feed.routes : feed.routes[r].type \in {0, Missing, Blank}
    /\ feed.children /\ Past("routes") => \A r \in DOMAIN feed.routes : feed.routes[r].type # 0
    /\ Past("stop times") => \A t \in DOMAIN feed.trips : WellTimed(t)

ChecksInv ==
    /\ feed.children => \A r \in DOMAIN feed.routes : RouteDone(r) => feed.routes[r].type # 0
    /\ \A t \in DOMAIN feed.trips : TimesDone(t) => WellTimed(t)
    /\ pass = "raised" => RaisesAreExact

LEMMA NatNotNegative == \A x \in Nat : x >= 0
OBVIOUS

(* When nothing has raised, the passes that are over have looked at        *)
(* everything.                                                             *)
LEMMA NoneRaised ==
    ASSUME TypeInv, StopsInv, TransfersInv, ChecksInv, pass # "raised"
    PROVE  RaisesAreExact
<1>1. \A p : ~ Raised(p)
  BY DEF Raised
<1>2. feed.loaded /\ Past("load transfers") => ~SecondTransfer
  BY PastIs DEF TransfersInv
<1>3. DOMAIN stops = 1 .. Len(stops) /\ \A i \in DOMAIN stops : feed.stops[i] \in StopRow
  <2>1. feed.stops \in Seq(StopRow) /\ stops \in Seq(StopRow) /\ Len(stops) = Len(feed.stops)
    BY FeedFacts DEF TypeInv
  <2> QED BY <2>1
<1>4. feed.loaded /\ Past("load routes") =>
         \A i \in DOMAIN stops : /\ feed.stops[i].type # Missing
                                 /\ stops[i].lat >= 0 /\ stops[i].lon >= 0
  <2> SUFFICES ASSUME feed.loaded, Past("load routes"), NEW i \in DOMAIN stops
               PROVE  /\ feed.stops[i].type # Missing
                      /\ stops[i].lat >= 0 /\ stops[i].lon >= 0
    OBVIOUS
  <2>1. pass \in AfterLoadRoutes
    BY PastIs
  <2>2. pass \in AfterLoadStops /\ pass # "load stops"
    BY <2>1, PassSets DEF AfterLoadStops, AfterLoadRoutes, AfterTransfers
  <2>3. ~ StopRaises(feed.stops[i], TRUE)
    BY <2>2 DEF StopsInv
  <2>4. stops[i] = LoadedStop(feed, i) \/ stops[i] = ValidStop(feed, i)
    <3>1. stops[i] = StopAt(feed, pass, at, i)
      BY DEF StopsInv
    <3>2. pass \in {"load routes", "load transfers", "frequencies"} => stops[i] = LoadedStop(feed, i)
      BY <3>1, StopAtIs, ZenonT(60)
    <3>3. pass \in AfterStops => stops[i] = ValidStop(feed, i)
      BY <3>1, StopAtIs, ZenonT(60)
    <3>5. StopAt(feed, "stops", at, i) = IF i < at THEN ValidStop(feed, i) ELSE LoadedStop(feed, i)
      BY StopAtIs, ZenonT(60)
    <3>4. pass = "stops" => stops[i] = LoadedStop(feed, i) \/ stops[i] = ValidStop(feed, i)
      BY <3>1, <3>5
    <3> QED BY <2>2, <3>2, <3>3, <3>4, PassSets
  <2>5. feed.children /\ stops[i] # LoadedStop(feed, i) => ~ StopRaises(LoadedStop(feed, i), FALSE)
    <3> SUFFICES ASSUME feed.children, StopRaises(LoadedStop(feed, i), FALSE)
                 PROVE  stops[i] = LoadedStop(feed, i)
      OBVIOUS
    <3>1. ~ (pass = "stops" /\ i < at) /\ pass \notin AfterStops
      BY DEF StopsInv
    <3>2. stops[i] = StopAt(feed, pass, at, i)
      BY DEF StopsInv
    <3>3. pass \in {"load routes", "load transfers", "frequencies"} => stops[i] = LoadedStop(feed, i)
      BY <3>2, StopAtIs, ZenonT(60)
    <3>5. StopAt(feed, "stops", at, i) = IF i < at THEN ValidStop(feed, i) ELSE LoadedStop(feed, i)
      BY StopAtIs, ZenonT(60)
    <3>4. pass = "stops" => stops[i] = LoadedStop(feed, i)
      BY <3>1, <3>2, <3>5
    <3> QED BY <2>2, <3>1, <3>3, <3>4, PassSets
  <2> DEFINE f == feed.stops[i]
             l == LoadedStop(feed, i)
  <2>6. l = StopValidate(f, TRUE) /\ f \in StopRow
    BY <1>3 DEF LoadedStop
  <2> HIDE DEF f, l
  <2>7. /\ f.type # Missing /\ l.lat = Coordinate(f.lat, TRUE) /\ l.lon = Coordinate(f.lon, TRUE)
        /\ l.lat # Missing /\ l.lon # Missing
    BY <2>3, <2>6 DEF StopRaises, StopValidate, StopRow, f
  <2>8. l.lat \in Nat /\ l.lon \in Nat
    BY <2>6, <2>7 DEF Coordinate, IsEmpty, StopRow, Fields, Missing, Blank, Bad
  <2>9. stops[i] = l => stops[i].lat \in Nat /\ stops[i].lon \in Nat
    BY <2>8
  <2>10. ASSUME stops[i] # l PROVE stops[i].lat \in Nat /\ stops[i].lon \in Nat
    <3>1. stops[i] = StopValidate(l, FALSE) /\ ~ StopRaises(l, FALSE)
      BY <2>4, <2>5, <2>10 DEF ValidStop, l
    <3>2. stops[i].lat = Coordinate(l.lat, FALSE) /\ stops[i].lon = Coordinate(l.lon, FALSE)
      <4>1. l \in StopRow
        BY <2>6 DEF StopRow, StopValidate, Coordinate, LocationType, Fields, Missing, Blank, Bad
      <4> QED BY <3>1, <4>1 DEF StopValidate, StopRow
    <3>3. stops[i].lat \in Nat /\ stops[i].lon \in Nat
      BY <2>8, <3>1, <3>2 DEF Coordinate, IsEmpty, StopRaises, Missing
    <3> QED BY <3>3
  <2>11. stops[i].lat \in Nat /\ stops[i].lon \in Nat
    BY <2>9, <2>10
  <2>12. stops[i].lat >= 0 /\ stops[i].lon >= 0
    BY <2>11, NatNotNegative, Zenon
  <2> QED BY <2>7, <2>12 DEF f
<1>5. feed.loaded /\ feed.children /\ Past("stops") => \A i \in DOMAIN stops : ~FailsAgain(feed.stops[i])
  <2> SUFFICES ASSUME feed.loaded, feed.children, Past("stops"), NEW i \in DOMAIN stops
               PROVE  ~FailsAgain(feed.stops[i])
    OBVIOUS
  <2>1. pass \in AfterStops /\ pass \in AfterLoadStops
    BY PastIs, PassSets
  <2> DEFINE f == feed.stops[i]
             l == LoadedStop(feed, i)
  <2>2. ~ StopRaises(f, TRUE) /\ ~ StopRaises(l, FALSE)
    BY <2>1 DEF StopsInv
  <2>3. l = StopValidate(f, TRUE) /\ f \in StopRow
    BY <1>3 DEF LoadedStop
  <2> HIDE DEF f, l
  <2>4. /\ l.lat = Coordinate(f.lat, TRUE) /\ l.lon = Coordinate(f.lon, TRUE) /\ l.type = LocationType(f.type)
    BY <2>3 DEF StopValidate, StopRow
  <2>7. LocationType(Bad) = Missing
    BY DEF LocationType, Missing, Blank, Bad
  <2>8. f.type # Missing /\ l.type # Missing
    BY <2>2 DEF StopRaises
  <2>5. f.type \notin {Missing, Bad}
    BY <2>4, <2>7, <2>8
  <2>6. f.lat \notin {Missing, 0} /\ f.lon \notin {Missing, 0}
    BY <2>2, <2>4 DEF StopRaises, Coordinate, IsEmpty, Missing, Blank, Bad
  <2> QED BY <2>5, <2>6 DEF FailsAgain, f
<1>6. feed.children /\ Past("routes") => \A r \in DOMAIN feed.routes : feed.routes[r].type # 0
  BY PastIs DEF ChecksInv, RouteDone
<1>7. Past("stop times") => \A t \in DOMAIN feed.trips : WellTimed(t)
  BY PastIs DEF ChecksInv, TimesDone
<1> QED BY <1>1, <1>2, <1>4, <1>5, <1>6, <1>7 DEF RaisesAreExact

LEMMA WellTimedIs ==
    ASSUME TypeInv, NEW t \in DOMAIN feed.trips,
           ~ SequenceRaises(t), ~ Timepoints(t).raised, ~ TimesRaise(t)
    PROVE  WellTimed(t)
<1> DEFINE times == feed.trips[t].times
<1>1. \A k \in DOMAIN times : times[k].dist = Missing
  BY TimepointsFacts
<1>2. \A j, k \in DOMAIN times : times[j].seq = times[k].seq => j = k
  BY Zenon DEF SequenceRaises
<1>3. Len(times) >= 2 => Timed(times[1]) /\ Timed(times[Len(times)])
  BY Zenon DEF TimesRaise, StartTimeRaises, EndTimeRaises
<1>4. Len(times) >= 2 => \A k \in {1, Len(times)} : times[k].arr # Missing \/ times[k].dep # Missing
  BY <1>3 DEF Timed
<1> QED BY <1>1, <1>2, <1>4, Zenon DEF WellTimed

\* What RaisesAreExact says of an exception in pass p.
RaisedFor(p) ==
    /\ p \in {"load stops", "load routes", "load transfers", "frequencies", "stops", "routes", "stop times"}
    /\ p = "load stops" => \E i \in DOMAIN stops :
          stops[i].type = Missing \/ {stops[i].lat, stops[i].lon} \cap {Missing, Blank, Bad} # {}
    /\ p = "load routes" => \E r \in DOMAIN feed.routes : feed.routes[r].type \in {Missing, Blank}
    /\ p = "load transfers" =>
          \/ SecondTransfer
          \/ feed.prints /\ \E n \in DOMAIN feed.transfers : /\ HasTime(feed.transfers[n])
                                                          /\ feed.transfers[n].type # 2
    /\ feed.loaded /\ p = "stops" => feed.children /\ \E i \in DOMAIN stops : FailsAgain(feed.stops[i])
    /\ p = "routes" => feed.children /\ \E r \in DOMAIN feed.routes : feed.routes[r].type \in {0, Missing, Blank}

(* After an exception only the clause of its pass says anything.           *)
LEMMA RaisedNext ==
    ASSUME pass' = "raised", feed' = feed, stops' = stops, NEW p, Last(reports')[4] = p, RaisedFor(p)
    PROVE  RaisesAreExact'
<1>1. ASSUME NEW q PROVE ~ Past(q)'
  BY PassNames, Zenon DEF Past
<1>2. \A q : Raised(q)' <=> q = p
  BY DEF Raised
<1>3. SecondTransfer' <=> SecondTransfer
  BY DEF SecondTransfer
<1>4. /\ Raised("load stops")' => \E i \in DOMAIN stops' :
            stops'[i].type = Missing \/ {stops'[i].lat, stops'[i].lon} \cap {Missing, Blank, Bad} # {}
      /\ Raised("load routes")' => \E r \in DOMAIN feed'.routes : feed'.routes[r].type \in {Missing, Blank}
      /\ Raised("load transfers")' =>
            \/ SecondTransfer'
            \/ feed'.prints /\ \E n \in DOMAIN feed'.transfers : /\ HasTime(feed'.transfers[n])
                                                             /\ feed'.transfers[n].type # 2
  BY <1>2, <1>3 DEF RaisedFor
<1>5. /\ feed'.loaded /\ Raised("stops")' =>
            feed'.children /\ \E i \in DOMAIN stops' : FailsAgain(feed'.stops[i])
      /\ Raised("routes")' =>
            feed'.children /\ \E r \in DOMAIN feed'.routes : feed'.routes[r].type \in {0, Missing, Blank}
  BY <1>2 DEF RaisedFor
<1>6. /\ ~ Past("load transfers")' /\ ~ Past("load routes")' /\ ~ Past("stops")'
      /\ ~ Past("routes")' /\ ~ Past("stop times")'
  BY <1>1
<1>7. Last(reports')[4] \in {"load stops", "load routes", "load transfers", "frequencies",
                               "stops", "routes", "stop times"}
  BY DEF RaisedFor
<1> QED BY <1>4, <1>5, <1>6, <1>7 DEF RaisesAreExact

(* A step that raises, seen from the state before it.                      *)
LEMMA RaisingStep ==
    ASSUME TypeInv, StopsInv, TransfersInv, [Next]_vars, pass # "raised", pass' = "raised"
    PROVE  stops' = stops /\ Last(reports')[4] = pass /\ RaisedFor(pass)
<1>1. /\ pass \in Passes /\ IsSeq(reports) /\ at \in Nat \ {0} /\ stops \in Seq(StopRow)
      /\ feed.stops \in Seq(StopRow) /\ Len(stops) = Len(feed.stops)
  BY FeedFacts DEF TypeInv
<1>2. ~ UNCHANGED vars
  BY DEF vars
<1>3. ~ NextPass
  BY LoopEnds
<1>4. ASSUME NEW s, IsSeq(s), Raise(s) PROVE Last(reports')[4] = pass
  BY <1>1, <1>4, RaisedIs
<1>5. IsSeq(<<>>)
  BY EmptyLines DEF Lines
<1>6. CASE pass = "load stops"
  <2>1. LoadStop
    BY <1>2, <1>3, <1>6, OwnSteps
  <2>2. StopRaises(stops[at], TRUE) /\ Raise(<<>>) /\ stops' = stops
    BY <1>6, <2>1 DEF LoadStop
  <2>3. at \in DOMAIN stops
    <3>1. at <= Len(stops)
      BY <2>1 DEF LoadStop
    <3> QED BY <1>1, <3>1
  <2>4. stops[at].type = Missing \/ {stops[at].lat, stops[at].lon} \cap {Missing, Blank, Bad} # {}
    BY <2>2 DEF StopRaises, Coordinate, IsEmpty
  <2> QED BY <1>4, <1>5, <1>6, <2>2, <2>3, <2>4 DEF RaisedFor
<1>7. CASE pass = "load routes"
  <2>1. LoadRoute
    BY <1>2, <1>3, <1>7, OwnSteps
  <2>2. RouteRaises(feed.routes[at], TRUE) /\ Raise(<<>>) /\ stops' = stops
    BY <1>7, <2>1 DEF LoadRoute
  <2>3. at \in DOMAIN feed.routes
    <3>1. at <= Len(feed.routes)
      BY <2>1 DEF LoadRoute
    <3>2. feed.routes \in Seq(RouteRow)
      BY FeedFacts
    <3> QED BY <1>1, <3>1, <3>2
  <2>4. feed.routes[at].type \in {Missing, Blank}
    BY <2>2 DEF RouteRaises, IsEmpty
  <2> QED BY <1>4, <1>5, <1>7, <2>2, <2>3, <2>4 DEF RaisedFor
<1>8. CASE pass = "load transfers"
  <2>1. LoadTransfer
    BY <1>2, <1>3, <1>8, OwnSteps
  <2> DEFINE x == feed.transfers[at]
             raises == \/ TimeReportRaises(x)
                       \/ TransferIsValid(x) /\ \E n \in transfers : SameTransfer(feed.transfers[n], x)
  <2>2. raises /\ Raise(<<>>) /\ stops' = stops
    BY <1>8, <2>1 DEF LoadTransfer
  <2>3. at \in DOMAIN feed.transfers
    <3>1. at <= Len(feed.transfers)
      BY <2>1 DEF LoadTransfer
    <3>2. feed.transfers \in Seq(TransferRow)
      BY FeedFacts
    <3> QED BY <1>1, <3>1, <3>2
  <2>4. CASE TimeReportRaises(x)
    <3>1. feed.prints /\ HasTime(x) /\ x.type # 2
      <4> HIDE DEF x
      <4>1. feed.prints /\ HasTime(x) /\ TransferType(x) # 2
        BY <2>4, Zenon DEF TimeReportRaises
      <4>2. x.type # 2
        BY <4>1 DEF TransferType, Missing, Blank
      <4> QED BY <4>1, <4>2
    <3> QED BY <1>4, <1>5, <1>8, <2>2, <2>3, <3>1 DEF RaisedFor
  <2>5. CASE TransferIsValid(x) /\ \E n \in transfers : SameTransfer(feed.transfers[n], x)
    <3>1. PICK n \in transfers : SameTransfer(feed.transfers[n], x)
      BY <2>5
    <3>2. n \in DOMAIN feed.transfers
      BY DEF TypeInv
    <3>3. n < at /\ TransferIsValid(feed.transfers[n])
      BY <1>8, <3>2 DEF TransfersInv
    <3>4. SecondTransfer
      BY <2>3, <2>5, <3>1, <3>2, <3>3 DEF SecondTransfer
    <3> QED BY <1>4, <1>5, <1>8, <2>2, <3>4 DEF RaisedFor
  <2> QED BY <2>2, <2>4, <2>5
<1>9. CASE pass = "frequencies"
  <2>1. PICK t \in DOMAIN headways : \/ \E s, e \in Times, h \in Headways : AddFrequency(t, s, e, h)
                                     \/ ClearFrequencies(t)
    BY <1>2, <1>3, <1>9, OwnSteps
  <2>2. ~ ClearFrequencies(t)
    BY <1>9 DEF ClearFrequencies
  <2>3. PICK s \in Times, e \in Times, h \in Headways : AddFrequency(t, s, e, h)
    BY <2>1, <2>2
  <2>4. Raise(<<>>) /\ stops' = stops
    BY <1>9, <2>3 DEF AddFrequency
  <2> QED BY <1>4, <1>5, <1>9, <2>4 DEF RaisedFor
<1>10. CASE pass = "stops"
  <2>1. ValidateStop
    BY <1>2, <1>3, <1>10, OwnSteps
  <2>2. feed.children /\ StopRaises(stops[at], FALSE) /\ Raise(<<>>) /\ stops' = stops
    BY <1>10, <2>1 DEF ValidateStop
  <2>3. at \in DOMAIN stops /\ feed.stops[at] \in StopRow
    <3>1. at <= Len(stops)
      BY <2>1 DEF ValidateStop
    <3> QED BY <1>1, <3>1
  <2>4. ASSUME feed.loaded PROVE FailsAgain(feed.stops[at])
    <3> DEFINE f == feed.stops[at]
               l == LoadedStop(feed, at)
    <3>1. l = StopValidate(f, TRUE)
      BY <2>4 DEF LoadedStop
    <3>2. stops[at] = l
      <4>1. stops[at] = StopAt(feed, "stops", at, at)
        BY <1>10, <2>3 DEF StopsInv
      <4>2. StopAt(feed, "stops", at, at) = IF at < at THEN ValidStop(feed, at) ELSE LoadedStop(feed, at)
        BY StopAtIs, ZenonT(60)
      <4>3. ~ at < at
        BY <1>1
      <4> QED BY <4>1, <4>2, <4>3
    <3>3. ~ StopRaises(f, TRUE)
      BY <1>10, <2>3, <2>4, PassSets DEF StopsInv
    <3> HIDE DEF f, l
    <3>4. l.lat = Coordinate(f.lat, TRUE) /\ l.lon = Coordinate(f.lon, TRUE) /\ l.type = LocationType(f.type)
      BY <2>3, <3>1 DEF StopValidate, StopRow, f
    <3>5. StopRaises(l, FALSE)
      BY <2>2, <3>2
    <3>6. l.type = Missing => f.type \in {Missing, Bad}
      BY <3>4 DEF LocationType, Missing, Blank, Bad
    <3>7. Coordinate(l.lat, FALSE) = Missing => f.lat \in {Missing, 0}
      BY <3>3, <3>4 DEF StopRaises, Coordinate, IsEmpty, Missing, Blank, Bad
    <3>8. Coordinate(l.lon, FALSE) = Missing => f.lon \in {Missing, 0}
      BY <3>3, <3>4 DEF StopRaises, Coordinate, IsEmpty, Missing, Blank, Bad
    <3>9. FailsAgain(f)
      BY <3>5, <3>6, <3>7, <3>8 DEF FailsAgain, StopRaises
    <3> QED BY <3>9 DEF f
  <2> QED BY <1>4, <1>5, <1>10, <2>2, <2>3, <2>4 DEF RaisedFor
<1>11. CASE pass = "routes"
  <2>1. ValidateRoute
    BY <1>2, <1>3, <1>11, OwnSteps
  <2>2. feed.children /\ RouteRaises(feed.routes[at], FALSE) /\ Raise(<<>>) /\ stops' = stops
    BY <1>11, <2>1 DEF ValidateRoute
  <2>3. at \in DOMAIN feed.routes
    <3>1. at <= Len(feed.routes)
      BY <2>1 DEF ValidateRoute
    <3>2. feed.routes \in Seq(RouteRow)
      BY FeedFacts
    <3> QED BY <1>1, <3>1, <3>2
  <2>4. feed.routes[at].type \in {0, Missing, Blank}
    BY <2>2 DEF RouteRaises, IsEmpty
  <2> QED BY <1>4, <1>5, <1>11, <2>2, <2>3, <2>4 DEF RaisedFor
<1>12. CASE pass = "stop times"
  <2>1. ValidateStopTimes
    BY <1>2, <1>3, <1>12, OwnSteps
  <2> DEFINE found == Timepoints(at).found
             rest  == FrequencyReports(at) \o CountReports(at)
  <2>2. (Raise(<<>>) \/ Raise(found) \/ Raise(found \o rest)) /\ stops' = stops
    BY <1>12, <2>1 DEF ValidateStopTimes
  <2>3. at \in DOMAIN feed.trips
    <3>1. at <= Len(feed.trips)
      BY <2>1 DEF ValidateStopTimes
    <3>2. feed.trips \in Seq(TripRow)
      BY FeedFacts
    <3> QED BY <1>1, <3>1, <3>2
  <2>4. Lines(found, TimeKinds) /\ Lines(rest, TimeKinds)
    BY <2>3, TimeLines, ConcatLines
  <2> HIDE DEF found, rest
  <2>5. IsSeq(found) /\ IsSeq(found \o rest)
    BY <2>4, ConcatLines DEF Lines
  <2> QED BY <1>4, <1>5, <1>12, <2>2, <2>5 DEF RaisedFor
<1>13. pass \notin {"nearby stops", "trips", "blocks", "agencies", "shapes", "done"}
  <2>1. ~ CompareStops /\ ~ NextStop /\ ~ ValidateTrip /\ ~ NextInterval
    BY DEF CompareStops, NextStop, ValidateTrip, NextInterval
  <2>2. ~ CompareTrips /\ ~ ValidateAgencies /\ ~ ValidateUnusedShapes
    BY DEF CompareTrips, ValidateAgencies, ValidateUnusedShapes, GoTo
  <2> QED BY <1>2, <1>3, <2>1, <2>2, OwnSteps
<1>14. pass \in {"load stops", "load routes", "load transfers", "frequencies", "stops", "routes", "stop times"}
  BY <1>1, <1>13, PassSets, LaterPasses
<1> QED BY <1>6, <1>7, <1>8, <1>9, <1>10, <1>11, <1>12, <1>14

LEMMA ChecksStep ==
    ASSUME TypeInv, StopsInv, TransfersInv, ChecksInv, [Next]_vars
    PROVE  ChecksInv'
<1>0. Moves /\ TypeInv'
  BY StepMoves
<1>1. feed' = feed /\ pass \in Passes /\ IsSeq(reports)
  BY <1>0 DEF Moves, TypeInv
<1>2. \A t : WellTimed(t)' <=> WellTimed(t)
  BY <1>1 DEF WellTimed
<1>3. CASE pass' # "raised"
  <2>1. feed.children => \A r \in DOMAIN feed.routes : RouteDone(r)' => feed.routes[r].type # 0
    <3> SUFFICES ASSUME feed.children, NEW r \in DOMAIN feed.routes, RouteDone(r)'
                 PROVE  feed.routes[r].type # 0
      OBVIOUS
    <3>1. CASE RouteDone(r)
      BY <3>1 DEF ChecksInv
    <3>2. CASE ValidateRoute /\ r = at
      <4>1. ~ RouteRaises(feed.routes[at], FALSE)
        BY <1>3, <3>2 DEF ValidateRoute, Raise, GoTo
      <4> QED BY <3>2, <4>1 DEF RouteRaises, IsEmpty
    <3> QED BY <1>3, <3>1, <3>2, RouteTurn
  <2>2. ASSUME NEW t \in DOMAIN feed.trips, TimesDone(t)'
        PROVE  WellTimed(t)
    <3>1. CASE TimesDone(t)
      BY <3>1 DEF ChecksInv
    <3>2. CASE ValidateStopTimes /\ t = at
      <4>1. ~ SequenceRaises(at) /\ ~ Timepoints(at).raised /\ ~ TimesRaise(at)
        BY <1>3, <3>2 DEF ValidateStopTimes, Raise, GoTo
      <4> QED BY <3>2, <4>1, WellTimedIs
    <3> QED BY <1>3, <2>2, <3>1, <3>2, TimesTurn
  <2> QED BY <1>1, <1>2, <1>3, <2>1, <2>2 DEF ChecksInv
<1>4. CASE pass' = "raised"
  <2>1. \A r : ~ RouteDone(r)' /\ ~ TimesDone(r)'
    BY <1>4, LaterPasses DEF RouteDone, TimesDone
  <2>2. RaisesAreExact'
    <3>1. CASE pass = "raised"
      <4>1. UNCHANGED vars
        BY <3>1, OwnSteps
      <4>2. /\ stops' = stops /\ pass' = pass /\ reports' = reports
        BY <4>1 DEF vars
      <4>3. PICK p : p = Last(reports)[4]
        OBVIOUS
      <4>4. RaisesAreExact /\ \A q : Raised(q) <=> q = p
        BY <3>1, <4>3 DEF ChecksInv, Raised
      <4>5. RaisedFor(p)
        <5>1. p \in {"load stops", "load routes", "load transfers", "frequencies",
                     "stops", "routes", "stop times"}
          BY <3>1, <4>3, <4>4 DEF RaisesAreExact
        <5> QED BY <4>4, <5>1, Zenon DEF RaisesAreExact, RaisedFor
      <4>6. Last(reports')[4] = p
        BY <4>2, <4>3
      <4> QED BY <1>1, <1>4, <4>2, <4>5, <4>6, RaisedNext
    <3>2. CASE pass # "raised"
      <4>1. PICK p : p = pass
        OBVIOUS
      <4>2. stops' = stops /\ Last(reports')[4] = p /\ RaisedFor(p)
        BY <1>4, <3>2, <4>1, RaisingStep
      <4> QED BY <1>1, <1>4, <4>2, RaisedNext
    <3> QED BY <3>1, <3>2
  <2> QED BY <1>4, <2>1, <2>2 DEF ChecksInv
<1> QED BY <1>3, <1>4

(* What holds before the first step.                                       *)
LEMMA ChecksInit ==
    ASSUME Init
    PROVE  StopsInv /\ TransfersInv /\ ChecksInv
<1>1. /\ TypeInv /\ feed \in Feeds /\ stops = feed.stops /\ transfers = {} /\ at = 1
      /\ pass = IF feed.loaded THEN "load stops" ELSE "frequencies"
  BY TypeInit DEF Init
<1>2. CASE feed.loaded
  <2>1. pass = "load stops"
    BY <1>1, <1>2
  <2>2. \A i \in DOMAIN stops : ~ (i < at)
    <3>1. stops \in Seq(StopRow) /\ at = 1
      BY <1>1 DEF TypeInv
    <3>2. \A i \in DOMAIN stops : i \in Nat /\ i >= 1
      BY <3>1
    <3>3. \A i \in Nat : i >= 1 => ~ (i < 1)
      OBVIOUS
    <3> QED BY <3>1, <3>2, <3>3
  <2>3. \A i \in DOMAIN stops : stops[i] = StopAt(feed, pass, at, i)
    <3> SUFFICES ASSUME NEW i \in DOMAIN stops PROVE stops[i] = StopAt(feed, pass, at, i)
      OBVIOUS
    <3>1. StopAt(feed, "load stops", at, i) = IF i < at THEN LoadedStop(feed, i) ELSE feed.stops[i]
      BY StopAtIs, ZenonT(60)
    <3> QED BY <1>1, <2>1, <2>2, <3>1
  <2>4. StopsInv
    BY <1>2, <2>1, <2>2, <2>3, PassSets DEF StopsInv
  <2>5. TransfersInv
    <3>1. pass \notin AfterTransfers
      BY <2>1, PassSets DEF AfterTransfers
    <3> QED BY <1>1, <2>1, <3>1 DEF TransfersInv
  <2>6. ChecksInv
    BY <2>1, LaterPasses DEF ChecksInv, RouteDone, TimesDone
  <2> QED BY <2>4, <2>5, <2>6
<1>3. CASE ~ feed.loaded
  <2>1. pass = "frequencies"
    BY <1>1, <1>3
  <2>2. \A i \in DOMAIN stops : stops[i] = StopAt(feed, pass, at, i)
    <3> SUFFICES ASSUME NEW i \in DOMAIN stops PROVE stops[i] = StopAt(feed, pass, at, i)
      OBVIOUS
    <3>1. StopAt(feed, "frequencies", at, i) = LoadedStop(feed, i)
      BY StopAtIs, ZenonT(60)
    <3> QED BY <1>1, <1>3, <2>1, <3>1 DEF LoadedStop
  <2>3. StopsInv
    BY <1>3, <2>1, <2>2, PassSets DEF StopsInv
  <2>4. TransfersInv
    BY <1>1, <1>3, <2>1, PassSets DEF TransfersInv
  <2>5. ChecksInv
    BY <2>1, LaterPasses DEF ChecksInv, RouteDone, TimesDone
  <2> QED BY <2>3, <2>4, <2>5
<1> QED BY <1>2, <1>3

LEMMA ChecksAlways == Spec => [](TypeInv /\ StopsInv /\ TransfersInv /\ ChecksInv)
<1> DEFINE Inv == TypeInv /\ StopsInv /\ TransfersInv /\ ChecksInv
<1>1. Init => Inv
  BY TypeInit, ChecksInit
<1>2. Inv /\ [Next]_vars => Inv'
  BY StepMoves, StopsStep, TransfersStep, ChecksStep
<1> QED BY <1>1, <1>2, PTL DEF Spec

(* Nothing that validation does takes its state out of TypeInv: a          *)
(* validated stop is still a row of the table, every accepted frequency is *)
(* a period, and stop_types holds routes of the two types only.            *)
THEOREM TypeCorrect == Spec => []TypeInv
BY ChecksAlways, PTL

(* What a step may never do: no report is ever changed or taken back, a    *)
(* pass makes its own kinds of reports only, gives way to the pass that    *)
(* Schedule.validate calls after it or to an exception, and writes no      *)
(* table of another pass.                                                  *)
THEOREM PassesStayApart == Spec => [][Moves]_vars
<1>1. TypeInv /\ [Next]_vars => Moves
  BY StepMoves
<1> QED BY <1>1, TypeCorrect, PTL DEF Spec

(* What the code as it is raises for, in both directions: an exception has  *)
(* its cause, and a feed that has a cause does not get past its pass.       *)
THEOREM RaisesExact == Spec => []RaisesAreExact
<1>1. TypeInv /\ StopsInv /\ TransfersInv /\ ChecksInv => RaisesAreExact
  BY NoneRaised DEF ChecksInv
<1> QED BY <1>1, ChecksAlways, PTL

(* Loading and validating end with an exception only in the passes and for *)
(* the feeds ExceptionsAreExplained names: a stop without coordinates or a *)
(* type column, a route without a type, a second transfer, a coordinate or *)
(* a route type 0 in a feed that is validated again with its children.     *)
THEOREM ExceptionsExplained == Spec => []ExceptionsAreExplained
<1>1. RaisesAreExact => ExceptionsAreExplained
  BY Zenon DEF RaisesAreExact, ExceptionsAreExplained
<1> QED BY <1>1, RaisesExact, PTL

-----------------------------------------------------------------------------
(* The reports of one kind.                                                *)

\* The lines of one kind in the list r.
Said(r, kind) == {r[k] : k \in {k \in DOMAIN r : r[k][1] = kind}}

LEMMA NothingSaid ==
    ASSUME NEW K, NEW kind, kind \notin K, NEW s, Lines(s, K)
    PROVE  Said(s, kind) = {}
BY DEF Lines, Said

LEMMA ReportSaid ==
    ASSUME NEW kind, NEW a, NEW b, NEW c
    PROVE  Said(Report(kind, a, b, c), kind) = {<<kind, a, b, c>>}
<1> DEFINE row == <<kind, a, b, c>>
<1>1. row[1] = kind
  OBVIOUS
<1> HIDE DEF row
<1>2. DOMAIN <<row>> = {1} /\ <<row>>[1] = row
  OBVIOUS
<1>3. Said(<<row>>, kind) = {row}
  BY <1>1, <1>2 DEF Said
<1> QED BY <1>3 DEF row, Report

LEMMA ConcatSaid ==
    ASSUME NEW r, NEW s, IsSeq(r), IsSeq(s), NEW kind
    PROVE  Said(r \o s, kind) = Said(r, kind) \cup Said(s, kind)
<1>1. /\ Len(r) \in Nat /\ Len(s) \in Nat /\ DOMAIN r = 1 .. Len(r) /\ DOMAIN s = 1 .. Len(s)
      /\ DOMAIN (r \o s) = 1 .. Len(r) + Len(s)
  BY SeqFacts, ConcatFacts
<1>2. ASSUME NEW x \in Said(r \o s, kind) PROVE x \in Said(r, kind) \cup Said(s, kind)
  <2>1. PICK k \in DOMAIN (r \o s) : (r \o s)[k] = x /\ x[1] = kind
    BY DEF Said
  <2>2. CASE k <= Len(r)
    <3>1. k \in DOMAIN r
      BY <1>1, <2>1, <2>2
    <3>2. r[k] = x
      BY <1>1, <2>1, <3>1, ConcatFacts
    <3> QED BY <2>1, <3>1, <3>2 DEF Said
  <2>3. CASE k > Len(r)
    <3>1. k - Len(r) \in DOMAIN s /\ k = Len(r) + (k - Len(r))
      BY <1>1, <2>1, <2>3
    <3>2. s[k - Len(r)] = x
      BY <1>1, <2>1, <3>1, ConcatFacts
    <3> QED BY <2>1, <3>1, <3>2 DEF Said
  <2> QED BY <1>1, <2>2, <2>3
<1>3. ASSUME NEW x \in Said(r, kind) PROVE x \in Said(r \o s, kind)
  <2>1. PICK k \in DOMAIN r : r[k] = x /\ x[1] = kind
    BY DEF Said
  <2>2. k \in DOMAIN (r \o s)
    BY <1>1, <2>1
  <2>3. (r \o s)[k] = x
    BY <1>1, <2>1, ConcatFacts
  <2> QED BY <2>1, <2>2, <2>3 DEF Said
<1>4. ASSUME NEW x \in Said(s, kind) PROVE x \in Said(r \o s, kind)
  <2>1. PICK k \in DOMAIN s : s[k] = x /\ x[1] = kind
    BY DEF Said
  <2>2. Len(r) + k \in DOMAIN (r \o s)
    BY <1>1, <2>1
  <2>3. (r \o s)[Len(r) + k] = x
    BY <1>1, <2>1, ConcatFacts
  <2> QED BY <2>1, <2>2, <2>3 DEF Said
<1> QED BY <1>2, <1>3, <1>4

LEMMA GrowsSaid ==
    ASSUME NEW K, NEW kind, kind \notin K, NEW r, NEW u, Grows(r, u, K)
    PROVE  Said(u, kind) = Said(r, kind)
<1>1. ASSUME NEW k \in DOMAIN u, u[k][1] = kind PROVE k \in DOMAIN r /\ u[k] = r[k]
  <2>1. k <= Len(r)
    BY <1>1 DEF Grows
  <2> QED BY <2>1 DEF Grows
<1>2. ASSUME NEW k \in DOMAIN r PROVE k \in DOMAIN u /\ u[k] = r[k]
  BY DEF Grows
<1> QED BY <1>1, <1>2 DEF Said

(* Only its own pass reports a kind.                                       *)
LEMMA OwnKinds ==
    /\ \A p \in Passes \ {"nearby stops"} : NearbyKinds \cap Kinds(p) = {}
    /\ \A p \in Passes \ {"routes"} : "same_name" \notin Kinds(p)
    /\ \A p \in Passes \ {"trips"} : "multiple_route_types" \notin Kinds(p) /\ "duplicate_trip" \notin Kinds(p)
    /\ \A p \in Passes \ {"blocks"} : "overlapping_trips" \notin Kinds(p)
    /\ \A p \in Passes \ {"stop times"} : "overlapping_headways" \notin Kinds(p)
BY DEF Kinds, NearbyKinds, TimeKinds, OtherKinds

-----------------------------------------------------------------------------
(* Frequencies.                                                            *)

FrequencyInv ==
    pass # "raised" => \A line :
        line \in Said(reports, "overlapping_headways") <=>
            \E t \in DOMAIN headways : TimesDone(t) /\ \E p \in OverlappingPairs(t) :
                line = <<"overlapping_headways", t, p[1], p[2]>>

LEMMA FrequencyStep ==
    ASSUME TypeInv, FrequencyInv, [Next]_vars
    PROVE  FrequencyInv'
<1> SUFFICES ASSUME pass' # "raised", NEW line
             PROVE  line \in Said(reports', "overlapping_headways") <=>
                        \E t \in DOMAIN headways' : TimesDone(t)' /\ \E p \in OverlappingPairs(t)' :
                            line = <<"overlapping_headways", t, p[1], p[2]>>
  BY DEF FrequencyInv
<1>0. Moves
  BY StepMoves
<1>1. pass \in Passes /\ DOMAIN headways = DOMAIN feed.trips /\ IsSeq(reports)
  BY DEF TypeInv
<1>2. pass # "raised"
  <2>1. pass = "raised" => UNCHANGED vars
    BY OwnSteps
  <2> QED BY <2>1 DEF vars
<1>3. CASE pass = "frequencies"
  <2>1. Said(reports', "overlapping_headways") = Said(reports, "overlapping_headways")
    BY <1>0, <1>1, <1>3, GrowsSaid, OwnKinds DEF Moves
  <2>2. \A t : ~ TimesDone(t)
    BY <1>3, LaterPasses DEF TimesDone
  <2>3. pass' \in {"frequencies", "stops"}
    BY <1>0, <1>3 DEF Moves, Onward
  <2>4. \A t : ~ TimesDone(t)'
    BY <2>3, LaterPasses DEF TimesDone
  <2> QED BY <1>2, <2>1, <2>2, <2>4 DEF FrequencyInv
<1>4. ASSUME pass # "frequencies"
      PROVE  headways' = headways /\ \A t : OverlappingPairs(t)' = OverlappingPairs(t)
  BY <1>0, <1>4 DEF Moves, OverlappingPairs
<1>5. CASE pass # "frequencies" /\ ~ ValidateStopTimes
  <2>1. Said(reports', "overlapping_headways") = Said(reports, "overlapping_headways")
    <3>1. CASE pass # "stop times"
      BY <1>0, <1>1, <3>1, GrowsSaid, OwnKinds DEF Moves
    <3>2. CASE pass = "stop times"
      <4>1. NextPass \/ UNCHANGED vars
        BY <1>5, <3>2, OwnSteps
      <4>2. reports' = reports
        BY <4>1 DEF NextPass, vars
      <4> QED BY <4>2
    <3> QED BY <3>1, <3>2
  <2>2. \A t \in DOMAIN headways : TimesDone(t)' <=> TimesDone(t)
    BY <1>1, <1>5, TimesTurn
  <2> QED BY <1>2, <1>4, <1>5, <2>1, <2>2 DEF FrequencyInv
<1>6. CASE pass # "frequencies" /\ ValidateStopTimes
  <2> DEFINE found == Timepoints(at).found
             K == {"too_fast", "timetravel",
                   "no_stop_times", "frequencies_without_stops", "one_stop"}
  <2>1. at \in DOMAIN feed.trips
    <3>1. at <= Len(feed.trips)
      BY <1>6 DEF ValidateStopTimes
    <3>2. at \in Nat \ {0} /\ feed.trips \in Seq(TripRow)
      BY FeedFacts DEF TypeInv
    <3> QED BY <3>1, <3>2
  <2>2. reports' = reports \o found \o (FrequencyReports(at) \o CountReports(at))
    BY <1>6 DEF ValidateStopTimes, Raise, GoTo
  <2>3. Lines(found, K) /\ Lines(CountReports(at), K)
    BY <2>1, QuietLines, ConcatLines
  <2>4. Said(found, "overlapping_headways") = {} /\ Said(CountReports(at), "overlapping_headways") = {}
    <3>1. "overlapping_headways" \notin K
      OBVIOUS
    <3> HIDE DEF K, found
    <3> QED BY <2>3, <3>1, NothingSaid
  <2>5. IsSeq(found) /\ IsSeq(CountReports(at)) /\ IsSeq(FrequencyReports(at))
    BY <2>1, <2>3, FrequencyLines DEF Lines
  <2> HIDE DEF found
  <2>6. IsSeq(reports \o found) /\ IsSeq(FrequencyReports(at) \o CountReports(at))
    BY <1>1, <2>5, ConcatFacts
  <2>7. Said(reports', "overlapping_headways") =
           Said(reports, "overlapping_headways") \cup Said(FrequencyReports(at), "overlapping_headways")
    <3>1. Said(reports \o found, "overlapping_headways") = Said(reports, "overlapping_headways")
      BY <1>1, <2>4, <2>5, ConcatSaid
    <3>2. Said(FrequencyReports(at) \o CountReports(at), "overlapping_headways")
             = Said(FrequencyReports(at), "overlapping_headways")
      BY <2>4, <2>5, ConcatSaid
    <3> QED BY <2>2, <2>6, <3>1, <3>2, ConcatSaid
  <2>8. line \in Said(FrequencyReports(at), "overlapping_headways") <=>
           \E p \in OverlappingPairs(at) : line = <<"overlapping_headways", at, p[1], p[2]>>
    BY <2>1, FrequencyLines DEF Said, Lines
  <2>9. \A t \in DOMAIN headways : TimesDone(t)' <=> TimesDone(t) \/ t = at
    BY <1>1, <1>6, TimesTurn
  <2> QED BY <1>1, <1>2, <1>4, <1>6, <2>1, <2>7, <2>8, <2>9 DEF FrequencyInv
<1> QED BY <1>3, <1>5, <1>6

(* The next multiple of a step is one step further.                        *)
LEMMA Spacing ==
    ASSUME NEW a \in Int, NEW b \in Int, NEW h \in Nat \ {0}, a < b
    PROVE  a * h + h <= b * h
<1>1. PICK d \in Nat : b = a + 1 + d
  <2>1. b - a - 1 \in Nat /\ b = a + 1 + (b - a - 1)
    OBVIOUS
  <2> QED BY <2>1
<1>2. b * h = a * h + h + d * h
  BY <1>1
<1>3. d * h \in Nat
  OBVIOUS
<1>4. a * h \in Int /\ h \in Nat
  OBVIOUS
<1> QED BY <1>2, <1>3, <1>4

(* The runs of a period leave inside it, at different times.               *)
LEMMA PeriodRunsFacts ==
    ASSUME NEW h \in Period
    PROVE  /\ PeriodRuns(h) \in Seq(Int)
           /\ \A k \in DOMAIN PeriodRuns(h) : h[1] <= PeriodRuns(h)[k] /\ PeriodRuns(h)[k] < h[2]
           /\ \A j, k \in DOMAIN PeriodRuns(h) : PeriodRuns(h)[j] = PeriodRuns(h)[k] => j = k
<1>1. PICK s, e, w : s = h[1] /\ e = h[2] /\ w = h[3]
  OBVIOUS
<1>2. s \in Int /\ e \in Int /\ w \in Nat \ {0} /\ s < e
  <2>1. h \in Times \X Times \X Headways /\ FrequencyIsValid(s, e, w)
    BY <1>1 DEF Period
  <2>2. s \in Int /\ e \in Int /\ w \in Int
    BY <1>1, <2>1, BoundsAssumption
  <2> QED BY <2>1, <2>2 DEF FrequencyIsValid
<1>3. PICK n : n = (e - s + w - 1) \div w
  OBVIOUS
<1>4. n \in Nat /\ n * w <= e - s + w - 1
  <2>1. e - s + w - 1 \in Nat
    BY <1>2
  <2>2. PICK N \in Nat : N = e - s + w - 1
    BY <2>1
  <2>3. n = N \div w
    BY <1>3, <2>2
  <2>4. n \in Nat /\ n * w <= N
    BY <1>2, <2>3
  <2> QED BY <2>2, <2>4
<1>5. PeriodRuns(h) = [k \in 1 .. n |-> s + (k - 1) * w]
  BY <1>1, <1>3, Zenon DEF PeriodRuns
<1>6. \A k \in 1 .. n : s + (k - 1) * w \in Int
  BY <1>2
<1>7. PeriodRuns(h) \in [1 .. n -> Int]
  BY <1>5, <1>6
<1>8. PeriodRuns(h) \in Seq(Int) /\ DOMAIN PeriodRuns(h) = 1 .. n
  BY <1>4, <1>7, FunctionIsSeq
<1>9. ASSUME NEW k \in 1 .. n PROVE s <= s + (k - 1) * w /\ s + (k - 1) * w < e
  <2>1. k - 1 \in Nat /\ k - 1 \in Int /\ n \in Int /\ k - 1 < n
    BY <1>4
  <2>2. (k - 1) * w + w <= n * w
    BY <1>2, <2>1, Spacing
  <2>3. (k - 1) * w \in Nat /\ n * w \in Nat
    BY <1>2, <1>4, <2>1
  <2> QED BY <1>2, <1>4, <2>2, <2>3
<1>10. ASSUME NEW j \in 1 .. n, NEW k \in 1 .. n, j < k PROVE s + (j - 1) * w < s + (k - 1) * w
  <2>1. j - 1 \in Int /\ k - 1 \in Int /\ j - 1 < k - 1
    BY <1>10
  <2>2. (j - 1) * w + w <= (k - 1) * w
    BY <1>2, <2>1, Spacing
  <2>3. (j - 1) * w \in Int /\ (k - 1) * w \in Int
    BY <1>2, <2>1
  <2> QED BY <1>2, <2>2, <2>3
<1>11. \A j, k \in 1 .. n : PeriodRuns(h)[j] = PeriodRuns(h)[k] => j = k
  <2> SUFFICES ASSUME NEW j \in 1 .. n, NEW k \in 1 .. n, j # k
               PROVE  PeriodRuns(h)[j] # PeriodRuns(h)[k]
    OBVIOUS
  <2>1. PeriodRuns(h)[j] = s + (j - 1) * w /\ PeriodRuns(h)[k] = s + (k - 1) * w
    BY <1>5, Zenon
  <2>2. PICK x \in Int, y \in Int : x = s + (j - 1) * w /\ y = s + (k - 1) * w
    BY <1>6
  <2>3. j < k \/ k < j
    OBVIOUS
  <2>4. x < y \/ y < x
    BY <1>10, <2>2, <2>3
  <2>5. x # y
    BY <2>4
  <2> QED BY <2>1, <2>2, <2>5, Zenon
<1> QED BY <1>1, <1>5, <1>8, <1>9, <1>11

\* The instant x lies in the period p.
Within(p, x) == p[1] <= x /\ x < p[2]

(* The runs of a trip whose periods are apart leave at different times,    *)
(* each inside a period.                                                   *)
LEMMA RunsFacts ==
    ASSUME TypeInv, NEW t \in DOMAIN headways,
           \A m, n \in DOMAIN headways[t] : m # n =>
               \A x \in Int : ~ (Within(headways[t][m], x) /\ Within(headways[t][n], x))
    PROVE  /\ \A j \in DOMAIN FrequencyStartTimes(t) :
                 /\ FrequencyStartTimes(t)[j] \in Int
                 /\ \E m \in DOMAIN headways[t] : Within(headways[t][m], FrequencyStartTimes(t)[j])
           /\ \A j, k \in DOMAIN FrequencyStartTimes(t) :
                 FrequencyStartTimes(t)[j] = FrequencyStartTimes(t)[k] => j = k
<1> DEFINE h == headways[t]
<1>1. PICK n : n = Len(h)
  OBVIOUS
<1>2. n \in Nat /\ DOMAIN h = 1 .. n /\ \A m \in 1 .. n : h[m] \in Period
  BY <1>1 DEF TypeInv
<1> DEFINE Step(k, x) == x \o PeriodRuns(h[k])
           F(acc) == [k \in 0 .. n |-> IF k = 0 THEN <<>> ELSE Step(k, acc[k - 1])]
<1>3. FrequencyStartTimes(t) = (CHOOSE acc : acc = F(acc))[n]
  BY <1>1, Zenon DEF FrequencyStartTimes
<1>4. \A x \in Seq(Int) : \A k \in 1 .. n : Step(k, x) \in Seq(Int)
  BY <1>2, PeriodRunsFacts
<1> HIDE DEF Step
<1>5. PICK g : g = [x \in (1 .. n) \X Seq(Int) |-> Step(x[1], x[2])]
  OBVIOUS
<1>6. /\ g \in [(1 .. n) \X Seq(Int) -> Seq(Int)]
      /\ \A s \in Seq(Int) : \A k \in 1 .. n : g[<<k, s>>] = Step(k, s)
  BY <1>4, <1>5
<1>7. PICK f \in [0 .. n -> Seq(Int)] :
         \A k \in 0 .. n : f[k] = IF k = 0 THEN <<>> ELSE g[<<k, f[k - 1]>>]
  <2>1. <<>> \in Seq(Int)
    OBVIOUS
  <2>2. \E f \in [0 .. n -> Seq(Int)] : Follows(n, <<>>, g, f)
    BY <1>2, <1>6, <2>1, Recursion
  <2> QED BY <2>2, Zenon DEF Follows
<1>8. f = F(f)
  <2>1. ASSUME NEW k \in 1 .. n
        PROVE  f[k] = Step(k, f[k - 1])
    <3>1. k - 1 \in 0 .. n /\ k # 0 /\ k \in 0 .. n
      BY <1>2
    <3>2. f[k - 1] \in Seq(Int) /\ f[k] = g[<<k, f[k - 1]>>]
      BY <1>7, <3>1
    <3> QED BY <1>6, <3>2
  <2>2. \A k \in 0 .. n : k = 0 \/ k \in 1 .. n
    BY <1>2
  <2>3. \A k \in 0 .. n : f[k] = IF k = 0 THEN <<>> ELSE Step(k, f[k - 1])
    BY <1>7, <2>1, <2>2
  <2> QED BY <2>3
<1>9. PICK acc : acc = F(acc) /\ FrequencyStartTimes(t) = acc[n]
  <2> HIDE DEF F
  <2> QED BY <1>3, <1>8
<1>10. \A k \in 0 .. n : acc[k] = IF k = 0 THEN <<>> ELSE Step(k, acc[k - 1])
  BY <1>9
<1> DEFINE Good(s, k) == /\ s \in Seq(Int)
                         /\ \A j \in DOMAIN s : \E m \in 1 .. k : Within(h[m], s[j])
                         /\ \A i, j \in DOMAIN s : s[i] = s[j] => i = j
           P == {k \in 0 .. n : Good(acc[k], k)}
<1>11. 0 \in P
  <2>1. 0 \in 0 .. n /\ acc[0] = <<>>
    BY <1>2, <1>10
  <2>2. Good(<<>>, 0)
    OBVIOUS
  <2> QED BY <2>1, <2>2
<1>12. ASSUME NEW k \in 1 .. n, k - 1 \in P
       PROVE  k \in P
  <2> DEFINE a == acc[k - 1]
             b == PeriodRuns(h[k])
  <2>1. k \in 0 .. n /\ acc[k] = a \o b
    <3>1. k \in 0 .. n /\ k # 0
      BY <1>2
    <3>2. acc[k] = Step(k, acc[k - 1])
      BY <1>10, <3>1
    <3> QED BY <3>1, <3>2, Zenon DEF Step
  <2>2. Good(a, k - 1)
    BY <1>12
  <2>3. /\ b \in Seq(Int) /\ \A j \in DOMAIN b : Within(h[k], b[j])
        /\ \A i, j \in DOMAIN b : b[i] = b[j] => i = j
    BY <1>2, PeriodRunsFacts DEF Within
  <2>4. \A i \in DOMAIN a : \A j \in DOMAIN b : a[i] # b[j]
    <3> SUFFICES ASSUME NEW i \in DOMAIN a, NEW j \in DOMAIN b, a[i] = b[j]
                 PROVE  FALSE
      OBVIOUS
    <3>1. PICK m \in 1 .. k - 1 : Within(h[m], a[i])
      BY <2>2
    <3>2. m \in DOMAIN h /\ k \in DOMAIN h /\ m # k
      BY <1>2
    <3>3. a[i] \in Int
      BY <2>2
    <3>4. Within(h[k], a[i])
      BY <2>3
    <3> QED BY <3>1, <3>2, <3>3, <3>4
  <2> HIDE DEF a, b
  <2>5. /\ a \o b \in Seq(Int) /\ Len(a) \in Nat /\ Len(b) \in Nat
        /\ DOMAIN a = 1 .. Len(a) /\ DOMAIN b = 1 .. Len(b)
        /\ DOMAIN (a \o b) = 1 .. Len(a) + Len(b)
        /\ \A j \in DOMAIN a : (a \o b)[j] = a[j]
        /\ \A j \in 1 .. Len(a) + Len(b) : j > Len(a) => (a \o b)[j] = b[j - Len(a)]
    BY <2>2, <2>3
  <2>6. ASSUME NEW j \in 1 .. Len(a) + Len(b)
        PROVE  \/ j \in DOMAIN a /\ (a \o b)[j] = a[j]
               \/ j - Len(a) \in DOMAIN b /\ (a \o b)[j] = b[j - Len(a)] /\ j \in Int
    <3>1. CASE j <= Len(a)
      BY <2>5, <3>1
    <3>2. CASE j > Len(a)
      BY <2>5, <3>2
    <3> QED BY <2>5, <3>1, <3>2
  <2>7. ASSUME NEW j \in DOMAIN (a \o b) PROVE \E m \in 1 .. k : Within(h[m], (a \o b)[j])
    <3>1. k \in 1 .. k /\ 1 .. k - 1 \subseteq 1 .. k
      BY <1>2
    <3> QED BY <2>2, <2>3, <2>5, <2>6, <3>1
  <2>8. ASSUME NEW i \in DOMAIN (a \o b), NEW j \in DOMAIN (a \o b), (a \o b)[i] = (a \o b)[j]
        PROVE  i = j
    <3>1. CASE i \in DOMAIN a /\ (a \o b)[i] = a[i]
      <4>1. j \in DOMAIN a /\ (a \o b)[j] = a[j]
        BY <2>4, <2>5, <2>6, <2>8, <3>1
      <4> QED BY <2>2, <2>8, <3>1, <4>1
    <3>2. CASE i - Len(a) \in DOMAIN b /\ (a \o b)[i] = b[i - Len(a)] /\ i \in Int
      <4>1. j - Len(a) \in DOMAIN b /\ (a \o b)[j] = b[j - Len(a)] /\ j \in Int
        BY <2>4, <2>5, <2>6, <2>8, <3>2
      <4>2. i - Len(a) = j - Len(a)
        BY <2>3, <2>8, <3>2, <4>1
      <4> QED BY <2>5, <3>2, <4>1, <4>2
    <3> QED BY <2>5, <2>6, <3>1, <3>2
  <2>9. Good(a \o b, k)
    BY <2>5, <2>7, <2>8
  <2> QED BY <2>1, <2>9
<1>13. n \in P
  <2> HIDE DEF P
  <2>1. P \in SUBSET Nat
    BY <1>2 DEF P
  <2>2. 0 .. n \subseteq P
    BY <1>2, <1>11, <1>12, <2>1, Induction
  <2> QED BY <1>2, <2>2
<1>14. PICK runs : runs = FrequencyStartTimes(t)
  OBVIOUS
<1>15. Good(runs, n)
  BY <1>9, <1>13, <1>14
<1>16. \A j \in DOMAIN runs : runs[j] \in Int
  BY <1>15
<1>17. \A j \in DOMAIN runs : \E m \in DOMAIN h : Within(h[m], runs[j])
  <2> HIDE DEF h
  <2> QED BY <1>2, <1>15, Zenon
<1>18. \A j, k \in DOMAIN runs : runs[j] = runs[k] => j = k
  BY <1>15, Zenon
<1> QED BY <1>14, <1>16, <1>17, <1>18, Zenon

(* The periods of a trip overlap when they share an instant.               *)
LEMMA SharedInstant ==
    ASSUME NEW p \in Period, NEW q \in Period
    PROVE  /\ HeadwaysOverlap(p, q) => \E x \in Times : Within(p, x) /\ Within(q, x)
           /\ \A x \in Int : Within(p, x) /\ Within(q, x) => HeadwaysOverlap(p, q)
<1>1. PICK a, b, c, d : a = p[1] /\ b = p[2] /\ c = q[1] /\ d = q[2]
  OBVIOUS
<1>2. /\ a \in Times /\ c \in Times /\ a \in Int /\ b \in Int /\ c \in Int /\ d \in Int
      /\ a < b /\ c < d
  <2>1. /\ p \in Times \X Times \X Headways /\ q \in Times \X Times \X Headways
        /\ FrequencyIsValid(p[1], p[2], p[3]) /\ FrequencyIsValid(q[1], q[2], q[3])
    BY DEF Period
  <2>2. a \in Times /\ b \in Times /\ c \in Times /\ d \in Times
    BY <1>1, <2>1
  <2>3. Times \subseteq Int
    BY BoundsAssumption
  <2> QED BY <1>1, <2>1, <2>2, <2>3 DEF FrequencyIsValid
<1>3. ASSUME c < b, d > a PROVE \E x \in Times : a <= x /\ x < b /\ c <= x /\ x < d
  <2>1. CASE a <= c
    BY <1>2, <1>3, <2>1
  <2>2. CASE c < a
    BY <1>2, <1>3, <2>2
  <2> QED BY <1>2, <2>1, <2>2
<1>4. ASSUME NEW x \in Int, a <= x, x < b, c <= x, x < d PROVE c < b /\ d > a
  BY <1>2, <1>4
<1> QED BY <1>1, <1>3, <1>4, Zenon DEF HeadwaysOverlap, Within

(* What the reports say of the periods of a trip once its turn is over.    *)
LEMMA PairsReported ==
    ASSUME TypeInv, FrequencyInv, pass # "raised", NEW t \in DOMAIN headways, TimesDone(t)
    PROVE  {<<reports[k][3], reports[k][4]>> : k \in
               {k \in DOMAIN reports : reports[k][1] = "overlapping_headways" /\ reports[k][2] = t}}
               = OverlappingPairs(t)
<1> DEFINE reported == {<<reports[k][3], reports[k][4]>> : k \in
               {k \in DOMAIN reports : reports[k][1] = "overlapping_headways" /\ reports[k][2] = t}}
           Line(u, p) == <<"overlapping_headways", u, p[1], p[2]>>
<1>1. \A u, p : Line(u, p)[1] = "overlapping_headways" /\ Line(u, p)[2] = u
                /\ Line(u, p)[3] = p[1] /\ Line(u, p)[4] = p[2]
  OBVIOUS
<1>2. \A line : line \in Said(reports, "overlapping_headways") <=>
         \E u \in DOMAIN headways : TimesDone(u) /\ \E p \in OverlappingPairs(u) : line = Line(u, p)
  BY DEF FrequencyInv
<1>3. \A u : \A p \in OverlappingPairs(u) : p = <<p[1], p[2]>>
  BY DEF OverlappingPairs
<1> HIDE DEF Line
<1>4. ASSUME NEW k \in DOMAIN reports, reports[k][1] = "overlapping_headways", reports[k][2] = t
      PROVE  <<reports[k][3], reports[k][4]>> \in OverlappingPairs(t)
  <2>1. reports[k] \in Said(reports, "overlapping_headways")
    BY <1>4 DEF Said
  <2>2. PICK u \in DOMAIN headways : \E p \in OverlappingPairs(u) : reports[k] = Line(u, p)
    BY <1>2, <2>1
  <2>p. PICK p \in OverlappingPairs(u) : reports[k] = Line(u, p)
    BY <2>2
  <2>3. u = t /\ p = <<reports[k][3], reports[k][4]>>
    BY <1>1, <1>3, <1>4, <2>p
  <2> QED BY <2>p, <2>3
<1>5. ASSUME NEW p \in OverlappingPairs(t) PROVE p \in reported
  <2>1. Line(t, p) \in Said(reports, "overlapping_headways")
    BY <1>2
  <2>2. PICK k \in DOMAIN reports : reports[k] = Line(t, p) /\ reports[k][1] = "overlapping_headways"
    BY <2>1 DEF Said
  <2>3. reports[k][2] = t /\ p = <<reports[k][3], reports[k][4]>>
    BY <1>1, <1>3, <2>2
  <2> QED BY <2>2, <2>3
<1> QED BY <1>4, <1>5

LEMMA FrequenciesSeparate ==
    ASSUME TypeInv, FrequencyInv
    PROVE  RunsAreSeparate
<1> SUFFICES ASSUME Past("stop times"), NEW t \in DOMAIN headways
             PROVE  LET h == headways[t]
                        runs == FrequencyStartTimes(t)
                        reported == {<<reports[k][3], reports[k][4]>> : k \in
                                        {k \in DOMAIN reports : reports[k][1] = "overlapping_headways"
                                                                /\ reports[k][2] = t}}
                        Holds(m, x) == h[m][1] <= x /\ x < h[m][2]
                    IN  /\ \A m, n \in DOMAIN h : m < n =>
                              (<<m, n>> \in reported <=> \E x \in Times : Holds(m, x) /\ Holds(n, x))
                        /\ reported = {} =>
                              \A j \in DOMAIN runs :
                                  /\ \A k \in DOMAIN runs : runs[j] = runs[k] => j = k
                                  /\ Cardinality({m \in DOMAIN h : Holds(m, runs[j])}) = 1
  BY DEF RunsAreSeparate
<1> DEFINE h == headways[t]
           runs == FrequencyStartTimes(t)
           reported == {<<reports[k][3], reports[k][4]>> : k \in
                           {k \in DOMAIN reports : reports[k][1] = "overlapping_headways"
                                                   /\ reports[k][2] = t}}
           Holds(m, x) == h[m][1] <= x /\ x < h[m][2]
<1>1. pass # "raised" /\ TimesDone(t)
  BY PastIs, LaterPasses DEF TimesDone
<1>2. reported = OverlappingPairs(t)
  BY <1>1, PairsReported
<1>3. DOMAIN h = 1 .. Len(h) /\ Len(h) \in Nat /\ \A m \in DOMAIN h : h[m] \in Period
  <2>1. h \in Seq(Period)
    BY DEF TypeInv
  <2> HIDE DEF h
  <2> QED BY <2>1, SeqAsFunction
<1>4. \A m, x : Holds(m, x) <=> Within(h[m], x)
  BY DEF Within
<1>5. \A m, n \in DOMAIN h : <<m, n>> \in OverlappingPairs(t) <=> m < n /\ HeadwaysOverlap(h[m], h[n])
  BY DEF OverlappingPairs
<1>6. Times \subseteq Int
  BY BoundsAssumption
<1> HIDE DEF h, runs, reported, Holds
<1>7. \A m, n \in DOMAIN h : m < n => (<<m, n>> \in reported <=> \E x \in Times : Holds(m, x) /\ Holds(n, x))
  BY <1>2, <1>3, <1>4, <1>5, <1>6, SharedInstant
<1>8. ASSUME reported = {}
      PROVE  \A j \in DOMAIN runs :
                 /\ \A k \in DOMAIN runs : runs[j] = runs[k] => j = k
                 /\ Cardinality({m \in DOMAIN h : Holds(m, runs[j])}) = 1
  <2>1. \A m, n \in DOMAIN h : m < n => \A x \in Int : ~ (Within(h[m], x) /\ Within(h[n], x))
    BY <1>2, <1>3, <1>5, <1>8, SharedInstant
  <2>2. \A m, n \in DOMAIN h : m # n => m < n \/ n < m
    <3>1. PICK l \in Nat : DOMAIN h = 1 .. l
      BY <1>3
    <3> QED BY <3>1, EitherFirst
  <2>3. \A m, n \in DOMAIN h : m # n => \A x \in Int : ~ (Within(h[m], x) /\ Within(h[n], x))
    BY <2>1, <2>2
  <2>4. /\ \A j \in DOMAIN runs : runs[j] \in Int /\ \E m \in DOMAIN h : Within(h[m], runs[j])
        /\ \A j, k \in DOMAIN runs : runs[j] = runs[k] => j = k
    BY <2>3, RunsFacts DEF h, runs
  <2>5. ASSUME NEW j \in DOMAIN runs PROVE Cardinality({m \in DOMAIN h : Holds(m, runs[j])}) = 1
    <3>1. PICK m \in DOMAIN h : Within(h[m], runs[j])
      BY <2>4
    <3>2. {n \in DOMAIN h : Holds(n, runs[j])} = {m}
      BY <1>4, <2>3, <2>4, <3>1
    <3> QED BY <3>2, FS_Singleton
  <2> QED BY <2>4, <2>5
<1> QED BY <1>7, <1>8 DEF h, runs, reported, Holds

(* Without a report on overlapping headways no two runs of a trip leave at *)
(* the same time and each one leaves inside one period only, whatever      *)
(* periods add_frequency accepted.                                         *)
THEOREM FrequencyRuns == Spec => []RunsAreSeparate
<1>1. Init => TypeInv /\ FrequencyInv
  <2> SUFFICES ASSUME Init PROVE FrequencyInv
    BY TypeInit
  <2>1. reports = <<>> /\ pass \in {"load stops", "frequencies"}
    BY DEF Init
  <2>2. Said(reports, "overlapping_headways") = {}
    BY <2>1, EmptyLines, NothingSaid
  <2>3. \A t : ~ TimesDone(t)
    BY <2>1, LaterPasses DEF TimesDone
  <2> QED BY <2>2, <2>3 DEF FrequencyInv
<1>2. TypeInv /\ FrequencyInv /\ [Next]_vars => (TypeInv /\ FrequencyInv)'
  BY StepMoves, FrequencyStep
<1>3. TypeInv /\ FrequencyInv => RunsAreSeparate
  BY FrequenciesSeparate
<1> QED BY <1>1, <1>2, <1>3, PTL DEF Spec

-----------------------------------------------------------------------------
(* Route names.                                                            *)

Name(r) == Normal(feed.routes[r].name)

NamesInv ==
    pass # "raised" =>
        /\ \A n : n \in DOMAIN route_names <=> \E r \in DOMAIN feed.routes : RouteDone(r) /\ Name(r) = n
        /\ \A n \in DOMAIN route_names : \E first \in DOMAIN feed.routes :
              /\ route_names[n] = first /\ RouteDone(first) /\ Name(first) = n
              /\ \A r \in DOMAIN feed.routes : Name(r) = n => first <= r
        /\ \A line : line \in Said(reports, "same_name") <=>
              \E r \in DOMAIN feed.routes :
                  /\ RouteDone(r) /\ route_names[Name(r)] # r
                  /\ line = <<"same_name", r, route_names[Name(r)], 0>>

LEMMA NotRaised ==
    ASSUME TypeInv, [Next]_vars, pass' # "raised"
    PROVE  pass # "raised"
<1>1. pass = "raised" => UNCHANGED vars
  BY OwnSteps
<1> QED BY <1>1 DEF vars

LEMMA NamesStep ==
    ASSUME TypeInv, NamesInv, [Next]_vars
    PROVE  NamesInv'
<1> SUFFICES ASSUME pass' # "raised" PROVE NamesInv'
  BY DEF NamesInv
<1>0. Moves
  BY StepMoves
<1>1. pass \in Passes /\ IsSeq(reports) /\ feed' = feed /\ pass # "raised"
  BY <1>0, NotRaised DEF TypeInv, Moves
<1>2. \A r : Name(r)' = Name(r)
  BY <1>1 DEF Name
<1>3. \A r \in DOMAIN feed.routes : RouteDone(r)' <=> RouteDone(r) \/ (ValidateRoute /\ r = at)
  BY RouteTurn
<1>4. CASE ~ ValidateRoute
  <2>1. Said(reports', "same_name") = Said(reports, "same_name") /\ route_names' = route_names
    <3>1. CASE pass # "routes"
      <4>1. Said(reports', "same_name") = Said(reports, "same_name")
        BY <1>0, <1>1, <3>1, GrowsSaid, OwnKinds DEF Moves
      <4> QED BY <1>0, <3>1, <4>1 DEF Moves
    <3>2. CASE pass = "routes"
      <4>1. NextPass \/ UNCHANGED vars
        BY <1>4, <3>2, OwnSteps
      <4>2. reports' = reports /\ route_names' = route_names
        BY <4>1 DEF NextPass, vars, tables
      <4> QED BY <4>2
    <3> QED BY <3>1, <3>2
  <2> QED BY <1>1, <1>2, <1>3, <1>4, <2>1 DEF NamesInv
<1>5. CASE ValidateRoute
  <2>1. at \in DOMAIN feed.routes /\ at \in Nat
    <3>1. at <= Len(feed.routes)
      BY <1>5 DEF ValidateRoute
    <3>2. at \in Nat \ {0} /\ feed.routes \in Seq(RouteRow)
      BY FeedFacts DEF TypeInv
    <3> QED BY <3>1, <3>2
  <2>2. \A r \in DOMAIN feed.routes : (RouteDone(r) <=> r < at) /\ r \in Nat
    <3>1. pass = "routes"
      BY <1>5 DEF ValidateRoute
    <3>2. feed.routes \in Seq(RouteRow)
      BY FeedFacts
    <3>3. pass \notin AfterRoutes
      BY <3>1, LaterPasses
    <3>4. \A r \in DOMAIN feed.routes : r \in Nat
      BY <3>2
    <3> QED BY <3>1, <3>3, <3>4 DEF RouteDone
  <2>3. \A r \in DOMAIN feed.routes : RouteDone(r)' <=> RouteDone(r) \/ r = at
    BY <1>3, <1>5
  <2>4. ~ RouteDone(at)
    BY <2>1, <2>2
  <2> DEFINE n == Name(at)
             line0 == <<"same_name", at, route_names[n], 0>>
  <2>5. \/ n \in DOMAIN route_names /\ reports' = Append(reports, line0) /\ route_names' = route_names
        \/ n \notin DOMAIN route_names /\ route_names' = With(route_names, n, at) /\ reports' = reports
    BY <1>5 DEF ValidateRoute, Raise, GoTo, Name
  <2>6. /\ \A m : m \in DOMAIN route_names <=> \E r \in DOMAIN feed.routes : RouteDone(r) /\ Name(r) = m
        /\ \A m \in DOMAIN route_names : \E first \in DOMAIN feed.routes :
              /\ route_names[m] = first /\ RouteDone(first) /\ Name(first) = m
              /\ \A r \in DOMAIN feed.routes : Name(r) = m => first <= r
    BY <1>1 DEF NamesInv
  <2>7. \A line : line \in Said(reports, "same_name") <=>
           \E r \in DOMAIN feed.routes :
               /\ RouteDone(r) /\ route_names[Name(r)] # r
               /\ line = <<"same_name", r, route_names[Name(r)], 0>>
    BY <1>1 DEF NamesInv
  <2> HIDE DEF n, line0
  <2>8. CASE n \in DOMAIN route_names /\ reports' = Append(reports, line0) /\ route_names' = route_names
    <3>1. Said(reports', "same_name") = Said(reports, "same_name") \cup {line0}
      <4>1. reports' = reports \o Report("same_name", at, route_names[n], 0)
        BY <1>1, <2>8, AppendReport DEF line0
      <4>2. IsSeq(Report("same_name", at, route_names[n], 0))
        BY ReportLines DEF Lines
      <4>3. Said(Report("same_name", at, route_names[n], 0), "same_name") = {line0}
        BY ReportSaid DEF line0
      <4> QED BY <1>1, <4>1, <4>2, <4>3, ConcatSaid
    <3>2. route_names[n] # at
      BY <2>4, <2>6, <2>8
    <3>3. \A m : m \in DOMAIN route_names <=> \E r \in DOMAIN feed.routes : RouteDone(r)' /\ Name(r) = m
      BY <2>3, <2>6, <2>8 DEF n
    <3>4. ASSUME NEW line
          PROVE  line \in Said(reports', "same_name") <=>
                    \E r \in DOMAIN feed.routes :
                        /\ RouteDone(r)' /\ route_names[Name(r)] # r
                        /\ line = <<"same_name", r, route_names[Name(r)], 0>>
      BY <2>1, <2>3, <2>7, <3>1, <3>2 DEF n, line0
    <3>5. \A m \in DOMAIN route_names : \E first \in DOMAIN feed.routes :
              /\ route_names[m] = first /\ RouteDone(first)' /\ Name(first) = m
              /\ \A r \in DOMAIN feed.routes : Name(r) = m => first <= r
      BY <2>3, <2>6
    <3> QED BY <1>1, <1>2, <2>8, <3>3, <3>4, <3>5 DEF NamesInv
  <2>9. CASE n \notin DOMAIN route_names /\ route_names' = With(route_names, n, at) /\ reports' = reports
    <3>1. /\ DOMAIN route_names' = DOMAIN route_names \cup {n} /\ route_names'[n] = at
          /\ \A m \in DOMAIN route_names : route_names'[m] = route_names[m]
      <4>1. PICK map, m, x : map = route_names /\ m = n /\ x = at
        OBVIOUS
      <4>2. /\ DOMAIN With(map, m, x) = DOMAIN map \cup {m} /\ With(map, m, x)[m] = x
            /\ \A y \in DOMAIN map : y # m => With(map, m, x)[y] = map[y]
        BY DEF With
      <4> QED BY <2>9, <4>1, <4>2, Zenon
    <3>2. \A m : m \in DOMAIN route_names' <=> \E r \in DOMAIN feed.routes : RouteDone(r)' /\ Name(r) = m
      BY <2>1, <2>3, <2>6, <3>1 DEF n
    <3>3. \A r \in DOMAIN feed.routes : Name(r) = n => at <= r
      <4> SUFFICES ASSUME NEW r \in DOMAIN feed.routes, Name(r) = n PROVE at <= r
        OBVIOUS
      <4>1. ~ (r < at)
        BY <2>2, <2>6, <2>9
      <4>2. r \in Nat
        BY <2>2
      <4> QED BY <2>1, <4>1, <4>2
    <3>4. ASSUME NEW m \in DOMAIN route_names'
          PROVE  \E first \in DOMAIN feed.routes :
                    /\ route_names'[m] = first /\ RouteDone(first)' /\ Name(first) = m
                    /\ \A r \in DOMAIN feed.routes : Name(r) = m => first <= r
      <4>1. CASE m \in DOMAIN route_names
        BY <2>3, <2>6, <3>1, <4>1
      <4>2. CASE m = n
        BY <2>1, <2>3, <3>1, <3>3, <4>2 DEF n
      <4> QED BY <3>1, <4>1, <4>2
    <3>5. \A r \in DOMAIN feed.routes : RouteDone(r) => route_names'[Name(r)] = route_names[Name(r)]
      BY <2>6, <3>1
    <3>6. route_names'[Name(at)] = at
      BY <3>1 DEF n
    <3>7. ASSUME NEW line
          PROVE  line \in Said(reports', "same_name") <=>
                    \E r \in DOMAIN feed.routes :
                        /\ RouteDone(r)' /\ route_names'[Name(r)] # r
                        /\ line = <<"same_name", r, route_names'[Name(r)], 0>>
      <4>1. \A r \in DOMAIN feed.routes :
               RouteDone(r)' /\ route_names'[Name(r)] # r <=> RouteDone(r) /\ route_names[Name(r)] # r
        BY <2>3, <2>4, <3>5, <3>6
      <4> QED BY <2>7, <2>9, <3>5, <4>1
    <3> QED BY <1>1, <1>2, <3>2, <3>4, <3>7 DEF NamesInv
  <2> QED BY <2>5, <2>8, <2>9
<1> QED BY <1>4, <1>5

(* Every route of a name but the first is reported, with the first.        *)
LEMMA NamesReported ==
    ASSUME TypeInv, NamesInv, pass \in AfterRoutes, NEW r \in DOMAIN feed.routes
    PROVE  FirstComeReported("same_name",
               {q \in DOMAIN feed.routes : feed.routes[q].name[1] = feed.routes[r].name[1]}, <)
<1> DEFINE group == {q \in DOMAIN feed.routes : feed.routes[q].name[1] = feed.routes[r].name[1]}
           n == Name(r)
           about(x) == {reports[k] : k \in {k \in DOMAIN reports : reports[k][1] = "same_name" /\ reports[k][2] = x}}
           Line(x, y) == <<"same_name", x, y, 0>>
<1>1. pass # "raised" /\ \A q : RouteDone(q)
  BY LaterPasses DEF RouteDone
<1>2. \A q \in DOMAIN feed.routes : q \in group <=> Name(q) = n
  BY DEF Name, Normal
<1>3. group \subseteq DOMAIN feed.routes
  OBVIOUS
<1>4. \A x, y : Line(x, y)[1] = "same_name" /\ Line(x, y)[2] = x
  OBVIOUS
<1>5. \A line : line \in Said(reports, "same_name") <=>
         \E q \in DOMAIN feed.routes : route_names[Name(q)] # q /\ line = Line(q, route_names[Name(q)])
  BY <1>1, Zenon DEF NamesInv
<1>6. PICK first \in DOMAIN feed.routes :
         /\ route_names[n] = first /\ Name(first) = n
         /\ \A q \in DOMAIN feed.routes : Name(q) = n => first <= q
  BY <1>1 DEF NamesInv
<1>7. DOMAIN feed.routes \subseteq Nat
  <2>1. feed.routes \in Seq(RouteRow)
    BY FeedFacts
  <2> QED BY <2>1
<1> HIDE DEF group, n, Line
<1>8. \A x, line : line \in about(x) <=> line \in Said(reports, "same_name") /\ line[2] = x
  BY DEF Said
<1> HIDE DEF about
<1>9. first \in group
  BY <1>2, <1>6
<1>10. ASSUME NEW x \in group PROVE x = first \/ first < x
  <2>1. first <= x
    BY <1>2, <1>3, <1>6
  <2>2. x \in Nat /\ first \in Nat
    BY <1>3, <1>6, <1>7
  <2> QED BY <2>1, <2>2
<1>11. ASSUME NEW x \in group PROVE about(x) = IF x = first THEN {} ELSE {Line(x, first)}
  <2>1. Name(x) = n /\ x \in DOMAIN feed.routes
    BY <1>2, <1>3
  <2>2. \A line : line \in about(x) <=> first # x /\ line = Line(x, first)
    BY <1>4, <1>5, <1>6, <1>8, <2>1
  <2> QED BY <2>2
<1>12. \E y \in group : /\ \A x \in group \ {y} : y < x
                        /\ \A x \in group : about(x) = IF x = y THEN {} ELSE {Line(x, y)}
  BY <1>9, <1>10, <1>11
<1> QED BY <1>12 DEF FirstComeReported, group, about, Line

-----------------------------------------------------------------------------
(* Duplicate trips.                                                        *)

DuplicatesInv ==
    feed.check_duplicates /\ pass # "raised" =>
        /\ \A key : key \in DOMAIN trips <=> \E t \in Comparable : TripDone(t) /\ TripKey(t) = key
        /\ \A key \in DOMAIN trips : \E first \in Comparable :
              /\ trips[key] = first /\ TripDone(first) /\ TripKey(first) = key
              /\ \A t \in Comparable : TripKey(t) = key /\ t # first => TripBefore(first, t)
        /\ \A line : line \in Said(reports, "duplicate_trip") <=>
              \E t \in Comparable :
                  /\ TripDone(t) /\ trips[TripKey(t)] # t
                  /\ line = <<"duplicate_trip", t, trips[TripKey(t)], 0>>

LEMMA DuplicatesReported ==
    ASSUME TypeInv, DuplicatesInv, feed.check_duplicates, pass \in AfterTrips, NEW t \in Comparable
    PROVE  FirstComeReported("duplicate_trip", {u \in Comparable : TripKey(u) = TripKey(t)}, TripBefore)
<1> DEFINE group == {u \in Comparable : TripKey(u) = TripKey(t)}
           n == TripKey(t)
           about(x) == {reports[k] : k \in {k \in DOMAIN reports : reports[k][1] = "duplicate_trip" /\ reports[k][2] = x}}
           Line(x, y) == <<"duplicate_trip", x, y, 0>>
<1>1. pass # "raised" /\ \A q : TripDone(q)
  BY LaterPasses DEF TripDone
<1>2. \A q \in Comparable : q \in group <=> TripKey(q) = n
  OBVIOUS
<1>3. group \subseteq Comparable
  OBVIOUS
<1>4. \A x, y : Line(x, y)[1] = "duplicate_trip" /\ Line(x, y)[2] = x
  OBVIOUS
<1>5. \A line : line \in Said(reports, "duplicate_trip") <=>
         \E q \in Comparable : trips[TripKey(q)] # q /\ line = Line(q, trips[TripKey(q)])
  BY <1>1, Zenon DEF DuplicatesInv
<1>6. PICK first \in Comparable :
         /\ trips[n] = first /\ TripKey(first) = n
         /\ \A q \in Comparable : TripKey(q) = n /\ q # first => TripBefore(first, q)
  BY <1>1, Zenon DEF DuplicatesInv
<1> HIDE DEF group, n, Line
<1>8. \A x, line : line \in about(x) <=> line \in Said(reports, "duplicate_trip") /\ line[2] = x
  BY DEF Said
<1> HIDE DEF about
<1>9. first \in group
  BY <1>2, <1>6
<1>10. \A x \in group \ {first} : TripBefore(first, x)
  BY <1>2, <1>3, <1>6
<1>11. ASSUME NEW x \in group PROVE about(x) = IF x = first THEN {} ELSE {Line(x, first)}
  <2>1. TripKey(x) = n /\ x \in Comparable
    BY <1>2, <1>3
  <2>2. \A line : line \in about(x) <=> first # x /\ line = Line(x, first)
    BY <1>4, <1>5, <1>6, <1>8, <2>1
  <2> QED BY <2>2
<1>12. \E y \in group : /\ \A x \in group \ {y} : TripBefore(y, x)
                        /\ \A x \in group : about(x) = IF x = y THEN {} ELSE {Line(x, y)}
  BY <1>9, <1>10, <1>11
<1> QED BY <1>12 DEF FirstComeReported, group, about, Line

(* The trip whose turn it is comes after those that are done and before    *)
(* the others.                                                             *)
LEMMA TurnOfTrip ==
    ASSUME TypeInv, ValidateTrip, NEW t, t = SortedTrips[at]
    PROVE  /\ t \in DOMAIN feed.trips /\ ~ TripDone(t)
           /\ \A u \in DOMAIN feed.trips : ~ TripDone(u) /\ u # t => TripBefore(t, u)
<1>1. at \in Nat \ {0} /\ at <= Len(feed.trips) /\ pass = "trips"
  BY DEF ValidateTrip, TypeInv
<1>2. PICK s : s = SortedTrips
  OBVIOUS
<1>3. /\ s \in Seq(DOMAIN feed.trips) /\ Len(s) = Len(feed.trips)
      /\ \A j, k \in DOMAIN s : j < k => TripBefore(s[j], s[k])
      /\ \A u \in DOMAIN feed.trips : \E k \in DOMAIN s : s[k] = u
  BY <1>2, TripsSorted
<1>4. at \in DOMAIN s /\ DOMAIN s \subseteq Nat
  <2>1. Len(s) \in Nat /\ DOMAIN s = 1 .. Len(s)
    BY <1>3, SeqAsFunction
  <2>2. at \in 1 .. Len(s)
    BY <1>1, <1>3, <2>1
  <2> QED BY <2>1, <2>2
<1>5. pass \notin AfterTrips
  BY <1>1, LaterPasses
<1>6. \A u : TripDone(u) <=> \E k \in DOMAIN s : k < at /\ s[k] = u
  BY <1>1, <1>2, <1>5 DEF TripDone
<1>7. t = s[at] /\ t \in DOMAIN feed.trips
  BY <1>2, <1>3, <1>4
<1>8. feed.trips \in Seq(TripRow)
  BY FeedFacts
<1>9. \A u \in DOMAIN feed.trips : ~ TripBefore(u, u)
  <2>1. \A u \in DOMAIN feed.trips : u \in Nat /\ feed.trips[u].route \in Nat
    <3>1. \A u \in DOMAIN feed.trips : u \in Nat /\ feed.trips[u] \in TripRow
      BY <1>8
    <3> QED BY <3>1 DEF TripRow
  <2>2. \A x \in Nat : ~ (x < x)
    OBVIOUS
  <2> QED BY <2>1, <2>2 DEF TripBefore
<1>10. ~ TripDone(t)
  <2> SUFFICES ASSUME NEW k \in DOMAIN s, k < at, s[k] = t PROVE FALSE
    BY <1>6
  <2>1. TripBefore(s[k], s[at])
    BY <1>3, <1>4
  <2> QED BY <1>7, <1>9, <2>1
<1>11. ASSUME NEW u \in DOMAIN feed.trips, ~ TripDone(u), u # t PROVE TripBefore(t, u)
  <2>1. PICK k \in DOMAIN s : s[k] = u
    BY <1>3
  <2>2. ~ (k < at) /\ k # at
    BY <1>6, <1>7, <1>11, <2>1
  <2>3. k \in Nat /\ at \in Nat
    BY <1>4
  <2>4. at < k
    BY <2>2, <2>3
  <2> QED BY <1>3, <1>4, <1>7, <2>1, <2>4
<1> QED BY <1>7, <1>10, <1>11

(* What the walk over the stop times of a trip hands on.                   *)
LEMMA MarkedLines ==
    ASSUME TypeInv, NEW t \in DOMAIN feed.trips
    PROVE  StopTypesMarked(t) \in Mark /\ Lines(StopTypesMarked(t).found, {"multiple_route_types"})
<1>1. StopTypesMarked(t) \in Mark
  <2>1. feed.trips[t].times \in Seq(TimeRow)
    <3>1. feed.trips[t] \in TripRow
      BY FeedFacts
    <3> QED BY <3>1 DEF TripRow
  <2>2. PICK n : n = Len(feed.trips[t].times)
    OBVIOUS
  <2>3. n \in Nat
    BY <2>1, <2>2
  <2> QED BY <2>2, <2>3, Marking
<1>2. PICK found : found = StopTypesMarked(t).found
  OBVIOUS
<1>3. found \in Seq({"multiple_route_types"} \X Nat \X Nat \X Nat)
  BY <1>1, <1>2 DEF Mark
<1>4. \A k \in DOMAIN found : found[k][1] = "multiple_route_types"
  BY <1>3
<1> QED BY <1>1, <1>2, <1>3, <1>4 DEF Lines, IsSeq

LEMMA DuplicatesStep ==
    ASSUME TypeInv, DuplicatesInv, [Next]_vars
    PROVE  DuplicatesInv'
<1>0. Moves
  BY StepMoves
<1> SUFFICES ASSUME pass' # "raised", feed.check_duplicates PROVE DuplicatesInv'
  BY <1>0 DEF DuplicatesInv, Moves
<1>1. pass \in Passes /\ IsSeq(reports) /\ feed' = feed /\ pass # "raised"
  BY <1>0, NotRaised DEF TypeInv, Moves
<1>2. /\ \A u : TripKey(u)' = TripKey(u) /\ Comparable' = Comparable
      /\ \A u, v : TripBefore(u, v)' <=> TripBefore(u, v)
  BY <1>1 DEF TripKey, Comparable, TripBefore
<1>3. \A u \in Comparable : TripDone(u)' <=> TripDone(u) \/ (ValidateTrip /\ u = SortedTrips[at])
  BY TripTurn DEF Comparable
<1>4. /\ \A key : key \in DOMAIN trips <=> \E u \in Comparable : TripDone(u) /\ TripKey(u) = key
      /\ \A key \in DOMAIN trips : \E first \in Comparable :
            /\ trips[key] = first /\ TripDone(first) /\ TripKey(first) = key
            /\ \A u \in Comparable : TripKey(u) = key /\ u # first => TripBefore(first, u)
  BY <1>1 DEF DuplicatesInv
<1>5. \A line : line \in Said(reports, "duplicate_trip") <=>
         \E u \in Comparable :
             /\ TripDone(u) /\ trips[TripKey(u)] # u
             /\ line = <<"duplicate_trip", u, trips[TripKey(u)], 0>>
  BY <1>1 DEF DuplicatesInv
<1> DEFINE Same == /\ Said(reports', "duplicate_trip") = Said(reports, "duplicate_trip")
                   /\ trips' = trips
                   /\ \A u \in Comparable : TripDone(u)' <=> TripDone(u)
<1>6. Same => DuplicatesInv'
  BY <1>1, <1>2, <1>4, <1>5 DEF DuplicatesInv
<1>7. CASE ~ ValidateTrip
  <2>1. CASE pass # "trips"
    <3>1. Said(reports', "duplicate_trip") = Said(reports, "duplicate_trip")
      BY <1>0, <1>1, <2>1, GrowsSaid, OwnKinds DEF Moves
    <3>2. trips' = trips
      BY <1>0, <2>1 DEF Moves
    <3> QED BY <1>3, <1>6, <1>7, <3>1, <3>2
  <2>2. CASE pass = "trips"
    <3>1. NextPass \/ UNCHANGED vars
      BY <1>7, <2>2, OwnSteps
    <3>2. reports' = reports /\ trips' = trips
      BY <3>1 DEF NextPass, vars, tables
    <3> QED BY <1>3, <1>6, <1>7, <3>2
  <2> QED BY <2>1, <2>2
<1>8. CASE ValidateTrip
  <2>1. PICK t : t = SortedTrips[at]
    OBVIOUS
  <2>2. /\ t \in DOMAIN feed.trips /\ ~ TripDone(t)
        /\ \A u \in DOMAIN feed.trips : ~ TripDone(u) /\ u # t => TripBefore(t, u)
    BY <1>8, <2>1, TurnOfTrip
  <2>3. \A u \in Comparable : TripDone(u)' <=> TripDone(u) \/ u = t
    BY <1>3, <1>8, <2>1
  <2> DEFINE found == StopTypesMarked(t).found
             key == TripKey(t)
             line0 == <<"duplicate_trip", t, trips[key], 0>>
  <2>4. IsSeq(found) /\ Said(found, "duplicate_trip") = {}
    <3>1. Lines(found, {"multiple_route_types"})
      BY <2>2, MarkedLines
    <3>2. "duplicate_trip" \notin {"multiple_route_types"}
      OBVIOUS
    <3> HIDE DEF found
    <3> QED BY <3>1, <3>2, NothingSaid DEF Lines
  <2>5. \/ t \notin Comparable /\ trips' = trips /\ (reports' = reports \/ reports' = reports \o found)
        \/ /\ t \in Comparable /\ key \in DOMAIN trips /\ trips' = trips
           /\ reports' = reports \o found \o Report("duplicate_trip", t, trips[key], 0)
        \/ /\ t \in Comparable /\ key \notin DOMAIN trips /\ trips' = With(trips, key, t)
           /\ reports' = reports \o found
    <3>1. t \in Comparable <=> feed.trips[t].route \in DOMAIN feed.routes /\ feed.trips[t].times # <<>>
      BY <2>2 DEF Comparable
    <3> HIDE DEF found, key
    <3> QED BY <1>8, <2>1, <3>1 DEF ValidateTrip, found, key
  <2> HIDE DEF found, key, line0
  <2>6. Said(reports \o found, "duplicate_trip") = Said(reports, "duplicate_trip") /\ IsSeq(reports \o found)
    <3>1. IsSeq(reports \o found)
      BY <1>1, <2>4, ConcatFacts
    <3>2. Said(reports \o found, "duplicate_trip") = Said(reports, "duplicate_trip") \cup Said(found, "duplicate_trip")
      BY <1>1, <2>4, ConcatSaid
    <3> QED BY <2>4, <3>1, <3>2
  <2>7. CASE t \notin Comparable /\ trips' = trips /\ (reports' = reports \/ reports' = reports \o found)
    BY <1>6, <2>3, <2>6, <2>7
  <2>8. CASE /\ t \in Comparable /\ key \in DOMAIN trips /\ trips' = trips
             /\ reports' = reports \o found \o Report("duplicate_trip", t, trips[key], 0)
    <3>1. Said(reports', "duplicate_trip") = Said(reports, "duplicate_trip") \cup {line0}
      <4>1. IsSeq(Report("duplicate_trip", t, trips[key], 0))
        BY ReportLines DEF Lines
      <4>2. Said(Report("duplicate_trip", t, trips[key], 0), "duplicate_trip") = {line0}
        BY ReportSaid DEF line0
      <4> QED BY <2>6, <2>8, <4>1, <4>2, ConcatSaid
    <3>2. trips[key] # t
      BY <1>4, <2>2, <2>8
    <3>3. \A k : k \in DOMAIN trips <=> \E u \in Comparable : TripDone(u)' /\ TripKey(u) = k
      BY <1>4, <2>3, <2>8 DEF key
    <3>4. ASSUME NEW line
          PROVE  line \in Said(reports', "duplicate_trip") <=>
                    \E u \in Comparable :
                        /\ TripDone(u)' /\ trips[TripKey(u)] # u
                        /\ line = <<"duplicate_trip", u, trips[TripKey(u)], 0>>
      BY <1>5, <2>3, <2>8, <3>1, <3>2 DEF key, line0
    <3>5. \A k \in DOMAIN trips : \E first \in Comparable :
             /\ trips[k] = first /\ TripDone(first)' /\ TripKey(first) = k
             /\ \A u \in Comparable : TripKey(u) = k /\ u # first => TripBefore(first, u)
      BY <1>4, <2>3
    <3> QED BY <1>1, <1>2, <2>8, <3>3, <3>4, <3>5 DEF DuplicatesInv
  <2>9. CASE /\ t \in Comparable /\ key \notin DOMAIN trips /\ trips' = With(trips, key, t)
             /\ reports' = reports \o found
    <3>1. /\ DOMAIN trips' = DOMAIN trips \cup {key} /\ trips'[key] = t
          /\ \A k \in DOMAIN trips : trips'[k] = trips[k]
      <4>1. PICK map, m : map = trips /\ m = key
        OBVIOUS
      <4>2. /\ DOMAIN With(map, m, t) = DOMAIN map \cup {m} /\ With(map, m, t)[m] = t
            /\ \A y \in DOMAIN map : y # m => With(map, m, t)[y] = map[y]
        BY DEF With
      <4> QED BY <2>9, <4>1, <4>2, Zenon
    <3>2. \A k : k \in DOMAIN trips' <=> \E u \in Comparable : TripDone(u)' /\ TripKey(u) = k
      BY <1>4, <2>3, <2>9, <3>1 DEF key
    <3>3. \A u \in Comparable : TripKey(u) = key /\ u # t => TripBefore(t, u)
      <4> SUFFICES ASSUME NEW u \in Comparable, TripKey(u) = key, u # t PROVE TripBefore(t, u)
        OBVIOUS
      <4>1. ~ TripDone(u) /\ u \in DOMAIN feed.trips
        BY <1>4, <2>9 DEF Comparable
      <4> QED BY <2>2, <4>1
    <3>4. ASSUME NEW k \in DOMAIN trips'
          PROVE  \E first \in Comparable :
                    /\ trips'[k] = first /\ TripDone(first)' /\ TripKey(first) = k
                    /\ \A u \in Comparable : TripKey(u) = k /\ u # first => TripBefore(first, u)
      <4>1. CASE k \in DOMAIN trips
        BY <1>4, <2>3, <3>1, <4>1
      <4>2. CASE k = key
        BY <2>3, <2>9, <3>1, <3>3, <4>2 DEF key
      <4> QED BY <3>1, <4>1, <4>2
    <3>5. \A u \in Comparable : TripDone(u) => trips'[TripKey(u)] = trips[TripKey(u)]
      BY <1>4, <3>1
    <3>6. trips'[TripKey(t)] = t
      BY <3>1 DEF key
    <3>7. ASSUME NEW line
          PROVE  line \in Said(reports', "duplicate_trip") <=>
                    \E u \in Comparable :
                        /\ TripDone(u)' /\ trips'[TripKey(u)] # u
                        /\ line = <<"duplicate_trip", u, trips'[TripKey(u)], 0>>
      <4>1. \A u \in Comparable :
               TripDone(u)' /\ trips'[TripKey(u)] # u <=> TripDone(u) /\ trips[TripKey(u)] # u
        BY <2>2, <2>3, <3>5, <3>6
      <4> QED BY <1>5, <2>6, <2>9, <3>5, <4>1
    <3> QED BY <1>1, <1>2, <3>2, <3>4, <3>7 DEF DuplicatesInv
  <2> QED BY <2>5, <2>7, <2>8, <2>9
<1> QED BY <1>7, <1>8

-----------------------------------------------------------------------------
(* Stops of both bus and subway routes.                                    *)

\* A visit is a trip and the place of one of its stop times.
StopOf(v)  == feed.trips[v[1]].times[v[2]].stop
RouteOf(v) == feed.trips[v[1]].route
TypeOf(v)  == feed.routes[RouteOf(v)].type

\* The visits validate_trips looks at.
Counted(v) == RouteOf(v) \in DOMAIN feed.routes /\ TypeOf(v) \in {Subway, Bus}

\* A visit of V brings the route r of some type to stop i.
Seen(V, i, r, type) ==
    /\ r \in DOMAIN feed.routes /\ feed.routes[r].type = type
    /\ \E v \in V : StopOf(v) = i /\ RouteOf(v) = r

Hits(R, i) == {k \in DOMAIN R : R[k][1] = "multiple_route_types" /\ R[k][2] = i}

\* The one report on stop i names two routes of V.
ReportedOnce(R, V, i) ==
    \E k \in DOMAIN R : Hits(R, i) = {k} /\ Seen(V, i, R[k][3], Subway) /\ Seen(V, i, R[k][4], Bus)

\* What the map types and the reports R say of the visits V.
TypesAreRight(types, R, V) ==
    /\ \A v \in V : Counted(v) =>
          StopOf(v) \in DOMAIN types /\ (types[StopOf(v)][3] = 0 => TypeOf(v) = types[StopOf(v)][2])
    /\ \A i \in DOMAIN types :
          /\ types[i][2] \in {Subway, Bus} /\ types[i][3] \in {0, 1}
          /\ Seen(V, i, types[i][1], types[i][2])
          /\ types[i][3] = 1 => ReportedOnce(R, V, i)
    /\ \A k \in DOMAIN R : R[k][1] = "multiple_route_types" =>
          R[k][2] \in DOMAIN types /\ types[R[k][2]][3] = 1

(* Visits that do not count change nothing.                                *)
LEMMA TypesOfMore ==
    ASSUME NEW types, NEW R, NEW V, NEW W, TypesAreRight(types, R, V), V \subseteq W,
           \A v \in W : v \in V \/ ~ Counted(v)
    PROVE  TypesAreRight(types, R, W)
<1>1. \A i, r, type : Seen(V, i, r, type) => Seen(W, i, r, type)
  BY DEF Seen
<1>2. \A i : ReportedOnce(R, V, i) => ReportedOnce(R, W, i)
  BY <1>1 DEF ReportedOnce
<1> QED BY <1>1, <1>2 DEF TypesAreRight

(* Nor do reports of other kinds.                                          *)
LEMMA TypesOfGrown ==
    ASSUME NEW types, NEW R, NEW Q, NEW V, NEW K, TypesAreRight(types, R, V),
           Grows(R, Q, K), "multiple_route_types" \notin K
    PROVE  TypesAreRight(types, Q, V)
<1>1. ASSUME NEW k \in DOMAIN Q, Q[k][1] = "multiple_route_types" PROVE k \in DOMAIN R /\ Q[k] = R[k]
  <2>1. k <= Len(R)
    BY <1>1 DEF Grows
  <2> QED BY <2>1 DEF Grows
<1>2. \A k \in DOMAIN R : k \in DOMAIN Q /\ Q[k] = R[k]
  BY DEF Grows
<1>3. \A i : Hits(Q, i) = Hits(R, i)
  BY <1>1, <1>2 DEF Hits
<1>4. \A i : ReportedOnce(R, V, i) => ReportedOnce(Q, V, i)
  BY <1>2, <1>3 DEF ReportedOnce
<1> QED BY <1>1, <1>4 DEF TypesAreRight

(* The first route of a counted type at a stop.                            *)
LEMMA TypesOfFirst ==
    ASSUME NEW types, NEW R, NEW V, NEW v, TypesAreRight(types, R, V), Counted(v),
           StopOf(v) \notin DOMAIN types
    PROVE  TypesAreRight(With(types, StopOf(v), <<RouteOf(v), TypeOf(v), 0>>), R, V \cup {v})
<1>1. PICK s, r, type : s = StopOf(v) /\ r = RouteOf(v) /\ type = TypeOf(v)
  OBVIOUS
<1>2. PICK new : new = With(types, s, <<r, type, 0>>)
  OBVIOUS
<1>3. /\ DOMAIN new = DOMAIN types \cup {s} /\ new[s] = <<r, type, 0>>
      /\ \A i \in DOMAIN types : i # s => new[i] = types[i]
  BY <1>2 DEF With
<1>4. s \notin DOMAIN types
  BY <1>1
<1> DEFINE W == V \cup {v}
<1>5. \A i, q, y : Seen(V, i, q, y) => Seen(W, i, q, y)
  BY DEF Seen
<1>6. \A i : ReportedOnce(R, V, i) => ReportedOnce(R, W, i)
  BY <1>5 DEF ReportedOnce
<1>7. Seen(W, s, r, type)
  BY <1>1 DEF Seen, Counted, TypeOf
<1>8. new[s][1] = r /\ new[s][2] = type /\ new[s][3] = 0 /\ type \in {Subway, Bus}
  BY <1>1, <1>3 DEF Counted
<1>9. ASSUME NEW u \in W, Counted(u)
      PROVE  StopOf(u) \in DOMAIN new /\ (new[StopOf(u)][3] = 0 => TypeOf(u) = new[StopOf(u)][2])
  <2>1. CASE u = v
    BY <1>1, <1>3, <1>8, <2>1
  <2>2. CASE u \in V
    <3>1. StopOf(u) \in DOMAIN types
      BY <1>9, <2>2 DEF TypesAreRight
    <3>2. new[StopOf(u)] = types[StopOf(u)]
      BY <1>3, <1>4, <3>1
    <3> QED BY <1>3, <1>9, <2>2, <3>1, <3>2 DEF TypesAreRight
  <2> QED BY <2>1, <2>2
<1>10. ASSUME NEW i \in DOMAIN new
       PROVE  /\ new[i][2] \in {Subway, Bus} /\ new[i][3] \in {0, 1}
              /\ Seen(W, i, new[i][1], new[i][2])
              /\ new[i][3] = 1 => ReportedOnce(R, W, i)
  <2>1. CASE i = s
    BY <1>7, <1>8, <2>1
  <2>2. CASE i \in DOMAIN types
    <3>1. new[i] = types[i]
      BY <1>3, <1>4, <2>2
    <3> QED BY <1>5, <1>6, <2>2, <3>1 DEF TypesAreRight
  <2> QED BY <1>3, <2>1, <2>2
<1>11. \A k \in DOMAIN R : R[k][1] = "multiple_route_types" =>
          R[k][2] \in DOMAIN new /\ new[R[k][2]][3] = 1
  BY <1>3, <1>4 DEF TypesAreRight
<1>12. TypesAreRight(new, R, W)
  BY <1>9, <1>10, <1>11 DEF TypesAreRight
<1> QED BY <1>1, <1>2, <1>12

(* The first route of the other type.                                      *)
LEMMA TypesOfBoth ==
    ASSUME NEW types, NEW R, NEW V, NEW v, TypesAreRight(types, R, V), Counted(v), IsSeq(R),
           StopOf(v) \in DOMAIN types, types[StopOf(v)][2] # TypeOf(v), types[StopOf(v)][3] = 0,
           NEW new, new = [types EXCEPT ![StopOf(v)] = <<types[StopOf(v)][1], types[StopOf(v)][2], 1>>],
           NEW subway, NEW bus,
           subway = IF types[StopOf(v)][2] = Subway THEN types[StopOf(v)][1] ELSE RouteOf(v),
           bus = IF types[StopOf(v)][2] = Subway THEN RouteOf(v) ELSE types[StopOf(v)][1]
    PROVE  TypesAreRight(new, Append(R, <<"multiple_route_types", StopOf(v), subway, bus>>), V \cup {v})
<1>1. PICK s, r, type, first : s = StopOf(v) /\ r = RouteOf(v) /\ type = TypeOf(v) /\ first = types[s]
  OBVIOUS
<1>2. /\ first[2] # type /\ first[3] = 0 /\ s \in DOMAIN types /\ type \in {Subway, Bus}
      /\ subway = (IF first[2] = Subway THEN first[1] ELSE r)
      /\ bus = (IF first[2] = Subway THEN r ELSE first[1])
      /\ new = [types EXCEPT ![s] = <<first[1], first[2], 1>>]
  BY <1>1 DEF Counted
<1>3. /\ DOMAIN new = DOMAIN types /\ new[s] = <<first[1], first[2], 1>>
      /\ \A i \in DOMAIN types : i # s => new[i] = types[i]
  BY <1>2
<1>4. new[s][1] = first[1] /\ new[s][2] = first[2] /\ new[s][3] = 1
  BY <1>3
<1> DEFINE W == V \cup {v}
           line == <<"multiple_route_types", s, subway, bus>>
<1>5. PICK Q, n : Q = Append(R, line) /\ n = Len(R)
  OBVIOUS
<1>6. /\ n \in Nat /\ DOMAIN R = 1 .. n /\ DOMAIN Q = 1 .. n + 1 /\ Q[n + 1] = line
      /\ \A k \in 1 .. n : Q[k] = R[k]
  <2>1. PICK S : R \in Seq(S)
    BY DEF IsSeq
  <2> HIDE DEF line
  <2>2. R \in Seq(S \cup {line})
    BY <2>1
  <2> QED BY <1>5, <2>2
<1>7. line[1] = "multiple_route_types" /\ line[2] = s /\ line[3] = subway /\ line[4] = bus
  OBVIOUS
<1> HIDE DEF line
<1>8. \A k \in DOMAIN Q : k \in DOMAIN R \/ k = n + 1
  BY <1>6
<1>9. n + 1 \in DOMAIN Q /\ n + 1 \notin DOMAIN R /\ DOMAIN R \subseteq DOMAIN Q
  BY <1>6
<1>10. Hits(R, s) = {}
  BY <1>1, <1>2 DEF Hits, TypesAreRight
<1>11. Hits(Q, s) = {n + 1} /\ \A i : i # s => Hits(Q, i) = Hits(R, i)
  BY <1>6, <1>7, <1>8, <1>9, <1>10 DEF Hits
<1>12. \A i, q, y : Seen(V, i, q, y) => Seen(W, i, q, y)
  BY DEF Seen
<1>13. \A i : i # s /\ ReportedOnce(R, V, i) => ReportedOnce(Q, W, i)
  <2> SUFFICES ASSUME NEW i, i # s, ReportedOnce(R, V, i) PROVE ReportedOnce(Q, W, i)
    OBVIOUS
  <2>1. PICK k \in DOMAIN R : Hits(R, i) = {k} /\ Seen(V, i, R[k][3], Subway) /\ Seen(V, i, R[k][4], Bus)
    BY DEF ReportedOnce
  <2>2. k \in DOMAIN Q /\ Q[k] = R[k] /\ Hits(Q, i) = {k}
    BY <1>6, <1>9, <1>11, <2>1
  <2>3. Seen(W, i, Q[k][3], Subway) /\ Seen(W, i, Q[k][4], Bus)
    BY <1>12, <2>1, <2>2
  <2> QED BY <2>2, <2>3 DEF ReportedOnce
<1>14. Seen(W, s, r, type)
  BY <1>1 DEF Seen, Counted, TypeOf
<1>15. Seen(W, s, first[1], first[2]) /\ first[2] \in {Subway, Bus}
  BY <1>1, <1>2, <1>12 DEF TypesAreRight
<1>16. Seen(W, s, subway, Subway) /\ Seen(W, s, bus, Bus)
  <2>1. CASE first[2] = Subway
    <3>1. type = Bus
      BY <1>2, <2>1
    <3> QED BY <1>2, <1>14, <1>15, <2>1, <3>1
  <2>2. CASE first[2] # Subway
    <3>1. first[2] = Bus /\ type = Subway
      BY <1>2, <1>15, <2>2
    <3> QED BY <1>2, <1>14, <1>15, <2>2, <3>1
  <2> QED BY <2>1, <2>2
<1>17. ReportedOnce(Q, W, s)
  BY <1>6, <1>7, <1>9, <1>11, <1>16 DEF ReportedOnce
<1>18. ASSUME NEW u \in W, Counted(u)
       PROVE  StopOf(u) \in DOMAIN new /\ (new[StopOf(u)][3] = 0 => TypeOf(u) = new[StopOf(u)][2])
  <2>1. CASE StopOf(u) = s
    <3>1. 1 # 0
      OBVIOUS
    <3> QED BY <1>2, <1>3, <1>4, <2>1, <3>1
  <2>2. CASE StopOf(u) # s
    <3>1. u \in V
      BY <1>1, <2>2
    <3>2. StopOf(u) \in DOMAIN types
      BY <1>18, <3>1 DEF TypesAreRight
    <3>3. new[StopOf(u)] = types[StopOf(u)]
      BY <1>3, <2>2, <3>2
    <3> QED BY <1>3, <1>18, <3>1, <3>2, <3>3 DEF TypesAreRight
  <2> QED BY <2>1, <2>2
<1>19. ASSUME NEW i \in DOMAIN new
       PROVE  /\ new[i][2] \in {Subway, Bus} /\ new[i][3] \in {0, 1}
              /\ Seen(W, i, new[i][1], new[i][2])
              /\ new[i][3] = 1 => ReportedOnce(Q, W, i)
  <2>1. CASE i = s
    BY <1>4, <1>15, <1>17, <2>1
  <2>2. CASE i # s
    <3>1. new[i] = types[i] /\ i \in DOMAIN types
      BY <1>3, <2>2
    <3> QED BY <1>12, <1>13, <2>2, <3>1 DEF TypesAreRight
  <2> QED BY <2>1, <2>2
<1>20. ASSUME NEW k \in DOMAIN Q, Q[k][1] = "multiple_route_types"
       PROVE  Q[k][2] \in DOMAIN new /\ new[Q[k][2]][3] = 1
  <2>1. CASE k = n + 1
    BY <1>2, <1>3, <1>4, <1>6, <1>7, <2>1
  <2>2. CASE k \in DOMAIN R
    <3>1. Q[k] = R[k]
      BY <1>6, <2>2
    <3>2. R[k][2] \in DOMAIN types /\ types[R[k][2]][3] = 1
      BY <1>20, <2>2, <3>1 DEF TypesAreRight
    <3>3. R[k][2] # s
      BY <1>1, <1>2, <3>2
    <3> QED BY <1>3, <3>1, <3>2, <3>3
  <2> QED BY <1>8, <2>1, <2>2
<1>21. TypesAreRight(new, Q, W)
  BY <1>18, <1>19, <1>20 DEF TypesAreRight
<1> QED BY <1>1, <1>5, <1>21 DEF line

(* A visit that shows nothing new.                                         *)
LEMMA TypesOfKnown ==
    ASSUME NEW types, NEW R, NEW V, NEW v, TypesAreRight(types, R, V),
           Counted(v) => /\ StopOf(v) \in DOMAIN types
                         /\ types[StopOf(v)][2] = TypeOf(v) \/ types[StopOf(v)][3] # 0
    PROVE  TypesAreRight(types, R, V \cup {v})
<1> DEFINE W == V \cup {v}
<1>1. \A i, r, type : Seen(V, i, r, type) => Seen(W, i, r, type)
  BY DEF Seen
<1>2. \A i : ReportedOnce(R, V, i) => ReportedOnce(R, W, i)
  BY <1>1 DEF ReportedOnce
<1> QED BY <1>1, <1>2 DEF TypesAreRight

(* One stop time of the walk.                                              *)
LEMMA TypesOfVisit ==
    ASSUME TypeInv, NEW t \in DOMAIN feed.trips, feed.trips[t].route \in DOMAIN feed.routes,
           NEW k, NEW acc \in Mark, NEW V, NEW next,
           next = StopTypesAfter(acc, feed.trips[t].times[k], t),
           TypesAreRight(acc.types, reports \o acc.found, V)
    PROVE  TypesAreRight(next.types, reports \o next.found, V \cup {<<t, k>>})
<1>1. PICK v : v = <<t, k>>
  OBVIOUS
<1>2. PICK s, r, type : s = feed.trips[t].times[k].stop /\ r = feed.trips[t].route /\ type = RouteType(t)
  OBVIOUS
<1>3. StopOf(v) = s /\ RouteOf(v) = r /\ TypeOf(v) = type /\ (Counted(v) <=> type \in {Subway, Bus})
  BY <1>1, <1>2 DEF StopOf, RouteOf, TypeOf, Counted, RouteType
<1>4. PICK types, found : types = acc.types /\ found = acc.found
  OBVIOUS
<1> DEFINE first == types[s]
           subway == IF first[2] = Subway THEN first[1] ELSE r
           bus    == IF first[2] = Subway THEN r ELSE first[1]
           new  == With(types, s, <<r, type, 0>>)
           both == [types EXCEPT ![s] = <<first[1], first[2], 1>>]
           line == <<"multiple_route_types", s, subway, bus>>
<1>5. next = IF type \notin {Subway, Bus} THEN acc
             ELSE IF s \notin DOMAIN types THEN [acc EXCEPT !.types = new]
             ELSE IF first[2] # type /\ first[3] = 0 THEN [types |-> both, found |-> Append(found, line)]
             ELSE acc
  BY <1>2, <1>4, Zenon DEF StopTypesAfter
<1>6. /\ acc = [types |-> types, found |-> found]
      /\ found \in Seq({"multiple_route_types"} \X Nat \X Nat \X Nat)
      /\ TypesAreRight(types, reports \o found, V)
  BY <1>4 DEF Mark
<1>7. IsSeq(reports) /\ IsSeq(found) /\ IsSeq(reports \o found)
  <2>1. IsSeq(reports) /\ IsSeq(found)
    BY <1>6 DEF TypeInv, IsSeq
  <2> QED BY <2>1, ConcatFacts
<1>8. PICK R : R = reports \o found
  OBVIOUS
<1>9. CASE type \in {Subway, Bus} /\ s \notin DOMAIN types
  <2> HIDE DEF new, both, line, first
  <2>1. next.types = new /\ next.found = found
    BY <1>5, <1>6, <1>9
  <2>2. TypesAreRight(new, R, V \cup {v})
    BY <1>3, <1>6, <1>8, <1>9, TypesOfFirst DEF new
  <2> QED BY <1>1, <1>8, <2>1, <2>2
<1>10. CASE type \in {Subway, Bus} /\ s \in DOMAIN types /\ first[2] # type /\ first[3] = 0
  <2>1. next.types = both /\ next.found = Append(found, line)
    <3> HIDE DEF new, both, line, first
    <3> QED BY <1>5, <1>10
  <2>2. PICK b, x, y : b = both /\ x = subway /\ y = bus
    OBVIOUS
  <2>3. /\ b = [types EXCEPT ![StopOf(v)] = <<types[StopOf(v)][1], types[StopOf(v)][2], 1>>]
        /\ x = IF types[StopOf(v)][2] = Subway THEN types[StopOf(v)][1] ELSE RouteOf(v)
        /\ y = IF types[StopOf(v)][2] = Subway THEN RouteOf(v) ELSE types[StopOf(v)][1]
    BY <1>3, <2>2, Zenon
  <2>4. /\ Counted(v) /\ StopOf(v) \in DOMAIN types
        /\ types[StopOf(v)][2] # TypeOf(v) /\ types[StopOf(v)][3] = 0
    BY <1>3, <1>10, Zenon
  <2>5. TypesAreRight(b, Append(R, <<"multiple_route_types", StopOf(v), x, y>>), V \cup {v})
    BY <1>6, <1>7, <1>8, <2>3, <2>4, TypesOfBoth
  <2>6. Append(R, line) = reports \o Append(found, line)
    <3> HIDE DEF line
    <3>1. PICK S, T : reports \in Seq(S) /\ found \in Seq(T)
      BY <1>7 DEF IsSeq
    <3>2. PICK U : U = S \cup T \cup {line}
      OBVIOUS
    <3>3. reports \in Seq(U) /\ found \in Seq(U) /\ line \in U
      BY <3>1, <3>2
    <3> QED BY <1>8, <3>3
  <2>7. line = <<"multiple_route_types", StopOf(v), x, y>>
    BY <1>3, <2>2, Zenon
  <2> HIDE DEF line, both
  <2> QED BY <1>1, <2>1, <2>2, <2>5, <2>6, <2>7
<1>11. CASE ~ (type \in {Subway, Bus} /\ s \notin DOMAIN types)
            /\ ~ (type \in {Subway, Bus} /\ s \in DOMAIN types /\ first[2] # type /\ first[3] = 0)
  <2>1. next = acc
    <3> HIDE DEF new, both, line, first
    <3> QED BY <1>5, <1>11
  <2>2. Counted(v) => /\ StopOf(v) \in DOMAIN types
                      /\ types[StopOf(v)][2] = TypeOf(v) \/ types[StopOf(v)][3] # 0
    BY <1>3, <1>11, Zenon
  <2>3. TypesAreRight(types, R, V \cup {v})
    BY <1>6, <1>8, <2>2, TypesOfKnown
  <2> QED BY <1>1, <1>4, <1>8, <2>1, <2>3
<1> QED BY <1>9, <1>10, <1>11

(* The walk over the stop times of a trip.                                 *)
LEMMA TypesOfWalk ==
    ASSUME TypeInv, NEW t \in DOMAIN feed.trips, feed.trips[t].route \in DOMAIN feed.routes,
           NEW V, TypesAreRight(stop_types, reports, V)
    PROVE  TypesAreRight(StopTypesMarked(t).types, reports \o StopTypesMarked(t).found,
                         V \cup ({t} \X DOMAIN feed.trips[t].times))
<1>1. feed.trips[t].times \in Seq(TimeRow)
  <2>1. feed.trips[t] \in TripRow
    BY FeedFacts
  <2> QED BY <2>1 DEF TripRow
<1>2. PICK n : n = Len(feed.trips[t].times)
  OBVIOUS
<1>3. n \in Nat /\ DOMAIN feed.trips[t].times = 1 .. n
  BY <1>1, <1>2
<1>4. PICK acc \in [0 .. n -> Mark] :
         /\ acc[0] = [types |-> stop_types, found |-> <<>>]
         /\ \A k \in 1 .. n : acc[k] = StopTypesAfter(acc[k - 1], feed.trips[t].times[k], t)
         /\ StopTypesMarked(t) = acc[n]
  BY <1>2, Marking
<1> DEFINE W(k) == V \cup ({t} \X (1 .. k))
           P == {k \in 0 .. n : TypesAreRight(acc[k].types, reports \o acc[k].found, W(k))}
<1>5. 0 \in P
  <2>1. W(0) = V
    OBVIOUS
  <2>2. PICK S : reports \in Seq(S)
    BY DEF TypeInv, IsSeq
  <2>3. reports \o <<>> = reports
    BY <2>2
  <2>4. acc[0].types = stop_types /\ acc[0].found = <<>>
    BY <1>4
  <2>5. TypesAreRight(acc[0].types, reports \o acc[0].found, W(0))
    <3> HIDE DEF W
    <3> QED BY <2>1, <2>3, <2>4
  <2> QED BY <1>3, <2>5
<1>6. ASSUME NEW k \in 1 .. n, k - 1 \in P
      PROVE  k \in P
  <2>1. k \in 0 .. n /\ k - 1 \in 0 .. n
    BY <1>3
  <2>2. PICK a, b : a = acc[k - 1] /\ b = acc[k]
    OBVIOUS
  <2>3. a \in Mark /\ b = StopTypesAfter(a, feed.trips[t].times[k], t)
    BY <1>4, <2>1, <2>2
  <2>4. TypesAreRight(a.types, reports \o a.found, W(k - 1))
    BY <1>6, <2>2
  <2>5. PICK X : X = W(k - 1)
    OBVIOUS
  <2>6. TypesAreRight(b.types, reports \o b.found, X \cup {<<t, k>>})
    BY <2>3, <2>4, <2>5, TypesOfVisit
  <2>7. X \cup {<<t, k>>} = W(k)
    <3>1. \A j : j \in 1 .. k <=> j \in 1 .. k - 1 \/ j = k
      BY <1>3
    <3> QED BY <2>5, <3>1
  <2> QED BY <2>1, <2>2, <2>6, <2>7
<1>7. n \in P
  <2> HIDE DEF P
  <2>1. P \in SUBSET Nat
    BY <1>3 DEF P
  <2>2. 0 .. n \subseteq P
    BY <1>3, <1>5, <1>6, <2>1, Induction
  <2> QED BY <1>3, <2>2
<1> QED BY <1>3, <1>4, <1>7

\* The visits of the trips that are done.
AllVisits == {v \in (DOMAIN feed.trips) \X Nat : v[2] \in DOMAIN feed.trips[v[1]].times}
VisitsDone == {v \in AllVisits : TripDone(v[1])}

TypesInv == pass # "raised" => TypesAreRight(stop_types, reports, VisitsDone)

(* TypesAreRight does not depend on anything but the feed.                 *)
LEMMA TypesCarried ==
    ASSUME feed' = feed, NEW types, NEW R, NEW V, TypesAreRight(types, R, V)
    PROVE  TypesAreRight(types, R, V)'
<1>1. \A v : /\ StopOf(v)' = StopOf(v) /\ TypeOf(v)' = TypeOf(v) /\ RouteOf(v)' = RouteOf(v)
             /\ Counted(v)' <=> Counted(v)
  BY DEF StopOf, TypeOf, RouteOf, Counted
<1>2. \A i, r, type : Seen(V, i, r, type)' <=> Seen(V, i, r, type)
  BY <1>1 DEF Seen
<1>3. \A i : ReportedOnce(R, V, i)' <=> ReportedOnce(R, V, i)
  BY <1>2 DEF ReportedOnce, Hits
<1> QED BY <1>1, <1>2, <1>3 DEF TypesAreRight

LEMMA TypesStep ==
    ASSUME TypeInv, TypesInv, [Next]_vars
    PROVE  TypesInv'
<1> SUFFICES ASSUME pass' # "raised" PROVE TypesInv'
  BY DEF TypesInv
<1>0. Moves
  BY StepMoves
<1>1. pass \in Passes /\ IsSeq(reports) /\ feed' = feed /\ pass # "raised"
  BY <1>0, NotRaised DEF TypeInv, Moves
<1>2. AllVisits' = AllVisits
  BY <1>1 DEF AllVisits
<1>3. \A u \in DOMAIN feed.trips : TripDone(u)' <=> TripDone(u) \/ (ValidateTrip /\ u = SortedTrips[at])
  BY TripTurn
<1>4. PICK V, W : V = VisitsDone /\ W = VisitsDone'
  OBVIOUS
<1>5. /\ V = {v \in AllVisits : TripDone(v[1])}
      /\ W = {v \in AllVisits : TripDone(v[1])'}
  BY <1>2, <1>4 DEF VisitsDone
<1>6. TypesAreRight(stop_types, reports, V)
  BY <1>1, <1>4 DEF TypesInv
<1>7. \A v \in AllVisits : v[1] \in DOMAIN feed.trips
  BY DEF AllVisits
<1>8. SUFFICES TypesAreRight(stop_types', reports', W)
  <2>1. PICK types, R : types = stop_types' /\ R = reports'
    OBVIOUS
  <2>2. TypesAreRight(types, R, W)
    BY <1>8, <2>1
  <2>3. TypesAreRight(types, R, W)'
    BY <1>1, <2>2, TypesCarried
  <2> QED BY <1>4, <2>1, <2>3 DEF TypesInv
<1>9. CASE ~ ValidateTrip
  <2>1. W = V
    BY <1>3, <1>5, <1>7, <1>9
  <2>2. CASE pass # "trips"
    <3>1. stop_types' = stop_types /\ Grows(reports, reports', Kinds(pass))
      BY <1>0, <2>2 DEF Moves
    <3>2. "multiple_route_types" \notin Kinds(pass)
      BY <1>1, <2>2, OwnKinds
    <3>3. PICK types, R, Q, K : types = stop_types /\ R = reports /\ Q = reports' /\ K = Kinds(pass)
      OBVIOUS
    <3>4. TypesAreRight(types, Q, V)
      BY <1>6, <3>1, <3>2, <3>3, TypesOfGrown
    <3> QED BY <2>1, <3>1, <3>3, <3>4
  <2>3. CASE pass = "trips"
    <3>1. NextPass \/ UNCHANGED vars
      BY <1>9, <2>3, OwnSteps
    <3>2. reports' = reports /\ stop_types' = stop_types
      BY <3>1 DEF NextPass, vars, tables
    <3> QED BY <1>6, <2>1, <3>2
  <2> QED BY <2>2, <2>3
<1>10. CASE ValidateTrip
  <2>1. PICK t : t = SortedTrips[at]
    OBVIOUS
  <2>2. t \in DOMAIN feed.trips
    BY <1>10, <2>1, TurnOfTrip
  <2>3. W = V \cup ({t} \X DOMAIN feed.trips[t].times)
    <3>1. \A v \in AllVisits : v \in W <=> v \in V \/ v[1] = t
      BY <1>3, <1>5, <1>7, <1>10, <2>1
    <3>2. \A v : v \in {t} \X DOMAIN feed.trips[t].times <=> v \in AllVisits /\ v[1] = t
      <4>1. DOMAIN feed.trips[t].times \subseteq Nat
        <5>1. feed.trips[t] \in TripRow
          BY <2>2, FeedFacts
        <5>2. feed.trips[t].times \in Seq(TimeRow)
          BY <5>1 DEF TripRow
        <5> QED BY <5>2
      <4> QED BY <2>2, <4>1 DEF AllVisits
    <3>3. V \subseteq AllVisits /\ W \subseteq AllVisits
      BY <1>5
    <3> QED BY <3>1, <3>2, <3>3
  <2>4. CASE feed.trips[t].route \notin DOMAIN feed.routes
    <3>1. reports' = reports /\ stop_types' = stop_types
      BY <1>10, <2>1, <2>4 DEF ValidateTrip
    <3>2. \A v \in W : v \in V \/ ~ Counted(v)
      BY <2>3, <2>4 DEF Counted, RouteOf
    <3>3. PICK types, R : types = stop_types /\ R = reports
      OBVIOUS
    <3>4. TypesAreRight(types, R, W)
      BY <1>6, <2>3, <3>2, <3>3, TypesOfMore
    <3> QED BY <3>1, <3>3, <3>4
  <2>5. CASE feed.trips[t].route \in DOMAIN feed.routes
    <3> DEFINE found == StopTypesMarked(t).found
    <3>1. TypesAreRight(StopTypesMarked(t).types, reports \o found, W)
      BY <1>6, <2>2, <2>3, <2>5, TypesOfWalk
    <3>2. /\ stop_types' = StopTypesMarked(t).types
          /\ \/ reports' = reports \o found
             \/ reports' = reports \o found \o Report("duplicate_trip", t, trips[TripKey(t)], 0)
      BY <1>10, <2>1, <2>5 DEF ValidateTrip
    <3>3. IsSeq(reports \o found)
      <4>1. IsSeq(found)
        BY <2>2, MarkedLines DEF Lines
      <4> HIDE DEF found
      <4> QED BY <1>1, <4>1, ConcatFacts
    <3>4. PICK types, R, s, K : /\ types = stop_types' /\ R = reports \o found /\ K = {"duplicate_trip"}
                                /\ s = Report("duplicate_trip", t, trips[TripKey(t)], 0)
      OBVIOUS
    <3>5. Grows(R, R \o s, K) /\ "multiple_route_types" \notin K
      <4>1. Lines(s, K)
        BY <3>4, ReportLines
      <4>2. IsSeq(R)
        BY <3>3, <3>4
      <4> QED BY <3>4, <4>1, <4>2, ConcatGrows
    <3>6. TypesAreRight(types, R, W)
      BY <3>1, <3>2, <3>4
    <3>7. TypesAreRight(types, R \o s, W)
      BY <3>5, <3>6, TypesOfGrown
    <3> QED BY <3>2, <3>4, <3>6, <3>7
  <2> QED BY <2>4, <2>5
<1> QED BY <1>9, <1>10

(* What the reports say of a stop when every trip is done.                 *)
LEMMA TypesReported ==
    ASSUME TypeInv, TypesInv, pass \in AfterTrips, NEW i \in DOMAIN stops
    PROVE  /\ Cardinality(TypeReports(i)) =
                 IF RoutesAt(i, Subway) # {} /\ RoutesAt(i, Bus) # {} THEN 1 ELSE 0
           /\ \A k \in TypeReports(i) : /\ reports[k][3] \in RoutesAt(i, Subway)
                                        /\ reports[k][4] \in RoutesAt(i, Bus)
<1>1. pass # "raised" /\ \A t : TripDone(t)
  BY LaterPasses DEF TripDone
<1>2. PICK types, R, V : types = stop_types /\ R = reports /\ V = AllVisits
  OBVIOUS
<1>3. TypesAreRight(types, R, V)
  <2>1. VisitsDone = AllVisits
    BY <1>1 DEF VisitsDone
  <2> QED BY <1>1, <1>2, <2>1 DEF TypesInv
<1>4. TypeReports(i) = Hits(R, i)
  BY <1>2 DEF TypeReports, Hits
<1>5. \A r, type : r \in RoutesAt(i, type) <=> Seen(V, i, r, type)
  <2>1. \A v : v \in StopTimesAt(i) <=> v \in V /\ StopOf(v) = i
    <3>1. \A t \in DOMAIN feed.trips : DOMAIN feed.trips[t].times \subseteq Nat
      <4> SUFFICES ASSUME NEW t \in DOMAIN feed.trips PROVE DOMAIN feed.trips[t].times \subseteq Nat
        OBVIOUS
      <4>1. feed.trips[t] \in TripRow
        BY FeedFacts
      <4>2. feed.trips[t].times \in Seq(TimeRow)
        BY <4>1 DEF TripRow
      <4> QED BY <4>2
    <3>2. \A v : v \in StopTimesAt(i) <=> \E t \in DOMAIN feed.trips : \E k \in DOMAIN feed.trips[t].times :
                     feed.trips[t].times[k].stop = i /\ v = <<t, k>>
      BY DEF StopTimesAt
    <3>3. \A v : v \in V <=> \E t \in DOMAIN feed.trips : \E k \in DOMAIN feed.trips[t].times : v = <<t, k>>
      BY <1>2, <3>1 DEF AllVisits
    <3>4. \A t, k : StopOf(<<t, k>>) = feed.trips[t].times[k].stop
      BY DEF StopOf
    <3> QED BY <3>2, <3>3, <3>4
  <2>2. \A r, type : r \in RoutesAt(i, type) <=>
           /\ r \in DOMAIN feed.routes /\ feed.routes[r].type = type
           /\ \E v \in StopTimesAt(i) : RouteOf(v) = r
    BY DEF RoutesAt, RouteOf
  <2> QED BY <2>1, <2>2 DEF Seen
<1>6. ASSUME NEW k \in Hits(R, i)
      PROVE  Hits(R, i) = {k} /\ Seen(V, i, R[k][3], Subway) /\ Seen(V, i, R[k][4], Bus)
  <2>1. i \in DOMAIN types /\ types[i][3] = 1
    BY <1>3 DEF TypesAreRight, Hits
  <2>2. PICK j \in DOMAIN R : Hits(R, i) = {j} /\ Seen(V, i, R[j][3], Subway) /\ Seen(V, i, R[j][4], Bus)
    BY <1>3, <2>1 DEF TypesAreRight, ReportedOnce
  <2>3. j = k
    BY <2>2
  <2> QED BY <2>2, <2>3
<1>7. \A k \in TypeReports(i) : reports[k][3] \in RoutesAt(i, Subway) /\ reports[k][4] \in RoutesAt(i, Bus)
  BY <1>2, <1>4, <1>5, <1>6
<1>8. CASE RoutesAt(i, Subway) # {} /\ RoutesAt(i, Bus) # {}
  <2>1. PICK r, q : Seen(V, i, r, Subway) /\ Seen(V, i, q, Bus)
    BY <1>5, <1>8
  <2>2. PICK v \in V, w \in V : /\ StopOf(v) = i /\ Counted(v) /\ TypeOf(v) = Subway
                                /\ StopOf(w) = i /\ Counted(w) /\ TypeOf(w) = Bus
    BY <2>1 DEF Seen, Counted, TypeOf
  <2>3. /\ i \in DOMAIN types
        /\ types[i][3] = 0 => types[i][2] = Subway /\ types[i][2] = Bus
    BY <1>3, <2>2 DEF TypesAreRight
  <2>4. types[i][3] = 1
    <3>1. Subway # Bus
      BY DEF Subway, Bus
    <3>2. types[i][3] \in {0, 1}
      BY <1>3, <2>3 DEF TypesAreRight
    <3> QED BY <2>3, <3>1, <3>2
  <2>5. PICK k : Hits(R, i) = {k}
    BY <1>3, <2>3, <2>4 DEF TypesAreRight, ReportedOnce
  <2>6. Cardinality(TypeReports(i)) = 1
    BY <1>4, <2>5, FS_Singleton
  <2> QED BY <1>7, <1>8, <2>6
<1>9. CASE ~ (RoutesAt(i, Subway) # {} /\ RoutesAt(i, Bus) # {})
  <2>1. TypeReports(i) = {}
    BY <1>7, <1>9
  <2>2. Cardinality(TypeReports(i)) = 0
    BY <2>1, FS_EmptySet
  <2> QED BY <1>7, <1>9, <2>2
<1> QED BY <1>8, <1>9

\* The invariants of the loops that keep the first object they meet.
FirstInv == NamesInv /\ DuplicatesInv /\ TypesInv

LEMMA FirstInit ==
    ASSUME Init
    PROVE  FirstInv
<1>1. /\ reports = <<>> /\ pass \in {"load stops", "frequencies"} /\ at = 1
      /\ route_names = EmptyMap /\ stop_types = EmptyMap /\ trips = EmptyMap
  BY DEF Init
<1>2. \A r : ~ RouteDone(r) /\ ~ TripDone(r)
  BY <1>1, LaterPasses DEF RouteDone, TripDone
<1>3. DOMAIN EmptyMap = {}
  BY DEF EmptyMap
<1>4. \A kind : Said(reports, kind) = {}
  <2> SUFFICES ASSUME NEW kind PROVE Said(reports, kind) = {}
    OBVIOUS
  <2>1. Lines(<<>>, {}) /\ kind \notin {}
    BY EmptyLines
  <2> QED BY <1>1, <2>1, NothingSaid
<1>5. NamesInv
  BY <1>1, <1>2, <1>3, <1>4 DEF NamesInv
<1>6. DuplicatesInv
  BY <1>1, <1>2, <1>3, <1>4 DEF DuplicatesInv
<1>7. TypesInv
  <2>1. VisitsDone = {}
    BY <1>2 DEF VisitsDone
  <2>2. DOMAIN reports = {}
    <3>1. <<>> \in Seq({}) /\ Len(<<>>) = 0
      OBVIOUS
    <3>2. DOMAIN <<>> = 1 .. 0
      BY <3>1, SeqAsFunction
    <3>3. 1 .. 0 = {}
      OBVIOUS
    <3>4. reports = <<>>
      BY <1>1
    <3> QED BY <3>2, <3>3, <3>4, Zenon
  <2> QED BY <1>1, <1>3, <2>1, <2>2 DEF TypesInv, TypesAreRight
<1> QED BY <1>5, <1>6, <1>7 DEF FirstInv

(* The loops of validate_route_names and validate_trips, which keep the    *)
(* first route of a name, the first route at a stop and the first trip of  *)
(* a key, report every other one and no stop twice, for every feed.        *)
THEOREM TripReportsExact == Spec => []TripReportsAreExact
<1>1. Init => TypeInv /\ FirstInv
  BY TypeInit, FirstInit
<1>2. TypeInv /\ FirstInv /\ [Next]_vars => (TypeInv /\ FirstInv)'
  BY StepMoves, NamesStep, DuplicatesStep, TypesStep DEF FirstInv
<1>3. TypeInv /\ FirstInv => TripReportsAreExact
  <2> SUFFICES ASSUME TypeInv, FirstInv PROVE TripReportsAreExact
    OBVIOUS
  <2>1. ASSUME Past("routes"), NEW r \in DOMAIN feed.routes
        PROVE  FirstComeReported("same_name",
                   {q \in DOMAIN feed.routes : feed.routes[q].name[1] = feed.routes[r].name[1]}, <)
    BY <2>1, PastIs, NamesReported DEF FirstInv
  <2>2. ASSUME Past("trips"), NEW i \in DOMAIN stops
        PROVE  /\ Cardinality(TypeReports(i)) =
                     IF RoutesAt(i, Subway) # {} /\ RoutesAt(i, Bus) # {} THEN 1 ELSE 0
               /\ \A k \in TypeReports(i) : /\ reports[k][3] \in RoutesAt(i, Subway)
                                            /\ reports[k][4] \in RoutesAt(i, Bus)
    BY <2>2, PastIs, TypesReported DEF FirstInv
  <2>3. ASSUME Past("trips"), feed.check_duplicates, NEW t \in Comparable
        PROVE  FirstComeReported("duplicate_trip", {u \in Comparable : TripKey(u) = TripKey(t)}, TripBefore)
    BY <2>3, PastIs, DuplicatesReported DEF FirstInv
  <2> QED BY <2>1, <2>2, <2>3, Zenon DEF TripReportsAreExact
<1> QED BY <1>1, <1>2, <1>3, PTL DEF Spec

-----------------------------------------------------------------------------
(* Nearby stops.                                                           *)

\* Line k of R is about the stops i and j.
OnPair(R, k, i, j) == R[k][1] \in NearbyKinds /\ {R[k][2], R[k][3]} = {i, j}

\* The reports R are those of the pairs C of places of the list L.
NearbyRight(L, R, C) ==
    /\ \A k \in DOMAIN R : R[k][1] \in NearbyKinds =>
          \E p, q \in DOMAIN L :
              p < q /\ <<p, q>> \in C /\ OnPair(R, k, L[p], L[q]) /\ SamePlace(L[p], L[q])
    /\ \A p, q \in DOMAIN L : p < q =>
          /\ \A k, l \in DOMAIN R : OnPair(R, k, L[p], L[q]) /\ OnPair(R, l, L[p], L[q]) => k = l
          /\ <<p, q>> \in C /\ SamePlace(L[p], L[q]) => \E k \in DOMAIN R : OnPair(R, k, L[p], L[q])

\* The pairs of places in SortedStops whose comparison is over.
Compared ==
    {z \in Nat \X Nat : \/ pass \in AfterNearby
                        \/ pass = "nearby stops" /\ (z[1] < at \/ (z[1] = at /\ z[2] < inner))}

NearbyInv ==
    pass # "raised" =>
        /\ pass = "nearby stops" => at < inner
        /\ NearbyRight(SortedStops, reports, Compared)

(* Pairs that are not at the same place need no comparison.                *)
LEMMA NearbyMore ==
    ASSUME NEW L, NEW R, NEW C, NEW D, NearbyRight(L, R, C),
           \A p, q \in DOMAIN L : p < q =>
               /\ <<p, q>> \in C => <<p, q>> \in D
               /\ <<p, q>> \in D /\ SamePlace(L[p], L[q]) => <<p, q>> \in C
    PROVE  NearbyRight(L, R, D)
BY Zenon DEF NearbyRight

LEMMA NearbyGrown ==
    ASSUME NEW L, NEW R, NEW Q, NEW C, NEW K, NearbyRight(L, R, C), Grows(R, Q, K), K \cap NearbyKinds = {}
    PROVE  NearbyRight(L, Q, C)
<1>1. ASSUME NEW k \in DOMAIN Q, Q[k][1] \in NearbyKinds PROVE k \in DOMAIN R /\ Q[k] = R[k]
  <2>1. k <= Len(R)
    BY <1>1 DEF Grows
  <2> QED BY <2>1 DEF Grows
<1>2. \A k \in DOMAIN R : k \in DOMAIN Q /\ Q[k] = R[k]
  BY DEF Grows
<1>3. \A k \in DOMAIN Q : \A i, j : OnPair(Q, k, i, j) => k \in DOMAIN R /\ OnPair(R, k, i, j)
  BY <1>1 DEF OnPair
<1>4. \A k \in DOMAIN R : \A i, j : OnPair(R, k, i, j) => OnPair(Q, k, i, j)
  BY <1>2 DEF OnPair
<1>5. ASSUME NEW k \in DOMAIN Q, Q[k][1] \in NearbyKinds
      PROVE  \E p, q \in DOMAIN L :
                 p < q /\ <<p, q>> \in C /\ OnPair(Q, k, L[p], L[q]) /\ SamePlace(L[p], L[q])
  <2>1. k \in DOMAIN R /\ R[k][1] \in NearbyKinds
    BY <1>1, <1>5
  <2>2. PICK p, q \in DOMAIN L :
           p < q /\ <<p, q>> \in C /\ OnPair(R, k, L[p], L[q]) /\ SamePlace(L[p], L[q])
    BY <2>1 DEF NearbyRight
  <2>3. OnPair(Q, k, L[p], L[q])
    BY <1>4, <2>1, <2>2
  <2> QED BY <2>2, <2>3
<1>6. ASSUME NEW p \in DOMAIN L, NEW q \in DOMAIN L, p < q
      PROVE  /\ \A k, l \in DOMAIN Q : OnPair(Q, k, L[p], L[q]) /\ OnPair(Q, l, L[p], L[q]) => k = l
             /\ <<p, q>> \in C /\ SamePlace(L[p], L[q]) => \E k \in DOMAIN Q : OnPair(Q, k, L[p], L[q])
  <2>1. /\ \A k, l \in DOMAIN R : OnPair(R, k, L[p], L[q]) /\ OnPair(R, l, L[p], L[q]) => k = l
        /\ <<p, q>> \in C /\ SamePlace(L[p], L[q]) => \E k \in DOMAIN R : OnPair(R, k, L[p], L[q])
    BY <1>6 DEF NearbyRight
  <2> QED BY <1>2, <1>3, <1>4, <2>1, Zenon
<1> QED BY <1>5, <1>6 DEF NearbyRight

(* The comparison of one more pair, at the same place.                     *)
LEMMA NearbyAdded ==
    ASSUME NEW L, NEW R, NEW Q, NEW C, NEW line, NearbyRight(L, R, C), IsSeq(R), Q = Append(R, line),
           NEW a \in DOMAIN L, NEW b \in DOMAIN L, a < b, <<a, b>> \notin C, SamePlace(L[a], L[b]),
           line[1] \in NearbyKinds, {line[2], line[3]} = {L[a], L[b]},
           \A p, q \in DOMAIN L : p < q => ~ (q < p) /\ p # q,
           \A p, q \in DOMAIN L : L[p] = L[q] => p = q
    PROVE  NearbyRight(L, Q, C \cup {<<a, b>>})
<1> DEFINE D == C \cup {<<a, b>>}
<1>1. PICK n : n = Len(R)
  OBVIOUS
<1>2. /\ n \in Nat /\ DOMAIN R = 1 .. n /\ DOMAIN Q = 1 .. n + 1 /\ Q[n + 1] = line
      /\ \A k \in 1 .. n : Q[k] = R[k]
  <2>1. PICK S : R \in Seq(S)
    BY DEF IsSeq
  <2>2. R \in Seq(S \cup {line})
    BY <2>1
  <2> QED BY <1>1, <2>2
<1>3. /\ \A k \in DOMAIN Q : k \in DOMAIN R \/ k = n + 1
      /\ n + 1 \in DOMAIN Q /\ n + 1 \notin DOMAIN R /\ DOMAIN R \subseteq DOMAIN Q
      /\ \A k \in DOMAIN R : Q[k] = R[k]
  BY <1>2
<1>4. \A k \in DOMAIN R : \A i, j : OnPair(Q, k, i, j) <=> OnPair(R, k, i, j)
  BY <1>3 DEF OnPair
<1>5. \A i, j : OnPair(Q, n + 1, i, j) <=> {i, j} = {L[a], L[b]}
  BY <1>2 DEF OnPair
<1>6. \A p, q \in DOMAIN L : p < q /\ {L[p], L[q]} = {L[a], L[b]} => p = a /\ q = b
  <2> SUFFICES ASSUME NEW p \in DOMAIN L, NEW q \in DOMAIN L, p < q, {L[p], L[q]} = {L[a], L[b]}
               PROVE  p = a /\ q = b
    OBVIOUS
  <2>1. (L[p] = L[a] \/ L[p] = L[b]) /\ (L[q] = L[a] \/ L[q] = L[b])
    OBVIOUS
  <2>2. (p = a \/ p = b) /\ (q = a \/ q = b)
    BY <2>1
  <2> QED BY <2>2
<1>7. \A k \in DOMAIN R : ~ OnPair(R, k, L[a], L[b])
  <2> SUFFICES ASSUME NEW k \in DOMAIN R, OnPair(R, k, L[a], L[b]) PROVE FALSE
    OBVIOUS
  <2>1. R[k][1] \in NearbyKinds /\ {R[k][2], R[k][3]} = {L[a], L[b]}
    BY DEF OnPair
  <2>2. PICK p, q \in DOMAIN L : p < q /\ <<p, q>> \in C /\ OnPair(R, k, L[p], L[q])
    BY <2>1 DEF NearbyRight
  <2>3. {L[p], L[q]} = {L[a], L[b]}
    BY <2>1, <2>2 DEF OnPair
  <2> QED BY <1>6, <2>2, <2>3
<1>8. ASSUME NEW k \in DOMAIN Q, Q[k][1] \in NearbyKinds
      PROVE  \E p, q \in DOMAIN L :
                 p < q /\ <<p, q>> \in D /\ OnPair(Q, k, L[p], L[q]) /\ SamePlace(L[p], L[q])
  <2>1. CASE k = n + 1
    <3>1. OnPair(Q, k, L[a], L[b]) /\ <<a, b>> \in D
      BY <1>5, <2>1
    <3> QED BY <3>1
  <2>2. CASE k \in DOMAIN R
    <3>1. R[k][1] \in NearbyKinds
      BY <1>3, <1>8, <2>2
    <3>2. PICK p, q \in DOMAIN L :
             p < q /\ <<p, q>> \in C /\ OnPair(R, k, L[p], L[q]) /\ SamePlace(L[p], L[q])
      BY <2>2, <3>1 DEF NearbyRight
    <3>3. OnPair(Q, k, L[p], L[q]) /\ <<p, q>> \in D
      BY <1>4, <2>2, <3>2
    <3> QED BY <3>2, <3>3
  <2> QED BY <1>3, <2>1, <2>2
<1>9. ASSUME NEW p \in DOMAIN L, NEW q \in DOMAIN L, p < q,
             NEW k \in DOMAIN Q, NEW l \in DOMAIN Q, OnPair(Q, k, L[p], L[q]), OnPair(Q, l, L[p], L[q])
      PROVE  k = l
  <2>1. CASE p = a /\ q = b
    <3>1. k \notin DOMAIN R /\ l \notin DOMAIN R
      BY <1>4, <1>7, <1>9, <2>1
    <3> QED BY <1>3, <3>1
  <2>2. CASE ~ (p = a /\ q = b)
    <3>0. {L[p], L[q]} # {L[a], L[b]}
      BY <1>6, <1>9, <2>2
    <3>1. k # n + 1 /\ l # n + 1
      <4>1. ~ OnPair(Q, n + 1, L[p], L[q])
        BY <1>5, <3>0
      <4> QED BY <1>9, <4>1
    <3>2. k \in DOMAIN R /\ l \in DOMAIN R
      BY <1>3, <3>1
    <3>3. OnPair(R, k, L[p], L[q]) /\ OnPair(R, l, L[p], L[q])
      BY <1>4, <1>9, <3>2
    <3> QED BY <1>9, <3>2, <3>3 DEF NearbyRight
  <2> QED BY <2>1, <2>2
<1>10. ASSUME NEW p \in DOMAIN L, NEW q \in DOMAIN L, p < q, <<p, q>> \in D, SamePlace(L[p], L[q])
       PROVE  \E k \in DOMAIN Q : OnPair(Q, k, L[p], L[q])
  <2>1. CASE <<p, q>> \in C
    <3>1. PICK k \in DOMAIN R : OnPair(R, k, L[p], L[q])
      BY <1>10, <2>1 DEF NearbyRight
    <3> QED BY <1>3, <1>4, <3>1
  <2>2. CASE <<p, q>> = <<a, b>>
    <3>1. p = a /\ q = b
      BY <2>2
    <3> QED BY <1>3, <1>5, <3>1
  <2> QED BY <1>10, <2>1, <2>2
<1>11. NearbyRight(L, Q, D)
  <2> HIDE DEF D
  <2> QED BY <1>8, <1>9, <1>10 DEF NearbyRight
<1> QED BY <1>11

(* Squares of the distances.                                               *)
LEMMA SquareNotNegative == \A x \in Int : x * x >= 0
OBVIOUS

LEMMA SquareSymmetric == \A x, y \in Int : (x - y) * (x - y) = (y - x) * (y - x)
OBVIOUS

LEMMA SquareGrows ==
    ASSUME NEW n \in Nat, NEW d \in Int, d >= n
    PROVE  d * d >= n * n
<1>1. PICK e \in Nat : d = n + e
  <2>1. d - n \in Nat /\ d = n + (d - n)
    OBVIOUS
  <2> QED BY <2>1
<1>2. d * d = n * n + (2 * n * e + e * e)
  BY <1>1
<1>3. 2 * n * e + e * e \in Nat /\ n * n \in Nat
  OBVIOUS
<1> QED BY <1>2, <1>3

(* What the comparison of two stops finds.                                 *)
LEMMA PlaceFacts ==
    ASSUME TypeInv, NEW i \in DOMAIN stops, NEW j \in DOMAIN stops
    PROVE  /\ SamePlace(i, j) <=> SamePlace(j, i)
           /\ stops[j].lat - stops[i].lat >= Near => ~ SamePlace(i, j)
<1>1. PICK a, b, c, d : a = stops[i].lat /\ b = stops[j].lat /\ c = stops[i].lon /\ d = stops[j].lon
  OBVIOUS
<1>2. a \in Int /\ b \in Int /\ c \in Int /\ d \in Int /\ Near \in Nat
  <2>1. stops[i] \in StopRow /\ stops[j] \in StopRow
    BY DEF TypeInv
  <2>2. a \in Fields /\ b \in Fields /\ c \in Fields /\ d \in Fields
    BY <1>1, <2>1 DEF StopRow
  <2>3. Fields \subseteq Int
    BY DEF Fields, Missing, Blank, Bad
  <2> QED BY <2>2, <2>3, BoundsAssumption
<1>3. /\ Distance2(stops[i], stops[j]) = (a - b) * (a - b) + (c - d) * (c - d)
      /\ Distance2(stops[j], stops[i]) = (b - a) * (b - a) + (d - c) * (d - c)
  BY <1>1, Zenon DEF Distance2
<1>4. (a - b) * (a - b) = (b - a) * (b - a) /\ (c - d) * (c - d) = (d - c) * (d - c)
  BY <1>2, SquareSymmetric
<1>5. Distance2(stops[i], stops[j]) = Distance2(stops[j], stops[i])
  BY <1>3, <1>4, Zenon
<1>6. SamePlace(i, j) <=> SamePlace(j, i)
  <2>1. {stops[i].type, stops[j].type} = {stops[j].type, stops[i].type}
    OBVIOUS
  <2> QED BY <1>5, <2>1, Zenon DEF SamePlace
<1>7. ASSUME b - a >= Near PROVE ~ SamePlace(i, j)
  <2>1. PICK x, y : x = b - a /\ y = d - c
    OBVIOUS
  <2>2. x \in Int /\ y \in Int /\ x >= Near
    BY <1>2, <1>7, <2>1
  <2>3. x * x >= Near * Near /\ y * y >= 0
    BY <1>2, <2>2, SquareGrows, SquareNotNegative
  <2>4. Distance2(stops[i], stops[j]) = x * x + y * y
    BY <1>3, <1>4, <2>1, Zenon
  <2>5. PICK u, v, w : u = x * x /\ v = y * y /\ w = Near * Near
    OBVIOUS
  <2>6. u \in Int /\ v \in Int /\ w \in Int
    BY <1>2, <2>2, <2>5
  <2>7. ~ (u + v < w)
    BY <2>3, <2>5, <2>6
  <2> QED BY <2>4, <2>5, <2>7, Zenon DEF SamePlace
<1> QED BY <1>1, <1>6, <1>7

LEMMA PairFound ==
    ASSUME NEW i, NEW j, Located(i), Located(j), Distance2(stops[i], stops[j]) < Near * Near
    PROVE  /\ ~ SamePlace(i, j) => PairReports(i, j) = <<>>
           /\ SamePlace(i, j) => \E line : /\ PairReports(i, j) = <<line>> /\ line[1] \in NearbyKinds
                                           /\ {line[2], line[3]} = {i, j}
<1>1. PICK s, t : s = stops[i].type /\ t = stops[j].type
  OBVIOUS
<1>3. SamePlace(i, j) <=> /\ s \in {0, 1} /\ t \in {0, 1}
                          /\ ~ (s = 0 /\ t = 1 /\ stops[i].parent = j)
                          /\ ~ (t = 0 /\ s = 1 /\ stops[j].parent = i)
  BY <1>1 DEF SamePlace, Station
<1> DEFINE Line(kind, x, y) == <<kind, x, y, 0>>
<1>4. \A kind, x, y : Line(kind, x, y)[1] = kind /\ Line(kind, x, y)[2] = x /\ Line(kind, x, y)[3] = y
  OBVIOUS
<1> HIDE DEF Line
<1>5. /\ s = 0 /\ t = 0 => PairReports(i, j) = <<Line("stops_too_close", i, j)>>
      /\ s = 1 /\ t = 1 => PairReports(i, j) = <<Line("stations_too_close", i, j)>>
      /\ s = 0 /\ t = 1 /\ stops[i].parent # j =>
            PairReports(i, j) = <<Line("different_station_too_close", i, j)>>
      /\ s = 1 /\ t = 0 /\ stops[j].parent # i =>
            PairReports(i, j) = <<Line("different_station_too_close", j, i)>>
  <2>1. CASE s = 0 /\ t = 0
    BY <1>1, <2>1 DEF PairReports, Station, Report, Line
  <2>2. CASE s = 1 /\ t = 1
    BY <1>1, <2>2 DEF PairReports, Station, Report, Line
  <2>3. CASE s = 0 /\ t = 1 /\ stops[i].parent # j
    BY <1>1, <2>3 DEF PairReports, Station, Report, Line
  <2>4. CASE s = 1 /\ t = 0 /\ stops[j].parent # i
    BY <1>1, <2>4 DEF PairReports, Station, Report, Line
  <2> QED BY <2>1, <2>2, <2>3, <2>4
<1>6. ~ SamePlace(i, j) => PairReports(i, j) = <<>>
  BY <1>1, <1>3 DEF PairReports, Station
<1>7. {j, i} = {i, j} /\ {"stops_too_close", "stations_too_close", "different_station_too_close"} = NearbyKinds
  BY DEF NearbyKinds
<1>8. ASSUME SamePlace(i, j)
      PROVE  \E line : /\ PairReports(i, j) = <<line>> /\ line[1] \in NearbyKinds
                       /\ {line[2], line[3]} = {i, j}
  <2>1. \/ s = 0 /\ t = 0
        \/ s = 1 /\ t = 1
        \/ s = 0 /\ t = 1 /\ stops[i].parent # j
        \/ s = 1 /\ t = 0 /\ stops[j].parent # i
    BY <1>3, <1>8
  <2>2. ASSUME NEW kind \in NearbyKinds, NEW x, NEW y, {x, y} = {i, j},
               PairReports(i, j) = <<Line(kind, x, y)>>
        PROVE  \E line : /\ PairReports(i, j) = <<line>> /\ line[1] \in NearbyKinds
                         /\ {line[2], line[3]} = {i, j}
    <3>1. PICK line : line = Line(kind, x, y)
      OBVIOUS
    <3>2. line[1] = kind /\ line[2] = x /\ line[3] = y
      BY <3>1 DEF Line
    <3> QED BY <2>2, <3>1, <3>2
  <2>3. CASE s = 0 /\ t = 0
    BY <1>5, <1>7, <2>2, <2>3
  <2>4. CASE s = 1 /\ t = 1
    BY <1>5, <1>7, <2>2, <2>4
  <2>5. CASE s = 0 /\ t = 1 /\ stops[i].parent # j
    BY <1>5, <1>7, <2>2, <2>5
  <2>6. CASE s = 1 /\ t = 0 /\ stops[j].parent # i
    BY <1>5, <1>7, <2>2, <2>6
  <2> QED BY <2>1, <2>3, <2>4, <2>5, <2>6
<1> QED BY <1>6, <1>8

(* Before the loop there is nothing to report.                             *)
LEMMA NearbyNone ==
    ASSUME NEW L, NEW R, NEW C, \A k \in DOMAIN R : R[k][1] \notin NearbyKinds,
           \A p, q \in DOMAIN L : p < q => <<p, q>> \notin C
    PROVE  NearbyRight(L, R, C)
BY Zenon DEF NearbyRight, OnPair

(* SamePlace reads the stops only.                                         *)
LEMMA PlaceCarried ==
    ASSUME stops' = stops
    PROVE  /\ \A i, j : SamePlace(i, j)' <=> SamePlace(i, j)
           /\ SortedStops' = SortedStops
<1>1. \A i : Located(i)' <=> Located(i)
  BY DEF Located
<1>2. \A i, j : SamePlace(i, j)' <=> SamePlace(i, j)
  <2>1. \A i : stops'[i] = stops[i]
    OBVIOUS
  <2>2. \A i, j : Distance2(stops'[i], stops'[j]) = Distance2(stops[i], stops[j])
    BY <2>1
  <2> QED BY <1>1, <2>1, <2>2, ZenonT(60) DEF SamePlace
<1>3. SortedStops' = SortedStops
  BY DEF SortedStops, InOrder, SortedBefore, Located
<1> QED BY <1>2, <1>3

LEMMA NearbyCarried ==
    ASSUME stops' = stops, NEW L, NEW R, NEW C, NearbyRight(L, R, C)
    PROVE  NearbyRight(L, R, C)'
<1>1. \A i, j : SamePlace(i, j)' <=> SamePlace(i, j)
  BY PlaceCarried
<1>2. \A k, i, j : OnPair(R, k, i, j)' <=> OnPair(R, k, i, j)
  BY DEF OnPair
<1> QED BY <1>1, <1>2 DEF NearbyRight

(* The list of the loop, as a function without repetitions.                *)
LEMMA SortedFacts ==
    ASSUME TypeInv
    PROVE  /\ Len(SortedStops) \in Nat /\ DOMAIN SortedStops = 1 .. Len(SortedStops)
           /\ \A p \in DOMAIN SortedStops : SortedStops[p] \in DOMAIN stops /\ Located(SortedStops[p])
           /\ \A p, q \in DOMAIN SortedStops : p < q => ~ (q < p) /\ p # q
           /\ \A p, q \in DOMAIN SortedStops : SortedStops[p] = SortedStops[q] => p = q
           /\ \A p, q \in DOMAIN SortedStops :
                 p < q => stops[SortedStops[p]].lat <= stops[SortedStops[q]].lat
<1>1. PICK L : L = SortedStops
  OBVIOUS
<1>2. /\ L \in Seq({i \in 1 .. Len(stops) : Located(i)})
      /\ \A j, k \in DOMAIN L : j < k => SortedBefore(L[j], L[k])
  BY <1>1, StopsSorted
<1>3. /\ Len(L) \in Nat /\ DOMAIN L = 1 .. Len(L)
      /\ \A p \in DOMAIN L : L[p] \in 1 .. Len(stops) /\ Located(L[p])
  <2>1. PICK S : S = {i \in 1 .. Len(stops) : Located(i)}
    OBVIOUS
  <2>2. L \in Seq(S)
    BY <1>2, <2>1
  <2>3. Len(L) \in Nat /\ DOMAIN L = 1 .. Len(L) /\ \A p \in DOMAIN L : L[p] \in S
    BY <2>2, SeqAsFunction
  <2> QED BY <2>1, <2>3
<1>4. stops \in Seq(StopRow) /\ DOMAIN stops = 1 .. Len(stops)
  BY DEF TypeInv
<1>5. \A i \in DOMAIN stops : stops[i].lat \in Int /\ stops[i].lon \in Int /\ i \in Int
  <2>1. \A i \in DOMAIN stops : stops[i] \in StopRow
    BY <1>4
  <2> QED BY <1>4, <2>1 DEF StopRow, Fields, Missing, Blank, Bad
<1>6. ASSUME NEW p \in DOMAIN L, NEW q \in DOMAIN L, p < q
      PROVE  ~ (q < p) /\ p # q /\ L[p] # L[q] /\ stops[L[p]].lat <= stops[L[q]].lat
  <2>1. SortedBefore(L[p], L[q])
    BY <1>2, <1>6
  <2>2. L[p] \in DOMAIN stops /\ L[q] \in DOMAIN stops
    BY <1>3, <1>4
  <2>3. PICK i, j : i = L[p] /\ j = L[q]
    OBVIOUS
  <2>4. stops[i].lat \in Int /\ stops[j].lat \in Int /\ stops[i].lon \in Int /\ i \in Int
    BY <1>5, <2>2, <2>3
  <2>5. i # j /\ stops[i].lat <= stops[j].lat
    BY <2>1, <2>3, <2>4 DEF SortedBefore
  <2>6. ~ (q < p) /\ p # q
    BY <1>3, <1>6
  <2> QED BY <2>3, <2>5, <2>6
<1>7. ASSUME NEW p \in DOMAIN L, NEW q \in DOMAIN L, L[p] = L[q] PROVE p = q
  <2>1. ~ (p < q) /\ ~ (q < p)
    BY <1>6, <1>7
  <2> QED BY <1>3, <2>1
<1>8. \A p \in DOMAIN L : L[p] \in DOMAIN stops
  BY <1>3, <1>4
<1> QED BY <1>1, <1>3, <1>6, <1>7, <1>8

LEMMA NearbyStep ==
    ASSUME TypeInv, NearbyInv, [Next]_vars
    PROVE  NearbyInv'
<1> SUFFICES ASSUME pass' # "raised" PROVE NearbyInv'
  BY DEF NearbyInv
<1>0. Moves /\ TypeInv'
  BY StepMoves
<1>1. /\ pass \in Passes /\ IsSeq(reports) /\ pass # "raised" /\ at \in Nat \ {0} /\ inner \in Nat
      /\ at' \in Nat \ {0} /\ inner' \in Nat
  BY <1>0, NotRaised DEF TypeInv
<1>2. PICK C, D : C = Compared /\ D = Compared'
  OBVIOUS
<1>3. PICK L, R, Q : L = SortedStops /\ R = reports /\ Q = reports'
  OBVIOUS
<1>4. NearbyRight(L, R, C) /\ (pass = "nearby stops" => at < inner)
  BY <1>1, <1>2, <1>3 DEF NearbyInv
<1>5. /\ Len(L) \in Nat /\ DOMAIN L = 1 .. Len(L)
      /\ \A p \in DOMAIN L : L[p] \in DOMAIN stops /\ Located(L[p])
      /\ \A p, q \in DOMAIN L : p < q => ~ (q < p) /\ p # q
      /\ \A p, q \in DOMAIN L : L[p] = L[q] => p = q
      /\ \A p, q \in DOMAIN L : p < q => stops[L[p]].lat <= stops[L[q]].lat
  BY <1>3, SortedFacts
<1>16. Len(L) \in Nat /\ DOMAIN L = 1 .. Len(L) /\ DOMAIN L \subseteq Nat
  BY <1>5
<1>6. ASSUME stops' = stops, NearbyRight(L, Q, D), pass' = "nearby stops" => at' < inner'
      PROVE  NearbyInv'
  <2>1. SortedStops' = L
    BY <1>3, <1>6, PlaceCarried
  <2>2. NearbyRight(L, Q, D)'
    BY <1>6, NearbyCarried
  <2> QED BY <1>2, <1>3, <1>6, <2>1, <2>2 DEF NearbyInv
<1>7. \A p, q \in Nat : <<p, q>> \in C <=>
          \/ pass \in AfterNearby
          \/ pass = "nearby stops" /\ (p < at \/ (p = at /\ q < inner))
  BY <1>2 DEF Compared
<1>8. \A p, q \in Nat : <<p, q>> \in D <=>
          \/ pass' \in AfterNearby
          \/ pass' = "nearby stops" /\ (p < at' \/ (p = at' /\ q < inner'))
  BY <1>2 DEF Compared
<1>9. pass \notin {"nearby stops"} \cup AfterNearby \/ pass = "nearby stops" \/ pass \in AfterNearby
  OBVIOUS
<1>10. CASE pass \notin {"nearby stops"} \cup AfterNearby
  <2>1. \A p, q \in DOMAIN L : <<p, q>> \notin C
    BY <1>16, <1>7, <1>10
  <2>2. \A k \in DOMAIN R : R[k][1] \notin NearbyKinds
    BY <1>4, <2>1 DEF NearbyRight
  <2>3. \A k \in DOMAIN Q : Q[k][1] \notin NearbyKinds
    <3>1. PICK K : K = Kinds(pass)
      OBVIOUS
    <3>2. Grows(R, Q, K) /\ NearbyKinds \cap K = {}
      BY <1>0, <1>1, <1>3, <1>10, <3>1, OwnKinds DEF Moves
    <3>3. ASSUME NEW k \in DOMAIN Q PROVE Q[k][1] \notin NearbyKinds
      <4>1. CASE k <= Len(R)
        <5>1. k \in DOMAIN R /\ Q[k] = R[k]
          BY <3>2, <4>1 DEF Grows
        <5> QED BY <2>2, <5>1
      <4>2. CASE ~ (k <= Len(R))
        <5>1. Q[k][1] \in K
          BY <3>2, <4>2 DEF Grows
        <5> QED BY <3>2, <5>1
      <4> QED BY <4>1, <4>2
    <3> QED BY <3>3
  <2>4. pass' \notin AfterNearby
    BY <1>0, <1>1, <1>10, Entering
  <2>5. pass' = "nearby stops" => at' = 1 /\ inner' = 2
    BY <1>0, <1>10 DEF Moves
  <2>6. PICK M : M = SortedStops'
    OBVIOUS
  <2>7. Len(M) \in Nat /\ DOMAIN M = 1 .. Len(M)
    BY <1>0, <2>6, SortedFacts
  <2>8. \A p, q \in DOMAIN M : p < q => <<p, q>> \notin D
    <3> SUFFICES ASSUME NEW p \in DOMAIN M, NEW q \in DOMAIN M, p < q PROVE <<p, q>> \notin D
      OBVIOUS
    <3>1. p \in Nat /\ q \in Nat /\ p >= 1 /\ q > 1
      BY <2>7
    <3>2. ~ (p < 1 \/ (p = 1 /\ q < 2))
      BY <3>1
    <3>3. pass' = "nearby stops" => ~ (p < at' \/ (p = at' /\ q < inner'))
      BY <2>5, <3>2
    <3> QED BY <1>8, <2>4, <3>1, <3>3
  <2>9. NearbyRight(M, Q, D)'
    <3>1. \A k \in DOMAIN Q : \A i, j : ~ OnPair(Q, k, i, j)'
      BY <2>3 DEF OnPair
    <3> QED BY <2>3, <2>8, <3>1, Zenon DEF NearbyRight
  <2>10. pass' = "nearby stops" => at' < inner'
    <3>1. 1 < 2
      OBVIOUS
    <3> QED BY <2>5, <3>1, Zenon
  <2>11. NearbyRight(SortedStops, reports, Compared)'
    BY <1>2, <1>3, <2>6, <2>9
  <2> QED BY <2>10, <2>11, Zenon DEF NearbyInv
<1>11. CASE pass \in AfterNearby
  <2>1. pass # "nearby stops" /\ pass \notin {"load stops", "stops"}
    BY <1>11, LaterPasses
  <2>2. stops' = stops /\ Grows(reports, reports', Kinds(pass))
    BY <1>0, <2>1 DEF Moves
  <2>3. pass' \in AfterNearby
    <3>1. pass' = pass \/ <<pass, pass'>> \in Onward
      BY <1>0 DEF Moves
    <3>2. <<pass, pass'>> \in Onward => pass' \in AfterNearby
      BY <1>11, LaterPasses DEF Onward
    <3> QED BY <1>11, <3>1, <3>2
  <2>4. PICK K : K = Kinds(pass)
    OBVIOUS
  <2>5. Grows(R, Q, K) /\ K \cap NearbyKinds = {}
    BY <1>1, <1>3, <2>1, <2>2, <2>4, OwnKinds
  <2>6. NearbyRight(L, Q, C)
    BY <1>4, <2>5, NearbyGrown
  <2>7. \A p, q \in DOMAIN L : p < q =>
               /\ <<p, q>> \in C => <<p, q>> \in D
               /\ <<p, q>> \in D /\ SamePlace(L[p], L[q]) => <<p, q>> \in C
    BY <1>16, <1>7, <1>8, <1>11, <2>3, Zenon
  <2>8. NearbyRight(L, Q, D)
    BY <2>6, <2>7, NearbyMore
  <2> QED BY <1>6, <2>2, <2>3, <2>8, LaterPasses
<1>12. CASE CompareStops
  <2>1. /\ pass = "nearby stops" /\ at < Len(L) /\ inner <= Len(L)
        /\ inner' = inner + 1 /\ pass' = pass /\ at' = at /\ stops' = stops
        /\ Q = R \o (IF Distance2(stops[L[at]], stops[L[inner]]) < Near * Near
                     THEN PairReports(L[at], L[inner]) ELSE <<>>)
    BY <1>3, <1>12, Zenon DEF CompareStops, InWindow
  <2>2. at \in DOMAIN L /\ inner \in DOMAIN L /\ at < inner /\ at' < inner'
    <3>1. at < inner
      BY <1>4, <2>1
    <3>0. at < Len(L) /\ inner <= Len(L)
      BY <2>1
    <3>2. at \in DOMAIN L /\ inner \in DOMAIN L
      BY <1>1, <1>16, <3>0, <3>1
    <3>3. at < inner + 1
      BY <1>1, <3>1
    <3> QED BY <2>1, <3>1, <3>2, <3>3, Zenon
  <2>3. pass \notin AfterNearby
    BY <2>1, LaterPasses
  <2>4. <<at, inner>> \notin C
    <3>1. at \in Nat /\ inner \in Nat /\ ~ (at < at) /\ ~ (inner < inner)
      BY <1>1
    <3> QED BY <1>7, <2>1, <2>3, <3>1, Zenon
  <2>5. \A p, q \in DOMAIN L : <<p, q>> \in D <=> <<p, q>> \in C \cup {<<at, inner>>}
    <3> SUFFICES ASSUME NEW p \in DOMAIN L, NEW q \in DOMAIN L
                 PROVE  <<p, q>> \in D <=> <<p, q>> \in C \/ <<p, q>> = <<at, inner>>
      OBVIOUS
    <3>1. p \in Nat /\ q \in Nat
      BY <1>5
    <3>2. <<p, q>> \in D <=> p < at \/ (p = at /\ q < inner + 1)
      BY <1>8, <2>1, <2>3, <3>1
    <3>3. <<p, q>> \in C <=> p < at \/ (p = at /\ q < inner)
      BY <1>7, <2>1, <2>3, <3>1
    <3>4. q < inner + 1 <=> q < inner \/ q = inner
      BY <1>1, <3>1
    <3> QED BY <3>2, <3>3, <3>4
  <2>6. IsSeq(R)
    BY <1>1, <1>3
  <2>7. PICK a, b : a = at /\ b = inner
    OBVIOUS
  <2>8. CASE SamePlace(L[a], L[b])
    <3>1. Distance2(stops[L[a]], stops[L[b]]) < Near * Near /\ Located(L[a]) /\ Located(L[b])
      BY <2>8 DEF SamePlace
    <3>2. PICK line : /\ PairReports(L[a], L[b]) = <<line>> /\ line[1] \in NearbyKinds
                      /\ {line[2], line[3]} = {L[a], L[b]}
      BY <2>8, <3>1, PairFound
    <3>3. Q = R \o <<line>>
      BY <2>1, <2>7, <3>1, <3>2, Zenon
    <3>4. Q = Append(R, line)
      <4>1. PICK S : R \in Seq(S)
        BY <2>6 DEF IsSeq
      <4>2. R \in Seq(S \cup {line}) /\ line \in S \cup {line}
        BY <4>1
      <4> QED BY <3>3, <4>2
    <3>5. NearbyRight(L, Q, C \cup {<<a, b>>})
      BY <1>4, <1>5, <2>2, <2>4, <2>6, <2>7, <2>8, <3>2, <3>4, NearbyAdded
    <3>6. NearbyRight(L, Q, D)
      <4>1. PICK E : E = C \cup {<<a, b>>}
        OBVIOUS
      <4>2. NearbyRight(L, Q, E)
        BY <3>5, <4>1
      <4>3. \A p, q \in DOMAIN L : <<p, q>> \in D <=> <<p, q>> \in E
        BY <2>5, <2>7, <4>1
      <4> QED BY <4>2, <4>3, NearbyMore
    <3> QED BY <1>6, <2>1, <2>2, <3>6
  <2>9. CASE ~ SamePlace(L[a], L[b])
    <3>1. /\ Q = R
      <4>1. Q = R \o <<>>
        <5>1. Located(L[a]) /\ Located(L[b])
          BY <1>5, <2>2, <2>7
        <5>2. Distance2(stops[L[a]], stops[L[b]]) < Near * Near => PairReports(L[a], L[b]) = <<>>
          BY <2>9, <5>1, PairFound
        <5> QED BY <2>1, <2>7, <5>2
      <4>2. PICK S : R \in Seq(S)
        BY <2>6 DEF IsSeq
      <4> QED BY <4>1, <4>2
    <3>2. \A p, q \in DOMAIN L : p < q =>
               /\ <<p, q>> \in C => <<p, q>> \in D
               /\ <<p, q>> \in D /\ SamePlace(L[p], L[q]) => <<p, q>> \in C
      <4> SUFFICES ASSUME NEW p \in DOMAIN L, NEW q \in DOMAIN L
                   PROVE  /\ <<p, q>> \in C => <<p, q>> \in D
                          /\ <<p, q>> \in D /\ SamePlace(L[p], L[q]) => <<p, q>> \in C
        OBVIOUS
      <4>1. <<p, q>> \in D <=> <<p, q>> \in C \/ (p = a /\ q = b)
        BY <2>5, <2>7
      <4> QED BY <2>9, <4>1
    <3>3. NearbyRight(L, Q, D)
      BY <1>4, <3>1, <3>2, NearbyMore
    <3> QED BY <1>6, <2>1, <2>2, <3>3
  <2> QED BY <2>8, <2>9
<1>13. CASE NextStop
  <2>1. /\ pass = "nearby stops" /\ at < Len(L) /\ ~ InWindow
        /\ inner' = at + 2 /\ pass' = pass /\ at' = at + 1 /\ stops' = stops /\ Q = R
    BY <1>3, <1>13, Zenon DEF NextStop
  <2>2. at \in DOMAIN L /\ at' < inner'
    <3>0. at < Len(L)
      BY <2>1
    <3>1. at \in DOMAIN L /\ at + 1 < at + 2
      BY <1>1, <1>16, <3>0
    <3> QED BY <2>1, <3>1, Zenon
  <2>3. pass \notin AfterNearby
    BY <2>1, LaterPasses
  <2>4. ASSUME NEW q \in DOMAIN L, inner <= q, at < q PROVE ~ SamePlace(L[at], L[q])
    <3>1. inner \in DOMAIN L /\ inner <= Len(L)
      <4>1. at < inner
        BY <1>4, <2>1
      <4> QED BY <1>1, <1>16, <2>4, <4>1
    <3>2. ~ (stops[L[inner]].lat - stops[L[at]].lat < Near)
      BY <1>3, <2>1, <3>1 DEF InWindow
    <3>3. stops[L[inner]].lat <= stops[L[q]].lat
      <4>1. inner = q \/ inner < q
        BY <1>1, <1>5, <2>4
      <4>2. stops[L[inner]].lat \in Int
        <5>1. stops[L[inner]] \in StopRow
          BY <1>5, <3>1 DEF TypeInv
        <5> QED BY <5>1 DEF StopRow, Fields, Missing, Blank, Bad
      <4> QED BY <1>5, <3>1, <4>1, <4>2
    <3>4. /\ stops[L[inner]].lat \in Int /\ stops[L[q]].lat \in Int /\ stops[L[at]].lat \in Int
          /\ Near \in Nat
      <4>1. stops[L[inner]] \in StopRow /\ stops[L[q]] \in StopRow /\ stops[L[at]] \in StopRow
        BY <1>5, <2>2, <3>1 DEF TypeInv
      <4> QED BY <4>1, BoundsAssumption DEF StopRow, Fields, Missing, Blank, Bad
    <3>5. stops[L[q]].lat - stops[L[at]].lat >= Near
      BY <3>2, <3>3, <3>4
    <3>6. L[at] \in DOMAIN stops /\ L[q] \in DOMAIN stops
      BY <1>5, <2>2
    <3> QED BY <3>5, <3>6, PlaceFacts
  <2>5. \A p, q \in DOMAIN L : p < q =>
               /\ <<p, q>> \in C => <<p, q>> \in D
               /\ <<p, q>> \in D /\ SamePlace(L[p], L[q]) => <<p, q>> \in C
    <3> SUFFICES ASSUME NEW p \in DOMAIN L, NEW q \in DOMAIN L, p < q
                 PROVE  /\ <<p, q>> \in C => <<p, q>> \in D
                        /\ <<p, q>> \in D /\ SamePlace(L[p], L[q]) => <<p, q>> \in C
      OBVIOUS
    <3>1. p \in Nat /\ q \in Nat
      BY <1>5
    <3>2. <<p, q>> \in D <=> p < at + 1 \/ (p = at + 1 /\ q < at + 2)
      BY <1>8, <2>1, <2>3, <3>1
    <3>3. <<p, q>> \in C <=> p < at \/ (p = at /\ q < inner)
      BY <1>7, <2>1, <2>3, <3>1
    <3>4. <<p, q>> \in D <=> p < at \/ p = at
      BY <1>1, <3>1, <3>2
    <3>5. p = at /\ ~ (q < inner) => ~ SamePlace(L[p], L[q])
      BY <1>1, <2>4, <3>1
    <3> QED BY <3>3, <3>4, <3>5
  <2>6. NearbyRight(L, Q, D)
    BY <1>4, <2>1, <2>5, NearbyMore
  <2> QED BY <1>6, <2>1, <2>2, <2>6
<1>14. CASE pass = "nearby stops" /\ NextPass
  <2>1. /\ at > Len(L) - 1 /\ stops' = stops /\ Q = R /\ <<pass, pass'>> \in Onward
    BY <1>3, <1>14, LoopEnds
  <2>2. pass' \in AfterNearby /\ pass' # "nearby stops"
    BY <1>14, <2>1, LaterPasses DEF Onward
  <2>3. \A p, q \in DOMAIN L : p < q =>
               /\ <<p, q>> \in C => <<p, q>> \in D
               /\ <<p, q>> \in D /\ SamePlace(L[p], L[q]) => <<p, q>> \in C
    <3> SUFFICES ASSUME NEW p \in DOMAIN L, NEW q \in DOMAIN L, p < q
                 PROVE  <<p, q>> \in D /\ <<p, q>> \in C
      OBVIOUS
    <3>1. p \in Nat /\ q \in Nat /\ p < at
      BY <1>1, <1>5, <2>1
    <3> QED BY <1>7, <1>8, <1>14, <2>2, <3>1
  <2>4. NearbyRight(L, Q, D)
    BY <1>4, <2>1, <2>3, NearbyMore
  <2> QED BY <1>6, <2>1, <2>2, <2>4
<1>15. CASE UNCHANGED vars
  <2>1. stops' = stops /\ reports' = reports /\ pass' = pass /\ at' = at /\ inner' = inner
    BY <1>15 DEF vars
  <2>2. D = C
    BY <1>2, <2>1 DEF Compared
  <2> QED BY <1>3, <1>4, <1>6, <2>1, <2>2
<1> QED BY <1>9, <1>10, <1>11, <1>12, <1>13, <1>14, <1>15, OwnSteps

LEMMA NearbyInit ==
    ASSUME Init
    PROVE  NearbyInv
<1>1. reports = <<>> /\ pass \in {"load stops", "frequencies"}
  BY DEF Init
<1>2. pass \notin AfterNearby /\ pass # "nearby stops"
  BY <1>1, LaterPasses
<1>3. DOMAIN reports = {}
  <2>1. <<>> \in Seq({}) /\ Len(<<>>) = 0
    OBVIOUS
  <2>2. DOMAIN <<>> = 1 .. 0
    BY <2>1, SeqAsFunction
  <2>3. 1 .. 0 = {}
    OBVIOUS
  <2>4. reports = <<>>
    BY <1>1
  <2> QED BY <2>2, <2>3, <2>4, Zenon
<1>4. Compared = {}
  BY <1>2 DEF Compared
<1>5. NearbyRight(SortedStops, reports, Compared)
  BY <1>3, <1>4, Zenon DEF NearbyRight
<1> QED BY <1>2, <1>5 DEF NearbyInv

(* What the reports say of two stops when the loop is over.                *)
LEMMA NearbyReported ==
    ASSUME TypeInv, NearbyInv, pass \in AfterNearby, NEW i \in 1 .. Len(stops), NEW j \in 1 .. Len(stops), i < j
    PROVE  CountOf(NearbyKinds, i, j) = IF SamePlace(i, j) THEN 1 ELSE 0
<1>1. PICK L, R, C : L = SortedStops /\ R = reports /\ C = Compared
  OBVIOUS
<1>2. NearbyRight(L, R, C)
  <2>1. pass # "raised"
    BY LaterPasses
  <2> QED BY <1>1, <2>1 DEF NearbyInv
<1>3. /\ Len(L) \in Nat /\ DOMAIN L = 1 .. Len(L)
      /\ \A k \in 1 .. Len(stops) : Located(k) => \E p \in DOMAIN L : L[p] = k
  BY <1>1, StopsSorted, SortedFacts
<1>4. \A p, q \in DOMAIN L : p \in Nat /\ q \in Nat /\ <<p, q>> \in C
  <2>1. DOMAIN L \subseteq Nat
    BY <1>3
  <2> QED BY <1>1, <2>1 DEF Compared
<1>5. PICK H : H = {k \in DOMAIN R : OnPair(R, k, i, j)}
  OBVIOUS
<1>6. CountOf(NearbyKinds, i, j) = Cardinality(H)
  BY <1>1, <1>5 DEF CountOf, OnPair
<1>7. stops \in Seq(StopRow) /\ DOMAIN stops = 1 .. Len(stops)
  BY DEF TypeInv
<1>8. CASE SamePlace(i, j)
  <2>1. PICK p, q \in DOMAIN L : L[p] = i /\ L[q] = j
    BY <1>3, <1>8 DEF SamePlace
  <2>2. p # q
    BY <2>1
  <2>3. PICK a, b \in DOMAIN L : a < b /\ {L[a], L[b]} = {i, j} /\ SamePlace(L[a], L[b])
    <3>1. CASE p < q
      BY <1>8, <2>1, <3>1
    <3>2. CASE q < p
      <4>1. SamePlace(j, i)
        BY <1>7, <1>8, PlaceFacts
      <4>2. {j, i} = {i, j}
        OBVIOUS
      <4> QED BY <2>1, <3>2, <4>1, <4>2
    <3> QED BY <1>3, <2>2, <3>1, <3>2, EitherFirst
  <2>4. \A k : OnPair(R, k, L[a], L[b]) <=> OnPair(R, k, i, j)
    BY <2>3 DEF OnPair
  <2>5. PICK k \in DOMAIN R : OnPair(R, k, L[a], L[b])
    BY <1>2, <1>4, <2>3 DEF NearbyRight
  <2>6. \A l \in DOMAIN R : OnPair(R, l, L[a], L[b]) => l = k
    BY <1>2, <2>3, <2>5 DEF NearbyRight
  <2>7. H = {k}
    BY <1>5, <2>4, <2>5, <2>6
  <2>8. Cardinality(H) = 1
    BY <2>7, FS_Singleton
  <2> QED BY <1>6, <1>8, <2>8
<1>9. CASE ~ SamePlace(i, j)
  <2>1. H = {}
    <3> SUFFICES ASSUME NEW k \in DOMAIN R, OnPair(R, k, i, j) PROVE FALSE
      BY <1>5
    <3>1. PICK p, q \in DOMAIN L : OnPair(R, k, L[p], L[q]) /\ SamePlace(L[p], L[q])
      BY <1>2 DEF NearbyRight, OnPair
    <3>2. {L[p], L[q]} = {i, j}
      BY <3>1 DEF OnPair
    <3>3. (L[p] = i /\ L[q] = j) \/ (L[p] = j /\ L[q] = i)
      BY <3>2
    <3>4. SamePlace(j, i) => SamePlace(i, j)
      BY <1>7, PlaceFacts
    <3> QED BY <1>9, <3>1, <3>3, <3>4
  <2>2. Cardinality(H) = 0
    BY <2>1, FS_EmptySet
  <2> QED BY <1>6, <1>9, <2>2
<1> QED BY <1>8, <1>9

(* The comparison of sorted stops within a window of latitude reports      *)
(* every pair at the same place once, and nothing else, for every feed and *)
(* every distance.                                                         *)
THEOREM NearbyReportsExact == Spec => []NearbyReportsAreExact
<1>1. Init => TypeInv /\ NearbyInv
  BY TypeInit, NearbyInit
<1>2. TypeInv /\ NearbyInv /\ [Next]_vars => (TypeInv /\ NearbyInv)'
  BY StepMoves, NearbyStep
<1>3. TypeInv /\ NearbyInv => NearbyReportsAreExact
  <2> SUFFICES ASSUME TypeInv, NearbyInv, Past("nearby stops"),
                      NEW i \in 1 .. Len(stops), NEW j \in 1 .. Len(stops), i < j
               PROVE  CountOf({"stops_too_close", "stations_too_close", "different_station_too_close"}, i, j)
                          = IF SamePlace(i, j) THEN 1 ELSE 0
    BY Zenon DEF NearbyReportsAreExact
  <2>1. pass \in AfterNearby
    BY PastIs
  <2>2. CountOf(NearbyKinds, i, j) = IF SamePlace(i, j) THEN 1 ELSE 0
    BY <2>1, NearbyReported
  <2> QED BY <2>2, Zenon DEF NearbyKinds
<1> QED BY <1>1, <1>2, <1>3, PTL DEF Spec

-----------------------------------------------------------------------------
(* The intervals of the blocks.                                            *)

IntervalRow == Nat \X Fields \X Fields
BlockRow == [id : Nat, intervals : Seq(IntervalRow)]

\* The interval of trip t.
Entry(t) == <<t, First(t), LastTime(t)>>

\* The blocks B hold the intervals of the trips T, each in one place.
IntervalsRight(B, T) ==
    /\ B \in Seq(BlockRow)
    /\ \A b, c \in DOMAIN B : B[b].id = B[c].id => b = c
    /\ \A b \in DOMAIN B : \A j \in DOMAIN B[b].intervals :
          \E t \in T : HasInterval(t) /\ feed.trips[t].block = B[b].id /\ B[b].intervals[j] = Entry(t)
    /\ \A b \in DOMAIN B : \A j, k \in DOMAIN B[b].intervals :
          B[b].intervals[j][1] = B[b].intervals[k][1] => j = k
    /\ \A t \in T : HasInterval(t) =>
          \E b \in DOMAIN B : \E j \in DOMAIN B[b].intervals : B[b].intervals[j] = Entry(t)

TripsDone == {t \in DOMAIN feed.trips : TripDone(t)}

IntervalsInv == pass # "raised" => IntervalsRight(blocks, TripsDone)

LEMMA EntryFirst == \A t : Entry(t)[1] = t /\ Entry(t)[2] = First(t) /\ Entry(t)[3] = LastTime(t)
BY DEF Entry

(* A trip without an interval changes nothing.                             *)
LEMMA IntervalsMore ==
    ASSUME NEW B, NEW T, NEW t, IntervalsRight(B, T), ~ HasInterval(t)
    PROVE  IntervalsRight(B, T \cup {t})
<1>1. B \in Seq(BlockRow)
  BY DEF IntervalsRight
<1>2. \A b, c \in DOMAIN B : B[b].id = B[c].id => b = c
  BY DEF IntervalsRight
<1>3. \A b \in DOMAIN B : \A j \in DOMAIN B[b].intervals :
          \E u \in T : HasInterval(u) /\ feed.trips[u].block = B[b].id /\ B[b].intervals[j] = Entry(u)
  BY DEF IntervalsRight
<1>4. \A b \in DOMAIN B : \A j, k \in DOMAIN B[b].intervals :
          B[b].intervals[j][1] = B[b].intervals[k][1] => j = k
  BY DEF IntervalsRight
<1>5. \A u \in T : HasInterval(u) =>
          \E b \in DOMAIN B : \E j \in DOMAIN B[b].intervals : B[b].intervals[j] = Entry(u)
  BY DEF IntervalsRight
<1>6. \A u \in T \cup {t} : HasInterval(u) =>
          \E b \in DOMAIN B : \E j \in DOMAIN B[b].intervals : B[b].intervals[j] = Entry(u)
  BY <1>5
<1>7. \A b \in DOMAIN B : \A j \in DOMAIN B[b].intervals :
          \E u \in T \cup {t} : HasInterval(u) /\ feed.trips[u].block = B[b].id /\ B[b].intervals[j] = Entry(u)
  <2>1. T \subseteq T \cup {t}
    OBVIOUS
  <2> QED BY <1>3, <2>1, Zenon
<1> QED BY <1>1, <1>2, <1>4, <1>6, <1>7, Zenon DEF IntervalsRight

(* The lists of two tables of blocks that agree but for one more entry at  *)
(* the end of one of them.                                                 *)
LEMMA IntervalsAdded ==
    ASSUME NEW B, NEW D, NEW T, NEW t, IntervalsRight(B, T), HasInterval(t), t \notin T,
           D \in Seq(BlockRow), NEW c \in DOMAIN D, NEW n \in DOMAIN D[c].intervals,
           DOMAIN B \subseteq DOMAIN D, \A b \in DOMAIN D : b \in DOMAIN B \/ b = c,
           \A b \in DOMAIN B : D[b].id = B[b].id,
           D[c].id = feed.trips[t].block,
           c \notin DOMAIN B => \A b \in DOMAIN B : B[b].id # D[c].id,
           c \notin DOMAIN B => DOMAIN D[c].intervals = {n},
           \A b \in DOMAIN B : b # c => D[b].intervals = B[b].intervals,
           c \in DOMAIN B => /\ DOMAIN D[c].intervals = DOMAIN B[c].intervals \cup {n}
                             /\ n \notin DOMAIN B[c].intervals
                             /\ \A j \in DOMAIN B[c].intervals : D[c].intervals[j] = B[c].intervals[j],
           D[c].intervals[n] = Entry(t)
    PROVE  IntervalsRight(D, T \cup {t})
<1>1. \A b, d \in DOMAIN B : B[b].id = B[d].id => b = d
  BY DEF IntervalsRight
<1>2. \A b \in DOMAIN B : \A j \in DOMAIN B[b].intervals :
          \E u \in T : HasInterval(u) /\ feed.trips[u].block = B[b].id /\ B[b].intervals[j] = Entry(u)
  BY DEF IntervalsRight
<1>3. \A b \in DOMAIN B : \A j, k \in DOMAIN B[b].intervals :
          B[b].intervals[j][1] = B[b].intervals[k][1] => j = k
  BY DEF IntervalsRight
<1>4. \A u \in T : HasInterval(u) =>
          \E b \in DOMAIN B : \E j \in DOMAIN B[b].intervals : B[b].intervals[j] = Entry(u)
  BY DEF IntervalsRight
\* A place of D is the new one or a place of B.
<1>5. ASSUME NEW b \in DOMAIN D, NEW j \in DOMAIN D[b].intervals, ~ (b = c /\ j = n)
      PROVE  b \in DOMAIN B /\ j \in DOMAIN B[b].intervals /\ D[b].intervals[j] = B[b].intervals[j]
  <2>1. CASE b = c
    BY <1>5, <2>1
  <2>2. CASE b # c
    BY <1>5, <2>2
  <2> QED BY <2>1, <2>2
<1>6. ASSUME NEW b \in DOMAIN B, NEW j \in DOMAIN B[b].intervals
      PROVE  b \in DOMAIN D /\ j \in DOMAIN D[b].intervals /\ D[b].intervals[j] = B[b].intervals[j]
  <2>1. CASE b = c
    BY <1>6, <2>1
  <2>2. CASE b # c
    BY <1>6, <2>2
  <2> QED BY <2>1, <2>2
<1>7. \A b, d \in DOMAIN D : D[b].id = D[d].id => b = d
  <2> SUFFICES ASSUME NEW b \in DOMAIN D, NEW d \in DOMAIN D, D[b].id = D[d].id PROVE b = d
    OBVIOUS
  <2>1. CASE b \in DOMAIN B /\ d \in DOMAIN B
    BY <1>1, <2>1
  <2>2. CASE b \notin DOMAIN B /\ d \in DOMAIN B
    BY <2>2
  <2>3. CASE b \in DOMAIN B /\ d \notin DOMAIN B
    BY <2>3
  <2>4. CASE b \notin DOMAIN B /\ d \notin DOMAIN B
    BY <2>4
  <2> QED BY <2>1, <2>2, <2>3, <2>4
<1>8. ASSUME NEW b \in DOMAIN D, NEW j \in DOMAIN D[b].intervals
      PROVE  \E u \in T \cup {t} : /\ HasInterval(u) /\ feed.trips[u].block = D[b].id
                                   /\ D[b].intervals[j] = Entry(u)
  <2>1. CASE b = c /\ j = n
    BY <2>1
  <2>2. CASE ~ (b = c /\ j = n)
    <3>1. b \in DOMAIN B /\ j \in DOMAIN B[b].intervals /\ D[b].intervals[j] = B[b].intervals[j]
      BY <1>5, <2>2
    <3>2. PICK u \in T : HasInterval(u) /\ feed.trips[u].block = B[b].id /\ B[b].intervals[j] = Entry(u)
      BY <1>2, <3>1
    <3> QED BY <3>1, <3>2
  <2> QED BY <2>1, <2>2
\* The trip of a place of B is done.
<1>9. ASSUME NEW b \in DOMAIN B, NEW j \in DOMAIN B[b].intervals PROVE B[b].intervals[j][1] # t
  <2>1. PICK u \in T : B[b].intervals[j] = Entry(u)
    BY <1>2
  <2> QED BY <2>1, EntryFirst
<1>10. ASSUME NEW b \in DOMAIN D, NEW j \in DOMAIN D[b].intervals, NEW k \in DOMAIN D[b].intervals,
              D[b].intervals[j][1] = D[b].intervals[k][1]
       PROVE  j = k
  <2>0. D[c].intervals[n][1] = t
    BY EntryFirst
  <2>1. CASE ~ (b = c /\ j = n) /\ ~ (b = c /\ k = n)
    <3>1. /\ b \in DOMAIN B /\ j \in DOMAIN B[b].intervals /\ k \in DOMAIN B[b].intervals
          /\ D[b].intervals[j] = B[b].intervals[j] /\ D[b].intervals[k] = B[b].intervals[k]
      BY <1>5, <2>1
    <3> QED BY <1>3, <1>10, <3>1
  <2>2. CASE b = c /\ j = n /\ k # n
    <3>1. b \in DOMAIN B /\ k \in DOMAIN B[b].intervals /\ D[b].intervals[k] = B[b].intervals[k]
      BY <1>5, <2>2
    <3> QED BY <1>9, <1>10, <2>0, <2>2, <3>1
  <2>3. CASE b = c /\ k = n /\ j # n
    <3>1. b \in DOMAIN B /\ j \in DOMAIN B[b].intervals /\ D[b].intervals[j] = B[b].intervals[j]
      BY <1>5, <2>3
    <3> QED BY <1>9, <1>10, <2>0, <2>3, <3>1
  <2> QED BY <2>1, <2>2, <2>3
<1>11. ASSUME NEW u \in T \cup {t}, HasInterval(u)
       PROVE  \E b \in DOMAIN D : \E j \in DOMAIN D[b].intervals : D[b].intervals[j] = Entry(u)
  <2>1. CASE u = t
    BY <2>1
  <2>2. CASE u \in T
    <3>1. PICK b \in DOMAIN B : \E j \in DOMAIN B[b].intervals : B[b].intervals[j] = Entry(u)
      BY <1>4, <1>11, <2>2
    <3>2. PICK j \in DOMAIN B[b].intervals : B[b].intervals[j] = Entry(u)
      BY <3>1
    <3> QED BY <1>6, <3>2
  <2> QED BY <2>1, <2>2
<1> QED BY <1>7, <1>8, <1>10, <1>11 DEF IntervalsRight

(* What the turn of a trip does to the blocks.                             *)
LEMMA IntervalsOfTrip ==
    ASSUME TypeInv, NEW T, IntervalsRight(blocks, T), NEW t \in DOMAIN feed.trips, t \notin T,
           feed.trips[t].route \in DOMAIN feed.routes
    PROVE  IntervalsRight(WithInterval(t), T \cup {t})
<1>1. feed.trips[t] \in TripRow /\ t \in Nat
  <2>1. feed.trips \in Seq(TripRow)
    BY FeedFacts
  <2> QED BY <2>1
<1>2. PICK times, id, n, B, D : /\ times = feed.trips[t].times /\ id = feed.trips[t].block /\ n = Len(times)
                                /\ B = blocks /\ D = WithInterval(t)
  OBVIOUS
<1>3. times \in Seq(TimeRow) /\ id \in Nat /\ n \in Nat /\ (n = 0 <=> times = <<>>)
  <2>1. times \in Seq(TimeRow) /\ id \in Nat
    BY <1>1, <1>2 DEF TripRow
  <2> QED BY <1>2, <2>1
<1>4. First(t) = times[1].arr /\ LastTime(t) = times[n].dep /\ Entry(t) = <<t, times[1].arr, times[n].dep>>
  BY <1>2 DEF First, LastTime, Entry
<1>5. HasInterval(t) <=> id # 0 /\ n # 0 /\ Missing \notin {times[1].arr, times[n].dep}
  BY <1>2, <1>3, <1>4 DEF HasInterval
<1>6. IntervalsRight(B, T)
  BY <1>2
<1>7. B \in Seq(BlockRow) /\ \A b \in DOMAIN B : B[b] \in BlockRow
  <2>1. B \in Seq(BlockRow)
    BY <1>6 DEF IntervalsRight
  <2> QED BY <2>1
<1> DEFINE known == {b \in DOMAIN B : B[b].id = id}
<1>8. PICK c : /\ c = CHOOSE b \in known : TRUE
               /\ D = IF id = 0 \/ n = 0 THEN B
                      ELSE IF Missing \in {times[1].arr, times[n].dep} THEN B
                      ELSE IF known = {} THEN Append(B, [id |-> id, intervals |-> <<Entry(t)>>])
                      ELSE [B EXCEPT ![c].intervals = Append(B[c].intervals, Entry(t))]
  BY <1>2, <1>4 DEF WithInterval
<1>9. CASE ~ HasInterval(t)
  <2>1. D = B
    BY <1>5, <1>8, <1>9, Zenon
  <2> QED BY <1>2, <1>6, <1>9, <2>1, IntervalsMore
<1>10. CASE HasInterval(t)
  <2>1. Entry(t) \in IntervalRow
    <3>1. times[1] \in TimeRow /\ times[n] \in TimeRow
      <4>1. 1 \in 1 .. Len(times) /\ n \in 1 .. Len(times)
        BY <1>2, <1>3, <1>5, <1>10
      <4> QED BY <1>3, <4>1
    <3>2. times[1].arr \in Fields /\ times[n].dep \in Fields
      BY <3>1 DEF TimeRow
    <3> QED BY <1>1, <1>4, <3>2 DEF IntervalRow
  <2>2. PICK e : e = Entry(t)
    OBVIOUS
  <2>3. e \in IntervalRow
    BY <2>1, <2>2
  <2>4. CASE known = {}
    <3>1. D = Append(B, [id |-> id, intervals |-> <<e>>])
      BY <1>5, <1>8, <1>10, <2>2, <2>4, Zenon
    <3>2. PICK row : row = [id |-> id, intervals |-> <<e>>]
      OBVIOUS
    <3>3. row \in BlockRow /\ row.id = id /\ row.intervals = <<e>>
      BY <1>3, <2>3, <3>2 DEF BlockRow
    <3>4. PICK d : d = Len(B) + 1
      OBVIOUS
    <3>5. D \in Seq(BlockRow) /\ d \in DOMAIN D /\ D[d] = row /\ d \notin DOMAIN B
          /\ DOMAIN B \subseteq DOMAIN D /\ (\A b \in DOMAIN D : b \in DOMAIN B \/ b = d)
          /\ \A b \in DOMAIN B : D[b] = B[b]
      BY <1>7, <3>1, <3>2, <3>3, <3>4
    <3>6. 1 \in DOMAIN D[d].intervals /\ DOMAIN D[d].intervals = {1} /\ D[d].intervals[1] = e
      BY <3>3, <3>5
    <3>7. \A b \in DOMAIN B : B[b].id # D[d].id
      BY <2>4, <3>3, <3>5
    <3>8. D[d].id = feed.trips[t].block
      BY <1>2, <3>3, <3>5
    <3> HIDE DEF known
    <3>9. IntervalsRight(D, T \cup {t})
      BY <1>6, <1>10, <2>2, <3>5, <3>6, <3>7, <3>8, IntervalsAdded
    <3> QED BY <1>2, <3>9
  <2>5. CASE known # {}
    <3>2. c \in DOMAIN B /\ B[c].id = id
      BY <1>8, <2>5
    <3>3. D = [B EXCEPT ![c].intervals = Append(B[c].intervals, e)]
      BY <1>5, <1>8, <1>10, <2>2, <2>5, Zenon
    <3> HIDE DEF known
    <3>4. B[c] \in BlockRow /\ B[c].intervals \in Seq(IntervalRow)
      <4>1. B[c] \in BlockRow
        BY <1>7, <3>2
      <4> QED BY <4>1 DEF BlockRow
    <3>5. PICK s, u : s = B[c].intervals /\ u = Append(s, e)
      OBVIOUS
    <3>6. u \in Seq(IntervalRow) /\ s \in Seq(IntervalRow)
      BY <2>3, <3>4, <3>5
    <3>7. PICK m : m = Len(s) + 1
      OBVIOUS
    <3>8. DOMAIN u = DOMAIN s \cup {m} /\ m \in DOMAIN u /\ m \notin DOMAIN s /\ u[m] = e
          /\ \A j \in DOMAIN s : u[j] = s[j]
      BY <2>3, <3>5, <3>6, <3>7
    <3>9. PICK row : row = [B[c] EXCEPT !.intervals = u]
      OBVIOUS
    <3>10. row \in BlockRow /\ row.id = id /\ row.intervals = u
      BY <3>2, <3>4, <3>6, <3>9 DEF BlockRow
    <3>11. D = [B EXCEPT ![c] = row]
      BY <3>3, <3>5, <3>9, Zenon
    <3>12. D \in Seq(BlockRow) /\ DOMAIN D = DOMAIN B /\ D[c] = row /\ \A b \in DOMAIN B : b # c => D[b] = B[b]
      BY <1>7, <3>2, <3>10, <3>11
    <3>13. \A b \in DOMAIN B : D[b].id = B[b].id
      BY <3>2, <3>10, <3>12
    <3>14. D[c].id = feed.trips[t].block
      BY <1>2, <3>10, <3>12
    <3>15. /\ DOMAIN D[c].intervals = DOMAIN B[c].intervals \cup {m} /\ m \in DOMAIN D[c].intervals
           /\ m \notin DOMAIN B[c].intervals /\ D[c].intervals[m] = Entry(t)
           /\ \A j \in DOMAIN B[c].intervals : D[c].intervals[j] = B[c].intervals[j]
      BY <2>2, <3>5, <3>8, <3>10, <3>12
    <3>16. IntervalsRight(D, T \cup {t})
      BY <1>6, <1>10, <3>2, <3>12, <3>13, <3>14, <3>15, IntervalsAdded
    <3> QED BY <1>2, <3>16
  <2> QED BY <2>4, <2>5
<1> QED BY <1>9, <1>10

(* IntervalsRight does not depend on anything but the feed.                *)
LEMMA IntervalsCarried ==
    ASSUME feed' = feed, NEW B, NEW T, IntervalsRight(B, T)
    PROVE  IntervalsRight(B, T)'
<1>1. \A t : Entry(t)' = Entry(t) /\ (HasInterval(t)' <=> HasInterval(t))
  BY DEF Entry, HasInterval, First, LastTime
<1> QED BY <1>1 DEF IntervalsRight

LEMMA IntervalsStep ==
    ASSUME TypeInv, IntervalsInv, [Next]_vars
    PROVE  IntervalsInv'
<1> SUFFICES ASSUME pass' # "raised" PROVE IntervalsInv'
  BY DEF IntervalsInv
<1>0. Moves
  BY StepMoves
<1>1. feed' = feed /\ pass # "raised"
  BY <1>0, NotRaised DEF Moves
<1>2. \A u \in DOMAIN feed.trips : TripDone(u)' <=> TripDone(u) \/ (ValidateTrip /\ u = SortedTrips[at])
  BY TripTurn
<1>3. PICK T, U, D : T = TripsDone /\ U = TripsDone' /\ D = blocks'
  OBVIOUS
<1>4. /\ T = {u \in DOMAIN feed.trips : TripDone(u)}
      /\ U = {u \in DOMAIN feed.trips : TripDone(u)'}
  BY <1>1, <1>3 DEF TripsDone
<1>5. IntervalsRight(blocks, T)
  BY <1>1, <1>3 DEF IntervalsInv
<1>6. ASSUME IntervalsRight(D, U) PROVE IntervalsInv'
  <2>1. IntervalsRight(D, U)'
    BY <1>1, <1>6, IntervalsCarried
  <2> QED BY <1>3, <2>1 DEF IntervalsInv
<1>7. CASE ~ ValidateTrip
  <2>1. U = T
    BY <1>2, <1>4, <1>7
  <2>2. D = blocks
    <3>1. CASE pass # "trips"
      BY <1>0, <1>3, <3>1 DEF Moves
    <3>2. CASE pass = "trips"
      <4>1. NextPass \/ UNCHANGED vars
        BY <1>7, <3>2, OwnSteps
      <4> QED BY <1>3, <4>1 DEF NextPass, vars, tables
    <3> QED BY <3>1, <3>2
  <2> QED BY <1>5, <1>6, <2>1, <2>2
<1>8. CASE ValidateTrip
  <2>1. PICK t : t = SortedTrips[at]
    OBVIOUS
  <2>2. t \in DOMAIN feed.trips /\ t \notin T
    BY <1>4, <1>8, <2>1, TurnOfTrip
  <2>3. U = T \cup {t}
    BY <1>2, <1>4, <1>8, <2>1, <2>2
  <2>4. CASE feed.trips[t].route \in DOMAIN feed.routes
    <3>1. D = WithInterval(t)
      BY <1>3, <1>8, <2>1, <2>4 DEF ValidateTrip
    <3>2. IntervalsRight(WithInterval(t), T \cup {t})
      BY <1>5, <2>2, <2>4, IntervalsOfTrip
    <3> QED BY <1>6, <2>3, <3>1, <3>2
  <2>5. CASE feed.trips[t].route \notin DOMAIN feed.routes
    <3>1. D = blocks
      BY <1>3, <1>8, <2>1, <2>5 DEF ValidateTrip
    <3>2. ~ HasInterval(t)
      BY <2>5 DEF HasInterval
    <3>3. IntervalsRight(D, T)
      BY <1>5, <3>1
    <3>4. IntervalsRight(D, T \cup {t})
      BY <3>2, <3>3, IntervalsMore
    <3> QED BY <1>6, <2>3, <3>4
  <2> QED BY <2>4, <2>5
<1> QED BY <1>7, <1>8

LEMMA IntervalsInit ==
    ASSUME Init
    PROVE  IntervalsInv
<1>1. blocks = <<>> /\ pass \in {"load stops", "frequencies"}
  BY DEF Init
<1>2. TripsDone = {}
  BY <1>1, LaterPasses DEF TripsDone, TripDone
<1>3. blocks \in Seq(BlockRow) /\ DOMAIN blocks = {}
  <2>1. <<>> \in Seq(BlockRow) /\ Len(<<>>) = 0
    OBVIOUS
  <2>2. DOMAIN <<>> = 1 .. 0
    BY <2>1, SeqAsFunction
  <2>3. 1 .. 0 = {}
    OBVIOUS
  <2> QED BY <1>1, <2>1, <2>2, <2>3, Zenon
<1>4. IntervalsRight(blocks, {})
  BY <1>3, Zenon DEF IntervalsRight
<1> QED BY <1>2, <1>4 DEF IntervalsInv

LEMMA RowNumbers == \A e \in IntervalRow : e[1] \in Nat /\ e[2] \in Int /\ e[3] \in Int
<1>1. Fields \subseteq Int
  BY DEF Fields, Missing, Blank, Bad
<1> QED BY <1>1 DEF IntervalRow

\* The list z has the intervals of s, by their start.
Sorted(s, z) ==
    /\ Len(s) \in Nat /\ DOMAIN z = 1 .. Len(s) /\ Len(z) = Len(s)
    /\ \A p \in DOMAIN z : z[p] \in IntervalRow /\ \E j \in DOMAIN s : z[p] = s[j]
    /\ \A j \in DOMAIN s : \E p \in DOMAIN z : z[p] = s[j]
    /\ \A p, q \in DOMAIN z : p < q => z[p][2] <= z[q][2]
    /\ (\A j, k \in DOMAIN s : s[j][1] = s[k][1] => j = k) =>
          \A p, q \in DOMAIN z : z[p][1] = z[q][1] => p = q

LEMMA IntervalsSorted ==
    ASSUME NEW b, blocks[b].intervals \in Seq(IntervalRow)
    PROVE  Sorted(blocks[b].intervals, SortedIntervals(b))
<1>0. PICK s, z : s = blocks[b].intervals /\ z = SortedIntervals(b)
  OBVIOUS
<1>1. PICK n : n = Len(s)
  OBVIOUS
<1>2. n \in Nat /\ DOMAIN s = 1 .. n /\ \A j \in 1 .. n : s[j] \in IntervalRow
  BY <1>0, <1>1
<1>3. \A j \in 1 .. n : s[j][2] \in Int /\ j \in Int
  BY <1>2, RowNumbers
<1> DEFINE S == 1 .. n
           R == {y \in S \X S : s[y[1]][2] < s[y[2]][2] \/ (s[y[1]][2] = s[y[2]][2] /\ y[1] < y[2])}
<1>4. IsFiniteSet(S) /\ Cardinality(S) = n
  BY <1>2, FS_Interval
<1>5. \A j, k \in S : <<j, k>> \in R <=> s[j][2] < s[k][2] \/ (s[j][2] = s[k][2] /\ j < k)
  OBVIOUS
<1>6. Orders(R, S)
  <2>1. PICK g : g = [j \in S |-> s[j][2]]
    OBVIOUS
  <2>2. \A j \in S : g[j] \in Int /\ j \in Int
    BY <1>3, <2>1
  <2>3. \A j, k \in S : <<j, k>> \in R <=> g[j] < g[k] \/ (g[j] = g[k] /\ j < k)
    BY <1>5, <2>1
  <2> HIDE DEF S, R
  <2> QED BY <2>2, <2>3 DEF Orders
<1>7. PICK o : Lists(o, R, S)
  <2> HIDE DEF S, R
  <2> QED BY <1>4, <1>6, SortExists
<1>8. /\ o \in [1 .. Cardinality(S) -> S]
      /\ \A j, k \in DOMAIN o : j < k => <<o[j], o[k]>> \in R
      /\ Range(o) = S
  <2> HIDE DEF S, R
  <2>1. /\ o \in [1 .. Cardinality(S) -> S] /\ DOMAIN o = 1 .. Cardinality(S)
        /\ \A j, k \in 1 .. Cardinality(S) : j < k => <<o[j], o[k]>> \in R
        /\ \A x \in S : \E k \in 1 .. Cardinality(S) : o[k] = x
    BY <1>7 DEF Lists
  <2> QED BY <2>1 DEF Range
<1>9. o \in [1 .. Cardinality(DOMAIN s) -> DOMAIN s]
      /\ (\A j, k \in DOMAIN o : j < k => s[o[j]][2] < s[o[k]][2] \/ (s[o[j]][2] = s[o[k]][2] /\ o[j] < o[k]))
      /\ Range(o) = DOMAIN s
  <2>1. DOMAIN s = S
    BY <1>2
  <2>2. \A j \in DOMAIN o : o[j] \in S
    <3> HIDE DEF S, R
    <3> QED BY <1>8
  <2> HIDE DEF S, R
  <2> QED BY <1>5, <1>8, <2>1, <2>2
<1>10. PICK order : /\ order \in [1 .. Cardinality(DOMAIN s) -> DOMAIN s]
                    /\ \A j, k \in DOMAIN order : j < k =>
                          s[order[j]][2] < s[order[k]][2] \/ (s[order[j]][2] = s[order[k]][2] /\ order[j] < order[k])
                    /\ Range(order) = DOMAIN s
                    /\ z = [k \in DOMAIN s |-> s[order[k]]]
  <2> HIDE DEF S, R
  <2> QED BY <1>0, <1>9 DEF SortedIntervals, InOrder
<1>11. /\ order \in [1 .. n -> 1 .. n] /\ \A j \in 1 .. n : \E k \in 1 .. n : order[k] = j
       /\ DOMAIN z = 1 .. n
       /\ \A k \in 1 .. n : z[k] = s[order[k]]
  <2>1. Cardinality(DOMAIN s) = n
    BY <1>2, <1>4
  <2>2. order \in [1 .. n -> 1 .. n] /\ DOMAIN order = 1 .. n
    BY <1>2, <1>10, <2>1
  <2>3. {order[k] : k \in 1 .. n} = 1 .. n
    BY <1>2, <1>10, <2>2, Zenon DEF Range
  <2>4. \A j \in 1 .. n : \E k \in 1 .. n : order[k] = j
    BY <2>3
  <2>5. DOMAIN z = 1 .. n /\ \A k \in 1 .. n : z[k] = s[order[k]]
    BY <1>2, <1>10, Zenon
  <2> QED BY <2>2, <2>4, <2>5, Zenon
<1>17. \A p \in 1 .. n : order[p] \in 1 .. n /\ z[p] = s[order[p]]
  BY <1>11
<1>12. z \in Seq(IntervalRow) /\ Len(z) = n
  <2>1. z \in [1 .. n -> IntervalRow]
    <3>1. \A k \in 1 .. n : z[k] \in IntervalRow
      BY <1>2, <1>11
    <3>2. z = [k \in 1 .. n |-> z[k]]
      BY <1>2, <1>10, <1>11
    <3> QED BY <3>1, <3>2
  <2> QED BY <1>2, <2>1, FunctionIsSeq
<1>13. ASSUME NEW p \in 1 .. n, NEW q \in 1 .. n, p < q
       PROVE  z[p][2] <= z[q][2] /\ order[p] # order[q]
  <2>1. order[p] \in 1 .. n /\ order[q] \in 1 .. n
    BY <1>11
  <2>2. s[order[p]][2] \in Int /\ s[order[q]][2] \in Int /\ order[p] \in Int
    BY <1>3, <2>1
  <2>3. s[order[p]][2] < s[order[q]][2] \/ (s[order[p]][2] = s[order[q]][2] /\ order[p] < order[q])
    BY <1>10, <1>11, <1>13
  <2>4. PICK x, y, i, j : x = s[order[p]][2] /\ y = s[order[q]][2] /\ i = order[p] /\ j = order[q]
    OBVIOUS
  <2>5. x <= y /\ i # j
    <3>1. x \in Int /\ y \in Int /\ i \in Int
      BY <2>2, <2>4
    <3>2. x < y \/ (x = y /\ i < j)
      BY <2>3, <2>4
    <3>3. x <= y
      BY <3>1, <3>2
    <3>4. i = j => x = y /\ ~ (i < j)
      BY <2>4, <3>1
    <3> QED BY <3>1, <3>2, <3>3, <3>4
  <2> QED BY <1>17, <2>4, <2>5
<1>14. ASSUME \A j, k \in DOMAIN s : s[j][1] = s[k][1] => j = k,
              NEW p \in 1 .. n, NEW q \in 1 .. n, z[p][1] = z[q][1]
       PROVE  p = q
  <2>1. order[p] \in 1 .. n /\ order[q] \in 1 .. n
    BY <1>11
  <2>2. order[p] = order[q]
    <3>1. s[order[p]][1] = s[order[q]][1]
      BY <1>14, <1>17
    <3> QED BY <1>2, <1>14, <2>1, <3>1
  <2>3. ~ (p < q) /\ ~ (q < p)
    BY <1>13, <2>2
  <2> QED BY <1>2, <2>3, EitherFirst
<1>15. \A p \in DOMAIN z : z[p] \in IntervalRow /\ \E j \in DOMAIN s : z[p] = s[j]
  <2> SUFFICES ASSUME NEW p \in 1 .. n PROVE z[p] \in IntervalRow /\ \E j \in DOMAIN s : z[p] = s[j]
    BY <1>11
  <2> QED BY <1>2, <1>17
<1>16. \A j \in DOMAIN s : \E p \in DOMAIN z : z[p] = s[j]
  <2> SUFFICES ASSUME NEW j \in 1 .. n PROVE \E p \in 1 .. n : z[p] = s[j]
    BY <1>2, <1>11
  <2>1. PICK p \in 1 .. n : order[p] = j
    BY <1>11
  <2> QED BY <1>17, <2>1
<1> HIDE DEF S, R
<1>18. \A p, q \in DOMAIN z : p < q => z[p][2] <= z[q][2]
  BY <1>11, <1>13
<1>19. (\A j, k \in DOMAIN s : s[j][1] = s[k][1] => j = k) =>
           \A p, q \in DOMAIN z : z[p][1] = z[q][1] => p = q
  BY <1>11, <1>14
<1>20. Sorted(s, z)
  BY <1>1, <1>2, <1>11, <1>12, <1>15, <1>16, <1>18, <1>19 DEF Sorted
<1> QED BY <1>0, <1>20

(* The sorted lists of all blocks, when every trip had its turn.           *)
LEMMA BlocksSorted ==
    ASSUME TypeInv, IntervalsInv, pass \in AfterTrips
    PROVE  /\ Len(blocks) \in Nat /\ DOMAIN blocks = 1 .. Len(blocks)
           /\ \A b \in DOMAIN blocks : /\ Len(SortedIntervals(b)) \in Nat
                                       /\ DOMAIN SortedIntervals(b) = 1 .. Len(SortedIntervals(b))
           /\ \A b \in DOMAIN blocks : \A p \in DOMAIN SortedIntervals(b) :
                 /\ SortedIntervals(b)[p] \in IntervalRow
                 /\ \E t \in DOMAIN feed.trips : /\ HasInterval(t) /\ feed.trips[t].block = blocks[b].id
                                                 /\ SortedIntervals(b)[p] = Entry(t)
           /\ \A b \in DOMAIN blocks : \A p, q \in DOMAIN SortedIntervals(b) :
                 /\ p < q => SortedIntervals(b)[p][2] <= SortedIntervals(b)[q][2]
                 /\ SortedIntervals(b)[p][1] = SortedIntervals(b)[q][1] => p = q
           /\ \A b, c \in DOMAIN blocks : blocks[b].id = blocks[c].id => b = c
           /\ \A t \in DOMAIN feed.trips : HasInterval(t) =>
                 \E b \in DOMAIN blocks : \E p \in DOMAIN SortedIntervals(b) : SortedIntervals(b)[p] = Entry(t)
<1>1. PICK B, T : B = blocks /\ T = DOMAIN feed.trips
  OBVIOUS
<1>2. IntervalsRight(B, T)
  <2>1. pass # "raised"
    BY LaterPasses
  <2>2. TripsDone = T
    BY <1>1 DEF TripsDone, TripDone
  <2> QED BY <1>1, <2>1, <2>2 DEF IntervalsInv
<1>3. B \in Seq(BlockRow)
  BY <1>2 DEF IntervalsRight
<1>4. Len(B) \in Nat /\ DOMAIN B = 1 .. Len(B) /\ \A b \in DOMAIN B : B[b] \in BlockRow
  BY <1>3, SeqAsFunction
<1>5. ASSUME NEW b \in DOMAIN B
      PROVE  /\ Len(SortedIntervals(b)) \in Nat /\ DOMAIN SortedIntervals(b) = 1 .. Len(SortedIntervals(b))
             /\ \A p \in DOMAIN SortedIntervals(b) :
                   /\ SortedIntervals(b)[p] \in IntervalRow
                   /\ \E j \in DOMAIN B[b].intervals : SortedIntervals(b)[p] = B[b].intervals[j]
             /\ \A j \in DOMAIN B[b].intervals :
                   \E p \in DOMAIN SortedIntervals(b) : SortedIntervals(b)[p] = B[b].intervals[j]
             /\ \A p, q \in DOMAIN SortedIntervals(b) :
                   /\ p < q => SortedIntervals(b)[p][2] <= SortedIntervals(b)[q][2]
                   /\ SortedIntervals(b)[p][1] = SortedIntervals(b)[q][1] => p = q
  <2>1. B[b].intervals \in Seq(IntervalRow)
    <3>1. B[b] \in BlockRow
      BY <1>4
    <3> QED BY <3>1 DEF BlockRow
  <2>2. \A j, k \in DOMAIN B[b].intervals : B[b].intervals[j][1] = B[b].intervals[k][1] => j = k
    BY <1>2 DEF IntervalsRight
  <2>3. Sorted(B[b].intervals, SortedIntervals(b))
    <3>1. Sorted(blocks[b].intervals, SortedIntervals(b))
      BY <1>1, <2>1, IntervalsSorted
    <3> QED BY <1>1, <3>1
  <2>4. /\ Len(B[b].intervals) \in Nat
        /\ DOMAIN SortedIntervals(b) = 1 .. Len(B[b].intervals)
        /\ Len(SortedIntervals(b)) = Len(B[b].intervals)
    BY <2>3, Zenon DEF Sorted
  <2>5. Len(SortedIntervals(b)) \in Nat /\ DOMAIN SortedIntervals(b) = 1 .. Len(SortedIntervals(b))
    BY <2>4
  <2>6. \A p \in DOMAIN SortedIntervals(b) :
           /\ SortedIntervals(b)[p] \in IntervalRow
           /\ \E j \in DOMAIN B[b].intervals : SortedIntervals(b)[p] = B[b].intervals[j]
    BY <2>3, Zenon DEF Sorted
  <2>7. \A j \in DOMAIN B[b].intervals :
           \E p \in DOMAIN SortedIntervals(b) : SortedIntervals(b)[p] = B[b].intervals[j]
    BY <2>3, Zenon DEF Sorted
  <2>8. \A p, q \in DOMAIN SortedIntervals(b) : p < q => SortedIntervals(b)[p][2] <= SortedIntervals(b)[q][2]
    BY <2>3, Zenon DEF Sorted
  <2>9. \A p, q \in DOMAIN SortedIntervals(b) : SortedIntervals(b)[p][1] = SortedIntervals(b)[q][1] => p = q
    BY <2>2, <2>3, Zenon DEF Sorted
  <2> QED BY <2>5, <2>6, <2>7, <2>8, <2>9, Zenon
<1>6. ASSUME NEW b \in DOMAIN B, NEW p \in DOMAIN SortedIntervals(b)
      PROVE  \E t \in T : HasInterval(t) /\ feed.trips[t].block = B[b].id /\ SortedIntervals(b)[p] = Entry(t)
  <2>1. PICK j \in DOMAIN B[b].intervals : SortedIntervals(b)[p] = B[b].intervals[j]
    BY <1>5
  <2>2. PICK t \in T : HasInterval(t) /\ feed.trips[t].block = B[b].id /\ B[b].intervals[j] = Entry(t)
    BY <1>2 DEF IntervalsRight
  <2> QED BY <2>1, <2>2
<1>7. ASSUME NEW t \in T, HasInterval(t)
      PROVE  \E b \in DOMAIN B : \E p \in DOMAIN SortedIntervals(b) : SortedIntervals(b)[p] = Entry(t)
  <2>1. PICK b \in DOMAIN B : \E j \in DOMAIN B[b].intervals : B[b].intervals[j] = Entry(t)
    BY <1>2, <1>7 DEF IntervalsRight
  <2>2. PICK j \in DOMAIN B[b].intervals : B[b].intervals[j] = Entry(t)
    BY <2>1
  <2>3. PICK p \in DOMAIN SortedIntervals(b) : SortedIntervals(b)[p] = B[b].intervals[j]
    BY <1>5
  <2> QED BY <2>2, <2>3
<1>8. \A b, c \in DOMAIN B : B[b].id = B[c].id => b = c
  BY <1>2 DEF IntervalsRight
<1>9. /\ \A b \in DOMAIN B : /\ Len(SortedIntervals(b)) \in Nat
                             /\ DOMAIN SortedIntervals(b) = 1 .. Len(SortedIntervals(b))
      /\ \A b \in DOMAIN B : \A p \in DOMAIN SortedIntervals(b) : SortedIntervals(b)[p] \in IntervalRow
      /\ \A b \in DOMAIN B : \A p, q \in DOMAIN SortedIntervals(b) :
            /\ p < q => SortedIntervals(b)[p][2] <= SortedIntervals(b)[q][2]
            /\ SortedIntervals(b)[p][1] = SortedIntervals(b)[q][1] => p = q
  BY <1>5
<1>10. \A b \in DOMAIN B : \A p \in DOMAIN SortedIntervals(b) :
                 /\ SortedIntervals(b)[p] \in IntervalRow
                 /\ \E t \in T : /\ HasInterval(t) /\ feed.trips[t].block = B[b].id
                                 /\ SortedIntervals(b)[p] = Entry(t)
  BY <1>6, <1>9
<1>11. \A t \in T : HasInterval(t) =>
                 \E b \in DOMAIN B : \E p \in DOMAIN SortedIntervals(b) : SortedIntervals(b)[p] = Entry(t)
  BY <1>7
<1> QED BY <1>1, <1>4, <1>8, <1>9, <1>10, <1>11

-----------------------------------------------------------------------------
(* The comparisons of the trips of a block.                                *)

\* Two places of the sorted list of a block; a pair is block, first, second.
AllPairs ==
    {z \in Nat \X Nat \X Nat : /\ z[1] \in DOMAIN blocks
                               /\ {z[2], z[3]} \subseteq DOMAIN SortedIntervals(z[1])
                               /\ z[2] < z[3]}

Ahead(z)  == SortedIntervals(z[1])[z[2]]
Behind(z) == SortedIntervals(z[1])[z[3]]

\* The second trip of the pair starts while the first one runs, on a common day.
Clash(z) == StillRunning(Ahead(z), Behind(z)) /\ RunTogether(Ahead(z)[1], Behind(z)[1])

ClashLine(z) == <<"overlapping_trips", Ahead(z)[1], Behind(z)[1], blocks[z[1]].id>>

Clashes(C) == {ClashLine(z) : z \in {z \in C : Clash(z)}}

\* The pairs whose comparison is over, or was passed over.
Covered ==
    {z \in AllPairs : \/ z[1] < block
                      \/ z[1] = block /\ (z[2] < at \/ (z[2] = at /\ z[3] < inner))}

AllServicesKnown == \A v \in DOMAIN feed.trips : feed.trips[v].service \in DOMAIN feed.dates

\* No two reports on overlapping trips are the same.
Single(R) == \A k, l \in DOMAIN R : R[k][1] = "overlapping_trips" /\ R[k] = R[l] => k = l

CollisionsInv ==
    pass # "raised" =>
        /\ pass \notin AfterTrips => block = 1 /\ Said(reports, "overlapping_trips") = {}
        /\ pass = "blocks" => /\ at < inner
                              /\ Said(reports, "overlapping_trips") = Clashes(Covered)
        /\ pass \in AfterBlocks => /\ Said(reports, "overlapping_trips") \subseteq Clashes(AllPairs)
                                   /\ AllServicesKnown =>
                                         Clashes(AllPairs) \subseteq Said(reports, "overlapping_trips")
        /\ Single(reports)

\* What the entries of cache, by pairs of services, say.
CacheInv ==
    \A key \in DOMAIN cache :
        \E s, u \in DOMAIN feed.dates :
            key = {s, u} /\ s # u /\ cache[key] = (feed.dates[s] \cap feed.dates[u] # {})

(* The trips of a pair tell it from every other.                           *)
LEMMA PairsApart ==
    ASSUME TypeInv, IntervalsInv, pass \in AfterTrips, NEW z \in AllPairs, NEW w \in AllPairs,
           {Ahead(z)[1], Behind(z)[1]} = {Ahead(w)[1], Behind(w)[1]}
    PROVE  z = w
<1>1. PICK b, p, q, c, m, n : z = <<b, p, q>> /\ w = <<c, m, n>>
  BY DEF AllPairs
<1>2. /\ b \in DOMAIN blocks /\ p \in DOMAIN SortedIntervals(b) /\ q \in DOMAIN SortedIntervals(b) /\ p < q
      /\ c \in DOMAIN blocks /\ m \in DOMAIN SortedIntervals(c) /\ n \in DOMAIN SortedIntervals(c) /\ m < n
      /\ p \in Nat /\ q \in Nat /\ m \in Nat /\ n \in Nat
  BY <1>1 DEF AllPairs
<1>3. /\ Ahead(z) = SortedIntervals(b)[p] /\ Behind(z) = SortedIntervals(b)[q]
      /\ Ahead(w) = SortedIntervals(c)[m] /\ Behind(w) = SortedIntervals(c)[n]
  BY <1>1 DEF Ahead, Behind
<1>4. ASSUME NEW d \in DOMAIN blocks, NEW e \in DOMAIN blocks, NEW i \in DOMAIN SortedIntervals(d),
             NEW j \in DOMAIN SortedIntervals(e), SortedIntervals(d)[i][1] = SortedIntervals(e)[j][1]
      PROVE  d = e /\ i = j
  <2>1. PICK t \in DOMAIN feed.trips : feed.trips[t].block = blocks[d].id /\ SortedIntervals(d)[i] = Entry(t)
    BY BlocksSorted
  <2>2. PICK u \in DOMAIN feed.trips : feed.trips[u].block = blocks[e].id /\ SortedIntervals(e)[j] = Entry(u)
    BY BlocksSorted
  <2>3. t = u
    BY <1>4, <2>1, <2>2, EntryFirst
  <2>4. d = e
    BY <2>1, <2>2, <2>3, BlocksSorted
  <2>5. \A k, l \in DOMAIN SortedIntervals(d) : SortedIntervals(d)[k][1] = SortedIntervals(d)[l][1] => k = l
    <3>1. \A g \in DOMAIN blocks : \A k, l \in DOMAIN SortedIntervals(g) :
             /\ k < l => SortedIntervals(g)[k][2] <= SortedIntervals(g)[l][2]
             /\ SortedIntervals(g)[k][1] = SortedIntervals(g)[l][1] => k = l
      BY BlocksSorted
    <3> QED BY <3>1, Zenon
  <2>6. j \in DOMAIN SortedIntervals(d) /\ SortedIntervals(d)[i][1] = SortedIntervals(d)[j][1]
    BY <1>4, <2>4
  <2> QED BY <2>4, <2>5, <2>6, Zenon
<1>5. PICK x, y, v, o : /\ x = Ahead(z)[1] /\ y = Behind(z)[1] /\ v = Ahead(w)[1] /\ o = Behind(w)[1]
  OBVIOUS
<1>6. (x = v \/ x = o) /\ (y = v \/ y = o)
  BY <1>5
<1>7. /\ x = v => b = c /\ p = m
      /\ x = o => b = c /\ p = n
      /\ y = v => q = m
      /\ y = o => q = n
  BY <1>2, <1>3, <1>4, <1>5
<1>8. b = c /\ p = m /\ q = n
  BY <1>2, <1>6, <1>7
<1> QED BY <1>1, <1>8

(* A pair is read from the blocks and the feed.                            *)
LEMMA PairsCarried ==
    ASSUME feed' = feed, blocks' = blocks
    PROVE  /\ AllPairs' = AllPairs
           /\ \A b : SortedIntervals(b)' = SortedIntervals(b)
           /\ AllServicesKnown' <=> AllServicesKnown
           /\ \A z : (Clash(z)' <=> Clash(z)) /\ ClashLine(z)' = ClashLine(z)
<1>1. \A b : SortedIntervals(b)' = SortedIntervals(b)
  BY DEF SortedIntervals, InOrder
<1>2. AllPairs' = AllPairs
  BY <1>1 DEF AllPairs
<1>3. \A z : Ahead(z)' = Ahead(z) /\ Behind(z)' = Behind(z)
  BY <1>1 DEF Ahead, Behind
<1>4. \A z : (Clash(z)' <=> Clash(z)) /\ ClashLine(z)' = ClashLine(z)
  <2>1. \A t, u : RunTogether(t, u)' <=> RunTogether(t, u)
    BY DEF RunTogether
  <2> QED BY <1>3, <2>1 DEF Clash, ClashLine, StillRunning
<1>5. AllServicesKnown' <=> AllServicesKnown
  BY DEF AllServicesKnown
<1> QED BY <1>1, <1>2, <1>4, <1>5

LEMMA ClashesCarried ==
    ASSUME feed' = feed, blocks' = blocks, NEW C
    PROVE  Clashes(C)' = Clashes(C)
BY PairsCarried DEF Clashes

LEMMA SingleGrown ==
    ASSUME NEW R, NEW Q, NEW K, Grows(R, Q, K), "overlapping_trips" \notin K, Single(R)
    PROVE  Single(Q)
<1>1. ASSUME NEW k \in DOMAIN Q, Q[k][1] = "overlapping_trips" PROVE k \in DOMAIN R /\ Q[k] = R[k]
  <2>1. k <= Len(R)
    BY <1>1 DEF Grows
  <2> QED BY <2>1 DEF Grows
<1>2. ASSUME NEW k \in DOMAIN Q, NEW l \in DOMAIN Q, Q[k][1] = "overlapping_trips", Q[k] = Q[l] PROVE k = l
  <2>1. Q[l][1] = "overlapping_trips"
    BY <1>2
  <2>2. /\ k \in DOMAIN R /\ l \in DOMAIN R /\ R[k][1] = "overlapping_trips" /\ R[k] = R[l]
    BY <1>1, <1>2, <2>1
  <2> QED BY <2>2 DEF Single
<1> QED BY <1>2 DEF Single

(* A report that was not made before.                                      *)
LEMMA SingleAdded ==
    ASSUME NEW R, IsSeq(R), NEW line, line[1] = "overlapping_trips", Single(R),
           line \notin Said(R, "overlapping_trips")
    PROVE  /\ Single(R \o <<line>>)
           /\ Said(R \o <<line>>, "overlapping_trips") = Said(R, "overlapping_trips") \cup {line}
<1>1. PICK Q, s : s = <<line>> /\ Q = R \o s
  OBVIOUS
<1>3. IsSeq(s) /\ Len(s) = 1 /\ s[1] = line /\ DOMAIN s = {1}
  <2>1. s \in Seq({line})
    BY <1>1
  <2>2. IsSeq(s)
    BY <2>1 DEF IsSeq
  <2>3. Len(s) = 1 /\ s[1] = line /\ DOMAIN s = {1}
    BY <1>1
  <2> QED BY <2>2, <2>3
<1>5. Said(Q, "overlapping_trips") = Said(R, "overlapping_trips") \cup {line}
  <2>1. Said(s, "overlapping_trips") = {line}
    BY <1>3 DEF Said
  <2>2. Said(R \o s, "overlapping_trips") = Said(R, "overlapping_trips") \cup Said(s, "overlapping_trips")
    <3>1. IsSeq(R) /\ IsSeq(s)
      BY <1>3
    <3> QED BY ONLY <3>1, ConcatSaid
  <2> QED BY <1>1, <2>1, <2>2
<1>6. PICK n : n = Len(R)
  OBVIOUS
<1>7. /\ n \in Nat /\ DOMAIN R = 1 .. n /\ DOMAIN Q = 1 .. n + 1 /\ Q[n + 1] = line
      /\ \A k \in 1 .. n : Q[k] = R[k]
  <2>1. PICK S : R \in Seq(S)
    BY DEF IsSeq
  <2>2. R \in Seq(S \cup {line}) /\ s \in Seq(S \cup {line})
    BY <1>1, <2>1
  <2> QED BY <1>1, <1>3, <1>6, <2>2
<1>8. \A k \in DOMAIN Q : k \in DOMAIN R \/ k = n + 1
  BY <1>7
<1>9. \A k \in DOMAIN R : R[k] # line
  <2> SUFFICES ASSUME NEW k \in DOMAIN R, R[k] = line PROVE FALSE
    OBVIOUS
  <2>1. R[k] \in Said(R, "overlapping_trips")
    BY DEF Said
  <2> QED BY <2>1
<1>10. ASSUME NEW k \in DOMAIN Q, NEW l \in DOMAIN Q, Q[k][1] = "overlapping_trips", Q[k] = Q[l] PROVE k = l
  <2>1. CASE k \in DOMAIN R /\ l \in DOMAIN R
    <3>1. R[k][1] = "overlapping_trips" /\ R[k] = R[l]
      BY <1>7, <1>10, <2>1
    <3> QED BY <2>1, <3>1 DEF Single
  <2>2. CASE k = n + 1 /\ l \in DOMAIN R
    BY <1>7, <1>9, <1>10, <2>2
  <2>3. CASE k \in DOMAIN R /\ l = n + 1
    BY <1>7, <1>9, <1>10, <2>3
  <2> QED BY <1>8, <2>1, <2>2, <2>3
<1>11. Single(Q)
  BY <1>10 DEF Single
<1> QED BY <1>1, <1>5, <1>11

(* The comparison of two trips.                                            *)
LEMMA Comparison ==
    ASSUME CompareTrips, NEW a, NEW b, a = SortedIntervals(block)[at], b = SortedIntervals(block)[inner]
    PROVE  /\ pass = "blocks" /\ block <= Len(blocks) /\ at <= Len(SortedIntervals(block))
           /\ inner <= Len(SortedIntervals(block)) /\ StillRunning(a, b)
           /\ blocks' = blocks /\ block' = block /\ feed' = feed
           /\ \/ /\ Service(a) = Service(b)
                 /\ reports' = reports \o Overlap(a, b)
                 /\ inner' = inner + 1 /\ cache' = cache /\ pass' = pass /\ at' = at
              \/ /\ Service(a) # Service(b)
                 /\ PairKey(a, b) \in DOMAIN cache \/ PairKey(a, b) \subseteq DOMAIN feed.dates
                 /\ cache' = CacheWith(a, b)
                 /\ reports' = reports \o (IF cache'[PairKey(a, b)] THEN Overlap(a, b) ELSE <<>>)
                 /\ inner' = inner + 1 /\ pass' = pass /\ at' = at
              \/ /\ Service(a) # Service(b)
                 /\ ~(PairKey(a, b) \subseteq DOMAIN feed.dates)
                 /\ pass' = "agencies" /\ cache' = cache /\ reports' = reports
BY Zenon DEF CompareTrips, Comparing, GoTo

(* What the entry for two services says, new or old.                       *)
LEMMA CacheFound ==
    ASSUME CacheInv, NEW a, NEW b, Service(a) # Service(b),
           PairKey(a, b) \in DOMAIN cache \/ PairKey(a, b) \subseteq DOMAIN feed.dates
    PROVE  /\ Service(a) \in DOMAIN feed.dates /\ Service(b) \in DOMAIN feed.dates
           /\ CacheWith(a, b)[PairKey(a, b)] = (feed.dates[Service(a)] \cap feed.dates[Service(b)] # {})
<1>1. PICK x, y, key, meet : /\ x = Service(a) /\ y = Service(b) /\ key = PairKey(a, b)
                             /\ meet = DatesMeet(a, b)
  OBVIOUS
<1>2. key = {x, y} /\ meet = (feed.dates[x] \cap feed.dates[y] # {}) /\ x # y
  BY <1>1 DEF PairKey, DatesMeet
<1>3. CASE key \in DOMAIN cache
  <2>1. PICK s, u \in DOMAIN feed.dates :
           key = {s, u} /\ s # u /\ cache[key] = (feed.dates[s] \cap feed.dates[u] # {})
    BY <1>3 DEF CacheInv
  <2>2. (s = x /\ u = y) \/ (s = y /\ u = x)
    BY <1>2, <2>1
  <2>3. feed.dates[s] \cap feed.dates[u] = feed.dates[x] \cap feed.dates[y]
    BY <2>2
  <2>4. CacheWith(a, b) = cache
    BY <1>1, <1>3 DEF CacheWith
  <2> QED BY <1>1, <2>1, <2>2, <2>3, <2>4
<1>4. CASE key \notin DOMAIN cache
  <2>1. CacheWith(a, b) = With(cache, key, meet)
    BY <1>1, <1>4 DEF CacheWith
  <2>2. With(cache, key, meet)[key] = meet
    BY DEF With
  <2>3. x \in DOMAIN feed.dates /\ y \in DOMAIN feed.dates
    BY <1>1, <1>2, <1>4
  <2> QED BY <1>1, <1>2, <2>1, <2>2, <2>3
<1> QED BY <1>3, <1>4

LEMMA CacheStep ==
    ASSUME TypeInv, CacheInv, [Next]_vars
    PROVE  CacheInv'
<1>0. Moves
  BY StepMoves
<1>1. feed' = feed
  BY <1>0 DEF Moves
<1>2. CASE cache' = cache
  <2>1. PICK C, D : C = cache /\ D = feed.dates
    OBVIOUS
  <2>2. \A key \in DOMAIN C : \E s, u \in DOMAIN D :
            key = {s, u} /\ s # u /\ C[key] = (D[s] \cap D[u] # {})
    BY <2>1 DEF CacheInv
  <2>3. cache' = C /\ feed'.dates = D
    BY <1>1, <1>2, <2>1
  <2> QED BY <2>2, <2>3 DEF CacheInv
<1>3. CASE CompareTrips
  <2>1. PICK a, b : a = SortedIntervals(block)[at] /\ b = SortedIntervals(block)[inner]
    OBVIOUS
  <2>2. \/ cache' = cache
        \/ /\ Service(a) # Service(b)
           /\ PairKey(a, b) \in DOMAIN cache \/ PairKey(a, b) \subseteq DOMAIN feed.dates
           /\ cache' = CacheWith(a, b)
    BY <1>3, <2>1, Comparison
  <2>3. CASE /\ Service(a) # Service(b)
             /\ PairKey(a, b) \in DOMAIN cache \/ PairKey(a, b) \subseteq DOMAIN feed.dates
             /\ cache' = CacheWith(a, b)
    <3>1. PICK x, y, key, c : x = Service(a) /\ y = Service(b) /\ key = PairKey(a, b) /\ c = CacheWith(a, b)
      OBVIOUS
    <3>2. /\ x \in DOMAIN feed.dates /\ y \in DOMAIN feed.dates /\ key = {x, y} /\ x # y
          /\ c[key] = (feed.dates[x] \cap feed.dates[y] # {})
      BY <2>3, <3>1, CacheFound DEF PairKey
    <3>3. \A k \in DOMAIN c : k = key \/ (k \in DOMAIN cache /\ c[k] = cache[k])
      BY <3>1 DEF CacheWith, With
    <3>4. \A k \in DOMAIN c : \E s, u \in DOMAIN feed.dates :
              k = {s, u} /\ s # u /\ c[k] = (feed.dates[s] \cap feed.dates[u] # {})
      <4> SUFFICES ASSUME NEW k \in DOMAIN c
                   PROVE  \E s, u \in DOMAIN feed.dates :
                              k = {s, u} /\ s # u /\ c[k] = (feed.dates[s] \cap feed.dates[u] # {})
        OBVIOUS
      <4>1. CASE k = key
        BY <3>2, <4>1
      <4>2. CASE k \in DOMAIN cache /\ c[k] = cache[k]
        <5>1. PICK s, u \in DOMAIN feed.dates :
                 k = {s, u} /\ s # u /\ cache[k] = (feed.dates[s] \cap feed.dates[u] # {})
          BY <4>2 DEF CacheInv
        <5> QED BY <4>2, <5>1
      <4> QED BY <3>3, <4>1, <4>2
    <3>5. cache' = c
      BY <2>3, <3>1
    <3> QED BY <1>1, <3>4, <3>5 DEF CacheInv
  <2> QED BY <1>2, <2>2, <2>3
<1>4. CASE ~ CompareTrips
  <2>1. cache' = cache
    <3>1. CASE pass # "blocks"
      BY <1>0, <3>1 DEF Moves
    <3>2. CASE pass = "blocks"
      <4>1. NextInterval \/ NextPass \/ UNCHANGED vars
        BY <1>4, <3>2, OwnSteps
      <4> QED BY <4>1 DEF NextInterval, NextPass, vars, tables
    <3> QED BY <3>1, <3>2
  <2> QED BY <1>2, <2>1
<1> QED BY <1>3, <1>4

(* When two trips run on a common day.                                     *)
LEMMA Together ==
    ASSUME NEW a, NEW b
    PROVE  RunTogether(a[1], b[1]) <=>
               \/ Service(a) = Service(b)
               \/ /\ Service(a) \in DOMAIN feed.dates /\ Service(b) \in DOMAIN feed.dates
                  /\ feed.dates[Service(a)] \cap feed.dates[Service(b)] # {}
<1>1. PICK x, y : x = Service(a) /\ y = Service(b)
  OBVIOUS
<1>2. x = feed.trips[a[1]].service /\ y = feed.trips[b[1]].service
  BY <1>1 DEF Service
<1>3. Cardinality({x, y}) = 1 <=> x = y
  <2>1. IsFiniteSet({x, y})
    <3>1. IsFiniteSet({x})
      BY FS_Singleton
    <3>2. {x, y} = {x} \cup {y}
      OBVIOUS
    <3> QED BY <3>1, <3>2, FS_AddElement
  <2>2. Cardinality({x, y}) = 1 <=> \E v : {x, y} = {v}
    BY <2>1, FS_Singleton
  <2>3. (\E v : {x, y} = {v}) <=> x = y
    OBVIOUS
  <2> QED BY <2>2, <2>3
<1>4. RunTogether(a[1], b[1]) <=>
          \/ Cardinality({x, y}) = 1
          \/ {x, y} \subseteq DOMAIN feed.dates /\ feed.dates[x] \cap feed.dates[y] # {}
  BY <1>2, Zenon DEF RunTogether
<1> QED BY <1>1, <1>3, <1>4

LEMMA ClashesMore ==
    ASSUME NEW C, NEW z
    PROVE  Clashes(C \cup {z}) = Clashes(C) \cup (IF Clash(z) THEN {ClashLine(z)} ELSE {})
BY DEF Clashes

(* The last pair of places that are over moves on.                         *)
LEMMA CollisionsOfComparison ==
    ASSUME TypeInv, IntervalsInv, CacheInv, CollisionsInv, CompareTrips
    PROVE  CollisionsInv'
<1>1. PICK a, b : a = SortedIntervals(block)[at] /\ b = SortedIntervals(block)[inner]
  OBVIOUS
<1>2. /\ pass = "blocks" /\ block <= Len(blocks) /\ at <= Len(SortedIntervals(block))
      /\ inner <= Len(SortedIntervals(block)) /\ StillRunning(a, b)
      /\ blocks' = blocks /\ block' = block /\ feed' = feed
  BY <1>1, Comparison
<1>3. pass \in AfterTrips /\ pass \notin AfterBlocks /\ pass # "raised"
  BY <1>2, LaterPasses
<1>4. at < inner /\ Said(reports, "overlapping_trips") = Clashes(Covered) /\ Single(reports)
  BY <1>2, <1>3 DEF CollisionsInv
<1>5. at \in Nat \ {0} /\ inner \in Nat /\ block \in Nat \ {0} /\ IsSeq(reports)
  BY DEF TypeInv
<1>6. /\ Len(blocks) \in Nat /\ DOMAIN blocks = 1 .. Len(blocks)
      /\ \A c \in DOMAIN blocks : /\ Len(SortedIntervals(c)) \in Nat
                                  /\ DOMAIN SortedIntervals(c) = 1 .. Len(SortedIntervals(c))
  BY <1>3, BlocksSorted
<1>7. block \in DOMAIN blocks
  BY <1>2, <1>5, <1>6
<1>8. at \in DOMAIN SortedIntervals(block) /\ inner \in DOMAIN SortedIntervals(block)
  <2>1. PICK n : n = Len(SortedIntervals(block))
    OBVIOUS
  <2>2. n \in Nat /\ DOMAIN SortedIntervals(block) = 1 .. n /\ at <= n /\ inner <= n
    BY <1>2, <1>6, <1>7, <2>1
  <2> QED BY <1>4, <1>5, <2>2
<1>9. PICK z : z = <<block, at, inner>>
  OBVIOUS
<1>10. z \in AllPairs /\ z[1] = block /\ z[2] = at /\ z[3] = inner
  BY <1>4, <1>5, <1>7, <1>8, <1>9 DEF AllPairs
<1>11. Ahead(z) = a /\ Behind(z) = b
  BY <1>1, <1>10 DEF Ahead, Behind
<1>12. PICK C, R, Q, line : C = Covered /\ R = reports /\ Q = reports' /\ line = ClashLine(z)
  OBVIOUS
<1>13. C \subseteq AllPairs /\ z \notin C
  <2>1. ~ (block < block) /\ ~ (at < at) /\ ~ (inner < inner)
    BY <1>5
  <2> QED BY <1>10, <1>12, <2>1 DEF Covered
<1>14. line = <<"overlapping_trips", a[1], b[1], blocks[block].id>>
  BY <1>10, <1>11, <1>12 DEF ClashLine
<1>15. line \notin Said(R, "overlapping_trips")
  <2> SUFFICES ASSUME line \in Clashes(C) PROVE FALSE
    BY <1>4, <1>12
  <2>1. PICK w \in C : line = ClashLine(w)
    BY DEF Clashes
  <2>2. Ahead(w)[1] = a[1] /\ Behind(w)[1] = b[1]
    BY <1>14, <2>1 DEF ClashLine
  <2>3. w = z
    <3>1. w \in AllPairs /\ {Ahead(w)[1], Behind(w)[1]} = {Ahead(z)[1], Behind(z)[1]}
      BY <1>11, <1>13, <2>2
    <3> QED BY <1>3, <1>10, <3>1, PairsApart
  <2> QED BY <1>13, <2>1, <2>3
<1>16. Clash(z) <=> RunTogether(a[1], b[1])
  BY <1>2, <1>11 DEF Clash
<1>17. Overlap(a, b) = Report("overlapping_trips", a[1], b[1], blocks[block].id)
  BY DEF Overlap
\* The comparison goes on.
<1>18. ASSUME inner' = inner + 1, pass' = pass, at' = at,
              Clash(z) => Q = R \o Overlap(a, b), ~ Clash(z) => Q = R
       PROVE  CollisionsInv'
  <2>1. Covered' = C \cup {z}
    <3>1. AllPairs' = AllPairs
      BY <1>2, PairsCarried
    <3>2. \A w \in AllPairs : w[1] \in Nat /\ w[2] \in Nat /\ w[3] \in Nat /\ w = <<w[1], w[2], w[3]>>
      BY DEF AllPairs
    <3>3. Covered' = {w \in AllPairs : \/ w[1] < block
                                       \/ w[1] = block /\ (w[2] < at \/ (w[2] = at /\ w[3] < inner + 1))}
      BY <1>2, <1>18, <3>1 DEF Covered
    <3>4. \A w \in AllPairs : w[3] < inner + 1 <=> w[3] < inner \/ w[3] = inner
      BY <1>5, <3>2
    <3>5. \A w \in AllPairs : w = z <=> w[1] = block /\ w[2] = at /\ w[3] = inner
      BY <1>9, <1>10, <3>2
    <3>6. \A w \in AllPairs : w \in Covered' <=> w \in C \/ w = z
      BY <1>12, <3>3, <3>4, <3>5 DEF Covered
    <3>7. Covered' \subseteq AllPairs
      BY <3>3
    <3> QED BY <1>10, <1>13, <3>6, <3>7
  <2>2. /\ Said(Q, "overlapping_trips") = Clashes(C) \cup (IF Clash(z) THEN {line} ELSE {})
        /\ Single(Q)
    <3>1. CASE Clash(z)
      <4>1. Q = R \o <<line>>
        BY <1>14, <1>17, <1>18, <3>1 DEF Report
      <4>2. IsSeq(R) /\ Single(R) /\ line[1] = "overlapping_trips"
        BY <1>4, <1>5, <1>12, <1>14
      <4>4. Single(Q) /\ Said(Q, "overlapping_trips") = Said(R, "overlapping_trips") \cup {line}
        <5>1. /\ Single(R \o <<line>>)
              /\ Said(R \o <<line>>, "overlapping_trips") = Said(R, "overlapping_trips") \cup {line}
          BY ONLY <1>15, <4>2, SingleAdded
        <5> QED BY <4>1, <5>1, Zenon
      <4> QED BY <1>4, <1>12, <3>1, <4>4
    <3>2. CASE ~ Clash(z)
      <4>1. Q = R
        BY <1>18, <3>2
      <4> QED BY <1>4, <1>12, <3>2, <4>1
    <3> QED BY <3>1, <3>2
  <2>3. Said(Q, "overlapping_trips") = Clashes(C \cup {z})
    BY <1>12, <2>2, ClashesMore
  <2>4. Clashes(Covered)' = Clashes(C \cup {z})
    <3>1. PICK D : D = C \cup {z}
      OBVIOUS
    <3>2. Clashes(D)' = Clashes(D)
      BY <1>2, ClashesCarried
    <3> QED BY <2>1, <3>1, <3>2
  <2>5. Said(reports, "overlapping_trips")' = Clashes(Covered)'
    BY <1>12, <2>3, <2>4
  <2>6. at' < inner'
    <3>1. at < inner + 1
      BY <1>4, <1>5
    <3> QED BY <1>18, <3>1, Zenon
  <2>7. pass' = "blocks" /\ pass' \in AfterTrips /\ pass' \notin AfterBlocks /\ Single(reports)'
    <3>1. Single(reports)'
      BY <1>12, <2>2 DEF Single
    <3> QED BY <1>2, <1>3, <1>18, <3>1
  <2> QED BY <2>5, <2>6, <2>7 DEF CollisionsInv
<1>19. CASE /\ Service(a) = Service(b)
            /\ reports' = reports \o Overlap(a, b)
            /\ inner' = inner + 1 /\ cache' = cache /\ pass' = pass /\ at' = at
  <2>1. Clash(z)
    BY <1>16, <1>19, Together
  <2> QED BY <1>12, <1>18, <1>19, <2>1
<1>20. CASE /\ Service(a) # Service(b)
            /\ PairKey(a, b) \in DOMAIN cache \/ PairKey(a, b) \subseteq DOMAIN feed.dates
            /\ cache' = CacheWith(a, b)
            /\ reports' = reports \o (IF cache'[PairKey(a, b)] THEN Overlap(a, b) ELSE <<>>)
            /\ inner' = inner + 1 /\ pass' = pass /\ at' = at
  <2>1. /\ Service(a) \in DOMAIN feed.dates /\ Service(b) \in DOMAIN feed.dates
        /\ CacheWith(a, b)[PairKey(a, b)] = (feed.dates[Service(a)] \cap feed.dates[Service(b)] # {})
    BY <1>20, CacheFound
  <2>2. Clash(z) <=> feed.dates[Service(a)] \cap feed.dates[Service(b)] # {}
    BY <1>16, <1>20, <2>1, Together
  <2>3. cache'[PairKey(a, b)] = (feed.dates[Service(a)] \cap feed.dates[Service(b)] # {})
    BY <1>20, <2>1
  <2>4. Clash(z) => Q = R \o Overlap(a, b)
    BY <1>12, <1>20, <2>2, <2>3, Zenon
  <2>5. ~ Clash(z) => Q = R \o <<>>
    BY <1>12, <1>20, <2>2, <2>3, Zenon
  <2>6. R \o <<>> = R
    <3>1. PICK S : R \in Seq(S)
      BY <1>5, <1>12 DEF IsSeq
    <3> QED BY <3>1
  <2> QED BY <1>18, <1>20, <2>4, <2>5, <2>6
<1>21. CASE /\ Service(a) # Service(b)
            /\ ~(PairKey(a, b) \subseteq DOMAIN feed.dates)
            /\ pass' = "agencies" /\ cache' = cache /\ reports' = reports
  <2>1. ~ AllServicesKnown
    <3>1. PICK t \in DOMAIN feed.trips : a = Entry(t)
      BY <1>1, <1>3, <1>7, <1>8, BlocksSorted
    <3>2. PICK u \in DOMAIN feed.trips : b = Entry(u)
      BY <1>1, <1>3, <1>7, <1>8, BlocksSorted
    <3>3. Service(a) = feed.trips[t].service /\ Service(b) = feed.trips[u].service
      BY <3>1, <3>2, EntryFirst DEF Service
    <3>4. Service(a) \notin DOMAIN feed.dates \/ Service(b) \notin DOMAIN feed.dates
      BY <1>21 DEF PairKey
    <3> QED BY <3>3, <3>4 DEF AllServicesKnown
  <2>2. pass' \in AfterTrips /\ pass' # "blocks" /\ ~ AllServicesKnown'
    BY <1>2, <1>21, <2>1, PairsCarried, LaterPasses
  <2>3. Said(reports, "overlapping_trips")' \subseteq Clashes(AllPairs)'
    <3>1. PICK D : D = AllPairs
      OBVIOUS
    <3>2. Clashes(D)' = Clashes(D) /\ AllPairs' = D
      BY <1>2, <3>1, ClashesCarried, PairsCarried
    <3>3. Clashes(C) \subseteq Clashes(D)
      BY <1>13, <3>1 DEF Clashes
    <3>4. Said(reports, "overlapping_trips")' = Clashes(C)
      BY <1>4, <1>12, <1>21
    <3> QED BY <3>2, <3>3, <3>4
  <2>4. Single(reports)'
    BY <1>4, <1>21 DEF Single
  <2> QED BY <2>2, <2>3, <2>4 DEF CollisionsInv
<1> QED BY <1>1, <1>19, <1>20, <1>21, Comparison

(* The pairs that are passed over do not clash.                            *)
LEMMA CollisionsOfNext ==
    ASSUME TypeInv, IntervalsInv, CollisionsInv, NextInterval
    PROVE  CollisionsInv'
<1>1. /\ pass = "blocks" /\ block <= Len(blocks) /\ ~ Comparing
      /\ \/ at < Len(SortedIntervals(block)) /\ at' = at + 1 /\ inner' = at + 2 /\ block' = block
         \/ ~ (at < Len(SortedIntervals(block))) /\ at' = 1 /\ inner' = 2 /\ block' = block + 1
  BY Zenon DEF NextInterval
<1>2. feed' = feed /\ blocks' = blocks /\ reports' = reports /\ pass' = pass
  BY Zenon DEF NextInterval
<1>3. pass \in AfterTrips /\ pass \notin AfterBlocks /\ pass # "raised"
  BY <1>1, LaterPasses
<1>4. at < inner /\ Said(reports, "overlapping_trips") = Clashes(Covered) /\ Single(reports)
  BY <1>1, <1>3 DEF CollisionsInv
<1>5. at \in Nat \ {0} /\ inner \in Nat /\ block \in Nat \ {0}
  BY DEF TypeInv
<1>6. /\ Len(blocks) \in Nat /\ DOMAIN blocks = 1 .. Len(blocks)
      /\ \A c \in DOMAIN blocks : /\ Len(SortedIntervals(c)) \in Nat
                                  /\ DOMAIN SortedIntervals(c) = 1 .. Len(SortedIntervals(c))
  BY <1>3, BlocksSorted
<1>7. block \in DOMAIN blocks
  BY <1>1, <1>5, <1>6
<1>8. PICK n, L : n = Len(SortedIntervals(block)) /\ L = SortedIntervals(block)
  OBVIOUS
<1>9. n \in Nat /\ DOMAIN L = 1 .. n
  BY <1>6, <1>7, <1>8
<1>10. PICK C, D : C = Covered /\ D = Covered'
  OBVIOUS
<1>11. /\ C = {w \in AllPairs : \/ w[1] < block
                                \/ w[1] = block /\ (w[2] < at \/ (w[2] = at /\ w[3] < inner))}
       /\ D = {w \in AllPairs : \/ w[1] < block'
                                \/ w[1] = block' /\ (w[2] < at' \/ (w[2] = at' /\ w[3] < inner'))}
  <2>1. AllPairs' = AllPairs
    BY <1>2, PairsCarried
  <2> QED BY <1>10, <2>1 DEF Covered
<1>12. \A w \in AllPairs : /\ w[1] \in Nat /\ w[2] \in Nat /\ w[3] \in Nat /\ w[2] < w[3]
                           /\ w[1] = block => w[2] \in 1 .. n /\ w[3] \in 1 .. n
                           /\ w[1] \in DOMAIN blocks /\ {w[2], w[3]} \subseteq DOMAIN SortedIntervals(w[1])
  BY <1>8, <1>9 DEF AllPairs
<1>13. ASSUME NEW w \in AllPairs, Clash(w), w \in D PROVE w \in C
  <2>1. CASE at < n /\ at' = at + 1 /\ inner' = at + 2 /\ block' = block
    <3>1. w[1] < block \/ (w[1] = block /\ (w[2] < at + 1 \/ (w[2] = at + 1 /\ w[3] < at + 2)))
      BY <1>11, <1>13, <2>1
    <3>2. PICK p, q : p = w[2] /\ q = w[3]
      OBVIOUS
    <3>3. p \in Nat /\ q \in Nat /\ p < q
      BY <1>12, <3>2
    <3>4. w[1] < block \/ (w[1] = block /\ (p < at \/ p = at))
      <4>1. ~ (p = at + 1 /\ q < at + 2) /\ (p < at + 1 <=> p < at \/ p = at)
        BY <1>5, <3>3
      <4> QED BY <3>1, <3>2, <4>1
    <3>5. ASSUME w[1] = block, p = at, ~ (q < inner) PROVE FALSE
      <4>1. q \in 1 .. n /\ at \in 1 .. n /\ inner \in 1 .. n /\ inner <= q
        <5>1. q \in 1 .. n
          BY <1>12, <3>2, <3>5
        <5>2. inner <= q
          BY <1>5, <3>3, <3>5
        <5>3. at <= n /\ inner <= n
          BY <1>4, <1>5, <1>9, <5>1, <5>2
        <5> QED BY <1>4, <1>5, <1>9, <5>1, <5>2, <5>3
      <4>2. ~ StillRunning(L[at], L[inner])
        <5>1. at <= Len(SortedIntervals(block)) /\ inner <= Len(SortedIntervals(block))
          BY <1>8, <1>9, <4>1
        <5> QED BY <1>1, <1>8, <5>1 DEF Comparing
      <4>3. StillRunning(L[at], L[q])
        BY <1>8, <1>13, <3>2, <3>5 DEF Clash, Ahead, Behind
      <4>4. L[inner][2] <= L[q][2]
        <5>1. L[q] \in IntervalRow /\ L[inner] \in IntervalRow
          BY <1>3, <1>7, <1>8, <1>9, <4>1, BlocksSorted
        <5>2. CASE inner = q
          BY <5>1, <5>2, RowNumbers
        <5>3. CASE inner < q
          BY <1>3, <1>7, <1>8, <1>9, <4>1, <5>3, BlocksSorted
        <5> QED BY <1>9, <4>1, <5>2, <5>3
      <4>5. PICK x, y, o : x = L[at][3] /\ y = L[inner][2] /\ o = L[q][2]
        OBVIOUS
      <4>6. x \in Int /\ y \in Int /\ o \in Int
        <5>1. L[q] \in IntervalRow /\ L[inner] \in IntervalRow /\ L[at] \in IntervalRow
          BY <1>3, <1>7, <1>8, <1>9, <4>1, BlocksSorted
        <5> QED BY <4>5, <5>1, RowNumbers
      <4>7. ~ (x > y) /\ x > o /\ y <= o
        BY <4>2, <4>3, <4>4, <4>5 DEF StillRunning
      <4> QED BY <4>6, <4>7
    <3> QED BY <1>11, <1>13, <3>2, <3>4, <3>5
  <2>2. CASE ~ (at < n) /\ at' = 1 /\ inner' = 2 /\ block' = block + 1
    <3>1. w[1] < block + 1 \/ (w[1] = block + 1 /\ (w[2] < 1 \/ (w[2] = 1 /\ w[3] < 2)))
      BY <1>11, <1>13, <2>2
    <3>2. PICK c, p, q : c = w[1] /\ p = w[2] /\ q = w[3]
      OBVIOUS
    <3>3. c \in Nat /\ p \in Nat /\ q \in Nat /\ p < q /\ p > 0
      <4>1. c \in DOMAIN blocks /\ p \in DOMAIN SortedIntervals(c)
        BY <1>12, <3>2
      <4>2. Len(SortedIntervals(c)) \in Nat /\ DOMAIN SortedIntervals(c) = 1 .. Len(SortedIntervals(c))
        BY <1>6, <4>1
      <4>3. p > 0
        BY <4>1, <4>2
      <4> QED BY <1>12, <3>2, <4>3
    <3>4. c < block \/ c = block
      <4>1. c < block + 1
        BY <3>1, <3>2, <3>3
      <4> QED BY <1>5, <3>3, <4>1
    <3>5. c = block => p < at
      <4> SUFFICES ASSUME c = block PROVE p < at
        OBVIOUS
      <4>1. p \in 1 .. n /\ q \in 1 .. n
        BY <1>12, <3>2
      <4> QED BY <1>5, <1>9, <2>2, <3>3, <4>1
    <3> QED BY <1>11, <1>13, <3>2, <3>4, <3>5
  <2> QED BY <1>1, <1>8, <2>1, <2>2
<1>14. C \subseteq D
  <2> SUFFICES ASSUME NEW w \in AllPairs,
                      w[1] < block \/ (w[1] = block /\ (w[2] < at \/ (w[2] = at /\ w[3] < inner)))
               PROVE  w[1] < block' \/ (w[1] = block' /\ (w[2] < at' \/ (w[2] = at' /\ w[3] < inner')))
    BY <1>11
  <2>1. PICK c, p : c = w[1] /\ p = w[2]
    OBVIOUS
  <2>2. c \in Nat /\ p \in Nat /\ (c < block \/ (c = block /\ (p < at \/ p = at)))
    BY <1>12, <2>1
  <2>3. c < block + 1 /\ (c < block \/ (c = block /\ p < at + 1))
    BY <1>5, <2>2
  <2> QED BY <1>1, <2>1, <2>3
<1>15. Clashes(C) = Clashes(D)
  <2>1. D \subseteq AllPairs
    BY <1>11
  <2>2. {w \in C : Clash(w)} = {w \in D : Clash(w)}
    BY <1>13, <1>14, <2>1
  <2> QED BY <2>2 DEF Clashes
<1>16. Said(reports, "overlapping_trips")' = Clashes(Covered)'
  <2>1. Clashes(D)' = Clashes(D)
    BY <1>2, ClashesCarried
  <2>2. Said(reports, "overlapping_trips") = Clashes(D)
    BY <1>4, <1>10, <1>15
  <2> QED BY <1>2, <1>10, <2>1, <2>2
<1>17. at' < inner'
  <2>1. at + 1 < at + 2 /\ 1 < 2
    BY <1>5
  <2> QED BY <1>1, <2>1, Zenon
<1>18. Single(reports)'
  BY <1>2, <1>4 DEF Single
<1> QED BY <1>1, <1>2, <1>3, <1>16, <1>17, <1>18 DEF CollisionsInv

LEMMA CollisionsStep ==
    ASSUME TypeInv, IntervalsInv, CacheInv, CollisionsInv, [Next]_vars
    PROVE  CollisionsInv'
<1> SUFFICES ASSUME pass' # "raised" PROVE CollisionsInv'
  BY DEF CollisionsInv
<1>0. Moves
  BY StepMoves
<1>1. pass \in Passes /\ IsSeq(reports) /\ feed' = feed /\ pass # "raised" /\ block \in Nat
  BY <1>0, NotRaised DEF TypeInv, Moves
<1>2. Single(reports)
  BY <1>1 DEF CollisionsInv
<1>3. CASE pass # "blocks"
  <2>1. "overlapping_trips" \notin Kinds(pass) /\ Grows(reports, reports', Kinds(pass)) /\ block' = block
    BY <1>0, <1>1, <1>3, OwnKinds DEF Moves
  <2>2. Said(reports', "overlapping_trips") = Said(reports, "overlapping_trips")
    BY <2>1, GrowsSaid
  <2>3. Single(reports)'
    <3>1. PICK R, Q, K : R = reports /\ Q = reports' /\ K = Kinds(pass)
      OBVIOUS
    <3>2. Single(Q)
      BY <1>2, <2>1, <3>1, SingleGrown
    <3> QED BY <3>1, <3>2 DEF Single
  <2>4. CASE pass \notin AfterTrips
    <3>1. block = 1 /\ Said(reports, "overlapping_trips") = {}
      BY <1>1, <2>4 DEF CollisionsInv
    <3>2. pass' \notin AfterBlocks
      BY <1>0, <1>1, <1>3, <2>4, Entering, LaterPasses
    <3>3. pass' = "blocks" => at' = 1 /\ inner' = 2
      BY <1>0, <1>3 DEF Moves
    <3>4. pass' = "blocks" => Covered' = {}
      <4> SUFFICES ASSUME pass' = "blocks", NEW w \in Covered' PROVE FALSE
        OBVIOUS
      <4>1. /\ at' = 1 /\ inner' = 2 /\ block' = 1
        BY <2>1, <3>1, <3>3
      <4>2. w \in AllPairs' /\ (w[1] < 1 \/ (w[1] = 1 /\ (w[2] < 1 \/ (w[2] = 1 /\ w[3] < 2))))
        BY <4>1 DEF Covered
      <4>3. PICK c, p, q, s, B : c = w[1] /\ p = w[2] /\ q = w[3] /\ s = SortedIntervals(c)' /\ B = blocks'
        OBVIOUS
      <4>4. c \in DOMAIN B /\ p \in DOMAIN s /\ p \in Nat /\ q \in Nat /\ p < q /\ c \in Nat
        BY <4>2, <4>3 DEF AllPairs
      <4>5. TypeInv' /\ IntervalsInv' /\ pass' \in AfterTrips
        BY StepMoves, IntervalsStep, LaterPasses
      <4>6. DOMAIN B = 1 .. Len(B) /\ Len(B) \in Nat
        BY <4>3, <4>5, BlocksSorted
      <4>7. DOMAIN s = 1 .. Len(s) /\ Len(s) \in Nat
        BY <4>3, <4>4, <4>5, BlocksSorted
      <4>8. c >= 1 /\ p >= 1 /\ q > 1
        BY <4>4, <4>6, <4>7
      <4>9. c < 1 \/ (c = 1 /\ (p < 1 \/ (p = 1 /\ q < 2)))
        BY <4>2, <4>3
      <4> QED BY <4>4, <4>8, <4>9
    <3>5. Clashes({})' = {}
      BY DEF Clashes
    <3>6. pass' = "blocks" => at' < inner' /\ Said(reports', "overlapping_trips") = Clashes(Covered)'
      <4>1. 1 < 2
        OBVIOUS
      <4>2. pass' = "blocks" => at' < inner'
        BY <3>3, <4>1, Zenon
      <4>3. pass' = "blocks" => Clashes(Covered)' = {}
        BY <3>4, <3>5
      <4> QED BY <2>2, <3>1, <4>2, <4>3
    <3>7. block' = 1 /\ Said(reports', "overlapping_trips") = {}
      BY <2>1, <2>2, <3>1
    <3> QED BY <2>3, <3>2, <3>6, <3>7 DEF CollisionsInv
  <2>5. CASE pass \in AfterTrips
    <3>1. pass \in AfterBlocks /\ blocks' = blocks
      BY <1>0, <1>3, <2>5, LaterPasses DEF Moves
    <3>2. pass' \in AfterBlocks
      <4>1. pass' = pass \/ <<pass, pass'>> \in Onward
        BY <1>0 DEF Moves
      <4>2. <<pass, pass'>> \in Onward => pass' \in AfterBlocks
        BY <3>1, LaterPasses DEF Onward
      <4> QED BY <3>1, <4>1, <4>2
    <3>3. PICK D : D = AllPairs
      OBVIOUS
    <3>4. Clashes(AllPairs)' = Clashes(D) /\ (AllServicesKnown' <=> AllServicesKnown)
      <4>1. AllPairs' = D /\ Clashes(D)' = Clashes(D)
        BY <1>1, <3>1, <3>3, PairsCarried, ClashesCarried
      <4> QED BY <1>1, <3>1, <4>1, PairsCarried
    <3>5. /\ Said(reports, "overlapping_trips") \subseteq Clashes(D)
          /\ AllServicesKnown => Clashes(D) \subseteq Said(reports, "overlapping_trips")
      BY <1>1, <3>1, <3>3 DEF CollisionsInv
    <3>6. /\ Said(reports', "overlapping_trips") \subseteq Clashes(AllPairs)'
          /\ AllServicesKnown' => Clashes(AllPairs)' \subseteq Said(reports', "overlapping_trips")
      BY <2>2, <3>4, <3>5
    <3>7. pass' \in AfterTrips /\ pass' # "blocks"
      BY <3>2, LaterPasses
    <3> QED BY <2>3, <3>6, <3>7 DEF CollisionsInv
  <2> QED BY <2>4, <2>5
<1>4. CASE CompareTrips
  BY <1>4, CollisionsOfComparison
<1>5. CASE NextInterval
  BY <1>5, CollisionsOfNext
<1>6. CASE pass = "blocks" /\ NextPass
  <2>1. /\ block > Len(blocks) /\ blocks' = blocks /\ reports' = reports /\ <<pass, pass'>> \in Onward
    BY <1>6, LoopEnds
  <2>2. pass' \in AfterBlocks /\ pass' # "blocks" /\ pass' \in AfterTrips /\ pass \in AfterTrips
    BY <1>6, <2>1, LaterPasses DEF Onward
  <2>3. Covered = AllPairs
    <3>1. Len(blocks) \in Nat /\ DOMAIN blocks = 1 .. Len(blocks)
      BY <2>2, BlocksSorted
    <3>2. \A c \in DOMAIN blocks : c < block
      BY <1>1, <2>1, <3>1
    <3>3. \A w \in AllPairs : w[1] \in DOMAIN blocks
      BY DEF AllPairs
    <3> QED BY <3>2, <3>3 DEF Covered
  <2>4. PICK D : D = AllPairs
    OBVIOUS
  <2>5. Said(reports, "overlapping_trips") = Clashes(D)
    BY <1>1, <1>6, <2>3, <2>4 DEF CollisionsInv
  <2>6. Clashes(AllPairs)' = Clashes(D)
    <3>1. AllPairs' = D /\ Clashes(D)' = Clashes(D)
      BY <1>1, <2>1, <2>4, PairsCarried, ClashesCarried
    <3> QED BY <3>1
  <2>7. Single(reports)'
    BY <1>2, <2>1 DEF Single
  <2> QED BY <2>1, <2>2, <2>5, <2>6, <2>7 DEF CollisionsInv
<1>7. CASE pass = "blocks" /\ UNCHANGED vars
  <2>1. /\ pass' = pass /\ at' = at /\ inner' = inner /\ block' = block
        /\ blocks' = blocks /\ reports' = reports
    BY <1>7 DEF vars, tables
  <2>2. PICK C : C = Covered
    OBVIOUS
  <2>3. Covered' = C
    <3>1. AllPairs' = AllPairs
      BY <1>1, <2>1, PairsCarried
    <3> QED BY <2>1, <2>2, <3>1 DEF Covered
  <2>4. Clashes(Covered)' = Clashes(Covered)
    <3>1. Clashes(C)' = Clashes(C)
      BY <1>1, <2>1, ClashesCarried
    <3> QED BY <2>2, <2>3, <3>1
  <2>5. at < inner /\ Said(reports, "overlapping_trips") = Clashes(Covered)
    BY <1>1, <1>7 DEF CollisionsInv
  <2>6. Single(reports)'
    BY <1>2, <2>1 DEF Single
  <2>7. pass' = "blocks" /\ pass' \in AfterTrips /\ pass' \notin AfterBlocks
    BY <1>7, <2>1, LaterPasses
  <2> QED BY <2>1, <2>4, <2>5, <2>6, <2>7 DEF CollisionsInv
<1> QED BY <1>3, <1>4, <1>5, <1>6, <1>7, OwnSteps

LEMMA CollisionsInit ==
    ASSUME Init
    PROVE  CacheInv /\ CollisionsInv
<1>1. reports = <<>> /\ pass \in {"load stops", "frequencies"} /\ block = 1 /\ cache = EmptyMap
  BY DEF Init
<1>2. pass \notin AfterTrips /\ pass \notin AfterBlocks /\ pass # "blocks"
  BY <1>1, LaterPasses
<1>3. DOMAIN reports = {}
  <2>1. <<>> \in Seq({}) /\ Len(<<>>) = 0
    OBVIOUS
  <2>2. DOMAIN <<>> = 1 .. 0
    BY <2>1, SeqAsFunction
  <2>3. 1 .. 0 = {}
    OBVIOUS
  <2>4. reports = <<>>
    BY <1>1
  <2> QED BY <2>2, <2>3, <2>4, Zenon
<1>4. Said(reports, "overlapping_trips") = {} /\ Single(reports)
  BY <1>3 DEF Said, Single
<1>5. CacheInv
  <2>1. DOMAIN cache = {}
    BY <1>1 DEF EmptyMap
  <2> QED BY <2>1 DEF CacheInv
<1> QED BY <1>1, <1>2, <1>4, <1>5 DEF CollisionsInv

(* The trips of a pair that clashes.                                       *)
LEMMA ClashFacts ==
    ASSUME TypeInv, IntervalsInv, pass \in AfterTrips, NEW z \in AllPairs, Clash(z)
    PROVE  \E t, u \in DOMAIN feed.trips :
              /\ ClashLine(z) = <<"overlapping_trips", t, u, blocks[z[1]].id>>
              /\ t = Ahead(z)[1] /\ u = Behind(z)[1]
              /\ HasInterval(t) /\ HasInterval(u)
              /\ feed.trips[t].block = blocks[z[1]].id /\ feed.trips[u].block = blocks[z[1]].id
              /\ First(t) <= First(u) /\ First(u) < LastTime(t)
              /\ RunTogether(t, u)
<1>1. PICK b, p, q : b = z[1] /\ p = z[2] /\ q = z[3]
  OBVIOUS
<1>2. b \in DOMAIN blocks /\ p \in DOMAIN SortedIntervals(b) /\ q \in DOMAIN SortedIntervals(b) /\ p < q
  BY <1>1 DEF AllPairs
<1>3. Ahead(z) = SortedIntervals(b)[p] /\ Behind(z) = SortedIntervals(b)[q]
  BY <1>1 DEF Ahead, Behind
<1>4. PICK t \in DOMAIN feed.trips : /\ HasInterval(t) /\ feed.trips[t].block = blocks[b].id
                                     /\ SortedIntervals(b)[p] = Entry(t)
  BY <1>2, BlocksSorted
<1>5. PICK u \in DOMAIN feed.trips : /\ HasInterval(u) /\ feed.trips[u].block = blocks[b].id
                                     /\ SortedIntervals(b)[q] = Entry(u)
  BY <1>2, BlocksSorted
<1>6. /\ Ahead(z)[1] = t /\ Ahead(z)[2] = First(t) /\ Ahead(z)[3] = LastTime(t)
      /\ Behind(z)[1] = u /\ Behind(z)[2] = First(u)
  BY <1>3, <1>4, <1>5, EntryFirst
<1>7. First(t) <= First(u)
  <2>1. SortedIntervals(b)[p][2] <= SortedIntervals(b)[q][2]
    BY <1>2, BlocksSorted
  <2> QED BY <1>3, <1>6, <2>1
<1>8. First(u) < LastTime(t)
  <2>1. LastTime(t) > First(u)
    BY <1>6 DEF Clash, StillRunning
  <2>2. PICK x, y : x = LastTime(t) /\ y = First(u)
    OBVIOUS
  <2>3. x \in Int /\ y \in Int
    <3>1. Ahead(z) \in IntervalRow /\ Behind(z) \in IntervalRow
      BY <1>2, <1>3, BlocksSorted
    <3> QED BY <1>6, <2>2, <3>1, RowNumbers
  <2>4. y < x
    BY <2>1, <2>2, <2>3
  <2> QED BY <2>2, <2>4
<1>9. RunTogether(t, u)
  BY <1>6 DEF Clash
<1>10. ClashLine(z) = <<"overlapping_trips", t, u, blocks[z[1]].id>>
  BY <1>6 DEF ClashLine
<1> QED BY <1>1, <1>4, <1>5, <1>6, <1>7, <1>8, <1>9, <1>10

(* Which trip comes first does not matter.                                 *)
LEMMA TogetherEither ==
    ASSUME NEW t, NEW u, RunTogether(t, u)
    PROVE  RunTogether(u, t)
<1>1. PICK x, y : x = feed.trips[t].service /\ y = feed.trips[u].service
  OBVIOUS
<1>2. {x, y} = {y, x} /\ feed.dates[x] \cap feed.dates[y] = feed.dates[y] \cap feed.dates[x]
  OBVIOUS
<1> QED BY <1>1, <1>2, Zenon DEF RunTogether

LEMMA ClashReported ==
    ASSUME TypeInv, IntervalsInv, CollisionsInv, pass \in AfterBlocks,
           NEW k \in DOMAIN reports, reports[k][1] = "overlapping_trips"
    PROVE  \E z \in AllPairs : Clash(z) /\ reports[k] = ClashLine(z)
<1>1. reports[k] \in Said(reports, "overlapping_trips")
  BY DEF Said
<1>2. Said(reports, "overlapping_trips") \subseteq Clashes(AllPairs)
  BY LaterPasses DEF CollisionsInv
<1> QED BY <1>1, <1>2 DEF Clashes

(* What the reports say of the trips when the loop is over.                *)
LEMMA BlocksReported ==
    ASSUME TypeInv, IntervalsInv, CollisionsInv, pass \in AfterBlocks,
           NEW t \in DOMAIN feed.trips, NEW u \in DOMAIN feed.trips, t < u
    PROVE  /\ CountOf({"overlapping_trips"}, t, u) <= 1
           /\ /\ AllServicesKnown /\ HasInterval(t) /\ HasInterval(u)
              /\ feed.trips[t].block = feed.trips[u].block
              /\ First(t) < LastTime(u) /\ First(u) < LastTime(t)
              /\ RunTogether(t, u)
              => CountOf({"overlapping_trips"}, t, u) = 1
<1>1. pass \in AfterTrips /\ pass # "raised"
  BY LaterPasses
<1>2. PICK H : H = {k \in DOMAIN reports : /\ reports[k][1] = "overlapping_trips"
                                           /\ {reports[k][2], reports[k][3]} = {t, u}}
  OBVIOUS
<1>3. CountOf({"overlapping_trips"}, t, u) = Cardinality(H)
  BY <1>2 DEF CountOf
<1>4. ASSUME NEW k \in H, NEW l \in H PROVE k = l
  <2>1. /\ k \in DOMAIN reports /\ reports[k][1] = "overlapping_trips" /\ {reports[k][2], reports[k][3]} = {t, u}
        /\ l \in DOMAIN reports /\ reports[l][1] = "overlapping_trips" /\ {reports[l][2], reports[l][3]} = {t, u}
    BY <1>2
  <2>2. PICK z \in AllPairs : Clash(z) /\ reports[k] = ClashLine(z)
    BY <2>1, ClashReported
  <2>3. PICK w \in AllPairs : Clash(w) /\ reports[l] = ClashLine(w)
    BY <2>1, ClashReported
  <2>4. /\ reports[k][2] = Ahead(z)[1] /\ reports[k][3] = Behind(z)[1]
        /\ reports[l][2] = Ahead(w)[1] /\ reports[l][3] = Behind(w)[1]
    BY <2>2, <2>3 DEF ClashLine
  <2>5. {Ahead(z)[1], Behind(z)[1]} = {Ahead(w)[1], Behind(w)[1]}
    BY <2>1, <2>4
  <2>6. z = w
    BY <1>1, <2>5, PairsApart
  <2>7. Single(reports)
    BY <1>1 DEF CollisionsInv
  <2> QED BY <2>1, <2>2, <2>3, <2>6, <2>7 DEF Single
<1>5. (H = {} => Cardinality(H) = 0) /\ \A k \in H : Cardinality(H) = 1
  <2>1. H = {} => Cardinality(H) = 0
    BY FS_EmptySet
  <2>2. ASSUME NEW k \in H PROVE Cardinality(H) = 1
    <3>1. H = {k}
      BY <1>4
    <3> QED BY <3>1, FS_Singleton
  <2> QED BY <2>1, <2>2
<1>6. Cardinality(H) <= 1
  <2>1. Cardinality(H) = 0 \/ Cardinality(H) = 1
    BY <1>5
  <2> QED BY <2>1
<1>7. ASSUME AllServicesKnown, HasInterval(t), HasInterval(u), feed.trips[t].block = feed.trips[u].block,
             First(t) < LastTime(u), First(u) < LastTime(t), RunTogether(t, u)
      PROVE  H # {}
  <2>1. PICK b \in DOMAIN blocks : \E p \in DOMAIN SortedIntervals(b) : SortedIntervals(b)[p] = Entry(t)
    BY <1>1, <1>7, BlocksSorted
  <2>2. PICK p \in DOMAIN SortedIntervals(b) : SortedIntervals(b)[p] = Entry(t)
    BY <2>1
  <2>3. PICK c \in DOMAIN blocks : \E q \in DOMAIN SortedIntervals(c) : SortedIntervals(c)[q] = Entry(u)
    BY <1>1, <1>7, BlocksSorted
  <2>4. PICK q \in DOMAIN SortedIntervals(c) : SortedIntervals(c)[q] = Entry(u)
    BY <2>3
  <2>5. feed.trips[t].block = blocks[b].id
    <3>1. PICK v \in DOMAIN feed.trips : feed.trips[v].block = blocks[b].id /\ SortedIntervals(b)[p] = Entry(v)
      BY <1>1, <2>2, BlocksSorted
    <3>2. Entry(t) = Entry(v)
      BY <2>2, <3>1
    <3>3. Entry(t)[1] = t /\ Entry(v)[1] = v
      BY EntryFirst
    <3> QED BY <3>1, <3>2, <3>3
  <2>6. feed.trips[u].block = blocks[c].id
    <3>1. PICK v \in DOMAIN feed.trips : feed.trips[v].block = blocks[c].id /\ SortedIntervals(c)[q] = Entry(v)
      BY <1>1, <2>4, BlocksSorted
    <3>2. Entry(u) = Entry(v)
      BY <2>4, <3>1
    <3>3. Entry(u)[1] = u /\ Entry(v)[1] = v
      BY EntryFirst
    <3> QED BY <3>1, <3>2, <3>3
  <2>7. b = c
    BY <1>1, <1>7, <2>5, <2>6, BlocksSorted
  <2>8. p # q
    <3>1. t # u
      <4>1. t \in Nat /\ u \in Nat
        <5>1. feed.trips \in Seq(TripRow)
          BY FeedFacts
        <5> QED BY <5>1
      <4> QED BY <4>1
    <3> QED BY <2>2, <2>4, <2>7, <3>1, EntryFirst
  <2>9. b \in Nat /\ p \in Nat /\ q \in Nat
    <3>1. /\ Len(blocks) \in Nat /\ DOMAIN blocks = 1 .. Len(blocks)
          /\ Len(SortedIntervals(b)) \in Nat /\ DOMAIN SortedIntervals(b) = 1 .. Len(SortedIntervals(b))
      BY <1>1, BlocksSorted
    <3>2. DOMAIN blocks \subseteq Nat /\ DOMAIN SortedIntervals(b) \subseteq Nat
      BY <3>1
    <3> QED BY <2>7, <3>2
  <2>10. First(t) \in Int /\ First(u) \in Int /\ LastTime(t) \in Int /\ LastTime(u) \in Int
    <3>1. Entry(t) \in IntervalRow /\ Entry(u) \in IntervalRow
      BY <1>1, <2>2, <2>4, BlocksSorted
    <3> QED BY <3>1, RowNumbers, EntryFirst
  <2>11. StillRunning(Entry(t), Entry(u)) /\ StillRunning(Entry(u), Entry(t))
    <3>1. LastTime(t) > First(u) /\ LastTime(u) > First(t)
      BY <1>7, <2>10
    <3> QED BY <3>1, EntryFirst DEF StillRunning
  <2>12. RunTogether(u, t)
    BY <1>7, TogetherEither
  <2>13. PICK z \in AllPairs : Clash(z) /\ {Ahead(z)[1], Behind(z)[1]} = {t, u}
    <3>1. CASE p < q
      <4>1. PICK z : z = <<b, p, q>>
        OBVIOUS
      <4>2. z \in AllPairs /\ Ahead(z) = Entry(t) /\ Behind(z) = Entry(u)
        BY <2>2, <2>4, <2>7, <2>9, <3>1, <4>1 DEF AllPairs, Ahead, Behind
      <4> QED BY <1>7, <2>11, <4>2, EntryFirst DEF Clash
    <3>2. CASE q < p
      <4>1. PICK z : z = <<b, q, p>>
        OBVIOUS
      <4>2. z \in AllPairs /\ Ahead(z) = Entry(u) /\ Behind(z) = Entry(t)
        BY <2>2, <2>4, <2>7, <2>9, <3>2, <4>1 DEF AllPairs, Ahead, Behind
      <4>3. {u, t} = {t, u}
        OBVIOUS
      <4> QED BY <2>11, <2>12, <4>2, <4>3, EntryFirst DEF Clash
    <3> QED BY <2>8, <2>9, <3>1, <3>2
  <2>14. ClashLine(z) \in Said(reports, "overlapping_trips")
    <3>1. Clashes(AllPairs) \subseteq Said(reports, "overlapping_trips")
      BY <1>1, <1>7 DEF CollisionsInv
    <3>2. ClashLine(z) \in Clashes(AllPairs)
      BY <2>13 DEF Clashes
    <3> QED BY <3>1, <3>2
  <2>15. PICK k \in DOMAIN reports : reports[k] = ClashLine(z)
    BY <2>14 DEF Said
  <2>16. reports[k][1] = "overlapping_trips" /\ reports[k][2] = Ahead(z)[1] /\ reports[k][3] = Behind(z)[1]
    BY <2>15 DEF ClashLine
  <2>17. k \in H
    BY <1>2, <2>13, <2>16
  <2> QED BY <2>17
<1> QED BY <1>3, <1>5, <1>6, <1>7

(* The comparison of the sorted trips of each block, with its early exit,  *)
(* its cache of services and its early return, reports only trips that     *)
(* overlap on a common day, none twice, and all of them when every service *)
(* is known, for every feed.                                               *)
THEOREM BlockReportsExact == Spec => []BlockReportsAreExact
<1>1. Init => TypeInv /\ IntervalsInv /\ CacheInv /\ CollisionsInv
  BY TypeInit, IntervalsInit, CollisionsInit
<1>2. TypeInv /\ IntervalsInv /\ CacheInv /\ CollisionsInv /\ [Next]_vars
          => (TypeInv /\ IntervalsInv /\ CacheInv /\ CollisionsInv)'
  BY StepMoves, IntervalsStep, CacheStep, CollisionsStep
<1>3. TypeInv /\ IntervalsInv /\ CacheInv /\ CollisionsInv => BlockReportsAreExact
  <2> SUFFICES ASSUME TypeInv, IntervalsInv, CollisionsInv, Past("blocks") PROVE BlockReportsAreExact
    BY DEF BlockReportsAreExact
  <2>1. pass \in AfterBlocks /\ pass \in AfterTrips
    BY PastIs, LaterPasses
  <2>2. ASSUME NEW k \in DOMAIN reports, reports[k][1] = "overlapping_trips"
        PROVE  /\ HasInterval(reports[k][2]) /\ HasInterval(reports[k][3])
               /\ {feed.trips[reports[k][2]].block, feed.trips[reports[k][3]].block} = {reports[k][4]}
               /\ First(reports[k][2]) <= First(reports[k][3]) /\ First(reports[k][3]) < LastTime(reports[k][2])
               /\ RunTogether(reports[k][2], reports[k][3])
    <3>1. PICK z \in AllPairs : Clash(z) /\ reports[k] = ClashLine(z)
      BY <2>1, <2>2, ClashReported
    <3>2. PICK d : d = blocks[z[1]].id
      OBVIOUS
    <3>3. PICK t, u \in DOMAIN feed.trips :
              /\ ClashLine(z) = <<"overlapping_trips", t, u, d>>
              /\ HasInterval(t) /\ HasInterval(u)
              /\ feed.trips[t].block = d /\ feed.trips[u].block = d
              /\ First(t) <= First(u) /\ First(u) < LastTime(t)
              /\ RunTogether(t, u)
      BY <2>1, <3>1, <3>2, ClashFacts, Zenon
    <3>4. reports[k][2] = t /\ reports[k][3] = u /\ reports[k][4] = d
      BY <3>1, <3>3
    <3>5. {feed.trips[t].block, feed.trips[u].block} = {d}
      BY <3>3
    <3> QED BY <3>3, <3>4, <3>5, Zenon
  <2>3. ASSUME NEW t \in DOMAIN feed.trips, NEW u \in DOMAIN feed.trips, t < u
        PROVE  /\ CountOf({"overlapping_trips"}, t, u) <= 1
               /\ /\ AllServicesKnown /\ HasInterval(t) /\ HasInterval(u)
                  /\ feed.trips[t].block = feed.trips[u].block
                  /\ First(t) < LastTime(u) /\ First(u) < LastTime(t)
                  /\ RunTogether(t, u)
                  => CountOf({"overlapping_trips"}, t, u) = 1
    BY <2>1, <2>3, BlocksReported
  <2> QED BY <2>2, <2>3, Zenon DEF BlockReportsAreExact, AllServicesKnown
<1> QED BY <1>1, <1>2, <1>3, PTL DEF Spec

=============================================================================
