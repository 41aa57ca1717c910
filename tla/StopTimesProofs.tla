--------------------------- MODULE StopTimesProofs ---------------------------
(***************************************************************************)
(* The stop times of a trip, for any stops, times, bounds and sequences of *)
(* calls: trips built in order move forward, also after interpolation, and *)
(* the two checks that walk over the stop times report exactly what they   *)
(* are for.  The walks are recursive functions; what they compute is       *)
(* proved by looking at the least position where it would be wrong.        *)
(***************************************************************************)
EXTENDS StopTimes, WellFoundedInduction, TLAPS

-----------------------------------------------------------------------------
(* Numbers and recursive functions.                                        *)

(* A set of numbers has a least one.                                       *)
LEMMA Least ==
    ASSUME NEW T \in SUBSET Nat, T # {}
    PROVE  \E m \in T : \A k \in T : m <= k
<1> DEFINE R == OpToRel(<, Nat)
<1>1. PICK m \in T : \A k \in T : ~ (<<k, m>> \in R)
  BY NatLessThanWellFounded, WFMin
<1>2. ASSUME NEW k \in T
      PROVE  m <= k
  <2>1. <<k, m>> \in Nat \X Nat /\ <<k, m>>[1] = k /\ <<k, m>>[2] = m
    OBVIOUS
  <2>2. k < m => <<k, m>> \in R
    BY <2>1, Zenon DEF OpToRel
  <2>3. ~ k < m
    BY <1>1, <2>2
  <2> QED BY <2>3
<1> QED BY <1>2

(* What holds of 0 and passes from each number to the next holds of all.   *)
LEMMA Induction ==
    ASSUME NEW n \in Nat, NEW P \in SUBSET Nat, 0 \in P,
           \A k \in 1 .. n : k - 1 \in P => k \in P
    PROVE  0 .. n \subseteq P
<1> DEFINE T == {k \in 0 .. n : k \notin P}
<1> SUFFICES ASSUME T # {} PROVE FALSE
  OBVIOUS
<1>1. T \in SUBSET Nat
  OBVIOUS
<1>2. PICK m \in T : \A k \in T : m <= k
  <2> HIDE DEF T
  <2> QED BY <1>1, Least
<1>3. m \in 1 .. n /\ m - 1 \in 0 .. n /\ m - 1 \notin T
  BY <1>2
<1> QED BY <1>2, <1>3

(* The function f begins with b and goes on with the step function g.      *)
Follows(n, b, g, f) ==
    \A k \in 0 .. n : f[k] = IF k = 0 THEN b ELSE g[<<k, f[k - 1]>>]

(* A step function defines a recursive function along the numbers.         *)
LEMMA Recursion ==
    ASSUME NEW n \in Nat, NEW S, NEW b \in S, NEW g \in [(1 .. n) \X S -> S]
    PROVE  \E f \in [0 .. n -> S] : Follows(n, b, g, f)
<1> DEFINE Q(m, f) == \A k \in 0 .. m : f[k] = IF k = 0 THEN b ELSE g[<<k, f[k - 1]>>]
           P == {m \in 0 .. n : \E f \in [0 .. m -> S] : Q(m, f)}
<1>1. 0 \in P
  <2> DEFINE f == [k \in 0 .. 0 |-> b]
  <2>1. f \in [0 .. 0 -> S] /\ Q(0, f)
    OBVIOUS
  <2> HIDE DEF f
  <2> QED BY <2>1
<1>2. ASSUME NEW m \in 1 .. n, m - 1 \in P
      PROVE  m \in P
  <2>1. PICK f \in [0 .. m - 1 -> S] : Q(m - 1, f)
    BY <1>2
  <2> DEFINE h == [k \in 0 .. m |-> IF k < m THEN f[k] ELSE g[<<m, f[m - 1]>>]]
  <2>2. m - 1 \in 0 .. m - 1 /\ f[m - 1] \in S
    OBVIOUS
  <2>3. g[<<m, f[m - 1]>>] \in S
    BY <2>2
  <2>4. h \in [0 .. m -> S]
    BY <2>3
  <2>5. /\ \A k \in 0 .. m - 1 : h[k] = f[k]
        /\ h[m] = g[<<m, f[m - 1]>>]
    OBVIOUS
  <2> HIDE DEF h
  <2>6. ASSUME NEW k \in 0 .. m
        PROVE  h[k] = IF k = 0 THEN b ELSE g[<<k, h[k - 1]>>]
    <3>1. CASE k = m
      <4>1. h[m - 1] = f[m - 1] /\ m # 0
        BY <2>2, <2>5
      <4> QED BY <3>1, <2>5, <4>1
    <3>2. CASE k # m /\ k # 0
      <4>1. k \in 0 .. m - 1 /\ k - 1 \in 0 .. m - 1
        BY <3>2
      <4>2. h[k] = f[k] /\ h[k - 1] = f[k - 1]
        BY <2>5, <4>1
      <4>3. f[k] = g[<<k, f[k - 1]>>]
        BY <2>1, <3>2, <4>1
      <4> QED BY <3>2, <4>2, <4>3
    <3>3. CASE k # m /\ k = 0
      <4>1. k \in 0 .. m - 1
        BY <3>3
      <4> QED BY <2>1, <2>5, <3>3, <4>1
    <3> QED BY <3>1, <3>2, <3>3
  <2>7. Q(m, h)
    BY <2>6
  <2> QED BY <2>4, <2>7
<1>3. n \in P
  <2> HIDE DEF P
  <2>1. P \in SUBSET Nat
    BY DEF P
  <2>2. 0 .. n \subseteq P
    BY <1>1, <1>2, <2>1, Induction
  <2> QED BY <2>2
<1> QED BY <1>3 DEF Follows

(* A list of numbers has a greatest one.                                   *)
LEMMA Greatest ==
    ASSUME NEW n \in Nat, n # 0, NEW f \in [1 .. n -> Int]
    PROVE  \E m \in 1 .. n : \A k \in 1 .. n : f[k] <= f[m]
<1> DEFINE P == {m \in 0 .. n : m = 0 \/ \E j \in 1 .. m : \A k \in 1 .. m : f[k] <= f[j]}
<1>1. 0 \in P /\ P \in SUBSET Nat
  OBVIOUS
<1>2. ASSUME NEW m \in 1 .. n, m - 1 \in P
      PROVE  m \in P
  <2>1. CASE m = 1
    BY <2>1
  <2>2. CASE m # 1
    <3>1. PICK j \in 1 .. m - 1 : \A k \in 1 .. m - 1 : f[k] <= f[j]
      BY <1>2, <2>2
    <3>2. CASE f[m] <= f[j]
      <4>1. \A k \in 1 .. m : f[k] <= f[j]
        BY <3>1, <3>2
      <4> QED BY <4>1
    <3>3. CASE ~ f[m] <= f[j]
      <4>1. \A k \in 1 .. m : f[k] \in Int /\ (k \in 1 .. m - 1 \/ k = m)
        OBVIOUS
      <4>2. \A k \in 1 .. m : f[k] <= f[m]
        BY <3>1, <3>3, <4>1
      <4> QED BY <4>2
    <3> QED BY <3>2, <3>3
  <2> QED BY <2>1, <2>2
<1>3. n \in P
  <2> HIDE DEF P
  <2>1. 0 .. n \subseteq P
    BY <1>1, <1>2, Induction
  <2> QED BY <2>1
<1> QED BY <1>3

(* An element that no other exceeds is the maximum.                        *)
LEMMA MaxIs ==
    ASSUME NEW S \in SUBSET Int, NEW m \in S, \A y \in S : y <= m
    PROVE  Max(S) = m
<1>1. \A x \in S : (\A y \in S : x >= y) => x = m
  OBVIOUS
<1>2. \A y \in S : m >= y
  OBVIOUS
<1> QED BY <1>1, <1>2 DEF Max

-----------------------------------------------------------------------------
(* The rows of a trip.                                                     *)

(* The rows that StopTime.__init__ lets through: a reporter that raises    *)
(* lets no arrival through that has no departure.                          *)
GoodRow ==
    {r \in Row : /\ r.dep # None => r.arr # None
                 /\ r.dep <= MaxSecs
                 /\ strict => (r.arr # None => r.dep # None)}

(* add_stop_time_object numbers the rows in the order it appends them.     *)
Numbered ==
    origin = "appended" =>
        \A i, j \in 1 .. Len(rows) : i < j => rows[i].seq < rows[j].seq

TripInv ==
    /\ rows \in Seq(GoodRow)
    /\ origin \in Origins
    /\ strict \in BOOLEAN
    /\ Numbered
    /\ AppendedTripMovesForward

(* What DELETE leaves are rows that were there.                            *)
LEMMA WithoutKeepsRows ==
    ASSUME NEW G, rows \in Seq(G), NEW seq, NEW stop
    PROVE  Without(seq, stop) \in Seq(G)
<1>1. PICK n : n = Len(rows)
  OBVIOUS
<1>2. PICK S : S = Seq(G)
  OBVIOUS
<1>3. n \in Nat /\ \A k \in 1 .. n : rows[k] \in G
  BY <1>1
<1>4. << >> \in S /\ \A s \in S : \A k \in 1 .. n : Append(s, rows[k]) \in S
  BY <1>2, <1>3
<1> DEFINE Step(k, s) == IF rows[k].seq = seq /\ rows[k].stop = stop THEN s
                         ELSE Append(s, rows[k])
           F(kept) == [k \in 0 .. n |-> IF k = 0 THEN << >> ELSE Step(k, kept[k - 1])]
<1>5. \A s \in S : \A k \in 1 .. n : Step(k, s) \in S
  BY <1>4
<1>6. Without(seq, stop) = (CHOOSE h : h = F(h))[n]
  BY <1>1, Zenon DEF Without
<1> HIDE DEF Step
<1>7. PICK g : g = [x \in (1 .. n) \X S |-> Step(x[1], x[2])]
  OBVIOUS
<1>8. /\ g \in [(1 .. n) \X S -> S]
      /\ \A s \in S : \A k \in 1 .. n : g[<<k, s>>] = Step(k, s)
  BY <1>5, <1>7
<1>9. PICK f \in [0 .. n -> S] :
         \A k \in 0 .. n : f[k] = IF k = 0 THEN << >> ELSE g[<<k, f[k - 1]>>]
  <2>1. \E f \in [0 .. n -> S] : Follows(n, << >>, g, f)
    BY <1>3, <1>4, <1>8, Recursion
  <2> QED BY <2>1, Zenon DEF Follows
<1>10. f = F(f)
  <2>1. \A k \in 1 .. n : k - 1 \in 0 .. n /\ k # 0
    BY <1>3
  <2>2. ASSUME NEW k \in 1 .. n
        PROVE  f[k] = Step(k, f[k - 1])
    <3>1. k - 1 \in 0 .. n /\ k # 0 /\ k \in 0 .. n
      BY <1>3, <2>1
    <3>2. f[k - 1] \in S /\ f[k] = g[<<k, f[k - 1]>>]
      BY <1>9, <3>1
    <3> QED BY <1>8, <3>2
  <2>3. \A k \in 0 .. n : k = 0 \/ k \in 1 .. n
    BY <1>3
  <2>4. \A k \in 0 .. n : f[k] = IF k = 0 THEN << >> ELSE Step(k, f[k - 1])
    BY <1>9, <2>2, <2>3
  <2> QED BY <2>4
<1>11. PICK kept : kept = F(kept) /\ Without(seq, stop) = kept[n]
  <2> HIDE DEF F
  <2> QED BY <1>6, <1>10
<1>12. \A k \in 0 .. n : kept[k] = IF k = 0 THEN << >> ELSE Step(k, kept[k - 1])
  BY <1>11
<1> DEFINE P == {k \in 0 .. n : kept[k] \in S}
<1>13. 0 \in P
  BY <1>3, <1>4, <1>12
<1>14. ASSUME NEW k \in 1 .. n, k - 1 \in P
       PROVE  k \in P
  <2>1. k \in 0 .. n /\ k # 0 /\ kept[k - 1] \in S
    BY <1>3, <1>14
  <2>2. kept[k] = Step(k, kept[k - 1])
    BY <1>12, <2>1
  <2> QED BY <1>5, <2>1, <2>2
<1>15. 0 .. n \subseteq P
  <2>1. P \in SUBSET Nat
    BY <1>3
  <2> HIDE DEF P
  <2> QED BY <1>3, <1>13, <1>14, <2>1, Induction
<1>16. n \in 0 .. n
  BY <1>3
<1> QED BY <1>2, <1>11, <1>15, <1>16

(* A stop time that StopTime.__init__ makes is a good row.                 *)
LEMMA StopTimeIsGood ==
    ASSUME NEW seq \in Nat, NEW stop \in Stops, NEW time \in Times
    PROVE  StopTime(seq, stop, time) \in GoodRow
<1>1. 0 .. MaxSecs \subseteq Nat /\ \A s \in 0 .. MaxSecs : s <= MaxSecs /\ s # -1
  BY StopTimesAssumption
<1>2. MaxSecs \in Nat
  BY StopTimesAssumption
<1>3. \/ time[1] = None /\ time[2] = None
      \/ time[1] \in 0 .. MaxSecs /\ time[2] \in 0 .. MaxSecs
      \/ ~ strict /\ time[1] \in 0 .. MaxSecs /\ time[2] = None
  BY DEF Times
<1> DEFINE r == StopTime(seq, stop, time)
<1>4. r.seq = seq /\ r.stop = stop /\ r.arr = time[1] /\ r.dep = time[2]
  BY DEF StopTime
<1>5. r \in Row
  BY <1>1, <1>3 DEF StopTime, Row
<1>6. /\ r.dep # None => r.arr # None
      /\ r.dep <= MaxSecs
      /\ strict => (r.arr # None => r.dep # None)
  <2> HIDE DEF r
  <2> QED BY <1>1, <1>2, <1>3, <1>4 DEF None
<1> QED BY <1>5, <1>6 DEF GoodRow

(* max of the sequence numbers, and so the next one, is a number above     *)
(* all of them.                                                            *)
LEMMA NextNumberIsNew ==
    ASSUME rows \in Seq(GoodRow)
    PROVE  NextNumber \in Nat /\ \A i \in 1 .. Len(rows) : rows[i].seq < NextNumber
<1>1. Len(rows) \in Nat /\ \A i \in 1 .. Len(rows) : rows[i].seq \in Nat
  BY DEF GoodRow, Row
<1>2. CASE rows = << >>
  BY <1>2 DEF NextNumber
<1>3. CASE rows # << >>
  <2> DEFINE f == [i \in 1 .. Len(rows) |-> rows[i].seq]
  <2>1. f \in [1 .. Len(rows) -> Int] /\ Len(rows) # 0
    BY <1>1, <1>3
  <2>2. PICK m \in 1 .. Len(rows) : \A k \in 1 .. Len(rows) : f[k] <= f[m]
    <3> HIDE DEF f
    <3> QED BY <1>1, <2>1, Greatest
  <2>3. /\ SequenceNumbers \in SUBSET Int /\ rows[m].seq \in SequenceNumbers
        /\ \A y \in SequenceNumbers : y <= rows[m].seq
    BY <1>1, <2>2 DEF SequenceNumbers
  <2>4. Max(SequenceNumbers) = rows[m].seq
    BY <2>3, MaxIs
  <2>5. NextNumber = rows[m].seq + 1
    BY <1>3, <2>4 DEF NextNumber
  <2> QED BY <1>1, <2>2, <2>5
<1> QED BY <1>2, <1>3

(* SQL's max of a column of times.                                         *)
LEMMA SqlMaxBounds ==
    ASSUME NEW n \in Nat, NEW f \in [1 .. n -> Nat \cup {None}]
    PROVE  LET S == {f[i] : i \in 1 .. n} IN
           SqlMax(S) \in Nat \cup {None} /\ \A i \in 1 .. n : f[i] <= SqlMax(S)
<1> DEFINE S == {f[i] : i \in 1 .. n}
<1>1. f \in [1 .. n -> Int] /\ S \in SUBSET Int
  BY DEF None
<1>2. CASE S \subseteq {None}
  <2>1. SqlMax(S) = None /\ \A i \in 1 .. n : f[i] = None
    BY <1>2 DEF SqlMax
  <2>2. None <= None
    BY DEF None
  <2>3. \A i \in 1 .. n : f[i] <= SqlMax(S)
    BY <2>1, <2>2, Zenon
  <2> QED BY <2>1, <2>3
<1>3. CASE ~ S \subseteq {None}
  <2>1. n # 0
    BY <1>3
  <2>2. PICK m \in 1 .. n : \A k \in 1 .. n : f[k] <= f[m]
    BY <1>1, <2>1, Greatest
  <2>3. f[m] \in S /\ \A y \in S : y <= f[m]
    BY <2>2
  <2>4. Max(S) = f[m]
    BY <1>1, <2>3, MaxIs
  <2>5. SqlMax(S) = f[m]
    BY <1>3, <2>4 DEF SqlMax
  <2> QED BY <2>2, <2>5
<1> QED BY <1>2, <1>3

(* A new trip meets the invariant.                                         *)
LEMMA InitTripInv == Init => TripInv
<1> SUFFICES ASSUME Init PROVE TripInv
  OBVIOUS
<1>1. rows = << >> /\ origin = "appended" /\ strict \in BOOLEAN
  BY DEF Init
<1>2. rows \in Seq(GoodRow) /\ 1 .. Len(rows) = {}
  BY <1>1
<1> QED BY <1>1, <1>2, Zenon DEF TripInv, Origins, Numbered, AppendedTripMovesForward

(* The state after a call that adds one row to a list of good rows.        *)
LEMMA AppendRow ==
    ASSUME NEW rest \in Seq(GoodRow), NEW seq \in Nat, NEW stop \in Stops,
           NEW time \in Times, strict' = strict,
           rows' = Append(rest, StopTime(seq, stop, time))
    PROVE  /\ rows' \in Seq(GoodRow')
           /\ Len(rows') = Len(rest) + 1
           /\ \A i \in 1 .. Len(rest) : rows'[i] = rest[i]
           /\ rows'[Len(rest) + 1] = StopTime(seq, stop, time)
<1>1. StopTime(seq, stop, time) \in GoodRow
  BY StopTimeIsGood
<1>2. GoodRow' = GoodRow
  BY DEF GoodRow
<1> HIDE DEF GoodRow
<1> QED BY <1>1, <1>2

(* add_stop_time_object numbers the new row above all others and, with a   *)
(* reporter that raises, gives it no arrival before an earlier time.       *)
LEMMA AddKeepsTripInv == TripInv /\ AddStopTimeObject => TripInv'
<1> SUFFICES ASSUME TripInv, AddStopTimeObject PROVE TripInv'
  OBVIOUS
<1>1. /\ rows \in Seq(GoodRow) /\ Len(rows) \in Nat
      /\ \A i \in 1 .. Len(rows) : rows[i] \in GoodRow
  BY DEF TripInv
<1>2. PICK stop \in Stops, time \in Times :
         /\ ~ AddFails(time)
         /\ rows' = Append(rows, StopTime(NextNumber, stop, time))
  BY DEF AddStopTimeObject
<1>3. origin' = origin /\ strict' = strict
  BY DEF AddStopTimeObject
<1>4. NextNumber \in Nat /\ \A i \in 1 .. Len(rows) : rows[i].seq < NextNumber
  BY <1>1, NextNumberIsNew
<1> DEFINE n == Len(rows)
           new == StopTime(NextNumber, stop, time)
<1>5. /\ rows' \in Seq(GoodRow') /\ Len(rows') = n + 1
      /\ \A i \in 1 .. n : rows'[i] = rows[i]
      /\ rows'[n + 1] = new
  BY <1>1, <1>2, <1>3, <1>4, AppendRow
<1>6. new.seq = NextNumber /\ new.arr = time[1]
  BY DEF StopTime
<1>7. n \in Nat
  BY <1>1
<1> HIDE DEF n, new
<1>8. \A i \in 1 .. n + 1 : i \in 1 .. n \/ i = n + 1
  BY <1>7
<1>9. Numbered'
  <2> SUFFICES ASSUME origin = "appended", NEW i \in 1 .. n + 1, NEW j \in 1 .. n + 1, i < j
               PROVE  rows'[i].seq < rows'[j].seq
    BY <1>3, <1>5 DEF Numbered
  <2>1. i \in 1 .. n /\ rows'[i] = rows[i]
    BY <1>5, <1>7
  <2>2. CASE j \in 1 .. n
    BY <1>5, <2>1, <2>2 DEF TripInv, Numbered, n
  <2>3. CASE j = n + 1
    BY <1>4, <1>5, <1>6, <2>1, <2>3 DEF n
  <2> QED BY <1>8, <2>2, <2>3
<1>10. AppendedTripMovesForward'
  <2> SUFFICES ASSUME strict, origin = "appended",
                      NEW i \in 1 .. n + 1, NEW j \in 1 .. n + 1, i < j, rows'[j].arr # None
               PROVE  rows'[i].arr <= rows'[j].arr /\ rows'[i].dep <= rows'[j].arr
    BY <1>3, <1>5 DEF AppendedTripMovesForward, Timed
  <2>1. i \in 1 .. n /\ rows'[i] = rows[i]
    BY <1>5, <1>7
  <2>2. CASE j \in 1 .. n
    BY <1>5, <2>1, <2>2 DEF TripInv, AppendedTripMovesForward, Timed, n
  <2>3. CASE j = n + 1
    <3>1. rows # << >>
      BY <2>1 DEF n
    <3> DEFINE a == SqlMax(Arrivals)
               d == SqlMax(Departures)
    <3>2. time[1] # None
      BY <1>5, <1>6, <2>3
    <3>3. a # None /\ d # None /\ ~ time[1] < Max({a, d})
      BY <1>2, <3>1, <3>2 DEF AddFails
    <3>4. a \in Nat \cup {None} /\ rows[i].arr <= a
      <4> DEFINE f == [k \in 1 .. n |-> rows[k].arr]
      <4>1. f \in [1 .. n -> Nat \cup {None}]
        BY <1>1 DEF GoodRow, Row, n
      <4>2. Arrivals = {f[k] : k \in 1 .. n} /\ f[i] = rows[i].arr
        BY <2>1 DEF Arrivals, n
      <4> HIDE DEF f, a
      <4>3. /\ SqlMax({f[k] : k \in 1 .. n}) \in Nat \cup {None}
            /\ f[i] <= SqlMax({f[k] : k \in 1 .. n})
        BY <1>7, <2>1, <4>1, SqlMaxBounds
      <4> QED BY <4>2, <4>3 DEF a
    <3>5. d \in Nat \cup {None} /\ rows[i].dep <= d
      <4> DEFINE f == [k \in 1 .. n |-> rows[k].dep]
      <4>1. f \in [1 .. n -> Nat \cup {None}]
        BY <1>1 DEF GoodRow, Row, n
      <4>2. Departures = {f[k] : k \in 1 .. n} /\ f[i] = rows[i].dep
        BY <2>1 DEF Departures, n
      <4> HIDE DEF f, d
      <4>3. /\ SqlMax({f[k] : k \in 1 .. n}) \in Nat \cup {None}
            /\ f[i] <= SqlMax({f[k] : k \in 1 .. n})
        BY <1>7, <2>1, <4>1, SqlMaxBounds
      <4> QED BY <4>2, <4>3 DEF d
    <3> HIDE DEF a, d
    <3>6. a \in Nat /\ d \in Nat
      BY <3>3, <3>4, <3>5
    <3>7. Max({a, d}) >= a /\ Max({a, d}) >= d /\ Max({a, d}) \in Nat
      <4>1. CASE a <= d
        <5>1. Max({a, d}) = d
          BY <3>6, <4>1, MaxIs
        <5> QED BY <3>6, <4>1, <5>1
      <4>2. CASE d <= a
        <5>1. Max({a, d}) = a
          BY <3>6, <4>2, MaxIs
        <5> QED BY <3>6, <4>2, <5>1
      <4> QED BY <3>6, <4>1, <4>2
    <3>8. time[1] \in Nat
      BY <3>2, StopTimesAssumption DEF Times
    <3>9. rows[i].arr \in Int /\ rows[i].dep \in Int
      BY <1>1, <2>1 DEF GoodRow, Row, None, n
    <3>10. rows[i].arr <= time[1] /\ rows[i].dep <= time[1]
      BY <3>3, <3>4, <3>5, <3>6, <3>7, <3>8, <3>9
    <3> QED BY <1>5, <1>6, <2>1, <2>3, <3>10
  <2> QED BY <1>8, <2>2, <2>3
<1>11. origin' \in Origins /\ strict' \in BOOLEAN
  BY <1>3 DEF TripInv
<1> QED BY <1>5, <1>9, <1>10, <1>11 DEF TripInv

(* Every call keeps the invariant.                                         *)
LEMMA NextTripInv == TripInv /\ [Next]_vars => TripInv'
<1> SUFFICES ASSUME TripInv, [Next]_vars PROVE TripInv'
  OBVIOUS
<1>1. CASE UNCHANGED vars
  BY <1>1 DEF vars, TripInv, GoodRow, Numbered, AppendedTripMovesForward
<1>2. CASE AddStopTimeObject
  BY <1>2, AddKeepsTripInv
<1>3. CASE AddStopTimeObjectUnordered
  <2>1. PICK seq \in Numbers, stop \in Stops, time \in Times :
           rows' = Append(rows, StopTime(seq, stop, time))
    BY <1>3 DEF AddStopTimeObjectUnordered
  <2>2. origin' = "loaded" /\ strict' = strict /\ seq \in Nat /\ rows \in Seq(GoodRow)
    BY <1>3, StopTimesAssumption DEF AddStopTimeObjectUnordered, TripInv
  <2>3. rows' \in Seq(GoodRow')
    BY <2>1, <2>2, AppendRow
  <2> QED BY <2>2, <2>3 DEF TripInv, Origins, Numbered, AppendedTripMovesForward
<1>4. CASE ReplaceStopTimeObject
  <2>1. PICK i \in 1 .. Len(rows), time \in Times :
           rows' = Append(Without(rows[i].seq, rows[i].stop),
                          StopTime(rows[i].seq, rows[i].stop, time))
    BY <1>4 DEF ReplaceStopTimeObject
  <2>2. /\ origin' \in {"loaded", "replaced"} /\ strict' = strict
        /\ rows \in Seq(GoodRow) /\ rows[i] \in GoodRow
    BY <1>4 DEF ReplaceStopTimeObject, TripInv
  <2>3. rows[i].seq \in Nat /\ rows[i].stop \in Stops
    BY <2>2 DEF GoodRow, Row
  <2>4. Without(rows[i].seq, rows[i].stop) \in Seq(GoodRow)
    BY <2>2, WithoutKeepsRows
  <2>5. rows' \in Seq(GoodRow')
    BY <2>1, <2>2, <2>3, <2>4, AppendRow
  <2> QED BY <2>2, <2>5 DEF TripInv, Origins, Numbered, AppendedTripMovesForward
<1>5. CASE ClearStopTimes
  <2>1. rows' = << >> /\ origin' = "appended" /\ strict' = strict
    BY <1>5 DEF ClearStopTimes
  <2>2. rows' \in Seq(GoodRow') /\ 1 .. Len(rows') = {}
    BY <2>1
  <2>3. Numbered' /\ AppendedTripMovesForward'
    BY <2>2, Zenon DEF Numbered, AppendedTripMovesForward
  <2> QED BY <2>1, <2>2, <2>3 DEF TripInv, Origins
<1> QED BY <1>1, <1>2, <1>3, <1>4, <1>5 DEF Next

(* TripInv holds after any sequence of calls on a trip.                    *)
THEOREM TripInvariant == Spec => []TripInv
BY InitTripInv, NextTripInv, PTL DEF Spec

(* The stop times of a trip are well typed, and no row has a departure     *)
(* without an arrival, whatever calls changed it.                          *)
THEOREM TypeCorrect == Spec => []TypeOK
<1>1. TripInv => TypeOK
  BY DEF TripInv, TypeOK, GoodRow
<1> QED BY <1>1, TripInvariant, PTL

(* A trip that add_stop_time_object built with a reporter that raises      *)
(* never goes back in time, although each new row is compared with the     *)
(* largest times alone.                                                    *)
THEOREM AppendedTripsMoveForward == Spec => []AppendedTripMovesForward
<1>1. TripInv => AppendedTripMovesForward
  BY DEF TripInv
<1> QED BY <1>1, TripInvariant, PTL

-----------------------------------------------------------------------------
(* The check for time travel.                                              *)

(* Whatever order SQL returns, it returns the rows of the trip.            *)
LEMMA StopTimesAreRows ==
    ASSUME TripInv, NEW sts \in GetStopTimes
    PROVE  /\ sts \in Seq(GoodRow) /\ Len(sts) = Len(rows) /\ Len(sts) \in Nat
           /\ \A k \in 1 .. Len(sts) : sts[k] \in GoodRow
           /\ \E p \in [1 .. Len(rows) -> 1 .. Len(rows)] :
                 /\ \A k \in 1 .. Len(rows) : sts[k] = rows[p[k]]
                 /\ \A i, j \in 1 .. Len(rows) :
                       i < j => p[i] # p[j] /\ rows[p[i]].seq <= rows[p[j]].seq
<1>1. rows \in Seq(GoodRow) /\ Len(rows) \in Nat
      /\ \A k \in 1 .. Len(rows) : rows[k] \in GoodRow
  BY DEF TripInv
<1>2. PICK p \in [1 .. Len(rows) -> 1 .. Len(rows)] :
         /\ \A i, j \in 1 .. Len(rows) :
               i < j => p[i] # p[j] /\ rows[p[i]].seq <= rows[p[j]].seq
         /\ sts = [k \in 1 .. Len(rows) |-> rows[p[k]]]
  BY DEF GetStopTimes
<1>3. \A k \in 1 .. Len(rows) : rows[p[k]] \in GoodRow
  BY <1>1, <1>2
<1> HIDE DEF GoodRow
<1>4. sts \in Seq(GoodRow) /\ Len(sts) = Len(rows)
  BY <1>1, <1>2, <1>3
<1> QED BY <1>1, <1>2, <1>3, <1>4

(* The columns of a row.                                                   *)
LEMMA RowsHave ==
    ASSUME NEW sts \in Seq(Row)
    PROVE  /\ Len(sts) \in Nat
           /\ \A k \in 1 .. Len(sts) :
                 /\ sts[k] \in Row /\ sts[k].stop \in Nat
                 /\ sts[k].arr \in Int /\ sts[k].dep \in Int
                 /\ sts[k].arr # None => sts[k].arr \in Nat
                 /\ sts[k].dep # None => sts[k].dep \in Nat
<1>1. Len(sts) \in Nat /\ \A k \in 1 .. Len(sts) : sts[k] \in Row
  OBVIOUS
<1>2. ASSUME NEW r \in Row
      PROVE  /\ r.stop \in Nat /\ r.arr \in Int /\ r.dep \in Int
             /\ r.arr # None => r.arr \in Nat
             /\ r.dep # None => r.dep \in Nat
  <2>1. r.stop \in Stops /\ r.arr \in Nat \cup {None} /\ r.dep \in Nat \cup {None}
    BY DEF Row
  <2>2. r.stop \in Nat
    BY <2>1, StopTimesAssumption
  <2>3. None \in Int
    BY DEF None
  <2>4. \A t \in Nat \cup {None} : t \in Int /\ (t # None => t \in Nat)
    BY <2>3
  <2> QED BY <2>1, <2>2, <2>4
<1> QED BY <1>1, <1>2

(* The equation of prev_departure.                                         *)
LEMMA PrevDepartureIs ==
    ASSUME NEW sts \in Seq(Row)
    PROVE  \A k \in 0 .. Len(sts) :
              /\ PrevDeparture(sts)[k] \in Int
              /\ PrevDeparture(sts)[k] =
                    IF k = 0 THEN 0
                    ELSE IF Timed(sts[k]) /\ sts[k].arr >= PrevDeparture(sts)[k - 1]
                         THEN sts[k].dep ELSE PrevDeparture(sts)[k - 1]
<1>1. PICK n : n = Len(sts)
  OBVIOUS
<1>2. n \in Nat /\ \A k \in 1 .. n : sts[k].dep \in Int
  BY <1>1, RowsHave
<1> DEFINE Step(k, x) == IF Timed(sts[k]) /\ sts[k].arr >= x THEN sts[k].dep ELSE x
           F(prev) == [k \in 0 .. n |-> IF k = 0 THEN 0 ELSE Step(k, prev[k - 1])]
<1>3. \A x \in Int : \A k \in 1 .. n : Step(k, x) \in Int
  BY <1>2
<1>4. PrevDeparture(sts) = CHOOSE h : h = F(h)
  BY <1>1, Zenon DEF PrevDeparture
<1>5. \A k, x : Step(k, x) = IF Timed(sts[k]) /\ sts[k].arr >= x THEN sts[k].dep ELSE x
  OBVIOUS
<1> HIDE DEF Step
<1>6. PICK g : g = [x \in (1 .. n) \X Int |-> Step(x[1], x[2])]
  OBVIOUS
<1>7. /\ g \in [(1 .. n) \X Int -> Int]
      /\ \A x \in Int : \A k \in 1 .. n : g[<<k, x>>] = Step(k, x)
  BY <1>3, <1>6
<1>8. PICK f \in [0 .. n -> Int] : Follows(n, 0, g, f)
  <2>1. PICK S : S = Int
    OBVIOUS
  <2>2. n \in Nat /\ 0 \in S /\ g \in [(1 .. n) \X S -> S]
    BY <1>2, <1>7, <2>1
  <2>3. \E f \in [0 .. n -> S] : Follows(n, 0, g, f)
    BY <2>2, Recursion
  <2> QED BY <2>1, <2>3
<1>9. \A k \in 0 .. n : f[k] = IF k = 0 THEN 0 ELSE Step(k, f[k - 1])
  <2> SUFFICES ASSUME NEW k \in 0 .. n
               PROVE  f[k] = IF k = 0 THEN 0 ELSE Step(k, f[k - 1])
    OBVIOUS
  <2>1. f[k] = IF k = 0 THEN 0 ELSE g[<<k, f[k - 1]>>]
    BY <1>8 DEF Follows
  <2>2. CASE k # 0
    <3>1. k \in 1 .. n /\ k - 1 \in 0 .. n
      BY <1>2, <2>2
    <3>2. f[k - 1] \in Int
      BY <3>1
    <3> QED BY <1>7, <2>1, <2>2, <3>1, <3>2
  <2> QED BY <2>1, <2>2
<1>10. f = F(f)
  BY <1>9
<1>11. PICK prev : prev = F(prev) /\ PrevDeparture(sts) = prev
  <2> HIDE DEF F
  <2> QED BY <1>4, <1>10
<1>12. \A k \in 0 .. n : prev[k] = IF k = 0 THEN 0 ELSE Step(k, prev[k - 1])
  BY <1>11
<1> DEFINE P == {k \in 0 .. n : prev[k] \in Int}
<1>13. 0 \in P
  BY <1>2, <1>12
<1>14. ASSUME NEW k \in 1 .. n, k - 1 \in P
       PROVE  k \in P
  <2>1. k \in 0 .. n /\ k # 0 /\ prev[k - 1] \in Int
    BY <1>2, <1>14
  <2>2. prev[k] = Step(k, prev[k - 1])
    BY <1>12, <2>1
  <2> QED BY <1>3, <2>1, <2>2
<1>15. 0 .. n \subseteq P
  <2>1. P \in SUBSET Nat
    BY <1>2
  <2> HIDE DEF P
  <2> QED BY <1>2, <1>13, <1>14, <2>1, Induction
<1>16. \A k \in 0 .. n : prev[k] \in Int
  BY <1>15
<1> QED BY <1>1, <1>5, <1>11, <1>12, <1>16, Zenon

(* i is the last time point up to k.                                       *)
LastTimed(sts, i, k) ==
    i \in 1 .. k /\ Timed(sts[i]) /\ \A j \in i + 1 .. k : ~ Timed(sts[j])

(* While no time point travelled back, prev_departure is the departure of  *)
(* the last time point.                                                    *)
LEMMA PrevIsLast ==
    ASSUME NEW sts \in Seq(Row), NEW n \in 0 .. Len(sts),
           \A k \in 1 .. n : k \notin Timetravels(sts)
    PROVE  \A k \in 0 .. n :
              \/ PrevDeparture(sts)[k] = 0 /\ \A j \in 1 .. k : ~ Timed(sts[j])
              \/ \E i \in 1 .. k : /\ LastTimed(sts, i, k)
                                   /\ PrevDeparture(sts)[k] = sts[i].dep
<1> DEFINE p == PrevDeparture(sts)
           H(k) == \/ p[k] = 0 /\ \A j \in 1 .. k : ~ Timed(sts[j])
                   \/ \E i \in 1 .. k : LastTimed(sts, i, k) /\ p[k] = sts[i].dep
           P == {k \in 0 .. n : H(k)}
<1>1. /\ n \in Nat /\ Len(sts) \in Nat /\ n <= Len(sts)
      /\ \A k \in 1 .. Len(sts) : sts[k].arr \in Int
  BY RowsHave
<1>2. \A k \in 0 .. Len(sts) :
         /\ p[k] \in Int
         /\ p[k] = IF k = 0 THEN 0
                   ELSE IF Timed(sts[k]) /\ sts[k].arr >= p[k - 1] THEN sts[k].dep ELSE p[k - 1]
  BY PrevDepartureIs
<1>3. \A k \in 1 .. n : ~ (Timed(sts[k]) /\ sts[k].arr < p[k - 1])
  BY <1>1 DEF Timetravels
<1> HIDE DEF p
<1>4. 0 \in P
  BY <1>1, <1>2
<1>5. ASSUME NEW k \in 1 .. n, k - 1 \in P
      PROVE  k \in P
  <2>1. k \in 0 .. Len(sts) /\ k # 0 /\ k - 1 \in 0 .. Len(sts) /\ k \in 1 .. Len(sts)
    BY <1>1
  <2>2. CASE Timed(sts[k])
    <3>1. p[k] = sts[k].dep
      BY <1>1, <1>2, <1>3, <2>1, <2>2
    <3>2. LastTimed(sts, k, k)
      BY <2>1, <2>2 DEF LastTimed
    <3> QED BY <2>1, <3>1, <3>2
  <2>3. CASE ~ Timed(sts[k])
    <3>1. p[k] = p[k - 1]
      BY <1>2, <2>1, <2>3
    <3>2. CASE p[k - 1] = 0 /\ \A j \in 1 .. k - 1 : ~ Timed(sts[j])
      <4>1. \A j \in 1 .. k : j \in 1 .. k - 1 \/ j = k
        OBVIOUS
      <4> QED BY <2>3, <3>1, <3>2, <4>1
    <3>3. ASSUME NEW i \in 1 .. k - 1, LastTimed(sts, i, k - 1), p[k - 1] = sts[i].dep
          PROVE  k \in P
      <4>1. \A j \in i + 1 .. k : j \in i + 1 .. k - 1 \/ j = k
        OBVIOUS
      <4>2. i \in 1 .. k /\ LastTimed(sts, i, k)
        BY <2>3, <3>3, <4>1 DEF LastTimed
      <4> QED BY <3>1, <3>3, <4>2
    <3> QED BY <1>5, <3>2, <3>3
  <2> QED BY <2>2, <2>3
<1>6. 0 .. n \subseteq P
  <2>1. P \in SUBSET Nat
    BY <1>1
  <2> HIDE DEF P
  <2> QED BY <1>1, <1>4, <1>5, <2>1, Induction
<1> QED BY <1>6 DEF p

(* The check is silent exactly on the trips whose time points never start  *)
(* before the one before them ends.                                        *)
LEMMA TimetravelExact ==
    ASSUME NEW sts \in Seq(Row), Walkable(sts)
    PROVE  Timetravels(sts) = {} <=>
              \A i, j \in 1 .. Len(sts) :
                  /\ i < j /\ Timed(sts[i]) /\ Timed(sts[j])
                  /\ \A k \in i + 1 .. j - 1 : ~ Timed(sts[k])
                  => sts[i].dep <= sts[j].arr
<1> DEFINE n == Len(sts)
           p == PrevDeparture(sts)
<1>1. /\ n \in Nat
      /\ \A k \in 1 .. n : Timed(sts[k]) => sts[k].arr \in Nat /\ sts[k].dep \in Nat
  BY RowsHave DEF Walkable, Timed, FullyTimed
<1>2. Timetravels(sts) = {k \in 1 .. n : Timed(sts[k]) /\ sts[k].arr < p[k - 1]}
  BY DEF Timetravels
<1>3. ASSUME Timetravels(sts) = {}, NEW i \in 1 .. n, NEW j \in 1 .. n, i < j,
             Timed(sts[i]), Timed(sts[j]), \A k \in i + 1 .. j - 1 : ~ Timed(sts[k])
      PROVE  sts[i].dep <= sts[j].arr
  <2>1. j - 1 \in 0 .. n /\ i \in 1 .. j - 1 /\ n \in 0 .. Len(sts)
    BY <1>1, <1>3
  <2>2. PICK m \in 1 .. j - 1 : LastTimed(sts, m, j - 1) /\ p[j - 1] = sts[m].dep
    <3>1. \A k \in 1 .. n : k \notin Timetravels(sts)
      BY <1>3
    <3>2. \/ p[j - 1] = 0 /\ \A k \in 1 .. j - 1 : ~ Timed(sts[k])
          \/ \E m \in 1 .. j - 1 : LastTimed(sts, m, j - 1) /\ p[j - 1] = sts[m].dep
      BY <2>1, <3>1, PrevIsLast
    <3> QED BY <1>3, <2>1, <3>2
  <2>3. m = i
    <3> HIDE DEF n, p
    <3>1. m \in Nat /\ i \in Nat /\ j \in Nat /\ m <= j - 1 /\ i <= j - 1
      BY <1>1, <2>1
    <3>2. Timed(sts[m]) /\ \A k \in m + 1 .. j - 1 : ~ Timed(sts[k])
      BY <2>2 DEF LastTimed
    <3>3. ~ m < i
      <4>1. m < i => i \in m + 1 .. j - 1
        BY <3>1
      <4> QED BY <1>3, <3>2, <4>1
    <3>4. ~ i < m
      <4>1. i < m => m \in i + 1 .. j - 1
        BY <3>1
      <4> QED BY <1>3, <3>2, <4>1
    <3> QED BY <3>1, <3>3, <3>4
  <2>4. ~ sts[j].arr < p[j - 1]
    BY <1>2, <1>3
  <2> HIDE DEF n, p
  <2> QED BY <1>1, <1>3, <2>2, <2>3, <2>4
<1>4. ASSUME Timetravels(sts) # {}
      PROVE  \E i, j \in 1 .. n : /\ i < j /\ Timed(sts[i]) /\ Timed(sts[j])
                                  /\ \A k \in i + 1 .. j - 1 : ~ Timed(sts[k])
                                  /\ ~ sts[i].dep <= sts[j].arr
  <2>1. Timetravels(sts) \in SUBSET Nat
    BY <1>1, <1>2
  <2>2. PICK j \in Timetravels(sts) : \A k \in Timetravels(sts) : j <= k
    BY <1>4, <2>1, Least
  <2>3. /\ j \in 1 .. n /\ Timed(sts[j]) /\ sts[j].arr < p[j - 1]
        /\ j - 1 \in 0 .. Len(sts)
    BY <1>1, <1>2, <2>2
  <2>4. \A k \in 1 .. j - 1 : k \notin Timetravels(sts)
    BY <2>1, <2>2
  <2>5. \/ p[j - 1] = 0 /\ \A k \in 1 .. j - 1 : ~ Timed(sts[k])
        \/ \E i \in 1 .. j - 1 : LastTimed(sts, i, j - 1) /\ p[j - 1] = sts[i].dep
    <3>1. j - 1 \in 0 .. j - 1
      BY <2>3
    <3> QED BY <2>3, <2>4, <3>1, PrevIsLast
  <2>6. p[j - 1] # 0
    <3> HIDE DEF n, p
    <3> QED BY <1>1, <2>3
  <2>7. PICK i \in 1 .. j - 1 : LastTimed(sts, i, j - 1) /\ p[j - 1] = sts[i].dep
    BY <2>5, <2>6
  <2> HIDE DEF n, p
  <2>8. i \in 1 .. n /\ i < j /\ Timed(sts[i])
    BY <1>1, <2>3, <2>7 DEF LastTimed
  <2>9. ~ sts[i].dep <= sts[j].arr
    BY <1>1, <2>3, <2>7, <2>8
  <2> QED BY <2>3, <2>7, <2>8, <2>9 DEF LastTimed
<1> QED BY <1>3, <1>4, Zenon

(* validate_stop_times_sequence_has_increasing_time_and_distance, whose    *)
(* prev_departure passes over the time points it reports, misses no pair   *)
(* of neighbouring time points and invents none, in every order SQL may    *)
(* return.                                                                 *)
THEOREM TimetravelCheckIsRight == Spec => []TimetravelCheckIsExact
<1>1. TripInv => TimetravelCheckIsExact
  <2> SUFFICES ASSUME TripInv, NEW sts \in GetStopTimes, Walkable(sts)
               PROVE  Timetravels(sts) = {} <=>
                         \A i, j \in 1 .. Len(sts) :
                             /\ i < j /\ Timed(sts[i]) /\ Timed(sts[j])
                             /\ \A k \in i + 1 .. j - 1 : ~ Timed(sts[k])
                             => sts[i].dep <= sts[j].arr
    BY DEF TimetravelCheckIsExact
  <2>1. sts \in Seq(GoodRow) /\ GoodRow \subseteq Row
    BY StopTimesAreRows DEF GoodRow
  <2>2. sts \in Seq(Row)
    BY <2>1
  <2> QED BY <2>2, TimetravelExact
<1> QED BY <1>1, TripInvariant, PTL

-----------------------------------------------------------------------------
(* Interpolated times.                                                     *)

(* Python's round lies between the whole numbers around its argument.      *)
LEMMA RoundBounds ==
    ASSUME NEW num \in Nat, NEW den \in Nat, den > 0, NEW a \in Nat
    PROVE  /\ Round(num, den) \in Nat
           /\ num >= a * den => Round(num, den) >= a
           /\ num <= a * den => Round(num, den) <= a
<1> DEFINE q == num \div den
           r == num % den
<1>1. q \in Nat /\ r \in 0 .. den - 1 /\ num = den * q + r
  OBVIOUS
<1>2. Round(num, den) = IF 2 * r < den \/ (2 * r = den /\ q % 2 = 0) THEN q ELSE q + 1
  BY DEF Round
<1> HIDE DEF q, r
<1>3. Round(num, den) \in {q, q + 1} /\ (r = 0 => Round(num, den) = q)
  BY <1>1, <1>2
<1>4. num >= a * den => q >= a
  BY <1>1
<1>5. num <= a * den => q < a \/ (q = a /\ r = 0)
  <2> SUFFICES ASSUME num <= a * den PROVE q < a \/ (q = a /\ r = 0)
    OBVIOUS
  <2>1. q <= a
    BY <1>1
  <2>2. q = a => r = 0
    BY <1>1
  <2> QED BY <1>1, <2>1, <2>2
<1> QED BY <1>1, <1>3, <1>4, <1>5

(* Python's round keeps the order.                                         *)
LEMMA RoundGrows ==
    ASSUME NEW a \in Nat, NEW b \in Nat, NEW den \in Nat, den > 0, a <= b
    PROVE  Round(a, den) <= Round(b, den)
<1> DEFINE q == a \div den
           r == a % den
           u == b \div den
           v == b % den
<1>1. /\ q \in Nat /\ r \in 0 .. den - 1 /\ a = den * q + r
      /\ u \in Nat /\ v \in 0 .. den - 1 /\ b = den * u + v
  OBVIOUS
<1>2. /\ Round(a, den) = IF 2 * r < den \/ (2 * r = den /\ q % 2 = 0) THEN q ELSE q + 1
      /\ Round(b, den) = IF 2 * v < den \/ (2 * v = den /\ u % 2 = 0) THEN u ELSE u + 1
  BY DEF Round
<1> HIDE DEF q, r, u, v
<1>3. den * q <= den * u + v
  BY <1>1
<1>4. q <= u
  BY <1>1, <1>3
<1>5. CASE q = u
  <2>1. r <= v
    BY <1>1, <1>5
  <2>2. PICK even \in BOOLEAN : even = (q % 2 = 0)
    OBVIOUS
  <2>3. /\ Round(a, den) = IF 2 * r < den \/ (2 * r = den /\ even) THEN q ELSE q + 1
        /\ Round(b, den) = IF 2 * v < den \/ (2 * v = den /\ even) THEN q ELSE q + 1
    BY <1>2, <1>5, <2>2
  <2> QED BY <1>1, <2>1, <2>3
<1>6. CASE q < u
  <2>1. Round(a, den) \in {q, q + 1} /\ Round(b, den) \in {u, u + 1}
    BY <1>2
  <2> QED BY <1>1, <1>6, <2>1
<1> QED BY <1>1, <1>4, <1>5, <1>6

(* The equation of the way from the first stop.                            *)
LEMMA TravelledIs ==
    ASSUME NEW sts \in Seq(Row)
    PROVE  \A k \in 0 .. Len(sts) :
              /\ Travelled(sts)[k] \in Nat
              /\ k >= 1 => Travelled(sts)[k - 1] <= Travelled(sts)[k]
<1>1. PICK n : n = Len(sts)
  OBVIOUS
<1>2. n \in Nat /\ \A k \in 1 .. n : sts[k].stop \in Nat
  BY <1>1, RowsHave
<1> DEFINE Hop(k) == ApproximateDistance(sts[k - 1].stop, sts[k].stop)
           Step(k, x) == IF k <= 1 THEN 0 ELSE x + Hop(k)
           F(sum) == [k \in 0 .. n |-> IF k <= 1 THEN 0 ELSE sum[k - 1] + Hop(k)]
<1>3. Travelled(sts) = CHOOSE h : h = F(h)
  BY <1>1, Zenon DEF Travelled
<1>4. ASSUME NEW k \in 1 .. n, k > 1
      PROVE  Hop(k) \in Nat
  <2>1. sts[k - 1].stop \in Nat /\ sts[k].stop \in Nat
    BY <1>2, <1>4
  <2> QED BY <2>1 DEF ApproximateDistance
<1> HIDE DEF Hop
<1>5. \A x \in Nat : \A k \in 1 .. n : Step(k, x) \in Nat
  BY <1>2, <1>4
<1>6. PICK g : g = [x \in (1 .. n) \X Nat |-> Step(x[1], x[2])]
  OBVIOUS
<1>7. /\ g \in [(1 .. n) \X Nat -> Nat]
      /\ \A x \in Nat : \A k \in 1 .. n : g[<<k, x>>] = Step(k, x)
  <2> HIDE DEF Step
  <2> QED BY <1>5, <1>6
<1>8. PICK f \in [0 .. n -> Nat] : Follows(n, 0, g, f)
  <2>1. PICK S : S = Nat
    OBVIOUS
  <2>2. n \in Nat /\ 0 \in S /\ g \in [(1 .. n) \X S -> S]
    BY <1>2, <1>7, <2>1
  <2>3. \E f \in [0 .. n -> S] : Follows(n, 0, g, f)
    BY <2>2, Recursion
  <2> QED BY <2>1, <2>3
<1>9. ASSUME NEW k \in 0 .. n
      PROVE  f[k] = IF k <= 1 THEN 0 ELSE f[k - 1] + Hop(k)
  <2>1. f[k] = IF k = 0 THEN 0 ELSE g[<<k, f[k - 1]>>]
    BY <1>8 DEF Follows
  <2>2. CASE k # 0
    <3>1. k \in 1 .. n /\ k - 1 \in 0 .. n
      BY <1>2, <2>2
    <3>2. f[k - 1] \in Nat
      BY <3>1
    <3>3. f[k] = Step(k, f[k - 1])
      <4> HIDE DEF Step
      <4> QED BY <1>7, <2>1, <2>2, <3>1, <3>2
    <3> QED BY <3>3
  <2>3. CASE k = 0
    BY <2>1, <2>3
  <2> QED BY <2>2, <2>3
<1>10. f = F(f)
  BY <1>9
<1>11. PICK sum : sum = F(sum) /\ Travelled(sts) = sum
  <2> HIDE DEF F
  <2> QED BY <1>3, <1>10
<1>12. \A k \in 0 .. n : sum[k] = IF k <= 1 THEN 0 ELSE sum[k - 1] + Hop(k)
  BY <1>11
<1> DEFINE P == {k \in 0 .. n : sum[k] \in Nat}
<1>13. 0 \in P
  BY <1>2, <1>12
<1>14. ASSUME NEW k \in 1 .. n, k - 1 \in P
       PROVE  k \in P
  <2>1. k \in 0 .. n /\ sum[k - 1] \in Nat
    BY <1>2, <1>14
  <2>2. sum[k] = IF k <= 1 THEN 0 ELSE sum[k - 1] + Hop(k)
    BY <1>12, <2>1
  <2>3. sum[k] \in Nat
    BY <1>4, <2>1, <2>2
  <2> QED BY <2>1, <2>3
<1>15. 0 .. n \subseteq P
  <2>1. P \in SUBSET Nat
    BY <1>2
  <2> HIDE DEF P
  <2> QED BY <1>2, <1>13, <1>14, <2>1, Induction
<1>16. \A k \in 0 .. n : sum[k] \in Nat
  BY <1>15
<1>17. ASSUME NEW k \in 0 .. n, k >= 1
       PROVE  sum[k - 1] <= sum[k]
  <2>1. k \in 1 .. n /\ k - 1 \in 0 .. n
    BY <1>2, <1>17
  <2>2. CASE k = 1
    <3>1. sum[0] = 0 /\ sum[1] = 0
      BY <1>2, <1>12, <2>1, <2>2
    <3> QED BY <2>2, <3>1
  <2>3. CASE k > 1
    BY <1>4, <1>12, <1>16, <2>1, <2>3
  <2> QED BY <2>1, <2>2, <2>3
<1> QED BY <1>1, <1>11, <1>16, <1>17

(* Ways are not negative, and longer towards later stops.                  *)
LEMMA WayGrows ==
    ASSUME NEW sts \in Seq(Row), NEW i \in 0 .. Len(sts), NEW j \in 0 .. Len(sts), i <= j
    PROVE  Travelled(sts)[i] <= Travelled(sts)[j]
<1> DEFINE T == Travelled(sts)
           n == Len(sts)
           P == {k \in 0 .. n : i <= k => T[i] <= T[k]}
<1>1. n \in Nat /\ i \in Nat /\ j \in Nat
  OBVIOUS
<1>2. \A k \in 0 .. n : T[k] \in Nat /\ (k >= 1 => T[k - 1] <= T[k])
  BY TravelledIs
<1> HIDE DEF T, n
<1>3. i \in 0 .. n /\ j \in 0 .. n
  BY DEF n
<1>4. 0 \in P
  BY <1>1, <1>2, <1>3
<1>5. ASSUME NEW k \in 1 .. n, k - 1 \in P
      PROVE  k \in P
  <2>1. k \in 0 .. n /\ k - 1 \in 0 .. n /\ (i <= k - 1 => T[i] <= T[k - 1])
    BY <1>1, <1>5
  <2>2. T[i] \in Nat /\ T[k] \in Nat /\ T[k - 1] \in Nat /\ T[k - 1] <= T[k]
    BY <1>2, <1>3, <2>1
  <2>3. CASE i <= k - 1
    BY <2>1, <2>2, <2>3
  <2>4. CASE i = k
    BY <2>1, <2>2, <2>4
  <2>5. CASE i > k
    BY <1>1, <2>1, <2>5
  <2> QED BY <1>1, <2>3, <2>4, <2>5
<1>6. 0 .. n \subseteq P
  <2>1. P \in SUBSET Nat
    BY <1>1
  <2> HIDE DEF P
  <2> QED BY <1>1, <1>4, <1>5, <2>1, Induction
<1>7. j \in P
  <2> HIDE DEF P
  <2> QED BY <1>3, <1>6
<1> QED BY <1>7 DEF T

(* The k-th stop time is untimed and stands between the time points c and  *)
(* m, with no time point in between.                                       *)
Between(sts, c, k, m) ==
    /\ c \in 1 .. Len(sts) /\ m \in 1 .. Len(sts) /\ c < k /\ k < m
    /\ Timed(sts[c]) /\ Timed(sts[m])
    /\ \A j \in c + 1 .. m - 1 : ~ Timed(sts[j])

(* In a trip that begins and ends with time points, the loop has the time  *)
(* points around an untimed stop in cur_timepoint and next_timepoint.      *)
LEMMA TimepointsAround ==
    ASSUME NEW sts \in Seq(Row), NEW k \in 1 .. Len(sts), ~ Timed(sts[k]),
           Timed(sts[1]), Timed(sts[Len(sts)])
    PROVE  Between(sts, CurTimepoint(sts, k), k, NextTimepoint(sts, k))
<1> DEFINE n == Len(sts)
<1>1. n \in Nat /\ k \in 2 .. n - 1
  OBVIOUS
<1>2. PICK c \in 1 .. k : Timed(sts[c]) /\ \A j \in 1 .. k : Timed(sts[j]) => j <= c
  <2> DEFINE f == [j \in 1 .. k |-> IF Timed(sts[j]) THEN j ELSE 0]
  <2>1. f \in [1 .. k -> Int] /\ k \in Nat /\ k # 0
    BY <1>1
  <2>2. PICK c \in 1 .. k : \A j \in 1 .. k : f[j] <= f[c]
    <3> HIDE DEF f
    <3> QED BY <2>1, Greatest
  <2>3. f[1] = 1 /\ f[1] <= f[c]
    BY <1>1, <2>2
  <2>4. Timed(sts[c])
    BY <2>2, <2>3
  <2>5. \A j \in 1 .. k : Timed(sts[j]) => j <= c
    BY <2>2, <2>4
  <2> QED BY <2>4, <2>5
<1>3. CurTimepoint(sts, k) = c
  <2> DEFINE S == {j \in 1 .. k : Timed(sts[j])}
  <2>1. S \in SUBSET Int /\ c \in S /\ \A y \in S : y <= c
    BY <1>2
  <2>2. Max(S) = c
    <3> HIDE DEF S
    <3> QED BY <2>1, MaxIs
  <2> QED BY <2>2 DEF CurTimepoint
<1>4. PICK m \in k .. n : Timed(sts[m]) /\ \A j \in k .. n : Timed(sts[j]) => m <= j
  <2> DEFINE S == {j \in k .. n : Timed(sts[j])}
  <2>1. S \in SUBSET Nat /\ n \in S
    BY <1>1
  <2>2. PICK m \in S : \A j \in S : m <= j
    <3> HIDE DEF S
    <3> QED BY <2>1, Least
  <2> QED BY <2>2
<1>5. NextTimepoint(sts, k) = m
  <2> DEFINE S == {j \in k .. n : Timed(sts[j])}
  <2>1. S \in SUBSET Int /\ m \in S /\ \A y \in S : m <= y
    BY <1>1, <1>4
  <2>2. Min(S) = m
    <3> HIDE DEF S
    <3>1. \A x \in S : (\A y \in S : x <= y) => x = m
      BY <2>1
    <3> QED BY <2>1, <3>1 DEF Min
  <2> QED BY <2>2 DEF NextTimepoint
<1>6. c # k /\ m # k /\ c \in 1 .. n /\ m \in 1 .. n /\ c < k /\ k < m
  BY <1>1, <1>2, <1>4
<1>7. \A j \in c + 1 .. m - 1 : ~ Timed(sts[j])
  <2> SUFFICES ASSUME NEW j \in c + 1 .. m - 1, Timed(sts[j]) PROVE FALSE
    OBVIOUS
  <2>1. j \in 1 .. k \/ j \in k .. n
    BY <1>1, <1>6
  <2> QED BY <1>1, <1>2, <1>4, <1>6, <2>1
<1> QED BY <1>2, <1>3, <1>4, <1>5, <1>6, <1>7 DEF Between

(* A time point next to an untimed stop is one of those around it.         *)
LEMMA TimepointsShared ==
    ASSUME NEW sts \in Seq(Row), NEW k \in 2 .. Len(sts),
           NEW c \in Int, NEW m \in Int
    PROVE  /\ Between(sts, c, k, m) /\ Timed(sts[k - 1]) => c = k - 1
           /\ Between(sts, c, k - 1, m) /\ Timed(sts[k]) => m = k
<1>1. Len(sts) \in Nat /\ k - 1 \in Int
  OBVIOUS
<1>2. ASSUME Between(sts, c, k, m), Timed(sts[k - 1]) PROVE c = k - 1
  BY <1>1, <1>2 DEF Between
<1>3. ASSUME Between(sts, c, k - 1, m), Timed(sts[k]) PROVE m = k
  BY <1>1, <1>3 DEF Between
<1> QED BY <1>2, <1>3

(* Two untimed stops side by side have the same time points around them.   *)
LEMMA TimepointsSame ==
    ASSUME NEW sts \in Seq(Row), NEW k \in 2 .. Len(sts),
           NEW c \in Int, NEW m \in Int, NEW d \in Int, NEW l \in Int,
           Between(sts, c, k - 1, m), Between(sts, d, k, l),
           ~ Timed(sts[k - 1]), ~ Timed(sts[k])
    PROVE  d = c /\ l = m
<1>1. Len(sts) \in Nat /\ k - 1 \in Int
  OBVIOUS
<1>2. c < k - 1 /\ d < k - 1 /\ k < m /\ k < l
  BY <1>1 DEF Between
<1>3. ~ d < c /\ ~ c < d
  BY <1>1, <1>2 DEF Between
<1>4. ~ l < m /\ ~ m < l
  BY <1>1, <1>2 DEF Between
<1> QED BY <1>3, <1>4

(* The interpolated time of a stop between two time points, as a           *)
(* proportion of the way between them.                                     *)
Share(sts, c, k, m) ==
    Way(sts, c, k) * (sts[m].arr - sts[c].arr) + sts[c].arr * Way(sts, c, m)

LEMMA InterpolatedIs ==
    ASSUME NEW sts \in Seq(Row), NEW k \in 1 .. Len(sts), ~ Timed(sts[k]),
           NEW c \in Int, NEW m \in Int,
           c = CurTimepoint(sts, k), m = NextTimepoint(sts, k),
           Between(sts, c, k, m), ~ DividesByZero(sts), sts[c].arr <= sts[m].arr
    PROVE  /\ Interpolated(sts, k) = Round(Share(sts, c, k, m), Way(sts, c, m))
           /\ Way(sts, c, m) \in Nat /\ Way(sts, c, m) > 0
           /\ Way(sts, c, k) \in Nat /\ Way(sts, c, k) <= Way(sts, c, m)
           /\ Share(sts, c, k, m) \in Nat
           /\ sts[c].arr * Way(sts, c, m) <= Share(sts, c, k, m)
           /\ Share(sts, c, k, m) <= sts[m].arr * Way(sts, c, m)
<1>1. Interpolated(sts, k) = Round(Share(sts, c, k, m), Way(sts, c, m))
  BY DEF Interpolated, Share
<1>2. Way(sts, c, m) # 0
  BY DEF DividesByZero
<1>3. /\ c \in 0 .. Len(sts) /\ k \in 0 .. Len(sts) /\ m \in 0 .. Len(sts)
      /\ c <= k /\ k <= m /\ c <= m
  BY DEF Between
<1> DEFINE T == Travelled(sts)
<1>4. T[c] \in Nat /\ T[k] \in Nat /\ T[m] \in Nat
  BY <1>3, TravelledIs
<1>5. T[c] <= T[k] /\ T[k] <= T[m]
  BY <1>3, WayGrows
<1>6. Way(sts, c, m) = T[m] - T[c] /\ Way(sts, c, k) = T[k] - T[c]
  BY DEF Way
<1> HIDE DEF T
<1>7. /\ Way(sts, c, m) \in Nat /\ Way(sts, c, m) > 0
      /\ Way(sts, c, k) \in Nat /\ Way(sts, c, k) <= Way(sts, c, m)
  BY <1>2, <1>4, <1>5, <1>6, SMTT(30)
<1>8. sts[c].arr \in Nat /\ sts[m].arr \in Nat
  BY RowsHave DEF Between, Timed
<1>9. PICK w, v, a, b : /\ w = Way(sts, c, m) /\ v = Way(sts, c, k)
                        /\ a = sts[c].arr /\ b = sts[m].arr
  OBVIOUS
<1>10. w \in Nat /\ v \in Nat /\ v <= w /\ a \in Nat /\ b \in Nat /\ a <= b
  BY <1>7, <1>8, <1>9
<1>11. Share(sts, c, k, m) = v * (b - a) + a * w
  BY <1>9 DEF Share
<1>12. PICK d \in Nat : b = a + d /\ b - a = d
  <2>1. b - a \in Nat /\ b = a + (b - a)
    BY <1>10
  <2> QED BY <2>1
<1>13. v * d \in Nat /\ w * d \in Nat /\ a * w \in Nat /\ v * d <= w * d
  BY <1>10, <1>12
<1>14. b * w = a * w + w * d
  BY <1>10, <1>12
<1>15. /\ v * d + a * w \in Nat /\ a * w <= v * d + a * w
       /\ v * d + a * w <= b * w
  BY <1>13, <1>14
<1> QED BY <1>1, <1>7, <1>9, <1>11, <1>12, <1>15

(* Between two stops that follow each other the interpolated time does not *)
(* go back, in a trip that moves forward.                                  *)
LEMMA InterpolationForward ==
    ASSUME NEW sts \in Seq(Row), Timed(sts[1]), Timed(sts[Len(sts)]), ~ DividesByZero(sts),
           \A i, j \in 1 .. Len(sts) : i < j /\ Timed(sts[j]) => sts[i].arr <= sts[j].arr,
           NEW k \in 2 .. Len(sts)
    PROVE  Interpolated(sts, k - 1) <= Interpolated(sts, k)
<1>1. Len(sts) \in Nat /\ k \in 1 .. Len(sts) /\ k - 1 \in 1 .. Len(sts) /\ k - 1 < k
  OBVIOUS
<1>2. ASSUME NEW j \in 1 .. Len(sts), ~ Timed(sts[j])
      PROVE  \E c, m \in Int : /\ c = CurTimepoint(sts, j) /\ m = NextTimepoint(sts, j)
                               /\ Between(sts, c, j, m) /\ sts[c].arr <= sts[m].arr
                               /\ sts[c].arr \in Nat /\ sts[m].arr \in Nat
  <2>1. PICK c, m : c = CurTimepoint(sts, j) /\ m = NextTimepoint(sts, j)
    OBVIOUS
  <2>2. Between(sts, c, j, m)
    BY <1>2, <2>1, TimepointsAround
  <2>3. /\ c \in 1 .. Len(sts) /\ m \in 1 .. Len(sts) /\ c < m
        /\ Timed(sts[c]) /\ Timed(sts[m])
    BY <1>1, <2>2 DEF Between
  <2>4. sts[c].arr \in Nat /\ sts[m].arr \in Nat
    BY <2>3, RowsHave DEF Timed
  <2>5. sts[c].arr <= sts[m].arr
    BY <2>3
  <2> QED BY <2>1, <2>2, <2>3, <2>4, <2>5
<1>3. CASE Timed(sts[k - 1]) /\ Timed(sts[k])
  BY <1>1, <1>3 DEF Interpolated
<1>4. CASE Timed(sts[k - 1]) /\ ~ Timed(sts[k])
  <2>1. PICK c, m \in Int : /\ c = CurTimepoint(sts, k) /\ m = NextTimepoint(sts, k)
                            /\ Between(sts, c, k, m) /\ sts[c].arr <= sts[m].arr
                            /\ sts[c].arr \in Nat /\ sts[m].arr \in Nat
    BY <1>1, <1>2, <1>4
  <2>2. c = k - 1
    BY <1>4, <2>1, TimepointsShared
  <2>3. /\ Interpolated(sts, k) = Round(Share(sts, c, k, m), Way(sts, c, m))
        /\ Way(sts, c, m) \in Nat /\ Way(sts, c, m) > 0 /\ Share(sts, c, k, m) \in Nat
        /\ sts[c].arr * Way(sts, c, m) <= Share(sts, c, k, m)
    BY <1>1, <1>4, <2>1, InterpolatedIs
  <2>4. Interpolated(sts, k) >= sts[c].arr /\ Interpolated(sts, k) \in Nat
    BY <2>1, <2>3, RoundBounds
  <2>5. Interpolated(sts, k - 1) = sts[c].arr
    BY <1>4, <2>2 DEF Interpolated
  <2> QED BY <2>1, <2>4, <2>5
<1>5. CASE ~ Timed(sts[k - 1]) /\ Timed(sts[k])
  <2>1. PICK c, m \in Int : /\ c = CurTimepoint(sts, k - 1) /\ m = NextTimepoint(sts, k - 1)
                            /\ Between(sts, c, k - 1, m) /\ sts[c].arr <= sts[m].arr
                            /\ sts[c].arr \in Nat /\ sts[m].arr \in Nat
    BY <1>1, <1>2, <1>5
  <2>2. m = k
    BY <1>5, <2>1, TimepointsShared
  <2>3. /\ Interpolated(sts, k - 1) = Round(Share(sts, c, k - 1, m), Way(sts, c, m))
        /\ Way(sts, c, m) \in Nat /\ Way(sts, c, m) > 0 /\ Share(sts, c, k - 1, m) \in Nat
        /\ Share(sts, c, k - 1, m) <= sts[m].arr * Way(sts, c, m)
    BY <1>1, <1>5, <2>1, InterpolatedIs
  <2>4. Interpolated(sts, k - 1) <= sts[m].arr
    BY <2>1, <2>3, RoundBounds
  <2>5. Interpolated(sts, k) = sts[m].arr
    BY <1>5, <2>2 DEF Interpolated
  <2> QED BY <2>4, <2>5
<1>6. CASE ~ Timed(sts[k - 1]) /\ ~ Timed(sts[k])
  <2>1. PICK c, m \in Int : /\ c = CurTimepoint(sts, k - 1) /\ m = NextTimepoint(sts, k - 1)
                            /\ Between(sts, c, k - 1, m) /\ sts[c].arr <= sts[m].arr
                            /\ sts[c].arr \in Nat /\ sts[m].arr \in Nat
    BY <1>1, <1>2, <1>6
  <2>2. PICK d, l \in Int : /\ d = CurTimepoint(sts, k) /\ l = NextTimepoint(sts, k)
                            /\ Between(sts, d, k, l)
    BY <1>1, <1>2, <1>6
  <2>3. d = c /\ l = m
    BY <1>6, <2>1, <2>2, TimepointsSame
  <2>4. /\ Interpolated(sts, k - 1) = Round(Share(sts, c, k - 1, m), Way(sts, c, m))
        /\ Way(sts, c, m) \in Nat /\ Way(sts, c, m) > 0
        /\ Way(sts, c, k - 1) \in Nat /\ Share(sts, c, k - 1, m) \in Nat
    BY <1>1, <1>6, <2>1, InterpolatedIs
  <2>5. /\ Interpolated(sts, k) = Round(Share(sts, c, k, m), Way(sts, c, m))
        /\ Way(sts, c, k) \in Nat /\ Share(sts, c, k, m) \in Nat
    <3>1. /\ c = CurTimepoint(sts, k) /\ m = NextTimepoint(sts, k)
          /\ Between(sts, c, k, m) /\ sts[c].arr <= sts[m].arr
      BY <2>1, <2>2, <2>3
    <3> QED BY <1>1, <1>6, <3>1, InterpolatedIs
  <2>6. Way(sts, c, k - 1) <= Way(sts, c, k)
    <3>1. /\ Travelled(sts)[k - 1] <= Travelled(sts)[k]
          /\ Travelled(sts)[k - 1] \in Nat /\ Travelled(sts)[k] \in Nat
          /\ Travelled(sts)[c] \in Nat
      <4>1. k \in 0 .. Len(sts) /\ k - 1 \in 0 .. Len(sts) /\ k >= 1
        BY <1>1
      <4>2. c \in 0 .. Len(sts)
        BY <2>1 DEF Between
      <4> QED BY <4>1, <4>2, TravelledIs
    <3> QED BY <3>1 DEF Way
  <2>7. Share(sts, c, k - 1, m) <= Share(sts, c, k, m)
    <3>1. PICK w, v, u, a, b : /\ w = Way(sts, c, m) /\ v = Way(sts, c, k - 1)
                               /\ u = Way(sts, c, k) /\ a = sts[c].arr /\ b = sts[m].arr
      OBVIOUS
    <3>2. w \in Nat /\ v \in Nat /\ u \in Nat /\ v <= u /\ a \in Nat /\ b \in Nat /\ a <= b
      BY <2>1, <2>4, <2>5, <2>6, <3>1
    <3>3. b - a \in Nat /\ a * w \in Nat
      BY <3>2
    <3>4. PICK e \in Nat : e = b - a
      BY <3>3
    <3>5. v * e \in Nat /\ u * e \in Nat /\ v * e <= u * e
      BY <3>2, <3>4
    <3>6. v * e + a * w <= u * e + a * w
      BY <3>3, <3>5
    <3> QED BY <3>1, <3>4, <3>6 DEF Share
  <2> QED BY <2>4, <2>5, <2>7, RoundGrows
<1> QED BY <1>3, <1>4, <1>5, <1>6

(* The stop times of a trip built in order, in the order of the query.     *)
LEMMA QueryKeepsOrder ==
    ASSUME TripInv, strict, origin = "appended", NEW sts \in GetStopTimes,
           NEW i \in 1 .. Len(sts), NEW j \in 1 .. Len(sts), i < j, Timed(sts[j])
    PROVE  sts[i].arr <= sts[j].arr
<1>1. Len(sts) = Len(rows)
  BY StopTimesAreRows
<1>2. PICK p \in [1 .. Len(rows) -> 1 .. Len(rows)] :
         /\ \A k \in 1 .. Len(rows) : sts[k] = rows[p[k]]
         /\ \A k, m \in 1 .. Len(rows) :
               k < m => p[k] # p[m] /\ rows[p[k]].seq <= rows[p[m]].seq
  BY StopTimesAreRows
<1>3. /\ p[i] \in 1 .. Len(rows) /\ p[j] \in 1 .. Len(rows)
      /\ p[i] # p[j] /\ rows[p[i]].seq <= rows[p[j]].seq
      /\ sts[i] = rows[p[i]] /\ sts[j] = rows[p[j]]
  BY <1>1, <1>2
<1>4. /\ rows[p[i]].seq \in Nat /\ rows[p[j]].seq \in Nat
  <2>1. rows[p[i]] \in GoodRow /\ rows[p[j]] \in GoodRow
    BY <1>3 DEF TripInv
  <2> QED BY <2>1 DEF GoodRow, Row
<1>5. ~ p[j] < p[i]
  BY <1>3, <1>4, SMTT(30) DEF TripInv, Numbered
<1>6. p[i] < p[j]
  BY <1>3, <1>5
<1> QED BY <1>3, <1>6 DEF TripInv, AppendedTripMovesForward

(* get_time_interpolated_stops never gives a stop an earlier time than the *)
(* stop before it, rounding included, on a trip that add_stop_time_object  *)
(* accepted and on which it does not divide by zero.                       *)
THEOREM InterpolationIsForward == Spec => []InterpolationMovesForward
<1>1. TripInv => InterpolationMovesForward
  <2> SUFFICES ASSUME TripInv, strict, origin = "appended", NEW sts \in GetStopTimes,
                      CanInterpolate(sts), ~ DividesByZero(sts), NEW k \in 2 .. Len(sts)
               PROVE  Interpolated(sts, k - 1) <= Interpolated(sts, k)
    BY DEF InterpolationMovesForward
  <2>1. sts \in Seq(GoodRow) /\ GoodRow \subseteq Row
    BY StopTimesAreRows DEF GoodRow
  <2>2. sts \in Seq(Row)
    BY <2>1
  <2>3. sts # << >>
    BY <2>2
  <2>4. Timed(sts[1]) /\ Timed(sts[Len(sts)])
    BY <2>3 DEF CanInterpolate
  <2>5. \A i, j \in 1 .. Len(sts) : i < j /\ Timed(sts[j]) => sts[i].arr <= sts[j].arr
    BY QueryKeepsOrder
  <2> QED BY <2>2, <2>4, <2>5, InterpolationForward
<1> QED BY <1>1, TripInvariant, PTL

-----------------------------------------------------------------------------
(* Too many stops at one time.                                             *)

Counts == [maybe : Nat, full : Nat, prev : Int, reports : SUBSET (Nat \X Int)]
NoCounts == [maybe |-> 0, full |-> 0, prev |-> -1, reports |-> {}]

(* One turn of the loop keeps the counts well typed.                       *)
LEMMA CountType ==
    ASSUME NEW c \in Counts, NEW st, st.dep \in Int
    PROVE  Checked(c) \in SUBSET (Nat \X Int) /\ Count(c, st) \in Counts
<1>1. c.maybe \in Nat /\ c.full \in Nat /\ c.prev \in Int /\ c.reports \in SUBSET (Nat \X Int)
  BY DEF Counts
<1>2. Checked(c) \in SUBSET (Nat \X Int)
  BY <1>1 DEF Checked
<1>3. [c EXCEPT !.maybe = @ + 1] \in Counts
  BY <1>1 DEF Counts
<1>4. [c EXCEPT !.maybe = @ + 1, !.full = c.maybe + 1, !.prev = st.dep] \in Counts
  <2>1. PICK d \in Int : d = st.dep
    OBVIOUS
  <2>2. PICK m \in Nat : m = c.maybe + 1
    BY <1>1
  <2>3. [c EXCEPT !.maybe = m, !.full = m, !.prev = d] \in Counts
    BY DEF Counts
  <2> QED BY <2>1, <2>2, <2>3
<1>5. [maybe |-> 1, full |-> 1, prev |-> st.dep, reports |-> Checked(c)] \in Counts
  BY <1>2 DEF Counts
<1> QED BY <1>2, <1>3, <1>4, <1>5 DEF Count

(* The counts after the turns of the loop.                                 *)
LEMMA CountsAre ==
    ASSUME NEW sts \in Seq(Row)
    PROVE  \E c \in [0 .. Len(sts) -> Counts] :
              /\ c[0] = NoCounts
              /\ \A k \in 1 .. Len(sts) : c[k] = Count(c[k - 1], sts[k])
              /\ SameTimeReports(sts) = Checked(c[Len(sts)])
<1>1. PICK n : n = Len(sts)
  OBVIOUS
<1>2. n \in Nat /\ \A k \in 1 .. n : sts[k].dep \in Int
  BY <1>1, RowsHave
<1>3. PICK S : S = Counts
  OBVIOUS
<1>4. NoCounts \in S
  BY <1>3 DEF NoCounts, Counts
<1>5. \A c \in S : \A k \in 1 .. n : Count(c, sts[k]) \in S
  BY <1>2, <1>3, CountType
<1> DEFINE F(c) == [k \in 0 .. n |->
              IF k = 0 THEN [maybe |-> 0, full |-> 0, prev |-> -1, reports |-> {}]
              ELSE Count(c[k - 1], sts[k])]
<1>6. SameTimeReports(sts) = Checked((CHOOSE h : h = F(h))[n])
  BY <1>1, Zenon DEF SameTimeReports
<1>7. \A c : F(c) = [k \in 0 .. n |-> IF k = 0 THEN NoCounts ELSE Count(c[k - 1], sts[k])]
  BY Zenon DEF NoCounts
<1> HIDE DEF F
<1>8. PICK g : g = [x \in (1 .. n) \X S |-> Count(x[2], sts[x[1]])]
  OBVIOUS
<1>9. /\ g \in [(1 .. n) \X S -> S]
      /\ \A c \in S : \A k \in 1 .. n : g[<<k, c>>] = Count(c, sts[k])
  BY <1>5, <1>8
<1>10. PICK f \in [0 .. n -> S] : Follows(n, NoCounts, g, f)
  BY <1>2, <1>4, <1>9, Recursion
<1>11. ASSUME NEW k \in 0 .. n
       PROVE  f[k] = IF k = 0 THEN NoCounts ELSE Count(f[k - 1], sts[k])
  <2>1. f[k] = IF k = 0 THEN NoCounts ELSE g[<<k, f[k - 1]>>]
    BY <1>10 DEF Follows
  <2>2. CASE k # 0
    <3>1. k \in 1 .. n /\ k - 1 \in 0 .. n
      BY <1>2, <2>2
    <3>2. f[k - 1] \in S
      BY <3>1
    <3> QED BY <1>9, <2>1, <2>2, <3>1, <3>2
  <2> QED BY <2>1, <2>2
<1>12. f = F(f)
  BY <1>7, <1>11
<1>13. PICK c : c = F(c) /\ SameTimeReports(sts) = Checked(c[n])
  BY <1>6, <1>12
<1>14. DOMAIN c = 0 .. n /\ c = [k \in 0 .. n |-> c[k]]
  BY <1>7, <1>13
<1>15. \A k \in 0 .. n : c[k] = IF k = 0 THEN NoCounts ELSE Count(c[k - 1], sts[k])
  BY <1>7, <1>13
<1> DEFINE P == {k \in 0 .. n : c[k] \in S}
<1>16. 0 \in 0 .. n /\ \A k \in 1 .. n : k \in 0 .. n /\ k # 0
  BY <1>2
<1>17. c[0] = NoCounts /\ \A k \in 1 .. n : c[k] = Count(c[k - 1], sts[k])
  BY <1>15, <1>16, Zenon
<1>18. 0 \in P
  BY <1>4, <1>16, <1>17
<1>19. ASSUME NEW k \in 1 .. n, k - 1 \in P
       PROVE  k \in P
  <2>1. k \in 0 .. n /\ c[k - 1] \in S
    BY <1>2, <1>19
  <2>2. c[k] = Count(c[k - 1], sts[k])
    BY <1>17
  <2> QED BY <1>5, <2>1, <2>2
<1>20. 0 .. n \subseteq P
  <2>1. P \in SUBSET Nat
    BY <1>2
  <2> HIDE DEF P
  <2> QED BY <1>2, <1>18, <1>19, <2>1, Induction
<1>21. c \in [0 .. n -> Counts]
  BY <1>3, <1>14, <1>20
<1> QED BY <1>1, <1>13, <1>21, <1>17

(* The stretch from s to e is the one the loop is in after k turns: e is   *)
(* the last stop with times, and no stretch at that time reaches s from    *)
(* before.                                                                 *)
Stretch(sts, s, e, k) ==
    /\ s \in 1 .. k /\ e \in s .. k
    /\ SameTime(sts, s, e, sts[e].dep)
    /\ \A j \in e + 1 .. k : ~ FullyTimed(sts[j])
    /\ \A m \in 1 .. s - 1 : ~ SameTime(sts, m, s, sts[e].dep)

(* The stretch ends at e: there is no next stop, or the next stop has      *)
(* other times.                                                            *)
Ends(sts, e, k) ==
    \/ k = Len(sts)
    \/ /\ k + 1 \in 1 .. Len(sts) /\ FullyTimed(sts[k + 1])
       /\ ~ (sts[e].dep = sts[k + 1].arr /\ sts[k + 1].arr = sts[k + 1].dep)

(* The reports for the stretches that end at k or before.                  *)
IsReport(sts, k, y) ==
    \E i, j \in 1 .. Len(sts) : \E t \in 0 .. MaxSecs :
        /\ i <= j /\ j <= k /\ j - i + 1 > SameLimit
        /\ LongestSameTime(sts, i, j, t)
        /\ y = <<j - i + 1, t>>

(* A stretch that ends cannot be made longer.                              *)
LEMMA StretchIsLongest ==
    ASSUME NEW sts \in Seq(Row), NEW k \in 0 .. Len(sts), NEW s \in Int, NEW e \in Int,
           Stretch(sts, s, e, k), Ends(sts, e, k)
    PROVE  LongestSameTime(sts, s, e, sts[e].dep)
<1> DEFINE n == Len(sts)
           t == sts[e].dep
<1>1. /\ n \in Nat /\ k \in Nat /\ k <= n /\ s >= 1 /\ s <= e /\ e <= k
      /\ SameTime(sts, s, e, t)
      /\ \A j \in e + 1 .. k : ~ FullyTimed(sts[j])
      /\ \A m \in 1 .. s - 1 : ~ SameTime(sts, m, s, t)
  BY DEF Stretch
<1>2. k = n \/ (k + 1 <= n /\ FullyTimed(sts[k + 1])
                /\ ~ (sts[k + 1].arr = t /\ sts[k + 1].dep = t))
  BY <1>1 DEF Ends
<1> HIDE DEF n, t
<1>3. ASSUME NEW m \in e + 1 .. n, SameTime(sts, s, m, t)
      PROVE  FALSE
  <2>1. FullyTimed(sts[m]) /\ \A j \in s + 1 .. m : FullyTimed(sts[j]) => sts[j].arr = t /\ sts[j].dep = t
    BY <1>3 DEF SameTime
  <2>2. m > k
    BY <1>1, <2>1
  <2>3. k + 1 \in s + 1 .. m /\ k # n
    BY <1>1, <2>2
  <2> QED BY <1>2, <2>1, <2>3
<1> QED BY <1>1, <1>3 DEF LongestSameTime, n, t

(* It is the only one that ends in it.                                     *)
LEMMA LongestIsStretch ==
    ASSUME NEW sts \in Seq(Row), NEW k \in 0 .. Len(sts), NEW s \in Int, NEW e \in Int,
           Stretch(sts, s, e, k), NEW i \in 1 .. Len(sts), NEW j \in 1 .. Len(sts), NEW t \in Int,
           i <= j, s <= j, j <= k, LongestSameTime(sts, i, j, t)
    PROVE  i = s /\ j = e /\ t = sts[e].dep
<1> DEFINE n == Len(sts)
           d == sts[e].dep
<1>1. /\ n \in Nat /\ k \in Nat /\ k <= n /\ s >= 1 /\ s <= e /\ e <= k
      /\ \A m \in e + 1 .. k : ~ FullyTimed(sts[m])
      /\ \A m \in 1 .. s - 1 : ~ SameTime(sts, m, s, d)
  BY DEF Stretch
<1>2. /\ FullyTimed(sts[s]) /\ sts[s].dep = d /\ FullyTimed(sts[e])
      /\ \A m \in s + 1 .. e : FullyTimed(sts[m]) => sts[m].arr = d /\ sts[m].dep = d
  BY DEF Stretch, SameTime
<1>3. /\ FullyTimed(sts[i]) /\ sts[i].dep = t /\ FullyTimed(sts[j])
      /\ \A m \in i + 1 .. j : FullyTimed(sts[m]) => sts[m].arr = t /\ sts[m].dep = t
  BY DEF LongestSameTime, SameTime
<1>4. /\ \A m \in j + 1 .. n : ~ SameTime(sts, i, m, t)
      /\ \A m \in 1 .. i - 1 : ~ (SameTime(sts, m, j, t) /\ SameTime(sts, m, i, t))
  BY DEF LongestSameTime
<1> HIDE DEF n, d
<1>5. i \in Nat /\ j \in Nat /\ i >= 1
  BY <1>1 DEF n
<1>6. j <= e
  BY <1>1, <1>3, <1>5
<1>7. ~ i < s
  <2> SUFFICES ASSUME i < s PROVE FALSE
    OBVIOUS
  <2>1. s \in i + 1 .. j
    BY <1>1, <1>5
  <2>2. t = d
    BY <1>2, <1>3, <2>1
  <2>3. \A m \in i + 1 .. s : m \in i + 1 .. j
    BY <1>1, <1>5
  <2>4. SameTime(sts, i, s, d)
    BY <1>2, <1>3, <2>2, <2>3 DEF SameTime
  <2> QED BY <1>1, <1>5, <2>4
<1>8. ~ i > s
  <2> SUFFICES ASSUME i > s PROVE FALSE
    OBVIOUS
  <2>1. /\ i \in s + 1 .. e /\ \A m \in s + 1 .. j : m \in s + 1 .. e
        /\ \A m \in s + 1 .. i : m \in s + 1 .. e
    BY <1>1, <1>5, <1>6
  <2>2. t = d
    BY <1>2, <1>3, <2>1
  <2>3. SameTime(sts, s, j, t) /\ SameTime(sts, s, i, t)
    BY <1>2, <1>3, <2>1, <2>2 DEF SameTime
  <2>4. s \in 1 .. i - 1
    BY <1>1, <1>5
  <2> QED BY <1>4, <2>3, <2>4
<1>9. i = s /\ t = d
  BY <1>2, <1>3, <1>5, <1>7, <1>8
<1>10. ~ j < e
  <2> SUFFICES ASSUME j < e PROVE FALSE
    OBVIOUS
  <2>1. SameTime(sts, i, e, t)
    BY <1>2, <1>9 DEF SameTime
  <2>2. e \in j + 1 .. n
    BY <1>1, <1>5
  <2> QED BY <1>4, <2>1, <2>2
<1> QED BY <1>1, <1>5, <1>6, <1>9, <1>10 DEF d

(* What check_same_time_count does when a stretch ends.                    *)
LEMMA CheckedIs ==
    ASSUME NEW sts \in Seq(Row), NEW k \in 0 .. Len(sts), NEW s \in Int, NEW e \in Int,
           Stretch(sts, s, e, k), Ends(sts, e, k), sts[e].dep \in 0 .. MaxSecs,
           NEW c \in Counts, c.prev = sts[e].dep, c.full = e - s + 1,
           \A y : y \in c.reports <=> IsReport(sts, s - 1, y)
    PROVE  \A y : y \in Checked(c) <=> IsReport(sts, k, y)
<1> DEFINE n == Len(sts)
           d == sts[e].dep
<1>1. /\ n \in Nat /\ k \in Nat /\ k <= n /\ s >= 1 /\ s <= e /\ e <= k
      /\ s \in 1 .. n /\ e \in 1 .. n
  BY DEF Stretch
<1>2. SameLimit \in Nat /\ d \in 0 .. MaxSecs /\ d \in Int /\ d # -1
  BY StopTimesAssumption
<1>3. LongestSameTime(sts, s, e, d)
  BY StretchIsLongest
<1>4. ASSUME NEW i \in 1 .. Len(sts), NEW j \in 1 .. Len(sts), NEW t \in Int,
             i <= j, s <= j, j <= k, LongestSameTime(sts, i, j, t)
      PROVE  i = s /\ j = e /\ t = sts[e].dep
  BY <1>4, LongestIsStretch
<1>5. \A y : y \in Checked(c) <=>
         y \in c.reports \/ (e - s + 1 > SameLimit /\ y = <<e - s + 1, d>>)
  BY <1>2 DEF Checked
<1>6. ASSUME NEW y, y \in Checked(c)
      PROVE  IsReport(sts, k, y)
  <2>1. CASE y \in c.reports
    <3>1. IsReport(sts, s - 1, y)
      BY <2>1
    <3>2. \A j \in 1 .. n : j <= s - 1 => j <= k
      BY <1>1
    <3> QED BY <3>1, <3>2 DEF IsReport
  <2>2. CASE e - s + 1 > SameLimit /\ y = <<e - s + 1, d>>
    BY <1>1, <1>2, <1>3, <2>2 DEF IsReport
  <2> QED BY <1>5, <1>6, <2>1, <2>2
<1>7. ASSUME NEW y, IsReport(sts, k, y)
      PROVE  y \in Checked(c)
  <2>1. PICK i \in 1 .. n, j \in 1 .. n, t \in 0 .. MaxSecs :
           /\ i <= j /\ j <= k /\ j - i + 1 > SameLimit
           /\ LongestSameTime(sts, i, j, t)
           /\ y = <<j - i + 1, t>>
    BY <1>7 DEF IsReport
  <2>2. CASE j <= s - 1
    <3>1. IsReport(sts, s - 1, y)
      BY <2>1, <2>2 DEF IsReport
    <3> QED BY <1>5, <3>1
  <2>3. CASE s <= j
    <3>1. t \in Int
      OBVIOUS
    <3>2. i = s /\ j = e /\ t = d
      BY <1>4, <2>1, <2>3, <3>1
    <3> QED BY <1>5, <2>1, <3>2
  <2>4. j <= s - 1 \/ s <= j
    BY <1>1
  <2> QED BY <2>2, <2>3, <2>4
<1> QED BY <1>6, <1>7

(* The inductive invariant of the loop.                                    *)
Counted(sts, k, c) ==
    \/ /\ \A j \in 1 .. k : ~ FullyTimed(sts[j])
       /\ c.prev = -1 /\ c.reports = {}
    \/ \E s, e \in 1 .. k :
          /\ Stretch(sts, s, e, k)
          /\ c.prev = sts[e].dep
          /\ c.maybe = k - s + 1 /\ c.full = e - s + 1
          /\ \A y : y \in c.reports <=> IsReport(sts, s - 1, y)

(* No stretch at its time reaches a stop with other times from before.     *)
LEMMA NewStretch ==
    ASSUME NEW sts \in Seq(Row), NEW k \in 1 .. Len(sts), FullyTimed(sts[k]),
           \/ \A j \in 1 .. k - 1 : ~ FullyTimed(sts[j])
           \/ \E s, e \in 1 .. k - 1 : /\ Stretch(sts, s, e, k - 1)
                                       /\ ~ (sts[e].dep = sts[k].arr /\ sts[k].arr = sts[k].dep)
    PROVE  Stretch(sts, k, k, k)
<1>1. k \in Nat /\ k >= 1
  OBVIOUS
<1>2. SameTime(sts, k, k, sts[k].dep)
  BY <1>1 DEF SameTime
<1>3. ASSUME NEW m \in 1 .. k - 1, SameTime(sts, m, k, sts[k].dep)
      PROVE  FALSE
  <2>1. /\ FullyTimed(sts[m]) /\ sts[m].dep = sts[k].dep
        /\ \A j \in m + 1 .. k : FullyTimed(sts[j]) => sts[j].arr = sts[k].dep /\ sts[j].dep = sts[k].dep
    BY <1>3 DEF SameTime
  <2>2. sts[k].arr = sts[k].dep
    BY <1>1, <2>1
  <2>3. PICK s \in 1 .. k - 1, e \in 1 .. k - 1 :
           /\ Stretch(sts, s, e, k - 1)
           /\ ~ (sts[e].dep = sts[k].arr /\ sts[k].arr = sts[k].dep)
    BY <2>1
  <2>4. FullyTimed(sts[e]) /\ \A j \in e + 1 .. k - 1 : ~ FullyTimed(sts[j])
    BY <2>3 DEF Stretch, SameTime
  <2>5. m <= e
    BY <1>1, <2>1, <2>4
  <2>6. sts[e].dep = sts[k].dep
    <3>1. CASE m = e
      BY <2>1, <3>1
    <3>2. CASE m < e
      BY <1>1, <2>1, <2>4, <3>2
    <3> QED BY <1>1, <2>5, <3>1, <3>2
  <2> QED BY <2>2, <2>3, <2>6
<1> QED BY <1>1, <1>2, <1>3 DEF Stretch

(* An untimed stop leaves the stretch as it is.                            *)
LEMMA UntimedStretch ==
    ASSUME NEW sts \in Seq(Row), NEW k \in 1 .. Len(sts), ~ FullyTimed(sts[k]),
           NEW s \in 1 .. k - 1, NEW e \in 1 .. k - 1, Stretch(sts, s, e, k - 1)
    PROVE  Stretch(sts, s, e, k)
<1>1. \A j \in e + 1 .. k : j \in e + 1 .. k - 1 \/ j = k
  OBVIOUS
<1>2. \A j \in e + 1 .. k : ~ FullyTimed(sts[j])
  BY <1>1 DEF Stretch
<1>3. s \in 1 .. k /\ e \in s .. k
  BY DEF Stretch
<1> QED BY <1>2, <1>3 DEF Stretch

(* A stop at the same time becomes the end of the stretch.                 *)
LEMMA LongerStretch ==
    ASSUME NEW sts \in Seq(Row), NEW k \in 1 .. Len(sts), FullyTimed(sts[k]),
           NEW s \in 1 .. k - 1, NEW e \in 1 .. k - 1, Stretch(sts, s, e, k - 1),
           sts[e].dep = sts[k].arr, sts[k].arr = sts[k].dep
    PROVE  Stretch(sts, s, k, k)
<1>1. k \in Nat /\ s \in Nat /\ e \in Nat /\ s >= 1 /\ s <= e /\ e <= k - 1
  BY DEF Stretch
<1>2. \A j \in s + 1 .. k : j \in s + 1 .. e \/ j \in e + 1 .. k - 1 \/ j = k
  BY <1>1
<1>3. /\ \A j \in s + 1 .. e : FullyTimed(sts[j]) => sts[j].arr = sts[k].dep /\ sts[j].dep = sts[k].dep
      /\ \A j \in e + 1 .. k - 1 : ~ FullyTimed(sts[j])
      /\ FullyTimed(sts[s]) /\ sts[s].dep = sts[k].dep
  BY DEF Stretch, SameTime
<1>4. SameTime(sts, s, k, sts[k].dep)
  BY <1>2, <1>3 DEF SameTime
<1>5. \A m \in 1 .. s - 1 : ~ SameTime(sts, m, s, sts[k].dep)
  BY DEF Stretch
<1>6. \A j \in k + 1 .. k : ~ FullyTimed(sts[j])
  BY <1>1
<1>7. s \in 1 .. k /\ k \in s .. k
  BY <1>1
<1> QED BY <1>4, <1>5, <1>6, <1>7 DEF Stretch

(* Without times there is nothing to report.                               *)
LEMMA NothingTimed ==
    ASSUME NEW sts \in Seq(Row), NEW k \in Nat, \A j \in 1 .. k : ~ FullyTimed(sts[j]), NEW y
    PROVE  ~ IsReport(sts, k, y)
<1> SUFFICES ASSUME IsReport(sts, k, y) PROVE FALSE
  OBVIOUS
<1>1. PICK i \in 1 .. Len(sts), j \in 1 .. Len(sts), t \in 0 .. MaxSecs :
         j <= k /\ LongestSameTime(sts, i, j, t)
  BY DEF IsReport
<1>2. FullyTimed(sts[j]) /\ j \in 1 .. k
  BY <1>1 DEF LongestSameTime, SameTime
<1> QED BY <1>2

(* One turn of the loop keeps its invariant.                               *)
LEMMA CountStep ==
    ASSUME NEW sts \in Seq(Row), NEW k \in 1 .. Len(sts),
           \A j \in 1 .. Len(sts) : FullyTimed(sts[j]) => sts[j].dep \in 0 .. MaxSecs,
           NEW c \in Counts, Counted(sts, k - 1, c)
    PROVE  Counted(sts, k, Count(c, sts[k]))
<1>1. Len(sts) \in Nat /\ k \in Nat /\ k - 1 \in Nat /\ k - 1 \in 0 .. Len(sts)
  OBVIOUS
<1>2. c.maybe \in Nat /\ c.full \in Nat /\ c.prev \in Int
  BY DEF Counts
<1>3. CASE ~ FullyTimed(sts[k])
  <2>1. PICK d : d = Count(c, sts[k])
    OBVIOUS
  <2>2. d.prev = c.prev /\ d.reports = c.reports /\ d.full = c.full /\ d.maybe = c.maybe + 1
    BY <1>3, <2>1 DEF Count, Counts
  <2>3. CASE (\A j \in 1 .. k - 1 : ~ FullyTimed(sts[j])) /\ c.prev = -1 /\ c.reports = {}
    <3>1. \A j \in 1 .. k : j \in 1 .. k - 1 \/ j = k
      BY <1>1
    <3>2. \A j \in 1 .. k : ~ FullyTimed(sts[j])
      BY <1>3, <2>3, <3>1
    <3> QED BY <2>1, <2>2, <2>3, <3>2 DEF Counted
  <2>4. ASSUME NEW s \in 1 .. k - 1, NEW e \in 1 .. k - 1, Stretch(sts, s, e, k - 1),
               c.prev = sts[e].dep, c.maybe = k - 1 - s + 1, c.full = e - s + 1,
               \A y : y \in c.reports <=> IsReport(sts, s - 1, y)
        PROVE  Counted(sts, k, d)
    <3>1. Stretch(sts, s, e, k)
      BY <1>3, <2>4, UntimedStretch
    <3>2. s \in 1 .. k /\ e \in 1 .. k /\ d.maybe = k - s + 1
      BY <1>1, <2>2, <2>4
    <3> QED BY <2>2, <2>4, <3>1, <3>2 DEF Counted
  <2> QED BY <2>1, <2>3, <2>4 DEF Counted
<1>4. CASE FullyTimed(sts[k]) /\ c.prev = sts[k].arr /\ sts[k].arr = sts[k].dep
  <2>1. PICK d : d = Count(c, sts[k])
    OBVIOUS
  <2>2. d.prev = sts[k].dep /\ d.reports = c.reports /\ d.full = c.maybe + 1 /\ d.maybe = c.maybe + 1
    BY <1>4, <2>1 DEF Count, Counts
  <2>3. c.prev # -1
    BY <1>4 DEF FullyTimed, None
  <2>4. PICK s \in 1 .. k - 1, e \in 1 .. k - 1 :
           /\ Stretch(sts, s, e, k - 1)
           /\ c.prev = sts[e].dep
           /\ c.maybe = k - 1 - s + 1 /\ c.full = e - s + 1
           /\ \A y : y \in c.reports <=> IsReport(sts, s - 1, y)
    BY <2>3 DEF Counted
  <2>5. Stretch(sts, s, k, k)
    BY <1>4, <2>4, LongerStretch
  <2>6. s \in 1 .. k /\ k \in 1 .. k /\ d.maybe = k - s + 1 /\ d.full = k - s + 1
    <3>1. c.maybe = k - 1 - s + 1
      BY <2>4
    <3>2. c.maybe + 1 = k - s + 1 /\ s \in 1 .. k /\ k \in 1 .. k
      BY <1>1, <3>1
    <3> QED BY <2>2, <3>2
  <2>7. Counted(sts, k, d)
    BY <2>2, <2>4, <2>5, <2>6 DEF Counted
  <2> QED BY <2>1, <2>7
<1>5. CASE FullyTimed(sts[k]) /\ ~ (c.prev = sts[k].arr /\ sts[k].arr = sts[k].dep)
  <2>1. PICK d : d = Count(c, sts[k])
    OBVIOUS
  <2>2. d.prev = sts[k].dep /\ d.reports = Checked(c) /\ d.full = 1 /\ d.maybe = 1
    BY <1>5, <2>1 DEF Count
  <2>3. Stretch(sts, k, k, k) /\ \A y : y \in Checked(c) <=> IsReport(sts, k - 1, y)
    <3>1. CASE (\A j \in 1 .. k - 1 : ~ FullyTimed(sts[j])) /\ c.prev = -1 /\ c.reports = {}
      <4>1. Checked(c) = {}
        BY <3>1 DEF Checked
      <4>2. \A y : ~ IsReport(sts, k - 1, y)
        BY <1>1, <3>1, NothingTimed
      <4>3. Stretch(sts, k, k, k)
        BY <1>5, <3>1, NewStretch
      <4> QED BY <4>1, <4>2, <4>3
    <3>2. ASSUME NEW s \in 1 .. k - 1, NEW e \in 1 .. k - 1, Stretch(sts, s, e, k - 1),
                 c.prev = sts[e].dep, c.full = e - s + 1,
                 \A y : y \in c.reports <=> IsReport(sts, s - 1, y)
          PROVE  Stretch(sts, k, k, k) /\ \A y : y \in Checked(c) <=> IsReport(sts, k - 1, y)
      <4>1. ~ (sts[e].dep = sts[k].arr /\ sts[k].arr = sts[k].dep)
        BY <1>5, <3>2
      <4>2. Stretch(sts, k, k, k)
        BY <1>5, <3>2, <4>1, NewStretch
      <4>3. k - 1 + 1 = k
        BY <1>1
      <4>4. Ends(sts, e, k - 1)
        BY <1>5, <4>1, <4>3 DEF Ends
      <4>5. sts[e].dep \in 0 .. MaxSecs
        <5>1. FullyTimed(sts[e]) /\ e \in 1 .. Len(sts)
          BY <1>1, <3>2 DEF Stretch, SameTime
        <5> QED BY <5>1
      <4>6. s \in Int /\ e \in Int
        BY <1>1
      <4>7. \A y : y \in Checked(c) <=> IsReport(sts, k - 1, y)
        BY <1>1, <3>2, <4>4, <4>5, <4>6, CheckedIs
      <4> QED BY <4>2, <4>7
    <3> QED BY <3>1, <3>2 DEF Counted
  <2>4. k \in 1 .. k /\ 1 = k - k + 1
    BY <1>1
  <2>5. Counted(sts, k, d)
    BY <2>2, <2>3, <2>4 DEF Counted
  <2> QED BY <2>1, <2>5
<1> QED BY <1>3, <1>4, <1>5

(* The reports of the whole loop are those of all stretches.               *)
LEMMA ReportsAre ==
    ASSUME NEW sts \in Seq(Row),
           \A j \in 1 .. Len(sts) : FullyTimed(sts[j]) => sts[j].dep \in 0 .. MaxSecs
    PROVE  \A y : y \in SameTimeReports(sts) <=> IsReport(sts, Len(sts), y)
<1>1. PICK n : n = Len(sts) /\ n \in Nat
  OBVIOUS
<1>2. PICK c \in [0 .. n -> Counts] :
         /\ c[0] = NoCounts
         /\ \A k \in 1 .. n : c[k] = Count(c[k - 1], sts[k])
         /\ SameTimeReports(sts) = Checked(c[n])
  BY <1>1, CountsAre
<1> DEFINE P == {k \in 0 .. n : Counted(sts, k, c[k])}
<1>3. 0 \in P
  <2>1. c[0].prev = -1 /\ c[0].reports = {}
    BY <1>2 DEF NoCounts
  <2>2. \A j \in 1 .. 0 : ~ FullyTimed(sts[j])
    OBVIOUS
  <2>3. Counted(sts, 0, c[0])
    BY <2>1, <2>2 DEF Counted
  <2> QED BY <1>1, <2>3
<1>4. ASSUME NEW k \in 1 .. n, k - 1 \in P
      PROVE  k \in P
  <2>1. k \in 0 .. n /\ k - 1 \in 0 .. n /\ k \in 1 .. Len(sts)
    BY <1>1
  <2>2. c[k - 1] \in Counts /\ Counted(sts, k - 1, c[k - 1]) /\ c[k] = Count(c[k - 1], sts[k])
    BY <1>2, <1>4, <2>1
  <2>3. Counted(sts, k, c[k])
    BY <2>1, <2>2, CountStep
  <2> QED BY <2>1, <2>3
<1>5. n \in P
  <2>1. P \in SUBSET Nat
    BY <1>1
  <2> HIDE DEF P
  <2>2. 0 .. n \subseteq P
    BY <1>1, <1>3, <1>4, <2>1, Induction
  <2> QED BY <1>1, <2>2
<1>6. Counted(sts, n, c[n]) /\ c[n] \in Counts
  BY <1>1, <1>5
<1>7. CASE (\A j \in 1 .. n : ~ FullyTimed(sts[j])) /\ c[n].prev = -1 /\ c[n].reports = {}
  <2>1. Checked(c[n]) = {}
    BY <1>7 DEF Checked
  <2>2. \A y : ~ IsReport(sts, n, y)
    BY <1>1, <1>7, NothingTimed
  <2> QED BY <1>1, <1>2, <2>1, <2>2
<1>8. ASSUME NEW s \in 1 .. n, NEW e \in 1 .. n, Stretch(sts, s, e, n),
             c[n].prev = sts[e].dep, c[n].full = e - s + 1,
             \A y : y \in c[n].reports <=> IsReport(sts, s - 1, y)
      PROVE  \A y : y \in SameTimeReports(sts) <=> IsReport(sts, Len(sts), y)
  <2>1. Ends(sts, e, n)
    BY <1>1 DEF Ends
  <2>2. sts[e].dep \in 0 .. MaxSecs
    <3>1. FullyTimed(sts[e])
      BY <1>8 DEF Stretch, SameTime
    <3> QED BY <1>1, <3>1
  <2>3. s \in Int /\ e \in Int /\ n \in 0 .. Len(sts)
    BY <1>1
  <2>4. \A y : y \in Checked(c[n]) <=> IsReport(sts, n, y)
    BY <1>6, <1>8, <2>1, <2>2, <2>3, CheckedIs
  <2> QED BY <1>1, <1>2, <2>4
<1> QED BY <1>6, <1>7, <1>8 DEF Counted

(* validate_stop_times_for_trip, which counts with two counters and one    *)
(* remembered time, reports exactly the stretches of more than SameLimit   *)
(* stop times, for trips of any length and with any untimed stops.         *)
THEOREM SameTimeReportsAreRight == Spec => []SameTimeReportsAreExact
<1>1. TripInv => SameTimeReportsAreExact
  <2> SUFFICES ASSUME TripInv, NEW sts \in GetStopTimes
               PROVE  SameTimeReports(sts) =
                         {<<r[2] - r[1] + 1, r[3]>> : r \in
                             {x \in (1 .. Len(sts)) \X (1 .. Len(sts)) \X (0 .. MaxSecs) :
                                 /\ x[1] <= x[2] /\ x[2] - x[1] + 1 > SameLimit
                                 /\ LongestSameTime(sts, x[1], x[2], x[3])}}
    BY DEF SameTimeReportsAreExact
  <2>1. /\ sts \in Seq(GoodRow) /\ GoodRow \subseteq Row
        /\ \A k \in 1 .. Len(sts) : sts[k] \in GoodRow
    BY StopTimesAreRows DEF GoodRow
  <2>2. sts \in Seq(Row)
    BY <2>1
  <2>3. ASSUME NEW j \in 1 .. Len(sts), FullyTimed(sts[j])
        PROVE  sts[j].dep \in 0 .. MaxSecs
    <3>1. sts[j].dep # None /\ sts[j].dep <= MaxSecs
      BY <2>1, <2>3 DEF GoodRow, FullyTimed
    <3>2. sts[j].dep \in Nat
      BY <2>2, <3>1, RowsHave
    <3> QED BY <3>1, <3>2, StopTimesAssumption
  <2>4. \A y : y \in SameTimeReports(sts) <=> IsReport(sts, Len(sts), y)
    BY <2>2, <2>3, ReportsAre
  <2> DEFINE X == {x \in (1 .. Len(sts)) \X (1 .. Len(sts)) \X (0 .. MaxSecs) :
                      /\ x[1] <= x[2] /\ x[2] - x[1] + 1 > SameLimit
                      /\ LongestSameTime(sts, x[1], x[2], x[3])}
  <2>5. ASSUME NEW y, IsReport(sts, Len(sts), y)
        PROVE  \E r \in X : y = <<r[2] - r[1] + 1, r[3]>>
    <3>1. PICK i \in 1 .. Len(sts), j \in 1 .. Len(sts), t \in 0 .. MaxSecs :
             /\ i <= j /\ j - i + 1 > SameLimit
             /\ LongestSameTime(sts, i, j, t)
             /\ y = <<j - i + 1, t>>
      BY <2>5 DEF IsReport
    <3>2. PICK r : r = <<i, j, t>>
      OBVIOUS
    <3>3. /\ r \in (1 .. Len(sts)) \X (1 .. Len(sts)) \X (0 .. MaxSecs)
          /\ r[1] = i /\ r[2] = j /\ r[3] = t
      BY <3>2
    <3> QED BY <3>1, <3>3
  <2>6. ASSUME NEW r \in X
        PROVE  IsReport(sts, Len(sts), <<r[2] - r[1] + 1, r[3]>>)
    <3>1. /\ r[1] \in 1 .. Len(sts) /\ r[2] \in 1 .. Len(sts) /\ r[3] \in 0 .. MaxSecs
          /\ r[1] <= r[2] /\ r[2] - r[1] + 1 > SameLimit
          /\ LongestSameTime(sts, r[1], r[2], r[3])
      OBVIOUS
    <3>2. r[2] <= Len(sts)
      BY <2>2, <3>1
    <3> QED BY <3>1, <3>2, Zenon DEF IsReport
  <2> HIDE DEF X
  <2>7. SameTimeReports(sts) = {<<r[2] - r[1] + 1, r[3]>> : r \in X}
    BY <2>4, <2>5, <2>6
  <2> QED BY <2>7 DEF X
<1> QED BY <1>1, TripInvariant, PTL

=============================================================================
