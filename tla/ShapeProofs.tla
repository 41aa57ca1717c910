----------------------------- MODULE ShapeProofs -----------------------------
(***************************************************************************)
(* Proofs about the lists of a shape, for any number of points, sequence   *)
(* numbers and distances.                                                  *)
(***************************************************************************)
EXTENDS Shape, WellFoundedInduction, TLAPS

(* What list.insert gives for a position inside the list or at its end.    *)
Inserted(S, s, i, e) ==
    /\ Insert(s, i, e) \in Seq(S)
    /\ Len(Insert(s, i, e)) = Len(s) + 1
    /\ \A k \in 1 .. Len(s) + 1 :
          /\ k <= i => k \in 1 .. Len(s) /\ Insert(s, i, e)[k] = s[k]
          /\ k = i + 1 => Insert(s, i, e)[k] = e
          /\ k > i + 1 => k - 1 \in 1 .. Len(s) /\ Insert(s, i, e)[k] = s[k - 1]

(* list.insert puts the element at its position and shifts the rest.       *)
LEMMA InsertFacts ==
    ASSUME NEW S, NEW s \in Seq(S), NEW i \in 0 .. Len(s), NEW e \in S
    PROVE  Inserted(S, s, i, e)
<1>1. Len(s) \in Nat /\ i \in Nat /\ i <= Len(s)
  OBVIOUS
<1>2. \A k \in 1 .. Len(s) + 1 : Insert(s, i, e)[k] =
         (IF k <= i /\ k <= Len(s) THEN s[k]
          ELSE IF k = i + 1 \/ i > Len(s) THEN e ELSE s[k - 1])
  BY DEF Insert
<1>3. \A k \in 1 .. Len(s) + 1 :
         /\ k <= i => k \in 1 .. Len(s) /\ Insert(s, i, e)[k] = s[k]
         /\ k = i + 1 => Insert(s, i, e)[k] = e
         /\ k > i + 1 => k - 1 \in 1 .. Len(s) /\ Insert(s, i, e)[k] = s[k - 1]
  BY <1>1, <1>2
<1>4. ASSUME NEW k \in 1 .. Len(s) + 1
      PROVE  Insert(s, i, e)[k] \in S
  <2>1. \A m \in 1 .. Len(s) : s[m] \in S
    OBVIOUS
  <2> QED BY <1>1, <1>3, <2>1
<1>5. Insert(s, i, e) \in Seq(S) /\ Len(Insert(s, i, e)) = Len(s) + 1
  BY <1>1, <1>4 DEF Insert
<1> QED BY <1>3, <1>5 DEF Inserted

(* Inserting past the end appends.                                         *)
LEMMA InsertType ==
    ASSUME NEW S, NEW s \in Seq(S), NEW i \in Nat, NEW e \in S
    PROVE  Insert(s, i, e) \in Seq(S)
<1>1. Len(s) \in Nat
  OBVIOUS
<1>2. \A k \in 1 .. Len(s) + 1 :
         (IF k <= i /\ k <= Len(s) THEN s[k]
          ELSE IF k = i + 1 \/ i > Len(s) THEN e ELSE s[k - 1]) \in S
  BY <1>1
<1> QED BY <1>1, <1>2 DEF Insert

(* A position chosen for a sequence number splits the sorted list.         *)
LEMMA PositionSplits ==
    ASSUME TypeOK, SequenceIsSorted, NEW seq \in Nat, NEW i \in Positions(seq)
    PROVE  /\ i \in 0 .. Len(sequence)
           /\ \A k \in 1 .. Len(sequence) : /\ k <= i => sequence[k] <= seq
                                            /\ k > i => seq <= sequence[k]
<1>1. /\ Len(sequence) \in Nat
      /\ \A k \in 1 .. Len(sequence) : sequence[k] \in Nat
  BY DEF TypeOK
<1>2. CASE sequence = <<>>
  BY <1>1, <1>2 DEF Positions
<1>3. CASE sequence # <<>> /\ seq >= sequence[Len(sequence)]
  <2>1. i = Len(sequence) /\ Len(sequence) \in 1 .. Len(sequence)
    BY <1>1, <1>3 DEF Positions, TypeOK
  <2> QED BY <1>1, <1>3, <2>1 DEF SequenceIsSorted
<1>4. CASE sequence # <<>> /\ ~ seq >= sequence[Len(sequence)] /\ seq <= sequence[1]
  <2>1. i = 0 /\ 1 \in 1 .. Len(sequence)
    BY <1>1, <1>4 DEF Positions, TypeOK
  <2> QED BY <1>1, <1>4, <2>1 DEF SequenceIsSorted
<1>5. CASE sequence # <<>> /\ ~ seq >= sequence[Len(sequence)] /\ ~ seq <= sequence[1]
  <2>1. i \in Bisect(sequence, seq)
    BY <1>5 DEF Positions
  <2>2. /\ i \in 0 .. Len(sequence)
        /\ i > 0 => sequence[i] <= seq
        /\ i < Len(sequence) => seq < sequence[i + 1]
    BY <2>1 DEF Bisect
  <2> QED BY <1>1, <2>2, SMTT(30) DEF SequenceIsSorted
<1> QED BY <1>2, <1>3, <1>4, <1>5

(* The inductive invariant: where the next point goes depends on the order *)
(* of the numbers, and the neighbours it is compared with on the agreement *)
(* of the lists.                                                           *)
ShapeInv ==
    /\ TypeOK
    /\ SequenceIsSorted
    /\ ListsAgree
    /\ MaxDistanceIsMax
    /\ StrictShapeIsOrdered

(* A new shape satisfies it.                                               *)
LEMMA InitShapeInv == Init => ShapeInv
<1> SUFFICES ASSUME Init PROVE ShapeInv
  OBVIOUS
<1>1. /\ sequence = <<>> /\ distance = <<>> /\ points = <<>> /\ maxDistance = 0
      /\ cleared = FALSE /\ strict \in BOOLEAN
  BY DEF Init
<1>2. TypeOK
  <2>1. cleared \in BOOLEAN
    BY <1>1
  <2>2. sequence \in Seq(Nat) /\ distance \in Seq(Nat \cup {NoDist})
        /\ points \in Seq(Point) /\ maxDistance \in Nat
    BY <1>1
  <2> QED BY <1>1, <2>1, <2>2 DEF TypeOK
<1>3. 1 .. Len(sequence) = {} /\ 1 .. Len(distance) = {} /\ 1 .. Len(points) = {}
  BY <1>1
<1>4. SequenceIsSorted /\ MaxDistanceIsMax /\ StrictShapeIsOrdered
  BY <1>1, <1>3, Zenon DEF SequenceIsSorted, MaxDistanceIsMax, StrictShapeIsOrdered
<1>5. ListsAgree
  BY <1>1, <1>3 DEF ListsAgree
<1> QED BY <1>2, <1>4, <1>5 DEF ShapeInv

(* What the inserted point does to each list, position by position.        *)
LEMMA InsertPointShape ==
    ASSUME ShapeInv, NEW seq \in Nat, NEW dist \in Nat \cup {NoDist},
           NEW i \in Positions(seq), InsertPoint(i, seq, dist)
    PROVE  /\ i \in 0 .. Len(sequence)
           /\ sequence' \in Seq(Nat) /\ Len(sequence') = Len(sequence) + 1
           /\ distance' \in Seq(Nat \cup {NoDist})
           /\ Len(distance') = Len(sequence) + 1
           /\ \A k \in 1 .. Len(sequence) + 1 :
                 /\ k <= i => /\ k \in 1 .. Len(sequence)
                              /\ sequence'[k] = sequence[k]
                              /\ distance'[k] = distance[k]
                 /\ k = i + 1 => sequence'[k] = seq /\ distance'[k] = dist
                 /\ k > i + 1 => /\ k - 1 \in 1 .. Len(sequence)
                                 /\ sequence'[k] = sequence[k - 1]
                                 /\ distance'[k] = distance[k - 1]
<1>1. i \in 0 .. Len(sequence)
  BY PositionSplits DEF ShapeInv
<1>2. /\ sequence \in Seq(Nat) /\ distance \in Seq(Nat \cup {NoDist})
      /\ Len(distance) = Len(sequence)
  BY DEF ShapeInv, TypeOK, ListsAgree
<1>3. sequence' = Insert(sequence, i, seq) /\ distance' = Insert(distance, i, dist)
  BY DEF InsertPoint
<1>4. Inserted(Nat, sequence, i, seq)
  BY <1>1, <1>2, InsertFacts
<1>5. i \in 0 .. Len(distance)
  BY <1>1, <1>2
<1>6. Inserted(Nat \cup {NoDist}, distance, i, dist)
  BY <1>2, <1>5, InsertFacts
<1> QED BY <1>1, <1>2, <1>3, <1>4, <1>6 DEF Inserted

(* An insertion keeps Shape.sequence sorted.                               *)
LEMMA InsertKeepsSorted ==
    ASSUME ShapeInv, NEW seq \in Nat, NEW dist \in Nat \cup {NoDist},
           NEW i \in Positions(seq), InsertPoint(i, seq, dist)
    PROVE  SequenceIsSorted'
<1> SUFFICES ASSUME NEW a \in 1 .. Len(sequence'), NEW b \in 1 .. Len(sequence'),
                    a <= b
             PROVE  sequence'[a] <= sequence'[b]
  BY DEF SequenceIsSorted
<1> DEFINE n == Len(sequence)
<1>0. i \in 0 .. n /\ Len(sequence') = n + 1
  BY InsertPointShape
<1>1. /\ n \in Nat /\ i \in 0 .. n /\ a \in 1 .. n + 1 /\ b \in 1 .. n + 1
      /\ \A k \in 1 .. n : sequence[k] \in Nat
  BY <1>0 DEF ShapeInv, TypeOK
<1>2. /\ \A k \in 1 .. n : (k <= i => sequence[k] <= seq) /\ (k > i => seq <= sequence[k])
      /\ \A k, m \in 1 .. n : k <= m => sequence[k] <= sequence[m]
  BY PositionSplits DEF ShapeInv, SequenceIsSorted
<1>3. \A k \in 1 .. n + 1 : /\ k <= i => k \in 1 .. n /\ sequence'[k] = sequence[k]
                            /\ k = i + 1 => sequence'[k] = seq
                            /\ k > i + 1 => k - 1 \in 1 .. n /\ sequence'[k] = sequence[k - 1]
  BY InsertPointShape
<1> HIDE DEF n
<1>4. CASE a <= i /\ b <= i
  BY <1>1, <1>2, <1>3, <1>4
<1>5. CASE a <= i /\ b = i + 1
  BY <1>1, <1>2, <1>3, <1>5
<1>6. CASE a <= i /\ b > i + 1
  BY <1>1, <1>2, <1>3, <1>6
<1>7. CASE a = i + 1 /\ b = i + 1
  BY <1>1, <1>3, <1>7
<1>8. CASE a = i + 1 /\ b > i + 1
  BY <1>1, <1>2, <1>3, <1>8
<1>9. CASE a > i + 1 /\ b > i + 1
  BY <1>1, <1>2, <1>3, <1>9
<1> QED BY <1>1, <1>4, <1>5, <1>6, <1>7, <1>8, <1>9

(* An insertion keeps the three lists in step.                             *)
LEMMA InsertKeepsAgreement ==
    ASSUME ShapeInv, NEW seq \in Nat, NEW dist \in Nat \cup {NoDist},
           NEW i \in Positions(seq), InsertPoint(i, seq, dist), UNCHANGED cleared
    PROVE  ListsAgree' /\ points' \in Seq(Point)
<1>1. /\ Len(distance') = Len(sequence') /\ i \in 0 .. Len(sequence)
      /\ Len(sequence) \in Nat
  BY InsertPointShape DEF ShapeInv, TypeOK
<1>2. [seq |-> seq, dist |-> dist] \in Point
  BY DEF Point
<1>3. points' = Insert(points, i, [seq |-> seq, dist |-> dist]) /\ points \in Seq(Point)
  BY DEF InsertPoint, ShapeInv, TypeOK
<1>4. points' \in Seq(Point)
  BY <1>1, <1>2, <1>3, InsertType
<1>5. ASSUME ~ cleared
      PROVE  /\ Len(points') = Len(sequence')
             /\ \A k \in 1 .. Len(points') : /\ points'[k].seq = sequence'[k]
                                             /\ points'[k].dist = distance'[k]
  <2>1. /\ Len(points) = Len(sequence)
        /\ \A k \in 1 .. Len(sequence) : /\ points[k].seq = sequence[k]
                                         /\ points[k].dist = distance[k]
    BY <1>5 DEF ShapeInv, ListsAgree
  <2> DEFINE pt == [seq |-> seq, dist |-> dist]
  <2>9. i \in 0 .. Len(points) /\ pt \in Point
    BY <1>1, <1>2, <2>1
  <2> HIDE DEF pt
  <2>7. Inserted(Point, points, i, pt)
    BY <1>3, <2>9, InsertFacts
  <2>8. points' = Insert(points, i, pt)
    BY <1>3 DEF pt
  <2>2. /\ Len(points') = Len(sequence) + 1
        /\ \A k \in 1 .. Len(sequence) + 1 :
              /\ k <= i => points'[k] = points[k]
              /\ k = i + 1 => points'[k] = [seq |-> seq, dist |-> dist]
              /\ k > i + 1 => points'[k] = points[k - 1]
    BY <2>1, <2>7, <2>8 DEF pt, Inserted
  <2>3. ASSUME NEW k \in 1 .. Len(sequence) + 1
        PROVE  points'[k].seq = sequence'[k] /\ points'[k].dist = distance'[k]
    <3>0. /\ k <= i => /\ k \in 1 .. Len(sequence)
                        /\ sequence'[k] = sequence[k] /\ distance'[k] = distance[k]
          /\ k = i + 1 => sequence'[k] = seq /\ distance'[k] = dist
          /\ k > i + 1 => /\ k - 1 \in 1 .. Len(sequence)
                          /\ sequence'[k] = sequence[k - 1]
                          /\ distance'[k] = distance[k - 1]
      BY InsertPointShape
    <3>1. CASE k <= i
      BY <2>1, <2>2, <3>0, <3>1
    <3>2. CASE k = i + 1
      BY <2>2, <3>0, <3>2
    <3>3. CASE k > i + 1
      BY <2>1, <2>2, <3>0, <3>3
    <3> QED BY <1>1, <3>1, <3>2, <3>3
  <2> QED BY <2>2, <2>3, InsertPointShape
<1> QED BY <1>1, <1>4, <1>5 DEF ListsAgree

(* An insertion keeps max_distance the maximum.                            *)
LEMMA InsertKeepsMax ==
    ASSUME ShapeInv, NEW seq \in Nat, NEW dist \in Nat \cup {NoDist},
           NEW i \in Positions(seq), InsertPoint(i, seq, dist)
    PROVE  MaxDistanceIsMax' /\ maxDistance' \in Nat
<1> DEFINE n == Len(sequence)
<1>0. /\ sequence \in Seq(Nat) /\ distance \in Seq(Nat \cup {NoDist})
      /\ Len(distance) = n /\ maxDistance \in Nat
  BY DEF ShapeInv, TypeOK, ListsAgree
<1>8. i \in 0 .. n /\ Len(distance') = n + 1
  BY InsertPointShape
<1>1. /\ n \in Nat /\ i \in 0 .. n /\ Len(distance) = n /\ Len(distance') = n + 1
      /\ maxDistance \in Nat
      /\ \A k \in 1 .. n : distance[k] \in Nat \cup {NoDist}
  BY <1>0, <1>8
<1>2. \A k \in 1 .. n + 1 : /\ k <= i => k \in 1 .. n /\ distance'[k] = distance[k]
                            /\ k = i + 1 => distance'[k] = dist
                            /\ k > i + 1 => k - 1 \in 1 .. n /\ distance'[k] = distance[k - 1]
  BY InsertPointShape
<1>3. /\ \A k \in 1 .. n : distance[k] <= maxDistance
      /\ maxDistance = 0 \/ \E k \in 1 .. n : distance[k] = maxDistance
  BY <1>1 DEF ShapeInv, MaxDistanceIsMax
<1>4. maxDistance' = IF dist > maxDistance THEN dist ELSE maxDistance
  BY DEF InsertPoint
<1> HIDE DEF n
<1>5. maxDistance' \in Nat /\ maxDistance <= maxDistance' /\ dist <= maxDistance'
  BY <1>1, <1>4 DEF NoDist
<1>6. \A k \in 1 .. n + 1 : distance'[k] <= maxDistance'
  <2> SUFFICES ASSUME NEW k \in 1 .. n + 1 PROVE distance'[k] <= maxDistance'
    OBVIOUS
  <2>1. CASE k <= i
    BY <1>1, <1>2, <1>3, <1>5, <2>1 DEF NoDist
  <2>2. CASE k = i + 1
    BY <1>2, <1>5, <2>2
  <2>3. CASE k > i + 1
    BY <1>1, <1>2, <1>3, <1>5, <2>3 DEF NoDist
  <2> QED BY <1>1, <2>1, <2>2, <2>3
<1>7. maxDistance' = 0 \/ \E k \in 1 .. n + 1 : distance'[k] = maxDistance'
  <2>1. CASE dist > maxDistance
    <3>1. i + 1 \in 1 .. n + 1 /\ distance'[i + 1] = dist
      BY <1>1, <1>2
    <3> QED BY <1>4, <2>1, <3>1
  <2>2. CASE ~ dist > maxDistance /\ maxDistance # 0
    <3>1. PICK k \in 1 .. n : distance[k] = maxDistance
      BY <1>3, <2>2
    <3>2. CASE k <= i
      <4>1. k \in 1 .. n + 1 /\ distance'[k] = distance[k]
        BY <1>1, <1>2, <3>2
      <4> QED BY <1>4, <2>2, <3>1, <4>1
    <3>3. CASE k > i
      <4>1. k + 1 \in 1 .. n + 1 /\ k + 1 > i + 1 /\ (k + 1) - 1 = k
        BY <1>1, <3>3
      <4>2. distance'[k + 1] = distance[k]
        BY <1>2, <4>1
      <4> QED BY <1>4, <2>2, <3>1, <4>1, <4>2
    <3> QED BY <1>1, <3>2, <3>3
  <2> QED BY <1>4, <2>1, <2>2
<1> QED BY <1>1, <1>5, <1>6, <1>7 DEF MaxDistanceIsMax

(* An insertion that passed the checks keeps the distances in order.       *)
LEMMA InsertKeepsOrder ==
    ASSUME ShapeInv, NEW seq \in Nat, NEW dist \in Nat \cup {NoDist},
           NEW i \in Positions(seq), InsertPoint(i, seq, dist), UNCHANGED strict,
           ~ ComparesWithNone(i, dist),
           ~ (strict /\ (Duplicate(seq) \/ OutOfOrder(i, dist)))
    PROVE  StrictShapeIsOrdered'
<1> SUFFICES ASSUME strict, NEW a \in 1 .. Len(sequence'),
                    NEW b \in 1 .. Len(sequence'), a < b
             PROVE  /\ sequence'[a] < sequence'[b]
                    /\ distance'[a] # NoDist /\ distance'[b] # NoDist
                          => distance'[a] <= distance'[b]
  BY DEF StrictShapeIsOrdered
<1> DEFINE n == Len(sequence)
<1>1. /\ n \in Nat /\ i \in 0 .. n /\ a \in 1 .. n + 1 /\ b \in 1 .. n + 1
      /\ \A k \in 1 .. n : sequence[k] \in Nat /\ distance[k] \in Nat \cup {NoDist}
  <2>1. i \in 0 .. n /\ Len(sequence') = n + 1
    BY InsertPointShape
  <2> QED BY <2>1, SMTT(30) DEF ShapeInv, TypeOK, ListsAgree
<1>2. /\ \A k \in 1 .. n : (k <= i => sequence[k] < seq) /\ (k > i => seq < sequence[k])
  <2>1. \A k \in 1 .. n : (k <= i => sequence[k] <= seq) /\ (k > i => seq <= sequence[k])
    BY PositionSplits DEF ShapeInv
  <2>2. \A k \in 1 .. n : sequence[k] # seq
    BY DEF Duplicate
  <2> QED BY <1>1, <2>1, <2>2
<1>3. \A k, m \in 1 .. n : k < m =>
         /\ sequence[k] < sequence[m]
         /\ distance[k] # NoDist /\ distance[m] # NoDist => distance[k] <= distance[m]
  BY DEF ShapeInv, StrictShapeIsOrdered
<1>4. \A k \in 1 .. n + 1 :
         /\ k <= i => /\ k \in 1 .. n /\ sequence'[k] = sequence[k]
                      /\ distance'[k] = distance[k]
         /\ k = i + 1 => sequence'[k] = seq /\ distance'[k] = dist
         /\ k > i + 1 => /\ k - 1 \in 1 .. n /\ sequence'[k] = sequence[k - 1]
                         /\ distance'[k] = distance[k - 1]
  BY InsertPointShape, SMTT(30)
<1>5. ASSUME dist # NoDist, i > 0
      PROVE  distance[i] # NoDist /\ distance[i] <= dist
  <2>1. i \in 1 .. n /\ distance[i] \in Nat \cup {NoDist}
    BY <1>1, <1>5
  <2>2. distance[i] # NoDist
    BY <1>1, <1>5, <2>1 DEF ComparesWithNone, Neighbours
  <2>3. ~ dist < distance[i]
    BY <1>5 DEF OutOfOrder
  <2> QED BY <1>5, <2>1, <2>2, <2>3
<1>6. ASSUME dist # NoDist, i < n
      PROVE  distance[i + 1] # NoDist /\ dist <= distance[i + 1]
  <2>1. i + 1 \in 1 .. n /\ distance[i + 1] \in Nat \cup {NoDist}
    BY <1>1, <1>6
  <2>2. distance[i + 1] # NoDist
    BY <1>1, <1>6, <2>1 DEF ComparesWithNone, Neighbours
  <2>3. ~ dist > distance[i + 1]
    BY <1>6 DEF OutOfOrder
  <2> QED BY <1>6, <2>1, <2>2, <2>3
<1> HIDE DEF n
<1>7. CASE b <= i
  BY <1>1, <1>3, <1>4, <1>7
<1>8. CASE a <= i /\ b = i + 1
  <2>1. a \in 1 .. n /\ i \in 1 .. n
    BY <1>1, <1>8
  <2>2. dist # NoDist /\ distance[a] # NoDist => distance[a] <= dist
    <3>1. CASE a = i
      BY <1>1, <1>5, <1>8, <2>1, <3>1
    <3>2. CASE a < i
      BY <1>1, <1>3, <1>5, <2>1, <3>2
    <3> QED BY <1>1, <1>8, <3>1, <3>2
  <2> QED BY <1>1, <1>2, <1>4, <1>8, <2>1, <2>2
<1>9. CASE a <= i /\ b > i + 1
  BY <1>1, <1>3, <1>4, <1>9, SMTT(30)
<1>10. CASE a = i + 1 /\ b > i + 1
  <2>1. b - 1 \in 1 .. n /\ i + 1 \in 1 .. n /\ i < n
    BY <1>1, <1>10
  <2>2. dist # NoDist /\ distance[b - 1] # NoDist => dist <= distance[b - 1]
    <3>1. CASE b - 1 = i + 1
      BY <1>1, <1>6, <2>1, <3>1
    <3>2. CASE b - 1 > i + 1
      BY <1>1, <1>3, <1>6, <2>1, <3>2
    <3> QED BY <1>1, <1>10, <3>1, <3>2
  <2> QED BY <1>1, <1>2, <1>4, <1>10, <2>1, <2>2
<1>11. CASE a > i + 1
  <2>1. a - 1 \in 1 .. n /\ b - 1 \in 1 .. n /\ a - 1 < b - 1
    BY <1>1, <1>11
  <2>2. /\ sequence'[a] = sequence[a - 1] /\ sequence'[b] = sequence[b - 1]
        /\ distance'[a] = distance[a - 1] /\ distance'[b] = distance[b - 1]
    BY <1>1, <1>4, <1>11
  <2> QED BY <1>3, <2>1, <2>2
<1> QED BY <1>1, <1>7, <1>8, <1>9, <1>10, <1>11

(* add_shape_point_object_unsorted keeps the invariant.                    *)
LEMMA AddKeepsShapeInv ==
    ASSUME ShapeInv, NEW seq \in Nat, NEW dist \in Nat \cup {NoDist},
           AddShapePointObjectUnsorted(seq, dist)
    PROVE  ShapeInv'
<1>1. CASE UNCHANGED <<sequence, distance, points, maxDistance>>
  BY <1>1 DEF AddShapePointObjectUnsorted, ShapeInv, TypeOK, SequenceIsSorted,
     ListsAgree, MaxDistanceIsMax, StrictShapeIsOrdered
<1>2. ASSUME NEW i \in Positions(seq), InsertPoint(i, seq, dist),
             ~ ComparesWithNone(i, dist),
             ~ (strict /\ (Duplicate(seq) \/ OutOfOrder(i, dist)))
      PROVE  ShapeInv'
  <2>1. UNCHANGED <<cleared, strict>>
    BY DEF AddShapePointObjectUnsorted
  <2>2. SequenceIsSorted'
    BY <1>2, InsertKeepsSorted
  <2>3. ListsAgree' /\ points' \in Seq(Point)
    BY <1>2, <2>1, InsertKeepsAgreement
  <2>4. MaxDistanceIsMax' /\ maxDistance' \in Nat
    BY <1>2, InsertKeepsMax
  <2>5. StrictShapeIsOrdered'
    BY <1>2, <2>1, InsertKeepsOrder
  <2>6. TypeOK'
    BY <1>2, <2>1, <2>3, <2>4, InsertPointShape DEF ShapeInv, TypeOK
  <2> QED BY <2>2, <2>3, <2>4, <2>5, <2>6 DEF ShapeInv
<1> QED BY <1>1, <1>2 DEF AddShapePointObjectUnsorted

(* Every call on a shape keeps the invariant.                              *)
LEMMA NextShapeInv == ShapeInv /\ [Next]_vars => ShapeInv'
<1> SUFFICES ASSUME ShapeInv, [Next]_vars PROVE ShapeInv'
  OBVIOUS
<1>1. CASE UNCHANGED vars
  BY <1>1 DEF vars, ShapeInv, TypeOK, SequenceIsSorted, ListsAgree,
     MaxDistanceIsMax, StrictShapeIsOrdered
<1>2. 0 .. MaxSeq \subseteq Nat /\ Dists \subseteq Nat \cup {NoDist}
      /\ Len(sequence) \in Nat
  BY ShapeAssumption DEF Dists, ShapeInv, TypeOK
<1>3. CASE \E seq \in 0 .. MaxSeq, dist \in Dists :
              AddShapePointObjectUnsorted(seq, dist)
  BY <1>2, <1>3, AddKeepsShapeInv
<1>4. CASE \E dist \in Dists, parses \in BOOLEAN : AddPoint(dist, parses)
  <2>1. PICK dist \in Dists : \/ AddShapePointObjectUnsorted(Len(sequence), dist)
                              \/ UNCHANGED vars
    BY <1>4 DEF AddPoint
  <2> QED BY <1>1, <1>2, <2>1, AddKeepsShapeInv
<1>5. CASE ClearPoints
  <2>1. /\ points' = <<>> /\ cleared' = (cleared \/ points # <<>>)
        /\ UNCHANGED <<sequence, distance, maxDistance, strict>>
    BY <1>5 DEF ClearPoints
  <2>2. TypeOK'
    BY <2>1 DEF ShapeInv, TypeOK
  <2>3. ListsAgree'
    <3>1. CASE points = <<>> /\ ~ cleared
      BY <2>1, <3>1 DEF ShapeInv, ListsAgree
    <3>2. CASE points # <<>> \/ cleared
      BY <2>1, <3>2 DEF ShapeInv, ListsAgree
    <3> QED BY <3>1, <3>2
  <2> QED BY <2>1, <2>2, <2>3 DEF ShapeInv, SequenceIsSorted, MaxDistanceIsMax,
     StrictShapeIsOrdered
<1> QED BY <1>1, <1>3, <1>4, <1>5 DEF Next

(* The inductive invariant holds after any sequence of calls.              *)
THEOREM ShapeInvariant == Spec => []ShapeInv
BY InitShapeInv, NextShapeInv, PTL DEF Spec

(* The sequence numbers stay sorted in whatever order points are added.    *)
THEOREM SequenceSorted == Spec => []SequenceIsSorted
<1>1. ShapeInv => SequenceIsSorted
  BY DEF ShapeInv
<1> QED BY <1>1, ShapeInvariant, PTL

(* The three lists describe the same points, unless they were cleared.     *)
THEOREM ListsStayInStep == Spec => []ListsAgree
<1>1. ShapeInv => ListsAgree
  BY DEF ShapeInv
<1> QED BY <1>1, ShapeInvariant, PTL

(* With a reporter that raises, local comparisons give a global order.     *)
THEOREM StrictShapeOrdered == Spec => []StrictShapeIsOrdered
<1>1. ShapeInv => StrictShapeIsOrdered
  BY DEF ShapeInv
<1> QED BY <1>1, ShapeInvariant, PTL

(* max_distance is the largest distance of the shape.                      *)
THEOREM MaxDistanceCorrect == Spec => []MaxDistanceIsMax
<1>1. ShapeInv => MaxDistanceIsMax
  BY DEF ShapeInv
<1> QED BY <1>1, ShapeInvariant, PTL

-----------------------------------------------------------------------------
(* The lookup by distance.                                                 *)

(* A set of numbers has a least one.                                       *)
LEMMA Least ==
    ASSUME NEW T \in SUBSET Nat, T # {}
    PROVE  \E m \in T : \A k \in T : m <= k
<1> DEFINE R == OpToRel(<, Nat)
<1>1. PICK m \in T : \A k \in T : ~ (<<k, m>> \in R)
  BY NatLessThanWellFounded, WFMin
<1>2. ASSUME NEW k \in T
      PROVE  m <= k
  <2>1. <<k, m>> \in Nat \X Nat /\ <<k, m>>[1] = k /\ <<k, m>>[2] = m
    OBVIOUS
  <2>2. k < m => <<k, m>> \in R
    BY <2>1, Zenon DEF OpToRel
  <2>3. ~ k < m
    BY <1>1, <2>2
  <2> QED BY <2>3
<1> QED BY <1>2

(* bisect finds a place between an element that is not greater and one     *)
(* that is, in a list that need not be sorted.                             *)
LEMMA BisectFinds ==
    ASSUME NEW s \in Seq(Nat), s # <<>>, NEW d \in Nat, d > s[1], d < s[Len(s)]
    PROVE  /\ Bisect(s, d) # {}
           /\ \A i \in Bisect(s, d) : /\ i \in 1 .. Len(s) - 1
                                      /\ s[i] <= d /\ d < s[i + 1]
<1>1. Len(s) \in Nat /\ Len(s) >= 1 /\ \A k \in 1 .. Len(s) : s[k] \in Nat
  OBVIOUS
<1> DEFINE T == {k \in 1 .. Len(s) : d < s[k]}
<1>2. T \in SUBSET Nat /\ Len(s) \in T
  BY <1>1
<1>3. PICK m \in T : \A k \in T : m <= k
  <2> HIDE DEF T
  <2> QED BY <1>2, Least
<1>4. m \in 2 .. Len(s) /\ d < s[m] /\ ~ d < s[m - 1]
  BY <1>1, <1>3
<1>5. m - 1 \in Bisect(s, d)
  BY <1>1, <1>4 DEF Bisect
<1>6. ASSUME NEW i \in Bisect(s, d)
      PROVE  i \in 1 .. Len(s) - 1 /\ s[i] <= d /\ d < s[i + 1]
  <2>1. i \in 0 .. Len(s) /\ (i > 0 => s[i] <= d) /\ (i < Len(s) => d < s[i + 1])
    BY DEF Bisect
  <2>2. i # 0 /\ i # Len(s)
    BY <1>1, <2>1
  <2> QED BY <1>1, <2>1, <2>2
<1> QED BY <1>5, <1>6

(* In a shape whose points all have a distance, however they came and in   *)
(* whatever order their distances are, the lookup finds two neighbours     *)
(* with the distance between them.                                         *)
LEMMA LookupFinds == ShapeInv => LookupFindsSegment
<1> SUFFICES ASSUME ShapeInv, ~ cleared, sequence # <<>>,
                    \A i \in 1 .. Len(distance) : distance[i] # NoDist,
                    NEW d \in 0 .. MaxDist
             PROVE  /\ GetPointWithDistanceTraveled(d) # {}
                    /\ \A s \in GetPointWithDistanceTraveled(d) :
                          /\ 1 <= s[1] /\ s[2] <= Len(points)
                          /\ s[1] # s[2] => /\ points[s[1]].dist <= d
                                            /\ d < points[s[2]].dist
  BY DEF LookupFindsSegment
<1>1. /\ sequence \in Seq(Nat) /\ distance \in Seq(Nat \cup {NoDist})
      /\ Len(distance) = Len(sequence) /\ Len(points) = Len(sequence)
      /\ \A i \in 1 .. Len(points) : points[i].dist = distance[i]
  BY DEF ShapeInv, TypeOK, ListsAgree
<1>2. Len(distance) \in Nat /\ Len(distance) # 0 /\ distance # <<>> /\ d \in Nat
  BY <1>1, ShapeAssumption
<1>3. distance \in Seq(Nat) /\ \A k \in 1 .. Len(distance) : distance[k] \in Nat
  BY <1>1, <1>2
<1>4. CASE d <= distance[1]
  <2>1. GetPointWithDistanceTraveled(d) = {<<1, 1>>}
    BY <1>2, <1>4 DEF GetPointWithDistanceTraveled
  <2> QED BY <1>1, <1>2, <2>1
<1>5. CASE ~ d <= distance[1] /\ d >= distance[Len(distance)]
  <2>1. GetPointWithDistanceTraveled(d) = {<<Len(distance), Len(distance)>>}
    BY <1>2, <1>5 DEF GetPointWithDistanceTraveled
  <2> QED BY <1>1, <1>2, <2>1
<1>6. CASE ~ d <= distance[1] /\ ~ d >= distance[Len(distance)]
  <2>1. GetPointWithDistanceTraveled(d) = {<<i, i + 1>> : i \in Bisect(distance, d)}
    BY <1>2, <1>6 DEF GetPointWithDistanceTraveled
  <2>2. d > distance[1] /\ d < distance[Len(distance)]
    BY <1>2, <1>3, <1>6
  <2>3. /\ Bisect(distance, d) # {}
        /\ \A i \in Bisect(distance, d) : /\ i \in 1 .. Len(distance) - 1
                                          /\ distance[i] <= d /\ d < distance[i + 1]
    BY <1>2, <1>3, <2>2, BisectFinds
  <2>4. ASSUME NEW s \in GetPointWithDistanceTraveled(d)
        PROVE  /\ 1 <= s[1] /\ s[2] <= Len(points)
               /\ points[s[1]].dist <= d /\ d < points[s[2]].dist
    <3>1. PICK i \in Bisect(distance, d) : s = <<i, i + 1>>
      BY <2>1
    <3>2. s[1] = i /\ s[2] = i + 1
      BY <3>1
    <3>3. i \in 1 .. Len(distance) - 1 /\ i \in 1 .. Len(points) /\ i + 1 \in 1 .. Len(points)
      BY <1>1, <1>2, <2>3
    <3> QED BY <1>1, <2>3, <3>2, <3>3
  <2> QED BY <2>1, <2>3, <2>4
<1> QED BY <1>4, <1>5, <1>6

(* get_point_with_distance_traveled never fails on an index and never      *)
(* divides by zero, for shapes of any size.                                *)
THEOREM LookupIsRight == Spec => []LookupFindsSegment
BY LookupFinds, ShapeInvariant, PTL
=============================================================================
