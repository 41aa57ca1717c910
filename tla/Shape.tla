-------------------------------- MODULE Shape --------------------------------
(***************************************************************************)
(* Class Shape: the points of one shape, kept in three parallel lists that *)
(* are ordered by shape_pt_sequence whatever the order of the calls.  The  *)
(* problem reporter either raises (strict), which ends the call before it  *)
(* changes anything, or lets the call go on.                               *)
(***************************************************************************)
EXTENDS Integers, Sequences

CONSTANTS MaxSeq,    \* bound: the largest shape_pt_sequence of a caller
          MaxDist,   \* bound: the largest shape_dist_traveled of a caller
          MaxPoints  \* bound: points in the shape

ASSUME ShapeAssumption == MaxSeq \in Nat /\ MaxDist \in Nat /\ MaxPoints \in Nat

NoDist == -1   \* None; ShapePoint.parse_attributes rejects negative distances

VARIABLES sequence,     \* Shape.sequence
          distance,     \* Shape.distance
          points,       \* Shape.points; seq remembers which point it is
          maxDistance,  \* Shape.max_distance
          cleared,      \* clear_points was called on a shape with points
          strict        \* the problem reporter raises

vars == <<sequence, distance, points, maxDistance, cleared, strict>>

Point == [seq : Nat, dist : Nat \cup {NoDist}]

TypeOK ==
    /\ sequence \in Seq(Nat)
    /\ distance \in Seq(Nat \cup {NoDist})
    /\ points \in Seq(Point)
    /\ maxDistance \in Nat
    /\ cleared \in BOOLEAN
    /\ strict \in BOOLEAN

(* list.insert(i, e): i elements stay in front; past the end it appends.   *)
Insert(s, i, e) ==
    [k \in 1 .. Len(s) + 1 |->
        IF k <= i /\ k <= Len(s) THEN s[k]
        ELSE IF k = i + 1 \/ i > Len(s) THEN e
        ELSE s[k - 1]]

(* bisect.bisect(s, x), by its contract: a position with an element not    *)
(* greater than x before it and a greater one after it.  A sorted list has *)
(* exactly one; in a list that is not, it is one of them.                  *)
Bisect(s, x) ==
    {i \in 0 .. Len(s) : /\ i > 0 => s[i] <= x
                         /\ i < Len(s) => x < s[i + 1]}

Init ==
    /\ sequence = <<>> /\ distance = <<>> /\ points = <<>>
    /\ maxDistance = 0
    /\ cleared = FALSE
    /\ strict \in BOOLEAN

-----------------------------------------------------------------------------
(* Where a point with this sequence number goes.                           *)

Positions(seq) ==
    IF sequence = <<>> THEN {0}
    ELSE IF seq >= sequence[Len(sequence)] THEN {Len(sequence)}
    ELSE IF seq <= sequence[1] THEN {0}
    ELSE Bisect(sequence, seq)

Duplicate(seq) == \E i \in 1 .. Len(sequence) : sequence[i] = seq

(* The distances next to position i; comparing with None is a TypeError.   *)
Neighbours(i) == {i, i + 1} \cap (1 .. Len(sequence))
ComparesWithNone(i, dist) ==
    dist # NoDist /\ \E k \in Neighbours(i) : distance[k] = NoDist

(* Fault: the point before is not compared.                                *)
OutOfOrderForward(i, dist) ==
    dist # NoDist /\ i < Len(sequence) /\ dist > distance[i + 1]

OutOfOrder(i, dist) ==
    /\ dist # NoDist
    /\ \/ i < Len(sequence) /\ dist > distance[i + 1]
       \/ i > 0 /\ dist < distance[i]

(* Fault: the point is appended to points, not inserted.                   *)
InsertPointAtEnd(i, seq, dist) ==
    /\ sequence' = Insert(sequence, i, seq)
    /\ distance' = Insert(distance, i, dist)
    /\ points' = Append(points, [seq |-> seq, dist |-> dist])
    /\ maxDistance' = IF dist > maxDistance THEN dist ELSE maxDistance

InsertPoint(i, seq, dist) ==
    /\ sequence' = Insert(sequence, i, seq)
    /\ distance' = Insert(distance, i, dist)
    /\ points' = Insert(points, i, [seq |-> seq, dist |-> dist])
    /\ maxDistance' = IF dist > maxDistance THEN dist ELSE maxDistance

AddShapePointObjectUnsorted(seq, dist) ==
    /\ Len(sequence) < MaxPoints
    /\ \E i \in Positions(seq) :
          IF \/ ComparesWithNone(i, dist)
             \/ strict /\ (Duplicate(seq) \/ OutOfOrder(i, dist))
          THEN UNCHANGED <<sequence, distance, points, maxDistance>>
          ELSE InsertPoint(i, seq, dist)
    /\ UNCHANGED <<cleared, strict>>

(* add_point numbers the new point with the count of points so far; a      *)
(* point whose attributes do not parse is left out.                        *)
AddPoint(dist, parses) ==
    IF parses THEN AddShapePointObjectUnsorted(Len(sequence), dist)
              ELSE UNCHANGED vars

(* clear_points empties one of the three lists.                            *)
ClearPoints ==
    /\ points' = <<>>
    /\ cleared' = (cleared \/ points # <<>>)
    /\ UNCHANGED <<sequence, distance, maxDistance, strict>>

Dists == 0 .. MaxDist \cup {NoDist}

Next ==
    \/ \E seq \in 0 .. MaxSeq, dist \in Dists :
          AddShapePointObjectUnsorted(seq, dist)
    \/ \E dist \in Dists, parses \in BOOLEAN : AddPoint(dist, parses)
    \/ ClearPoints

Spec == Init /\ [][Next]_vars

-----------------------------------------------------------------------------
(* get_point_with_distance_traveled: the positions of the two points it    *)
(* interpolates between, equal at the ends of the shape.                   *)

GetPointWithDistanceTraveled(d) ==
    LET n == Len(distance) IN
    IF n = 0 THEN {}
    ELSE IF d <= distance[1] THEN {<<1, 1>>}
    ELSE IF d >= distance[n] THEN {<<n, n>>}
    ELSE {<<i, i + 1>> : i \in Bisect(distance, d)}

-----------------------------------------------------------------------------
(* Properties.                                                             *)

(* add_shape_point_object_unsorted, "Insert a point into a correct         *)
(* position by sequence": in whatever order points come, with and without  *)
(* duplicate numbers, the numbers stay sorted.                             *)
SequenceIsSorted ==
    \A i, j \in 1 .. Len(sequence) : i <= j => sequence[i] <= sequence[j]

(* The lists agree position by position, unless clear_points was called.   *)
ListsAgree ==
    /\ Len(distance) = Len(sequence)
    /\ ~ cleared =>
          /\ Len(points) = Len(sequence)
          /\ \A i \in 1 .. Len(points) : /\ points[i].seq = sequence[i]
                                         /\ points[i].dist = distance[i]

(* max_distance is the largest distance of the shape.                      *)
MaxDistanceIsMax ==
    /\ \A i \in 1 .. Len(distance) : distance[i] <= maxDistance
    /\ maxDistance = 0 \/ \E i \in 1 .. Len(distance) : distance[i] = maxDistance

(* Although each point is only compared with its neighbours, and points    *)
(* without a distance may stand between, a reporter that raises keeps all  *)
(* distances of the shape in order and its sequence numbers distinct.      *)
StrictShapeIsOrdered ==
    strict =>
        \A i, j \in 1 .. Len(sequence) :
            i < j => /\ sequence[i] < sequence[j]
                     /\ distance[i] # NoDist /\ distance[j] # NoDist
                           => distance[i] <= distance[j]

(* get_point_with_distance_traveled indexes points with a position found   *)
(* in distance: in a shape where every point has a distance it finds a     *)
(* segment of positive length around d, even when the reporter let the     *)
(* distances get out of order, so that it neither fails on an index nor    *)
(* divides by zero.                                                        *)
LookupFindsSegment ==
    /\ ~ cleared /\ sequence # <<>>
    /\ \A i \in 1 .. Len(distance) : distance[i] # NoDist
    => \A d \in 0 .. MaxDist :
          /\ GetPointWithDistanceTraveled(d) # {}
          /\ \A s \in GetPointWithDistanceTraveled(d) :
                /\ 1 <= s[1] /\ s[2] <= Len(points)
                /\ s[1] # s[2] => /\ points[s[1]].dist <= d
                                  /\ d < points[s[2]].dist
=============================================================================
