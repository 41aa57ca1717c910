----------------------------- MODULE MergeProofs -----------------------------
(***************************************************************************)
(* Merge implements FeedUnion, for all feeds and all lists of mergers.     *)
(* The inductive invariant says which entities have no place yet (those    *)
(* of mergers that wait, and those left in the loops of the running one)   *)
(* and that a generated id ends in a number above all numbers of the       *)
(* feeds and at most the counter.                                          *)
(*                                                                         *)
(* JInv adds what the merged feed holds at each point of those loops: the  *)
(* tables are the images of the entities placed so far, rows refer to      *)
(* copies made by the mergers before theirs, and the counts add up.  Its   *)
(* corollaries are the invariants of Merge.                                *)
(***************************************************************************)
EXTENDS Merge, FiniteSetTheorems, TLAPS

Id == Nat \X Seq(Nat)

FeedOK == \A f \in Sides : \A t \in Types : DOMAIN feed[f][t] \subseteq Id

Above(n) == \A f \in Sides : \A t \in Types : \A i \in DOMAIN feed[f][t] : Postfix(i) < n

CounterOK == idnum \in Nat /\ Above(idnum + 1)

Generated(n) == Postfix(n) \in Nat /\ Postfix(n) <= idnum /\ Above(Postfix(n))

IsEntity(e) == \E f \in Sides : \E t \in Types : \E i \in DOMAIN feed[f][t] : e = <<f, t, i>>

MapOK == \A e \in DOMAIN merge_map :
            IsEntity(e) /\ (merge_map[e] = e[3] \/ Generated(merge_map[e]))

MergersOK ==
    /\ mergers \in Seq(STRING)
    /\ \A j, k \in DOMAIN mergers : mergers[j] = mergers[k] => j = k

\* The kinds of entities whose merger has not started.
WaitingOK == \A k \in DOMAIN mergers : (k > 1 \/ phase = "start") =>
                \A e \in DOMAIN merge_map : e[2] # mergers[k]

NoPlace(f, t, S) == \A i \in S : <<f, t, i>> \notin DOMAIN merge_map

PairsOK(t) ==
    /\ todo \subseteq DOMAIN feed["a"][t]
    /\ aRest \subseteq DOMAIN feed["a"][t]
    /\ bRest \subseteq DOMAIN feed["b"][t]
    /\ todo \cap (aRest \cup bRest) = {}
    /\ NoPlace("a", t, todo \cup aRest)
    /\ NoPlace("b", t, todo \cup bRest)
    /\ NoPlace("b", t, DOMAIN feed["b"][t] \ DOMAIN feed["a"][t])

OldOK(t) ==
    /\ todo \subseteq DOMAIN feed["a"][t]
    /\ bRest \subseteq DOMAIN feed["b"][t]
    /\ NoPlace("a", t, todo)
    /\ NoPlace("b", t, bRest)

NewOK(t) ==
    /\ todo \subseteq DOMAIN feed["b"][t]
    /\ NoPlace("b", t, todo)

StageOK ==
    /\ phase = "pairs" => PairsOK(Head(mergers))
    /\ phase = "a" => OldOK(Head(mergers))
    /\ phase = "b" => NewOK(Head(mergers))

IInv == FeedOK /\ CounterOK /\ MapOK /\ MergersOK /\ WaitingOK /\ StageOK

-----------------------------------------------------------------------------
(* Ids *)

LEMMA PostfixNat ==
    ASSUME NEW i \in Id PROVE Postfix(i) \in Nat
  BY DEF Id, Postfix

LEMMA GeneratedPostfix ==
    ASSUME NEW i \in Id, idnum \in Nat
    PROVE  /\ generate_id(i) \in Id
           /\ Postfix(generate_id(i)) = idnum + 1
  <1>1. i[1] \in Nat /\ i[2] \in Seq(Nat) /\ idnum + 1 \in Nat
    BY DEF Id
  <1>2. DEFINE s == Append(i[2], idnum + 1)
  <1>3. s \in Seq(Nat) /\ Len(s) = Len(i[2]) + 1 /\ s[Len(s)] = idnum + 1 /\ s # << >>
    BY <1>1
  <1>4. generate_id(i) = <<i[1], s>>
    BY DEF generate_id
  <1> HIDE DEF s
  <1>5. generate_id(i)[1] = i[1] /\ generate_id(i)[2] = s
    BY <1>4
  <1>6. Postfix(generate_id(i)) = idnum + 1
    BY <1>3, <1>5 DEF Postfix
  <1>7. generate_id(i) \in Id
    BY <1>1, <1>3, <1>4 DEF Id
  <1> QED BY <1>6, <1>7

-----------------------------------------------------------------------------
LEMMA InitInv == Init => IInv
  <1> SUFFICES ASSUME Init PROVE IInv
    OBVIOUS
  <1>1. PICK p \in Inputs : feed = [a |-> p.a, b |-> p.b]
    BY DEF Init, LoadedFeeds
  <1>2. FeedOK
    BY <1>1, InputsAssumption DEF FeedOK, Sides, Types, Id
  <1>3. \A n \in PostfixNumbers : n \in Nat
    <2>1. \A f \in Sides, t \in Types : \A i \in DOMAIN feed[f][t] : Postfix(i) \in Nat
      BY <1>2, PostfixNat DEF FeedOK
    <2> QED BY <2>1 DEF PostfixNumbers
  <1>4. idnum \in PostfixNumbers /\ \A m \in PostfixNumbers : m <= idnum
    BY DEF Init
  <1>5. \A f \in Sides : \A t \in Types : \A i \in DOMAIN feed[f][t] :
            Postfix(i) \in PostfixNumbers
    <2> SUFFICES ASSUME NEW f \in Sides, NEW t \in Types, NEW i \in DOMAIN feed[f][t]
                 PROVE  Postfix(i) \in PostfixNumbers
      OBVIOUS
    <2> DEFINE T == {Postfix(j) : j \in DOMAIN feed[f][t]}
               S == {{Postfix(j) : j \in DOMAIN feed[g][u]} : g \in Sides, u \in Types}
    <2>1. Postfix(i) \in T
      OBVIOUS
    <2>2. T \in S
      OBVIOUS
    <2>3. PostfixNumbers = {0} \cup UNION S
      BY DEF PostfixNumbers
    <2> HIDE DEF T, S
    <2> QED BY <2>1, <2>2, <2>3
  <1>6. CounterOK
    BY <1>3, <1>4, <1>5 DEF CounterOK, Above
  <1>7. DOMAIN merge_map = {}
    BY DEF Init, Empty
  <1>8. MapOK /\ WaitingOK
    BY <1>7 DEF MapOK, WaitingOK
  <1>9. MergersOK
    BY MergersAssumption DEF Init, MergersOK
  <1>10. StageOK
    BY DEF Init, StageOK
  <1> QED BY <1>2, <1>6, <1>8, <1>9, <1>10 DEF IInv

\* A step that leaves the feeds, the map and the counter alone.
LEMMA QuietStep ==
    ASSUME IInv, UNCHANGED <<feed, merge_map, idnum>>
    PROVE  FeedOK' /\ CounterOK' /\ MapOK'
  BY DEF IInv, FeedOK, CounterOK, MapOK, Above, Generated, IsEntity, Postfix

\* A step that leaves the running merger in its stage.
LEMMA SameMerger ==
    ASSUME IInv, UNCHANGED <<mergers, phase, merge_map>>
    PROVE  MergersOK' /\ WaitingOK'
  BY DEF IInv, MergersOK, WaitingOK

\* A step to the next merger.
LEMMA TailStep ==
    ASSUME IInv, mergers # << >>, NextMerger, UNCHANGED merge_map
    PROVE  MergersOK' /\ WaitingOK' /\ StageOK'
  <1>1. /\ mergers \in Seq(STRING)
        /\ \A j, k \in DOMAIN mergers : mergers[j] = mergers[k] => j = k
    BY DEF IInv, MergersOK
  <1>2. /\ mergers' \in Seq(STRING)
        /\ DOMAIN mergers' = 1 .. Len(mergers) - 1
        /\ DOMAIN mergers = 1 .. Len(mergers)
        /\ \A k \in DOMAIN mergers' : mergers'[k] = mergers[k + 1] /\ k + 1 \in DOMAIN mergers
    BY <1>1 DEF NextMerger
  <1>3. MergersOK'
    BY <1>1, <1>2 DEF MergersOK
  <1>4. WaitingOK'
    <2> SUFFICES ASSUME NEW k \in DOMAIN mergers', NEW e \in DOMAIN merge_map
                 PROVE  e[2] # mergers'[k]
      BY DEF WaitingOK
    <2>1. k + 1 \in DOMAIN mergers /\ k + 1 > 1 /\ mergers'[k] = mergers[k + 1]
      BY <1>2
    <2> QED BY <2>1 DEF IInv, WaitingOK
  <1>5. StageOK'
    BY DEF StageOK, NextMerger
  <1> QED BY <1>3, <1>4, <1>5

\* The map gains entities of the running merger's kind only, so the entities of
\* the waiting mergers have no place still.
LEMMA WaitingStays ==
    ASSUME IInv, NEW t \in Types, Running(t), phase # "start",
           UNCHANGED <<mergers, phase>>,
           \A e \in DOMAIN merge_map' : e \in DOMAIN merge_map \/ e[2] = t
    PROVE  MergersOK' /\ WaitingOK'
  <1>1. MergersOK'
    BY DEF IInv, MergersOK
  <1>2. 1 \in DOMAIN mergers /\ mergers[1] = t
    BY DEF IInv, MergersOK, Running
  <1>3. \A k \in DOMAIN mergers : k > 1 => mergers[k] # t
    BY <1>2 DEF IInv, MergersOK
  <1>4. WaitingOK'
    BY <1>3 DEF IInv, WaitingOK
  <1> QED BY <1>1, <1>4

-----------------------------------------------------------------------------
(* The two steps that place entities *)

LEMMA MergePairPlaces ==
    ASSUME IInv, NEW t \in Types, NEW i \in todo, MergePair(t, i)
    PROVE  /\ IInv'
           /\ i \in DOMAIN feed["a"][t] \cap DOMAIN feed["b"][t]
           /\ DOMAIN merge_map' = DOMAIN merge_map \cup {<<"a", t, i>>, <<"b", t, i>>}
           /\ {<<"a", t, i>>, <<"b", t, i>>} \cap DOMAIN merge_map = {}
           /\ merge_map'[<<"a", t, i>>] = i /\ merge_map'[<<"b", t, i>>] = i
           /\ \A e \in DOMAIN merge_map : merge_map'[e] = merge_map[e]
  <1>1. /\ Running(t) /\ phase = "pairs" /\ Head(mergers) = t
        /\ UNCHANGED <<feed, mergers, phase, idnum, aRest, bRest>>
        /\ todo' = todo \ {i} /\ i \in DOMAIN feed["b"][t]
        /\ merge_map' = Put(Put(merge_map, <<"a", t, i>>, i), <<"b", t, i>>, i)
    BY DEF MergePair, Running, inputs
  <1>2. PairsOK(t)
    BY <1>1 DEF IInv, StageOK
  <1>3. i \in DOMAIN feed["a"][t] /\ i \notin aRest /\ i \notin bRest
    BY <1>2 DEF PairsOK
  <1>4. <<"a", t, i>> \notin DOMAIN merge_map /\ <<"b", t, i>> \notin DOMAIN merge_map
    BY <1>2 DEF PairsOK, NoPlace
  <1> DEFINE m == Put(merge_map, <<"a", t, i>>, i)
  <1>5. /\ DOMAIN m = DOMAIN merge_map \cup {<<"a", t, i>>}
        /\ m[<<"a", t, i>>] = i
        /\ \A e \in DOMAIN merge_map : m[e] = merge_map[e]
    BY <1>4 DEF Put
  <1> HIDE DEF m
  <1>6. /\ DOMAIN merge_map' = DOMAIN m \cup {<<"b", t, i>>}
        /\ merge_map'[<<"b", t, i>>] = i
        /\ \A e \in DOMAIN m : e # <<"b", t, i>> => merge_map'[e] = m[e]
    BY <1>1 DEF m, Put
  <1>7. /\ DOMAIN merge_map' = DOMAIN merge_map \cup {<<"a", t, i>>, <<"b", t, i>>}
        /\ merge_map'[<<"a", t, i>>] = i /\ merge_map'[<<"b", t, i>>] = i
        /\ \A e \in DOMAIN merge_map : merge_map'[e] = merge_map[e]
    BY <1>4, <1>5, <1>6
  <1>8. FeedOK' /\ CounterOK'
    BY <1>1 DEF IInv, FeedOK, CounterOK, Above, Postfix
  <1>9. MapOK'
    <2> SUFFICES ASSUME NEW e \in DOMAIN merge_map'
                 PROVE  IsEntity(e)' /\ (merge_map'[e] = e[3] \/ Generated(merge_map[e])')
      BY DEF MapOK
    <2>1. CASE e \in DOMAIN merge_map
      BY <1>1, <1>7, <2>1, SMTT(30) DEF IInv, MapOK, IsEntity, Generated, Above, Postfix
    <2>2. CASE e = <<"a", t, i>> \/ e = <<"b", t, i>>
      BY <1>1, <1>3, <1>7, <2>2 DEF IsEntity, Sides
    <2> QED BY <1>7, <2>1, <2>2
  <1>10. MergersOK' /\ WaitingOK'
    BY <1>1, <1>7, WaitingStays
  <1>11. PairsOK(t)'
    BY <1>1, <1>2, <1>3, <1>7 DEF PairsOK, NoPlace
  <1>12. StageOK'
    BY <1>1, <1>11 DEF StageOK
  <1> QED BY <1>1, <1>3, <1>4, <1>7, <1>8, <1>9, <1>10, <1>12 DEF IInv

LEMMA MigrateOnePlaces ==
    ASSUME IInv, NEW f \in Sides, NEW t \in Types, NEW i \in todo, MigrateOne(f, t, i)
    PROVE  /\ IInv'
           /\ i \in DOMAIN feed[f][t]
           /\ <<f, t, i>> \notin DOMAIN merge_map
           /\ DOMAIN merge_map' = DOMAIN merge_map \cup {<<f, t, i>>}
           /\ \A e \in DOMAIN merge_map : merge_map'[e] = merge_map[e]
           /\ IF i \in DOMAIN feed[Other(f)][t]
              THEN Postfix(merge_map'[<<f, t, i>>]) = idnum + 1
              ELSE merge_map'[<<f, t, i>>] = i
  <1> DEFINE new_id == HasId(Other(f), t, i)
             n == IF new_id THEN generate_id(i) ELSE i
  <1>1. /\ Running(t) /\ phase = f /\ Head(mergers) = t
        /\ UNCHANGED <<feed, mergers, phase, aRest, bRest>>
        /\ todo' = todo \ {i}
        /\ idnum' = IF new_id THEN idnum + 1 ELSE idnum
        /\ merge_map' = Put(merge_map, <<f, t, i>>, n)
    BY DEF MigrateOne, Running, inputs
  <1>2. (f = "a" /\ OldOK(t)) \/ (f = "b" /\ NewOK(t))
    BY <1>1 DEF IInv, StageOK, Sides
  <1>3. i \in DOMAIN feed[f][t] /\ <<f, t, i>> \notin DOMAIN merge_map
    BY <1>2 DEF OldOK, NewOK, NoPlace
  <1>4. /\ DOMAIN merge_map' = DOMAIN merge_map \cup {<<f, t, i>>}
        /\ merge_map'[<<f, t, i>>] = n
        /\ \A e \in DOMAIN merge_map : merge_map'[e] = merge_map[e]
    BY <1>1, <1>3 DEF Put
  <1>5. i \in Id /\ idnum \in Nat
    BY <1>3 DEF IInv, FeedOK, CounterOK
  <1>6. Postfix(generate_id(i)) = idnum + 1
    BY <1>5, GeneratedPostfix
  <1>7. FeedOK'
    BY <1>1 DEF IInv, FeedOK
  <1>8. \A g \in Sides : \A u \in Types : \A j \in DOMAIN feed[g][u] : Postfix(j) \in Nat
    BY PostfixNat DEF IInv, FeedOK
  <1>9. Above(idnum + 1) /\ idnum' \in Nat /\ idnum <= idnum'
    BY <1>1, <1>5 DEF IInv, CounterOK
  <1>10. CounterOK'
    BY <1>1, <1>5, <1>8, <1>9 DEF CounterOK, Above, Postfix
  <1>11. MapOK'
    <2> SUFFICES ASSUME NEW e \in DOMAIN merge_map'
                 PROVE  IsEntity(e)' /\ (merge_map'[e] = e[3] \/ Generated(merge_map[e])')
      BY DEF MapOK
    <2>1. CASE e \in DOMAIN merge_map
      <3>1. IsEntity(e)'
        BY <1>1, <2>1 DEF IInv, MapOK, IsEntity
      <3>2. ASSUME Generated(merge_map[e]) PROVE Generated(merge_map[e])'
        <4>1. merge_map'[e] = merge_map[e] /\ feed' = feed
          BY <1>1, <1>4, <2>1
        <4>2. /\ Postfix(merge_map[e]) \in Nat /\ Postfix(merge_map[e]) <= idnum
              /\ Above(Postfix(merge_map[e]))
          BY <3>2 DEF Generated
        <4>3. Postfix(merge_map[e]) <= idnum'
          BY <1>5, <1>9, <4>2
        <4>4. (Above(Postfix(merge_map[e])))'
          BY <4>1, <4>2 DEF Above
        <4> QED BY <4>1, <4>2, <4>3, <4>4 DEF Generated
      <3>3. merge_map[e] = e[3] \/ Generated(merge_map[e])
        BY <2>1 DEF IInv, MapOK
      <3> QED BY <1>4, <2>1, <3>1, <3>2, <3>3
    <2>2. CASE e = <<f, t, i>>
      <3>1. IsEntity(e)'
        BY <1>1, <1>3, <2>2 DEF IsEntity
      <3>2. CASE new_id
        <4>1. merge_map'[e] = generate_id(i)
          BY <1>4, <2>2, <3>2
        <4>2. Postfix(merge_map'[e]) = idnum + 1 /\ idnum' = idnum + 1
          BY <1>1, <1>6, <3>2, <4>1
        <4>3. Generated(merge_map[e])'
          BY <1>1, <1>5, <1>9, <4>2 DEF Generated, Above, Postfix
        <4> QED BY <3>1, <4>3
      <3>3. CASE ~new_id
        BY <1>4, <2>2, <3>1, <3>3
      <3> QED BY <3>2, <3>3
    <2> QED BY <1>4, <2>1, <2>2
  <1>12. phase # "start"
    BY <1>1 DEF Sides
  <1>13. MergersOK' /\ WaitingOK'
    BY <1>1, <1>4, <1>12, WaitingStays
  <1>14. StageOK'
    <2>1. CASE f = "a"
      <3>1. OldOK(t)'
        BY <1>1, <1>2, <1>4, <2>1 DEF OldOK, NoPlace
      <3> QED BY <1>1, <2>1, <3>1 DEF StageOK
    <2>2. CASE f = "b"
      <3>1. NewOK(t)'
        BY <1>1, <1>2, <1>4, <2>2 DEF NewOK, NoPlace
      <3> QED BY <1>1, <2>2, <3>1 DEF StageOK
    <2> QED BY <2>1, <2>2 DEF Sides
  <1>15. IF i \in DOMAIN feed[Other(f)][t]
         THEN Postfix(merge_map'[<<f, t, i>>]) = idnum + 1
         ELSE merge_map'[<<f, t, i>>] = i
    BY <1>4, <1>6 DEF HasId
  <1> QED BY <1>3, <1>4, <1>7, <1>10, <1>11, <1>13, <1>14, <1>15 DEF IInv

-----------------------------------------------------------------------------
(* The steps that place nothing *)

LEMMA LoopSteps ==
    ASSUME IInv, NEW t \in Types, NEW i \in todo,
           NoPartner(t, i) \/ NotMerged(t, i)
    PROVE  IInv' /\ UNCHANGED <<feed, merge_map>>
  <1>1. /\ phase = "pairs" /\ Head(mergers) = t
        /\ UNCHANGED <<feed, mergers, phase, merge_map, idnum>>
        /\ todo' = todo \ {i}
        /\ aRest' = aRest \cup {i}
        /\ bRest' = bRest \/ (bRest' = bRest \cup {i} /\ i \in DOMAIN feed["b"][t])
    BY DEF NoPartner, NotMerged, Running, inputs
  <1>2. PairsOK(t)
    BY <1>1 DEF IInv, StageOK
  <1>3. PairsOK(t)'
    BY <1>1, <1>2 DEF PairsOK, NoPlace
  <1>4. StageOK'
    BY <1>1, <1>3 DEF StageOK
  <1> QED BY <1>1, <1>4, QuietStep, SameMerger DEF IInv

LEMMA BeginStep ==
    ASSUME IInv, NEW t \in Types, Begin(t)
    PROVE  IInv' /\ UNCHANGED <<feed, merge_map>>
  <1>1. /\ phase = "start" /\ phase' = "pairs" /\ Head(mergers) = t /\ mergers # << >>
        /\ UNCHANGED <<feed, mergers, merge_map, idnum>>
        /\ todo' = DOMAIN feed["a"][t] /\ aRest' = {} /\ bRest' = {}
    BY DEF Begin, Running, inputs
  <1>2. MergersOK' /\ WaitingOK'
    BY <1>1 DEF IInv, MergersOK, WaitingOK
  <1>3. 1 \in DOMAIN mergers /\ mergers[1] = t
    BY <1>1 DEF IInv, MergersOK
  <1>4. \A e \in DOMAIN merge_map : e[2] # t
    BY <1>1, <1>3 DEF IInv, WaitingOK
  <1>5. \A f, i : <<f, t, i>> \notin DOMAIN merge_map
    BY <1>4
  <1>6. PairsOK(t)'
    BY <1>1, <1>5 DEF PairsOK, NoPlace
  <1>7. StageOK'
    BY <1>1, <1>6 DEF StageOK
  <1> QED BY <1>1, <1>2, <1>7, QuietStep DEF IInv

LEMMA PassSteps ==
    ASSUME IInv, NEW t \in Types, ScanNew(t) \/ OldIsMigrated(t)
    PROVE  IInv' /\ UNCHANGED <<feed, merge_map>>
  <1>1. CASE ScanNew(t)
    <2>1. /\ phase = "pairs" /\ phase' = "a" /\ Head(mergers) = t
          /\ UNCHANGED <<feed, mergers, merge_map, idnum, aRest>>
          /\ todo' = aRest
          /\ bRest' = bRest \cup (DOMAIN feed["b"][t] \ DOMAIN feed["a"][t])
      BY <1>1 DEF ScanNew, Running, inputs
    <2>2. PairsOK(t)
      BY <2>1 DEF IInv, StageOK
    <2>3. OldOK(t)'
      BY <2>1, <2>2 DEF PairsOK, OldOK, NoPlace
    <2>4. StageOK' /\ MergersOK' /\ WaitingOK'
      BY <2>1, <2>3 DEF StageOK, IInv, MergersOK, WaitingOK
    <2> QED BY <2>1, <2>4, QuietStep DEF IInv
  <1>2. CASE OldIsMigrated(t)
    <2>1. /\ phase = "a" /\ phase' = "b" /\ Head(mergers) = t
          /\ UNCHANGED <<feed, mergers, merge_map, idnum>>
          /\ todo' = bRest
      BY <1>2 DEF OldIsMigrated, Running, inputs
    <2>2. OldOK(t)
      BY <2>1 DEF IInv, StageOK
    <2>3. NewOK(t)'
      BY <2>1, <2>2 DEF OldOK, NewOK, NoPlace
    <2>4. StageOK' /\ MergersOK' /\ WaitingOK'
      BY <2>1, <2>3 DEF StageOK, IInv, MergersOK, WaitingOK
    <2> QED BY <2>1, <2>4, QuietStep DEF IInv
  <1> QED BY <1>1, <1>2

LEMMA EndSteps ==
    ASSUME IInv,
           \/ \E t \in Types : EndSameId(t)
           \/ NextZonePass \/ MergeFareRules \/ MergeTransfers
    PROVE  IInv' /\ UNCHANGED <<feed, merge_map>>
  <1>1. /\ UNCHANGED <<feed, merge_map, idnum>> /\ mergers # << >>
        /\ \/ NextMerger
           \/ UNCHANGED mergers /\ phase # "start" /\ phase' \in {"zones", "zones_a", "zones_b"}
    BY DEF EndSameId, NextZonePass, MergeFareRules, MergeTransfers, Running, inputs
  <1>2. FeedOK' /\ CounterOK' /\ MapOK'
    BY <1>1, QuietStep
  <1>3. MergersOK' /\ WaitingOK' /\ StageOK'
    <2>1. CASE NextMerger
      BY <1>1, <2>1, TailStep
    <2>2. CASE UNCHANGED mergers /\ phase # "start"
                 /\ phase' \in {"zones", "zones_a", "zones_b"}
      BY <1>1, <2>2 DEF IInv, MergersOK, WaitingOK, StageOK
    <2> QED BY <1>1, <2>1, <2>2
  <1> QED BY <1>1, <1>2, <1>3 DEF IInv

LEMMA ZoneSteps ==
    ASSUME IInv, NEW i \in todo, KeepZone(i) \/ \E f \in Sides : MoveZone(f, i)
    PROVE  IInv' /\ UNCHANGED <<feed, merge_map>>
  <1>1. /\ phase \in {"zones", "zones_a", "zones_b"}
        /\ UNCHANGED <<feed, merge_map, mergers, phase>>
        /\ idnum' = idnum \/ idnum' = idnum + 1
    BY DEF KeepZone, MoveZone, ZonePass, Sides, inputs
  <1>2. idnum \in Nat /\ Above(idnum + 1)
    BY DEF IInv, CounterOK
  <1>3. \A g \in Sides : \A u \in Types : \A j \in DOMAIN feed[g][u] : Postfix(j) \in Nat
    BY PostfixNat DEF IInv, FeedOK
  <1>4. FeedOK' /\ CounterOK'
    BY <1>1, <1>2, <1>3 DEF IInv, FeedOK, CounterOK, Above
  <1>5. MapOK'
    <2> SUFFICES ASSUME NEW e \in DOMAIN merge_map
                 PROVE  IsEntity(e)' /\ (merge_map[e] = e[3] \/ Generated(merge_map[e])')
      BY <1>1 DEF MapOK
    <2>1. IsEntity(e)'
      BY <1>1 DEF IInv, MapOK, IsEntity
    <2>2. ASSUME Generated(merge_map[e]) PROVE Generated(merge_map[e])'
      <3>1. /\ Postfix(merge_map[e]) \in Nat /\ Postfix(merge_map[e]) <= idnum
            /\ Above(Postfix(merge_map[e]))
        BY <2>2 DEF Generated
      <3>2. Postfix(merge_map[e]) <= idnum'
        BY <1>1, <1>2, <3>1
      <3>3. (Above(Postfix(merge_map[e])))'
        BY <1>1, <3>1 DEF Above
      <3> QED BY <1>1, <3>1, <3>2, <3>3 DEF Generated
    <2> QED BY <2>1, <2>2 DEF IInv, MapOK
  <1>6. StageOK'
    BY <1>1 DEF StageOK
  <1> QED BY <1>1, <1>4, <1>5, <1>6, SameMerger DEF IInv

LEMMA OutcomeSteps ==
    ASSUME IInv,
           \/ CheckVersion \/ AbortMerge \/ DisjoinCalendars \/ WriteFeed \/ WriteReport
           \/ \E t \in Types : RegisterFails(t)
           \/ UNCHANGED vars
    PROVE  IInv' /\ UNCHANGED <<feed, merge_map>>
  <1>1. UNCHANGED <<feed, merge_map, idnum, mergers, phase, todo, aRest, bRest>>
    BY DEF CheckVersion, AbortMerge, DisjoinCalendars, WriteFeed, WriteReport, RegisterFails, vars,
           inputs, control
  <1>2. StageOK'
    BY <1>1 DEF IInv, StageOK, PairsOK, OldOK, NewOK, NoPlace
  <1> QED BY <1>1, <1>2, QuietStep, SameMerger DEF IInv

-----------------------------------------------------------------------------
(* Merge implements FeedUnion *)

\* A merged pair is a shared place of FeedUnion.
LEMMA MergePairShares ==
    ASSUME IInv, NEW t \in Types, NEW i \in todo, MergePair(t, i)
    PROVE  IInv' /\ Union!Share(t, i) /\ UNCHANGED feed
  <1> DEFINE A == <<"a", t, i>>
             B == <<"b", t, i>>
  <1>1. /\ IInv'
        /\ i \in DOMAIN feed["a"][t] \cap DOMAIN feed["b"][t]
        /\ DOMAIN merge_map' = DOMAIN merge_map \cup {A, B}
        /\ {A, B} \cap DOMAIN merge_map = {}
        /\ merge_map'[A] = i /\ merge_map'[B] = i
        /\ \A e \in DOMAIN merge_map : merge_map'[e] = merge_map[e]
    BY MergePairPlaces
  <1>2. feed' = feed
    BY DEF MergePair, inputs
  <1>3. i \notin Union!Taken(t)
    <2> SUFFICES ASSUME NEW e \in DOMAIN merge_map, e[2] = t, merge_map[e] = i
                 PROVE  FALSE
      BY DEF Union!Taken
    <2>1. PICK f \in Sides : e = <<f, t, e[3]>>
      BY DEF IInv, MapOK, IsEntity
    <2>2. CASE e[3] = i
      BY <1>1, <2>1, <2>2 DEF Sides
    <2>3. CASE Generated(i)
      <3>1. Postfix(i) \in Nat /\ Postfix(i) < Postfix(i)
        BY <1>1, <2>3 DEF Generated, Above, Sides
      <3> QED BY <3>1
    <2> QED BY <2>2, <2>3 DEF IInv, MapOK
  <1>4. Union!Share(t, i)
    BY <1>1, <1>3, Zenon DEF Union!Share, Union!Places, Sides, Types
  <1> QED BY <1>1, <1>2, <1>4

\* A migrated entity is a copy of FeedUnion: an id that generate_id gives is new.
LEMMA MigrateOneCopies ==
    ASSUME IInv, NEW f \in Sides, NEW t \in Types, NEW i \in todo, MigrateOne(f, t, i)
    PROVE  IInv' /\ Union!Copy(f, t, i) /\ UNCHANGED feed
  <1> DEFINE E == <<f, t, i>>
             n == merge_map'[E]
  <1>1. /\ IInv'
        /\ i \in DOMAIN feed[f][t]
        /\ E \notin DOMAIN merge_map
        /\ DOMAIN merge_map' = DOMAIN merge_map \cup {E}
        /\ \A e \in DOMAIN merge_map : merge_map'[e] = merge_map[e]
        /\ IF i \in DOMAIN feed[Other(f)][t] THEN Postfix(n) = idnum + 1 ELSE n = i
    BY MigrateOnePlaces
  <1>2. feed' = feed
    BY DEF MigrateOne, inputs
  <1>3. idnum \in Nat /\ Above(idnum + 1)
    BY DEF IInv, CounterOK
  <1>4. \A g \in Sides : \A u \in Types : \A j \in DOMAIN feed[g][u] :
            Postfix(j) \in Nat /\ Postfix(j) < idnum + 1
    BY <1>3, PostfixNat DEF IInv, FeedOK, Above
  <1>5. ASSUME i \in DOMAIN feed[Other(f)][t]
        PROVE  n \notin DOMAIN feed["a"][t] \cup DOMAIN feed["b"][t]
    <2>1. Postfix(n) = idnum + 1
      BY <1>1, <1>5
    <2> HIDE DEF n
    <2> QED BY <1>3, <1>4, <2>1 DEF Sides
  <1>6. n \notin Union!Taken(t)
    <2> SUFFICES ASSUME NEW e \in DOMAIN merge_map, e[2] = t, merge_map[e] = n
                 PROVE  FALSE
      BY DEF Union!Taken
    <2>1. PICK g \in Sides : e = <<g, t, e[3]>> /\ e[3] \in DOMAIN feed[g][t]
      BY DEF IInv, MapOK, IsEntity
    <2>2. n = e[3] \/ Generated(n)
      BY DEF IInv, MapOK
    <2>3. CASE i \in DOMAIN feed[Other(f)][t]
      <3>1. Postfix(n) = idnum + 1
        BY <1>1, <2>3
      <3> HIDE DEF n
      <3>2. CASE n = e[3]
        BY <1>3, <1>4, <2>1, <3>1, <3>2
      <3>3. CASE Generated(n)
        BY <1>3, <3>1, <3>3 DEF Generated
      <3> QED BY <2>2, <3>2, <3>3
    <2>4. CASE i \notin DOMAIN feed[Other(f)][t]
      <3>1. n = i
        BY <1>1, <2>4
      <3> HIDE DEF n
      <3>2. CASE n = e[3]
        <4>1. g = f
          BY <2>1, <2>4, <3>1, <3>2 DEF Sides, Other
        <4> QED BY <1>1, <2>1, <3>1, <3>2, <4>1
      <3>3. CASE Generated(n)
        <4>1. Postfix(i) \in Nat /\ Postfix(i) < Postfix(i)
          BY <1>1, <3>1, <3>3 DEF Generated, Above
        <4> QED BY <4>1
      <3> QED BY <2>2, <3>2, <3>3
    <2> QED BY <2>3, <2>4
  <1>7. Union!Copy(f, t, i)
    BY <1>1, <1>5, <1>6 DEF Union!Copy, Union!Places, Union!Other, Other, Sides, Types
  <1> QED BY <1>1, <1>2, <1>7

LEMMA NextSimulates ==
    ASSUME IInv, [Next]_vars
    PROVE  IInv' /\ feed' = feed /\ [Union!UnionNext]_(Union!unionVars)
  <1> DEFINE Goal == IInv' /\ feed' = feed /\ [Union!UnionNext]_(Union!unionVars)
  <1>1. ASSUME IInv' /\ UNCHANGED <<feed, merge_map>> PROVE Goal
    BY <1>1 DEF Union!unionVars
  <1>2. ASSUME NEW t \in Types, NEW i \in todo, MergePair(t, i) PROVE Goal
    <2>1. IInv' /\ Union!Share(t, i) /\ UNCHANGED feed
      BY <1>2, MergePairShares
    <2>2. Union!UnionNext
      BY <2>1 DEF Union!UnionNext, Union!Share, Sides, Types
    <2> QED BY <2>1, <2>2
  <1>3. ASSUME NEW f \in Sides, NEW t \in Types, NEW i \in todo, MigrateOne(f, t, i)
        PROVE  Goal
    <2>1. IInv' /\ Union!Copy(f, t, i) /\ UNCHANGED feed
      BY <1>3, MigrateOneCopies
    <2>2. i \in DOMAIN feed["a"][t] \cup DOMAIN feed["b"][t]
      BY <1>3, MigrateOnePlaces DEF Sides
    <2>3. Union!UnionNext
      BY <2>1, <2>2 DEF Union!UnionNext, Union!Sides, Sides, Types
    <2> QED BY <2>1, <2>3
  <1>4. ASSUME NEW t \in Types, NEW i \in todo, NoPartner(t, i) \/ NotMerged(t, i)
        PROVE  Goal
    BY <1>1, <1>4, LoopSteps
  <1>5. ASSUME NEW t \in Types, Begin(t) PROVE Goal
    BY <1>1, <1>5, BeginStep
  <1>6. ASSUME NEW t \in Types, ScanNew(t) \/ OldIsMigrated(t) PROVE Goal
    BY <1>1, <1>6, PassSteps
  <1>7. ASSUME \/ \E t \in Types : EndSameId(t)
               \/ NextZonePass \/ MergeFareRules \/ MergeTransfers
        PROVE  Goal
    BY <1>1, <1>7, EndSteps
  <1>8. ASSUME NEW i \in todo, KeepZone(i) \/ \E f \in Sides : MoveZone(f, i)
        PROVE  Goal
    BY <1>1, <1>8, ZoneSteps
  <1>9. ASSUME \/ CheckVersion \/ AbortMerge \/ DisjoinCalendars \/ WriteFeed \/ WriteReport
               \/ \E t \in Types : RegisterFails(t)
               \/ UNCHANGED vars
        PROVE  Goal
    BY <1>1, <1>9, OutcomeSteps
  <1> HIDE DEF Goal
  <1>10. Goal
    BY <1>2, <1>3, <1>4, <1>5, <1>6, <1>7, <1>8, <1>9 DEF Next
  <1> QED BY <1>10 DEF Goal

\* The merge of merge.py keeps the promise of FeedUnion for all feeds: entities
\* share a place only as a pair with one id from the two feeds, and the ids of
\* generate_id never meet an id of either feed or one given before.
THEOREM MergeImplementsUnion == Spec => ImplementsUnion
  <1>1. Init => IInv
    BY InitInv
  <1>2. Init => Union!UnionInit
    BY DEF Init, Union!UnionInit, Empty
  <1>3. IInv /\ [Next]_vars => IInv' /\ [Union!UnionNext]_(Union!unionVars)
    BY NextSimulates
  <1> QED BY <1>1, <1>2, <1>3, PTL DEF Spec, ImplementsUnion, Union!UnionSpec

-----------------------------------------------------------------------------
(* What the merged feed holds: the rest of the inductive invariant.        *)

Rest(f) == IF f = "a" THEN aRest ELSE bRest
HasPlace(f, t, S) == \A i \in S : <<f, t, i>> \in DOMAIN merge_map

\* Two entities share a place only as a pair that keeps its id, and an entity that
\* keeps an id both feeds use shares its place.
ImagesOK ==
    /\ \A d, e \in DOMAIN merge_map :
          (d[2] = e[2] /\ merge_map[d] = merge_map[e]) =>
              d = e \/ (d[3] = e[3] /\ merge_map[d] = d[3])
    /\ \A f \in Sides : \A t \in Types : \A i \in DOMAIN feed[Other(f)][t] :
          (<<f, t, i>> \in DOMAIN merge_map /\ merge_map[<<f, t, i>>] = i) =>
              /\ <<Other(f), t, i>> \in DOMAIN merge_map
              /\ merge_map[<<Other(f), t, i>>] = i

ZonePhases == {"zones", "zones_a", "zones_b"}

\* The mergers run in the order of RunsBefore.
OrderOK ==
    /\ \A p \in RunsBefore : \A j, k \in DOMAIN mergers :
          mergers[j] = p[1] /\ mergers[k] = p[2] => j < k
    /\ \A p \in RunsBefore : p[2] \in Types /\ Finished(p[2]) => Finished(p[1])
    /\ phase \in {"start", "pairs", "a", "b"} \cup ZonePhases
    /\ phase # "start" => mergers # << >> /\ Head(mergers) \in Types
    /\ phase \in ZonePhases => Head(mergers) = "stop"

\* How the running merger has divided the entities of kind t so far.
PairsSplit(t) ==
    /\ todo \cup both \cup aRest = DOMAIN feed["a"][t]
    /\ todo \cap both = {} /\ todo \cap aRest = {} /\ both \cap aRest = {}
    /\ both \cup bRest = (DOMAIN feed["a"][t] \cap DOMAIN feed["b"][t]) \ todo
    /\ both \cap bRest = {}

Split(t) ==
    \A f \in Sides : both \cup Rest(f) = DOMAIN feed[f][t] /\ both \cap Rest(f) = {}

\* The pairs share a place; of the others, one whose id both feeds use has lost it.
Divided(t) ==
    /\ \A f \in Sides : \A i \in both :
          <<f, t, i>> \in DOMAIN merge_map /\ merge_map[<<f, t, i>>] = i
    /\ \A f \in Sides : \A i \in Rest(f) \cap DOMAIN feed[Other(f)][t] :
          <<f, t, i>> \in DOMAIN merge_map => merge_map[<<f, t, i>>] # i

SplitOK ==
    LET t == Head(mergers) IN
    /\ phase # "start" => Divided(t)
    /\ phase = "pairs" => PairsSplit(t)
    /\ phase \in {"a", "b"} \cup ZonePhases => Split(t)
    /\ phase = "a" => todo \subseteq aRest /\ HasPlace("a", t, aRest \ todo)
    /\ phase = "b" => /\ todo \subseteq bRest
                      /\ HasPlace("a", t, aRest) /\ HasPlace("b", t, bRest \ todo)
    /\ phase \in ZonePhases => HasPlace("a", t, aRest) /\ HasPlace("b", t, bRest)
    /\ phase = "zones" => todo \subseteq both
    /\ phase = "zones_a" => todo \subseteq aRest
    /\ phase = "zones_b" => todo \subseteq bRest

\* A merger that has run left nothing out.
CompleteOK ==
    \A t \in Types : Finished(t) => \A f \in Sides : HasPlace(f, t, DOMAIN feed[f][t])

\* The merger of kind t has not started.
Waiting(t) == \E k \in DOMAIN mergers : mergers[k] = t /\ (k > 1 \/ phase = "start")

\* The stops of feed f that are not in the merged table yet.
Pending(f) ==
    IF Finished("stop") THEN {}
    ELSE IF phase = "zones" THEN todo \cup Rest(f)
    ELSE IF phase = "zones_a" THEN (IF f = "a" THEN todo ELSE bRest)
    ELSE IF phase = "zones_b" THEN (IF f = "a" THEN {} ELSE todo)
    ELSE DOMAIN feed[f].stop

StopsDone == {e \in DOMAIN merge_map : e[2] = "stop" /\ e[3] \notin Pending(e[1])}

TablesOK ==
    /\ DOMAIN merged = Types \cup {"rule", "transfer"}
    /\ \A t \in Types \ {"stop"} : DOMAIN merged[t] = Union!Taken(t)
    /\ DOMAIN merged.stop = {merge_map[e] : e \in StopsDone}
    /\ \A t \in Types : Waiting(t) => merged[t] = Empty

\* Zones keep their names as long as only merged stops were seen, and the stops of
\* a merged pair are in one zone; every stop in the table has the zone and the parent
\* that the maps give.
StopsOK ==
    /\ DOMAIN zone_map = Sides
    /\ (~Finished("stop") /\ phase \notin {"zones_a", "zones_b"}) =>
          \A f \in Sides : \A z \in DOMAIN zone_map[f] : zone_map[f][z] = z
    /\ (mergers # << >> /\ Head(mergers) = "stop" /\ phase # "start") =>
          \A i \in both : feed["a"].stop[i].zone = feed["b"].stop[i].zone
    /\ \A f \in Sides : \A i \in DOMAIN feed[f].stop \ Pending(f) :
          LET s == feed[f].stop[i] IN
          /\ s.zone \in DOMAIN zone_map[f]
          /\ merged.stop[Image(f, "stop", i)].zone = zone_map[f][s.zone]
          /\ Follows(f, "stop", i)

\* The rows of routes and trips, and what comes after them.
RowsOK ==
    /\ \A t \in {"route", "trip"} : \A f \in Sides : \A i \in DOMAIN feed[f][t] :
          <<f, t, i>> \in DOMAIN merge_map => Follows(f, t, i)
    /\ \A r \in merged.rule :
          /\ Finished("stop")
          /\ r.zone \in {merged.stop[n].zone : n \in DOMAIN merged.stop} \cup {NoId}
    /\ \A k \in DOMAIN merged.transfer :
          {k[1], k[2]} \subseteq DOMAIN merged.stop \cup {NoId}
    /\ ListedTripsBelong

Pairs(t) == DOMAIN feed["a"][t] \cap DOMAIN feed["b"][t]

\* The counters of the problems, and what the warnings say of the pairs so far.
CountsOK ==
    /\ warnings \in [Types \cup {"rule"} -> Nat]
    /\ \A t \in Types \ NeverMerge :
          /\ Waiting(t) => warnings[t] = 0
          /\ (mergers # << >> /\ Head(mergers) = t) =>
                /\ phase = "pairs" => warnings[t] = Cardinality(bRest)
                /\ phase \in {"a", "b"} => warnings[t] = Cardinality(Pairs(t) \ both)
    /\ \A t \in NeverMerge : Finished(t) => warnings[t] > 0

\* A merger with statistics has placed everything.
StatsOK ==
    /\ \A t \in Types \cap DOMAIN stats :
          /\ Finished(t) \/ (phase \in ZonePhases /\ Head(mergers) = t)
          /\ \A f \in Sides : HasPlace(f, t, DOMAIN feed[f][t])
    /\ StatsAddUp

ReportOK ==
    /\ DOMAIN errors = Types \cup {"rule"}
    /\ outcome # "aborted" => \A t \in DOMAIN errors : errors[t] = 0
    /\ outcome = "aborted" => errors["period"] > 0 /\ Waiting("period")
    /\ outcome = "written" => mergers = << >>
    /\ report # {} =>
          /\ outcome \in {"written", "aborted"}
          /\ "feed created" \in report <=> outcome = "written"
          /\ "errors" \in report <=> Shown(errors)
          /\ "warnings" \in report <=> Shown(warnings)
          /\ "successful" \in report <=> ~Shown(errors) /\ ~Shown(warnings)

LoadedOK ==
    \A f \in Sides : Resolves(feed[f]) /\ \A t \in Types : IsFiniteSet(DOMAIN feed[f][t])

JInv ==
    /\ IInv /\ LoadedOK /\ ImagesOK /\ OrderOK /\ SplitOK /\ CompleteOK
    /\ TablesOK /\ StopsOK /\ RowsOK /\ CountsOK /\ StatsOK /\ ReportOK

-----------------------------------------------------------------------------
(* Places *)

\* The feeds stay, and the map changes only as FeedUnion allows.
LEMMA MapSteps ==
    ASSUME IInv, [Next]_vars
    PROVE  /\ IInv' /\ feed' = feed
           /\ \/ UNCHANGED merge_map
              \/ \E t \in Types : \E i \in DOMAIN feed["a"][t] \cup DOMAIN feed["b"][t] :
                    Union!Share(t, i) \/ \E f \in Sides : Union!Copy(f, t, i)
           /\ DOMAIN merge_map \subseteq DOMAIN merge_map'
           /\ \A e \in DOMAIN merge_map : merge_map'[e] = merge_map[e]
  <1>1. IInv' /\ [Union!UnionNext]_(Union!unionVars)
    BY NextSimulates
  <1>2. feed' = feed
    BY NextSimulates
  <1>3. \/ UNCHANGED merge_map
        \/ \E t \in Types : \E i \in DOMAIN feed["a"][t] \cup DOMAIN feed["b"][t] :
              Union!Share(t, i) \/ \E f \in Sides : Union!Copy(f, t, i)
    BY <1>1 DEF Union!UnionNext, Union!unionVars, Union!Sides, Sides, Types
  <1>4. /\ DOMAIN merge_map \subseteq DOMAIN merge_map'
        /\ \A e \in DOMAIN merge_map : merge_map'[e] = merge_map[e]
    BY <1>3 DEF Union!Share, Union!Copy, Union!Places
  <1> QED BY <1>1, <1>2, <1>3, <1>4

LEMMA ImagesStep ==
    ASSUME IInv, ImagesOK, [Next]_vars
    PROVE  ImagesOK'
  <1>1. feed' = feed
    BY MapSteps
  <1>2. CASE UNCHANGED merge_map
    BY <1>1, <1>2 DEF ImagesOK
  <1>3. ASSUME NEW t \in Types, NEW i, Union!Share(t, i)
        PROVE  ImagesOK'
    <2> DEFINE A == <<"a", t, i>>
               B == <<"b", t, i>>
    <2>1. /\ i \notin Union!Taken(t)
          /\ DOMAIN merge_map' = DOMAIN merge_map \cup {A, B}
          /\ \A e \in DOMAIN merge_map : merge_map'[e] = merge_map[e]
          /\ merge_map'[A] = i /\ merge_map'[B] = i
      BY <1>3 DEF Union!Share, Union!Places
    <2>2. \A e \in DOMAIN merge_map : e[2] = t => merge_map[e] # i
      BY <2>1 DEF Union!Taken
    <2>3. /\ A[2] = t /\ A[3] = i /\ B[2] = t /\ B[3] = i
      OBVIOUS
    <2> HIDE DEF A, B
    <2>4. \A d, e \in DOMAIN merge_map' :
             (d[2] = e[2] /\ merge_map'[d] = merge_map'[e]) =>
                 d = e \/ (d[3] = e[3] /\ merge_map'[d] = d[3])
      <3> SUFFICES ASSUME NEW d \in DOMAIN merge_map', NEW e \in DOMAIN merge_map',
                          d[2] = e[2], merge_map'[d] = merge_map'[e]
                   PROVE  d = e \/ (d[3] = e[3] /\ merge_map'[d] = d[3])
        OBVIOUS
      <3>1. CASE d \in DOMAIN merge_map /\ e \in DOMAIN merge_map
        BY <2>1, <3>1 DEF ImagesOK
      <3>2. CASE d \in {A, B} /\ e \in {A, B}
        BY <2>1, <2>3, <3>2
      <3>3. CASE d \in {A, B} /\ e \in DOMAIN merge_map
        BY <2>1, <2>2, <2>3, <3>3
      <3>4. CASE d \in DOMAIN merge_map /\ e \in {A, B}
        BY <2>1, <2>2, <2>3, <3>4
      <3> QED BY <2>1, <3>1, <3>2, <3>3, <3>4
    <2>5. ASSUME NEW f \in Sides, NEW u \in Types, NEW j \in DOMAIN feed[Other(f)][u],
                 <<f, u, j>> \in DOMAIN merge_map', merge_map'[<<f, u, j>>] = j
          PROVE  /\ <<Other(f), u, j>> \in DOMAIN merge_map'
                 /\ merge_map'[<<Other(f), u, j>>] = j
      <3>1. CASE <<f, u, j>> \in DOMAIN merge_map
        BY <2>1, <2>5, <3>1 DEF ImagesOK
      <3>2. CASE <<f, u, j>> \in {A, B}
        <4>1. u = t /\ j = i
          BY <3>2 DEF A, B
        <4>2. <<Other(f), u, j>> \in {A, B}
          BY <4>1 DEF A, B, Other, Sides
        <4> QED BY <2>1, <4>1, <4>2
      <3> QED BY <2>1, <2>5, <3>1, <3>2
    <2> QED BY <1>1, <2>4, <2>5 DEF ImagesOK
  <1>4. ASSUME NEW t \in Types, NEW i, NEW f \in Sides, Union!Copy(f, t, i)
        PROVE  ImagesOK'
    <2> DEFINE E == <<f, t, i>>
    <2>1. /\ merge_map'[E] \notin Union!Taken(t)
          /\ DOMAIN merge_map' = DOMAIN merge_map \cup {E}
          /\ \A e \in DOMAIN merge_map : merge_map'[e] = merge_map[e]
      BY <1>4 DEF Union!Copy, Union!Places
    <2>2. \A e \in DOMAIN merge_map : e[2] = t => merge_map[e] # merge_map'[E]
      BY <2>1 DEF Union!Taken
    <2>3. i \in DOMAIN feed[Other(f)][t] =>
             merge_map'[E] \notin DOMAIN feed["a"][t] \cup DOMAIN feed["b"][t]
      BY <1>4 DEF Union!Copy, Union!Other, Other, Sides, Types
    <2>4. E[2] = t /\ E[3] = i
      OBVIOUS
    <2> HIDE DEF E
    <2>5. \A d, e \in DOMAIN merge_map' :
             (d[2] = e[2] /\ merge_map'[d] = merge_map'[e]) =>
                 d = e \/ (d[3] = e[3] /\ merge_map'[d] = d[3])
      BY <2>1, <2>2, <2>4 DEF ImagesOK
    <2>6. ASSUME NEW g \in Sides, NEW u \in Types, NEW j \in DOMAIN feed[Other(g)][u],
                 <<g, u, j>> \in DOMAIN merge_map', merge_map'[<<g, u, j>>] = j
          PROVE  /\ <<Other(g), u, j>> \in DOMAIN merge_map'
                 /\ merge_map'[<<Other(g), u, j>>] = j
      <3>1. CASE <<g, u, j>> \in DOMAIN merge_map
        BY <2>1, <2>6, <3>1 DEF ImagesOK
      <3>2. CASE <<g, u, j>> = E
        <4>1. g = f /\ u = t /\ j = i
          BY <3>2 DEF E
        <4>2. merge_map'[E] = i /\ i \in DOMAIN feed["a"][t] \cup DOMAIN feed["b"][t]
          BY <2>6, <3>2, <4>1 DEF Other
        <4> QED BY <2>3, <2>6, <4>1, <4>2
      <3> QED BY <2>1, <2>6, <3>1, <3>2
    <2> QED BY <1>1, <2>5, <2>6 DEF ImagesOK
  <1> QED BY <1>2, <1>3, <1>4, MapSteps

-----------------------------------------------------------------------------
(* The list of mergers *)

\* Every step, sorted by what it changes.
LEMMA StepKinds ==
    ASSUME [Next]_vars
    PROVE  \/ \E t \in Types : Begin(t)
           \/ \E t \in Types : \E i \in todo : NoPartner(t, i) \/ NotMerged(t, i)
           \/ \E t \in Types : \E i \in todo : MergePair(t, i)
           \/ \E t \in Types : ScanNew(t)
           \/ \E f \in Sides : \E t \in Types : \E i \in todo : MigrateOne(f, t, i)
           \/ \E t \in Types : OldIsMigrated(t)
           \/ \E t \in Types : EndSameId(t)
           \/ \E i \in todo : KeepZone(i)
           \/ \E f \in Sides : \E i \in todo : MoveZone(f, i)
           \/ NextZonePass
           \/ MergeFareRules
           \/ MergeTransfers
           \/ UNCHANGED <<feed, control, merge_map, zone_map, merged, listed, stats, warnings>>
  <1>1. ASSUME \/ CheckVersion \/ AbortMerge \/ DisjoinCalendars \/ WriteFeed \/ WriteReport
               \/ \E t \in Types : RegisterFails(t)
               \/ UNCHANGED vars
        PROVE  UNCHANGED <<feed, control, merge_map, zone_map, merged, listed, stats, warnings>>
    BY <1>1 DEF CheckVersion, AbortMerge, DisjoinCalendars, WriteFeed, WriteReport, RegisterFails, vars,
                inputs, control, results
  <1> QED BY <1>1 DEF Next

LEMMA HeadFacts ==
    ASSUME IInv, mergers # << >>
    PROVE  /\ 1 \in DOMAIN mergers /\ mergers[1] = Head(mergers)
           /\ ~Finished(Head(mergers))
           /\ phase # "start" => ~Waiting(Head(mergers))
           /\ \A t : Finished(t) \/ Waiting(t) \/ t = Head(mergers)
           /\ phase = "start" => Waiting(Head(mergers))
  <1>1. /\ mergers \in Seq(STRING)
        /\ \A j, k \in DOMAIN mergers : mergers[j] = mergers[k] => j = k
    BY DEF IInv, MergersOK
  <1>2. 1 \in DOMAIN mergers /\ mergers[1] = Head(mergers)
    BY <1>1
  <1>3. \A k \in DOMAIN mergers : k = 1 \/ k > 1
    BY <1>1
  <1> QED BY <1>1, <1>2, <1>3 DEF Finished, Waiting

LEMMA SameList ==
    ASSUME UNCHANGED mergers
    PROVE  /\ \A t : Finished(t)' <=> Finished(t)
           /\ (phase' # "start" \/ UNCHANGED phase) => \A t : Waiting(t)' => Waiting(t)
  BY DEF Finished, Waiting

LEMMA ShorterList ==
    ASSUME IInv, mergers # << >>, NextMerger
    PROVE  \A t : /\ Finished(t)' <=> Finished(t) \/ t = Head(mergers)
                  /\ Waiting(t)' <=> ~Finished(t)'
                  /\ Waiting(t)' => Waiting(t)
  <1>1. /\ mergers \in Seq(STRING)
        /\ \A j, k \in DOMAIN mergers : mergers[j] = mergers[k] => j = k
    BY DEF IInv, MergersOK
  <1>2. /\ DOMAIN mergers' = 1 .. Len(mergers) - 1
        /\ DOMAIN mergers = 1 .. Len(mergers)
        /\ Len(mergers) \in Nat \ {0}
        /\ \A k \in DOMAIN mergers' : mergers'[k] = mergers[k + 1] /\ k + 1 \in DOMAIN mergers
        /\ mergers[1] = Head(mergers)
        /\ phase' = "start"
    BY <1>1 DEF NextMerger
  <1>3. \A k \in DOMAIN mergers : k = 1 \/ (k - 1 \in DOMAIN mergers' /\ mergers[k] = mergers'[k - 1])
    BY <1>2
  <1> TAKE t
  <1>4. Finished(t)' <=> Finished(t) \/ t = Head(mergers)
    <2>1. ASSUME Finished(t)' PROVE Finished(t) \/ t = Head(mergers)
      BY <1>2, <1>3, <2>1 DEF Finished
    <2>2. ASSUME Finished(t) PROVE Finished(t)'
      BY <1>2, <2>2 DEF Finished
    <2>3. ASSUME t = Head(mergers) PROVE Finished(t)'
      <3> SUFFICES ASSUME NEW k \in DOMAIN mergers', mergers'[k] = t PROVE FALSE
        BY DEF Finished
      <3>1. mergers[k + 1] = mergers[1] /\ k + 1 \in DOMAIN mergers /\ 1 \in DOMAIN mergers
        BY <1>2, <2>3
      <3>2. k + 1 = 1 /\ k \in 1 .. Len(mergers) - 1
        BY <1>1, <1>2, <3>1
      <3> QED BY <1>2, <3>2
    <2> QED BY <2>1, <2>2, <2>3
  <1>5. Waiting(t)' <=> ~Finished(t)'
    BY <1>2 DEF Finished, Waiting
  <1>6. Waiting(t)' => Waiting(t)
    BY <1>2 DEF Waiting
  <1> QED BY <1>4, <1>5, <1>6

\* The moves of the control: within a merger, or to the next merger.
LEMMA ControlSteps ==
    ASSUME IInv, OrderOK, [Next]_vars
    PROVE  \/ UNCHANGED <<mergers, phase>>
           \/ /\ UNCHANGED mergers /\ mergers # << >> /\ Head(mergers) \in Types
              /\ phase' \in {"pairs", "a", "b"} \cup ZonePhases
              /\ phase' \in ZonePhases => Head(mergers) = "stop"
           \/ /\ mergers # << >> /\ NextMerger
              /\ \/ phase = "b" /\ Head(mergers) \in Types \ {"stop"}
                 \/ phase = "zones_b"
                 \/ phase = "start" /\ Head(mergers) \in {"rule", "transfer"}
  <1>1. ASSUME NEW t \in Types, Begin(t) \/ ScanNew(t) \/ OldIsMigrated(t)
        PROVE  /\ UNCHANGED mergers /\ mergers # << >> /\ Head(mergers) \in Types
               /\ phase' \in {"pairs", "a", "b"}
    BY <1>1 DEF Begin, ScanNew, OldIsMigrated, Running
  <1>2. ASSUME NEW t \in Types, NEW i \in todo,
               NoPartner(t, i) \/ NotMerged(t, i) \/ MergePair(t, i)
                 \/ \E f \in Sides : MigrateOne(f, t, i)
        PROVE  UNCHANGED <<mergers, phase>>
    BY <1>2 DEF NoPartner, NotMerged, MergePair, MigrateOne
  <1>3. ASSUME NEW i \in todo, KeepZone(i) \/ \E f \in Sides : MoveZone(f, i)
        PROVE  UNCHANGED <<mergers, phase>>
    BY <1>3 DEF KeepZone, MoveZone
  <1>4. ASSUME NEW t \in Types, EndSameId(t)
        PROVE  \/ /\ UNCHANGED mergers /\ mergers # << >> /\ Head(mergers) = "stop"
                  /\ phase' = "zones"
               \/ /\ mergers # << >> /\ NextMerger
                  /\ phase = "b" /\ Head(mergers) \in Types \ {"stop"}
    BY <1>4 DEF EndSameId, Running
  <1>5. ASSUME NextZonePass
        PROVE  \/ /\ UNCHANGED mergers /\ mergers # << >> /\ Head(mergers) = "stop"
                  /\ phase' \in {"zones_a", "zones_b"}
               \/ mergers # << >> /\ NextMerger /\ phase = "zones_b"
    BY <1>5 DEF NextZonePass, Running
  <1>6. ASSUME MergeFareRules \/ MergeTransfers
        PROVE  /\ mergers # << >> /\ NextMerger
               /\ phase = "start" /\ Head(mergers) \in {"rule", "transfer"}
    BY <1>6 DEF MergeFareRules, MergeTransfers, Running
  <1>7. "stop" \in Types
    BY DEF Types
  <1>8. ASSUME UNCHANGED control PROVE UNCHANGED <<mergers, phase>>
    BY <1>8 DEF control
  <1> QED BY <1>1, <1>2, <1>3, <1>4, <1>5, <1>6, <1>7, <1>8, StepKinds, Zenon DEF ZonePhases

LEMMA OrderStep ==
    ASSUME IInv, OrderOK, [Next]_vars
    PROVE  OrderOK'
  <1>1. CASE UNCHANGED <<mergers, phase>>
    BY <1>1 DEF OrderOK, Finished
  <1>2. CASE /\ UNCHANGED mergers /\ mergers # << >> /\ Head(mergers) \in Types
             /\ phase' \in {"pairs", "a", "b"} \cup ZonePhases
             /\ phase' \in ZonePhases => Head(mergers) = "stop"
    BY <1>2 DEF OrderOK, Finished
  <1>3. CASE mergers # << >> /\ NextMerger
    <2>1. phase' = "start"
      BY <1>3 DEF NextMerger
    <2>2. mergers \in Seq(STRING)
      BY DEF IInv, MergersOK
    <2>3. /\ DOMAIN mergers' = 1 .. Len(mergers) - 1
          /\ DOMAIN mergers = 1 .. Len(mergers)
          /\ \A k \in DOMAIN mergers' : mergers'[k] = mergers[k + 1] /\ k + 1 \in DOMAIN mergers
      BY <1>3, <2>2 DEF NextMerger
    <2>4. ASSUME NEW p \in RunsBefore, NEW j \in DOMAIN mergers', NEW k \in DOMAIN mergers',
                 mergers'[j] = p[1], mergers'[k] = p[2]
          PROVE  j < k
      <3>1. j + 1 < k + 1
        BY <2>3, <2>4 DEF OrderOK
      <3> QED BY <2>3, <3>1
    <2>5. ASSUME NEW p \in RunsBefore, p[2] \in Types, Finished(p[2])'
          PROVE  Finished(p[1])'
      <3>1. Finished(p[2]) \/ p[2] = Head(mergers)
        BY <1>3, <2>5, ShorterList
      <3>2. CASE Finished(p[2])
        BY <1>3, <2>5, <3>2, ShorterList DEF OrderOK
      <3>3. CASE p[2] = Head(mergers)
        <4>1. 1 \in DOMAIN mergers /\ mergers[1] = p[2]
          BY <1>3, <3>3, HeadFacts
        <4>2. \A j \in DOMAIN mergers : mergers[j] = p[1] => j < 1
          BY <4>1 DEF OrderOK
        <4>3. Finished(p[1])
          BY <2>3, <4>2 DEF Finished
        <4> QED BY <1>3, <4>3, ShorterList
      <3> QED BY <3>1, <3>2, <3>3
    <2> QED BY <2>1, <2>4, <2>5 DEF OrderOK, ZonePhases
  <1> QED BY <1>1, <1>2, <1>3, ControlSteps

\* What a merger reads of the mergers before it is complete.
LEMMA EarlierFinished ==
    ASSUME IInv, OrderOK, mergers # << >>
    PROVE  \A p \in RunsBefore : p[2] = Head(mergers) => Finished(p[1])
  <1> SUFFICES ASSUME NEW p \in RunsBefore, p[2] = Head(mergers) PROVE Finished(p[1])
    OBVIOUS
  <1>1. 1 \in DOMAIN mergers /\ mergers[1] = p[2]
    BY HeadFacts
  <1>2. \A j \in DOMAIN mergers : mergers[j] = p[1] => j < 1
    BY <1>1 DEF OrderOK
  <1>3. \A j \in DOMAIN mergers : j >= 1
    BY DEF IInv, MergersOK
  <1>4. \A j \in DOMAIN mergers : j \in Nat
    BY DEF IInv, MergersOK
  <1> QED BY <1>2, <1>3, <1>4 DEF Finished

-----------------------------------------------------------------------------
(* How a merger divides its entities *)

LEMMA PlacedPairs ==
    ASSUME IInv, SplitOK, NEW t \in Types, NEW i \in todo, MergePair(t, i)
    PROVE  SplitOK'
  <1>1. /\ phase = "pairs" /\ Head(mergers) = t /\ UNCHANGED <<feed, mergers, phase, aRest, bRest>>
        /\ todo' = todo \ {i} /\ both' = both \cup {i} /\ i \in DOMAIN feed["b"][t]
    BY DEF MergePair, Running, inputs
  <1>2. Divided(t) /\ PairsSplit(t) /\ PairsOK(t)
    BY <1>1 DEF SplitOK, IInv, StageOK
  <1>3. /\ i \in DOMAIN feed["a"][t] \cap DOMAIN feed["b"][t]
        /\ DOMAIN merge_map' = DOMAIN merge_map \cup {<<"a", t, i>>, <<"b", t, i>>}
        /\ merge_map'[<<"a", t, i>>] = i /\ merge_map'[<<"b", t, i>>] = i
        /\ \A e \in DOMAIN merge_map : merge_map'[e] = merge_map[e]
    BY MergePairPlaces
  <1>4. i \notin aRest /\ i \notin bRest
    BY <1>2 DEF PairsOK
  <1>5. PairsSplit(t)'
    BY <1>1, <1>2, <1>3 DEF PairsSplit
  <1>6. ASSUME NEW f \in Sides, NEW j \in both \cup {i}
        PROVE  <<f, t, j>> \in DOMAIN merge_map' /\ merge_map'[<<f, t, j>>] = j
    BY <1>2, <1>3 DEF Divided, Sides
  <1>7. ASSUME NEW f \in Sides, NEW j \in Rest(f) \cap DOMAIN feed[Other(f)][t],
               <<f, t, j>> \in DOMAIN merge_map'
        PROVE  merge_map'[<<f, t, j>>] # j
    <2>1. j # i
      BY <1>4 DEF Rest
    <2>2. <<f, t, j>> \in DOMAIN merge_map
      BY <1>3, <1>7, <2>1
    <2> QED BY <1>2, <1>3, <2>2 DEF Divided
  <1>8. Divided(t)'
    BY <1>1, <1>6, <1>7 DEF Divided, Rest
  <1> QED BY <1>1, <1>5, <1>8 DEF SplitOK, ZonePhases

LEMMA PlacedCopies ==
    ASSUME IInv, SplitOK, NEW f \in Sides, NEW t \in Types, NEW i \in todo, MigrateOne(f, t, i)
    PROVE  SplitOK'
  <1>1. /\ phase = f /\ Head(mergers) = t
        /\ UNCHANGED <<feed, mergers, phase, both, aRest, bRest>>
        /\ todo' = todo \ {i}
    BY DEF MigrateOne, Running, inputs
  <1>2. Divided(t) /\ Split(t)
    BY <1>1 DEF SplitOK, Sides
  <1>3. /\ i \in DOMAIN feed[f][t]
        /\ DOMAIN merge_map' = DOMAIN merge_map \cup {<<f, t, i>>}
        /\ \A e \in DOMAIN merge_map : merge_map'[e] = merge_map[e]
    BY MigrateOnePlaces
  <1>4. i \in DOMAIN feed[Other(f)][t] => merge_map'[<<f, t, i>>] # i
    <2>1. Union!Copy(f, t, i)
      BY MigrateOneCopies
    <2> QED BY <2>1 DEF Union!Copy, Union!Other, Other, Sides, Types
  <1>5. ASSUME NEW g \in Sides, NEW j \in Rest(g) \cap DOMAIN feed[Other(g)][t],
               <<g, t, j>> \in DOMAIN merge_map'
        PROVE  merge_map'[<<g, t, j>>] # j
    <2>1. CASE <<g, t, j>> = <<f, t, i>>
      BY <1>4, <2>1
    <2>2. CASE <<g, t, j>> \in DOMAIN merge_map
      BY <1>2, <1>3, <2>2 DEF Divided
    <2> QED BY <1>3, <1>5, <2>1, <2>2
  <1>6. Divided(t)'
    BY <1>1, <1>2, <1>3, <1>5 DEF Divided, Rest
  <1>7. Split(t)'
    BY <1>1, <1>2 DEF Split, Rest
  <1>8. CASE f = "a"
    BY <1>1, <1>3, <1>6, <1>7, <1>8 DEF SplitOK, HasPlace, ZonePhases
  <1>9. CASE f = "b"
    BY <1>1, <1>3, <1>6, <1>7, <1>9 DEF SplitOK, HasPlace, ZonePhases
  <1> QED BY <1>8, <1>9 DEF Sides

\* A step that leaves the division and the map alone.
LEMMA SameDivision ==
    ASSUME NEW t, UNCHANGED <<feed, merge_map, both, aRest, bRest>>
    PROVE  /\ Divided(t)' <=> Divided(t)
           /\ Split(t)' <=> Split(t)
           /\ \A f, S : HasPlace(f, t, S)' <=> HasPlace(f, t, S)
  BY DEF Divided, Split, Rest, HasPlace

LEMMA SplitStep ==
    ASSUME IInv, OrderOK, SplitOK, [Next]_vars
    PROVE  SplitOK'
  <1>1. ASSUME phase' = "start" PROVE SplitOK'
    BY <1>1 DEF SplitOK, ZonePhases
  <1>2. ASSUME NEW t \in Types, Begin(t) PROVE SplitOK'
    <2>1. /\ Head(mergers) = t /\ UNCHANGED <<feed, mergers, merge_map>> /\ phase' = "pairs"
          /\ todo' = DOMAIN feed["a"][t] /\ both' = {} /\ aRest' = {} /\ bRest' = {}
      BY <1>2 DEF Begin, Running, inputs
    <2>2. Divided(t)' /\ PairsSplit(t)'
      BY <2>1 DEF Divided, PairsSplit, Rest
    <2> QED BY <2>1, <2>2 DEF SplitOK, ZonePhases
  <1>3. ASSUME NEW t \in Types, NEW i \in todo, NoPartner(t, i) \/ NotMerged(t, i) PROVE SplitOK'
    <2>1. /\ phase = "pairs" /\ Head(mergers) = t
          /\ UNCHANGED <<feed, mergers, phase, merge_map, both>>
          /\ todo' = todo \ {i} /\ aRest' = aRest \cup {i}
          /\ \/ i \notin DOMAIN feed["b"][t] /\ bRest' = bRest
             \/ i \in DOMAIN feed["b"][t] /\ bRest' = bRest \cup {i}
      BY <1>3 DEF NoPartner, NotMerged, Running, inputs
    <2>2. Divided(t) /\ PairsSplit(t) /\ PairsOK(t)
      BY <2>1 DEF SplitOK, IInv, StageOK
    <2>3. <<"a", t, i>> \notin DOMAIN merge_map /\ <<"b", t, i>> \notin DOMAIN merge_map
      BY <2>2 DEF PairsOK, NoPlace
    <2>4. PairsSplit(t)'
      BY <2>1, <2>2 DEF PairsSplit, PairsOK
    <2>5. \A f \in Sides : Rest(f)' \subseteq Rest(f) \cup {i}
      BY <2>1 DEF Rest
    <2>6. Divided(t)'
      <3>1. \A f \in Sides : <<f, t, i>> \notin DOMAIN merge_map
        BY <2>3 DEF Sides
      <3>2. \A f \in Sides : \A j \in Rest(f)' \cap DOMAIN feed[Other(f)][t] :
               <<f, t, j>> \in DOMAIN merge_map => merge_map[<<f, t, j>>] # j
        BY <2>2, <2>5, <3>1 DEF Divided
      <3> QED BY <2>1, <2>2, <3>2 DEF Divided
    <2> QED BY <2>1, <2>4, <2>6 DEF SplitOK, ZonePhases
  <1>4. ASSUME NEW t \in Types, ScanNew(t) PROVE SplitOK'
    <2>1. /\ phase = "pairs" /\ Head(mergers) = t /\ todo = {} /\ phase' = "a"
          /\ UNCHANGED <<feed, mergers, merge_map, both, aRest>>
          /\ todo' = aRest
          /\ bRest' = bRest \cup (DOMAIN feed["b"][t] \ DOMAIN feed["a"][t])
      BY <1>4 DEF ScanNew, Running, inputs
    <2>2. Divided(t) /\ PairsSplit(t)
      BY <2>1 DEF SplitOK
    <2>3. Split(t)'
      <3>1. both \cup aRest = DOMAIN feed["a"][t] /\ both \cap aRest = {}
        BY <2>1, <2>2 DEF PairsSplit
      <3>2. both \cup bRest' = DOMAIN feed["b"][t] /\ both \cap bRest' = {}
        BY <2>1, <2>2 DEF PairsSplit
      <3> QED BY <2>1, <3>1, <3>2 DEF Split, Rest, Sides
    <2>4. Divided(t)'
      <3>1. \A f \in Sides : \A j \in Rest(f)' : j \in DOMAIN feed[Other(f)][t] => j \in Rest(f)
        BY <2>1 DEF Rest, Other, Sides
      <3> QED BY <2>1, <2>2, <3>1 DEF Divided
    <2> QED BY <2>1, <2>3, <2>4 DEF SplitOK, HasPlace, ZonePhases
  <1>5. ASSUME NEW t \in Types, OldIsMigrated(t) PROVE SplitOK'
    <2>1. /\ phase = "a" /\ Head(mergers) = t /\ todo = {} /\ phase' = "b"
          /\ UNCHANGED <<feed, mergers, merge_map, both, aRest, bRest>> /\ todo' = bRest
      BY <1>5 DEF OldIsMigrated, Running, inputs
    <2>2. Divided(t)' /\ Split(t)' /\ HasPlace("a", t, aRest)
      BY <2>1, SameDivision DEF SplitOK, HasPlace
    <2> QED BY <2>1, <2>2 DEF SplitOK, HasPlace, ZonePhases
  <1>6. ASSUME NEW t \in Types, EndSameId(t), phase' # "start" PROVE SplitOK'
    <2>1. /\ phase = "b" /\ Head(mergers) = t /\ todo = {} /\ phase' = "zones"
          /\ UNCHANGED <<feed, mergers, merge_map, both, aRest, bRest>> /\ todo' = both
      BY <1>6 DEF EndSameId, NextMerger, Running, inputs
    <2>2. Divided(t)' /\ Split(t)' /\ HasPlace("a", t, aRest) /\ HasPlace("b", t, bRest)
      BY <2>1, SameDivision DEF SplitOK, HasPlace
    <2> QED BY <2>1, <2>2 DEF SplitOK, HasPlace, ZonePhases
  <1>7. ASSUME NEW i \in todo, KeepZone(i) \/ \E f \in Sides : MoveZone(f, i) PROVE SplitOK'
    <2>1. /\ phase \in ZonePhases /\ todo' = todo \ {i}
          /\ UNCHANGED <<feed, mergers, phase, merge_map, both, aRest, bRest>>
      BY <1>7 DEF KeepZone, MoveZone, ZonePass, ZonePhases, Sides, inputs
    <2>2. Divided(Head(mergers)) /\ Split(Head(mergers))
      BY <2>1 DEF SplitOK, ZonePhases
    <2>3. ASSUME NEW t, t = Head(mergers) PROVE SplitOK'
      <3>1. Divided(t)' /\ Split(t)'
        BY <2>1, <2>2, <2>3, SameDivision
      <3> QED BY <2>1, <2>3, <3>1 DEF SplitOK, HasPlace, ZonePhases
    <2> QED BY <2>3
  <1>8. ASSUME NextZonePass, phase' # "start" PROVE SplitOK'
    <2>1. /\ phase \in {"zones", "zones_a"} /\ Head(mergers) = "stop"
          /\ \/ phase' = "zones_a" /\ todo' = aRest
             \/ phase' = "zones_b" /\ todo' = bRest
          /\ UNCHANGED <<feed, mergers, merge_map, both, aRest, bRest>>
      BY <1>8 DEF NextZonePass, NextMerger, Running, inputs
    <2>2. Divided("stop")' /\ Split("stop")'
      BY <2>1, SameDivision DEF SplitOK, ZonePhases
    <2> QED BY <2>1, <2>2 DEF SplitOK, HasPlace, ZonePhases
  <1>9. ASSUME MergeFareRules \/ MergeTransfers PROVE phase' = "start"
    BY <1>9 DEF MergeFareRules, MergeTransfers, NextMerger
  <1>10. ASSUME UNCHANGED <<feed, control, merge_map>> PROVE SplitOK'
    <2>1. UNCHANGED <<feed, mergers, phase, todo, both, aRest, bRest, merge_map>>
      BY <1>10 DEF control
    <2> QED BY <2>1 DEF SplitOK, Divided, Split, PairsSplit, Rest, HasPlace
  <1> QED BY <1>1, <1>2, <1>3, <1>4, <1>5, <1>6, <1>7, <1>8, <1>9, <1>10, StepKinds,
             PlacedPairs, PlacedCopies

\* A merger that ends has placed every entity.
LEMMA EverythingPlaced ==
    ASSUME SplitOK, NEW t, t = Head(mergers),
           (phase = "b" /\ todo = {}) \/ phase \in ZonePhases
    PROVE  \A f \in Sides : HasPlace(f, t, DOMAIN feed[f][t])
  <1>1. HasPlace("a", t, aRest) /\ HasPlace("b", t, bRest)
    BY DEF SplitOK, HasPlace
  <1>2. Divided(t) /\ Split(t)
    BY DEF SplitOK, ZonePhases
  <1>3. \A f \in Sides : HasPlace(f, t, Rest(f))
    BY <1>1 DEF Rest, Sides, HasPlace
  <1> QED BY <1>2, <1>3 DEF HasPlace, Divided, Split

LEMMA CompleteStep ==
    ASSUME IInv, OrderOK, SplitOK, CompleteOK, [Next]_vars
    PROVE  CompleteOK'
  <1>1. /\ feed' = feed
        /\ DOMAIN merge_map \subseteq DOMAIN merge_map'
    BY MapSteps
  <1>2. ASSUME NEW t \in Types, Finished(t) \/ \A f \in Sides : HasPlace(f, t, DOMAIN feed[f][t])
        PROVE  \A f \in Sides : HasPlace(f, t, DOMAIN feed[f][t])'
    BY <1>1, <1>2 DEF CompleteOK, HasPlace
  <1>3. ASSUME NEW t \in Types, Finished(t)'
        PROVE  Finished(t) \/ \A f \in Sides : HasPlace(f, t, DOMAIN feed[f][t])
    <2>1. CASE UNCHANGED mergers
      BY <1>3, <2>1, SameList
    <2>2. CASE mergers # << >> /\ NextMerger /\ t = Head(mergers)
      <3>1. (phase = "b" /\ todo = {}) \/ phase \in ZonePhases
        <4>1. ASSUME NEW u \in Types, EndSameId(u) PROVE phase = "b" /\ todo = {}
          BY <4>1 DEF EndSameId
        <4>2. ASSUME NextZonePass PROVE phase \in ZonePhases
          BY <4>2 DEF NextZonePass, ZonePhases
        <4>3. ASSUME MergeFareRules \/ MergeTransfers PROVE FALSE
          BY <2>2, <4>3 DEF MergeFareRules, MergeTransfers, Running, Types
        <4>4. mergers' # mergers
          BY <2>2, HeadFacts, ShorterList, SameList
        <4>5. ASSUME \/ \E u \in Types : Begin(u) \/ ScanNew(u) \/ OldIsMigrated(u)
                     \/ \E u \in Types : \E i \in todo :
                           NoPartner(u, i) \/ NotMerged(u, i) \/ MergePair(u, i)
                     \/ \E f \in Sides : \E u \in Types : \E i \in todo : MigrateOne(f, u, i)
                     \/ \E i \in todo : KeepZone(i)
                     \/ \E f \in Sides : \E i \in todo : MoveZone(f, i)
              PROVE  mergers' = mergers
          BY <4>5, ZenonT(60) DEF Begin, ScanNew, OldIsMigrated, NoPartner, NotMerged, MergePair, MigrateOne,
                      KeepZone, MoveZone
        <4>6. ASSUME UNCHANGED control PROVE mergers' = mergers
          BY <4>6 DEF control
        <4> QED BY <4>1, <4>2, <4>3, <4>4, <4>5, <4>6, StepKinds, Zenon
      <3> QED BY <2>2, <3>1, EverythingPlaced
    <2>3. CASE mergers # << >> /\ NextMerger /\ t # Head(mergers)
      BY <1>3, <2>3, ShorterList
    <2> QED BY <2>1, <2>2, <2>3, ControlSteps
  <1> QED BY <1>2, <1>3 DEF CompleteOK

-----------------------------------------------------------------------------
(* The merged tables *)

LEMMA AddedObject ==
    ASSUME NEW t \in DOMAIN merged, NEW n, NEW e, AddObject(t, n, e)
    PROVE  /\ DOMAIN merged' = DOMAIN merged
           /\ \A u \in DOMAIN merged : u # t => merged'[u] = merged[u]
           /\ DOMAIN merged'[t] = DOMAIN merged[t] \cup {n}
           /\ \A m \in DOMAIN merged[t] : merged'[t][m] = merged[t][m]
           /\ n \notin DOMAIN merged[t] => merged'[t][n] = e
  <1>1. /\ DOMAIN merged' = DOMAIN merged
        /\ \A u \in DOMAIN merged : u # t => merged'[u] = merged[u]
        /\ merged'[t] = IF n \in DOMAIN merged[t] THEN merged[t] ELSE Put(merged[t], n, e)
    BY DEF AddObject
  <1>2. CASE n \in DOMAIN merged[t]
    BY <1>1, <1>2
  <1>3. CASE n \notin DOMAIN merged[t]
    BY <1>1, <1>3 DEF Put
  <1> QED BY <1>1, <1>2, <1>3

\* A table keeps its rows, and gains some only from its own merger; the stops are
\* added in the passes over the zones.
LEMMA TableGrows ==
    ASSUME IInv, DOMAIN merged = Types \cup {"rule", "transfer"}, [Next]_vars
    PROVE  /\ DOMAIN merged' = DOMAIN merged
           /\ \A u \in Types :
                 /\ \A m \in DOMAIN merged[u] :
                       m \in DOMAIN merged'[u] /\ merged'[u][m] = merged[u][m]
                 /\ merged'[u] # merged[u] =>
                       /\ mergers # << >> /\ Head(mergers) = u /\ phase # "start"
                       /\ u = "stop" => phase \in ZonePhases
                 /\ merged'[u] # merged[u] => UNCHANGED <<mergers, phase>>
  <1> DEFINE Goal ==
        /\ DOMAIN merged' = DOMAIN merged
        /\ \A u \in Types :
              /\ \A m \in DOMAIN merged[u] :
                    m \in DOMAIN merged'[u] /\ merged'[u][m] = merged[u][m]
              /\ merged'[u] # merged[u] =>
                    /\ mergers # << >> /\ Head(mergers) = u /\ phase # "start"
                    /\ u = "stop" => phase \in ZonePhases
              /\ merged'[u] # merged[u] => UNCHANGED <<mergers, phase>>
  <1>1. ASSUME UNCHANGED merged PROVE Goal
    BY <1>1
  <1>2. ASSUME NEW t \in Types, NEW n, NEW e, AddObject(t, n, e),
               mergers # << >>, Head(mergers) = t, phase # "start",
               t = "stop" => phase \in ZonePhases, UNCHANGED <<mergers, phase>>
        PROVE  Goal
    <2>1. t \in DOMAIN merged
      BY <1>2
    <2>2. /\ DOMAIN merged' = DOMAIN merged
          /\ \A u \in DOMAIN merged : u # t => merged'[u] = merged[u]
          /\ DOMAIN merged'[t] = DOMAIN merged[t] \cup {n}
          /\ \A m \in DOMAIN merged[t] : merged'[t][m] = merged[t][m]
      BY <1>2, <2>1, AddedObject
    <2> QED BY <1>2, <2>2
  <1>3. ASSUME NEW t \in Types, NEW i \in todo, MergePair(t, i) PROVE Goal
    <2>1. CASE t = "stop"
      BY <1>1, <1>3, <2>1 DEF MergePair
    <2>2. CASE t # "stop"
      BY <1>2, <1>3, <2>2 DEF MergePair, Running
    <2> QED BY <2>1, <2>2
  <1>4. ASSUME NEW f \in Sides, NEW t \in Types, NEW i \in todo, MigrateOne(f, t, i) PROVE Goal
    <2>1. CASE t = "stop"
      BY <1>1, <1>4, <2>1 DEF MigrateOne
    <2>2. CASE t # "stop"
      BY <1>2, <1>4, <2>2 DEF MigrateOne, Running, Sides
    <2> QED BY <2>1, <2>2
  <1>5. "stop" \in Types
    BY DEF Types
  <1>6. ASSUME NEW i \in todo, KeepZone(i) PROVE Goal
    BY <1>2, <1>5, <1>6 DEF KeepZone, Running, ZonePhases
  <1>7. ASSUME NEW f \in Sides, NEW i \in todo, MoveZone(f, i) PROVE Goal
    <2>1. phase \in ZonePhases /\ phase # "start"
      BY <1>7 DEF MoveZone, ZonePhases, ZonePass, Sides
    <2> QED BY <1>2, <1>5, <1>7, <2>1 DEF MoveZone, Running
  <1>8. ASSUME MergeFareRules PROVE Goal
    BY <1>8 DEF MergeFareRules, Types
  <1>9. ASSUME MergeTransfers PROVE Goal
    BY <1>9 DEF MergeTransfers, Types
  <1>10. ASSUME \/ \E t \in Types : Begin(t) \/ ScanNew(t) \/ OldIsMigrated(t) \/ EndSameId(t)
                \/ \E t \in Types : \E i \in todo : NoPartner(t, i) \/ NotMerged(t, i)
                \/ NextZonePass
         PROVE  UNCHANGED merged
    BY <1>10 DEF Begin, ScanNew, OldIsMigrated, EndSameId, NoPartner, NotMerged, NextZonePass
  <1> HIDE DEF Goal
  <1>11. Goal
    BY <1>1, <1>3, <1>4, <1>6, <1>7, <1>8, <1>9, <1>10, StepKinds, Zenon
  <1> QED BY <1>11 DEF Goal

\* The stops that are not pending are placed, and so are all others with them.
LEMMA StopsPlaced ==
    ASSUME IInv, OrderOK, SplitOK, CompleteOK, NEW f \in Sides,
           DOMAIN feed[f].stop \ Pending(f) # {}
    PROVE  /\ Finished("stop") \/ phase \in ZonePhases
           /\ \A g \in Sides : HasPlace(g, "stop", DOMAIN feed[g].stop)
  <1>1. Finished("stop") \/ phase \in ZonePhases
    BY DEF Pending, ZonePhases
  <1>2. CASE Finished("stop")
    BY <1>1, <1>2 DEF CompleteOK, Types
  <1>3. CASE phase \in ZonePhases
    <2>1. Head(mergers) = "stop"
      BY <1>3 DEF OrderOK
    <2> QED BY <1>1, <1>3, <2>1, EverythingPlaced
  <1> QED BY <1>1, <1>2, <1>3

\* Before the zones, all stops are pending.
LEMMA AllPending ==
    ASSUME ~Finished("stop"), phase \notin ZonePhases, NEW f
    PROVE  Pending(f) = DOMAIN feed[f].stop
  BY DEF Pending, ZonePhases

LEMMA PendingKept ==
    ASSUME IInv, OrderOK, SplitOK, [Next]_vars, NEW g \in Sides,
           \A i \in todo : ~KeepZone(i),
           \A i \in todo : \A f \in Sides : ~MoveZone(f, i)
    PROVE  Pending(g)' = Pending(g)
  <1>1. feed' = feed
    BY MapSteps
  <1>2. ASSUME Finished("stop")' <=> Finished("stop"),
               phase \notin ZonePhases \/ Finished("stop"),
               phase' \notin ZonePhases \/ Finished("stop")
        PROVE  Pending(g)' = Pending(g)
    BY <1>1, <1>2 DEF Pending, ZonePhases
  <1>3. ASSUME UNCHANGED mergers, phase \notin ZonePhases, phase' \notin ZonePhases
        PROVE  Pending(g)' = Pending(g)
    BY <1>2, <1>3, SameList
  <1>4. ASSUME mergers # << >>, NextMerger, Head(mergers) # "stop", phase \notin ZonePhases
        PROVE  Pending(g)' = Pending(g)
    <2>1. Finished("stop")' <=> Finished("stop")
      BY <1>4, ShorterList
    <2>2. phase' \notin ZonePhases
      BY <1>4 DEF NextMerger, ZonePhases
    <2> QED BY <1>2, <1>4, <2>1, <2>2
  <1>5. ASSUME \/ \E t \in Types : Begin(t) \/ ScanNew(t) \/ OldIsMigrated(t)
               \/ \E t \in Types : \E i \in todo :
                     NoPartner(t, i) \/ NotMerged(t, i) \/ MergePair(t, i)
               \/ \E f \in Sides : \E t \in Types : \E i \in todo : MigrateOne(f, t, i)
        PROVE  UNCHANGED mergers /\ phase \notin ZonePhases /\ phase' \notin ZonePhases
    BY <1>5, ZenonT(60) DEF Begin, ScanNew, OldIsMigrated, NoPartner, NotMerged, MergePair, MigrateOne,
                ZonePhases, Sides
  <1>6. ASSUME NEW t \in Types, EndSameId(t) PROVE Pending(g)' = Pending(g)
    <2>1. CASE t # "stop"
      BY <1>4, <1>6, <2>1 DEF EndSameId, Running, ZonePhases
    <2>2. CASE t = "stop"
      <3>1. /\ mergers # << >> /\ Head(mergers) = "stop" /\ phase = "b"
            /\ phase' = "zones" /\ todo' = both
            /\ UNCHANGED <<mergers, aRest, bRest>>
        BY <1>6, <2>2 DEF EndSameId, Running
      <3>2. ~Finished("stop") /\ ~Finished("stop")'
        BY <3>1, HeadFacts, SameList
      <3>3. Pending(g) = DOMAIN feed[g].stop
        BY <3>1, <3>2, AllPending DEF ZonePhases
      <3>4. Pending(g)' = both \cup Rest(g)
        BY <3>1, <3>2 DEF Pending, Rest
      <3>5. Split("stop")
        BY <3>1 DEF SplitOK
      <3> QED BY <3>3, <3>4, <3>5 DEF Split
    <2> QED BY <2>1, <2>2
  <1>7. ASSUME NextZonePass PROVE Pending(g)' = Pending(g)
    <2>1. /\ mergers # << >> /\ Head(mergers) = "stop" /\ todo = {}
          /\ UNCHANGED <<both, aRest, bRest>>
          /\ \/ phase = "zones" /\ phase' = "zones_a" /\ todo' = aRest /\ UNCHANGED mergers
             \/ phase = "zones_a" /\ phase' = "zones_b" /\ todo' = bRest /\ UNCHANGED mergers
             \/ phase = "zones_b" /\ NextMerger /\ UNCHANGED todo
      BY <1>7 DEF NextZonePass, Running
    <2>2. ~Finished("stop")
      BY <2>1, HeadFacts
    <2>3. CASE UNCHANGED mergers
      <3>1. ~Finished("stop")'
        BY <2>2, <2>3, SameList
      <3>2. CASE phase = "zones" /\ phase' = "zones_a" /\ todo' = aRest
        BY <2>1, <2>2, <3>1, <3>2 DEF Pending, Rest, Sides
      <3>3. CASE phase = "zones_a" /\ phase' = "zones_b" /\ todo' = bRest
        BY <2>1, <2>2, <3>1, <3>3 DEF Pending, Rest, Sides
      <3>4. CASE NextMerger
        BY <2>1, <2>2, <3>1, <3>4, ShorterList
      <3> QED BY <2>1, <3>2, <3>3, <3>4
    <2>4. CASE phase = "zones_b" /\ NextMerger
      <3>1. Finished("stop")'
        BY <2>1, <2>4, ShorterList
      <3> QED BY <2>1, <2>2, <2>4, <3>1 DEF Pending
    <2> QED BY <2>1, <2>3, <2>4
  <1>8. ASSUME MergeFareRules \/ MergeTransfers PROVE Pending(g)' = Pending(g)
    BY <1>4, <1>8 DEF MergeFareRules, MergeTransfers, Running, ZonePhases
  <1>9. ASSUME UNCHANGED control PROVE Pending(g)' = Pending(g)
    <2>1. UNCHANGED <<mergers, phase, todo, aRest, bRest>>
      BY <1>9 DEF control
    <2> QED BY <1>1, <2>1 DEF Pending, Finished, Rest
  <1> QED BY <1>3, <1>5, <1>6, <1>7, <1>8, <1>9, StepKinds, Zenon

\* The ids that the placed entities have, after a step.
LEMMA TakenStep ==
    ASSUME NEW t \in Types, NEW S, NEW n,
           \A e \in S : e[2] = t, S # {},
           DOMAIN merge_map' = DOMAIN merge_map \cup S,
           \A e \in DOMAIN merge_map : merge_map'[e] = merge_map[e],
           \A e \in S : merge_map'[e] = n
    PROVE  /\ Union!Taken(t)' = Union!Taken(t) \cup {n}
           /\ \A u \in Types : u # t => Union!Taken(u)' = Union!Taken(u)
  <1>1. \A m : m \in Union!Taken(t)' <=> m \in Union!Taken(t) \/ m = n
    BY DEF Union!Taken
  <1>2. \A u \in Types : u # t => \A m : m \in Union!Taken(u)' <=> m \in Union!Taken(u)
    BY DEF Union!Taken
  <1> QED BY <1>1, <1>2

LEMMA SameTaken ==
    ASSUME UNCHANGED merge_map, NEW t
    PROVE  Union!Taken(t)' = Union!Taken(t)
  BY DEF Union!Taken

\* The tables other than the one of the stops.
LEMMA TakenTables ==
    ASSUME IInv, TablesOK, [Next]_vars
    PROVE  \A t \in Types \ {"stop"} : DOMAIN merged'[t] = Union!Taken(t)'
  <1>1. DOMAIN merged = Types \cup {"rule", "transfer"}
    BY DEF TablesOK
  <1>2. \A t \in Types \ {"stop"} : DOMAIN merged[t] = Union!Taken(t)
    BY DEF TablesOK
  <1> DEFINE Goal == \A t \in Types \ {"stop"} : DOMAIN merged'[t] = Union!Taken(t)'
  <1>3. ASSUME NEW t \in Types, NEW S, NEW n,
               \A e \in S : e[2] = t, S # {},
               DOMAIN merge_map' = DOMAIN merge_map \cup S,
               \A e \in DOMAIN merge_map : merge_map'[e] = merge_map[e],
               \A e \in S : merge_map'[e] = n,
               IF t = "stop" THEN UNCHANGED merged ELSE \E e : AddObject(t, n, e)
        PROVE  Goal
    <2>1. /\ Union!Taken(t)' = Union!Taken(t) \cup {n}
          /\ \A u \in Types : u # t => Union!Taken(u)' = Union!Taken(u)
      BY <1>3, TakenStep
    <2>2. CASE t = "stop"
      BY <1>2, <1>3, <2>1, <2>2
    <2>3. CASE t # "stop"
      <3>1. /\ \A u \in DOMAIN merged : u # t => merged'[u] = merged[u]
            /\ DOMAIN merged'[t] = DOMAIN merged[t] \cup {n}
        BY <1>1, <1>3, <2>3, AddedObject
      <3> QED BY <1>1, <1>2, <2>1, <2>3, <3>1
    <2> QED BY <2>2, <2>3
  <1>4. ASSUME NEW t \in Types, NEW i \in todo, MergePair(t, i) PROVE Goal
    <2> DEFINE S == {<<"a", t, i>>, <<"b", t, i>>}
    <2>1. /\ DOMAIN merge_map' = DOMAIN merge_map \cup S
          /\ \A e \in DOMAIN merge_map : merge_map'[e] = merge_map[e]
          /\ merge_map'[<<"a", t, i>>] = i /\ merge_map'[<<"b", t, i>>] = i
      BY <1>4, MergePairPlaces
    <2>2. (\A e \in S : e[2] = t) /\ S # {} /\ \A e \in S : merge_map'[e] = i
      BY <2>1
    <2>3. IF t = "stop" THEN UNCHANGED merged ELSE \E e : AddObject(t, i, e)
      BY <1>4 DEF MergePair
    <2> HIDE DEF S, Goal
    <2> QED BY <1>3, <2>1, <2>2, <2>3
  <1>5. ASSUME NEW f \in Sides, NEW t \in Types, NEW i \in todo, MigrateOne(f, t, i) PROVE Goal
    <2> DEFINE S == {<<f, t, i>>}
               n == merge_map'[<<f, t, i>>]
    <2>1. /\ DOMAIN merge_map' = DOMAIN merge_map \cup S
          /\ \A e \in DOMAIN merge_map : merge_map'[e] = merge_map[e]
      BY <1>5, MigrateOnePlaces
    <2>2. (\A e \in S : e[2] = t) /\ S # {} /\ \A e \in S : merge_map'[e] = n
      OBVIOUS
    <2>3. n = IF HasId(Other(f), t, i) THEN generate_id(i) ELSE i
      BY <1>5 DEF MigrateOne, Put
    <2>4. IF t = "stop" THEN UNCHANGED merged ELSE AddObject(t, n, Migrated(f, t, i))
      BY <1>5, <2>3 DEF MigrateOne
    <2> HIDE DEF S, n, Goal
    <2> QED BY <1>3, <2>1, <2>2, <2>4
  <1>6. ASSUME UNCHANGED merge_map, \A u \in Types \ {"stop"} : merged'[u] = merged[u] PROVE Goal
    BY <1>2, <1>6, SameTaken
  <1>7. ASSUME \/ \E t \in Types : Begin(t) \/ ScanNew(t) \/ OldIsMigrated(t) \/ EndSameId(t)
               \/ \E t \in Types : \E i \in todo : NoPartner(t, i) \/ NotMerged(t, i)
               \/ NextZonePass
        PROVE  UNCHANGED <<merge_map, merged>>
    BY <1>7 DEF Begin, ScanNew, OldIsMigrated, EndSameId, NoPartner, NotMerged, NextZonePass
  <1>8. ASSUME NEW i \in todo, KeepZone(i) \/ \E f \in Sides : MoveZone(f, i) PROVE Goal
    <2>1. UNCHANGED merge_map
      BY <1>8 DEF KeepZone, MoveZone
    <2>2. \E n, e : AddObject("stop", n, e)
      BY <1>8 DEF KeepZone, MoveZone
    <2>3. \A u \in Types \ {"stop"} : merged'[u] = merged[u]
      BY <1>1, <2>2, AddedObject DEF Types
    <2> QED BY <1>6, <2>1, <2>3
  <1>9. ASSUME MergeFareRules \/ MergeTransfers PROVE Goal
    <2>1. UNCHANGED merge_map
      BY <1>9 DEF MergeFareRules, MergeTransfers
    <2>2. \A u \in Types \ {"stop"} : merged'[u] = merged[u]
      BY <1>1, <1>9 DEF MergeFareRules, MergeTransfers, Types
    <2> QED BY <1>6, <2>1, <2>2
  <1> HIDE DEF Goal
  <1>10. Goal
    BY <1>4, <1>5, <1>6, <1>7, <1>8, <1>9, StepKinds
  <1> QED BY <1>10 DEF Goal

-----------------------------------------------------------------------------
(* The table of the stops and their zones *)

\* The entities that the table holds after a step that takes the stops of R.
LEMMA StopsDoneGrow ==
    ASSUME IInv, UNCHANGED <<feed, merge_map>>, NEW R \in SUBSET DOMAIN merge_map,
           \A e \in R : e[2] = "stop",
           \A g \in Sides : Pending(g)' = {j \in Pending(g) : <<g, "stop", j>> \notin R}
    PROVE  {merge_map[e] : e \in StopsDone}' =
              {merge_map[e] : e \in StopsDone} \cup {merge_map[e] : e \in R}
  <1>1. \A e \in DOMAIN merge_map : e[2] = "stop" => e[1] \in Sides /\ e = <<e[1], "stop", e[3]>>
    BY DEF IInv, MapOK, IsEntity
  <1>2. ASSUME NEW e \in DOMAIN merge_map, e[2] = "stop"
        PROVE  e[3] \notin Pending(e[1])' <=> (e[3] \notin Pending(e[1]) \/ e \in R)
    <2>1. e[1] \in Sides /\ e = <<e[1], "stop", e[3]>>
      BY <1>1, <1>2
    <2>2. \A g \in Sides : g = e[1] =>
             (e[3] \notin Pending(g)' <=> (e[3] \notin Pending(g) \/ <<g, "stop", e[3]>> \in R))
      OBVIOUS
    <2>3. PICK g \in Sides : g = e[1]
      BY <2>1
    <2>4. Pending(e[1])' = Pending(g)' /\ Pending(e[1]) = Pending(g)
      BY <2>3
    <2> QED BY <2>1, <2>2, <2>3, <2>4
  <1>3. StopsDone' = StopsDone \cup R
    BY <1>2 DEF StopsDone
  <1> QED BY <1>3

LEMMA KeepZoneFacts ==
    ASSUME IInv, OrderOK, SplitOK, ImagesOK, TablesOK, NEW i \in todo, KeepZone(i)
    PROVE  /\ i \in both
           /\ \A g \in Sides :
                 /\ Pending(g)' = {j \in Pending(g) : j # i}
                 /\ i \in DOMAIN feed[g].stop
                 /\ <<g, "stop", i>> \in DOMAIN merge_map /\ merge_map[<<g, "stop", i>>] = i
           /\ i \notin DOMAIN merged["stop"]
           /\ DOMAIN merged'["stop"] = DOMAIN merged["stop"] \cup {i}
           /\ merged'["stop"][i] =
                 [feed["b"].stop[i] EXCEPT !.parent = ImageOrNone("b", "stop", @)]
           /\ (DOMAIN merged.stop = {merge_map[e] : e \in StopsDone})'
  <1>1. /\ phase = "zones" /\ mergers # << >> /\ Head(mergers) = "stop" /\ todo' = todo \ {i}
        /\ UNCHANGED <<feed, merge_map, mergers, phase, both, aRest, bRest>>
        /\ AddObject("stop", i, [feed["b"].stop[i] EXCEPT !.parent = ImageOrNone("b", "stop", @)])
    BY DEF KeepZone, Running, inputs
  <1>2. Divided("stop") /\ Split("stop") /\ todo \subseteq both
    BY <1>1 DEF SplitOK, ZonePhases
  <1>3. i \in both /\ \A g \in Sides : i \notin Rest(g)
    BY <1>2 DEF Split
  <1>4. ~Finished("stop") /\ ~Finished("stop")'
    BY <1>1, HeadFacts, SameList
  <1>5. \A g \in Sides : Pending(g) = todo \cup Rest(g)
    BY <1>1, <1>4 DEF Pending
  <1>6. \A g \in Sides : Pending(g)' = (todo \ {i}) \cup Rest(g)
    BY <1>1, <1>4 DEF Pending, Rest
  <1>7. \A g \in Sides : Pending(g)' = {j \in Pending(g) : j # i}
    BY <1>3, <1>5, <1>6
  <1>8. \A g \in Sides : i \in Pending(g)
    BY <1>5
  <1>9. \A g \in Sides : /\ i \in DOMAIN feed[g].stop
                         /\ <<g, "stop", i>> \in DOMAIN merge_map /\ merge_map[<<g, "stop", i>>] = i
    BY <1>2, <1>3 DEF Divided, Split
  <1>10. i \notin DOMAIN merged["stop"]
    <2> SUFFICES ASSUME NEW e \in StopsDone, merge_map[e] = i PROVE FALSE
      BY DEF TablesOK
    <2>1. e \in DOMAIN merge_map /\ e[2] = "stop" /\ e[3] \notin Pending(e[1])
      BY DEF StopsDone
    <2>2. e[1] \in Sides
      BY <2>1 DEF IInv, MapOK, IsEntity
    <2>3. DEFINE d == <<"b", "stop", i>>
    <2>4. d \in DOMAIN merge_map /\ d[2] = e[2] /\ merge_map[d] = merge_map[e] /\ d[3] = i
      BY <1>9, <2>1 DEF Sides
    <2> HIDE DEF d
    <2>5. d = e \/ d[3] = e[3]
      BY <2>1, <2>4 DEF ImagesOK
    <2> QED BY <1>8, <2>1, <2>2, <2>4, <2>5
  <1>11. "stop" \in DOMAIN merged
    BY DEF TablesOK, Types
  <1>12. /\ DOMAIN merged'["stop"] = DOMAIN merged["stop"] \cup {i}
         /\ merged'["stop"][i] =
              [feed["b"].stop[i] EXCEPT !.parent = ImageOrNone("b", "stop", @)]
    BY <1>1, <1>10, <1>11, AddedObject
  <1>13. (DOMAIN merged.stop = {merge_map[e] : e \in StopsDone})'
    <2> DEFINE R == {<<g, "stop", i>> : g \in Sides}
    <2>1. R \in SUBSET DOMAIN merge_map /\ \A e \in R : e[2] = "stop"
      BY <1>9
    <2>2. \A g \in Sides : Pending(g)' = {j \in Pending(g) : <<g, "stop", j>> \notin R}
      BY <1>7
    <2>3. {merge_map[e] : e \in R} = {i}
      BY <1>9 DEF Sides
    <2> HIDE DEF R
    <2>4. {merge_map[e] : e \in StopsDone}' =
              {merge_map[e] : e \in StopsDone} \cup {merge_map[e] : e \in R}
      BY <1>1, <2>1, <2>2, StopsDoneGrow
    <2> QED BY <1>12, <2>3, <2>4 DEF TablesOK
  <1> QED BY <1>3, <1>7, <1>9, <1>10, <1>12, <1>13

LEMMA MoveZoneFacts ==
    ASSUME IInv, OrderOK, SplitOK, ImagesOK, TablesOK, NEW f \in Sides, NEW i \in todo,
           MoveZone(f, i)
    PROVE  /\ \A g \in Sides : Pending(g)' = {j \in Pending(g) : g # f \/ j # i}
           /\ i \in DOMAIN feed[f].stop
           /\ <<f, "stop", i>> \in DOMAIN merge_map
           /\ Image(f, "stop", i) \notin DOMAIN merged["stop"]
           /\ DOMAIN merged'["stop"] = DOMAIN merged["stop"] \cup {Image(f, "stop", i)}
           /\ (DOMAIN merged.stop = {merge_map[e] : e \in StopsDone})'
  <1> DEFINE n == Image(f, "stop", i)
             E == <<f, "stop", i>>
  <1>1. /\ phase = ZonePass[f] /\ mergers # << >> /\ Head(mergers) = "stop" /\ todo' = todo \ {i}
        /\ UNCHANGED <<feed, merge_map, mergers, phase, both, aRest, bRest>>
        /\ \E e : AddObject("stop", n, e)
    BY DEF MoveZone, Running, inputs
  <1>2. (f = "a" /\ phase = "zones_a") \/ (f = "b" /\ phase = "zones_b")
    BY <1>1 DEF ZonePass, Sides
  <1>3. /\ Divided("stop") /\ Split("stop") /\ todo \subseteq Rest(f)
        /\ \A g \in Sides : HasPlace(g, "stop", Rest(g))
    BY <1>1, <1>2 DEF SplitOK, ZonePhases, Rest, Sides
  <1>4. ~Finished("stop") /\ ~Finished("stop")'
    BY <1>1, HeadFacts, SameList
  <1>5. i \in Pending(f) /\ \A g \in Sides : Pending(g)' = {j \in Pending(g) : g # f \/ j # i}
    <2>1. CASE f = "a" /\ phase = "zones_a"
      <3>1. Pending("a") = todo /\ Pending("b") = bRest
        BY <1>4, <2>1 DEF Pending
      <3>2. Pending("a")' = todo \ {i} /\ Pending("b")' = bRest
        BY <1>1, <1>4, <2>1 DEF Pending
      <3> QED BY <2>1, <3>1, <3>2 DEF Sides
    <2>2. CASE f = "b" /\ phase = "zones_b"
      <3>1. Pending("a") = {} /\ Pending("b") = todo
        BY <1>4, <2>2 DEF Pending
      <3>2. Pending("a")' = {} /\ Pending("b")' = todo \ {i}
        BY <1>1, <1>4, <2>2 DEF Pending
      <3> QED BY <2>2, <3>1, <3>2 DEF Sides
    <2> QED BY <1>2, <2>1, <2>2
  <1>6. i \in DOMAIN feed[f].stop /\ E \in DOMAIN merge_map /\ n = merge_map[E] /\ i \in Rest(f)
    BY <1>3 DEF Split, HasPlace, Image
  <1>7. n \notin DOMAIN merged["stop"]
    <2> SUFFICES ASSUME NEW e \in StopsDone, merge_map[e] = n PROVE FALSE
      BY DEF TablesOK
    <2>1. e \in DOMAIN merge_map /\ e[2] = "stop" /\ e[3] \notin Pending(e[1])
      BY DEF StopsDone
    <2>2. /\ e[1] \in Sides /\ e[3] \in DOMAIN feed[e[1]].stop
          /\ e = <<e[1], "stop", e[3]>>
      BY <2>1 DEF IInv, MapOK, IsEntity
    <2>3. E[1] = f /\ E[2] = "stop" /\ E[3] = i
      OBVIOUS
    <2> HIDE DEF E, n
    <2>4. E # e
      BY <1>5, <2>1, <2>3
    <2>5. E[3] = e[3] /\ merge_map[E] = i
      BY <1>6, <2>1, <2>3, <2>4 DEF ImagesOK
    <2>6. e[1] = Other(f)
      BY <2>2, <2>3, <2>4, <2>5 DEF Sides, Other, E
    <2>7. i \in DOMAIN feed[Other(f)].stop
      BY <2>2, <2>3, <2>5, <2>6
    <2>8. merge_map[<<f, "stop", i>>] # i
      BY <1>3, <1>6, <2>7 DEF Divided, E
    <2> QED BY <2>5, <2>8 DEF E
  <1>8. "stop" \in DOMAIN merged
    BY DEF TablesOK, Types
  <1>9. DOMAIN merged'["stop"] = DOMAIN merged["stop"] \cup {n}
    BY <1>1, <1>8, AddedObject
  <1>10. (DOMAIN merged.stop = {merge_map[e] : e \in StopsDone})'
    <2> DEFINE R == {E}
    <2>1. R \in SUBSET DOMAIN merge_map /\ \A e \in R : e[2] = "stop"
      BY <1>6
    <2>2. \A g \in Sides : Pending(g)' = {j \in Pending(g) : <<g, "stop", j>> \notin R}
      BY <1>5
    <2>3. {merge_map[e] : e \in R} = {n}
      BY <1>6
    <2> HIDE DEF R, n
    <2>4. {merge_map[e] : e \in StopsDone}' =
              {merge_map[e] : e \in StopsDone} \cup {merge_map[e] : e \in R}
      BY <1>1, <2>1, <2>2, StopsDoneGrow
    <2> QED BY <1>9, <2>3, <2>4 DEF TablesOK
  <1> QED BY <1>5, <1>6, <1>7, <1>9, <1>10

\* The table of the stops in the other steps.
LEMMA OtherStops ==
    ASSUME IInv, OrderOK, SplitOK, TablesOK, [Next]_vars,
           \A i \in todo : ~KeepZone(i),
           \A i \in todo : \A f \in Sides : ~MoveZone(f, i)
    PROVE  UNCHANGED <<zone_map, merged["stop"]>>
  <1>1. DOMAIN merged = Types \cup {"rule", "transfer"}
    BY DEF TablesOK
  <1>2. ASSUME NEW t \in Types, NEW i \in todo, NEW f \in Sides,
               MergePair(t, i) \/ MigrateOne(f, t, i)
        PROVE  UNCHANGED zone_map /\ phase \notin ZonePhases
    BY <1>2 DEF MergePair, MigrateOne, Sides, ZonePhases
  <1>3. merged'["stop"] # merged["stop"] => phase \in ZonePhases
    BY <1>1, TableGrows DEF Types
  <1>4. ASSUME \/ \E t \in Types : Begin(t) \/ ScanNew(t) \/ OldIsMigrated(t) \/ EndSameId(t)
               \/ \E t \in Types : \E i \in todo : NoPartner(t, i) \/ NotMerged(t, i)
               \/ NextZonePass
        PROVE  UNCHANGED <<zone_map, merged>>
    BY <1>4 DEF Begin, ScanNew, OldIsMigrated, EndSameId, NoPartner, NotMerged, NextZonePass
  <1>5. ASSUME MergeFareRules \/ MergeTransfers PROVE UNCHANGED <<zone_map, merged["stop"]>>
    BY <1>1, <1>5 DEF MergeFareRules, MergeTransfers, Types
  <1>6. \E f : f \in Sides
    BY DEF Sides
  <1> QED BY <1>2, <1>3, <1>4, <1>5, <1>6, StepKinds

LEMMA TablesStep ==
    ASSUME IInv, OrderOK, SplitOK, CompleteOK, ImagesOK, TablesOK, [Next]_vars
    PROVE  TablesOK'
  <1>1. DOMAIN merged = Types \cup {"rule", "transfer"}
    BY DEF TablesOK
  <1>2. DOMAIN merged' = Types \cup {"rule", "transfer"}
    BY <1>1, TableGrows
  <1>3. ASSUME NEW t \in Types, Waiting(t)' PROVE merged'[t] = Empty
    <2>1. Waiting(t)
      <3>1. CASE UNCHANGED <<mergers, phase>>
        BY <1>3, <3>1, SameList
      <3>2. CASE UNCHANGED mergers /\ phase' \in {"pairs", "a", "b"} \cup ZonePhases
        BY <1>3, <3>2, SameList DEF ZonePhases
      <3>3. CASE mergers # << >> /\ NextMerger
        BY <1>3, <3>3, ShorterList
      <3> QED BY <3>1, <3>2, <3>3, ControlSteps
    <2>2. merged'[t] = merged[t]
      <3>1. ~(mergers # << >> /\ Head(mergers) = t /\ phase # "start")
        BY <2>1, HeadFacts
      <3> QED BY <1>1, <3>1, TableGrows
    <2> QED BY <2>1, <2>2 DEF TablesOK
  <1>4. (DOMAIN merged.stop = {merge_map[e] : e \in StopsDone})'
    <2>1. CASE \E i \in todo : KeepZone(i)
      BY <2>1, KeepZoneFacts
    <2>2. CASE \E i \in todo : \E f \in Sides : MoveZone(f, i)
      BY <2>2, MoveZoneFacts
    <2>3. CASE /\ \A i \in todo : ~KeepZone(i)
               /\ \A i \in todo : \A f \in Sides : ~MoveZone(f, i)
      <3>1. \A g \in Sides : Pending(g)' = Pending(g)
        BY <2>3, PendingKept
      <3>2. merged'["stop"] = merged["stop"]
        BY <2>3, OtherStops
      <3>3. /\ DOMAIN merge_map \subseteq DOMAIN merge_map'
            /\ \A e \in DOMAIN merge_map : merge_map'[e] = merge_map[e]
            /\ feed' = feed /\ IInv'
        BY MapSteps
      <3>4. \A e \in DOMAIN merge_map' : e[2] = "stop" =>
               e[1] \in Sides /\ e = <<e[1], "stop", e[3]>> /\ e[3] \in DOMAIN feed[e[1]].stop
        BY <3>3 DEF IInv, MapOK, IsEntity
      <3>5. ASSUME NEW e \in DOMAIN merge_map', e[2] = "stop", e[3] \notin Pending(e[1])
            PROVE  e \in DOMAIN merge_map
        <4>1. HasPlace(e[1], "stop", DOMAIN feed[e[1]].stop)
          BY <3>4, <3>5, StopsPlaced
        <4> QED BY <3>4, <3>5, <4>1 DEF HasPlace
      <3>6. \A e \in DOMAIN merge_map' : e[2] = "stop" => Pending(e[1])' = Pending(e[1])
        <4> SUFFICES ASSUME NEW e \in DOMAIN merge_map', e[2] = "stop"
                     PROVE  Pending(e[1])' = Pending(e[1])
          OBVIOUS
        <4>1. PICK g \in Sides : g = e[1]
          BY <3>4
        <4> QED BY <3>1, <4>1
      <3>7. StopsDone' = StopsDone
        <4>1. \A e : e \in StopsDone' <=>
                 (e \in DOMAIN merge_map' /\ e[2] = "stop" /\ e[3] \notin Pending(e[1])')
          BY DEF StopsDone
        <4> QED BY <3>3, <3>5, <3>6, <4>1 DEF StopsDone
      <3>8. \A e \in StopsDone : merge_map'[e] = merge_map[e]
        BY <3>3 DEF StopsDone
      <3> QED BY <3>2, <3>7, <3>8 DEF TablesOK
    <2> QED BY <2>1, <2>2, <2>3
  <1> QED BY <1>2, <1>3, <1>4, TakenTables DEF TablesOK

\* What StopsOK says of stop i of feed f.
StopIn(f, i) ==
    /\ feed[f].stop[i].zone \in DOMAIN zone_map[f]
    /\ merged["stop"][Image(f, "stop", i)].zone = zone_map[f][feed[f].stop[i].zone]
    /\ Follows(f, "stop", i)

\* A stop that is in the table keeps its zone and its parent.
LEMMA StopStays ==
    ASSUME IInv, LoadedOK, OrderOK, SplitOK, CompleteOK, TablesOK, StopsOK, [Next]_vars,
           NEW f \in Sides, NEW i \in DOMAIN feed[f].stop \ Pending(f),
           LET z == feed[f].stop[i].zone IN
               z \in DOMAIN zone_map'[f] /\ zone_map'[f][z] = zone_map[f][z]
    PROVE  StopIn(f, i)'
  <1>1. /\ DOMAIN merge_map \subseteq DOMAIN merge_map'
        /\ \A e \in DOMAIN merge_map : merge_map'[e] = merge_map[e]
        /\ feed' = feed
    BY MapSteps
  <1>2. \A g \in Sides : \A j \in DOMAIN feed[g].stop :
           <<g, "stop", j>> \in DOMAIN merge_map /\ Image(g, "stop", j)' = Image(g, "stop", j)
    <2>1. \A g \in Sides : HasPlace(g, "stop", DOMAIN feed[g].stop)
      BY StopsPlaced
    <2> QED BY <1>1, <2>1 DEF HasPlace, Image
  <1>3. Image(f, "stop", i) \in DOMAIN merged["stop"]
    <2> DEFINE E == <<f, "stop", i>>
    <2>1. E \in DOMAIN merge_map /\ E[2] = "stop" /\ E[3] \notin Pending(E[1])
      BY <1>2
    <2>2. E \in StopsDone
      BY <2>1, Zenon DEF StopsDone
    <2> QED BY <2>2 DEF TablesOK, Image
  <1>4. merged'["stop"][Image(f, "stop", i)] = merged["stop"][Image(f, "stop", i)]
    <2>1. DOMAIN merged = Types \cup {"rule", "transfer"}
      BY DEF TablesOK
    <2> QED BY <1>3, <2>1, TableGrows DEF Types
  <1>5. /\ merged["stop"][Image(f, "stop", i)].zone = zone_map[f][feed[f].stop[i].zone]
        /\ Follows(f, "stop", i)
    BY DEF StopsOK
  <1>6. feed[f].stop[i].parent \in DOMAIN feed[f].stop \cup {NoId}
    BY DEF LoadedOK, Resolves
  <1>7. ImageOrNone(f, "stop", feed[f].stop[i].parent)' =
           ImageOrNone(f, "stop", feed[f].stop[i].parent)
    <2>1. \A c : c \in DOMAIN feed[f].stop \cup {NoId} =>
             ImageOrNone(f, "stop", c)' = ImageOrNone(f, "stop", c)
      BY <1>2 DEF ImageOrNone
    <2> QED BY <1>1, <1>6, <2>1 DEF ImageOrNone
  <1>8. Follows(f, "stop", i)'
    <2>1. Other(f) \in Sides
      BY DEF Other, Sides
    <2>2. (i \in DOMAIN feed[Other(f)]["stop"] /\ Image(f, "stop", i) = Image(Other(f), "stop", i))'
             <=> (i \in DOMAIN feed[Other(f)]["stop"]
                    /\ Image(f, "stop", i) = Image(Other(f), "stop", i))
      BY <1>1, <1>2, <2>1
    <2>3. Image(f, "stop", i)' = Image(f, "stop", i)
      BY <1>2
    <2> QED BY <1>1, <1>4, <1>5, <1>7, <2>2, <2>3 DEF Follows
  <1>9. merged'["stop"][Image(f, "stop", i)'].zone = zone_map'[f][feed[f].stop[i].zone]
    BY <1>2, <1>4, <1>5
  <1> QED BY <1>1, <1>8, <1>9 DEF StopIn

LEMMA KeepZoneStops ==
    ASSUME IInv, LoadedOK, OrderOK, SplitOK, CompleteOK, ImagesOK, TablesOK, StopsOK,
           [Next]_vars, NEW i \in todo, KeepZone(i)
    PROVE  StopsOK'
  <1> DEFINE s == feed["b"].stop[i]
  <1>1. /\ phase = "zones" /\ mergers # << >> /\ Head(mergers) = "stop"
        /\ UNCHANGED <<feed, merge_map, mergers, phase, both>>
        /\ zone_map' = [f \in Sides |-> Put(zone_map[f], s.zone, s.zone)]
    BY DEF KeepZone, Running, inputs
  <1>2. /\ i \in both
        /\ \A g \in Sides : Pending(g)' = {j \in Pending(g) : j # i}
        /\ \A g \in Sides : i \in DOMAIN feed[g].stop
        /\ \A g \in Sides : <<g, "stop", i>> \in DOMAIN merge_map /\ merge_map[<<g, "stop", i>>] = i
        /\ merged'["stop"][i] = [s EXCEPT !.parent = ImageOrNone("b", "stop", @)]
    BY KeepZoneFacts
  <1>3. ~Finished("stop") /\ ~Finished("stop")'
    BY <1>1, HeadFacts, SameList
  <1>4. \A f \in Sides : \A z \in DOMAIN zone_map[f] : zone_map[f][z] = z
    BY <1>1, <1>3 DEF StopsOK
  <1>5. DOMAIN zone_map' = Sides
    BY <1>1
  <1>6. \A f \in Sides : /\ DOMAIN zone_map'[f] = DOMAIN zone_map[f] \cup {s.zone}
                         /\ \A z \in DOMAIN zone_map'[f] : zone_map'[f][z] = z
    <2> SUFFICES ASSUME NEW f \in Sides
                 PROVE  /\ DOMAIN zone_map'[f] = DOMAIN zone_map[f] \cup {s.zone}
                        /\ \A z \in DOMAIN zone_map'[f] : zone_map'[f][z] = z
      OBVIOUS
    <2>1. zone_map'[f] = Put(zone_map[f], s.zone, s.zone)
      BY <1>1
    <2> HIDE DEF s
    <2> QED BY <1>4, <2>1 DEF Put
  <1>7. \A j \in both : feed["a"].stop[j].zone = feed["b"].stop[j].zone
    BY <1>1 DEF StopsOK
  <1>8. ASSUME NEW f \in Sides, NEW j \in DOMAIN feed[f].stop \ Pending(f)'
        PROVE  StopIn(f, j)'
    <2>1. CASE j \notin Pending(f)
      <3>1. feed[f].stop[j].zone \in DOMAIN zone_map[f]
        BY <2>1 DEF StopsOK
      <3>2. LET z == feed[f].stop[j].zone IN
               z \in DOMAIN zone_map'[f] /\ zone_map'[f][z] = zone_map[f][z]
        BY <1>4, <1>6, <3>1
      <3> QED BY <2>1, <3>2, StopStays
    <2>2. CASE j \in Pending(f)
      <3>1. j = i
        BY <1>2, <2>2
      <3>2. feed[f].stop[i].zone = s.zone
        BY <1>2, <1>7 DEF Sides
      <3>3. DOMAIN s = {"val", "zone", "parent"}
        BY <1>2 DEF LoadedOK, Resolves, Sides
      <3>4. /\ merged'["stop"][i].zone = s.zone
            /\ merged'["stop"][i].parent = ImageOrNone("b", "stop", s.parent)
        BY <1>2, <3>3
      <3>5. \A g \in Sides : Image(g, "stop", i) = i /\ Image(g, "stop", i)' = i
        BY <1>1, <1>2 DEF Image
      <3>6. Follows(f, "stop", i)'
        <4>1. CASE f = "a"
          <5>1. (i \in DOMAIN feed[Other(f)]["stop"]
                    /\ Image(f, "stop", i) = Image(Other(f), "stop", i))'
            BY <1>1, <1>2, <3>5, <4>1 DEF Other, Sides
          <5> QED BY <4>1, <5>1 DEF Follows
        <4>2. CASE f = "b"
          <5>1. ImageOrNone("b", "stop", s.parent)' = ImageOrNone("b", "stop", s.parent)
            BY <1>1 DEF ImageOrNone, Image
          <5> QED BY <1>1, <3>4, <3>5, <4>2, <5>1 DEF Follows
        <4> QED BY <4>1, <4>2 DEF Sides
      <3>7. feed'[f].stop[i].zone = s.zone
        BY <1>1, <3>2
      <3>8. s.zone \in DOMAIN zone_map'[f] /\ zone_map'[f][s.zone] = s.zone
        BY <1>6
      <3>9. merged'["stop"][Image(f, "stop", i)'].zone = s.zone
        BY <3>4, <3>5
      <3> HIDE DEF s
      <3> QED BY <3>1, <3>6, <3>7, <3>8, <3>9 DEF StopIn
    <2> QED BY <2>1, <2>2
  <1> QED BY <1>1, <1>5, <1>6, <1>7, <1>8 DEF StopsOK, StopIn

LEMMA MoveZoneStops ==
    ASSUME IInv, LoadedOK, OrderOK, SplitOK, CompleteOK, ImagesOK, TablesOK, StopsOK,
           [Next]_vars, NEW f \in Sides, NEW i \in todo, MoveZone(f, i)
    PROVE  StopsOK'
  <1> DEFINE s == feed[f].stop[i]
             n == Image(f, "stop", i)
             known == s.zone \in DOMAIN zone_map[f]
             z == IF known THEN zone_map[f][s.zone] ELSE generate_id(s.zone)
             row == [s EXCEPT !.zone = z, !.parent = ImageOrNone(f, "stop", @)]
  <1>1. /\ phase = ZonePass[f] /\ mergers # << >> /\ Head(mergers) = "stop"
        /\ UNCHANGED <<feed, merge_map, mergers, phase, both>>
        /\ zone_map' = [zone_map EXCEPT ![f] = Put(@, s.zone, z)]
        /\ AddObject("stop", n, row)
    BY DEF MoveZone, Running, inputs
  <1>2. phase \in {"zones_a", "zones_b"}
    BY <1>1 DEF ZonePass, Sides
  <1>3. /\ \A g \in Sides : Pending(g)' = {j \in Pending(g) : g # f \/ j # i}
        /\ i \in DOMAIN feed[f].stop
        /\ <<f, "stop", i>> \in DOMAIN merge_map
        /\ n \notin DOMAIN merged["stop"]
    BY MoveZoneFacts
  <1>4. DOMAIN zone_map = Sides
    BY DEF StopsOK
  <1>5. /\ DOMAIN zone_map' = Sides
        /\ zone_map'[f] = Put(zone_map[f], s.zone, z)
        /\ \A g \in Sides : g # f => zone_map'[g] = zone_map[g]
    BY <1>1, <1>4
  <1>6. /\ \A g \in Sides : \A y \in DOMAIN zone_map[g] :
              y \in DOMAIN zone_map'[g] /\ zone_map'[g][y] = zone_map[g][y]
        /\ s.zone \in DOMAIN zone_map'[f] /\ zone_map'[f][s.zone] = z
    <2>1. /\ \A y \in DOMAIN zone_map[f] :
                y \in DOMAIN zone_map'[f] /\ zone_map'[f][y] = zone_map[f][y]
          /\ s.zone \in DOMAIN zone_map'[f] /\ zone_map'[f][s.zone] = z
      <3>1. known => z = zone_map[f][s.zone]
        OBVIOUS
      <3>2. DEFINE y0 == s.zone
      <3> HIDE DEF z
      <3> QED BY <1>5, <3>1 DEF Put
    <2> HIDE DEF s, z
    <2> QED BY <1>5, <2>1
  <1>7. ASSUME NEW g \in Sides, NEW j \in DOMAIN feed[g].stop \ Pending(g)'
        PROVE  StopIn(g, j)'
    <2>1. CASE j \notin Pending(g)
      <3>1. feed[g].stop[j].zone \in DOMAIN zone_map[g]
        BY <2>1 DEF StopsOK
      <3>2. LET y == feed[g].stop[j].zone IN
               y \in DOMAIN zone_map'[g] /\ zone_map'[g][y] = zone_map[g][y]
        BY <1>6, <3>1
      <3> QED BY <2>1, <3>2, StopStays
    <2>2. CASE j \in Pending(g)
      <3>1. g = f /\ j = i
        BY <1>3, <2>2
      <3>2. DOMAIN s = {"val", "zone", "parent"}
        BY <1>3 DEF LoadedOK, Resolves
      <3>3. merged'["stop"][n] = row
        <4>1. "stop" \in DOMAIN merged
          BY DEF TablesOK, Types
        <4> HIDE DEF n, row
        <4> QED BY <1>1, <1>3, <4>1, AddedObject
      <3>4. row.zone = z /\ row.parent = ImageOrNone(f, "stop", s.parent)
        <4> HIDE DEF z, s
        <4> QED BY <3>2
      <3>5. Image(f, "stop", i)' = n
        BY <1>1 DEF Image
      <3>6. ImageOrNone(f, "stop", s.parent)' = ImageOrNone(f, "stop", s.parent)
        BY <1>1 DEF ImageOrNone, Image
      <3> HIDE DEF n, row, z
      <3>7. Follows(f, "stop", i)'
        BY <1>1, <3>3, <3>4, <3>5, <3>6 DEF Follows
      <3>8. merged'["stop"][Image(f, "stop", i)'].zone = zone_map'[f][s.zone]
        BY <1>6, <3>3, <3>4, <3>5
      <3> QED BY <1>1, <1>6, <3>1, <3>7, <3>8 DEF StopIn
    <2> QED BY <2>1, <2>2
  <1>8. \A j \in both : feed["a"].stop[j].zone = feed["b"].stop[j].zone
    BY <1>1, <1>2 DEF StopsOK
  <1>9. DOMAIN zone_map' = Sides
    BY <1>5
  <1> HIDE DEF s, z, n, row, known
  <1> QED BY <1>1, <1>2, <1>7, <1>8, <1>9 DEF StopsOK, StopIn

LEMMA StopsStep ==
    ASSUME IInv, LoadedOK, OrderOK, SplitOK, CompleteOK, ImagesOK, TablesOK, StopsOK, [Next]_vars
    PROVE  StopsOK'
  <1>1. CASE \E i \in todo : KeepZone(i)
    BY <1>1, KeepZoneStops
  <1>2. CASE \E i \in todo : \E f \in Sides : MoveZone(f, i)
    BY <1>2, MoveZoneStops
  <1>3. CASE /\ \A i \in todo : ~KeepZone(i)
             /\ \A i \in todo : \A f \in Sides : ~MoveZone(f, i)
    <2>1. UNCHANGED <<zone_map, merged["stop"]>> /\ feed' = feed
      BY <1>3, OtherStops, MapSteps
    <2>2. ASSUME NEW f \in Sides, NEW i \in DOMAIN feed[f].stop \ Pending(f)'
          PROVE  StopIn(f, i)'
      <3>1. i \notin Pending(f)
        BY <1>3, <2>2, PendingKept
      <3>2. feed[f].stop[i].zone \in DOMAIN zone_map[f]
        BY <3>1 DEF StopsOK
      <3> QED BY <2>1, <3>1, <3>2, StopStays
    <2>3. ASSUME ~Finished("stop")', phase' \notin {"zones_a", "zones_b"}
          PROVE  ~Finished("stop") /\ phase \notin {"zones_a", "zones_b"}
      <3>1. CASE UNCHANGED <<mergers, phase>>
        BY <2>3, <3>1, SameList
      <3>2. CASE mergers # << >> /\ NextMerger
        <4>1. ~Finished("stop") /\ Head(mergers) # "stop"
          BY <2>3, <3>2, ShorterList
        <4> QED BY <4>1 DEF OrderOK, ZonePhases
      <3>3. CASE UNCHANGED mergers /\ phase' \in {"pairs", "a", "b", "zones"}
        <4>1. ASSUME NextZonePass PROVE FALSE
          BY <2>3, <3>3, <4>1 DEF NextZonePass, NextMerger
        <4>2. ASSUME \/ \E t \in Types : Begin(t) \/ ScanNew(t) \/ OldIsMigrated(t) \/ EndSameId(t)
                     \/ \E t \in Types : \E i \in todo :
                           NoPartner(t, i) \/ NotMerged(t, i) \/ MergePair(t, i)
                     \/ \E f \in Sides : \E t \in Types : \E i \in todo : MigrateOne(f, t, i)
              PROVE  phase \notin {"zones_a", "zones_b"}
          BY <4>2, ZenonT(60) DEF Begin, ScanNew, OldIsMigrated, EndSameId, NoPartner, NotMerged, MergePair,
                      MigrateOne, Sides
        <4>3. ASSUME MergeFareRules \/ MergeTransfers PROVE phase \notin {"zones_a", "zones_b"}
          BY <4>3 DEF MergeFareRules, MergeTransfers
        <4>4. ASSUME UNCHANGED control PROVE phase' = phase
          BY <4>4 DEF control
        <4>5. phase \notin {"zones_a", "zones_b"}
          BY <1>3, <2>3, <4>1, <4>2, <4>3, <4>4, StepKinds, Zenon
        <4> QED BY <2>3, <3>3, <4>5, SameList
      <3> QED BY <2>3, <3>1, <3>2, <3>3, ControlSteps DEF ZonePhases
    <2>4. ASSUME mergers' # << >>, Head(mergers') = "stop", phase' # "start"
          PROVE  \A i \in both' : feed["a"].stop[i].zone = feed["b"].stop[i].zone
      <3>1. ASSUME UNCHANGED <<mergers, both>>, phase # "start"
            PROVE  \A i \in both' : feed["a"].stop[i].zone = feed["b"].stop[i].zone
        BY <2>4, <3>1 DEF StopsOK
      <3>2. ASSUME NEW t \in Types, Begin(t) PROVE both' = {}
        BY <3>2 DEF Begin
      <3>3. ASSUME NEW t \in Types, NEW i \in todo, MergePair(t, i)
            PROVE  \A j \in both' : feed["a"].stop[j].zone = feed["b"].stop[j].zone
        <4>1. /\ mergers # << >> /\ Head(mergers) = t /\ phase # "start"
              /\ UNCHANGED mergers /\ both' = both \cup {i}
          BY <3>3 DEF MergePair, Running
        <4>2. t = "stop"
          BY <2>4, <4>1
        <4>3. feed["a"].stop[i].zone = feed["b"].stop[i].zone
          BY <3>3, <4>2 DEF MergePair, Mergeable, StopScheme, MergeIdentical
        <4> QED BY <4>1, <4>2, <4>3 DEF StopsOK
      <3>4. ASSUME \/ \E t \in Types : ScanNew(t) \/ OldIsMigrated(t) \/ EndSameId(t)
                   \/ \E t \in Types : \E i \in todo : NoPartner(t, i) \/ NotMerged(t, i)
                   \/ \E f \in Sides : \E t \in Types : \E i \in todo : MigrateOne(f, t, i)
                   \/ NextZonePass
            PROVE  UNCHANGED <<mergers, both>> /\ phase # "start"
        BY <2>4, <3>4 DEF ScanNew, OldIsMigrated, EndSameId, NoPartner, NotMerged, MigrateOne,
                          NextZonePass, NextMerger, Sides
      <3>5. ASSUME MergeFareRules \/ MergeTransfers PROVE FALSE
        BY <2>4, <3>5 DEF MergeFareRules, MergeTransfers, NextMerger
      <3>6. ASSUME UNCHANGED control PROVE UNCHANGED <<mergers, both>> /\ phase # "start"
        BY <2>4, <3>6 DEF control
      <3> QED BY <1>3, <3>1, <3>2, <3>3, <3>4, <3>5, <3>6, StepKinds
    <2> QED BY <2>1, <2>2, <2>3, <2>4 DEF StopsOK, StopIn
  <1> QED BY <1>1, <1>2, <1>3

-----------------------------------------------------------------------------
(* The rows of routes, trips, rules and transfers *)

\* What an entity may refer to was placed before the merger of its kind began.
LEMMA ReferencesPlaced ==
    ASSUME IInv, OrderOK, CompleteOK, NEW p \in RunsBefore, p[1] \in Types, p[2] \in Types,
           \/ \E e \in DOMAIN merge_map : e[2] = p[2]
           \/ mergers # << >> /\ Head(mergers) = p[2]
    PROVE  \A g \in Sides : HasPlace(g, p[1], DOMAIN feed[g][p[1]])
  <1>1. CASE Finished(p[2])
    BY <1>1 DEF OrderOK, CompleteOK
  <1>2. CASE mergers # << >> /\ Head(mergers) = p[2]
    BY <1>2, EarlierFinished DEF CompleteOK
  <1>3. CASE ~Finished(p[2]) /\ \E e \in DOMAIN merge_map : e[2] = p[2]
    <2>1. mergers # << >>
      BY <1>3 DEF Finished
    <2>2. ~Waiting(p[2])
      BY <1>3 DEF Waiting, IInv, WaitingOK
    <2>3. Head(mergers) = p[2]
      BY <1>3, <2>1, <2>2, HeadFacts
    <2> QED BY <1>2, <2>1, <2>3
  <1> QED BY <1>1, <1>2, <1>3

LEMMA SameImages ==
    ASSUME IInv, [Next]_vars, NEW u, \A g \in Sides : HasPlace(g, u, DOMAIN feed[g][u])
    PROVE  \A g \in Sides : \A j \in DOMAIN feed[g][u] :
              Image(g, u, j)' = Image(g, u, j) /\ <<g, u, j>> \in DOMAIN merge_map
  <1>1. \A e \in DOMAIN merge_map : merge_map'[e] = merge_map[e]
    BY MapSteps
  <1> QED BY <1>1 DEF HasPlace, Image

\* What a route and a trip refer to.
LEMMA References ==
    ASSUME LoadedOK, NEW f \in Sides
    PROVE  /\ \A i \in DOMAIN feed[f].route :
                 AgencyOf(f, feed[f].route[i]) \in DOMAIN feed[f].agency
           /\ \A i \in DOMAIN feed[f].trip :
                 /\ feed[f].trip[i].route \in DOMAIN feed[f].route
                 /\ feed[f].trip[i].service \in DOMAIN feed[f].period
                 /\ feed[f].trip[i].stop \in DOMAIN feed[f].stop
                 /\ feed[f].trip[i].shape \in DOMAIN feed[f].shape \cup {NoId}
  <1>1. Resolves(feed[f])
    BY DEF LoadedOK
  <1>2. \A i \in DOMAIN feed[f].route :
           AgencyOf(f, feed[f].route[i]) \in DOMAIN feed[f].agency
    <2> SUFFICES ASSUME NEW i \in DOMAIN feed[f].route
                 PROVE  AgencyOf(f, feed[f].route[i]) \in DOMAIN feed[f].agency
      OBVIOUS
    <2>1. \/ feed[f].route[i].agency \in DOMAIN feed[f].agency
          \/ feed[f].route[i].agency = NoId /\ \E g : g \in DOMAIN feed[f].agency
      BY <1>1 DEF Resolves
    <2>2. (\E g : g \in DOMAIN feed[f].agency) =>
             (CHOOSE g \in DOMAIN feed[f].agency : TRUE) \in DOMAIN feed[f].agency
      OBVIOUS
    <2> QED BY <2>1, <2>2 DEF AgencyOf
  <1> QED BY <1>1, <1>2 DEF Resolves

LEMMA RunsBeforePairs ==
    /\ "agency" \in Types /\ "route" \in Types /\ "trip" \in Types /\ "period" \in Types
    /\ "shape" \in Types /\ "stop" \in Types
    /\ <<"agency", "route">> \in RunsBefore
    /\ \A u \in {"period", "stop", "route", "shape"} : <<u, "trip">> \in RunsBefore
  BY DEF Types, RunsBefore

LEMMA AgenciesPlaced ==
    ASSUME IInv, OrderOK, CompleteOK, [Next]_vars,
           \/ \E e \in DOMAIN merge_map : e[2] = "route"
           \/ mergers # << >> /\ Head(mergers) = "route"
    PROVE  \A g \in Sides : \A j \in DOMAIN feed[g].agency :
              Image(g, "agency", j)' = Image(g, "agency", j)
  <1> DEFINE p == <<"agency", "route">>
  <1>1. p \in RunsBefore /\ p[1] = "agency" /\ p[2] = "route" /\ p[1] \in Types /\ p[2] \in Types
    BY RunsBeforePairs
  <1> HIDE DEF p
  <1>2. \A g \in Sides : HasPlace(g, p[1], DOMAIN feed[g][p[1]])
    BY <1>1, ReferencesPlaced
  <1>3. \A g \in Sides : HasPlace(g, "agency", DOMAIN feed[g]["agency"])
    BY <1>1, <1>2
  <1> QED BY <1>3, SameImages

LEMMA TripReferencesPlaced ==
    ASSUME IInv, OrderOK, CompleteOK, [Next]_vars,
           \/ \E e \in DOMAIN merge_map : e[2] = "trip"
           \/ mergers # << >> /\ Head(mergers) = "trip"
    PROVE  \A u \in {"period", "stop", "route", "shape"} : \A g \in Sides :
              \A j \in DOMAIN feed[g][u] :
                 Image(g, u, j)' = Image(g, u, j) /\ <<g, u, j>> \in DOMAIN merge_map
  <1> SUFFICES ASSUME NEW u \in {"period", "stop", "route", "shape"}
               PROVE  \A g \in Sides : \A j \in DOMAIN feed[g][u] :
                         Image(g, u, j)' = Image(g, u, j) /\ <<g, u, j>> \in DOMAIN merge_map
    OBVIOUS
  <1> DEFINE p == <<u, "trip">>
  <1>1. p \in RunsBefore /\ p[1] = u /\ p[2] = "trip" /\ p[1] \in Types /\ p[2] \in Types
    BY RunsBeforePairs
  <1> HIDE DEF p
  <1>2. \A g \in Sides : HasPlace(g, p[1], DOMAIN feed[g][p[1]])
    BY <1>1, ReferencesPlaced
  <1>3. \A g \in Sides : HasPlace(g, u, DOMAIN feed[g][u])
    BY <1>1, <1>2
  <1> QED BY <1>3, SameImages

\* The row that a route or a trip of the feeds becomes.
RouteRow(f, i, row) == row.agency = Image(f, "agency", AgencyOf(f, feed[f].route[i]))
TripRow(f, i, row) ==
    /\ row.route = Image(f, "route", feed[f].trip[i].route)
    /\ row.service = Image(f, "period", feed[f].trip[i].service)
    /\ row.shape = ImageOrNone(f, "shape", feed[f].trip[i].shape)
    /\ row.stop = Image(f, "stop", feed[f].trip[i].stop)

LEMMA FollowsRow ==
    ASSUME NEW f, NEW i
    PROVE  /\ Follows(f, "route", i) <=> RouteRow(f, i, merged["route"][Image(f, "route", i)])
           /\ Follows(f, "trip", i) <=> TripRow(f, i, merged["trip"][Image(f, "trip", i)])
  BY DEF Follows, RouteRow, TripRow

LEMMA SameRouteRow ==
    ASSUME IInv, LoadedOK, OrderOK, CompleteOK, [Next]_vars,
           \/ \E e \in DOMAIN merge_map : e[2] = "route"
           \/ mergers # << >> /\ Head(mergers) = "route",
           NEW f \in Sides, NEW i \in DOMAIN feed[f].route, NEW row
    PROVE  RouteRow(f, i, row)' <=> RouteRow(f, i, row)
  <1>1. feed' = feed
    BY MapSteps
  <1>2. AgencyOf(f, feed[f].route[i])' = AgencyOf(f, feed[f].route[i])
    BY <1>1 DEF AgencyOf
  <1>3. Image(f, "agency", AgencyOf(f, feed[f].route[i]))' =
           Image(f, "agency", AgencyOf(f, feed[f].route[i]))
    <2>1. \A c \in DOMAIN feed[f].agency : Image(f, "agency", c)' = Image(f, "agency", c)
      BY AgenciesPlaced
    <2>2. AgencyOf(f, feed[f].route[i]) \in DOMAIN feed[f].agency
      BY References
    <2> QED BY <1>2, <2>1, <2>2 DEF Image
  <1> QED BY <1>3 DEF RouteRow

LEMMA SameTripRow ==
    ASSUME IInv, LoadedOK, OrderOK, CompleteOK, [Next]_vars,
           \/ \E e \in DOMAIN merge_map : e[2] = "trip"
           \/ mergers # << >> /\ Head(mergers) = "trip",
           NEW f \in Sides, NEW i \in DOMAIN feed[f].trip, NEW row
    PROVE  TripRow(f, i, row)' <=> TripRow(f, i, row)
  <1>1. feed' = feed
    BY MapSteps
  <1>2. \A u \in {"period", "stop", "route", "shape"} : \A c \in DOMAIN feed[f][u] :
           Image(f, u, c)' = Image(f, u, c)
    BY TripReferencesPlaced
  <1> DEFINE e == feed[f].trip[i]
  <1>3. /\ e.route \in DOMAIN feed[f].route /\ e.service \in DOMAIN feed[f].period
        /\ e.stop \in DOMAIN feed[f].stop /\ e.shape \in DOMAIN feed[f].shape \cup {NoId}
    BY References
  <1>4. feed'[f].trip[i] = e
    BY <1>1
  <1>5. \A c \in DOMAIN feed[f].shape \cup {NoId} :
           ImageOrNone(f, "shape", c)' = ImageOrNone(f, "shape", c)
    BY <1>2 DEF ImageOrNone
  <1>6. Image(f, "route", feed[f].trip[i].route)' = Image(f, "route", e.route)
    BY <1>2, <1>3, <1>4 DEF Image
  <1>7. Image(f, "period", feed[f].trip[i].service)' = Image(f, "period", e.service)
    BY <1>2, <1>3, <1>4 DEF Image
  <1>8. Image(f, "stop", feed[f].trip[i].stop)' = Image(f, "stop", e.stop)
    BY <1>2, <1>3, <1>4 DEF Image
  <1>9. ImageOrNone(f, "shape", feed[f].trip[i].shape)' = ImageOrNone(f, "shape", e.shape)
    BY <1>3, <1>4, <1>5 DEF ImageOrNone, Image
  <1> QED BY <1>6, <1>7, <1>8, <1>9 DEF TripRow

\* A row that is there stays right.
LEMMA RowStays ==
    ASSUME IInv, LoadedOK, OrderOK, CompleteOK, TablesOK, RowsOK, [Next]_vars,
           NEW t \in {"route", "trip"}, NEW f \in Sides, NEW i \in DOMAIN feed[f][t],
           <<f, t, i>> \in DOMAIN merge_map
    PROVE  Follows(f, t, i)'
  <1>1. Image(f, t, i)' = Image(f, t, i)
    BY MapSteps DEF Image
  <1>2. t \in Types /\ t # "stop" /\ \E e \in DOMAIN merge_map : e[2] = t
    BY DEF Types
  <1>3. Image(f, t, i) \in DOMAIN merged[t]
    <2> DEFINE E == <<f, t, i>>
    <2>1. E \in DOMAIN merge_map /\ E[2] = t /\ Image(f, t, i) = merge_map[E]
      BY DEF Image
    <2> HIDE DEF E
    <2>2. merge_map[E] \in Union!Taken(t)
      BY <2>1 DEF Union!Taken
    <2> QED BY <1>2, <2>1, <2>2 DEF TablesOK
  <1>4. merged'[t][Image(f, t, i)] = merged[t][Image(f, t, i)]
    <2>1. DOMAIN merged = Types \cup {"rule", "transfer"}
      BY DEF TablesOK
    <2> QED BY <1>2, <1>3, <2>1, TableGrows
  <1>5. Follows(f, t, i)
    BY DEF RowsOK
  <1> DEFINE row == merged[t][Image(f, t, i)]
  <1>6. merged'[t][Image(f, t, i)'] = row
    BY <1>1, <1>4
  <1> HIDE DEF row
  <1>7. CASE t = "route"
    <2>1. RouteRow(f, i, row)
      BY <1>5, <1>7, FollowsRow DEF row
    <2>2. \A r : RouteRow(f, i, r)' <=> RouteRow(f, i, r)
      BY <1>2, <1>7, SameRouteRow
    <2>3. PICK r : r = row
      OBVIOUS
    <2>4. RouteRow(f, i, r)' /\ r = merged'[t][Image(f, t, i)']
      BY <1>6, <2>1, <2>2, <2>3
    <2> QED BY <1>7, <2>4 DEF Follows, RouteRow
  <1>8. CASE t = "trip"
    <2>1. TripRow(f, i, row)
      BY <1>5, <1>8, FollowsRow DEF row
    <2>2. \A r : TripRow(f, i, r)' <=> TripRow(f, i, r)
      BY <1>2, <1>8, SameTripRow
    <2>3. PICK r : r = row
      OBVIOUS
    <2>4. TripRow(f, i, r)' /\ r = merged'[t][Image(f, t, i)']
      BY <1>6, <2>1, <2>2, <2>3
    <2> QED BY <1>8, <2>4 DEF Follows, TripRow
  <1> QED BY <1>7, <1>8

\* The row of a merged pair of routes.
LEMMA PairRow ==
    ASSUME IInv, LoadedOK, OrderOK, CompleteOK, TablesOK, [Next]_vars,
           NEW t \in {"route", "trip"}, NEW i \in todo, MergePair(t, i), NEW f \in Sides
    PROVE  Follows(f, t, i)'
  <1>1. /\ Mergeable(t, i) /\ mergers # << >> /\ Head(mergers) = t
        /\ t # "stop" /\ AddObject(t, i, MergedEntity(t, i)) /\ t \in Types
    BY DEF MergePair, Running, Types
  <1>2. t = "route"
    BY <1>1 DEF Mergeable, NeverMerge
  <1>3. RouteScheme(feed["a"].route[i], feed["b"].route[i])
    BY <1>1, <1>2 DEF Mergeable
  <1>4. MergeSameAgency(feed["a"].route[i], feed["b"].route[i])
    BY <1>3 DEF RouteScheme
  <1>5. i \in DOMAIN feed["a"].route /\ i \in DOMAIN feed["b"].route
    BY <1>1, <1>2, MergePairPlaces
  <1>6. merge_map'[<<f, "route", i>>] = i
    <2>1. merge_map'[<<"a", t, i>>] = i /\ merge_map'[<<"b", t, i>>] = i
      BY <1>1, MergePairPlaces
    <2> QED BY <1>2, <2>1 DEF Sides
  <1> DEFINE y == feed["b"].route[i]
             g == Image("b", "agency", AgencyOf("b", y))
             row == MergedEntity("route", i)
  <1>7. DOMAIN y = {"val", "url", "agency"}
    BY <1>5 DEF LoadedOK, Resolves, Sides
  <1>8. row.agency = g
    <2>1. Migrated("b", "route", i) = [y EXCEPT !.agency = g]
      BY DEF Migrated, MigratedRoute
    <2> HIDE DEF y, g
    <2> QED BY <1>7, <2>1 DEF MergedEntity
  <1>9. merged'["route"][i] = row
    <2>1. i \notin DOMAIN merged["route"]
      <3>1. Union!Share(t, i)
        BY <1>1, MergePairShares
      <3> QED BY <1>1, <1>2, <3>1 DEF Union!Share, TablesOK
    <2>2. "route" \in DOMAIN merged
      BY <1>1, <1>2 DEF TablesOK
    <2> HIDE DEF row
    <2> QED BY <1>1, <1>2, <2>1, <2>2, AddedObject DEF row
  <1>10. g = Image(f, "agency", AgencyOf(f, feed[f].route[i]))
    BY <1>4 DEF MergeSameAgency, Sides
  <1>11. RouteRow(f, i, row)
    BY <1>8, <1>10 DEF RouteRow
  <1> HIDE DEF row, g, y
  <1>12. \A r : RouteRow(f, i, r)' <=> RouteRow(f, i, r)
    BY <1>1, <1>2, <1>5, SameRouteRow DEF Sides
  <1>13. PICK r : r = row
    OBVIOUS
  <1>14. RouteRow(f, i, r)' /\ r = merged'["route"][Image(f, "route", i)']
    BY <1>6, <1>9, <1>11, <1>12, <1>13 DEF Image
  <1> QED BY <1>2, <1>14 DEF Follows, RouteRow

\* The row of a copied route or trip.
LEMMA CopiedRow ==
    ASSUME IInv, LoadedOK, OrderOK, CompleteOK, TablesOK, [Next]_vars, NEW f \in Sides,
           NEW t \in {"route", "trip"}, NEW i \in todo, MigrateOne(f, t, i)
    PROVE  /\ Follows(f, t, i)'
           /\ merged'[t][merge_map'[<<f, t, i>>]] = Migrated(f, t, i)
           /\ merge_map'[<<f, t, i>>] \notin DOMAIN merged[t]
           /\ DOMAIN merged'[t] = DOMAIN merged[t] \cup {merge_map'[<<f, t, i>>]}
  <1> DEFINE n == merge_map'[<<f, t, i>>]
             e == feed[f][t][i]
  <1>1. t \in Types /\ t # "stop"
    BY DEF Types
  <1>2. n = IF HasId(Other(f), t, i) THEN generate_id(i) ELSE i
    BY <1>1 DEF MigrateOne, Put
  <1>3. mergers # << >> /\ Head(mergers) = t /\ AddObject(t, n, Migrated(f, t, i))
    BY <1>1, <1>2 DEF MigrateOne, Running
  <1>4. i \in DOMAIN feed[f][t]
    BY <1>1, MigrateOnePlaces
  <1>5. n \notin DOMAIN merged[t]
    <2>1. Union!Copy(f, t, i)
      BY <1>1, MigrateOneCopies
    <2> QED BY <1>1, <2>1 DEF Union!Copy, TablesOK
  <1>6. merged'[t][n] = Migrated(f, t, i) /\ DOMAIN merged'[t] = DOMAIN merged[t] \cup {n}
    <2>1. t \in DOMAIN merged
      BY <1>1 DEF TablesOK
    <2> HIDE DEF n
    <2> QED BY <1>3, <1>5, <2>1, AddedObject
  <1> DEFINE row == Migrated(f, t, i)
  <1>7. Image(f, t, i)' = n
    BY DEF Image
  <1>8. CASE t = "route"
    <2>1. DOMAIN e = {"val", "url", "agency"}
      BY <1>4, <1>8 DEF LoadedOK, Resolves
    <2>2. row = [e EXCEPT !.agency = Image(f, "agency", AgencyOf(f, e))]
      BY <1>8 DEF Migrated, MigratedRoute
    <2>3. RouteRow(f, i, row)
      <3> HIDE DEF row
      <3> QED BY <1>8, <2>1, <2>2 DEF RouteRow
    <2> HIDE DEF row, n
    <2>4. \A r : RouteRow(f, i, r)' <=> RouteRow(f, i, r)
      BY <1>3, <1>4, <1>8, SameRouteRow
    <2>5. PICK r : r = row
      OBVIOUS
    <2>6. RouteRow(f, i, r)' /\ r = merged'["route"][Image(f, "route", i)']
      BY <1>6, <1>7, <1>8, <2>3, <2>4, <2>5 DEF row
    <2>7. Follows(f, t, i)'
      BY <1>8, <2>6 DEF Follows, RouteRow
    <2> QED BY <1>5, <1>6, <2>7 DEF n
  <1>9. CASE t = "trip"
    <2>1. DOMAIN e = {"route", "service", "shape", "stop", "block"}
      BY <1>4, <1>9 DEF LoadedOK, Resolves
    <2>2. row = MigratedTrip(f, e)
      BY <1>9 DEF Migrated
    <2>3. TripRow(f, i, row)
      <3> HIDE DEF row
      <3>1. e = feed[f].trip[i]
        BY <1>9
      <3>2. /\ row.route = Image(f, "route", e.route)
            /\ row.service = Image(f, "period", e.service)
            /\ row.shape = ImageOrNone(f, "shape", e.shape)
            /\ row.stop = Image(f, "stop", e.stop)
        <4> HIDE DEF e
        <4> QED BY <2>1, <2>2 DEF MigratedTrip
      <3> QED BY <3>1, <3>2 DEF TripRow
    <2> HIDE DEF row, n
    <2>4. \A r : TripRow(f, i, r)' <=> TripRow(f, i, r)
      BY <1>3, <1>4, <1>9, SameTripRow
    <2>5. PICK r : r = row
      OBVIOUS
    <2>6. TripRow(f, i, r)' /\ r = merged'["trip"][Image(f, "trip", i)']
      BY <1>6, <1>7, <1>9, <2>3, <2>4, <2>5 DEF row
    <2>7. Follows(f, t, i)'
      BY <1>9, <2>6 DEF Follows, TripRow
    <2> QED BY <1>5, <1>6, <2>7 DEF n
  <1> QED BY <1>8, <1>9

LEMMA CopyGrows ==
    ASSUME IInv, NEW f \in Sides, NEW t \in Types, NEW i \in todo, MigrateOne(f, t, i)
    PROVE  DOMAIN merge_map' = DOMAIN merge_map \cup {<<f, t, i>>}
  BY MigrateOnePlaces

LEMMA RowsFollow ==
    ASSUME IInv, LoadedOK, OrderOK, CompleteOK, TablesOK, RowsOK, [Next]_vars,
           NEW t \in {"route", "trip"}, NEW f \in Sides, NEW i \in DOMAIN feed[f][t],
           <<f, t, i>> \in DOMAIN merge_map'
    PROVE  Follows(f, t, i)'
  <1>1. CASE <<f, t, i>> \in DOMAIN merge_map
    BY <1>1, RowStays
  <1>2. ASSUME NEW u \in Types, NEW j \in todo, MergePair(u, j), <<f, t, i>> \notin DOMAIN merge_map
        PROVE  Follows(f, t, i)'
    <2>1. DOMAIN merge_map' = DOMAIN merge_map \cup {<<"a", u, j>>, <<"b", u, j>>}
      BY <1>2, MergePairPlaces
    <2>2. u = t /\ j = i
      BY <1>2, <2>1
    <2> QED BY <1>2, <2>2, PairRow
  <1>3. ASSUME NEW g \in Sides, NEW u \in Types, NEW j \in todo, MigrateOne(g, u, j),
               <<f, t, i>> \notin DOMAIN merge_map
        PROVE  Follows(f, t, i)'
    <2>1. DOMAIN merge_map' = DOMAIN merge_map \cup {<<g, u, j>>}
      BY <1>3, CopyGrows
    <2>2. g = f /\ u = t /\ j = i
      BY <1>3, <2>1
    <2> QED BY <1>3, <2>2, CopiedRow
  <1>4. ASSUME \/ \E u \in Types : Begin(u) \/ ScanNew(u) \/ OldIsMigrated(u) \/ EndSameId(u)
               \/ \E u \in Types : \E j \in todo : NoPartner(u, j) \/ NotMerged(u, j)
               \/ NextZonePass \/ MergeFareRules \/ MergeTransfers
               \/ \E j \in todo : KeepZone(j) \/ \E g \in Sides : MoveZone(g, j)
        PROVE  UNCHANGED merge_map
    BY <1>4 DEF Begin, ScanNew, OldIsMigrated, EndSameId, NoPartner, NotMerged, NextZonePass,
                MergeFareRules, MergeTransfers, KeepZone, MoveZone
  <1> QED BY <1>1, <1>2, <1>3, <1>4, StepKinds

\* A route id of a feed that is taken in the merged feed is the route it became.
LEMMA RouteKept ==
    ASSUME IInv, ImagesOK, TablesOK, NEW f \in Sides, NEW r \in DOMAIN feed[f].route,
           r \in DOMAIN merged["route"], <<f, "route", r>> \in DOMAIN merge_map
    PROVE  Image(f, "route", r) = r
  <1>1. "route" \in Types \ {"stop"}
    BY DEF Types
  <1>2. PICK e \in DOMAIN merge_map : e[2] = "route" /\ merge_map[e] = r
    BY <1>1 DEF TablesOK, Union!Taken
  <1>3. /\ e[1] \in Sides /\ e = <<e[1], "route", e[3]>> /\ e[3] \in DOMAIN feed[e[1]].route
        /\ r = e[3] \/ Generated(r)
    BY <1>2 DEF IInv, MapOK, IsEntity
  <1>4. ~Generated(r)
    <2> SUFFICES ASSUME Generated(r) PROVE FALSE
      OBVIOUS
    <2>1. Postfix(r) \in Nat /\ Postfix(r) < Postfix(r)
      BY <1>1 DEF Generated, Above
    <2> QED BY <2>1
  <1>5. r = e[3] /\ e = <<e[1], "route", r>>
    BY <1>3, <1>4
  <1>6. CASE e[1] = f
    BY <1>2, <1>5, <1>6 DEF Image
  <1>7. CASE e[1] # f
    <2>1. e[1] = Other(f) /\ Other(f) \in Sides /\ Other(Other(f)) = f
      BY <1>3, <1>7 DEF Sides, Other
    <2>2. r \in DOMAIN feed[Other(Other(f))]["route"]
      BY <2>1
    <2>3. <<Other(f), "route", r>> \in DOMAIN merge_map /\ merge_map[<<Other(f), "route", r>>] = r
      BY <1>2, <1>5, <2>1
    <2>4. merge_map[<<Other(Other(f)), "route", r>>] = r
      BY <1>1, <2>1, <2>2, <2>3 DEF ImagesOK
    <2> QED BY <2>1, <2>4 DEF Image
  <1> QED BY <1>6, <1>7

LEMMA ListedStep ==
    ASSUME IInv, LoadedOK, OrderOK, CompleteOK, ImagesOK, TablesOK, RowsOK, [Next]_vars
    PROVE  ListedTripsBelong'
  <1>1. \A p \in listed : p[2] \in DOMAIN merged'["trip"] /\ merged'["trip"][p[2]].route = p[1]
    <2>1. DOMAIN merged = Types \cup {"rule", "transfer"}
      BY DEF TablesOK
    <2>2. \A m \in DOMAIN merged["trip"] :
             m \in DOMAIN merged'["trip"] /\ merged'["trip"][m] = merged["trip"][m]
      BY <2>1, TableGrows DEF Types
    <2> QED BY <2>2 DEF RowsOK, ListedTripsBelong
  <1>2. ASSUME NEW f \in Sides, NEW i \in todo, MigrateOne(f, "trip", i)
        PROVE  ListedTripsBelong'
    <2> DEFINE n == merge_map'[<<f, "trip", i>>]
               r == feed[f].trip[i].route
    <2>1. n = IF HasId(Other(f), "trip", i) THEN generate_id(i) ELSE i
      BY <1>2 DEF MigrateOne, Put
    <2>2. mergers # << >> /\ Head(mergers) = "trip" /\ ListTrip(f, n, i)
      BY <1>2, <2>1 DEF MigrateOne, Running
    <2> "trip" \in Types
      BY RunsBeforePairs
    <2>3. i \in DOMAIN feed[f].trip
      BY <1>2, MigrateOnePlaces
    <2>4. r \in DOMAIN feed[f].route /\ DOMAIN feed[f].trip[i] = {"route", "service", "shape", "stop", "block"}
      BY <2>3, References DEF LoadedOK, Resolves
    <2>5. <<f, "route", r>> \in DOMAIN merge_map
      BY <2>2, <2>4, TripReferencesPlaced
    <2>6. merged'["trip"][n] = Migrated(f, "trip", i) /\ n \in DOMAIN merged'["trip"]
      BY <1>2, CopiedRow
    <2>7. Migrated(f, "trip", i).route = Image(f, "route", r)
      <3>1. Migrated(f, "trip", i) = MigratedTrip(f, feed[f].trip[i])
        BY DEF Migrated
      <3>2. DEFINE e == feed[f].trip[i]
      <3>3. r = e.route
        OBVIOUS
      <3> HIDE DEF e
      <3> QED BY <2>4, <3>1, <3>3 DEF MigratedTrip, e
    <2>8. r \in DOMAIN merged["route"] => Image(f, "route", r) = r
      BY <2>4, <2>5, RouteKept
    <2>9. listed' = IF r \in DOMAIN merged["route"] THEN listed \cup {<<r, n>>} ELSE listed
      BY <2>2 DEF ListTrip
    <2> HIDE DEF n, r
    <2> QED BY <1>1, <2>6, <2>7, <2>8, <2>9 DEF ListedTripsBelong
  <1>3. ASSUME NEW f \in Sides, NEW t \in Types, NEW i \in todo, MigrateOne(f, t, i), t # "trip"
        PROVE  UNCHANGED listed
    BY <1>3 DEF MigrateOne
  <1>4. ASSUME \/ \E u \in Types : Begin(u) \/ ScanNew(u) \/ OldIsMigrated(u) \/ EndSameId(u)
               \/ \E u \in Types : \E j \in todo :
                     NoPartner(u, j) \/ NotMerged(u, j) \/ MergePair(u, j)
               \/ NextZonePass \/ MergeFareRules \/ MergeTransfers
               \/ \E j \in todo : KeepZone(j) \/ \E g \in Sides : MoveZone(g, j)
        PROVE  UNCHANGED listed
    BY <1>4 DEF Begin, ScanNew, OldIsMigrated, EndSameId, NoPartner, NotMerged, NextZonePass,
                MergePair, MergeFareRules, MergeTransfers, KeepZone, MoveZone
  <1>5. ASSUME UNCHANGED listed PROVE ListedTripsBelong'
    BY <1>1, <1>5 DEF ListedTripsBelong
  <1> QED BY <1>2, <1>3, <1>4, <1>5, StepKinds

\* A fare rule moves into a zone of the merged stops.
LEMMA RuleZones ==
    ASSUME IInv, LoadedOK, OrderOK, SplitOK, CompleteOK, TablesOK, StopsOK,
           Finished("stop"), NEW f \in Sides, NEW r \in feed[f].rule
    PROVE  MigratedRule(f, r).zone \in
              {merged["stop"][n].zone : n \in DOMAIN merged["stop"]} \cup {NoId}
  <1>1. MigratedRule(f, r).zone = IF r.zone = NoId THEN NoId ELSE zone_map[f][r.zone]
    BY DEF MigratedRule
  <1>2. CASE r.zone # NoId
    <2>1. PICK i \in DOMAIN feed[f].stop : r.zone = feed[f].stop[i].zone
      BY <1>2 DEF LoadedOK, Resolves
    <2>2. Pending(f) = {}
      BY DEF Pending
    <2>3. merged["stop"][Image(f, "stop", i)].zone = zone_map[f][r.zone]
      BY <2>1, <2>2 DEF StopsOK
    <2>4. Image(f, "stop", i) \in DOMAIN merged["stop"]
      <3> DEFINE E == <<f, "stop", i>>
      <3>1. E \in DOMAIN merge_map
        BY DEF CompleteOK, HasPlace, Types
      <3>2. E[2] = "stop" /\ E[3] \notin Pending(E[1])
        BY <2>2
      <3>3. E \in StopsDone
        BY <3>1, <3>2, Zenon DEF StopsDone
      <3> QED BY <3>3 DEF TablesOK, Image
    <2> QED BY <1>1, <1>2, <2>3, <2>4
  <1>3. CASE r.zone = NoId
    BY <1>1, <1>3
  <1> QED BY <1>2, <1>3

\* The stops of a transfer are in the merged table.
LEMMA TransferStops ==
    ASSUME IInv, LoadedOK, CompleteOK, TablesOK, Finished("stop"), NEW f \in Sides,
           NEW k \in DOMAIN MigratedTransfers(f)
    PROVE  {k[1], k[2]} \subseteq DOMAIN merged["stop"] \cup {NoId}
  <1>1. PICK h \in DOMAIN feed[f].transfer :
           k = <<ImageOrNone(f, "stop", h[1]), ImageOrNone(f, "stop", h[2])>>
    BY DEF MigratedTransfers
  <1>2. {h[1], h[2]} \subseteq DOMAIN feed[f].stop \cup {NoId}
    BY DEF LoadedOK, Resolves
  <1>3. Pending(f) = {}
    BY DEF Pending
  <1>4. \A i \in DOMAIN feed[f].stop : Image(f, "stop", i) \in DOMAIN merged["stop"]
    <2> SUFFICES ASSUME NEW i \in DOMAIN feed[f].stop
                 PROVE  Image(f, "stop", i) \in DOMAIN merged["stop"]
      OBVIOUS
    <2> DEFINE E == <<f, "stop", i>>
    <2>1. E \in DOMAIN merge_map
      BY DEF CompleteOK, HasPlace, Types
    <2>2. E[2] = "stop" /\ E[3] \notin Pending(E[1])
      BY <1>3
    <2>3. E \in StopsDone
      BY <2>1, <2>2, Zenon DEF StopsDone
    <2> QED BY <2>3 DEF TablesOK, Image
  <1>5. \A i \in DOMAIN feed[f].stop \cup {NoId} :
           ImageOrNone(f, "stop", i) \in DOMAIN merged["stop"] \cup {NoId}
    BY <1>4 DEF ImageOrNone
  <1> QED BY <1>1, <1>2, <1>5

LEMMA StopReadersWait ==
    ASSUME IInv, OrderOK, mergers # << >>, Head(mergers) \in {"rule", "transfer"}
    PROVE  Finished("stop")
  <1> DEFINE p == <<"stop", Head(mergers)>>
  <1>1. p \in RunsBefore /\ p[1] = "stop" /\ p[2] = Head(mergers)
    BY DEF RunsBefore
  <1> HIDE DEF p
  <1> QED BY <1>1, EarlierFinished

LEMMA RowsStep ==
    ASSUME IInv, LoadedOK, OrderOK, SplitOK, CompleteOK, ImagesOK, TablesOK, StopsOK, RowsOK,
           [Next]_vars
    PROVE  RowsOK'
  <1>1. DOMAIN merged = Types \cup {"rule", "transfer"} /\ feed' = feed
    BY MapSteps DEF TablesOK
  <1>2. \A n \in DOMAIN merged["stop"] :
           n \in DOMAIN merged'["stop"] /\ merged'["stop"][n] = merged["stop"][n]
    BY <1>1, TableGrows DEF Types
  <1>3. Finished("stop") => Finished("stop")'
    <2>1. CASE UNCHANGED mergers
      BY <2>1, SameList
    <2>2. CASE mergers # << >> /\ NextMerger
      BY <2>2, ShorterList
    <2> QED BY <2>1, <2>2, ControlSteps
  <1> DEFINE Zones == {merged["stop"][n].zone : n \in DOMAIN merged["stop"]} \cup {NoId}
             Stops == DOMAIN merged["stop"] \cup {NoId}
  <1>4. Zones \subseteq {merged'["stop"][n].zone : n \in DOMAIN merged'["stop"]} \cup {NoId}
    BY <1>2
  <1>5. Stops \subseteq DOMAIN merged'["stop"] \cup {NoId}
    BY <1>2
  <1>6. \A r \in merged["rule"] : Finished("stop") /\ r.zone \in Zones
    BY DEF RowsOK
  <1>7. \A k \in DOMAIN merged["transfer"] : {k[1], k[2]} \subseteq Stops
    BY DEF RowsOK
  <1>8. ASSUME \/ \E u \in Types : Begin(u) \/ ScanNew(u) \/ OldIsMigrated(u) \/ EndSameId(u)
               \/ \E u \in Types : \E j \in todo : NoPartner(u, j) \/ NotMerged(u, j)
               \/ NextZonePass
        PROVE  UNCHANGED merged
    BY <1>8 DEF Begin, ScanNew, OldIsMigrated, EndSameId, NoPartner, NotMerged, NextZonePass
  <1>9. ASSUME \/ \E u \in Types : \E j \in todo :
                     MergePair(u, j) \/ \E g \in Sides : MigrateOne(g, u, j)
               \/ \E j \in todo : KeepZone(j) \/ \E g \in Sides : MoveZone(g, j)
        PROVE  UNCHANGED <<merged["rule"], merged["transfer"]>>
    <2>1. UNCHANGED merged \/ \E t \in Types : \E n, e : AddObject(t, n, e)
      <3>1. ASSUME NEW u \in Types, NEW j \in todo, MergePair(u, j)
            PROVE  UNCHANGED merged \/ AddObject(u, j, MergedEntity(u, j))
        BY <3>1 DEF MergePair
      <3>2. ASSUME NEW u \in Types, NEW j \in todo, NEW g \in Sides, MigrateOne(g, u, j)
            PROVE  UNCHANGED merged \/ \E n, e : AddObject(u, n, e)
        BY <3>2 DEF MigrateOne
      <3>3. ASSUME NEW j \in todo, KeepZone(j) \/ \E g \in Sides : MoveZone(g, j)
            PROVE  \E n, e : AddObject("stop", n, e)
        BY <3>3 DEF KeepZone, MoveZone
      <3>4. "stop" \in Types
        BY DEF Types
      <3> QED BY <1>9, <3>1, <3>2, <3>3, <3>4, Zenon
    <2>2. ASSUME NEW t \in Types, NEW n, NEW e, AddObject(t, n, e)
          PROVE  UNCHANGED <<merged["rule"], merged["transfer"]>>
      <3>1. \A u \in DOMAIN merged : u # t => merged'[u] = merged[u]
        BY <1>1, <2>2, AddedObject
      <3>2. t # "rule" /\ t # "transfer"
        BY DEF Types
      <3> QED BY <1>1, <3>1, <3>2
    <2> QED BY <2>1, <2>2
  <1>10. ASSUME MergeFareRules
         PROVE  /\ merged'["transfer"] = merged["transfer"]
                /\ \A r \in merged'["rule"] : Finished("stop") /\ r.zone \in Zones
    <2>1. /\ merged' = [merged EXCEPT !["rule"] =
                {MigratedRule("a", r) : r \in feed["a"].rule}
                   \cup {MigratedRule("b", r) : r \in feed["b"].rule}]
          /\ mergers # << >> /\ Head(mergers) = "rule"
      BY <1>10 DEF MergeFareRules, Running
    <2>2. Finished("stop")
      BY <2>1, StopReadersWait
    <2>3. /\ \A r \in feed["a"].rule : MigratedRule("a", r).zone \in Zones
          /\ \A r \in feed["b"].rule : MigratedRule("b", r).zone \in Zones
      BY <2>2, RuleZones DEF Sides
    <2> HIDE DEF Zones
    <2> QED BY <1>1, <2>1, <2>2, <2>3
  <1>11. ASSUME MergeTransfers
         PROVE  /\ merged'["rule"] = merged["rule"]
                /\ \A k \in DOMAIN merged'["transfer"] : {k[1], k[2]} \subseteq Stops
    <2> DEFINE A == MigratedTransfers("a")
               B == MigratedTransfers("b")
    <2>1. /\ merged' = [merged EXCEPT !["transfer"] = KeepNew(A, B)]
          /\ mergers # << >> /\ Head(mergers) = "transfer"
      BY <1>11 DEF MergeTransfers, Running
    <2>2. Finished("stop")
      BY <2>1, StopReadersWait
    <2>3. /\ \A k \in DOMAIN A : {k[1], k[2]} \subseteq Stops
          /\ \A k \in DOMAIN B : {k[1], k[2]} \subseteq Stops
      BY <2>2, TransferStops DEF Sides
    <2> HIDE DEF A, B
    <2>4. DOMAIN KeepNew(A, B) = DOMAIN A \cup DOMAIN B
      BY DEF KeepNew
    <2>5. merged'["transfer"] = KeepNew(A, B) /\ merged'["rule"] = merged["rule"]
      BY <1>1, <2>1
    <2> HIDE DEF Stops
    <2> QED BY <2>3, <2>4, <2>5
  <1> HIDE DEF Zones, Stops
  <1>12. /\ \A r \in merged'["rule"] : Finished("stop") /\ r.zone \in Zones
         /\ \A k \in DOMAIN merged'["transfer"] : {k[1], k[2]} \subseteq Stops
    BY <1>6, <1>7, <1>8, <1>9, <1>10, <1>11, StepKinds
  <1>13. \A r \in merged'["rule"] :
            /\ Finished("stop")'
            /\ r.zone \in {merged'["stop"][n].zone : n \in DOMAIN merged'["stop"]} \cup {NoId}
    BY <1>3, <1>4, <1>12
  <1>14. \A k \in DOMAIN merged'["transfer"] : {k[1], k[2]} \subseteq DOMAIN merged'["stop"] \cup {NoId}
    BY <1>5, <1>12
  <1>15. \A t \in {"route", "trip"} : \A f \in Sides : \A i \in DOMAIN feed[f][t] :
            <<f, t, i>> \in DOMAIN merge_map' => Follows(f, t, i)'
    BY RowsFollow
  <1> QED BY <1>1, <1>13, <1>14, <1>15, ListedStep DEF RowsOK

-----------------------------------------------------------------------------
(* Counts of warnings and statistics *)

LEMMA DisjointSum ==
    ASSUME NEW S, NEW T, NEW U, IsFiniteSet(U), S \cup T = U, S \cap T = {}
    PROVE  /\ IsFiniteSet(S) /\ IsFiniteSet(T)
           /\ Cardinality(S) \in Nat /\ Cardinality(T) \in Nat /\ Cardinality(U) \in Nat
           /\ Cardinality(S) + Cardinality(T) = Cardinality(U)
  <1>1. S \in SUBSET U /\ T \in SUBSET U
    OBVIOUS
  <1>2. IsFiniteSet(S) /\ IsFiniteSet(T)
    BY <1>1, FS_Subset
  <1>3. Cardinality(S) \in Nat /\ Cardinality(T) \in Nat /\ Cardinality(U) \in Nat
    BY <1>2, FS_CardinalityType
  <1>4. Cardinality(S \cup T) = Cardinality(S) + Cardinality(T) - Cardinality(S \cap T)
    BY <1>2, FS_Union
  <1>5. Cardinality(S \cap T) = 0
    BY FS_EmptySet
  <1>6. Cardinality(U) = Cardinality(S) + Cardinality(T) - 0
    BY <1>4, <1>5
  <1>7. Cardinality(S) + Cardinality(T) = Cardinality(U)
    BY <1>3, <1>6
  <1> QED BY <1>2, <1>3, <1>7

LEMMA ListShrinks ==
    ASSUME IInv, OrderOK, [Next]_vars
    PROVE  \A t : (Waiting(t)' => Waiting(t)) /\ (Finished(t) => Finished(t)')
  <1>1. CASE UNCHANGED <<mergers, phase>>
    BY <1>1, SameList
  <1>2. CASE UNCHANGED mergers /\ phase' \in {"pairs", "a", "b"} \cup ZonePhases
    BY <1>2, SameList DEF ZonePhases
  <1>3. CASE mergers # << >> /\ NextMerger
    BY <1>3, ShorterList
  <1> QED BY <1>1, <1>2, <1>3, ControlSteps

\* The steps that warn.
LEMMA WarningSteps ==
    ASSUME [Next]_vars
    PROVE  \/ UNCHANGED warnings
           \/ \E t \in Types \ NeverMerge : \E i \in todo :
                 NotMerged(t, i) /\ warnings' = Warned(t)
           \/ \E t \in NeverMerge : EndSameId(t) /\ warnings' = Warned(t)
           \/ MergeFareRules /\ warnings' = Warned("rule")
  <1>1. ASSUME NEW t \in Types, NEW i \in todo, NotMerged(t, i)
        PROVE  UNCHANGED warnings \/ (t \notin NeverMerge /\ warnings' = Warned(t))
    BY <1>1 DEF NotMerged
  <1>2. ASSUME NEW t \in Types, EndSameId(t)
        PROVE  UNCHANGED warnings \/ (t \in NeverMerge /\ warnings' = Warned(t))
    BY <1>2 DEF EndSameId
  <1>3. ASSUME MergeFareRules PROVE UNCHANGED warnings \/ warnings' = Warned("rule")
    BY <1>3 DEF MergeFareRules
  <1>4. ASSUME \/ \E u \in Types : Begin(u) \/ ScanNew(u) \/ OldIsMigrated(u)
               \/ \E u \in Types : \E j \in todo : NoPartner(u, j) \/ MergePair(u, j)
               \/ \E g \in Sides : \E u \in Types : \E j \in todo : MigrateOne(g, u, j)
               \/ NextZonePass \/ MergeTransfers
               \/ \E j \in todo : KeepZone(j)
               \/ \E g \in Sides : \E j \in todo : MoveZone(g, j)
        PROVE  UNCHANGED warnings
    BY <1>4, ZenonT(60) DEF Begin, ScanNew, OldIsMigrated, NoPartner, MergePair, MigrateOne, NextZonePass,
                MergeTransfers, KeepZone, MoveZone, results
  <1> QED BY <1>1, <1>2, <1>3, <1>4, StepKinds

\* One more warning.
LEMMA WarnedOnce ==
    ASSUME warnings \in [Types \cup {"rule"} -> Nat], NEW t \in Types \cup {"rule"},
           warnings' = Warned(t)
    PROVE  /\ warnings' \in [Types \cup {"rule"} -> Nat]
           /\ warnings'[t] = warnings[t] + 1 /\ warnings'[t] > 0
           /\ \A u \in Types \cup {"rule"} : u # t => warnings'[u] = warnings[u]
           /\ \A u \in Types \cup {"rule"} : warnings'[u] >= warnings[u]
  BY DEF Warned

LEMMA WarningsGrow ==
    ASSUME CountsOK, [Next]_vars
    PROVE  /\ warnings' \in [Types \cup {"rule"} -> Nat]
           /\ \A u \in Types \cup {"rule"} : warnings[u] \in Nat /\ warnings'[u] \in Nat
                                               /\ warnings'[u] >= warnings[u]
           /\ \A u \in Types \ NeverMerge : warnings'[u] # warnings[u] =>
                 \E i \in todo : NotMerged(u, i) /\ warnings' = Warned(u)
  <1>1. warnings \in [Types \cup {"rule"} -> Nat]
    BY DEF CountsOK
  <1> DEFINE Goal ==
           /\ warnings' \in [Types \cup {"rule"} -> Nat]
           /\ \A u \in Types \cup {"rule"} : warnings'[u] >= warnings[u]
           /\ \A u \in Types \ NeverMerge : warnings'[u] # warnings[u] =>
                 \E i \in todo : NotMerged(u, i) /\ warnings' = Warned(u)
  <1>2. ASSUME UNCHANGED warnings PROVE Goal
    BY <1>1, <1>2
  <1>3. ASSUME NEW t \in Types \ NeverMerge, NEW i \in todo, NotMerged(t, i), warnings' = Warned(t)
        PROVE  Goal
    BY <1>1, <1>3, WarnedOnce
  <1>4. ASSUME NEW t \in NeverMerge, warnings' = Warned(t) PROVE Goal
    <2>1. t \in Types
      BY DEF NeverMerge, Types
    <2> QED BY <1>1, <1>4, <2>1, WarnedOnce
  <1>5. ASSUME warnings' = Warned("rule") PROVE Goal
    <2>1. "rule" \notin Types
      BY DEF Types
    <2> QED BY <1>1, <1>5, <2>1, WarnedOnce
  <1> HIDE DEF Goal
  <1>6. Goal
    BY <1>2, <1>3, <1>4, <1>5, WarningSteps
  <1> QED BY <1>1, <1>6 DEF Goal

\* What CountsOK says of a merger that may merge.
Counted(t) ==
    /\ Waiting(t) => warnings[t] = 0
    /\ (mergers # << >> /\ Head(mergers) = t) =>
          /\ phase = "pairs" => warnings[t] = Cardinality(bRest)
          /\ phase \in {"a", "b"} => warnings[t] = Cardinality(Pairs(t) \ both)

LEMMA CountedStep ==
    ASSUME IInv, LoadedOK, OrderOK, SplitOK, CountsOK, [Next]_vars, NEW t \in Types \ NeverMerge
    PROVE  Counted(t)'
  <1>1. Counted(t) /\ feed' = feed /\ warnings \in [Types \cup {"rule"} -> Nat]
    BY MapSteps DEF CountsOK, Counted
  <1>2. \A u \in Types \ NeverMerge : warnings'[u] # warnings[u] =>
           \E i \in todo : NotMerged(u, i) /\ warnings' = Warned(u)
    BY WarningsGrow
  <1>3. Waiting(t)' => warnings'[t] = 0
    <2> SUFFICES ASSUME Waiting(t)', warnings'[t] # 0 PROVE FALSE
      OBVIOUS
    <2>1. Waiting(t) /\ warnings[t] = 0
      BY <1>1, ListShrinks DEF Counted
    <2>2. PICK i \in todo : NotMerged(t, i)
      BY <1>2, <2>1
    <2>3. mergers # << >> /\ Head(mergers) = t /\ phase # "start"
      BY <2>2 DEF NotMerged, Running
    <2> QED BY <2>1, <2>3, HeadFacts
  <1>4. ASSUME phase' \notin {"pairs", "a", "b"} PROVE Counted(t)'
    BY <1>3, <1>4 DEF Counted
  <1>5. ASSUME UNCHANGED <<mergers, phase, bRest, warnings>>, phase = "pairs" PROVE Counted(t)'
    BY <1>1, <1>3, <1>5 DEF Counted
  <1>6. ASSUME UNCHANGED <<mergers, both, warnings>>, phase \in {"a", "b"}, phase' \in {"a", "b"}
        PROVE  Counted(t)'
    BY <1>1, <1>3, <1>6 DEF Counted, Pairs
  <1>7. ASSUME NEW u \in Types, Begin(u) PROVE Counted(t)'
    <2>1. /\ mergers # << >> /\ Head(mergers) = u /\ phase = "start" /\ phase' = "pairs"
          /\ UNCHANGED <<mergers, warnings>> /\ bRest' = {}
      BY <1>7 DEF Begin, Running, results
    <2>2. Waiting(u)
      BY <2>1, HeadFacts
    <2>3. Cardinality(bRest') = 0
      BY <2>1, FS_EmptySet
    <2> QED BY <1>1, <1>3, <2>1, <2>2, <2>3 DEF Counted
  <1>8. ASSUME NEW u \in Types, NEW i \in todo, NoPartner(u, i) \/ MergePair(u, i)
        PROVE  UNCHANGED <<mergers, phase, bRest, warnings>> /\ phase = "pairs"
    BY <1>8 DEF NoPartner, MergePair, results
  <1>9. ASSUME NEW u \in Types, NEW i \in todo, NotMerged(u, i) PROVE Counted(t)'
    <2>1. /\ mergers # << >> /\ Head(mergers) = u /\ phase = "pairs" /\ UNCHANGED <<mergers, phase>>
          /\ bRest' = bRest \cup {i}
          /\ warnings' = IF u \in NeverMerge THEN warnings ELSE Warned(u)
      BY <1>9 DEF NotMerged, Running
    <2>2. CASE u # t
      BY <1>3, <2>1, <2>2 DEF Counted
    <2>3. CASE u = t
      <3>1. PairsOK(t)
        BY <2>1, <2>3 DEF IInv, StageOK
      <3>2. i \notin bRest /\ bRest \in SUBSET DOMAIN feed["b"][t]
        BY <3>1 DEF PairsOK
      <3>3. IsFiniteSet(bRest)
        BY <3>2, FS_Subset DEF LoadedOK, Sides
      <3>4. Cardinality(bRest \cup {i}) = Cardinality(bRest) + 1
        BY <3>2, <3>3, FS_AddElement
      <3>5. warnings'[t] = warnings[t] + 1
        BY <1>1, <2>1, <2>3, WarnedOnce
      <3>6. warnings[t] = Cardinality(bRest)
        BY <1>1, <2>1, <2>3 DEF Counted
      <3>7. warnings'[t] = Cardinality(bRest')
        BY <2>1, <3>4, <3>5, <3>6
      <3> QED BY <1>3, <2>1, <3>7 DEF Counted
    <2> QED BY <2>2, <2>3
  <1>10. ASSUME NEW u \in Types, ScanNew(u) PROVE Counted(t)'
    <2>1. /\ mergers # << >> /\ Head(mergers) = u /\ phase = "pairs" /\ phase' = "a" /\ todo = {}
          /\ UNCHANGED <<mergers, both, warnings>>
      BY <1>10 DEF ScanNew, Running, results
    <2>2. CASE u # t
      BY <1>3, <2>1, <2>2 DEF Counted
    <2>3. CASE u = t
      <3>1. PairsSplit(t)
        BY <2>1, <2>3 DEF SplitOK
      <3>2. bRest = Pairs(t) \ both
        BY <2>1, <3>1 DEF PairsSplit, Pairs
      <3>3. Pairs(t)' = Pairs(t)
        BY <1>1 DEF Pairs
      <3> QED BY <1>1, <1>3, <2>1, <2>3, <3>2, <3>3 DEF Counted
    <2> QED BY <2>2, <2>3
  <1>11. ASSUME \/ \E u \in Types : OldIsMigrated(u)
                \/ \E f \in Sides : \E u \in Types : \E i \in todo : MigrateOne(f, u, i)
         PROVE  UNCHANGED <<mergers, both, warnings>> /\ phase \in {"a", "b"} /\ phase' \in {"a", "b"}
    BY <1>11 DEF OldIsMigrated, MigrateOne, Sides, results
  <1>12. ASSUME \/ \E u \in Types : EndSameId(u)
                \/ NextZonePass \/ MergeFareRules \/ MergeTransfers
         PROVE  phase' \notin {"pairs", "a", "b"}
    BY <1>12 DEF EndSameId, NextZonePass, MergeFareRules, MergeTransfers, NextMerger
  <1>14. ASSUME NEW i \in todo, KeepZone(i) \/ \E f \in Sides : MoveZone(f, i)
         PROVE  phase' \notin {"pairs", "a", "b"}
    <2>1. phase \in ZonePhases /\ phase' = phase
      BY <1>14 DEF KeepZone, MoveZone, ZonePass, ZonePhases, Sides
    <2> QED BY <2>1 DEF ZonePhases
  <1>13. ASSUME UNCHANGED <<control, warnings>> PROVE Counted(t)'
    <2>1. UNCHANGED <<mergers, phase, both, bRest, warnings>>
      BY <1>13 DEF control
    <2> QED BY <1>1, <2>1 DEF Counted, Waiting, Pairs
  <1> QED BY <1>4, <1>5, <1>6, <1>7, <1>8, <1>9, <1>10, <1>11, <1>12, <1>13, <1>14, StepKinds

LEMMA CountsStep ==
    ASSUME IInv, LoadedOK, OrderOK, SplitOK, CountsOK, [Next]_vars
    PROVE  CountsOK'
  <1>1. /\ warnings' \in [Types \cup {"rule"} -> Nat]
        /\ \A u \in Types \cup {"rule"} : /\ warnings[u] \in Nat /\ warnings'[u] \in Nat
                                          /\ warnings'[u] >= warnings[u]
    BY WarningsGrow
  <1>2. ASSUME NEW t \in NeverMerge, Finished(t)' PROVE warnings'[t] > 0
    <2>1. t \in Types /\ t \notin {"stop", "rule", "transfer"}
      BY DEF NeverMerge, Types
    <2>2. CASE Finished(t)
      <3>1. warnings[t] > 0
        BY <2>2 DEF CountsOK
      <3>2. warnings[t] \in Nat /\ warnings'[t] \in Nat /\ warnings'[t] >= warnings[t]
        BY <1>1, <2>1
      <3> QED BY <3>1, <3>2
    <2>3. CASE ~Finished(t)
      <3>1. mergers' # mergers
        BY <1>2, <2>3, SameList
      <3>2. mergers # << >> /\ NextMerger
        BY <3>1, ControlSteps
      <3>3. t = Head(mergers)
        BY <1>2, <2>3, <3>2, ShorterList
      <3>4. phase = "b"
        BY <2>1, <3>1, <3>3, ControlSteps DEF OrderOK, ZonePhases
      <3>5. PICK u \in Types : EndSameId(u)
        <4>1. ASSUME \/ \E u \in Types : Begin(u) \/ ScanNew(u) \/ OldIsMigrated(u)
                     \/ \E u \in Types : \E i \in todo :
                           NoPartner(u, i) \/ NotMerged(u, i) \/ MergePair(u, i)
                     \/ \E f \in Sides : \E u \in Types : \E i \in todo : MigrateOne(f, u, i)
                     \/ \E i \in todo : KeepZone(i)
                     \/ \E f \in Sides : \E i \in todo : MoveZone(f, i)
              PROVE  mergers' = mergers
          BY <4>1, ZenonT(60) DEF Begin, ScanNew, OldIsMigrated, NoPartner, NotMerged, MergePair, MigrateOne,
                      KeepZone, MoveZone
        <4>2. ASSUME UNCHANGED control PROVE mergers' = mergers
          BY <4>2 DEF control
        <4>3. ASSUME NextZonePass \/ MergeFareRules \/ MergeTransfers PROVE phase # "b"
          BY <4>3 DEF NextZonePass, MergeFareRules, MergeTransfers
        <4> QED BY <3>1, <3>4, <4>1, <4>2, <4>3, StepKinds, Zenon
      <3>6. u = t /\ warnings' = Warned(t)
        BY <3>3, <3>5 DEF EndSameId, Running
      <3>7. warnings \in [Types \cup {"rule"} -> Nat]
        BY DEF CountsOK
      <3> QED BY <2>1, <3>6, <3>7, WarnedOnce
    <2> QED BY <2>2, <2>3
  <1>3. \A t \in Types \ NeverMerge : Counted(t)'
    BY CountedStep
  <1> QED BY <1>1, <1>2, <1>3 DEF CountsOK, Counted

\* What StatsAddUp says of the statistics s and the warnings w of merger t.
AddsUp(t, s, w) ==
    /\ \A f \in Sides : s.merged + s[f] = Cardinality(DOMAIN feed[f][t])
    /\ s.merged = Cardinality({i \in Pairs(t) : Image("a", t, i) = Image("b", t, i)})
    /\ t \notin NeverMerge => w = Cardinality(Pairs(t)) - s.merged

\* At its end a merger has merged the pairs that share a place.
LEMMA FinalStats ==
    ASSUME IInv, LoadedOK, ImagesOK, SplitOK, CountsOK, NEW t \in Types,
           mergers # << >>, Head(mergers) = t, phase = "b", todo = {}
    PROVE  AddsUp(t, MergeStats, warnings[t])
  <1>1. Divided(t) /\ Split(t) /\ HasPlace("a", t, aRest) /\ HasPlace("b", t, bRest)
    BY DEF SplitOK, HasPlace
  <1>2. /\ both \cup aRest = DOMAIN feed["a"][t] /\ both \cap aRest = {}
        /\ both \cup bRest = DOMAIN feed["b"][t] /\ both \cap bRest = {}
    BY <1>1 DEF Split, Rest, Sides
  <1>3. IsFiniteSet(DOMAIN feed["a"][t]) /\ IsFiniteSet(DOMAIN feed["b"][t])
    BY DEF LoadedOK, Sides
  <1>4. /\ Cardinality(both) + Cardinality(aRest) = Cardinality(DOMAIN feed["a"][t])
        /\ Cardinality(both) \in Nat
    BY <1>2, <1>3, DisjointSum
  <1>5. Cardinality(both) + Cardinality(bRest) = Cardinality(DOMAIN feed["b"][t])
    BY <1>2, <1>3, DisjointSum
  <1>6. \A i \in Pairs(t) : Image("a", t, i) = Image("b", t, i) <=> i \in both
    <2> SUFFICES ASSUME NEW i \in Pairs(t)
                 PROVE  Image("a", t, i) = Image("b", t, i) <=> i \in both
      OBVIOUS
    <2> DEFINE A == <<"a", t, i>>
               B == <<"b", t, i>>
    <2>1. CASE i \in both
      BY <1>1, <2>1 DEF Divided, Image, Sides
    <2>2. CASE i \notin both
      <3>1. i \in aRest /\ i \in bRest
        BY <1>2, <2>2 DEF Pairs
      <3>2. A \in DOMAIN merge_map /\ B \in DOMAIN merge_map
        BY <1>1, <3>1 DEF HasPlace
      <3>3. i \in Rest("a") \cap DOMAIN feed[Other("a")][t]
        BY <3>1 DEF Rest, Other, Pairs
      <3>4. merge_map[A] # i
        BY <1>1, <3>2, <3>3 DEF Divided, Sides
      <3>5. A # B /\ A[2] = B[2] /\ A[3] = i
        OBVIOUS
      <3>6. Image("a", t, i) = merge_map[A] /\ Image("b", t, i) = merge_map[B]
        BY DEF Image
      <3> HIDE DEF A, B
      <3>7. merge_map[A] # merge_map[B]
        BY <3>2, <3>4, <3>5 DEF ImagesOK
      <3> QED BY <2>2, <3>6, <3>7
    <2> QED BY <2>1, <2>2
  <1>7. both \subseteq Pairs(t)
    BY <1>2 DEF Pairs
  <1>8. {i \in Pairs(t) : Image("a", t, i) = Image("b", t, i)} = both
    BY <1>6, <1>7
  <1>9. ASSUME t \notin NeverMerge PROVE warnings[t] = Cardinality(Pairs(t)) - Cardinality(both)
    <2>1. warnings[t] = Cardinality(Pairs(t) \ both)
      BY <1>9 DEF CountsOK
    <2>2. IsFiniteSet(Pairs(t))
      <3>1. Pairs(t) \in SUBSET DOMAIN feed["a"][t]
        BY DEF Pairs
      <3> QED BY <1>3, <3>1, FS_Subset
    <2>3. both \cup (Pairs(t) \ both) = Pairs(t) /\ both \cap (Pairs(t) \ both) = {}
      BY <1>7
    <2>4. /\ Cardinality(both) + Cardinality(Pairs(t) \ both) = Cardinality(Pairs(t))
          /\ Cardinality(Pairs(t) \ both) \in Nat
      BY <2>2, <2>3, DisjointSum
    <2> DEFINE x == Cardinality(both)
               y == Cardinality(Pairs(t) \ both)
               z == Cardinality(Pairs(t))
    <2>5. x \in Nat /\ y \in Nat /\ x + y = z /\ warnings[t] = y
      BY <1>4, <2>1, <2>4
    <2> HIDE DEF x, y, z
    <2>6. warnings[t] = z - x
      BY <2>5
    <2> QED BY <2>6 DEF x, z
  <1>10. /\ MergeStats.merged = Cardinality(both)
         /\ MergeStats["a"] = Cardinality(aRest) /\ MergeStats["b"] = Cardinality(bRest)
    BY DEF MergeStats
  <1> QED BY <1>4, <1>5, <1>8, <1>9, <1>10 DEF AddsUp, Sides

\* The sums of a merger that has placed everything do not change.
LEMMA SameSums ==
    ASSUME IInv, [Next]_vars, NEW t \in Types,
           \A f \in Sides : HasPlace(f, t, DOMAIN feed[f][t]), NEW s, NEW w
    PROVE  AddsUp(t, s, w)' <=> AddsUp(t, s, w)
  <1>1. feed' = feed
    BY MapSteps
  <1>2. Pairs(t)' = Pairs(t)
    BY <1>1 DEF Pairs
  <1>3. \A i \in Pairs(t) : /\ Image("a", t, i)' = Image("a", t, i)
                            /\ Image("b", t, i)' = Image("b", t, i)
    BY SameImages DEF Pairs, Sides
  <1>4. {i \in Pairs(t) : Image("a", t, i) = Image("b", t, i)}' =
           {i \in Pairs(t) : Image("a", t, i) = Image("b", t, i)}
    BY <1>2, <1>3
  <1> QED BY <1>1, <1>2, <1>4 DEF AddsUp

\* The passes over the zones are the last steps of the merger of the stops.
LEMMA ZonesLast ==
    ASSUME IInv, OrderOK, [Next]_vars, phase \in ZonePhases
    PROVE  (UNCHANGED mergers /\ phase' \in ZonePhases) \/ (mergers # << >> /\ NextMerger)
  <1>1. ASSUME \/ \E u \in Types : Begin(u) \/ ScanNew(u) \/ OldIsMigrated(u) \/ EndSameId(u)
               \/ \E u \in Types : \E i \in todo :
                     NoPartner(u, i) \/ NotMerged(u, i) \/ MergePair(u, i)
               \/ \E f \in Sides : \E u \in Types : \E i \in todo : MigrateOne(f, u, i)
               \/ MergeFareRules \/ MergeTransfers
        PROVE  FALSE
    <2>1. phase \in {"start", "pairs", "a", "b"}
      BY <1>1, ZenonT(60) DEF Begin, ScanNew, OldIsMigrated, EndSameId, NoPartner, NotMerged, MergePair,
                  MigrateOne, MergeFareRules, MergeTransfers, Sides
    <2> QED BY <2>1 DEF ZonePhases
  <1>2. ASSUME NEW i \in todo, KeepZone(i) \/ \E f \in Sides : MoveZone(f, i)
        PROVE  UNCHANGED <<mergers, phase>>
    BY <1>2 DEF KeepZone, MoveZone
  <1>3. ASSUME NextZonePass
        PROVE  (UNCHANGED mergers /\ phase' \in ZonePhases) \/ (mergers # << >> /\ NextMerger)
    BY <1>3 DEF NextZonePass, Running, ZonePhases
  <1>4. ASSUME UNCHANGED control PROVE UNCHANGED <<mergers, phase>>
    BY <1>4 DEF control
  <1> QED BY <1>1, <1>2, <1>3, <1>4, StepKinds

\* Where a merger with statistics is.
HasEnded(t) == Finished(t) \/ (phase \in ZonePhases /\ Head(mergers) = t)

LEMMA EndedStays ==
    ASSUME IInv, OrderOK, [Next]_vars, NEW t, HasEnded(t)
    PROVE  HasEnded(t)'
  <1>1. CASE Finished(t)
    BY <1>1, ListShrinks DEF HasEnded
  <1>2. CASE phase \in ZonePhases /\ Head(mergers) = t
    <2>1. CASE UNCHANGED mergers /\ phase' \in ZonePhases
      BY <1>2, <2>1 DEF HasEnded
    <2>2. CASE mergers # << >> /\ NextMerger
      BY <1>2, <2>2, ShorterList DEF HasEnded
    <2> QED BY <1>2, <2>1, <2>2, ZonesLast
  <1> QED BY <1>1, <1>2 DEF HasEnded

\* A merger that has ended warns no more and is not the one that ends.
LEMMA EndedIsQuiet ==
    ASSUME IInv, NEW t \in Types, HasEnded(t)
    PROVE  ~EndSameId(t) /\ \A i : ~NotMerged(t, i)
  <1> SUFFICES ASSUME EndSameId(t) \/ \E i : NotMerged(t, i) PROVE FALSE
    OBVIOUS
  <1>1. mergers # << >> /\ Head(mergers) = t /\ phase \in {"pairs", "b"}
    BY DEF EndSameId, NotMerged, Running
  <1> QED BY <1>1, HeadFacts DEF HasEnded, ZonePhases

LEMMA StatsOfMergers ==
    ASSUME [Next]_vars
    PROVE  \/ UNCHANGED stats
           \/ \E t \in Types : EndSameId(t) /\ stats' = Put(stats, t, MergeStats)
           \/ \E s : stats' = Put(stats, "transfer", s)
  <1>1. ASSUME NEW t \in Types, EndSameId(t) PROVE stats' = Put(stats, t, MergeStats)
    BY <1>1 DEF EndSameId
  <1>2. ASSUME MergeTransfers PROVE \E s : stats' = Put(stats, "transfer", s)
    BY <1>2 DEF MergeTransfers
  <1>3. ASSUME \/ \E u \in Types : Begin(u) \/ ScanNew(u) \/ OldIsMigrated(u)
               \/ \E u \in Types : \E i \in todo :
                     NoPartner(u, i) \/ NotMerged(u, i) \/ MergePair(u, i)
               \/ \E f \in Sides : \E u \in Types : \E i \in todo : MigrateOne(f, u, i)
               \/ \E i \in todo : KeepZone(i)
               \/ \E f \in Sides : \E i \in todo : MoveZone(f, i)
               \/ NextZonePass \/ MergeFareRules
        PROVE  UNCHANGED stats
    BY <1>3, ZenonT(60) DEF Begin, ScanNew, OldIsMigrated, NoPartner, NotMerged, MergePair, MigrateOne,
                KeepZone, MoveZone, NextZonePass, MergeFareRules, results
  <1> QED BY <1>1, <1>2, <1>3, StepKinds

LEMMA StatsStep ==
    ASSUME IInv, LoadedOK, ImagesOK, OrderOK, SplitOK, CompleteOK, CountsOK, StatsOK, [Next]_vars
    PROVE  StatsOK'
  <1>1. feed' = feed /\ DOMAIN merge_map \subseteq DOMAIN merge_map'
    BY MapSteps
  <1>2. ASSUME NEW t, \A f \in Sides : HasPlace(f, t, DOMAIN feed[f][t])
        PROVE  \A f \in Sides : HasPlace(f, t, DOMAIN feed[f][t])'
    BY <1>1, <1>2 DEF HasPlace
  <1> DEFINE Kept(t) == /\ HasEnded(t)'
                        /\ \A f \in Sides : HasPlace(f, t, DOMAIN feed[f][t])'
                        /\ AddsUp(t, stats[t], warnings[t])'
  <1>3. ASSUME NEW t \in Types \cap DOMAIN stats, stats'[t] = stats[t] PROVE Kept(t)
    <2>1. HasEnded(t) /\ \A f \in Sides : HasPlace(f, t, DOMAIN feed[f][t])
      BY DEF StatsOK, HasEnded
    <2>2. AddsUp(t, stats[t], warnings[t])
      BY DEF StatsOK, StatsAddUp, AddsUp, Pairs
    <2>3. t \notin NeverMerge => warnings'[t] = warnings[t]
      BY <2>1, EndedIsQuiet, WarningsGrow
    <2>4. \A s, w : AddsUp(t, s, w)' <=> AddsUp(t, s, w)
      BY <2>1, SameSums
    <2>5. AddsUp(t, stats[t], warnings'[t])
      BY <2>2, <2>3 DEF AddsUp
    <2>6. PICK s, w : s = stats[t] /\ w = warnings'[t]
      OBVIOUS
    <2>7. AddsUp(t, s, w)' /\ s = stats'[t] /\ w = warnings'[t]
      BY <1>3, <2>4, <2>5, <2>6
    <2>8. AddsUp(t, stats[t], warnings[t])'
      BY <2>7 DEF AddsUp
    <2> QED BY <1>2, <2>1, <2>8, EndedStays
  <1>4. ASSUME NEW t \in Types, EndSameId(t) PROVE Kept(t)
    <2>1. /\ mergers # << >> /\ Head(mergers) = t /\ phase = "b" /\ todo = {}
          /\ IF t = "stop" THEN phase' = "zones" /\ UNCHANGED mergers ELSE NextMerger
          /\ stats' = Put(stats, t, MergeStats)
          /\ t \notin NeverMerge => warnings' = warnings
      BY <1>4 DEF EndSameId, Running
    <2>2. HasEnded(t)'
      <3>1. CASE t = "stop"
        BY <2>1, <3>1 DEF HasEnded, ZonePhases
      <3>2. CASE t # "stop"
        BY <2>1, <3>2, ShorterList DEF HasEnded
      <3> QED BY <3>1, <3>2
    <2>3. \A f \in Sides : HasPlace(f, t, DOMAIN feed[f][t])
      BY <2>1, EverythingPlaced
    <2>4. AddsUp(t, MergeStats, warnings[t])
      BY <2>1, FinalStats
    <2>5. AddsUp(t, MergeStats, warnings'[t])
      BY <2>1, <2>4 DEF AddsUp
    <2>6. stats'[t] = MergeStats
      BY <2>1 DEF Put
    <2>7. \A s, w : AddsUp(t, s, w)' <=> AddsUp(t, s, w)
      BY <2>3, SameSums
    <2>8. PICK s, w : s = MergeStats /\ w = warnings'[t]
      OBVIOUS
    <2>9. AddsUp(t, s, w)' /\ s = stats'[t] /\ w = warnings'[t]
      BY <2>5, <2>6, <2>7, <2>8
    <2>10. AddsUp(t, stats[t], warnings[t])'
      BY <2>9 DEF AddsUp
    <2> QED BY <1>2, <2>2, <2>3, <2>10
  <1>5. \A t \in Types \cap DOMAIN stats' :
           (t \in DOMAIN stats /\ stats'[t] = stats[t]) \/ EndSameId(t)
    <2>1. CASE UNCHANGED stats
      BY <2>1
    <2>2. ASSUME NEW u, NEW s, stats' = Put(stats, u, s)
          PROVE  \A t \in DOMAIN stats' : t = u \/ (t \in DOMAIN stats /\ stats'[t] = stats[t])
      BY <2>2 DEF Put
    <2>3. "transfer" \notin Types
      BY DEF Types
    <2> QED BY <2>1, <2>2, <2>3, StatsOfMergers
  <1>6. \A t \in Types \cap DOMAIN stats' : Kept(t)
    BY <1>3, <1>4, <1>5
  <1>7. StatsAddUp'
    BY <1>6 DEF StatsAddUp, AddsUp, Pairs
  <1> QED BY <1>6, <1>7 DEF StatsOK, HasEnded

-----------------------------------------------------------------------------
(* The report *)

LEMMA ReportSteps ==
    ASSUME [Next]_vars
    PROVE  \/ CheckVersion \/ AbortMerge \/ WriteFeed \/ WriteReport
           \/ outcome = "merging" /\ outcome' = "TypeError" /\ UNCHANGED <<mergers, phase, errors, report>>
           \/ outcome = "merging" /\ UNCHANGED <<errors, outcome, report>>
           \/ UNCHANGED <<mergers, phase, warnings, errors, outcome, report>>
  <1>1. ASSUME DisjoinCalendars \/ \E t \in Types : RegisterFails(t)
        PROVE  /\ outcome = "merging" /\ outcome' = "TypeError"
               /\ UNCHANGED <<mergers, phase, errors, report>>
    BY <1>1 DEF DisjoinCalendars, RegisterFails, Running, control
  <1>2. ASSUME \/ \E u \in Types : Begin(u) \/ ScanNew(u) \/ OldIsMigrated(u) \/ EndSameId(u)
               \/ \E u \in Types : \E i \in todo :
                     NoPartner(u, i) \/ NotMerged(u, i) \/ MergePair(u, i)
               \/ \E f \in Sides : \E u \in Types : \E i \in todo : MigrateOne(f, u, i)
        PROVE  outcome = "merging" /\ UNCHANGED <<errors, outcome, report>>
    BY <1>2, ZenonT(60) DEF Begin, ScanNew, OldIsMigrated, EndSameId, NoPartner, NotMerged, MergePair,
                MigrateOne, Running, results
  <1>3. ASSUME \/ \E i \in todo : KeepZone(i)
               \/ \E f \in Sides : \E i \in todo : MoveZone(f, i)
               \/ NextZonePass \/ MergeFareRules \/ MergeTransfers
        PROVE  outcome = "merging" /\ UNCHANGED <<errors, outcome, report>>
    BY <1>3 DEF KeepZone, MoveZone, NextZonePass, MergeFareRules, MergeTransfers, Running, results
  <1>4. ASSUME UNCHANGED vars
        PROVE  UNCHANGED <<mergers, phase, warnings, errors, outcome, report>>
    BY <1>4 DEF vars, control, results
  <1> QED BY <1>1, <1>2, <1>3, <1>4 DEF Next

LEMMA ReportStep ==
    ASSUME IInv, ReportOK, [Next]_vars
    PROVE  ReportOK'
  <1>1. "period" \in DOMAIN errors /\ DOMAIN errors = Types \cup {"rule"}
    BY DEF ReportOK, Types
  <1>2. outcome = "merging" => report = {} /\ \A t \in DOMAIN errors : errors[t] = 0
    BY DEF ReportOK
  <1>3. CASE AbortMerge
    <2>1. /\ outcome = "merging" /\ outcome' = "aborted" /\ mergers # << >> /\ Head(mergers) = "period"
          /\ phase = "start" /\ errors' = Failed("period") /\ UNCHANGED <<mergers, phase, report>>
      BY <1>3 DEF AbortMerge, Running, control
    <2>2. Waiting("period")'
      <3>1. Waiting("period")
        BY <2>1, HeadFacts
      <3> QED BY <2>1, <3>1 DEF Waiting
    <2>3. DOMAIN errors' = Types \cup {"rule"} /\ errors'["period"] > 0
      BY <1>1, <1>2, <2>1 DEF Failed
    <2> QED BY <1>2, <2>1, <2>2, <2>3 DEF ReportOK
  <1>4. CASE WriteFeed
    <2>1. /\ outcome = "merging" /\ outcome' = "written" /\ mergers = << >>
          /\ UNCHANGED <<mergers, errors, report>>
      BY <1>4 DEF WriteFeed, control
    <2> QED BY <1>1, <1>2, <2>1 DEF ReportOK
  <1>5. CASE WriteReport
    <2>1. /\ outcome \in {"written", "aborted"}
          /\ UNCHANGED <<mergers, phase, warnings, errors, outcome>>
          /\ report' = (IF outcome = "written" THEN {"feed created"} ELSE {})
                         \cup (IF Shown(errors) THEN {"errors"} ELSE {})
                         \cup (IF Shown(warnings) THEN {"warnings"} ELSE {})
                         \cup (IF Shown(errors) \/ Shown(warnings) THEN {} ELSE {"successful"})
      BY <1>5 DEF WriteReport, control
    <2>2. Shown(errors)' = Shown(errors) /\ Shown(warnings)' = Shown(warnings)
      BY <2>1 DEF Shown
    <2>3. /\ "feed created" \in report' <=> outcome = "written"
          /\ "errors" \in report' <=> Shown(errors)
          /\ "warnings" \in report' <=> Shown(warnings)
          /\ "successful" \in report' <=> ~Shown(errors) /\ ~Shown(warnings)
      BY <2>1
    <2>4. Waiting("period")' <=> Waiting("period")
      BY <2>1 DEF Waiting
    <2> QED BY <2>1, <2>2, <2>3, <2>4 DEF ReportOK
  <1>6. CASE /\ outcome = "merging" /\ outcome' = "TypeError"
             /\ UNCHANGED <<mergers, phase, errors, report>>
    BY <1>1, <1>2, <1>6 DEF ReportOK
  <1>7. CASE outcome = "merging" /\ UNCHANGED <<errors, outcome, report>>
    BY <1>1, <1>2, <1>7 DEF ReportOK
  <1>8. CASE UNCHANGED <<mergers, phase, warnings, errors, outcome, report>>
    BY <1>8 DEF ReportOK, Waiting, Shown
  <1>9. CASE CheckVersion
    <2>1. /\ outcome = "checking" /\ outcome' \in {"merging", "check failed"}
          /\ UNCHANGED <<mergers, phase, warnings, errors, report>>
      BY <1>9 DEF CheckVersion, control
    <2> QED BY <1>1, <2>1 DEF ReportOK
  <1> QED BY <1>3, <1>4, <1>5, <1>6, <1>7, <1>8, <1>9, ReportSteps

-----------------------------------------------------------------------------
(* The invariant and what it says *)

LEMMA InitJInv == Init => JInv
  <1> SUFFICES ASSUME Init PROVE JInv
    OBVIOUS
  <1>1. IInv
    BY InitInv
  <1>2. LoadedOK
    <2>1. PICK p \in Inputs : feed = [a |-> p.a, b |-> p.b]
      BY DEF Init, LoadedFeeds
    <2>2. \A f \in Sides : feed[f] = p[f]
      BY <2>1 DEF Sides
    <2>3. \A f \in Sides : Resolves(p[f])
      BY ReferencesAssumption
    <2>4. \A f \in Sides : \A t \in Types : IsFiniteSet(DOMAIN p[f][t])
      BY InputsAssumption DEF Sides, Types
    <2> QED BY <2>2, <2>3, <2>4 DEF LoadedOK
  <1>3. DOMAIN merge_map = {} /\ phase = "start" /\ mergers \in Mergers
    BY DEF Init, Empty
  <1>4. \A t \in Types : ~Finished(t)
    BY <1>3, OrderAssumption DEF Finished
  <1>5. ImagesOK
    BY <1>3 DEF ImagesOK
  <1>6. OrderOK
    BY <1>3, <1>4, OrderAssumption DEF OrderOK, ZonePhases
  <1>7. SplitOK
    BY <1>3 DEF SplitOK, ZonePhases
  <1>8. CompleteOK
    BY <1>4 DEF CompleteOK
  <1>9. merged = [t \in Types \cup {"rule", "transfer"} |-> IF t = "rule" THEN {} ELSE Empty]
    BY DEF Init
  <1>10. /\ "rule" \notin Types /\ "transfer" \notin Types /\ "stop" \in Types /\ "route" \in Types
         /\ "trip" \in Types
    BY DEF Types
  <1>11. DOMAIN Empty = {}
    BY DEF Empty
  <1>12. TablesOK
    <2>1. \A t \in Types : Union!Taken(t) = {}
      BY <1>3 DEF Union!Taken
    <2>2. StopsDone = {}
      BY <1>3 DEF StopsDone
    <2>3. \A t \in Types : merged[t] = Empty
      BY <1>9, <1>10
    <2>4. DOMAIN merged = Types \cup {"rule", "transfer"}
      BY <1>9
    <2>5. {merge_map[e] : e \in StopsDone} = {}
      BY <2>2
    <2> QED BY <1>10, <1>11, <2>1, <2>3, <2>4, <2>5 DEF TablesOK
  <1>13. StopsOK
    <2>1. \A f : Pending(f) = DOMAIN feed[f].stop
      BY <1>3, <1>4, <1>10, AllPending DEF ZonePhases
    <2>2. zone_map = [a |-> Empty, b |-> Empty]
      BY DEF Init
    <2>3. DOMAIN zone_map = Sides /\ \A f \in Sides : DOMAIN zone_map[f] = {}
      BY <1>11, <2>2 DEF Sides
    <2> QED BY <1>3, <2>1, <2>3 DEF StopsOK
  <1>14. RowsOK
    <2>1. merged["rule"] = {} /\ DOMAIN merged["transfer"] = {} /\ listed = {}
      BY <1>9, <1>11 DEF Init
    <2> QED BY <1>3, <2>1 DEF RowsOK, ListedTripsBelong
  <1>15. CountsOK
    <2>1. warnings = [t \in Types \cup {"rule"} |-> 0]
      BY DEF Init
    <2>2. NeverMerge \subseteq Types
      BY DEF NeverMerge, Types
    <2> QED BY <1>3, <1>4, <2>1, <2>2 DEF CountsOK
  <1>16. StatsOK
    <2>1. DOMAIN stats = {}
      BY <1>11 DEF Init
    <2> QED BY <2>1 DEF StatsOK, StatsAddUp
  <1>17. ReportOK
    BY DEF Init, ReportOK
  <1> QED BY <1>1, <1>2, <1>5, <1>6, <1>7, <1>8, <1>12, <1>13, <1>14, <1>15, <1>16, <1>17 DEF JInv

LEMMA NextJInv ==
    ASSUME JInv, [Next]_vars
    PROVE  JInv'
  <1>1. /\ IInv /\ LoadedOK /\ ImagesOK /\ OrderOK /\ SplitOK /\ CompleteOK
        /\ TablesOK /\ StopsOK /\ RowsOK /\ CountsOK /\ StatsOK /\ ReportOK
    BY DEF JInv
  <1>2. IInv' /\ feed' = feed
    BY <1>1, MapSteps
  <1>3. LoadedOK'
    BY <1>1, <1>2 DEF LoadedOK, Resolves
  <1>4. ImagesOK' /\ OrderOK' /\ SplitOK' /\ CompleteOK'
    BY <1>1, ImagesStep, OrderStep, SplitStep, CompleteStep
  <1>5. TablesOK' /\ StopsOK' /\ RowsOK'
    BY <1>1, TablesStep, StopsStep, RowsStep
  <1>6. CountsOK' /\ StatsOK' /\ ReportOK'
    BY <1>1, CountsStep, StatsStep, ReportStep
  <1> QED BY <1>2, <1>3, <1>4, <1>5, <1>6 DEF JInv

\* Every state of a merge meets JInv: what the map, the tables, the counts and the
\* report hold at each point of the mergers' loops.
THEOREM InvariantHolds == Spec => []JInv
  <1>1. JInv /\ [Next]_vars => JInv'
    BY NextJInv
  <1> QED BY <1>1, InitJInv, PTL DEF Spec

\* A finished table holds the places of its entities.
LEMMA FinishedTable ==
    ASSUME JInv, NEW t \in Types, Finished(t)
    PROVE  /\ \A f \in Sides : \A i \in DOMAIN feed[f][t] :
                 <<f, t, i>> \in DOMAIN merge_map /\ Image(f, t, i) \in DOMAIN merged[t]
           /\ DOMAIN merged[t] = {merge_map[e] : e \in Placed(t)}
  <1>1. IInv /\ CompleteOK /\ TablesOK
    BY DEF JInv
  <1>2. \A e : e \in Placed(t) <=> e \in DOMAIN merge_map /\ e[2] = t
    <2>1. ASSUME NEW e \in DOMAIN merge_map, e[2] = t PROVE e \in Placed(t)
      <3>1. PICK f \in Sides : \E i \in DOMAIN feed[f][t] : e = <<f, t, i>>
        BY <1>1, <2>1 DEF IInv, MapOK, IsEntity
      <3>2. PICK i \in DOMAIN feed[f][t] : e = <<f, t, i>>
        BY <3>1
      <3>3. i \in DOMAIN feed["a"][t] \cup DOMAIN feed["b"][t]
        BY DEF Sides
      <3> QED BY <2>1, <3>2, <3>3 DEF Placed, Entities
    <2>2. ASSUME NEW e \in Placed(t) PROVE e \in DOMAIN merge_map /\ e[2] = t
      BY DEF Placed, Entities
    <2> QED BY <2>1, <2>2
  <1>3. DOMAIN merged[t] = {merge_map[e] : e \in Placed(t)}
    <2>1. CASE t # "stop"
      <3>1. DOMAIN merged[t] = Union!Taken(t)
        BY <1>1, <2>1 DEF TablesOK
      <3> QED BY <1>2, <3>1 DEF Union!Taken
    <2>2. CASE t = "stop"
      <3>1. \A f : Pending(f) = {}
        BY <2>2 DEF Pending
      <3>2. \A e : e \in StopsDone <=> e \in DOMAIN merge_map /\ e[2] = t
        BY <2>2, <3>1 DEF StopsDone
      <3>3. StopsDone = Placed(t)
        BY <1>2, <3>2
      <3> QED BY <1>1, <2>2, <3>3 DEF TablesOK
    <2> QED BY <2>1, <2>2
  <1>4. \A f \in Sides : \A i \in DOMAIN feed[f][t] : <<f, t, i>> \in DOMAIN merge_map
    BY <1>1 DEF CompleteOK, HasPlace
  <1>5. ASSUME NEW f \in Sides, NEW i \in DOMAIN feed[f][t]
        PROVE  Image(f, t, i) \in DOMAIN merged[t]
    <2> DEFINE E == <<f, t, i>>
    <2>1. E \in DOMAIN merge_map /\ E[2] = t /\ Image(f, t, i) = merge_map[E]
      BY <1>4 DEF Image
    <2> HIDE DEF E
    <2> QED BY <1>2, <1>3, <2>1
  <1> QED BY <1>3, <1>4, <1>5

\* Once the merger of a kind has run, its table holds the entities of both feeds and
\* nothing else, for all feeds and all orders of the mergers that merge.py allows.
THEOREM TablesAreRight == Spec => []MergedTablesAreExact
  <1>1. JInv => MergedTablesAreExact
    BY FinishedTable DEF MergedTablesAreExact
  <1> QED BY <1>1, InvariantHolds, PTL

\* The statistics and the warnings of every merger account for all its entities.
THEOREM StatsAreRight == Spec => []StatsAddUp
  <1>1. JInv => StatsAddUp
    BY DEF JInv, StatsOK
  <1> QED BY <1>1, InvariantHolds, PTL

LEMMA ReportExact == JInv => ReportIsExact
  <1> SUFFICES ASSUME JInv PROVE ReportIsExact
    OBVIOUS
  <1>1. IInv /\ OrderOK /\ TablesOK /\ CountsOK /\ ReportOK
    BY DEF JInv
  <1>2. "period" \in Types /\ "trip" \in Types /\ "trip" \in NeverMerge
    BY DEF Types, NeverMerge
  <1>3. outcome = "aborted" => Shown(errors)
    BY <1>1, <1>2 DEF ReportOK, Shown
  <1>4. outcome = "written" => ~Shown(errors)
    <2> SUFFICES ASSUME outcome = "written" PROVE ~Shown(errors)
      OBVIOUS
    <2>1. outcome # "aborted"
      OBVIOUS
    <2>2. \A t \in DOMAIN errors : errors[t] = 0
      BY <1>1, <2>1 DEF ReportOK
    <2> QED BY <2>2 DEF Shown
  <1>5. outcome = "written" => Shown(warnings)
    <2> SUFFICES ASSUME outcome = "written" PROVE Shown(warnings)
      OBVIOUS
    <2>1. mergers = << >>
      BY <1>1 DEF ReportOK
    <2>2. Finished("trip")
      BY <2>1 DEF Finished
    <2>3. warnings["trip"] > 0 /\ "trip" \in DOMAIN warnings
      BY <1>1, <1>2, <2>2 DEF CountsOK
    <2> QED BY <2>3 DEF Shown
  <1>6. ASSUME outcome = "aborted" PROVE merged["period"] = Empty /\ merged["trip"] = Empty
    <2>1. PICK k \in DOMAIN mergers : mergers[k] = "period" /\ (k > 1 \/ phase = "start")
      BY <1>1, <1>6 DEF ReportOK, Waiting
    <2> DEFINE p == <<"period", "trip">>
    <2>2. p \in RunsBefore /\ p[1] = "period" /\ p[2] = "trip"
      BY DEF RunsBefore
    <2> HIDE DEF p
    <2>3. ~Finished("trip")
      BY <1>1, <1>2, <2>1, <2>2 DEF OrderOK, Finished
    <2>4. PICK j \in DOMAIN mergers : mergers[j] = "trip"
      BY <2>3 DEF Finished
    <2>5. k < j
      BY <1>1, <2>1, <2>2, <2>4 DEF OrderOK
    <2>6. k \in Nat /\ j \in Nat /\ k >= 1
      BY <1>1 DEF IInv, MergersOK
    <2>7. Waiting("trip") /\ Waiting("period")
      BY <2>1, <2>4, <2>5, <2>6 DEF Waiting
    <2> QED BY <1>1, <1>2, <2>7 DEF TablesOK
  <1>7. ASSUME report # {}
        PROVE  /\ "errors" \in report <=> "feed created" \notin report
               /\ "successful" \notin report
               /\ "warnings" \in report <=> \E t \in DOMAIN warnings : warnings[t] > 0
    <2>1. /\ outcome \in {"written", "aborted"}
          /\ "feed created" \in report <=> outcome = "written"
          /\ "errors" \in report <=> Shown(errors)
          /\ "warnings" \in report <=> Shown(warnings)
          /\ "successful" \in report <=> ~Shown(errors) /\ ~Shown(warnings)
      BY <1>1, <1>7 DEF ReportOK
    <2>2. Shown(warnings) <=> \E t \in DOMAIN warnings : warnings[t] > 0
      BY DEF Shown
    <2> QED BY <1>3, <1>4, <1>5, <2>1, <2>2
  <1> QED BY <1>6, <1>7 DEF ReportIsExact

\* main's report is right: it shows errors exactly when no feed was written, never
\* calls the merge a success, and a merge that was given up left no trip behind.
THEOREM ReportIsRight == Spec => []ReportIsExact
  BY ReportExact, InvariantHolds, PTL

LEMMA ReferencesFollow == JInv => ReferencesResolve
  <1> SUFFICES ASSUME JInv PROVE ReferencesResolve
    OBVIOUS
  <1>1. IInv /\ LoadedOK /\ CompleteOK /\ StopsOK /\ RowsOK
    BY DEF JInv
  <1>2. Finished("stop") => \A f : Pending(f) = {}
    BY DEF Pending
  <1>3. ASSUME NEW t \in Types, Finished(t), NEW f \in Sides, NEW i \in DOMAIN feed[f][t]
        PROVE  Follows(f, t, i)
    <2>1. CASE t = "stop"
      BY <1>1, <1>2, <1>3, <2>1 DEF StopsOK
    <2>2. CASE t \in {"route", "trip"}
      BY <1>1, <1>3, <2>2, FinishedTable DEF RowsOK
    <2>3. CASE t \notin {"stop", "route", "trip"}
      BY <2>3 DEF Follows
    <2> QED BY <2>1, <2>2, <2>3
  <1>4. ASSUME Finished("stop"), NEW n \in DOMAIN merged["stop"]
        PROVE  merged["stop"][n].parent \in DOMAIN merged["stop"] \cup {NoId}
    <2>1. "stop" \in Types
      BY DEF Types
    <2>2. PICK e \in Placed("stop") : n = merge_map[e]
      BY <1>4, <2>1, FinishedTable
    <2>3. PICK f \in Sides : \E i \in DOMAIN feed[f]["stop"] : e = <<f, "stop", i>>
      <3>1. e \in DOMAIN merge_map /\ e[2] = "stop"
        BY DEF Placed, Entities
      <3> QED BY <1>1, <3>1 DEF IInv, MapOK, IsEntity
    <2>4. PICK i \in DOMAIN feed[f]["stop"] : e = <<f, "stop", i>>
      BY <2>3
    <2>5. n = Image(f, "stop", i)
      BY <2>2, <2>4 DEF Image
    <2>6. ASSUME NEW g \in Sides, NEW j \in DOMAIN feed[g]["stop"], n = Image(g, "stop", j),
                 n = Image(g, "stop", j) =>
                    merged["stop"][n].parent = ImageOrNone(g, "stop", feed[g].stop[j].parent)
          PROVE  merged["stop"][n].parent \in DOMAIN merged["stop"] \cup {NoId}
      <3>1. feed[g].stop[j].parent \in DOMAIN feed[g].stop \cup {NoId}
        BY <1>1 DEF LoadedOK, Resolves
      <3>2. \A c \in DOMAIN feed[g].stop : Image(g, "stop", c) \in DOMAIN merged["stop"]
        BY <1>4, <2>1, FinishedTable
      <3>3. ImageOrNone(g, "stop", feed[g].stop[j].parent) \in DOMAIN merged["stop"] \cup {NoId}
        BY <3>1, <3>2 DEF ImageOrNone
      <3> QED BY <2>6, <3>3
    <2>7. Follows(f, "stop", i)
      BY <1>3, <1>4, <2>1
    <2>8. CASE f = "b" \/ ~(i \in DOMAIN feed[Other(f)]["stop"]
                              /\ Image(f, "stop", i) = Image(Other(f), "stop", i))
      <3>1. merged["stop"][n].parent = ImageOrNone(f, "stop", feed[f].stop[i].parent)
        BY <2>5, <2>7, <2>8 DEF Follows
      <3> QED BY <2>5, <2>6, <3>1
    <2>9. CASE /\ f # "b" /\ i \in DOMAIN feed[Other(f)]["stop"]
               /\ Image(f, "stop", i) = Image(Other(f), "stop", i)
      <3>1. Other(f) = "b" /\ "b" \in Sides
        BY <2>9 DEF Other, Sides
      <3>2. i \in DOMAIN feed["b"]["stop"] /\ n = Image("b", "stop", i)
        BY <2>5, <2>9, <3>1
      <3>3. Follows("b", "stop", i)
        BY <1>3, <1>4, <2>1, <3>1, <3>2
      <3>4. merged["stop"][n].parent = ImageOrNone("b", "stop", feed["b"].stop[i].parent)
        BY <3>2, <3>3 DEF Follows
      <3> QED BY <2>6, <3>1, <3>2, <3>4
    <2> QED BY <2>8, <2>9
  <1>5. ZonesFollow
    BY <1>1, <1>2 DEF ZonesFollow, StopsOK, RowsOK
  <1> QED BY <1>1, <1>3, <1>4, <1>5 DEF ReferencesResolve, RowsOK

\* The references of the merged feed resolve, to the copies of what the entities of
\* the two feeds referred to, for all feeds that load without errors.
THEOREM ReferencesAreRight == Spec => []ReferencesResolve
  BY ReferencesFollow, InvariantHolds, PTL

=============================================================================
