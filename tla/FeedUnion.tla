------------------------------ MODULE FeedUnion ------------------------------
(***************************************************************************)
(* What a merge of two feeds promises, whatever its steps are: every       *)
(* entity of the feeds gets one place in the merged feed and keeps it.  An *)
(* entity of the old feed and one of the new feed may share a place only   *)
(* when they have the same id, which the place then keeps.  An entity      *)
(* alone in its place keeps its id when the other feed does not use it;    *)
(* otherwise it gets an id that neither feed uses and no place has yet.    *)
(***************************************************************************)
EXTENDS Naturals

CONSTANT Types          \* the kinds of entities that have an id

VARIABLES ids,          \* ids[f][t]: the ids of kind t in feed f
          image         \* image[<<f, t, i>>]: the merged id of entity i

unionVars == <<ids, image>>

Sides == {"a", "b"}     \* the old feed and the new feed
Other(f) == IF f = "a" THEN "b" ELSE "a"

\* The ids that the placed entities of kind t have in the merged feed.
Taken(t) == {image[e] : e \in {x \in DOMAIN image : x[2] = t}}

\* The entities of S are placed and no other entity moves.
Places(S) ==
    /\ S \cap DOMAIN image = {}
    /\ DOMAIN image' = DOMAIN image \cup S
    /\ \A e \in DOMAIN image : image'[e] = image[e]

UnionInit == image = [e \in {} |-> e]

Share(t, i) ==
    LET pair == {<<"a", t, i>>, <<"b", t, i>>} IN
    /\ i \in ids["a"][t] \cap ids["b"][t]
    /\ i \notin Taken(t)
    /\ Places(pair)
    /\ \A e \in pair : image'[e] = i

Copy(f, t, i) ==
    LET e == <<f, t, i>> IN
    /\ i \in ids[f][t]
    /\ Places({e})
    /\ image'[e] \notin Taken(t)
    /\ IF i \in ids[Other(f)][t]
       THEN image'[e] \notin ids["a"][t] \cup ids["b"][t]
       ELSE image'[e] = i

UnionNext ==
    /\ UNCHANGED ids
    /\ \E t \in Types : \E i \in ids["a"][t] \cup ids["b"][t] :
          \/ Share(t, i)
          \/ \E f \in Sides : Copy(f, t, i)

UnionSpec == UnionInit /\ [][UnionNext]_unionVars

=============================================================================
