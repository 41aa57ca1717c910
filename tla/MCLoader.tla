------------------------------ MODULE MCLoader ------------------------------
(***************************************************************************)
(* Loader for feeds whose service ids may change places, with a stop or    *)
(* shape points beside the calendars.                                      *)
(***************************************************************************)
EXTENDS Loader, TLC

Symmetry == Permutations(ServiceIds)

SmallInit == Init /\ ~ {"shapes", "stops"} \subseteq present

SmallSpec == SmallInit /\ [][Next]_vars
=============================================================================
