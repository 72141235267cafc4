-------------------------- MODULE MCConfigProvider --------------------------
(***************************************************************************)
(* ConfigProvider on small sets of names and application threads.  The     *)
(* names are interchangeable, and so are the threads.                      *)
(***************************************************************************)
EXTENDS ConfigProviderInvariant, TLC

Symmetry == Permutations(SetNames) \cup Permutations(Clients)

(* For the liveness run, where symmetry is not sound: the earlier run saved *)
(* one of the sets; which one does not matter.                              *)
InitOneSaved == Init /\ Cached = {CHOOSE s \in SetNames : TRUE}
FairSpecOneSaved == InitOneSaved /\ [][Next]_vars /\ Fairness
=============================================================================
