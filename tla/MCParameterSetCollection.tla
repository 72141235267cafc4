----------------------- MODULE MCParameterSetCollection -----------------------
(***************************************************************************)
(* ParameterSetCollection on small sets of threads, names and values, each *)
(* of them interchangeable.                                                *)
(***************************************************************************)
EXTENDS ParameterSetCollection, TLC

Symmetry == Permutations(Threads) \cup Permutations(SetNames)
            \cup Permutations(ParamNames) \cup Permutations(Values)
=============================================================================
