------------------------------- MODULE MCFactory -------------------------------
(***************************************************************************)
(* Factory, and in it Connection, with a creator and a few users, which    *)
(* are not interchangeable: symmetry would not be sound for the liveness   *)
(* properties.                                                             *)
(***************************************************************************)
EXTENDS Factory
=============================================================================
