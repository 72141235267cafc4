---------------------------- MODULE MCUpdateEvent ----------------------------
(***************************************************************************)
(* UpdateEvent with samples of two characters: two names are as long as    *)
(* the sample, and another one is the beginning of one of them.            *)
(***************************************************************************)
EXTENDS UpdateEvent

MCNames == {<<1>>, <<1, 2>>, <<2, 2>>}
=============================================================================
