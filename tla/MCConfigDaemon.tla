---------------------------- MODULE MCConfigDaemon ----------------------------
(***************************************************************************)
(* ConfigDaemon with the number of plugins each run gives it.              *)
(***************************************************************************)
EXTENDS ConfigDaemon
=============================================================================
