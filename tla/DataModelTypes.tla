---------------------------- MODULE DataModelTypes ----------------------------
(***************************************************************************)
(* The values of the ConfigDaemon's data model.                            *)
(***************************************************************************)
EXTENDS Naturals

CONSTANTS
    SetNames,    \* names of parameter sets
    ParamNames,  \* names of parameters
    Values,      \* contents of a parameter
    Absent       \* the value of a name that is no key

ASSUME DataModelAssumption == Absent \notin Values

Qualifiers == {"unqualified", "qualified", "default", "modified"}
Codes == {"none", "ok", "parameterAlreadyExists", "parsingError",
          "parameterSetNotFound", "parametersNotFound",
          "parameterSetNotCalibratable", "parameterMissedError",
          "convertingError"}

NoData   == [p \in ParamNames |-> Absent]
Contents == [ParamNames -> Values \cup {Absent}]

(* What a call returns: a code and, from a read, parameters and qualifier.  *)
Reply(code, parameters, qual) ==
    [code |-> code, parameters |-> parameters, qualifier |-> qual]
Code(code) == Reply(code, NoData, "unqualified")
Replies == [code : Codes, parameters : Contents, qualifier : Qualifiers]

(* The parameters a set has.                                                *)
Names(d) == {p \in ParamNames : d[p] # Absent}

(* A request names some parameters and their values.                        *)
Requests == UNION {[S -> Values] : S \in SUBSET ParamNames}
=============================================================================
