------------------------------ MODULE DataModel ------------------------------
(***************************************************************************)
(* What the ConfigDaemon's data model promises its plugins and its service *)
(* reactor: a map of parameter sets, each a map of parameters with a       *)
(* qualifier, whose operations take effect at once.  An update changes all *)
(* the parameters it names or none, and what is read of a set - the values *)
(* and the qualifier - belongs together.                                   *)
(***************************************************************************)
EXTENDS DataModelTypes

VARIABLES
    known,        \* the sets that exist
    data,         \* the parameters of each set
    qualifier,    \* the qualifier of each set
    calibratable, \* whether a set may be updated
    result        \* what the last call to return returned

vars == <<known, data, qualifier, calibratable, result>>

Init ==
    /\ known = {}
    /\ data = [s \in SetNames |-> NoData]
    /\ qualifier = [s \in SetNames |-> "unqualified"]
    /\ calibratable = [s \in SetNames |-> FALSE]
    /\ result = Code("none")

Returns(reply) == result' = reply

(* A call that has not returned yet, and one that changes nothing.          *)
Call ==
    /\ Returns(Code("none"))
    /\ UNCHANGED <<known, data, qualifier, calibratable>>

Fails(code) ==
    /\ Returns(Code(code))
    /\ UNCHANGED <<known, data, qualifier, calibratable>>

(* A parameter is added, in a set that is made for it when there is none.   *)
Insert(s, p, v) ==
    /\ known' = known \cup {s}
    /\ \/ /\ data[s][p] = Absent
          /\ data' = [data EXCEPT ![s] = [@ EXCEPT ![p] = v]]
          /\ Returns(Code("ok"))
       \/ /\ data[s][p] # Absent
          /\ data' = data
          /\ Returns(Code("parameterAlreadyExists"))
    /\ UNCHANGED <<qualifier, calibratable>>

Override(d, request) ==
    [p \in ParamNames |-> IF p \in DOMAIN request THEN request[p] ELSE d[p]]

Update(s, request) ==
    /\ s \in known /\ calibratable[s]
    /\ DOMAIN request \subseteq Names(data[s])
    /\ data' = [data EXCEPT ![s] = Override(@, request)]
    /\ Returns(Code("ok"))
    /\ UNCHANGED <<known, qualifier, calibratable>>

UpdateFails(s, request) ==
    \/ Fails("parsingError")
    \/ s \notin known /\ Fails("parameterSetNotFound")
    \/ s \in known /\ ~calibratable[s] /\ Fails("parameterSetNotCalibratable")
    \/ ~(DOMAIN request \subseteq Names(data[s])) /\ Fails("parametersNotFound")

SetCalibratable(s, flag) ==
    /\ s \in known
    /\ calibratable' = [calibratable EXCEPT ![s] = flag]
    /\ Returns(Code("ok"))
    /\ UNCHANGED <<known, data, qualifier>>

SetQualifier(s, q) ==
    /\ s \in known
    /\ qualifier' = [qualifier EXCEPT ![s] = q]
    /\ Returns(Code("ok"))
    /\ UNCHANGED <<known, data, calibratable>>

(* What a read of a set returns: all of it, one parameter, the qualifier.   *)
Read(s) ==
    /\ s \in known
    /\ \/ Returns(Reply("ok", data[s], qualifier[s]))
       \/ Returns(Reply("ok", NoData, qualifier[s]))
       \/ \E p \in Names(data[s]) :
             Returns(Reply("ok", [NoData EXCEPT ![p] = data[s][p]], "unqualified"))
    /\ UNCHANGED <<known, data, qualifier, calibratable>>

ReadFails(s) ==
    \/ s \notin known /\ Fails("parameterSetNotFound")
    \/ s \in known /\ Fails("convertingError")
    \/ s \in known /\ Names(data[s]) # ParamNames /\ Fails("parameterMissedError")

Next ==
    \/ Call
    \/ \E s \in SetNames :
          \/ \E p \in ParamNames, v \in Values : Insert(s, p, v)
          \/ \E request \in Requests : Update(s, request) \/ UpdateFails(s, request)
          \/ \E flag \in BOOLEAN : SetCalibratable(s, flag)
          \/ \E q \in Qualifiers : SetQualifier(s, q)
          \/ Read(s) \/ ReadFails(s)

ModelSpec == Init /\ [][Next]_vars
=============================================================================
