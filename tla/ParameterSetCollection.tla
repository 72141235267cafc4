------------------------ MODULE ParameterSetCollection ------------------------
(***************************************************************************)
(* The ConfigDaemon's data model: ParameterSetCollection, a map of         *)
(* ParameterSets under one mutex, used by the threads of the plugins and,  *)
(* through InternalConfigProviderServiceReactor, of the service.           *)
(*                                                                         *)
(* A call that goes through the parameters of a set one by one - an        *)
(* insertion, an update, a read of the whole set - is one step for every   *)
(* parameter here, with the mutex held; the other calls are one step.      *)
(* A set that does not exist has no parameters, the qualifier and the flag *)
(* of a new one.  Values are abstract: of the JSON text of an update only  *)
(* matters whether it is an object, and which parameters it names.         *)
(***************************************************************************)
EXTENDS DataModelTypes

CONSTANT
    Threads       \* the plugins' threads and the service's

ASSUME CollectionAssumption == "free" \notin Threads

VARIABLES
    known,        \* the keys of parameter_sets_
    data,         \* data_ of each ParameterSet
    qualifier,    \* qualifier_
    calibratable, \* is_calibratable_
    mutex,        \* the owner of mutex_
    pc,           \* where the call of each thread is
    target,       \* the set the call is about
    request,      \* the parameters it writes
    rest,         \* those of them, or of the set, that are still to be treated
    copy,         \* the parameters read so far
    result        \* what the last call to return returned

setVars   == <<known, data, qualifier, calibratable>>
localVars == <<target, request, rest, copy>>
vars == <<known, data, qualifier, calibratable, mutex, pc, target, request,
          rest, copy, result>>

Free == "free"

(* Seeded faults: the lock_guard is missing; the set is not looked for.     *)
LockForgotten(t) == mutex' = t
FoundUnseen(s) == TRUE

Lock(t) == mutex = Free /\ mutex' = t
Unlock(t) == mutex' = Free

Returns(reply) == result' = reply

(* A call of more than one step returns, and its locals are gone.           *)
Ends(t, reply) ==
    /\ Returns(reply)
    /\ pc' = [pc EXCEPT ![t] = "idle"]
    /\ request' = [request EXCEPT ![t] = NoData]
    /\ rest' = [rest EXCEPT ![t] = {}]
    /\ copy' = [copy EXCEPT ![t] = NoData]
    /\ Unlock(t)
    /\ UNCHANGED target

(* A call of one step: it waits for the mutex and does not keep it.         *)
AtOnce(t) == pc[t] = "idle" /\ mutex = Free /\ UNCHANGED <<mutex, pc, localVars>>

(* A call that keeps the mutex over more than one step.                     *)
Starts(t, s, to) ==
    /\ pc[t] = "idle"
    /\ Lock(t)
    /\ pc' = [pc EXCEPT ![t] = to]
    /\ target' = [target EXCEPT ![t] = s]
    /\ result' = Code("none")

Find(s) == s \in known
Exists(s, p) == data[s][p] # Absent
IsCalibratable(s) == calibratable[s]

-----------------------------------------------------------------------------
Init ==
    /\ known = {}
    /\ data = [s \in SetNames |-> NoData]
    /\ qualifier = [s \in SetNames |-> "unqualified"]
    /\ calibratable = [s \in SetNames |-> FALSE]
    /\ mutex = Free
    /\ pc = [t \in Threads |-> "idle"]
    /\ target \in [Threads -> SetNames]
    /\ request = [t \in Threads |-> NoData]
    /\ rest = [t \in Threads |-> {}]
    /\ copy = [t \in Threads |-> NoData]
    /\ result = Code("none")

(* Insert: the set is found or made, then the parameter added.              *)
InsertFinds(t, s, p, v) ==
    /\ Starts(t, s, "add")
    /\ known' = known \cup {s}
    /\ request' = [request EXCEPT ![t] = [NoData EXCEPT ![p] = v]]
    /\ rest' = [rest EXCEPT ![t] = {p}]
    /\ UNCHANGED <<data, qualifier, calibratable, copy>>

(* ParameterSet::Add.                                                       *)
Add(t, p) ==
    /\ pc[t] = "add" /\ p \in rest[t]
    /\ IF Exists(target[t], p)
       THEN data' = data /\ Ends(t, Code("parameterAlreadyExists"))
       ELSE /\ data' = [data EXCEPT ![target[t]] = [@ EXCEPT ![p] = request[t][p]]]
            /\ Ends(t, Code("ok"))
    /\ UNCHANGED <<known, qualifier, calibratable>>

(* UpdateParameterSet: a text that is no object, an unknown set and a set   *)
(* that is not calibratable are refused, in this order.                     *)
UpdateRefused(t, s, isObject) ==
    /\ AtOnce(t)
    /\ \/ ~isObject /\ Returns(Code("parsingError"))
       \/ isObject /\ ~Find(s) /\ Returns(Code("parameterSetNotFound"))
       \/ /\ isObject /\ Find(s) /\ ~IsCalibratable(s)
          /\ Returns(Code("parameterSetNotCalibratable"))
    /\ UNCHANGED setVars

UpdateStarts(t, s, values) ==
    /\ Find(s) /\ IsCalibratable(s)
    /\ Starts(t, s, "check")
    /\ request' = [request EXCEPT ![t] = [p \in ParamNames |->
                      IF p \in DOMAIN values THEN values[p] ELSE Absent]]
    /\ rest' = [rest EXCEPT ![t] = DOMAIN values]
    /\ UNCHANGED <<setVars, copy>>

(* ParameterSet::Update, the loop that looks for every parameter ...        *)
CheckOne(t, p) ==
    /\ pc[t] = "check" /\ p \in rest[t]
    /\ Exists(target[t], p)
    /\ rest' = [rest EXCEPT ![t] = @ \ {p}]
    /\ UNCHANGED <<setVars, mutex, pc, target, request, copy, result>>

CheckFails(t, p) ==
    /\ pc[t] = "check" /\ p \in rest[t]
    /\ ~Exists(target[t], p)
    /\ Ends(t, Code("parametersNotFound"))
    /\ UNCHANGED setVars

CheckDone(t) ==
    /\ pc[t] = "check" /\ rest[t] = {}
    /\ rest' = [rest EXCEPT ![t] = Names(request[t])]
    /\ pc' = [pc EXCEPT ![t] = "write"]
    /\ UNCHANGED <<setVars, mutex, target, request, copy, result>>

(* ... and the loop that sets them.                                         *)
WriteOne(t, p) ==
    /\ pc[t] = "write" /\ p \in rest[t]
    /\ data' = [data EXCEPT ![target[t]] = [@ EXCEPT ![p] = request[t][p]]]
    /\ rest' = [rest EXCEPT ![t] = @ \ {p}]
    /\ UNCHANGED <<known, qualifier, calibratable, mutex, pc, target, request,
                   copy, result>>

WriteDone(t) ==
    /\ pc[t] = "write" /\ rest[t] = {}
    /\ Ends(t, Code("ok"))
    /\ UNCHANGED setVars

(* GetParameterSet: the parameters are cloned one by one, the qualifier is  *)
(* taken and the result converted to a string, which may fail.              *)
ReadStarts(t, s) ==
    /\ Find(s)
    /\ Starts(t, s, "read")
    /\ rest' = [rest EXCEPT ![t] = Names(data[s])]
    /\ UNCHANGED <<setVars, request, copy>>

ReadOne(t, p) ==
    /\ pc[t] = "read" /\ p \in rest[t]
    /\ copy' = [copy EXCEPT ![t] = [@ EXCEPT ![p] = data[target[t]][p]]]
    /\ rest' = [rest EXCEPT ![t] = @ \ {p}]
    /\ UNCHANGED <<setVars, mutex, pc, target, request, result>>

ReadDone(t) ==
    /\ pc[t] = "read" /\ rest[t] = {}
    /\ \/ Ends(t, Reply("ok", copy[t], qualifier[target[t]]))
       \/ Ends(t, Code("convertingError"))
    /\ UNCHANGED setVars

(* GetParameterFromSet.                                                     *)
GetParameterFromSet(t, s, p) ==
    /\ AtOnce(t)
    /\ \/ ~Find(s) /\ Returns(Code("parameterSetNotFound"))
       \/ Find(s) /\ ~Exists(s, p) /\ Returns(Code("parameterMissedError"))
       \/ /\ Find(s) /\ Exists(s, p)
          /\ Returns(Reply("ok", [NoData EXCEPT ![p] = data[s][p]], "unqualified"))
    /\ UNCHANGED setVars

(* GetParameterSetQualifier; and every other call for an unknown set.       *)
GetParameterSetQualifier(t, s) ==
    /\ AtOnce(t)
    /\ Find(s)
    /\ Returns(Reply("ok", NoData, qualifier[s]))
    /\ UNCHANGED setVars

NotFound(t, s) ==
    /\ AtOnce(t)
    /\ ~Find(s)
    /\ Returns(Code("parameterSetNotFound"))
    /\ UNCHANGED setVars

SetCalibratable(t, s, flag) ==
    /\ AtOnce(t)
    /\ Find(s)
    /\ calibratable' = [calibratable EXCEPT ![s] = flag]
    /\ Returns(Code("ok"))
    /\ UNCHANGED <<known, data, qualifier>>

SetParameterSetQualifier(t, s, q) ==
    /\ AtOnce(t)
    /\ Find(s)
    /\ qualifier' = [qualifier EXCEPT ![s] = q]
    /\ Returns(Code("ok"))
    /\ UNCHANGED <<known, data, calibratable>>

CallNext(t, s) ==
    \/ \E p \in ParamNames, v \in Values : InsertFinds(t, s, p, v)
    \/ \E isObject \in BOOLEAN : UpdateRefused(t, s, isObject)
    \/ \E values \in Requests : UpdateStarts(t, s, values)
    \/ ReadStarts(t, s)
    \/ \E p \in ParamNames : GetParameterFromSet(t, s, p)
    \/ GetParameterSetQualifier(t, s) \/ NotFound(t, s)
    \/ \E flag \in BOOLEAN : SetCalibratable(t, s, flag)
    \/ \E q \in Qualifiers : SetParameterSetQualifier(t, s, q)

InsideNext(t) ==
    \/ \E p \in ParamNames : Add(t, p) \/ CheckOne(t, p) \/ CheckFails(t, p)
                             \/ WriteOne(t, p) \/ ReadOne(t, p)
    \/ CheckDone(t) \/ WriteDone(t) \/ ReadDone(t)

Next == \E t \in Threads : InsideNext(t) \/ \E s \in SetNames : CallNext(t, s)

Spec == Init /\ [][Next]_vars

-----------------------------------------------------------------------------
(* Every variable has its type, and a set that does not exist is as empty   *)
(* as a new one.                                                            *)
TypeOK ==
    /\ known \in SUBSET SetNames
    /\ data \in [SetNames -> Contents]
    /\ qualifier \in [SetNames -> Qualifiers]
    /\ calibratable \in [SetNames -> BOOLEAN]
    /\ mutex \in Threads \cup {Free}
    /\ pc \in [Threads -> {"idle", "add", "check", "write", "read"}]
    /\ target \in [Threads -> SetNames]
    /\ request \in [Threads -> Contents]
    /\ rest \in [Threads -> SUBSET ParamNames]
    /\ copy \in [Threads -> Contents]
    /\ result \in Replies
    /\ \A s \in SetNames \ known :
          data[s] = NoData /\ qualifier[s] = "unqualified" /\ ~calibratable[s]

(* A set that is not calibratable keeps the values of its parameters,       *)
(* whatever other threads change between the check of the flag and the last *)
(* write of an update.                                                      *)
FixedUnlessCalibratable ==
    [][\A s \in SetNames : ~calibratable[s] =>
          \A p \in Names(data[s]) : data'[s][p] = data[s][p]]_data

(* A parameter that was inserted is never removed, and only parameters that *)
(* were inserted are there: an update never makes one.                      *)
NamesOnlyByInsertion ==
    [][\A s \in SetNames : Names(data'[s]) # Names(data[s]) =>
          /\ Names(data[s]) \subseteq Names(data'[s])
          /\ \E t \in Threads : pc[t] = "add" /\ target[t] = s]_data

-----------------------------------------------------------------------------
(***************************************************************************)
(* The collection implements DataModel.  An insertion and an update take   *)
(* effect when the last reason to refuse them is gone: what is written     *)
(* after that is counted as written already.                               *)
(***************************************************************************)
Writing(t, s) == mutex = t /\ pc[t] \in {"add", "write"} /\ target[t] = s

Pending(s, p) ==
    \E t \in Threads : /\ Writing(t, s) /\ p \in rest[t]
                       /\ pc[t] = "add" => ~Exists(s, p)

AbstractData ==
    [s \in SetNames |-> [p \in ParamNames |->
        IF Pending(s, p) THEN request[mutex][p] ELSE data[s][p]]]

AbstractResult ==
    IF \E t \in Threads, s \in SetNames : Writing(t, s)
    THEN IF \E p \in rest[mutex] : pc[mutex] = "add" /\ Exists(target[mutex], p)
         THEN Code("parameterAlreadyExists") ELSE Code("ok")
    ELSE result

Model == INSTANCE DataModel WITH data <- AbstractData, result <- AbstractResult

(* Every call of the collection takes effect at once or not at all, and a   *)
(* read returns values and qualifier of one moment.                         *)
ModelSpec == Model!ModelSpec
=============================================================================
