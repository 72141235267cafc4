--------------------- MODULE ParameterSetCollection_proof ---------------------
(***************************************************************************)
(* Proofs about ParameterSetCollection, for any sets of threads, names and *)
(* values.                                                                 *)
(***************************************************************************)
EXTENDS ParameterSetCollection, TLAPS

(* The mutex belongs to the thread that is inside a call.                   *)
OwnerInv == \A t \in Threads : pc[t] # "idle" <=> mutex = t

(* What an idle thread has left of its last call, and that a call inside    *)
(* the collection is about a set that exists.                               *)
LocalInv ==
    \A t \in Threads :
        IF pc[t] = "idle" THEN copy[t] = NoData ELSE target[t] \in known

(* An insertion has one parameter, with a value, to add.                    *)
AddInv ==
    \A t \in Threads : pc[t] = "add" =>
        \E p \in ParamNames : rest[t] = {p} /\ request[t][p] \in Values

(* An update is of a calibratable set; the names it has checked exist, and  *)
(* once it writes all of them do.                                           *)
UpdateInv ==
    \A t \in Threads : pc[t] \in {"check", "write"} =>
        /\ calibratable[target[t]]
        /\ rest[t] \subseteq Names(request[t])
        /\ \A p \in Names(request[t]) :
              Exists(target[t], p) \/ (pc[t] = "check" /\ p \in rest[t])

(* A read has copied what it has treated, and nothing else exists.          *)
ReadInv ==
    \A t \in Threads : pc[t] = "read" =>
        \A p \in ParamNames : p \in rest[t] \/ copy[t][p] = data[target[t]][p]

CInv == TypeOK /\ OwnerInv /\ LocalInv /\ AddInv /\ UpdateInv /\ ReadInv

-----------------------------------------------------------------------------
LEMMA NoDataTyped ==
    /\ NoData \in Contents /\ \A p \in ParamNames : NoData[p] = Absent
    /\ Names(NoData) = {}
  BY DEF NoData, Contents, Names

LEMMA ReplyTyped ==
    ASSUME NEW code \in Codes, NEW d \in Contents, NEW q \in Qualifiers
    PROVE Reply(code, d, q) \in Replies /\ Code(code) \in Replies
  BY NoDataTyped DEF Reply, Code, Replies, Qualifiers

LEMMA CodesTyped ==
    \A code \in Codes : Code(code) \in Replies
  BY ReplyTyped, NoDataTyped DEF Qualifiers

LEMMA CInit == Init => CInv
<1> SUFFICES ASSUME Init PROVE CInv
  OBVIOUS
<1> USE NoDataTyped, CodesTyped, CollectionAssumption DEF Init
<1>1. TypeOK
  BY DEF TypeOK, Qualifiers, Codes
<1>2. OwnerInv /\ LocalInv
  BY DEF OwnerInv, LocalInv, Free
<1>3. AddInv /\ UpdateInv /\ ReadInv
  BY DEF AddInv, UpdateInv, ReadInv
<1> QED BY <1>1, <1>2, <1>3 DEF CInv

-----------------------------------------------------------------------------
(* Calls that take one step leave every call inside where it is: there is   *)
(* none.                                                                    *)
LEMMA AllIdle ==
    ASSUME CInv, mutex = Free
    PROVE \A t \in Threads : pc[t] = "idle"
  BY CollectionAssumption DEF CInv, OwnerInv, Free

LEMMA OnlyOwner ==
    ASSUME CInv, NEW t \in Threads, pc[t] # "idle"
    PROVE /\ mutex = t
          /\ \A u \in Threads : u # t => pc[u] = "idle"
  BY DEF CInv, OwnerInv

LEMMA AtOnceStep ==
    ASSUME CInv, NEW t \in Threads, AtOnce(t), TypeOK', known \subseteq known'
    PROVE CInv'
<1>1. \A u \in Threads : pc'[u] = "idle" /\ mutex' = Free
  BY AllIdle DEF AtOnce
<1> QED BY <1>1, CollectionAssumption DEF CInv, AtOnce, localVars, OwnerInv, LocalInv,
      AddInv, UpdateInv, ReadInv, Free

LEMMA ReadOnlyTyped ==
    ASSUME CInv, NEW t \in Threads, AtOnce(t), UNCHANGED setVars, result' \in Replies
    PROVE CInv'
<1>1. TypeOK'
  BY DEF CInv, TypeOK, AtOnce, localVars, setVars
<1> QED BY <1>1, AtOnceStep DEF setVars

LEMMA AtOnceCalls ==
    ASSUME CInv, NEW t \in Threads, NEW s \in SetNames,
           \/ \E isObject \in BOOLEAN : UpdateRefused(t, s, isObject)
           \/ \E p \in ParamNames : GetParameterFromSet(t, s, p)
           \/ GetParameterSetQualifier(t, s) \/ NotFound(t, s)
           \/ \E flag \in BOOLEAN : SetCalibratable(t, s, flag)
           \/ \E q \in Qualifiers : SetParameterSetQualifier(t, s, q)
    PROVE CInv'
<1> USE CodesTyped DEF Returns
<1>1. ASSUME NEW isObject \in BOOLEAN, UpdateRefused(t, s, isObject) PROVE CInv'
  BY <1>1, ReadOnlyTyped DEF UpdateRefused, Codes
<1>2. ASSUME NEW p \in ParamNames, GetParameterFromSet(t, s, p) PROVE CInv'
  <2>1. [NoData EXCEPT ![p] = data[s][p]] \in Contents
    BY NoDataTyped DEF CInv, TypeOK, Contents
  <2>2. Reply("ok", [NoData EXCEPT ![p] = data[s][p]], "unqualified") \in Replies
    BY <2>1, ReplyTyped DEF Codes, Qualifiers
  <2> QED BY <1>2, <2>2, ReadOnlyTyped DEF GetParameterFromSet, Codes
<1>3. CASE GetParameterSetQualifier(t, s)
  <2>1. Reply("ok", NoData, qualifier[s]) \in Replies
    BY ReplyTyped, NoDataTyped DEF Codes, CInv, TypeOK
  <2> QED BY <1>3, <2>1, ReadOnlyTyped DEF GetParameterSetQualifier
<1>4. CASE NotFound(t, s)
  BY <1>4, ReadOnlyTyped DEF NotFound, Codes
<1>5. ASSUME NEW flag \in BOOLEAN, SetCalibratable(t, s, flag) PROVE CInv'
  <2>1. TypeOK'
    BY <1>5 DEF CInv, TypeOK, SetCalibratable, AtOnce, localVars, Find, Codes
  <2> QED BY <1>5, <2>1, AtOnceStep DEF SetCalibratable
<1>6. ASSUME NEW q \in Qualifiers, SetParameterSetQualifier(t, s, q) PROVE CInv'
  <2>1. TypeOK'
    BY <1>6 DEF CInv, TypeOK, SetParameterSetQualifier, AtOnce, localVars, Find, Codes
  <2> QED BY <1>6, <2>1, AtOnceStep DEF SetParameterSetQualifier
<1> QED BY <1>1, <1>2, <1>3, <1>4, <1>5, <1>6

-----------------------------------------------------------------------------
(* Calls that keep the mutex: their first step.                             *)
LEMMA StartsOwner ==
    ASSUME CInv, NEW t \in Threads, NEW s \in SetNames,
           NEW to \in {"add", "check", "read"}, Starts(t, s, to)
    PROVE /\ OwnerInv'
          /\ pc'[t] = to /\ target'[t] = s
          /\ \A u \in Threads : u # t => pc'[u] = "idle" /\ pc[u] = "idle"
          /\ mutex' = t /\ pc[t] = "idle"
          /\ pc' \in [Threads -> {"idle", "add", "check", "write", "read"}]
          /\ target' \in [Threads -> SetNames]
          /\ result' \in Replies
<1> USE CollectionAssumption DEF Starts, Lock
<1>1. \A u \in Threads : pc[u] = "idle"
  BY AllIdle
<1>2. result' \in Replies
  BY CodesTyped DEF Codes
<1> QED BY <1>1, <1>2 DEF CInv, TypeOK, OwnerInv

LEMMA StartSteps ==
    ASSUME CInv, NEW t \in Threads, NEW s \in SetNames,
           \/ \E p \in ParamNames, v \in Values : InsertFinds(t, s, p, v)
           \/ \E values \in Requests : UpdateStarts(t, s, values)
           \/ ReadStarts(t, s)
    PROVE CInv'
<1> USE DataModelAssumption
<1>1. ASSUME NEW p \in ParamNames, NEW v \in Values, InsertFinds(t, s, p, v) PROVE CInv'
  <2> USE <1>1 DEF InsertFinds
  <2>1. /\ OwnerInv' /\ pc'[t] = "add" /\ target'[t] = s
        /\ \A u \in Threads : u # t => pc'[u] = "idle" /\ pc[u] = "idle"
        /\ pc[t] = "idle" /\ mutex' = t
        /\ pc' \in [Threads -> {"idle", "add", "check", "write", "read"}]
        /\ target' \in [Threads -> SetNames] /\ result' \in Replies
    BY StartsOwner
  <2>2. [NoData EXCEPT ![p] = v] \in Contents /\ [NoData EXCEPT ![p] = v][p] = v
    BY NoDataTyped DEF Contents
  <2>3. TypeOK'
    <3>1. request' \in [Threads -> Contents] /\ rest' \in [Threads -> SUBSET ParamNames]
      BY <2>2 DEF CInv, TypeOK
    <3>2. known' \in SUBSET SetNames /\ SetNames \ known' \subseteq SetNames \ known
      BY DEF CInv, TypeOK
    <3> QED BY <2>1, <3>1, <3>2 DEF CInv, TypeOK
  <2>4. LocalInv'
    BY <2>1 DEF CInv, LocalInv
  <2>5. AddInv'
    BY <2>1, <2>2 DEF CInv, TypeOK, AddInv
  <2>6. UpdateInv' /\ ReadInv'
    BY <2>1 DEF UpdateInv, ReadInv
  <2> QED BY <2>1, <2>3, <2>4, <2>5, <2>6 DEF CInv
<1>2. ASSUME NEW values \in Requests, UpdateStarts(t, s, values) PROVE CInv'
  <2> USE <1>2 DEF UpdateStarts
  <2>1. /\ OwnerInv' /\ pc'[t] = "check" /\ target'[t] = s
        /\ \A u \in Threads : u # t => pc'[u] = "idle" /\ pc[u] = "idle"
        /\ pc[t] = "idle" /\ mutex' = t
        /\ pc' \in [Threads -> {"idle", "add", "check", "write", "read"}]
        /\ target' \in [Threads -> SetNames] /\ result' \in Replies
    BY StartsOwner
  <2> DEFINE r == [p \in ParamNames |-> IF p \in DOMAIN values THEN values[p] ELSE Absent]
  <2>2. PICK S \in SUBSET ParamNames : values \in [S -> Values]
    BY DEF Requests
  <2>3. r \in Contents /\ DOMAIN values \in SUBSET ParamNames
    BY <2>2 DEF Contents
  <2>4. Names(r) = DOMAIN values
    BY <2>2 DEF Names
  <2>5. request'[t] = r /\ rest'[t] = DOMAIN values
    BY DEF CInv, TypeOK
  <2>6. TypeOK'
    BY <2>1, <2>3 DEF CInv, TypeOK, setVars
  <2>7. LocalInv'
    BY <2>1 DEF CInv, LocalInv, setVars, Find
  <2>8. UpdateInv'
    BY <2>1, <2>4, <2>5 DEF UpdateInv, setVars, IsCalibratable
  <2>9. AddInv' /\ ReadInv'
    BY <2>1 DEF AddInv, ReadInv
  <2> QED BY <2>1, <2>6, <2>7, <2>8, <2>9 DEF CInv
<1>3. CASE ReadStarts(t, s)
  <2> USE <1>3 DEF ReadStarts
  <2>1. /\ OwnerInv' /\ pc'[t] = "read" /\ target'[t] = s
        /\ \A u \in Threads : u # t => pc'[u] = "idle" /\ pc[u] = "idle"
        /\ pc[t] = "idle" /\ mutex' = t
        /\ pc' \in [Threads -> {"idle", "add", "check", "write", "read"}]
        /\ target' \in [Threads -> SetNames] /\ result' \in Replies
    BY StartsOwner
  <2>2. Names(data[s]) \subseteq ParamNames
    BY DEF Names
  <2>3. TypeOK'
    <3>1. rest' \in [Threads -> SUBSET ParamNames] /\ mutex' \in Threads \cup {Free}
      BY <2>1, <2>2 DEF CInv, TypeOK
    <3> QED BY <2>1, <3>1 DEF CInv, TypeOK, setVars
  <2>4. LocalInv'
    BY <2>1 DEF CInv, LocalInv, setVars, Find
  <2>5. ReadInv'
    <3>1. copy'[t] = NoData /\ rest'[t] = Names(data[s]) /\ data' = data
      BY <2>1 DEF CInv, TypeOK, LocalInv, setVars
    <3>2. \A p \in ParamNames : p \in Names(data[s]) \/ NoData[p] = data[s][p]
      BY NoDataTyped DEF Names
    <3> QED BY <2>1, <3>1, <3>2 DEF ReadInv
  <2>6. AddInv' /\ UpdateInv'
    BY <2>1 DEF AddInv, UpdateInv
  <2> QED BY <2>1, <2>3, <2>4, <2>5, <2>6 DEF CInv
<1> QED BY <1>1, <1>2, <1>3

-----------------------------------------------------------------------------
(* Steps inside a call.                                                     *)
LEMMA EndsStep ==
    ASSUME CInv, NEW t \in Threads, pc[t] # "idle",
           NEW reply \in Replies, Ends(t, reply),
           UNCHANGED <<known, qualifier, calibratable>>,
           data' \in [SetNames -> Contents],
           \A s \in SetNames \ known : data'[s] = data[s]
    PROVE CInv'
<1> USE CollectionAssumption DEF Ends, Returns, Unlock
<1>1. \A u \in Threads : u # t => pc[u] = "idle"
  BY OnlyOwner
<1>2. \A u \in Threads : pc'[u] = "idle" /\ mutex' # u
  BY <1>1 DEF CInv, TypeOK, Free
<1>3. TypeOK'
  BY NoDataTyped DEF CInv, TypeOK
<1>4. LocalInv'
  BY <1>1, <1>2 DEF CInv, TypeOK, LocalInv
<1>5. OwnerInv' /\ AddInv' /\ UpdateInv' /\ ReadInv'
  BY <1>2 DEF OwnerInv, AddInv, UpdateInv, ReadInv
<1> QED BY <1>3, <1>4, <1>5 DEF CInv

(* The sets other threads' calls are about do not matter: they are idle.    *)
LEMMA InsideStep ==
    ASSUME CInv, NEW t \in Threads, InsideNext(t) PROVE CInv'
<1> USE CodesTyped, DataModelAssumption
<1>1. ASSUME NEW p \in ParamNames, Add(t, p) PROVE CInv'
  <2> USE <1>1 DEF Add
  <2>1. pc[t] # "idle" /\ target[t] \in SetNames /\ target[t] \in known
    BY DEF CInv, TypeOK, LocalInv
  <2>2. request[t][p] \in Values \cup {Absent}
    BY DEF CInv, TypeOK, Contents
  <2>3. CASE Exists(target[t], p)
    <3>1. Ends(t, Code("parameterAlreadyExists")) /\ data' = data
      BY <2>3
    <3> QED BY <2>1, <3>1, EndsStep DEF Codes, CInv, TypeOK
  <2>4. CASE ~Exists(target[t], p)
    <3>1. /\ Ends(t, Code("ok"))
          /\ data' = [data EXCEPT ![target[t]] = [@ EXCEPT ![p] = request[t][p]]]
      BY <2>4
    <3>2. data' \in [SetNames -> Contents] /\ \A r \in SetNames \ {target[t]} : data'[r] = data[r]
      <4>1. data \in [SetNames -> Contents]
        BY DEF CInv, TypeOK
      <4>2. [data[target[t]] EXCEPT ![p] = request[t][p]] \in Contents
        BY <2>1, <2>2, <4>1 DEF Contents
      <4> QED BY <2>1, <3>1, <4>1, <4>2
    <3> QED BY <2>1, <3>1, <3>2, EndsStep DEF Codes
  <2> QED BY <2>3, <2>4
<1>2. ASSUME NEW p \in ParamNames, CheckOne(t, p) PROVE CInv'
  <2> USE <1>2 DEF CheckOne, setVars
  <2>1. TypeOK' /\ OwnerInv' /\ LocalInv' /\ AddInv' /\ ReadInv'
    BY DEF CInv, TypeOK, OwnerInv, LocalInv, AddInv, ReadInv, Exists
  <2>2. UpdateInv'
    BY OnlyOwner DEF CInv, TypeOK, UpdateInv, Exists
  <2> QED BY <2>1, <2>2 DEF CInv
<1>3. ASSUME NEW p \in ParamNames, CheckFails(t, p) PROVE CInv'
  BY <1>3, EndsStep DEF CheckFails, Codes, setVars, CInv, TypeOK
<1>4. CASE CheckDone(t)
  <2> USE <1>4 DEF CheckDone, setVars
  <2>1. Names(request[t]) \in SUBSET ParamNames
    BY DEF Names
  <2>2. TypeOK'
    BY <2>1 DEF CInv, TypeOK
  <2>3. OwnerInv' /\ LocalInv' /\ AddInv' /\ ReadInv'
    BY DEF CInv, TypeOK, OwnerInv, LocalInv, AddInv, ReadInv
  <2>4. UpdateInv'
    BY OnlyOwner DEF CInv, TypeOK, UpdateInv, Exists
  <2> QED BY <2>2, <2>3, <2>4 DEF CInv
<1>5. ASSUME NEW p \in ParamNames, WriteOne(t, p) PROVE CInv'
  <2> USE <1>5 DEF WriteOne
  <2>1. target[t] \in SetNames /\ target[t] \in known
    BY DEF CInv, TypeOK, LocalInv
  <2>2. p \in Names(request[t]) /\ request[t][p] \in Values
    BY DEF CInv, TypeOK, UpdateInv, Names, Contents
  <2>3. /\ data' \in [SetNames -> Contents] /\ data'[target[t]][p] = request[t][p]
        /\ \A q \in ParamNames \ {p} : data'[target[t]][q] = data[target[t]][q]
        /\ \A r \in SetNames \ {target[t]} : data'[r] = data[r]
    <3>1. data \in [SetNames -> Contents]
      BY DEF CInv, TypeOK
    <3>2. data' = [data EXCEPT ![target[t]] = [@ EXCEPT ![p] = request[t][p]]]
      OBVIOUS
    <3>3. data[target[t]] \in Contents /\ [data[target[t]] EXCEPT ![p] = request[t][p]] \in Contents
      BY <2>1, <2>2, <3>1 DEF Contents
    <3>4. /\ data' \in [SetNames -> Contents]
          /\ data'[target[t]] = [data[target[t]] EXCEPT ![p] = request[t][p]]
          /\ \A r \in SetNames \ {target[t]} : data'[r] = data[r]
      BY <2>1, <3>1, <3>2, <3>3
    <3> QED BY <3>3, <3>4 DEF Contents
  <2>4. TypeOK'
    BY <2>1, <2>3 DEF CInv, TypeOK
  <2>5. \A u \in Threads : u # t => pc[u] = "idle"
    BY OnlyOwner
  <2>6. UpdateInv'
    <3>1. \A q \in Names(request[t]) : Exists(target[t], q)'
      BY <2>2, <2>3 DEF CInv, UpdateInv, Exists, Names
    <3> QED BY <2>5, <3>1 DEF CInv, TypeOK, UpdateInv
  <2>7. OwnerInv' /\ LocalInv' /\ AddInv' /\ ReadInv'
    BY <2>5 DEF CInv, TypeOK, OwnerInv, LocalInv, AddInv, ReadInv
  <2> QED BY <2>4, <2>6, <2>7 DEF CInv
<1>6. CASE WriteDone(t)
  BY <1>6, EndsStep DEF WriteDone, Codes, setVars, CInv, TypeOK
<1>7. ASSUME NEW p \in ParamNames, ReadOne(t, p) PROVE CInv'
  <2> USE <1>7 DEF ReadOne, setVars
  <2>1. data[target[t]][p] \in Values \cup {Absent}
    BY DEF CInv, TypeOK, Contents
  <2>2. [copy[t] EXCEPT ![p] = data[target[t]][p]] \in Contents
    BY <2>1 DEF CInv, TypeOK, Contents
  <2>3. TypeOK'
    BY <2>2 DEF CInv, TypeOK
  <2>4. OwnerInv' /\ LocalInv' /\ AddInv' /\ UpdateInv'
    BY DEF CInv, TypeOK, OwnerInv, LocalInv, AddInv, UpdateInv, Exists
  <2>5. ReadInv'
    BY OnlyOwner DEF CInv, TypeOK, ReadInv, Contents
  <2> QED BY <2>3, <2>4, <2>5 DEF CInv
<1>8. CASE ReadDone(t)
  <2>1. Reply("ok", copy[t], qualifier[target[t]]) \in Replies
    BY ReplyTyped DEF Codes, CInv, TypeOK
  <2> QED BY <1>8, <2>1, EndsStep DEF ReadDone, Codes, setVars, CInv, TypeOK
<1> QED BY <1>1, <1>2, <1>3, <1>4, <1>5, <1>6, <1>7, <1>8 DEF InsideNext

LEMMA CStep == CInv /\ [Next]_vars => CInv'
<1> SUFFICES ASSUME CInv, [Next]_vars PROVE CInv'
  OBVIOUS
<1>1. ASSUME NEW t \in Threads, InsideNext(t) PROVE CInv'
  BY <1>1, InsideStep
<1>2. ASSUME NEW t \in Threads, NEW s \in SetNames, CallNext(t, s) PROVE CInv'
  BY <1>2, AtOnceCalls, StartSteps DEF CallNext
<1>3. CASE UNCHANGED vars
  BY <1>3 DEF vars, CInv, TypeOK, OwnerInv, LocalInv, AddInv, UpdateInv, ReadInv, Exists
<1> QED BY <1>1, <1>2, <1>3 DEF Next

(* The inductive invariant holds in every reachable state.                  *)
THEOREM CInvariance == Spec => []CInv
  BY CInit, CStep, PTL DEF Spec

(* Type correctness, and a set that does not exist stays as a new one.      *)
THEOREM CTypeCorrect == Spec => []TypeOK
  BY CInvariance, PTL DEF CInv

-----------------------------------------------------------------------------
(* The only two steps that change parameters, and what they change.         *)
AddsOne(t, p) ==
    /\ pc[t] = "add" /\ data[target[t]][p] = Absent
    /\ rest[t] = {p} /\ request[t][p] \in Values
    /\ data' = [data EXCEPT ![target[t]] = [@ EXCEPT ![p] = request[t][p]]]
SetsOne(t, p) ==
    /\ pc[t] = "write" /\ calibratable[target[t]]
    /\ data[target[t]][p] # Absent /\ request[t][p] \in Values
    /\ data' = [data EXCEPT ![target[t]] = [@ EXCEPT ![p] = request[t][p]]]

LEMMA DataChanges ==
    ASSUME CInv, Next
    PROVE \/ UNCHANGED data
          \/ \E t \in Threads, p \in ParamNames : AddsOne(t, p) \/ SetsOne(t, p)
<1>1. ASSUME NEW t \in Threads, NEW p \in ParamNames, Add(t, p)
      PROVE UNCHANGED data \/ AddsOne(t, p)
  BY <1>1 DEF Add, Exists, CInv, AddInv, AddsOne
<1>2. ASSUME NEW t \in Threads, NEW p \in ParamNames, WriteOne(t, p)
      PROVE SetsOne(t, p)
  <2>1. p \in Names(request[t]) /\ request[t] \in Contents
    BY <1>2 DEF WriteOne, CInv, TypeOK, UpdateInv
  <2> QED BY <1>2, <2>1 DEF WriteOne, CInv, UpdateInv, Exists, Names, Contents, SetsOne
<1>3. ASSUME NEW t \in Threads, NEW p \in ParamNames,
             CheckOne(t, p) \/ CheckFails(t, p) \/ ReadOne(t, p)
      PROVE UNCHANGED data
  BY <1>3 DEF CheckOne, CheckFails, ReadOne, setVars
<1>4. ASSUME NEW t \in Threads, CheckDone(t) \/ WriteDone(t) \/ ReadDone(t)
      PROVE UNCHANGED data
  BY <1>4 DEF CheckDone, WriteDone, ReadDone, setVars
<1>5. ASSUME NEW t \in Threads, NEW s \in SetNames, CallNext(t, s)
      PROVE UNCHANGED data
  BY <1>5 DEF CallNext, InsertFinds, UpdateRefused, UpdateStarts, ReadStarts,
     GetParameterFromSet, GetParameterSetQualifier, NotFound, SetCalibratable,
     SetParameterSetQualifier, setVars
<1>6. CASE \E t \in Threads : InsideNext(t)
  BY <1>1, <1>2, <1>3, <1>4, <1>6 DEF InsideNext
<1>7. CASE \E t \in Threads, s \in SetNames : CallNext(t, s)
  BY <1>5, <1>7
<1> QED BY <1>6, <1>7 DEF Next

(* No update changes a set that is not calibratable.                        *)
THEOREM FixedIsKept == Spec => FixedUnlessCalibratable
<1> DEFINE A == \A s \in SetNames : ~calibratable[s] =>
                   \A p \in Names(data[s]) : data'[s][p] = data[s][p]
<1>1. ASSUME CInv, Next PROVE A
  <2> SUFFICES ASSUME NEW s \in SetNames, ~calibratable[s], NEW p \in Names(data[s])
               PROVE data'[s][p] = data[s][p]
    OBVIOUS
  <2>1. data \in [SetNames -> [ParamNames -> Values \cup {Absent}]]
        /\ target \in [Threads -> SetNames] /\ p \in ParamNames /\ data[s][p] # Absent
    BY <1>1 DEF CInv, TypeOK, Contents, Names
  <2>2. ASSUME NEW t \in Threads, NEW q \in ParamNames,
               data[target[t]][q] = Absent \/ calibratable[target[t]],
               data' = [data EXCEPT ![target[t]] = [@ EXCEPT ![q] = request[t][q]]]
        PROVE data'[s][p] = data[s][p]
    <3>1. CASE target[t] # s
      BY <2>1, <2>2, <3>1
    <3>2. CASE target[t] = s
      BY <2>1, <2>2, <3>2
    <3> QED BY <3>1, <3>2
  <2> QED BY <1>1, <2>2, DataChanges DEF AddsOne, SetsOne
<1>2. CInv /\ [Next]_vars => [A]_data
  BY <1>1 DEF vars
<1> QED BY <1>2, CInvariance, PTL DEF Spec, FixedUnlessCalibratable

(* Parameters come by insertion only and never go.                          *)
THEOREM NamesAreInserted == Spec => NamesOnlyByInsertion
<1> DEFINE A == \A s \in SetNames : Names(data'[s]) # Names(data[s]) =>
                   /\ Names(data[s]) \subseteq Names(data'[s])
                   /\ \E t \in Threads : pc[t] = "add" /\ target[t] = s
<1>1. ASSUME CInv, Next PROVE A
  <2> SUFFICES ASSUME NEW s \in SetNames, Names(data'[s]) # Names(data[s])
               PROVE /\ Names(data[s]) \subseteq Names(data'[s])
                     /\ \E t \in Threads : pc[t] = "add" /\ target[t] = s
    OBVIOUS
  <2>1. /\ data \in [SetNames -> [ParamNames -> Values \cup {Absent}]]
        /\ target \in [Threads -> SetNames]
    BY <1>1 DEF CInv, TypeOK, Contents
  <2>2. ASSUME NEW t \in Threads, NEW p \in ParamNames, request[t][p] \in Values,
               data' = [data EXCEPT ![target[t]] = [@ EXCEPT ![p] = request[t][p]]]
        PROVE /\ target[t] = s
              /\ Names(data'[s]) = Names(data[s]) \cup {p}
    BY <2>1, <2>2, DataModelAssumption DEF Names
  <2>3. ASSUME NEW t \in Threads, NEW p \in ParamNames, data[target[t]][p] # Absent,
               request[t][p] \in Values,
               data' = [data EXCEPT ![target[t]] = [@ EXCEPT ![p] = request[t][p]]]
        PROVE FALSE
    BY <2>2, <2>3 DEF Names
  <2> QED BY <1>1, <2>2, <2>3, DataChanges DEF AddsOne, SetsOne
<1>2. CInv /\ [Next]_vars => [A]_data
  BY <1>1 DEF vars
<1> QED BY <1>2, CInvariance, PTL DEF Spec, NamesOnlyByInsertion

-----------------------------------------------------------------------------
(***************************************************************************)
(* The refinement.  First, what the abstract parameters and result are in  *)
(* each phase of a call, in a state and in its successor.                  *)
(***************************************************************************)
AddedData(t, p) == [data EXCEPT ![target[t]] = [@ EXCEPT ![p] = request[t][p]]]
WrittenData(t) ==
    [data EXCEPT ![target[t]] = [p \in ParamNames |->
        IF p \in rest[t] THEN request[t][p] ELSE data[target[t]][p]]]

Outside == \A t \in Threads : pc[t] \notin {"add", "write"}

LEMMA AbstractOutside ==
    CInv /\ Outside => AbstractData = data /\ AbstractResult = result
<1> SUFFICES ASSUME CInv, Outside PROVE AbstractData = data /\ AbstractResult = result
  OBVIOUS
<1>1. \A t \in Threads, s \in SetNames : ~Writing(t, s)
  BY DEF Outside, Writing
<1>2. data \in [SetNames -> [ParamNames -> Values \cup {Absent}]]
  BY DEF CInv, TypeOK, Contents
<1>3. \A s \in SetNames : \A p \in ParamNames : ~Pending(s, p)
  BY <1>1 DEF Pending
<1>4. AbstractData = data
  BY <1>2, <1>3 DEF AbstractData
<1> QED BY <1>1, <1>4 DEF AbstractResult

LEMMA AbstractAdding ==
    CInv => \A t \in Threads, p \in ParamNames :
        pc[t] = "add" /\ rest[t] = {p} =>
            IF Exists(target[t], p)
            THEN AbstractData = data /\ AbstractResult = Code("parameterAlreadyExists")
            ELSE AbstractData = AddedData(t, p) /\ AbstractResult = Code("ok")
<1> SUFFICES ASSUME CInv, NEW t \in Threads, NEW p \in ParamNames,
                    pc[t] = "add", rest[t] = {p}
             PROVE IF Exists(target[t], p)
                   THEN AbstractData = data /\ AbstractResult = Code("parameterAlreadyExists")
                   ELSE AbstractData = AddedData(t, p) /\ AbstractResult = Code("ok")
  OBVIOUS
<1>1. data \in [SetNames -> [ParamNames -> Values \cup {Absent}]] /\ target[t] \in SetNames
  BY DEF CInv, TypeOK, Contents
<1>2. mutex = t
  BY OnlyOwner
<1>3. \A u \in Threads, s \in SetNames : Writing(u, s) <=> u = t /\ s = target[t]
  BY <1>2 DEF Writing
<1>4. \A s \in SetNames : \A q \in ParamNames :
        Pending(s, q) <=> s = target[t] /\ q = p /\ ~Exists(s, q)
  BY <1>1, <1>3 DEF Pending
<1>5. AbstractResult = IF Exists(target[t], p)
                       THEN Code("parameterAlreadyExists") ELSE Code("ok")
  BY <1>1, <1>2, <1>3 DEF AbstractResult
<1>6. CASE Exists(target[t], p)
  <2>1. \A s \in SetNames : \A q \in ParamNames : ~Pending(s, q)
    BY <1>4, <1>6
  <2>2. AbstractData = data
    BY <1>1, <2>1 DEF AbstractData
  <2> QED BY <1>5, <1>6, <2>2
<1>7. CASE ~Exists(target[t], p)
  <2>1. \A s \in SetNames : \A q \in ParamNames : Pending(s, q) <=> s = target[t] /\ q = p
    BY <1>4, <1>7
  <2>2. AbstractData = AddedData(t, p)
    BY <1>1, <1>2, <2>1 DEF AbstractData, AddedData
  <2> QED BY <1>5, <1>7, <2>2
<1> QED BY <1>6, <1>7

LEMMA AbstractWriting ==
    CInv => \A t \in Threads : pc[t] = "write" =>
        AbstractData = WrittenData(t) /\ AbstractResult = Code("ok")
<1> SUFFICES ASSUME CInv, NEW t \in Threads, pc[t] = "write"
             PROVE AbstractData = WrittenData(t) /\ AbstractResult = Code("ok")
  OBVIOUS
<1>1. data \in [SetNames -> [ParamNames -> Values \cup {Absent}]] /\ target[t] \in SetNames
  BY DEF CInv, TypeOK, Contents
<1>2. mutex = t
  BY OnlyOwner
<1>3. \A u \in Threads, s \in SetNames : Writing(u, s) <=> u = t /\ s = target[t]
  BY <1>2 DEF Writing
<1>4. \A s \in SetNames : \A q \in ParamNames :
        Pending(s, q) <=> s = target[t] /\ q \in rest[t]
  BY <1>1, <1>3 DEF Pending
<1>5. AbstractResult = Code("ok")
  BY <1>1, <1>2, <1>3 DEF AbstractResult
<1>6. AbstractData = WrittenData(t)
  BY <1>1, <1>2, <1>4 DEF AbstractData, WrittenData
<1> QED BY <1>5, <1>6

LEMMA NextOutside ==
    (CInv /\ Outside => AbstractData = data /\ AbstractResult = result)'
  BY AbstractOutside, PTL

LEMMA NextAdding ==
    (CInv => \A t \in Threads, p \in ParamNames :
        pc[t] = "add" /\ rest[t] = {p} =>
            IF Exists(target[t], p)
            THEN AbstractData = data /\ AbstractResult = Code("parameterAlreadyExists")
            ELSE AbstractData = AddedData(t, p) /\ AbstractResult = Code("ok"))'
  BY AbstractAdding, PTL

LEMMA NextWriting ==
    (CInv => \A t \in Threads : pc[t] = "write" =>
        AbstractData = WrittenData(t) /\ AbstractResult = Code("ok"))'
  BY AbstractWriting, PTL

-----------------------------------------------------------------------------
(* One lemma for each kind of step.  The partial function an update's       *)
(* request stands for.                                                      *)
RequestOf(t) == [p \in Names(request[t]) |-> request[t][p]]

LEMMA RequestTyped ==
    ASSUME CInv, NEW t \in Threads
    PROVE /\ RequestOf(t) \in Model!Requests
          /\ DOMAIN RequestOf(t) = Names(request[t])
          /\ Names(request[t]) \subseteq ParamNames
<1>1. Names(request[t]) \in SUBSET ParamNames
  BY DEF Names
<1>2. RequestOf(t) \in [Names(request[t]) -> Values]
  BY DEF RequestOf, Names, CInv, TypeOK, Contents
<1> QED BY <1>1, <1>2 DEF Model!Requests, RequestOf

LEMMA RefineAtOnce ==
    ASSUME CInv, CInv', NEW t \in Threads, NEW s \in SetNames,
           \/ \E isObject \in BOOLEAN : UpdateRefused(t, s, isObject)
           \/ \E p \in ParamNames : GetParameterFromSet(t, s, p)
           \/ GetParameterSetQualifier(t, s) \/ NotFound(t, s)
           \/ \E flag \in BOOLEAN : SetCalibratable(t, s, flag)
           \/ \E q \in Qualifiers : SetParameterSetQualifier(t, s, q)
    PROVE Model!Next
<1>1. AtOnce(t)
  BY DEF UpdateRefused, GetParameterFromSet, GetParameterSetQualifier, NotFound,
     SetCalibratable, SetParameterSetQualifier
<1>2. Outside /\ Outside'
  BY <1>1, AllIdle DEF AtOnce, Outside
<1>3. AbstractData = data /\ AbstractResult = result
  BY <1>2, AbstractOutside
<1>4. AbstractData' = data' /\ AbstractResult' = result'
  BY <1>2, NextOutside
<1>5. \A code : Code(code) = Model!Code(code)
  BY DEF Code, Model!Code, Reply, Model!Reply, NoData, Model!NoData
<1>6. ASSUME NEW code, UNCHANGED setVars, Returns(Code(code)) PROVE Model!Fails(code)
  BY <1>3, <1>4, <1>5, <1>6 DEF setVars, Returns, Model!Fails, Model!Returns
<1>7. ASSUME NEW isObject \in BOOLEAN, UpdateRefused(t, s, isObject) PROVE Model!Next
  <2>1. [p \in {} |-> p] \in Model!Requests
    BY DEF Model!Requests
  <2>2. Model!UpdateFails(s, [p \in {} |-> p])
    BY <1>6, <1>7 DEF UpdateRefused, Find, IsCalibratable, Model!UpdateFails
  <2> QED BY <2>1, <2>2 DEF Model!Next
<1>8. ASSUME NEW p \in ParamNames, GetParameterFromSet(t, s, p) PROVE Model!Next
  <2>1. CASE ~Find(s) /\ Returns(Code("parameterSetNotFound"))
    BY <1>6, <1>8, <2>1 DEF GetParameterFromSet, Find, Model!ReadFails, Model!Next
  <2>2. CASE Find(s) /\ ~Exists(s, p) /\ Returns(Code("parameterMissedError"))
    <3>1. Model!Fails("parameterMissedError")
      BY <1>6, <1>8, <2>2 DEF GetParameterFromSet
    <3>2. Model!Names(AbstractData[s]) # ParamNames
      BY <1>3, <2>2 DEF Model!Names, Exists
    <3> QED BY <2>2, <3>1, <3>2 DEF Find, Model!ReadFails, Model!Next
  <2>3. CASE /\ Find(s) /\ Exists(s, p)
             /\ Returns(Reply("ok", [NoData EXCEPT ![p] = data[s][p]], "unqualified"))
    <3>1. p \in Model!Names(AbstractData[s])
      BY <1>3, <2>3 DEF Model!Names, Exists
    <3>2. Model!Returns(Model!Reply("ok", [Model!NoData EXCEPT ![p] = AbstractData[s][p]], "unqualified"))
      BY <1>3, <1>4, <2>3 DEF Returns, Reply, NoData, Model!Returns, Model!Reply, Model!NoData
    <3>3. UNCHANGED <<known, AbstractData, qualifier, calibratable>>
      BY <1>3, <1>4, <1>8 DEF GetParameterFromSet, setVars
    <3> QED BY <2>3, <3>1, <3>2, <3>3 DEF Find, Model!Read, Model!Next
  <2> QED BY <1>8, <2>1, <2>2, <2>3 DEF GetParameterFromSet
<1>9. CASE GetParameterSetQualifier(t, s)
  <2>1. Model!Returns(Model!Reply("ok", Model!NoData, qualifier[s]))
    BY <1>4, <1>9 DEF GetParameterSetQualifier, Returns, Reply, NoData, Model!Returns,
       Model!Reply, Model!NoData
  <2>2. s \in known /\ UNCHANGED <<known, AbstractData, qualifier, calibratable>>
    BY <1>3, <1>4, <1>9 DEF GetParameterSetQualifier, setVars, Find
  <2> QED BY <2>1, <2>2 DEF Model!Read, Model!Next
<1>10. CASE NotFound(t, s)
  BY <1>6, <1>10 DEF NotFound, Find, Model!ReadFails, Model!Next
<1>11. ASSUME NEW flag \in BOOLEAN, SetCalibratable(t, s, flag) PROVE Model!Next
  <2>1. Model!SetCalibratable(s, flag)
    BY <1>3, <1>4, <1>5, <1>11 DEF SetCalibratable, Find, Returns, Model!SetCalibratable,
       Model!Returns
  <2> QED BY <2>1 DEF Model!Next
<1>12. ASSUME NEW q \in Qualifiers, SetParameterSetQualifier(t, s, q) PROVE Model!Next
  <2>1. Model!SetQualifier(s, q)
    BY <1>3, <1>4, <1>5, <1>12 DEF SetParameterSetQualifier, Find, Returns,
       Model!SetQualifier, Model!Returns
  <2> QED BY <2>1 DEF Model!Next, Qualifiers, Model!Qualifiers
<1> QED BY <1>7, <1>8, <1>9, <1>10, <1>11, <1>12

LEMMA RefineStarts ==
    ASSUME CInv, CInv', NEW t \in Threads, NEW s \in SetNames,
           \/ \E p \in ParamNames, v \in Values : InsertFinds(t, s, p, v)
           \/ \E values \in Requests : UpdateStarts(t, s, values)
           \/ ReadStarts(t, s)
    PROVE Model!Next
<1>1. PICK to \in {"add", "check", "read"} : Starts(t, s, to)
  BY DEF InsertFinds, UpdateStarts, ReadStarts
<1>2. \A u \in Threads : pc[u] = "idle"
  BY <1>1, AllIdle DEF Starts, Lock
<1>3. AbstractData = data /\ AbstractResult = result
  BY <1>2, AbstractOutside DEF Outside
<1>4. \A code : Code(code) = Model!Code(code)
  BY DEF Code, Model!Code, Reply, Model!Reply, NoData, Model!NoData
<1>5. ASSUME NEW p \in ParamNames, NEW v \in Values, InsertFinds(t, s, p, v)
      PROVE Model!Next
  <2>1. pc'[t] = "add" /\ target'[t] = s /\ rest'[t] = {p}
        /\ request'[t] = [NoData EXCEPT ![p] = v] /\ data' = data
    BY <1>5 DEF InsertFinds, Starts, CInv, TypeOK
  <2>2. request'[t][p] = v
    BY <2>1 DEF NoData
  <2>3. IF Exists(s, p)
        THEN AbstractData' = data /\ AbstractResult' = Code("parameterAlreadyExists")
        ELSE AbstractData' = [data EXCEPT ![s] = [@ EXCEPT ![p] = v]] /\ AbstractResult' = Code("ok")
    BY <2>1, <2>2, NextAdding DEF Exists, AddedData
  <2>4. known' = known \cup {s} /\ UNCHANGED <<qualifier, calibratable>>
    BY <1>5 DEF InsertFinds
  <2>5. Model!Insert(s, p, v)
    BY <1>3, <1>4, <2>3, <2>4 DEF Exists, Model!Insert, Model!Returns
  <2> QED BY <2>5 DEF Model!Next
<1>6. ASSUME UNCHANGED setVars, Outside' PROVE Model!Next
  <2>1. AbstractData' = data /\ AbstractResult' = Code("none")
    BY <1>1, <1>6, NextOutside DEF setVars, Starts
  <2> QED BY <1>3, <1>4, <1>6, <2>1 DEF setVars, Model!Call, Model!Returns, Model!Next
<1>7. ASSUME NEW values \in Requests, UpdateStarts(t, s, values) PROVE Model!Next
  <2>1. \A u \in Threads : pc'[u] \in {"idle", "check"}
    BY <1>2, <1>7 DEF UpdateStarts, Starts, CInv, TypeOK
  <2> QED BY <1>6, <1>7, <2>1 DEF UpdateStarts, Outside
<1>8. CASE ReadStarts(t, s)
  <2>1. \A u \in Threads : pc'[u] \in {"idle", "read"}
    BY <1>2, <1>8 DEF ReadStarts, Starts, CInv, TypeOK
  <2> QED BY <1>6, <1>8, <2>1 DEF ReadStarts, Outside
<1> QED BY <1>5, <1>7, <1>8

LEMMA RefineInside ==
    ASSUME CInv, CInv', NEW t \in Threads, InsideNext(t)
    PROVE Model!Next \/ UNCHANGED Model!vars
<1> DEFINE Stutter == UNCHANGED Model!vars
<1>1. target[t] \in SetNames
  BY DEF CInv, TypeOK
<1>2. \A code : Code(code) = Model!Code(code)
  BY DEF Code, Model!Code, Reply, Model!Reply, NoData, Model!NoData
<1>3. ASSUME pc[t] # "idle" PROVE /\ \A u \in Threads : u # t => pc[u] = "idle"
                                  /\ target[t] \in known
  BY <1>3, OnlyOwner DEF CInv, LocalInv
<1>4. ASSUME pc[t] # "idle", NEW reply, Ends(t, reply) PROVE Outside' /\ result' = reply
  BY <1>3, <1>4 DEF Ends, Returns, Outside, CInv, TypeOK
<1>5. ASSUME NEW p \in ParamNames, Add(t, p) PROVE Stutter
  <2>1. pc[t] = "add" /\ rest[t] = {p} /\ UNCHANGED <<known, qualifier, calibratable>>
    BY <1>5 DEF Add, CInv, AddInv
  <2>2. CASE Exists(target[t], p)
    <3>1. data' = data /\ Ends(t, Code("parameterAlreadyExists"))
      BY <1>5, <2>2 DEF Add
    <3>2. AbstractData' = data' /\ AbstractResult' = Code("parameterAlreadyExists")
      BY <1>4, <2>1, <3>1, NextOutside
    <3> QED BY <2>1, <2>2, <3>1, <3>2, AbstractAdding DEF Model!vars
  <2>3. CASE ~Exists(target[t], p)
    <3>1. data' = AddedData(t, p) /\ Ends(t, Code("ok"))
      BY <1>5, <2>3 DEF Add, AddedData
    <3>2. AbstractData' = data' /\ AbstractResult' = Code("ok")
      BY <1>4, <2>1, <3>1, NextOutside
    <3> QED BY <2>1, <2>3, <3>1, <3>2, AbstractAdding DEF Model!vars
  <2> QED BY <2>2, <2>3
<1>6. ASSUME NEW p \in ParamNames, CheckOne(t, p) \/ ReadOne(t, p) PROVE Stutter
  <2>1. pc[t] \in {"check", "read"} /\ UNCHANGED <<known, data, qualifier, calibratable, pc, result>>
    BY <1>6 DEF CheckOne, ReadOne, setVars
  <2>2. Outside /\ Outside'
    BY <1>3, <2>1 DEF Outside
  <2> QED BY <2>1, <2>2, AbstractOutside, NextOutside DEF Model!vars
<1>7. ASSUME NEW p \in ParamNames, CheckFails(t, p) PROVE Model!Next
  <2>1. pc[t] = "check" /\ p \in rest[t] /\ ~Exists(target[t], p)
        /\ Ends(t, Code("parametersNotFound")) /\ UNCHANGED setVars
    BY <1>7 DEF CheckFails
  <2>2. Outside /\ Outside' /\ result' = Code("parametersNotFound")
    BY <1>3, <1>4, <2>1 DEF Outside
  <2>3. AbstractData = data /\ AbstractData' = data' /\ AbstractResult' = result'
    BY <2>2, AbstractOutside, NextOutside
  <2>4. Model!Fails("parametersNotFound")
    BY <1>2, <2>1, <2>2, <2>3 DEF Model!Fails, Model!Returns, setVars
  <2>5. p \in Names(request[t])
    BY <2>1 DEF CInv, UpdateInv
  <2>6. ~(DOMAIN RequestOf(t) \subseteq Model!Names(AbstractData[target[t]]))
    BY <2>1, <2>3, <2>5, RequestTyped DEF Model!Names, Exists
  <2>7. Model!UpdateFails(target[t], RequestOf(t))
    BY <2>4, <2>6 DEF Model!UpdateFails
  <2> QED BY <1>1, <2>7, RequestTyped DEF Model!Next
<1>8. CASE CheckDone(t)
  <2>1. pc[t] = "check" /\ rest[t] = {} /\ pc'[t] = "write" /\ UNCHANGED setVars
        /\ rest'[t] = Names(request[t]) /\ UNCHANGED <<target, request>>
    BY <1>8 DEF CheckDone, CInv, TypeOK
  <2>2. AbstractData = data
    BY <1>3, <2>1, AbstractOutside DEF Outside
  <2>3. AbstractData' = WrittenData(t)' /\ AbstractResult' = Code("ok")
    BY <2>1, NextWriting
  <2>4. data[target[t]] \in [ParamNames -> Values \cup {Absent}]
    BY <1>1 DEF CInv, TypeOK, Contents
  <2>5. [p \in ParamNames |-> IF p \in rest'[t] THEN request'[t][p] ELSE data'[target'[t]][p]]
        = Model!Override(AbstractData[target[t]], RequestOf(t))
    BY <2>1, <2>2, RequestTyped DEF Model!Override, RequestOf, setVars
  <2>6. WrittenData(t)' = [data' EXCEPT ![target'[t]] =
            [p \in ParamNames |-> IF p \in rest'[t] THEN request'[t][p] ELSE data'[target'[t]][p]]]
    BY DEF WrittenData
  <2>7. WrittenData(t)' = [AbstractData EXCEPT ![target[t]] = Model!Override(@, RequestOf(t))]
    BY <2>1, <2>2, <2>5, <2>6 DEF setVars
  <2>8. target[t] \in known /\ calibratable[target[t]]
    BY <1>3, <2>1 DEF CInv, UpdateInv
  <2>9. DOMAIN RequestOf(t) \subseteq Model!Names(AbstractData[target[t]])
    BY <2>1, <2>2, RequestTyped DEF CInv, UpdateInv, Exists, Model!Names
  <2>10. Model!Update(target[t], RequestOf(t))
    BY <1>2, <2>1, <2>3, <2>7, <2>8, <2>9 DEF Model!Update, Model!Returns, setVars
  <2> QED BY <1>1, <2>10, RequestTyped DEF Model!Next
<1>9. ASSUME NEW p \in ParamNames, WriteOne(t, p) PROVE Stutter
  <2>1. pc[t] = "write" /\ p \in rest[t]
        /\ data' = [data EXCEPT ![target[t]] = [@ EXCEPT ![p] = request[t][p]]]
        /\ rest'[t] = rest[t] \ {p}
        /\ UNCHANGED <<known, qualifier, calibratable, pc, target, request>>
    BY <1>9 DEF WriteOne, CInv, TypeOK
  <2>2. AbstractData = WrittenData(t) /\ AbstractResult = Code("ok")
    BY <2>1, AbstractWriting
  <2>3. AbstractData' = WrittenData(t)' /\ AbstractResult' = Code("ok")
    BY <2>1, NextWriting
  <2>4. data \in [SetNames -> [ParamNames -> Values \cup {Absent}]]
    BY DEF CInv, TypeOK, Contents
  <2>5. \A q \in ParamNames :
          (IF q \in rest'[t] THEN request'[t][q] ELSE data'[target'[t]][q])
          = (IF q \in rest[t] THEN request[t][q] ELSE data[target[t]][q])
    BY <1>1, <2>1, <2>4
  <2>6. [q \in ParamNames |-> IF q \in rest'[t] THEN request'[t][q] ELSE data'[target'[t]][q]]
        = [q \in ParamNames |-> IF q \in rest[t] THEN request[t][q] ELSE data[target[t]][q]]
    BY <2>5
  <2>7. WrittenData(t)' = [data' EXCEPT ![target'[t]] =
            [q \in ParamNames |-> IF q \in rest'[t] THEN request'[t][q] ELSE data'[target'[t]][q]]]
    BY DEF WrittenData
  <2>8. WrittenData(t)' = WrittenData(t)
    BY <1>1, <2>1, <2>4, <2>6, <2>7 DEF WrittenData
  <2> QED BY <2>1, <2>2, <2>3, <2>8 DEF Model!vars
<1>10. CASE WriteDone(t)
  <2>1. pc[t] = "write" /\ rest[t] = {} /\ Ends(t, Code("ok")) /\ UNCHANGED setVars
    BY <1>10 DEF WriteDone
  <2>2. AbstractData = WrittenData(t) /\ AbstractResult = Code("ok")
    BY <2>1, AbstractWriting
  <2>3. AbstractData' = data' /\ AbstractResult' = Code("ok")
    BY <1>4, <2>1, NextOutside
  <2>4. data \in [SetNames -> [ParamNames -> Values \cup {Absent}]]
    BY DEF CInv, TypeOK, Contents
  <2>5. WrittenData(t) = data
    BY <1>1, <2>1, <2>4 DEF WrittenData
  <2> QED BY <2>1, <2>2, <2>3, <2>5 DEF Model!vars, setVars
<1>11. CASE ReadDone(t)
  <2>1. pc[t] = "read" /\ rest[t] = {} /\ UNCHANGED setVars
    BY <1>11 DEF ReadDone
  <2>2. AbstractData = data
    BY <1>3, <2>1, AbstractOutside DEF Outside
  <2>3. CASE Ends(t, Reply("ok", copy[t], qualifier[target[t]]))
    <3>1. copy[t] = data[target[t]]
      <4>1. copy[t] \in Contents /\ data[target[t]] \in Contents
        BY <1>1 DEF CInv, TypeOK
      <4>2. \A p \in ParamNames : copy[t][p] = data[target[t]][p]
        BY <2>1 DEF CInv, ReadInv
      <4> QED BY <4>1, <4>2 DEF Contents
    <3>2. AbstractData' = data' /\ AbstractResult' = Reply("ok", data[target[t]], qualifier[target[t]])
      BY <1>4, <2>1, <2>3, <3>1, NextOutside
    <3>3. Model!Read(target[t])
      BY <1>3, <2>1, <2>2, <3>2 DEF Model!Read, Model!Returns, Model!Reply, Reply, setVars
    <3> QED BY <1>1, <3>3 DEF Model!Next
  <2>4. CASE Ends(t, Code("convertingError"))
    <3>1. AbstractData' = data' /\ AbstractResult' = Code("convertingError")
      BY <1>4, <2>1, <2>4, NextOutside
    <3>2. Model!ReadFails(target[t])
      BY <1>2, <1>3, <2>1, <2>2, <3>1 DEF Model!ReadFails, Model!Fails, Model!Returns, setVars
    <3> QED BY <1>1, <3>2 DEF Model!Next
  <2> QED BY <1>11, <2>3, <2>4 DEF ReadDone
<1> QED BY <1>5, <1>6, <1>7, <1>8, <1>9, <1>10, <1>11 DEF InsideNext

(* Every call of the collection takes effect at once or not at all.         *)
THEOREM CallsAreAtomic == Spec => ModelSpec
<1>1. Init => Model!Init
  <2> SUFFICES ASSUME Init PROVE Model!Init
    OBVIOUS
  <2>1. AbstractData = data /\ AbstractResult = result
    BY CInit, AbstractOutside DEF Init, Outside
  <2> QED BY <2>1 DEF Init, Model!Init, NoData, Model!NoData, Code, Model!Code, Reply, Model!Reply
<1>2. CInv /\ CInv' /\ [Next]_vars => [Model!Next]_(Model!vars)
  <2> SUFFICES ASSUME CInv, CInv', [Next]_vars PROVE [Model!Next]_(Model!vars)
    OBVIOUS
  <2>1. ASSUME NEW t \in Threads, InsideNext(t) PROVE [Model!Next]_(Model!vars)
    BY <2>1, RefineInside
  <2>2. ASSUME NEW t \in Threads, NEW s \in SetNames, CallNext(t, s)
        PROVE [Model!Next]_(Model!vars)
    BY <2>2, RefineAtOnce, RefineStarts DEF CallNext
  <2>3. CASE UNCHANGED vars
    BY <2>3 DEF vars, Model!vars, AbstractData, AbstractResult, Pending, Writing, Exists
  <2> QED BY <2>1, <2>2, <2>3 DEF Next
<1> QED BY <1>1, <1>2, CInvariance, PTL DEF Spec, ModelSpec, Model!ModelSpec
=============================================================================
