----------------------- MODULE ParameterSetAccess_proof -----------------------
(***************************************************************************)
(* Proofs about ParameterSetAccess, for any JSON library, any parameters   *)
(* and documents of any depth and size.                                    *)
(***************************************************************************)
EXTENDS ParameterSetAccess, TLAPS

(* Results and JSON values tell apart what they are.                        *)
LEMMA ResultKinds ==
    /\ \A v : ~Failed(Value(v)) /\ Value(v).value = v
    /\ \A c : Failed(Error(c))
    /\ \A j : /\ IsList(j) => ~IsLeaf(j) /\ ~IsObject(j)
              /\ IsLeaf(j) => ~IsObject(j)
    /\ \A o : IsObject([object |-> o]) /\ [object |-> o].object = o
    /\ \A l : IsLeaf([leaf |-> l]) /\ [leaf |-> l].leaf = l
<1>1. \A v : DOMAIN Value(v) = {"value"} /\ Value(v).value = v
  BY DEF Value
<1>2. \A c : DOMAIN Error(c) = {"error"}
  BY DEF Error
<1>3. \A o : DOMAIN [object |-> o] = {"object"} /\ [object |-> o].object = o
  OBVIOUS
<1>4. \A l : DOMAIN [leaf |-> l] = {"leaf"} /\ [leaf |-> l].leaf = l
  OBVIOUS
<1>5. /\ {"value"} # {"error"} /\ {"list"} # {"leaf"} /\ {"list"} # {"object"}
      /\ {"leaf"} # {"object"}
  OBVIOUS
<1> QED
  BY <1>1, <1>2, <1>3, <1>4, <1>5 DEF Failed, IsLeaf, IsList, IsObject

(* So do lists.                                                             *)
LEMMA ListKind == \A s : IsList([list |-> s]) /\ [list |-> s].list = s
BY DEF IsList

(* The messages are different.                                              *)
LEMMA Messages ==
    /\ Error("kParsingFailed") = [error |-> "JSON parsing failed"]
    /\ Error("kObjectCastingError") = [error |-> "Failed to cast JSON to object instance."]
    /\ Error("kParameterNotFound") = [error |-> "Parameter name was not found in JSON"]
    /\ Error("kValueCastingError") =
          [error |-> "Failed to cast object instance to given C++ type"]
BY DEF Error, MessageFor

(* So a result tells which error it is.                                     *)
LEMMA MessagesDiffer ==
    /\ Error("kParameterNotFound") # Error("kParsingFailed")
    /\ Error("kParameterNotFound") # Error("kObjectCastingError")
    /\ Error("kValueCastingError") # Error("kParsingFailed")
    /\ Error("kValueCastingError") # Error("kObjectCastingError")
    /\ \A c \in {"kParsingFailed", "kObjectCastingError", "kParameterNotFound",
                  "kValueCastingError"} : Error(c) # [error |-> "Unknown Error!"]
<1>1. \A m, n : m # n => [error |-> m] # [error |-> n]
  <2> SUFFICES ASSUME NEW m, NEW n, [error |-> m] = [error |-> n] PROVE m = n
    OBVIOUS
  <2>1. [error |-> m].error = [error |-> n].error
    OBVIOUS
  <2> QED
    BY <2>1
<1> QED
  BY <1>1, Messages

(* What the two halves of a document of the daemon are.                     *)
LEMMA DaemonMembers ==
    ASSUME NEW data, NEW q
    PROVE  /\ IsObject(Received(data, q))
           /\ GetParameters(Received(data, q)) =
                 Value([object |-> [p \in Present(data) |-> Reread[data[p]]]])
           /\ Member(Received(data, q), "qualifier") = Value([leaf |-> QualifierLeaf[q]])
<1> DEFINE parameters == [p \in Present(data) |-> Reread[data[p]]]
           members == [m \in {"parameters", "qualifier"} |->
               IF m = "parameters" THEN [object |-> parameters]
               ELSE [leaf |-> QualifierLeaf[q]]]
           d == Received(data, q)
<1> HIDE DEF parameters
<1>1. d = [object |-> members]
  BY DEF Received, Document, parameters
<1>2. IsObject(d) /\ d.object = members
  BY <1>1, ResultKinds
<1>3. /\ "parameters" \in DOMAIN members /\ "qualifier" \in DOMAIN members
      /\ members["parameters"] = [object |-> parameters]
      /\ members["qualifier"] = [leaf |-> QualifierLeaf[q]]
  OBVIOUS
<1> HIDE DEF d, members
<1>4. \A key \in DOMAIN members : Member(d, key) = Value(members[key])
  BY <1>2 DEF Member
<1> QED
  BY <1>2, <1>3, <1>4 DEF GetParameters, d, parameters

(* A parameter is found in the daemon's document when the set has it.       *)
LEMMA DaemonParameter ==
    ASSUME NEW data \in DataSets, NEW q, NEW p \in ParamNames
    PROVE  GetParameterAsJsonAny(Received(data, q), p) =
               IF data[p] = None THEN Error("kParameterNotFound")
               ELSE Value(Reread[data[p]])
<1> DEFINE d == Received(data, q)
           parameters == [r \in Present(data) |-> Reread[data[r]]]
<1>1. GetParameters(d) = Value([object |-> parameters])
  BY DaemonMembers
<1>2. /\ ~Failed(GetParameters(d)) /\ IsObject(GetParameters(d).value)
      /\ GetParameters(d).value.object = parameters
  BY <1>1, ResultKinds
<1>3. p \in DOMAIN parameters <=> data[p] # None
  BY DEF Present
<1>4. p \in DOMAIN parameters => parameters[p] = Reread[data[p]]
  OBVIOUS
<1> HIDE DEF d, parameters
<1> QED
  BY <1>2, <1>3, <1>4 DEF GetParameterAsJsonAny, d

(* What is found in a document is a JSON value.                             *)
LEMMA FoundIsJson ==
    ASSUME NEW d \in Documents, NEW p \in ParamNames, ~Failed(GetParameterAsJsonAny(d, p))
    PROVE  /\ GetParameterAsJsonAny(d, p).value \in Json
           /\ IsList(GetParameterAsJsonAny(d, p).value) =>
                 GetParameterAsJsonAny(d, p).value.list \in Seq(Json)
<1>1. ASSUME d \in Elsewhere
      PROVE  GetParameterAsJsonAny(d, p).value \in Json
  <2> DEFINE ps == GetParameters(d)
  <2>1. ~Failed(ps) /\ IsObject(ps.value) /\ p \in DOMAIN ps.value.object
    BY ResultKinds DEF GetParameterAsJsonAny
  <2>2. GetParameterAsJsonAny(d, p).value = ps.value.object[p]
    BY <2>1, ResultKinds DEF GetParameterAsJsonAny
  <2>3. /\ IsObject(d) /\ "parameters" \in DOMAIN d.object
        /\ ps.value = d.object["parameters"]
    BY <2>1, ResultKinds DEF GetParameters, Member
  <2>4. \A j \in Json : IsObject(j) => \A m \in DOMAIN j.object : j.object[m] \in Json
    BY JsonAssumption, ResultKinds
  <2>5. ps.value \in Json
    BY <1>1, <2>3, <2>4, AccessAssumption
  <2> HIDE DEF ps
  <2> QED
    BY <2>1, <2>2, <2>4, <2>5
<1>2. ASSUME NEW data \in DataSets, NEW q \in Qualifiers, d = Received(data, q)
      PROVE  GetParameterAsJsonAny(d, p).value \in Json
  <2>1. data[p] # None /\ GetParameterAsJsonAny(d, p) = Value(Reread[data[p]])
    BY <1>2, DaemonParameter, ResultKinds
  <2>2. data[p] \in Json
    BY <2>1, AccessAssumption
  <2>3. Reread[data[p]] \in Json
    BY <2>2, TextAssumption
  <2> QED
    BY <2>1, <2>3, ResultKinds
<1>3. GetParameterAsJsonAny(d, p).value \in Json
  BY <1>1, <1>2 DEF Documents
<1>4. \A j \in Json : IsList(j) => j.list \in Seq(Json)
  BY JsonAssumption, ResultKinds
<1> QED
  BY <1>3, <1>4

(* What the library reads of a document's value as a type, if it can.       *)
Readable(type, j) ==
    IsLeaf(j) /\ (As[<<type, j.leaf>>] # None \/ AsInteger(type, j.leaf) # None)
ReadAs(type, j) ==
    IF As[<<type, j.leaf>>] # None THEN As[<<type, j.leaf>>]
    ELSE AsInteger(type, j.leaf)
AllReadable(type, j) == IsList(j) /\ \A n \in DOMAIN j.list : Readable(type, j.list[n])
AllReadAs(type, j) == [n \in DOMAIN j.list |-> ReadAs(type, j.list[n])]

(* A conversion gives what ReadAs says, of the type, or fails.              *)
LEMMA Conversion ==
    ASSUME NEW t \in Types, NEW j \in Json
    PROVE  /\ Failed(ConvertJsonAnyToType(t, j)) <=> ~Readable(t, j)
           /\ Readable(t, j) => /\ ConvertJsonAnyToType(t, j) = Value(ReadAs(t, j))
                                /\ ReadAs(t, j) \in CppValues
           /\ ~Readable(t, j) => ConvertJsonAnyToType(t, j) = Error("kValueCastingError")
<1>1. Readable(t, j) => ConvertJsonAnyToType(t, j) = Value(ReadAs(t, j))
  BY DEF Readable, ReadAs, ConvertJsonAnyToType
<1>2. ~Readable(t, j) => ConvertJsonAnyToType(t, j) = Error("kValueCastingError")
  BY DEF Readable, ConvertJsonAnyToType
<1>3. Readable(t, j) => ReadAs(t, j) \in CppValues
  <2> SUFFICES ASSUME Readable(t, j) PROVE ReadAs(t, j) \in CppValues
    OBVIOUS
  <2>1. j.leaf \in Leaves
    BY JsonAssumption, ResultKinds DEF Readable
  <2>2. As[<<t, j.leaf>>] \in CppValues \cup {None}
    BY <2>1, AccessAssumption
  <2>3. CASE As[<<t, j.leaf>>] # None
    BY <2>2, <2>3 DEF ReadAs
  <2>4. CASE As[<<t, j.leaf>>] = None
    <3>1. /\ t \in Floats /\ As[<<"int64", j.leaf>>] # None
          /\ ReadAs(t, j) = Cast[<<t, As[<<"int64", j.leaf>>]>>]
      BY <2>4 DEF Readable, ReadAs, AsInteger
    <3>2. As[<<"int64", j.leaf>>] \in CppValues
      BY <2>1, <3>1, AccessAssumption
    <3> QED
      BY <3>1, <3>2, AccessAssumption
  <2> QED
    BY <2>3, <2>4
<1> QED
  BY <1>1, <1>2, <1>3, ResultKinds

-----------------------------------------------------------------------------
(* The calls an application makes; only a read of a list takes steps.       *)
Calls ==
    [op : {"none"}] \cup [op : {"GetQualifier", "GetParametersAsString"}, set : Handles]
    \cup [op : {"ContainsSameContent"}, set : Handles, target : Handles]
    \cup [op : {"GetParameterAs"}, set : Handles, shape : {"value", "array", "matrix"},
          type : Types, name : ParamNames]

CallInv ==
    /\ call \in Calls
    /\ pc # "idle" => call.op = "GetParameterAs" /\ call.shape \in {"array", "matrix"}
    /\ pc = "rows" => call.shape = "matrix"

(* A document of the daemon is the document of a set.                       *)
OriginInv ==
    \A h \in Handles : origin[h] # None =>
        /\ origin[h].data \in DataSets /\ origin[h].qualifier \in Qualifiers
        /\ held[h] = Received(origin[h].data, origin[h].qualifier)

(* The answer of a call of one step is about the documents that are held.   *)
AnswerInv ==
    /\ call.op = "GetQualifier" => reply = GetQualifier(held[call.set])
    /\ call.op = "GetParametersAsString" => reply = GetParametersAsString(held[call.set])
    /\ call.op = "ContainsSameContent" =>
          reply = Value(ContainsSameContent(held[call.set], held[call.target]))

(* What a read is about, and what it gives in the end.                      *)
Found == GetParameterAsJsonAny(held[call.set], call.name)

RowSoFar(t, list, res, n) ==
    \A m \in 1 .. n : Readable(t, list[m]) /\ res[m] = ReadAs(t, list[m])

Fits(shape, t, j) ==
    CASE shape = "value"  -> Readable(t, j)
      [] shape = "array"  -> AllReadable(t, j)
      [] shape = "matrix" -> IsList(j) /\ \A n \in DOMAIN j.list : AllReadable(t, j.list[n])
ReadIn(shape, t, j) ==
    CASE shape = "value"  -> ReadAs(t, j)
      [] shape = "array"  -> AllReadAs(t, j)
      [] shape = "matrix" -> [n \in DOMAIN j.list |-> AllReadAs(t, j.list[n])]
WholeRead(shape, t, found) ==
    IF Failed(found) THEN found
    ELSE IF Fits(shape, t, found.value) THEN Value(ReadIn(shape, t, found.value))
    ELSE Error("kValueCastingError")

(* The list is the one that was asked for, and what is converted of it so   *)
(* far is as it will be.                                                    *)
ListInv ==
    pc # "idle" =>
        /\ ~Failed(Found) /\ IsList(Found.value)
        /\ call.shape = "matrix" => outer = Found.value.list
RowInv ==
    pc = "row" =>
        /\ RowSoFar(call.type, inner, row, i - 1)
        /\ call.shape = "array" => inner = Found.value.list
        /\ call.shape = "matrix" => /\ k <= Len(outer) /\ IsList(outer[k])
                                    /\ inner = outer[k].list
RowsInv ==
    pc # "idle" /\ call.shape = "matrix" =>
        \A n \in 1 .. k - 1 : /\ AllReadable(call.type, outer[n])
                              /\ rows[n] = AllReadAs(call.type, outer[n])
ReplyInv ==
    pc = "idle" /\ call.op = "GetParameterAs" =>
        reply = WholeRead(call.shape, call.type, Found)

IInv == /\ TypeOK /\ CallInv /\ OriginInv /\ AnswerInv
        /\ ListInv /\ RowInv /\ RowsInv /\ ReplyInv

(* The records of calls.                                                    *)
LEMMA CallFields ==
    /\ call \in Calls => call.op \in {"none", "GetQualifier", "GetParametersAsString",
                                      "ContainsSameContent", "GetParameterAs"}
    /\ call \in Calls /\ call.op # "none" => call.set \in Handles
    /\ call \in Calls /\ call.op = "ContainsSameContent" => call.target \in Handles
    /\ call \in Calls /\ call.op = "GetParameterAs" =>
          /\ call.shape \in {"value", "array", "matrix"}
          /\ call.type \in Types /\ call.name \in ParamNames
BY DEF Calls

(* What a call finds is a JSON value, and a list is a sequence of them.     *)
LEMMA FoundFacts ==
    ASSUME IInv, call.op = "GetParameterAs", ~Failed(Found)
    PROVE  Found.value \in Json /\ (IsList(Found.value) => Found.value.list \in Seq(Json))
BY CallFields, FoundIsJson DEF IInv, TypeOK, CallInv, Found

(* The same for a call that begins.                                         *)
LEMMA FoundAtStart ==
    ASSUME IInv, NEW h \in Handles, NEW n \in ParamNames,
           ~Failed(GetParameterAsJsonAny(held[h], n))
    PROVE  /\ GetParameterAsJsonAny(held[h], n).value \in Json
           /\ IsList(GetParameterAsJsonAny(held[h], n).value) =>
                 GetParameterAsJsonAny(held[h], n).value.list \in Seq(Json)
BY FoundIsJson DEF IInv, TypeOK

(* A read that ends leaves the right types behind, and nothing open.        *)
LEMMA EndsFacts ==
    ASSUME IInv, NEW r, Ends(r), UNCHANGED <<held, origin>>
    PROVE  TypeOK' /\ OriginInv' /\ pc' = "idle" /\ reply' = r
<1>1. <<>> \in Seq(Json) /\ <<>> \in Seq(CppValues) /\ <<>> \in Seq(Seq(CppValues)) /\ Len(<<>>) = 0
  OBVIOUS
<1>2. /\ outer' = <<>> /\ k' = 1 /\ rows' = <<>> /\ inner' = <<>> /\ i' = 1 /\ row' = <<>>
      /\ pc' = "idle" /\ reply' = r
  BY DEF Ends
<1>3. TypeOK'
  BY <1>1, <1>2 DEF IInv, TypeOK, Documents, Origins
<1> QED
  BY <1>2, <1>3 DEF IInv, OriginInv

(* A new row is as long as its list.                                        *)
LEMMA NewArrayFacts ==
    ASSUME NEW list \in Seq(Json)
    PROVE  NewArray(list) \in Seq(CppValues) /\ Len(NewArray(list)) = Len(list)
<1>1. Zero \in CppValues
  BY AccessAssumption
<1> QED
  BY <1>1 DEF NewArray

(* Before the first call the invariant holds.                               *)
LEMMA InitInv == Init => IInv
<1> SUFFICES ASSUME Init PROVE IInv
  OBVIOUS
<1>1. <<>> \in Seq(Json) /\ <<>> \in Seq(CppValues) /\ <<>> \in Seq(Seq(CppValues)) /\ Len(<<>>) = 0
  OBVIOUS
<1>2. held \in [Handles -> Documents] /\ origin \in [Handles -> Origins]
  BY DEF Init, Documents, Origins
<1>3. /\ outer = <<>> /\ k = 1 /\ rows = <<>> /\ inner = <<>> /\ i = 1 /\ row = <<>>
      /\ pc = "idle"
  BY DEF Init
<1>4. TypeOK
  BY <1>1, <1>2, <1>3 DEF TypeOK
<1>5. call = [op |-> "none"]
  BY DEF Init
<1>6. CallInv /\ AnswerInv /\ ReplyInv
  BY <1>3, <1>5 DEF CallInv, Calls, AnswerInv, ReplyInv
<1>7. OriginInv
  BY DEF Init, OriginInv
<1>8. ListInv /\ RowInv /\ RowsInv
  BY <1>3 DEF ListInv, RowInv, RowsInv
<1> QED
  BY <1>4, <1>6, <1>7, <1>8 DEF IInv

(* The arrival of a document keeps the invariant, ...                       *)
LEMMA ArrivesKeepsInv ==
    ASSUME IInv, NEW h \in Handles, NEW json \in Documents, NEW from \in Origins,
           Arrives(h, json, from),
           from # None => json = Received(from.data, from.qualifier)
    PROVE  IInv'
<1>1. /\ pc = "idle" /\ pc' = "idle" /\ call' = [op |-> "none"]
      /\ held' = [held EXCEPT ![h] = json] /\ origin' = [origin EXCEPT ![h] = from]
      /\ UNCHANGED <<outer, k, rows, inner, i, row>>
  BY DEF Arrives, outerVars, innerVars
<1>2. TypeOK'
  BY <1>1 DEF IInv, TypeOK, Documents, Origins
<1>3. CallInv' /\ AnswerInv' /\ ReplyInv'
  BY <1>1 DEF CallInv, Calls, AnswerInv, ReplyInv
<1>4. from # None => from.data \in DataSets /\ from.qualifier \in Qualifiers
  BY DEF Origins
<1>5. OriginInv'
  BY <1>1, <1>4 DEF IInv, TypeOK, OriginInv
<1>6. ListInv' /\ RowInv' /\ RowsInv'
  BY <1>1 DEF ListInv, RowInv, RowsInv
<1> QED
  BY <1>2, <1>3, <1>5, <1>6 DEF IInv

(* ... so do the calls of one step, ...                                     *)
LEMMA AnswersKeepsInv ==
    ASSUME IInv, NEW g \in Handles, NEW h \in Handles,
           AsksQualifier(h) \/ AsksString(h) \/ Compares(g, h)
    PROVE  IInv'
<1>1. /\ pc = "idle" /\ pc' = "idle" /\ held' = held /\ origin' = origin
      /\ UNCHANGED <<outer, k, rows, inner, i, row>>
  BY DEF AsksQualifier, AsksString, Compares, Answers, outerVars, innerVars
<1>2. TypeOK' /\ OriginInv'
  BY <1>1 DEF IInv, TypeOK, Documents, Origins, OriginInv
<1>3. CallInv' /\ AnswerInv' /\ ReplyInv'
  <2>1. CASE AsksQualifier(h)
    <3>1. call' = [op |-> "GetQualifier", set |-> h] /\ reply' = GetQualifier(held[h])
      BY <2>1 DEF AsksQualifier, Answers
    <3> QED
      BY <1>1, <3>1 DEF CallInv, Calls, AnswerInv, ReplyInv
  <2>2. CASE AsksString(h)
    <3>1. /\ call' = [op |-> "GetParametersAsString", set |-> h]
          /\ reply' = GetParametersAsString(held[h])
      BY <2>2 DEF AsksString, Answers
    <3> QED
      BY <1>1, <3>1 DEF CallInv, Calls, AnswerInv, ReplyInv
  <2>3. CASE Compares(g, h)
    <3>1. /\ call' = [op |-> "ContainsSameContent", set |-> g, target |-> h]
          /\ reply' = Value(ContainsSameContent(held[g], held[h]))
      BY <2>3 DEF Compares, Answers
    <3> QED
      BY <1>1, <3>1 DEF CallInv, Calls, AnswerInv, ReplyInv
  <2> QED
    BY <2>1, <2>2, <2>3
<1>4. ListInv' /\ RowInv' /\ RowsInv'
  BY <1>1 DEF ListInv, RowInv, RowsInv
<1> QED
  BY <1>2, <1>3, <1>4 DEF IInv

(* ... the beginning of a read, ...                                         *)
LEMMA StartKeepsInv ==
    ASSUME IInv, NEW h \in Handles, NEW t \in Types, NEW n \in ParamNames,
           \/ GetParameterAs(h, t, n)
           \/ \E shape \in {"array", "matrix"} : ListFails(h, shape, t, n)
           \/ GetParameterAsArray(h, t, n)
           \/ GetParameterAsTwoDimensionalArray(h, t, n)
    PROVE  IInv'
<1> DEFINE found == GetParameterAsJsonAny(held[h], n)
<1>1. PICK shape \in {"value", "array", "matrix"} : Asks(h, shape, t, n)
  BY DEF GetParameterAs, ListFails, GetParameterAsArray, GetParameterAsTwoDimensionalArray
<1>2. /\ pc = "idle" /\ held' = held /\ origin' = origin
      /\ call' = [op |-> "GetParameterAs", set |-> h, shape |-> shape, type |-> t, name |-> n]
  BY <1>1 DEF Asks
<1>3. /\ call'.op = "GetParameterAs" /\ call'.set = h /\ call'.shape = shape
      /\ call'.type = t /\ call'.name = n /\ call' \in Calls
  BY <1>2 DEF Calls
<1>4. Found' = found
  BY <1>2, <1>3 DEF Found
<1>5. AnswerInv' /\ OriginInv'
  BY <1>2, <1>3 DEF IInv, AnswerInv, OriginInv
<1>7. ASSUME NEW r, Ends(r), r = WholeRead(shape, t, found)
      PROVE  IInv'
  <2>1. TypeOK' /\ pc' = "idle" /\ reply' = r
    BY <1>2, <1>7, EndsFacts
  <2>2. CallInv' /\ ListInv' /\ RowInv' /\ RowsInv' /\ ReplyInv'
    BY <1>3, <1>4, <1>7, <2>1 DEF CallInv, ListInv, RowInv, RowsInv, ReplyInv
  <2> QED
    BY <1>5, <2>1, <2>2 DEF IInv
<1>8. CASE GetParameterAs(h, t, n)
  <2>1. shape = "value"
    <3>1. call' = [op |-> "GetParameterAs", set |-> h, shape |-> "value", type |-> t, name |-> n]
      BY <1>8 DEF GetParameterAs, Asks
    <3> QED
      BY <1>3, <3>1
  <2> DEFINE r == IF Failed(found) THEN found ELSE ConvertJsonAnyToType(t, found.value)
  <2>2. Ends(r)
    BY <1>8 DEF GetParameterAs
  <2>3. r = WholeRead(shape, t, found)
    <3>1. ~Failed(found) => found.value \in Json
      BY FoundAtStart
    <3> HIDE DEF found
    <3> QED
      BY <2>1, <3>1, Conversion DEF WholeRead, Fits, ReadIn
  <2> HIDE DEF r
  <2> QED
    BY <1>7, <2>2, <2>3
<1>9. ASSUME NEW sh \in {"array", "matrix"}, ListFails(h, sh, t, n)
      PROVE  IInv'
  <2>1. shape = sh
    <3>1. call' = [op |-> "GetParameterAs", set |-> h, shape |-> sh, type |-> t, name |-> n]
      BY <1>9 DEF ListFails, Asks
    <3> QED
      BY <1>3, <3>1
  <2>2. CASE Failed(found) /\ Ends(found)
    BY <1>7, <2>2 DEF WholeRead
  <2>3. CASE /\ ~Failed(found) /\ ~IsList(found.value)
             /\ Ends(Error("kValueCastingError"))
    <3>1. ~Fits(shape, t, found.value)
      BY <1>9, <2>1, <2>3 DEF Fits, AllReadable
    <3> QED
      BY <1>7, <2>3, <3>1 DEF WholeRead
  <2> QED
    BY <1>9, <2>2, <2>3 DEF ListFails
<1>10. CASE GetParameterAsArray(h, t, n)
  <2>1. shape = "array"
    <3>1. call' = [op |-> "GetParameterAs", set |-> h, shape |-> "array", type |-> t, name |-> n]
      BY <1>10 DEF GetParameterAsArray, Asks
    <3> QED
      BY <1>3, <3>1
  <2> DEFINE list == found.value.list
  <2>2. /\ ~Failed(found) /\ IsList(found.value) /\ pc' = "row" /\ inner' = list /\ i' = 1
        /\ row' = NewArray(list) /\ outer' = outer /\ k' = k /\ rows' = rows
    BY <1>10 DEF GetParameterAsArray, StartsRow, outerVars
  <2>3. list \in Seq(Json)
    BY <2>2, FoundAtStart
  <2>4. NewArray(list) \in Seq(CppValues) /\ Len(NewArray(list)) = Len(list)
    BY <2>3, NewArrayFacts
  <2>5. ListInv' /\ RowInv' /\ RowsInv' /\ ReplyInv' /\ CallInv'
    <3>1. RowSoFar(t, inner', row', i' - 1)
      BY <2>2 DEF RowSoFar
    <3> QED
      BY <1>3, <1>4, <2>1, <2>2, <3>1 DEF ListInv, RowInv, RowsInv, ReplyInv, CallInv
  <2> HIDE DEF list
  <2>6. TypeOK'
    BY <1>2, <2>2, <2>3, <2>4 DEF IInv, TypeOK, Documents, Origins
  <2> QED
    BY <1>5, <2>5, <2>6 DEF IInv
<1>11. CASE GetParameterAsTwoDimensionalArray(h, t, n)
  <2>1. shape = "matrix"
    <3>1. call' = [op |-> "GetParameterAs", set |-> h, shape |-> "matrix", type |-> t, name |-> n]
      BY <1>11 DEF GetParameterAsTwoDimensionalArray, Asks
    <3> QED
      BY <1>3, <3>1
  <2> DEFINE list == found.value.list
             empty == [m \in DOMAIN list |-> <<>>]
  <2>2. /\ ~Failed(found) /\ IsList(found.value) /\ pc' = "rows" /\ outer' = list /\ k' = 1
        /\ rows' = empty /\ inner' = inner /\ i' = i /\ row' = row
    BY <1>11 DEF GetParameterAsTwoDimensionalArray, innerVars
  <2>3. list \in Seq(Json)
    BY <2>2, FoundAtStart
  <2>4. empty \in Seq(Seq(CppValues)) /\ Len(empty) = Len(list)
    <3>1. <<>> \in Seq(CppValues)
      OBVIOUS
    <3>2. Len(list) \in Nat /\ DOMAIN list = 1 .. Len(list)
      BY <2>3
    <3> HIDE DEF list
    <3>3. \A m \in DOMAIN list : empty[m] \in Seq(CppValues)
      BY <3>1
    <3> QED
      BY <3>2, <3>3
  <2>5. ListInv' /\ RowInv' /\ RowsInv' /\ ReplyInv' /\ CallInv'
    BY <1>3, <1>4, <2>1, <2>2 DEF ListInv, RowInv, RowsInv, ReplyInv, CallInv
  <2> HIDE DEF list, empty
  <2>6. TypeOK'
    BY <1>2, <2>2, <2>3, <2>4 DEF IInv, TypeOK, Documents, Origins
  <2> QED
    BY <1>5, <2>5, <2>6 DEF IInv
<1> QED
  BY <1>8, <1>9, <1>10, <1>11

(* A read that ends with its whole answer keeps the invariant.              *)
LEMMA EndKeepsInv ==
    ASSUME IInv, pc # "idle", NEW r, Ends(r), UNCHANGED <<held, origin, call>>,
           r = WholeRead(call.shape, call.type, Found)
    PROVE  IInv'
<1>1. TypeOK' /\ OriginInv' /\ pc' = "idle" /\ reply' = r
  BY EndsFacts
<1>2. call.op = "GetParameterAs" /\ call' = call /\ Found' = Found
  BY DEF IInv, CallInv, Found
<1>3. CallInv' /\ AnswerInv' /\ ListInv' /\ RowInv' /\ RowsInv' /\ ReplyInv'
  BY <1>1, <1>2 DEF IInv, CallInv, AnswerInv, ListInv, RowInv, RowsInv, ReplyInv
<1> QED
  BY <1>1, <1>3 DEF IInv

(* ... each element of a row, ...                                           *)
LEMMA ElementKeepsInv == ASSUME IInv, NextElement PROVE IInv'
<1> DEFINE result == ConvertJsonAnyToType(call.type, inner[i])
<1>1. /\ pc = "row" /\ i \in 1 .. Len(inner) /\ inner \in Seq(Json) /\ inner[i] \in Json
      /\ call.op = "GetParameterAs" /\ call.type \in Types /\ call.shape \in {"array", "matrix"}
      /\ held' = held /\ origin' = origin /\ call' = call /\ Found' = Found
  BY CallFields DEF NextElement, IInv, TypeOK, CallInv, Found
<1>2. Failed(result) <=> ~Readable(call.type, inner[i])
  BY <1>1, Conversion
<1>3. /\ ~Failed(Found) /\ IsList(Found.value) /\ Found.value.list \in Seq(Json)
      /\ RowSoFar(call.type, inner, row, i - 1)
      /\ call.shape = "array" => inner = Found.value.list
      /\ call.shape = "matrix" => /\ outer = Found.value.list /\ k \in 1 .. Len(outer)
                                  /\ IsList(outer[k]) /\ inner = outer[k].list
  BY <1>1, FoundFacts DEF IInv, TypeOK, ListInv, RowInv
<1>4. CASE Failed(result) /\ Ends(result)
  <2>1. result = Error("kValueCastingError")
    BY <1>1, <1>2, <1>4, Conversion
  <2>2. ~Fits(call.shape, call.type, Found.value)
    <3>1. ~Readable(call.type, inner[i]) /\ i \in DOMAIN inner
      BY <1>1, <1>2, <1>4
    <3>2. CASE call.shape = "array"
      BY <1>3, <3>1, <3>2 DEF Fits, AllReadable
    <3>3. CASE call.shape = "matrix"
      <4>1. ~AllReadable(call.type, outer[k]) /\ k \in DOMAIN outer
        <5>1. outer \in Seq(Json)
          BY DEF IInv, TypeOK
        <5>2. k \in DOMAIN outer
          BY <1>3, <3>3, <5>1
        <5>3. ~AllReadable(call.type, outer[k])
          BY <1>3, <3>1, <3>3 DEF AllReadable
        <5> QED
          BY <5>2, <5>3
      <4> QED
        BY <1>3, <3>3, <4>1 DEF Fits
    <3> QED
      BY <1>1, <3>2, <3>3
  <2>3. result = WholeRead(call.shape, call.type, Found)
    BY <1>3, <2>1, <2>2 DEF WholeRead
  <2> HIDE DEF result
  <2> QED
    BY <1>1, <1>4, <2>3, EndKeepsInv
<1>5. CASE /\ ~Failed(result) /\ row' = [row EXCEPT ![i] = result.value] /\ i' = i + 1
           /\ UNCHANGED <<pc, outerVars, inner, reply>>
  <2>1. result.value = ReadAs(call.type, inner[i]) /\ result.value \in CppValues
    BY <1>1, <1>2, <1>5, Conversion, ResultKinds
  <2>2. Readable(call.type, inner[i])
    BY <1>2, <1>5
  <2> HIDE DEF result
  <2>3. row \in Seq(CppValues) /\ Len(row) = Len(inner)
    BY DEF IInv, TypeOK
  <2>4. row' \in Seq(CppValues) /\ Len(row') = Len(row) /\ row'[i] = result.value
        /\ \A m \in 1 .. Len(row) : m # i => row'[m] = row[m]
    BY <1>1, <1>5, <2>1, <2>3
  <2>5. TypeOK'
    BY <1>1, <1>5, <2>3, <2>4 DEF IInv, TypeOK, Documents, Origins, outerVars
  <2>6. RowSoFar(call.type, inner, row', i' - 1)
    BY <1>1, <1>3, <1>5, <2>1, <2>2, <2>3, <2>4 DEF RowSoFar
  <2>7. CallInv' /\ OriginInv' /\ AnswerInv' /\ ListInv' /\ RowsInv' /\ ReplyInv'
    BY <1>1, <1>5
       DEF IInv, CallInv, OriginInv, AnswerInv, ListInv, RowsInv, ReplyInv, outerVars
  <2>8. RowInv'
    BY <1>1, <1>3, <1>5, <2>6 DEF IInv, TypeOK, RowInv, outerVars
  <2> QED
    BY <2>5, <2>7, <2>8 DEF IInv
<1> QED
  BY <1>4, <1>5 DEF NextElement

(* ... and its end, ...                                                     *)
LEMMA RowDoneKeepsInv == ASSUME IInv, RowDone PROVE IInv'
<1>1. /\ pc = "row" /\ inner \in Seq(Json) /\ row \in Seq(CppValues)
      /\ Len(row) = Len(inner) /\ i - 1 = Len(inner)
      /\ call.op = "GetParameterAs" /\ call.type \in Types /\ call.shape \in {"array", "matrix"}
      /\ held' = held /\ origin' = origin /\ call' = call /\ Found' = Found
  BY CallFields DEF RowDone, IInv, TypeOK, CallInv, Found
<1>2. /\ ~Failed(Found) /\ IsList(Found.value)
      /\ RowSoFar(call.type, inner, row, Len(inner))
      /\ call.shape = "array" => inner = Found.value.list
      /\ call.shape = "matrix" => /\ outer = Found.value.list /\ k \in 1 .. Len(outer)
                                  /\ IsList(outer[k]) /\ inner = outer[k].list
  BY <1>1 DEF IInv, TypeOK, ListInv, RowInv
<1>3. row = [m \in DOMAIN inner |-> ReadAs(call.type, inner[m])]
  BY <1>1, <1>2 DEF RowSoFar
<1>4. \A m \in DOMAIN inner : Readable(call.type, inner[m])
  BY <1>1, <1>2 DEF RowSoFar
<1>5. CASE call.shape = "array" /\ Ends(Value(row))
  <2>1. Fits(call.shape, call.type, Found.value)
    BY <1>2, <1>4, <1>5 DEF Fits, AllReadable
  <2>2. row = ReadIn(call.shape, call.type, Found.value)
    BY <1>2, <1>3, <1>5 DEF ReadIn, AllReadAs
  <2>3. Value(row) = WholeRead(call.shape, call.type, Found)
    BY <1>2, <2>1, <2>2 DEF WholeRead
  <2> QED
    BY <1>1, <1>5, <2>3, EndKeepsInv
<1>6. CASE /\ call.shape = "matrix" /\ pc' = "rows" /\ rows' = [rows EXCEPT ![k] = row]
           /\ k' = k + 1 /\ inner' = <<>> /\ i' = 1 /\ row' = <<>>
           /\ UNCHANGED <<outer, reply>>
  <2>1. AllReadable(call.type, outer[k]) /\ row = AllReadAs(call.type, outer[k])
    BY <1>2, <1>3, <1>4, <1>6 DEF AllReadable, AllReadAs
  <2>2. rows \in Seq(Seq(CppValues)) /\ Len(rows) = Len(outer) /\ k \in 1 .. Len(rows)
    BY <1>2, <1>6 DEF IInv, TypeOK
  <2>3. rows' \in Seq(Seq(CppValues)) /\ Len(rows') = Len(rows) /\ rows'[k] = row
        /\ \A m \in 1 .. Len(rows) : m # k => rows'[m] = rows[m]
    BY <1>1, <1>6, <2>2
  <2>4. <<>> \in Seq(Json) /\ <<>> \in Seq(CppValues) /\ Len(<<>>) = 0
    OBVIOUS
  <2>5. TypeOK'
    BY <1>1, <1>6, <2>2, <2>3, <2>4 DEF IInv, TypeOK, Documents, Origins
  <2>6. RowsInv'
    BY <1>1, <1>6, <2>1, <2>2, <2>3 DEF IInv, RowsInv
  <2>7. CallInv' /\ OriginInv' /\ AnswerInv' /\ ListInv' /\ RowInv' /\ ReplyInv'
    BY <1>1, <1>2, <1>6
       DEF IInv, CallInv, OriginInv, AnswerInv, ListInv, RowInv, ReplyInv
  <2> QED
    BY <2>5, <2>6, <2>7 DEF IInv
<1> QED
  BY <1>5, <1>6 DEF RowDone

(* ... and each row of a two-dimensional array.                             *)
LEMMA RowsKeepInv == ASSUME IInv, NextRow \/ RowsDone PROVE IInv'
<1>1. /\ pc = "rows" /\ outer \in Seq(Json) /\ k \in 1 .. Len(outer) + 1
      /\ call.op = "GetParameterAs" /\ call.type \in Types /\ call.shape = "matrix"
      /\ held' = held /\ origin' = origin /\ call' = call /\ Found' = Found
  BY CallFields DEF NextRow, RowsDone, IInv, TypeOK, CallInv, Found
<1>2. ~Failed(Found) /\ IsList(Found.value) /\ outer = Found.value.list
  BY <1>1 DEF IInv, ListInv
<1>3. \A n \in 1 .. k - 1 : AllReadable(call.type, outer[n]) /\ rows[n] = AllReadAs(call.type, outer[n])
  BY <1>1 DEF IInv, RowsInv
<1>4. CASE k <= Len(outer) /\ ~IsList(outer[k]) /\ Ends(Error("kValueCastingError"))
  <2>1. ~Fits(call.shape, call.type, Found.value)
    BY <1>1, <1>2, <1>4 DEF Fits, AllReadable
  <2>2. Error("kValueCastingError") = WholeRead(call.shape, call.type, Found)
    BY <1>2, <2>1 DEF WholeRead
  <2> QED
    BY <1>1, <1>4, <2>2, EndKeepsInv
<1>5. CASE /\ k <= Len(outer) /\ IsList(outer[k]) /\ StartsRow(outer[k].list)
           /\ UNCHANGED outerVars
  <2> DEFINE list == outer[k].list
  <2>1. list \in Seq(Json)
    <3>1. outer[k] \in Json
      BY <1>1, <1>5
    <3> QED
      BY <1>5, <3>1, JsonAssumption, ResultKinds
  <2>2. NewArray(list) \in Seq(CppValues) /\ Len(NewArray(list)) = Len(list)
    BY <2>1, NewArrayFacts
  <2>3. /\ pc' = "row" /\ inner' = list /\ i' = 1 /\ row' = NewArray(list)
        /\ outer' = outer /\ k' = k /\ rows' = rows
    BY <1>5 DEF StartsRow, outerVars
  <2>4. RowInv'
    <3>1. RowSoFar(call.type, inner', row', i' - 1)
      BY <2>3 DEF RowSoFar
    <3> QED
      BY <1>1, <1>5, <2>3, <3>1 DEF RowInv
  <2> HIDE DEF list
  <2>5. TypeOK'
    BY <1>1, <2>1, <2>2, <2>3 DEF IInv, TypeOK, Documents, Origins
  <2>6. CallInv' /\ OriginInv' /\ AnswerInv' /\ ListInv' /\ RowsInv' /\ ReplyInv'
    BY <1>1, <1>2, <1>3, <2>3
       DEF IInv, CallInv, OriginInv, AnswerInv, ListInv, RowsInv, ReplyInv
  <2> QED
    BY <2>4, <2>5, <2>6 DEF IInv
<1>6. CASE k > Len(outer) /\ Ends(Value(rows))
  <2>1. k - 1 = Len(outer) /\ rows \in Seq(Seq(CppValues)) /\ Len(rows) = Len(outer)
    <3>1. rows \in Seq(Seq(CppValues)) /\ Len(rows) = Len(outer)
      BY DEF IInv, TypeOK
    <3>2. Len(outer) \in Nat
      BY <1>1
    <3> QED
      BY <1>1, <1>6, <3>1, <3>2
  <2>2. Fits(call.shape, call.type, Found.value)
    <3>1. \A n \in DOMAIN outer : AllReadable(call.type, outer[n])
      BY <1>1, <1>3, <2>1
    <3> QED
      BY <1>1, <1>2, <3>1 DEF Fits
  <2>3. rows = [n \in DOMAIN outer |-> AllReadAs(call.type, outer[n])]
    BY <1>1, <1>3, <2>1
  <2>4. rows = ReadIn(call.shape, call.type, Found.value)
    BY <1>1, <1>2, <2>3 DEF ReadIn
  <2>5. Value(rows) = WholeRead(call.shape, call.type, Found)
    BY <1>2, <2>2, <2>4 DEF WholeRead
  <2> QED
    BY <1>1, <1>6, <2>5, EndKeepsInv
<1> QED
  BY <1>4, <1>5, <1>6 DEF NextRow, RowsDone

(* The inductive invariant holds in every reachable state.                  *)
THEOREM AccessInvariance == Spec => []IInv
<1>1. IInv /\ [Next]_vars => IInv'
  <2> SUFFICES ASSUME IInv, [Next]_vars PROVE IInv'
    OBVIOUS
  <2>1. CASE UNCHANGED vars
    BY <2>1 DEF vars, outerVars, innerVars, IInv, TypeOK, CallInv, OriginInv, AnswerInv,
                ListInv, RowInv, RowsInv, ReplyInv, Found
  <2>2. ASSUME NEW h \in Handles, NEW data \in DataSets, NEW q \in Qualifiers,
               ArrivesFromDaemon(h, data, q)
        PROVE  IInv'
    <3>1. /\ Received(data, q) \in Documents
          /\ Parse(GetParameterSetAsString(data, q)) = Received(data, q)
      BY <2>2, TextAssumption DEF Documents, ArrivesFromDaemon
    <3>2. [data |-> data, qualifier |-> q] \in Origins
      BY DEF Origins
    <3> QED
      BY <2>2, <3>1, <3>2, ArrivesKeepsInv DEF ArrivesFromDaemon
  <2>3. ASSUME NEW h \in Handles, NEW json \in Elsewhere, ArrivesFromElsewhere(h, json)
        PROVE  IInv'
    <3>1. json \in Documents /\ None \in Origins
      BY DEF Documents, Origins
    <3> QED
      BY <2>3, <3>1, ArrivesKeepsInv DEF ArrivesFromElsewhere
  <2> QED
    BY <2>1, <2>2, <2>3, AnswersKeepsInv, StartKeepsInv, ElementKeepsInv, RowDoneKeepsInv,
       RowsKeepInv DEF Next
<1> QED
  BY InitInv, <1>1, PTL DEF Spec

-----------------------------------------------------------------------------
(* Every variable keeps its type, the results the length of their lists.    *)
THEOREM AccessTypeCorrect == Spec => []TypeOK
<1>1. IInv => TypeOK
  BY DEF IInv
<1> QED
  BY AccessInvariance, <1>1, PTL

(* What is kept of a value on its way is what is read of what arrives.      *)
LEMMA LeafIsKept ==
    ASSUME NEW t \in Types, NEW j \in Json
    PROVE  /\ Readable(t, Reread[j]) <=> CanRead(t, j)
           /\ CanRead(t, j) => ReadAs(t, Reread[j]) = Kept(t, j)
<1>1. IsLeaf(Reread[j]) <=> IsLeaf(j)
  BY JsonAssumption, TextAssumption, ResultKinds, ListKind
<1>2. CASE ~IsLeaf(j)
  BY <1>1, <1>2 DEF Readable, CanRead
<1>3. CASE IsLeaf(j)
  <2> DEFINE l == Rounded[j.leaf]
  <2>1. Reread[j].leaf = l /\ l \in Leaves
    BY <1>3, JsonAssumption, TextAssumption, ResultKinds
  <2>2. As[<<t, l>>] # None => As[<<t, l>>] = Kept(t, j)
    BY <2>1, NumberAssumption DEF Kept
  <2>3. t \in Floats /\ As[<<"int64", l>>] # None =>
            /\ AsInteger(t, l) = Kept(t, j)
            /\ AsInteger(t, l) # None
    <3> SUFFICES ASSUME t \in Floats, As[<<"int64", l>>] # None
                 PROVE  AsInteger(t, l) = Kept(t, j) /\ AsInteger(t, l) # None
      OBVIOUS
    <3>1. AsInteger(t, l) = Cast[<<t, As[<<"int64", l>>]>>]
      BY DEF AsInteger
    <3>2. As[<<"int64", l>>] \in CppValues
      BY <2>1, AccessAssumption
    <3>3. AsInteger(t, l) \in CppValues
      BY <3>1, <3>2, AccessAssumption
    <3>4. Cast[<<t, As[<<"int64", l>>]>>] = Nearest[<<t, l>>]
      BY <2>1, NumberAssumption
    <3> QED
      BY <3>1, <3>3, <3>4, AccessAssumption DEF Kept
  <2>4. ~(t \in Floats /\ As[<<"int64", l>>] # None) => AsInteger(t, l) = None
    BY DEF AsInteger
  <2> HIDE DEF l
  <2>5. Readable(t, Reread[j]) <=> As[<<t, l>>] # None \/ AsInteger(t, l) # None
    BY <1>1, <1>3, <2>1 DEF Readable
  <2>6. CanRead(t, j) <=>
            As[<<t, l>>] # None \/ (t \in Floats /\ As[<<"int64", l>>] # None)
    BY <1>3 DEF CanRead, l
  <2>7. ReadAs(t, Reread[j]) =
            IF As[<<t, l>>] # None THEN As[<<t, l>>] ELSE AsInteger(t, l)
    BY <2>1 DEF ReadAs
  <2> QED
    BY <2>2, <2>3, <2>4, <2>5, <2>6, <2>7
<1> QED
  BY <1>2, <1>3

(* A list arrives as a list of its elements.                                *)
LEMMA ListArrives ==
    ASSUME NEW j \in Json
    PROVE  /\ IsList(Reread[j]) <=> IsList(j)
           /\ IsList(j) => /\ Reread[j].list = [n \in DOMAIN j.list |-> Reread[j.list[n]]]
                           /\ DOMAIN Reread[j].list = DOMAIN j.list
                           /\ \A n \in DOMAIN j.list : /\ Reread[j].list[n] = Reread[j.list[n]]
                                                       /\ j.list[n] \in Json
<1>1. IsList(Reread[j]) <=> IsList(j)
  BY JsonAssumption, TextAssumption, ResultKinds, ListKind
<1>2. ASSUME IsList(j)
      PROVE  Reread[j].list = [n \in DOMAIN j.list |-> Reread[j.list[n]]]
  BY <1>2, TextAssumption, ListKind
<1>3. ASSUME IsList(j) PROVE \A n \in DOMAIN j.list : j.list[n] \in Json
  BY <1>3, JsonAssumption, ResultKinds
<1> QED
  BY <1>1, <1>2, <1>3

(* So do its numbers.                                                       *)
LEMMA ListIsKept ==
    ASSUME NEW t \in Types, NEW j \in Json
    PROVE  /\ AllReadable(t, Reread[j]) <=> CanReadAll(t, j)
           /\ CanReadAll(t, j) => AllReadAs(t, Reread[j]) = AllKept(t, j)
<1>1. CASE ~IsList(j)
  BY <1>1, ListArrives DEF AllReadable, CanReadAll
<1>2. CASE IsList(j)
  <2>1. /\ IsList(Reread[j]) /\ DOMAIN Reread[j].list = DOMAIN j.list
        /\ \A n \in DOMAIN j.list : /\ Reread[j].list[n] = Reread[j.list[n]]
                                    /\ j.list[n] \in Json
    BY <1>2, ListArrives
  <2>2. \A n \in DOMAIN j.list :
            /\ Readable(t, Reread[j].list[n]) <=> CanRead(t, j.list[n])
            /\ CanRead(t, j.list[n]) => ReadAs(t, Reread[j].list[n]) = Kept(t, j.list[n])
    BY <2>1, LeafIsKept
  <2> QED
    BY <1>2, <2>1, <2>2 DEF AllReadable, CanReadAll, AllReadAs, AllKept
<1> QED
  BY <1>1, <1>2

(* What the property says a read gives of an inserted value.                *)
FitsKept(shape, t, j) ==
    CASE shape = "value"  -> CanRead(t, j)
      [] shape = "array"  -> CanReadAll(t, j)
      [] shape = "matrix" -> IsList(j) /\ \A n \in DOMAIN j.list : CanReadAll(t, j.list[n])
KeptIn(shape, t, j) ==
    CASE shape = "value"  -> Kept(t, j)
      [] shape = "array"  -> AllKept(t, j)
      [] shape = "matrix" -> [n \in DOMAIN j.list |-> AllKept(t, j.list[n])]

(* It is what is read of what arrives, in each of the shapes.               *)
LEMMA ShapeIsKept ==
    ASSUME NEW shape \in {"value", "array", "matrix"}, NEW t \in Types, NEW j \in Json
    PROVE  /\ Fits(shape, t, Reread[j]) <=> FitsKept(shape, t, j)
           /\ FitsKept(shape, t, j) => ReadIn(shape, t, Reread[j]) = KeptIn(shape, t, j)
<1>1. CASE shape = "value"
  BY <1>1, LeafIsKept DEF Fits, FitsKept, ReadIn, KeptIn
<1>2. CASE shape = "array"
  BY <1>2, ListIsKept DEF Fits, FitsKept, ReadIn, KeptIn
<1>3. CASE shape = "matrix"
  <2> DEFINE read == Reread[j].list
  <2>1. IsList(Reread[j]) <=> IsList(j)
    BY ListArrives
  <2>2. IsList(j) => /\ DOMAIN read = DOMAIN j.list
                     /\ \A n \in DOMAIN j.list : read[n] = Reread[j.list[n]] /\ j.list[n] \in Json
    BY ListArrives
  <2>3. IsList(j) => \A n \in DOMAIN j.list :
            /\ AllReadable(t, read[n]) <=> CanReadAll(t, j.list[n])
            /\ CanReadAll(t, j.list[n]) => AllReadAs(t, read[n]) = AllKept(t, j.list[n])
    BY <2>2, ListIsKept
  <2>4. /\ Fits(shape, t, Reread[j]) <=>
              IsList(Reread[j]) /\ \A n \in DOMAIN read : AllReadable(t, read[n])
        /\ FitsKept(shape, t, j) <=>
              IsList(j) /\ \A n \in DOMAIN j.list : CanReadAll(t, j.list[n])
        /\ ReadIn(shape, t, Reread[j]) = [n \in DOMAIN read |-> AllReadAs(t, read[n])]
        /\ KeptIn(shape, t, j) = [n \in DOMAIN j.list |-> AllKept(t, j.list[n])]
    BY <1>3 DEF Fits, FitsKept, ReadIn, KeptIn
  <2> HIDE DEF read
  <2>5. Fits(shape, t, Reread[j]) <=> FitsKept(shape, t, j)
    BY <2>1, <2>2, <2>3, <2>4
  <2>6. ASSUME FitsKept(shape, t, j)
        PROVE  ReadIn(shape, t, Reread[j]) = KeptIn(shape, t, j)
    <3>1. /\ DOMAIN read = DOMAIN j.list
          /\ \A n \in DOMAIN j.list : AllReadAs(t, read[n]) = AllKept(t, j.list[n])
      BY <2>2, <2>3, <2>4, <2>6
    <3> QED
      BY <2>4, <3>1
  <2> QED
    BY <2>5, <2>6
<1> QED
  BY <1>1, <1>2, <1>3

(* What is read of the daemon's set is what a plugin has inserted, whole    *)
(* and as near as text and type can hold it.                                *)
THEOREM ReadIsKept == Spec => []ReadsWhatTextKeeps
<1>1. IInv => ReadsWhatTextKeeps
  <2> SUFFICES ASSUME IInv, Answered("GetParameterAs"), FromDaemon(call.set)
               PROVE  ReadsWhatTextKeeps
    BY DEF ReadsWhatTextKeeps
  <2> DEFINE d == origin[call.set]
             j == d.data[call.name]
  <2>1. /\ pc = "idle" /\ call.op = "GetParameterAs" /\ call.set \in Handles
        /\ call.name \in ParamNames /\ call.type \in Types
        /\ call.shape \in {"value", "array", "matrix"}
    BY CallFields DEF IInv, CallInv, Answered
  <2>2. /\ d.data \in DataSets /\ d.qualifier \in Qualifiers
        /\ held[call.set] = Received(d.data, d.qualifier)
    BY <2>1 DEF IInv, OriginInv, FromDaemon
  <2>3. Found = IF j = None THEN Error("kParameterNotFound") ELSE Value(Reread[j])
    BY <2>1, <2>2, DaemonParameter DEF Found
  <2>4. reply = WholeRead(call.shape, call.type, Found)
    BY <2>1 DEF IInv, ReplyInv
  <2>5. j # None => j \in Json
    BY <2>1, <2>2, AccessAssumption
  <2> HIDE DEF d, j
  <2>6. reply = IF j = None THEN Error("kParameterNotFound")
                ELSE IF Fits(call.shape, call.type, Reread[j])
                THEN Value(ReadIn(call.shape, call.type, Reread[j]))
                ELSE Error("kValueCastingError")
    BY <2>3, <2>4, ResultKinds DEF WholeRead
  <2>7. reply = IF j = None THEN Error("kParameterNotFound")
                ELSE IF FitsKept(call.shape, call.type, j)
                THEN Value(KeptIn(call.shape, call.type, j))
                ELSE Error("kValueCastingError")
    BY <2>1, <2>5, <2>6, ShapeIsKept
  <2> QED
    BY <2>7, Messages DEF ReadsWhatTextKeeps, FitsKept, KeptIn, Value, d, j
<1> QED
  BY AccessInvariance, <1>1, PTL

(* A set's qualifier arrives, and only qualifiers are read.                 *)
THEOREM QualifierArrives == Spec => []QualifierSurvives
<1>1. IInv => QualifierSurvives
  <2> SUFFICES ASSUME IInv, Answered("GetQualifier") PROVE QualifierSurvives
    BY DEF QualifierSurvives
  <2> DEFINE doc == held[call.set]
             member == Member(doc, "qualifier")
             number == As[<<"uint8", member.value.leaf>>]
  <2>1. call.set \in Handles /\ reply = GetQualifier(doc)
    BY CallFields DEF IInv, CallInv, AnswerInv, Answered
  <2>2. ASSUME FromDaemon(call.set)
        PROVE  reply = [value |-> origin[call.set].qualifier]
    <3> DEFINE q == origin[call.set].qualifier
    <3>1. q \in Qualifiers /\ doc = Received(origin[call.set].data, q)
      BY <2>1, <2>2 DEF IInv, OriginInv, FromDaemon
    <3>2. member = Value([leaf |-> QualifierLeaf[q]])
      BY <3>1, DaemonMembers
    <3>3. ~Failed(member) /\ IsLeaf(member.value) /\ member.value.leaf = QualifierLeaf[q]
      BY <3>2, ResultKinds
    <3>4. number = q /\ q # None /\ q <= 3
      <4>1. q \in Nat /\ q <= 3
        BY <3>1 DEF Qualifiers
      <4>2. number = As[<<"uint8", QualifierLeaf[q]>>]
        BY <3>3
      <4>3. As[<<"uint8", QualifierLeaf[q]>>] = q
        BY <3>1, AccessAssumption
      <4>4. None \notin Nat
        BY AccessAssumption
      <4> HIDE DEF number, q
      <4> QED
        BY <4>1, <4>2, <4>3, <4>4
    <3> HIDE DEF q, doc
    <3> QED
      BY <2>1, <3>3, <3>4 DEF GetQualifier, IsQualifier, kModified, Value, q
  <2>3. Failed(reply) \/ reply.value \in Qualifiers
    <3>1. CASE /\ ~Failed(member) /\ IsLeaf(member.value)
               /\ number # None /\ IsQualifier(number)
      <4>1. reply = Value(number)
        BY <2>1, <3>1 DEF GetQualifier
      <4>2. member.value.leaf \in Leaves
        <5>1. CASE FromDaemon(call.set)
          <6>1. PICK q \in Qualifiers : doc = Received(origin[call.set].data, q)
            BY <2>1, <5>1 DEF IInv, OriginInv, FromDaemon
          <6>2. member = Value([leaf |-> QualifierLeaf[q]])
            BY <6>1, DaemonMembers
          <6>3. member.value.leaf = QualifierLeaf[q]
            BY <6>2, ResultKinds
          <6> QED
            BY <6>3, AccessAssumption
        <5>2. CASE ~FromDaemon(call.set)
          <6>1. PICK e : e \in Documents /\ e = doc
            BY <2>1 DEF IInv, TypeOK
          <6>2. CASE e \in Elsewhere
            <7>1. doc \in Json
              BY <6>1, <6>2, AccessAssumption
            <7>2. /\ IsObject(doc) /\ "qualifier" \in DOMAIN doc.object
                  /\ member.value = doc.object["qualifier"]
              BY <3>1, ResultKinds DEF Member
            <7>3. member.value \in Json
              BY <7>1, <7>2, JsonAssumption, ResultKinds
            <7> QED
              BY <3>1, <7>3, JsonAssumption, ResultKinds
          <6>3. CASE \E data \in DataSets, q \in Qualifiers : e = Received(data, q)
            <7>1. PICK data \in DataSets, q \in Qualifiers : doc = Received(data, q)
              BY <6>1, <6>3
            <7>2. member = Value([leaf |-> QualifierLeaf[q]])
              BY <7>1, DaemonMembers
            <7>3. member.value.leaf = QualifierLeaf[q]
              BY <7>2, ResultKinds
            <7> QED
              BY <7>3, AccessAssumption
          <6> QED
            BY <6>1, <6>2, <6>3 DEF Documents
        <5> QED
          BY <5>1, <5>2
      <4>3. number \in Nat
        BY <3>1, <4>2, AccessAssumption
      <4>4. number \in Qualifiers
        BY <3>1, <4>3 DEF IsQualifier, kModified, Qualifiers
      <4> HIDE DEF number
      <4> QED
        BY <4>1, <4>4, ResultKinds
    <3>2. CASE ~(/\ ~Failed(member) /\ IsLeaf(member.value)
                 /\ number # None /\ IsQualifier(number))
      BY <2>1, <3>2, ResultKinds DEF GetQualifier
    <3> QED
      BY <3>1, <3>2
  <2> QED
    BY <2>2, <2>3 DEF QualifierSurvives
<1> QED
  BY AccessInvariance, <1>1, PTL

(* The messages of a read tell a damaged document from a missing or an      *)
(* unfit parameter.                                                         *)
THEOREM BlameIsRight == Spec => []BlamesDamagedDocuments
<1> DEFINE Blame == {Error("kParsingFailed"), Error("kObjectCastingError")}
<1>1. \A json, p : /\ Whole(json) => GetParameterAsJsonAny(json, p) \notin Blame
                   /\ ~Whole(json) => GetParameterAsJsonAny(json, p) \in Blame
  <2> SUFFICES ASSUME NEW json, NEW p
               PROVE  /\ Whole(json) => GetParameterAsJsonAny(json, p) \notin Blame
                      /\ ~Whole(json) => GetParameterAsJsonAny(json, p) \in Blame
    OBVIOUS
  <2>1. \A v : Value(v) \notin Blame
    BY ResultKinds
  <2>2. Error("kParameterNotFound") \notin Blame
    BY MessagesDiffer
  <2> HIDE DEF Blame
  <2>3. {Error("kParsingFailed"), Error("kObjectCastingError")} \subseteq Blame
    BY DEF Blame
  <2> QED
    BY <2>1, <2>2, <2>3, ResultKinds DEF GetParameterAsJsonAny, GetParameters, Member, Whole
<1>2. \A json : GetParametersAsString(json) \in Blame <=> ~Whole(json) \/ Unwritten(json)
  <2> SUFFICES ASSUME NEW json
               PROVE  GetParametersAsString(json) \in Blame <=> ~Whole(json) \/ Unwritten(json)
    OBVIOUS
  <2>1. \A v : Value(v) \notin Blame
    BY ResultKinds
  <2> HIDE DEF Blame
  <2>2. {Error("kParsingFailed"), Error("kObjectCastingError")} \subseteq Blame
    BY DEF Blame
  <2>3. CASE Whole(json)
    <3>1. GetParameters(json) = Value(json.object["parameters"])
      BY <2>3 DEF GetParameters, Member, Whole
    <3>2. GetParametersAsString(json) = ConvertJsonToString(json.object["parameters"])
      BY <3>1, ResultKinds DEF GetParametersAsString
    <3> QED
      BY <2>1, <2>2, <2>3, <3>2 DEF ConvertJsonToString, Whole, Unwritten
  <2>4. CASE ~Whole(json)
    BY <2>1, <2>2, <2>4, ResultKinds
       DEF GetParametersAsString, ConvertJsonToString, GetParameters, Member, Whole
  <2> QED
    BY <2>3, <2>4
<1>3. \A json, p, t, shape :
          LET found == GetParameterAsJsonAny(json, p) IN
          /\ Whole(json) => WholeRead(shape, t, found) \notin Blame
          /\ ~Whole(json) => WholeRead(shape, t, found) \in Blame
  <2> SUFFICES ASSUME NEW json, NEW p, NEW t, NEW shape,
                      NEW found, found = GetParameterAsJsonAny(json, p)
               PROVE  /\ Whole(json) => WholeRead(shape, t, found) \notin Blame
                      /\ ~Whole(json) => WholeRead(shape, t, found) \in Blame
    OBVIOUS
  <2>1. \A v : Value(v) \notin Blame
    BY ResultKinds
  <2>2. Error("kValueCastingError") \notin Blame
    BY MessagesDiffer
  <2>3. \A b \in Blame : Failed(b)
    BY ResultKinds
  <2> HIDE DEF Blame
  <2> QED
    BY <1>1, <2>1, <2>2, <2>3 DEF WholeRead
<1>4. \A json, p, t, shape :
          /\ WholeRead(shape, t, GetParameterAsJsonAny(json, p)) # [error |-> "Unknown Error!"]
          /\ GetParametersAsString(json) # [error |-> "Unknown Error!"]
  <2> DEFINE Unknown == [error |-> "Unknown Error!"]
  <2>1. /\ \A v : Value(v) # Unknown
        /\ Error("kParsingFailed") # Unknown /\ Error("kObjectCastingError") # Unknown
        /\ Error("kParameterNotFound") # Unknown /\ Error("kValueCastingError") # Unknown
    <3>1. DOMAIN Unknown = {"error"}
      OBVIOUS
    <3>2. \A v : Value(v) # Unknown
      BY <3>1, ResultKinds DEF Failed
    <3> QED
      BY <3>2, MessagesDiffer
  <2> HIDE DEF Unknown
  <2>2. \A json, p : GetParameterAsJsonAny(json, p) # Unknown
    BY <2>1 DEF GetParameterAsJsonAny, GetParameters, Member
  <2>3. \A json, p, t, shape : WholeRead(shape, t, GetParameterAsJsonAny(json, p)) # Unknown
    BY <2>1, <2>2 DEF WholeRead
  <2>4. \A json : GetParametersAsString(json) # Unknown
    BY <2>1 DEF GetParametersAsString, ConvertJsonToString, GetParameters, Member
  <2> QED
    BY <2>3, <2>4 DEF Unknown
<1>5. Blame = {[error |-> "JSON parsing failed"],
               [error |-> "Failed to cast JSON to object instance."]}
  BY Messages
<1> HIDE DEF Blame
<1>6. IInv => BlamesDamagedDocuments
  <2> SUFFICES ASSUME IInv, NEW op \in {"GetParameterAs", "GetParametersAsString"}, Answered(op)
               PROVE  /\ reply \in Blame <=>
                            \/ ~Whole(held[call.set])
                            \/ op = "GetParametersAsString" /\ Unwritten(held[call.set])
                      /\ reply # [error |-> "Unknown Error!"]
    BY <1>5 DEF BlamesDamagedDocuments
  <2>1. CASE op = "GetParameterAs"
    <3>1. reply = WholeRead(call.shape, call.type,
                            GetParameterAsJsonAny(held[call.set], call.name))
      BY <2>1 DEF IInv, ReplyInv, Found, Answered
    <3> QED
      BY <1>3, <1>4, <2>1, <3>1
  <2>2. CASE op = "GetParametersAsString"
    <3>1. reply = GetParametersAsString(held[call.set])
      BY <2>2 DEF IInv, AnswerInv, Answered
    <3> QED
      BY <1>2, <1>4, <2>2, <3>1
  <2> QED
    BY <2>1, <2>2
<1> QED
  BY AccessInvariance, <1>6, PTL
=============================================================================
