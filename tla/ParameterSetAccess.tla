-------------------------- MODULE ParameterSetAccess --------------------------
(***************************************************************************)
(* A parameter set on its way from the ConfigDaemon's data model to an     *)
(* application: the daemon makes a JSON document of it and sends the text  *)
(* of that; the client parses the text, and its ParameterSet, which holds  *)
(* what was parsed, answers typed reads.  Text and parser keep the form of *)
(* the document, but not every number: the tests parse 3.222 and find      *)
(* 3.22199988.  A document may also come from elsewhere (a storage, the    *)
(* proxy's stub), and is then any JSON value.                              *)
(*                                                                         *)
(* Arrays are converted element by element and two-dimensional ones row by *)
(* row, one step each, into a result that is allocated beforehand.  JSON   *)
(* values are records with one field: leaf, list or object.  The JSON      *)
(* library (external) is Write, Parse and As; a leaf is a number as the    *)
(* library keeps it, a string, a Boolean or null.                          *)
(***************************************************************************)
EXTENDS Naturals, Sequences

CONSTANTS
    Handles,       \* the ParameterSet objects an application holds
    ParamNames,    \* names of parameters
    Json,          \* JSON values
    Leaves,        \* those that are neither list nor object
    Types,         \* C++ types a parameter is read as
    Floats,        \* the floating point types
    CppValues,     \* their values
    Zero,          \* the value of a new array's elements
    None,          \* no value
    As,            \* json::Any::As of a type and a leaf: a value or None
    Cast,          \* static_cast of an integer to a type
    Nearest,       \* the value of a type nearest to a leaf, None if there is none
    Write(_),      \* JsonWriter::ToBuffer: the text of an object, or None
    Parse(_),      \* the JSON value a parser makes of a text
    Reread,        \* what is read of the text of a JSON value,
    Rounded,       \* and of a leaf
    QualifierLeaf, \* the JSON number of a qualifier
    DataSets,      \* the parameters a set of the daemon may have
    Elsewhere      \* the documents that are not made by the daemon

Qualifiers == 0 .. 3
kModified == 3

IsLeaf(j)   == DOMAIN j = {"leaf"}
IsList(j)   == DOMAIN j = {"list"}
IsObject(j) == DOMAIN j = {"object"}

ASSUME AccessAssumption ==
    /\ None \notin Json /\ None \notin CppValues
    /\ {"uint8", "int64"} \subseteq Types
    /\ Floats \subseteq Types
    /\ Zero \in CppValues
    /\ As \in [Types \X Leaves -> CppValues \cup {None}]
    /\ Cast \in [Types \X CppValues -> CppValues]
    /\ QualifierLeaf \in [Qualifiers -> Leaves]
    /\ \A q \in Qualifiers : As[<<"uint8", QualifierLeaf[q]>>] = q
    /\ \A l \in Leaves : As[<<"uint8", l>>] \in Nat \cup {None}
    /\ None \notin Nat
    /\ DataSets \subseteq [ParamNames -> Json \cup {None}]
    /\ Elsewhere \subseteq Json

ASSUME JsonAssumption ==
    \A j \in Json :
        \/ IsLeaf(j) /\ j.leaf \in Leaves
        \/ IsList(j) /\ j.list \in Seq(Json)
        \/ IsObject(j) /\ \A m \in DOMAIN j.object : j.object[m] \in Json

(* As gives the nearest value or none; a floating point type can be had     *)
(* from an integer, and rounds it to its nearest value.                     *)
ASSUME NumberAssumption ==
    /\ Nearest \in [Types \X Leaves -> CppValues \cup {None}]
    /\ \A t \in Types, l \in Leaves :
          As[<<t, l>>] # None => As[<<t, l>>] = Nearest[<<t, l>>]
    /\ \A t \in Floats, l \in Leaves :
          As[<<"int64", l>>] # None => Cast[<<t, As[<<"int64", l>>]>>] = Nearest[<<t, l>>]

VARIABLES
    held,   \* set_json_ of each ParameterSet
    origin, \* the daemon's set it was made of, None if it was made elsewhere
    pc,     \* where a read is: "idle", in the "rows" or in a "row"
    call,   \* the last call
    outer,  \* the list whose rows are converted, and the place in it
    k,
    rows,   \* result_outer
    inner,  \* the list whose elements are converted, and the place in it
    i,
    row,    \* result
    reply   \* what the last call returned

outerVars == <<outer, k, rows>>
innerVars == <<inner, i, row>>
vars == <<held, origin, pc, call, outerVars, innerVars, reply>>

-----------------------------------------------------------------------------
(***************************************************************************)
(* Results, and the accessors that are one step.                           *)
(***************************************************************************)

(* Seeded fault: a code without a message.                                  *)
MessageForgotten(code) ==
    IF code = "kParameterNotFound" THEN "Unknown Error!"
    ELSE IF code = "kValueCastingError"
    THEN "Failed to cast object instance to given C++ type"
    ELSE IF code = "kParsingFailed" THEN "JSON parsing failed"
    ELSE "Failed to cast JSON to object instance."

(* The message of each code, those that the provider returns included.      *)
MessageFor(code) ==
    CASE code = "kParsingFailed"         -> "JSON parsing failed"
      [] code = "kObjectCastingError"    -> "Failed to cast JSON to object instance."
      [] code = "kParameterNotFound"     -> "Parameter name was not found in JSON"
      [] code = "kValueCastingError"     ->
            "Failed to cast object instance to given C++ type"
      [] code = "kValueNotFound"         -> "Failed to find parameter value in JSON."
      [] code = "kProxyNotReady"         -> "Proxy is not ready."
      [] code = "kProxyAccessTimeout"    -> "Proxy access did not finish in time."
      [] code = "kProxyReturnedNoResult" ->
            "Proxy request did not return any result."
      [] code = "kEmptyCallbackProvided" -> "Empty callback provided."
      [] code = "kCallbackAlreadySet"    -> "A callback is already set."
      [] code = "kMethodNotSupported"    -> "Method is not supported."
      [] code = "kFailedToSubscribe"     -> "Failed to subscribe to event."
      [] code = "kParameterSetNotFound"  -> "Parameter set was not found"
      [] OTHER                           -> "Unknown Error!"

Value(v)  == [value |-> v]
Error(code) == [error |-> MessageFor(code)]
Failed(r) == DOMAIN r = {"error"}
NoReply   == [none |-> TRUE]

(* The document of a set: its parameters and the number of its qualifier.   *)
Present(data) == {p \in ParamNames : data[p] # None}

Document(parameters, q) ==
    [object |-> [m \in {"parameters", "qualifier"} |->
        IF m = "parameters" THEN [object |-> parameters]
        ELSE [leaf |-> QualifierLeaf[q]]]]

GetParameterSetAsJson(data, q) == Document([p \in Present(data) |-> data[p]], q)

(* Its text, which the reactor sends; None is the error kConvertingError.   *)
GetParameterSetAsString(data, q) == Write(GetParameterSetAsJson(data, q))

(* The document that the client gets of it: text and parser keep lists,     *)
(* objects and the numbers of qualifiers, and round other leaves one by one.*)
Received(data, q) == Document([p \in Present(data) |-> Reread[data[p]]], q)

ASSUME TextAssumption ==
    /\ Rounded \in [Leaves -> Leaves]
    /\ Reread \in [Json -> Json]
    /\ \A j \in Json :
          /\ IsLeaf(j) => Reread[j] = [leaf |-> Rounded[j.leaf]]
          /\ IsList(j) => Reread[j] = [list |-> [n \in DOMAIN j.list |-> Reread[j.list[n]]]]
          /\ IsObject(j) => Reread[j] = [object |-> [m \in DOMAIN j.object |-> Reread[j.object[m]]]]
    /\ \A data \in DataSets, q \in Qualifiers :
          GetParameterSetAsString(data, q) # None =>
              Parse(GetParameterSetAsString(data, q)) = Received(data, q)

(* A member of the document: the first half of every accessor.              *)
Member(json, key) ==
    IF ~IsObject(json) THEN Error("kObjectCastingError")
    ELSE IF key \notin DOMAIN json.object THEN Error("kParsingFailed")
    ELSE Value(json.object[key])

GetParameters(json) == Member(json, "parameters")

GetParameterAsJsonAny(json, name) ==
    LET parameters == GetParameters(json) IN
    IF Failed(parameters) THEN parameters
    ELSE IF ~IsObject(parameters.value) THEN Error("kObjectCastingError")
    ELSE IF name \notin DOMAIN parameters.value.object
    THEN Error("kParameterNotFound")
    ELSE Value(parameters.value.object[name])

ConvertJsonToString(json) ==
    IF ~IsObject(json) THEN Error("kObjectCastingError")
    ELSE IF Write(json) = None THEN Error("kObjectCastingError")
    ELSE Value(Write(json))

GetParametersAsString(json) ==
    LET parameters == GetParameters(json) IN
    IF Failed(parameters) THEN parameters ELSE ConvertJsonToString(parameters.value)

(* Seeded fault: the last enumerator was forgotten.                         *)
BoundOffByOne(n) == n < kModified

IsQualifier(n) == n <= kModified

GetQualifier(json) ==
    LET member == Member(json, "qualifier") IN
    IF Failed(member) THEN member
    ELSE IF /\ IsLeaf(member.value)
            /\ As[<<"uint8", member.value.leaf>>] # None
            /\ IsQualifier(As[<<"uint8", member.value.leaf>>])
    THEN Value(As[<<"uint8", member.value.leaf>>])
    ELSE Error("kValueCastingError")

ContainsSameContent(a, b) ==
    /\ ~Failed(GetParameters(a)) /\ ~Failed(GetParameters(b))
    /\ GetParameters(a).value = GetParameters(b).value

(* Seeded fault: an integer is cast to any type, whether it holds it or not.*)
CastsAnyInteger(type, l) ==
    IF As[<<"int64", l>>] # None THEN Cast[<<type, As[<<"int64", l>>]>>] ELSE None

(* An integer is taken for a floating point number by way of int64_t.       *)
AsInteger(type, l) ==
    IF type \in Floats /\ As[<<"int64", l>>] # None
    THEN Cast[<<type, As[<<"int64", l>>]>>] ELSE None

ConvertJsonAnyToType(type, json) ==
    IF IsLeaf(json) /\ As[<<type, json.leaf>>] # None
    THEN Value(As[<<type, json.leaf>>])
    ELSE IF IsLeaf(json) /\ AsInteger(type, json.leaf) # None
    THEN Value(AsInteger(type, json.leaf))
    ELSE Error("kValueCastingError")

-----------------------------------------------------------------------------
(* Documents arrive.                                                        *)
Init ==
    /\ held \in [Handles -> Elsewhere]
    /\ origin = [h \in Handles |-> None]
    /\ pc = "idle"
    /\ call = [op |-> "none"]
    /\ outer = <<>> /\ k = 1 /\ rows = <<>>
    /\ inner = <<>> /\ i = 1 /\ row = <<>>
    /\ reply = NoReply

Arrives(h, json, from) ==
    /\ pc = "idle"
    /\ held' = [held EXCEPT ![h] = json]
    /\ origin' = [origin EXCEPT ![h] = from]
    /\ call' = [op |-> "none"]
    /\ reply' = NoReply
    /\ UNCHANGED <<pc, outerVars, innerVars>>

(* A set that cannot be written does not arrive: its fetch fails.           *)
ArrivesFromDaemon(h, data, q) ==
    LET text == GetParameterSetAsString(data, q) IN
    /\ text # None
    /\ Arrives(h, Parse(text), [data |-> data, qualifier |-> q])

ArrivesFromElsewhere(h, json) == Arrives(h, json, None)

(* A call of one step.                                                      *)
Answers(made, result) ==
    /\ pc = "idle"
    /\ call' = made
    /\ reply' = result
    /\ UNCHANGED <<held, origin, pc, outerVars, innerVars>>

AsksQualifier(h) ==
    Answers([op |-> "GetQualifier", set |-> h], GetQualifier(held[h]))

AsksString(h) ==
    Answers([op |-> "GetParametersAsString", set |-> h],
            GetParametersAsString(held[h]))

Compares(g, h) ==
    Answers([op |-> "ContainsSameContent", set |-> g, target |-> h],
            Value(ContainsSameContent(held[g], held[h])))

-----------------------------------------------------------------------------
(* GetParameterAs: a value is converted at once, the lists step by step.    *)
Asks(h, shape, type, name) ==
    /\ pc = "idle"
    /\ call' = [op |-> "GetParameterAs", set |-> h, shape |-> shape,
                type |-> type, name |-> name]
    /\ UNCHANGED <<held, origin>>

Ends(result) ==
    /\ pc' = "idle"
    /\ reply' = result
    /\ outer' = <<>> /\ k' = 1 /\ rows' = <<>>
    /\ inner' = <<>> /\ i' = 1 /\ row' = <<>>

(* Seeded fault: the room is reserved, but the array stays empty.           *)
ReservedOnly(list) == <<>>

(* Array<PrimitiveType> result(list.size()).                                *)
NewArray(list) == [n \in DOMAIN list |-> Zero]

StartsRow(list) ==
    /\ pc' = "row"
    /\ inner' = list
    /\ i' = 1
    /\ row' = NewArray(list)
    /\ UNCHANGED reply

GetParameterAs(h, type, name) ==
    LET found == GetParameterAsJsonAny(held[h], name) IN
    /\ Asks(h, "value", type, name)
    /\ Ends(IF Failed(found) THEN found
            ELSE ConvertJsonAnyToType(type, found.value))

ListFails(h, shape, type, name) ==
    LET found == GetParameterAsJsonAny(held[h], name) IN
    /\ Asks(h, shape, type, name)
    /\ \/ Failed(found) /\ Ends(found)
       \/ /\ ~Failed(found) /\ ~IsList(found.value)
          /\ Ends(Error("kValueCastingError"))

GetParameterAsArray(h, type, name) ==
    LET found == GetParameterAsJsonAny(held[h], name) IN
    /\ Asks(h, "array", type, name)
    /\ ~Failed(found) /\ IsList(found.value)
    /\ StartsRow(found.value.list)
    /\ UNCHANGED outerVars

GetParameterAsTwoDimensionalArray(h, type, name) ==
    LET found == GetParameterAsJsonAny(held[h], name) IN
    /\ Asks(h, "matrix", type, name)
    /\ ~Failed(found) /\ IsList(found.value)
    /\ pc' = "rows"
    /\ outer' = found.value.list
    /\ k' = 1
    /\ rows' = [n \in DOMAIN found.value.list |-> <<>>]
    /\ UNCHANGED <<innerVars, reply>>

(* ConvertJsonListToAmpVector, one element.                                 *)
NextElement ==
    LET result == ConvertJsonAnyToType(call.type, inner[i]) IN
    /\ pc = "row" /\ i <= Len(inner)
    /\ \/ Failed(result) /\ Ends(result)
       \/ /\ ~Failed(result)
          /\ row' = [row EXCEPT ![i] = result.value]
          /\ i' = i + 1
          /\ UNCHANGED <<pc, outerVars, inner, reply>>
    /\ UNCHANGED <<held, origin, call>>

RowDone ==
    /\ pc = "row" /\ i > Len(inner)
    /\ \/ call.shape = "array" /\ Ends(Value(row))
       \/ /\ call.shape = "matrix"
          /\ pc' = "rows"
          /\ rows' = [rows EXCEPT ![k] = row]
          /\ k' = k + 1
          /\ inner' = <<>> /\ i' = 1 /\ row' = <<>>
          /\ UNCHANGED <<outer, reply>>
    /\ UNCHANGED <<held, origin, call>>

NextRow ==
    /\ pc = "rows" /\ k <= Len(outer)
    /\ \/ ~IsList(outer[k]) /\ Ends(Error("kValueCastingError"))
       \/ IsList(outer[k]) /\ StartsRow(outer[k].list) /\ UNCHANGED outerVars
    /\ UNCHANGED <<held, origin, call>>

RowsDone ==
    /\ pc = "rows" /\ k > Len(outer)
    /\ Ends(Value(rows))
    /\ UNCHANGED <<held, origin, call>>

Next ==
    \/ \E h \in Handles :
          \/ \E data \in DataSets, q \in Qualifiers : ArrivesFromDaemon(h, data, q)
          \/ \E json \in Elsewhere : ArrivesFromElsewhere(h, json)
          \/ AsksQualifier(h) \/ AsksString(h) \/ \E g \in Handles : Compares(g, h)
          \/ \E type \in Types, name \in ParamNames :
                \/ GetParameterAs(h, type, name)
                \/ \E shape \in {"array", "matrix"} : ListFails(h, shape, type, name)
                \/ GetParameterAsArray(h, type, name)
                \/ GetParameterAsTwoDimensionalArray(h, type, name)
    \/ NextElement \/ RowDone \/ NextRow \/ RowsDone

Spec == Init /\ [][Next]_vars

-----------------------------------------------------------------------------
Documents ==
    Elsewhere \cup {Received(data, q) : data \in DataSets, q \in Qualifiers}

Origins == [data : DataSets, qualifier : Qualifiers] \cup {None}

(* Every variable has its type; the results under construction are as long  *)
(* as the lists they are made of, and there are none between two calls.     *)
TypeOK ==
    /\ held \in [Handles -> Documents]
    /\ origin \in [Handles -> Origins]
    /\ pc \in {"idle", "rows", "row"}
    /\ outer \in Seq(Json) /\ inner \in Seq(Json)
    /\ k \in 1 .. Len(outer) + 1 /\ i \in 1 .. Len(inner) + 1
    /\ rows \in Seq(Seq(CppValues)) /\ Len(rows) = Len(outer)
    /\ row \in Seq(CppValues) /\ Len(row) = Len(inner)
    /\ pc = "idle" => outer = <<>> /\ inner = <<>>

Answered(op) == pc = "idle" /\ call.op = op
FromDaemon(h) == origin[h] # None

(* What the text keeps of an inserted value: whether it can be read as a    *)
(* type, which takes a leaf that the type holds or, for a floating point    *)
(* type, an integer of int64_t; and the number that has to be read then.    *)
CanRead(type, j) ==
    /\ IsLeaf(j)
    /\ \/ As[<<type, Rounded[j.leaf]>>] # None
       \/ type \in Floats /\ As[<<"int64", Rounded[j.leaf]>>] # None
Kept(type, j) == Nearest[<<type, Rounded[j.leaf]>>]
CanReadAll(type, j) == IsList(j) /\ \A n \in DOMAIN j.list : CanRead(type, j.list[n])
AllKept(type, j) == [n \in DOMAIN j.list |-> Kept(type, j.list[n])]

(* What an application reads of a set that the daemon sent is what a plugin *)
(* had inserted, as far as the text keeps it: the whole value, array or     *)
(* two-dimensional array, each number as near as the type that was asked    *)
(* for can hold it, and never a part of it; if it is not there, or one      *)
(* element is not of the type, the message says which of the two it is.     *)
ReadsWhatTextKeeps ==
    Answered("GetParameterAs") /\ FromDaemon(call.set) =>
    LET j    == origin[call.set].data[call.name]
        fits == CASE call.shape = "value"  -> CanRead(call.type, j)
                  [] call.shape = "array"  -> CanReadAll(call.type, j)
                  [] call.shape = "matrix" ->
                       IsList(j) /\ \A n \in DOMAIN j.list : CanReadAll(call.type, j.list[n])
        kept == CASE call.shape = "value"  -> Kept(call.type, j)
                  [] call.shape = "array"  -> AllKept(call.type, j)
                  [] call.shape = "matrix" ->
                       [n \in DOMAIN j.list |-> AllKept(call.type, j.list[n])]
    IN  reply = IF j = None THEN [error |-> "Parameter name was not found in JSON"]
                ELSE IF fits THEN [value |-> kept]
                ELSE [error |-> "Failed to cast object instance to given C++ type"]

(* The qualifier that the daemon's set had reaches the application; of any  *)
(* other document only one of the four qualifiers is ever read.             *)
QualifierSurvives ==
    Answered("GetQualifier") =>
        /\ FromDaemon(call.set) => reply = [value |-> origin[call.set].qualifier]
        /\ Failed(reply) \/ reply.value \in Qualifiers

Whole(json) ==
    /\ IsObject(json) /\ "parameters" \in DOMAIN json.object
    /\ IsObject(json.object["parameters"])

Unwritten(json) == Whole(json) /\ Write(json.object["parameters"]) = None

(* A read blames the document exactly when the document has no parameters,  *)
(* wherever it comes from, or when they are asked for as a text that cannot *)
(* be written; and every error of a read has a message.                     *)
BlamesDamagedDocuments ==
    \A op \in {"GetParameterAs", "GetParametersAsString"} : Answered(op) =>
        /\ reply \in {[error |-> "JSON parsing failed"],
                      [error |-> "Failed to cast JSON to object instance."]}
           <=> \/ ~Whole(held[call.set])
               \/ op = "GetParametersAsString" /\ Unwritten(held[call.set])
        /\ reply # [error |-> "Unknown Error!"]
=============================================================================
