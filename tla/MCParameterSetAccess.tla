------------------------- MODULE MCParameterSetAccess -------------------------
(***************************************************************************)
(* ParameterSetAccess on a few JSON values: numbers that fit a byte or     *)
(* only int64_t, that a floating point type holds exactly or not, an       *)
(* integer beyond int64_t, a fraction that the parser rounds, a number     *)
(* that cannot be written, and a string; lists and lists of lists with and *)
(* without an element that does not fit; documents with every damage.      *)
(***************************************************************************)
EXTENDS ParameterSetAccess, TLC

MCLeaves == {"0", "1", "2", "3", "9", "300", "huge", "text",
             "3.222", "3.22199988", "nan"}

(* The values of the numbers: 3222 is 3.222 and 3221 is 3.22199988.  The    *)
(* double of this instance holds 300 and what is smaller than 9 exactly; it *)
(* rounds 9 to 8, and the integer beyond int64_t to 999.                    *)
MCValues == {0, 1, 2, 3, 8, 9, 44, 300, 999, 3221, 3222}

Number(l) == CASE l = "0" -> 0 [] l = "1" -> 1 [] l = "2" -> 2
               [] l = "3" -> 3 [] l = "9" -> 9 [] l = "300" -> 300
               [] l = "3.222" -> 3222 [] l = "3.22199988" -> 3221

MCAs == [a \in {"uint8", "int64", "double"} \X MCLeaves |->
    CASE a[2] \in {"text", "nan", "huge"} -> None
      [] a[2] \in {"3.222", "3.22199988"} ->
            IF a[1] = "double" THEN Number(a[2]) ELSE None
      [] a[2] = "9"   -> IF a[1] = "double" THEN None ELSE 9
      [] a[2] = "300" -> IF a[1] = "uint8" THEN None ELSE 300
      [] OTHER        -> Number(a[2])]

MCNearest == [a \in {"uint8", "int64", "double"} \X MCLeaves |->
    CASE a[2] \in {"text", "nan"} -> None
      [] a[1] = "double" -> (CASE a[2] = "9" -> 8 [] a[2] = "huge" -> 999
                               [] OTHER -> Number(a[2]))
      [] OTHER -> MCAs[a]]

(* A cast to a byte keeps its last eight bits.                              *)
MCCast == [a \in {"uint8", "int64", "double"} \X MCValues |->
    CASE a[1] = "double" /\ a[2] = 9  -> 8
      [] a[1] = "uint8" /\ a[2] = 300 -> 44
      [] OTHER                        -> a[2]]

MCRounded == [l \in MCLeaves |-> IF l = "3.222" THEN "3.22199988" ELSE l]

MCQualifierLeaf == [q \in 0 .. 3 |-> CASE q = 0 -> "0" [] q = 1 -> "1"
                                       [] q = 2 -> "2" [] q = 3 -> "3"]

(* The text of a value is the value in brackets, so to say; the parser      *)
(* rounds its leaves.                                                       *)
RECURSIVE Writable(_), Parsed(_)

Writable(j) ==
    CASE IsLeaf(j)   -> j.leaf # "nan"
      [] IsList(j)   -> \A n \in DOMAIN j.list : Writable(j.list[n])
      [] IsObject(j) -> \A m \in DOMAIN j.object : Writable(j.object[m])

Parsed(j) ==
    CASE IsLeaf(j)   -> [leaf |-> MCRounded[j.leaf]]
      [] IsList(j)   -> [list |-> [n \in DOMAIN j.list |-> Parsed(j.list[n])]]
      [] IsObject(j) -> [object |-> [m \in DOMAIN j.object |-> Parsed(j.object[m])]]

MCWrite(j) == IF Writable(j) THEN [text |-> j] ELSE None
MCParse(text) == Parsed(text.text)

Leaf(l)    == [leaf |-> l]
List(s)    == [list |-> s]
Single(n, j) == [object |-> [m \in {n} |-> j]]

Lists  == {List(<<>>), List(<<Leaf("2"), Leaf("9")>>), List(<<Leaf("300"), Leaf("text")>>)}
Nested == {List(<<List(<<Leaf("2"), Leaf("3.222")>>), List(<<>>)>>),
           List(<<List(<<Leaf("2"), Leaf("9")>>), List(<<Leaf("300"), Leaf("text")>>)>>),
           List(<<List(<<>>), Leaf("3")>>)}

Parameters == {Leaf("1"), [object |-> <<>>], Single("p", Leaf("nan"))}
MCElsewhere == {Single("parameters", j) : j \in Parameters}
               \cup {Single("qualifier", Leaf("9")), Single("qualifier", Leaf("text")),
                     Leaf("1")}

Known == {Leaf(l) : l \in MCLeaves} \cup Lists \cup Nested
         \cup {j.list[1] : j \in Nested} \cup Parameters \cup MCElsewhere
MCJson == Known \cup {Parsed(j) : j \in Known}
MCReread == [j \in MCJson |-> Parsed(j)]

(* Parameter q is there or not, next to any p.                              *)
MCDataSets ==
    {[n \in {"p", "q"} |-> IF n = "p" THEN j ELSE None] :
        j \in {Leaf("9"), Leaf("huge"), Leaf("nan")} \cup Lists \cup Nested}
    \cup {[n \in {"p", "q"} |-> IF n = "p" THEN Leaf("3.222") ELSE Leaf("300")]}

Symmetry == Permutations(Handles)
=============================================================================
