-------------------------------- MODULE Wire --------------------------------
(***************************************************************************)
(* What XML-RPC does to a value (src/aioros/xmlrpc/_protocol).  A value is  *)
(* a tree as in ParamTree; its labels are records whose first field names   *)
(* the Python type.  A label is sent as an element and read back from it;   *)
(* the members of a struct and the items of an array are the paths below.   *)
(***************************************************************************)
EXTENDS Integers, ParamTree

Str(s, padded) == [str |-> s, padded |-> padded]
Bytes(s, padded) == [bytes |-> s, padded |-> padded]
Integer(n) == [int |-> n, huge |-> FALSE]
HugeInteger(n) == [int |-> n, huge |-> TRUE]  \* beyond the range of a double
Float(n, finite) == [float |-> n, finite |-> finite]
Bool(b) == [bool |-> b]
DateTime(s, micros) == [datetime |-> s, micros |-> micros]
Binary(s) == [binary |-> s]
None == [none |-> TRUE]
ListValue == [list |-> TRUE]
TupleValue == [tuple |-> TRUE]  \* a set, a frozenset and a generator as well

Is(type, label) == type \in DOMAIN label

\* The labels of values; an integer is within the range of a double.
IsLabel(v) ==
  \/ Is("str", v) /\ v = Str(v.str, v.padded)
  \/ Is("bytes", v) /\ v = Bytes(v.bytes, v.padded)
  \/ Is("datetime", v) /\ v = DateTime(v.datetime, v.micros)
  \/ Is("binary", v) /\ v = Binary(v.binary)
  \/ Is("bool", v) /\ v = Bool(v.bool)
  \/ Is("float", v) /\ v = Float(v.float, v.finite) /\ v.finite \in BOOLEAN
  \/ Is("int", v) /\ v = Integer(v.int) /\ v.int \in Int
  \/ v \in {None, DictValue, ListValue, TupleValue}

\* A value that can be sent: only the members of a struct may have an empty name.
IsValue(tree) ==
  /\ IsTree(tree)
  /\ \A p \in DOMAIN tree : IsLabel(tree[p])
  /\ \A p \in DOMAIN tree \ {<< >>} : Last(p) = "" => Is("dict", tree[Front(p)])

MaxInt == 2147483647
MinInt == -2147483647 - 1

\* An integer at either end of the range goes as a double, as one beyond does.
GoesAsI4(v) == ~v.huge /\ MinInt < v.int /\ v.int < MaxInt

Element(v) ==
  CASE Is("str", v)      -> [tag |-> "string", text |-> v.str]
    [] Is("bytes", v)    -> [tag |-> "string", text |-> v.bytes]
    [] Is("float", v)    -> [tag |-> "double", text |-> v.float, huge |-> FALSE, finite |-> v.finite]
    [] Is("int", v)      -> IF GoesAsI4(v) THEN [tag |-> "i4", text |-> v.int]
                            ELSE [tag |-> "double", text |-> v.int, huge |-> v.huge, finite |-> TRUE]
    [] Is("bool", v)     -> [tag |-> "boolean", text |-> v.bool]
    [] Is("datetime", v) -> [tag |-> "dateTime.iso8601", text |-> v.datetime]
    [] Is("binary", v)   -> [tag |-> "base64", text |-> v.binary]
    [] Is("none", v)     -> [tag |-> "nil"]
    [] Is("dict", v)     -> [tag |-> "struct"]
    [] Is("list", v) \/ Is("tuple", v) -> [tag |-> "array"]

\* A double is spelled as Python does: inf and nan are not as the schema wants them.
Schema(e) == e.tag = "double" => e.finite

\* Mutant: base64 is read as bytes and not as Binary.
FromElementBytes(e) ==
  CASE e.tag = "base64"  -> Bytes(e.text, FALSE)
    [] e.tag = "string"  -> Str(e.text, FALSE)
    [] e.tag = "double"  -> Float(e.text, e.finite /\ ~e.huge)
    [] e.tag = "i4"      -> Integer(e.text)
    [] e.tag = "boolean" -> Bool(e.text)
    [] e.tag = "dateTime.iso8601" -> DateTime(e.text, FALSE)
    [] e.tag = "nil"     -> None
    [] e.tag = "struct"  -> DictValue
    [] e.tag = "array"   -> ListValue

\* A string is stripped, and a date has whole seconds.
FromElement(e) ==
  CASE e.tag = "base64"  -> Binary(e.text)
    [] e.tag = "string"  -> Str(e.text, FALSE)
    [] e.tag = "double"  -> Float(e.text, e.finite /\ ~e.huge)
    [] e.tag = "i4"      -> Integer(e.text)
    [] e.tag = "boolean" -> Bool(e.text)
    [] e.tag = "dateTime.iso8601" -> DateTime(e.text, FALSE)
    [] e.tag = "nil"     -> None
    [] e.tag = "struct"  -> DictValue
    [] e.tag = "array"   -> ListValue

-----------------------------------------------------------------------------
(* Members of structs; order is that of the names of a dictionary.          *)

\* What is left of a sequence of those in S.
Filtered(names, S) ==
  FlattenSeq([i \in DOMAIN names |-> IF names[i] \in S THEN <<names[i]>> ELSE << >>])

Members(tree, path, order) ==
  Filtered(order, {name \in STRING : Append(path, name) \in DOMAIN tree})

\* The names that have a text, which the values are paired with in turn.
NamesWithText(tree, path, order) ==
  Filtered(Members(tree, path, order), STRING \ {""})

\* The name that a member's value is read back with, if any is left for it.
PairedName(tree, path, order) ==
  LET struct == Front(path)
      members == Members(tree, struct, order)
      names == NamesWithText(tree, struct, order)
      i == CHOOSE i \in DOMAIN members : members[i] = Last(path)
  IN IF ~Is("dict", tree[struct]) THEN <<Last(path)>>
     ELSE IF i \in DOMAIN names THEN <<names[i]>> ELSE << >>

\* What a value is when it has been sent; what is below a dropped value goes with it.
Received(tree, order) ==
  LET name == [p \in DOMAIN tree \ {<< >>} |-> PairedName(tree, p, order)]
      kept == {p \in DOMAIN tree : \A i \in DOMAIN p : name[SubSeq(p, 1, i)] # << >>}
      paired(p) == [i \in DOMAIN p |-> Head(name[SubSeq(p, 1, i)])]
      sent(q) == CHOOSE p \in kept : paired(p) = q
  IN [q \in {paired(p) : p \in kept} |-> FromElement(Element(tree[sent(q)]))]

\* It is received at all.
Accepted(tree) == \A p \in DOMAIN tree : Schema(Element(tree[p]))

=============================================================================
