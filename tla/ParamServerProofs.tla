-------------------------- MODULE ParamServerProofs --------------------------
(***************************************************************************)
(* What is sent twice is received as what is sent once, for every label of  *)
(* a value, and so for what the master holds: a value is settled when it    *)
(* has been received, the master puts its parameters together from settled  *)
(* values, and what it queues for the subscribers are parts of them.  The   *)
(* invariant also has the dictionaries on the way to every parameter, which *)
(* is why a search finds what it should.  Then what an update meets in a    *)
(* cache, and last what a cache, the updates that are on their way to it    *)
(* and the answers to the node's own calls say of each path.                *)
(***************************************************************************)
EXTENDS ParamServer, OperatorProofs, Integers

\* The label that a label is received as.
Once(v) == FromElement(Element(v))

-----------------------------------------------------------------------------
(* The elements of the labels                                               *)

LEMMA ElementOfStr ==
  ASSUME NEW s, NEW padded PROVE Element(Str(s, padded)) = [tag |-> "string", text |-> s]
<1>1. \A t : Is(t, Str(s, padded)) <=> t \in {"str", "padded"}
  BY DEF Is, Str
<1> QED  BY <1>1 DEF Element, Str

LEMMA ElementOfBytes ==
  ASSUME NEW s, NEW padded PROVE Element(Bytes(s, padded)) = [tag |-> "string", text |-> s]
<1>1. \A t : Is(t, Bytes(s, padded)) <=> t \in {"bytes", "padded"}
  BY DEF Is, Bytes
<1> QED  BY <1>1 DEF Element, Bytes

LEMMA ElementOfFloat ==
  ASSUME NEW n, NEW finite PROVE Element(Float(n, finite)) = [tag |-> "double", text |-> n, huge |-> FALSE, finite |-> finite]
<1>1. \A t : Is(t, Float(n, finite)) <=> t \in {"float", "finite"}
  BY DEF Is, Float
<1> QED  BY <1>1 DEF Element, Float

LEMMA ElementOfBool ==
  ASSUME NEW b PROVE Element(Bool(b)) = [tag |-> "boolean", text |-> b]
<1>1. \A t : Is(t, Bool(b)) <=> t \in {"bool"}
  BY DEF Is, Bool
<1> QED  BY <1>1 DEF Element, Bool

LEMMA ElementOfDateTime ==
  ASSUME NEW s, NEW micros PROVE Element(DateTime(s, micros)) = [tag |-> "dateTime.iso8601", text |-> s]
<1>1. \A t : Is(t, DateTime(s, micros)) <=> t \in {"datetime", "micros"}
  BY DEF Is, DateTime
<1> QED  BY <1>1 DEF Element, DateTime

LEMMA ElementOfBinary ==
  ASSUME NEW s PROVE Element(Binary(s)) = [tag |-> "base64", text |-> s]
<1>1. \A t : Is(t, Binary(s)) <=> t \in {"binary"}
  BY DEF Is, Binary
<1> QED  BY <1>1 DEF Element, Binary

LEMMA ElementOfInteger ==
  ASSUME NEW n, NEW huge, NEW v, v = [int |-> n, huge |-> huge]
  PROVE  Element(v) = IF GoesAsI4(v) THEN [tag |-> "i4", text |-> n]
                      ELSE [tag |-> "double", text |-> n, huge |-> huge, finite |-> TRUE]
<1>1. \A t : Is(t, v) <=> t \in {"int", "huge"}
  BY DEF Is
<1> QED  BY <1>1 DEF Element

LEMMA ElementOfNone == Element(None) = [tag |-> "nil"]
<1>1. \A t : Is(t, None) <=> t = "none"
  BY DEF Is, None
<1> QED  BY <1>1 DEF Element

LEMMA ElementOfDictValue == Element(DictValue) = [tag |-> "struct"]
<1>1. \A t : Is(t, DictValue) <=> t = "dict"
  BY DEF Is, DictValue
<1> QED  BY <1>1 DEF Element

LEMMA ElementOfListValue == Element(ListValue) = [tag |-> "array"]
<1>1. \A t : Is(t, ListValue) <=> t = "list"
  BY DEF Is, ListValue
<1> QED  BY <1>1 DEF Element

LEMMA ElementOfTupleValue == Element(TupleValue) = [tag |-> "array"]
<1>1. \A t : Is(t, TupleValue) <=> t = "tuple"
  BY DEF Is, TupleValue
<1> QED  BY <1>1 DEF Element

-----------------------------------------------------------------------------
(* The labels of the elements                                               *)

LEMMA FromString ==
  ASSUME NEW s
  PROVE  FromElement([tag |-> "string", text |-> s]) = Str(s, FALSE)
  BY DEF FromElement

LEMMA FromDouble ==
  ASSUME NEW n, NEW huge, NEW finite
  PROVE  FromElement([tag |-> "double", text |-> n, huge |-> huge, finite |-> finite]) = Float(n, finite /\ ~huge)
  BY DEF FromElement

LEMMA FromI4 ==
  ASSUME NEW n
  PROVE  FromElement([tag |-> "i4", text |-> n]) = Integer(n)
  BY DEF FromElement

LEMMA FromBoolean ==
  ASSUME NEW b
  PROVE  FromElement([tag |-> "boolean", text |-> b]) = Bool(b)
  BY DEF FromElement

LEMMA FromDateTime ==
  ASSUME NEW s
  PROVE  FromElement([tag |-> "dateTime.iso8601", text |-> s]) = DateTime(s, FALSE)
  BY DEF FromElement

LEMMA FromBase64 ==
  ASSUME NEW s
  PROVE  FromElement([tag |-> "base64", text |-> s]) = Binary(s)
  BY DEF FromElement

LEMMA FromNil == FromElement([tag |-> "nil"]) = None
  BY DEF FromElement

LEMMA FromStruct == FromElement([tag |-> "struct"]) = DictValue
  BY DEF FromElement

LEMMA FromArray == FromElement([tag |-> "array"]) = ListValue
  BY DEF FromElement

-----------------------------------------------------------------------------
(* Labels that are sent                                                     *)

LEMMA FloatSettles ==
  ASSUME NEW n, NEW finite \in BOOLEAN, Schema(Element(Float(n, finite)))
  PROVE  /\ Once(Float(n, finite)) = Float(n, finite)
         /\ finite
<1>1. Element(Float(n, finite)) = [tag |-> "double", text |-> n, huge |-> FALSE, finite |-> finite]
  BY ElementOfFloat
<1>2. finite
  BY <1>1 DEF Schema
<1>3. Once(Float(n, finite)) = Float(n, finite /\ ~FALSE)
  BY <1>1, FromDouble DEF Once
<1>4. (finite /\ ~FALSE) = finite
  BY <1>2
<1> QED  BY <1>2, <1>3, <1>4

LEMMA FiniteOfElement == ASSUME NEW n, NEW finite PROVE Element(Float(n, finite)).finite = finite
<1>1. Element(Float(n, finite)) = [tag |-> "double", text |-> n, huge |-> FALSE, finite |-> finite]
  BY ElementOfFloat
<1>2. [tag |-> "double", text |-> n, huge |-> FALSE, finite |-> finite].finite = finite
  OBVIOUS
<1> QED  BY <1>1, <1>2, Zenon

LEMMA FiniteIsSent ==
  ASSUME NEW n, NEW finite, finite = TRUE PROVE Schema(Element(Float(n, finite)))
<1>1. Element(Float(n, finite)).finite = finite
  BY FiniteOfElement
<1> QED  BY <1>1 DEF Schema

LEMMA FloatIsSent == ASSUME NEW n PROVE Schema(Element(Float(n, TRUE)))
  BY FiniteIsSent

LEMMA OthersAreSent == ASSUME NEW e, e.tag # "double" PROVE Schema(e)
  BY DEF Schema

LEMMA IntegerSettles ==
  ASSUME NEW n \in Int
  PROVE  Once(Integer(n)) \in {Integer(n), Float(n, TRUE)}
<1>1. Element(Integer(n)) \in
        {[tag |-> "i4", text |-> n],
         [tag |-> "double", text |-> n, huge |-> FALSE, finite |-> TRUE]}
  BY ElementOfInteger DEF Integer
<1>2. CASE Element(Integer(n)) = [tag |-> "i4", text |-> n]
  BY <1>2, FromI4 DEF Once
<1>3. CASE Element(Integer(n)) = [tag |-> "double", text |-> n, huge |-> FALSE, finite |-> TRUE]
  <2>1. Once(Integer(n)) = Float(n, TRUE /\ ~FALSE)
    BY <1>3, FromDouble DEF Once
  <2>2. (TRUE /\ ~FALSE) = TRUE
    OBVIOUS
  <2> QED  BY <2>1, <2>2
<1> QED  BY <1>1, <1>2, <1>3

LEMMA IntegerIsSent == ASSUME NEW n \in Int PROVE Schema(Element(Integer(n)))
<1>1. Element(Integer(n)) \in
        {[tag |-> "i4", text |-> n],
         [tag |-> "double", text |-> n, huge |-> FALSE, finite |-> TRUE]}
  BY ElementOfInteger DEF Integer
<1> QED  BY <1>1 DEF Schema

\* An integer that goes as one comes back as itself.
LEMMA IntegerStays ==
  ASSUME NEW n \in Int PROVE GoesAsI4(Integer(n)) => Once(Integer(n)) = Integer(n)
  BY ElementOfInteger, FromI4 DEF Once, Integer

\* One that does not is a double for good.
LEMMA IntegerSettlesTwice ==
  ASSUME NEW n \in Int PROVE Once(Once(Integer(n))) = Once(Integer(n))
<1>1. CASE Once(Integer(n)) = Integer(n)
  BY <1>1
<1>2. CASE Once(Integer(n)) = Float(n, TRUE)
  <2>1. Schema(Element(Float(n, TRUE)))
    BY FloatIsSent
  <2> QED  BY <1>2, <2>1, FloatSettles
<1> QED  BY <1>1, <1>2, IntegerSettles

\* A label that the schema accepts is accepted again after it has been sent, and
\* is then received unchanged (py2xml, xml2py): what the parameter server and
\* its readers hold does not depend on how often it has been sent.
THEOREM LabelSettles ==
  ASSUME NEW v, IsLabel(v), Schema(Element(v))
  PROVE  Schema(Element(Once(v))) /\ Once(Once(v)) = Once(v)
<1>1. ASSUME NEW s, NEW padded, v = Str(s, padded) \/ v = Bytes(s, padded)
      PROVE  Schema(Element(Once(v))) /\ Once(Once(v)) = Once(v)
  <2>1. Element(v) = [tag |-> "string", text |-> s]
    BY <1>1, ElementOfStr, ElementOfBytes
  <2>2. Once(v) = Str(s, FALSE)
    BY <2>1, FromString DEF Once
  <2>3. Element(Once(v)) = [tag |-> "string", text |-> s]
    BY <2>2, ElementOfStr
  <2>4. Once(Once(v)) = Once(v)
    BY <2>2, <2>3, FromString DEF Once
  <2> QED  BY <2>3, <2>4, OthersAreSent
<1>2. ASSUME NEW s, NEW micros, v = DateTime(s, micros)
      PROVE  Schema(Element(Once(v))) /\ Once(Once(v)) = Once(v)
  <2>1. Once(v) = DateTime(s, FALSE)
    BY <1>2, ElementOfDateTime, FromDateTime DEF Once
  <2>2. Element(Once(v)) = [tag |-> "dateTime.iso8601", text |-> s]
    BY <2>1, ElementOfDateTime
  <2>3. Once(Once(v)) = Once(v)
    BY <2>1, <2>2, FromDateTime DEF Once
  <2> QED  BY <2>2, <2>3, OthersAreSent
<1>3. ASSUME NEW s, v = Binary(s) \/ v = Bool(s)
      PROVE  Schema(Element(Once(v))) /\ Once(Once(v)) = Once(v)
  <2>1. Once(v) = v
    BY <1>3, ElementOfBinary, ElementOfBool, FromBase64, FromBoolean DEF Once
  <2> QED  BY <2>1
<1>4. ASSUME v \in {None, DictValue, ListValue, TupleValue}
      PROVE  Schema(Element(Once(v))) /\ Once(Once(v)) = Once(v)
  <2>1. \/ Element(v) = [tag |-> "nil"] /\ Once(v) = None
        \/ Element(v) = [tag |-> "struct"] /\ Once(v) = DictValue
        \/ Element(v) = [tag |-> "array"] /\ Once(v) = ListValue
    BY <1>4, ElementOfNone, ElementOfDictValue, ElementOfListValue, ElementOfTupleValue,
       FromNil, FromStruct, FromArray DEF Once
  <2>2. /\ Once(None) = None /\ Once(DictValue) = DictValue /\ Once(ListValue) = ListValue
        /\ Schema(Element(None)) /\ Schema(Element(DictValue)) /\ Schema(Element(ListValue))
    BY ElementOfNone, ElementOfDictValue, ElementOfListValue, FromNil, FromStruct, FromArray
       DEF Once, Schema
  <2> QED  BY <2>1, <2>2
<1>5. ASSUME NEW n, NEW finite \in BOOLEAN, v = Float(n, finite)
      PROVE  Schema(Element(Once(v))) /\ Once(Once(v)) = Once(v)
  BY <1>5, FloatSettles
<1>6. ASSUME NEW n \in Int, v = Integer(n)
      PROVE  Schema(Element(Once(v))) /\ Once(Once(v)) = Once(v)
  <2>1. Schema(Element(Float(n, TRUE)))
    BY FloatIsSent
  <2> QED  BY <1>6, <2>1, IntegerSettles, IntegerSettlesTwice, IntegerIsSent
<1>7. CASE v = Str(v.str, v.padded)
  BY <1>1, <1>7
<1>8. CASE v = Bytes(v.bytes, v.padded)
  BY <1>1, <1>8
<1>9. CASE v = DateTime(v.datetime, v.micros)
  BY <1>2, <1>9
<1>10. CASE v = Binary(v.binary)
  BY <1>3, <1>10
<1>11. CASE v = Bool(v.bool)
  BY <1>3, <1>11
<1>12. CASE v = Float(v.float, v.finite) /\ v.finite \in BOOLEAN
  BY <1>5, <1>12
<1>13. CASE v = Integer(v.int) /\ v.int \in Int
  BY <1>6, <1>13
<1> QED  BY <1>4, <1>7, <1>8, <1>9, <1>10, <1>11, <1>12, <1>13, Zenon DEF IsLabel

-----------------------------------------------------------------------------
(* Paths                                                                    *)

\* The paths that keys and received values have: split and xml2struct leave no
\* empty name.
Path == Seq(STRING \ {""})

\* What the lemmas on sequences say of paths.
LEMMA PathsConcatenate ==
  /\ << >> \in Path
  /\ \A p \in Path : p \o << >> = p /\ << >> \o p = p
  /\ \A p, q \in Path : p \o q \in Path /\ IsPrefix(p, p \o q)
                       /\ SubSeq(p \o q, Len(p) + 1, Len(p \o q)) = q
  /\ \A p, q \in Path : IsPrefix(p, q) =>
       /\ SubSeq(q, Len(p) + 1, Len(q)) \in Path
       /\ q = p \o SubSeq(q, Len(p) + 1, Len(q))
  /\ \A p \in Path : \A q : q \in Prefixes(p) <=> q \in Path /\ IsPrefix(q, p)
<1> DEFINE S == STRING \ {""}
<1>1. Path = Seq(S)
  BY DEF Path
<1> HIDE DEF S
<1>2. /\ << >> \in Seq(S)
      /\ \A p \in Seq(S) : p \o << >> = p /\ << >> \o p = p
  BY EmptySeq, ConcatEmptySeq
<1>3. ASSUME NEW p \in Seq(S), NEW q \in Seq(S)
      PROVE  /\ p \o q \in Seq(S) /\ IsPrefix(p, p \o q)
             /\ SubSeq(p \o q, Len(p) + 1, Len(p \o q)) = q
  BY ConcatProperties, PrefixOfConcat
<1>4. ASSUME NEW p \in Seq(S), NEW q \in Seq(S), IsPrefix(p, q)
      PROVE  /\ SubSeq(q, Len(p) + 1, Len(q)) \in Seq(S)
             /\ q = p \o SubSeq(q, Len(p) + 1, Len(q))
  BY <1>4, PrefixParts
<1>5. ASSUME NEW p \in Seq(S), NEW q PROVE q \in Prefixes(p) <=> q \in Seq(S) /\ IsPrefix(q, p)
  BY Prefixed
<1> QED  BY <1>1, <1>2, <1>3, <1>4, <1>5

LEMMA PathEnds ==
  /\ \A p \in Path : Len(p) \in Nat
  /\ \A p, q \in Path : p \o q = << >> => p = << >> /\ q = << >>
<1> DEFINE S == STRING \ {""}
<1>1. Path = Seq(S)
  BY DEF Path
<1> HIDE DEF S
<1>2. \A p \in Seq(S) : Len(p) \in Nat
  BY LenProperties
<1>3. ASSUME NEW p \in Seq(S), NEW q \in Seq(S), p \o q = << >> PROVE p = << >> /\ q = << >>
  <2>1. Len(p \o q) = Len(p) + Len(q) /\ Len(p) \in Nat /\ Len(q) \in Nat
    BY ConcatProperties, LenProperties
  <2>2. Len(p \o q) = 0
    BY <1>3
  <2>3. Len(p) = 0 /\ Len(q) = 0
    BY <2>1, <2>2
  <2> QED  BY <2>3, EmptySeq
<1> QED  BY <1>1, <1>2, <1>3

LEMMA Associated ==
  ASSUME NEW p \in Path, NEW q \in Path, NEW r \in Path
  PROVE  (p \o q) \o r = p \o (q \o r)
<1> DEFINE S == STRING \ {""}
<1>1. p \in Seq(S) /\ q \in Seq(S) /\ r \in Seq(S)
  BY DEF Path
<1> HIDE DEF S
<1> QED  BY <1>1, ConcatAssociative

LEMMA PrefixTransitive ==
  ASSUME NEW p \in Path, NEW q \in Path, NEW r \in Path, IsPrefix(p, q), IsPrefix(q, r)
  PROVE  IsPrefix(p, r)
<1>1. PICK s \in Path : q = p \o s
  BY PathsConcatenate
<1>2. PICK u \in Path : r = q \o u
  BY PathsConcatenate
<1>3. (p \o s) \o u = p \o (s \o u)
  BY Associated
<1>4. s \o u \in Path /\ r = p \o (s \o u)
  BY <1>1, <1>2, <1>3, PathsConcatenate
<1> QED  BY <1>4, PathsConcatenate

-----------------------------------------------------------------------------
(* Settled trees                                                            *)

\* A tree of settled labels, which are received as they are sent, with the
\* dictionaries on the way to all of its parts.
Settled(tree) ==
  /\ tree = [p \in DOMAIN tree |-> tree[p]] /\ IsFiniteSet(DOMAIN tree)
  /\ DOMAIN tree \subseteq Path
  /\ \A p, r \in Path : p \o r \in DOMAIN tree => p \in DOMAIN tree
  /\ \A p \in DOMAIN tree : Schema(Element(tree[p])) /\ Once(tree[p]) = tree[p]

LEMMA DictIsSettled == Schema(Element(DictValue)) /\ Once(DictValue) = DictValue
<1>1. \A t : Is(t, DictValue) <=> t = "dict"
  BY DEF Is, DictValue
<1>2. Element(DictValue) = [tag |-> "struct"]
  BY <1>1 DEF Element
<1> QED  BY <1>2 DEF Schema, Once, FromElement

LEMMA EmptySettled == Settled(EmptyTree) /\ << >> \in DOMAIN EmptyTree /\ IsDictValue(EmptyTree)
<1>1. DOMAIN EmptyTree = {<< >>} /\ EmptyTree[<< >>] = DictValue /\ EmptyTree = [p \in DOMAIN EmptyTree |-> EmptyTree[p]]
  BY DEF EmptyTree
<1>2. IsFiniteSet({<< >>})
  BY FS_Singleton
<1>3. \A p, r \in Path : p \o r = << >> => p = << >>
  BY PathEnds
<1>4. << >> \in Path
  BY PathsConcatenate
<1> QED  BY <1>1, <1>2, <1>3, <1>4, DictIsSettled DEF Settled, IsDictValue

\* What a part of a tree has, it has at the paths below the part's.
LEMMA SubTreePaths ==
  ASSUME NEW tree, DOMAIN tree \subseteq Path, NEW path \in Path
  PROVE  /\ \A r : r \in DOMAIN SubTree(tree, path) <=> r \in Path /\ path \o r \in DOMAIN tree
         /\ \A r \in DOMAIN SubTree(tree, path) : SubTree(tree, path)[r] = tree[path \o r]
<1>1. SubTree(tree, path) =
        [r \in {SubSeq(q, Len(path) + 1, Len(q)) : q \in {q \in DOMAIN tree : IsPrefix(path, q)}}
           |-> tree[path \o r]]
  BY DEF SubTree
<1>2. ASSUME NEW q \in DOMAIN tree, IsPrefix(path, q)
      PROVE  /\ SubSeq(q, Len(path) + 1, Len(q)) \in Path
             /\ path \o SubSeq(q, Len(path) + 1, Len(q)) \in DOMAIN tree
  BY <1>2, PathsConcatenate
<1>3. ASSUME NEW r \in Path, path \o r \in DOMAIN tree
      PROVE  r \in {SubSeq(q, Len(path) + 1, Len(q)) : q \in {q \in DOMAIN tree : IsPrefix(path, q)}}
  BY <1>3, PathsConcatenate
<1> QED  BY <1>1, <1>2, <1>3

\* A part of a settled tree is settled.
LEMMA SubTreeSettled ==
  ASSUME NEW tree, Settled(tree), NEW path \in Path
  PROVE  /\ Settled(SubTree(tree, path))
         /\ path \in DOMAIN tree => << >> \in DOMAIN SubTree(tree, path)
<1> DEFINE t == SubTree(tree, path)
<1>1. DOMAIN tree \subseteq Path
  BY DEF Settled
<1>2. /\ \A r : r \in DOMAIN t <=> r \in Path /\ path \o r \in DOMAIN tree
      /\ \A r \in DOMAIN t : t[r] = tree[path \o r]
  BY <1>1, SubTreePaths
<1>3. t = [r \in DOMAIN t |-> t[r]]
  BY DEF SubTree
<1> HIDE DEF t
<1>4. IsFiniteSet(DOMAIN t)
  <2> DEFINE f == [r \in DOMAIN t |-> path \o r]
  <2>1. f \in Injection(DOMAIN t, DOMAIN tree)
    <3>1. f \in [DOMAIN t -> DOMAIN tree]
      BY <1>2
    <3>2. \A r, s \in DOMAIN t : path \o r = path \o s => r = s
      <4>1. \A r \in DOMAIN t : SubSeq(path \o r, Len(path) + 1, Len(path \o r)) = r
        BY <1>2, PathsConcatenate
      <4> QED  BY <4>1
    <3> QED  BY <3>1, <3>2 DEF Injection, IsInjective
  <2> QED  BY <2>1, FS_Injection DEF Settled
<1>5. ASSUME NEW p \in Path, NEW r \in Path, p \o r \in DOMAIN t PROVE p \in DOMAIN t
  <2>1. path \o (p \o r) \in DOMAIN tree
    BY <1>2, <1>5
  <2>2. path \o (p \o r) = (path \o p) \o r
    BY Associated
  <2>3. path \o p \in Path
    BY PathsConcatenate
  <2> QED  BY <1>2, <2>1, <2>2, <2>3 DEF Settled
<1>6. \A p \in DOMAIN t : Schema(Element(t[p])) /\ Once(t[p]) = t[p]
  BY <1>2 DEF Settled
<1>7. path \in DOMAIN tree => << >> \in DOMAIN t
  BY <1>2, PathsConcatenate
<1>8. DOMAIN t \subseteq Path
  BY <1>2
<1>9. Settled(t)
  BY <1>3, <1>4, <1>5, <1>6, <1>8 DEF Settled
<1> QED  BY <1>7, <1>9 DEF t

\* A settled tree that a part is removed of is settled.
LEMMA RemovedSettled ==
  ASSUME NEW tree, Settled(tree), NEW path \in Path
  PROVE  Settled(Removed(tree, path))
<1> DEFINE t == Removed(tree, path)
<1>1. /\ DOMAIN t = {q \in DOMAIN tree : ~IsPrefix(path, q)}
      /\ \A q \in DOMAIN t : t[q] = tree[q]
      /\ t = [q \in DOMAIN t |-> t[q]]
  BY DEF Removed
<1> HIDE DEF t
<1>2. IsFiniteSet(DOMAIN t)
  BY <1>1, FS_Subset DEF Settled
<1>3. ASSUME NEW p \in Path, NEW r \in Path, p \o r \in DOMAIN t PROVE p \in DOMAIN t
  <2>1. p \in DOMAIN tree /\ ~IsPrefix(path, p \o r)
    BY <1>1, <1>3 DEF Settled
  <2>2. ASSUME IsPrefix(path, p) PROVE FALSE
    <3> DEFINE s == SubSeq(p, Len(path) + 1, Len(p))
    <3>1. s \in Path /\ p = path \o s
      BY <2>2, PathsConcatenate
    <3> HIDE DEF s
    <3>2. (path \o s) \o r = path \o (s \o r)
      BY <3>1, Associated
    <3>3. s \o r \in Path
      BY <3>1, PathsConcatenate
    <3> QED  BY <2>1, <3>1, <3>2, <3>3, PathsConcatenate
  <2> QED  BY <1>1, <2>1, <2>2
<1>4. /\ DOMAIN t \subseteq Path
      /\ \A p \in DOMAIN t : Schema(Element(t[p])) /\ Once(t[p]) = t[p]
  BY <1>1 DEF Settled
<1>5. Settled(t)
  BY <1>1, <1>2, <1>3, <1>4 DEF Settled
<1> QED  BY <1>5 DEF t

\* What is in a tree after a value has been put at a path: what is beside the path,
\* the dictionaries on the way to it, and the value.
StoredParts(t, tree, path, value) ==
  /\ t = [q \in DOMAIN t |-> t[q]]
  /\ DOMAIN t = {q \in DOMAIN tree : ~IsPrefix(path, q) /\ ~IsPrefix(q, path)}
                \cup (Prefixes(path) \ {path}) \cup {path \o p : p \in DOMAIN value}
  /\ \A q \in DOMAIN t :
       \/ t[q] = DictValue
       \/ q \in DOMAIN tree /\ t[q] = tree[q]
       \/ \E p \in DOMAIN value : q = path \o p /\ t[q] = value[p]

LEMMA StoredPaths ==
  ASSUME NEW tree, DOMAIN tree \subseteq Path, NEW value, DOMAIN value \subseteq Path, NEW path \in Path
  PROVE  StoredParts(Stored(tree, path, value), tree, path, value)
<1> DEFINE kept == {q \in DOMAIN tree : ~IsPrefix(path, q) /\ ~IsPrefix(q, path)}
           onTheWay == {q \in Prefixes(path) : q # path}
           below == {path \o p : p \in DOMAIN value}
           t == Stored(tree, path, value)
<1>1. t = [q \in kept \cup onTheWay \cup below |->
             CASE q \in onTheWay -> DictValue
               [] q \in kept -> tree[q]
               [] OTHER -> value[SubSeq(q, Len(path) + 1, Len(q))]]
  BY DEF Stored
<1>2. \A p \in DOMAIN value : SubSeq(path \o p, Len(path) + 1, Len(path \o p)) = p
  BY PathsConcatenate
<1>3. kept \cap onTheWay = {}
  BY PathsConcatenate
<1> DEFINE label(q) == CASE q \in onTheWay -> DictValue
                         [] q \in kept -> tree[q]
                         [] OTHER -> value[SubSeq(q, Len(path) + 1, Len(q))]
<1>4. \A q \in kept \cup onTheWay \cup below :
        \/ label(q) = DictValue
        \/ q \in DOMAIN tree /\ label(q) = tree[q]
        \/ \E p \in DOMAIN value : q = path \o p /\ label(q) = value[p]
  <2>1. ASSUME NEW q \in onTheWay PROVE label(q) = DictValue
    <3>1. q \notin kept
      BY <1>3
    <3> HIDE DEF onTheWay, kept
    <3> QED  BY <2>1, <3>1
  <2>2. ASSUME NEW q \in kept, q \notin onTheWay PROVE q \in DOMAIN tree /\ label(q) = tree[q]
    BY <2>2
  <2>3. ASSUME NEW q \in below, q \notin onTheWay, q \notin kept
        PROVE  \E p \in DOMAIN value : q = path \o p /\ label(q) = value[p]
    <3>1. PICK p \in DOMAIN value : q = path \o p
      BY <2>3
    <3>2. label(q) = value[SubSeq(q, Len(path) + 1, Len(q))]
      <4> HIDE DEF onTheWay, kept
      <4> QED  BY <2>3
    <3> QED  BY <1>2, <3>1, <3>2
  <2> HIDE DEF label
  <2> QED  BY <2>1, <2>2, <2>3
<1>5. t = [q \in kept \cup onTheWay \cup below |-> label(q)]
  BY <1>1
<1> HIDE DEF label, t
<1>6. /\ DOMAIN t = kept \cup onTheWay \cup below /\ t = [q \in DOMAIN t |-> t[q]]
      /\ \A q \in DOMAIN t : t[q] = label(q)
  BY <1>5
<1>7. onTheWay = Prefixes(path) \ {path}
  OBVIOUS
<1> HIDE DEF kept, onTheWay, below
<1>8. /\ t = [q \in DOMAIN t |-> t[q]]
      /\ DOMAIN t = kept \cup (Prefixes(path) \ {path}) \cup below
      /\ \A q \in DOMAIN t : \/ t[q] = DictValue
                             \/ q \in DOMAIN tree /\ t[q] = tree[q]
                             \/ \E p \in DOMAIN value : q = path \o p /\ t[q] = value[p]
  BY <1>4, <1>6, <1>7
<1> HIDE DEF t
<1>9. StoredParts(t, tree, path, value)
  BY <1>8 DEF kept, below, StoredParts
<1> QED  BY <1>9 DEF t

LEMMA PrefixesFinite == ASSUME NEW path \in Path PROVE IsFiniteSet(Prefixes(path))
<1> DEFINE f == [n \in 0..Len(path) |-> SubSeq(path, 1, n)]
<1>1. Len(path) \in Nat
  BY PathEnds
<1>2. IsFiniteSet(0..Len(path))
  BY <1>1, FS_Interval
<1>3. IsFiniteSet({f[n] : n \in 0..Len(path)})
  <2>1. DOMAIN f = 0..Len(path) /\ f = [n \in 0..Len(path) |-> f[n]]
    OBVIOUS
  <2> HIDE DEF f
  <2> QED  BY <1>2, <2>1, ImageFinite
<1>4. Prefixes(path) = {f[n] : n \in 0..Len(path)}
  BY DEF Prefixes
<1> QED  BY <1>3, <1>4

\* A settled tree stays settled when a settled value is put into it. Only what is
\* at and below the path can be gone, the value is there, and the root is a
\* dictionary if it was one.
LEMMA StoredSettled ==
  ASSUME NEW tree, Settled(tree), NEW value, Settled(value), NEW path \in Path, << >> \in DOMAIN value
  PROVE  LET t == Stored(tree, path, value)
         IN /\ Settled(t) /\ path \in DOMAIN t /\ << >> \in DOMAIN t
            /\ IsDictValue(tree) /\ (path = << >> => IsDictValue(value)) => IsDictValue(t)
            /\ \A q \in DOMAIN tree : ~IsPrefix(path, q) => q \in DOMAIN t
            /\ \A p \in DOMAIN value : path \o p \in DOMAIN t
<1> DEFINE t == Stored(tree, path, value)
           kept == {q \in DOMAIN tree : ~IsPrefix(path, q) /\ ~IsPrefix(q, path)}
           onTheWay == Prefixes(path) \ {path}
           below == {path \o p : p \in DOMAIN value}
<1>1. DOMAIN tree \subseteq Path /\ DOMAIN value \subseteq Path
  BY DEF Settled
<1>2. /\ t = [q \in DOMAIN t |-> t[q]]
      /\ DOMAIN t = kept \cup onTheWay \cup below
      /\ \A q \in DOMAIN t : \/ t[q] = DictValue
                             \/ q \in DOMAIN tree /\ t[q] = tree[q]
                             \/ \E p \in DOMAIN value : q = path \o p /\ t[q] = value[p]
  <2>1. StoredParts(t, tree, path, value)
    BY <1>1, StoredPaths
  <2> HIDE DEF t
  <2> QED  BY <2>1 DEF StoredParts
<1>3. \A q : q \in onTheWay <=> q \in Path /\ IsPrefix(q, path) /\ q # path
  BY PathsConcatenate
<1>4. path \in below
  BY PathsConcatenate
<1> HIDE DEF t, onTheWay
<1>5. IsFiniteSet(DOMAIN t)
  <2>1. IsFiniteSet(kept)
    BY FS_Subset DEF Settled
  <2>2. IsFiniteSet(onTheWay)
    BY PrefixesFinite, FS_Difference DEF onTheWay
  <2>3. IsFiniteSet(below)
    <3> DEFINE f == [p \in DOMAIN value |-> path \o p]
    <3>1. DOMAIN f = DOMAIN value /\ f = [p \in DOMAIN value |-> f[p]] /\ below = {f[p] : p \in DOMAIN value}
      OBVIOUS
    <3> HIDE DEF f, below
    <3> QED  BY <3>1, ImageFinite DEF Settled
  <2> HIDE DEF kept, below
  <2>4. IsFiniteSet(kept \cup onTheWay)
    BY <2>1, <2>2, FS_Union
  <2>5. IsFiniteSet((kept \cup onTheWay) \cup below)
    BY <2>3, <2>4, FS_Union
  <2> QED  BY <1>2, <2>5
<1>6. DOMAIN t \subseteq Path
  <2>1. kept \subseteq Path /\ onTheWay \subseteq Path
    BY <1>1, <1>3
  <2>2. \A p \in DOMAIN value : path \o p \in Path
    BY <1>1, PathsConcatenate
  <2>3. below \subseteq Path
    BY <2>2
  <2> HIDE DEF kept, below
  <2> QED  BY <1>2, <2>1, <2>3
<1>7. ASSUME NEW p \in Path, NEW r \in Path, p \o r \in DOMAIN t PROVE p \in DOMAIN t
  <2>1. CASE IsPrefix(p, path)
    BY <1>2, <1>3, <1>4, <2>1
  <2>2. CASE ~IsPrefix(p, path) /\ IsPrefix(path, p)
    <3> DEFINE s == SubSeq(p, Len(path) + 1, Len(p))
    <3>1. s \in Path /\ p = path \o s
      BY <2>2, PathsConcatenate
    <3> HIDE DEF s
    <3>2. p \o r = path \o (s \o r)
      BY <3>1, Associated
    <3>3. p \o r \in below
      <4>1. IsPrefix(path, p \o r)
        BY <3>1, <3>2, PathsConcatenate
      <4>2. p \o r \notin kept
        BY <4>1
      <4>3. ASSUME p \o r \in onTheWay PROVE FALSE
        <5>1. IsPrefix(p, p \o r) /\ IsPrefix(p \o r, path) /\ p \o r \in Path
          BY <1>3, <4>3, PathsConcatenate
        <5>2. IsPrefix(p, path)
          BY <5>1, PrefixTransitive
        <5> QED  BY <2>2, <5>2
      <4>4. p \o r \in kept \cup onTheWay \cup below
        BY <1>2, <1>7
      <4> HIDE DEF kept, onTheWay, below
      <4> QED  BY <4>2, <4>3, <4>4
    <3>4. PICK u \in DOMAIN value : p \o r = path \o u
      BY <3>3
    <3>5. u = s \o r
      <4>1. s \o r \in Path /\ u \in Path
        BY <1>1, <3>1, PathsConcatenate
      <4>2. SubSeq(path \o u, Len(path) + 1, Len(path \o u)) = u
        BY <4>1, PathsConcatenate
      <4>3. SubSeq(path \o (s \o r), Len(path) + 1, Len(path \o (s \o r))) = s \o r
        BY <4>1, PathsConcatenate
      <4> QED  BY <3>2, <3>4, <4>2, <4>3
    <3>6. s \in DOMAIN value
      BY <3>1, <3>4, <3>5 DEF Settled
    <3> QED  BY <1>2, <3>1, <3>6
  <2>3. CASE ~IsPrefix(p, path) /\ ~IsPrefix(path, p)
    <3>1. p \o r \in kept
      <4>1. IsPrefix(p, p \o r) /\ p \o r \in Path
        BY PathsConcatenate
      <4>2. ASSUME p \o r \in onTheWay PROVE FALSE
        <5>1. IsPrefix(p, path)
          BY <1>3, <4>1, <4>2, PrefixTransitive
        <5> QED  BY <2>3, <5>1
      <4>3. ASSUME NEW u \in DOMAIN value, p \o r = path \o u PROVE FALSE
        <5>1. IsPrefix(path, p \o r)
          BY <1>1, <4>3, PathsConcatenate
        <5>2. IsPrefix(p, path) \/ IsPrefix(path, p)
          BY <4>1, <5>1, Comparable DEF Path
        <5> QED  BY <2>3, <5>2
      <4>4. p \o r \notin below
        BY <4>3
      <4>5. p \o r \in kept \cup onTheWay \cup below
        BY <1>2, <1>7
      <4> HIDE DEF kept, onTheWay, below
      <4> QED  BY <4>2, <4>4, <4>5
    <3> QED  BY <1>2, <2>3, <3>1 DEF Settled
  <2> QED  BY <2>1, <2>2, <2>3
<1>8. ASSUME NEW q \in DOMAIN t PROVE Schema(Element(t[q])) /\ Once(t[q]) = t[q]
  <2>1. CASE t[q] = DictValue
    BY <2>1, DictIsSettled
  <2>2. CASE q \in DOMAIN tree /\ t[q] = tree[q]
    BY <2>2 DEF Settled
  <2>3. CASE \E p \in DOMAIN value : q = path \o p /\ t[q] = value[p]
    BY <2>3 DEF Settled
  <2> QED  BY <1>2, <2>1, <2>2, <2>3
<1>9. Settled(t)
  BY <1>2, <1>5, <1>6, <1>7, <1>8 DEF Settled
<1>10. path \in DOMAIN t
  BY <1>2, <1>4
<1>11. << >> \in DOMAIN t
  <2>1. << >> \in Path /\ << >> \o path = path
    BY PathsConcatenate
  <2> QED  BY <1>7, <1>10, <2>1
<1>12. ASSUME NEW q \in DOMAIN tree, ~IsPrefix(path, q) PROVE q \in DOMAIN t
  <2>1. CASE IsPrefix(q, path)
    <3>1. q \in Path
      BY <1>1
    <3>2. q \in onTheWay \/ q = path
      BY <1>3, <2>1, <3>1
    <3> QED  BY <1>2, <1>10, <3>2
  <2>2. CASE ~IsPrefix(q, path)
    BY <1>2, <1>12, <2>2
  <2> QED  BY <2>1, <2>2
<1>13. ASSUME IsDictValue(tree), path = << >> => IsDictValue(value) PROVE IsDictValue(t)
  <2>1. ASSUME NEW p \in DOMAIN value, << >> = path \o p PROVE path = << >> /\ p = << >>
    BY <1>1, <2>1, PathEnds
  <2>2. \/ t[<< >>] = DictValue
        \/ t[<< >>] = tree[<< >>]
        \/ \E p \in DOMAIN value : << >> = path \o p /\ t[<< >>] = value[p]
    BY <1>2, <1>11
  <2> HIDE DEF kept, below
  <2> QED  BY <1>13, <2>1, <2>2 DEF IsDictValue
<1>14. \A p \in DOMAIN value : path \o p \in DOMAIN t
  BY <1>2
<1> QED  BY <1>9, <1>10, <1>11, <1>12, <1>13, <1>14 DEF t

-----------------------------------------------------------------------------
(* Sent trees                                                               *)

\* What is left of a sequence is in the set, and all of it is left that is.
LEMMA FilteredIs ==
  ASSUME NEW T, NEW seq \in Seq(T), NEW S
  PROVE  /\ Filtered(seq, S) \in Seq(T \cap S)
         /\ \A i \in DOMAIN seq : seq[i] \in S =>
              \E j \in DOMAIN Filtered(seq, S) : Filtered(seq, S)[j] = seq[i]
<1> DEFINE ss == [i \in DOMAIN seq |-> IF seq[i] \in S THEN <<seq[i]>> ELSE << >>]
<1>1. DOMAIN seq = 1..Len(seq) /\ Len(seq) \in Nat /\ \A i \in DOMAIN seq : seq[i] \in T
  OBVIOUS
<1>2. ss \in Seq(Seq(T \cap S)) /\ Len(ss) = Len(seq)
  <2>1. ASSUME NEW i \in DOMAIN seq
        PROVE  (IF seq[i] \in S THEN <<seq[i]>> ELSE << >>) \in Seq(T \cap S)
    <3>1. CASE seq[i] \in S
      <4>1. seq[i] \in T \cap S
        BY <1>1, <3>1
      <4>2. <<seq[i]>> \in Seq(T \cap S)
        BY <4>1
      <4> QED  BY <3>1, <4>2
    <3>2. CASE seq[i] \notin S
      BY <3>2
    <3> QED  BY <3>1, <3>2
  <2> QED  BY <1>1, <2>1
<1>3. Filtered(seq, S) = FlattenSeq(ss)
  BY DEF Filtered
<1>4. ASSUME NEW k \in DOMAIN seq, seq[k] \in S
      PROVE  LastIs(FlattenSeq(ss), {seq[k]}, seq[k])
  <2>1. ss[k] = <<seq[k]>> /\ k \in 1..Len(ss)
    BY <1>1, <1>2, <1>4
  <2>2. LastIs(ss[k], {seq[k]}, seq[k])
    BY <2>1 DEF LastIs
  <2>3. \A i \in 1..Len(ss) : i > k => Only(ss[i], {seq[k]}, seq[k])
    BY DEF Only
  <2> HIDE DEF ss
  <2> QED  BY <1>2, <2>1, <2>2, <2>3, LastOfFlattened
<1> HIDE DEF ss
<1>5. FlattenSeq(ss) \in Seq(T \cap S)
  BY <1>2, FlattenedType
<1> QED  BY <1>3, <1>4, <1>5 DEF LastIs

\* Nothing is left out of a sequence whose elements are all in the set.
LEMMA FilteredAll ==
  ASSUME NEW T, NEW seq \in Seq(T), NEW S, \A i \in DOMAIN seq : seq[i] \in S
  PROVE  Filtered(seq, S) = seq
<1> DEFINE ss == [i \in DOMAIN seq |-> IF seq[i] \in S THEN <<seq[i]>> ELSE << >>]
           n == Len(seq)
<1>1. DOMAIN seq = 1..n /\ n \in Nat /\ \A i \in DOMAIN seq : seq[i] \in T
  OBVIOUS
<1>2. ss \in Seq(Seq(T)) /\ Len(ss) = n /\ \A i \in 1..n : ss[i] = <<seq[i]>>
  BY <1>1
<1>3. Filtered(seq, S) = FlattenSeq(ss)
  BY DEF Filtered
<1>4. CASE seq = << >>
  <2>1. ss = << >>
    BY <1>4
  <2> QED  BY <1>3, <1>4, <2>1 DEF FlattenSeq
<1>5. CASE seq # << >>
  <2>1. ss # << >> /\ n >= 1
    BY <1>1, <1>2, <1>5
  <2> HIDE DEF ss
  <2>2. PICK f \in [1..Len(ss) -> Seq(T)] : Flattens(f, ss) /\ FlattenSeq(ss) = f[Len(ss)]
    BY <1>2, <2>1, Flattened
  <2> DEFINE A == {i \in 1..n : f[i] = SubSeq(seq, 1, i)}
  <2>3. 1 \in A
    <3>1. f[1] = <<seq[1]>> /\ 1 \in 1..n
      BY <1>2, <2>1, <2>2 DEF Flattens
    <3>2. SubSeq(seq, 1, 1) = SubSeq(seq, 1, 1 - 1) \o <<seq[1]>>
      BY <1>1, <3>1, SubSeqRecursiveSecond
    <3>3. SubSeq(seq, 1, 1 - 1) = << >> /\ seq[1] \in T
      BY <1>1, <3>1
    <3> QED  BY <3>1, <3>2, <3>3
  <2>4. ASSUME NEW i \in 1..(n - 1), i \in A PROVE i + 1 \in A
    <3>1. i + 1 \in 2..n /\ (i + 1) - 1 = i /\ i + 1 \in 1..n
      BY <1>1
    <3>2. f[i + 1] = f[i] \o ss[i + 1]
      BY <1>2, <2>2, <3>1 DEF Flattens
    <3>3. f[i + 1] = SubSeq(seq, 1, i) \o <<seq[i + 1]>>
      BY <1>2, <2>4, <3>1, <3>2
    <3>4. SubSeq(seq, 1, i) \o <<seq[i + 1]>> = SubSeq(seq, 1, i + 1)
      BY <1>1, <3>1
    <3> QED  BY <3>1, <3>3, <3>4
  <2> HIDE DEF A
  <2>5. 1..n \subseteq A
    BY <1>1, <2>1, <2>3, <2>4, UpTo
  <2>6. f[n] = SubSeq(seq, 1, n)
    BY <1>1, <2>1, <2>5 DEF A
  <2>7. SubSeq(seq, 1, n) = seq
    BY <1>1
  <2> QED  BY <1>2, <1>3, <2>2, <2>6, <2>7
<1> QED  BY <1>4, <1>5

\* The names that the paths of a tree are made of.
NamesOf(tree) == UNION {{p[i] : i \in DOMAIN p} : p \in DOMAIN tree}

\* They can be put in an order, which Transferred takes one of.
LEMMA NamesListed ==
  ASSUME NEW S, NEW tree, IsFiniteSet(DOMAIN tree), DOMAIN tree \subseteq Seq(S)
  PROVE  /\ SetToSeq(NamesOf(tree)) \in Seq(S)
         /\ \A p \in DOMAIN tree : \A i \in DOMAIN p :
              \E j \in DOMAIN SetToSeq(NamesOf(tree)) : SetToSeq(NamesOf(tree))[j] = p[i]
<1> DEFINE f == [p \in DOMAIN tree |-> {p[i] : i \in DOMAIN p}]
           N == NamesOf(tree)
<1>1. ASSUME NEW p \in DOMAIN tree PROVE IsFiniteSet({p[i] : i \in DOMAIN p})
  <2>1. p \in Seq(S)
    OBVIOUS
  <2>2. DOMAIN p = 1..Len(p) /\ Len(p) \in Nat /\ p = [i \in DOMAIN p |-> p[i]]
    BY <2>1
  <2>3. IsFiniteSet(DOMAIN p)
    BY <2>2, FS_Interval
  <2> QED  BY <2>2, <2>3, ImageFinite
<1>2. N = UNION {f[p] : p \in DOMAIN tree}
  BY DEF NamesOf
<1>3. IsFiniteSet({f[p] : p \in DOMAIN tree}) /\ \A T \in {f[p] : p \in DOMAIN tree} : IsFiniteSet(T)
  <2>1. DOMAIN f = DOMAIN tree /\ f = [p \in DOMAIN tree |-> f[p]]
        /\ \A p \in DOMAIN tree : IsFiniteSet(f[p])
    BY <1>1
  <2> HIDE DEF f
  <2> QED  BY <2>1, ImageFinite
<1>4. IsFiniteSet(N)
  <2> HIDE DEF f
  <2> QED  BY <1>2, <1>3, FS_UNION
<1>5. N \subseteq S /\ \A p \in DOMAIN tree : \A i \in DOMAIN p : p[i] \in N
  <2>1. ASSUME NEW p \in DOMAIN tree, NEW i \in DOMAIN p PROVE p[i] \in S
    <3>1. p \in Seq(S)
      OBVIOUS
    <3> QED  BY <3>1
  <2> QED  BY <2>1 DEF NamesOf
<1> HIDE DEF N
<1>6. SetToSeq(N) \in Seq(N) /\ \A x \in N : \E j \in DOMAIN SetToSeq(N) : SetToSeq(N)[j] = x
  BY <1>4, Enumerated
<1>7. SetToSeq(N) \in Seq(S)
  BY <1>5, <1>6, SeqMonotonic
<1>8. /\ SetToSeq(N) \in Seq(S)
      /\ \A p \in DOMAIN tree : \A i \in DOMAIN p :
           \E j \in DOMAIN SetToSeq(N) : SetToSeq(N)[j] = p[i]
  BY <1>5, <1>6, <1>7
<1> QED  BY <1>8 DEF N

LEMMA TransferredIs ==
  ASSUME NEW tree PROVE Transferred(tree) = Received(tree, SetToSeq(NamesOf(tree)))
  BY DEF Transferred, NamesOf

\* A name that a member is read back with is not empty.
LEMMA PairedText ==
  ASSUME NEW tree, NEW order \in Seq(STRING), NEW p \in Seq(STRING), p # << >>,
         Last(p) = "" => Is("dict", tree[Front(p)]), PairedName(tree, p, order) # << >>
  PROVE  Head(PairedName(tree, p, order)) \in STRING \ {""}
<1> DEFINE T == {name \in STRING : Append(Front(p), name) \in DOMAIN tree}
           members == Filtered(order, T)
           texts == STRING \ {""}
           names == Filtered(members, texts)
           i == CHOOSE i \in DOMAIN members : members[i] = Last(p)
<1>1. PairedName(tree, p, order) =
        IF ~Is("dict", tree[Front(p)]) THEN <<Last(p)>>
        ELSE IF i \in DOMAIN names THEN <<names[i]>> ELSE << >>
  BY DEF PairedName, Members, NamesWithText
<1>2. names \in Seq(texts)
  <2> HIDE DEF T, texts
  <2>1. members \in Seq(STRING \cap T)
    BY FilteredIs
  <2>2. names \in Seq((STRING \cap T) \cap texts)
    BY <2>1, FilteredIs
  <2>3. (STRING \cap T) \cap texts \subseteq texts
    OBVIOUS
  <2> HIDE DEF names
  <2> QED  BY <2>2, <2>3, SeqMonotonic
<1> HIDE DEF names, i
<1>3. CASE ~Is("dict", tree[Front(p)])
  <2>1. Last(p) \in texts
    <3>1. Last(p) \in STRING
      BY Ends
    <3> QED  BY <1>3, <3>1
  <2>2. Head(<<Last(p)>>) = Last(p)
    BY HeadOfOne
  <2> QED  BY <1>1, <1>3, <2>1, <2>2, Zenon
<1>4. CASE Is("dict", tree[Front(p)]) /\ i \in DOMAIN names
  <2> HIDE DEF texts
  <2>1. names[i] \in texts
    <3>1. DOMAIN names = 1..Len(names)
      BY <1>2, LenProperties
    <3> QED  BY <1>2, <1>4, <3>1, ElementOfSeq
  <2>2. Head(<<names[i]>>) = names[i]
    BY HeadOfOne
  <2> QED  BY <1>1, <1>4, <2>1, <2>2, Zenon DEF texts
<1> QED  BY <1>1, <1>3, <1>4

\* A struct with no empty name among its members pairs each with its own.
LEMMA PairedSelf ==
  ASSUME NEW tree, NEW order \in Path, NEW p \in Path, p \in DOMAIN tree, p # << >>,
         \E j \in DOMAIN order : order[j] = Last(p)
  PROVE  PairedName(tree, p, order) = <<Last(p)>>
<1> DEFINE T == {name \in STRING : Append(Front(p), name) \in DOMAIN tree}
           members == Filtered(order, T)
           texts == STRING \ {""}
           names == Filtered(members, texts)
           i == CHOOSE i \in DOMAIN members : members[i] = Last(p)
<1>1. PairedName(tree, p, order) =
        IF ~Is("dict", tree[Front(p)]) THEN <<Last(p)>>
        ELSE IF i \in DOMAIN names THEN <<names[i]>> ELSE << >>
  BY DEF PairedName, Members, NamesWithText
<1>2. order \in Seq(texts) /\ p \in Seq(texts)
  BY DEF Path
<1>3. Last(p) \in texts /\ Append(Front(p), Last(p)) = p
  <2> HIDE DEF texts
  <2> QED  BY <1>2, Ends
<1>4. Last(p) \in T
  BY <1>3
<1>5. members \in Seq(texts \cap T) /\ \E j \in DOMAIN members : members[j] = Last(p)
  <2> HIDE DEF T, texts
  <2>1. PICK j \in DOMAIN order : order[j] = Last(p)
    OBVIOUS
  <2>2. /\ members \in Seq(texts \cap T)
        /\ \A k \in DOMAIN order : order[k] \in T => \E m \in DOMAIN members : members[m] = order[k]
    BY <1>2, FilteredIs
  <2> HIDE DEF members
  <2> QED  BY <1>4, <2>1, <2>2
<1>6. names = members
  <2> HIDE DEF members, T, texts
  <2>1. \A j \in DOMAIN members : members[j] \in texts
    BY <1>5
  <2> QED  BY <1>5, <2>1, FilteredAll
<1>7. i \in DOMAIN members /\ members[i] = Last(p)
  <2> HIDE DEF members
  <2> QED  BY <1>5
<1> HIDE DEF i, members, names
<1> QED  BY <1>1, <1>6, <1>7

\* A settled tree is accepted and received unchanged.
LEMMA SettledStays ==
  ASSUME NEW tree, Settled(tree)
  PROVE  Accepted(tree) /\ Transferred(tree) = tree
<1> DEFINE order == SetToSeq(NamesOf(tree))
           name == [p \in DOMAIN tree \ {<< >>} |-> PairedName(tree, p, order)]
           kept == {p \in DOMAIN tree : \A i \in DOMAIN p : name[SubSeq(p, 1, i)] # << >>}
           paired(p) == [i \in DOMAIN p |-> Head(name[SubSeq(p, 1, i)])]
           sent(q) == CHOOSE p \in kept : paired(p) = q
<1>1. Transferred(tree) = [q \in {paired(p) : p \in kept} |-> Once(tree[sent(q)])]
  BY TransferredIs DEF Received, Once
<1>2. DOMAIN tree \subseteq Path
  BY DEF Settled
<1>3. order \in Path /\ \A p \in DOMAIN tree : \A i \in DOMAIN p : \E j \in DOMAIN order : order[j] = p[i]
  <2> DEFINE S == STRING \ {""}
  <2>1. DOMAIN tree \subseteq Seq(S) /\ Path = Seq(S) /\ IsFiniteSet(DOMAIN tree)
    BY DEF Settled, Path
  <2> HIDE DEF S
  <2> QED  BY <2>1, NamesListed
<1> HIDE DEF order
<1>4. ASSUME NEW p \in DOMAIN tree, NEW i \in DOMAIN p
      PROVE  name[SubSeq(p, 1, i)] = <<p[i]>>
  <2> DEFINE q == SubSeq(p, 1, i)
             S == STRING \ {""}
  <2>1. Path = Seq(S)
    BY DEF Path
  <2> HIDE DEF S
  <2>2. p \in Seq(S) /\ DOMAIN p = 1..Len(p)
    BY <1>2, <2>1, LenProperties
  <2>3. q \in Seq(S) /\ q \in Prefixes(p) /\ q # << >> /\ Last(q) = p[i]
    BY <2>2, Begins
  <2> HIDE DEF q
  <2>4. q \in DOMAIN tree
    <3>1. q \in Path /\ IsPrefix(q, p)
      BY <1>2, <2>3, PathsConcatenate
    <3>2. p = q \o SubSeq(p, Len(q) + 1, Len(p)) /\ SubSeq(p, Len(q) + 1, Len(p)) \in Path
      BY <1>2, <3>1, PathsConcatenate
    <3> QED  BY <3>1, <3>2 DEF Settled
  <2>5. PairedName(tree, q, order) = <<Last(q)>>
    <3>1. \E j \in DOMAIN order : order[j] = Last(q)
      BY <1>3, <2>3
    <3> QED  BY <1>2, <1>3, <2>3, <2>4, <3>1, PairedSelf
  <2>6. name[q] = <<p[i]>>
    BY <2>3, <2>4, <2>5
  <2> QED  BY <2>6 DEF q
<1> HIDE DEF name
<1>5. kept = DOMAIN tree
  BY <1>4
<1>6. ASSUME NEW p \in DOMAIN tree PROVE paired(p) = p
  <2>1. \A i \in DOMAIN p : Head(name[SubSeq(p, 1, i)]) = p[i]
    BY <1>4, HeadOfOne
  <2>2. p = [i \in DOMAIN p |-> p[i]]
    <3> DEFINE S == STRING \ {""}
    <3>1. p \in Seq(S)
      BY <1>2 DEF Path
    <3> HIDE DEF S
    <3> QED  BY <3>1, LenProperties
  <2> QED  BY <2>1, <2>2
<1> HIDE DEF kept, paired
<1>7. {paired(p) : p \in kept} = DOMAIN tree
  BY <1>5, <1>6
<1>8. ASSUME NEW q \in DOMAIN tree PROVE sent(q) = q
  BY <1>5, <1>6
<1> HIDE DEF sent
<1>9. Transferred(tree) = tree
  BY <1>1, <1>7, <1>8 DEF Settled
<1> QED  BY <1>9 DEF Accepted, Settled

\* A value that is accepted is settled once it has been received.
LEMMA ReceivedSettled ==
  ASSUME NEW tree, IsValue(tree), Accepted(tree)
  PROVE  Settled(Transferred(tree)) /\ << >> \in DOMAIN Transferred(tree)
<1> DEFINE order == SetToSeq(NamesOf(tree))
           name == [p \in DOMAIN tree \ {<< >>} |-> PairedName(tree, p, order)]
           kept == {p \in DOMAIN tree : \A i \in DOMAIN p : name[SubSeq(p, 1, i)] # << >>}
           paired(p) == [i \in DOMAIN p |-> Head(name[SubSeq(p, 1, i)])]
           sent(q) == CHOOSE p \in kept : paired(p) = q
           t == Transferred(tree)
<1>1. t = [q \in {paired(p) : p \in kept} |-> Once(tree[sent(q)])]
  BY TransferredIs DEF Received, Once
<1>2. /\ IsFiniteSet(DOMAIN tree) /\ << >> \in DOMAIN tree /\ DOMAIN tree \subseteq Seq(STRING)
      /\ \A p \in DOMAIN tree : Prefixes(p) \subseteq DOMAIN tree
      /\ \A p \in DOMAIN tree : IsLabel(tree[p]) /\ Schema(Element(tree[p]))
      /\ \A p \in DOMAIN tree \ {<< >>} : Last(p) = "" => Is("dict", tree[Front(p)])
  BY DEF IsValue, IsTree, Accepted
<1>3. order \in Seq(STRING)
  BY <1>2, NamesListed
<1> HIDE DEF t, order
<1>4. ASSUME NEW p \in DOMAIN tree, NEW i \in DOMAIN p
      PROVE  /\ SubSeq(p, 1, i) \in DOMAIN tree \ {<< >>}
             /\ name[SubSeq(p, 1, i)] # << >> => Head(name[SubSeq(p, 1, i)]) \in STRING \ {""}
  <2> DEFINE q == SubSeq(p, 1, i)
  <2>1. p \in Seq(STRING) /\ DOMAIN p = 1..Len(p)
    BY <1>2, LenProperties
  <2>2. q \in Seq(STRING) /\ q \in Prefixes(p) /\ q # << >>
    BY <2>1, Begins
  <2> HIDE DEF q
  <2>3. q \in DOMAIN tree
    BY <1>2, <2>2
  <2>4. name[q] = PairedName(tree, q, order)
    BY <2>2, <2>3
  <2>5. name[q] # << >> => Head(name[q]) \in STRING \ {""}
    BY <1>2, <1>3, <2>2, <2>3, <2>4, PairedText
  <2>6. q \in DOMAIN tree \ {<< >>} /\ (name[q] # << >> => Head(name[q]) \in STRING \ {""})
    BY <2>2, <2>3, <2>5
  <2> QED  BY <2>6 DEF q
<1> HIDE DEF name
<1>5. ASSUME NEW p \in kept
      PROVE  /\ paired(p) \in Path /\ DOMAIN paired(p) = DOMAIN p
             /\ DOMAIN p = 1..Len(p) /\ Len(p) \in Nat /\ Len(paired(p)) = Len(p)
  <2> DEFINE S == STRING \ {""}
             e(i) == Head(name[SubSeq(p, 1, i)])
  <2>1. p \in DOMAIN tree /\ p \in Seq(STRING) /\ DOMAIN p = 1..Len(p) /\ Len(p) \in Nat
    BY <1>2, LenProperties
  <2>2. \A i \in DOMAIN p : e(i) \in S
    BY <1>4, <2>1
  <2>3. paired(p) = [i \in 1..Len(p) |-> e(i)]
    BY <2>1
  <2>4. Path = Seq(S)
    BY DEF Path
  <2> HIDE DEF S, e, paired
  <2> QED  BY <2>1, <2>2, <2>3, <2>4
<1>6. ASSUME NEW p \in kept, NEW n \in 0..Len(p)
      PROVE  /\ SubSeq(p, 1, n) \in kept
             /\ paired(SubSeq(p, 1, n)) = SubSeq(paired(p), 1, n)
  <2>1. p \in DOMAIN tree /\ p \in Seq(STRING) /\ DOMAIN p = 1..Len(p) /\ Len(p) \in Nat
    BY <1>2, LenProperties
  <2> DEFINE q == SubSeq(p, 1, n)
  <2>2. q \in Prefixes(p)
    BY DEF Prefixes
  <2>3. q \in DOMAIN tree /\ q \in Seq(STRING) /\ Len(q) = n /\ DOMAIN q = 1..n
    <3>1. q \in DOMAIN tree /\ q \in Seq(STRING)
      BY <1>2, <2>1, <2>2
    <3>2. Len(q) = n
      BY <2>1
    <3> HIDE DEF q
    <3> QED  BY <3>1, <3>2, LenProperties
  <2>4. ASSUME NEW i \in 1..n PROVE SubSeq(q, 1, i) = SubSeq(p, 1, i) /\ i \in DOMAIN p
    <3>1. n \in 1..Len(p) /\ i \in DOMAIN p
      BY <2>1
    <3> QED  BY <2>1, <3>1, Begins
  <2> HIDE DEF q
  <2>5. q \in kept
    BY <2>3, <2>4
  <2>6. paired(q) = [i \in 1..n |-> Head(name[SubSeq(p, 1, i)])]
    BY <2>3, <2>4
  <2>7. \A i \in 1..n : paired(p)[i] = Head(name[SubSeq(p, 1, i)])
    BY <2>1
  <2>8. paired(p) \in Path /\ Len(paired(p)) = Len(p)
    BY <1>5
  <2>9. SubSeq(paired(p), 1, n) = [i \in 1..n |-> paired(p)[i]]
    <3> DEFINE S == STRING \ {""}
               r == paired(p)
    <3>1. r \in Seq(S) /\ Len(r) = Len(p)
      BY <2>8 DEF Path
    <3> HIDE DEF S, r
    <3>2. SubSeq(r, 1, n) = [i \in 1..n |-> r[i]]
      BY <2>1, <3>1
    <3> QED  BY <3>2 DEF r
  <2>10. paired(q) = SubSeq(paired(p), 1, n)
    <3> HIDE DEF paired
    <3> QED  BY <2>6, <2>7, <2>9
  <2> QED  BY <2>5, <2>10 DEF q
<1>7. << >> \in kept /\ paired(<< >>) = << >>
  <2> DEFINE e == << >>
  <2>1. DOMAIN e = {} /\ e \in DOMAIN tree
    <3>1. e \in Seq(STRING) /\ Len(e) = 0
      BY EmptySeq
    <3>2. e \in DOMAIN tree
      BY <1>2
    <3> HIDE DEF e
    <3>3. DOMAIN e = 1..0
      BY <3>1, LenProperties
    <3> QED  BY <3>2, <3>3
  <2>2. e \in kept
    <3> HIDE DEF e
    <3> QED  BY <2>1
  <2>3. paired(e) = [i \in {} |-> Head(name[SubSeq(e, 1, i)])]
    BY <2>1
  <2>4. paired(e) = << >>
    <3>1. Len(paired(e)) = 0 /\ paired(e) \in Path
      BY <1>5, <2>2
    <3>2. << >> \in Path /\ \A p \in Path : Len(p) = 0 => p = << >>
      <4> DEFINE S == STRING \ {""}
      <4>1. Path = Seq(S)
        BY DEF Path
      <4> HIDE DEF S
      <4> QED  BY <4>1, EmptySeq
    <3> HIDE DEF paired, e
    <3> QED  BY <3>1, <3>2
  <2> HIDE DEF kept, paired
  <2> QED  BY <2>2, <2>4
<1>8. IsFiniteSet({paired(p) : p \in kept})
  <2> DEFINE f == [p \in kept |-> paired(p)]
  <2>1. IsFiniteSet(kept)
    BY <1>2, FS_Subset
  <2>2. DOMAIN f = kept /\ f = [p \in kept |-> f[p]] /\ {paired(p) : p \in kept} = {f[p] : p \in kept}
    OBVIOUS
  <2> HIDE DEF f, kept, paired
  <2> QED  BY <2>1, <2>2, ImageFinite
<1>9. ASSUME NEW q \in {paired(p) : p \in kept}
      PROVE  Schema(Element(t[q])) /\ Once(t[q]) = t[q]
  <2>1. sent(q) \in kept
    <3> HIDE DEF kept, paired
    <3> QED  OBVIOUS
  <2> DEFINE v == tree[sent(q)]
  <2>2. IsLabel(v) /\ Schema(Element(v))
    BY <1>2, <2>1
  <2>3. t[q] = Once(v)
    BY <1>1
  <2> HIDE DEF v
  <2> QED  BY <2>2, <2>3, LabelSettles
<1>10. ASSUME NEW a \in Path, NEW b \in Path, a \o b \in {paired(p) : p \in kept}
       PROVE  a \in {paired(p) : p \in kept}
  <2>1. PICK p \in kept : a \o b = paired(p)
    BY <1>10
  <2> DEFINE n == Len(a)
             S == STRING \ {""}
  <2>2. Len(paired(p)) = Len(p) /\ Len(p) \in Nat
    BY <1>5
  <2> HIDE DEF paired, kept
  <2>3. a \in Seq(S) /\ b \in Seq(S)
    BY DEF Path
  <2> HIDE DEF S
  <2>4. Len(a \o b) = Len(a) + Len(b) /\ Len(a) \in Nat /\ Len(b) \in Nat
    BY <2>3, ConcatProperties, LenProperties
  <2>5. SubSeq(a \o b, 1, n) = a
    BY <2>3, PrefixOfConcat
  <2>6. n \in 0..Len(p)
    BY <2>1, <2>2, <2>4
  <2>7. SubSeq(p, 1, n) \in kept /\ paired(SubSeq(p, 1, n)) = a
    BY <1>6, <2>1, <2>5, <2>6
  <2> QED  BY <2>7
<1>11. {paired(p) : p \in kept} \subseteq Path
  BY <1>5
<1>12. t = [q \in DOMAIN t |-> t[q]] /\ DOMAIN t = {paired(p) : p \in kept}
  <2> HIDE DEF paired, kept, sent
  <2> QED  BY <1>1
<1>13. << >> \in DOMAIN t
  <2> HIDE DEF paired, kept, sent
  <2> QED  BY <1>7, <1>12
<1>14. Settled(t)
  <2> HIDE DEF paired, kept, sent
  <2> QED  BY <1>8, <1>9, <1>10, <1>11, <1>12 DEF Settled
<1> QED  BY <1>13, <1>14 DEF t

-----------------------------------------------------------------------------
(* Updates                                                                  *)

\* An update that can be sent as it is.
Held(u) ==
  /\ DOMAIN u = {"key", "value", "live"} /\ u.key \in Keys /\ u.live \in BOOLEAN
  /\ Settled(u.value) /\ << >> \in DOMAIN u.value

\* An update in a queue: its value, if it is live, is a dictionary in the tree.
Queued(u, tree) == Held(u) /\ (u.live => u.key \in DOMAIN tree)

IsQueue(q, tree) == \E L : q \in Seq(L) /\ \A u \in L : Queued(u, tree)

LEMMA KeysArePaths == Keys \subseteq Path
  BY KeysAssumption DEF Path

LEMMA UpdateIs ==
  ASSUME NEW k, NEW v, NEW l
  PROVE  /\ Update(k, v, l).key = k /\ Update(k, v, l).value = v /\ Update(k, v, l).live = l
         /\ DOMAIN Update(k, v, l) = {"key", "value", "live"}
  BY DEF Update

LEMMA LiveCleared ==
  ASSUME NEW u, Held(u)
  PROVE  Held([u EXCEPT !.live = FALSE]) /\ ~[u EXCEPT !.live = FALSE].live
<1> DEFINE w == [u EXCEPT !.live = FALSE]
<1>1. DOMAIN u = {"key", "value", "live"}
  BY DEF Held
<1>2. /\ w.key = u.key /\ w.value = u.value /\ DOMAIN w = {"key", "value", "live"}
      /\ w.live \in BOOLEAN /\ ~w.live
  BY <1>1
<1> HIDE DEF w
<1>3. Held(w) /\ ~w.live
  BY <1>2 DEF Held
<1> QED  BY <1>3 DEF w

LEMMA ValueChanged ==
  ASSUME NEW u, Held(u), NEW v, Settled(v), << >> \in DOMAIN v
  PROVE  /\ Held([u EXCEPT !.value = v])
         /\ [u EXCEPT !.value = v].key = u.key /\ [u EXCEPT !.value = v].live = u.live
<1> DEFINE w == [u EXCEPT !.value = v]
<1>1. DOMAIN u = {"key", "value", "live"}
  BY DEF Held
<1>2. /\ w.key = u.key /\ w.value = v /\ DOMAIN w = {"key", "value", "live"} /\ w.live = u.live
  BY <1>1
<1> HIDE DEF w
<1>3. Held(w)
  BY <1>2 DEF Held
<1> QED  BY <1>2, <1>3 DEF w

\* What a queue of updates can be made of.
LEMMA QueueEmpty == ASSUME NEW tree PROVE IsQueue(<< >>, tree)
<1>1. << >> \in Seq({}) /\ \A u \in {} : Queued(u, tree)
  BY EmptySeq
<1> DEFINE q == << >>
<1> HIDE DEF q
<1>2. q \in Seq({}) => IsQueue(q, tree)
  BY <1>1 DEF IsQueue
<1> QED  BY <1>1, <1>2 DEF q

LEMMA QueueConcat ==
  ASSUME NEW tree, NEW p, NEW q, IsQueue(p, tree), IsQueue(q, tree)
  PROVE  IsQueue(p \o q, tree)
<1>1. PICK L : p \in Seq(L) /\ \A u \in L : Queued(u, tree)
  BY DEF IsQueue
<1>2. PICK M : q \in Seq(M) /\ \A u \in M : Queued(u, tree)
  BY DEF IsQueue
<1> DEFINE N == L \cup M
<1>3. p \in Seq(N) /\ q \in Seq(N)
  BY <1>1, <1>2, SeqMonotonic
<1>4. \A u \in N : Queued(u, tree)
  BY <1>1, <1>2
<1> HIDE DEF N
<1>5. p \o q \in Seq(N)
  BY <1>3, ConcatProperties
<1> QED  BY <1>4, <1>5 DEF IsQueue

LEMMA QueueOf ==
  ASSUME NEW tree, NEW n \in Nat, NEW f, f = [i \in 1..n |-> f[i]], \A i \in 1..n : Queued(f[i], tree)
  PROVE  IsQueue(f, tree)
<1> DEFINE L == {f[i] : i \in 1..n}
<1>1. \A u \in L : Queued(u, tree)
  OBVIOUS
<1>2. \A i \in 1..n : f[i] \in L
  OBVIOUS
<1> HIDE DEF L
<1>3. f \in [1..n -> L]
  BY <1>2
<1>4. f \in Seq(L)
  BY <1>3
<1> QED  BY <1>1, <1>4 DEF IsQueue

\* What is taken out of a queue of updates.
LEMMA QueueElements ==
  ASSUME NEW tree, NEW q, IsQueue(q, tree)
  PROVE  /\ Len(q) \in Nat /\ DOMAIN q = 1..Len(q) /\ q = [i \in 1..Len(q) |-> q[i]]
         /\ \A i \in DOMAIN q : Queued(q[i], tree)
         /\ q # << >> => IsQueue(Tail(q), tree) /\ Queued(Head(q), tree)
<1>1. PICK L : q \in Seq(L) /\ \A u \in L : Queued(u, tree)
  BY DEF IsQueue
<1>2. Len(q) \in Nat /\ DOMAIN q = 1..Len(q) /\ q \in [1..Len(q) -> L]
  BY <1>1, LenProperties
<1>3. q # << >> => Tail(q) \in Seq(L) /\ Head(q) \in L
  BY <1>1, HeadTailProperties
<1> QED  BY <1>1, <1>2, <1>3 DEF IsQueue

\* A queued update still is one after the tree has been changed at a key, be it
\* at, above, below or beside its own.
LEMMA RefreshedQueued ==
  ASSUME NEW old, NEW new, Settled(new), NEW key \in Path,
         \A q \in DOMAIN old : ~IsPrefix(key, q) => q \in DOMAIN new,
         NEW u, Queued(u, old)
  PROVE  Queued(Refreshed(u, key, new), new)
<1>1. /\ Held(u) /\ u.key \in Keys /\ u.live \in BOOLEAN
      /\ Settled(u.value) /\ << >> \in DOMAIN u.value /\ (u.live => u.key \in DOMAIN old)
  BY DEF Queued, Held
<1>2. u.key \in Path
  BY <1>1, KeysArePaths
<1>3. CASE ~u.live
  BY <1>1, <1>3 DEF Refreshed, Queued
<1>4. CASE u.live /\ IsPrefix(key, u.key)
  <2>1. Refreshed(u, key, new) = [u EXCEPT !.live = FALSE]
    BY <1>4 DEF Refreshed
  <2> QED  BY <1>1, <2>1, LiveCleared DEF Queued
<1>5. CASE u.live /\ ~IsPrefix(key, u.key) /\ IsPrefix(u.key, key)
  <2>1. Refreshed(u, key, new) = [u EXCEPT !.value = SubTree(new, u.key)]
    BY <1>5 DEF Refreshed
  <2>2. u.key \in DOMAIN new
    BY <1>1, <1>5
  <2>3. Settled(SubTree(new, u.key)) /\ << >> \in DOMAIN SubTree(new, u.key)
    BY <1>2, <2>2, SubTreeSettled
  <2> QED  BY <1>1, <2>1, <2>2, <2>3, ValueChanged DEF Queued
<1>6. CASE u.live /\ ~IsPrefix(key, u.key) /\ ~IsPrefix(u.key, key)
  BY <1>1, <1>6 DEF Refreshed, Queued
<1> QED  BY <1>3, <1>4, <1>5, <1>6

LEMMA UpdateQueued ==
  ASSUME NEW tree, NEW k \in Keys, NEW v, Settled(v), << >> \in DOMAIN v,
         NEW l \in BOOLEAN, l => k \in DOMAIN tree
  PROVE  Queued(Update(k, v, l), tree)
<1> DEFINE u == Update(k, v, l)
<1>1. u.key = k /\ u.value = v /\ u.live = l /\ DOMAIN u = {"key", "value", "live"}
  BY UpdateIs
<1> HIDE DEF u
<1>2. Queued(u, tree)
  BY <1>1 DEF Queued, Held
<1> QED  BY <1>2 DEF u

\* The queue that on_param_update leaves.
NewQueue(q, ks, ls, key, value, live, tree) ==
  [i \in DOMAIN q |-> Refreshed(q[i], key, tree)]
    \o [i \in DOMAIN ks |-> IF IsPrefix(ks[i], key) THEN Update(key, value, live)
                            ELSE Update(ks[i], EmptyTree, FALSE)]
    \o [i \in DOMAIN ls |->
          Update(ls[i], SubTree(value, Below(key, ls[i])),
                 live /\ IsDictValue(SubTree(value, Below(key, ls[i]))))]

\* What on_param_update queues can be sent, whatever the order of the keys is: the
\* value itself, an empty dictionary, or a part of the value.
LEMMA NoticesQueued ==
  ASSUME NEW old, NEW new, Settled(new), NEW key \in Keys,
         \A q \in DOMAIN old : ~IsPrefix(key, q) => q \in DOMAIN new,
         NEW value, Settled(value), << >> \in DOMAIN value, NEW live \in BOOLEAN,
         live => \A p \in DOMAIN value : key \o p \in DOMAIN new,
         NEW q, IsQueue(q, old), NEW ks \in Seq(Keys), NEW ls \in Seq(Keys),
         \A i \in DOMAIN ls : IsPrefix(key, ls[i]) /\ Below(key, ls[i]) \in DOMAIN value
  PROVE  IsQueue(NewQueue(q, ks, ls, key, value, live, new), new)
<1> DEFINE a == [i \in DOMAIN q |-> Refreshed(q[i], key, new)]
           b == [i \in DOMAIN ks |-> IF IsPrefix(ks[i], key) THEN Update(key, value, live)
                                     ELSE Update(ks[i], EmptyTree, FALSE)]
           c == [i \in DOMAIN ls |->
                   Update(ls[i], SubTree(value, Below(key, ls[i])),
                          live /\ IsDictValue(SubTree(value, Below(key, ls[i]))))]
<1>1. /\ Len(q) \in Nat /\ DOMAIN q = 1..Len(q)
      /\ Len(ks) \in Nat /\ DOMAIN ks = 1..Len(ks) /\ \A i \in DOMAIN ks : ks[i] \in Keys
      /\ Len(ls) \in Nat /\ DOMAIN ls = 1..Len(ls) /\ \A i \in DOMAIN ls : ls[i] \in Keys
  BY QueueElements, LenProperties, ElementOfSeq
<1>2. key \in Path
  BY KeysArePaths
<1>3. IsQueue(a, new)
  <2>1. \A i \in 1..Len(q) : Queued(a[i], new)
    BY <1>1, <1>2, QueueElements, RefreshedQueued
  <2>2. a = [i \in 1..Len(q) |-> a[i]]
    BY <1>1
  <2> HIDE DEF a
  <2> QED  BY <1>1, <2>1, <2>2, QueueOf
<1>4. IsQueue(b, new)
  <2>1. ASSUME NEW i \in 1..Len(ks) PROVE Queued(b[i], new)
    <3>1. << >> \in DOMAIN value /\ key \o << >> = key
      BY <1>2, PathsConcatenate
    <3>2. live => key \in DOMAIN new
      BY <3>1
    <3>3. Queued(Update(key, value, live), new)
      BY <3>2, UpdateQueued
    <3>4. Queued(Update(ks[i], EmptyTree, FALSE), new)
      BY <1>1, EmptySettled, UpdateQueued
    <3> QED  BY <1>1, <3>3, <3>4
  <2>2. b = [i \in 1..Len(ks) |-> b[i]]
    BY <1>1
  <2> HIDE DEF b
  <2> QED  BY <1>1, <2>1, <2>2, QueueOf
<1>5. IsQueue(c, new)
  <2>1. ASSUME NEW i \in 1..Len(ls) PROVE Queued(c[i], new)
    <3> DEFINE k == ls[i]
               part == SubTree(value, Below(key, k))
               l == live /\ IsDictValue(part)
    <3>1. c[i] = Update(k, part, l)
      BY <1>1
    <3>2. k \in Keys /\ IsPrefix(key, k) /\ Below(key, k) \in DOMAIN value /\ k \in Path
      BY <1>1, KeysArePaths
    <3>3. Below(key, k) \in Path /\ k = key \o Below(key, k)
      BY <1>2, <3>2, PathsConcatenate DEF Below
    <3>4. Settled(part) /\ << >> \in DOMAIN part
      BY <3>2, <3>3, SubTreeSettled
    <3>5. l \in BOOLEAN
      BY Zenon DEF IsDictValue
    <3>6. l => k \in DOMAIN new
      BY <3>2, <3>3
    <3> HIDE DEF k, part, l, c
    <3> QED  BY <3>1, <3>2, <3>4, <3>5, <3>6, UpdateQueued
  <2>2. c = [i \in 1..Len(ls) |-> c[i]]
    BY <1>1
  <2> HIDE DEF c
  <2> QED  BY <1>1, <2>1, <2>2, QueueOf
<1> HIDE DEF a, b, c
<1>6. IsQueue((a \o b) \o c, new)
  BY <1>3, <1>4, <1>5, QueueConcat
<1> QED  BY <1>6 DEF a, b, c, NewQueue

-----------------------------------------------------------------------------
(* The invariant                                                            *)

\* The master's parameters.
ParamsInv == Settled(params) /\ << >> \in DOMAIN params /\ IsDictValue(params)

\* The subscribers, of finitely many keys.
SubscribersInv ==
  subscribers \in [Keys -> SUBSET Nodes] /\ IsFiniteSet({k \in Keys : subscribers[k] # {}})

QueueInv == DOMAIN queue = Nodes /\ \A n \in Nodes : IsQueue(queue[n], params)

CallingInv ==
  /\ DOMAIN calling = Nodes
  /\ \A n \in Nodes : calling[n] # << >> => \E u : Held(u) /\ calling[n] = <<u>>

\* What the proofs need of a task: a key, and for a write one of the values.
IsTask(r) ==
  \/ r = Idle
  \/ /\ {"at", "op", "key"} \subseteq DOMAIN r /\ r.at \in {"sent", "answered"} /\ r.key \in Keys
     /\ r.op \in {"subscribe", "set", "delete"}
     /\ r.op = "set" => "value" \in DOMAIN r /\ r.value \in Values

TaskInv == DOMAIN task = Tasks /\ \A t \in Tasks : IsTask(task[t])

Inv == ParamsInv /\ SubscribersInv /\ QueueInv /\ CallingInv /\ TaskInv

\* on_param_update keeps the queues, if the tree has been changed at the key only.
LEMMA NoticesKeep ==
  ASSUME QueueInv, SubscribersInv, Settled(params'), NEW key \in Keys,
         \A q \in DOMAIN params : ~IsPrefix(key, q) => q \in DOMAIN params',
         NEW value, Settled(value), << >> \in DOMAIN value, NEW live \in BOOLEAN,
         live => \A p \in DOMAIN value : key \o p \in DOMAIN params',
         NEW caller, OnParamUpdate(key, value, caller, live)
  PROVE  QueueInv'
<1>1. PICK order \in SetToSeqs({k \in Keys : subscribers[k] # {}}) :
        LET first(n) == Filtered(order, IF n = caller THEN {} ELSE Notices(n, key, value))
            second(n) == Filtered(order, NestedNotices(n, key, value))
            notice(k) == IF IsPrefix(k, key) THEN Update(key, value, live)
                         ELSE Update(k, EmptyTree, FALSE)
            nested(k) == LET part == SubTree(value, Below(key, k))
                         IN Update(k, part, live /\ IsDictValue(part))
        IN queue' = [n \in Nodes |->
             [i \in DOMAIN queue[n] |-> Refreshed(queue[n][i], key, params')]
               \o [i \in DOMAIN first(n) |-> notice(first(n)[i])]
               \o [i \in DOMAIN second(n) |-> nested(second(n)[i])]]
  BY DEF OnParamUpdate
<1> DEFINE first(n) == Filtered(order, IF n = caller THEN {} ELSE Notices(n, key, value))
           second(n) == Filtered(order, NestedNotices(n, key, value))
<1>2. order \in Seq(Keys)
  <2> DEFINE S == {k \in Keys : subscribers[k] # {}}
  <2>1. IsFiniteSet(S) /\ S \subseteq Keys
    BY DEF SubscribersInv
  <2> HIDE DEF S
  <2>2. order \in Seq(S)
    BY <2>1, Ordered DEF S
  <2> QED  BY <2>1, <2>2, SeqMonotonic
<1>3. ASSUME NEW n \in Nodes PROVE IsQueue(queue'[n], params')
  <2> DEFINE q == queue[n]
             ks == first(n)
             ls == second(n)
             A == IF n = caller THEN {} ELSE Notices(n, key, value)
             B == NestedNotices(n, key, value)
  <2>1. queue'[n] = NewQueue(q, ks, ls, key, value, live, params')
    BY <1>1 DEF NewQueue
  <2>2. ks \in Seq(Keys \cap A) /\ ls \in Seq(Keys \cap B)
    <3> HIDE DEF A, B
    <3> QED  BY <1>2, FilteredIs DEF A, B
  <2> HIDE DEF ks, ls
  <2>3. ks \in Seq(Keys) /\ ls \in Seq(Keys)
    <3> HIDE DEF A, B
    <3>1. Keys \cap A \subseteq Keys /\ Keys \cap B \subseteq Keys
      OBVIOUS
    <3> QED  BY <2>2, <3>1, SeqMonotonic
  <2>4. ASSUME NEW i \in DOMAIN ls
        PROVE  IsPrefix(key, ls[i]) /\ Below(key, ls[i]) \in DOMAIN value
    <3>1. ls[i] \in B
      <4> HIDE DEF A, B
      <4>1. DOMAIN ls = 1..Len(ls)
        BY <2>2, LenProperties
      <4> QED  BY <2>2, <2>4, <4>1, ElementOfSeq
    <3> QED  BY <3>1 DEF NestedNotices, IsStrictPrefix
  <2>5. IsQueue(q, params)
    BY DEF QueueInv
  <2> HIDE DEF q, A, B
  <2>6. IsQueue(NewQueue(q, ks, ls, key, value, live, params'), params')
    BY <2>3, <2>4, <2>5, NoticesQueued
  <2> QED  BY <2>1, <2>6
<1>4. DOMAIN queue' = Nodes
  BY <1>1
<1> QED  BY <1>3, <1>4 DEF QueueInv

LEMMA KeyResolved == ASSUME NEW t \in Tasks, NEW name \in Names PROVE Resolve(Owner[t], name) \in Keys
  BY OwnerAssumption DEF Keys

LEMMA InitInv == Init => Inv
<1> SUFFICES ASSUME Init PROVE Inv
  OBVIOUS
<1>1. ParamsInv
  <2>1. IsValue(params) /\ IsDictValue(params) /\ Accepted(params) /\ Transferred(params) = params
    BY InitTreesAssumption DEF Init
  <2> QED  BY <2>1, ReceivedSettled DEF ParamsInv
<1>2. SubscribersInv
  <2>1. {k \in Keys : subscribers[k] # {}} = {}
    BY DEF Init
  <2> QED  BY <2>1, FS_EmptySet DEF Init, SubscribersInv
<1>3. QueueInv
  BY QueueEmpty DEF Init, QueueInv
<1>4. CallingInv
  BY DEF Init, CallingInv
<1>5. TaskInv
  BY DEF Init, TaskInv, IsTask
<1> QED  BY <1>1, <1>2, <1>3, <1>4, <1>5 DEF Inv

LEMMA StepInv == Inv /\ [Next]_vars => Inv'
<1> SUFFICES ASSUME Inv, [Next]_vars PROVE Inv'
  OBVIOUS
<1> USE DEF Inv
<1>1. CASE UNCHANGED vars
  BY <1>1 DEF vars, master, updates, ParamsInv, SubscribersInv, QueueInv, CallingInv, TaskInv
<1>2. ASSUME NEW t \in Tasks, GetParamCached(t) \/ SetParam(t) \/ DeleteParam(t) PROVE Inv'
  <2>1. PICK r : task' = [task EXCEPT ![t] = r] /\ IsTask(r)
    <3>1. CASE GetParamCached(t)
      <4>1. PICK name \in Names :
              Call(t, [at |-> "sent", op |-> "subscribe", key |-> Resolve(Owner[t], name)])
        BY <3>1 DEF GetParamCached
      <4> DEFINE r == [at |-> "sent", op |-> "subscribe", key |-> Resolve(Owner[t], name)]
      <4>2. IsTask(r)
        BY KeyResolved DEF IsTask
      <4> HIDE DEF r
      <4> QED  BY <4>1, <4>2 DEF Call, r
    <3>2. CASE SetParam(t)
      <4>1. PICK name \in Names, value \in Values :
              Call(t, [at |-> "sent", op |-> "set", key |-> Resolve(Owner[t], name), value |-> value])
        BY <3>2 DEF SetParam
      <4> DEFINE r == [at |-> "sent", op |-> "set", key |-> Resolve(Owner[t], name), value |-> value]
      <4>2. IsTask(r)
        BY KeyResolved DEF IsTask
      <4> HIDE DEF r
      <4> QED  BY <4>1, <4>2 DEF Call, r
    <3>3. CASE DeleteParam(t)
      <4>1. PICK name \in Names :
              Call(t, [at |-> "sent", op |-> "delete", key |-> Resolve(Owner[t], name)])
        BY <3>3 DEF DeleteParam
      <4> DEFINE r == [at |-> "sent", op |-> "delete", key |-> Resolve(Owner[t], name)]
      <4>2. IsTask(r)
        BY KeyResolved DEF IsTask
      <4> HIDE DEF r
      <4> QED  BY <4>1, <4>2 DEF Call, r
    <3> QED  BY <1>2, <3>1, <3>2, <3>3
  <2>2. TaskInv'
    BY <2>1 DEF TaskInv
  <2>3. UNCHANGED <<params, subscribers, queue, calling>>
    BY <1>2 DEF GetParamCached, SetParam, DeleteParam, Call, master, updates
  <2> QED  BY <2>2, <2>3 DEF ParamsInv, SubscribersInv, QueueInv, CallingInv
<1>3. ASSUME NEW t \in Tasks, HandleSubscribe(t) PROVE Inv'
  <2>1. IsTask(task[t]) /\ task[t].at = "sent" /\ task[t] # Idle /\ task[t].key \in Keys
    BY <1>3 DEF HandleSubscribe, TaskInv, IsTask, Idle
  <2>2. TaskInv'
    <3>1. PICK v : task' = [task EXCEPT ![t] = [at |-> "answered", op |-> "subscribe",
                                                key |-> task[t].key, value |-> v]]
      BY <1>3 DEF HandleSubscribe, TaskInv
    <3> QED  BY <2>1, <3>1 DEF TaskInv, IsTask
  <2>3. SubscribersInv'
    <3>1. subscribers' = [subscribers EXCEPT ![task[t].key] = @ \cup {Owner[t]}]
      BY <1>3 DEF HandleSubscribe
    <3>2. Owner[t] \in Nodes
      BY OwnerAssumption
    <3>3. subscribers' \in [Keys -> SUBSET Nodes]
      BY <2>1, <3>1, <3>2 DEF SubscribersInv
    <3>4. {k \in Keys : subscribers'[k] # {}} \subseteq {k \in Keys : subscribers[k] # {}} \cup {task[t].key}
      BY <2>1, <3>1 DEF SubscribersInv
    <3>5. IsFiniteSet({k \in Keys : subscribers[k] # {}} \cup {task[t].key})
      BY FS_Singleton, FS_Union DEF SubscribersInv
    <3>6. IsFiniteSet({k \in Keys : subscribers'[k] # {}})
      BY <3>4, <3>5, FS_Subset
    <3> QED  BY <3>3, <3>6 DEF SubscribersInv
  <2>4. UNCHANGED <<params, queue, calling>>
    BY <1>3 DEF HandleSubscribe, updates
  <2> QED  BY <2>2, <2>3, <2>4 DEF ParamsInv, QueueInv, CallingInv
<1>4. ASSUME NEW t \in Tasks, CallNotAccepted(t) PROVE Inv'
  BY <1>4 DEF CallNotAccepted, master, updates, ParamsInv, SubscribersInv, QueueInv, CallingInv, TaskInv
<1>5. ASSUME NEW t \in Tasks, HandleSet(t) PROVE Inv'
  <2> DEFINE key == task[t].key
             value == Transferred(task[t].value)
  <2>1. /\ task[t] # Idle /\ key \in Keys /\ task[t].value \in Values
        /\ {"at", "op", "key", "value"} \subseteq DOMAIN task[t]
    BY <1>5 DEF HandleSet, TaskInv, IsTask, Idle
  <2>2. Settled(value) /\ << >> \in DOMAIN value
    <3>1. IsValue(task[t].value) /\ Accepted(task[t].value)
      BY <1>5, <2>1, ValuesAssumption DEF HandleSet
    <3> QED  BY <3>1, ReceivedSettled
  <2>3. UNCHANGED <<subscribers, calling>>
    BY <1>5 DEF HandleSet
  <2>4. CASE key = << >> /\ ~IsDictValue(value)
    <3>1. task' = [task EXCEPT ![t] = Idle] /\ UNCHANGED <<params, queue>>
      BY <1>5, <2>4 DEF HandleSet
    <3>2. TaskInv'
      BY <3>1 DEF TaskInv, IsTask
    <3> QED  BY <2>3, <3>1, <3>2 DEF ParamsInv, SubscribersInv, QueueInv, CallingInv
  <2>5. CASE ~(key = << >> /\ ~IsDictValue(value))
    <3>1. /\ params' = Stored(params, key, value)
          /\ OnParamUpdate(key, value, Owner[t], IsDictValue(value))
          /\ task' = [task EXCEPT ![t].at = "answered"]
      BY <1>5, <2>5 DEF HandleSet
    <3> HIDE DEF key, value
    <3>2. key \in Path
      BY <2>1, KeysArePaths
    <3>3. /\ Settled(params') /\ << >> \in DOMAIN params' /\ IsDictValue(params')
          /\ \A q \in DOMAIN params : ~IsPrefix(key, q) => q \in DOMAIN params'
          /\ \A p \in DOMAIN value : key \o p \in DOMAIN params'
      BY <2>2, <2>5, <3>1, <3>2, StoredSettled DEF ParamsInv
    <3>4. IsDictValue(value) \in BOOLEAN
      BY Zenon DEF IsDictValue
    <3>5. QueueInv'
      BY <2>1, <2>2, <3>1, <3>3, <3>4, NoticesKeep
    <3>6. TaskInv'
      <4>1. task'[t] = [task[t] EXCEPT !.at = "answered"] /\ DOMAIN task' = Tasks
            /\ \A s \in Tasks \ {t} : task'[s] = task[s]
        BY <3>1 DEF TaskInv
      <4>2. IsTask(task'[t])
        BY <2>1, <4>1 DEF TaskInv, IsTask
      <4> QED  BY <4>1, <4>2 DEF TaskInv
    <3> QED  BY <2>3, <3>3, <3>5, <3>6 DEF ParamsInv, SubscribersInv, CallingInv
  <2> QED  BY <2>4, <2>5
<1>6. ASSUME NEW t \in Tasks, HandleDelete(t) PROVE Inv'
  <2> DEFINE key == task[t].key
  <2>1. /\ task[t] # Idle /\ key \in Keys /\ task[t].op = "delete"
        /\ {"at", "op", "key"} \subseteq DOMAIN task[t]
    BY <1>6 DEF HandleDelete, TaskInv, IsTask, Idle
  <2>2. UNCHANGED <<subscribers, calling>>
    BY <1>6 DEF HandleDelete
  <2>3. CASE key = << >> \/ key \notin DOMAIN params
    <3>1. task' = [task EXCEPT ![t] = Idle] /\ UNCHANGED <<params, queue>>
      BY <1>6, <2>3 DEF HandleDelete
    <3>2. TaskInv'
      BY <3>1 DEF TaskInv, IsTask
    <3> QED  BY <2>2, <3>1, <3>2 DEF ParamsInv, SubscribersInv, QueueInv, CallingInv
  <2>4. CASE ~(key = << >> \/ key \notin DOMAIN params)
    <3>1. /\ params' = Removed(params, key)
          /\ OnParamUpdate(key, EmptyTree, Owner[t], FALSE)
          /\ task' = [task EXCEPT ![t].at = "answered"]
      BY <1>6, <2>4 DEF HandleDelete, DeletedValue
    <3> HIDE DEF key
    <3>2. key \in Path
      BY <2>1, KeysArePaths
    <3>3. Settled(params')
      BY <3>1, <3>2, RemovedSettled DEF ParamsInv
    <3>4. /\ \A q \in DOMAIN params : ~IsPrefix(key, q) => q \in DOMAIN params'
          /\ \A q \in DOMAIN params' : params'[q] = params[q]
      BY <3>1 DEF Removed
    <3>5. ~IsPrefix(key, << >>)
      <4>1. IsPrefix(key, << >>) => \E r \in Path : << >> = key \o r
        BY <3>2, PathsConcatenate
      <4> QED  BY <2>4, <3>2, <4>1, PathEnds
    <3>6. << >> \in DOMAIN params' /\ IsDictValue(params')
      BY <3>4, <3>5 DEF ParamsInv, IsDictValue
    <3>7. QueueInv'
      BY <2>1, <3>1, <3>3, <3>4, EmptySettled, NoticesKeep
    <3>8. TaskInv'
      <4>1. task'[t] = [task[t] EXCEPT !.at = "answered"] /\ DOMAIN task' = Tasks
            /\ \A s \in Tasks \ {t} : task'[s] = task[s]
        BY <3>1 DEF TaskInv
      <4>2. IsTask(task'[t])
        BY <2>1, <4>1 DEF TaskInv, IsTask
      <4> QED  BY <4>1, <4>2 DEF TaskInv
    <3> QED  BY <2>2, <3>3, <3>6, <3>7, <3>8 DEF ParamsInv, SubscribersInv, CallingInv
  <2> QED  BY <2>3, <2>4
<1>7. ASSUME NEW t \in Tasks, SubscribeAnswered(t) \/ SetAnswered(t) \/ DeleteAnswered(t) PROVE Inv'
  <2>1. task' = [task EXCEPT ![t] = Idle] /\ UNCHANGED <<params, subscribers, queue, calling>>
    BY <1>7 DEF SubscribeAnswered, SetAnswered, DeleteAnswered, master, updates
  <2>2. TaskInv'
    BY <2>1 DEF TaskInv, IsTask
  <2> QED  BY <2>1, <2>2 DEF ParamsInv, SubscribersInv, QueueInv, CallingInv
<1>8. ASSUME NEW n \in Nodes, ServeTakes(n) PROVE Inv'
  <2> DEFINE u == Head(queue[n])
             w == [u EXCEPT !.value = Transferred(@)]
  <2>1. /\ queue[n] # << >> /\ calling' = [calling EXCEPT ![n] = <<w>>]
        /\ queue' = [queue EXCEPT ![n] = Tail(queue[n])]
        /\ UNCHANGED <<params, subscribers, task>>
    BY <1>8 DEF ServeTakes, master, QueueInv
  <2>2. IsQueue(Tail(queue[n]), params) /\ Held(u)
    <3>1. IsQueue(queue[n], params)
      BY DEF QueueInv
    <3> QED  BY <2>1, <3>1, QueueElements DEF Queued
  <2>3. QueueInv'
    BY <2>1, <2>2 DEF QueueInv
  <2>4. Held(w)
    <3>1. Settled(u.value) /\ << >> \in DOMAIN u.value /\ Transferred(u.value) = u.value
      BY <2>2, SettledStays DEF Held
    <3> HIDE DEF u
    <3> QED  BY <2>2, <3>1, ValueChanged
  <2> HIDE DEF w
  <2>5. CallingInv'
    BY <2>1, <2>4 DEF CallingInv
  <2> QED  BY <2>1, <2>3, <2>5 DEF ParamsInv, SubscribersInv, TaskInv
<1>9. ASSUME NEW n \in Nodes, ParamUpdate(n) PROVE Inv'
  <2>1. calling' = [calling EXCEPT ![n] = << >>] /\ UNCHANGED <<params, subscribers, queue, task>>
    BY <1>9 DEF ParamUpdate, master
  <2>2. CallingInv'
    BY <2>1 DEF CallingInv
  <2> QED  BY <2>1, <2>2 DEF ParamsInv, SubscribersInv, QueueInv, TaskInv
<1> QED
  BY <1>1, <1>2, <1>3, <1>4, <1>5, <1>6, <1>7, <1>8, <1>9 DEF Next

LEMMA InvHeld == Inv => HeldSettled
<1> SUFFICES ASSUME Inv PROVE HeldSettled
  OBVIOUS
<1> DEFINE sent == UNION {{queue[n][i].value : i \in DOMAIN queue[n]}
                            \cup {calling[n][i].value : i \in DOMAIN calling[n]} : n \in Nodes}
<1>1. ASSUME NEW n \in Nodes, NEW i \in DOMAIN queue[n] PROVE Settled(queue[n][i].value)
  <2>1. IsQueue(queue[n], params)
    BY DEF Inv, QueueInv
  <2> QED  BY <2>1, QueueElements DEF Queued, Held
<1>2. ASSUME NEW n \in Nodes, NEW i \in DOMAIN calling[n] PROVE Settled(calling[n][i].value)
  <2>1. PICK u : Held(u) /\ calling[n] = <<u>>
    BY DEF Inv, CallingInv
  <2>2. calling[n][i] = u
    BY <2>1
  <2> QED  BY <2>1, <2>2 DEF Held
<1>3. ASSUME NEW value \in {params} \cup sent PROVE Settled(value)
  BY <1>1, <1>2 DEF Inv, ParamsInv
<1> HIDE DEF sent
<1>4. \A value \in {params} \cup sent : Accepted(value) /\ Transferred(value) = value
  BY <1>3, SettledStays
<1> QED  BY <1>4 DEF HeldSettled, sent

\* What the master holds, queues and sends can be sent again and is received
\* unchanged (on_param_update, serve): no write and no delete, at whatever key
\* above or below the subscribed ones, lets through what a receiver refuses.
THEOREM MasterHoldsSettled == Spec => []HeldSettled
<1>1. Spec => []Inv
  BY InitInv, StepInv, PTL DEF Spec
<1> QED  BY <1>1, InvHeld, PTL

-----------------------------------------------------------------------------
(* Searches                                                                 *)

\* search takes the innermost namespace that has the first name of the path, and
\* finds nothing only if none has.
LEMMA SearchIs ==
  ASSUME NEW S, NEW caller \in Seq(S), NEW path \in Seq(S), NEW tree
  PROVE  /\ \A k \in 0..Len(caller) : Append(SubSeq(caller, 1, k), Head(path)) \in DOMAIN tree
              => \E m \in k..Len(caller) : Search(tree, path, caller) = SubSeq(caller, 1, m) \o path
         /\ \/ Search(tree, path, caller) = << >>
            \/ \E k \in 0..Len(caller) : Append(SubSeq(caller, 1, k), Head(path)) \in DOMAIN tree
<1> DEFINE n == Len(caller)
           N == SearchNamespaces(caller)
           test(ns) == Append(ns, Head(path)) \in DOMAIN tree
           I == {i \in 1..Len(N) : test(N[i])}
           i == IF I # {} THEN Min(I) ELSE 0
<1>1. n \in Nat
  BY LenProperties
<1>2. Len(N) = n + 1 /\ \A j \in 1..(n + 1) : N[j] = SubSeq(caller, 1, n + 1 - j)
  BY <1>1 DEF SearchNamespaces
<1>3. Search(tree, path, caller) = IF i = 0 THEN << >> ELSE N[i] \o path
  BY DEF Search, SelectInSeq
<1> HIDE DEF N, test
<1>4. I # {} => i \in I /\ \A j \in I : i <= j
  <2> SUFFICES ASSUME I # {} PROVE i \in I /\ \A j \in I : i <= j
    OBVIOUS
  <2>1. I \in SUBSET Nat
    BY <1>1, <1>2
  <2> HIDE DEF I
  <2>2. \E m \in I : \A j \in I : m <= j
    BY <2>1, Least
  <2>3. i = Min(I)
    OBVIOUS
  <2> QED  BY <2>2, <2>3 DEF Min
<1>5. I \subseteq 1..(n + 1)
  BY <1>2
<1>6. ASSUME NEW k \in 0..n, test(SubSeq(caller, 1, k))
      PROVE  \E m \in k..n : Search(tree, path, caller) = SubSeq(caller, 1, m) \o path
  <2>1. n + 1 - k \in 1..(n + 1) /\ n + 1 - (n + 1 - k) = k
    BY <1>1
  <2>2. n + 1 - k \in I
    <3>1. N[n + 1 - k] = SubSeq(caller, 1, k)
      BY <1>2, <2>1
    <3> QED  BY <1>2, <1>6, <2>1, <3>1
  <2> HIDE DEF I
  <2>3. i \in I /\ i <= n + 1 - k
    BY <1>4, <2>2
  <2> HIDE DEF i
  <2>4. i \in Nat /\ i # 0 /\ i \in 1..(n + 1) /\ n + 1 - i \in k..n
    BY <1>1, <1>5, <2>3
  <2>5. Search(tree, path, caller) = SubSeq(caller, 1, n + 1 - i) \o path
    BY <1>2, <1>3, <2>4
  <2> QED  BY <2>4, <2>5
<1>7. ASSUME Search(tree, path, caller) # << >> PROVE \E k \in 0..n : test(SubSeq(caller, 1, k))
  <2>1. i # 0
    BY <1>3, <1>7
  <2>2. i \in I
    <3> HIDE DEF I
    <3> QED  BY <1>4, <2>1
  <2> HIDE DEF i
  <2>3. i \in 1..(n + 1) /\ n + 1 - i \in 0..n /\ test(N[i])
    BY <1>1, <1>2, <2>2
  <2> QED  BY <1>2, <2>3
<1>8. /\ \A k \in 0..n : test(SubSeq(caller, 1, k))
           => \E m \in k..n : Search(tree, path, caller) = SubSeq(caller, 1, m) \o path
      /\ Search(tree, path, caller) = << >> \/ \E k \in 0..n : test(SubSeq(caller, 1, k))
  BY <1>6, <1>7
<1> QED  BY <1>8 DEF test

\* The dictionaries on the way to a parameter are in the tree, so that its
\* namespace has the first name of the path if it has all of it.
LEMMA InvReaches == Inv => SearchReaches
<1> SUFFICES ASSUME Inv, NEW n \in Nodes, NEW path \in Keys \ {<< >>}
             PROVE  LET found == Search(params, path, FullName(n))
                        named == Namespace[n] \o path
                    IN /\ named \in DOMAIN params => Len(found) >= Len(named)
                       /\ found = << >> <=>
                            \A p \in Prefixes(FullName(n)) : Append(p, Head(path)) \notin DOMAIN params
  BY DEF SearchReaches
<1> DEFINE T == STRING \ {""}
           S == T \cup {n}
           ns == Namespace[n]
           caller == FullName(n)
           found == Search(params, path, caller)
<1>1. path \in Seq(T) /\ ns \in Seq(T) /\ path # << >>
  BY KeysAssumption, NamespaceAssumption
<1>2. path \in Path /\ ns \in Path
  BY <1>1 DEF Path
<1>3. Path = Seq(T)
  BY DEF Path
<1> HIDE DEF T
<1>4. path \in Seq(S) /\ ns \in Seq(S) /\ n \in S
  BY <1>1, SeqMonotonic
<1>5. caller = Append(ns, n)
  BY DEF FullName
<1> HIDE DEF S, ns, caller
<1>6. /\ caller \in Seq(S) /\ Len(caller) = Len(ns) + 1 /\ Len(ns) \in Nat
      /\ Len(path) \in Nat /\ Len(path) # 0
  BY <1>1, <1>4, <1>5, AppendProperties, LenProperties, EmptySeq
<1>7. SubSeq(caller, 1, Len(ns)) = ns
  <2>1. caller = ns \o <<n>> /\ <<n>> \in Seq(S)
    BY <1>4, <1>5, AppendIsConcat
  <2> QED  BY <1>4, <2>1, PrefixOfConcat
<1>8. ASSUME NEW m \in 0..Len(caller)
      PROVE  Len(SubSeq(caller, 1, m) \o path) = m + Len(path)
  <2>1. SubSeq(caller, 1, m) \in Seq(S) /\ Len(SubSeq(caller, 1, m)) = m
    BY <1>6
  <2> QED  BY <1>4, <2>1, ConcatProperties
<1>9. ASSUME ns \o path \in DOMAIN params PROVE Len(found) >= Len(ns \o path)
  <2> DEFINE h == Head(path)
  <2>1. h \in T /\ Tail(path) \in Seq(T) /\ path = <<h>> \o Tail(path)
    BY <1>1
  <2>2. <<h>> \in Seq(T) /\ Append(ns, h) = ns \o <<h>> /\ Append(ns, h) \in Seq(T)
    <3> HIDE DEF h
    <3> QED  BY <1>1, <1>3, <1>2, <2>1, AppendIsConcat, AppendProperties
  <2>3. ns \o path = Append(ns, h) \o Tail(path)
    <3> HIDE DEF h
    <3>1. (ns \o <<h>>) \o Tail(path) = ns \o (<<h>> \o Tail(path))
      BY <1>2, <1>3, <2>1, <2>2, ConcatAssociative
    <3> QED  BY <2>1, <2>2, <3>1
  <2>4. Append(ns, h) \in DOMAIN params
    <3> HIDE DEF h
    <3>1. Append(ns, h) \in Path /\ Tail(path) \in Path
      BY <1>3, <2>1, <2>2
    <3> QED  BY <1>9, <2>3, <3>1 DEF Inv, ParamsInv, Settled
  <2>5. Len(ns) \in 0..Len(caller)
    BY <1>6
  <2>6. PICK m \in Len(ns)..Len(caller) : found = SubSeq(caller, 1, m) \o path
    BY <1>4, <1>6, <1>7, <2>4, <2>5, SearchIs
  <2> HIDE DEF found
  <2>7. m \in 0..Len(caller) /\ m >= Len(ns) /\ m \in Nat
    BY <1>6
  <2>8. Len(found) = m + Len(path)
    BY <1>8, <2>6, <2>7
  <2>9. Len(ns \o path) = Len(ns) + Len(path)
    BY <1>4, ConcatProperties
  <2> QED  BY <1>6, <2>7, <2>8, <2>9
<1>10. ASSUME NEW k \in 0..Len(caller), Append(SubSeq(caller, 1, k), Head(path)) \in DOMAIN params
       PROVE  found # << >>
  <2>1. PICK m \in k..Len(caller) : found = SubSeq(caller, 1, m) \o path
    BY <1>4, <1>6, <1>10, SearchIs
  <2> HIDE DEF found
  <2>2. m \in 0..Len(caller) /\ m \in Nat
    BY <1>6
  <2>3. Len(found) = m + Len(path)
    BY <1>8, <2>1, <2>2
  <2> QED  BY <1>6, <2>2, <2>3, EmptySeq
<1>11. found = << >> \/ \E k \in 0..Len(caller) : Append(SubSeq(caller, 1, k), Head(path)) \in DOMAIN params
  BY <1>4, <1>6, SearchIs
<1>12. found = << >> <=> \A p \in Prefixes(caller) : Append(p, Head(path)) \notin DOMAIN params
  <2> HIDE DEF found
  <2> QED  BY <1>10, <1>11 DEF Prefixes
<1> HIDE DEF found
<1> QED  BY <1>9, <1>12 DEF found, ns, caller

\* A search finds the parameter of the node's own namespace or a closer one, and
\* nothing only if no namespace up to the root has the first name (search_param).
THEOREM MasterSearchReaches == Spec => []SearchReaches
<1>1. Spec => []Inv
  BY InitInv, StepInv, PTL DEF Spec
<1> QED  BY <1>1, InvReaches, PTL

-----------------------------------------------------------------------------
(* What paths are used as                                                   *)

\* The scalars of a tree that is put at a key are at paths in S.
ScalarsAmong(tree, key, S) ==
  \A q \in DOMAIN tree : q \in Seq(STRING) /\ (tree[q] = DictValue \/ key \o q \in S)

LEMMA PathsAreSequences == Path \subseteq Seq(STRING)
<1> DEFINE T == STRING
           U == STRING \ {""}
<1>1. U \subseteq T
  OBVIOUS
<1> HIDE DEF T, U
<1>2. Seq(U) \subseteq Seq(T)
  BY <1>1, SeqMonotonic
<1> QED  BY <1>2 DEF T, U, Path

LEMMA ScalarPathsAre ==
  ASSUME NEW tree, DOMAIN tree \subseteq Seq(STRING), NEW key, NEW S, ScalarPaths(key, tree) \subseteq S
  PROVE  ScalarsAmong(tree, key, S)
  BY DEF ScalarPaths, ScalarsAmong

LEMMA ScalarsOfEmpty == ASSUME NEW key, NEW S PROVE ScalarsAmong(EmptyTree, key, S)
<1>1. << >> \in Seq(STRING)
  BY EmptySeq
<1> QED  BY <1>1 DEF ScalarsAmong, EmptyTree

LEMMA ScalarsGrow ==
  ASSUME NEW tree, NEW key, NEW S, NEW T, S \subseteq T, ScalarsAmong(tree, key, S)
  PROVE  ScalarsAmong(tree, key, T)
  BY DEF ScalarsAmong

LEMMA ScalarsRemoved ==
  ASSUME NEW tree, NEW key, NEW S, NEW path, ScalarsAmong(tree, key, S)
  PROVE  ScalarsAmong(Removed(tree, path), key, S)
  BY DEF ScalarsAmong, Removed

\* A part of a tree has its scalars where the tree has them.
LEMMA ScalarsOfPart ==
  ASSUME NEW tree, DOMAIN tree \subseteq Path, NEW key \in Path, NEW path \in Path, NEW S,
         ScalarsAmong(tree, key, S)
  PROVE  ScalarsAmong(SubTree(tree, path), key \o path, S)
<1>1. /\ \A r : r \in DOMAIN SubTree(tree, path) <=> r \in Path /\ path \o r \in DOMAIN tree
      /\ \A r \in DOMAIN SubTree(tree, path) : SubTree(tree, path)[r] = tree[path \o r]
  BY SubTreePaths
<1>2. \A r \in Path : (key \o path) \o r = key \o (path \o r)
  BY Associated
<1> DEFINE t == SubTree(tree, path)
<1> HIDE DEF t
<1>3. ScalarsAmong(t, key \o path, S)
  <2>1. ASSUME NEW r \in DOMAIN t
        PROVE  r \in Seq(STRING) /\ (t[r] = DictValue \/ (key \o path) \o r \in S)
    <3>1. r \in Path /\ path \o r \in DOMAIN tree /\ t[r] = tree[path \o r]
      BY <1>1 DEF t
    <3>2. tree[path \o r] = DictValue \/ key \o (path \o r) \in S
      BY <3>1 DEF ScalarsAmong
    <3> QED  BY <1>2, <3>1, <3>2, PathsAreSequences
  <2> QED  BY <2>1 DEF ScalarsAmong
<1> QED  BY <1>3 DEF t

\* A value that is stored below a key has its scalars where it would have them alone.
LEMMA ScalarsStored ==
  ASSUME NEW tree, NEW value, DOMAIN value \subseteq Seq(STRING), NEW key \in Path,
         NEW path \in Path, NEW S, ScalarsAmong(tree, key, S), ScalarsAmong(value, key \o path, S)
  PROVE  ScalarsAmong(Stored(tree, path, value), key, S)
<1> DEFINE kept == {q \in DOMAIN tree : ~IsPrefix(path, q) /\ ~IsPrefix(q, path)}
           onTheWay == {q \in Prefixes(path) : q # path}
           below == {path \o p : p \in DOMAIN value}
           t == Stored(tree, path, value)
           label(q) == CASE q \in onTheWay -> DictValue
                         [] q \in kept -> tree[q]
                         [] OTHER -> value[SubSeq(q, Len(path) + 1, Len(q))]
<1>1. t = [q \in kept \cup onTheWay \cup below |-> label(q)]
  BY DEF Stored
<1>2. ASSUME NEW p \in DOMAIN value
      PROVE  /\ SubSeq(path \o p, Len(path) + 1, Len(path \o p)) = p
             /\ (key \o path) \o p = key \o (path \o p) /\ path \o p \in Seq(STRING)
  <2> DEFINE T == STRING
  <2>1. path \in Seq(T) /\ key \in Seq(T) /\ p \in Seq(T)
    BY PathsAreSequences DEF ScalarsAmong
  <2> HIDE DEF T
  <2>2. path \o p \in Seq(T)
    BY <2>1, ConcatProperties
  <2>3. SubSeq(path \o p, Len(path) + 1, Len(path \o p)) = p
    BY <2>1, PrefixOfConcat
  <2>4. (key \o path) \o p = key \o (path \o p)
    BY <2>1, ConcatAssociative
  <2> QED  BY <2>2, <2>3, <2>4 DEF T
<1>3. kept \cap onTheWay = {}
  BY PathsConcatenate
<1>4. /\ \A q \in onTheWay : label(q) = DictValue /\ q \in Seq(STRING)
      /\ \A q \in kept : label(q) = tree[q] /\ q \in DOMAIN tree
  <2>1. \A q \in onTheWay : q \in Path
    BY PathsConcatenate
  <2>2. \A q \in kept : q \in DOMAIN tree
    OBVIOUS
  <2> HIDE DEF kept, onTheWay
  <2> QED  BY <1>3, <2>1, <2>2, PathsAreSequences
<1>5. ASSUME NEW p \in DOMAIN value, path \o p \notin kept, path \o p \notin onTheWay
      PROVE  label(path \o p) = value[p]
  <2> HIDE DEF kept, onTheWay
  <2>1. label(path \o p) = value[SubSeq(path \o p, Len(path) + 1, Len(path \o p))]
    BY <1>5
  <2> QED  BY <1>2, <2>1
<1> HIDE DEF t, label, kept, onTheWay
<1>6. ASSUME NEW q \in DOMAIN t PROVE q \in Seq(STRING) /\ (t[q] = DictValue \/ key \o q \in S)
  <2>1. t[q] = label(q) /\ q \in kept \cup onTheWay \cup below
    BY <1>1
  <2>2. CASE q \in onTheWay
    BY <1>4, <2>1, <2>2
  <2>3. CASE q \in kept
    BY <1>4, <2>1, <2>3 DEF ScalarsAmong
  <2>4. CASE q \notin kept /\ q \notin onTheWay
    <3>1. PICK p \in DOMAIN value : q = path \o p
      BY <2>1, <2>4
    <3>2. t[q] = value[p] /\ key \o q = (key \o path) \o p /\ q \in Seq(STRING)
      BY <1>2, <1>5, <2>1, <2>4, <3>1
    <3> QED  BY <3>2 DEF ScalarsAmong
  <2> QED  BY <2>2, <2>3, <2>4
<1>7. ScalarsAmong(t, key, S)
  BY <1>6 DEF ScalarsAmong
<1> QED  BY <1>7 DEF t

\* Where a path leads through a scalar, a scalar is above the key.
LEMMA BlockedMixes ==
  ASSUME NEW tree, NEW key \in Path, NEW k \in Path, IsPrefix(k, key), NEW S,
         ScalarsAmong(tree, k, S), Blocked(tree, Below(k, key))
  PROVE  S \cap WayTo(key) # {}
<1>1. PICK q \in DOMAIN tree : IsStrictPrefix(q, Below(k, key)) /\ tree[q] # DictValue
  BY DEF Blocked
<1>2. Below(k, key) \in Path /\ key = k \o Below(k, key)
  BY PathsConcatenate DEF Below
<1>3. q \in Path
  <2> DEFINE T == STRING
             p == Below(k, key)
  <2>1. p \in Seq(T) /\ q \in Seq(T) /\ IsPrefix(q, p)
    BY <1>1, <1>2, PathsAreSequences DEF IsStrictPrefix, ScalarsAmong
  <2> HIDE DEF T, p
  <2>2. q \in Prefixes(p)
    BY <2>1, Prefixed
  <2> QED  BY <1>2, <2>2, PathsConcatenate DEF p
<1>4. PICK r \in Path : Below(k, key) = q \o r
  BY <1>1, <1>2, <1>3, PathsConcatenate DEF IsStrictPrefix
<1>5. key = (k \o q) \o r /\ k \o q \in Path
  <2>1. key = k \o (q \o r)
    BY <1>2, <1>4
  <2>2. (k \o q) \o r = k \o (q \o r)
    BY <1>3, <1>4, Associated
  <2> QED  BY <1>3, <2>1, <2>2, PathsConcatenate
<1>6. k \o q # key
  <2> SUFFICES ASSUME k \o q = key PROVE FALSE
    OBVIOUS
  <2>1. Below(k, key) = q
    BY <1>3, PathsConcatenate DEF Below
  <2> QED  BY <1>1, <2>1 DEF IsStrictPrefix
<1>7. k \o q \in WayTo(key)
  <2>1. IsPrefix(k \o q, key)
    BY <1>4, <1>5, PathsConcatenate
  <2> QED  BY <1>5, <1>6, <2>1, PathsConcatenate DEF WayTo
<1>8. k \o q \in S
  BY <1>1 DEF ScalarsAmong
<1> QED  BY <1>7, <1>8

-----------------------------------------------------------------------------
(* The parts of a queue that on_param_update leaves                         *)

\* What a subscriber at or above the key is told, and one below it that a new
\* dictionary lacks.
Notice(k, key, value, live) ==
  IF IsPrefix(k, key) THEN Update(key, value, live) ELSE Update(k, EmptyTree, FALSE)

\* What a subscriber below the key is told that the value has.
Nested(k, key, value, live) ==
  Update(k, SubTree(value, Below(key, k)), live /\ IsDictValue(SubTree(value, Below(key, k))))

LEMMA Indexed ==
  ASSUME NEW n \in Nat, NEW f, DOMAIN f = 1..n, f = [i \in 1..n |-> f[i]]
  PROVE  f \in Seq({f[i] : i \in 1..n}) /\ Len(f) = n
<1> DEFINE L == {f[i] : i \in 1..n}
<1>1. \A i \in 1..n : f[i] \in L
  OBVIOUS
<1> HIDE DEF L
<1>2. f \in [1..n -> L]
  BY <1>1
<1>3. f \in Seq(L)
  BY <1>2
<1>4. Len(f) = n
  BY <1>3
<1> QED  BY <1>3, <1>4 DEF L

\* The new queue has what was queued, then the first round, then the second.
LEMMA NewQueueIs ==
  ASSUME NEW q, Len(q) \in Nat, DOMAIN q = 1..Len(q),
         NEW ks \in Seq(Keys), NEW ls \in Seq(Keys), NEW key, NEW value, NEW live, NEW tree
  PROVE  LET r == NewQueue(q, ks, ls, key, value, live, tree)
         IN /\ DOMAIN r = 1..(Len(q) + Len(ks) + Len(ls))
            /\ Len(r) = Len(q) + Len(ks) + Len(ls)
            /\ \A i \in 1..Len(q) : r[i] = Refreshed(q[i], key, tree)
            /\ \A i \in 1..Len(ks) : r[Len(q) + i] = Notice(ks[i], key, value, live)
            /\ \A i \in 1..Len(ls) : r[Len(q) + Len(ks) + i] = Nested(ls[i], key, value, live)
<1> DEFINE a == [i \in DOMAIN q |-> Refreshed(q[i], key, tree)]
           b == [i \in DOMAIN ks |-> Notice(ks[i], key, value, live)]
           c == [i \in DOMAIN ls |-> Nested(ls[i], key, value, live)]
           A == {a[i] : i \in 1..Len(q)}
           B == {b[i] : i \in 1..Len(ks)}
           C == {c[i] : i \in 1..Len(ls)}
           T == A \cup B \cup C
           r == NewQueue(q, ks, ls, key, value, live, tree)
<1>1. /\ Len(ks) \in Nat /\ DOMAIN ks = 1..Len(ks) /\ Len(ls) \in Nat /\ DOMAIN ls = 1..Len(ls)
  BY LenProperties
<1>2. r = (a \o b) \o c
  BY DEF NewQueue, Notice, Nested
<1>3. /\ DOMAIN a = 1..Len(q) /\ \A i \in 1..Len(q) : a[i] = Refreshed(q[i], key, tree)
      /\ DOMAIN b = 1..Len(ks) /\ \A i \in 1..Len(ks) : b[i] = Notice(ks[i], key, value, live)
      /\ DOMAIN c = 1..Len(ls) /\ \A i \in 1..Len(ls) : c[i] = Nested(ls[i], key, value, live)
      /\ a = [i \in 1..Len(q) |-> a[i]] /\ b = [i \in 1..Len(ks) |-> b[i]]
      /\ c = [i \in 1..Len(ls) |-> c[i]]
  BY <1>1
<1> HIDE DEF a, b, c, r
<1>4. a \in Seq(A) /\ Len(a) = Len(q) /\ b \in Seq(B) /\ Len(b) = Len(ks) /\ c \in Seq(C) /\ Len(c) = Len(ls)
  BY <1>1, <1>3, Indexed
<1>5. A \subseteq T /\ B \subseteq T /\ C \subseteq T
  OBVIOUS
<1> HIDE DEF A, B, C, T
<1>6. a \in Seq(T) /\ b \in Seq(T) /\ c \in Seq(T)
  BY <1>4, <1>5, SeqMonotonic
<1>7. /\ a \o b \in Seq(T) /\ Len(a \o b) = Len(a) + Len(b)
      /\ \A i \in 1..(Len(a) + Len(b)) : (a \o b)[i] = IF i <= Len(a) THEN a[i] ELSE b[i - Len(a)]
  BY <1>6, ConcatProperties
<1> DEFINE d == a \o b
<1> HIDE DEF d
<1>8. /\ d \o c \in Seq(T) /\ Len(d \o c) = Len(d) + Len(c)
      /\ \A i \in 1..(Len(d) + Len(c)) : (d \o c)[i] = IF i <= Len(d) THEN d[i] ELSE c[i - Len(d)]
  <2>1. d \in Seq(T)
    BY <1>7 DEF d
  <2> QED  BY <1>6, <2>1, ConcatProperties
<1>9. /\ Len(d) = Len(q) + Len(ks)
      /\ \A i \in 1..(Len(q) + Len(ks)) : d[i] = IF i <= Len(q) THEN a[i] ELSE b[i - Len(q)]
  BY <1>4, <1>7 DEF d
<1>10. /\ r \in Seq(T) /\ Len(r) = Len(q) + Len(ks) + Len(ls)
       /\ \A i \in 1..(Len(q) + Len(ks) + Len(ls)) :
            r[i] = IF i <= Len(q) + Len(ks) THEN d[i] ELSE c[i - (Len(q) + Len(ks))]
  BY <1>2, <1>4, <1>8, <1>9 DEF d
<1>11. DOMAIN r = 1..Len(r)
  BY <1>10, LenProperties
<1>12. ASSUME NEW i \in 1..Len(q) PROVE r[i] = Refreshed(q[i], key, tree)
  <2>1. i \in 1..(Len(q) + Len(ks)) /\ i \in 1..(Len(q) + Len(ks) + Len(ls)) /\ i <= Len(q) /\ i <= Len(q) + Len(ks)
    BY <1>1
  <2>2. r[i] = d[i] /\ d[i] = a[i]
    BY <1>9, <1>10, <2>1
  <2> QED  BY <1>3, <2>2
<1>13. ASSUME NEW i \in 1..Len(ks) PROVE r[Len(q) + i] = Notice(ks[i], key, value, live)
  <2> DEFINE j == Len(q) + i
  <2>1. /\ j \in 1..(Len(q) + Len(ks)) /\ j \in 1..(Len(q) + Len(ks) + Len(ls)) /\ ~(j <= Len(q))
        /\ j <= Len(q) + Len(ks) /\ j - Len(q) = i
    BY <1>1
  <2> HIDE DEF j
  <2>2. r[j] = d[j] /\ d[j] = b[i]
    BY <1>9, <1>10, <2>1
  <2> QED  BY <1>3, <2>2 DEF j
<1>14. ASSUME NEW i \in 1..Len(ls) PROVE r[Len(q) + Len(ks) + i] = Nested(ls[i], key, value, live)
  <2> DEFINE j == Len(q) + Len(ks) + i
  <2>1. j \in 1..(Len(q) + Len(ks) + Len(ls)) /\ ~(j <= Len(q) + Len(ks)) /\ j - (Len(q) + Len(ks)) = i
    BY <1>1
  <2> HIDE DEF j
  <2>2. r[j] = c[i]
    BY <1>10, <2>1
  <2> QED  BY <1>3, <2>2 DEF j
<1> QED  BY <1>10, <1>11, <1>12, <1>13, <1>14 DEF r

\* The keys are those of the notices: all of them, and no others.
ListsAll(ks, K) == ks \in Seq(Keys) /\ {ks[i] : i \in DOMAIN ks} = K

LEMMA NoticesAre ==
  ASSUME SubscribersInv, NEW key, NEW value, NEW caller, NEW live,
         OnParamUpdate(key, value, caller, live), NEW n \in Nodes
  PROVE  \E ks, ls : /\ ListsAll(ks, IF n = caller THEN {} ELSE Notices(n, key, value))
                     /\ ListsAll(ls, NestedNotices(n, key, value))
                     /\ queue'[n] = NewQueue(queue[n], ks, ls, key, value, live, params')
<1>1. PICK order \in SetToSeqs({k \in Keys : subscribers[k] # {}}) :
        LET first(m) == Filtered(order, IF m = caller THEN {} ELSE Notices(m, key, value))
            second(m) == Filtered(order, NestedNotices(m, key, value))
            notice(k) == IF IsPrefix(k, key) THEN Update(key, value, live)
                         ELSE Update(k, EmptyTree, FALSE)
            nested(k) == LET part == SubTree(value, Below(key, k))
                         IN Update(k, part, live /\ IsDictValue(part))
        IN queue' = [m \in Nodes |->
             [i \in DOMAIN queue[m] |-> Refreshed(queue[m][i], key, params')]
               \o [i \in DOMAIN first(m) |-> notice(first(m)[i])]
               \o [i \in DOMAIN second(m) |-> nested(second(m)[i])]]
  BY DEF OnParamUpdate
<1> DEFINE S == {k \in Keys : subscribers[k] # {}}
           A == IF n = caller THEN {} ELSE Notices(n, key, value)
           B == NestedNotices(n, key, value)
           ks == Filtered(order, A)
           ls == Filtered(order, B)
<1>2. queue'[n] = NewQueue(queue[n], ks, ls, key, value, live, params')
  BY <1>1 DEF NewQueue
<1>3. A \subseteq S /\ B \subseteq S /\ S \subseteq Keys
  BY DEF Notices, NestedNotices
<1>4. IsFiniteSet(S) /\ order \in SetToSeqs(S)
  BY DEF SubscribersInv
<1> HIDE DEF S, A, B
<1>5. order \in Seq(S) /\ \A x \in S : \E i \in DOMAIN order : order[i] = x
  BY <1>4, Ordered
<1>6. ASSUME NEW K, K \subseteq S PROVE ListsAll(Filtered(order, K), K)
  <2> DEFINE f == Filtered(order, K)
  <2>1. f \in Seq(S \cap K) /\ \A i \in DOMAIN order : order[i] \in K => \E j \in DOMAIN f : f[j] = order[i]
    BY <1>5, FilteredIs
  <2>2. S \cap K = K /\ K \subseteq Keys
    BY <1>3, <1>6
  <2> HIDE DEF f
  <2>3. f \in Seq(K)
    BY <2>1, <2>2
  <2>4. \A j \in DOMAIN f : f[j] \in K
    BY <2>3, LenProperties, ElementOfSeq
  <2>5. ASSUME NEW x \in K PROVE \E j \in DOMAIN f : f[j] = x
    <3>1. PICK i \in DOMAIN order : order[i] = x
      BY <1>5, <1>6
    <3> QED  BY <2>1, <3>1
  <2>6. f \in Seq(Keys)
    BY <2>2, <2>3, SeqMonotonic
  <2>7. {f[j] : j \in DOMAIN f} = K
    BY <2>4, <2>5
  <2>8. ListsAll(f, K)
    BY <2>6, <2>7 DEF ListsAll
  <2> QED  BY <2>8 DEF f
<1>7. ListsAll(ks, A) /\ ListsAll(ls, B)
  BY <1>3, <1>6
<1> HIDE DEF ks, ls
<1> QED  BY <1>2, <1>7 DEF A, B

\* In the new queue are, in this order, the updates that were queued, and those that
\* are new: the notices, but not to the caller, and the nested ones.
LEMMA NewQueueParts ==
  ASSUME SubscribersInv, QueueInv, NEW key, NEW value, NEW caller, NEW live,
         OnParamUpdate(key, value, caller, live), NEW n \in Nodes
  PROVE  LET q == queue[n]
             r == queue'[n]
         IN /\ Len(q) \in Nat /\ DOMAIN q = 1..Len(q) /\ Len(r) \in Nat /\ DOMAIN r = 1..Len(r)
            /\ \A i \in DOMAIN q : i \in DOMAIN r /\ r[i] = Refreshed(q[i], key, params')
            /\ \A i \in DOMAIN r \ DOMAIN q :
                 \/ n # caller /\ \E k \in Notices(n, key, value) : r[i] = Notice(k, key, value, live)
                 \/ \E k \in NestedNotices(n, key, value) : r[i] = Nested(k, key, value, live)
            /\ n # caller => \A k \in Notices(n, key, value) :
                 \E i \in DOMAIN r \ DOMAIN q : r[i] = Notice(k, key, value, live)
            /\ \A k \in NestedNotices(n, key, value) :
                 \E i \in DOMAIN r \ DOMAIN q : r[i] = Nested(k, key, value, live)
<1> DEFINE A == IF n = caller THEN {} ELSE Notices(n, key, value)
           B == NestedNotices(n, key, value)
           q == queue[n]
           r == queue'[n]
<1>1. PICK ks, ls : ListsAll(ks, A) /\ ListsAll(ls, B)
                    /\ r = NewQueue(q, ks, ls, key, value, live, params')
  BY NoticesAre
<1>2. Len(q) \in Nat /\ DOMAIN q = 1..Len(q)
  BY QueueElements DEF QueueInv
<1>3. /\ ks \in Seq(Keys) /\ {ks[j] : j \in DOMAIN ks} = A
      /\ ls \in Seq(Keys) /\ {ls[j] : j \in DOMAIN ls} = B
  BY <1>1 DEF ListsAll
<1>4. Len(ks) \in Nat /\ DOMAIN ks = 1..Len(ks) /\ Len(ls) \in Nat /\ DOMAIN ls = 1..Len(ls)
  BY <1>3, LenProperties
<1> HIDE DEF A, B, q, r
<1>5. /\ DOMAIN r = 1..(Len(q) + Len(ks) + Len(ls)) /\ Len(r) = Len(q) + Len(ks) + Len(ls)
      /\ \A j \in 1..Len(q) : r[j] = Refreshed(q[j], key, params')
      /\ \A j \in 1..Len(ks) : r[Len(q) + j] = Notice(ks[j], key, value, live)
      /\ \A j \in 1..Len(ls) : r[Len(q) + Len(ks) + j] = Nested(ls[j], key, value, live)
  BY <1>1, <1>2, <1>3, NewQueueIs
<1>6. Len(r) \in Nat /\ DOMAIN r = 1..Len(r)
  BY <1>2, <1>4, <1>5
<1>7. ASSUME NEW i \in DOMAIN q PROVE i \in DOMAIN r /\ r[i] = Refreshed(q[i], key, params')
  <2>1. i \in 1..Len(q) /\ i \in 1..(Len(q) + Len(ks) + Len(ls))
    BY <1>2, <1>4
  <2> QED  BY <1>5, <2>1
<1>8. ASSUME NEW i \in DOMAIN r \ DOMAIN q
      PROVE  \/ \E k \in A : r[i] = Notice(k, key, value, live)
             \/ \E k \in B : r[i] = Nested(k, key, value, live)
  <2>1. i \in Int /\ Len(q) < i /\ i <= Len(q) + Len(ks) + Len(ls)
    BY <1>2, <1>4, <1>5
  <2>2. CASE i <= Len(q) + Len(ks)
    <3> DEFINE j == i - Len(q)
    <3>1. j \in 1..Len(ks) /\ i = Len(q) + j
      BY <1>2, <1>4, <2>1, <2>2
    <3> HIDE DEF j
    <3>2. r[i] = Notice(ks[j], key, value, live) /\ ks[j] \in A
      BY <1>3, <1>4, <1>5, <3>1
    <3> QED  BY <3>2
  <2>3. CASE ~(i <= Len(q) + Len(ks))
    <3> DEFINE j == i - (Len(q) + Len(ks))
    <3>1. j \in 1..Len(ls) /\ i = Len(q) + Len(ks) + j
      BY <1>2, <1>4, <2>1, <2>3
    <3> HIDE DEF j
    <3>2. r[i] = Nested(ls[j], key, value, live) /\ ls[j] \in B
      BY <1>3, <1>4, <1>5, <3>1
    <3> QED  BY <3>2
  <2> QED  BY <2>2, <2>3
<1>9. ASSUME NEW k \in A PROVE \E i \in DOMAIN r \ DOMAIN q : r[i] = Notice(k, key, value, live)
  <2>1. PICK j \in 1..Len(ks) : ks[j] = k
    BY <1>3, <1>4
  <2> DEFINE i == Len(q) + j
  <2>2. i \in DOMAIN r /\ i \notin DOMAIN q
    BY <1>2, <1>4, <1>5
  <2>3. r[i] = Notice(k, key, value, live)
    BY <1>5, <2>1
  <2> HIDE DEF i
  <2> QED  BY <2>2, <2>3
<1>10. ASSUME NEW k \in B PROVE \E i \in DOMAIN r \ DOMAIN q : r[i] = Nested(k, key, value, live)
  <2>1. PICK j \in 1..Len(ls) : ls[j] = k
    BY <1>3, <1>4
  <2> DEFINE i == Len(q) + Len(ks) + j
  <2>2. i \in DOMAIN r /\ i \notin DOMAIN q
    BY <1>2, <1>4, <1>5
  <2>3. r[i] = Nested(k, key, value, live)
    BY <1>5, <2>1
  <2> HIDE DEF i
  <2> QED  BY <2>2, <2>3
<1> QED  BY <1>2, <1>6, <1>7, <1>8, <1>9, <1>10 DEF A, B, q, r

\* An update of the new queue is one that was queued, or a notice, or a nested one.
LEMMA NewQueueElements ==
  ASSUME SubscribersInv, QueueInv, NEW key, NEW value, NEW caller, NEW live,
         OnParamUpdate(key, value, caller, live), NEW n \in Nodes, NEW i \in DOMAIN queue'[n]
  PROVE  \/ \E j \in DOMAIN queue[n] : queue'[n][i] = Refreshed(queue[n][j], key, params')
         \/ n # caller /\ \E k \in Notices(n, key, value) : queue'[n][i] = Notice(k, key, value, live)
         \/ \E k \in NestedNotices(n, key, value) : queue'[n][i] = Nested(k, key, value, live)
  BY NewQueueParts

-----------------------------------------------------------------------------
(* The updates that cannot be taken                                         *)

\* The scalars of an update are known, and so are the paths above its key.
KnownTo(u, S, A) == ScalarsAmong(u.value, u.key, S) /\ WayTo(u.key) \subseteq A

\* An answer that its task has not taken yet.
IsAnswer(t) ==
  /\ WayTo(task[t].key) \subseteq above
  /\ task[t].op = "subscribe" =>
       Settled(task[t].value) /\ << >> \in DOMAIN task[t].value /\ Owner[t] \in subscribers[task[t].key]
  /\ task[t].op # "delete" => ScalarsAmong(task[t].value, task[t].key, scalars)

\* Whatever has a scalar at a path, it has been written there; and whatever has a
\* key, the paths above it have been used as dictionaries.
KindsInv ==
  /\ ScalarsAmong(params, << >>, scalars)
  /\ \A k \in Keys : subscribers[k] # {} => WayTo(k) \subseteq above
  /\ \A n \in Nodes : \A i \in DOMAIN queue[n] : KnownTo(queue[n][i], scalars, above)
  /\ \A n \in Nodes : calling[n] # << >> => KnownTo(Head(calling[n]), scalars, above)
  /\ \A t \in Tasks : task[t].at = "answered" => IsAnswer(t)

\* A node caches what it has subscribed to.
CacheInv ==
  /\ DOMAIN cache = Nodes
  /\ \A n \in Nodes : \A k \in DOMAIN cache[n] :
       k \in Keys /\ n \in subscribers[k] /\ ScalarsAmong(cache[n][k], k, scalars)

LEMMA KnownGrows ==
  ASSUME NEW u, NEW S, NEW A, KnownTo(u, S, A), NEW T, NEW B, S \subseteq T, A \subseteq B
  PROVE  KnownTo(u, T, B)
  BY ScalarsGrow DEF KnownTo

LEMMA UpdateKnown ==
  ASSUME NEW k, NEW v, NEW l, NEW S, NEW A, ScalarsAmong(v, k, S), WayTo(k) \subseteq A
  PROVE  KnownTo(Update(k, v, l), S, A)
<1> DEFINE u == Update(k, v, l)
<1>1. u.key = k /\ u.value = v
  BY UpdateIs
<1> HIDE DEF u
<1>2. KnownTo(u, S, A)
  BY <1>1 DEF KnownTo
<1> QED  BY <1>2 DEF u

LEMMA RefreshedKnown ==
  ASSUME NEW u, Held(u), NEW S, NEW A, KnownTo(u, S, A), NEW tree, DOMAIN tree \subseteq Path,
         ScalarsAmong(tree, << >>, S), NEW key
  PROVE  KnownTo(Refreshed(u, key, tree), S, A)
<1>1. DOMAIN u = {"key", "value", "live"} /\ u.key \in Path
  BY KeysArePaths DEF Held
<1>2. CASE ~u.live
  BY <1>2 DEF Refreshed
<1>3. CASE u.live /\ IsPrefix(key, u.key)
  <2> DEFINE w == [u EXCEPT !.live = FALSE]
  <2>1. w.key = u.key /\ w.value = u.value
    BY <1>1
  <2>2. Refreshed(u, key, tree) = w
    BY <1>3 DEF Refreshed
  <2> HIDE DEF w
  <2> QED  BY <2>1, <2>2 DEF KnownTo
<1>4. CASE u.live /\ ~IsPrefix(key, u.key) /\ IsPrefix(u.key, key)
  <2> DEFINE v == SubTree(tree, u.key)
             w == [u EXCEPT !.value = v]
  <2>1. w.key = u.key /\ w.value = v
    BY <1>1
  <2>2. Refreshed(u, key, tree) = w
    BY <1>4 DEF Refreshed
  <2>3. ScalarsAmong(v, << >> \o u.key, S) /\ << >> \o u.key = u.key /\ << >> \in Path
    BY <1>1, ScalarsOfPart, PathsConcatenate
  <2> HIDE DEF w, v
  <2> QED  BY <2>1, <2>2, <2>3 DEF KnownTo
<1>5. CASE u.live /\ ~IsPrefix(key, u.key) /\ ~IsPrefix(u.key, key)
  BY <1>5 DEF Refreshed
<1> QED  BY <1>2, <1>3, <1>4, <1>5

\* What on_param_update queues has the scalars of the value and of the tree.
LEMMA NoticesKnown ==
  ASSUME SubscribersInv, QueueInv, KindsInv, NEW key \in Keys, NEW value, Settled(value), NEW caller,
         NEW live, OnParamUpdate(key, value, caller, live),
         Settled(params'), ScalarsAmong(params', << >>, scalars'), ScalarsAmong(value, key, scalars'),
         scalars \subseteq scalars', above \subseteq above', WayTo(key) \subseteq above',
         NEW n \in Nodes, NEW i \in DOMAIN queue'[n]
  PROVE  KnownTo(queue'[n][i], scalars', above')
<1>1. DOMAIN params' \subseteq Path /\ key \in Path /\ DOMAIN value \subseteq Path
  BY KeysArePaths DEF Settled
<1>2. \A j \in DOMAIN queue[n] : Held(queue[n][j])
  BY QueueElements DEF QueueInv, Queued
<1>3. CASE \E j \in DOMAIN queue[n] : queue'[n][i] = Refreshed(queue[n][j], key, params')
  <2>1. PICK j \in DOMAIN queue[n] : queue'[n][i] = Refreshed(queue[n][j], key, params')
    BY <1>3
  <2>2. KnownTo(queue[n][j], scalars, above) /\ Held(queue[n][j])
    BY <1>2 DEF KindsInv
  <2>3. KnownTo(queue[n][j], scalars', above')
    BY <2>2, KnownGrows
  <2>4. KnownTo(Refreshed(queue[n][j], key, params'), scalars', above')
    BY <1>1, <2>2, <2>3, RefreshedKnown
  <2> QED  BY <2>1, <2>4
<1>4. CASE \E k \in Notices(n, key, value) : queue'[n][i] = Notice(k, key, value, live)
  <2>1. PICK k \in Notices(n, key, value) : queue'[n][i] = Notice(k, key, value, live)
    BY <1>4
  <2>2. k \in Keys /\ WayTo(k) \subseteq above'
    BY DEF Notices, KindsInv
  <2>3. KnownTo(Update(key, value, live), scalars', above')
    BY UpdateKnown
  <2>4. KnownTo(Update(k, EmptyTree, FALSE), scalars', above')
    BY <2>2, ScalarsOfEmpty, UpdateKnown
  <2> QED  BY <2>1, <2>3, <2>4 DEF Notice
<1>5. CASE \E k \in NestedNotices(n, key, value) : queue'[n][i] = Nested(k, key, value, live)
  <2>1. PICK k \in NestedNotices(n, key, value) : queue'[n][i] = Nested(k, key, value, live)
    BY <1>5
  <2>2. k \in Keys /\ WayTo(k) \subseteq above' /\ IsPrefix(key, k) /\ k \in Path
    BY KeysArePaths DEF NestedNotices, KindsInv, IsStrictPrefix
  <2>3. Below(key, k) \in Path /\ k = key \o Below(key, k)
    BY <1>1, <2>2, PathsConcatenate DEF Below
  <2>4. ScalarsAmong(SubTree(value, Below(key, k)), key \o Below(key, k), scalars')
    BY <1>1, <2>3, ScalarsOfPart
  <2> DEFINE part == SubTree(value, Below(key, k))
  <2>5. Nested(k, key, value, live) = Update(k, part, live /\ IsDictValue(part))
    BY DEF Nested
  <2> HIDE DEF part
  <2>6. KnownTo(Update(k, part, live /\ IsDictValue(part)), scalars', above')
    BY <2>2, <2>3, <2>4, UpdateKnown DEF part
  <2> QED  BY <2>1, <2>5, <2>6
<1> QED  BY <1>3, <1>4, <1>5, NewQueueElements

\* A cache that an update or a delete has changed.
LEMMA UpdatedScalars ==
  ASSUME NEW c, NEW S, \A k \in DOMAIN c : k \in Keys /\ ScalarsAmong(c[k], k, S),
         NEW key \in Keys, NEW value, ScalarsAmong(value, key, S)
  PROVE  /\ DOMAIN Updated(c, key, value) = DOMAIN c
         /\ \A k \in DOMAIN c : ScalarsAmong(Updated(c, key, value)[k], k, S)
<1>1. DOMAIN Updated(c, key, value) = DOMAIN c
  BY DEF Updated
<1>2. ASSUME NEW k \in DOMAIN c PROVE ScalarsAmong(Updated(c, key, value)[k], k, S)
  <2> DEFINE B == Before(Namespaces(c, key), UpdateFails(c, key))
  <2>1. Updated(c, key, value)[k] = IF k \in B THEN Stored(c[k], Below(k, key), value) ELSE c[k]
    BY DEF Updated
  <2>2. k \in B => IsPrefix(k, key)
    BY DEF Before, Namespaces
  <2> HIDE DEF B
  <2>3. CASE k \in B
    <3>1. k \in Path /\ key \in Path /\ IsPrefix(k, key)
      BY <2>2, <2>3, KeysArePaths
    <3>2. Below(k, key) \in Path /\ key = k \o Below(k, key)
      BY <3>1, PathsConcatenate DEF Below
    <3>3. DOMAIN value \subseteq Seq(STRING)
      BY DEF ScalarsAmong
    <3>4. ScalarsAmong(c[k], k, S) /\ ScalarsAmong(value, k \o Below(k, key), S)
      BY <3>2
    <3>5. ScalarsAmong(Stored(c[k], Below(k, key), value), k, S)
      BY <3>1, <3>2, <3>3, <3>4, ScalarsStored
    <3> QED  BY <2>1, <2>3, <3>5
  <2>4. CASE k \notin B
    BY <2>1, <2>4
  <2> QED  BY <2>3, <2>4
<1> QED  BY <1>1, <1>2

LEMMA DeletedScalars ==
  ASSUME NEW c, NEW S, \A k \in DOMAIN c : k \in Keys /\ ScalarsAmong(c[k], k, S), NEW key \in Keys
  PROVE  /\ DOMAIN Deleted(c, key) = DOMAIN c
         /\ \A k \in DOMAIN c : ScalarsAmong(Deleted(c, key)[k], k, S)
<1>1. DOMAIN Deleted(c, key) = DOMAIN c
  BY DEF Deleted
<1>2. ASSUME NEW k \in DOMAIN c PROVE ScalarsAmong(Deleted(c, key)[k], k, S)
  <2>1. \/ Deleted(c, key)[k] = Removed(c[k], Below(k, key))
        \/ Deleted(c, key)[k] = c[k]
    BY DEF Deleted
  <2> QED  BY <2>1, ScalarsRemoved
<1> QED  BY <1>1, <1>2

\* Nothing that is known is forgotten.
Grows ==
  /\ scalars \subseteq scalars' /\ above \subseteq above'
  /\ \A k \in Keys : subscribers[k] \subseteq subscribers'[k]

LEMMA AnswerStays ==
  ASSUME NEW t \in Tasks, TaskInv, task'[t] = task[t], task[t].at = "answered", IsAnswer(t), Grows
  PROVE  IsAnswer(t)'
<1>1. task[t].key \in Keys
  BY DEF TaskInv, IsTask, Idle
<1> QED  BY <1>1, ScalarsGrow DEF IsAnswer, Grows

LEMMA CacheStays ==
  ASSUME CacheInv, Grows, cache' = cache
  PROVE  CacheInv'
  BY ScalarsGrow DEF CacheInv, Grows

\* The cache of one node changes.
LEMMA CacheChanges ==
  ASSUME CacheInv, UNCHANGED <<scalars, subscribers>>, NEW n \in Nodes, NEW c,
         cache' = [cache EXCEPT ![n] = c],
         \A k \in DOMAIN c : k \in Keys /\ n \in subscribers[k] /\ ScalarsAmong(c[k], k, scalars)
  PROVE  CacheInv'
<1>1. cache'[n] = c /\ DOMAIN cache' = Nodes /\ \A m \in Nodes : m # n => cache'[m] = cache[m]
  BY DEF CacheInv
<1> QED  BY <1>1 DEF CacheInv

\* What a task is after its call has been answered.
LEMMA AnsweredIs ==
  ASSUME TaskInv, NEW t \in Tasks, task[t].at = "sent", task' = [task EXCEPT ![t].at = "answered"]
  PROVE  /\ task'[t].at = "answered" /\ task'[t].op = task[t].op /\ task'[t].key = task[t].key
         /\ task[t].op = "set" => task'[t].value = task[t].value
         /\ \A s \in Tasks : s # t => task'[s] = task[s]
<1>1. task[t] # Idle /\ {"at", "op", "key"} \subseteq DOMAIN task[t]
      /\ (task[t].op = "set" => "value" \in DOMAIN task[t])
  BY DEF TaskInv, IsTask, Idle
<1>2. task'[t] = [task[t] EXCEPT !.at = "answered"] /\ \A s \in Tasks : s # t => task'[s] = task[s]
  BY DEF TaskInv
<1> QED  BY <1>1, <1>2

LEMMA IdleIs == Idle.at # "answered" /\ Idle.at # "sent"
  BY DEF Idle

LEMMA InitKinds == Init => KindsInv /\ CacheInv
<1> SUFFICES ASSUME Init PROVE KindsInv /\ CacheInv
  OBVIOUS
<1>1. ScalarsAmong(params, << >>, scalars)
  <2>1. Settled(params) /\ scalars = ScalarPaths(<< >>, params)
    BY InitInv DEF Init, Inv, ParamsInv
  <2>2. DOMAIN params \subseteq Seq(STRING)
    BY <2>1, PathsAreSequences DEF Settled
  <2> QED  BY <2>1, <2>2, ScalarPathsAre
<1>2. /\ \A k \in Keys : subscribers[k] = {}
      /\ \A n \in Nodes : queue[n] = << >> /\ calling[n] = << >> /\ cache[n] = EmptyDict
      /\ \A t \in Tasks : task[t] = Idle
      /\ DOMAIN cache = Nodes
  BY DEF Init
<1>3. DOMAIN EmptyDict = {}
  BY DEF EmptyDict
<1>4. DOMAIN << >> = {}
  OBVIOUS
<1> QED  BY <1>1, <1>2, <1>3, <1>4, IdleIs DEF KindsInv, CacheInv

\* What is in transit is still known if nothing is sent or answered.
LEMMA KindsStay ==
  ASSUME KindsInv, TaskInv, UNCHANGED <<params, subscribers, queue, calling, scalars, above>>,
         \A t \in Tasks : task'[t] = task[t] \/ task'[t].at # "answered"
  PROVE  KindsInv'
<1>1. Grows
  BY DEF Grows
<1>2. ASSUME NEW t \in Tasks, task'[t].at = "answered" PROVE IsAnswer(t)'
  <2>1. task'[t] = task[t] /\ task[t].at = "answered" /\ IsAnswer(t)
    BY <1>2 DEF KindsInv
  <2> QED  BY <1>1, <2>1, AnswerStays
<1> QED  BY <1>2 DEF KindsInv

\* A write is known to the queues and to its answer.
LEMMA WriteKnown ==
  ASSUME Inv, Inv', KindsInv, NEW t \in Tasks, NEW key \in Keys, NEW value, Settled(value), NEW live,
         task[t].at = "sent", task[t].op \in {"set", "delete"}, task[t].key = key,
         task' = [task EXCEPT ![t].at = "answered"],
         OnParamUpdate(key, value, Owner[t], live), UNCHANGED <<subscribers, calling>>,
         scalars \subseteq scalars', above' = above \cup WayTo(key),
         ScalarsAmong(params', << >>, scalars'), ScalarsAmong(value, key, scalars'),
         task[t].op = "set" => ScalarsAmong(task[t].value, key, scalars')
  PROVE  KindsInv'
<1>1. Grows
  BY DEF Grows
<1>2. Settled(params') /\ SubscribersInv /\ QueueInv /\ TaskInv
  BY DEF Inv, ParamsInv
<1>3. ASSUME NEW n \in Nodes, NEW i \in DOMAIN queue'[n] PROVE KnownTo(queue'[n][i], scalars', above')
  BY <1>1, <1>2, NoticesKnown DEF Grows
<1>4. ASSUME NEW n \in Nodes, calling'[n] # << >> PROVE KnownTo(Head(calling'[n]), scalars', above')
  <2>1. KnownTo(Head(calling[n]), scalars, above) /\ calling'[n] = calling[n]
    BY <1>4 DEF KindsInv
  <2> QED  BY <1>1, <2>1, KnownGrows DEF Grows
<1>5. ASSUME NEW s \in Tasks, task'[s].at = "answered" PROVE IsAnswer(s)'
  <2>1. CASE s = t
    <3>1. /\ task'[t].op = task[t].op /\ task'[t].key = key
          /\ task[t].op = "set" => task'[t].value = task[t].value
      BY <1>2, AnsweredIs
    <3>2. task'[t].op # "subscribe"
      BY <3>1
    <3>3. task'[t].op # "delete" => ScalarsAmong(task'[t].value, task'[t].key, scalars')
      BY <3>1
    <3>4. WayTo(task'[t].key) \subseteq above'
      BY <3>1
    <3> QED  BY <2>1, <3>2, <3>3, <3>4 DEF IsAnswer
  <2>2. CASE s # t
    <3>1. task'[s] = task[s]
      BY <1>2, <2>2, AnsweredIs
    <3>2. task[s].at = "answered" /\ IsAnswer(s)
      BY <1>5, <3>1 DEF KindsInv
    <3> QED  BY <1>1, <1>2, <3>1, <3>2, AnswerStays
  <2> QED  BY <2>1, <2>2
<1>6. \A k \in Keys : subscribers'[k] # {} => WayTo(k) \subseteq above'
  BY DEF KindsInv
<1> QED  BY <1>3, <1>4, <1>5, <1>6 DEF KindsInv

\* Every operation keeps what is known of the paths.
LEMMA StepKinds == Inv /\ Inv' /\ KindsInv /\ CacheInv /\ [Next]_vars => KindsInv' /\ CacheInv'
<1> SUFFICES ASSUME Inv, Inv', KindsInv, CacheInv, [Next]_vars PROVE KindsInv' /\ CacheInv'
  OBVIOUS
<1>0. TaskInv /\ SubscribersInv /\ QueueInv /\ CallingInv /\ Settled(params) /\ DOMAIN task = Tasks
  BY DEF Inv, ParamsInv, TaskInv
<1>1. CASE UNCHANGED vars
  <2>1. UNCHANGED <<params, subscribers, queue, calling, cache, task, scalars, above>>
    BY <1>1 DEF vars, master, updates, kinds
  <2>2. Grows
    BY <2>1 DEF Grows
  <2> QED  BY <1>0, <2>1, <2>2, KindsStay, CacheStays
<1>2. ASSUME NEW t \in Tasks, GetParamCached(t) \/ SetParam(t) \/ DeleteParam(t)
      PROVE  KindsInv' /\ CacheInv'
  <2>1. UNCHANGED <<params, subscribers, queue, calling, cache, scalars, above>>
    BY <1>2 DEF GetParamCached, SetParam, DeleteParam, Call, master, updates, kinds
  <2>2. \A s \in Tasks : task'[s] = task[s] \/ task'[s].at # "answered"
    <3>1. CASE GetParamCached(t)
      <4>1. PICK name \in Names :
              Call(t, [at |-> "sent", op |-> "subscribe", key |-> Resolve(Owner[t], name)])
        BY <3>1 DEF GetParamCached
      <4> QED  BY <1>0, <4>1 DEF Call
    <3>2. CASE SetParam(t)
      <4>1. PICK name \in Names, value \in Values :
              Call(t, [at |-> "sent", op |-> "set", key |-> Resolve(Owner[t], name), value |-> value])
        BY <3>2 DEF SetParam
      <4> QED  BY <1>0, <4>1 DEF Call
    <3>3. CASE DeleteParam(t)
      <4>1. PICK name \in Names :
              Call(t, [at |-> "sent", op |-> "delete", key |-> Resolve(Owner[t], name)])
        BY <3>3 DEF DeleteParam
      <4> QED  BY <1>0, <4>1 DEF Call
    <3> QED  BY <1>2, <3>1, <3>2, <3>3
  <2>3. Grows
    BY <2>1 DEF Grows
  <2> QED  BY <1>0, <2>1, <2>2, <2>3, KindsStay, CacheStays
<1>3. ASSUME NEW t \in Tasks, HandleSubscribe(t) PROVE KindsInv' /\ CacheInv'
  <2> DEFINE key == task[t].key
             value == Transferred(Found(params, key))
  <2>1. key \in Keys /\ key \in Path
    BY <1>0, <1>3, KeysArePaths DEF HandleSubscribe, TaskInv, IsTask, Idle
  <2>2. /\ UNCHANGED <<params, queue, calling, cache, scalars>>
        /\ above' = above \cup WayTo(key)
        /\ subscribers' = [subscribers EXCEPT ![key] = @ \cup {Owner[t]}]
        /\ task' = [task EXCEPT ![t] = [at |-> "answered", op |-> "subscribe", key |-> key, value |-> value]]
    BY <1>0, <1>3 DEF HandleSubscribe, updates
  <2>3. Settled(value) /\ << >> \in DOMAIN value /\ ScalarsAmong(value, key, scalars)
    <3>1. /\ Settled(Found(params, key)) /\ << >> \in DOMAIN Found(params, key)
          /\ ScalarsAmong(Found(params, key), key, scalars)
      <4>1. CASE key \in DOMAIN params
        <5>1. Settled(SubTree(params, key)) /\ << >> \in DOMAIN SubTree(params, key)
          BY <1>0, <2>1, <4>1, SubTreeSettled
        <5>2. ScalarsAmong(SubTree(params, key), << >> \o key, scalars) /\ << >> \o key = key
          BY <1>0, <2>1, ScalarsOfPart, PathsConcatenate DEF Settled, KindsInv
        <5> QED  BY <4>1, <5>1, <5>2 DEF Found
      <4>2. CASE key \notin DOMAIN params
        BY <4>2, EmptySettled, ScalarsOfEmpty DEF Found
      <4> QED  BY <4>1, <4>2
    <3> QED  BY <3>1, SettledStays
  <2> HIDE DEF key, value
  <2>4. Grows
    <3>1. \A k \in Keys : subscribers[k] \subseteq subscribers'[k]
      BY <1>0, <2>1, <2>2 DEF SubscribersInv
    <3> QED  BY <2>2, <3>1 DEF Grows
  <2>5. Owner[t] \in subscribers'[key]
    BY <1>0, <2>1, <2>2 DEF SubscribersInv
  <2>6. ASSUME NEW s \in Tasks, task'[s].at = "answered" PROVE IsAnswer(s)'
    <3>1. CASE s = t
      <4>1. task'[t].op = "subscribe" /\ task'[t].key = key /\ task'[t].value = value
        BY <1>0, <2>2
      <4> QED  BY <2>2, <2>3, <2>5, <3>1, <4>1 DEF IsAnswer
    <3>2. CASE s # t
      <4>1. task'[s] = task[s]
        BY <1>0, <2>2, <3>2
      <4>2. task[s].at = "answered" /\ IsAnswer(s)
        BY <2>6, <4>1 DEF KindsInv
      <4> QED  BY <1>0, <2>4, <4>1, <4>2, AnswerStays
    <3> QED  BY <3>1, <3>2
  <2>7. \A k \in Keys : subscribers'[k] # {} => WayTo(k) \subseteq above'
    BY <1>0, <2>1, <2>2 DEF SubscribersInv, KindsInv
  <2>8. \A n \in Nodes : \A i \in DOMAIN queue'[n] : KnownTo(queue'[n][i], scalars', above')
    BY <2>2, <2>4, KnownGrows DEF KindsInv, Grows
  <2>9. \A n \in Nodes : calling'[n] # << >> => KnownTo(Head(calling'[n]), scalars', above')
    BY <2>2, <2>4, KnownGrows DEF KindsInv, Grows
  <2>10. KindsInv'
    BY <2>2, <2>6, <2>7, <2>8, <2>9 DEF KindsInv
  <2> QED  BY <2>2, <2>4, <2>10, CacheStays
<1>4. ASSUME NEW t \in Tasks, CallNotAccepted(t) PROVE KindsInv' /\ CacheInv'
  <2>1. UNCHANGED <<params, subscribers, queue, calling, cache, task, scalars, above>>
    BY <1>4 DEF CallNotAccepted, master, updates, kinds
  <2>2. Grows
    BY <2>1 DEF Grows
  <2> QED  BY <1>0, <2>1, <2>2, KindsStay, CacheStays
<1>5. ASSUME NEW t \in Tasks, HandleSet(t) PROVE KindsInv' /\ CacheInv'
  <2> DEFINE key == task[t].key
             raw == task[t].value
             value == Transferred(raw)
  <2>1. /\ key \in Keys /\ raw \in Values /\ task[t].at = "sent" /\ task[t].op = "set"
    BY <1>0, <1>5 DEF HandleSet, TaskInv, IsTask, Idle
  <2>2. /\ Settled(value) /\ << >> \in DOMAIN value
        /\ DOMAIN value \subseteq Seq(STRING) /\ DOMAIN raw \subseteq Seq(STRING)
    <3>1. IsValue(raw) /\ Accepted(raw)
      BY <1>5, <2>1, ValuesAssumption DEF HandleSet
    <3>2. Settled(value) /\ << >> \in DOMAIN value
      BY <3>1, ReceivedSettled
    <3> QED  BY <3>1, <3>2, PathsAreSequences DEF IsValue, IsTree, Settled
  <2>3. UNCHANGED <<subscribers, calling, cache>>
    BY <1>5 DEF HandleSet
  <2>4. CASE key = << >> /\ ~IsDictValue(value)
    <3>1. task' = [task EXCEPT ![t] = Idle] /\ UNCHANGED <<params, queue, scalars, above>>
      BY <1>5, <2>4 DEF HandleSet, kinds
    <3>2. \A s \in Tasks : task'[s] = task[s] \/ task'[s].at # "answered"
      BY <1>0, <3>1, IdleIs
    <3>3. Grows
      BY <2>3, <3>1 DEF Grows
    <3> QED  BY <1>0, <2>3, <3>1, <3>2, <3>3, KindsStay, CacheStays
  <2>5. CASE ~(key = << >> /\ ~IsDictValue(value))
    <3>1. /\ params' = Stored(params, key, value)
          /\ OnParamUpdate(key, value, Owner[t], IsDictValue(value))
          /\ task' = [task EXCEPT ![t].at = "answered"]
          /\ scalars' = scalars \cup ScalarPaths(key, value) \cup ScalarPaths(key, raw)
          /\ above' = above \cup WayTo(key)
      BY <1>5, <2>5 DEF HandleSet
    <3>2. task[t].key = key /\ task[t].value = raw
      OBVIOUS
    <3> HIDE DEF key, value, raw
    <3>3. key \in Path
      BY <2>1, KeysArePaths
    <3>4. ScalarsAmong(value, key, scalars') /\ ScalarsAmong(raw, key, scalars')
      <4>1. ScalarPaths(key, value) \subseteq scalars' /\ ScalarPaths(key, raw) \subseteq scalars'
        BY <3>1
      <4> QED  BY <2>2, <4>1, ScalarPathsAre
    <3>5. ScalarsAmong(params', << >>, scalars')
      <4>1. ScalarsAmong(params, << >>, scalars')
        BY <3>1, ScalarsGrow DEF KindsInv
      <4>2. << >> \o key = key /\ << >> \in Path
        BY <3>3, PathsConcatenate
      <4>3. ScalarsAmong(value, << >> \o key, scalars')
        BY <3>4, <4>2
      <4>4. ScalarsAmong(Stored(params, key, value), << >>, scalars')
        BY <2>2, <3>3, <4>1, <4>2, <4>3, ScalarsStored
      <4> QED  BY <3>1, <4>4
    <3>6. scalars \subseteq scalars'
      BY <3>1
    <3>7. KindsInv'
      BY <2>1, <2>2, <2>3, <3>1, <3>2, <3>4, <3>5, <3>6, WriteKnown
    <3>8. Grows
      BY <2>3, <3>1 DEF Grows
    <3> QED  BY <2>3, <3>7, <3>8, CacheStays
  <2> QED  BY <2>4, <2>5
<1>6. ASSUME NEW t \in Tasks, HandleDelete(t) PROVE KindsInv' /\ CacheInv'
  <2> DEFINE key == task[t].key
  <2>1. key \in Keys /\ task[t].at = "sent" /\ task[t].op = "delete"
    BY <1>0, <1>6 DEF HandleDelete, TaskInv, IsTask, Idle
  <2>2. UNCHANGED <<subscribers, calling, cache, scalars>>
    BY <1>6 DEF HandleDelete
  <2>3. CASE key = << >> \/ key \notin DOMAIN params
    <3>1. task' = [task EXCEPT ![t] = Idle] /\ UNCHANGED <<params, queue, above>>
      BY <1>6, <2>3 DEF HandleDelete
    <3>2. \A s \in Tasks : task'[s] = task[s] \/ task'[s].at # "answered"
      BY <1>0, <3>1, IdleIs
    <3>3. Grows
      BY <2>2, <3>1 DEF Grows
    <3> QED  BY <1>0, <2>2, <3>1, <3>2, <3>3, KindsStay, CacheStays
  <2>4. CASE ~(key = << >> \/ key \notin DOMAIN params)
    <3>1. /\ params' = Removed(params, key)
          /\ OnParamUpdate(key, EmptyTree, Owner[t], FALSE)
          /\ task' = [task EXCEPT ![t].at = "answered"]
          /\ above' = above \cup WayTo(key)
      BY <1>6, <2>4 DEF HandleDelete, DeletedValue
    <3>2. task[t].key = key
      OBVIOUS
    <3> HIDE DEF key
    <3>3. ScalarsAmong(params', << >>, scalars')
      BY <2>2, <3>1, ScalarsRemoved DEF KindsInv
    <3>4. Settled(EmptyTree) /\ ScalarsAmong(EmptyTree, key, scalars')
      BY EmptySettled, ScalarsOfEmpty
    <3>5. KindsInv'
      BY <2>1, <2>2, <3>1, <3>2, <3>3, <3>4, WriteKnown
    <3>6. Grows
      BY <2>2, <3>1 DEF Grows
    <3> QED  BY <2>2, <3>5, <3>6, CacheStays
  <2> QED  BY <2>3, <2>4
<1>7. ASSUME NEW t \in Tasks, SubscribeAnswered(t) \/ SetAnswered(t) \/ DeleteAnswered(t)
      PROVE  KindsInv' /\ CacheInv'
  <2> DEFINE n == Owner[t]
             key == task[t].key
             c == cache[n]
  <2>1. /\ task' = [task EXCEPT ![t] = Idle] /\ task[t].at = "answered"
        /\ UNCHANGED <<params, subscribers, queue, calling, scalars, above>>
    BY <1>7 DEF SubscribeAnswered, SetAnswered, DeleteAnswered, master, updates, kinds
  <2>2. \A s \in Tasks : task'[s] = task[s] \/ task'[s].at # "answered"
    BY <1>0, <2>1, IdleIs
  <2>3. KindsInv'
    BY <1>0, <2>1, <2>2, KindsStay
  <2>4. /\ n \in Nodes /\ key \in Keys /\ IsAnswer(t)
        /\ \A k \in DOMAIN c : k \in Keys /\ n \in subscribers[k] /\ ScalarsAmong(c[k], k, scalars)
    <3>1. n \in Nodes
      BY OwnerAssumption
    <3>2. key \in Keys
      BY <1>0, <2>1 DEF TaskInv, IsTask, Idle
    <3>3. IsAnswer(t)
      BY <2>1 DEF KindsInv
    <3> QED  BY <3>1, <3>2, <3>3 DEF CacheInv
  <2>5. \E d : /\ cache' = [cache EXCEPT ![n] = d]
               /\ \A k \in DOMAIN d : k \in Keys /\ n \in subscribers[k] /\ ScalarsAmong(d[k], k, scalars)
    <3>1. CASE SubscribeAnswered(t)
      <4> DEFINE d == Put(c, key, task[t].value)
      <4>1. cache' = [cache EXCEPT ![n] = d] /\ task[t].op = "subscribe"
        BY <2>4, <3>1 DEF SubscribeAnswered, CacheInv
      <4>2. n \in subscribers[key] /\ ScalarsAmong(task[t].value, key, scalars)
        BY <2>4, <4>1 DEF IsAnswer
      <4>3. \A k \in DOMAIN d : k \in Keys /\ n \in subscribers[k] /\ ScalarsAmong(d[k], k, scalars)
        BY <2>4, <4>2 DEF Put
      <4> HIDE DEF d
      <4> QED  BY <4>1, <4>3
    <3>2. CASE SetAnswered(t)
      <4> DEFINE d == Updated(c, key, task[t].value)
      <4>1. cache' = [cache EXCEPT ![n] = d] /\ task[t].op = "set"
        BY <2>4, <3>2 DEF SetAnswered, CacheInv
      <4>2. ScalarsAmong(task[t].value, key, scalars)
        BY <2>4, <4>1 DEF IsAnswer
      <4>3. DOMAIN d = DOMAIN c /\ \A k \in DOMAIN c : ScalarsAmong(d[k], k, scalars)
        BY <2>4, <4>2, UpdatedScalars
      <4> HIDE DEF d
      <4> QED  BY <2>4, <4>1, <4>3
    <3>3. CASE DeleteAnswered(t)
      <4> DEFINE d == Deleted(c, key)
      <4>1. cache' = [cache EXCEPT ![n] = d]
        BY <2>4, <3>3 DEF DeleteAnswered, CacheInv
      <4>2. DOMAIN d = DOMAIN c /\ \A k \in DOMAIN c : ScalarsAmong(d[k], k, scalars)
        BY <2>4, DeletedScalars
      <4> HIDE DEF d
      <4> QED  BY <2>4, <4>1, <4>2
    <3> QED  BY <1>7, <3>1, <3>2, <3>3
  <2> HIDE DEF n, key, c
  <2>6. PICK d : /\ cache' = [cache EXCEPT ![n] = d]
                 /\ \A k \in DOMAIN d : k \in Keys /\ n \in subscribers[k] /\ ScalarsAmong(d[k], k, scalars)
    BY <2>5
  <2>7. CacheInv'
    BY <2>1, <2>4, <2>6, CacheChanges
  <2> QED  BY <2>3, <2>7
<1>8. ASSUME NEW n \in Nodes, ServeTakes(n) PROVE KindsInv' /\ CacheInv'
  <2> DEFINE u == Head(queue[n])
             w == [u EXCEPT !.value = Transferred(@)]
  <2>1. /\ queue[n] # << >> /\ calling' = [calling EXCEPT ![n] = <<w>>]
        /\ queue' = [queue EXCEPT ![n] = Tail(queue[n])]
        /\ UNCHANGED <<params, subscribers, task, cache, scalars, above>>
    BY <1>0, <1>8 DEF ServeTakes, master, kinds, QueueInv
  <2>2. IsQueue(queue[n], params)
    BY <1>0 DEF QueueInv
  <2>3. Held(u) /\ KnownTo(u, scalars, above) /\ \A i \in DOMAIN Tail(queue[n]) : KnownTo(Tail(queue[n])[i], scalars, above)
    <3>1. PICK L : queue[n] \in Seq(L) /\ \A x \in L : Queued(x, params)
      BY <2>2 DEF IsQueue
    <3>2. /\ u = queue[n][1] /\ 1 \in DOMAIN queue[n] /\ u \in L
          /\ \A i \in DOMAIN Tail(queue[n]) : i + 1 \in DOMAIN queue[n] /\ Tail(queue[n])[i] = queue[n][i + 1]
      <4>1. queue[n] \in Seq(L) /\ queue[n] # << >>
        BY <2>1, <3>1
      <4>2. Len(queue[n]) \in Nat /\ Len(queue[n]) # 0 /\ DOMAIN queue[n] = 1..Len(queue[n])
        BY <4>1, LenProperties, EmptySeq
      <4>3. /\ u = queue[n][1] /\ Tail(queue[n]) \in Seq(L) /\ Len(Tail(queue[n])) = Len(queue[n]) - 1
            /\ \A i \in 1..Len(Tail(queue[n])) : Tail(queue[n])[i] = queue[n][i + 1]
        BY <4>1, HeadTailProperties
      <4>4. DOMAIN Tail(queue[n]) = 1..Len(Tail(queue[n]))
        BY <4>3, LenProperties
      <4>5. u \in L
        BY <4>1, <4>2, <4>3, ElementOfSeq
      <4> QED  BY <4>2, <4>3, <4>4, <4>5
    <3> QED  BY <3>1, <3>2 DEF Queued, KindsInv
  <2>4. w.key = u.key /\ w.value = u.value
    <3>1. Transferred(u.value) = u.value /\ DOMAIN u = {"key", "value", "live"}
      BY <2>3, SettledStays DEF Held
    <3> HIDE DEF u
    <3> QED  BY <3>1
  <2>5. Head(<<w>>) = w
    BY HeadOfOne
  <2> HIDE DEF w, u
  <2>6. \A m \in Nodes : \A i \in DOMAIN queue'[m] : KnownTo(queue'[m][i], scalars', above')
    <3>1. \A m \in Nodes : m # n => queue'[m] = queue[m]
      BY <1>0, <2>1 DEF QueueInv
    <3>2. queue'[n] = Tail(queue[n])
      BY <1>0, <2>1 DEF QueueInv
    <3> QED  BY <2>1, <2>3, <3>1, <3>2 DEF KindsInv
  <2>7. \A m \in Nodes : calling'[m] # << >> => KnownTo(Head(calling'[m]), scalars', above')
    <3>1. calling'[n] = <<w>> /\ \A m \in Nodes : m # n => calling'[m] = calling[m]
      BY <1>0, <2>1 DEF CallingInv
    <3>2. KnownTo(Head(calling'[n]), scalars', above')
      BY <2>1, <2>3, <2>4, <2>5, <3>1 DEF KnownTo
    <3> QED  BY <2>1, <3>1, <3>2 DEF KindsInv
  <2>8. Grows
    BY <2>1 DEF Grows
  <2>9. \A t \in Tasks : task'[t].at = "answered" => IsAnswer(t)'
    BY <1>0, <2>1, <2>8, AnswerStays DEF KindsInv
  <2>10. KindsInv'
    BY <2>1, <2>6, <2>7, <2>9 DEF KindsInv
  <2> QED  BY <2>1, <2>8, <2>10, CacheStays
<1>9. ASSUME NEW n \in Nodes, ParamUpdate(n) PROVE KindsInv' /\ CacheInv'
  <2> DEFINE u == Head(calling[n])
             c == cache[n]
             d == Updated(c, u.key, u.value)
  <2>1. /\ calling[n] # << >> /\ calling' = [calling EXCEPT ![n] = << >>]
        /\ cache' = [cache EXCEPT ![n] = d]
        /\ UNCHANGED <<params, subscribers, queue, task, scalars, above>>
    BY <1>9 DEF ParamUpdate, master, kinds, CacheInv
  <2>2. Held(u) /\ KnownTo(u, scalars, above)
    <3>1. PICK x : Held(x) /\ calling[n] = <<x>>
      BY <1>0, <2>1 DEF CallingInv
    <3>2. u = x
      BY <3>1, HeadOfOne
    <3> QED  BY <2>1, <3>1, <3>2 DEF KindsInv
  <2>3. \A k \in DOMAIN c : k \in Keys /\ n \in subscribers[k] /\ ScalarsAmong(c[k], k, scalars)
    BY DEF CacheInv
  <2> HIDE DEF u, c
  <2>4. u.key \in Keys /\ ScalarsAmong(u.value, u.key, scalars)
    BY <2>2 DEF Held, KnownTo
  <2>5. DOMAIN d = DOMAIN c /\ \A k \in DOMAIN c : ScalarsAmong(d[k], k, scalars)
    BY <2>3, <2>4, UpdatedScalars
  <2> HIDE DEF d
  <2>6. CacheInv'
    BY <2>1, <2>3, <2>5, CacheChanges
  <2>7. \A m \in Nodes : calling'[m] # << >> => KnownTo(Head(calling'[m]), scalars', above')
    <3>1. calling'[n] = << >> /\ \A m \in Nodes : m # n => calling'[m] = calling[m]
      BY <1>0, <2>1 DEF CallingInv
    <3> QED  BY <2>1, <3>1 DEF KindsInv
  <2>8. Grows
    BY <2>1 DEF Grows
  <2>9. \A t \in Tasks : task'[t].at = "answered" => IsAnswer(t)'
    BY <1>0, <2>1, <2>8, AnswerStays DEF KindsInv
  <2>10. KindsInv'
    BY <2>1, <2>7, <2>9 DEF KindsInv
  <2> QED  BY <2>6, <2>10
<1> QED
  BY <1>1, <1>2, <1>3, <1>4, <1>5, <1>6, <1>7, <1>8, <1>9 DEF Next

LEMMA InitDown == Init => DownOnlyIfMixed
  BY DEF Init, DownOnlyIfMixed

\* An update fails only at a scalar above its key, and both are known.
LEMMA StepDown == Inv /\ KindsInv /\ CacheInv /\ DownOnlyIfMixed /\ [Next]_vars => DownOnlyIfMixed'
<1> SUFFICES ASSUME Inv, KindsInv, CacheInv, DownOnlyIfMixed, [Next]_vars PROVE DownOnlyIfMixed'
  OBVIOUS
<1>1. CASE UNCHANGED vars
  BY <1>1 DEF vars, kinds, DownOnlyIfMixed, Mixed
<1>2. ASSUME NEW t \in Tasks, CallNotAccepted(t) PROVE DownOnlyIfMixed'
  <2>1. task[t].at = "sent" /\ task[t].op = "set" /\ ~Accepted(task[t].value) /\ task' = task
    BY <1>2 DEF CallNotAccepted
  <2> QED  BY <2>1 DEF DownOnlyIfMixed
<1>3. ASSUME NEW n \in Nodes, ParamUpdate(n) PROVE DownOnlyIfMixed'
  <2> DEFINE u == Head(calling[n])
             c == cache[n]
  <2>1. calling[n] # << >> /\ down' = (UpdateFails(c, u.key) # {}) /\ UNCHANGED <<scalars, above>>
    BY <1>3 DEF ParamUpdate, kinds
  <2>2. Held(u) /\ KnownTo(u, scalars, above)
    <3>1. PICK x : Held(x) /\ calling[n] = <<x>>
      BY <2>1 DEF Inv, CallingInv
    <3>2. u = x
      BY <3>1, HeadOfOne
    <3> QED  BY <2>1, <3>1, <3>2 DEF KindsInv
  <2>3. \A k \in DOMAIN c : k \in Keys /\ ScalarsAmong(c[k], k, scalars)
    BY DEF CacheInv
  <2> HIDE DEF u, c
  <2>4. ASSUME UpdateFails(c, u.key) # {} PROVE Mixed'
    <3>1. PICK k \in Namespaces(c, u.key) : Blocked(c[k], Below(k, u.key))
      BY <2>4 DEF UpdateFails
    <3>2. k \in DOMAIN c /\ IsPrefix(k, u.key)
      BY DEF Namespaces
    <3>3. k \in Path /\ u.key \in Path /\ ScalarsAmong(c[k], k, scalars)
      BY <2>2, <2>3, <3>2, KeysArePaths DEF Held
    <3>4. scalars \cap WayTo(u.key) # {}
      BY <3>1, <3>2, <3>3, BlockedMixes
    <3>5. WayTo(u.key) \subseteq above
      BY <2>2 DEF KnownTo
    <3>6. scalars \cap above # {}
      BY <3>4, <3>5
    <3> QED  BY <2>1, <3>6 DEF Mixed
  <2> QED  BY <2>1, <2>4 DEF DownOnlyIfMixed
<1>4. CASE \/ \E t \in Tasks :
                \/ GetParamCached(t) \/ SetParam(t) \/ DeleteParam(t)
                \/ HandleSubscribe(t) \/ HandleSet(t) \/ HandleDelete(t)
                \/ SubscribeAnswered(t) \/ SetAnswered(t) \/ DeleteAnswered(t)
           \/ \E n \in Nodes : ServeTakes(n)
  <2>1. ~down'
    <3>1. ASSUME NEW t \in Tasks, GetParamCached(t) \/ SetParam(t) \/ DeleteParam(t) PROVE ~down'
      BY <3>1 DEF GetParamCached, SetParam, DeleteParam, MayCall, Call
    <3>2. ASSUME NEW t \in Tasks, HandleSubscribe(t) \/ HandleSet(t) \/ HandleDelete(t) PROVE ~down'
      BY <3>2 DEF HandleSubscribe, HandleSet, HandleDelete
    <3>3. ASSUME NEW t \in Tasks, SubscribeAnswered(t) \/ SetAnswered(t) \/ DeleteAnswered(t) PROVE ~down'
      BY <3>3 DEF SubscribeAnswered, SetAnswered, DeleteAnswered
    <3>4. ASSUME NEW n \in Nodes, ServeTakes(n) PROVE ~down'
      BY <3>4 DEF ServeTakes
    <3> QED  BY <1>4, <3>1, <3>2, <3>3, <3>4
  <2> QED  BY <2>1 DEF DownOnlyIfMixed
<1> QED  BY <1>1, <1>2, <1>3, <1>4 DEF Next

\* Whatever has been written, deleted and subscribed to, in whatever order, an
\* update fails at a node (ParamCache.update, whose exception ends the master's
\* serve) only where a path has been both a scalar and a namespace.
THEOREM MasterStaysUp == Spec => []DownOnlyIfMixed
<1> DEFINE I == Inv /\ KindsInv /\ CacheInv /\ DownOnlyIfMixed
<1>1. Init => I
  BY InitInv, InitKinds, InitDown
<1>2. I /\ [Next]_vars => I'
  BY StepInv, StepKinds, StepDown
<1>3. I => DownOnlyIfMixed
  OBVIOUS
<1> QED  BY <1>1, <1>2, <1>3, PTL DEF Spec

-----------------------------------------------------------------------------
(* What a tree has at a path                                                *)

\* The scalar at a path: where there is none, a dictionary is as good as nothing.
At(tree, q) == IF q \in DOMAIN tree THEN tree[q] ELSE DictValue

LEMMA PrefixAntisymmetric ==
  ASSUME NEW p \in Path, NEW q \in Path, IsPrefix(p, q), IsPrefix(q, p)
  PROVE  p = q
<1>1. PICK r \in Path : q = p \o r
  BY PathsConcatenate
<1>2. PICK s \in Path : p = q \o s
  BY PathsConcatenate
<1>3. p \o (r \o s) = p \o << >> /\ r \o s \in Path /\ << >> \in Path
  <2>1. (p \o r) \o s = p \o (r \o s)
    BY Associated
  <2> QED  BY <1>1, <1>2, <2>1, PathsConcatenate
<1>4. r \o s = << >>
  <2>1. /\ SubSeq(p \o (r \o s), Len(p) + 1, Len(p \o (r \o s))) = r \o s
        /\ SubSeq(p \o << >>, Len(p) + 1, Len(p \o << >>)) = << >>
    BY <1>3, PathsConcatenate
  <2> QED  BY <1>3, <2>1
<1>5. r = << >>
  BY <1>4, PathEnds
<1> QED  BY <1>1, <1>5, PathsConcatenate

LEMMA PrefixReflexive == ASSUME NEW p \in Path PROVE IsPrefix(p, p)
  BY PathsConcatenate

\* A path below a prefix, and what is below both of two prefixes.
LEMMA BelowIs ==
  ASSUME NEW k \in Path, NEW p \in Path, IsPrefix(k, p)
  PROVE  Below(k, p) \in Path /\ p = k \o Below(k, p)
  BY PathsConcatenate DEF Below

LEMMA BelowOf ==
  ASSUME NEW k \in Path, NEW r \in Path
  PROVE  IsPrefix(k, k \o r) /\ k \o r \in Path /\ Below(k, k \o r) = r
  BY PathsConcatenate DEF Below

LEMMA BelowBoth ==
  ASSUME NEW k \in Path, NEW key \in Path, NEW p \in Path, IsPrefix(k, key), IsPrefix(k, p)
  PROVE  /\ IsPrefix(Below(k, key), Below(k, p)) <=> IsPrefix(key, p)
         /\ IsPrefix(key, p) => /\ Below(Below(k, key), Below(k, p)) = Below(key, p)
                                /\ Below(k, key) \o Below(key, p) = Below(k, p)
<1> DEFINE a == Below(k, key)
           b == Below(k, p)
<1>1. a \in Path /\ b \in Path /\ key = k \o a /\ p = k \o b
  BY BelowIs
<1> HIDE DEF a, b
<1>2. ASSUME IsPrefix(a, b) PROVE IsPrefix(key, p)
  <2>1. PICK r \in Path : b = a \o r
    BY <1>1, <1>2, PathsConcatenate
  <2>2. (k \o a) \o r = k \o (a \o r)
    BY <1>1, <2>1, Associated
  <2>3. p = key \o r
    BY <1>1, <2>1, <2>2
  <2> QED  BY <2>1, <2>3, PathsConcatenate
<1>3. ASSUME IsPrefix(key, p) PROVE IsPrefix(a, b) /\ Below(a, b) = Below(key, p) /\ a \o Below(key, p) = b
  <2> DEFINE r == Below(key, p)
  <2>1. r \in Path /\ p = key \o r
    BY <1>3, BelowIs
  <2> HIDE DEF r
  <2>2. p = k \o (a \o r) /\ a \o r \in Path
    <3>1. (k \o a) \o r = k \o (a \o r)
      BY <1>1, <2>1, Associated
    <3>2. a \o r \in Path
      BY <1>1, <2>1, PathsConcatenate
    <3> QED  BY <1>1, <2>1, <3>1, <3>2
  <2>3. b = a \o r
    <3>1. Below(k, k \o b) = b /\ Below(k, k \o (a \o r)) = a \o r
      BY <1>1, <2>2, BelowOf
    <3> QED  BY <1>1, <2>2, <3>1
  <2>4. IsPrefix(a, b) /\ Below(a, b) = r
    BY <1>1, <2>1, <2>3, BelowOf
  <2> QED  BY <2>3, <2>4 DEF r
<1> QED  BY <1>2, <1>3 DEF a, b

\* An empty dictionary has none.
LEMMA AtEmpty == ASSUME NEW q PROVE At(EmptyTree, q) = DictValue
  BY DEF At, EmptyTree

\* After a value has been stored, it is at its path and below it, and nothing
\* is on the way to it.
LEMMA AtStored ==
  ASSUME NEW tree, DOMAIN tree \subseteq Path, NEW value, DOMAIN value \subseteq Path,
         NEW path \in Path, NEW q \in Path
  PROVE  At(Stored(tree, path, value), q) =
           IF IsPrefix(path, q) THEN At(value, Below(path, q))
           ELSE IF IsPrefix(q, path) THEN DictValue ELSE At(tree, q)
<1> DEFINE kept == {x \in DOMAIN tree : ~IsPrefix(path, x) /\ ~IsPrefix(x, path)}
           onTheWay == {x \in Prefixes(path) : x # path}
           below == {path \o p : p \in DOMAIN value}
           t == Stored(tree, path, value)
           label(x) == CASE x \in onTheWay -> DictValue
                         [] x \in kept -> tree[x]
                         [] OTHER -> value[Below(path, x)]
<1>1. t = [x \in kept \cup onTheWay \cup below |-> label(x)]
  BY DEF Stored, Below
<1>2. q \in onTheWay <=> IsPrefix(q, path) /\ q # path
  BY PathsConcatenate
<1>3. q \in kept <=> q \in DOMAIN tree /\ ~IsPrefix(path, q) /\ ~IsPrefix(q, path)
  OBVIOUS
<1>4. q \in below <=> IsPrefix(path, q) /\ Below(path, q) \in DOMAIN value
  <2>1. ASSUME NEW p \in DOMAIN value, q = path \o p PROVE IsPrefix(path, q) /\ Below(path, q) = p
    BY <2>1, BelowOf
  <2>2. ASSUME IsPrefix(path, q) PROVE q = path \o Below(path, q)
    BY <2>2, BelowIs
  <2> QED  BY <2>1, <2>2
<1>5. /\ q \in onTheWay => label(q) = DictValue
      /\ q \in kept /\ q \notin onTheWay => label(q) = tree[q]
      /\ q \notin kept /\ q \notin onTheWay => label(q) = value[Below(path, q)]
  <2>1. ~(q \in kept /\ q \in onTheWay)
    BY <1>2, <1>3
  <2> HIDE DEF kept, onTheWay
  <2> QED  BY <2>1
<1> HIDE DEF kept, onTheWay, below, label, t
<1>6. At(t, q) = IF q \in kept \cup onTheWay \cup below THEN label(q) ELSE DictValue
  BY <1>1 DEF At
<1>7. CASE IsPrefix(path, q)
  <2>1. q \notin onTheWay /\ q \notin kept
    BY <1>2, <1>3, <1>7, PrefixAntisymmetric
  <2>2. At(t, q) = IF q \in below THEN value[Below(path, q)] ELSE DictValue
    BY <1>5, <1>6, <2>1
  <2> QED  BY <1>4, <1>7, <2>2 DEF At, t
<1>8. CASE ~IsPrefix(path, q) /\ IsPrefix(q, path)
  <2>1. q # path
    BY <1>8
  <2>2. q \in onTheWay
    BY <1>2, <1>8, <2>1
  <2>3. At(t, q) = DictValue
    BY <1>5, <1>6, <2>2
  <2> QED  BY <1>8, <2>3 DEF t
<1>9. CASE ~IsPrefix(path, q) /\ ~IsPrefix(q, path)
  <2>1. q \notin onTheWay /\ q \notin below /\ (q \in kept <=> q \in DOMAIN tree)
    BY <1>2, <1>3, <1>4, <1>9
  <2>2. At(t, q) = IF q \in DOMAIN tree THEN tree[q] ELSE DictValue
    BY <1>5, <1>6, <2>1
  <2> QED  BY <1>9, <2>2 DEF At, t
<1> QED  BY <1>7, <1>8, <1>9

LEMMA AtRemoved ==
  ASSUME NEW tree, NEW path, NEW q
  PROVE  At(Removed(tree, path), q) = IF IsPrefix(path, q) THEN DictValue ELSE At(tree, q)
  BY DEF At, Removed

\* A part has what the tree has below the part's path, and so has nothing.
LEMMA AtSubTree ==
  ASSUME NEW tree, DOMAIN tree \subseteq Path, NEW path \in Path, NEW q \in Path
  PROVE  At(SubTree(tree, path), q) = At(tree, path \o q)
<1>1. /\ q \in DOMAIN SubTree(tree, path) <=> path \o q \in DOMAIN tree
      /\ q \in DOMAIN SubTree(tree, path) => SubTree(tree, path)[q] = tree[path \o q]
  BY SubTreePaths
<1> DEFINE t == SubTree(tree, path)
<1> HIDE DEF t
<1>2. At(t, q) = At(tree, path \o q)
  BY <1>1 DEF At, t
<1> QED  BY <1>2 DEF t

LEMMA AtFound ==
  ASSUME NEW tree, Settled(tree), NEW path \in Path, NEW q \in Path
  PROVE  At(Found(tree, path), q) = At(tree, path \o q)
<1>1. CASE path \in DOMAIN tree
  BY <1>1, AtSubTree DEF Found, Settled
<1>2. CASE path \notin DOMAIN tree
  <2>1. path \o q \notin DOMAIN tree
    BY <1>2 DEF Settled
  <2>2. At(tree, path \o q) = DictValue
    BY <2>1 DEF At
  <2> QED  BY <1>2, <2>2, AtEmpty DEF Found
<1> QED  BY <1>1, <1>2

\* Where no scalar has been written, there is none.
LEMMA AtUnwritten ==
  ASSUME NEW tree, NEW k \in Path, NEW S, ScalarsAmong(tree, k, S), NEW p \in Path, IsPrefix(k, p), p \notin S
  PROVE  At(tree, Below(k, p)) = DictValue
<1>1. p = k \o Below(k, p)
  BY BelowIs
<1> QED  BY <1>1 DEF At, ScalarsAmong

\* Trees that have the same at all paths have the same leaves.
LEMMA LeavesSame ==
  ASSUME NEW s, NEW t, DOMAIN s \subseteq Path, DOMAIN t \subseteq Path, \A q \in Path : At(s, q) = At(t, q)
  PROVE  Leaves(s) = Leaves(t)
<1>1. \A q \in Path : q \in DOMAIN s /\ s[q] # DictValue => q \in DOMAIN t /\ t[q] = s[q]
  BY DEF At
<1>2. \A q \in Path : q \in DOMAIN t /\ t[q] # DictValue => q \in DOMAIN s /\ s[q] = t[q]
  BY DEF At
<1>3. {p \in DOMAIN s : s[p] # DictValue} = {p \in DOMAIN t : t[p] # DictValue}
  BY <1>1, <1>2
<1>4. \A p \in {p \in DOMAIN s : s[p] # DictValue} : s[p] = t[p]
  BY <1>1
<1> QED  BY <1>3, <1>4 DEF Leaves

\* A tree that is cached at k has p after an update that did not fail.
LEMMA AtUpdated ==
  ASSUME NEW c, \A k \in DOMAIN c : k \in Keys /\ DOMAIN c[k] \subseteq Path,
         NEW key \in Keys, NEW value, DOMAIN value \subseteq Path, UpdateFails(c, key) = {},
         NEW k \in DOMAIN c, NEW p \in Path, IsPrefix(k, p)
  PROVE  At(Updated(c, key, value)[k], Below(k, p)) =
           IF IsPrefix(k, key) /\ IsPrefix(key, p) THEN At(value, Below(key, p))
           ELSE IF IsPrefix(k, key) /\ IsPrefix(p, key) THEN DictValue
           ELSE At(c[k], Below(k, p))
<1>1. k \in Path /\ key \in Path
  BY KeysArePaths
<1>2. Updated(c, key, value)[k] = IF IsPrefix(k, key) THEN Stored(c[k], Below(k, key), value) ELSE c[k]
  BY DEF Updated, Before, Namespaces
<1> DEFINE a == Below(k, key)
           b == Below(k, p)
<1>3. CASE IsPrefix(k, key)
  <2>1. /\ a \in Path /\ b \in Path
        /\ IsPrefix(a, b) <=> IsPrefix(key, p)
        /\ IsPrefix(b, a) <=> IsPrefix(p, key)
        /\ IsPrefix(key, p) => Below(a, b) = Below(key, p)
    BY <1>1, <1>3, BelowIs, BelowBoth
  <2>2. DOMAIN c[k] \subseteq Path
    OBVIOUS
  <2> HIDE DEF a, b
  <2>3. At(Stored(c[k], a, value), b) =
          IF IsPrefix(a, b) THEN At(value, Below(a, b))
          ELSE IF IsPrefix(b, a) THEN DictValue ELSE At(c[k], b)
    BY <2>1, <2>2, AtStored
  <2> QED  BY <1>2, <1>3, <2>1, <2>3 DEF a, b
<1>4. CASE ~IsPrefix(k, key)
  BY <1>2, <1>4
<1> QED  BY <1>3, <1>4

\* The same after a delete of what is not cached itself.
LEMMA AtDeleted ==
  ASSUME NEW c, \A k \in DOMAIN c : k \in Keys, NEW key \in Keys, key \notin DOMAIN c,
         DeleteFails(c, key) = {}, NEW k \in DOMAIN c, NEW p \in Path, IsPrefix(k, p)
  PROVE  At(Deleted(c, key)[k], Below(k, p)) =
           IF IsPrefix(k, key) /\ IsPrefix(key, p) THEN DictValue ELSE At(c[k], Below(k, p))
<1>1. k \in Path /\ key \in Path /\ k # key
  BY KeysArePaths
<1>2. Deleted(c, key)[k] = IF IsPrefix(k, key) THEN Removed(c[k], Below(k, key)) ELSE c[k]
  BY <1>1 DEF Deleted, Before, Namespaces
<1>3. CASE IsPrefix(k, key)
  <2>1. IsPrefix(Below(k, key), Below(k, p)) <=> IsPrefix(key, p)
    BY <1>1, <1>3, BelowBoth
  <2> QED  BY <1>2, <1>3, <2>1, AtRemoved
<1>4. CASE ~IsPrefix(k, key)
  BY <1>2, <1>4
<1> QED  BY <1>3, <1>4

\* The trees of a cache stay settled.
LEMMA UpdatedSettled ==
  ASSUME NEW c, \A k \in DOMAIN c : k \in Keys /\ Settled(c[k]), NEW key \in Keys,
         NEW value, Settled(value), << >> \in DOMAIN value
  PROVE  \A k \in DOMAIN c : Settled(Updated(c, key, value)[k])
<1> SUFFICES ASSUME NEW k \in DOMAIN c PROVE Settled(Updated(c, key, value)[k])
  OBVIOUS
<1>1. \/ IsPrefix(k, key) /\ Updated(c, key, value)[k] = Stored(c[k], Below(k, key), value)
      \/ Updated(c, key, value)[k] = c[k]
  BY DEF Updated, Before, Namespaces
<1>2. ASSUME IsPrefix(k, key) PROVE Settled(Stored(c[k], Below(k, key), value))
  <2>1. Below(k, key) \in Path
    BY <1>2, KeysArePaths, BelowIs
  <2> QED  BY <2>1, StoredSettled
<1> QED  BY <1>1, <1>2

LEMMA DeletedSettled ==
  ASSUME NEW c, \A k \in DOMAIN c : k \in Keys /\ Settled(c[k]), NEW key \in Keys
  PROVE  \A k \in DOMAIN c : Settled(Deleted(c, key)[k])
<1> SUFFICES ASSUME NEW k \in DOMAIN c PROVE Settled(Deleted(c, key)[k])
  OBVIOUS
<1>1. \/ IsPrefix(k, key) /\ Deleted(c, key)[k] = Removed(c[k], Below(k, key))
      \/ Deleted(c, key)[k] = c[k]
  BY DEF Deleted, Before, Namespaces
<1>2. ASSUME IsPrefix(k, key) PROVE Settled(Removed(c[k], Below(k, key)))
  <2>1. Below(k, key) \in Path
    BY <1>2, KeysArePaths, BelowIs
  <2> QED  BY <2>1, RemovedSettled
<1> QED  BY <1>1, <1>2

-----------------------------------------------------------------------------
(* What a queue says of a path                                              *)

\* An update changes what a tree that is cached at k has at p.
Covers(u, k, p) == IsPrefix(k, u.key) /\ IsPrefix(u.key, p)

Uncovered(q, k, p) == \A i \in DOMAIN q : ~Covers(q[i], k, p)

\* An update has at p what the tree has.
Agrees(u, p, tree) == At(u.value, Below(u.key, p)) = At(tree, p)

\* The last update that changes it makes it what the tree has.
LastAgrees(q, k, p, tree) ==
  \A i \in DOMAIN q :
    Covers(q[i], k, p) /\ (\A j \in DOMAIN q : i < j => ~Covers(q[j], k, p)) => Agrees(q[i], p, tree)

\* The first update is taken: what it says holds unless another one follows.
LEMMA FirstTaken ==
  ASSUME NEW T, NEW q \in Seq(T), q # << >>, NEW k, NEW p, NEW tree, LastAgrees(q, k, p, tree)
  PROVE  /\ LastAgrees(Tail(q), k, p, tree)
         /\ Uncovered(Tail(q), k, p) /\ Covers(Head(q), k, p) => Agrees(Head(q), p, tree)
         /\ Uncovered(Tail(q), k, p) /\ ~Covers(Head(q), k, p) => Uncovered(q, k, p)
<1> DEFINE r == Tail(q)
<1>1. /\ Len(q) \in Nat /\ Len(q) # 0 /\ DOMAIN q = 1..Len(q)
      /\ Head(q) = q[1] /\ Len(r) = Len(q) - 1 /\ DOMAIN r = 1..Len(r)
      /\ \A i \in 1..Len(r) : r[i] = q[i + 1]
  <2>1. r \in Seq(T)
    BY HeadTailProperties
  <2> QED  BY <2>1, HeadTailProperties, LenProperties, EmptySeq
<1> HIDE DEF r
<1>2. ASSUME NEW i \in DOMAIN r PROVE i + 1 \in DOMAIN q /\ r[i] = q[i + 1]
  BY <1>1
<1>3. ASSUME NEW j \in DOMAIN q, j # 1 PROVE j - 1 \in DOMAIN r /\ r[j - 1] = q[j] /\ j \in Int
  <2> DEFINE i == j - 1
  <2>1. i \in 1..Len(r) /\ i + 1 = j /\ j \in Int
    BY <1>1, <1>3
  <2> HIDE DEF i
  <2>2. r[i] = q[j]
    BY <1>1, <2>1
  <2> QED  BY <1>1, <2>1, <2>2 DEF i
<1>4. ASSUME NEW i \in DOMAIN r, Covers(r[i], k, p), \A j \in DOMAIN r : i < j => ~Covers(r[j], k, p)
      PROVE  Agrees(r[i], p, tree)
  <2>1. i \in Nat /\ i >= 1
    BY <1>1
  <2>2. ASSUME NEW j \in DOMAIN q, i + 1 < j PROVE ~Covers(q[j], k, p)
    <3>1. j # 1
      BY <1>1, <2>1, <2>2
    <3>2. j - 1 \in DOMAIN r /\ r[j - 1] = q[j] /\ i < j - 1
      BY <1>3, <2>1, <2>2, <3>1
    <3> QED  BY <1>4, <3>2
  <2> QED  BY <1>2, <1>4, <2>2 DEF LastAgrees
<1>5. ASSUME \A i \in DOMAIN r : ~Covers(r[i], k, p), NEW j \in DOMAIN q, j # 1 PROVE ~Covers(q[j], k, p)
  BY <1>3, <1>5
<1>6. 1 \in DOMAIN q
  BY <1>1
<1>7. ASSUME \A i \in DOMAIN r : ~Covers(r[i], k, p), Covers(q[1], k, p) PROVE Agrees(q[1], p, tree)
  <2>1. \A j \in DOMAIN q : 1 < j => ~Covers(q[j], k, p)
    BY <1>5, <1>7
  <2> QED  BY <1>6, <1>7, <2>1 DEF LastAgrees
<1>8. ASSUME \A i \in DOMAIN r : ~Covers(r[i], k, p), ~Covers(q[1], k, p)
      PROVE  \A j \in DOMAIN q : ~Covers(q[j], k, p)
  BY <1>5, <1>8
<1> QED  BY <1>1, <1>4, <1>7, <1>8 DEF LastAgrees, Uncovered, r

\* One update, as it is called.
LEMMA OneAgrees ==
  ASSUME NEW u, NEW k, NEW p, NEW tree
  PROVE  /\ LastAgrees(<<u>>, k, p, tree) <=> (Covers(u, k, p) => Agrees(u, p, tree))
         /\ Uncovered(<<u>>, k, p) <=> ~Covers(u, k, p)
<1> DEFINE q == <<u>>
<1>1. DOMAIN q = {1} /\ q[1] = u
  OBVIOUS
<1>2. ~(1 < 1)
  OBVIOUS
<1> HIDE DEF q
<1>3. /\ LastAgrees(q, k, p, tree) <=> (Covers(u, k, p) => Agrees(u, p, tree))
      /\ Uncovered(q, k, p) <=> ~Covers(u, k, p)
  BY <1>1, <1>2 DEF LastAgrees, Uncovered
<1> QED  BY <1>3 DEF q

LEMMA NoneAgrees ==
  ASSUME NEW k, NEW p, NEW tree PROVE LastAgrees(<< >>, k, p, tree) /\ Uncovered(<< >>, k, p)
<1>1. DOMAIN << >> = {}
  OBVIOUS
<1> DEFINE q == << >>
<1> HIDE DEF q
<1>2. DOMAIN q = {} => LastAgrees(q, k, p, tree) /\ Uncovered(q, k, p)
  BY DEF LastAgrees, Uncovered
<1> QED  BY <1>1, <1>2 DEF q

-----------------------------------------------------------------------------
(* What a write tells the subscribers                                       *)

\* Prefixes of one path are prefixes of each other.
LEMMA PathsComparable ==
  ASSUME NEW k \in Path, NEW key \in Path, NEW p \in Path, IsPrefix(k, p), IsPrefix(key, p)
  PROVE  IsPrefix(k, key) \/ IsPrefix(key, k)
<1> DEFINE S == STRING \ {""}
<1>1. k \in Seq(S) /\ key \in Seq(S) /\ p \in Seq(S)
  BY DEF Path
<1> HIDE DEF S
<1> QED  BY <1>1, Comparable

LEMMA NoticeIs ==
  ASSUME NEW k, NEW key, NEW value, NEW live
  PROVE  /\ IsPrefix(k, key) => /\ Notice(k, key, value, live).key = key
                                /\ Notice(k, key, value, live).value = value
         /\ ~IsPrefix(k, key) => /\ Notice(k, key, value, live).key = k
                                 /\ Notice(k, key, value, live).value = EmptyTree
<1> DEFINE e == EmptyTree
           f == FALSE
<1>1. Update(key, value, live).key = key /\ Update(key, value, live).value = value
  BY UpdateIs
<1>2. /\ IsPrefix(k, key) => Notice(k, key, value, live) = Update(key, value, live)
      /\ ~IsPrefix(k, key) => Notice(k, key, value, live) = Update(k, e, f)
  BY DEF Notice
<1> HIDE DEF e, f
<1>3. Update(k, e, f).key = k /\ Update(k, e, f).value = e
  BY UpdateIs
<1> QED  BY <1>1, <1>2, <1>3 DEF e

LEMMA NestedIs ==
  ASSUME NEW k, NEW key, NEW value, NEW live
  PROVE  /\ Nested(k, key, value, live).key = k
         /\ Nested(k, key, value, live).value = SubTree(value, Below(key, k))
  BY UpdateIs DEF Nested

\* Where no scalar has been written, the tree has none.
LEMMA Unwritten ==
  ASSUME KindsInv, NEW p \in Path, p \notin scalars
  PROVE  At(params, p) = DictValue
<1>1. << >> \o p = p /\ << >> \in Path /\ IsPrefix(<< >>, << >> \o p) /\ Below(<< >>, << >> \o p) = p
  BY PathsConcatenate, BelowOf
<1>2. At(params, Below(<< >>, p)) = DictValue
  BY <1>1, AtUnwritten DEF KindsInv
<1> QED  BY <1>1, <1>2

LEMMA OnTheWay ==
  ASSUME NEW key \in Path, NEW p \in Path, IsPrefix(p, key), ~IsPrefix(key, p)
  PROVE  p \in WayTo(key)
<1>1. p # key
  BY PrefixReflexive
<1> QED  BY <1>1, PathsConcatenate DEF WayTo

\* The tree changes at a key and below it.
Moves(key, value) ==
  \A p \in Path : At(params', p) = IF IsPrefix(key, p) THEN At(value, Below(key, p)) ELSE At(params, p)

\* An update that is new tells what the tree is now, and of nothing else.
LEMMA NewAgrees ==
  ASSUME NEW n \in Nodes, NEW key \in Keys, NEW value, Settled(value), NEW live, Moves(key, value),
         NEW u, \/ \E j \in Notices(n, key, value) : u = Notice(j, key, value, live)
                \/ \E j \in NestedNotices(n, key, value) : u = Nested(j, key, value, live),
         NEW k \in Path, NEW p \in Path, IsPrefix(k, p), Covers(u, k, p)
  PROVE  IsPrefix(key, p) /\ Agrees(u, p, params')
<1>0. key \in Path /\ DOMAIN value \subseteq Path
  BY KeysArePaths DEF Settled
<1>1. ASSUME NEW j \in Notices(n, key, value), u = Notice(j, key, value, live), IsPrefix(j, key)
      PROVE  IsPrefix(key, p) /\ Agrees(u, p, params')
  <2>2. u.key = key /\ u.value = value
    BY <1>1, NoticeIs
  <2> QED  BY <2>2 DEF Covers, Agrees, Moves
<1>2. ASSUME NEW j \in Notices(n, key, value), u = Notice(j, key, value, live), ~IsPrefix(j, key)
      PROVE  IsPrefix(key, p) /\ Agrees(u, p, params')
  <2>1. j \in Path /\ IsPrefix(key, j) /\ Below(key, j) \notin DOMAIN value
    BY <1>2, KeysArePaths DEF Notices
  <2>2. u.key = j /\ u.value = EmptyTree
    BY <1>2, NoticeIs
  <2>3. IsPrefix(j, p)
    BY <2>2 DEF Covers
  <2>4. IsPrefix(key, p)
    BY <1>0, <2>1, <2>3, PrefixTransitive
  <2>5. Below(key, j) \o Below(j, p) = Below(key, p) /\ Below(key, j) \in Path /\ Below(j, p) \in Path
    BY <1>0, <2>1, <2>3, <2>4, BelowBoth, BelowIs
  <2>6. Below(key, p) \notin DOMAIN value
    <3> DEFINE a == Below(key, j)
               b == Below(j, p)
    <3>1. a \in Path /\ b \in Path /\ a \notin DOMAIN value
      BY <2>1, <2>5
    <3> HIDE DEF a, b
    <3>2. a \o b \notin DOMAIN value
      BY <3>1 DEF Settled
    <3> QED  BY <2>5, <3>2 DEF a, b
  <2>7. At(value, Below(key, p)) = DictValue
    BY <2>6 DEF At
  <2>8. At(EmptyTree, Below(j, p)) = At(params', p)
    BY <2>4, <2>7, AtEmpty DEF Moves
  <2> QED  BY <2>2, <2>4, <2>8 DEF Agrees
<1>3. ASSUME NEW j \in NestedNotices(n, key, value), u = Nested(j, key, value, live)
      PROVE  IsPrefix(key, p) /\ Agrees(u, p, params')
  <2> DEFINE part == SubTree(value, Below(key, j))
  <2>1. j \in Path /\ IsPrefix(key, j)
    BY <1>3, KeysArePaths DEF NestedNotices, IsStrictPrefix
  <2>2. u.key = j /\ u.value = part
    BY <1>3, NestedIs
  <2>3. IsPrefix(j, p)
    BY <2>2 DEF Covers
  <2>4. IsPrefix(key, p)
    BY <1>0, <2>1, <2>3, PrefixTransitive
  <2>5. Below(key, j) \o Below(j, p) = Below(key, p) /\ Below(key, j) \in Path /\ Below(j, p) \in Path
    BY <1>0, <2>1, <2>3, <2>4, BelowBoth, BelowIs
  <2>6. At(part, Below(j, p)) = At(value, Below(key, p))
    <3> DEFINE a == Below(key, j)
               b == Below(j, p)
    <3>1. a \in Path /\ b \in Path
      BY <2>5
    <3> HIDE DEF a, b
    <3>2. At(SubTree(value, a), b) = At(value, a \o b)
      BY <1>0, <3>1, AtSubTree
    <3> QED  BY <2>5, <3>2 DEF a, b
  <2> HIDE DEF part
  <2>7. At(part, Below(j, p)) = At(params', p)
    BY <2>4, <2>6 DEF Moves
  <2> QED  BY <2>2, <2>4, <2>7 DEF Agrees
<1> QED  BY <1>1, <1>2, <1>3

\* Whoever caches a path that has changed is told, unless the path has been a
\* scalar and a namespace.
LEMMA WriteTold ==
  ASSUME SubscribersInv, QueueInv, KindsInv, ~Mixed', above \subseteq above',
         NEW key \in Keys, NEW value, Settled(value), << >> \in DOMAIN value, NEW caller, NEW live,
         OnParamUpdate(key, value, caller, live), ScalarsAmong(value, key, scalars'),
         NEW n \in Nodes, n # caller, NEW k \in Keys, n \in subscribers[k],
         NEW p \in Path, IsPrefix(k, p), IsPrefix(key, p)
  PROVE  \E i \in DOMAIN queue'[n] \ DOMAIN queue[n] : Covers(queue'[n][i], k, p)
<1> DEFINE r == queue'[n]
           new == DOMAIN queue'[n] \ DOMAIN queue[n]
<1>0. k \in Path /\ key \in Path
  BY KeysArePaths
<1>1. /\ \A j \in Notices(n, key, value) : \E i \in new : r[i] = Notice(j, key, value, live)
      /\ \A j \in NestedNotices(n, key, value) : \E i \in new : r[i] = Nested(j, key, value, live)
  BY NewQueueParts
<1> HIDE DEF r, new
<1>2. IsPrefix(k, key) \/ IsPrefix(key, k)
  BY <1>0, PathsComparable
<1>3. CASE IsPrefix(k, key)
  <2>1. k \in Notices(n, key, value)
    BY <1>3 DEF Notices
  <2>2. PICK i \in new : r[i] = Notice(k, key, value, live)
    BY <1>1, <2>1
  <2>3. r[i].key = key
    BY <1>3, <2>2, NoticeIs
  <2>4. Covers(r[i], k, p)
    BY <1>3, <2>3 DEF Covers
  <2> QED  BY <2>4 DEF r, new
<1>4. CASE ~IsPrefix(k, key) /\ IsPrefix(key, k)
  <2>0. k # key /\ IsPrefix(k, k)
    BY <1>0, <1>4, PrefixReflexive
  <2>1. CASE Below(key, k) \in DOMAIN value
    <3>1. k \in NestedNotices(n, key, value)
      BY <1>4, <2>0, <2>1 DEF NestedNotices, IsStrictPrefix
    <3>2. PICK i \in new : r[i] = Nested(k, key, value, live)
      BY <1>1, <3>1
    <3>3. r[i].key = k
      BY <3>2, NestedIs
    <3>4. Covers(r[i], k, p)
      BY <2>0, <3>3 DEF Covers
    <3> QED  BY <3>4 DEF r, new
  <2>2. CASE Below(key, k) \notin DOMAIN value /\ IsDictValue(value)
    <3>1. k \in Notices(n, key, value)
      BY <1>4, <2>2 DEF Notices
    <3>2. PICK i \in new : r[i] = Notice(k, key, value, live)
      BY <1>1, <3>1
    <3>3. r[i].key = k
      BY <1>4, <3>2, NoticeIs
    <3>4. Covers(r[i], k, p)
      BY <2>0, <3>3 DEF Covers
    <3> QED  BY <3>4 DEF r, new
  <2>3. CASE ~IsDictValue(value)
    <3>1. key \o << >> \in scalars'
      BY <2>3 DEF ScalarsAmong, IsDictValue
    <3>2. key \in scalars'
      BY <1>0, <3>1, PathsConcatenate
    <3>3. key \in WayTo(k)
      BY <1>0, <1>4, <2>0, PathsConcatenate DEF WayTo
    <3>4. WayTo(k) \subseteq above
      BY DEF KindsInv
    <3> QED  BY <3>2, <3>3, <3>4 DEF Mixed
  <2> QED  BY <2>1, <2>2, <2>3
<1> QED  BY <1>2, <1>3, <1>4

\* What has been queued before tells what it has told, of a path that is not changed.
LEMMA RefreshedAgrees ==
  ASSUME NEW u, Held(u), NEW key \in Keys, NEW value, Moves(key, value), DOMAIN params' \subseteq Path,
         NEW k \in Path, NEW p \in Path, ~IsPrefix(key, p)
  PROVE  /\ Covers(Refreshed(u, key, params'), k, p) <=> Covers(u, k, p)
         /\ Covers(u, k, p) /\ Agrees(u, p, params) => Agrees(Refreshed(u, key, params'), p, params')
<1> DEFINE w == Refreshed(u, key, params')
           part == SubTree(params', u.key)
           x == [u EXCEPT !.live = FALSE]
           y == [u EXCEPT !.value = part]
<1>0. u.key \in Path /\ At(params', p) = At(params, p)
  BY KeysArePaths DEF Held, Moves
<1>1. /\ w \in {u, x} \/ w = y
      /\ x.key = u.key /\ x.value = u.value /\ y.key = u.key /\ y.value = part
  <2>1. DOMAIN u = {"key", "value", "live"}
    BY DEF Held
  <2> QED  BY <2>1 DEF Refreshed
<1> HIDE DEF w, x, y, part
<1>2. w.key = u.key
  BY <1>1
<1>3. w.value = u.value \/ w.value = part
  BY <1>1
<1>4. Covers(w, k, p) <=> Covers(u, k, p)
  BY <1>2 DEF Covers
<1>5. ASSUME Covers(u, k, p), Agrees(u, p, params) PROVE Agrees(w, p, params')
  <2>1. IsPrefix(u.key, p)
    BY <1>5 DEF Covers
  <2>2. Below(u.key, p) \in Path /\ p = u.key \o Below(u.key, p)
    BY <1>0, <2>1, BelowIs
  <2>3. At(part, Below(u.key, p)) = At(params', p)
    <3> DEFINE a == u.key
               b == Below(u.key, p)
    <3>1. a \in Path /\ b \in Path
      BY <1>0, <2>2
    <3> HIDE DEF a, b
    <3>2. At(SubTree(params', a), b) = At(params', a \o b)
      BY <3>1, AtSubTree
    <3> QED  BY <2>2, <3>2 DEF a, b, part
  <2>4. At(u.value, Below(u.key, p)) = At(params', p)
    BY <1>0, <1>5 DEF Agrees
  <2> QED  BY <1>2, <1>3, <2>3, <2>4 DEF Agrees
<1> QED  BY <1>4, <1>5 DEF w

\* The new queue: of a path that a write has changed its last word is the write's.
LEMMA ChangedAgrees ==
  ASSUME SubscribersInv, QueueInv, KindsInv, ~Mixed', above \subseteq above',
         NEW key \in Keys, NEW value, Settled(value), << >> \in DOMAIN value, NEW caller, NEW live,
         OnParamUpdate(key, value, caller, live), ScalarsAmong(value, key, scalars'), Moves(key, value),
         NEW n \in Nodes, n # caller, NEW k \in Keys, n \in subscribers[k],
         NEW p \in Path, IsPrefix(k, p), IsPrefix(key, p)
  PROVE  LastAgrees(queue'[n], k, p, params') /\ ~Uncovered(queue'[n], k, p)
<1> DEFINE q == queue[n]
           r == queue'[n]
<1>1. /\ Len(q) \in Nat /\ DOMAIN q = 1..Len(q) /\ Len(r) \in Nat /\ DOMAIN r = 1..Len(r)
      /\ \A i \in DOMAIN r \ DOMAIN q :
           \/ \E j \in Notices(n, key, value) : r[i] = Notice(j, key, value, live)
           \/ \E j \in NestedNotices(n, key, value) : r[i] = Nested(j, key, value, live)
  BY NewQueueParts
<1>2. k \in Path
  BY KeysArePaths
<1>3. PICK m \in DOMAIN r \ DOMAIN q : Covers(r[m], k, p)
  BY WriteTold
<1> HIDE DEF q, r
<1>4. ASSUME NEW i \in DOMAIN r, Covers(r[i], k, p), \A j \in DOMAIN r : i < j => ~Covers(r[j], k, p)
      PROVE  Agrees(r[i], p, params')
  <2>1. ~(i < m)
    BY <1>3, <1>4
  <2>2. i \notin DOMAIN q
    BY <1>1, <1>3, <2>1
  <2>3. \/ \E j \in Notices(n, key, value) : r[i] = Notice(j, key, value, live)
        \/ \E j \in NestedNotices(n, key, value) : r[i] = Nested(j, key, value, live)
    BY <1>1, <2>2
  <2> DEFINE u == r[i]
  <2> HIDE DEF u
  <2>4. Agrees(u, p, params')
    BY <1>2, <1>4, <2>3, NewAgrees DEF u
  <2> QED  BY <2>4 DEF u
<1> QED  BY <1>3, <1>4 DEF LastAgrees, Uncovered, r

\* Of any other path its last word is what it was.
LEMMA OthersAgree ==
  ASSUME SubscribersInv, QueueInv, Settled(params'),
         NEW key \in Keys, NEW value, Settled(value), NEW caller, NEW live,
         OnParamUpdate(key, value, caller, live), Moves(key, value),
         NEW n \in Nodes, NEW k \in Path, NEW p \in Path, IsPrefix(k, p), ~IsPrefix(key, p)
  PROVE  /\ LastAgrees(queue[n], k, p, params) => LastAgrees(queue'[n], k, p, params')
         /\ Uncovered(queue'[n], k, p) => Uncovered(queue[n], k, p)
<1> DEFINE q == queue[n]
           r == queue'[n]
<1>1. /\ \A i \in DOMAIN q : i \in DOMAIN r /\ r[i] = Refreshed(q[i], key, params')
      /\ \A i \in DOMAIN r \ DOMAIN q :
           \/ \E j \in Notices(n, key, value) : r[i] = Notice(j, key, value, live)
           \/ \E j \in NestedNotices(n, key, value) : r[i] = Nested(j, key, value, live)
  BY NewQueueParts
<1>2. \A i \in DOMAIN q : Held(q[i])
  BY QueueElements DEF QueueInv, Queued
<1>3. DOMAIN params' \subseteq Path
  BY DEF Settled
<1> HIDE DEF q, r
<1>4. ASSUME NEW i \in DOMAIN q
      PROVE  /\ i \in DOMAIN r /\ (Covers(r[i], k, p) <=> Covers(q[i], k, p))
             /\ Covers(q[i], k, p) /\ Agrees(q[i], p, params) => Agrees(r[i], p, params')
  <2> DEFINE u == q[i]
  <2>1. Held(u) /\ r[i] = Refreshed(u, key, params')
    BY <1>1, <1>2
  <2> HIDE DEF u
  <2>2. /\ Covers(Refreshed(u, key, params'), k, p) <=> Covers(u, k, p)
        /\ Covers(u, k, p) /\ Agrees(u, p, params) => Agrees(Refreshed(u, key, params'), p, params')
    BY <1>3, <2>1, RefreshedAgrees
  <2> QED  BY <1>1, <2>1, <2>2 DEF u
<1>5. ASSUME NEW i \in DOMAIN r, Covers(r[i], k, p) PROVE i \in DOMAIN q
  <2> SUFFICES ASSUME i \notin DOMAIN q PROVE FALSE
    OBVIOUS
  <2> DEFINE u == r[i]
  <2>1. \/ \E j \in Notices(n, key, value) : u = Notice(j, key, value, live)
        \/ \E j \in NestedNotices(n, key, value) : u = Nested(j, key, value, live)
    BY <1>1
  <2>2. Covers(u, k, p)
    BY <1>5
  <2> HIDE DEF u
  <2>3. IsPrefix(key, p)
    BY <2>1, <2>2, NewAgrees
  <2> QED  BY <2>3
<1>6. ASSUME LastAgrees(q, k, p, params) PROVE LastAgrees(r, k, p, params')
  <2>1. ASSUME NEW i \in DOMAIN r, Covers(r[i], k, p), \A j \in DOMAIN r : i < j => ~Covers(r[j], k, p)
        PROVE  Agrees(r[i], p, params')
    <3>1. i \in DOMAIN q /\ Covers(q[i], k, p)
      BY <1>4, <1>5, <2>1
    <3>2. \A j \in DOMAIN q : i < j => ~Covers(q[j], k, p)
      BY <1>4, <2>1
    <3>3. Agrees(q[i], p, params)
      BY <1>6, <3>1, <3>2 DEF LastAgrees
    <3> QED  BY <1>4, <3>1, <3>3
  <2> QED  BY <2>1 DEF LastAgrees
<1>7. ASSUME Uncovered(r, k, p) PROVE Uncovered(q, k, p)
  BY <1>4, <1>7 DEF Uncovered
<1> QED  BY <1>6, <1>7 DEF q, r

-----------------------------------------------------------------------------
(* What a node caches                                                       *)

\* An answered write of the node's own, of a path: its cache has not seen it.
Writes(t, p) == task[t].op # "subscribe" /\ IsPrefix(task[t].key, p)

\* What the cache takes from an answer.
AnswerValue(t) ==
  IF task[t].op = "subscribe" THEN task[t].value
  ELSE IF task[t].op = "set" THEN Transferred(task[t].value) ELSE EmptyTree

\* The last that is told of a path is what the tree has: in the queue, else in
\* what is being called, else in an answer, else in the cache.
FollowsAt(n, k, p) ==
  /\ LastAgrees(queue[n], k, p, params)
  /\ Uncovered(queue[n], k, p) => LastAgrees(calling[n], k, p, params)
  /\ Uncovered(queue[n], k, p) /\ Uncovered(calling[n], k, p) /\ (\A t \in Answered(n) : ~Writes(t, p))
       => At(cache[n][k], Below(k, p)) = At(params, p)

AnswerAgrees(t) ==
  \A p \in Path : IsPrefix(task[t].key, p) => At(AnswerValue(t), Below(task[t].key, p)) = At(params, p)

\* An answer is alone on its way, and tells what the tree has.
AnswerFollows(n, t) ==
  /\ ~Updating(n) /\ Answered(n) = {t}
  /\ task[t].op = "set" => Accepted(task[t].value)
  /\ task[t].op = "subscribe" \/ IsCached(cache[n], task[t].key) => AnswerAgrees(t)

Follows(n) ==
  /\ \A k \in DOMAIN cache[n] : Settled(cache[n][k])
  /\ \A k \in DOMAIN cache[n] : \A p \in Path : IsPrefix(k, p) => FollowsAt(n, k, p)
  /\ \A t \in Answered(n) : AnswerFollows(n, t)

FollowInv == ~Mixed => \A n \in Nodes \ behind : Follows(n)

\* Nothing that concerns a node has happened.
Same(n) ==
  /\ params' = params /\ queue'[n] = queue[n] /\ calling'[n] = calling[n] /\ cache'[n] = cache[n]
  /\ \A t \in Tasks : Owner[t] = n =>
       task'[t] = task[t] \/ (task'[t].at # "answered" /\ task[t].at # "answered")

LEMMA FollowsStays == ASSUME NEW n \in Nodes, Same(n), Follows(n) PROVE Follows(n)'
<1>1. Answered(n)' = Answered(n) /\ \A t \in Answered(n) : task'[t] = task[t]
  BY DEF Answered, Same
<1>2. \A k \in DOMAIN cache[n] : \A p \in Path : FollowsAt(n, k, p) => FollowsAt(n, k, p)'
  <2>1. \A t \in Answered(n) : \A p : Writes(t, p)' <=> Writes(t, p)
    BY <1>1 DEF Writes
  <2> QED  BY <1>1, <2>1 DEF FollowsAt, Same
<1>3. \A t \in Answered(n) : AnswerFollows(n, t) => AnswerFollows(n, t)'
  <2>1. \A t \in Answered(n) : AnswerAgrees(t) => AnswerAgrees(t)'
    BY <1>1 DEF AnswerAgrees, AnswerValue, Same
  <2>2. Updating(n)' <=> Updating(n)
    BY DEF Updating, Same
  <2> QED  BY <1>1, <2>1, <2>2 DEF AnswerFollows, Same
<1>4. cache'[n] = cache[n]
  BY DEF Same
<1> QED  BY <1>1, <1>2, <1>3, <1>4 DEF Follows

\* The node whose write it is: nothing else is on its way to it.
LEMMA OwnWriteFollows ==
  ASSUME Inv, NEW key \in Keys, NEW value, NEW live, NEW t \in Tasks,
         task[t].at = "sent", task[t].op \in {"set", "delete"}, task[t].key = key,
         task' = [task EXCEPT ![t].at = "answered"],
         task[t].op = "set" => Accepted(task[t].value) /\ value = Transferred(task[t].value),
         task[t].op = "delete" => value = EmptyTree,
         OnParamUpdate(key, value, Owner[t], live), Moves(key, value), UNCHANGED <<calling, cache>>,
         Follows(Owner[t]), ~Overlaps(Owner[t])'
  PROVE  Follows(Owner[t])'
<1> DEFINE n == Owner[t]
<1>0. n \in Nodes
  BY OwnerAssumption
<1>1. /\ task'[t].at = "answered" /\ task'[t].op = task[t].op /\ task'[t].key = key
      /\ task[t].op = "set" => task'[t].value = task[t].value
      /\ \A s \in Tasks : s # t => task'[s] = task[s]
  BY AnsweredIs DEF Inv
<1>2. t \in Answered(n)'
  BY <1>1 DEF Answered
<1>3. queue'[n] = << >> /\ calling'[n] = << >> /\ Answered(n)' = {t}
  BY <1>2 DEF Overlaps, Updating
<1>4. Answered(n) = {} /\ calling[n] = << >> /\ cache'[n] = cache[n]
  <2>1. ASSUME NEW s \in Answered(n) PROVE FALSE
    <3>1. s \in Tasks /\ s # t
      BY DEF Answered
    <3>2. s \in Answered(n)'
      BY <1>1, <3>1 DEF Answered
    <3> QED  BY <1>3, <3>1, <3>2
  <2> QED  BY <1>3, <2>1
<1>5. queue[n] = << >>
  <2>1. \A i \in DOMAIN queue[n] : i \in DOMAIN queue'[n]
    BY <1>0, NewQueueParts DEF Inv
  <2>2. DOMAIN queue[n] = {} /\ \E L : queue[n] \in Seq(L)
    <3>1. DOMAIN << >> = {}
      OBVIOUS
    <3>2. \E L : queue[n] \in Seq(L)
      BY <1>0 DEF Inv, QueueInv, IsQueue
    <3> QED  BY <1>3, <2>1, <3>1, <3>2
  <2> DEFINE q == queue[n]
  <2>3. PICK L : q \in Seq(L)
    BY <2>2
  <2> HIDE DEF q
  <2>4. q # << >> => Len(q) \in Nat /\ Len(q) # 0 /\ DOMAIN q = 1..Len(q)
    BY <2>3, LenProperties, EmptySeq
  <2>5. q # << >> => 1 \in DOMAIN q
    BY <2>4
  <2> QED  BY <2>2, <2>5 DEF q
<1>6. \A k \in DOMAIN cache'[n] : Settled(cache'[n][k])
  BY <1>4 DEF Follows
<1>7. ASSUME NEW k \in DOMAIN cache'[n], NEW p \in Path, IsPrefix(k, p) PROVE FollowsAt(n, k, p)'
  <2>1. LastAgrees(queue'[n], k, p, params') /\ LastAgrees(calling'[n], k, p, params')
    BY <1>3, NoneAgrees
  <2>2. ASSUME ~Writes(t, p)' PROVE At(cache'[n][k], Below(k, p)) = At(params', p)
    <3>1. ~IsPrefix(key, p)
      BY <1>1, <2>2 DEF Writes
    <3>2. Uncovered(queue[n], k, p) /\ Uncovered(calling[n], k, p)
      BY <1>4, <1>5, NoneAgrees
    <3>3. At(cache[n][k], Below(k, p)) = At(params, p)
      BY <1>4, <1>7, <3>2 DEF Follows, FollowsAt
    <3> QED  BY <1>4, <3>1, <3>3 DEF Moves
  <2> QED  BY <1>3, <2>1, <2>2 DEF FollowsAt
<1>8. AnswerFollows(n, t)'
  <2>1. AnswerValue(t)' = value
    BY <1>1 DEF AnswerValue
  <2>2. AnswerAgrees(t)'
    BY <1>1, <2>1 DEF AnswerAgrees, Moves
  <2>3. (task[t].op = "set" => Accepted(task[t].value))'
    BY <1>1
  <2>4. ~Updating(n)'
    BY <1>3 DEF Updating
  <2> QED  BY <1>3, <2>2, <2>3, <2>4 DEF AnswerFollows
<1> HIDE DEF n
<1>9. Follows(n)'
  BY <1>3, <1>6, <1>7, <1>8 DEF Follows
<1> QED  BY <1>9 DEF n

\* Any other node: whatever it caches of what has changed, it will be told.
LEMMA OthersWriteFollows ==
  ASSUME Inv, KindsInv, CacheInv, ~Mixed', above \subseteq above', Settled(params'),
         NEW key \in Keys, NEW value, Settled(value), << >> \in DOMAIN value, NEW live, NEW t \in Tasks,
         task[t].at = "sent", task' = [task EXCEPT ![t].at = "answered"],
         OnParamUpdate(key, value, Owner[t], live), Moves(key, value),
         ScalarsAmong(value, key, scalars'), UNCHANGED <<calling, cache>>,
         NEW n \in Nodes, n # Owner[t], Follows(n), ~Overlaps(n)'
  PROVE  Follows(n)'
<1>0. SubscribersInv /\ QueueInv /\ TaskInv
  BY DEF Inv
<1>1. Answered(n)' = Answered(n) /\ \A s \in Answered(n) : s \in Tasks /\ task'[s] = task[s]
  <2>1. \A s \in Tasks : s # t => task'[s] = task[s]
    BY <1>0, AnsweredIs
  <2> QED  BY <2>1 DEF Answered
<1>2. cache'[n] = cache[n] /\ calling'[n] = calling[n]
  OBVIOUS
<1>3. \A k \in DOMAIN cache[n] : k \in Keys /\ k \in Path /\ n \in subscribers[k]
  BY KeysArePaths DEF CacheInv
<1>4. ASSUME NEW k \in DOMAIN cache[n], NEW p \in Path, IsPrefix(k, p) PROVE FollowsAt(n, k, p)'
  <2>1. FollowsAt(n, k, p)
    BY <1>4 DEF Follows
  <2>2. CASE IsPrefix(key, p)
    <3>1. LastAgrees(queue'[n], k, p, params') /\ ~Uncovered(queue'[n], k, p)
      BY <1>0, <1>3, <1>4, <2>2, ChangedAgrees
    <3> QED  BY <3>1 DEF FollowsAt
  <2>3. CASE ~IsPrefix(key, p)
    <3>1. At(params', p) = At(params, p)
      BY <2>3 DEF Moves
    <3>2. /\ LastAgrees(queue'[n], k, p, params')
          /\ Uncovered(queue'[n], k, p) => Uncovered(queue[n], k, p)
      BY <1>0, <1>3, <1>4, <2>1, <2>3, OthersAgree DEF FollowsAt
    <3>3. LastAgrees(calling[n], k, p, params) => LastAgrees(calling[n], k, p, params')
      BY <3>1 DEF LastAgrees, Agrees
    <3>4. \A s \in Answered(n) : Writes(s, p)' <=> Writes(s, p)
      BY <1>1 DEF Writes
    <3> QED  BY <1>1, <1>2, <2>1, <3>1, <3>2, <3>3, <3>4 DEF FollowsAt
  <2> QED  BY <2>2, <2>3
<1>5. ASSUME NEW s \in Answered(n) PROVE AnswerFollows(n, s)'
  <2>1. queue'[n] = << >> /\ ~Updating(n)' /\ Answered(n)' = {s} /\ task'[s] = task[s]
    BY <1>1 DEF Overlaps, Updating
  <2>2. AnswerFollows(n, s)
    BY DEF Follows
  <2>3. s \in Tasks /\ Owner[s] = n /\ task[s].at = "answered" /\ task[s].key \in Keys /\ task[s].key \in Path
    BY <1>0, KeysArePaths DEF Answered, TaskInv, IsTask, Idle
  <2>4. ASSUME task[s].op = "subscribe" \/ IsCached(cache[n], task[s].key),
               NEW p \in Path, IsPrefix(task[s].key, p)
        PROVE  At(params', p) = At(params, p)
    <3>1. PICK k \in Keys : n \in subscribers[k] /\ IsPrefix(k, p)
      <4>1. CASE task[s].op = "subscribe"
        BY <2>3, <2>4, <4>1 DEF KindsInv, IsAnswer
      <4>2. CASE IsCached(cache[n], task[s].key)
        <5>1. PICK k \in DOMAIN cache[n] : IsPrefix(k, task[s].key)
          BY <4>2 DEF IsCached, Namespaces
        <5>2. k \in Keys /\ k \in Path /\ n \in subscribers[k]
          BY <1>3
        <5>3. IsPrefix(k, p)
          BY <2>3, <2>4, <5>1, <5>2, PrefixTransitive
        <5> QED  BY <5>2, <5>3
      <4> QED  BY <2>4, <4>1, <4>2
    <3>2. ASSUME IsPrefix(key, p) PROVE FALSE
      <4>1. \E i \in DOMAIN queue'[n] \ DOMAIN queue[n] : Covers(queue'[n][i], k, p)
        BY <1>0, <3>1, <3>2, WriteTold
      <4>2. DOMAIN << >> = {}
        OBVIOUS
      <4> QED  BY <2>1, <4>1, <4>2
    <3> QED  BY <3>2 DEF Moves
  <2>5. AnswerValue(s)' = AnswerValue(s)
    BY <2>1 DEF AnswerValue
  <2>6. (task[s].op = "subscribe" \/ IsCached(cache[n], task[s].key) => AnswerAgrees(s))'
    BY <1>2, <2>1, <2>2, <2>4, <2>5 DEF AnswerFollows, AnswerAgrees
  <2> QED  BY <2>1, <2>2, <2>6 DEF AnswerFollows
<1>6. \A k \in DOMAIN cache'[n] : Settled(cache'[n][k])
  BY <1>2 DEF Follows
<1> QED  BY <1>1, <1>2, <1>4, <1>5, <1>6 DEF Follows

LEMMA InitFollows == Init => FollowInv
<1> SUFFICES ASSUME Init, NEW n \in Nodes PROVE Follows(n)
  BY DEF FollowInv
<1>1. cache[n] = EmptyDict /\ \A t \in Tasks : task[t] = Idle
  BY DEF Init
<1>2. DOMAIN EmptyDict = {}
  BY DEF EmptyDict
<1>3. Answered(n) = {}
  BY <1>1, IdleIs DEF Answered
<1> QED  BY <1>1, <1>2, <1>3 DEF Follows

\* What has been seen is not forgotten.
LEMMA StepGrows == [Next]_vars => scalars \subseteq scalars' /\ above \subseteq above' /\ behind \subseteq behind'
<1> SUFFICES ASSUME [Next]_vars PROVE scalars \subseteq scalars' /\ above \subseteq above' /\ behind \subseteq behind'
  OBVIOUS
<1>1. CASE UNCHANGED vars
  BY <1>1 DEF vars, kinds
<1>2. ASSUME NEW t \in Tasks, GetParamCached(t) \/ SetParam(t) \/ DeleteParam(t)
      PROVE  scalars \subseteq scalars' /\ above \subseteq above' /\ behind \subseteq behind'
  BY <1>2 DEF GetParamCached, SetParam, DeleteParam, Call, kinds
<1>3. ASSUME NEW t \in Tasks, HandleSubscribe(t) \/ HandleSet(t) \/ HandleDelete(t) \/ CallNotAccepted(t)
      PROVE  scalars \subseteq scalars' /\ above \subseteq above' /\ behind \subseteq behind'
  BY <1>3 DEF HandleSubscribe, HandleSet, HandleDelete, CallNotAccepted, kinds
<1>4. ASSUME NEW t \in Tasks, SubscribeAnswered(t) \/ SetAnswered(t) \/ DeleteAnswered(t)
      PROVE  scalars \subseteq scalars' /\ above \subseteq above' /\ behind \subseteq behind'
  BY <1>4 DEF SubscribeAnswered, SetAnswered, DeleteAnswered, kinds
<1>5. ASSUME NEW n \in Nodes, ServeTakes(n) \/ ParamUpdate(n)
      PROVE  scalars \subseteq scalars' /\ above \subseteq above' /\ behind \subseteq behind'
  BY <1>5 DEF ServeTakes, ParamUpdate, kinds
<1> QED  BY <1>1, <1>2, <1>3, <1>4, <1>5 DEF Next

\* A tree changes as a write says, unless what is above the key has been a scalar.
LEMMA MovesStored ==
  ASSUME Settled(params), KindsInv, ~Mixed', scalars \subseteq scalars', NEW key \in Path,
         WayTo(key) \subseteq above', NEW value, Settled(value), params' = Stored(params, key, value)
  PROVE  Moves(key, value)
<1> SUFFICES ASSUME NEW p \in Path
             PROVE  At(params', p) = IF IsPrefix(key, p) THEN At(value, Below(key, p)) ELSE At(params, p)
  BY DEF Moves
<1>1. At(params', p) = IF IsPrefix(key, p) THEN At(value, Below(key, p))
                       ELSE IF IsPrefix(p, key) THEN DictValue ELSE At(params, p)
  BY AtStored DEF Settled
<1>2. ASSUME ~IsPrefix(key, p), IsPrefix(p, key) PROVE At(params, p) = DictValue
  <2>1. p \in WayTo(key)
    BY <1>2, OnTheWay
  <2>2. p \notin scalars
    BY <2>1 DEF Mixed
  <2> QED  BY <2>2, Unwritten
<1> QED  BY <1>1, <1>2

LEMMA MovesRemoved ==
  ASSUME NEW key, params' = Removed(params, key) PROVE Moves(key, EmptyTree)
  BY AtRemoved, AtEmpty DEF Moves

\* A subscription is answered with what the tree has.
LEMMA SubscribeHandled ==
  ASSUME Inv, NEW t \in Tasks, HandleSubscribe(t), Follows(Owner[t]), ~Overlaps(Owner[t])'
  PROVE  Follows(Owner[t])'
<1> DEFINE n == Owner[t]
           key == task[t].key
           found == Found(params, key)
<1>0. TaskInv /\ Settled(params) /\ << >> \in DOMAIN params /\ n \in Nodes
  BY OwnerAssumption DEF Inv, ParamsInv
<1>1. key \in Keys /\ key \in Path
  BY <1>0, KeysArePaths DEF HandleSubscribe, TaskInv, IsTask, Idle
<1>2. Transferred(found) = found
  <2>1. Settled(found)
    BY <1>0, <1>1, SubTreeSettled, EmptySettled DEF Found
  <2> HIDE DEF found
  <2> QED  BY <2>1, SettledStays
<1>3. /\ task'[t].at = "answered" /\ task'[t].op = "subscribe" /\ task'[t].key = key /\ task'[t].value = found
      /\ \A s \in Tasks : s # t => task'[s] = task[s]
      /\ task[t].at = "sent" /\ UNCHANGED <<params, queue, calling, cache>>
  <2>1. task' = [task EXCEPT ![t] = [at |-> "answered", op |-> "subscribe", key |-> key, value |-> Transferred(found)]]
    BY DEF HandleSubscribe
  <2>2. task[t].at = "sent" /\ UNCHANGED <<params, queue, calling, cache>>
    BY DEF HandleSubscribe, updates
  <2> HIDE DEF found, key
  <2> QED  BY <1>0, <1>2, <2>1, <2>2 DEF TaskInv
<1> HIDE DEF key, found
<1>4. Answered(n)' = {t} /\ queue'[n] = << >> /\ calling'[n] = << >>
  <2>1. t \in Answered(n)'
    BY <1>3 DEF Answered
  <2> QED  BY <2>1 DEF Overlaps, Updating
<1>5. Answered(n) = {} /\ queue[n] = << >> /\ calling[n] = << >>
  <2>1. ASSUME NEW s \in Answered(n) PROVE FALSE
    <3>1. s \in Tasks /\ s # t
      BY <1>3 DEF Answered
    <3>2. s \in Answered(n)'
      BY <1>3, <3>1 DEF Answered
    <3> QED  BY <1>4, <3>1, <3>2
  <2> QED  BY <1>3, <1>4, <2>1
<1>6. ASSUME NEW k \in DOMAIN cache[n], NEW p \in Path, IsPrefix(k, p) PROVE FollowsAt(n, k, p)'
  <2>1. LastAgrees(queue'[n], k, p, params') /\ LastAgrees(calling'[n], k, p, params')
    BY <1>4, NoneAgrees
  <2>2. Uncovered(queue[n], k, p) /\ Uncovered(calling[n], k, p)
    BY <1>5, NoneAgrees
  <2>3. At(cache[n][k], Below(k, p)) = At(params, p)
    BY <1>5, <1>6, <2>2 DEF Follows, FollowsAt
  <2> QED  BY <1>3, <2>1, <2>3 DEF FollowsAt
<1>7. AnswerFollows(n, t)'
  <2>1. ASSUME NEW p \in Path, IsPrefix(key, p) PROVE At(found, Below(key, p)) = At(params, p)
    <3>1. Below(key, p) \in Path /\ key \o Below(key, p) = p
      BY <1>1, <2>1, BelowIs
    <3> DEFINE b == Below(key, p)
    <3> HIDE DEF b
    <3>2. At(Found(params, key), b) = At(params, key \o b)
      BY <1>0, <1>1, <3>1, AtFound DEF b
    <3> QED  BY <3>1, <3>2 DEF b, found
  <2>2. AnswerValue(t)' = found
    BY <1>3 DEF AnswerValue
  <2>3. AnswerAgrees(t)'
    BY <1>3, <2>1, <2>2 DEF AnswerAgrees
  <2> QED  BY <1>3, <1>4, <2>3 DEF AnswerFollows, Updating
<1>8. Follows(n)
  OBVIOUS
<1> HIDE DEF n
<1>9. Follows(n)'
  BY <1>3, <1>4, <1>6, <1>7, <1>8 DEF Follows
<1> QED  BY <1>9 DEF n

\* The subscriber caches it.
LEMMA SubscribeTaken ==
  ASSUME Inv, KindsInv, CacheInv, NEW t \in Tasks, SubscribeAnswered(t), Follows(Owner[t])
  PROVE  Follows(Owner[t])'
<1> DEFINE n == Owner[t]
           key == task[t].key
           value == task[t].value
           c == cache[n]
           d == Put(c, key, value)
<1>0. DOMAIN task = Tasks /\ n \in Nodes
  BY OwnerAssumption DEF Inv, TaskInv
<1>1. /\ task[t].at = "answered" /\ task[t].op = "subscribe" /\ task' = [task EXCEPT ![t] = Idle]
      /\ cache'[n] = d /\ UNCHANGED <<params, queue, calling>>
  BY <1>0 DEF SubscribeAnswered, master, updates, CacheInv
<1>2. t \in Answered(n) /\ Settled(value)
  BY <1>1 DEF Answered, KindsInv, IsAnswer
<1>3. Answered(n) = {t} /\ queue[n] = << >> /\ calling[n] = << >> /\ AnswerAgrees(t) /\ AnswerValue(t) = value
  BY <1>1, <1>2 DEF Follows, AnswerFollows, Updating, AnswerValue
<1>4. Answered(n)' = {}
  <2>1. \A s \in Tasks : s # t => task'[s] = task[s]
    BY <1>0, <1>1
  <2>2. task'[t] = Idle
    BY <1>0, <1>1
  <2>3. \A s \in Tasks : s # t => s \notin Answered(n)
    BY <1>3
  <2> QED  BY <2>1, <2>2, <2>3, IdleIs DEF Answered
<1>5. /\ \A k \in DOMAIN d : k = key \/ k \in DOMAIN c
      /\ \A k \in DOMAIN d : d[k] = IF k = key THEN value ELSE c[k]
  BY DEF Put
<1>6. \A s \in Answered(n) : \A p \in Path : ~Writes(s, p)
  BY <1>1, <1>3 DEF Writes
<1> HIDE DEF d, c, key, value
<1>7. ASSUME NEW k \in DOMAIN d PROVE Settled(d[k])
  BY <1>2, <1>5 DEF Follows, c
<1>8. ASSUME NEW k \in DOMAIN d, NEW p \in Path, IsPrefix(k, p) PROVE FollowsAt(n, k, p)'
  <2>1. /\ LastAgrees(queue'[n], k, p, params') /\ LastAgrees(calling'[n], k, p, params')
        /\ Uncovered(queue[n], k, p) /\ Uncovered(calling[n], k, p)
    BY <1>1, <1>3, NoneAgrees
  <2>2. At(d[k], Below(k, p)) = At(params, p)
    <3>1. CASE k = key
      BY <1>3, <1>5, <1>8, <3>1 DEF AnswerAgrees, key
    <3>2. CASE k # key
      <4>1. k \in DOMAIN cache[n] /\ d[k] = cache[n][k]
        BY <1>5, <3>2 DEF c
      <4>2. FollowsAt(n, k, p)
        BY <1>8, <4>1 DEF Follows
      <4> QED  BY <1>6, <2>1, <4>1, <4>2 DEF FollowsAt
    <3> QED  BY <3>1, <3>2
  <2> QED  BY <1>1, <2>1, <2>2 DEF FollowsAt
<1> HIDE DEF n
<1>9. Follows(n)'
  BY <1>1, <1>4, <1>7, <1>8 DEF Follows
<1> QED  BY <1>9 DEF n

\* An update is on its way: no answer is.
LEMMA AloneIs ==
  ASSUME NEW n \in Nodes, Follows(n), Updating(n)
  PROVE  Answered(n) = {}
  BY DEF Follows, AnswerFollows

\* serve takes the first of the queue.
LEMMA ServeTaken ==
  ASSUME Inv, NEW n \in Nodes, ServeTakes(n), Follows(n)
  PROVE  Follows(n)'
<1> DEFINE q == queue[n]
           u == Head(q)
           w == [u EXCEPT !.value = Transferred(@)]
<1>1. /\ q # << >> /\ calling[n] = << >> /\ calling'[n] = <<w>> /\ queue'[n] = Tail(q)
      /\ UNCHANGED <<params, task, cache>>
  BY DEF ServeTakes, master, Inv, QueueInv, CallingInv
<1>2. PICK L : q \in Seq(L)
  BY DEF Inv, QueueInv, IsQueue
<1>3. Held(u)
  BY <1>1, QueueElements DEF Inv, QueueInv, Queued
<1>4. Answered(n) = {}
  BY <1>1, AloneIs DEF Updating
<1>5. Answered(n)' = {}
  BY <1>1, <1>4 DEF Answered
<1> HIDE DEF q, u
<1>6. w.key = u.key /\ w.value = u.value
  BY <1>3, SettledStays DEF Held
<1> HIDE DEF w
<1>7. ASSUME NEW k \in DOMAIN cache[n], NEW p \in Path, IsPrefix(k, p) PROVE FollowsAt(n, k, p)'
  <2>1. FollowsAt(n, k, p)
    BY <1>7 DEF Follows
  <2>2. /\ LastAgrees(Tail(q), k, p, params)
        /\ Uncovered(Tail(q), k, p) /\ Covers(u, k, p) => Agrees(u, p, params)
        /\ Uncovered(Tail(q), k, p) /\ ~Covers(u, k, p) => Uncovered(q, k, p)
    BY <1>1, <1>2, <2>1, FirstTaken DEF FollowsAt, q, u
  <2>3. (Covers(w, k, p) <=> Covers(u, k, p)) /\ (Agrees(w, p, params) <=> Agrees(u, p, params))
    BY <1>6 DEF Covers, Agrees
  <2>4. /\ LastAgrees(<<w>>, k, p, params) <=> (Covers(w, k, p) => Agrees(w, p, params))
        /\ Uncovered(<<w>>, k, p) <=> ~Covers(w, k, p)
    BY OneAgrees
  <2>5. Uncovered(calling[n], k, p)
    BY <1>1, NoneAgrees
  <2>6. Uncovered(q, k, p) => At(cache[n][k], Below(k, p)) = At(params, p)
    BY <1>4, <2>1, <2>5 DEF FollowsAt, q
  <2> QED  BY <1>1, <2>2, <2>3, <2>4, <2>6 DEF FollowsAt
<1> QED  BY <1>1, <1>5, <1>7 DEF Follows

\* The tree has no scalar above a key that is used.
LEMMA NoScalarAbove ==
  ASSUME ~Mixed, KindsInv, NEW key \in Path, WayTo(key) \subseteq above,
         NEW p \in Path, IsPrefix(p, key), ~IsPrefix(key, p)
  PROVE  At(params, p) = DictValue
<1>1. p \in WayTo(key)
  BY OnTheWay
<1> QED  BY <1>1, Unwritten DEF Mixed

\* And so no update fails.
LEMMA NoneFails ==
  ASSUME ~Mixed, CacheInv, NEW n \in Nodes, NEW key \in Keys, WayTo(key) \subseteq above
  PROVE  UpdateFails(cache[n], key) = {}
<1> SUFFICES ASSUME NEW k \in Namespaces(cache[n], key), Blocked(cache[n][k], Below(k, key)) PROVE FALSE
  BY DEF UpdateFails
<1>1. k \in DOMAIN cache[n] /\ IsPrefix(k, key)
  BY DEF Namespaces
<1>2. k \in Path /\ key \in Path /\ ScalarsAmong(cache[n][k], k, scalars)
  BY <1>1, KeysArePaths DEF CacheInv
<1>3. scalars \cap WayTo(key) # {}
  BY <1>1, <1>2, BlockedMixes
<1> QED  BY <1>3 DEF Mixed

\* The cache takes an update, which tells what the tree has or is followed by one that does.
LEMMA UpdateTaken ==
  ASSUME Inv, KindsInv, CacheInv, ~Mixed, NEW n \in Nodes, ParamUpdate(n), Follows(n)
  PROVE  Follows(n)'
<1> DEFINE c == cache[n]
           v == Head(calling[n])
<1>1. /\ calling[n] # << >> /\ calling'[n] = << >> /\ cache'[n] = Updated(c, v.key, v.value)
      /\ UNCHANGED <<params, task, queue>>
  BY DEF ParamUpdate, master, Inv, CallingInv, CacheInv
<1>2. PICK u : Held(u) /\ calling[n] = <<u>>
  BY <1>1 DEF Inv, CallingInv
<1>3. v = u
  BY <1>2, HeadOfOne
<1>4. u.key \in Keys /\ u.key \in Path /\ WayTo(u.key) \subseteq above
      /\ Settled(u.value) /\ << >> \in DOMAIN u.value /\ DOMAIN u.value \subseteq Path
  BY <1>1, <1>2, <1>3, KeysArePaths DEF Held, KindsInv, KnownTo, Settled
<1>5. UpdateFails(c, u.key) = {}
  BY <1>4, NoneFails
<1>6. Answered(n) = {}
  BY <1>1, AloneIs DEF Updating
<1>7. Answered(n)' = {}
  BY <1>1, <1>6 DEF Answered
<1>8. \A k \in DOMAIN c : k \in Keys /\ k \in Path /\ Settled(c[k]) /\ DOMAIN c[k] \subseteq Path
  BY KeysArePaths DEF CacheInv, Follows, Settled
<1> DEFINE d == Updated(c, u.key, u.value)
<1>9. DOMAIN d = DOMAIN c /\ \A k \in DOMAIN c : Settled(d[k])
  <2>1. DOMAIN d = DOMAIN c
    BY DEF Updated
  <2>2. \A k \in DOMAIN c : Settled(d[k])
    BY <1>4, <1>8, UpdatedSettled
  <2> QED  BY <2>1, <2>2
<1>10. cache'[n] = d
  BY <1>1, <1>3
<1>11. ASSUME NEW k \in DOMAIN c, NEW p \in Path, IsPrefix(k, p) PROVE FollowsAt(n, k, p)'
  <2>1. FollowsAt(n, k, p)
    BY <1>11 DEF Follows
  <2>2. At(d[k], Below(k, p)) =
           IF IsPrefix(k, u.key) /\ IsPrefix(u.key, p) THEN At(u.value, Below(u.key, p))
           ELSE IF IsPrefix(k, u.key) /\ IsPrefix(p, u.key) THEN DictValue
           ELSE At(c[k], Below(k, p))
    BY <1>4, <1>5, <1>8, <1>11, AtUpdated
  <2> HIDE DEF d
  <2>3. LastAgrees(calling'[n], k, p, params')
    BY <1>1, NoneAgrees
  <2>4. ASSUME Uncovered(queue[n], k, p) PROVE At(d[k], Below(k, p)) = At(params, p)
    <3>1. LastAgrees(<<u>>, k, p, params)
      BY <1>2, <2>1, <2>4 DEF FollowsAt
    <3>2. CASE Covers(u, k, p)
      <4>1. Agrees(u, p, params)
        BY <3>1, <3>2, OneAgrees
      <4> QED  BY <2>2, <3>2, <4>1 DEF Covers, Agrees
    <3>3. CASE ~Covers(u, k, p)
      <4>1. Uncovered(calling[n], k, p)
        BY <1>2, <3>3, OneAgrees
      <4>2. At(c[k], Below(k, p)) = At(params, p)
        BY <1>6, <2>1, <2>4, <4>1 DEF FollowsAt
      <4>3. ~(IsPrefix(k, u.key) /\ IsPrefix(u.key, p))
        BY <3>3 DEF Covers
      <4>4. CASE IsPrefix(k, u.key) /\ IsPrefix(p, u.key)
        <5>1. ~IsPrefix(u.key, p)
          BY <4>3, <4>4
        <5>2. At(params, p) = DictValue
          BY <1>4, <4>4, <5>1, NoScalarAbove
        <5> QED  BY <2>2, <4>3, <4>4, <5>2
      <4>5. CASE ~(IsPrefix(k, u.key) /\ IsPrefix(p, u.key))
        BY <2>2, <4>2, <4>3, <4>5
      <4> QED  BY <4>4, <4>5
    <3> QED  BY <3>2, <3>3
  <2> QED  BY <1>1, <1>10, <2>1, <2>3, <2>4 DEF FollowsAt
<1> HIDE DEF d
<1> QED  BY <1>1, <1>7, <1>9, <1>10, <1>11 DEF Follows

\* What an answer of the node's own leaves to be shown: it is alone, and once it
\* is taken nothing is on its way.
LEMMA AnswerTaken ==
  ASSUME Inv, NEW t \in Tasks, task[t].at = "answered", task' = [task EXCEPT ![t] = Idle],
         UNCHANGED <<params, queue, calling>>, Follows(Owner[t]), DOMAIN cache'[Owner[t]] = DOMAIN cache[Owner[t]],
         \A k \in DOMAIN cache[Owner[t]] : Settled(cache'[Owner[t]][k]),
         \A k \in DOMAIN cache[Owner[t]] : \A p \in Path : IsPrefix(k, p) =>
           \/ At(cache'[Owner[t]][k], Below(k, p)) = At(params, p)
           \/ ~Writes(t, p) /\ At(cache'[Owner[t]][k], Below(k, p)) = At(cache[Owner[t]][k], Below(k, p))
  PROVE  Follows(Owner[t])'
<1> DEFINE n == Owner[t]
<1>1. DOMAIN task = Tasks /\ t \in Answered(n) /\ Follows(n)
  BY DEF Inv, TaskInv, Answered
<1>2. Answered(n) = {t} /\ queue[n] = << >> /\ calling[n] = << >>
  BY <1>1 DEF Follows, AnswerFollows, Updating
<1>3. Answered(n)' = {}
  <2>1. \A s \in Tasks : s # t => task'[s] = task[s]
    BY <1>1
  <2>2. task'[t] = Idle
    BY <1>1
  <2>3. \A s \in Tasks : s # t => s \notin Answered(n)
    BY <1>2
  <2> QED  BY <2>1, <2>2, <2>3, IdleIs DEF Answered
<1>4. ASSUME NEW k \in DOMAIN cache[n], NEW p \in Path, IsPrefix(k, p) PROVE FollowsAt(n, k, p)'
  <2>1. /\ LastAgrees(queue'[n], k, p, params') /\ LastAgrees(calling'[n], k, p, params')
        /\ Uncovered(queue[n], k, p) /\ Uncovered(calling[n], k, p)
    BY <1>2, NoneAgrees
  <2>2. ~Writes(t, p) => At(cache[n][k], Below(k, p)) = At(params, p)
    BY <1>1, <1>2, <1>4, <2>1 DEF Follows, FollowsAt
  <2>3. At(cache'[n][k], Below(k, p)) = At(params, p)
    BY <1>4, <2>2
  <2> QED  BY <2>1, <2>3 DEF FollowsAt
<1>5. DOMAIN cache'[n] = DOMAIN cache[n] /\ \A k \in DOMAIN cache[n] : Settled(cache'[n][k])
  OBVIOUS
<1> HIDE DEF n
<1>6. Follows(n)'
  BY <1>3, <1>4, <1>5 DEF Follows
<1> QED  BY <1>6 DEF n

\* A node's own write of what is not cached below the key: what is cached of it
\* is cached above it.
LEMMA CachedAbove ==
  ASSUME CacheInv, NEW n \in Nodes, NEW key \in Path, ~Unseen(n, key), NEW k \in DOMAIN cache[n],
         NEW p \in Path, IsPrefix(k, p), IsPrefix(key, p)
  PROVE  IsPrefix(k, key)
<1>1. k \in Path
  BY KeysArePaths DEF CacheInv
<1>2. IsPrefix(k, key) \/ IsPrefix(key, k)
  BY <1>1, PathsComparable
<1>3. ASSUME IsPrefix(key, k) PROVE k = key
  BY <1>3 DEF Unseen, IsStrictPrefix
<1> QED  BY <1>1, <1>2, <1>3, PrefixReflexive

\* The node caches what it has set, which the master may have by another value only if
\* nothing is cached of it.
LEMMA SetTaken ==
  ASSUME Inv, KindsInv, CacheInv, ~Mixed, NEW t \in Tasks, SetAnswered(t),
         Follows(Owner[t]), Owner[t] \notin behind'
  PROVE  Follows(Owner[t])'
<1> DEFINE n == Owner[t]
           key == task[t].key
           value == task[t].value
           c == cache[n]
           d == Updated(c, key, value)
<1>0. TaskInv /\ n \in Nodes
  BY OwnerAssumption DEF Inv
<1>1. /\ task[t].at = "answered" /\ task[t].op = "set" /\ task' = [task EXCEPT ![t] = Idle]
      /\ cache'[n] = d /\ UNCHANGED <<params, queue, calling>>
  BY <1>0 DEF SetAnswered, master, updates, CacheInv
<1>2. ~(IsCached(c, key) /\ Transferred(value) # value) /\ ~Unseen(n, key)
  BY DEF SetAnswered
<1>3. key \in Keys /\ key \in Path /\ value \in Values /\ WayTo(key) \subseteq above
  <2>1. key \in Keys /\ value \in Values
    BY <1>0, <1>1 DEF TaskInv, IsTask, Idle
  <2>2. WayTo(key) \subseteq above
    BY <1>1 DEF KindsInv, IsAnswer
  <2> QED  BY <2>1, <2>2, KeysArePaths
<1>4. AnswerFollows(n, t)
  BY <1>1 DEF Follows, Answered
<1>5. Accepted(value) /\ AnswerValue(t) = Transferred(value) /\ (IsCached(c, key) => AnswerAgrees(t))
  BY <1>1, <1>4 DEF AnswerFollows, AnswerValue
<1>6. \A k \in DOMAIN c : k \in Keys /\ k \in Path /\ Settled(c[k]) /\ DOMAIN c[k] \subseteq Path
  BY <1>0, KeysArePaths DEF CacheInv, Follows, Settled
<1>7. UpdateFails(c, key) = {} /\ DOMAIN d = DOMAIN c
  BY <1>0, <1>3, NoneFails DEF Updated
<1>8. ASSUME ~IsCached(c, key), NEW k \in DOMAIN c
      PROVE  d[k] = c[k] /\ \A p \in Path : IsPrefix(k, p) => ~Writes(t, p)
  <2>1. ~IsPrefix(k, key)
    BY <1>8 DEF IsCached, Namespaces
  <2>2. d[k] = c[k]
    BY <2>1 DEF Updated, Before, Namespaces
  <2>3. \A p \in Path : IsPrefix(k, p) => ~IsPrefix(key, p)
    BY <1>0, <1>2, <1>3, <2>1, CachedAbove
  <2> QED  BY <2>2, <2>3 DEF Writes
<1>9. ASSUME IsCached(c, key)
      PROVE  /\ \A k \in DOMAIN c : Settled(d[k])
             /\ \A k \in DOMAIN c : \A p \in Path : IsPrefix(k, p) =>
                  \/ At(d[k], Below(k, p)) = At(params, p)
                  \/ ~Writes(t, p) /\ At(d[k], Below(k, p)) = At(c[k], Below(k, p))
  <2>1. Transferred(value) = value
    BY <1>2, <1>9
  <2>2. Settled(Transferred(value)) /\ << >> \in DOMAIN Transferred(value)
    BY <1>3, <1>5, ValuesAssumption, ReceivedSettled
  <2>3. Settled(value) /\ << >> \in DOMAIN value /\ DOMAIN value \subseteq Path
    BY <2>1, <2>2 DEF Settled
  <2>4. \A k \in DOMAIN c : Settled(d[k])
    BY <1>3, <1>6, <2>3, UpdatedSettled
  <2>5. ASSUME NEW k \in DOMAIN c, NEW p \in Path, IsPrefix(k, p)
        PROVE  \/ At(d[k], Below(k, p)) = At(params, p)
               \/ ~Writes(t, p) /\ At(d[k], Below(k, p)) = At(c[k], Below(k, p))
    <3>1. At(d[k], Below(k, p)) =
             IF IsPrefix(k, key) /\ IsPrefix(key, p) THEN At(value, Below(key, p))
             ELSE IF IsPrefix(k, key) /\ IsPrefix(p, key) THEN DictValue
             ELSE At(c[k], Below(k, p))
      BY <1>3, <1>6, <1>7, <2>3, <2>5, AtUpdated
    <3>2. IsPrefix(key, p) => IsPrefix(k, key)
      BY <1>0, <1>2, <1>3, <2>5, CachedAbove
    <3>3. CASE IsPrefix(key, p)
      <4>1. At(value, Below(key, p)) = At(params, p)
        BY <1>5, <1>9, <2>1, <3>3 DEF AnswerAgrees
      <4> QED  BY <3>1, <3>2, <3>3, <4>1
    <3>4. CASE ~IsPrefix(key, p) /\ IsPrefix(k, key) /\ IsPrefix(p, key)
      <4>1. At(params, p) = DictValue
        BY <1>3, <3>4, NoScalarAbove
      <4> QED  BY <3>1, <3>4, <4>1
    <3>5. CASE ~IsPrefix(key, p) /\ ~(IsPrefix(k, key) /\ IsPrefix(p, key))
      BY <3>1, <3>5 DEF Writes
    <3> QED  BY <3>3, <3>4, <3>5
  <2> QED  BY <2>4, <2>5
<1>10. /\ \A k \in DOMAIN c : Settled(d[k])
       /\ \A k \in DOMAIN c : \A p \in Path : IsPrefix(k, p) =>
            \/ At(d[k], Below(k, p)) = At(params, p)
            \/ ~Writes(t, p) /\ At(d[k], Below(k, p)) = At(c[k], Below(k, p))
  BY <1>6, <1>8, <1>9
<1> HIDE DEF d
<1> QED  BY <1>1, <1>7, <1>10, AnswerTaken

\* It forgets what it has deleted.
LEMMA DeleteTaken ==
  ASSUME Inv, KindsInv, CacheInv, NEW t \in Tasks, DeleteAnswered(t),
         Follows(Owner[t]), Owner[t] \notin behind'
  PROVE  Follows(Owner[t])'
<1> DEFINE n == Owner[t]
           key == task[t].key
           c == cache[n]
           d == Deleted(c, key)
<1>0. TaskInv /\ n \in Nodes
  BY OwnerAssumption DEF Inv
<1>1. /\ task[t].at = "answered" /\ task[t].op = "delete" /\ task' = [task EXCEPT ![t] = Idle]
      /\ cache'[n] = d /\ UNCHANGED <<params, queue, calling>>
  BY <1>0 DEF DeleteAnswered, master, updates, CacheInv
<1>2. ~Unseen(n, key) /\ key \notin DOMAIN c /\ DeleteFails(c, key) = {}
  BY DEF DeleteAnswered
<1>3. key \in Keys /\ key \in Path
  BY <1>0, <1>1, KeysArePaths DEF TaskInv, IsTask, Idle
<1>4. AnswerFollows(n, t)
  BY <1>1 DEF Follows, Answered
<1>5. AnswerValue(t) = EmptyTree /\ (IsCached(c, key) => AnswerAgrees(t))
  BY <1>1, <1>4 DEF AnswerFollows, AnswerValue
<1>6. \A k \in DOMAIN c : k \in Keys /\ k \in Path /\ Settled(c[k])
  BY <1>0, KeysArePaths DEF CacheInv, Follows
<1>7. DOMAIN d = DOMAIN c /\ \A k \in DOMAIN c : Settled(d[k])
  <2>1. DOMAIN d = DOMAIN c
    BY DEF Deleted
  <2> QED  BY <1>3, <1>6, <2>1, DeletedSettled
<1>8. ASSUME NEW k \in DOMAIN c, NEW p \in Path, IsPrefix(k, p)
      PROVE  \/ At(d[k], Below(k, p)) = At(params, p)
             \/ ~Writes(t, p) /\ At(d[k], Below(k, p)) = At(c[k], Below(k, p))
  <2>1. At(d[k], Below(k, p)) = IF IsPrefix(k, key) /\ IsPrefix(key, p) THEN DictValue ELSE At(c[k], Below(k, p))
    BY <1>2, <1>3, <1>6, <1>8, AtDeleted
  <2>2. IsPrefix(key, p) => IsPrefix(k, key)
    BY <1>0, <1>2, <1>3, <1>8, CachedAbove
  <2>3. CASE IsPrefix(key, p)
    <3>1. IsCached(c, key)
      BY <2>2, <2>3 DEF IsCached, Namespaces
    <3>2. At(EmptyTree, Below(key, p)) = At(params, p)
      BY <1>5, <2>3, <3>1 DEF AnswerAgrees
    <3> QED  BY <2>1, <2>2, <2>3, <3>2, AtEmpty
  <2>4. CASE ~IsPrefix(key, p)
    BY <2>1, <2>4 DEF Writes
  <2> QED  BY <2>3, <2>4
<1> HIDE DEF d
<1> QED  BY <1>1, <1>7, <1>8, AnswerTaken

\* The master writes: every node is told, but the one whose write it is.
LEMMA WriteFollows ==
  ASSUME Inv, KindsInv, CacheInv, ~Mixed', above \subseteq above', Settled(params'),
         NEW key \in Keys, NEW value, Settled(value), << >> \in DOMAIN value, NEW live, NEW t \in Tasks,
         task[t].at = "sent", task[t].op \in {"set", "delete"}, task[t].key = key,
         task' = [task EXCEPT ![t].at = "answered"],
         task[t].op = "set" => Accepted(task[t].value) /\ value = Transferred(task[t].value),
         task[t].op = "delete" => value = EmptyTree,
         OnParamUpdate(key, value, Owner[t], live), Moves(key, value),
         ScalarsAmong(value, key, scalars'), UNCHANGED <<calling, cache>>,
         NEW n \in Nodes, Follows(n), ~Overlaps(n)'
  PROVE  Follows(n)'
<1>1. CASE n = Owner[t]
  BY <1>1, OwnWriteFollows
<1>2. CASE n # Owner[t]
  BY <1>2, OthersWriteFollows
<1> QED  BY <1>1, <1>2

LEMMA SetHandled ==
  ASSUME Inv, Inv', KindsInv, CacheInv, ~Mixed', NEW t \in Tasks, HandleSet(t), NEW n \in Nodes,
         Follows(n), n \notin behind'
  PROVE  Follows(n)'
<1> DEFINE key == task[t].key
           raw == task[t].value
           value == Transferred(raw)
<1>0. TaskInv /\ Settled(params) /\ Settled(params') /\ DOMAIN task = Tasks
  BY DEF Inv, ParamsInv, TaskInv
<1>1. /\ key \in Keys /\ raw \in Values /\ task[t].at = "sent" /\ task[t].op = "set" /\ Accepted(raw)
  BY <1>0 DEF HandleSet, TaskInv, IsTask, Idle
<1>2. UNCHANGED <<calling, cache>> /\ ~Overlaps(n)'
  BY DEF HandleSet
<1>3. CASE key = << >> /\ ~IsDictValue(value)
  <2>1. task' = [task EXCEPT ![t] = Idle] /\ UNCHANGED <<params, queue>>
    BY <1>3 DEF HandleSet
  <2>2. \A s \in Tasks : task'[s] = task[s] \/ (task'[s].at # "answered" /\ task[s].at # "answered")
    BY <1>0, <1>1, <2>1, IdleIs
  <2>3. Same(n)
    BY <1>2, <2>1, <2>2 DEF Same
  <2> QED  BY <2>3, FollowsStays
<1>4. CASE ~(key = << >> /\ ~IsDictValue(value))
  <2>1. /\ params' = Stored(params, key, value)
        /\ OnParamUpdate(key, value, Owner[t], IsDictValue(value))
        /\ task' = [task EXCEPT ![t].at = "answered"]
        /\ scalars' = scalars \cup ScalarPaths(key, value) \cup ScalarPaths(key, raw)
        /\ above' = above \cup WayTo(key)
    BY <1>4 DEF HandleSet
  <2>2. task[t].key = key /\ task[t].value = raw
    OBVIOUS
  <2>3. Settled(value) /\ << >> \in DOMAIN value
    BY <1>1, ValuesAssumption, ReceivedSettled
  <2>4. task[t].op = "set" => Accepted(task[t].value) /\ value = Transferred(task[t].value)
    BY <1>1
  <2> HIDE DEF key, raw, value
  <2>5. key \in Path
    BY <1>1, KeysArePaths
  <2>6. scalars \subseteq scalars' /\ above \subseteq above' /\ WayTo(key) \subseteq above'
    BY <2>1
  <2>7. Moves(key, value)
    BY <1>0, <2>1, <2>3, <2>5, <2>6, MovesStored
  <2>8. ScalarsAmong(value, key, scalars')
    <3>1. DOMAIN value \subseteq Seq(STRING) /\ ScalarPaths(key, value) \subseteq scalars'
      BY <2>1, <2>3, PathsAreSequences DEF Settled
    <3> QED  BY <3>1, ScalarPathsAre
  <2> QED
    BY <1>0, <1>1, <1>2, <2>1, <2>2, <2>3, <2>4, <2>6, <2>7, <2>8, WriteFollows
<1> QED  BY <1>3, <1>4

LEMMA DeleteHandled ==
  ASSUME Inv, Inv', KindsInv, CacheInv, ~Mixed', NEW t \in Tasks, HandleDelete(t), NEW n \in Nodes,
         Follows(n), n \notin behind'
  PROVE  Follows(n)'
<1> DEFINE key == task[t].key
           value == EmptyTree
<1>0. TaskInv /\ Settled(params') /\ DOMAIN task = Tasks
  BY DEF Inv, ParamsInv, TaskInv
<1>1. /\ key \in Keys /\ task[t].at = "sent" /\ task[t].op = "delete"
  BY <1>0 DEF HandleDelete, TaskInv, IsTask, Idle
<1>2. UNCHANGED <<calling, cache>> /\ ~Overlaps(n)'
  BY DEF HandleDelete
<1>3. CASE key = << >> \/ key \notin DOMAIN params
  <2>1. task' = [task EXCEPT ![t] = Idle] /\ UNCHANGED <<params, queue>>
    BY <1>3 DEF HandleDelete
  <2>2. \A s \in Tasks : task'[s] = task[s] \/ (task'[s].at # "answered" /\ task[s].at # "answered")
    BY <1>0, <1>1, <2>1, IdleIs
  <2>3. Same(n)
    BY <1>2, <2>1, <2>2 DEF Same
  <2> QED  BY <2>3, FollowsStays
<1>4. CASE ~(key = << >> \/ key \notin DOMAIN params)
  <2>1. /\ params' = Removed(params, key)
        /\ OnParamUpdate(key, value, Owner[t], FALSE)
        /\ task' = [task EXCEPT ![t].at = "answered"]
        /\ above \subseteq above'
    BY <1>4 DEF HandleDelete, DeletedValue
  <2>2. task[t].key = key
    OBVIOUS
  <2>3. Settled(value) /\ << >> \in DOMAIN value /\ ScalarsAmong(value, key, scalars')
    BY EmptySettled, ScalarsOfEmpty
  <2>4. Moves(key, value)
    BY <2>1, MovesRemoved
  <2>5. task[t].op # "set" /\ value = EmptyTree
    BY <1>1
  <2> DEFINE live == FALSE
  <2>6. OnParamUpdate(key, value, Owner[t], live)
    BY <2>1
  <2> HIDE DEF key, value, live
  <2> QED
    BY <1>0, <1>1, <1>2, <2>1, <2>2, <2>3, <2>4, <2>5, <2>6, WriteFollows
<1> QED  BY <1>3, <1>4

\* Every operation keeps what is told of the paths to whom it is on its way.
LEMMA StepFollows == Inv /\ Inv' /\ KindsInv /\ CacheInv /\ FollowInv /\ [Next]_vars => FollowInv'
<1> SUFFICES ASSUME Inv, Inv', KindsInv, CacheInv, FollowInv, [Next]_vars, ~Mixed',
                    NEW n \in Nodes, n \notin behind'
             PROVE  Follows(n)'
  BY DEF FollowInv
<1>0. ~Mixed /\ Follows(n) /\ DOMAIN task = Tasks
  BY StepGrows DEF Mixed, FollowInv, Inv, TaskInv
<1>1. CASE UNCHANGED vars
  <2>1. Same(n)
    BY <1>1 DEF vars, master, updates, Same
  <2> QED  BY <1>0, <2>1, FollowsStays
<1>2. ASSUME NEW t \in Tasks, GetParamCached(t) \/ SetParam(t) \/ DeleteParam(t) PROVE Follows(n)'
  <2>1. PICK request : task' = [task EXCEPT ![t] = request] /\ request.at = "sent" /\ task[t] = Idle
    <3>1. CASE GetParamCached(t)
      BY <3>1 DEF GetParamCached, Call, MayCall
    <3>2. CASE SetParam(t)
      BY <3>2 DEF SetParam, Call, MayCall
    <3>3. CASE DeleteParam(t)
      BY <3>3 DEF DeleteParam, Call, MayCall
    <3> QED  BY <1>2, <3>1, <3>2, <3>3
  <2>2. UNCHANGED <<params, queue, calling, cache>>
    BY <1>2 DEF GetParamCached, SetParam, DeleteParam, Call, master, updates
  <2>3. Same(n)
    BY <1>0, <2>1, <2>2, IdleIs DEF Same
  <2> QED  BY <1>0, <2>3, FollowsStays
<1>3. ASSUME NEW t \in Tasks, CallNotAccepted(t) PROVE Follows(n)'
  <2>1. Same(n)
    BY <1>3 DEF CallNotAccepted, master, updates, Same
  <2> QED  BY <1>0, <2>1, FollowsStays
<1>4. ASSUME NEW t \in Tasks, HandleSubscribe(t) PROVE Follows(n)'
  <2>1. CASE n = Owner[t]
    <3>1. ~Overlaps(n)'
      BY <1>4 DEF HandleSubscribe
    <3> QED  BY <1>0, <1>4, <2>1, <3>1, SubscribeHandled
  <2>2. CASE n # Owner[t]
    <3>1. UNCHANGED <<params, queue, calling, cache>> /\ \A s \in Tasks : s # t => task'[s] = task[s]
      BY <1>0, <1>4 DEF HandleSubscribe, updates
    <3>2. Same(n)
      BY <2>2, <3>1 DEF Same
    <3> QED  BY <1>0, <3>2, FollowsStays
  <2> QED  BY <2>1, <2>2
<1>5. ASSUME NEW t \in Tasks, HandleSet(t) \/ HandleDelete(t) PROVE Follows(n)'
  BY <1>0, <1>5, SetHandled, DeleteHandled
<1>6. ASSUME NEW t \in Tasks, SubscribeAnswered(t) \/ SetAnswered(t) \/ DeleteAnswered(t) PROVE Follows(n)'
  <2>1. CASE n = Owner[t]
    BY <1>0, <1>6, <2>1, SubscribeTaken, SetTaken, DeleteTaken
  <2>2. CASE n # Owner[t]
    <3>1. /\ UNCHANGED <<params, queue, calling>> /\ task' = [task EXCEPT ![t] = Idle]
          /\ \E c : cache' = [cache EXCEPT ![Owner[t]] = c]
      <4>1. UNCHANGED <<params, queue, calling>> /\ task' = [task EXCEPT ![t] = Idle]
        BY <1>6 DEF SubscribeAnswered, SetAnswered, DeleteAnswered, master, updates
      <4>2. \E c : cache' = [cache EXCEPT ![Owner[t]] = c]
        BY <1>6 DEF SubscribeAnswered, SetAnswered, DeleteAnswered
      <4> QED  BY <4>1, <4>2
    <3>2. cache'[n] = cache[n] /\ \A s \in Tasks : s # t => task'[s] = task[s]
      BY <1>0, <2>2, <3>1 DEF CacheInv
    <3>3. Same(n)
      BY <2>2, <3>1, <3>2 DEF Same
    <3> QED  BY <1>0, <3>3, FollowsStays
  <2> QED  BY <2>1, <2>2
<1>7. ASSUME NEW m \in Nodes, ServeTakes(m) \/ ParamUpdate(m) PROVE Follows(n)'
  <2>1. CASE n = m
    BY <1>0, <1>7, <2>1, ServeTaken, UpdateTaken
  <2>2. CASE n # m
    <3>1. UNCHANGED <<params, task>> /\ queue'[n] = queue[n] /\ calling'[n] = calling[n] /\ cache'[n] = cache[n]
      <4>1. CASE ServeTakes(m)
        BY <2>2, <4>1 DEF ServeTakes, master, Inv, QueueInv, CallingInv
      <4>2. CASE ParamUpdate(m)
        BY <2>2, <4>2 DEF ParamUpdate, master, Inv, CallingInv, CacheInv
      <4> QED  BY <1>7, <4>1, <4>2
    <3>2. Same(n)
      BY <3>1 DEF Same
    <3> QED  BY <1>0, <3>2, FollowsStays
  <2> QED  BY <2>1, <2>2
<1> QED  BY <1>1, <1>2, <1>3, <1>4, <1>5, <1>6, <1>7 DEF Next

-----------------------------------------------------------------------------
(* What a node reads                                                        *)

\* The shortest namespace that answers for a key.
LEMMA ShortestIs ==
  ASSUME NEW c, DOMAIN c \subseteq Path, NEW key, IsCached(c, key)
  PROVE  \E k \in Namespaces(c, key) : \A j \in Namespaces(c, key) : Len(k) <= Len(j)
<1> DEFINE N == Namespaces(c, key)
           T == {Len(k) : k \in N}
<1>1. N \subseteq Path /\ N # {}
  BY DEF Namespaces, IsCached
<1>2. \A k \in N : Len(k) \in Nat
  BY <1>1, PathEnds
<1> HIDE DEF N
<1>3. T \in SUBSET Nat /\ T # {}
  BY <1>1, <1>2
<1>4. PICK i \in T : \A m \in T : i <= m
  <2> HIDE DEF T
  <2> QED  BY <1>3, Least
<1>5. PICK k \in N : Len(k) = i
  BY <1>4
<1>6. \A j \in N : Len(k) <= Len(j)
  BY <1>4, <1>5
<1> QED  BY <1>6 DEF N

\* When nothing is on its way, a cache has what the tree has.
LEMMA InvCacheFollows == Inv /\ CacheInv /\ FollowInv => CacheFollows
<1> SUFFICES ASSUME Inv, CacheInv, FollowInv, ~Mixed, NEW n \in Nodes \ behind,
                    ~Updating(n), Answered(n) = {}, NEW key \in Keys, IsCached(cache[n], key)
             PROVE  Leaves(Lookup(cache[n], key)) = Leaves(Found(params, key))
  BY DEF CacheFollows
<1> DEFINE c == cache[n]
           first == CHOOSE k \in Namespaces(c, key) : \A j \in Namespaces(c, key) : Len(k) <= Len(j)
           r == Below(first, key)
<1>1. Follows(n) /\ queue[n] = << >> /\ calling[n] = << >> /\ Settled(params) /\ key \in Path
  BY KeysArePaths DEF FollowInv, Updating, Inv, ParamsInv
<1>2. \A k \in DOMAIN c : k \in Path /\ Settled(c[k])
  BY <1>1, KeysArePaths DEF CacheInv, Follows
<1>3. first \in Namespaces(c, key)
  <2>1. DOMAIN c \subseteq Path /\ IsCached(c, key)
    BY <1>2
  <2> HIDE DEF c
  <2> QED  BY <2>1, ShortestIs
<1>4. first \in DOMAIN c /\ IsPrefix(first, key)
  <2> HIDE DEF first
  <2> QED  BY <1>3 DEF Namespaces
<1>5. Lookup(c, key) = Found(c[first], r)
  BY DEF Lookup
<1> HIDE DEF first
<1>6. first \in Path /\ Settled(c[first]) /\ r \in Path /\ key = first \o r
  BY <1>1, <1>2, <1>4, BelowIs
<1>7. ASSUME NEW q \in Path PROVE At(Found(c[first], r), q) = At(Found(params, key), q)
  <2>1. At(Found(c[first], r), q) = At(c[first], r \o q)
    <3> DEFINE tree == c[first]
    <3>1. Settled(tree) /\ r \in Path
      BY <1>6
    <3> HIDE DEF tree, r
    <3>2. At(Found(tree, r), q) = At(tree, r \o q)
      BY <3>1, AtFound
    <3> QED  BY <3>2 DEF tree
  <2>2. At(Found(params, key), q) = At(params, key \o q)
    BY <1>1, AtFound
  <2> DEFINE p == key \o q
  <2>3. p = first \o (r \o q) /\ r \o q \in Path /\ p \in Path
    <3> HIDE DEF r
    <3>1. (first \o r) \o q = first \o (r \o q)
      BY <1>6, Associated
    <3>2. r \o q \in Path /\ key \o q \in Path
      BY <1>1, <1>6, PathsConcatenate
    <3> QED  BY <1>6, <3>1, <3>2
  <2> HIDE DEF p, r
  <2>4. IsPrefix(first, p) /\ Below(first, p) = r \o q
    BY <1>6, <2>3, BelowOf
  <2>5. Uncovered(queue[n], first, p) /\ Uncovered(calling[n], first, p)
    BY <1>1, NoneAgrees
  <2>6. At(c[first], Below(first, p)) = At(params, p)
    BY <1>1, <1>4, <2>3, <2>4, <2>5 DEF Follows, FollowsAt
  <2> QED  BY <2>1, <2>2, <2>4, <2>6 DEF p
<1>8. DOMAIN Found(c[first], r) \subseteq Path /\ DOMAIN Found(params, key) \subseteq Path
  <2>1. Settled(SubTree(params, key)) /\ Settled(EmptyTree)
    BY <1>1, SubTreeSettled, EmptySettled
  <2> DEFINE tree == c[first]
  <2>2. Settled(tree) /\ r \in Path
    BY <1>6
  <2> HIDE DEF tree, r
  <2>3. Settled(SubTree(tree, r))
    BY <2>2, SubTreeSettled
  <2> QED  BY <2>1, <2>3 DEF Found, Settled, tree
<1> DEFINE f == Found(c[first], r)
           g == Found(params, key)
<1> HIDE DEF f, g
<1>9. Leaves(f) = Leaves(g)
  BY <1>7, <1>8, LeavesSame DEF f, g
<1> QED  BY <1>5, <1>9 DEF f, g

\* With nothing on its way to a node, its cache answers as the master would
\* (ParamCache of the node, on_param_update and serve of the master), whatever the
\* names, the values, the remappings and the order of what the tasks do; but for
\* the paths that have been scalars and namespaces, and the nodes whose answers
\* and updates could overtake each other, or whose own writes go unseen.
THEOREM CachesFollow == Spec => []CacheFollows
<1> DEFINE I == Inv /\ KindsInv /\ CacheInv /\ FollowInv
<1>1. Init => I
  BY InitInv, InitKinds, InitFollows
<1>2. I /\ [Next]_vars => I'
  BY StepInv, StepKinds, StepFollows
<1>3. I => CacheFollows
  BY InvCacheFollows
<1> QED  BY <1>1, <1>2, <1>3, PTL DEF Spec
=============================================================================
