--------------------------- MODULE OperatorProofs ---------------------------
(***************************************************************************)
(* What the operators return that several models share: Python's            *)
(* dictionaries, the queues of the tasks that wait for a lock, sequences    *)
(* made of sequences, finite sets put in some order, and the prefixes of    *)
(* sequences.                                                               *)
(***************************************************************************)
EXTENDS Integers, PyDict, SequencesExt, SequenceTheorems, FiniteSetTheorems, TLAPS

-----------------------------------------------------------------------------
(* Dictionaries.                                                            *)

\* Discarding v under k takes nothing else away, and drops k if v was its last.
LEMMA DiscardFromType ==
  ASSUME NEW K, NEW S, NEW d, IsDict(d, K, SUBSET S), NEW k \in K, NEW v
  PROVE  /\ IsDict(DiscardFrom(d, k, v), K, SUBSET S)
         /\ DOMAIN DiscardFrom(d, k, v) \subseteq DOMAIN d
         /\ DOMAIN d \subseteq DOMAIN DiscardFrom(d, k, v) \cup {k}
         /\ \A j \in DOMAIN d : \A r \in d[j] :
              j # k \/ r # v => /\ j \in DOMAIN DiscardFrom(d, k, v)
                                /\ r \in DiscardFrom(d, k, v)[j]
         /\ \A j \in DOMAIN DiscardFrom(d, k, v) :
              /\ DiscardFrom(d, k, v)[j] \subseteq d[j]
              /\ d[j] # {} => DiscardFrom(d, k, v)[j] # {}
              /\ j = k => v \notin DiscardFrom(d, k, v)[j]
<1>1. CASE k \notin DOMAIN d
  BY <1>1 DEF DiscardFrom, IsDict
<1>2. CASE k \in DOMAIN d /\ d[k] \ {v} = {}
  BY <1>2 DEF DiscardFrom, IsDict, Drop
<1>3. CASE k \in DOMAIN d /\ d[k] \ {v} # {}
  <2>1. d[k] \ {v} \in SUBSET S
    BY <1>3 DEF IsDict
  <2>2. DiscardFrom(d, k, v) = Put(d, k, d[k] \ {v})
    BY <1>3 DEF DiscardFrom
  <2>3. /\ IsDict(Put(d, k, d[k] \ {v}), K, SUBSET S)
        /\ DOMAIN Put(d, k, d[k] \ {v}) = DOMAIN d
        /\ \A j \in DOMAIN d :
             Put(d, k, d[k] \ {v})[j] = IF j = k THEN d[k] \ {v} ELSE d[j]
    BY <1>3, <2>1 DEF Put, IsDict
  <2>4. QED
    BY <1>3, <2>2, <2>3
<1>4. QED
  BY <1>1, <1>2, <1>3

-----------------------------------------------------------------------------
(* Queues without duplicates: who is in them, and who before whom.          *)

In(q, t) == \E i \in DOMAIN q : q[i] = t
Sooner(q, t, u) == \E i, j \in DOMAIN q : i < j /\ q[i] = t /\ q[j] = u
Distinct(q) == \A i, j \in DOMAIN q : q[i] = q[j] => i = j

\* A task appended to a queue is behind all that are in it.
LEMMA Appended ==
  ASSUME NEW S, NEW q \in Seq(S), NEW t \in S
  PROVE  /\ Append(q, t) \in Seq(S)
         /\ Append(q, t) # << >>
         /\ \A u : In(Append(q, t), u) <=> In(q, u) \/ u = t
         /\ \A u, v : Sooner(Append(q, t), u, v) <=> Sooner(q, u, v) \/ (In(q, u) /\ v = t)
         /\ Distinct(q) /\ ~In(q, t) => Distinct(Append(q, t))
<1> DEFINE r == Append(q, t)
<1>1. /\ r \in Seq(S) /\ DOMAIN r = 1..(Len(q) + 1) /\ DOMAIN q = 1..Len(q)
      /\ r[Len(q) + 1] = t /\ \A i \in 1..Len(q) : r[i] = q[i]
      /\ Len(q) \in Nat /\ r # << >>
  OBVIOUS
<1> HIDE DEF r
<1>2. \A u : In(r, u) <=> In(q, u) \/ u = t
  BY <1>1 DEF In
<1>3. \A u, v : Sooner(r, u, v) <=> Sooner(q, u, v) \/ (In(q, u) /\ v = t)
  BY <1>1 DEF Sooner, In
<1>4. Distinct(q) /\ ~In(q, t) => Distinct(r)
  BY <1>1 DEF Distinct, In
<1>5. QED
  BY <1>1, <1>2, <1>3, <1>4 DEF r

\* Taking the first of a queue leaves the others in their order.
LEMMA Popped ==
  ASSUME NEW S, NEW q \in Seq(S), q # << >>, Distinct(q)
  PROVE  /\ Tail(q) \in Seq(S) /\ Head(q) \in S /\ In(q, Head(q))
         /\ \A u : In(Tail(q), u) <=> In(q, u) /\ u # Head(q)
         /\ \A u, v : Sooner(q, u, v) <=> \/ u = Head(q) /\ In(Tail(q), v)
                                          \/ Sooner(Tail(q), u, v)
         /\ Distinct(Tail(q))
<1> DEFINE r == Tail(q)
           h == Head(q)
<1>1. /\ r \in Seq(S) /\ h \in S /\ h = q[1] /\ Len(q) \in Nat \ {0}
      /\ DOMAIN q = 1..Len(q) /\ DOMAIN r = 1..(Len(q) - 1)
      /\ \A i \in 1..(Len(q) - 1) : r[i] = q[i + 1]
  OBVIOUS
<1> HIDE DEF r, h
<1>2. \A i \in DOMAIN q \ {1} : i - 1 \in DOMAIN r /\ r[i - 1] = q[i]
  BY <1>1
<1>3. \A i \in DOMAIN r : i + 1 \in DOMAIN q /\ i + 1 # 1 /\ r[i] = q[i + 1]
  BY <1>1
<1>4. \A u : In(r, u) <=> In(q, u) /\ u # h
  <2>1. ASSUME NEW u, In(r, u)
        PROVE  In(q, u) /\ u # h
    <3>1. PICK i \in DOMAIN r : r[i] = u
      BY <2>1 DEF In
    <3>2. i + 1 \in DOMAIN q /\ 1 \in DOMAIN q /\ i + 1 # 1 /\ q[i + 1] = u
      BY <1>1, <1>3, <3>1
    <3>3. QED
      BY <1>1, <3>2 DEF In, Distinct
  <2>2. ASSUME NEW u, In(q, u), u # h
        PROVE  In(r, u)
    <3>1. PICK i \in DOMAIN q \ {1} : q[i] = u
      BY <1>1, <2>2 DEF In
    <3>2. QED
      BY <1>2, <3>1 DEF In
  <2>3. QED
    BY <2>1, <2>2
<1>5. \A u, v : Sooner(q, u, v) <=> (u = h /\ In(r, v)) \/ Sooner(r, u, v)
  <2> SUFFICES ASSUME NEW u, NEW v
               PROVE  Sooner(q, u, v) <=> (u = h /\ In(r, v)) \/ Sooner(r, u, v)
    OBVIOUS
  <2>1. ASSUME NEW i \in DOMAIN q, NEW j \in DOMAIN q, i < j, q[i] = u, q[j] = v
        PROVE  (u = h /\ In(r, v)) \/ Sooner(r, u, v)
    <3>1. j - 1 \in DOMAIN r /\ r[j - 1] = v
      BY <1>1, <1>2, <2>1
    <3>2. CASE i = 1
      BY <1>1, <2>1, <3>1, <3>2 DEF In
    <3>3. CASE i # 1
      <4>1. i - 1 \in DOMAIN r /\ r[i - 1] = u /\ i - 1 < j - 1
        BY <1>1, <1>2, <2>1, <3>3
      <4>2. QED
        BY <3>1, <4>1 DEF Sooner
    <3>4. QED
      BY <3>2, <3>3
  <2>2. ASSUME u = h, NEW j \in DOMAIN r, r[j] = v
        PROVE  Sooner(q, u, v)
    BY <1>1, <1>3, <2>2 DEF Sooner
  <2>3. ASSUME NEW i \in DOMAIN r, NEW j \in DOMAIN r, i < j, r[i] = u, r[j] = v
        PROVE  Sooner(q, u, v)
    <3>1. i + 1 < j + 1
      BY <1>1, <2>3
    <3>2. QED
      BY <1>3, <2>3, <3>1 DEF Sooner
  <2>4. QED
    BY <2>1, <2>2, <2>3 DEF Sooner, In
<1>6. Distinct(r)
  BY <1>1, <1>3 DEF Distinct
<1>7. In(q, h)
  BY <1>1 DEF In
<1>8. QED
  BY <1>1, <1>4, <1>5, <1>6, <1>7 DEF r, h

\* What RemoveAt leaves, and where.
LEMMA RemovedElements ==
  ASSUME NEW S, NEW q \in Seq(S), NEW k \in 1..Len(q)
  PROVE  /\ RemoveAt(q, k) \in Seq(S)
         /\ Len(q) \in Nat /\ Len(RemoveAt(q, k)) = Len(q) - 1
         /\ \A i \in 1..(Len(q) - 1) : RemoveAt(q, k)[i] = q[IF i < k THEN i ELSE i + 1]
<1> DEFINE left == SubSeq(q, 1, k - 1)
           right == SubSeq(q, k + 1, Len(q))
<1>1. Len(q) \in Nat /\ k \in Nat \ {0} /\ k <= Len(q) /\ \A i \in 1..Len(q) : q[i] \in S
  BY LenProperties, ElementOfSeq
<1>2. /\ left \in Seq(S) /\ Len(left) = k - 1
      /\ \A i \in 1..(k - 1) : left[i] = q[i]
  <2>1. \A i \in 1..(k - 1) : q[i] \in S
    BY <1>1
  <2>2. /\ left \in Seq(S) /\ Len(left) = IF 1 <= k - 1 THEN k - 1 - 1 + 1 ELSE 0
        /\ \A i \in 1..(k - 1 - 1 + 1) : left[i] = q[1 + i - 1]
    BY <1>1, <2>1, SubSeqProperties
  <2>3. QED
    BY <1>1, <2>2
<1>3. /\ right \in Seq(S) /\ Len(right) = Len(q) - k
      /\ \A i \in 1..(Len(q) - k) : right[i] = q[k + i]
  <2>1. \A i \in (k + 1)..Len(q) : q[i] \in S
    BY <1>1
  <2>2. /\ right \in Seq(S)
        /\ Len(right) = IF k + 1 <= Len(q) THEN Len(q) - (k + 1) + 1 ELSE 0
        /\ \A i \in 1..(Len(q) - (k + 1) + 1) : right[i] = q[k + 1 + i - 1]
    BY <1>1, <2>1, SubSeqProperties
  <2>3. QED
    BY <1>1, <2>2
<1>4. RemoveAt(q, k) = left \o right
  BY DEF RemoveAt
<1> HIDE DEF left, right
<1>5. /\ left \o right \in Seq(S) /\ Len(left \o right) = Len(left) + Len(right)
      /\ \A i \in 1..(Len(left) + Len(right)) :
           (left \o right)[i] = IF i <= Len(left) THEN left[i] ELSE right[i - Len(left)]
  BY <1>2, <1>3, ConcatProperties
<1>6. ASSUME NEW i \in 1..(Len(q) - 1)
      PROVE  (left \o right)[i] = q[IF i < k THEN i ELSE i + 1]
  <2>1. i \in Nat /\ i \in 1..(Len(left) + Len(right))
    BY <1>1, <1>2, <1>3
  <2>2. CASE i < k
    <3>1. i \in 1..(k - 1) /\ i <= Len(left)
      BY <1>1, <1>2, <2>1, <2>2
    <3>2. QED
      BY <1>2, <1>5, <2>1, <2>2, <3>1
  <2>3. CASE ~(i < k)
    <3>1. i - (k - 1) \in 1..(Len(q) - k) /\ ~(i <= Len(left)) /\ i - Len(left) = i - (k - 1)
      BY <1>1, <1>2, <2>1, <2>3
    <3>2. k + (i - (k - 1)) = i + 1
      BY <1>1, <2>1
    <3>3. (left \o right)[i] = right[i - (k - 1)]
      BY <1>5, <2>1, <3>1
    <3>4. QED
      BY <1>3, <2>3, <3>1, <3>2, <3>3
  <2>4. QED
    BY <2>2, <2>3
<1>7. QED
  <2>1. Len(left \o right) = Len(q) - 1
    BY <1>1, <1>2, <1>3, <1>5
  <2>2. QED
    BY <1>1, <1>4, <1>5, <1>6, <2>1

\* Removing a task from a queue leaves the others in their order.
LEMMA WithoutOne ==
  ASSUME NEW S, NEW q \in Seq(S), Distinct(q), NEW k \in DOMAIN q
  PROVE  /\ RemoveAt(q, k) \in Seq(S)
         /\ \A u : In(RemoveAt(q, k), u) <=> In(q, u) /\ u # q[k]
         /\ \A u, v : Sooner(q, u, v) /\ u # q[k] /\ v # q[k] => Sooner(RemoveAt(q, k), u, v)
         /\ Distinct(RemoveAt(q, k))
<1> DEFINE r == RemoveAt(q, k)
           old(i) == IF i < k THEN i ELSE i + 1
           new(i) == IF i < k THEN i ELSE i - 1
<1>1. /\ r \in Seq(S) /\ Len(q) \in Nat /\ k \in 1..Len(q)
      /\ DOMAIN q = 1..Len(q) /\ DOMAIN r = 1..(Len(q) - 1)
  BY RemovedElements, LenProperties
<1>2. \A i \in 1..(Len(q) - 1) : r[i] = q[old(i)]
  BY <1>1, RemovedElements
<1> HIDE DEF r
<1>3. \A i \in DOMAIN r : old(i) \in DOMAIN q /\ old(i) # k /\ r[i] = q[old(i)]
  BY <1>1, <1>2
<1>4. \A i \in DOMAIN q \ {k} : new(i) \in DOMAIN r /\ r[new(i)] = q[i]
  BY <1>1, <1>2
<1>5. \A i, j \in DOMAIN q \ {k} : i < j => new(i) < new(j)
  BY <1>1
<1>6. \A i, j \in DOMAIN r : old(i) = old(j) => i = j
  BY <1>1
<1> HIDE DEF old, new
<1>7. \A u : In(r, u) <=> In(q, u) /\ u # q[k]
  BY <1>3, <1>4 DEF In, Distinct
<1>8. \A u, v : Sooner(q, u, v) /\ u # q[k] /\ v # q[k] => Sooner(r, u, v)
  BY <1>4, <1>5 DEF Sooner
<1>9. Distinct(r)
  BY <1>3, <1>6 DEF Distinct
<1>10. QED
  BY <1>1, <1>7, <1>8, <1>9 DEF r

-----------------------------------------------------------------------------
(* Induction: a set of numbers has a least and, up to a bound, a greatest.  *)

\* A set of numbers that is not empty has a least one.
LEMMA Least == ASSUME NEW T \in SUBSET Nat, T # {} PROVE \E n \in T : \A m \in T : n <= m
<1>1. PICK n \in T : \A m \in T : <<m, n>> \notin OpToRel(<, Nat)
  BY NatLessThanWellFounded, WFMin, Zenon
<1>2. \A m, k \in Nat : m < k => <<m, k>> \in OpToRel(<, Nat)
  BY DEF OpToRel
<1>3. ASSUME NEW m \in T PROVE n <= m
  <2>1. m \in Nat /\ n \in Nat /\ ~(m < n)
    BY <1>1, <1>2
  <2> QED  BY <2>1
<1> QED  BY <1>3

\* A set of numbers up to n that is not empty has a greatest one.
LEMMA Greatest ==
  ASSUME NEW n \in Nat, NEW T \in SUBSET (1..n), T # {}
  PROVE  \E m \in T : \A k \in T : k <= m
<1> DEFINE U == {i \in 0..n : n - i \in T}
<1>1. \A m \in T : n - m \in U /\ n - (n - m) = m
  OBVIOUS
<1>2. U \in SUBSET Nat /\ U # {}
  <2>1. \E m \in T : n - m \in U
    BY <1>1
  <2>2. \A i \in U : i \in Nat
    OBVIOUS
  <2> HIDE DEF U
  <2> QED  BY <2>1, <2>2
<1>3. \A i \in U : n - i \in T /\ i \in Nat
  OBVIOUS
<1> HIDE DEF U
<1>4. PICK i \in U : \A j \in U : i <= j
  BY <1>2, Least
<1>5. ASSUME NEW k \in T PROVE k <= n - i
  <2>1. n - k \in U /\ i <= n - k /\ i \in Nat /\ k \in Nat
    BY <1>1, <1>3, <1>4
  <2> QED  BY <2>1
<1> QED  BY <1>3, <1>5

\* Induction from 1 up to n.
LEMMA UpTo ==
  ASSUME NEW n \in Nat, NEW A, 1 \in A, \A i \in 1..(n - 1) : i \in A => i + 1 \in A
  PROVE  1..n \subseteq A
<1> DEFINE T == (1..n) \ A
<1>1. SUFFICES ASSUME T # {} PROVE FALSE
  OBVIOUS
<1>2. T \in SUBSET Nat
  OBVIOUS
<1> HIDE DEF T
<1>3. PICK i \in T : \A j \in T : i <= j
  BY <1>1, <1>2, Least
<1>4. i - 1 \in 1..(n - 1) /\ i - 1 \in A
  BY <1>3 DEF T
<1> QED  BY <1>3, <1>4 DEF T

-----------------------------------------------------------------------------
(* Sequences of sequences: each prefix is flattened from the one before.    *)

\* f[i] is the concatenation of the first i sequences of ss.
Flattens(f, ss) == f[1] = ss[1] /\ \A i \in 2..Len(ss) : f[i] = f[i - 1] \o ss[i]

\* FlattenSeq concatenates them all.
LEMMA Flattened ==
  ASSUME NEW S, NEW ss \in Seq(Seq(S)), ss # << >>
  PROVE  \E f \in [1..Len(ss) -> Seq(S)] : Flattens(f, ss) /\ FlattenSeq(ss) = f[Len(ss)]
<1> DEFINE n == Len(ss)
           Rec(f) == f = [i \in 1..n |-> IF i = 1 THEN ss[i] ELSE f[i - 1] \o ss[i]]
           Upto(f, k) == f[1] = ss[1] /\ \A i \in 2..k : f[i] = f[i - 1] \o ss[i]
           A == {k \in 1..n : \E f \in [1..k -> Seq(S)] : Upto(f, k)}
<1>1. n \in Nat /\ n >= 1 /\ (\A i \in 1..n : ss[i] \in Seq(S))
  OBVIOUS
<1>2. 1 \in A
  <2>1. [i \in 1..1 |-> ss[1]] \in [1..1 -> Seq(S)] /\ Upto([i \in 1..1 |-> ss[1]], 1)
    BY <1>1
  <2>2. 1 \in 1..n
    BY <1>1
  <2>3. \E f \in [1..1 -> Seq(S)] : Upto(f, 1)
    BY <2>1
  <2> HIDE DEF Upto
  <2> QED  BY <2>2, <2>3
<1>3. ASSUME NEW k \in 1..(n - 1), k \in A PROVE k + 1 \in A
  <2>1. PICK f \in [1..k -> Seq(S)] : Upto(f, k)
    BY <1>3
  <2> DEFINE g == [i \in 1..(k + 1) |-> IF i = k + 1 THEN f[k] \o ss[k + 1] ELSE f[i]]
  <2>2. f[k] \in Seq(S) /\ ss[k + 1] \in Seq(S)
    BY <1>1
  <2>3. f[k] \o ss[k + 1] \in Seq(S)
    BY <2>2
  <2>4. g \in [1..(k + 1) -> Seq(S)]
    BY <2>3
  <2>5. ASSUME NEW i \in 2..(k + 1) PROVE g[i] = g[i - 1] \o ss[i]
    <3>1. CASE i = k + 1
      <4>1. k \in 1..(k + 1) /\ k # k + 1 /\ g[k + 1] = f[k] \o ss[k + 1] /\ g[k] = f[k]
        BY <1>1
      <4> QED  BY <3>1, <4>1
    <3>2. CASE i # k + 1
      <4>1. i \in 2..k /\ i - 1 \in 1..k /\ i \in 1..k
        BY <3>2
      <4>2. g[i] = f[i] /\ g[i - 1] = f[i - 1]
        BY <3>2, <4>1
      <4> QED  BY <2>1, <4>1, <4>2
    <3> QED  BY <3>1, <3>2
  <2>6. g[1] = ss[1] /\ k + 1 \in 1..n
    BY <1>1, <2>1
  <2> HIDE DEF g
  <2>7. Upto(g, k + 1)
    BY <2>5, <2>6
  <2> HIDE DEF Upto
  <2> QED  BY <2>4, <2>6, <2>7
<1> HIDE DEF n
<1>4. n \in A
  <2> HIDE DEF A
  <2>1. 1..n \subseteq A
    BY <1>1, <1>2, <1>3, UpTo
  <2> QED  BY <1>1, <2>1
<1>5. PICK f \in [1..n -> Seq(S)] : Upto(f, n)
  BY <1>4
<1>6. Rec(f)
  <2>1. \A i \in 1..n : i = 1 \/ i \in 2..n
    BY <1>1
  <2>2. \A i \in 1..n : f[i] = IF i = 1 THEN ss[i] ELSE f[i - 1] \o ss[i]
    BY <1>5, <2>1
  <2> QED  BY <2>2
<1> DEFINE h == CHOOSE h : Rec(h)
<1>7. Rec(h)
  BY <1>6
<1>8. FlattenSeq(ss) = h[n]
  BY <1>1 DEF FlattenSeq, n
<1> HIDE DEF h
<1>9. h[1] = ss[1] /\ \A i \in 2..n : h[i] = h[i - 1] \o ss[i]
  <2> DEFINE e(i) == IF i = 1 THEN ss[i] ELSE h[i - 1] \o ss[i]
  <2> HIDE DEF e
  <2>1. h = [i \in 1..n |-> e(i)]
    BY <1>7 DEF e
  <2>2. \A i \in 1..n : h[i] = e(i)
    BY <2>1
  <2>3. 1 \in 1..n /\ \A i \in 2..n : i \in 1..n /\ i # 1
    BY <1>1
  <2> QED  BY <2>2, <2>3 DEF e
<1>10. \A i \in 1..n : h[i] = f[i]
  <2> DEFINE B == {i \in 1..n : h[i] = f[i]}
  <2>1. 1 \in B
    BY <1>1, <1>5, <1>9
  <2>2. ASSUME NEW i \in 1..(n - 1), i \in B PROVE i + 1 \in B
    <3>1. i + 1 \in 2..n /\ i + 1 \in 1..n /\ (i + 1) - 1 = i
      BY <1>1
    <3>2. h[i + 1] = h[i] \o ss[i + 1] /\ f[i + 1] = f[i] \o ss[i + 1]
      BY <1>5, <1>9, <3>1
    <3> QED  BY <2>2, <3>1, <3>2
  <2> HIDE DEF B
  <2>3. 1..n \subseteq B
    BY <1>1, <2>1, <2>2, UpTo
  <2> QED  BY <2>3 DEF B
<1>11. FlattenSeq(ss) = f[n]
  BY <1>1, <1>8, <1>10
<1>12. Flattens(f, ss)
  BY <1>5 DEF n, Flattens
<1> QED  BY <1>11, <1>12 DEF n

\* A flattened sequence has the elements of the sequences in it.
LEMMA FlattenedType ==
  ASSUME NEW S, NEW ss \in Seq(Seq(S)) PROVE FlattenSeq(ss) \in Seq(S)
<1>1. CASE ss = << >>
  BY <1>1 DEF FlattenSeq
<1>2. CASE ss # << >>
  <2>1. Len(ss) \in 1..Len(ss)
    BY <1>2
  <2>2. PICK f \in [1..Len(ss) -> Seq(S)] : FlattenSeq(ss) = f[Len(ss)]
    BY <1>2, Flattened
  <2> QED  BY <2>1, <2>2
<1> QED  BY <1>1, <1>2

-----------------------------------------------------------------------------
(* The last element of a sequence that is in T is x.                        *)

\* No element of q is in T but x.
Only(q, T, x) == \A i \in DOMAIN q : q[i] \in T => q[i] = x
\* x is in q, and no other element of T comes after it.
LastIs(q, T, x) ==
  \E i \in DOMAIN q : q[i] = x /\ \A j \in DOMAIN q : j > i /\ q[j] \in T => q[j] = x

\* A concatenation ends as its second part does, or as its first if the second
\* has nothing else of T.
LEMMA LastOfConcat ==
  ASSUME NEW S, NEW T, NEW x, NEW p \in Seq(S), NEW q \in Seq(S)
  PROVE  /\ LastIs(q, T, x) => LastIs(p \o q, T, x)
         /\ LastIs(p, T, x) /\ Only(q, T, x) => LastIs(p \o q, T, x)
<1> DEFINE r == p \o q
<1>1. /\ Len(p) \in Nat /\ Len(q) \in Nat /\ DOMAIN r = 1..(Len(p) + Len(q))
      /\ DOMAIN p = 1..Len(p) /\ DOMAIN q = 1..Len(q)
      /\ \A i \in 1..Len(p) : r[i] = p[i]
      /\ \A i \in 1..Len(q) : r[Len(p) + i] = q[i]
  OBVIOUS
<1> HIDE DEF r
<1>2. \A i \in DOMAIN r : i \in 1..Len(p) \/ (i - Len(p) \in 1..Len(q) /\ r[i] = q[i - Len(p)])
  <2>1. TAKE i \in DOMAIN r
  <2>2. i \in 1..Len(p) \/ (i - Len(p) \in 1..Len(q) /\ Len(p) + (i - Len(p)) = i)
    BY <1>1
  <2> QED  BY <1>1, <2>2
<1>3. ASSUME LastIs(q, T, x) PROVE LastIs(r, T, x)
  <2>1. PICK i \in DOMAIN q : q[i] = x /\ \A j \in DOMAIN q : j > i /\ q[j] \in T => q[j] = x
    BY <1>3 DEF LastIs
  <2>2. Len(p) + i \in DOMAIN r /\ r[Len(p) + i] = x
    BY <1>1, <2>1
  <2>3. ASSUME NEW j \in DOMAIN r, j > Len(p) + i, r[j] \in T PROVE r[j] = x
    <3>1. j - Len(p) \in DOMAIN q /\ j - Len(p) > i /\ r[j] = q[j - Len(p)]
      BY <1>1, <1>2, <2>3
    <3> QED  BY <2>1, <2>3, <3>1
  <2> QED  BY <2>2, <2>3 DEF LastIs
<1>4. ASSUME LastIs(p, T, x), Only(q, T, x) PROVE LastIs(r, T, x)
  <2>1. PICK i \in DOMAIN p : p[i] = x /\ \A j \in DOMAIN p : j > i /\ p[j] \in T => p[j] = x
    BY <1>4 DEF LastIs
  <2>2. i \in DOMAIN r /\ r[i] = x
    BY <1>1, <2>1
  <2>3. ASSUME NEW j \in DOMAIN r, j > i, r[j] \in T PROVE r[j] = x
    BY <1>1, <1>2, <1>4, <2>1, <2>3 DEF Only
  <2> QED  BY <2>2, <2>3 DEF LastIs
<1> QED  BY <1>3, <1>4 DEF r

\* So does a flattened sequence: as part k of it, if no later part has any
\* other element of T.
LEMMA LastOfFlattened ==
  ASSUME NEW S, NEW ss \in Seq(Seq(S)), NEW T, NEW x,
         NEW k \in 1..Len(ss), LastIs(ss[k], T, x),
         \A i \in 1..Len(ss) : i > k => Only(ss[i], T, x)
  PROVE  LastIs(FlattenSeq(ss), T, x)
<1> DEFINE n == Len(ss)
<1>1. n \in Nat /\ n >= 1 /\ ss # << >> /\ \A i \in 1..n : ss[i] \in Seq(S)
  OBVIOUS
<1>2. PICK f \in [1..n -> Seq(S)] : Flattens(f, ss) /\ FlattenSeq(ss) = f[n]
  BY <1>1, Flattened
<1> DEFINE A == {i \in 1..n : i >= k => LastIs(f[i], T, x)}
<1>3. 1 \in A
  BY <1>1, <1>2 DEF Flattens
<1>4. ASSUME NEW i \in 1..(n - 1), i \in A PROVE i + 1 \in A
  <2>1. i + 1 \in 2..n /\ (i + 1) - 1 = i /\ i \in 1..n /\ i + 1 \in 1..n
    BY <1>1
  <2>2. f[i + 1] = f[i] \o ss[i + 1] /\ f[i] \in Seq(S) /\ ss[i + 1] \in Seq(S)
    BY <1>1, <1>2, <2>1 DEF Flattens
  <2>3. i + 1 = k \/ (i + 1 > k /\ i >= k) \/ ~(i + 1 >= k)
    OBVIOUS
  <2>4. CASE i + 1 = k
    <3>1. LastIs(f[i] \o ss[i + 1], T, x)
      BY <2>2, <2>4, LastOfConcat
    <3> QED  BY <2>1, <2>2, <3>1
  <2>5. CASE i + 1 > k /\ i >= k
    <3>1. LastIs(f[i], T, x) /\ Only(ss[i + 1], T, x)
      BY <1>4, <2>1, <2>5
    <3>2. LastIs(f[i] \o ss[i + 1], T, x)
      BY <2>2, <3>1, LastOfConcat
    <3> QED  BY <2>1, <2>2, <3>2
  <2> QED  BY <2>1, <2>3, <2>4, <2>5
<1> HIDE DEF A
<1>5. 1..n \subseteq A
  BY <1>1, <1>3, <1>4, UpTo
<1>6. n \in A /\ n >= k
  <2>1. n \in 1..n /\ n >= k
    BY <1>1
  <2> QED  BY <1>5, <2>1
<1> QED  BY <1>2, <1>6 DEF A

-----------------------------------------------------------------------------
(* The elements of a finite set in some order.                              *)

\* Every sequence SetToSeqs makes of a finite set has all its elements.
LEMMA Ordered ==
  ASSUME NEW S, IsFiniteSet(S), NEW f \in SetToSeqs(S)
  PROVE  f \in Seq(S) /\ \A x \in S : \E i \in DOMAIN f : f[i] = x
<1> DEFINE n == Cardinality(S)
<1>1. n \in Nat
  BY FS_CardinalityType
<1>2. f \in [1..n -> S] /\ \A i, j \in 1..n : i # j => f[i] # f[j]
  BY DEF SetToSeqs
<1>3. f \in Injection(1..n, S)
  BY <1>2 DEF Injection, IsInjective
<1>4. IsFiniteSet(1..n) /\ Cardinality(1..n) = n
  BY <1>1, FS_Interval
<1> HIDE DEF n
<1>5. f \in Surjection(1..n, S)
  BY <1>3, <1>4, FS_Injection DEF n
<1> QED  BY <1>1, <1>2, <1>5 DEF Surjection

\* So has the one SetToSeq chooses.
LEMMA Enumerated ==
  ASSUME NEW S, IsFiniteSet(S)
  PROVE  SetToSeq(S) \in Seq(S) /\ \A x \in S : \E i \in DOMAIN SetToSeq(S) : SetToSeq(S)[i] = x
<1> DEFINE n == Cardinality(S)
<1>1. n \in Nat /\ ExistsBijection(1..n, S)
  BY FS_CardinalityType
<1>2. \E f \in [1..n -> S] : IsInjective(f)
  BY <1>1 DEF ExistsBijection, Bijection, Injection
<1>3. SetToSeq(S) \in [1..n -> S] /\ IsInjective(SetToSeq(S))
  BY <1>2 DEF SetToSeq
<1>4. SetToSeq(S) \in SetToSeqs(S)
  BY <1>3 DEF IsInjective, SetToSeqs
<1> QED  BY <1>4, Ordered

-----------------------------------------------------------------------------
(* Prefixes of sequences, and the images of finite sets.                    *)

\* What is put behind a sequence is found behind it, and has it as a prefix.
LEMMA PrefixOfConcat ==
  ASSUME NEW S, NEW p \in Seq(S), NEW r \in Seq(S)
  PROVE  /\ IsPrefix(p, p \o r)
         /\ SubSeq(p \o r, Len(p) + 1, Len(p \o r)) = r
         /\ SubSeq(p \o r, 1, Len(p)) = p
<1> DEFINE q == p \o r
<1>1. /\ q \in Seq(S) /\ Len(q) = Len(p) + Len(r) /\ Len(p) \in Nat /\ Len(r) \in Nat
      /\ \A i \in 1..(Len(p) + Len(r)) : q[i] = IF i <= Len(p) THEN p[i] ELSE r[i - Len(p)]
  BY ConcatProperties, LenProperties
<1> HIDE DEF q
<1>2. SubSeq(q, 1, Len(p)) = p
  <2>1. /\ SubSeq(q, 1, Len(p)) \in Seq(S) /\ Len(SubSeq(q, 1, Len(p))) = Len(p)
        /\ \A i \in 1..Len(p) : SubSeq(q, 1, Len(p))[i] = q[i]
    BY <1>1
  <2>2. \A i \in 1..Len(p) : q[i] = p[i]
    BY <1>1
  <2> QED  BY <2>1, <2>2, SeqEqual
<1>3. SubSeq(q, Len(p) + 1, Len(q)) = r
  <2> DEFINE s == SubSeq(q, Len(p) + 1, Len(q))
  <2>1. s \in Seq(S) /\ Len(s) = Len(r) /\ \A i \in 1..Len(r) : s[i] = q[Len(p) + i]
    BY <1>1
  <2>2. ASSUME NEW i \in 1..Len(r) PROVE q[Len(p) + i] = r[i]
    <3>1. Len(p) + i \in 1..(Len(p) + Len(r)) /\ ~(Len(p) + i <= Len(p)) /\ (Len(p) + i) - Len(p) = i
      BY <1>1
    <3> QED  BY <1>1, <3>1
  <2> HIDE DEF s
  <2>3. s = r
    BY <2>1, <2>2, SeqEqual
  <2> QED  BY <2>3 DEF s
<1>4. SubSeq(p, 1, Len(p)) = p
  BY SubSeqFull
<1>5. IsPrefix(p, q)
  BY <1>1, <1>2, <1>4 DEF IsPrefix
<1> QED  BY <1>2, <1>3, <1>5 DEF q

\* A sequence is each of its prefixes and what is behind that.
LEMMA PrefixParts ==
  ASSUME NEW S, NEW p \in Seq(S), NEW q \in Seq(S), IsPrefix(p, q)
  PROVE  /\ SubSeq(q, Len(p) + 1, Len(q)) \in Seq(S)
         /\ q = p \o SubSeq(q, Len(p) + 1, Len(q))
<1> DEFINE r == SubSeq(q, Len(p) + 1, Len(q))
<1>1. /\ Len(p) \in Nat /\ Len(q) \in Nat /\ Len(p) <= Len(q)
      /\ SubSeq(p, 1, Len(p)) = SubSeq(q, 1, Len(p))
  BY DEF IsPrefix
<1>2. p = SubSeq(q, 1, Len(p))
  BY <1>1, SubSeqFull
<1>3. SubSeq(q, 1, Len(p)) \o SubSeq(q, Len(p) + 1, Len(q)) = SubSeq(q, 1, Len(q))
  <2>1. 1 \in 1..(Len(q) + 1) /\ Len(p) \in 0..Len(q) /\ Len(q) \in Len(p)..Len(q) /\ 1 - 1 = 0
    BY <1>1
  <2> QED  BY <2>1, ConcatAdjacentSubSeq
<1>4. q = p \o r
  BY <1>2, <1>3, SubSeqFull
<1>5. r \in Seq(S)
  BY <1>1
<1> QED  BY <1>4, <1>5

\* The prefixes of a sequence are those that IsPrefix says.
LEMMA Prefixed ==
  ASSUME NEW S, NEW p \in Seq(S)
  PROVE  \A q : q \in Prefixes(p) <=> q \in Seq(S) /\ IsPrefix(q, p)
<1>1. ASSUME NEW q \in Prefixes(p) PROVE q \in Seq(S) /\ IsPrefix(q, p)
  <2>1. PICK n \in 0..Len(p) : q = SubSeq(p, 1, n)
    BY <1>1 DEF Prefixes
  <2>2. n \in Nat /\ n <= Len(p) /\ Len(p) \in Nat
    BY <2>1
  <2>3. q \in Seq(S) /\ Len(q) = n
    BY <2>1, <2>2
  <2>4. SubSeq(q, 1, Len(q)) = q
    BY <2>3, SubSeqFull
  <2> QED  BY <2>1, <2>2, <2>3, <2>4 DEF IsPrefix
<1>2. ASSUME NEW q \in Seq(S), IsPrefix(q, p) PROVE q \in Prefixes(p)
  <2>1. Len(q) \in 0..Len(p) /\ SubSeq(q, 1, Len(q)) = SubSeq(p, 1, Len(q))
    BY <1>2 DEF IsPrefix
  <2>2. SubSeq(q, 1, Len(q)) = q
    BY SubSeqFull
  <2> QED  BY <2>1, <2>2 DEF Prefixes
<1> QED  BY <1>1, <1>2

\* Of two prefixes of a sequence one is a prefix of the other.
LEMMA Comparable ==
  ASSUME NEW S, NEW p \in Seq(S), NEW q \in Seq(S), NEW r \in Seq(S), IsPrefix(p, r), IsPrefix(q, r)
  PROVE  IsPrefix(p, q) \/ IsPrefix(q, p)
<1>1. /\ Len(p) \in Nat /\ Len(q) \in Nat /\ Len(r) \in Nat /\ Len(p) <= Len(r) /\ Len(q) <= Len(r)
      /\ SubSeq(p, 1, Len(p)) = SubSeq(r, 1, Len(p))
      /\ SubSeq(q, 1, Len(q)) = SubSeq(r, 1, Len(q))
  BY DEF IsPrefix
<1>2. p = SubSeq(r, 1, Len(p)) /\ q = SubSeq(r, 1, Len(q))
  BY <1>1, SubSeqFull
<1>3. ASSUME NEW a \in Seq(S), NEW b \in Seq(S), a = SubSeq(r, 1, Len(a)), b = SubSeq(r, 1, Len(b)),
             Len(a) <= Len(b), Len(b) <= Len(r), Len(a) \in Nat, Len(b) \in Nat
      PROVE  IsPrefix(a, b)
  <2>1. \A i \in 1..Len(a) : a[i] = r[i]
    <3>1. \A i \in 1..Len(a) : SubSeq(r, 1, Len(a))[i] = r[i]
      BY <1>1, <1>3
    <3> QED  BY <1>3, <3>1
  <2>2. \A i \in 1..Len(b) : b[i] = r[i]
    <3>1. \A i \in 1..Len(b) : SubSeq(r, 1, Len(b))[i] = r[i]
      BY <1>1, <1>3
    <3> QED  BY <1>3, <3>1
  <2>3. /\ SubSeq(b, 1, Len(a)) \in Seq(S) /\ Len(SubSeq(b, 1, Len(a))) = Len(a)
        /\ \A i \in 1..Len(a) : SubSeq(b, 1, Len(a))[i] = b[i]
    BY <1>3
  <2>4. \A i \in 1..Len(a) : SubSeq(b, 1, Len(a))[i] = a[i]
    BY <1>3, <2>1, <2>2, <2>3
  <2>5. SubSeq(b, 1, Len(a)) = a
    BY <2>3, <2>4, SeqEqual
  <2>6. SubSeq(a, 1, Len(a)) = a
    BY SubSeqFull
  <2> QED  BY <1>3, <2>5, <2>6 DEF IsPrefix
<1>4. CASE Len(p) <= Len(q)
  BY <1>1, <1>2, <1>3, <1>4
<1>5. CASE Len(q) <= Len(p)
  BY <1>1, <1>2, <1>3, <1>5
<1>6. Len(p) <= Len(q) \/ Len(q) <= Len(p)
  BY <1>1
<1> QED  BY <1>4, <1>5, <1>6

\* The first elements of a sequence, and the first of those.
LEMMA Begins ==
  ASSUME NEW S, NEW p \in Seq(S), NEW i \in 1..Len(p)
  PROVE  /\ SubSeq(p, 1, i) \in Seq(S) /\ SubSeq(p, 1, i) \in Prefixes(p)
         /\ Len(SubSeq(p, 1, i)) = i /\ SubSeq(p, 1, i) # << >> /\ Last(SubSeq(p, 1, i)) = p[i]
         /\ \A j \in 1..i : SubSeq(SubSeq(p, 1, i), 1, j) = SubSeq(p, 1, j)
<1>1. Len(p) \in Nat /\ i \in Nat /\ 1 <= i /\ i <= Len(p) /\ i \in Int
  BY LenProperties
<1> DEFINE q == SubSeq(p, 1, i)
<1>2. q \in Seq(S) /\ Len(q) = i /\ \A j \in 1..i : q[j] = p[j]
  BY <1>1
<1>3. q # << >> /\ Last(q) = p[i]
  BY <1>1, <1>2 DEF Last
<1>4. q \in Prefixes(p)
  BY <1>1 DEF Prefixes
<1>5. ASSUME NEW j \in 1..i PROVE SubSeq(q, 1, j) = SubSeq(p, 1, j)
  <2>1. j \in Nat /\ 1 <= j /\ j <= i
    BY <1>1
  <2> HIDE DEF q
  <2>2. /\ SubSeq(q, 1, j) \in Seq(S) /\ Len(SubSeq(q, 1, j)) = j
        /\ \A k \in 1..j : SubSeq(q, 1, j)[k] = q[k]
    BY <1>1, <1>2, <2>1
  <2>3. /\ SubSeq(p, 1, j) \in Seq(S) /\ Len(SubSeq(p, 1, j)) = j
        /\ \A k \in 1..j : SubSeq(p, 1, j)[k] = p[k]
    BY <1>1, <2>1
  <2>4. \A k \in 1..j : q[k] = p[k]
    BY <1>1, <1>2, <2>1
  <2> QED  BY <2>2, <2>3, <2>4, SeqEqual
<1> QED  BY <1>2, <1>3, <1>4, <1>5

\* A sequence is its front and its last element.
LEMMA Ends ==
  ASSUME NEW S, NEW p \in Seq(S), p # << >>
  PROVE  /\ Front(p) \in Seq(S) /\ Front(p) \in Prefixes(p)
         /\ Len(p) \in DOMAIN p /\ Last(p) = p[Len(p)] /\ Last(p) \in S
         /\ Append(Front(p), Last(p)) = p
<1>1. Len(p) \in Nat /\ DOMAIN p = 1..Len(p) /\ Len(p) # 0
  BY LenProperties, EmptySeq
<1>2. /\ 1 \in 1..Len(p) /\ Len(p) \in 1..Len(p) /\ Len(p) - 1 \in 0..Len(p)
      /\ Len(p) - 1 \in Int /\ 1..(Len(p) - 1) \subseteq 1..Len(p)
  BY <1>1
<1>3. Last(p) = p[Len(p)] /\ Last(p) \in S
  BY <1>1, <1>2 DEF Last
<1>4. Front(p) \in Seq(S) /\ Front(p) \in Prefixes(p)
  <2>1. SubSeq(p, 1, Len(p) - 1) \in Seq(S)
    <3>1. \A i \in 1..(Len(p) - 1) : p[i] \in S
      BY <1>1, <1>2
    <3> QED  BY <1>2, <3>1, SubSeqProperties
  <2> QED  BY <1>2, <2>1 DEF Front, Prefixes
<1>5. SubSeq(p, 1, Len(p)) = SubSeq(p, 1, Len(p) - 1) \o <<p[Len(p)]>>
  BY <1>1, <1>2, SubSeqRecursiveSecond
<1>6. SubSeq(p, 1, Len(p)) = p
  BY SubSeqFull
<1>7. Append(Front(p), Last(p)) = Front(p) \o <<Last(p)>>
  BY <1>3, <1>4, AppendIsConcat
<1>8. p = Front(p) \o <<Last(p)>>
  BY <1>3, <1>5, <1>6 DEF Front
<1> QED  BY <1>1, <1>2, <1>3, <1>4, <1>7, <1>8

LEMMA HeadOfOne == ASSUME NEW x PROVE Head(<<x>>) = x
  OBVIOUS

\* The values of a function on a finite set are finitely many.
LEMMA ImageFinite ==
  ASSUME NEW S, IsFiniteSet(S), NEW f, DOMAIN f = S, f = [x \in S |-> f[x]]
  PROVE  IsFiniteSet({f[x] : x \in S})
<1> DEFINE T == {f[x] : x \in S}
<1>1. f \in [S -> T]
  OBVIOUS
<1>2. f \in Surjection(S, T)
  BY <1>1 DEF Surjection
<1> QED  BY <1>2, FS_Surjection
=============================================================================
