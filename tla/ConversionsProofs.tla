-------------------------- MODULE ConversionsProofs --------------------------
(***************************************************************************)
(* What is proved of the pure modules: what core/list.c promises of lists  *)
(* of any length (a sorted list is the set of its identifiers, and a new   *)
(* identifier is in no list that has room for one), and of the conversions *)
(* that what is said on one side is heard on the other: paths and          *)
(* locations, object lists, and, from ValuesProofs, integers and records.  *)
(***************************************************************************)
EXTENDS Conversions, ValuesProofs

-----------------------------------------------------------------------------
(* core/list.c                                                              *)

\* InsertAt puts one node after the first k.
LEMMA Inserted ==
    ASSUME NEW S, NEW l \in Seq(S), NEW k \in 0..Len(l), NEW e \in S
    PROVE  /\ InsertAt(l, k + 1, e) \in Seq(S)
           /\ Len(InsertAt(l, k + 1, e)) = Len(l) + 1
           /\ \A i \in 1..(Len(l) + 1) :
                 InsertAt(l, k + 1, e)[i] =
                    IF i <= k THEN l[i] ELSE IF i = k + 1 THEN e ELSE l[i - 1]
<1> DEFINE a == SubSeq(l, 1, k)
           b == SubSeq(l, k + 1, Len(l))
<1>0. Len(l) \in Nat /\ \A i \in 1..Len(l) : l[i] \in S
  BY LenProperties, ElementOfSeq
<1>1. a \in Seq(S) /\ Len(a) = k /\ \A i \in 1..k : a[i] = l[i]
  BY <1>0, SubSeqProperties
<1>2. /\ b \in Seq(S) /\ Len(b) = Len(l) - k
      /\ \A i \in 1..(Len(l) - k) : b[i] = l[k + i]
  BY <1>0, SubSeqProperties
<1>3. <<e>> \in Seq(S) /\ Len(<<e>>) = 1 /\ <<e>>[1] = e
  OBVIOUS
<1> HIDE DEF a, b
<1>4. /\ a \o <<e>> \in Seq(S) /\ Len(a \o <<e>>) = k + 1
      /\ \A i \in 1..(k + 1) : (a \o <<e>>)[i] = IF i <= k THEN l[i] ELSE e
  BY <1>0, <1>1, <1>3, ConcatProperties
<1>5. InsertAt(l, k + 1, e) = (a \o <<e>>) \o b
  <2>1. (k + 1) - 1 = k
    OBVIOUS
  <2> QED
    BY <2>1 DEF InsertAt, a, b
<1> DEFINE c == a \o <<e>>
<1> HIDE DEF c
<1>6. /\ c \o b \in Seq(S) /\ Len(c \o b) = Len(c) + Len(b)
      /\ \A i \in 1..(Len(c) + Len(b)) :
            (c \o b)[i] = IF i <= Len(c) THEN c[i] ELSE b[i - Len(c)]
  <2>1. c \in Seq(S)
    BY <1>4 DEF c
  <2> QED
    BY <1>2, <2>1, ConcatProperties
<1>7. /\ Len(c) = k + 1 /\ Len(c \o b) = Len(l) + 1
      /\ \A i \in 1..(k + 1) : c[i] = IF i <= k THEN l[i] ELSE e
  BY <1>0, <1>2, <1>4, <1>6 DEF c
<1>8. ASSUME NEW i \in 1..(Len(l) + 1)
      PROVE  (c \o b)[i] =
                IF i <= k THEN l[i] ELSE IF i = k + 1 THEN e ELSE l[i - 1]
  <2>1. CASE i <= k + 1
    BY <1>0, <1>2, <1>6, <1>7, <2>1
  <2>2. CASE ~ (i <= k + 1)
    <3>1. i - (k + 1) \in 1..(Len(l) - k) /\ k + (i - (k + 1)) = i - 1
      BY <1>0, <2>2
    <3>2. (c \o b)[i] = b[i - (k + 1)]
      BY <1>0, <1>2, <1>6, <1>7, <2>2
    <3> QED
      BY <1>0, <1>2, <2>2, <3>1, <3>2
  <2> QED
    BY <2>1, <2>2
<1>9. InsertAt(l, k + 1, e) = c \o b
  BY <1>5 DEF c
<1> QED
  BY <1>6, <1>7, <1>8, <1>9

\* RemoveAt takes node k + 1 away.
LEMMA Removed ==
    ASSUME NEW S, NEW l \in Seq(S), NEW k \in 0..(Len(l) - 1)
    PROVE  /\ RemoveAt(l, k + 1) \in Seq(S)
           /\ Len(RemoveAt(l, k + 1)) = Len(l) - 1
           /\ \A i \in 1..(Len(l) - 1) :
                 RemoveAt(l, k + 1)[i] = IF i <= k THEN l[i] ELSE l[i + 1]
<1> DEFINE a == SubSeq(l, 1, k)
           b == SubSeq(l, k + 2, Len(l))
<1>0. Len(l) \in Nat /\ \A i \in 1..Len(l) : l[i] \in S
  BY LenProperties, ElementOfSeq
<1>1. a \in Seq(S) /\ Len(a) = k /\ \A i \in 1..k : a[i] = l[i]
  BY <1>0, SubSeqProperties
<1>2. /\ b \in Seq(S) /\ Len(b) = Len(l) - k - 1
      /\ \A i \in 1..(Len(l) - k - 1) : b[i] = l[k + 1 + i]
  BY <1>0, SubSeqProperties
<1> HIDE DEF a, b
<1>3. RemoveAt(l, k + 1) = a \o b
  <2>1. (k + 1) - 1 = k /\ (k + 1) + 1 = k + 2
    OBVIOUS
  <2> QED
    BY <2>1 DEF RemoveAt, a, b
<1>4. /\ a \o b \in Seq(S) /\ Len(a \o b) = Len(a) + Len(b)
      /\ \A i \in 1..(Len(a) + Len(b)) :
            (a \o b)[i] = IF i <= Len(a) THEN a[i] ELSE b[i - Len(a)]
  BY <1>1, <1>2, ConcatProperties
<1>5. ASSUME NEW i \in 1..(Len(l) - 1)
      PROVE  (a \o b)[i] = IF i <= k THEN l[i] ELSE l[i + 1]
  <2>1. CASE i <= k
    BY <1>0, <1>1, <1>2, <1>4, <2>1
  <2>2. CASE ~ (i <= k)
    <3>1. i - k \in 1..(Len(l) - k - 1) /\ k + 1 + (i - k) = i + 1
      BY <1>0, <2>2
    <3>2. (a \o b)[i] = b[i - k]
      BY <1>0, <1>1, <1>2, <1>4, <2>2
    <3> QED
      BY <1>0, <1>2, <2>2, <3>1, <3>2
  <2> QED
    BY <2>1, <2>2
<1>6. Len(a \o b) = Len(l) - 1
  BY <1>0, <1>1, <1>2, <1>4
<1> QED
  BY <1>3, <1>4, <1>5, <1>6, Zenon

\* Every walk over a sorted list passes exactly the nodes below its number.
LEMMA WalkEnds ==
    ASSUME NEW l \in Seq(Identifiers), NEW id \in Identifiers,
           NEW from \in 0..Len(l), \A i \in 1..from : l[i] < id
    PROVE  /\ Walked(l, from, id) \in 0..Len(l)
           /\ \A i \in 1..Walked(l, from, id) : l[i] < id
           /\ \/ Walked(l, from, id) = Len(l)
              \/ l[Walked(l, from, id) + 1] >= id
<1> DEFINE k == Walked(l, from, id)
           S == Stops(l, from, id)
<1>0. Len(l) \in Nat /\ \A i \in 1..Len(l) : l[i] \in Nat
  <2>1. Identifiers \subseteq Nat
    BY IdSpaceAssumption DEF Identifiers
  <2> QED
    BY <2>1, LenProperties, ElementOfSeq
<1>1. S \in SUBSET Nat /\ S # {}
  <2>1. Len(l) \in S
    BY <1>0 DEF Stops
  <2> QED
    BY <1>0, <2>1 DEF Stops
<1>2. k \in S /\ \A j \in S : k <= j
  BY <1>1, LeastElement DEF Walked
<1>3. k \in from..Len(l) /\ (k = Len(l) \/ l[k + 1] >= id)
  BY <1>2 DEF Stops
<1>4. ASSUME NEW i \in 1..k PROVE l[i] < id
  <2>1. CASE i <= from
    BY <2>1, <1>3
  <2>2. CASE i > from
    <3>1. i - 1 \in from..Len(l) /\ i - 1 # Len(l) /\ (i - 1) + 1 = i
      BY <1>0, <1>3, <2>2
    <3>2. i - 1 \notin S
      BY <1>0, <1>2, <1>3
    <3>3. ~ (l[i] >= id)
      BY <3>1, <3>2 DEF Stops
    <3>4. l[i] \in Nat /\ id \in Nat
      BY <1>0, <1>3, IdSpaceAssumption DEF Identifiers
    <3> QED
      BY <3>3, <3>4
  <2> QED
    BY <2>1, <2>2, <1>3
<1> QED
  BY <1>0, <1>3, <1>4

LEMMA IdentifiersAreNats == Identifiers \subseteq Nat
BY IdSpaceAssumption DEF Identifiers

\* Putting id between the nodes below it and those above keeps a list sorted.
LEMMA SortedInsert ==
    ASSUME NEW l \in Seq(Identifiers), Sorted(l), NEW id \in Identifiers,
           id \notin Range(l), NEW k \in 0..Len(l),
           \A i \in 1..k : l[i] < id, k = Len(l) \/ l[k + 1] >= id
    PROVE  /\ Sorted(InsertAt(l, k + 1, id))
           /\ Range(InsertAt(l, k + 1, id)) = Range(l) \cup {id}
<1> DEFINE m == InsertAt(l, k + 1, id)
<1>a. DOMAIN l = 1..Len(l)
  BY LenProperties
<1>0. /\ Len(l) \in Nat /\ id \in Nat
      /\ \A i \in 1..Len(l) : l[i] \in Nat /\ l[i] # id
  BY <1>a, LenProperties, ElementOfSeq, IdentifiersAreNats DEF Range
<1>b. \A i, j \in 1..Len(l) : i < j => l[i] < l[j]
  BY <1>a DEF Sorted
<1>1. /\ m \in Seq(Identifiers) /\ Len(m) = Len(l) + 1
      /\ \A i \in 1..(Len(l) + 1) :
            m[i] = IF i <= k THEN l[i] ELSE IF i = k + 1 THEN id ELSE l[i - 1]
  BY Inserted
<1> HIDE DEF m
<1>2. DOMAIN m = 1..(Len(l) + 1)
  BY <1>1, LenProperties
<1>3. ASSUME NEW i \in (k + 1)..Len(l) PROVE id < l[i]
  <2>1. l[k + 1] >= id /\ k + 1 \in 1..Len(l)
    BY <1>0
  <2>2. id < l[k + 1]
    BY <1>0, <2>1
  <2> QED
    BY <1>0, <1>b, <2>1, <2>2
<1>4. ASSUME NEW i \in 1..(Len(l) + 1), NEW j \in 1..(Len(l) + 1), i < j
      PROVE  m[i] < m[j]
  <2>1. CASE j <= k
    BY <1>0, <1>1, <1>4, <1>b, <2>1
  <2>2. CASE j = k + 1
    <3>1. i \in 1..k /\ m[i] = l[i] /\ m[j] = id
      BY <1>0, <1>1, <1>4, <2>2
    <3> QED
      BY <3>1
  <2>3. CASE j > k + 1 /\ i = k + 1
    <3>1. j - 1 \in (k + 1)..Len(l) /\ m[i] = id /\ m[j] = l[j - 1]
      BY <1>0, <1>1, <1>4, <2>3
    <3> QED
      BY <1>3, <3>1
  <2>4. CASE j > k + 1 /\ i <= k
    <3>1. /\ i \in 1..Len(l) /\ j - 1 \in 1..Len(l) /\ i < j - 1
          /\ m[i] = l[i] /\ m[j] = l[j - 1]
      BY <1>0, <1>1, <1>4, <2>4
    <3> QED
      BY <1>b, <3>1
  <2>5. CASE j > k + 1 /\ i > k + 1
    <3>1. /\ i - 1 \in 1..Len(l) /\ j - 1 \in 1..Len(l) /\ i - 1 < j - 1
          /\ m[i] = l[i - 1] /\ m[j] = l[j - 1]
      BY <1>0, <1>1, <1>4, <2>5
    <3> QED
      BY <1>b, <3>1
  <2> QED
    BY <1>0, <2>1, <2>2, <2>3, <2>4, <2>5
<1>5. Sorted(m)
  BY <1>2, <1>4 DEF Sorted
<1>6. ASSUME NEW x PROVE x \in Range(m) <=> x \in Range(l) \cup {id}
  <2>1. ASSUME x \in Range(m) PROVE x \in Range(l) \cup {id}
    <3>1. PICK i \in 1..(Len(l) + 1) : x = m[i]
      BY <1>2, <2>1 DEF Range
    <3>2. m[i] = id \/ \E j \in 1..Len(l) : m[i] = l[j]
      BY <1>0, <1>1
    <3> QED
      BY <1>a, <3>1, <3>2 DEF Range
  <2>2. id \in Range(m)
    <3>1. k + 1 \in 1..(Len(l) + 1) /\ m[k + 1] = id
      BY <1>0, <1>1
    <3> QED
      BY <1>2, <3>1 DEF Range
  <2>3. ASSUME x \in Range(l) PROVE x \in Range(m)
    <3>1. PICK i \in 1..Len(l) : x = l[i]
      BY <1>a, <2>3 DEF Range
    <3>2. CASE i <= k
      <4>1. i \in 1..(Len(l) + 1) /\ m[i] = x
        BY <1>0, <1>1, <3>1, <3>2
      <4> QED
        BY <1>2, <4>1 DEF Range
    <3>3. CASE i > k
      <4>1. i + 1 \in 1..(Len(l) + 1) /\ m[i + 1] = x
        BY <1>0, <1>1, <3>1, <3>3
      <4> QED
        BY <1>2, <4>1 DEF Range
    <3> QED
      BY <1>0, <3>2, <3>3
  <2> QED
    BY <2>1, <2>2, <2>3
<1> QED
  BY <1>5, <1>6 DEF m

\* lwm2m_list_add keeps a list sorted and adds just the new identifier.
THEOREM AddInserts ==
    ASSUME NEW l \in Seq(Identifiers), Sorted(l), NEW id \in Identifiers,
           id \notin Range(l)
    PROVE  /\ ListAdd(l, id) \in Seq(Identifiers)
           /\ Sorted(ListAdd(l, id))
           /\ Range(ListAdd(l, id)) = Range(l) \cup {id}
<1>a. DOMAIN l = 1..Len(l)
  BY LenProperties
<1>0. /\ Len(l) \in Nat /\ id \in Nat
      /\ \A i \in 1..Len(l) : l[i] \in Nat /\ l[i] # id
  BY <1>a, LenProperties, ElementOfSeq, IdentifiersAreNats DEF Range
<1>b. l = <<>> => Len(l) = 0
  BY EmptySeq
<1>c. l # <<>> => Len(l) > 0
  BY EmptySeq
<1>1. CASE l = <<>> \/ l[1] > id
  <2>1. 0 \in 0..Len(l) /\ (0 = Len(l) \/ l[0 + 1] >= id) /\ 0 + 1 = 1
    BY <1>0, <1>1, <1>b, <1>c
  <2>2. \A i \in 1..0 : l[i] < id
    OBVIOUS
  <2>3. /\ InsertAt(l, 1, id) \in Seq(Identifiers)
        /\ Sorted(InsertAt(l, 1, id))
        /\ Range(InsertAt(l, 1, id)) = Range(l) \cup {id}
    <3>1. InsertAt(l, 0 + 1, id) \in Seq(Identifiers)
      BY <2>1, Inserted, Zenon
    <3>2. /\ Sorted(InsertAt(l, 0 + 1, id))
          /\ Range(InsertAt(l, 0 + 1, id)) = Range(l) \cup {id}
      BY <2>1, <2>2, SortedInsert, Zenon
    <3> QED
      BY <2>1, <3>1, <3>2
  <2> QED
    BY <1>1, <2>3 DEF ListAdd
<1>2. CASE ~ (l = <<>> \/ l[1] > id)
  <2> DEFINE k == Walked(l, 1, id)
  <2>1. 1 \in 0..Len(l) /\ \A i \in 1..1 : l[i] < id
    BY <1>0, <1>2, <1>c
  <2>2. /\ k \in 0..Len(l) /\ (\A i \in 1..k : l[i] < id)
        /\ (k = Len(l) \/ l[k + 1] >= id)
    BY <2>1, WalkEnds
  <2> HIDE DEF k
  <2>3. /\ InsertAt(l, k + 1, id) \in Seq(Identifiers)
        /\ Sorted(InsertAt(l, k + 1, id))
        /\ Range(InsertAt(l, k + 1, id)) = Range(l) \cup {id}
    BY <2>2, SortedInsert, Inserted
  <2> QED
    BY <1>2, <2>3 DEF ListAdd, k
<1> QED
  BY <1>1, <1>2

\* lwm2m_list_find finds a node exactly when the list has it.
THEOREM FindFinds ==
    ASSUME NEW l \in Seq(Identifiers), Sorted(l), NEW id \in Identifiers
    PROVE  ListFind(l, id) <=> id \in Range(l)
<1> DEFINE k == Walked(l, 0, id)
<1>a. DOMAIN l = 1..Len(l)
  BY LenProperties
<1>0. Len(l) \in Nat /\ id \in Nat /\ \A i \in 1..Len(l) : l[i] \in Nat
  BY LenProperties, ElementOfSeq, IdentifiersAreNats
<1>b. \A i, j \in 1..Len(l) : i < j => l[i] < l[j]
  BY <1>a DEF Sorted
<1>1. /\ k \in 0..Len(l) /\ (\A i \in 1..k : l[i] < id)
      /\ (k = Len(l) \/ l[k + 1] >= id)
  <2>1. 0 \in 0..Len(l) /\ \A i \in 1..0 : l[i] < id
    BY <1>0
  <2> QED
    BY <2>1, WalkEnds
<1>2. ListFind(l, id) <=> k < Len(l) /\ l[k + 1] = id
  BY DEF ListFind
<1> HIDE DEF k
<1>3. ASSUME NEW i \in 1..Len(l), l[i] = id PROVE k < Len(l) /\ l[k + 1] = id
  <2>1. k < i
    BY <1>0, <1>1, <1>3
  <2>2. k < Len(l) /\ k + 1 \in 1..Len(l) /\ l[k + 1] >= id
    BY <1>0, <1>1, <2>1
  <2>3. ~ (k + 1 < i)
    BY <1>0, <1>b, <1>3, <2>2
  <2>4. k + 1 = i
    BY <1>0, <1>1, <2>1, <2>3
  <2> QED
    BY <1>3, <2>2, <2>4
<1>4. ASSUME k < Len(l), l[k + 1] = id PROVE \E i \in 1..Len(l) : l[i] = id
  <2>1. k + 1 \in 1..Len(l)
    BY <1>0, <1>1, <1>4
  <2> QED
    BY <1>4, <2>1
<1>5. id \in Range(l) <=> \E i \in 1..Len(l) : l[i] = id
  BY <1>a, Zenon DEF Range
<1> QED
  BY <1>2, <1>3, <1>4, <1>5

\* Taking a node away keeps a list sorted and takes its identifier only.
LEMMA SortedRemove ==
    ASSUME NEW l \in Seq(Identifiers), Sorted(l), NEW k \in 0..(Len(l) - 1)
    PROVE  /\ Sorted(RemoveAt(l, k + 1))
           /\ Range(RemoveAt(l, k + 1)) = Range(l) \ {l[k + 1]}
<1> DEFINE m == RemoveAt(l, k + 1)
<1>a. DOMAIN l = 1..Len(l)
  BY LenProperties
<1>0. Len(l) \in Nat /\ \A i \in 1..Len(l) : l[i] \in Nat
  BY LenProperties, ElementOfSeq, IdentifiersAreNats
<1>b. \A i, j \in 1..Len(l) : i < j => l[i] < l[j]
  BY <1>a DEF Sorted
<1>1. /\ m \in Seq(Identifiers) /\ Len(m) = Len(l) - 1
      /\ \A i \in 1..(Len(l) - 1) : m[i] = IF i <= k THEN l[i] ELSE l[i + 1]
  BY Removed
<1> HIDE DEF m
<1>2. DOMAIN m = 1..(Len(l) - 1)
  BY <1>1, LenProperties
<1>3. \A i \in 1..(Len(l) - 1) :
        \E p \in 1..Len(l) : m[i] = l[p] /\ p = IF i <= k THEN i ELSE i + 1
  BY <1>0, <1>1
<1>4. ASSUME NEW i \in 1..(Len(l) - 1), NEW j \in 1..(Len(l) - 1), i < j
      PROVE  m[i] < m[j]
  <2>1. PICK p \in 1..Len(l) : m[i] = l[p] /\ p = IF i <= k THEN i ELSE i + 1
    BY <1>3
  <2>2. PICK q \in 1..Len(l) : m[j] = l[q] /\ q = IF j <= k THEN j ELSE j + 1
    BY <1>3
  <2>3. p < q
    BY <1>0, <1>4, <2>1, <2>2
  <2> QED
    BY <1>b, <2>1, <2>2, <2>3
<1>5. Sorted(m)
  BY <1>2, <1>4 DEF Sorted
<1>6. ASSUME NEW i \in 1..(Len(l) - 1)
      PROVE  \E p \in 1..Len(l) : m[i] = l[p] /\ p # k + 1
  BY <1>0, <1>3
<1>7. ASSUME NEW p \in 1..Len(l), p # k + 1
      PROVE  \E i \in 1..(Len(l) - 1) : m[i] = l[p]
  <2>1. CASE p <= k
    <3>1. p \in 1..(Len(l) - 1) /\ m[p] = l[p]
      BY <1>0, <1>1, <2>1
    <3> QED
      BY <3>1
  <2>2. CASE ~ (p <= k)
    <3>1. /\ p - 1 \in 1..(Len(l) - 1) /\ ~ (p - 1 <= k)
          /\ (p - 1) + 1 = p
      BY <1>0, <1>7, <2>2
    <3>2. m[p - 1] = l[p]
      BY <1>1, <3>1
    <3> QED
      BY <3>1, <3>2
  <2> QED
    BY <2>1, <2>2
<1>8. \A p \in 1..Len(l) : l[p] = l[k + 1] <=> p = k + 1
  <2>1. k + 1 \in 1..Len(l)
    BY <1>0
  <2> QED
    BY <1>0, <1>b, <2>1
<1>9. Range(m) = Range(l) \ {l[k + 1]}
  <2>1. ASSUME NEW x \in Range(m) PROVE x \in Range(l) \ {l[k + 1]}
    <3>1. PICK i \in 1..(Len(l) - 1) : x = m[i]
      BY <1>2, Zenon DEF Range
    <3>2. PICK p \in 1..Len(l) : x = l[p] /\ p # k + 1
      BY <1>6, <3>1, Zenon
    <3> QED
      BY <1>a, <1>8, <3>2, Zenon DEF Range
  <2>2. Range(l) \ {l[k + 1]} \subseteq Range(m)
    BY <1>a, <1>2, <1>7, <1>8, Zenon DEF Range
  <2> QED
    BY <2>1, <2>2
<1> QED
  BY <1>5, <1>9 DEF m

\* lwm2m_list_remove takes just the node asked for, if there is one.
THEOREM RemoveRemoves ==
    ASSUME NEW l \in Seq(Identifiers), Sorted(l), NEW id \in Identifiers
    PROVE  /\ ListRemove(l, id) \in Seq(Identifiers)
           /\ Sorted(ListRemove(l, id))
           /\ Range(ListRemove(l, id)) = Range(l) \ {id}
<1>a. DOMAIN l = 1..Len(l)
  BY LenProperties
<1>0. Len(l) \in Nat /\ id \in Nat /\ \A i \in 1..Len(l) : l[i] \in Nat
  BY LenProperties, ElementOfSeq, IdentifiersAreNats
<1>b. \A i, j \in 1..Len(l) : i < j => l[i] < l[j]
  BY <1>a DEF Sorted
<1>c. l # <<>> => Len(l) > 0
  BY EmptySeq
<1>d. \A x : x \in Range(l) <=> \E i \in 1..Len(l) : l[i] = x
  BY <1>a, Zenon DEF Range
<1>1. ASSUME NEW k \in 0..(Len(l) - 1), l[k + 1] = id
      PROVE  /\ RemoveAt(l, k + 1) \in Seq(Identifiers)
             /\ Sorted(RemoveAt(l, k + 1))
             /\ Range(RemoveAt(l, k + 1)) = Range(l) \ {id}
  BY <1>1, Removed, SortedRemove
<1>2. CASE l = <<>>
  <2>1. id \notin Range(l)
    BY <1>2, <1>d, EmptySeq
  <2> QED
    BY <1>2, <2>1 DEF ListRemove
<1>3. CASE l # <<>> /\ l[1] = id
  <2>1. 0 \in 0..(Len(l) - 1) /\ 0 + 1 = 1 /\ l[0 + 1] = id
    BY <1>0, <1>3, <1>c
  <2>2. ListRemove(l, id) = RemoveAt(l, 0 + 1)
    BY <1>3, <2>1 DEF ListRemove
  <2> QED
    BY <1>1, <2>1, <2>2
<1>4. CASE l # <<>> /\ l[1] # id
  <2> DEFINE k == Walked(l, 1, id)
  <2>1. 1 \in 1..Len(l) /\ 1 \in 0..Len(l)
    BY <1>0, <1>4, <1>c
  <2>2. CASE l[1] < id
    <3>1. /\ k \in 0..Len(l) /\ (\A i \in 1..k : l[i] < id)
          /\ (k = Len(l) \/ l[k + 1] >= id)
      <4>1. \A i \in 1..1 : l[i] < id
        BY <2>2
      <4> QED
        BY <2>1, <4>1, WalkEnds
    <3> HIDE DEF k
    <3>2. CASE k < Len(l) /\ l[k + 1] = id
      <4>1. k \in 0..(Len(l) - 1)
        BY <1>0, <3>1, <3>2
      <4>2. ListRemove(l, id) = RemoveAt(l, k + 1)
        BY <1>4, <3>2 DEF ListRemove, k
      <4> QED
        BY <1>1, <3>2, <4>1, <4>2
    <3>3. CASE ~ (k < Len(l) /\ l[k + 1] = id)
      <4>1. ListRemove(l, id) = l
        BY <1>4, <3>3 DEF ListRemove, k
      <4>2. ASSUME NEW i \in 1..Len(l), l[i] = id PROVE FALSE
        <5>1. k < i
          BY <1>0, <3>1, <4>2
        <5>2. k < Len(l) /\ k + 1 \in 1..Len(l) /\ l[k + 1] > id
          BY <1>0, <3>1, <3>3, <5>1
        <5>3. k + 1 = i \/ k + 1 < i
          BY <1>0, <3>1, <5>1
        <5> QED
          BY <1>0, <1>b, <4>2, <5>2, <5>3
      <4>3. id \notin Range(l)
        BY <4>2, <1>d
      <4> QED
        BY <4>1, <4>3
    <3> QED
      BY <3>2, <3>3
  <2>3. CASE ~ (l[1] < id)
    <3>1. \A i \in 1..Len(l) : l[i] # id
      BY <1>0, <1>b, <1>4, <2>1, <2>3
    <3>2. id \notin Range(l)
      BY <3>1, <1>d
    <3>3. ~ (k < Len(l) /\ l[k + 1] = id)
      <4>1. k \in 1..Len(l)
        <5>1. Stops(l, 1, id) \in SUBSET Nat /\ Len(l) \in Stops(l, 1, id)
          BY <1>0, <2>1 DEF Stops
        <5>2. k \in Stops(l, 1, id)
          BY <5>1, LeastElement DEF Walked
        <5> QED
          BY <5>2 DEF Stops
      <4> HIDE DEF k
      <4> QED
        BY <1>0, <3>1, <4>1
    <3>4. ListRemove(l, id) = l
      BY <1>4, <3>3 DEF ListRemove
    <3> QED
      BY <3>2, <3>4
  <2> QED
    BY <2>2, <2>3
<1> QED
  BY <1>2, <1>3, <1>4

\* lwm2m_list_newId returns an identifier no node has, while there is one.
THEOREM NewIdIsNew ==
    ASSUME NEW l \in Seq(Identifiers), Sorted(l), Len(l) < IdSpace
    PROVE  ListNewId(l) \in Identifiers /\ ListNewId(l) \notin Range(l)
<1> DEFINE k == Min(Gaps(l))
<1>a. DOMAIN l = 1..Len(l)
  BY LenProperties
<1>0. /\ Len(l) \in Nat /\ IdSpace \in Nat
      /\ \A i \in 1..Len(l) : l[i] \in Nat
  BY LenProperties, ElementOfSeq, IdentifiersAreNats, IdSpaceAssumption
<1>b. \A i, j \in 1..Len(l) : i < j => l[i] < l[j]
  BY <1>a DEF Sorted
<1>1. Gaps(l) \in SUBSET Nat /\ Len(l) \in Gaps(l)
  BY <1>0 DEF Gaps
<1>2. k \in Gaps(l) /\ \A j \in Gaps(l) : k <= j
  BY <1>1, LeastElement
<1> HIDE DEF k
<1>3. k \in 0..Len(l) /\ (k = Len(l) \/ l[k + 1] # k)
  BY <1>2 DEF Gaps
<1>4. \A i \in 0..(k - 1) : l[i + 1] = i
  <2>1. ASSUME NEW i \in 0..(k - 1) PROVE l[i + 1] = i
    <3>1. i \in 0..Len(l) /\ i # Len(l) /\ ~ (k <= i)
      BY <1>0, <1>3
    <3>2. i \notin Gaps(l)
      BY <1>2, <3>1
    <3> QED
      BY <3>1, <3>2 DEF Gaps
  <2> QED
    BY <2>1
<1>5. ASSUME NEW i \in 1..Len(l), l[i] = k PROVE FALSE
  <2>1. CASE i <= k
    <3>1. i - 1 \in 0..(k - 1) /\ (i - 1) + 1 = i
      BY <1>0, <1>3, <2>1
    <3>2. l[i] = i - 1
      BY <1>4, <3>1
    <3> QED
      BY <1>0, <1>3, <1>5, <2>1, <3>2
  <2>2. CASE ~ (i <= k)
    <3>1. k + 1 \in 1..Len(l) /\ k < Len(l) /\ (k + 1 = i \/ k + 1 < i)
      BY <1>0, <1>3, <2>2
    <3>2. l[k + 1] # k
      BY <1>0, <1>3, <3>1
    <3>3. k + 1 < i /\ l[k + 1] < k
      BY <1>0, <1>b, <1>5, <3>1, <3>2
    <3>4. CASE k = 0
      BY <1>0, <3>1, <3>3, <3>4
    <3>5. CASE k # 0
      <4>1. k - 1 \in 0..(k - 1) /\ k \in 1..Len(l) /\ (k - 1) + 1 = k
        BY <1>0, <1>3, <3>5
      <4>2. l[k] = k - 1
        BY <1>4, <4>1
      <4>3. l[k] < l[k + 1]
        BY <1>0, <1>b, <3>1, <4>1
      <4> QED
        BY <1>0, <3>1, <3>3, <4>1, <4>2, <4>3
    <3> QED
      BY <3>4, <3>5
  <2> QED
    BY <2>1, <2>2
<1>6. k \in 0..(IdSpace - 1) /\ k % IdSpace = k
  BY <1>0, <1>3
<1>7. ListNewId(l) = k
  BY <1>6 DEF ListNewId, k
<1>8. k \notin Range(l)
  BY <1>a, <1>5, Zenon DEF Range
<1> QED
  BY <1>6, <1>7, <1>8 DEF Identifiers

-----------------------------------------------------------------------------
(* Paths and locations                                                      *)

\* What parsing makes of a segment whose number fits an int.
LEMMA Parsed ==
    ASSUME NEW s \in Segments, s \in Nat => s < IntMod, s # Empty,
           NEW k \in Nat, k <= MaxId
    PROVE  /\ ParseNumber(s) \in 0..k <=> s \in 0..k
           /\ s \in 0..k => ParseNumber(s) = s
<1>1. CASE s \in Nat
  <2>1. s % IntMod = s
    BY <1>1, WidthAssumption
  <2>2. CASE 2 * s < IntMod
    BY <1>1, <2>1, <2>2, SegmentAssumption DEF ParseNumber
  <2>3. CASE ~ (2 * s < IntMod)
    <3>1. ParseNumber(s) = s - IntMod
      BY <1>1, <2>1, <2>3, SegmentAssumption DEF ParseNumber
    <3>2. s > k /\ s - IntMod < 0
      BY <1>1, <2>3, WidthAssumption
    <3> QED
      BY <1>1, <3>1, <3>2, WidthAssumption
  <2> QED
    BY <2>2, <2>3
<1>2. CASE s \notin Nat
  <2>1. s = Junk /\ ParseNumber(s) = -1
    BY <1>2 DEF Segments, ParseNumber
  <2> QED
    BY <1>2, <2>1
<1> QED
  BY <1>1, <1>2

\* The path options that an accepted path becomes are decoded to the same
\* identifiers: the empty segment keeps a resource in its place.
LEMMA SegmentsDecode ==
    ASSUME NEW u \in Uris, u.flag \subseteq {"instance", "resource"},
           u.objectId \in Ids,
           "instance" \in u.flag => u.instanceId \in 0..(MaxId - 1),
           "resource" \in u.flag => u.resourceId \in 0..(MaxId - 1)
    PROVE  DecodeUri(SegmentsOf(u)) =
              [flag |-> {"dm", "object"} \cup u.flag, objectId |-> u.objectId,
               instanceId |-> IF "instance" \in u.flag THEN u.instanceId ELSE 0,
               resourceId |-> IF "resource" \in u.flag THEN u.resourceId ELSE 0]
<1> DEFINE o == u.objectId
           i == u.instanceId
           r == u.resourceId
<1>1. /\ o \in Ids /\ o \in Nat /\ o # Rd /\ o # Bs /\ o # Empty
      /\ ParseNumber(o) = o
  <2>1. o \in Nat /\ o <= MaxId /\ o < IntMod
    BY WidthAssumption DEF Ids
  <2>2. o # Rd /\ o # Bs /\ o # Empty
    BY <2>1, SegmentAssumption
  <2> QED
    BY <2>1, <2>2, Parsed, WidthAssumption DEF Ids, Segments
<1>2. ASSUME NEW n \in 0..(MaxId - 1)
      PROVE  n # Empty /\ n \in Ids /\ ParseNumber(n) = n
  <2>1. n \in Nat /\ n <= MaxId - 1 /\ n < IntMod /\ MaxId - 1 \in Nat
    BY WidthAssumption
  <2>2. n # Empty
    BY <2>1, SegmentAssumption
  <2> QED
    BY <2>1, <2>2, Parsed, WidthAssumption DEF Ids, Segments
<1> HIDE DEF o, i, r
<1>3. CASE "instance" \in u.flag /\ "resource" \in u.flag
  <2> DEFINE p == <<o, i, r>>
  <2>1. SegmentsOf(u) = p
    BY <1>3 DEF SegmentsOf, o, i, r
  <2>2. /\ p # <<>> /\ p[1] = o /\ p[2] = i /\ p[3] = r /\ Len(p) = 3
    OBVIOUS
  <2>3. /\ i \in 0..(MaxId - 1) /\ r \in 0..(MaxId - 1)
    BY <1>3 DEF i, r
  <2> HIDE DEF p
  <2>4. Given(p, 2) /\ Given(p, 3)
    BY <1>2, <2>2, <2>3 DEF Given
  <2>5. /\ ~ (Len(p) > 3) /\ ParseNumber(p[1]) = o /\ ParseNumber(p[2]) = i
        /\ ParseNumber(p[3]) = r /\ r \in Ids
    BY <1>1, <1>2, <2>2, <2>3
  <2>6. DecodeUri(p) = [flag |-> {"dm", "object"} \cup Flagged("instance", TRUE)
                                       \cup Flagged("resource", TRUE),
                        objectId |-> o, instanceId |-> i, resourceId |-> r]
    BY <1>1, <2>2, <2>3, <2>4, <2>5, Zenon DEF DecodeUri
  <2>7. {"dm", "object"} \cup Flagged("instance", TRUE) \cup Flagged("resource", TRUE)
          = {"dm", "object"} \cup u.flag
    BY <1>3 DEF Flagged
  <2> QED
    BY <1>3, <2>1, <2>6, <2>7 DEF o, i, r
<1>4. CASE "instance" \in u.flag /\ "resource" \notin u.flag
  <2> DEFINE p == <<o, i>>
  <2>1. SegmentsOf(u) = p
    BY <1>4 DEF SegmentsOf, o, i
  <2>2. /\ p # <<>> /\ p[1] = o /\ p[2] = i /\ Len(p) = 2
    OBVIOUS
  <2>3. i \in 0..(MaxId - 1)
    BY <1>4 DEF i
  <2> HIDE DEF p
  <2>4. Given(p, 2) /\ ~ Given(p, 3)
    BY <1>2, <2>2, <2>3 DEF Given
  <2>5. ~ (Len(p) > 3) /\ ParseNumber(p[1]) = o /\ ParseNumber(p[2]) = i
    BY <1>1, <1>2, <2>2, <2>3
  <2>6. DecodeUri(p) = [flag |-> {"dm", "object"} \cup Flagged("instance", Given(p, 2))
                                       \cup Flagged("resource", Given(p, 3)),
                        objectId |-> o, instanceId |-> i, resourceId |-> 0]
    BY <1>1, <2>2, <2>3, <2>4, <2>5, Zenon DEF DecodeUri
  <2>7. {"dm", "object"} \cup Flagged("instance", Given(p, 2)) \cup Flagged("resource", Given(p, 3))
          = {"dm", "object"} \cup u.flag
    BY <1>4, <2>4 DEF Flagged
  <2> QED
    BY <1>4, <2>1, <2>6, <2>7 DEF o, i
<1>5. CASE "instance" \notin u.flag /\ "resource" \in u.flag
  <2> DEFINE p == <<o, Empty, r>>
  <2>1. SegmentsOf(u) = p
    BY <1>5 DEF SegmentsOf, o, r
  <2>2. /\ p # <<>> /\ p[1] = o /\ p[2] = Empty /\ p[3] = r /\ Len(p) = 3
    OBVIOUS
  <2>3. r \in 0..(MaxId - 1)
    BY <1>5 DEF r
  <2> HIDE DEF p
  <2>4. ~ Given(p, 2) /\ Given(p, 3)
    BY <1>2, <2>2, <2>3 DEF Given
  <2>5. /\ ~ (Len(p) > 3) /\ ParseNumber(p[1]) = o /\ ParseNumber(p[3]) = r
        /\ r \in Ids
    BY <1>1, <1>2, <2>2, <2>3
  <2>6. DecodeUri(p) = [flag |-> {"dm", "object"} \cup Flagged("instance", Given(p, 2))
                                       \cup Flagged("resource", Given(p, 3)),
                        objectId |-> o, instanceId |-> 0, resourceId |-> r]
    BY <1>1, <2>2, <2>3, <2>4, <2>5, Zenon DEF DecodeUri
  <2>7. {"dm", "object"} \cup Flagged("instance", Given(p, 2)) \cup Flagged("resource", Given(p, 3))
          = {"dm", "object"} \cup u.flag
    BY <1>5, <2>4 DEF Flagged
  <2> QED
    BY <1>5, <2>1, <2>6, <2>7 DEF o, r
<1>6. CASE "instance" \notin u.flag /\ "resource" \notin u.flag
  <2> DEFINE p == <<o>>
  <2>1. SegmentsOf(u) = p
    BY <1>6 DEF SegmentsOf, o
  <2>2. /\ p # <<>> /\ p[1] = o /\ Len(p) = 1
    OBVIOUS
  <2> HIDE DEF p
  <2>4. ~ Given(p, 2) /\ ~ Given(p, 3)
    BY <2>2 DEF Given
  <2>5. ~ (Len(p) > 3) /\ ParseNumber(p[1]) = o
    BY <1>1, <2>2
  <2>6. DecodeUri(p) = [flag |-> {"dm", "object"} \cup Flagged("instance", Given(p, 2))
                                       \cup Flagged("resource", Given(p, 3)),
                        objectId |-> o, instanceId |-> 0, resourceId |-> 0]
    BY <1>1, <2>2, <2>4, <2>5, Zenon DEF DecodeUri
  <2>7. {"dm", "object"} \cup Flagged("instance", Given(p, 2)) \cup Flagged("resource", Given(p, 3))
          = {"dm", "object"} \cup u.flag
    BY <1>6, <2>4 DEF Flagged
  <2> QED
    BY <1>6, <2>1, <2>6, <2>7 DEF o
<1> QED
  BY <1>3, <1>4, <1>5, <1>6

\* A path becomes what it means on its way from the operator to the client.
LEMMA PathMeaning ==
    ASSUME NEW text \in Seq(Segments) \ {<<>>}, Plain(text),
           NEW uri \in Uris, uri.flag = {}
    PROVE  Meaning(text) =
              IF StringToUri(text, uri) = Null THEN Null
              ELSE DecodeUri(SegmentsOf(StringToUri(text, uri)))
<1>0. /\ Len(text) \in Nat /\ Len(text) >= 1 /\ DOMAIN text = 1..Len(text)
      /\ \A i \in 1..Len(text) : text[i] \in Segments
  OBVIOUS
<1>1. ASSUME NEW i \in {1, 2, 3}, Given(text, i), NEW k \in Nat, k <= MaxId
      PROVE  /\ ParseNumber(text[i]) \in 0..k <=> text[i] \in 0..k
             /\ text[i] \in 0..k => ParseNumber(text[i]) = text[i]
  <2>1. i \in 1..Len(text) /\ text[i] # Empty
    BY <1>0, <1>1 DEF Given
  <2>2. text[i] \in Segments /\ (text[i] \in Nat => text[i] < IntMod)
    BY <1>0, <2>1 DEF Plain
  <2> QED
    BY <1>1, <2>1, <2>2, Parsed
<1>2. text[1] # Empty /\ text # <<Empty>> /\ Given(text, 1)
  BY <1>0 DEF Plain, Given
<1>3. MaxId \in Nat /\ MaxId - 1 \in Nat /\ MaxId <= MaxId /\ MaxId - 1 <= MaxId
  BY WidthAssumption
<1>4. /\ ParseNumber(text[1]) \in Ids <=> text[1] \in Ids
      /\ text[1] \in Ids => ParseNumber(text[1]) = text[1]
  BY <1>1, <1>2, <1>3 DEF Ids
<1>5. ASSUME NEW i \in {2, 3}
      PROVE  /\ Means(text, i, MaxId - 1) <=>
                    ~ (Given(text, i) /\ ParseNumber(text[i]) \notin 0..(MaxId - 1))
             /\ Given(text, i) /\ Means(text, i, MaxId - 1)
                    => /\ ParseNumber(text[i]) = text[i]
                       /\ text[i] \in 0..(MaxId - 1)
  BY <1>1, <1>3 DEF Means
<1>6. CASE ~ (/\ text[1] \in Ids /\ Means(text, 2, MaxId - 1)
              /\ Means(text, 3, MaxId - 1))
  <2>1. StringToUri(text, uri) = Null
    BY <1>4, <1>5, <1>6 DEF StringToUri
  <2>2. Meaning(text) = Null
    BY <1>6 DEF Meaning
  <2> QED
    BY <2>1, <2>2
<1>7. CASE /\ text[1] \in Ids /\ Means(text, 2, MaxId - 1)
           /\ Means(text, 3, MaxId - 1)
  <2> DEFINE fl == Flagged("instance", Given(text, 2)) \cup Flagged("resource", Given(text, 3))
             ii == IF Given(text, 2) THEN text[2] ELSE uri.instanceId
             rr == IF Given(text, 3) THEN text[3] ELSE uri.resourceId
             u  == [flag |-> fl, objectId |-> text[1], instanceId |-> ii, resourceId |-> rr]
  <2>1. StringToUri(text, uri) =
           [flag |-> uri.flag \cup Flagged("instance", Given(text, 2))
                             \cup Flagged("resource", Given(text, 3)),
            objectId   |-> ParseNumber(text[1]),
            instanceId |-> IF Given(text, 2) THEN ParseNumber(text[2]) ELSE uri.instanceId,
            resourceId |-> IF Given(text, 3) THEN ParseNumber(text[3]) ELSE uri.resourceId]
    BY <1>2, <1>4, <1>5, <1>7, Zenon DEF StringToUri
  <2>2. /\ ParseNumber(text[1]) = text[1]
        /\ Given(text, 2) => ParseNumber(text[2]) = text[2] /\ text[2] \in 0..(MaxId - 1)
        /\ Given(text, 3) => ParseNumber(text[3]) = text[3] /\ text[3] \in 0..(MaxId - 1)
    BY <1>4, <1>5, <1>7
  <2>3. uri.flag \cup Flagged("instance", Given(text, 2))
                 \cup Flagged("resource", Given(text, 3)) = fl
    OBVIOUS
  <2>4. StringToUri(text, uri) = u
    BY <2>1, <2>2, <2>3, Zenon
  <2>5. /\ fl \subseteq {"instance", "resource"}
        /\ "instance" \in fl <=> Given(text, 2)
        /\ "resource" \in fl <=> Given(text, 3)
    BY DEF Flagged
  <2>6. 0..(MaxId - 1) \subseteq Ids /\ uri.instanceId \in Ids /\ uri.resourceId \in Ids
    BY <1>3 DEF Ids, Uris
  <2>7. ii \in Ids /\ rr \in Ids
    BY <2>2, <2>6
  <2>8. u \in Uris
    BY <1>7, <2>5, <2>7 DEF Uris
  <2>9. u # Null
    BY <2>8, NullAssumption
  <2>10. DecodeUri(SegmentsOf(u)) =
            [flag |-> {"dm", "object"} \cup fl, objectId |-> text[1],
             instanceId |-> IF "instance" \in fl THEN ii ELSE 0,
             resourceId |-> IF "resource" \in fl THEN rr ELSE 0]
    <3>1. /\ u.flag = fl /\ u.objectId = text[1]
          /\ u.instanceId = ii /\ u.resourceId = rr
      OBVIOUS
    <3>2. /\ "instance" \in fl => ii \in 0..(MaxId - 1)
          /\ "resource" \in fl => rr \in 0..(MaxId - 1)
      BY <2>2, <2>5
    <3> HIDE DEF u, fl, ii, rr
    <3> QED
      BY <1>7, <2>5, <2>8, <3>1, <3>2, SegmentsDecode
  <2>11. Meaning(text) =
            [flag |-> {"dm", "object"} \cup Flagged("instance", Given(text, 2))
                            \cup Flagged("resource", Given(text, 3)),
             objectId   |-> text[1],
             instanceId |-> IF Given(text, 2) THEN text[2] ELSE 0,
             resourceId |-> IF Given(text, 3) THEN text[3] ELSE 0]
    BY <1>7, Zenon DEF Meaning
  <2>12. {"dm", "object"} \cup fl = {"dm", "object"} \cup Flagged("instance", Given(text, 2))
                                 \cup Flagged("resource", Given(text, 3))
    OBVIOUS
  <2>13. Meaning(text) = DecodeUri(SegmentsOf(u))
    BY <2>5, <2>10, <2>11, <2>12, Zenon
  <2> HIDE DEF u
  <2> QED
    BY <2>4, <2>9, <2>13
<1> QED
  BY <1>6, <1>7

\* A location is decoded to the registration it was made for.
LEMMA LocationMeaning ==
    ASSUME NEW id \in Ids
    PROVE  DecodeUri(LocationOf(id)) =
              [NoUri EXCEPT !.flag = {"registration", "object"}, !.objectId = id]
<1> DEFINE p == LocationOf(id)
<1>1. p # <<>> /\ p[1] = Rd /\ p[2] = id /\ Len(p) = 2
  BY DEF LocationOf
<1>2. id \in Nat /\ id # Empty /\ id < IntMod /\ MaxId \in Nat /\ id \in 0..MaxId
  BY SegmentAssumption, WidthAssumption DEF Ids
<1>3. ParseNumber(id) = id
  BY <1>2, Parsed DEF Segments
<1> HIDE DEF p
<1>4. ~ (Len(p) = 1) /\ ParseNumber(p[2]) \in Ids /\ ParseNumber(p[2]) = id
  BY <1>1, <1>3
<1> QED
  BY <1>1, <1>4, Zenon DEF DecodeUri, p

\* Nobody says anything but what the programs can be given.
LEMMA SaidType == Spec => [](said \in Said)
<1>1. Init => said \in Said
  BY DEF Init
<1>2. said \in Said /\ [Next]_vars => (said \in Said)'
  BY DEF Next, vars, Ask, Locate, Register, Announce, Write, Read, Send, Hears
<1> QED
  BY <1>1, <1>2, PTL DEF Spec

\* Paths and locations arrive as they were said, for identifiers and ints of
\* any width and texts of any length.
THEOREM PathsArrive == Spec => []PathArrives
<1>1. Init => PathArrives
  BY DEF Init, PathArrives
<1>2. ASSUME said \in Said, PathArrives, [Next]_vars PROVE PathArrives'
  <2>1. CASE UNCHANGED vars
    BY <1>2, <2>1 DEF PathArrives, vars
  <2>2. CASE Ask
    <3>1. said' = said /\ said.kind = "path"
      BY <2>2 DEF Ask, Hears
    <3>2. said.text \in Seq(Segments) \ {<<>>} /\ said.uri \in Uris
      BY <1>2, <3>1, SaidAssumption DEF Said
    <3>3. heard' = IF StringToUri(said.text, said.uri) = Null THEN Null
                   ELSE DecodeUri(SegmentsOf(StringToUri(said.text, said.uri)))
      BY <2>2, Zenon DEF Ask, Hears
    <3> QED
      BY <3>1, <3>2, <3>3, PathMeaning DEF PathArrives
  <2>3. CASE Locate
    <3>1. /\ said' = said /\ said.kind = "location"
          /\ heard' = DecodeUri(LocationOf(said.id))
      BY <2>3 DEF Locate, Hears
    <3>2. said.id \in Ids
      BY <1>2, <3>1 DEF Said
    <3> QED
      BY <3>1, <3>2, LocationMeaning DEF PathArrives
  <2>4. CASE Register \/ Announce \/ Write \/ Read \/ Send
    <3>1. said' = said /\ said.kind # "path" /\ said.kind # "location"
      BY <2>4 DEF Register, Announce, Write, Read, Send, Hears
    <3> QED
      BY <3>1 DEF PathArrives
  <2> QED
    BY <1>2, <2>1, <2>2, <2>3, <2>4 DEF Next
<1> QED
  BY <1>1, <1>2, SaidType, PTL DEF Spec

-----------------------------------------------------------------------------
(* Object lists                                                             *)

\* The lists that prv_decodeRegisterPayload makes: sorted, with a sorted list
\* of instances for each object.
KeptLists ==
    {l \in ObjectListRecords :
        /\ Sorted(l.ids) /\ DOMAIN l.instances = Range(l.ids)
        /\ \A o \in Range(l.ids) : Sorted(l.instances[o])}

\* The instances that a list has of an object, and what an item adds.
Has(l, o) == IF o \in Range(l.ids) THEN Range(l.instances[o]) ELSE {}

Names(item) == {ParseNumber(item.object)} \cap 0..(MaxId - 1)

Adds(item, o) ==
    IF ParseNumber(item.object) = o /\ item.instance # Empty
    THEN {ParseNumber(item.instance)} \cap 0..(MaxId - 1) ELSE {}

LEMMA KeptListType ==
    ASSUME NEW l \in KeptLists
    PROVE  /\ l = [ids |-> l.ids, instances |-> l.instances]
           /\ l.ids \in Seq(Identifiers) /\ Sorted(l.ids)
           /\ l.instances \in [Range(l.ids) -> Seq(Identifiers)]
           /\ \A o \in Range(l.ids) : Sorted(l.instances[o])
<1>1. l \in ObjectListRecords /\ DOMAIN l.instances = Range(l.ids)
  BY DEF KeptLists
<1>2. PICK S \in SUBSET Identifiers : l.instances \in [S -> Seq(Identifiers)]
  BY <1>1 DEF ObjectListRecords
<1>3. S = Range(l.ids)
  BY <1>1, <1>2
<1> QED
  BY <1>1, <1>2, <1>3 DEF KeptLists, ObjectListRecords

LEMMA KeptListMade ==
    ASSUME NEW ids \in Seq(Identifiers), Sorted(ids),
           NEW instances \in [Range(ids) -> Seq(Identifiers)],
           \A o \in Range(ids) : Sorted(instances[o])
    PROVE  [ids |-> ids, instances |-> instances] \in KeptLists
<1>1. Range(ids) \in SUBSET Identifiers
  <2>1. \A i \in DOMAIN ids : ids[i] \in Identifiers
    BY ElementOfSeq, LenProperties
  <2> QED
    BY <2>1 DEF Range
<1>2. instances \in UNION {[S -> Seq(Identifiers)] : S \in SUBSET Identifiers}
  BY <1>1
<1> QED
  BY <1>2 DEF KeptLists, ObjectListRecords

LEMMA EmptyLists ==
    /\ <<>> \in Seq(Identifiers) /\ Sorted(<<>>) /\ Range(<<>>) = {}
    /\ [ids |-> <<>>, instances |-> <<>>] \in KeptLists
<1>1. <<>> \in Seq(Identifiers) /\ Sorted(<<>>) /\ Range(<<>>) = {}
  BY DEF Sorted, Range
<1>2. <<>> \in [Range(<<>>) -> Seq(Identifiers)]
  <2>1. <<>> \in [{} -> Seq(Identifiers)]
    OBVIOUS
  <2> QED
    BY <1>1, <2>1
<1> QED
  BY <1>1, <1>2, KeptListMade

\* An item adds its object, if the list has it not, with no instances.
LEMMA KnownObject ==
    ASSUME NEW l \in KeptLists, NEW o \in 0..(MaxId - 1)
    PROVE  LET known == IF ListFind(l.ids, o) THEN l
                        ELSE [ids       |-> ListAdd(l.ids, o),
                              instances |-> [p \in DOMAIN l.instances \cup {o} |->
                                                IF p = o THEN <<>> ELSE l.instances[p]]]
           IN  /\ known \in KeptLists
               /\ Range(known.ids) = Range(l.ids) \cup {o}
               /\ \A p : Has(known, p) = Has(l, p)
<1>1. /\ l.ids \in Seq(Identifiers) /\ Sorted(l.ids)
      /\ l.instances \in [Range(l.ids) -> Seq(Identifiers)]
      /\ \A p \in Range(l.ids) : Sorted(l.instances[p])
  BY KeptListType
<1>2. o \in Identifiers
  BY WidthAssumption, IdSpaceAssumption DEF Identifiers
<1>3. CASE o \in Range(l.ids)
  BY <1>1, <1>2, <1>3, FindFinds
<1>4. CASE o \notin Range(l.ids)
  <2> DEFINE ids == ListAdd(l.ids, o)
             instances == [p \in DOMAIN l.instances \cup {o} |->
                              IF p = o THEN <<>> ELSE l.instances[p]]
             known == [ids |-> ids, instances |-> instances]
  <2>1. ids \in Seq(Identifiers) /\ Sorted(ids) /\ Range(ids) = Range(l.ids) \cup {o}
    BY <1>1, <1>2, <1>4, AddInserts
  <2>2. instances = [p \in Range(l.ids) \cup {o} |-> IF p = o THEN <<>> ELSE l.instances[p]]
    BY <1>1
  <2> HIDE DEF ids, instances
  <2>3. instances \in [Range(ids) -> Seq(Identifiers)]
    BY <1>1, <2>1, <2>2, EmptyLists
  <2>4. \A p \in Range(ids) : Sorted(instances[p])
    BY <1>1, <2>1, <2>2, EmptyLists
  <2>5. known \in KeptLists
    BY <2>1, <2>3, <2>4, KeptListMade
  <2>6. ASSUME NEW p PROVE Has(known, p) = Has(l, p)
    BY <1>4, <2>1, <2>2, EmptyLists DEF Has
  <2>7. ~ ListFind(l.ids, o)
    BY <1>1, <1>2, <1>4, FindFinds
  <2>8. Range(known.ids) = Range(l.ids) \cup {o}
    BY <2>1
  <2> QED
    BY <2>5, <2>6, <2>7, <2>8 DEF ids, instances
<1> QED
  BY <1>3, <1>4

\* What an item adds to a list.
LEMMA ItemIsRecorded ==
    ASSUME NEW l \in KeptLists, NEW item
    PROVE  LET m == RecordItem(l, item)
           IN  /\ m \in KeptLists
               /\ Range(m.ids) = Range(l.ids) \cup Names(item)
               /\ \A p \in 0..(MaxId - 1) : Has(m, p) = Has(l, p) \cup Adds(item, p)
<1> DEFINE o == ParseNumber(item.object)
           i == ParseNumber(item.instance)
           known == IF ListFind(l.ids, o) THEN l
                    ELSE [ids       |-> ListAdd(l.ids, o),
                          instances |-> [p \in DOMAIN l.instances \cup {o} |->
                                            IF p = o THEN <<>> ELSE l.instances[p]]]
           stays == \/ item.instance = Empty \/ i \notin 0..(MaxId - 1)
                    \/ ListFind(known.instances[o], i)
           m == RecordItem(l, item)
<1>1. m = IF o \notin 0..(MaxId - 1) THEN l
          ELSE IF stays THEN known
          ELSE [known EXCEPT !.instances[o] = ListAdd(@, i)]
  BY Zenon DEF RecordItem
<1>2. /\ Names(item) = {o} \cap 0..(MaxId - 1)
      /\ \A p : Adds(item, p) = IF o = p /\ item.instance # Empty
                                THEN {i} \cap 0..(MaxId - 1) ELSE {}
  BY DEF Names, Adds
<1>3. CASE o \notin 0..(MaxId - 1)
  <2> HIDE DEF o, i, m, known, stays
  <2>1. m = l /\ Names(item) = {} /\ \A p \in 0..(MaxId - 1) : Adds(item, p) = {}
    BY <1>1, <1>2, <1>3
  <2> QED
    BY <2>1 DEF m
<1>4. CASE o \in 0..(MaxId - 1)
  <2>1. /\ known \in KeptLists
        /\ Range(known.ids) = Range(l.ids) \cup {o}
        /\ \A p : Has(known, p) = Has(l, p)
    <3> HIDE DEF o
    <3> QED
      BY <1>4, KnownObject
  <2> HIDE DEF o, i, m, known
  <2>2. /\ known = [ids |-> known.ids, instances |-> known.instances]
        /\ known.ids \in Seq(Identifiers) /\ Sorted(known.ids)
        /\ known.instances \in [Range(known.ids) -> Seq(Identifiers)]
        /\ \A p \in Range(known.ids) : Sorted(known.instances[p])
    BY <2>1, KeptListType
  <2> DEFINE s == known.instances[o]
  <2>3. s \in Seq(Identifiers) /\ Sorted(s) /\ Has(known, o) = Range(s)
    BY <2>1, <2>2 DEF Has
  <2>4. 0..(MaxId - 1) \subseteq Identifiers
    BY WidthAssumption, IdSpaceAssumption DEF Identifiers
  <2>5. Names(item) = {o}
    BY <1>2, <1>4
  <2>6. CASE stays
    <3>1. \A p : Adds(item, p) \subseteq Has(known, p)
      <4>1. SUFFICES ASSUME item.instance # Empty, i \in 0..(MaxId - 1)
                     PROVE  i \in Has(known, o)
        BY <1>2
      <4>2. ListFind(s, i)
        BY <2>6, <4>1
      <4>3. i \in Range(s)
        <5> HIDE DEF s
        <5> QED
          BY <2>3, <2>4, <4>1, <4>2, FindFinds
      <4> QED
        BY <2>3, <4>3
    <3>2. m = known
      BY <1>1, <1>4, <2>6
    <3> QED
      BY <2>1, <2>5, <3>1, <3>2 DEF m
  <2>7. CASE ~ stays
    <3>1. /\ item.instance # Empty /\ i \in Identifiers /\ i \in 0..(MaxId - 1)
          /\ ~ ListFind(s, i)
      BY <2>4, <2>7
    <3> DEFINE t == ListAdd(s, i)
               instances == [known.instances EXCEPT ![o] = t]
               n == [ids |-> known.ids, instances |-> instances]
    <3>2. t \in Seq(Identifiers) /\ Sorted(t) /\ Range(t) = Range(s) \cup {i}
      <4> HIDE DEF s
      <4> QED
        BY <2>3, <3>1, AddInserts, FindFinds
    <3>3. m = [known EXCEPT !.instances[o] = t]
      BY <1>1, <1>4, <2>7, Zenon
    <3> HIDE DEF s, t, stays
    <3>4. [known EXCEPT !.instances[o] = t] = n
      <4> DEFINE a == known.ids
                 b == known.instances
      <4>1. known = [ids |-> a, instances |-> b]
        BY <2>2
      <4>2. n = [ids |-> a, instances |-> [b EXCEPT ![o] = t]]
        OBVIOUS
      <4> HIDE DEF a, b, n
      <4>3. [[ids |-> a, instances |-> b] EXCEPT !.instances[o] = t]
              = [ids |-> a, instances |-> [b EXCEPT ![o] = t]]
        OBVIOUS
      <4> QED
        BY <4>1, <4>2, <4>3, Zenon
    <3>5. /\ instances \in [Range(known.ids) -> Seq(Identifiers)]
          /\ \A p \in Range(known.ids) : Sorted(instances[p])
          /\ instances[o] = t /\ \A p \in Range(known.ids) : p # o => instances[p] = known.instances[p]
      BY <2>1, <2>2, <3>2
    <3> HIDE DEF instances
    <3>6. n \in KeptLists
      BY <2>2, <3>5, KeptListMade
    <3>7. Range(n.ids) = Range(known.ids)
      OBVIOUS
    <3>8. ASSUME NEW p \in 0..(MaxId - 1) PROVE Has(n, p) = Has(known, p) \cup Adds(item, p)
      <4>1. CASE p = o
        <5>1. Adds(item, p) = {i}
          BY <1>2, <3>1, <4>1
        <5>2. Has(n, p) = Range(t)
          BY <2>1, <3>5, <4>1 DEF Has
        <5> QED
          BY <2>3, <3>2, <4>1, <5>1, <5>2
      <4>2. CASE p # o
        <5>1. Adds(item, p) = {}
          BY <1>2, <4>2
        <5>2. Has(n, p) = Has(known, p)
          BY <3>5, <4>2 DEF Has
        <5> QED
          BY <5>1, <5>2
      <4> QED
        BY <4>1, <4>2
    <3>9. m = n
      BY <3>3, <3>4
    <3> HIDE DEF n
    <3> QED
      BY <2>1, <2>5, <3>6, <3>7, <3>8, <3>9 DEF m
  <2> QED
    BY <2>6, <2>7
<1> QED
  BY <1>3, <1>4

\* A decoded payload lists what its items name, each once and in order.
THEOREM PayloadsAreListed ==
    ASSUME NEW items \in Seq([object : Segments, instance : Segments])
    PROVE  DecodeRegisterPayload(items) \in KeptLists /\ Lists(DecodeRegisterPayload(items), items)
<1> DEFINE n == Len(items)
           none == [ids |-> <<>>, instances |-> <<>>]
           F == [i \in 1..n |-> [l \in KeptLists |-> RecordItem(l, items[i])]]
           Is(p) == p = [i \in 0..n |-> IF i = 0 THEN none ELSE RecordItem(p[i - 1], items[i])]
           q == CHOOSE p : Is(p)
<1>1. n \in Nat /\ none \in KeptLists
  BY EmptyLists
<1>2. \A i \in 1..n, l \in KeptLists : RecordItem(l, items[i]) \in KeptLists
  BY ItemIsRecorded, Zenon
<1>3. F \in [1..n -> [KeptLists -> KeptLists]]
  BY <1>2
<1>4. PICK f \in [0..n -> KeptLists] : Follows(f, none, n, F)
  <2> HIDE DEF F, n, none
  <2> QED
    BY <1>1, <1>3, Recursion, Zenon
<1>5. ASSUME NEW i \in 1..n PROVE f[i] = RecordItem(f[i - 1], items[i])
  <2>1. i - 1 \in 0..n /\ f[i - 1] \in KeptLists
    BY <1>1
  <2> QED
    BY <1>4, <2>1 DEF Follows
<1>6. Is(f)
  BY <1>4, <1>5 DEF Follows
<1>7. Is(q)
  BY <1>6
<1>8. DecodeRegisterPayload(items) = q[n]
  BY Zenon DEF DecodeRegisterPayload
<1> HIDE DEF q
<1>9. q[0] = none /\ \A i \in 1..n : q[i] = RecordItem(q[i - 1], items[i])
  <2> HIDE DEF n, none
  <2> QED
    BY <1>1, <1>7
<1> HIDE DEF none, n, F
<1>10. \A i \in 0..n : q[i] \in KeptLists
  <2>1. \A i \in 1..n : q[i - 1] \in KeptLists => q[i] \in KeptLists
    BY <1>2, <1>9
  <2>2. q[0] \in KeptLists
    BY <1>1, <1>9
  <2> QED
    BY <1>1, <2>1, <2>2, Stays, Zenon
<1> DEFINE Named(i) == UNION {Names(items[j]) : j \in 1..i}
           Added(i, o) == UNION {Adds(items[j], o) : j \in 1..i}
           S == {i \in Nat : i <= n =>
                   /\ Range(q[i].ids) = Named(i)
                   /\ \A o \in 0..(MaxId - 1) : Has(q[i], o) = Added(i, o)}
<1>11. 0 \in S
  <2>1. Named(0) = {} /\ \A o : Added(0, o) = {}
    OBVIOUS
  <2>2. Range(q[0].ids) = {} /\ \A o : Has(q[0], o) = {}
    BY <1>9, EmptyLists DEF none, Has
  <2> QED
    BY <2>1, <2>2
<1>12. ASSUME NEW i \in Nat, i \in S PROVE i + 1 \in S
  <2>1. SUFFICES ASSUME i + 1 <= n
                 PROVE  /\ Range(q[i + 1].ids) = Named(i + 1)
                        /\ \A o \in 0..(MaxId - 1) : Has(q[i + 1], o) = Added(i + 1, o)
    OBVIOUS
  <2>2. i \in 0..n /\ i + 1 \in 1..n /\ (i + 1) - 1 = i
    BY <1>1, <2>1
  <2>3. q[i + 1] = RecordItem(q[i], items[i + 1]) /\ q[i] \in KeptLists
    BY <1>9, <1>10, <2>2
  <2>4. /\ Range(q[i].ids) = Named(i)
        /\ \A o \in 0..(MaxId - 1) : Has(q[i], o) = Added(i, o)
    BY <1>12, <2>2
  <2>5. 1..(i + 1) = 1..i \cup {i + 1}
    OBVIOUS
  <2>6. Named(i + 1) = Named(i) \cup Names(items[i + 1])
    BY <2>5, Zenon
  <2>7. \A o : Added(i + 1, o) = Added(i, o) \cup Adds(items[i + 1], o)
    BY <2>5, Zenon
  <2> HIDE DEF Named, Added
  <2>8. /\ Range(q[i + 1].ids) = Range(q[i].ids) \cup Names(items[i + 1])
        /\ \A o \in 0..(MaxId - 1) :
              Has(q[i + 1], o) = Has(q[i], o) \cup Adds(items[i + 1], o)
    BY <2>3, ItemIsRecorded, Zenon
  <2> QED
    BY <2>4, <2>6, <2>7, <2>8
<1>13. Nat \subseteq S
  <2> HIDE DEF S
  <2> QED
    BY <1>11, <1>12, Induction
<1>14. /\ q[n] \in KeptLists /\ Range(q[n].ids) = Named(n)
       /\ \A o \in 0..(MaxId - 1) : Has(q[n], o) = Added(n, o)
  BY <1>1, <1>10, <1>13
<1>15. Lists(q[n], items)
  <2> DEFINE named == {item \in Range(items) : ParseNumber(item.object) \in 0..(MaxId - 1)}
             of(o) == {ParseNumber(item.instance) : item \in
                         {m \in named : ParseNumber(m.object) = o /\ m.instance # Empty}}
  <2>1. Range(items) = {items[j] : j \in 1..n}
    <3>1. DOMAIN items = 1..n
      BY DEF n
    <3> QED
      BY <3>1 DEF Range
  <2>2. Named(n) = {ParseNumber(item.object) : item \in named}
    BY <2>1 DEF Names
  <2>3. ASSUME NEW o \in 0..(MaxId - 1) PROVE Added(n, o) = of(o) \cap 0..(MaxId - 1)
    BY <2>1 DEF Adds
  <2>4. Range(q[n].ids) \subseteq 0..(MaxId - 1)
    BY <1>14, <2>2
  <2> HIDE DEF named, Named, Added
  <2>5. Sorted(q[n].ids) /\ \A o \in Range(q[n].ids) : Sorted(q[n].instances[o])
    BY <1>14, KeptListType
  <2>6. \A o \in Range(q[n].ids) : Range(q[n].instances[o]) = of(o) \cap 0..(MaxId - 1)
    BY <1>14, <2>3, <2>4 DEF Has
  <2>7. Range(q[n].ids) = {ParseNumber(item.object) : item \in named}
    BY <1>14, <2>2
  <2> HIDE DEF of
  <2> QED
    BY <2>5, <2>6, <2>7, Zenon DEF Lists, named, of
<1> QED
  BY <1>8, <1>14, <1>15

\* The items of a client's objects are items of a payload.
LEMMA ItemsType ==
    ASSUME NEW objects \in Seq([id : Ids, instances : Seq(Ids)])
    PROVE  AllItems(objects) \in Seq([object : Segments, instance : Segments])
<1> DEFINE Items == [object : Segments, instance : Segments]
           Objects == [id : Ids, instances : Seq(Ids)]
           n == Len(objects)
           none == <<>>
           Longer(s, i) == s \o ItemsOf(objects[i])
           F == [i \in 1..n |-> [s \in Seq(Items) |-> Longer(s, i)]]
           Is(p) == p = [i \in 0..n |-> IF i = 0 THEN none ELSE Longer(p[i - 1], i)]
           q == CHOOSE p : Is(p)
<1>1. n \in Nat /\ \A i \in 1..n : objects[i] \in Objects
  BY LenProperties, ElementOfSeq
<1>2. ASSUME NEW object \in Objects PROVE ItemsOf(object) \in Seq(Items)
  <2>1. Ids \subseteq Segments /\ Empty \in Segments
    BY DEF Ids, Segments
  <2>2. object.id \in Ids /\ object.instances \in Seq(Ids)
    OBVIOUS
  <2>3. CASE object.instances = <<>>
    <3>1. [object |-> object.id, instance |-> Empty] \in Items
      BY <2>1, <2>2
    <3> HIDE DEF Items
    <3> QED
      BY <2>3, <3>1 DEF ItemsOf
  <2>4. CASE object.instances # <<>>
    <3> DEFINE s == object.instances
               t == [i \in DOMAIN s |-> [object |-> object.id, instance |-> s[i]]]
    <3>1. DOMAIN s = 1..Len(s) /\ Len(s) \in Nat /\ \A i \in 1..Len(s) : s[i] \in Ids
      BY <2>2, LenProperties, ElementOfSeq
    <3>2. t \in [1..Len(s) -> Items]
      BY <2>1, <2>2, <3>1
    <3>3. t \in Seq(Items)
      <4> HIDE DEF Items, t, s
      <4> QED
        BY <3>1, <3>2
    <3> QED
      BY <2>4, <3>3 DEF ItemsOf
  <2> QED
    BY <2>3, <2>4
<1> HIDE DEF Items, Objects, n
<1>3. \A i \in 1..n, s \in Seq(Items) : Longer(s, i) \in Seq(Items)
  BY <1>1, <1>2, ConcatProperties
<1> HIDE DEF Longer
<1>4. F \in [1..n -> [Seq(Items) -> Seq(Items)]] /\ none \in Seq(Items)
  BY <1>3
<1> HIDE DEF none
<1>5. PICK f \in [0..n -> Seq(Items)] : Follows(f, none, n, F)
  <2> HIDE DEF F
  <2> QED
    BY <1>1, <1>4, Recursion, Zenon
<1>6. ASSUME NEW i \in 1..n PROVE f[i] = Longer(f[i - 1], i)
  <2>1. i - 1 \in 0..n /\ f[i - 1] \in Seq(Items)
    BY <1>1
  <2> QED
    BY <1>5, <2>1 DEF Follows
<1>7. Is(f)
  BY <1>5, <1>6 DEF Follows
<1>8. Is(q)
  BY <1>7
<1>9. AllItems(objects) = q[n]
  BY Zenon DEF AllItems, none, n, Longer
<1> HIDE DEF q, F
<1>10. q[0] = none /\ \A i \in 1..n : q[i] = Longer(q[i - 1], i)
  BY <1>1, <1>8
<1>11. \A i \in 0..n : q[i] \in Seq(Items)
  <2>1. \A i \in 1..n : q[i - 1] \in Seq(Items) => q[i] \in Seq(Items)
    BY <1>3, <1>10
  <2>2. q[0] \in Seq(Items)
    BY <1>4, <1>10
  <2> QED
    BY <1>1, <2>1, <2>2, Stays, Zenon
<1>12. AllItems(objects) \in Seq(Items)
  BY <1>1, <1>9, <1>11
<1> QED
  BY <1>12, Zenon DEF Items

\* The object list of a client arrives as it was sent, of any length and with
\* parts that do not parse.
THEOREM ObjectListsArrive == Spec => []ObjectListArrives
<1>1. Init => ObjectListArrives
  BY DEF Init, ObjectListArrives
<1>2. ASSUME said \in Said, ObjectListArrives, [Next]_vars PROVE ObjectListArrives'
  <2>1. CASE UNCHANGED vars
    BY <1>2, <2>1 DEF ObjectListArrives, vars
  <2>2. CASE Announce
    <3>1. said' = said /\ said.kind = "payload" /\ heard' = DecodeRegisterPayload(said.items)
      BY <2>2 DEF Announce, Hears
    <3>2. said.items \in Seq([object : Segments, instance : Segments])
      BY <1>2, <3>1, SaidAssumption DEF Said
    <3>3. Lists(heard', said.items)
      BY <3>1, <3>2, PayloadsAreListed, Zenon
    <3> QED
      BY <3>1, <3>3, Zenon DEF ObjectListArrives
  <2>3. CASE Register
    <3> DEFINE items == AllItems(said.objects)
               sent == RegisterPayload(said.objects, Room)
    <3>1. /\ said' = said /\ said.kind = "objects"
          /\ heard' = IF sent = <<>> THEN Null ELSE DecodeRegisterPayload(sent)
      BY <2>3, Zenon DEF Register, Hears
    <3>2. said.objects \in Seq([id : Ids, instances : Seq(Ids)])
      BY <1>2, <3>1, SaidAssumption DEF Said
    <3>3. items \in Seq([object : Segments, instance : Segments])
      BY <3>2, ItemsType
    <3>4. sent = IF Characters(items) > Room THEN <<>> ELSE items
      BY DEF RegisterPayload
    <3> HIDE DEF items, sent
    <3>5. /\ Lists(DecodeRegisterPayload(items), items)
          /\ DecodeRegisterPayload(items) # Null
      <4>1. DecodeRegisterPayload(items) \in ObjectListRecords
        BY <3>3, PayloadsAreListed DEF KeptLists
      <4>2. Null \notin ObjectListRecords
        BY NullAssumption
      <4> QED
        BY <3>3, <4>1, <4>2, PayloadsAreListed
    <3>6. IF heard' = Null THEN items = <<>> \/ Characters(items) > Room
                           ELSE Lists(heard', items)
      BY <3>1, <3>4, <3>5
    <3> QED
      BY <3>1, <3>6, Zenon DEF ObjectListArrives, items
  <2>4. CASE Ask \/ Locate \/ Write \/ Read \/ Send
    <3>1. said' = said /\ said.kind # "payload" /\ said.kind # "objects"
      BY <2>4 DEF Ask, Locate, Write, Read, Send, Hears
    <3> QED
      BY <3>1 DEF ObjectListArrives
  <2> QED
    BY <1>2, <2>1, <2>2, <2>3, <2>4 DEF Next
<1> QED
  BY <1>1, <1>2, SaidType, PTL DEF Spec

-----------------------------------------------------------------------------
(* What is said in numbers is heard                                         *)

\* Integers are read back from text as far as a long holds them, from TLV unless a byte
\* behind the first has its first bit set; what is typed is written as the
\* number it means, or refused: for integers of any width.
THEOREM NumbersArrive == Spec => []NumberArrives
<1>1. Init => NumberArrives
  BY DEF Init, NumberArrives
<1>2. ASSUME said \in Said, NumberArrives, [Next]_vars PROVE NumberArrives'
  <2>1. CASE UNCHANGED vars
    BY <1>2, <2>1 DEF NumberArrives, vars
  <2>2. CASE Write
    <3>1. said' = said /\ said.kind = "text" /\ heard' = PlainTextToInt64(said.text)
      BY <2>2 DEF Write, Hears
    <3>2. said.text \in Seq(0..9 \cup {Minus, Other})
      BY <1>2, <3>1, SaidAssumption DEF Said
    <3>3. LET signs == {i \in DOMAIN said.text : said.text[i] = Minus}
              value == Positional(Unsigned(said.text), 10)
          IN  IF \/ said.text = <<>> \/ Other \in Range(said.text)
                 \/ ~ signs \subseteq {1}
              THEN heard' = Refused
              ELSE 2 * value < Modulus => heard' = IF signs = {1} THEN -value ELSE value
      BY <3>1, <3>2, TextIsRead, Zenon
    <3> QED
      BY <3>1, <3>3, Zenon DEF NumberArrives
  <2>3. CASE Read
    <3>1. /\ said' = said /\ said.kind = "number"
          /\ heard' = [text |-> PlainTextToInt64(Int64ToPlainText(said.value)),
                       tlv  |-> OpaqueToInt(IntToTLV(said.value))]
      BY <2>3 DEF Read, Hears
    <3>2. said.value \in Int /\ -Modulus < 2 * said.value /\ 2 * said.value < Modulus
      BY <1>2, <3>1, SaidAssumption DEF Said
    <3>3. /\ Within(heard'.text, LongMod) /\ (said.value - heard'.text) % LongMod = 0
          /\ Within(said.value, LongMod) => heard'.text = said.value
          /\ SignMagnitude(IntToTLV(said.value)) = said.value
          /\ Small(Tail(IntToTLV(said.value))) => heard'.tlv = said.value
      <4>1. heard'.text = Long(said.value)
        BY <3>1, <3>2, TextKeepsIntegers
      <4>2. /\ Within(Long(said.value), LongMod) /\ (said.value - Long(said.value)) % LongMod = 0
            /\ Within(said.value, LongMod) => Long(said.value) = said.value
        BY <3>2, LongTakes
      <4>3. /\ SignMagnitude(IntToTLV(said.value)) = said.value
            /\ Small(Tail(IntToTLV(said.value))) => heard'.tlv = said.value
        BY <3>1, <3>2, BytesKeepIntegers
      <4> QED
        BY <4>1, <4>2, <4>3, Zenon
    <3> QED
      BY <3>1, <3>3, Zenon DEF NumberArrives
  <2>4. CASE Ask \/ Locate \/ Register \/ Announce \/ Send
    <3>1. said' = said /\ said.kind # "number" /\ said.kind # "text"
      BY <2>4 DEF Ask, Locate, Register, Announce, Send, Hears
    <3> QED
      BY <3>1 DEF NumberArrives
  <2> QED
    BY <1>2, <2>1, <2>2, <2>3, <2>4 DEF Next
<1> QED
  BY <1>1, <1>2, SaidType, PTL DEF Spec

\* Records are decoded to what they were made from, unless a byte of their
\* header has its first bit set: for bytes of any width.
THEOREM RecordsArrive == Spec => []RecordArrives
<1>1. Init => RecordArrives
  BY DEF Init, RecordArrives
<1>2. ASSUME said \in Said, RecordArrives, [Next]_vars PROVE RecordArrives'
  <2>1. CASE UNCHANGED vars
    BY <1>2, <2>1 DEF RecordArrives, vars
  <2>2. CASE Send
    <3> DEFINE r == said.record
               h == CreateHeader(r.type, r.id, r.len)
    <3>1. said' = said /\ said.kind = "record" /\ heard' = DecodeTLV(h, r.len)
      BY <2>2, Zenon DEF Send, Hears
    <3>2. /\ r = [type |-> r.type, id |-> r.id, len |-> r.len]
          /\ r.id \in Nat /\ r.id < Power(Base, 2)
          /\ r.len \in Nat /\ r.len < Power(Base, 3)
      <4>1. r \in Records
        BY <1>2, <3>1 DEF Said
      <4> QED
        BY <4>1, SaidAssumption, Zenon
    <3>3. Small(h.id) /\ Small(h.length) => heard' = r
      <4> HIDE DEF r
      <4> QED
        BY <3>1, <3>2, HeadersKeepRecords
    <3> QED
      BY <3>1, <3>3, Zenon DEF RecordArrives
  <2>3. CASE Ask \/ Locate \/ Register \/ Announce \/ Write \/ Read
    <3>1. said' = said /\ said.kind # "record"
      BY <2>3 DEF Ask, Locate, Register, Announce, Write, Read, Hears
    <3> QED
      BY <3>1 DEF RecordArrives
  <2> QED
    BY <1>2, <2>1, <2>2, <2>3 DEF Next
<1> QED
  BY <1>1, <1>2, SaidType, PTL DEF Spec
=============================================================================
