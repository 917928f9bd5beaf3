------------------------- MODULE ObjectTableProofs -------------------------
(***************************************************************************)
(* The table of resources and the memory behind it, for any number of      *)
(* instances and applications, buffers of any size and integers of any     *)
(* width: what a full table looks like, that every resource reads as what  *)
(* was put there, that a write changes one resource, and that the whole    *)
(* object is the sum of its parts.                                         *)
(***************************************************************************)
EXTENDS ObjectTable, ValuesProofs

-----------------------------------------------------------------------------
(* What the two constructors build                                          *)

CallsOf(o) == IF o = "device" THEN DeviceCalls ELSE ApplicationsCalls

InstancesOf(o) == IF o = "device" THEN {0} ELSE 0..(NofApplications - 1)

NofIds(o) == IF o = "device" THEN 17 ELSE 9

Ids(o) == 0..(NofIds(o) - 1)

TypeOf(o, id) ==
    IF id \in (IF o = "device" THEN {0, 1, 2, 3, 14, 15, 16} ELSE {0, 1, 2, 4})
    THEN "STRING" ELSE "INT"

AtOf(o, id) ==
    IF id \in (IF o = "device" THEN {4, 5, 12} ELSE {3, 5, 6}) THEN "E"
    ELSE IF id \in (IF o = "device" THEN {13, 14, 15} ELSE {0, 1, 2, 4}) THEN "RW"
    ELSE "R"

SizeOf(o, id) == IF AtOf(o, id) = "RW" THEN Size ELSE Len(Built[id])

\* The highest index of a resource's values.
LastOf(o, id) == IF o = "device" /\ id \in {6, 7, 8} THEN 2 ELSE 0

BufferName(o, id) ==
    IF o = "device" THEN IF id = 14 THEN "utc_offset" ELSE "time_zone"
    ELSE IF id = 0 THEN "name" ELSE IF id = 1 THEN "version"
    ELSE IF id = 2 THEN "URL" ELSE "args"

IntegerName(o, id) ==
    IF o = "device"
    THEN IF id = 6 THEN "power_sources" ELSE IF id = 7 THEN "ps_voltage"
         ELSE IF id = 8 THEN "ps_current" ELSE IF id = 9 THEN "battery_level"
         ELSE IF id = 10 THEN "memory_free" ELSE IF id = 11 THEN "error_code"
         ELSE "cur_time"
    ELSE IF id = 7 THEN "state" ELSE "error"

\* The value pointer of a resource.
PointerOf(o, id, inst, idx) ==
    IF TypeOf(o, id) = "INT" THEN Integer(inst, IntegerName(o, id), idx)
    ELSE IF AtOf(o, id) = "RW" THEN Buffer(inst, BufferName(o, id))
    ELSE Literal(Built[id])

Adding(o, id) == Add(id, TypeOf(o, id), AtOf(o, id))
Sizing(o, id) == Sized(id, SizeOf(o, id))
Setting(o, id, inst, idx) == Set(id, TypeOf(o, id), inst, idx, PointerOf(o, id, inst, idx))

Readable(o) == {id \in Ids(o) : AtOf(o, id) # "E"}

\* The values of the resources, by resource, instance and index.
ValuesOf(o) ==
    {v \in Readable(o) \X InstancesOf(o) \X (0..2) : v[3] <= LastOf(o, v[1])}

\* The calls that a constructor makes.
Known(o) ==
    {Adding(o, id) : id \in Ids(o)}
    \cup {Sizing(o, id) : id \in {n \in Ids(o) : TypeOf(o, n) = "STRING"}}
    \cup {Setting(o, v[1], v[2], v[3]) : v \in ValuesOf(o)}

\* f counts the resources that were added up to a call: they are added in the
\* order of their identifiers, sized and set later than they were added, and
\* no longer added once a second instance was set.
Counts(s, f) ==
    \A i \in 1..Len(s) :
       IF s[i].call = "add" THEN s[i].id = f[i - 1] /\ f[i] = f[i - 1] + 1
       ELSE /\ s[i].id < f[i - 1] /\ f[i] = f[i - 1]
            /\ s[i].call = "set" /\ s[i].inst # 0 => f[i] >= 9

\* A part of the calls, with a resources before it and b behind it: the calls R.
Chain(o, s, a, b, R) ==
    /\ s \in Seq(Known(o)) /\ Range(s) = R
    /\ \E f \in [0..Len(s) -> Nat] : Counts(s, f) /\ f[0] = a /\ f[Len(s)] = b

LEMMA Chained ==
    ASSUME NEW o, NEW s, NEW t, NEW a, NEW b, NEW c,
           NEW R, NEW Q, Chain(o, s, a, b, R), Chain(o, t, b, c, Q)
    PROVE  Chain(o, s \o t, a, c, R \cup Q)
<1> DEFINE m == Len(s)
           n == Len(t)
           u == s \o t
<1>1. s \in Seq(Known(o)) /\ t \in Seq(Known(o)) /\ m \in Nat /\ n \in Nat
  BY DEF Chain
<1>2. /\ u \in Seq(Known(o)) /\ Len(u) = m + n
      /\ \A i \in 1..(m + n) : u[i] = IF i <= m THEN s[i] ELSE t[i - m]
  BY <1>1, ConcatProperties
<1>3. PICK f \in [0..m -> Nat] : Counts(s, f) /\ f[0] = a /\ f[m] = b
  BY DEF Chain
<1>4. PICK g \in [0..n -> Nat] : Counts(t, g) /\ g[0] = b /\ g[n] = c
  BY DEF Chain
<1> DEFINE h == [i \in 0..(m + n) |-> IF i <= m THEN f[i] ELSE g[i - m]]
<1>5. h \in [0..(m + n) -> Nat] /\ h[0] = a
  BY <1>1, <1>3
<1>6. \A i \in 0..m : h[i] = f[i]
  BY <1>1
<1>7. \A i \in 0..n : h[m + i] = g[i]
  BY <1>1, <1>3, <1>4
<1> HIDE DEF h, m, n, u
<1>8. ASSUME NEW i \in 1..(m + n)
      PROVE  IF u[i].call = "add" THEN u[i].id = h[i - 1] /\ h[i] = h[i - 1] + 1
             ELSE /\ u[i].id < h[i - 1] /\ h[i] = h[i - 1]
                  /\ u[i].call = "set" /\ u[i].inst # 0 => h[i] >= 9
  <2>1. CASE i <= m
    <3>1. i \in 1..m /\ i - 1 \in 0..m /\ i \in 0..m
      BY <1>1, <2>1
    <3>2. u[i] = s[i] /\ h[i] = f[i] /\ h[i - 1] = f[i - 1]
      BY <1>2, <1>6, <2>1, <3>1
    <3> QED
      BY <1>3, <3>1, <3>2 DEF Counts, m
  <2>2. CASE ~ (i <= m)
    <3> DEFINE j == i - m
    <3>1. j \in 1..n /\ j - 1 \in 0..n /\ j \in 0..n /\ m + j = i /\ m + (j - 1) = i - 1
      BY <1>1, <2>2
    <3> HIDE DEF j
    <3>2. u[i] = t[j] /\ h[i] = g[j] /\ h[i - 1] = g[j - 1]
      BY <1>2, <1>7, <2>2, <3>1 DEF j
    <3> QED
      BY <1>4, <3>1, <3>2 DEF Counts, n
  <2> QED
    BY <2>1, <2>2
<1>9. Counts(u, h)
  BY <1>2, <1>8 DEF Counts
<1>10. h[m + n] = c
  BY <1>1, <1>4, <1>7
<1>11. Range(u) = Range(s) \cup Range(t)
  <2>1. DOMAIN u = 1..(m + n) /\ DOMAIN s = 1..m /\ DOMAIN t = 1..n
    BY <1>1, <1>2 DEF m, n
  <2>2. \A i \in 1..m : i \in 1..(m + n) /\ u[i] = s[i]
    BY <1>1, <1>2
  <2>3. \A i \in 1..n : m + i \in 1..(m + n) /\ u[m + i] = t[i]
    BY <1>1, <1>2
  <2>4. \A i \in 1..(m + n) : i \in 1..m \/ (i - m \in 1..n /\ u[i] = t[i - m])
    BY <1>1, <1>2
  <2> QED
    BY <2>1, <2>2, <2>3, <2>4 DEF Range
<1>12. Range(s) = R /\ Range(t) = Q
  BY DEF Chain
<1>13. Chain(o, u, a, c, R \cup Q)
  BY <1>2, <1>5, <1>9, <1>10, <1>11, <1>12 DEF Chain
<1> QED
  BY <1>13 DEF u

\* The parts of newObjectDevice.
LEMMA DeviceString ==
    ASSUME NEW id \in {0, 1, 2, 3, 14, 15, 16}
    PROVE  LET s == IF id \in {14, 15} THEN AddStringRW(id, BufferName("device", id))
                                       ELSE AddString(id)
           IN  Chain("device", s, id, id + 1, {Adding("device", id), Sizing("device", id),
                                               Setting("device", id, 0, 0)})
<1> DEFINE o == "device"
           s == IF id \in {14, 15} THEN AddStringRW(id, BufferName(o, id)) ELSE AddString(id)
           f == [i \in 0..3 |-> IF i = 0 THEN id ELSE id + 1]
<1>1. /\ TypeOf(o, id) = "STRING" /\ AtOf(o, id) # "E" /\ LastOf(o, id) = 0
      /\ id \in Ids(o) /\ id \in Nat
  BY DEF TypeOf, AtOf, LastOf, Ids, NofIds
<1>2. s = <<Adding(o, id), Sizing(o, id), Setting(o, id, 0, 0)>>
  BY DEF AddString, AddStringRW, Adding, Sizing, Setting, SizeOf, PointerOf, TypeOf, AtOf
<1>3. /\ Adding(o, id).call = "add" /\ Adding(o, id).id = id
      /\ Sizing(o, id).call = "size" /\ Sizing(o, id).id = id
      /\ Setting(o, id, 0, 0).call = "set" /\ Setting(o, id, 0, 0).id = id
      /\ Setting(o, id, 0, 0).inst = 0
  BY DEF Adding, Add, Sizing, Sized, Setting, Set
<1>4. {Adding(o, id), Sizing(o, id), Setting(o, id, 0, 0)} \subseteq Known(o)
  <2>1. <<id, 0, 0>> \in ValuesOf(o)
    BY <1>1 DEF ValuesOf, Readable, InstancesOf
  <2> QED
    BY <1>1, <2>1 DEF Known
<1> HIDE DEF o, s
<1>5. s \in Seq(Known(o)) /\ Len(s) = 3
  BY <1>2, <1>4
<1>6. f \in [0..3 -> Nat] /\ f[0] = id /\ f[1] = id + 1 /\ f[2] = id + 1 /\ f[3] = id + 1
  BY <1>1
<1> HIDE DEF f
<1>7. Counts(s, f)
  <2>1. s[1] = Adding(o, id) /\ s[2] = Sizing(o, id) /\ s[3] = Setting(o, id, 0, 0)
    BY <1>2
  <2> QED
    BY <1>1, <1>3, <1>5, <1>6, <2>1 DEF Counts
<1>8. Range(s) = {Adding(o, id), Sizing(o, id), Setting(o, id, 0, 0)}
  BY <1>2 DEF Range
<1>9. Chain(o, s, id, id + 1, {Adding(o, id), Sizing(o, id), Setting(o, id, 0, 0)})
  BY <1>5, <1>6, <1>7, <1>8 DEF Chain
<1> QED
  BY <1>9 DEF o, s

LEMMA DeviceInt ==
    ASSUME NEW id \in {9, 10, 11, 13}
    PROVE  LET s == AddInt(id, AtOf("device", id), IntegerName("device", id))
           IN  Chain("device", s, id, id + 1, {Adding("device", id), Setting("device", id, 0, 0)})
<1> DEFINE o == "device"
           s == AddInt(id, AtOf(o, id), IntegerName(o, id))
           f == [i \in 0..2 |-> IF i = 0 THEN id ELSE id + 1]
<1>1. /\ TypeOf(o, id) = "INT" /\ AtOf(o, id) # "E" /\ LastOf(o, id) = 0
      /\ id \in Ids(o) /\ id \in Nat
  BY DEF TypeOf, AtOf, LastOf, Ids, NofIds
<1>2. s = <<Adding(o, id), Setting(o, id, 0, 0)>>
  BY <1>1 DEF AddInt, Adding, Setting, PointerOf
<1>3. /\ Adding(o, id).call = "add" /\ Adding(o, id).id = id
      /\ Setting(o, id, 0, 0).call = "set" /\ Setting(o, id, 0, 0).id = id
      /\ Setting(o, id, 0, 0).inst = 0
  BY DEF Adding, Add, Setting, Set
<1>4. {Adding(o, id), Setting(o, id, 0, 0)} \subseteq Known(o)
  <2>1. <<id, 0, 0>> \in ValuesOf(o)
    BY <1>1 DEF ValuesOf, Readable, InstancesOf
  <2> QED
    BY <1>1, <2>1 DEF Known
<1> HIDE DEF o, s
<1>5. s \in Seq(Known(o)) /\ Len(s) = 2
  BY <1>2, <1>4
<1>6. f \in [0..2 -> Nat] /\ f[0] = id /\ f[1] = id + 1 /\ f[2] = id + 1
  BY <1>1
<1> HIDE DEF f
<1>7. Counts(s, f)
  <2>1. s[1] = Adding(o, id) /\ s[2] = Setting(o, id, 0, 0)
    BY <1>2
  <2> QED
    BY <1>1, <1>3, <1>5, <1>6, <2>1 DEF Counts
<1>8. Range(s) = {Adding(o, id), Setting(o, id, 0, 0)}
  BY <1>2 DEF Range
<1>9. Chain(o, s, id, id + 1, {Adding(o, id), Setting(o, id, 0, 0)})
  BY <1>5, <1>6, <1>7, <1>8 DEF Chain
<1> QED
  BY <1>9 DEF o, s

LEMMA DeviceSources ==
    ASSUME NEW k \in 0..2
    PROVE  LET s == <<Setting("device", 6, 0, k), Setting("device", 7, 0, k),
                      Setting("device", 8, 0, k)>>
           IN  /\ s = <<Set(6, "INT", 0, k, Integer(0, "power_sources", k)),
                        Set(7, "INT", 0, k, Integer(0, "ps_voltage", k)),
                        Set(8, "INT", 0, k, Integer(0, "ps_current", k))>>
               /\ Chain("device", s, 9, 9, {Setting("device", id, 0, k) : id \in {6, 7, 8}})
<1> DEFINE o == "device"
           s == <<Setting(o, 6, 0, k), Setting(o, 7, 0, k), Setting(o, 8, 0, k)>>
           f == [i \in 0..3 |-> 9]
<1>1. /\ Setting(o, 6, 0, k) = Set(6, "INT", 0, k, Integer(0, "power_sources", k))
      /\ Setting(o, 7, 0, k) = Set(7, "INT", 0, k, Integer(0, "ps_voltage", k))
      /\ Setting(o, 8, 0, k) = Set(8, "INT", 0, k, Integer(0, "ps_current", k))
  BY DEF Setting, TypeOf, PointerOf, IntegerName
<1>2. ASSUME NEW id \in {6, 7, 8}
      PROVE  /\ Setting(o, id, 0, k).call = "set" /\ Setting(o, id, 0, k).id = id
             /\ Setting(o, id, 0, k).inst = 0 /\ Setting(o, id, 0, k) \in Known(o)
  <2>1. <<id, 0, k>> \in ValuesOf(o)
    BY DEF ValuesOf, Readable, InstancesOf, AtOf, LastOf, Ids, NofIds
  <2> QED
    BY <2>1 DEF Known, Setting, Set
<1>3. s \in Seq(Known(o)) /\ Len(s) = 3
  BY <1>2
<1>4. Counts(s, f) /\ f \in [0..3 -> Nat] /\ f[0] = 9 /\ f[3] = 9
  <2>1. s[1] = Setting(o, 6, 0, k) /\ s[2] = Setting(o, 7, 0, k) /\ s[3] = Setting(o, 8, 0, k)
    OBVIOUS
  <2>2. /\ f \in [0..3 -> Nat] /\ f[0] = 9 /\ f[3] = 9
        /\ \A i \in 1..3 : f[i] = 9 /\ f[i - 1] = 9
    OBVIOUS
  <2> HIDE DEF s, f
  <2> QED
    BY <1>2, <1>3, <2>1, <2>2 DEF Counts
<1>5. Range(s) = {Setting(o, id, 0, k) : id \in {6, 7, 8}}
  BY DEF Range
<1>6. Chain(o, s, 9, 9, {Setting(o, id, 0, k) : id \in {6, 7, 8}})
  <2> HIDE DEF s, f
  <2> QED
    BY <1>3, <1>4, <1>5 DEF Chain
<1> QED
  BY <1>1, <1>6

\* Texts whose values are set later.
LEMMA AddedAndSized ==
    ASSUME NEW o \in {"device", "applications"}, NEW id \in Ids(o), TypeOf(o, id) = "STRING"
    PROVE  Chain(o, <<Adding(o, id), Sizing(o, id)>>, id, id + 1, {Adding(o, id), Sizing(o, id)})
<1> DEFINE s == <<Adding(o, id), Sizing(o, id)>>
           f == [i \in 0..2 |-> IF i = 0 THEN id ELSE id + 1]
<1>1. /\ Adding(o, id).call = "add" /\ Adding(o, id).id = id
      /\ Sizing(o, id).call = "size" /\ Sizing(o, id).id = id
      /\ Adding(o, id) \in Known(o) /\ Sizing(o, id) \in Known(o) /\ id \in Nat
  BY DEF Adding, Add, Sizing, Sized, Known, Ids, NofIds
<1>2. s \in Seq(Known(o)) /\ Len(s) = 2 /\ s[1] = Adding(o, id) /\ s[2] = Sizing(o, id)
  BY <1>1
<1>3. f \in [0..2 -> Nat] /\ f[0] = id /\ f[1] = id + 1 /\ f[2] = id + 1
  BY <1>1
<1>4. Range(s) = {Adding(o, id), Sizing(o, id)}
  BY DEF Range
<1> HIDE DEF s, f
<1>5. Counts(s, f)
  BY <1>1, <1>2, <1>3 DEF Counts
<1> QED
  BY <1>2, <1>3, <1>4, <1>5 DEF Chain, s

\* Resources that are only added.
LEMMA AddedInARow ==
    ASSUME NEW o \in {"device", "applications"}, NEW a \in Nat, NEW n \in Nat,
           a + n <= NofIds(o), NEW s, s = [i \in 1..n |-> Adding(o, a + i - 1)]
    PROVE  Chain(o, s, a, a + n, {Adding(o, id) : id \in a..(a + n - 1)})
<1> DEFINE f == [i \in 0..n |-> a + i]
<1>1. \A id \in a..(a + n - 1) : /\ Adding(o, id).call = "add" /\ Adding(o, id).id = id
                                 /\ Adding(o, id) \in Known(o)
  BY DEF Adding, Add, Known, Ids, NofIds
<1>2. \A i \in 1..n : a + i - 1 \in a..(a + n - 1)
  OBVIOUS
<1>3. s \in Seq(Known(o)) /\ Len(s) = n
  BY <1>1, <1>2
<1>4. /\ f \in [0..n -> Nat] /\ f[0] = a /\ f[n] = a + n
      /\ \A i \in 1..n : f[i] = a + i /\ f[i - 1] = a + i - 1
  OBVIOUS
<1> HIDE DEF f
<1>5. Counts(s, f)
  BY <1>1, <1>2, <1>3, <1>4 DEF Counts
<1>6. Range(s) = {Adding(o, id) : id \in a..(a + n - 1)}
  <2>1. \A id \in a..(a + n - 1) : id - a + 1 \in 1..n /\ a + (id - a + 1) - 1 = id
    OBVIOUS
  <2>2. DOMAIN s = 1..n
    OBVIOUS
  <2> QED
    BY <1>2, <2>1, <2>2 DEF Range
<1> QED
  BY <1>3, <1>4, <1>5, <1>6 DEF Chain

LEMMA AddedAlone ==
    ASSUME NEW o \in {"device", "applications"}, NEW id \in Ids(o)
    PROVE  Chain(o, <<Adding(o, id)>>, id, id + 1, {Adding(o, id)})
<1> DEFINE s == <<Adding(o, id)>>
<1>1. id \in Nat /\ id + 1 <= NofIds(o)
  BY DEF Ids, NofIds
<1>2. s = [i \in 1..1 |-> Adding(o, id + i - 1)]
  BY <1>1
<1>3. {Adding(o, n) : n \in id..(id + 1 - 1)} = {Adding(o, id)}
  BY <1>1
<1> HIDE DEF s
<1>4. Chain(o, s, id, id + 1, {Adding(o, n) : n \in id..(id + 1 - 1)})
  BY <1>1, <1>2, AddedInARow
<1> QED
  BY <1>3, <1>4 DEF s

LEMMA DeviceChain ==
    /\ Chain("device", DeviceCalls, 0, 17, Range(DeviceCalls))
    /\ \A id \in Ids("device") : Adding("device", id) \in Range(DeviceCalls)
    /\ \A id \in {0, 1, 2, 3, 14, 15, 16} : Sizing("device", id) \in Range(DeviceCalls)
    /\ \A id \in {0, 1, 2, 3, 9, 10, 11, 13, 14, 15, 16} :
          Setting("device", id, 0, 0) \in Range(DeviceCalls)
    /\ \A id \in {6, 7, 8}, k \in 0..2 : Setting("device", id, 0, k) \in Range(DeviceCalls)
<1> DEFINE o == "device"
           adds == <<Add(4, "INT", "E"), Add(5, "INT", "E"),
                     Add(6, "INT", "R"), Add(7, "INT", "R"), Add(8, "INT", "R")>>
           sources(k) == <<Set(6, "INT", 0, k, Integer(0, "power_sources", k)),
                           Set(7, "INT", 0, k, Integer(0, "ps_voltage", k)),
                           Set(8, "INT", 0, k, Integer(0, "ps_current", k))>>
           s0 == AddString(0)
           s1 == s0 \o AddString(1)
           s2 == s1 \o AddString(2)
           s3 == s2 \o AddString(3)
           s4 == s3 \o adds
           s5 == s4 \o sources(0)
           s6 == s5 \o sources(1)
           s7 == s6 \o sources(2)
           s9 == s7 \o AddInt(9, "R", "battery_level")
           s10 == s9 \o AddInt(10, "R", "memory_free")
           s11 == s10 \o AddInt(11, "R", "error_code")
           s12 == s11 \o <<Add(12, "INT", "E")>>
           s13 == s12 \o AddInt(13, "RW", "cur_time")
           s14 == s13 \o AddStringRW(14, "utc_offset")
           s15 == s14 \o AddStringRW(15, "time_zone")
           s16 == s15 \o AddString(16)
           three(id) == {Adding(o, id), Sizing(o, id), Setting(o, id, 0, 0)}
           two(id) == {Adding(o, id), Setting(o, id, 0, 0)}
           powers(k) == {Setting(o, id, 0, k) : id \in {6, 7, 8}}
           adding == {Adding(o, id) : id \in 4..8}
           r0 == three(0)
           r1 == r0 \cup three(1)
           r2 == r1 \cup three(2)
           r3 == r2 \cup three(3)
           r4 == r3 \cup adding
           r5 == r4 \cup powers(0)
           r6 == r5 \cup powers(1)
           r7 == r6 \cup powers(2)
           r9 == r7 \cup two(9)
           r10 == r9 \cup two(10)
           r11 == r10 \cup two(11)
           r12 == r11 \cup {Adding(o, 12)}
           r13 == r12 \cup two(13)
           r14 == r13 \cup three(14)
           r15 == r14 \cup three(15)
           r16 == r15 \cup three(16)
<1>1. DeviceCalls = s16
  BY DEF DeviceCalls
<1>2. \A id \in {0, 1, 2, 3, 16} :
         Chain(o, AddString(id), id, id + 1, three(id))
  BY DeviceString
<1>3. Chain(o, AddStringRW(14, "utc_offset"), 14, 15, three(14))
  <2>1. BufferName(o, 14) = "utc_offset"
    BY DEF BufferName
  <2> QED
    BY <2>1, DeviceString
<1>4. Chain(o, AddStringRW(15, "time_zone"), 15, 16, three(15))
  <2>1. BufferName(o, 15) = "time_zone"
    BY DEF BufferName
  <2> QED
    BY <2>1, DeviceString
<1>5. Chain(o, adds, 4, 9, adding)
  <2>1. /\ Add(4, "INT", "E") = Adding(o, 4) /\ Add(5, "INT", "E") = Adding(o, 5)
        /\ Add(6, "INT", "R") = Adding(o, 6) /\ Add(7, "INT", "R") = Adding(o, 7)
        /\ Add(8, "INT", "R") = Adding(o, 8)
    BY DEF Adding, TypeOf, AtOf
  <2>2. adds = [i \in 1..5 |-> Adding(o, 4 + i - 1)]
    BY <2>1
  <2> HIDE DEF adds
  <2>3. Chain(o, adds, 4, 4 + 5, {Adding(o, id) : id \in 4..(4 + 5 - 1)})
    <3>1. 4 + 5 <= NofIds(o)
      BY DEF NofIds
    <3> QED
      BY <2>2, <3>1, AddedInARow
  <2> QED
    BY <2>3
<1>6. \A k \in 0..2 : Chain(o, sources(k), 9, 9, powers(k))
  <2> TAKE k \in 0..2
  <2> DEFINE t == <<Setting(o, 6, 0, k), Setting(o, 7, 0, k), Setting(o, 8, 0, k)>>
  <2>1. t = sources(k) /\ Chain(o, t, 9, 9, powers(k))
    BY DeviceSources
  <2> QED
    BY <2>1
<1>7. Chain(o, AddInt(9, "R", "battery_level"), 9, 10, two(9))
  <2>1. AtOf(o, 9) = "R" /\ IntegerName(o, 9) = "battery_level"
    BY DEF AtOf, IntegerName
  <2> QED
    BY <2>1, DeviceInt
<1>8. Chain(o, AddInt(10, "R", "memory_free"), 10, 11, two(10))
  <2>1. AtOf(o, 10) = "R" /\ IntegerName(o, 10) = "memory_free"
    BY DEF AtOf, IntegerName
  <2> QED
    BY <2>1, DeviceInt
<1>9. Chain(o, AddInt(11, "R", "error_code"), 11, 12, two(11))
  <2>1. AtOf(o, 11) = "R" /\ IntegerName(o, 11) = "error_code"
    BY DEF AtOf, IntegerName
  <2> QED
    BY <2>1, DeviceInt
<1>10. Chain(o, AddInt(13, "RW", "cur_time"), 13, 14, two(13))
  <2>1. AtOf(o, 13) = "RW" /\ IntegerName(o, 13) = "cur_time"
    BY DEF AtOf, IntegerName
  <2> QED
    BY <2>1, DeviceInt
<1>11. Chain(o, <<Add(12, "INT", "E")>>, 12, 13, {Adding(o, 12)})
  <2>1. Add(12, "INT", "E") = Adding(o, 12) /\ 12 \in Ids(o)
    BY DEF Adding, TypeOf, AtOf, Ids, NofIds
  <2> QED
    BY <2>1, AddedAlone
<1> HIDE DEF o, adds, sources, three, two, powers, adding
<1>20. Chain(o, s0, 0, 1, r0)
  BY <1>2
<1> HIDE DEF s0, r0
<1>21. Chain(o, s1, 0, 2, r1)
  <2>1. Chain(o, AddString(1), 1, 2, three(1))
    BY <1>2
  <2> QED
    BY <1>20, <2>1, Chained
<1> HIDE DEF s1, r1
<1>22. Chain(o, s2, 0, 3, r2)
  <2>1. Chain(o, AddString(2), 2, 3, three(2))
    BY <1>2
  <2> QED
    BY <1>21, <2>1, Chained
<1> HIDE DEF s2, r2
<1>23. Chain(o, s3, 0, 4, r3)
  <2>1. Chain(o, AddString(3), 3, 4, three(3))
    BY <1>2
  <2> QED
    BY <1>22, <2>1, Chained
<1> HIDE DEF s3, r3
<1>24. Chain(o, s4, 0, 9, r4)
  <2>1. Chain(o, adds, 4, 9, adding)
    BY <1>5
  <2> QED
    BY <1>23, <2>1, Chained
<1> HIDE DEF s4, r4
<1>25. Chain(o, s5, 0, 9, r5)
  <2>1. Chain(o, sources(0), 9, 9, powers(0))
    BY <1>6
  <2> QED
    BY <1>24, <2>1, Chained
<1> HIDE DEF s5, r5
<1>26. Chain(o, s6, 0, 9, r6)
  <2>1. Chain(o, sources(1), 9, 9, powers(1))
    BY <1>6
  <2> QED
    BY <1>25, <2>1, Chained
<1> HIDE DEF s6, r6
<1>27. Chain(o, s7, 0, 9, r7)
  <2>1. Chain(o, sources(2), 9, 9, powers(2))
    BY <1>6
  <2> QED
    BY <1>26, <2>1, Chained
<1> HIDE DEF s7, r7
<1>28. Chain(o, s9, 0, 10, r9)
  <2>1. Chain(o, AddInt(9, "R", "battery_level"), 9, 10, two(9))
    BY <1>7
  <2> QED
    BY <1>27, <2>1, Chained
<1> HIDE DEF s9, r9
<1>29. Chain(o, s10, 0, 11, r10)
  <2>1. Chain(o, AddInt(10, "R", "memory_free"), 10, 11, two(10))
    BY <1>8
  <2> QED
    BY <1>28, <2>1, Chained
<1> HIDE DEF s10, r10
<1>30. Chain(o, s11, 0, 12, r11)
  <2>1. Chain(o, AddInt(11, "R", "error_code"), 11, 12, two(11))
    BY <1>9
  <2> QED
    BY <1>29, <2>1, Chained
<1> HIDE DEF s11, r11
<1>31. Chain(o, s12, 0, 13, r12)
  <2>1. Chain(o, <<Add(12, "INT", "E")>>, 12, 13, {Adding(o, 12)})
    BY <1>11
  <2> QED
    BY <1>30, <2>1, Chained
<1> HIDE DEF s12, r12
<1>32. Chain(o, s13, 0, 14, r13)
  <2>1. Chain(o, AddInt(13, "RW", "cur_time"), 13, 14, two(13))
    BY <1>10
  <2> QED
    BY <1>31, <2>1, Chained
<1> HIDE DEF s13, r13
<1>33. Chain(o, s14, 0, 15, r14)
  <2>1. Chain(o, AddStringRW(14, "utc_offset"), 14, 15, three(14))
    BY <1>3
  <2> QED
    BY <1>32, <2>1, Chained
<1> HIDE DEF s14, r14
<1>34. Chain(o, s15, 0, 16, r15)
  <2>1. Chain(o, AddStringRW(15, "time_zone"), 15, 16, three(15))
    BY <1>4
  <2> QED
    BY <1>33, <2>1, Chained
<1> HIDE DEF s15, r15
<1>35. Chain(o, s16, 0, 17, r16)
  <2>1. Chain(o, AddString(16), 16, 17, three(16))
    BY <1>2
  <2> QED
    BY <1>34, <2>1, Chained
<1> HIDE DEF s16, r16
<1>36. /\ r16 = r12 \cup two(13) \cup three(14) \cup three(15) \cup three(16)
       /\ r12 = r7 \cup two(9) \cup two(10) \cup two(11) \cup {Adding(o, 12)}
       /\ r7 = r3 \cup adding \cup powers(0) \cup powers(1) \cup powers(2)
       /\ r3 = three(0) \cup three(1) \cup three(2) \cup three(3)
  BY DEF r16, r15, r14, r13, r12, r11, r10, r9, r7, r6, r5, r4, r3, r2, r1, r0
<1>37. /\ \A id \in {0, 1, 2, 3, 14, 15, 16} : three(id) \subseteq r16
       /\ \A id \in {9, 10, 11, 13} : two(id) \subseteq r16
       /\ adding \subseteq r16 /\ Adding(o, 12) \in r16
       /\ \A k \in 0..2 : powers(k) \subseteq r16
  <2>1. r3 \subseteq r16 /\ r7 \subseteq r16 /\ r12 \subseteq r16
    BY <1>36
  <2>2. /\ three(0) \subseteq r16 /\ three(1) \subseteq r16 /\ three(2) \subseteq r16
        /\ three(3) \subseteq r16 /\ three(14) \subseteq r16 /\ three(15) \subseteq r16
        /\ three(16) \subseteq r16
    BY <1>36
  <2>3. /\ two(9) \subseteq r16 /\ two(10) \subseteq r16 /\ two(11) \subseteq r16
        /\ two(13) \subseteq r16 /\ adding \subseteq r16 /\ Adding(o, 12) \in r16
    BY <1>36
  <2>4. powers(0) \subseteq r16 /\ powers(1) \subseteq r16 /\ powers(2) \subseteq r16
    BY <1>36
  <2>5. \A k \in 0..2 : k = 0 \/ k = 1 \/ k = 2
    OBVIOUS
  <2>6. \A k \in 0..2 : powers(k) \subseteq r16
    BY <2>4, <2>5
  <2> QED
    BY <2>2, <2>3, <2>6
<1>38. \A id \in Ids(o) : Adding(o, id) \in r16
  <2>1. \A id \in Ids(o) : \/ id \in {0, 1, 2, 3, 14, 15, 16} \/ id \in {9, 10, 11, 13}
                           \/ id \in 4..8 \/ id = 12
    BY DEF Ids, NofIds, o
  <2>2. \A id \in {0, 1, 2, 3, 14, 15, 16} : Adding(o, id) \in r16
    BY <1>37 DEF three
  <2>3. \A id \in {9, 10, 11, 13} : Adding(o, id) \in r16
    BY <1>37 DEF two
  <2>4. \A id \in 4..8 : Adding(o, id) \in r16
    BY <1>37 DEF adding
  <2> QED
    BY <1>37, <2>1, <2>2, <2>3, <2>4
<1>39. /\ \A id \in {0, 1, 2, 3, 14, 15, 16} : Sizing(o, id) \in r16
       /\ \A id \in {0, 1, 2, 3, 9, 10, 11, 13, 14, 15, 16} : Setting(o, id, 0, 0) \in r16
       /\ \A id \in {6, 7, 8}, k \in 0..2 : Setting(o, id, 0, k) \in r16
  BY <1>37 DEF three, two, powers
<1>40. Range(DeviceCalls) = r16
  BY <1>1, <1>35 DEF Chain
<1> QED
  BY <1>1, <1>35, <1>38, <1>39, <1>40 DEF o

\* The six values of each application.
LEMMA ApplicationsValues ==
    LET instance(j) == <<Set(0, "STRING", j, 0, Buffer(j, "name")),
                         Set(1, "STRING", j, 0, Buffer(j, "version")),
                         Set(2, "STRING", j, 0, Buffer(j, "URL")),
                         Set(4, "STRING", j, 0, Buffer(j, "args")),
                         Set(7, "INT", j, 0, Integer(j, "state", 0)),
                         Set(8, "INT", j, 0, Integer(j, "error", 0))>>
        s == [i \in 1..(6 * NofApplications) |-> instance((i - 1) \div 6)[((i - 1) % 6) + 1]]
        R == {Setting("applications", v[1], v[2], 0) :
                 v \in {0, 1, 2, 4, 7, 8} \X (0..(NofApplications - 1))}
    IN  Chain("applications", s, 9, 9, R)
<1> DEFINE o == "applications"
           N == NofApplications
           instance(j) == <<Set(0, "STRING", j, 0, Buffer(j, "name")),
                            Set(1, "STRING", j, 0, Buffer(j, "version")),
                            Set(2, "STRING", j, 0, Buffer(j, "URL")),
                            Set(4, "STRING", j, 0, Buffer(j, "args")),
                            Set(7, "INT", j, 0, Integer(j, "state", 0)),
                            Set(8, "INT", j, 0, Integer(j, "error", 0))>>
           s == [i \in 1..(6 * N) |-> instance((i - 1) \div 6)[((i - 1) % 6) + 1]]
           places == {0, 1, 2, 4, 7, 8} \X (0..(N - 1))
           R == {Setting(o, v[1], v[2], 0) : v \in places}
           f == [i \in 0..(6 * N) |-> 9]
           order == <<0, 1, 2, 4, 7, 8>>
<1>1. N \in Nat
  BY TableAssumption
<1>2. \A j : \A k \in 1..6 : instance(j)[k] = Setting(o, order[k], j, 0)
  <2> TAKE j
  <2>1. /\ instance(j)[1] = Setting(o, 0, j, 0) /\ instance(j)[2] = Setting(o, 1, j, 0)
        /\ instance(j)[3] = Setting(o, 2, j, 0) /\ instance(j)[4] = Setting(o, 4, j, 0)
        /\ instance(j)[5] = Setting(o, 7, j, 0) /\ instance(j)[6] = Setting(o, 8, j, 0)
    BY DEF Setting, TypeOf, AtOf, PointerOf, BufferName, IntegerName
  <2>2. /\ order[1] = 0 /\ order[2] = 1 /\ order[3] = 2
        /\ order[4] = 4 /\ order[5] = 7 /\ order[6] = 8
    OBVIOUS
  <2>3. \A k \in 1..6 : k = 1 \/ k = 2 \/ k = 3 \/ k = 4 \/ k = 5 \/ k = 6
    OBVIOUS
  <2> HIDE DEF instance, order
  <2> QED
    BY <2>1, <2>2, <2>3
<1>3. /\ \A k \in 1..6 : order[k] \in {0, 1, 2, 4, 7, 8}
      /\ \A id \in {0, 1, 2, 4, 7, 8} : \E k \in 1..6 : order[k] = id
  <2>1. /\ order[1] = 0 /\ order[2] = 1 /\ order[3] = 2
        /\ order[4] = 4 /\ order[5] = 7 /\ order[6] = 8
    OBVIOUS
  <2> HIDE DEF order
  <2> QED
    BY <2>1
<1> HIDE DEF instance, order
<1>4. ASSUME NEW i \in 1..(6 * N)
      PROVE  /\ (i - 1) \div 6 \in 0..(N - 1) /\ ((i - 1) % 6) + 1 \in 1..6
             /\ s[i] = Setting(o, order[((i - 1) % 6) + 1], (i - 1) \div 6, 0)
  <2>1. (i - 1) \div 6 \in 0..(N - 1) /\ ((i - 1) % 6) + 1 \in 1..6
    BY <1>1
  <2>2. s[i] = instance((i - 1) \div 6)[((i - 1) % 6) + 1]
    OBVIOUS
  <2> HIDE DEF s
  <2> QED
    BY <1>2, <2>1, <2>2
<1>5. \A v \in places : /\ Setting(o, v[1], v[2], 0) \in Known(o)
                        /\ Setting(o, v[1], v[2], 0).call = "set"
                        /\ Setting(o, v[1], v[2], 0).id = v[1] /\ v[1] \in 0..8
  <2> TAKE v \in places
  <2>1. v[1] \in {0, 1, 2, 4, 7, 8} /\ v[2] \in 0..(N - 1)
    OBVIOUS
  <2>2. <<v[1], v[2], 0>> \in ValuesOf(o)
    BY <2>1 DEF ValuesOf, Readable, InstancesOf, AtOf, LastOf, Ids, NofIds
  <2> QED
    BY <2>1, <2>2 DEF Known, Setting, Set
<1>6. \A i \in 1..(6 * N) : \E v \in places : s[i] = Setting(o, v[1], v[2], 0)
  <2> TAKE i \in 1..(6 * N)
  <2> DEFINE v == <<order[((i - 1) % 6) + 1], (i - 1) \div 6>>
  <2>1. v \in places /\ s[i] = Setting(o, v[1], v[2], 0)
    BY <1>3, <1>4
  <2> QED
    BY <2>1
<1>7. \A v \in places : \E i \in 1..(6 * N) : s[i] = Setting(o, v[1], v[2], 0)
  <2> TAKE v \in places
  <2>1. v[1] \in {0, 1, 2, 4, 7, 8} /\ v[2] \in 0..(N - 1)
    OBVIOUS
  <2>2. PICK k \in 1..6 : order[k] = v[1]
    BY <1>3, <2>1
  <2> DEFINE j == v[2]
             i == 6 * j + k
  <2>3. i \in 1..(6 * N) /\ (i - 1) \div 6 = j /\ ((i - 1) % 6) + 1 = k
    <3>1. j \in Int /\ 0 <= j /\ j <= N - 1 /\ k \in 1..6
      BY <1>1, <2>1, <2>2
    <3> HIDE DEF j
    <3> QED
      BY <1>1, <3>1
  <2> HIDE DEF i
  <2>4. s[i] = Setting(o, order[k], j, 0)
    BY <1>4, <2>3
  <2> QED
    BY <2>2, <2>3, <2>4
<1>8. DOMAIN s = 1..(6 * N) /\ 6 * N \in Nat /\ s = [i \in 1..(6 * N) |-> s[i]]
  BY <1>1
<1>9. f \in [0..(6 * N) -> Nat] /\ f[0] = 9 /\ f[6 * N] = 9
      /\ \A i \in 1..(6 * N) : f[i] = 9 /\ f[i - 1] = 9
  BY <1>8
<1> HIDE DEF s, f, R, places
<1>10. s \in Seq(Known(o)) /\ Len(s) = 6 * N
  BY <1>5, <1>6, <1>8
<1>11. Counts(s, f)
  <2>1. ASSUME NEW i \in 1..(6 * N)
        PROVE  s[i].call = "set" /\ s[i].id \in 0..8
    BY <1>5, <1>6
  <2>2. ASSUME NEW i \in 1..Len(s)
        PROVE  s[i].call = "set" /\ s[i].id \in 0..8 /\ f[i] = 9 /\ f[i - 1] = 9
    BY <1>9, <1>10, <2>1
  <2> QED
    BY <2>2 DEF Counts
<1>12. Range(s) = R
  BY <1>6, <1>7, <1>8 DEF Range, R
<1>13. Chain(o, s, 9, 9, R)
  BY <1>9, <1>10, <1>11, <1>12 DEF Chain
<1> QED
  BY <1>13 DEF o, s, R, places, instance

LEMMA ApplicationsChain ==
    /\ Chain("applications", ApplicationsCalls, 0, 9, Range(ApplicationsCalls))
    /\ \A id \in Ids("applications") : Adding("applications", id) \in Range(ApplicationsCalls)
    /\ \A id \in {0, 1, 2, 4} : Sizing("applications", id) \in Range(ApplicationsCalls)
    /\ \A id \in {0, 1, 2, 4, 7, 8}, j \in 0..(NofApplications - 1) :
          Setting("applications", id, j, 0) \in Range(ApplicationsCalls)
<1> DEFINE o == "applications"
           text(id) == <<Add(id, "STRING", "RW"), Sized(id, Size)>>
           adds == <<Add(5, "INT", "E"), Add(6, "INT", "E"), Add(7, "INT", "R"), Add(8, "INT", "R")>>
           instance(j) == <<Set(0, "STRING", j, 0, Buffer(j, "name")),
                            Set(1, "STRING", j, 0, Buffer(j, "version")),
                            Set(2, "STRING", j, 0, Buffer(j, "URL")),
                            Set(4, "STRING", j, 0, Buffer(j, "args")),
                            Set(7, "INT", j, 0, Integer(j, "state", 0)),
                            Set(8, "INT", j, 0, Integer(j, "error", 0))>>
           sets == [i \in 1..(6 * NofApplications) |-> instance((i - 1) \div 6)[((i - 1) % 6) + 1]]
           s0 == text(0)
           s1 == s0 \o text(1)
           s2 == s1 \o text(2)
           s3 == s2 \o <<Add(3, "INT", "E")>>
           s4 == s3 \o text(4)
           s8 == s4 \o adds
           s9 == s8 \o sets
           two(id) == {Adding(o, id), Sizing(o, id)}
           adding == {Adding(o, id) : id \in 5..8}
           values == {Setting(o, v[1], v[2], 0) : v \in {0, 1, 2, 4, 7, 8} \X (0..(NofApplications - 1))}
           r0 == two(0)
           r1 == r0 \cup two(1)
           r2 == r1 \cup two(2)
           r3 == r2 \cup {Adding(o, 3)}
           r4 == r3 \cup two(4)
           r8 == r4 \cup adding
           r9 == r8 \cup values
<1>1. ApplicationsCalls = s9
  BY DEF ApplicationsCalls
<1>2. ASSUME NEW id \in {0, 1, 2, 4}
      PROVE  Chain(o, text(id), id, id + 1, two(id))
  <2>1. text(id) = <<Adding(o, id), Sizing(o, id)>>
    BY DEF Adding, Sizing, TypeOf, AtOf, SizeOf
  <2>2. id \in Ids(o) /\ TypeOf(o, id) = "STRING"
    BY DEF Ids, NofIds, TypeOf
  <2> HIDE DEF text
  <2> QED
    BY <2>1, <2>2, AddedAndSized
<1>3. Chain(o, adds, 5, 9, adding)
  <2>1. /\ Add(5, "INT", "E") = Adding(o, 5) /\ Add(6, "INT", "E") = Adding(o, 6)
        /\ Add(7, "INT", "R") = Adding(o, 7) /\ Add(8, "INT", "R") = Adding(o, 8)
    BY DEF Adding, TypeOf, AtOf
  <2>2. adds = [i \in 1..4 |-> Adding(o, 5 + i - 1)]
    BY <2>1
  <2> HIDE DEF adds
  <2>3. Chain(o, adds, 5, 5 + 4, {Adding(o, id) : id \in 5..(5 + 4 - 1)})
    <3>1. 5 + 4 <= NofIds(o)
      BY DEF NofIds
    <3> QED
      BY <2>2, <3>1, AddedInARow
  <2> QED
    BY <2>3
<1>4. Chain(o, <<Add(3, "INT", "E")>>, 3, 4, {Adding(o, 3)})
  <2>1. Add(3, "INT", "E") = Adding(o, 3) /\ 3 \in Ids(o)
    BY DEF Adding, TypeOf, AtOf, Ids, NofIds
  <2> QED
    BY <2>1, AddedAlone
<1>5. Chain(o, sets, 9, 9, values)
  BY ApplicationsValues
<1>6. /\ Chain(o, text(0), 0, 1, two(0)) /\ Chain(o, text(1), 1, 2, two(1))
      /\ Chain(o, text(2), 2, 3, two(2)) /\ Chain(o, text(4), 4, 5, two(4))
  BY <1>2
<1> HIDE DEF o, adds, sets, two, adding, values, text
<1>20. Chain(o, s0, 0, 1, r0)
  BY <1>6
<1> HIDE DEF s0, r0
<1>21. Chain(o, s1, 0, 2, r1)
  BY <1>6, <1>20, Chained
<1> HIDE DEF s1, r1
<1>22. Chain(o, s2, 0, 3, r2)
  BY <1>6, <1>21, Chained
<1> HIDE DEF s2, r2
<1>23. Chain(o, s3, 0, 4, r3)
  BY <1>4, <1>22, Chained
<1> HIDE DEF s3, r3
<1>24. Chain(o, s4, 0, 5, r4)
  BY <1>6, <1>23, Chained
<1> HIDE DEF s4, r4
<1>25. Chain(o, s8, 0, 9, r8)
  BY <1>3, <1>24, Chained
<1> HIDE DEF s8, r8
<1>26. Chain(o, s9, 0, 9, r9)
  BY <1>5, <1>25, Chained
<1> HIDE DEF s9, r9
<1>27. r9 = two(0) \cup two(1) \cup two(2) \cup {Adding(o, 3)} \cup two(4) \cup adding \cup values
  BY DEF r0, r1, r2, r3, r4, r8, r9
<1>28. /\ two(0) \subseteq r9 /\ two(1) \subseteq r9 /\ two(2) \subseteq r9 /\ two(4) \subseteq r9
       /\ Adding(o, 3) \in r9 /\ adding \subseteq r9 /\ values \subseteq r9
  BY <1>27
<1>29. \A id \in {0, 1, 2, 4} : Adding(o, id) \in r9 /\ Sizing(o, id) \in r9
  BY <1>28 DEF two
<1>30. \A id \in Ids(o) : Adding(o, id) \in r9
  <2>1. \A id \in Ids(o) : id \in {0, 1, 2, 4} \/ id = 3 \/ id \in 5..8
    BY DEF Ids, NofIds, o
  <2>2. \A id \in 5..8 : Adding(o, id) \in r9
    BY <1>28 DEF adding
  <2> QED
    BY <1>28, <1>29, <2>1, <2>2
<1>31. ASSUME NEW id \in {0, 1, 2, 4, 7, 8}, NEW j \in 0..(NofApplications - 1)
       PROVE  Setting(o, id, j, 0) \in r9
  <2> DEFINE v == <<id, j>>
  <2>1. v \in {0, 1, 2, 4, 7, 8} \X (0..(NofApplications - 1)) /\ v[1] = id /\ v[2] = j
    OBVIOUS
  <2> HIDE DEF v
  <2>2. Setting(o, v[1], v[2], 0) \in values
    BY <2>1 DEF values
  <2> QED
    BY <1>28, <2>1, <2>2
<1>32. Range(ApplicationsCalls) = r9
  BY <1>1, <1>26 DEF Chain
<1> QED
  BY <1>1, <1>26, <1>29, <1>30, <1>31, <1>32 DEF o

\* The calls of an object are the known ones, in a sound order.
LEMMA CallsAreKnown ==
    ASSUME NEW o \in {"device", "applications"}
    PROVE  Chain(o, CallsOf(o), 0, NofIds(o), Known(o))
<1> DEFINE s == CallsOf(o)
<1>1. /\ Chain(o, s, 0, NofIds(o), Range(s))
      /\ \A id \in Ids(o) : Adding(o, id) \in Range(s)
      /\ \A id \in Ids(o) : TypeOf(o, id) = "STRING" => Sizing(o, id) \in Range(s)
      /\ \A v \in ValuesOf(o) : Setting(o, v[1], v[2], v[3]) \in Range(s)
  <2>1. CASE o = "device"
    <3>1. \A id \in Ids(o) : TypeOf(o, id) = "STRING" => id \in {0, 1, 2, 3, 14, 15, 16}
      BY <2>1 DEF TypeOf
    <3>2. \A v \in ValuesOf(o) : /\ v[2] = 0 /\ v[3] \in 0..2
                                 /\ v[1] \in {6, 7, 8} \/ v[3] = 0
                                 /\ v[1] \in {0, 1, 2, 3, 6, 7, 8, 9, 10, 11, 13, 14, 15, 16}
      <4>1. Readable(o) \subseteq {0, 1, 2, 3, 6, 7, 8, 9, 10, 11, 13, 14, 15, 16}
        BY <2>1 DEF Readable, Ids, NofIds, AtOf
      <4> QED
        BY <2>1, <4>1 DEF ValuesOf, InstancesOf, LastOf
    <3>3. s = DeviceCalls /\ NofIds(o) = 17
      BY <2>1 DEF CallsOf, NofIds
    <3> HIDE DEF s
    <3>4. /\ Chain(o, s, 0, 17, Range(s))
          /\ \A id \in Ids(o) : Adding(o, id) \in Range(s)
          /\ \A id \in {0, 1, 2, 3, 14, 15, 16} : Sizing(o, id) \in Range(s)
          /\ \A id \in {0, 1, 2, 3, 9, 10, 11, 13, 14, 15, 16} : Setting(o, id, 0, 0) \in Range(s)
          /\ \A id \in {6, 7, 8}, k \in 0..2 : Setting(o, id, 0, k) \in Range(s)
      BY <2>1, <3>3, DeviceChain
    <3> QED
      BY <3>1, <3>2, <3>3, <3>4
  <2>2. CASE o = "applications"
    <3>1. \A id \in Ids(o) : TypeOf(o, id) = "STRING" => id \in {0, 1, 2, 4}
      BY <2>2 DEF TypeOf
    <3>2. \A v \in ValuesOf(o) : /\ v[2] \in 0..(NofApplications - 1) /\ v[3] = 0
                                 /\ v[1] \in {0, 1, 2, 4, 7, 8}
      <4>1. Readable(o) \subseteq {0, 1, 2, 4, 7, 8}
        BY <2>2 DEF Readable, Ids, NofIds, AtOf
      <4> QED
        BY <2>2, <4>1 DEF ValuesOf, InstancesOf, LastOf
    <3>3. s = ApplicationsCalls /\ NofIds(o) = 9
      BY <2>2 DEF CallsOf, NofIds
    <3> HIDE DEF s
    <3>4. /\ Chain(o, s, 0, 9, Range(s))
          /\ \A id \in Ids(o) : Adding(o, id) \in Range(s)
          /\ \A id \in {0, 1, 2, 4} : Sizing(o, id) \in Range(s)
          /\ \A id \in {0, 1, 2, 4, 7, 8}, j \in 0..(NofApplications - 1) :
                Setting(o, id, j, 0) \in Range(s)
      BY <2>2, <3>3, ApplicationsChain
    <3> QED
      BY <3>1, <3>2, <3>3, <3>4
  <2> QED
    BY <2>1, <2>2
<1> HIDE DEF s
<1>2. Range(s) \subseteq Known(o)
  BY <1>1 DEF Chain, Range
<1>3. Known(o) \subseteq Range(s)
  BY <1>1 DEF Known
<1> QED
  BY <1>1, <1>2, <1>3 DEF s

-----------------------------------------------------------------------------
(* The table                                                                *)

SlotType ==
    [id : Int, desc : Pointers \cup {None}, at : {"R", "RW", "E"}, type : {"STRING", "INT"},
     nof : Nat, size : Nat, values : [0..(Past - 1) -> Pointers \cup {None}]]

\* The k-th slot after the calls D, with a resources added.  A value beyond
\* the last place of the slot before is its name.
Slot(o, r, k, a, D) ==
    /\ r \in SlotType
    /\ r.id = IF k <= a THEN k - 1 ELSE -1
    /\ k <= a => /\ r.type = TypeOf(o, k - 1) /\ r.at = AtOf(o, k - 1)
                 /\ r.nof = IF Setting(o, k - 1, 0, 2) \in D THEN 3 ELSE 1
                 /\ r.desc = IF Setting(o, k - 2, MaxInstances, 0) \in D
                             THEN PointerOf(o, k - 2, MaxInstances, 0) ELSE Literal(<<Other>>)
    /\ r.size = IF Sizing(o, k - 1) \in D THEN SizeOf(o, k - 1) ELSE 0
    /\ \A inst \in 0..(MaxInstances - 1), idx \in 0..2 :
          r.values[inst * MaxValues + idx] =
             IF Setting(o, k - 1, inst, idx) \in D THEN PointerOf(o, k - 1, inst, idx) ELSE None

Table(o, s, a, D) ==
    /\ D \subseteq Known(o) /\ a \in 0..NofIds(o)
    /\ \A c \in D : c.id < a /\ (c.call = "set" /\ c.inst # 0 => a = NofIds(o))
    /\ s = [k \in 1..NofIds(o) |-> s[k]]
    /\ \A k \in 1..NofIds(o) : Slot(o, s[k], k, a, D)

LEMMA KnownCall ==
    ASSUME NEW o, NEW c \in Known(o)
    PROVE  /\ c.call \in {"add", "size", "set"}
           /\ c.call = "add" => c.id \in Ids(o) /\ c = Adding(o, c.id)
           /\ c.call = "size" => /\ c.id \in Ids(o) /\ TypeOf(o, c.id) = "STRING"
                                 /\ c = Sizing(o, c.id)
           /\ c.call = "set" => /\ <<c.id, c.inst, c.idx>> \in ValuesOf(o)
                                /\ c = Setting(o, c.id, c.inst, c.idx)
<1>1. CASE \E id \in Ids(o) : c = Adding(o, id)
  BY <1>1 DEF Adding, Add
<1>2. CASE \E id \in {n \in Ids(o) : TypeOf(o, n) = "STRING"} : c = Sizing(o, id)
  BY <1>2 DEF Sizing, Sized
<1>3. CASE \E v \in ValuesOf(o) : c = Setting(o, v[1], v[2], v[3])
  <2>1. PICK v \in ValuesOf(o) : c = Setting(o, v[1], v[2], v[3])
    BY <1>3
  <2>2. c.call = "set" /\ c.id = v[1] /\ c.inst = v[2] /\ c.idx = v[3]
    BY <2>1 DEF Setting, Set
  <2>3. v = <<v[1], v[2], v[3]>>
    BY DEF ValuesOf
  <2> QED
    BY <2>1, <2>2, <2>3
<1> QED
  BY <1>1, <1>2, <1>3 DEF Known

LEMMA KnownValue ==
    ASSUME NEW o, NEW id, NEW inst, NEW idx, Setting(o, id, inst, idx) \in Known(o)
    PROVE  <<id, inst, idx>> \in ValuesOf(o)
<1>1. /\ Setting(o, id, inst, idx).call = "set" /\ Setting(o, id, inst, idx).id = id
      /\ Setting(o, id, inst, idx).inst = inst /\ Setting(o, id, inst, idx).idx = idx
  BY DEF Setting, Set
<1> QED
  BY <1>1, KnownCall

LEMMA ValueType ==
    ASSUME NEW o \in {"device", "applications"}, NEW id, NEW inst, NEW idx,
           <<id, inst, idx>> \in ValuesOf(o)
    PROVE  /\ id \in Ids(o) /\ id \in Nat /\ AtOf(o, id) # "E"
           /\ inst \in InstancesOf(o) /\ inst \in Nat
           /\ idx \in 0..2 /\ idx <= LastOf(o, id)
           /\ o = "device" => inst = 0
           /\ idx # 0 => /\ o = "device" /\ id \in {6, 7, 8}
                         /\ TypeOf(o, id) = "INT" /\ LastOf(o, id) = 2
           /\ PointerOf(o, id, inst, idx) \in Pointers
<1> DEFINE v == <<id, inst, idx>>
<1>1. v[1] = id /\ v[2] = inst /\ v[3] = idx
  OBVIOUS
<1>2. /\ id \in Ids(o) /\ AtOf(o, id) # "E" /\ inst \in InstancesOf(o)
      /\ idx \in 0..2 /\ idx <= LastOf(o, id)
  <2>1. v \in ValuesOf(o)
    OBVIOUS
  <2> HIDE DEF v
  <2> QED
    BY <1>1, <2>1 DEF ValuesOf, Readable
<1> HIDE DEF v
<1>3. id \in Nat /\ inst \in Nat /\ (o = "device" => inst = 0)
  BY <1>2, TableAssumption DEF Ids, NofIds, InstancesOf
<1>4. idx # 0 => /\ o = "device" /\ id \in {6, 7, 8}
                 /\ TypeOf(o, id) = "INT" /\ LastOf(o, id) = 2
  BY <1>2 DEF LastOf, TypeOf
<1>5. PointerOf(o, id, inst, idx) \in Pointers
  <2>1. CASE TypeOf(o, id) = "INT"
    <3>1. PointerOf(o, id, inst, idx) = Integer(inst, IntegerName(o, id), idx)
      BY <2>1 DEF PointerOf
    <3>2. <<IntegerName(o, id), idx>> \in DOMAIN DeviceIntegers \cup DOMAIN ApplicationIntegers
      <4>1. DOMAIN DeviceIntegers =
               {"power_sources", "ps_voltage", "ps_current"} \X (0..2)
               \cup {"battery_level", "memory_free", "error_code", "cur_time"} \X {0}
        BY DEF DeviceIntegers, PowerSources
      <4>2. DOMAIN ApplicationIntegers = {"state", "error"} \X {0}
        BY DEF ApplicationIntegers
      <4>3. CASE o = "device"
        <5>1. CASE id \in {6, 7, 8}
          <6>1. IntegerName(o, id) \in {"power_sources", "ps_voltage", "ps_current"}
            BY <4>3, <5>1 DEF IntegerName
          <6> QED
            BY <1>2, <4>1, <6>1
        <5>2. CASE id \notin {6, 7, 8}
          <6>1. idx = 0 /\ IntegerName(o, id) \in {"battery_level", "memory_free", "error_code", "cur_time"}
            BY <1>4, <4>3, <5>2 DEF IntegerName
          <6> QED
            BY <4>1, <6>1
        <5> QED
          BY <5>1, <5>2
      <4>4. CASE o = "applications"
        <5>1. idx = 0 /\ IntegerName(o, id) \in {"state", "error"}
          BY <1>4, <4>4 DEF IntegerName
        <5> QED
          BY <4>2, <5>1
      <4> QED
        BY <4>3, <4>4
    <3> QED
      BY <1>3, <3>1, <3>2 DEF Integer, Pointers
  <2>2. CASE TypeOf(o, id) # "INT" /\ AtOf(o, id) = "RW"
    <3>1. PointerOf(o, id, inst, idx) = Buffer(inst, BufferName(o, id))
      BY <2>2 DEF PointerOf
    <3> QED
      BY <1>3, <3>1 DEF Buffer, BufferName, Pointers
  <2>3. CASE TypeOf(o, id) # "INT" /\ AtOf(o, id) # "RW"
    <3>1. PointerOf(o, id, inst, idx) = Literal(Built[id])
      BY <2>3 DEF PointerOf
    <3>2. o = "device" /\ id \in {0, 1, 2, 3, 14, 15, 16}
      BY <1>2, <2>3 DEF TypeOf, AtOf
    <3>3. Built[id] \in Seq(Character)
      BY <3>2, InputAssumption
    <3> QED
      BY <3>1, <3>3 DEF Literal, Pointers
  <2> QED
    BY <2>1, <2>2, <2>3
<1> QED
  BY <1>2, <1>3, <1>4, <1>5

\* Different values of a resource have different places.
LEMMA PlacesDiffer ==
    ASSUME NEW i \in Nat, NEW j \in Nat, NEW x \in 0..2, NEW y \in 0..2,
           i * MaxValues + x = j * MaxValues + y
    PROVE  i = j /\ x = y
<1> DEFINE m == MaxValues
<1>1. m \in Nat /\ m >= 3
  BY TableAssumption
<1>2. ASSUME NEW p \in Nat, NEW q \in Nat, p < q
      PROVE  q * MaxValues >= p * MaxValues + m
  <2>1. q * m = (q - p) * m + p * m
    BY <1>1, <1>2
  <2>2. \A d \in Nat : d >= 1 => d * m >= m
    BY <1>1
  <2> QED
    BY <1>1, <1>2, <2>1, <2>2
<1>3. ~ (i < j)
  BY <1>1, <1>2
<1>4. ~ (j < i)
  BY <1>1, <1>2
<1> QED
  BY <1>1, <1>3, <1>4

\* The places of the instances in the table are in it.
LEMMA PlaceInTable ==
    ASSUME NEW inst \in Nat, NEW idx \in 0..2
    PROVE  /\ Past \in Nat
           /\ inst < MaxInstances => inst * MaxValues + idx \in 0..(Past - 1)
           /\ inst = MaxInstances => inst * MaxValues + 0 = Past
           /\ inst >= MaxInstances => inst * MaxValues + idx >= Past
           /\ inst > MaxInstances => inst * MaxValues + idx > Past
<1> DEFINE m == MaxValues
           n == MaxInstances
<1>1. m \in Nat /\ m >= 3 /\ n \in Nat
  BY TableAssumption
<1>2. inst < n => inst * m + m <= n * m
  <2>1. SUFFICES ASSUME inst < n
                 PROVE  inst * m + m <= n * m
    OBVIOUS
  <2>2. n * m = inst * m + (n - inst) * m
    BY <1>1
  <2>3. \A d \in Nat : d >= 1 => d * m >= m
    BY <1>1
  <2>4. n - inst \in Nat /\ n - inst >= 1
    BY <1>1, <2>1
  <2> QED
    BY <1>1, <2>2, <2>3, <2>4
<1>3. inst >= n => inst * m >= n * m
  <2>1. SUFFICES ASSUME inst >= n
                 PROVE  inst * m >= n * m
    OBVIOUS
  <2>2. inst * m = n * m + (inst - n) * m
    BY <1>1
  <2>3. \A d \in Nat : d * m \in Nat
    BY <1>1
  <2>4. inst - n \in Nat
    BY <1>1, <2>1
  <2> QED
    BY <1>1, <2>2, <2>3, <2>4
<1>4. inst > n => inst * m > n * m
  <2>1. SUFFICES ASSUME inst > n
                 PROVE  inst * m > n * m
    OBVIOUS
  <2>2. inst * m = n * m + (inst - n) * m
    BY <1>1
  <2>3. \A d \in Nat : d >= 1 => d * m >= m
    BY <1>1
  <2>4. inst - n \in Nat /\ inst - n >= 1
    BY <1>1, <2>1
  <2> QED
    BY <1>1, <2>2, <2>3, <2>4
<1>5. inst * m \in Nat /\ n * m \in Nat /\ Past = n * m
  BY <1>1 DEF Past
<1> QED
  BY <1>1, <1>2, <1>3, <1>4, <1>5

\* A resource that was added is found at its place, and one that was not,
\* nowhere; the first free slot follows the resources.
LEMMA Found ==
    ASSUME NEW o \in {"device", "applications"}, NEW s, NEW a, NEW D, Table(o, s, a, D)
    PROVE  /\ Len(s) = NofIds(o) /\ DOMAIN s = 1..NofIds(o)
           /\ \A id \in Nat : FindId(s, id) = IF id < a THEN id + 1 ELSE NofIds(o) + 1
           /\ a < NofIds(o) => FindId(s, -1) = a + 1
<1> DEFINE n == NofIds(o)
<1>1. n \in Nat /\ a \in 0..n
  BY DEF Table, NofIds
<1>2. DOMAIN s = 1..n
  BY DEF Table
<1>3. Len(s) = n
  <2>1. s = [k \in 1..n |-> s[k]]
    BY DEF Table
  <2>2. Len([k \in 1..n |-> s[k]]) = n
    BY <1>1
  <2> QED
    BY <2>1, <2>2
<1>4. \A k \in 1..n : s[k].id = IF k <= a THEN k - 1 ELSE -1
  BY DEF Table, Slot
<1>5. ASSUME NEW id \in Nat
      PROVE  FindId(s, id) = IF id < a THEN id + 1 ELSE n + 1
  <2>1. CASE id < a
    <3>1. id + 1 \in 1..n /\ s[id + 1].id = id
      BY <1>1, <1>4, <2>1
    <3>2. \A k \in DOMAIN s : s[k].id = id <=> k = id + 1
      BY <1>1, <1>2, <1>4, <2>1
    <3>3. \A j \in 1..id : s[j].id # id
      BY <1>1, <1>2, <2>1, <3>2
    <3> QED
      BY <1>2, <2>1, <3>1, <3>2, <3>3 DEF FindId
  <2>2. CASE ~ (id < a)
    <3>1. \A k \in DOMAIN s : s[k].id # id
      BY <1>1, <1>2, <1>4, <2>2
    <3> QED
      BY <1>3, <2>2, <3>1 DEF FindId
  <2> QED
    BY <2>1, <2>2
<1>6. ASSUME a < n PROVE FindId(s, -1) = a + 1
  <2> DEFINE P(k) == s[k].id = -1 /\ \A j \in 1..(k - 1) : s[j].id # -1
  <2>1. a + 1 \in DOMAIN s /\ P(a + 1)
    BY <1>1, <1>2, <1>4, <1>6
  <2>2. \A k \in DOMAIN s : P(k) => k = a + 1
    <3> TAKE k \in DOMAIN s
    <3>1. CASE k <= a
      BY <1>1, <1>2, <1>4, <3>1
    <3>2. CASE k > a + 1
      <4>1. a + 1 \in 1..(k - 1)
        BY <1>1, <1>2, <3>2
      <4> QED
        BY <2>1, <4>1
    <3> QED
      BY <1>1, <1>2, <3>1, <3>2
  <2>3. (CHOOSE k \in DOMAIN s : P(k)) = a + 1
    BY <2>1, <2>2
  <2> QED
    BY <2>1, <2>3 DEF FindId
<1> QED
  BY <1>2, <1>3, <1>5, <1>6

LEMMA TableNew == Table(object, NewTable, 0, {})
<1> DEFINE o == object
           free == [id |-> -1, desc |-> None, at |-> "R", type |-> "STRING", nof |-> 0,
                    size |-> 0, values |-> [k \in 0..(MaxInstances * MaxValues - 1) |-> None]]
<1>1. NewTable = [k \in 1..NofIds(o) |-> free]
  BY DEF NewTable, NofIds
<1>2. free \in SlotType
  BY DEF SlotType, Past
<1>3. /\ free.id = -1 /\ free.size = 0
      /\ \A p \in 0..(Past - 1) : free.values[p] = None
  BY DEF Past
<1> HIDE DEF free
<1>4. \A k \in 1..NofIds(o) : Slot(o, free, k, 0, {})
  <2> TAKE k \in 1..NofIds(o)
  <2>1. \A inst \in 0..(MaxInstances - 1), idx \in 0..2 : inst * MaxValues + idx \in 0..(Past - 1)
    BY PlaceInTable, TableAssumption
  <2>2. ~ (k <= 0)
    BY DEF NofIds
  <2> QED
    BY <1>2, <1>3, <2>1, <2>2 DEF Slot
<1>5. 0 \in 0..NofIds(o)
  BY DEF NofIds
<1> HIDE DEF o
<1> QED
  BY <1>1, <1>4, <1>5 DEF Table, o

\* What a call asks of a slot stays when another call is made.
LEMMA OtherSlot ==
    ASSUME NEW o, NEW r, NEW k, NEW a, NEW D, NEW c, Slot(o, r, k, a, D), c.id # k - 1,
           c.call = "set" => c.id # k - 2 \/ c.inst # MaxInstances
    PROVE  Slot(o, r, k, a, D \cup {c})
<1>1. \A inst, idx : Setting(o, k - 1, inst, idx) # c
  BY DEF Setting, Set
<1>2. Sizing(o, k - 1) # c
  BY DEF Sizing, Sized
<1>3. Setting(o, k - 2, MaxInstances, 0) # c
  BY DEF Setting, Set
<1> QED
  BY <1>1, <1>2, <1>3 DEF Slot

LEMMA TableAdd ==
    ASSUME NEW o \in {"device", "applications"}, NEW s, NEW a, NEW D, Table(o, s, a, D),
           NEW c \in Known(o), c.call = "add", c.id = a
    PROVE  Table(o, AddResource(s, c), a + 1, D \cup {c})
<1> DEFINE n == NofIds(o)
           t == AddResource(s, c)
           k1 == a + 1
           E == D \cup {c}
<1>1. n \in Nat /\ a \in 0..n /\ a \in Ids(o) /\ c = Adding(o, a) /\ a < n /\ k1 \in 1..n
  <2>1. n \in Nat /\ a \in 0..n
    BY DEF Table, NofIds
  <2>2. a \in Ids(o) /\ c = Adding(o, a)
    BY KnownCall
  <2> QED
    BY <2>1, <2>2 DEF Ids
<1>2. Len(s) = n /\ FindId(s, a) = n + 1 /\ FindId(s, -1) = k1
  BY <1>1, Found
<1>3. c.type = TypeOf(o, a) /\ c.at = AtOf(o, a)
  BY <1>1 DEF Adding, Add
<1>4. t = [s EXCEPT ![k1] = [@ EXCEPT !.id = c.id, !.desc = Literal(<<Other>>),
                                      !.at = c.at, !.type = c.type, !.nof = 1]]
  <2>1. FindId(s, c.id) = n + 1 /\ ~ (n + 1 <= Len(s)) /\ ~ (k1 > Len(s))
    BY <1>1, <1>2
  <2> QED
    BY <1>2, <2>1 DEF AddResource
<1>5. s = [k \in 1..n |-> s[k]]
  BY DEF Table
<1>6. t = [k \in 1..n |-> t[k]] /\ \A k \in 1..n : k # k1 => t[k] = s[k]
  BY <1>1, <1>4, <1>5
<1> DEFINE r == s[k1]
           q == t[k1]
<1>7. q = [r EXCEPT !.id = a, !.desc = Literal(<<Other>>),
                    !.at = AtOf(o, a), !.type = TypeOf(o, a), !.nof = 1]
  <2>1. q = [r EXCEPT !.id = c.id, !.desc = Literal(<<Other>>),
                      !.at = c.at, !.type = c.type, !.nof = 1]
    BY <1>1, <1>4, <1>5
  <2> QED
    BY <1>3, <2>1
<1>8. Slot(o, r, k1, a, D)
  BY <1>1 DEF Table
<1>9. r \in SlotType
  BY <1>8 DEF Slot
<1> HIDE DEF t
<1>10. /\ q.id = a /\ q.desc = Literal(<<Other>>) /\ q.at = AtOf(o, a)
       /\ q.type = TypeOf(o, a) /\ q.nof = 1 /\ q.size = r.size /\ q.values = r.values
  <2> HIDE DEF q, r
  <2> QED
    BY <1>7, <1>9 DEF SlotType
<1>11. q \in SlotType
  <2>1. Literal(<<Other>>) \in Pointers
    BY DEF Literal, Pointers, Character
  <2>2. AtOf(o, a) \in {"R", "RW", "E"} /\ TypeOf(o, a) \in {"STRING", "INT"}
    BY DEF AtOf, TypeOf
  <2>3. a \in Int /\ 1 \in Nat
    BY <1>1
  <2> HIDE DEF q, r
  <2> QED
    BY <1>7, <1>9, <2>1, <2>2, <2>3 DEF SlotType
<1> HIDE DEF q, r
<1>12. /\ \A id, inst, idx : Setting(o, id, inst, idx) \in E <=> Setting(o, id, inst, idx) \in D
       /\ \A id : Sizing(o, id) \in E <=> Sizing(o, id) \in D
  <2>1. \A id, inst, idx : Setting(o, id, inst, idx).call = "set"
    BY DEF Setting, Set
  <2>2. \A id : Sizing(o, id).call = "size"
    BY DEF Sizing, Sized
  <2> QED
    BY <2>1, <2>2
<1>13. \A d \in D : d.id < a /\ (d.call = "set" => d.inst = 0)
  BY <1>1 DEF Table
<1>14. Setting(o, a, 0, 2) \notin D
  <2>1. Setting(o, a, 0, 2).id = a
    BY DEF Setting, Set
  <2> QED
    BY <1>1, <1>13, <2>1
<1>15. \A id : Setting(o, id, MaxInstances, 0) \notin D
  <2>1. \A id : Setting(o, id, MaxInstances, 0).call = "set" /\ Setting(o, id, MaxInstances, 0).inst # 0
    BY TableAssumption DEF Setting, Set
  <2> QED
    BY <1>13, <2>1
<1>16. Slot(o, q, k1, k1, E)
  <2>1. k1 - 1 = a
    BY <1>1
  <2> QED
    BY <1>1, <1>8, <1>10, <1>11, <1>12, <1>14, <1>15, <2>1 DEF Slot
<1>17. ASSUME NEW k \in 1..n, k # k1
       PROVE  Slot(o, s[k], k, k1, E)
  <2>1. Slot(o, s[k], k, a, D)
    BY DEF Table
  <2>2. k <= a <=> k <= k1
    BY <1>1, <1>17
  <2> QED
    BY <1>12, <2>1, <2>2 DEF Slot
<1>18. \A k \in 1..n : Slot(o, t[k], k, k1, E)
  BY <1>6, <1>16, <1>17 DEF q
<1>19. E \subseteq Known(o) /\ k1 \in 0..n
  BY <1>1 DEF Table
<1>20. \A d \in E : d.id < k1 /\ (d.call = "set" /\ d.inst # 0 => k1 = n)
  <2> TAKE d \in E
  <2>1. CASE d \in D
    <3>1. d.id < a /\ (d.call = "set" => d.inst = 0) /\ d.id \in Ids(o)
      <4>1. d \in Known(o)
        BY <2>1 DEF Table
      <4>2. d.call = "set" => d.id \in Ids(o)
        BY <4>1, KnownCall, ValueType
      <4> QED
        BY <1>13, <2>1, <4>1, <4>2, KnownCall
    <3> QED
      BY <1>1, <3>1 DEF Ids
  <2>2. CASE d = c
    BY <1>1, <2>2
  <2> QED
    BY <2>1, <2>2
<1> HIDE DEF n, k1, E
<1>21. Table(o, t, k1, E)
  BY <1>6, <1>18, <1>19, <1>20 DEF Table, n
<1> QED
  BY <1>21 DEF k1, E, t

LEMMA TableSize ==
    ASSUME NEW o \in {"device", "applications"}, NEW s, NEW a, NEW D, Table(o, s, a, D),
           NEW c \in Known(o), c.call = "size", c.id < a
    PROVE  Table(o, StringSize(s, c), a, D \cup {c})
<1> DEFINE n == NofIds(o)
           t == StringSize(s, c)
           k1 == c.id + 1
           E == D \cup {c}
<1>1. /\ n \in Nat /\ a \in 0..n /\ c.id \in Ids(o) /\ c.id \in Nat /\ c = Sizing(o, c.id)
      /\ k1 \in 1..n /\ k1 <= a /\ TypeOf(o, c.id) = "STRING"
  <2>1. n \in Nat /\ a \in 0..n
    BY DEF Table, NofIds
  <2>2. c.id \in Ids(o) /\ c = Sizing(o, c.id) /\ TypeOf(o, c.id) = "STRING"
    BY KnownCall
  <2> QED
    BY <2>1, <2>2 DEF Ids
<1>2. Len(s) = n /\ FindId(s, c.id) = k1
  BY <1>1, Found
<1>3. c.size = SizeOf(o, c.id) /\ c.size \in Nat
  <2>1. c.size = SizeOf(o, c.id)
    BY <1>1 DEF Sizing, Sized
  <2>2. SizeOf(o, c.id) \in Nat
    <3>1. CASE AtOf(o, c.id) = "RW"
      BY <3>1, TableAssumption DEF SizeOf
    <3>2. CASE AtOf(o, c.id) # "RW"
      <4>1. c.id \in {0, 1, 2, 3, 14, 15, 16}
        BY <1>1, <3>2 DEF TypeOf, AtOf
      <4> QED
        BY <3>2, <4>1, InputAssumption DEF SizeOf
    <3> QED
      BY <3>1, <3>2
  <2> QED
    BY <2>1, <2>2
<1>4. t = [s EXCEPT ![k1].size = c.size]
  BY <1>1, <1>2 DEF StringSize
<1>5. s = [k \in 1..n |-> s[k]]
  BY DEF Table
<1>6. t = [k \in 1..n |-> t[k]] /\ \A k \in 1..n : k # k1 => t[k] = s[k]
  BY <1>1, <1>4, <1>5
<1> DEFINE r == s[k1]
           q == t[k1]
<1>7. q = [r EXCEPT !.size = c.size]
  BY <1>1, <1>4, <1>5
<1>8. Slot(o, r, k1, a, D)
  BY <1>1 DEF Table
<1>9. r \in SlotType
  BY <1>8 DEF Slot
<1> HIDE DEF t
<1>10. /\ q \in SlotType /\ q.size = SizeOf(o, c.id)
       /\ q.id = r.id /\ q.desc = r.desc /\ q.at = r.at
       /\ q.type = r.type /\ q.nof = r.nof /\ q.values = r.values
  <2> HIDE DEF q, r
  <2> QED
    BY <1>3, <1>7, <1>9 DEF SlotType
<1> HIDE DEF q, r
<1>11. \A id, inst, idx : Setting(o, id, inst, idx) \in E <=> Setting(o, id, inst, idx) \in D
  <2>1. \A id, inst, idx : Setting(o, id, inst, idx).call = "set"
    BY DEF Setting, Set
  <2> QED
    BY <2>1
<1>12. Slot(o, q, k1, a, E)
  <2>1. k1 - 1 = c.id /\ Sizing(o, c.id) \in E
    BY <1>1
  <2> QED
    BY <1>1, <1>8, <1>10, <1>11, <2>1 DEF Slot
<1>13. ASSUME NEW k \in 1..n, k # k1
       PROVE  Slot(o, s[k], k, a, E)
  <2>1. Slot(o, s[k], k, a, D)
    BY DEF Table
  <2>2. c.id # k - 1
    BY <1>1, <1>13
  <2> QED
    BY <2>1, <2>2, OtherSlot
<1>14. \A k \in 1..n : Slot(o, t[k], k, a, E)
  BY <1>6, <1>12, <1>13 DEF q
<1>15. /\ E \subseteq Known(o)
       /\ \A d \in E : d.id < a /\ (d.call = "set" /\ d.inst # 0 => a = n)
  BY DEF Table
<1> HIDE DEF n, k1, E
<1>16. Table(o, t, a, E)
  BY <1>1, <1>6, <1>14, <1>15 DEF Table, n
<1> QED
  BY <1>16 DEF E, t

LEMMA TableSet ==
    ASSUME NEW o \in {"device", "applications"}, NEW s, NEW a, NEW D, Table(o, s, a, D),
           NEW c \in Known(o), c.call = "set", c.id < a, c.inst # 0 => a = NofIds(o)
    PROVE  Table(o, SetValue(s, c), a, D \cup {c})
<1> DEFINE n == NofIds(o)
           t == SetValue(s, c)
           id == c.id
           inst == c.inst
           idx == c.idx
           k1 == id + 1
           E == D \cup {c}
           place == inst * MaxValues + idx
           pointer == PointerOf(o, id, inst, idx)
           r == s[k1]
           q == t[k1]
           count == IF idx <= r.nof THEN r.nof ELSE 3
<1>1. <<id, inst, idx>> \in ValuesOf(o) /\ c = Setting(o, id, inst, idx)
  BY KnownCall
<1>2. /\ id \in Ids(o) /\ id \in Nat /\ inst \in Nat /\ idx \in 0..2 /\ pointer \in Pointers
      /\ o = "device" => inst = 0
      /\ idx # 0 => o = "device" /\ TypeOf(o, id) = "INT"
  BY <1>1, ValueType
<1>3. c.type = TypeOf(o, id) /\ c.pointer = pointer
  <2>1. \A i, j, x : /\ Setting(o, i, j, x).type = TypeOf(o, i)
                     /\ Setting(o, i, j, x).pointer = PointerOf(o, i, j, x)
    BY DEF Setting, Set
  <2> QED
    BY <1>1, <2>1
<1>4. n \in Nat /\ a \in 0..n /\ k1 \in 1..n /\ k1 <= a
  <2>1. n \in Nat /\ a \in 0..n
    BY DEF Table, NofIds
  <2> QED
    BY <1>2, <2>1 DEF Ids
<1>5. Len(s) = n /\ FindId(s, id) = k1 /\ s = [k \in 1..n |-> s[k]]
  BY <1>2, <1>4, Found DEF Table
<1>6. Slot(o, r, k1, a, D)
  BY <1>4 DEF Table
<1>7. /\ r \in SlotType /\ r.type = TypeOf(o, id)
      /\ r.nof = IF Setting(o, id, 0, 2) \in D THEN 3 ELSE 1
  <2>1. k1 - 1 = id
    BY <1>2
  <2> QED
    BY <1>4, <1>6, <2>1 DEF Slot
<1>8. Accepts(s, c) <=> inst <= MaxInstances
  <2>1. idx <= MaxValues
    BY <1>2, TableAssumption
  <2>2. k1 <= Len(s)
    BY <1>4, <1>5
  <2> QED
    BY <1>3, <1>5, <1>7, <2>1, <2>2 DEF Accepts
\* What the call makes true.
<1>9. /\ \A i, j, x : Setting(o, i, j, x) \in E <=> Setting(o, i, j, x) \in D
                                                    \/ (i = id /\ j = inst /\ x = idx)
      /\ \A i : Sizing(o, i) \in E <=> Sizing(o, i) \in D
  <2>1. \A i, j, x : Setting(o, i, j, x) = c <=> i = id /\ j = inst /\ x = idx
    BY <1>1 DEF Setting, Set
  <2>2. \A i : Sizing(o, i) # c
    BY DEF Sizing, Sized
  <2> QED
    BY <2>1, <2>2
<1>10. count = IF Setting(o, id, 0, 2) \in E THEN 3 ELSE 1
  <2>1. CASE idx = 2
    <3>1. inst = 0
      BY <1>2, <2>1
    <3> QED
      BY <1>7, <1>9, <2>1, <3>1
  <2>2. CASE idx # 2
    <3>1. idx <= r.nof
      BY <1>2, <1>7, <2>2
    <3> QED
      BY <1>7, <1>9, <2>2, <3>1
  <2> QED
    BY <2>1, <2>2
<1>11. count \in Nat /\ count = IF idx <= r.nof THEN r.nof
                               ELSE IF c.type = "INT" THEN idx + 1 ELSE idx
  <2>1. ~ (idx <= r.nof) => idx = 2 /\ c.type = "INT"
    BY <1>2, <1>3, <1>7
  <2> QED
    BY <1>7, <2>1
<1>12. /\ E \subseteq Known(o)
       /\ \A d \in E : d.id < a /\ (d.call = "set" /\ d.inst # 0 => a = n)
  BY DEF Table
<1>13. ASSUME NEW k \in 1..n, k # k1, k = k1 + 1 => inst # MaxInstances
       PROVE  Slot(o, s[k], k, a, E)
  <2>1. Slot(o, s[k], k, a, D)
    BY DEF Table
  <2>2. c.id # k - 1 /\ (c.id # k - 2 \/ c.inst # MaxInstances)
    BY <1>2, <1>13
  <2> QED
    BY <2>1, <2>2, OtherSlot
<1>14. \A i \in 0..(MaxInstances - 1), x \in 0..2 :
          r.values[i * MaxValues + x] =
             IF Setting(o, id, i, x) \in D THEN PointerOf(o, id, i, x) ELSE None
  <2>1. k1 - 1 = id
    BY <1>2
  <2> QED
    BY <1>6, <2>1 DEF Slot
<1>15. Past \in Nat /\ (inst < MaxInstances => place \in 0..(Past - 1))
       /\ (inst = MaxInstances => place = Past /\ idx = 0)
  <2>1. inst = MaxInstances => idx = 0
    BY <1>2, TableAssumption
  <2>2. Past \in Nat /\ (inst < MaxInstances => place \in 0..(Past - 1))
    BY <1>2, PlaceInTable
  <2>3. inst = MaxInstances => inst * MaxValues + 0 = Past
    BY <1>2, PlaceInTable
  <2> QED
    BY <2>1, <2>2, <2>3
<1>16. CASE inst > MaxInstances
  <2>1. t = s
    BY <1>2, <1>8, <1>16, TableAssumption DEF SetValue
  <2>2. Slot(o, r, k1, a, E)
    <3>1. \A i \in 0..(MaxInstances - 1) : \A x : Setting(o, id, i, x) \in E <=> Setting(o, id, i, x) \in D
      BY <1>2, <1>9, <1>16, TableAssumption
    <3>2. Setting(o, id, 0, 2) \in E <=> Setting(o, id, 0, 2) \in D
      BY <1>2, <1>9, <1>16, TableAssumption
    <3>3. Setting(o, k1 - 2, MaxInstances, 0) \in E <=> Setting(o, k1 - 2, MaxInstances, 0) \in D
      BY <1>2, <1>9
    <3>4. k1 - 1 = id
      BY <1>2
    <3> QED
      BY <1>6, <1>9, <3>1, <3>2, <3>3, <3>4 DEF Slot
  <2>3. \A k \in 1..n : Slot(o, s[k], k, a, E)
    <3>1. inst # MaxInstances
      BY <1>2, <1>16, TableAssumption
    <3>2. \A k \in 1..n : k # k1 => Slot(o, s[k], k, a, E)
      BY <1>13, <3>1
    <3> HIDE DEF k1, E, n
    <3> QED
      BY <2>2, <3>2 DEF r
  <2> HIDE DEF t, n, E
  <2> QED
    BY <1>4, <1>5, <1>12, <2>1, <2>3 DEF Table, n, E, t
<1> DEFINE s1 == [s EXCEPT ![k1].nof = count]
<1>17. inst <= MaxInstances => t = StorePointer(s1, k1, place, pointer)
  <2>1. SUFFICES ASSUME inst <= MaxInstances
                 PROVE  t = StorePointer(s1, k1, place, pointer)
    OBVIOUS
  <2>2. s1 = [s EXCEPT ![k1].nof = IF c.idx <= @ THEN @ ELSE
                                      IF c.type = "INT" THEN c.idx + 1 ELSE c.idx]
    BY <1>11
  <2> HIDE DEF s1, count
  <2> QED
    BY <1>3, <1>5, <1>8, <2>1, <2>2 DEF SetValue
<1>18. /\ DOMAIN s1 = 1..n /\ Len(s1) = n /\ s1 = [k \in 1..n |-> s1[k]]
       /\ s1[k1] = [r EXCEPT !.nof = count]
       /\ \A k \in 1..n : k # k1 => s1[k] = s[k]
  <2>1. /\ DOMAIN s1 = 1..n /\ s1 = [k \in 1..n |-> s1[k]]
        /\ s1[k1] = [r EXCEPT !.nof = count]
        /\ \A k \in 1..n : k # k1 => s1[k] = s[k]
    BY <1>4, <1>5
  <2>2. Len([k \in 1..n |-> s1[k]]) = n
    BY <1>4
  <2> HIDE DEF s1
  <2> QED
    BY <2>1, <2>2
<1> DEFINE r1 == s1[k1]
<1>19. /\ r1 \in SlotType /\ r1.nof = count /\ r1.id = r.id /\ r1.desc = r.desc
       /\ r1.at = r.at /\ r1.type = r.type /\ r1.size = r.size /\ r1.values = r.values
  <2>1. r1 = [r EXCEPT !.nof = count]
    BY <1>18
  <2> HIDE DEF r, r1, count, s1
  <2> QED
    BY <1>7, <1>11, <2>1 DEF SlotType
<1> HIDE DEF s1, r1, t, count
<1>20. CASE inst < MaxInstances
  <2>1. t = [s1 EXCEPT ![k1].values[place] = pointer]
    <3>1. place < Past /\ inst <= MaxInstances
      BY <1>2, <1>15, <1>20, TableAssumption
    <3> HIDE DEF place
    <3> QED
      BY <1>17, <3>1 DEF StorePointer
  <2>2. /\ t = [k \in 1..n |-> t[k]] /\ \A k \in 1..n : k # k1 => t[k] = s1[k]
        /\ q = [r1 EXCEPT !.values[place] = pointer]
    BY <1>4, <1>18, <2>1 DEF r1
  <2>3. /\ q \in SlotType /\ q.nof = count /\ q.id = r1.id /\ q.desc = r1.desc
        /\ q.at = r1.at /\ q.type = r1.type /\ q.size = r1.size
        /\ q.values = [r1.values EXCEPT ![place] = pointer]
    <3>1. place \in 0..(Past - 1) /\ pointer \in Pointers
      BY <1>2, <1>15, <1>20
    <3>2. q.values = [r1.values EXCEPT ![place] = pointer]
      BY <1>19, <2>2 DEF SlotType
    <3> HIDE DEF q, place, pointer
    <3> QED
      BY <1>19, <2>2, <3>1, <3>2 DEF SlotType
  <2>4. ASSUME NEW i \in 0..(MaxInstances - 1), NEW x \in 0..2
        PROVE  q.values[i * MaxValues + x] =
                  IF Setting(o, id, i, x) \in E THEN PointerOf(o, id, i, x) ELSE None
    <3>1. DOMAIN r1.values = 0..(Past - 1) /\ i \in Nat /\ i * MaxValues + x \in 0..(Past - 1)
      BY <1>19, PlaceInTable, TableAssumption DEF SlotType
    <3>2. CASE i = inst /\ x = idx
      BY <1>9, <2>3, <3>1, <3>2
    <3>3. CASE ~ (i = inst /\ x = idx)
      <4>1. i * MaxValues + x # place
        BY <1>2, <3>1, <3>3, PlacesDiffer
      <4>2. q.values[i * MaxValues + x] = r.values[i * MaxValues + x]
        BY <1>19, <2>3, <3>1, <4>1
      <4> QED
        BY <1>9, <1>14, <3>3, <4>2
    <3> QED
      BY <3>2, <3>3
  <2>5. Slot(o, q, k1, a, E)
    <3>1. Setting(o, k1 - 2, MaxInstances, 0) \in E <=> Setting(o, k1 - 2, MaxInstances, 0) \in D
      BY <1>2, <1>9
    <3>2. k1 - 1 = id
      BY <1>2
    <3> HIDE DEF q, k1
    <3> QED
      BY <1>6, <1>9, <1>10, <1>19, <2>3, <2>4, <3>1, <3>2 DEF Slot
  <2>6. ASSUME NEW k \in 1..n, k # k1
        PROVE  Slot(o, t[k], k, a, E)
    <3>1. t[k] = s[k]
      BY <1>18, <2>2, <2>6
    <3>2. inst # MaxInstances
      BY <1>2, <1>20, TableAssumption
    <3> QED
      BY <1>13, <2>6, <3>1, <3>2
  <2>7. \A k \in 1..n : Slot(o, t[k], k, a, E)
    BY <2>5, <2>6
  <2> HIDE DEF n, E
  <2> QED
    BY <1>4, <1>12, <2>2, <2>7 DEF Table, n, E, t
<1>21. CASE inst = MaxInstances
  <2>1. place = Past /\ ~ (place < Past) /\ idx = 0 /\ pointer = PointerOf(o, id, MaxInstances, 0)
    BY <1>15, <1>21
  <2>2. t = IF k1 < n THEN [s1 EXCEPT ![k1 + 1].desc = pointer] ELSE s1
    <3>1. inst <= MaxInstances
      BY <1>2, <1>21
    <3> HIDE DEF place
    <3> QED
      BY <1>17, <1>18, <2>1, <3>1 DEF StorePointer
  <2>3. t = [k \in 1..n |-> t[k]] /\ \A k \in 1..n : k # k1 + 1 => t[k] = s1[k]
    BY <1>4, <1>18, <2>2
  <2>4. Slot(o, q, k1, a, E)
    <3>1. Setting(o, k1 - 2, MaxInstances, 0) \in E <=> Setting(o, k1 - 2, MaxInstances, 0) \in D
      BY <1>2, <1>9
    <3>2. k1 - 1 = id
      BY <1>2
    <3>3. q = r1
      <4>1. k1 # k1 + 1
        BY <1>4
      <4> QED
        BY <1>4, <2>3, <4>1 DEF r1
    <3>4. \A i \in 0..(MaxInstances - 1) : \A x : Setting(o, id, i, x) \in E <=> Setting(o, id, i, x) \in D
      BY <1>9, <1>21, TableAssumption
    <3> HIDE DEF q, k1
    <3> QED
      BY <1>6, <1>9, <1>10, <1>19, <3>1, <3>2, <3>3, <3>4 DEF Slot
  <2>5. ASSUME NEW k \in 1..n, k # k1, k # k1 + 1
        PROVE  Slot(o, t[k], k, a, E)
    <3>1. t[k] = s[k]
      BY <1>18, <2>3, <2>5
    <3> QED
      BY <1>13, <2>5, <3>1
  <2>6. ASSUME k1 + 1 \in 1..n
        PROVE  Slot(o, t[k1 + 1], k1 + 1, a, E)
    <3> DEFINE k2 == k1 + 1
               u == s[k2]
    <3>1. k1 < n /\ s1[k2] = u
      BY <1>4, <1>18, <2>6
    <3>2. t[k2] = [u EXCEPT !.desc = pointer]
      BY <1>18, <2>2, <2>6, <3>1
    <3>3. Slot(o, u, k2, a, D)
      BY <2>6 DEF Table
    <3>4. u \in SlotType
      BY <3>3 DEF Slot
    <3> DEFINE v == t[k2]
    <3>5. /\ v \in SlotType /\ v.desc = pointer /\ v.id = u.id /\ v.at = u.at
          /\ v.type = u.type /\ v.nof = u.nof /\ v.size = u.size /\ v.values = u.values
      <4> HIDE DEF u, v, pointer
      <4> QED
        BY <1>2, <3>2, <3>4 DEF SlotType, v
    <3>6. \A j, x : Setting(o, k2 - 1, j, x) \in E <=> Setting(o, k2 - 1, j, x) \in D
      <4>1. k2 - 1 # id
        BY <1>2
      <4> QED
        BY <1>9, <4>1
    <3>7. k2 - 2 = id /\ Setting(o, id, MaxInstances, 0) \in E
      BY <1>2, <1>9, <1>21, <2>1
    <3> HIDE DEF u, v, k2, pointer
    <3> QED
      BY <1>9, <2>1, <3>3, <3>5, <3>6, <3>7 DEF Slot, v, k2
  <2>7. \A k \in 1..n : Slot(o, t[k], k, a, E)
    BY <2>4, <2>5, <2>6
  <2> HIDE DEF n, E
  <2> QED
    BY <1>4, <1>12, <2>3, <2>7 DEF Table, n, E, t
<1> QED
  BY <1>2, <1>16, <1>20, <1>21, TableAssumption

-----------------------------------------------------------------------------
(* Filling the table                                                        *)

\* The resources that were added with the first calls, and those calls.
Count(o) ==
    CHOOSE f \in [0..Len(CallsOf(o)) -> Nat] :
       Counts(CallsOf(o), f) /\ f[0] = 0 /\ f[Len(CallsOf(o))] = NofIds(o)

Done(o, n) == {CallsOf(o)[i] : i \in 1..n}

LEMMA CallsCounted ==
    ASSUME NEW o \in {"device", "applications"}
    PROVE  /\ CallsOf(o) \in Seq(Known(o)) /\ Len(CallsOf(o)) \in Nat
           /\ Count(o) \in [0..Len(CallsOf(o)) -> Nat] /\ Counts(CallsOf(o), Count(o))
           /\ Count(o)[0] = 0 /\ Count(o)[Len(CallsOf(o))] = NofIds(o)
           /\ Done(o, 0) = {} /\ Done(o, Len(CallsOf(o))) = Known(o)
           /\ Range(CallsOf(o)) = Known(o)
<1> DEFINE s == CallsOf(o)
           P(f) == Counts(s, f) /\ f[0] = 0 /\ f[Len(s)] = NofIds(o)
<1>1. Chain(o, s, 0, NofIds(o), Known(o))
  BY CallsAreKnown
<1>2. s \in Seq(Known(o)) /\ Len(s) \in Nat /\ Range(s) = Known(o)
  BY <1>1 DEF Chain
<1>3. \E f \in [0..Len(s) -> Nat] : P(f)
  BY <1>1 DEF Chain
<1>4. Count(o) = CHOOSE f \in [0..Len(s) -> Nat] : P(f)
  BY DEF Count
<1>5. Count(o) \in [0..Len(s) -> Nat] /\ P(Count(o))
  <2> HIDE DEF P, s
  <2> QED
    BY <1>3, <1>4, Zenon
<1>6. Done(o, 0) = {}
  BY DEF Done
<1>7. Done(o, Len(s)) = Known(o)
  <2>1. DOMAIN s = 1..Len(s)
    BY <1>2
  <2> QED
    BY <1>2, <2>1 DEF Done, Range
<1> QED
  BY <1>2, <1>5, <1>6, <1>7

\* The slots after the n-th call.
TableAfter(o, s, n) == Table(o, s, Count(o)[n], Done(o, n))

LEMMA TableStep ==
    ASSUME NEW o \in {"device", "applications"}, NEW s, NEW n \in 1..Len(CallsOf(o)),
           TableAfter(o, s, n - 1)
    PROVE  LET c == CallsOf(o)[n]
           IN  /\ c.call \in {"add", "size", "set"}
               /\ c.call = "add" => TableAfter(o, AddResource(s, c), n)
               /\ c.call = "size" => TableAfter(o, StringSize(s, c), n)
               /\ c.call = "set" => TableAfter(o, SetValue(s, c), n)
<1> DEFINE c == CallsOf(o)[n]
           f == Count(o)
           a == f[n - 1]
           D == Done(o, n - 1)
           E == Done(o, n)
<1>1. c \in Known(o) /\ c.call \in {"add", "size", "set"}
  <2>1. c \in Known(o)
    BY CallsCounted
  <2> QED
    BY <2>1, KnownCall
<1>2. IF c.call = "add" THEN c.id = a /\ f[n] = a + 1
      ELSE c.id < a /\ f[n] = a /\ (c.call = "set" /\ c.inst # 0 => a >= 9)
  BY CallsCounted DEF Counts
<1>3. E = D \cup {c}
  <2>1. Len(CallsOf(o)) \in Nat
    BY CallsCounted
  <2>2. 1..n = (1..(n - 1)) \cup {n}
    BY <2>1
  <2> QED
    BY <2>2 DEF Done
<1>4. Table(o, s, a, D)
  BY DEF TableAfter
<1>5. c.call = "set" /\ c.inst # 0 => a = NofIds(o)
  <2>1. SUFFICES ASSUME c.call = "set", c.inst # 0
                 PROVE  a = NofIds(o)
    OBVIOUS
  <2>2. o # "device"
    <3> HIDE DEF c
    <3>1. <<c.id, c.inst, c.idx>> \in ValuesOf(o)
      BY <1>1, <2>1, KnownCall
    <3>2. o = "device" => c.inst = 0
      BY <3>1, ValueType
    <3> QED
      BY <2>1, <3>2
  <2>3. a >= 9 /\ a \in 0..NofIds(o)
    BY <1>2, <1>4, <2>1 DEF Table
  <2> QED
    BY <2>2, <2>3 DEF NofIds
<1> HIDE DEF c, f, a, D, E
<1>6. CASE c.call = "add"
  <2>1. Table(o, AddResource(s, c), a + 1, D \cup {c})
    BY <1>1, <1>2, <1>4, <1>6, TableAdd
  <2> QED
    BY <1>1, <1>2, <1>3, <1>6, <2>1 DEF TableAfter, c, f, E
<1>7. CASE c.call = "size"
  <2>1. Table(o, StringSize(s, c), a, D \cup {c})
    BY <1>1, <1>2, <1>4, <1>7, TableSize
  <2> QED
    BY <1>1, <1>2, <1>3, <1>7, <2>1 DEF TableAfter, c, f, E
<1>8. CASE c.call = "set"
  <2>1. Table(o, SetValue(s, c), a, D \cup {c})
    BY <1>1, <1>2, <1>4, <1>5, <1>8, TableSet
  <2> QED
    BY <1>1, <1>2, <1>3, <1>8, <2>1 DEF TableAfter, c, f, E
<1> QED
  BY <1>1, <1>6, <1>7, <1>8 DEF c

\* The calls made so far have filled the table.
Filled ==
    /\ object \in {"device", "applications"} /\ step \in Nat \ {0}
    /\ TableAfter(object, slots, IF step <= Len(Calls) THEN step - 1 ELSE Len(Calls))

LEMMA CallsName == Calls = CallsOf(object)
BY DEF Calls, CallsOf

LEMMA FilledInit == Init => Filled
<1> SUFFICES ASSUME Init PROVE Filled
  OBVIOUS
<1>1. object \in {"device", "applications"} /\ step = 1 /\ slots = NewTable
  BY InputAssumption DEF Init
<1>2. Len(Calls) \in Nat /\ Count(object)[0] = 0 /\ Done(object, 0) = {}
  BY <1>1, CallsCounted, CallsName
<1>3. TableAfter(object, slots, 0)
  BY <1>1, <1>2, TableNew DEF TableAfter
<1>4. (IF step <= Len(Calls) THEN step - 1 ELSE Len(Calls)) = 0
  BY <1>1, <1>2
<1> QED
  BY <1>1, <1>3, <1>4 DEF Filled

LEMMA FilledStep == Filled /\ [Next]_vars => Filled'
<1> SUFFICES ASSUME Filled, [Next]_vars PROVE Filled'
  OBVIOUS
<1> DEFINE n == IF step <= Len(Calls) THEN step - 1 ELSE Len(Calls)
<1>1. /\ object \in {"device", "applications"} /\ step \in Nat \ {0} /\ TableAfter(object, slots, n)
      /\ Len(Calls) \in Nat
  <2>1. object \in {"device", "applications"}
    BY DEF Filled
  <2> QED
    BY <2>1, CallsCounted, CallsName DEF Filled
<1>2. object' = object => Calls' = Calls
  BY CallsName DEF Calls, DeviceCalls, ApplicationsCalls
<1>3. CASE UNCHANGED <<object, step, slots>>
  BY <1>3, <1>2 DEF Filled
<1>4. CASE Steps
  <2>1. /\ step > Len(Calls) /\ step' = step + 1 /\ object' = object /\ slots' = slots
    BY <1>4 DEF Steps, Serving
  <2>2. step' \in Nat \ {0} /\ ~ (step' <= Len(Calls)) /\ n = Len(Calls)
    BY <1>1, <2>1
  <2> QED
    BY <1>1, <1>2, <2>1, <2>2 DEF Filled
<1>5. CASE Fill
  <2> DEFINE c == Calls[step]
  <2>1. step <= Len(Calls) /\ step' = step + 1 /\ object' = object
    BY <1>5 DEF Fill
  <2>2. step \in 1..Len(Calls) /\ n = step - 1
    BY <1>1, <2>1
  <2>3. /\ c.call \in {"add", "size", "set"}
        /\ c.call = "add" => TableAfter(object, AddResource(slots, c), step)
        /\ c.call = "size" => TableAfter(object, StringSize(slots, c), step)
        /\ c.call = "set" => TableAfter(object, SetValue(slots, c), step)
    BY <1>1, <2>2, TableStep, CallsName
  <2>4. /\ c.call = "add" => slots' = AddResource(slots, c)
        /\ c.call = "size" => slots' = StringSize(slots, c)
        /\ c.call = "set" => slots' = SetValue(slots, c)
    <3> HIDE DEF c
    <3>1. (CASE c.call = "add"  -> slots' = AddResource(slots, c) /\ UNCHANGED sane
            [] c.call = "size" -> slots' = StringSize(slots, c) /\ UNCHANGED sane
            [] c.call = "set"  -> /\ slots' = SetValue(slots, c)
                                  /\ sane' \in IF BehindTable(slots, c) THEN BOOLEAN ELSE {TRUE})
      BY <1>5 DEF Fill, c
    <3> QED
      BY <3>1
  <2>5. TableAfter(object, slots', step)
    <3> HIDE DEF c
    <3> QED
      BY <2>3, <2>4
  <2>6. step' \in Nat \ {0}
        /\ step = IF step' <= Len(Calls) THEN step' - 1 ELSE Len(Calls)
    BY <1>1, <2>1
  <2> QED
    BY <1>1, <1>2, <2>1, <2>5, <2>6 DEF Filled
<1>6. Next => Fill \/ Steps
  BY DEF Next, Write, Execute, DeviceStateUpdate, ApplicationChanges
<1> QED
  BY <1>3, <1>4, <1>5, <1>6 DEF vars

\* The two constructors fill the table as they mean to, whatever the number
\* of applications and of instances that it has room for: the calls made so
\* far are in it, each value in the place that its path leads to.
THEOREM TableIsFilled == Spec => []Filled
<1>1. Init => Filled
  BY FilledInit
<1>2. Filled /\ [Next]_vars => Filled'
  BY FilledStep
<1> QED
  BY <1>1, <1>2, PTL DEF Spec

-----------------------------------------------------------------------------
(* What a path leads to                                                     *)

\* The instances with a place for a resource's values.
Placed(o, id, inst) ==
    inst < MaxInstances \/ (inst = MaxInstances /\ id + 1 < NofIds(o))

LEMMA FullTable ==
    ASSUME Filled, Serving
    PROVE  /\ object \in {"device", "applications"}
           /\ Table(object, slots, NofIds(object), Known(object))
           /\ Len(slots) = NofIds(object) /\ DOMAIN slots = 1..NofIds(object)
           /\ \A id \in Nat : FindId(slots, id) = IF id \in Ids(object) THEN id + 1
                                                  ELSE NofIds(object) + 1
           /\ Range(Calls) = Known(object)
<1> DEFINE o == object
           n == NofIds(object)
<1>1. o \in {"device", "applications"} /\ step \in Nat /\ step > Len(Calls)
  BY DEF Filled, Serving
<1>2. TableAfter(o, slots, Len(Calls)) /\ Len(Calls) \in Nat
  BY <1>1, CallsCounted, CallsName DEF Filled
<1>3. Table(o, slots, n, Known(o)) /\ Range(Calls) = Known(o)
  BY <1>1, <1>2, CallsCounted, CallsName DEF TableAfter
<1>4. \A id \in Nat : id < n <=> id \in Ids(o)
  BY DEF Ids, NofIds
<1>5. /\ Len(slots) = n /\ DOMAIN slots = 1..n
      /\ \A id \in Nat : FindId(slots, id) = IF id < n THEN id + 1 ELSE n + 1
  BY <1>1, <1>3, Found
<1> QED
  BY <1>1, <1>3, <1>4, <1>5

LEMMA FullSlot ==
    ASSUME Filled, Serving, NEW id \in Ids(object)
    PROVE  /\ slots[id + 1].id = id /\ slots[id + 1].type = TypeOf(object, id)
           /\ slots[id + 1].at = AtOf(object, id)
           /\ slots[id + 1].nof = LastOf(object, id) + 1
           /\ TypeOf(object, id) = "STRING" => slots[id + 1].size = SizeOf(object, id)
<1> DEFINE o == object
           n == NofIds(object)
           r == slots[id + 1]
<1>1. o \in {"device", "applications"} /\ Table(o, slots, n, Known(o))
  BY FullTable
<1>2. id + 1 \in 1..n /\ (id + 1) - 1 = id /\ id \in Nat
  BY DEF Ids, NofIds
<1>3. Slot(o, r, id + 1, n, Known(o))
  BY <1>1, <1>2 DEF Table
<1> HIDE DEF r
<1>4. /\ r.id = id /\ r.type = TypeOf(o, id) /\ r.at = AtOf(o, id)
      /\ r.nof = IF Setting(o, id, 0, 2) \in Known(o) THEN 3 ELSE 1
      /\ r.size = IF Sizing(o, id) \in Known(o) THEN SizeOf(o, id) ELSE 0
  BY <1>2, <1>3 DEF Slot
<1>5. TypeOf(o, id) = "STRING" => Sizing(o, id) \in Known(o)
  BY DEF Known
<1>6. CASE LastOf(o, id) = 2
  <2>1. o = "device" /\ id \in {6, 7, 8}
    BY <1>6 DEF LastOf
  <2>2. <<id, 0, 2>> \in ValuesOf(o)
    BY <1>6, <2>1 DEF ValuesOf, Readable, InstancesOf, AtOf
  <2>3. Setting(o, id, 0, 2) \in Known(o)
    BY <2>2 DEF Known
  <2> QED
    BY <1>4, <1>5, <1>6, <2>3 DEF r
<1>7. CASE LastOf(o, id) # 2
  <2>1. LastOf(o, id) = 0
    BY <1>7 DEF LastOf
  <2>2. Setting(o, id, 0, 2) \notin Known(o)
    <3>1. SUFFICES ASSUME Setting(o, id, 0, 2) \in Known(o) PROVE FALSE
      OBVIOUS
    <3>2. <<id, 0, 2>> \in ValuesOf(o)
      BY <3>1, KnownValue
    <3>3. 2 <= LastOf(o, id)
      BY <1>1, <3>2, ValueType
    <3> QED
      BY <2>1, <3>3
  <2> QED
    BY <1>4, <1>5, <2>1, <2>2 DEF r
<1> QED
  BY <1>6, <1>7

\* Every path leads to the value of its own resource and instance, or to none.
LEMMA PathsLead ==
    ASSUME Filled, Serving, NEW id \in Ids(object), NEW inst \in Nat, NEW idx \in 0..2
    PROVE  /\ <<id, inst, idx>> \in ValuesOf(object) /\ Placed(object, id, inst) =>
                 PointerAt(id + 1, inst, idx) = PointerOf(object, id, inst, idx)
           /\ idx = 0 => \/ PointerAt(id + 1, inst, idx) \in {None, Undefined, Literal(<<Other>>)}
                         \/ /\ <<id, inst, idx>> \in ValuesOf(object)
                            /\ PointerAt(id + 1, inst, idx) = PointerOf(object, id, inst, idx)
<1> DEFINE o == object
           n == NofIds(object)
           place == inst * MaxValues + idx
           at == PointerAt(id + 1, inst, idx)
           known == Setting(o, id, inst, idx) \in Known(o)
<1>1. o \in {"device", "applications"} /\ Table(o, slots, n, Known(o)) /\ Len(slots) = n
  BY FullTable
<1>2. id + 1 \in 1..n /\ (id + 1) - 1 = id /\ id \in Nat /\ n \in Nat
  BY DEF Ids, NofIds
<1>3. <<id, inst, idx>> \in ValuesOf(o) <=> known
  <2>1. ASSUME <<id, inst, idx>> \in ValuesOf(o) PROVE known
    BY <2>1 DEF Known
  <2>2. ASSUME known PROVE <<id, inst, idx>> \in ValuesOf(o)
    BY <2>2, KnownValue
  <2> QED
    BY <2>1, <2>2
<1>4. CASE inst < MaxInstances
  <2>1. place \in 0..(Past - 1) /\ Past \in Nat
    BY <1>4, PlaceInTable
  <2>2. at = slots[id + 1].values[place]
    <3>1. place < Past
      BY <2>1
    <3> HIDE DEF place
    <3> QED
      BY <3>1 DEF PointerAt, place
  <2>3. slots[id + 1].values[place] = IF known THEN PointerOf(o, id, inst, idx) ELSE None
    <3>1. Slot(o, slots[id + 1], id + 1, n, Known(o))
      BY <1>1, <1>2 DEF Table
    <3>2. inst \in 0..(MaxInstances - 1)
      BY <1>4, TableAssumption
    <3> QED
      BY <1>2, <3>1, <3>2 DEF Slot
  <2> HIDE DEF at, place, known
  <2> QED
    BY <1>3, <2>2, <2>3 DEF at
<1>5. CASE inst = MaxInstances
  <2>1. known => idx = 0
    <3>1. SUFFICES ASSUME known PROVE idx = 0
      OBVIOUS
    <3>2. (o = "device" => inst = 0) /\ (idx # 0 => o = "device")
      BY <1>1, <1>3, <3>1, ValueType
    <3> QED
      BY <1>5, <3>2, TableAssumption
  <2>2. idx = 0 => place = Past /\ ~ (place < Past) /\ Past \in Nat
    <3>1. inst * MaxValues + 0 = Past /\ Past \in Nat
      BY <1>5, PlaceInTable
    <3> QED
      BY <3>1
  <2>3. idx = 0 => at = IF id + 1 < n THEN slots[id + 2].desc ELSE Undefined
    <3>1. id + 1 + 1 = id + 2
      BY <1>2
    <3> HIDE DEF place
    <3> QED
      BY <1>1, <2>2, <3>1 DEF PointerAt, place
  <2>4. ASSUME id + 1 < n, idx = 0
        PROVE  slots[id + 2].desc = IF known THEN PointerOf(o, id, inst, idx) ELSE Literal(<<Other>>)
    <3>1. id + 2 \in 1..n /\ id + 2 <= n /\ (id + 2) - 2 = id
      BY <1>2, <2>4
    <3>2. Slot(o, slots[id + 2], id + 2, n, Known(o))
      BY <1>1, <3>1 DEF Table
    <3> QED
      BY <1>5, <2>4, <3>1, <3>2 DEF Slot
  <2> HIDE DEF at, place, known
  <2> QED
    BY <1>3, <1>5, <2>1, <2>3, <2>4, TableAssumption DEF at, Placed
<1>6. CASE inst > MaxInstances
  <2>1. place > Past /\ ~ (place < Past) /\ place # Past
    <3>1. place > Past /\ Past \in Nat
      BY <1>6, PlaceInTable
    <3>2. place \in Nat
      BY TableAssumption
    <3> QED
      BY <3>1, <3>2
  <2>2. at = Undefined
    <3> HIDE DEF place
    <3> QED
      BY <2>1 DEF PointerAt, place
  <2>3. ~ Placed(o, id, inst)
    BY <1>6, TableAssumption DEF Placed
  <2> QED
    BY <2>2, <2>3
<1> QED
  BY <1>4, <1>5, <1>6, TableAssumption

\* What the path of a request comes to.
LEMMA PathSlot ==
    ASSUME Filled, Serving, NEW p \in Paths
    PROVE  /\ InstanceOf(p) \in Nat
           /\ p.res # None => p.res \in Nat
           /\ p.res # None /\ SlotOf(p) <= Len(slots) =>
                 p.res \in Ids(object) /\ SlotOf(p) = p.res + 1
<1>1. p.inst \in Nat \cup {None} /\ p.res \in Nat \cup {None}
  BY InputAssumption
<1>2. InstanceOf(p) \in Nat
  BY <1>1 DEF InstanceOf
<1>3. Len(slots) = NofIds(object) /\ NofIds(object) \in Nat
  BY FullTable DEF NofIds
<1>4. ASSUME p.res # None, SlotOf(p) <= Len(slots)
      PROVE  p.res \in Ids(object) /\ SlotOf(p) = p.res + 1
  <2>1. SlotOf(p) = IF p.res \in Ids(object) THEN p.res + 1 ELSE NofIds(object) + 1
    BY <1>1, <1>4, FullTable DEF SlotOf
  <2> QED
    BY <1>3, <1>4, <2>1
<1> QED
  BY <1>1, <1>2, <1>4

-----------------------------------------------------------------------------
(* Memory                                                                   *)

IntegerNames == IF object = "device" THEN DOMAIN DeviceIntegers ELSE DOMAIN ApplicationIntegers

\* Where a buffer begins.
Offset(k) == Size * (k - 1)

TimeName == <<"cur_time", 0>>

\* A value of an integer: only the time can be written, and be negative.
Fits(n, v) ==
    /\ v \in Int /\ -Modulus <= 2 * v /\ 2 * v < Modulus
    /\ n # TimeName => v >= 0

Integers64(ints) == ints \in [IntegerNames -> Int] /\ \A n \in IntegerNames : Fits(n, ints[n])

\* A structure in memory.
Structure(m) ==
    /\ m = [cells |-> m.cells, ints |-> m.ints]
    /\ m.cells \in [1..(Size * Len(Strings)) -> Character \cup {End}]
    /\ Integers64(m.ints)

\* The k-th buffer holds a text and its terminator.
Holds(m, k, text) ==
    /\ text \in Seq(Character) /\ Len(text) < Size
    /\ \A i \in 1..Len(text) : m.cells[Offset(k) + i] = text[i]
    /\ m.cells[Offset(k) + Len(text) + 1] = End

LEMMA StringsOfObject ==
    ASSUME object \in {"device", "applications"}
    PROVE  /\ Len(Strings) \in 1..4 /\ DOMAIN Strings = 1..Len(Strings)
           /\ object = "device" => Len(Strings) = 2
           /\ \A j, k \in DOMAIN Strings : Strings[j] = Strings[k] => j = k
           /\ \A k \in DOMAIN Strings : Start(Strings[k]) = Offset(k) + 1
           /\ \A name : name \in Range(Strings) <=> \E k \in DOMAIN Strings : name = Strings[k]
           /\ \A id \in Ids(object) : TypeOf(object, id) = "STRING" /\ AtOf(object, id) = "RW" =>
                 BufferName(object, id) \in Range(Strings)
<1>1. CASE object = "device"
  <2>1. Strings = <<"utc_offset", "time_zone">>
    BY <1>1 DEF Strings
  <2>2. /\ Len(Strings) = 2 /\ DOMAIN Strings = 1..2
        /\ Strings[1] = "utc_offset" /\ Strings[2] = "time_zone"
    BY <2>1
  <2>3. \A j, k \in DOMAIN Strings : Strings[j] = Strings[k] => j = k
    BY <2>2
  <2>4. \A id \in Ids(object) : TypeOf(object, id) = "STRING" /\ AtOf(object, id) = "RW" =>
            BufferName(object, id) \in {Strings[1], Strings[2]}
    BY <1>1, <2>2 DEF BufferName
  <2>5. \A name : name \in Range(Strings) <=> \E k \in DOMAIN Strings : name = Strings[k]
    BY DEF Range
  <2>6. \A k \in DOMAIN Strings : Start(Strings[k]) = Offset(k) + 1
    BY <2>3 DEF Start, Offset
  <2> QED
    BY <2>2, <2>3, <2>4, <2>5, <2>6
<1>2. CASE object = "applications"
  <2>1. Strings = <<"name", "args", "version", "URL">>
    BY <1>2 DEF Strings
  <2>2. /\ Len(Strings) = 4 /\ DOMAIN Strings = 1..4
        /\ Strings[1] = "name" /\ Strings[2] = "args"
        /\ Strings[3] = "version" /\ Strings[4] = "URL"
    BY <2>1
  <2>3. \A j, k \in DOMAIN Strings : Strings[j] = Strings[k] => j = k
    BY <2>2
  <2>4. \A id \in Ids(object) : TypeOf(object, id) = "STRING" /\ AtOf(object, id) = "RW" =>
            BufferName(object, id) \in {Strings[1], Strings[2], Strings[3], Strings[4]}
    BY <1>2, <2>2 DEF BufferName
  <2>5. \A name : name \in Range(Strings) <=> \E k \in DOMAIN Strings : name = Strings[k]
    BY DEF Range
  <2>6. \A k \in DOMAIN Strings : Start(Strings[k]) = Offset(k) + 1
    BY <2>3 DEF Start, Offset
  <2> QED
    BY <1>2, <2>2, <2>3, <2>4, <2>5, <2>6
<1> QED
  BY <1>1, <1>2

\* The buffers lie one behind the other.
LEMMA Offsets ==
    ASSUME object \in {"device", "applications"}, NEW k \in DOMAIN Strings
    PROVE  /\ Offset(k) \in Nat /\ Size \in Nat /\ Size >= 1
           /\ Size * Len(Strings) \in Nat
           /\ Offset(k) + Size <= Size * Len(Strings)
           /\ Offset(k + 1) = Offset(k) + Size
           /\ k < Len(Strings) => Offset(k) + Size + 1 <= Size * Len(Strings)
           /\ k = Len(Strings) => Offset(k) + Size = Size * Len(Strings)
           /\ \A j \in DOMAIN Strings : /\ j < k => Offset(j) + Size <= Offset(k)
                                        /\ j > k + 1 => Offset(k) + Size + 1 <= Offset(j)
<1> DEFINE n == Len(Strings)
<1>1. n \in 1..4 /\ DOMAIN Strings = 1..n
  BY StringsOfObject
<1>2. Size \in Nat /\ Size >= 1
  BY TableAssumption
<1>3. /\ Offset(1) = 0 /\ Offset(2) = Size /\ Offset(3) = 2 * Size /\ Offset(4) = 3 * Size
      /\ Offset(5) = 4 * Size
  BY <1>2 DEF Offset
<1>4. Size * n = Offset(n + 1)
  BY <1>1, <1>2 DEF Offset
<1>5. k \in 1..n /\ k \in {1, 2, 3, 4}
  BY <1>1
<1> HIDE DEF n
<1>6. Offset(n + 1) \in Nat /\ Offset(k) \in Nat /\ Offset(k + 1) = Offset(k) + Size
  BY <1>1, <1>2, <1>3, <1>5
<1>7. /\ Offset(k) + Size <= Offset(n + 1)
      /\ k < n => Offset(k) + Size + 1 <= Offset(n + 1)
      /\ k = n => Offset(k) + Size = Offset(n + 1)
  BY <1>1, <1>2, <1>3, <1>5
<1>8. ASSUME NEW j \in 1..n
      PROVE  /\ j < k => Offset(j) + Size <= Offset(k)
             /\ j > k + 1 => Offset(k) + Size + 1 <= Offset(j)
  BY <1>1, <1>2, <1>3, <1>5
<1> QED
  BY <1>1, <1>2, <1>4, <1>6, <1>7, <1>8 DEF n

LEMMA StructureType ==
    ASSUME object \in {"device", "applications"}, NEW m, Structure(m)
    PROVE  /\ m.cells \in Seq(Character \cup {End}) /\ Len(m.cells) = Size * Len(Strings)
           /\ DOMAIN m.cells = 1..Len(m.cells) /\ Len(m.cells) \in Nat
           /\ object = "applications" => m.ints[State] \in Nat
<1>1. Size * Len(Strings) \in Nat
  BY StringsOfObject, TableAssumption
<1>2. m.cells \in [1..(Size * Len(Strings)) -> Character \cup {End}]
  BY DEF Structure
<1>3. /\ m.cells \in Seq(Character \cup {End}) /\ Len(m.cells) = Size * Len(Strings)
      /\ DOMAIN m.cells = 1..Len(m.cells) /\ Len(m.cells) \in Nat
  <2> DEFINE n == Size * Len(Strings)
  <2> HIDE DEF n
  <2> QED
    BY <1>1, <1>2 DEF n
<1>4. ASSUME object = "applications" PROVE m.ints[State] \in Nat
  <2>1. State \in IntegerNames /\ State # TimeName
    BY <1>4 DEF State, IntegerNames, ApplicationIntegers, TimeName
  <2>2. Fits(State, m.ints[State])
    BY <2>1 DEF Structure, Integers64
  <2> QED
    BY <2>1, <2>2 DEF Fits
<1> QED
  BY <1>3, <1>4

\* The characters from one cell up to another.
Cells(m, start, e) == [i \in 1..(e - start) |-> m.cells[start + i - 1]]

\* A string with its terminator in the buffers ends there.
LEMMA StringEnds ==
    ASSUME object \in {"device", "applications"}, NEW m, Structure(m),
           NEW start \in Nat \ {0}, NEW e \in Nat, start <= e, e <= Len(m.cells),
           m.cells[e] = End, \A j \in start..(e - 1) : m.cells[j] # End
    PROVE  StringFrom(m, start) = Cells(m, start, e)
<1> DEFINE behind == IF object = "device" THEN <<Undefined, End>>
                     ELSE IF m.ints[State] % Base = 0 THEN <<End>>
                     ELSE <<m.ints[State] % Base, End>>
           cells == m.cells \o behind
           P(k) == cells[k] = End /\ \A j \in start..(k - 1) : cells[j] # End
           stop == CHOOSE k \in start..Len(cells) : P(k)
           n == Len(m.cells)
           S == Character \cup {End, Undefined} \cup Nat
<1>1. m.cells \in Seq(Character \cup {End}) /\ n \in Nat
  BY StructureType
<1>2. m.cells \in Seq(S)
  BY <1>1
<1>3. behind \in Seq(S)
  <2>1. CASE object = "device"
    BY <2>1
  <2>2. CASE object = "applications"
    <3> DEFINE low == m.ints[State] % Base
    <3>1. low \in Nat
      BY <2>2, StructureType, BaseType
    <3>2. behind = IF low = 0 THEN <<End>> ELSE <<low, End>>
      BY <2>2
    <3>3. CASE low = 0
      <4>1. behind = <<End>>
        BY <3>2, <3>3
      <4> HIDE DEF behind
      <4> QED
        BY <4>1
    <3>4. CASE low # 0
      <4>1. behind = <<low, End>>
        BY <3>2, <3>4
      <4> HIDE DEF low, behind
      <4> QED
        BY <3>1, <4>1
    <3> QED
      BY <3>3, <3>4
  <2> QED
    BY <2>1, <2>2
<1>4. /\ cells \in Seq(S) /\ Len(cells) \in Nat /\ Len(cells) >= n
      /\ \A j \in 1..n : cells[j] = m.cells[j]
  <2> HIDE DEF behind, S
  <2> QED
    BY <1>2, <1>3, ConcatProperties
<1>5. StringFrom(m, start) = SubSeq(cells, start, stop - 1)
  BY DEF StringFrom
<1> HIDE DEF behind, cells, S, n
<1>6. e \in start..Len(cells) /\ P(e)
  BY <1>4 DEF n
<1>7. \A k \in start..Len(cells) : P(k) => k = e
  <2> TAKE k \in start..Len(cells)
  <2>1. CASE k < e
    <3>1. k \in start..(e - 1) /\ k \in 1..n
      BY <2>1 DEF n
    <3> QED
      BY <1>4, <3>1
  <2>2. CASE k > e
    <3>1. e \in start..(k - 1)
      BY <2>2
    <3> QED
      BY <1>6, <3>1
  <2> QED
    BY <2>1, <2>2
<1>8. stop = e
  <2> HIDE DEF P
  <2>1. stop \in start..Len(cells) /\ P(stop)
    BY <1>6, Zenon
  <2> HIDE DEF stop
  <2> QED
    BY <1>7, <2>1
<1> HIDE DEF stop
<1>9. SubSeq(cells, start, e - 1) = [i \in 1..(e - start) |-> m.cells[start + i - 1]]
  <2>1. SubSeq(cells, start, e - 1) = [i \in 1..((e - 1) - start + 1) |-> cells[start + i - 1]]
    OBVIOUS
  <2>2. (e - 1) - start + 1 = e - start
    OBVIOUS
  <2>3. ASSUME NEW i \in 1..(e - start)
        PROVE  cells[start + i - 1] = m.cells[start + i - 1]
    <3>1. start + i - 1 \in 1..n
      BY DEF n
    <3> QED
      BY <1>4, <3>1
  <2> QED
    BY <2>1, <2>2, <2>3
<1> QED
  BY <1>5, <1>8, <1>9 DEF Cells

\* What a buffer holds is the string at its start.
LEMMA HeldIsRead ==
    ASSUME object \in {"device", "applications"}, NEW m, Structure(m),
           NEW k \in DOMAIN Strings, NEW text, Holds(m, k, text)
    PROVE  StringFrom(m, Start(Strings[k])) = text
<1> DEFINE n == Len(text)
           b == Offset(k)
<1>1. text \in Seq(Character) /\ n \in Nat /\ n < Size
  BY DEF Holds
<1>2. b \in Nat /\ Size \in Nat /\ b + Size <= Len(m.cells) /\ Start(Strings[k]) = b + 1
  BY StringsOfObject, Offsets, StructureType
<1>3. /\ \A i \in 1..n : m.cells[b + i] = text[i]
      /\ m.cells[b + n + 1] = End
  BY DEF Holds
<1> HIDE DEF b
<1>4. \A j \in (b + 1)..(b + n) : m.cells[j] # End
  <2> TAKE j \in (b + 1)..(b + n)
  <2>1. j - b \in 1..n /\ b + (j - b) = j
    BY <1>1, <1>2
  <2>2. m.cells[j] = text[j - b] /\ text[j - b] \in Character
    BY <1>1, <1>3, <2>1
  <2> QED
    BY <2>2, NoneAssumption
<1>5. StringFrom(m, b + 1) = [i \in 1..n |-> m.cells[b + i]]
  <2> DEFINE e == b + n + 1
             start == b + 1
  <2>1. /\ start \in Nat \ {0} /\ e \in Nat /\ start <= e /\ e <= Len(m.cells)
        /\ e - 1 = b + n /\ e - start = n
    <3>1. Len(m.cells) \in Nat
      BY StructureType
    <3> QED
      BY <1>1, <1>2, <3>1
  <2>2. m.cells[e] = End /\ \A j \in start..(e - 1) : m.cells[j] # End
    BY <1>3, <1>4, <2>1
  <2>3. \A i \in 1..n : start + i - 1 = b + i
    BY <1>2
  <2> HIDE DEF e, start
  <2>4. StringFrom(m, start) = Cells(m, start, e)
    BY <2>1, <2>2, StringEnds
  <2> QED
    BY <2>1, <2>3, <2>4 DEF start, Cells
<1>6. [i \in 1..n |-> m.cells[b + i]] = text
  <2>1. text = [i \in 1..n |-> text[i]]
    BY <1>1
  <2> QED
    BY <1>3, <2>1
<1> QED
  BY <1>2, <1>5, <1>6

\* A buffer with a terminator of its own reads the same in two structures
\* that agree on it up to the first.
LEMMA SameBuffer ==
    ASSUME object \in {"device", "applications"}, NEW m, Structure(m), NEW m2, Structure(m2),
           NEW k \in DOMAIN Strings, Contained(m, Strings[k]),
           \A i \in 1..Size : \/ m2.cells[Offset(k) + i] = m.cells[Offset(k) + i]
                             \/ \E h \in 1..(i - 1) : m.cells[Offset(k) + h] = End
    PROVE  StringFrom(m2, Start(Strings[k])) = StringFrom(m, Start(Strings[k]))
<1> DEFINE b == Offset(k)
           S == {i \in Nat : i \in 1..Size /\ m.cells[b + i] = End}
           e == Min(S)
<1>1. /\ b \in Nat /\ Size \in Nat /\ b + Size <= Len(m.cells) /\ b + Size <= Len(m2.cells)
      /\ Start(Strings[k]) = b + 1 /\ Len(m.cells) \in Nat /\ Len(m2.cells) \in Nat
  BY StringsOfObject, Offsets, StructureType
<1>2. S # {}
  <2>1. PICK j \in (b + 1)..(b + 1 + Size - 1) : m.cells[j] = End
    BY <1>1 DEF Contained
  <2>2. j - b \in 1..Size /\ b + (j - b) = j
    BY <1>1, <2>1
  <2>3. j - b \in S
    BY <2>1, <2>2
  <2> QED
    BY <2>3
<1>3. e \in S /\ \A i \in S : e <= i
  <2>1. S \in SUBSET Nat
    OBVIOUS
  <2> HIDE DEF S
  <2> QED
    BY <1>2, <2>1, LeastElement
<1> HIDE DEF b, e
<1>4. e \in 1..Size /\ m.cells[b + e] = End /\ m2.cells[b + e] = End
  <2>1. e \in 1..Size /\ m.cells[b + e] = End
    BY <1>3
  <2>2. ASSUME NEW h \in 1..(e - 1) PROVE m.cells[b + h] # End
    <3>1. h \in Nat /\ h \in 1..Size /\ ~ (e <= h)
      BY <1>1, <2>1
    <3> QED
      BY <1>3, <3>1
  <2> QED
    BY <2>1, <2>2 DEF b
<1> DEFINE start == b + 1
           stop == b + e
<1>5. /\ start \in Nat \ {0} /\ stop \in Nat /\ start <= stop
      /\ stop <= Len(m.cells) /\ stop <= Len(m2.cells)
  BY <1>1, <1>4
<1>6. ASSUME NEW j \in start..(stop - 1)
      PROVE  m.cells[j] # End /\ m2.cells[j] = m.cells[j]
  <2>1. j - b \in 1..Size /\ b + (j - b) = j /\ j - b < e /\ j - b \in Nat
    BY <1>1, <1>4
  <2>2. m2.cells[b + (j - b)] = m.cells[b + (j - b)]
    <3>1. ASSUME NEW h \in 1..((j - b) - 1) PROVE m.cells[b + h] # End
      <4>1. h \in Nat /\ h \in 1..Size /\ ~ (e <= h)
        BY <1>1, <1>4, <2>1
      <4> QED
        BY <1>3, <4>1
    <3> QED
      BY <2>1, <3>1 DEF b
  <2> QED
    BY <1>3, <2>1, <2>2
<1>7. m.cells[stop] = End /\ m2.cells[stop] = End
  BY <1>4
<1> HIDE DEF start, stop
<1>8. \A j \in start..(stop - 1) : m.cells[j] # End /\ m2.cells[j] = m.cells[j]
  BY <1>6
<1>9. StringFrom(m, start) = Cells(m, start, stop) /\ StringFrom(m2, start) = Cells(m2, start, stop)
  <2>1. StringFrom(m, start) = Cells(m, start, stop)
    BY <1>5, <1>7, <1>8, StringEnds
  <2>2. \A j \in start..(stop - 1) : m2.cells[j] # End
    BY <1>8
  <2>3. StringFrom(m2, start) = Cells(m2, start, stop)
    BY <1>5, <1>7, <2>2, StringEnds
  <2> QED
    BY <2>1, <2>3
<1>10. \A i \in 1..(stop - start) : start + i - 1 \in start..(stop - 1)
  BY <1>5
<1>11. StringFrom(m2, start) = StringFrom(m, start)
  BY <1>8, <1>9, <1>10 DEF Cells
<1> QED
  BY <1>1, <1>11 DEF start


\* m2 is m after a text was put into the k-th buffer, and nothing beyond it.
IsCopy(m, k, text, m2) ==
    LET n == IF Len(text) > Size THEN Size ELSE Len(text)
    IN  /\ Structure(m2)
        /\ \A j \in 1..(Size * Len(Strings)) :
              m2.cells[j] = IF j \in (Offset(k) + 1)..(Offset(k) + n) THEN text[j - Offset(k)]
                            ELSE IF j = Offset(k) + n + 1 THEN End ELSE m.cells[j]
        /\ m2.ints = IF object = "applications" /\ n = Size /\ k = Len(Strings)
                     THEN [m.ints EXCEPT ![State] = @ - (@ % Base)] ELSE m.ints

LEMMA Copied ==
    ASSUME object \in {"device", "applications"}, NEW m, Structure(m),
           NEW k \in DOMAIN Strings, NEW text \in Seq(Character)
    PROVE  IsCopy(m, k, text, Copy(m, Start(Strings[k]), Size, text))
<1> DEFINE n == IF Len(text) > Size THEN Size ELSE Len(text)
           b == Offset(k)
           start == Start(Strings[k])
           cells == [i \in DOMAIN m.cells |->
                       IF i \in start..(start + n - 1) THEN text[i - start + 1]
                       ELSE IF i = start + n THEN End ELSE m.cells[i]]
           total == Size * Len(Strings)
           m2 == Copy(m, start, Size, text)
           reset == [m.ints EXCEPT ![State] = @ - (@ % Base)]
<1>1. /\ n \in 0..Size /\ n <= Len(text) /\ Len(text) \in Nat
      /\ Size \in Nat /\ b \in Nat /\ total \in Nat /\ start = b + 1 /\ b + Size <= total
  <2>1. Size \in Nat /\ b \in Nat /\ total \in Nat /\ start = b + 1 /\ b + Size <= total
    BY Offsets, StringsOfObject
  <2>2. Len(text) \in Nat
    OBVIOUS
  <2> QED
    BY <2>1, <2>2
<1>2. /\ m = [cells |-> m.cells, ints |-> m.ints] /\ DOMAIN m.cells = 1..total
      /\ m.cells \in [1..total -> Character \cup {End}]
      /\ Len(m.cells) = total
  BY StructureType DEF Structure
<1>3. m2 = IF start + n <= Len(m.cells) \/ object = "device" THEN [m EXCEPT !.cells = cells]
           ELSE [m EXCEPT !.cells = cells, !.ints[State] = @ - (@ % Base)]
  BY DEF Copy
<1>4. m2.cells = cells /\ m2 = [cells |-> m2.cells, ints |-> m2.ints]
      /\ m2.ints = IF start + n <= Len(m.cells) \/ object = "device" THEN m.ints ELSE reset
  <2> HIDE DEF cells, m2, n, start
  <2>1. m = [cells |-> m.cells, ints |-> m.ints]
    BY <1>2
  <2> QED
    BY <1>3, <2>1
<1>5. start + n <= Len(m.cells) <=> ~ (n = Size /\ k = Len(Strings))
  <2>1. /\ k < Len(Strings) => b + Size + 1 <= total
        /\ k = Len(Strings) => b + Size = total
        /\ k \in 1..Len(Strings) /\ Len(Strings) \in 1..4
    BY Offsets, StringsOfObject
  <2> HIDE DEF b, total, n, start
  <2> QED
    BY <1>1, <1>2, <2>1
<1>6. m2.ints = IF object = "applications" /\ n = Size /\ k = Len(Strings) THEN reset ELSE m.ints
  <2> HIDE DEF m2, n, start, reset
  <2> QED
    BY <1>4, <1>5
<1>7. ASSUME NEW j \in 1..total
      PROVE  m2.cells[j] = IF j \in (b + 1)..(b + n) THEN text[j - b]
                           ELSE IF j = b + n + 1 THEN End ELSE m.cells[j]
  <2>1. m2.cells[j] = IF j \in start..(start + n - 1) THEN text[j - start + 1]
                      ELSE IF j = start + n THEN End ELSE m.cells[j]
    BY <1>2, <1>4
  <2> HIDE DEF m2, n, start, b
  <2>2. start + n - 1 = b + n /\ j - start + 1 = j - b /\ start + n = b + n + 1
    BY <1>1
  <2> QED
    BY <1>1, <2>1, <2>2
<1>8. m2.cells \in [1..total -> Character \cup {End}]
  <2>1. \A j \in 1..total : m2.cells[j] \in Character \cup {End}
    <3> TAKE j \in 1..total
    <3>1. m.cells[j] \in Character \cup {End}
      BY <1>2
    <3>2. j \in (b + 1)..(b + n) => text[j - b] \in Character
      <4>1. j \in (b + 1)..(b + n) => j - b \in 1..Len(text)
        BY <1>1
      <4> QED
        BY <4>1
    <3> HIDE DEF m2, b, n
    <3> QED
      BY <1>7, <3>1, <3>2
  <2>2. m2.cells = [j \in 1..total |-> m2.cells[j]]
    BY <1>2, <1>4
  <2> HIDE DEF m2
  <2> QED
    BY <2>1, <2>2
<1>9. object = "applications" => Integers64(reset)
  <2>1. SUFFICES ASSUME object = "applications" PROVE Integers64(reset)
    OBVIOUS
  <2> DEFINE v == m.ints[State]
             w == v - (v % Base)
  <2>2. /\ State \in IntegerNames /\ v \in Nat /\ Integers64(m.ints)
        /\ Fits(State, v) /\ m.ints \in [IntegerNames -> Int]
    <3>1. State \in IntegerNames
      BY <2>1 DEF State, IntegerNames, ApplicationIntegers
    <3> QED
      BY <2>1, <3>1, StructureType DEF Structure, Integers64
  <2>3. w \in Nat /\ w <= v
    <3> HIDE DEF v
    <3>1. v \div Base \in Nat /\ v % Base \in 0..(Base - 1) /\ v = (v \div Base) * Base + (v % Base)
      BY <2>2, BaseType, Division
    <3> DEFINE q == v \div Base
    <3>2. q * Base \in Nat
      <4>1. q \in Nat /\ Base \in Nat
        BY <3>1, BaseType
      <4> HIDE DEF q
      <4> QED
        BY <4>1
    <3> QED
      BY <2>2, <3>1, <3>2
  <2>4. Fits(State, w)
    <3> HIDE DEF w, v
    <3> QED
      BY <2>2, <2>3, ModulusType DEF Fits
  <2> HIDE DEF w
  <2>5. reset = [m.ints EXCEPT ![State] = w]
    BY DEF w
  <2>6. /\ reset \in [IntegerNames -> Int] /\ reset[State] = w
        /\ \A i \in IntegerNames : i # State => reset[i] = m.ints[i]
    BY <2>2, <2>3, <2>5
  <2> HIDE DEF reset, v
  <2> QED
    BY <2>2, <2>4, <2>6 DEF Integers64
<1>10. Structure(m2)
  <2>1. Integers64(m2.ints)
    <3>1. Integers64(m.ints)
      BY DEF Structure
    <3> HIDE DEF reset, m2
    <3> QED
      BY <1>6, <1>9, <3>1
  <2> HIDE DEF m2
  <2> QED
    BY <1>4, <1>8, <2>1 DEF Structure
<1> HIDE DEF m2, total
<1>11. IsCopy(m, k, text, m2)
  BY <1>6, <1>7, <1>10 DEF IsCopy, total
<1> QED
  BY <1>11 DEF m2

-----------------------------------------------------------------------------
(* What a write does                                                        *)

LEMMA SignedType ==
    ASSUME NEW n \in Int
    PROVE  Signed(n) \in Int /\ -Modulus <= 2 * Signed(n) /\ 2 * Signed(n) < Modulus
<1> DEFINE m == Modulus
           r == n % m
<1>1. m \in Nat /\ m > 0
  BY ModulusType, BaseType
<1> HIDE DEF m
<1>2. r \in 0..(m - 1)
  BY <1>1
<1>3. Signed(n) = IF 2 * r < m THEN r ELSE r - m
  BY DEF Signed, Wrapped, m
<1> HIDE DEF r
<1>4. Signed(n) \in Int /\ -m <= 2 * Signed(n) /\ 2 * Signed(n) < m
  BY <1>1, <1>2, <1>3
<1> QED
  BY <1>4 DEF m

LEMMA TextValue ==
    ASSUME NEW text \in Seq(Character)
    PROVE  LET v == PlainTextToInt64(text)
           IN  v = Refused \/ (v \in Int /\ -Modulus <= 2 * v /\ 2 * v < Modulus)
<1> DEFINE negative == text # <<>> /\ text[1] = Minus
           digits == IF negative THEN Tail(text) ELSE text
           value == AddUp(digits, 10)
           w == IF negative THEN -value ELSE value
           v == PlainTextToInt64(text)
<1>1. v = IF text = <<>> \/ \E i \in DOMAIN digits : digits[i] \notin 0..9
          THEN Refused ELSE Signed(w)
  BY DEF PlainTextToInt64
<1>2. CASE text = <<>> \/ \E i \in DOMAIN digits : digits[i] \notin 0..9
  BY <1>1, <1>2
<1>3. CASE text # <<>> /\ \A i \in DOMAIN digits : digits[i] \in 0..9
  <2>1. digits \in Seq(Character)
    BY <1>3
  <2>2. digits \in Seq(Nat)
    <3> HIDE DEF digits
    <3>1. \A i \in 1..Len(digits) : digits[i] \in Nat
      BY <1>3, <2>1
    <3> QED
      BY <2>1, <3>1
  <2> HIDE DEF digits
  <2>3. value \in Nat
    BY <2>2, AddUpType
  <2>4. w \in Int
    BY <2>3
  <2> HIDE DEF w
  <2>5. Signed(w) \in Int /\ -Modulus <= 2 * Signed(w) /\ 2 * Signed(w) < Modulus
    BY <2>4, SignedType
  <2>6. v = Signed(w)
    BY <1>1, <1>3
  <2> HIDE DEF v
  <2> QED
    BY <2>5, <2>6 DEF v
<1> QED
  BY <1>2, <1>3

\* A text is put into the k-th buffer of an instance; the time is set.
StringEffect(inst, k, text) ==
    /\ memory' = [memory EXCEPT ![inst] = Copy(@, Start(Strings[k]), Size, text)]
    /\ written' = [written EXCEPT ![inst].texts[Strings[k]] = text]
    /\ overlong' = IF Len(text) >= Size THEN overlong \cup {inst} ELSE overlong

TimeEffect(value) == Puts(0, [n \in {TimeName} |-> value])

LEMMA WriteEffect ==
    ASSUME Filled, Write
    PROVE  \/ UNCHANGED <<memory, written, overlong>>
           \/ \E inst \in Instances, k \in DOMAIN Strings, text \in Seq(Character) :
                 StringEffect(inst, k, text)
           \/ \E value \in Int : /\ object = "device" /\ TimeEffect(value)
                                 /\ -Modulus <= 2 * value /\ 2 * value < Modulus
<1> DEFINE o == object
<1>1. Serving
  BY DEF Write, Steps
<1>2. PICK p \in Paths, text \in Payloads :
         /\ p.res # None /\ SlotOf(p) <= Len(slots)
         /\ slots[SlotOf(p)].at = "RW" /\ slots[SlotOf(p)].nof = 1
         /\ IF slots[SlotOf(p)].type = "STRING" THEN WriteString(SlotOf(p), InstanceOf(p), text)
                                                ELSE WriteInteger(SlotOf(p), InstanceOf(p), text)
  BY DEF Write
<1>3. text \in Seq(Character)
  BY InputAssumption
<1> DEFINE id == p.res
           inst == InstanceOf(p)
           slot == SlotOf(p)
           pointer == PointerAt(slot, inst, 0)
<1>4. inst \in Nat /\ id \in Nat /\ id \in Ids(o) /\ slot = id + 1
  BY <1>1, <1>2, PathSlot
<1>5. /\ slots[slot].type = TypeOf(o, id) /\ AtOf(o, id) = "RW"
      /\ TypeOf(o, id) = "STRING" => slots[slot].size = Size
  <2>1. /\ slots[slot].type = TypeOf(o, id) /\ slots[slot].at = AtOf(o, id)
        /\ TypeOf(o, id) = "STRING" => slots[slot].size = SizeOf(o, id)
    BY <1>1, <1>4, FullSlot
  <2> QED
    BY <1>2, <2>1 DEF SizeOf
<1>6. /\ o \in {"device", "applications"}
      /\ \/ pointer \in {None, Undefined, Literal(<<Other>>)}
         \/ /\ <<id, inst, 0>> \in ValuesOf(o)
            /\ pointer = PointerOf(o, id, inst, 0)
  <2>1. o \in {"device", "applications"}
    BY <1>1, FullTable
  <2>2. \/ PointerAt(id + 1, inst, 0) \in {None, Undefined, Literal(<<Other>>)}
        \/ /\ <<id, inst, 0>> \in ValuesOf(o)
           /\ PointerAt(id + 1, inst, 0) = PointerOf(o, id, inst, 0)
    <3>1. 0 \in 0..2
      OBVIOUS
    <3> HIDE DEF id, inst
    <3> QED
      BY <1>1, <1>4, <3>1, PathsLead, Zenon
  <2> QED
    BY <1>4, <2>1, <2>2
<1>7. Literal(<<Other>>).kind = "literal"
  BY DEF Literal
<1>8. CASE TypeOf(o, id) = "STRING"
  <2>1. WriteString(slot, inst, text)
    BY <1>2, <1>5, <1>8
  <2>2. CASE pointer \in {None, Undefined, Literal(<<Other>>)}
    BY <1>7, <2>1, <2>2 DEF WriteString
  <2>3. CASE <<id, inst, 0>> \in ValuesOf(o) /\ pointer = PointerOf(o, id, inst, 0)
    <3>1. inst \in Instances
      BY <1>6, <2>3, ValueType DEF InstancesOf, Instances
    <3>2. pointer = Buffer(inst, BufferName(o, id)) /\ pointer \in Pointers
      BY <1>5, <1>6, <1>8, <2>3, ValueType DEF PointerOf
    <3>3. PICK k \in DOMAIN Strings : BufferName(o, id) = Strings[k]
      BY <1>4, <1>5, <1>6, <1>8, StringsOfObject
    <3>4. /\ pointer.kind = "buffer" /\ pointer.inst = inst /\ pointer.name = Strings[k]
          /\ pointer \notin {None, Undefined}
      BY <3>2, <3>3, NoneAssumption DEF Buffer
    <3> HIDE DEF pointer, inst, slot
    <3>5. StringEffect(inst, k, text)
      BY <1>5, <1>8, <2>1, <3>4 DEF WriteString, StringEffect, pointer
    <3> QED
      BY <1>3, <3>1, <3>5
  <2> QED
    BY <1>6, <2>2, <2>3
<1>9. CASE TypeOf(o, id) # "STRING"
  <2>1. WriteInteger(slot, inst, text)
    BY <1>2, <1>5, <1>9
  <2> DEFINE value == PlainTextToInt64(text)
  <2>2. value \in Int /\ -Modulus <= 2 * value /\ 2 * value < Modulus
    <3>1. value # Refused
      BY <2>1 DEF WriteInteger
    <3> QED
      BY <1>3, <3>1, TextValue
  <2>3. o = "device" /\ id = 13
    BY <1>4, <1>5, <1>6, <1>9 DEF TypeOf, AtOf
  <2>4. CASE pointer \in {None, Undefined, Literal(<<Other>>)}
    BY <1>7, <2>1, <2>4 DEF WriteInteger
  <2>5. CASE <<id, inst, 0>> \in ValuesOf(o) /\ pointer = PointerOf(o, id, inst, 0)
    <3>1. inst = 0
      BY <1>6, <2>3, <2>5, ValueType
    <3>2. pointer = Integer(0, "cur_time", 0) /\ pointer \in Pointers
      <4>1. pointer \in Pointers
        BY <1>6, <2>5, ValueType
      <4>2. PointerOf("device", 13, 0, 0) = Integer(0, "cur_time", 0)
        BY DEF PointerOf, TypeOf, IntegerName
      <4> QED
        BY <2>3, <2>5, <3>1, <4>1, <4>2
    <3>3. /\ pointer.kind = "integer" /\ pointer.inst = 0 /\ pointer.name = TimeName
          /\ pointer # None /\ pointer # Undefined
      BY <3>2, NoneAssumption DEF Integer, TimeName
    <3> HIDE DEF pointer, inst, slot, value
    <3>4. TimeEffect(value)
      BY <2>1, <3>3 DEF WriteInteger, TimeEffect, pointer, value
    <3> QED
      BY <2>2, <2>3, <3>4
  <2> QED
    BY <1>6, <2>4, <2>5
<1> QED
  BY <1>8, <1>9

-----------------------------------------------------------------------------
(* Memory keeps what was written                                            *)

Record(w) ==
    /\ w = [texts |-> w.texts, ints |-> w.ints]
    /\ w.texts \in [Range(Strings) -> Seq(Character)]

\* A structure keeps what was put into it.
Kept(m, w) ==
    /\ m.ints = w.ints
    /\ \A k \in DOMAIN Strings : Holds(m, k, w.texts[Strings[k]])

Structured ==
    /\ memory = [inst \in Instances |-> memory[inst]]
    /\ \A inst \in Instances : Structure(memory[inst])
    /\ written = [inst \in Instances |-> written[inst]]
    /\ \A inst \in Instances : Record(written[inst])
    /\ \A inst \in Instances \ overlong : Kept(memory[inst], written[inst])

LEMMA StoredType ==
    ASSUME NEW ints, Integers64(ints), NEW new, \A n \in DOMAIN new : Fits(n, new[n])
    PROVE  Integers64(Stored(ints, new))
<1> DEFINE t == Stored(ints, new)
<1>1. /\ t = [n \in DOMAIN ints |-> IF n \in DOMAIN new THEN new[n] ELSE ints[n]]
      /\ DOMAIN ints = IntegerNames
  BY DEF Stored, Integers64
<1>2. \A n \in IntegerNames : Fits(n, t[n])
  BY <1>1 DEF Integers64
<1>3. t = [n \in IntegerNames |-> t[n]]
  BY <1>1
<1> HIDE DEF t
<1>4. \A n \in IntegerNames : t[n] \in Int
  BY <1>2 DEF Fits
<1>5. Integers64(t)
  BY <1>2, <1>3, <1>4 DEF Integers64
<1> QED
  BY <1>5 DEF t

\* The integers that the constructors put in.
LEMMA BuiltIntegers ==
    /\ object = "device" => Integers64(DeviceIntegers)
    /\ object = "applications" => Integers64(ApplicationIntegers)
<1>1. \A v \in 0..100 : \A n : Fits(n, v)
  <2>1. Modulus \in Nat /\ 2 * 5000 < Modulus
    BY ModulusType, WidthAssumption
  <2> QED
    BY <2>1 DEF Fits
<1>2. ASSUME object = "device" PROVE Integers64(DeviceIntegers)
  <2> DEFINE S == DOMAIN DeviceIntegers
  <2>1. IntegerNames = S
    BY <1>2 DEF IntegerNames
  <2>2. S = (DOMAIN PowerSources) \X (0..2)
            \cup {"battery_level", "memory_free", "error_code", "cur_time"} \X {0}
    BY DEF DeviceIntegers
  <2>3. \A n \in S : DeviceIntegers[n] =
                        IF n[1] \in DOMAIN PowerSources THEN PowerSources[n[1]][n[2] + 1] ELSE 0
    BY DEF DeviceIntegers
  <2>4. /\ DOMAIN PowerSources = {"power_sources", "ps_voltage", "ps_current"}
        /\ PowerSources["power_sources"] = <<0, 2, 7>>
        /\ PowerSources["ps_voltage"] = <<100, 80, 80>>
        /\ PowerSources["ps_current"] = <<10, 8, 8>>
    BY DEF PowerSources
  <2>5. \A x \in DOMAIN PowerSources : \A i \in 1..3 : PowerSources[x][i] \in 0..100
    <3>1. /\ \A i \in 1..3 : <<0, 2, 7>>[i] \in 0..100
          /\ \A i \in 1..3 : <<100, 80, 80>>[i] \in 0..100
          /\ \A i \in 1..3 : <<10, 8, 8>>[i] \in 0..100
      OBVIOUS
    <3> QED
      BY <2>4, <3>1
  <2>6. \A n \in S : n[1] \in DOMAIN PowerSources => n[2] + 1 \in 1..3
    <3> TAKE n \in S
    <3>1. CASE n \in (DOMAIN PowerSources) \X (0..2)
      BY <3>1
    <3>2. CASE n \in {"battery_level", "memory_free", "error_code", "cur_time"} \X {0}
      BY <3>2
    <3> QED
      BY <2>2, <3>1, <3>2
  <2>7. \A n \in S : DeviceIntegers[n] \in 0..100
    BY <2>3, <2>5, <2>6
  <2>8. DeviceIntegers = [n \in S |-> DeviceIntegers[n]]
    BY DEF DeviceIntegers
  <2>9. \A n \in S : Fits(n, DeviceIntegers[n]) /\ DeviceIntegers[n] \in Int
    BY <1>1, <2>7
  <2> HIDE DEF S
  <2> QED
    BY <2>1, <2>8, <2>9 DEF Integers64
<1>3. ASSUME object = "applications" PROVE Integers64(ApplicationIntegers)
  <2>1. IntegerNames = DOMAIN ApplicationIntegers
    BY <1>3 DEF IntegerNames
  <2>2. \A n \in DOMAIN ApplicationIntegers : ApplicationIntegers[n] = 0
    BY DEF ApplicationIntegers
  <2>3. ApplicationIntegers = [n \in DOMAIN ApplicationIntegers |-> ApplicationIntegers[n]]
    BY DEF ApplicationIntegers
  <2>4. \A n \in DOMAIN ApplicationIntegers :
           Fits(n, ApplicationIntegers[n]) /\ ApplicationIntegers[n] \in Int
    BY <1>1, <2>2
  <2> QED
    BY <2>1, <2>3, <2>4 DEF Integers64
<1> QED
  BY <1>2, <1>3

LEMMA StructuredInit == Init => Structured
<1> SUFFICES ASSUME Init PROVE Structured
  OBVIOUS
<1> DEFINE total == Size * Len(Strings)
           texts == IF object = "device" THEN DeviceTexts ELSE [name \in Range(Strings) |-> <<>>]
           ints == IF object = "device" THEN DeviceIntegers ELSE ApplicationIntegers
           cells == [k \in 1..total |->
                       LET text == texts[Strings[1 + ((k - 1) \div Size)]]
                           at   == 1 + ((k - 1) % Size)
                       IN  IF at <= Len(text) THEN text[at] ELSE End]
<1>1. object \in {"device", "applications"}
  BY InputAssumption DEF Init
<1>2. /\ Size \in Nat /\ Size >= 1 /\ total \in Nat /\ Len(Strings) \in 1..4
      /\ DOMAIN Strings = 1..Len(Strings)
  BY <1>1, StringsOfObject, TableAssumption
<1>3. \A inst \in Instances : written[inst] = [texts |-> texts, ints |-> ints]
  BY <1>1 DEF Init
<1>4. \A inst \in Instances : memory[inst] = [cells |-> cells, ints |-> ints]
  BY <1>3 DEF Init
<1>5. /\ memory = [inst \in Instances |-> memory[inst]]
      /\ written = [inst \in Instances |-> written[inst]]
  <2>1. memory = [inst \in Instances |->
          [cells |-> [k \in 1..(Size * Len(Strings)) |->
                        LET text == written[inst].texts[Strings[1 + ((k - 1) \div Size)]]
                            at   == 1 + ((k - 1) % Size)
                        IN  IF at <= Len(text) THEN text[at] ELSE End],
           ints  |-> written[inst].ints]]
    BY DEF Init
  <2>2. written = [inst \in Instances |->
          IF object = "device" THEN [texts |-> DeviceTexts, ints |-> DeviceIntegers]
          ELSE [texts |-> [name \in Range(Strings) |-> <<>>], ints |-> ApplicationIntegers]]
    BY DEF Init
  <2> QED
    BY <2>1, <2>2
<1>6. texts \in [Range(Strings) -> Seq(Character)] /\ \A x \in Range(Strings) : Len(texts[x]) < Size
  <2>1. CASE object = "device"
    <3>1. Range(Strings) = {"utc_offset", "time_zone"}
      BY <2>1 DEF Range, Strings
    <3>2. /\ Built[14] \in Seq(Character) /\ Built[15] \in Seq(Character)
          /\ Len(Built[14]) < Size /\ Len(Built[15]) < Size
      BY InputAssumption
    <3>3. texts = [utc_offset |-> Built[14], time_zone |-> Built[15]]
      BY <2>1 DEF DeviceTexts
    <3> HIDE DEF texts
    <3> QED
      BY <3>1, <3>2, <3>3
  <2>2. CASE object = "applications"
    <3>1. texts = [name \in Range(Strings) |-> <<>>]
      BY <2>2
    <3>2. <<>> \in Seq(Character) /\ Len(<<>>) = 0
      OBVIOUS
    <3> HIDE DEF texts
    <3> QED
      BY <1>2, <3>1, <3>2
  <2> QED
    BY <1>1, <2>1, <2>2
<1>7. Integers64(ints)
  BY <1>1, BuiltIntegers
<1> HIDE DEF texts, ints
<1>8. ASSUME NEW k \in DOMAIN Strings, NEW i \in 1..Size
      PROVE  /\ Offset(k) + i \in 1..total
             /\ cells[Offset(k) + i] = IF i <= Len(texts[Strings[k]]) THEN texts[Strings[k]][i] ELSE End
  <2> DEFINE b == Offset(k)
             j == b + i
  <2>1. b \in Nat /\ b + Size <= total /\ b = Size * (k - 1)
    BY <1>1, Offsets DEF Offset
  <2>2. j \in 1..total
    <3> HIDE DEF b, total
    <3> QED
      BY <1>2, <2>1
  <2>3. (j - 1) \div Size = k - 1 /\ (j - 1) % Size = i - 1
    <3>1. k - 1 \in Nat /\ i - 1 \in 0..(Size - 1)
      BY <1>2
    <3>2. \A q \in Nat, r \in 0..(Size - 1) :
             (Size * q + r) \div Size = q /\ (Size * q + r) % Size = r
      <4> TAKE q \in Nat, r \in 0..(Size - 1)
      <4> QED
        BY <1>2
    <3>3. j - 1 = Size * (k - 1) + (i - 1)
      BY <1>2, <2>1
    <3> HIDE DEF b, j
    <3> QED
      BY <3>1, <3>2, <3>3
  <2>4. 1 + (k - 1) = k /\ 1 + (i - 1) = i
    BY <1>2
  <2>5. cells[j] = LET text == texts[Strings[1 + ((j - 1) \div Size)]]
                       at   == 1 + ((j - 1) % Size)
                   IN  IF at <= Len(text) THEN text[at] ELSE End
    BY <2>2
  <2> HIDE DEF j, cells
  <2> QED
    BY <2>2, <2>3, <2>4, <2>5 DEF j
<1>9. ASSUME NEW j \in 1..total
      PROVE  cells[j] \in Character \cup {End}
  <2> DEFINE k == 1 + ((j - 1) \div Size)
             i == 1 + ((j - 1) % Size)
             text == texts[Strings[k]]
  <2>1. k \in DOMAIN Strings /\ i \in Nat /\ i >= 1
    <3> DEFINE n == Len(Strings)
    <3>1. j - 1 \in Nat /\ j - 1 < Size * n /\ n \in Nat
      BY <1>2
    <3> HIDE DEF n
    <3>2. (j - 1) \div Size \in 0..(n - 1) /\ (j - 1) % Size \in Nat
      BY <1>2, <3>1
    <3> QED
      BY <1>2, <3>2 DEF n
  <2>2. cells[j] = IF i <= Len(text) THEN text[i] ELSE End
    OBVIOUS
  <2> HIDE DEF k, i
  <2>3. Strings[k] \in Range(Strings)
    BY <1>1, <2>1, StringsOfObject
  <2>4. text \in Seq(Character)
    BY <1>6, <2>3
  <2> HIDE DEF text, cells
  <2> QED
    BY <2>1, <2>2, <2>4
<1>10. cells \in [1..total -> Character \cup {End}]
  BY <1>9
<1> HIDE DEF cells
<1> DEFINE m == [cells |-> cells, ints |-> ints]
           w == [texts |-> texts, ints |-> ints]
<1>11. m.cells = cells /\ m.ints = ints /\ w.texts = texts /\ w.ints = ints
  OBVIOUS
<1> HIDE DEF m, w
<1>12. Structure(m) /\ Record(w)
  BY <1>6, <1>7, <1>10, <1>11 DEF Structure, Record, m, w
<1>13. Kept(m, w)
  <2>1. ASSUME NEW k \in DOMAIN Strings
        PROVE  Holds(m, k, texts[Strings[k]])
    <3> DEFINE text == texts[Strings[k]]
    <3>1. text \in Seq(Character) /\ Len(text) < Size /\ Len(text) \in Nat
      <4>1. Strings[k] \in Range(Strings)
        BY <1>1, <2>1, StringsOfObject
      <4> QED
        BY <1>6, <4>1
    <3> HIDE DEF text
    <3>2. \A i \in 1..Size : cells[Offset(k) + i] = IF i <= Len(text) THEN text[i] ELSE End
      BY <1>8 DEF text
    <3>3. \A i \in 1..Len(text) : cells[Offset(k) + i] = text[i]
      BY <1>2, <3>1, <3>2
    <3>4. cells[Offset(k) + Len(text) + 1] = End
      <4>1. Len(text) + 1 \in 1..Size /\ ~ (Len(text) + 1 <= Len(text))
        BY <1>2, <3>1
      <4>2. Offset(k) + (Len(text) + 1) = Offset(k) + Len(text) + 1
        BY <1>1, <3>1, Offsets
      <4> QED
        BY <3>2, <4>1, <4>2
    <3> QED
      BY <1>11, <3>1, <3>3, <3>4 DEF Holds, text
  <2> QED
    BY <1>11, <2>1 DEF Kept
<1> QED
  BY <1>3, <1>4, <1>5, <1>12, <1>13 DEF Structured, m, w

\* The invariant of three values for memory, written and overlong.
StructuredAs(mem, put, long) ==
    /\ mem = [inst \in Instances |-> mem[inst]]
    /\ \A inst \in Instances : Structure(mem[inst])
    /\ put = [inst \in Instances |-> put[inst]]
    /\ \A inst \in Instances : Record(put[inst])
    /\ \A inst \in Instances \ long : Kept(mem[inst], put[inst])

LEMMA StructuredNext ==
    ASSUME object' = object
    PROVE  Structured' <=> StructuredAs(memory', written', overlong')
<1>1. Strings' = Strings /\ Instances' = Instances /\ IntegerNames' = IntegerNames
  BY DEF Strings, Instances, IntegerNames, DeviceIntegers, ApplicationIntegers
<1>2. \A m : Structure(m)' <=> Structure(m)
  BY <1>1 DEF Structure, Integers64, Fits
<1>3. \A m, w : Kept(m, w)' <=> Kept(m, w)
  BY <1>1 DEF Kept, Holds, Offset
<1>4. \A w : Record(w)' <=> Record(w)
  BY <1>1 DEF Record
<1> QED
  BY <1>1, <1>2, <1>3, <1>4 DEF Structured, StructuredAs


\* A text that is put into one buffer leaves the others alone, but for the
\* first cell of the next if it is as long as the buffer.
LEMMA OtherBuffer ==
    ASSUME object \in {"device", "applications"}, NEW m, Structure(m),
           NEW k \in DOMAIN Strings, NEW text \in Seq(Character),
           NEW j \in DOMAIN Strings, j # k, NEW i \in 1..Size,
           j = k + 1 => Len(text) < Size \/ i > 1
    PROVE  Copy(m, Start(Strings[k]), Size, text).cells[Offset(j) + i] = m.cells[Offset(j) + i]
<1> DEFINE n == IF Len(text) > Size THEN Size ELSE Len(text)
           a == Offset(j)
           b == Offset(k)
           total == Size * Len(Strings)
           m2 == Copy(m, Start(Strings[k]), Size, text)
<1>1. \A x \in 1..total : m2.cells[x] = IF x \in (b + 1)..(b + n) THEN text[x - b]
                                       ELSE IF x = b + n + 1 THEN End ELSE m.cells[x]
  <2>1. IsCopy(m, k, text, m2)
    BY Copied
  <2> HIDE DEF m2
  <2> QED
    BY <2>1 DEF IsCopy
<1>2. /\ a \in Nat /\ b \in Nat /\ Size \in Nat /\ total \in Nat /\ a + Size <= total
      /\ j < k => a + Size <= b
      /\ j = k + 1 => a = b + Size
      /\ j > k + 1 => b + Size + 1 <= a
      /\ j \in Nat /\ k \in Nat
  <2>1. j \in Nat /\ k \in Nat
    BY StringsOfObject
  <2>2. /\ a \in Nat /\ b \in Nat /\ Size \in Nat /\ total \in Nat /\ a + Size <= total
        /\ j < k => a + Size <= b
        /\ j > k + 1 => b + Size + 1 <= a
        /\ Offset(k + 1) = b + Size
    BY Offsets
  <2> QED
    BY <2>1, <2>2
<1>3. Len(text) \in Nat
  OBVIOUS
<1> HIDE DEF a, b, total, m2
<1>4. a + i \in 1..total /\ a + i \notin (b + 1)..(b + n) /\ a + i # b + n + 1
  BY <1>2, <1>3
<1> HIDE DEF n
<1>5. m2.cells[a + i] = m.cells[a + i]
  BY <1>1, <1>4
<1> QED
  BY <1>5 DEF m2, a

\* A text shorter than the buffer is held by it, and the others hold what they
\* held.
LEMMA TextIsKept ==
    ASSUME object \in {"device", "applications"}, NEW m, Structure(m), NEW w, Record(w), Kept(m, w),
           NEW k \in DOMAIN Strings, NEW text \in Seq(Character), Len(text) < Size
    PROVE  Kept(Copy(m, Start(Strings[k]), Size, text), [w EXCEPT !.texts[Strings[k]] = text])
<1> DEFINE m2 == Copy(m, Start(Strings[k]), Size, text)
           w2 == [w EXCEPT !.texts[Strings[k]] = text]
           n == Len(text)
           b == Offset(k)
           total == Size * Len(Strings)
<1>1. /\ Size \in Nat /\ total \in Nat /\ n \in Nat /\ n < Size /\ b \in Nat /\ b + Size <= total
      /\ (IF Len(text) > Size THEN Size ELSE Len(text)) = n
  <2>1. Size \in Nat /\ total \in Nat /\ b \in Nat /\ b + Size <= total
    BY Offsets
  <2>2. n \in Nat /\ n < Size
    OBVIOUS
  <2> QED
    BY <2>1, <2>2
<1>2. /\ \A x \in 1..total : m2.cells[x] = IF x \in (b + 1)..(b + n) THEN text[x - b]
                                          ELSE IF x = b + n + 1 THEN End ELSE m.cells[x]
      /\ m2.ints = m.ints
  <2>1. n # Size
    BY <1>1
  <2> QED
    <3>1. IsCopy(m, k, text, m2)
      BY Copied
    <3> HIDE DEF m2
    <3> QED
      BY <1>1, <2>1, <3>1 DEF IsCopy
<1>3. /\ w2.ints = w.ints /\ w2.texts = [w.texts EXCEPT ![Strings[k]] = text]
      /\ w.texts \in [Range(Strings) -> Seq(Character)]
  BY DEF Record
<1>4. ASSUME NEW j \in DOMAIN Strings
      PROVE  /\ Strings[j] \in Range(Strings)
             /\ w2.texts[Strings[j]] = IF j = k THEN text ELSE w.texts[Strings[j]]
  <2>1. Strings[j] \in Range(Strings)
    BY StringsOfObject
  <2>2. Strings[j] = Strings[k] => j = k
    BY StringsOfObject
  <2> QED
    BY <1>3, <2>1, <2>2
<1> HIDE DEF m2, w2
<1>5. Holds(m2, k, text)
  <2>1. ASSUME NEW i \in 1..n PROVE m2.cells[b + i] = text[i]
    <3> HIDE DEF b, n, total
    <3>1. b + i \in 1..total /\ b + i \in (b + 1)..(b + n) /\ (b + i) - b = i
      BY <1>1
    <3> QED
      BY <1>2, <3>1
  <2>2. m2.cells[b + n + 1] = End
    <3> HIDE DEF b, n, total
    <3>1. b + n + 1 \in 1..total /\ b + n + 1 \notin (b + 1)..(b + n)
      BY <1>1
    <3> QED
      BY <1>2, <3>1
  <2> QED
    BY <1>1, <2>1, <2>2 DEF Holds
<1>6. ASSUME NEW j \in DOMAIN Strings, j # k
      PROVE  Holds(m2, j, w.texts[Strings[j]])
  <2> DEFINE t == w.texts[Strings[j]]
             a == Offset(j)
  <2>1. Holds(m, j, t)
    BY DEF Kept
  <2>2. \A i \in 1..Size : m2.cells[a + i] = m.cells[a + i]
    BY <1>6, OtherBuffer DEF m2
  <2>3. t \in Seq(Character) /\ Len(t) \in Nat /\ Len(t) < Size /\ a \in Nat
    BY <2>1, Offsets DEF Holds
  <2>4. /\ \A i \in 1..Len(t) : m.cells[a + i] = t[i]
        /\ m.cells[a + Len(t) + 1] = End
    BY <2>1 DEF Holds
  <2> HIDE DEF t, a
  <2>5. a + (Len(t) + 1) = a + Len(t) + 1 /\ Len(t) + 1 \in 1..Size
        /\ \A i \in 1..Len(t) : i \in 1..Size
    BY <1>1, <2>3
  <2>6. m2.cells[a + Len(t) + 1] = End
    BY <2>2, <2>4, <2>5
  <2>7. \A i \in 1..Len(t) : m2.cells[a + i] = t[i]
    BY <2>2, <2>4, <2>5
  <2>8. Holds(m2, j, t)
    BY <2>3, <2>6, <2>7 DEF Holds, a
  <2> QED
    BY <2>8 DEF t
<1>7. \A j \in DOMAIN Strings : Holds(m2, j, w2.texts[Strings[j]])
  BY <1>4, <1>5, <1>6
<1>8. m2.ints = w2.ints
  BY <1>2, <1>3 DEF Kept
<1>9. Kept(m2, w2)
  BY <1>7, <1>8 DEF Kept
<1> QED
  BY <1>9 DEF m2, w2

LEMMA StringKeepsStructure ==
    ASSUME object \in {"device", "applications"}, Structured, NEW inst \in Instances,
           NEW k \in DOMAIN Strings, NEW text \in Seq(Character), StringEffect(inst, k, text)
    PROVE  StructuredAs(memory', written', overlong')
<1> DEFINE m2 == Copy(memory[inst], Start(Strings[k]), Size, text)
           w == written[inst]
           w2 == [w EXCEPT !.texts[Strings[k]] = text]
<1>1. /\ memory' = [memory EXCEPT ![inst] = m2]
      /\ written' = [written EXCEPT ![inst] = w2]
      /\ overlong' = IF Len(text) >= Size THEN overlong \cup {inst} ELSE overlong
  <2>1. inst \in DOMAIN written
    BY DEF Structured
  <2> QED
    BY <2>1 DEF StringEffect
<1>2. /\ memory' = [i \in Instances |-> memory'[i]] /\ memory'[inst] = m2
      /\ written' = [i \in Instances |-> written'[i]] /\ written'[inst] = w2
      /\ \A i \in Instances \ {inst} : memory'[i] = memory[i] /\ written'[i] = written[i]
  <2> HIDE DEF m2, w2
  <2> QED
    BY <1>1 DEF Structured
<1>3. Structure(memory[inst]) /\ Record(w)
  BY DEF Structured
<1>4. Structure(m2)
  BY <1>3, Copied DEF IsCopy
<1>5. Record(w2)
  <2>1. /\ w2 = [texts |-> w2.texts, ints |-> w2.ints]
        /\ w2.texts = [w.texts EXCEPT ![Strings[k]] = text]
    <3>1. w = [texts |-> w.texts, ints |-> w.ints]
      BY <1>3 DEF Record
    <3> DEFINE name == Strings[k]
    <3> HIDE DEF w, name
    <3>2. \A r : r = [texts |-> r.texts, ints |-> r.ints] =>
             LET q == [r EXCEPT !.texts[name] = text]
             IN  q = [texts |-> q.texts, ints |-> q.ints] /\ q.texts = [r.texts EXCEPT ![name] = text]
      OBVIOUS
    <3> QED
      BY <3>1, <3>2 DEF name
  <2>2. w2.texts \in [Range(Strings) -> Seq(Character)]
    BY <1>3, <2>1, StringsOfObject DEF Record
  <2> HIDE DEF w2
  <2> QED
    BY <2>1, <2>2 DEF Record
<1>6. inst \notin overlong' => Kept(m2, w2)
  <2>1. SUFFICES ASSUME inst \notin overlong' PROVE Kept(m2, w2)
    OBVIOUS
  <2>2. Len(text) < Size /\ inst \notin overlong
    <3>1. Len(text) \in Nat /\ Size \in Nat
      BY Offsets
    <3> QED
      BY <1>1, <2>1, <3>1
  <2>3. Kept(memory[inst], w)
    BY <2>2 DEF Structured
  <2> QED
    BY <1>3, <2>2, <2>3, TextIsKept
<1>7. \A i \in Instances : i \notin overlong' => i \notin overlong
  BY <1>1
<1> HIDE DEF m2, w2
<1>8. \A i \in Instances : Structure(memory'[i])
  BY <1>2, <1>4 DEF Structured
<1>9. \A i \in Instances : Record(written'[i])
  BY <1>2, <1>5 DEF Structured
<1>10. \A i \in Instances \ overlong' : Kept(memory'[i], written'[i])
  BY <1>2, <1>6, <1>7 DEF Structured
<1> QED
  BY <1>2, <1>8, <1>9, <1>10 DEF StructuredAs

\* Integers of a structure are set.
LEMMA IntegersKeepStructure ==
    ASSUME Structured, NEW inst \in Instances, NEW new, \A n \in DOMAIN new : Fits(n, new[n]),
           Puts(inst, new)
    PROVE  StructuredAs(memory', written', overlong')
<1> DEFINE m == memory[inst]
           w == written[inst]
           m2 == [m EXCEPT !.ints = Stored(@, new)]
           w2 == [w EXCEPT !.ints = Stored(@, new)]
<1>1. /\ memory' = [memory EXCEPT ![inst] = m2]
      /\ written' = [written EXCEPT ![inst] = w2]
      /\ overlong' = overlong
  BY DEF Structured, Puts
<1>2. /\ memory' = [i \in Instances |-> memory'[i]] /\ memory'[inst] = m2
      /\ written' = [i \in Instances |-> written'[i]] /\ written'[inst] = w2
      /\ \A i \in Instances \ {inst} : memory'[i] = memory[i] /\ written'[i] = written[i]
  <2> HIDE DEF m2, w2
  <2> QED
    BY <1>1 DEF Structured
<1>3. Structure(m) /\ Record(w) /\ (inst \notin overlong => Kept(m, w))
  BY DEF Structured
<1>4. /\ m2 = [cells |-> m2.cells, ints |-> m2.ints]
      /\ m2.cells = m.cells /\ m2.ints = Stored(m.ints, new)
      /\ w2 = [texts |-> w2.texts, ints |-> w2.ints]
      /\ w2.texts = w.texts /\ w2.ints = Stored(w.ints, new)
  <2>1. m = [cells |-> m.cells, ints |-> m.ints] /\ w = [texts |-> w.texts, ints |-> w.ints]
    BY <1>3 DEF Structure, Record
  <2> HIDE DEF m, w
  <2> QED
    BY <2>1
<1> HIDE DEF m, w, m2, w2
<1>5. Structure(m2) /\ Record(w2)
  <2>1. Integers64(Stored(m.ints, new))
    BY <1>3, StoredType DEF Structure
  <2> QED
    BY <1>3, <1>4, <2>1 DEF Structure, Record
<1>6. Kept(m, w) => Kept(m2, w2)
  BY <1>4 DEF Kept, Holds
<1>7. \A i \in Instances : Structure(memory'[i]) /\ Record(written'[i])
  BY <1>2, <1>5 DEF Structured
<1>8. \A i \in Instances \ overlong' : Kept(memory'[i], written'[i])
  BY <1>1, <1>2, <1>3, <1>6 DEF Structured
<1> QED
  BY <1>2, <1>7, <1>8 DEF StructuredAs

\* What Left leaves of a text is what is before the first place at which a
\* string ends.
LEMMA LeftCuts ==
    ASSUME NEW t \in Seq(Character)
    PROVE  /\ Left(t) \in Seq(Character) /\ Len(Left(t)) \in 0..Len(t)
           /\ \A i \in 1..Len(Left(t)) : Left(t)[i] = t[i] /\ i \notin WordEnds(t)
           /\ Len(Left(t)) = Len(t) \/ Len(Left(t)) + 1 \in WordEnds(t)
<1> DEFINE word == {i \in DOMAIN t : t[i] # Space}
           space == DOMAIN t \ word
           n == Len(t)
           Cut(p) == /\ \A i \in 1..p : i \notin WordEnds(t)
                     /\ p = n \/ p + 1 \in WordEnds(t)
<1>1. n \in Nat /\ DOMAIN t = 1..n
  OBVIOUS
<1>2. \A i : i \in WordEnds(t) <=>
          /\ i \in 0..n
          /\ \/ i < n /\ t[i + 1] # Space /\ (i = 0 \/ t[i] = Space)
             \/ i > 1 /\ t[i] = Space /\ t[i - 1] # Space
  BY DEF WordEnds
<1>3. ASSUME NEW S, S \in SUBSET (1..n), S # {}
      PROVE  Min(S) \in S /\ \A i \in S : Min(S) <= i
  <2>1. S \in SUBSET Nat
    BY <1>1, <1>3
  <2> QED
    BY <1>3, <2>1, LeastElement
<1>4. ASSUME NEW p \in 0..n, Left(t) = SubSeq(t, 1, p), Cut(p)
      PROVE  /\ Left(t) \in Seq(Character) /\ Len(Left(t)) \in 0..n
             /\ \A i \in 1..Len(Left(t)) : Left(t)[i] = t[i] /\ i \notin WordEnds(t)
             /\ Len(Left(t)) = n \/ Len(Left(t)) + 1 \in WordEnds(t)
  <2> DEFINE q == SubSeq(t, 1, p)
  <2>1. q \in Seq(Character) /\ Len(q) = p /\ \A i \in 1..p : q[i] = t[i]
    OBVIOUS
  <2> HIDE DEF q
  <2> QED
    BY <1>4, <2>1 DEF q
<1>5. CASE word = {} \/ space = {}
  <2>1. Left(t) = t
    BY <1>5 DEF Left
  <2>2. \A i \in 1..n : i \notin WordEnds(t)
    BY <1>1, <1>2, <1>5
  <2> QED
    BY <1>1, <2>1, <2>2
<1>6. CASE word # {} /\ space # {} /\ 1 \in word
  <2> DEFINE s == Min(space)
  <2>1. s \in space /\ \A i \in space : s <= i
    BY <1>1, <1>3, <1>6
  <2>2. Left(t) = SubSeq(t, 1, s - 1)
    BY <1>6 DEF Left
  <2> HIDE DEF s
  <2>3. s - 1 \in 0..n /\ s > 1 /\ s \in 1..n /\ t[s] = Space
    BY <1>1, <1>6, <2>1
  <2>4. \A i \in 1..(s - 1) : t[i] # Space
    BY <1>1, <2>1, <2>3
  <2>5. Cut(s - 1)
    <3>1. (s - 1) + 1 = s /\ s - 1 \in 1..(s - 1)
      BY <2>3
    <3>2. s \in WordEnds(t)
      BY <1>2, <2>3, <2>4, <3>1
    <3>3. \A i \in 1..(s - 1) : i \notin WordEnds(t)
      BY <1>2, <2>3, <2>4
    <3> QED
      BY <3>1, <3>2, <3>3
  <2> QED
    BY <1>4, <2>2, <2>3, <2>5
<1>7. CASE word # {} /\ space # {} /\ 1 \notin word
  <2> DEFINE f == Min(word)
  <2>1. f \in word /\ \A i \in word : f <= i
    BY <1>1, <1>3, <1>7
  <2>2. Left(t) = SubSeq(t, 1, (f - 1) - 1)
    BY <1>7 DEF Left
  <2> HIDE DEF f
  <2>3. f - 2 \in 0..n /\ f > 1 /\ f \in 1..n /\ t[f] # Space /\ (f - 1) - 1 = f - 2
    BY <1>1, <1>7, <2>1
  <2>4. \A i \in 1..(f - 1) : t[i] = Space
    BY <1>1, <2>1, <2>3
  <2>5. Cut(f - 2)
    <3>1. (f - 2) + 1 = f - 1 /\ f - 1 \in 1..(f - 1) /\ (f - 1) + 1 = f
      BY <2>3
    <3>2. f - 1 \in WordEnds(t)
      BY <1>2, <2>3, <2>4, <3>1
    <3>3. ASSUME NEW i \in 1..(f - 2) PROVE i \notin WordEnds(t)
      <4>1. t[i + 1] = Space /\ (i > 1 => t[i - 1] = Space)
        BY <2>3, <2>4
      <4> QED
        BY <1>2, <2>3, <4>1
    <3> QED
      BY <3>1, <3>2, <3>3
  <2> QED
    BY <1>4, <2>2, <2>3, <2>5
<1> QED
  BY <1>5, <1>6, <1>7

\* The buffers of an application.
LEMMA ApplicationStrings ==
    ASSUME object = "applications"
    PROVE  /\ DOMAIN Strings = 1..4 /\ Len(Strings) = 4 /\ Strings[2] = "args"
           /\ \A k \in 1..4 : Strings[k] = "args" => k = 2
           /\ Start("args") = Size + 1 /\ Size \in Nat /\ Size >= 1 /\ Size * Len(Strings) = 4 * Size
           /\ Offset(1) = 0 /\ Offset(2) = Size /\ Offset(3) = 2 * Size /\ Offset(4) = 3 * Size
<1>1. Strings = <<"name", "args", "version", "URL">>
  BY DEF Strings
<1>2. Size \in Nat /\ Size >= 1
  BY TableAssumption
<1>3. Start(Strings[2]) = Offset(2) + 1
  BY <1>1, StringsOfObject
<1> QED
  BY <1>1, <1>2, <1>3 DEF Offset

\* A run clears cells of a structure, and stores its integers.
IsCut(m, new, m2) ==
    /\ Structure(m2) /\ m2.ints = Stored(m.ints, new)
    /\ \A j \in 1..(4 * Size) :
          m2.cells[j] = IF j - Size \in WordEnds(StringFrom(m, Size + 1)) THEN End ELSE m.cells[j]

LEMMA StartedFits ==
    ASSUME NEW new \in Started
    PROVE  \A n \in DOMAIN new : Fits(n, new[n])
<1>1. Modulus \in Nat /\ 2 * 5000 < Modulus
  BY ModulusType, WidthAssumption
<1>2. \A v \in {3, 4, 6} : \A n : Fits(n, v)
  BY <1>1 DEF Fits
<1>3. \A n \in DOMAIN new : new[n] \in {3, 4, 6}
  BY DEF Started
<1> QED
  BY <1>2, <1>3

LEMMA CutStructure ==
    ASSUME object = "applications", NEW m, Structure(m), NEW new \in Started
    PROVE  IsCut(m, new, [CutArgs(m) EXCEPT !.ints = Stored(@, new)])
<1> DEFINE ends == WordEnds(StringFrom(m, Size + 1))
           cells == [k \in DOMAIN m.cells |-> IF k - (Size + 1) + 1 \in ends THEN End ELSE m.cells[k]]
           m1 == CutArgs(m)
           m2 == [m1 EXCEPT !.ints = Stored(@, new)]
           total == 4 * Size
<1>1. /\ m = [cells |-> m.cells, ints |-> m.ints] /\ Integers64(m.ints)
      /\ m.cells \in [1..total -> Character \cup {End}] /\ total \in Nat /\ Size \in Nat
  BY ApplicationStrings DEF Structure
<1>2. m1 = [m EXCEPT !.cells = cells]
  BY ApplicationStrings DEF CutArgs
<1>3. m1.cells = cells /\ m1.ints = m.ints /\ m1 = [cells |-> m1.cells, ints |-> m1.ints]
  <2> HIDE DEF cells, m1
  <2> QED
    BY <1>1, <1>2
<1>4. /\ m2.cells = cells /\ m2.ints = Stored(m.ints, new)
      /\ m2 = [cells |-> m2.cells, ints |-> m2.ints]
  <2> HIDE DEF cells, m1
  <2> QED
    BY <1>3
<1>5. ASSUME NEW j \in 1..total
      PROVE  m2.cells[j] = IF j - Size \in ends THEN End ELSE m.cells[j]
  <2>1. j - (Size + 1) + 1 = j - Size
    BY <1>1
  <2> HIDE DEF ends, m2
  <2> QED
    BY <1>1, <1>4, <2>1
<1>6. m2.cells \in [1..total -> Character \cup {End}]
  <2>1. \A j \in 1..total : m2.cells[j] \in Character \cup {End}
    <3> HIDE DEF m2, ends
    <3> QED
      BY <1>1, <1>5
  <2>2. m2.cells = [j \in 1..total |-> m2.cells[j]]
    BY <1>1, <1>4
  <2> HIDE DEF m2
  <2> QED
    BY <2>1, <2>2
<1>7. Integers64(Stored(m.ints, new))
  BY <1>1, StartedFits, StoredType
<1> HIDE DEF m2, ends
<1>8. IsCut(m, new, m2)
  BY <1>4, <1>5, <1>6, <1>7, ApplicationStrings DEF IsCut, Structure, ends
<1> QED
  BY <1>8 DEF m2, m1

\* A structure that held its texts holds what a run leaves of them.
LEMMA CutIsKept ==
    ASSUME object = "applications", NEW m, Structure(m), NEW w, Record(w), Kept(m, w),
           NEW new, NEW m2, IsCut(m, new, m2)
    PROVE  Kept(m2, [texts |-> [w.texts EXCEPT !["args"] = Left(@)], ints |-> Stored(w.ints, new)])
<1> DEFINE t == w.texts["args"]
           q == Left(t)
           texts == [w.texts EXCEPT !["args"] = Left(@)]
           ends == WordEnds(StringFrom(m, Size + 1))
<1>1. /\ DOMAIN Strings = 1..4 /\ Strings[2] = "args" /\ Start("args") = Size + 1
      /\ Size \in Nat /\ Size >= 1
      /\ Offset(1) = 0 /\ Offset(2) = Size /\ Offset(3) = 2 * Size /\ Offset(4) = 3 * Size
  BY ApplicationStrings
<1>2. Holds(m, 2, t) /\ t \in Seq(Character) /\ Len(t) \in Nat /\ Len(t) < Size
  <2>1. Holds(m, 2, t)
    BY <1>1 DEF Kept
  <2> QED
    BY <2>1 DEF Holds
<1>3. ends = WordEnds(t)
  BY <1>1, <1>2, HeldIsRead
<1>4. \A i \in ends : i \in 0..Len(t)
  BY <1>3 DEF WordEnds
<1>5. /\ m2.ints = Stored(m.ints, new)
      /\ \A j \in 1..(4 * Size) : m2.cells[j] = IF j - Size \in ends THEN End ELSE m.cells[j]
  BY DEF IsCut
<1> HIDE DEF ends
<1>6. Holds(m2, 2, q)
  <2>1. /\ q \in Seq(Character) /\ Len(q) \in 0..Len(t)
        /\ \A i \in 1..Len(q) : q[i] = t[i] /\ i \notin ends
        /\ Len(q) = Len(t) \/ Len(q) + 1 \in ends
    BY <1>2, <1>3, LeftCuts
  <2>2. /\ \A i \in 1..Len(t) : m.cells[Size + i] = t[i]
        /\ m.cells[Size + Len(t) + 1] = End
    BY <1>1, <1>2 DEF Holds
  <2> HIDE DEF q, t
  <2>3. ASSUME NEW i \in 1..Len(q) PROVE m2.cells[Size + i] = q[i]
    <3>1. Size + i \in 1..(4 * Size) /\ (Size + i) - Size = i /\ i \in 1..Len(t)
      BY <1>1, <1>2, <2>1
    <3> QED
      BY <1>5, <2>1, <2>2, <3>1
  <2>4. m2.cells[Size + Len(q) + 1] = End
    <3>1. Size + Len(q) + 1 \in 1..(4 * Size) /\ (Size + Len(q) + 1) - Size = Len(q) + 1
      BY <1>1, <1>2, <2>1
    <3> QED
      BY <1>5, <2>1, <2>2, <3>1
  <2>5. Len(q) < Size
    BY <1>1, <1>2, <2>1
  <2> QED
    BY <1>1, <2>1, <2>3, <2>4, <2>5 DEF Holds
<1>7. ASSUME NEW k \in {1, 3, 4}, NEW s, Holds(m, k, s)
      PROVE  Holds(m2, k, s)
  <2>1. /\ s \in Seq(Character) /\ Len(s) \in Nat /\ Len(s) < Size
        /\ \A i \in 1..Len(s) : m.cells[Offset(k) + i] = s[i]
        /\ m.cells[Offset(k) + Len(s) + 1] = End
    BY <1>7 DEF Holds
  <2>2. ASSUME NEW i \in 1..Len(s) PROVE m2.cells[Offset(k) + i] = s[i]
    <3>1. Offset(k) + i \in 1..(4 * Size) /\ (Offset(k) + i) - Size \notin 0..Len(t)
      <4> HIDE DEF t
      <4> QED
        BY <1>1, <1>2, <2>1
    <3>2. m2.cells[Offset(k) + i] = m.cells[Offset(k) + i]
      BY <1>4, <1>5, <3>1
    <3> QED
      BY <2>1, <3>2
  <2>3. m2.cells[Offset(k) + Len(s) + 1] = End
    <3>1. Offset(k) + Len(s) + 1 \in 1..(4 * Size)
      BY <1>1, <2>1
    <3> QED
      BY <1>5, <2>1, <3>1
  <2> QED
    BY <2>1, <2>2, <2>3 DEF Holds
<1>8. ASSUME NEW k \in DOMAIN Strings
      PROVE  Holds(m2, k, texts[Strings[k]])
  <2>1. Strings[k] \in DOMAIN w.texts /\ Holds(m, k, w.texts[Strings[k]])
    BY StringsOfObject DEF Record, Kept
  <2>2. CASE k = 2
    <3>1. texts[Strings[k]] = q
      BY <1>1, <2>1, <2>2
    <3> QED
      BY <1>6, <2>2, <3>1
  <2>3. CASE k # 2
    <3>1. Strings[k] # "args" /\ k \in {1, 3, 4}
      BY <1>1, <2>3, ApplicationStrings
    <3>2. texts[Strings[k]] = w.texts[Strings[k]]
      BY <3>1
    <3> QED
      BY <1>7, <2>1, <3>1, <3>2
  <2> QED
    BY <2>2, <2>3
<1>9. m2.ints = Stored(w.ints, new)
  BY <1>5 DEF Kept
<1> HIDE DEF texts
<1>10. Kept(m2, [texts |-> texts, ints |-> Stored(w.ints, new)])
  BY <1>8, <1>9 DEF Kept
<1> QED
  BY <1>10 DEF texts

\* A run leaves the structures as they have to be.
LEMMA RunKeepsStructure ==
    ASSUME object = "applications", Structured, NEW inst \in Instances, Run(inst)
    PROVE  StructuredAs(memory', written', overlong')
<1>1. PICK new \in Started :
        /\ memory' = [memory EXCEPT
              ![inst] = [CutArgs(memory[inst]) EXCEPT !.ints = Stored(@, new)]]
        /\ written' = [written EXCEPT
              ![inst] = [texts |-> [written[inst].texts EXCEPT !["args"] = Left(@)],
                         ints  |-> Stored(written[inst].ints, new)]]
        /\ overlong' = overlong
  BY DEF Run
<1> DEFINE m == memory[inst]
           w == written[inst]
           m2 == [CutArgs(m) EXCEPT !.ints = Stored(@, new)]
           w2 == [texts |-> [w.texts EXCEPT !["args"] = Left(@)], ints |-> Stored(w.ints, new)]
<1>2. memory' = [memory EXCEPT ![inst] = m2] /\ written' = [written EXCEPT ![inst] = w2]
  BY <1>1
<1>3. /\ memory' = [i \in Instances |-> memory'[i]] /\ memory'[inst] = m2
      /\ written' = [i \in Instances |-> written'[i]] /\ written'[inst] = w2
      /\ \A i \in Instances \ {inst} : memory'[i] = memory[i] /\ written'[i] = written[i]
  <2> HIDE DEF m2, w2
  <2> QED
    BY <1>2 DEF Structured
<1>4. Structure(m) /\ Record(w) /\ (inst \notin overlong => Kept(m, w))
  BY DEF Structured
<1>5. IsCut(m, new, m2)
  BY <1>4, CutStructure
<1>6. inst \notin overlong => Kept(m2, w2)
  <2> HIDE DEF m2
  <2> QED
    BY <1>4, <1>5, CutIsKept
<1>7. Record(w2)
  <2> DEFINE texts == [w.texts EXCEPT !["args"] = Left(@)]
  <2>1. w.texts \in [Range(Strings) -> Seq(Character)] /\ "args" \in Range(Strings)
    BY <1>4, ApplicationStrings, StringsOfObject DEF Record
  <2>2. Left(w.texts["args"]) \in Seq(Character)
    BY <2>1, LeftCuts
  <2>3. texts \in [Range(Strings) -> Seq(Character)]
    BY <2>1, <2>2
  <2> HIDE DEF texts
  <2>4. w2 = [texts |-> texts, ints |-> Stored(w.ints, new)]
    BY DEF texts
  <2> HIDE DEF w2
  <2> QED
    BY <2>3, <2>4 DEF Record
<1> HIDE DEF m2, w2
<1>8. \A i \in Instances : Structure(memory'[i]) /\ Record(written'[i])
  BY <1>3, <1>5, <1>7 DEF Structured, IsCut
<1>9. \A i \in Instances \ overlong' : Kept(memory'[i], written'[i])
  BY <1>1, <1>3, <1>6 DEF Structured
<1> QED
  BY <1>3, <1>8, <1>9 DEF StructuredAs

\* What a request to execute does.
LEMMA ExecuteEffect ==
    ASSUME Execute
    PROVE  /\ object = "applications"
           /\ \/ UNCHANGED <<memory, written, overlong>>
              \/ \E inst \in Instances : \E new :
                    (\A n \in DOMAIN new : Fits(n, new[n])) /\ Puts(inst, new)
              \/ \E inst \in Instances : Run(inst)
<1>1. Modulus \in Nat /\ 2 * 5000 < Modulus
  BY ModulusType, WidthAssumption
<1>2. \A v \in {0, 1} : \A n : Fits(n, v)
  BY <1>1 DEF Fits
<1> DEFINE fetch == [n \in {State, Error} |-> IF n = State THEN 1 ELSE 0]
           kill == [n \in {State} |-> 0]
<1>3. /\ \A n \in DOMAIN fetch : Fits(n, fetch[n])
      /\ \A n \in DOMAIN kill : Fits(n, kill[n])
  BY <1>2
<1>4. \/ UNCHANGED <<memory, written, overlong>>
      \/ \E inst \in Instances : Puts(inst, fetch) \/ Puts(inst, kill) \/ Run(inst)
  <2> HIDE DEF fetch, kill
  <2> QED
    BY DEF Execute, fetch, kill
<1> HIDE DEF fetch, kill
<1> QED
  BY <1>3, <1>4 DEF Execute

LEMMA StructuredStep == Filled /\ Structured /\ [Next]_vars => Structured'
<1> SUFFICES ASSUME Filled, Structured, [Next]_vars PROVE Structured'
  OBVIOUS
<1>1. object \in {"device", "applications"}
  BY DEF Filled
<1>2. object' = object
  BY DEF Next, vars, Fill, Write, Execute, DeviceStateUpdate, ApplicationChanges, Steps
<1>3. CASE UNCHANGED <<memory, written, overlong>>
  <2>1. StructuredAs(memory, written, overlong)
    BY DEF Structured, StructuredAs
  <2>2. StructuredAs(memory', written', overlong')
    BY <1>3, <2>1
  <2> QED
    BY <1>2, <2>2, StructuredNext
<1>4. CASE Write
  <2>1. CASE \E inst \in Instances, k \in DOMAIN Strings, text \in Seq(Character) :
                StringEffect(inst, k, text)
    BY <1>1, <1>2, <2>1, StringKeepsStructure, StructuredNext
  <2>2. CASE \E value \in Int : /\ object = "device" /\ TimeEffect(value)
                                /\ -Modulus <= 2 * value /\ 2 * value < Modulus
    <3>1. PICK value \in Int : /\ object = "device" /\ TimeEffect(value)
                               /\ -Modulus <= 2 * value /\ 2 * value < Modulus
      BY <2>2
    <3> DEFINE new == [n \in {TimeName} |-> value]
    <3>2. \A n \in DOMAIN new : Fits(n, new[n])
      BY <3>1 DEF Fits
    <3>3. Puts(0, new) /\ 0 \in Instances
      BY <3>1 DEF TimeEffect, Instances
    <3> HIDE DEF new
    <3> QED
      BY <1>2, <3>2, <3>3, IntegersKeepStructure, StructuredNext
  <2> QED
    BY <1>3, <1>4, <2>1, <2>2, WriteEffect
<1>5. CASE DeviceStateUpdate
  <2>1. PICK now \in Levels :
          Puts(0, [n \in {"ps_voltage", "ps_current"} \X (0..2)
                         \cup {"cur_time", "error_code", "memory_free"} \X {0} |->
                     CASE n[1] = "cur_time"        -> now
                       [] n = <<"ps_voltage", 0>>  -> 5000
                       [] n[1] = "ps_current"      -> 500
                       [] OTHER                    -> 0])
    BY <1>5 DEF DeviceStateUpdate
  <2> DEFINE new == [n \in {"ps_voltage", "ps_current"} \X (0..2)
                           \cup {"cur_time", "error_code", "memory_free"} \X {0} |->
                       CASE n[1] = "cur_time"        -> now
                         [] n = <<"ps_voltage", 0>>  -> 5000
                         [] n[1] = "ps_current"      -> 500
                         [] OTHER                    -> 0]
  <2>2. /\ Modulus \in Nat /\ 2 * 5000 < Modulus /\ now \in Nat /\ 2 * now < Modulus
    BY ModulusType, WidthAssumption, InputAssumption
  <2>3. \A n \in DOMAIN new : new[n] \in {now, 5000, 500, 0}
    <3> TAKE n \in DOMAIN new
    <3>1. new[n] = CASE n[1] = "cur_time"        -> now
                     [] n = <<"ps_voltage", 0>>  -> 5000
                     [] n[1] = "ps_current"      -> 500
                     [] OTHER                    -> 0
      OBVIOUS
    <3> HIDE DEF new
    <3> QED
      BY <3>1
  <2>4. \A v \in {now, 5000, 500, 0} : \A n : Fits(n, v)
    BY <2>2 DEF Fits
  <2>5. Puts(0, new) /\ 0 \in Instances
    BY <1>5, <2>1 DEF DeviceStateUpdate, Instances
  <2> HIDE DEF new
  <2> QED
    BY <1>2, <2>3, <2>4, <2>5, IntegersKeepStructure, StructuredNext
<1>6. CASE ApplicationChanges
  <2>1. PICK inst \in Instances, name \in DOMAIN ApplicationIntegers, level \in Levels :
           Puts(inst, [n \in {name} |-> level])
    BY <1>6 DEF ApplicationChanges
  <2> DEFINE new == [n \in {name} |-> level]
  <2>2. \A n \in DOMAIN new : Fits(n, new[n])
    <3>1. Modulus \in Nat /\ level \in Nat /\ 2 * level < Modulus
      BY ModulusType, InputAssumption
    <3>2. \A n : Fits(n, level)
      BY <3>1 DEF Fits
    <3> QED
      BY <3>2
  <2> HIDE DEF new
  <2>3. Puts(inst, new)
    BY <2>1 DEF new
  <2> QED
    BY <1>2, <2>2, <2>3, IntegersKeepStructure, StructuredNext
<1>7. Fill => UNCHANGED <<memory, written, overlong>>
  BY DEF Fill
<1>8. CASE Execute
  BY <1>2, <1>3, <1>8, ExecuteEffect, IntegersKeepStructure, RunKeepsStructure, StructuredNext
<1> QED
  BY <1>3, <1>4, <1>5, <1>6, <1>7, <1>8 DEF Next, vars

\* Each structure is well formed, and holds the texts and integers that were
\* last put into it, unless a text as long as its buffer was.
LEMMA IsStructured == Spec => [](Filled /\ Structured)
<1>1. Init => Filled /\ Structured
  BY FilledInit, StructuredInit
<1>2. Filled /\ Structured /\ [Next]_vars => Filled' /\ Structured'
  BY FilledStep, StructuredStep
<1> QED
  BY <1>1, <1>2, PTL DEF Spec

-----------------------------------------------------------------------------
(* A step changes one resource                                              *)

LEMMA NothingChanges ==
    ASSUME object \in {"device", "applications"}, NEW inst \in Instances,
           Structure(memory[inst]), Structure(memory'[inst]),
           memory'[inst].cells = memory[inst].cells
    PROVE  Changed(inst) = {}
<1>1. ASSUME NEW k \in DOMAIN Strings, Contained(memory[inst], Strings[k])
      PROVE  StringFrom(memory'[inst], Start(Strings[k])) = StringFrom(memory[inst], Start(Strings[k]))
  BY <1>1, SameBuffer
<1> QED
  BY <1>1 DEF Changed

\* What a text put into the k-th buffer of an instance changes.
LEMMA TextChanges ==
    ASSUME object \in {"device", "applications"}, NEW inst \in Instances, NEW k \in DOMAIN Strings,
           NEW text \in Seq(Character), Structure(memory[inst]),
           memory'[inst] = Copy(memory[inst], Start(Strings[k]), Size, text)
    PROVE  /\ Changed(inst) \subseteq {k, k + 1}
           /\ k + 1 \in Changed(inst) => StringFrom(memory'[inst], Start(Strings[k + 1])) = <<>>
           /\ memory'[inst].ints # memory[inst].ints =>
                 /\ k = Len(Strings)
                 /\ memory'[inst].ints = [memory[inst].ints EXCEPT ![State] = @ - (@ % Base)]
<1> DEFINE m == memory[inst]
           m2 == memory'[inst]
<1>1. IsCopy(m, k, text, m2)
  BY Copied
<1>2. Structure(m) /\ Structure(m2)
  BY <1>1 DEF IsCopy
<1>3. ASSUME NEW j \in Changed(inst), j # k
      PROVE  j = k + 1 /\ Len(text) >= Size
  <2>1. /\ j \in DOMAIN Strings /\ Contained(m, Strings[j])
        /\ StringFrom(m2, Start(Strings[j])) # StringFrom(m, Start(Strings[j]))
    BY DEF Changed
  <2>2. PICK i \in 1..Size : m2.cells[Offset(j) + i] # m.cells[Offset(j) + i]
    BY <1>2, <2>1, SameBuffer
  <2>3. j = k + 1 /\ ~ (Len(text) < Size)
    BY <1>2, <1>3, <2>1, <2>2, OtherBuffer
  <2> QED
    BY <2>3, Offsets
<1>4. Changed(inst) \subseteq {k, k + 1}
  BY <1>3
<1>5. ASSUME k + 1 \in Changed(inst)
      PROVE  StringFrom(m2, Start(Strings[k + 1])) = <<>>
  <2> DEFINE start == Offset(k + 1) + 1
             total == Size * Len(Strings)
             b == Offset(k)
  <2>1. k \in Nat /\ k + 1 # k /\ k + 1 \in DOMAIN Strings
    BY <1>5, StringsOfObject DEF Changed
  <2>2. Len(text) >= Size /\ Len(text) \in Nat
    BY <1>3, <1>5, <2>1
  <2>3. /\ Size \in Nat /\ Size >= 1 /\ b \in Nat /\ Offset(k + 1) = b + Size
        /\ Offset(k + 1) + Size <= total /\ Offset(k + 1) \in Nat
    BY <2>1, Offsets
  <2>4. total \in Nat /\ Len(m2.cells) = total /\ Start(Strings[k + 1]) = start
    <3>1. total \in Nat
      BY Offsets
    <3> QED
      BY <1>2, <2>1, <3>1, StructureType, StringsOfObject
  <2>5. (IF Len(text) > Size THEN Size ELSE Len(text)) = Size
    BY <2>2, <2>3
  <2>6. \A x \in 1..total : m2.cells[x] = IF x \in (b + 1)..(b + Size) THEN text[x - b]
                                         ELSE IF x = b + Size + 1 THEN End ELSE m.cells[x]
    <3> HIDE DEF m2, m
    <3> QED
      BY <1>1, <2>5 DEF IsCopy
  <2>7. /\ start \in Nat \ {0} /\ start <= Len(m2.cells)
        /\ start \in 1..total /\ start \notin (b + 1)..(b + Size) /\ start = b + Size + 1
    <3> HIDE DEF b, total
    <3> QED
      BY <2>3, <2>4
  <2>8. m2.cells[start] = End
    <3> HIDE DEF start, b, total, m2
    <3> QED
      BY <2>6, <2>7
  <2> HIDE DEF start, m2, total, b
  <2>9. start <= start /\ start \in Nat /\ start..(start - 1) = {}
    BY <2>7
  <2>10. StringFrom(m2, start) = Cells(m2, start, start)
    BY <1>2, <2>7, <2>8, <2>9, StringEnds
  <2>11. Cells(m2, start, start) = <<>>
    <3>1. 1..(start - start) = {}
      BY <2>9
    <3>2. Cells(m2, start, start) = [i \in 1..(start - start) |-> m2.cells[start + i - 1]]
      BY DEF Cells
    <3> QED
      BY <3>1, <3>2
  <2> QED
    BY <2>4, <2>10, <2>11
<1>6. ASSUME m2.ints # m.ints
      PROVE  /\ k = Len(Strings)
             /\ m2.ints = [m.ints EXCEPT ![State] = @ - (@ % Base)]
  <2> HIDE DEF m, m2
  <2> QED
    BY <1>1, <1>6 DEF IsCopy
<1> QED
  BY <1>4, <1>5, <1>6

\* Where the string of Args ends, in the buffers or behind them.
LEMMA ArgsEnd ==
    ASSUME object = "applications", NEW m, Structure(m)
    PROVE  \E e \in Nat :
              /\ Size + 1 <= e
              /\ \A j \in (Size + 1)..(e - 1) : j <= 4 * Size => m.cells[j] # End
              /\ Len(StringFrom(m, Size + 1)) = e - (Size + 1)
<1> DEFINE low == m.ints[State] % Base
           behind == IF object = "device" THEN <<Undefined, End>>
                     ELSE IF m.ints[State] % Base = 0 THEN <<End>>
                     ELSE <<m.ints[State] % Base, End>>
           cells == m.cells \o behind
           start == Size + 1
           P(k) == cells[k] = End /\ \A j \in start..(k - 1) : cells[j] # End
           stop == CHOOSE k \in start..Len(cells) : P(k)
           n == Len(m.cells)
           S == Character \cup {End} \cup Nat
<1>1. /\ m.cells \in Seq(S) /\ n \in Nat /\ n = 4 * Size /\ Size \in Nat /\ Size >= 1
  <2>1. m.cells \in Seq(Character \cup {End}) /\ n = Size * Len(Strings)
    BY StructureType
  <2> QED
    BY <2>1, ApplicationStrings
<1>2. behind \in Seq(S) /\ Len(behind) \in 1..2 /\ behind[Len(behind)] = End
  <2>1. low \in Nat
    BY StructureType, BaseType
  <2>2. behind = IF low = 0 THEN <<End>> ELSE <<low, End>>
    OBVIOUS
  <2>3. CASE low = 0
    <3>1. behind = <<End>>
      BY <2>2, <2>3
    <3> HIDE DEF behind
    <3> QED
      BY <3>1
  <2>4. CASE low # 0
    <3>1. behind = <<low, End>>
      BY <2>2, <2>4
    <3> HIDE DEF low, behind
    <3> QED
      BY <2>1, <3>1
  <2> QED
    BY <2>3, <2>4
<1>3. StringFrom(m, start) = SubSeq(cells, start, stop - 1)
  BY DEF StringFrom
<1> HIDE DEF behind, S, start, n
<1>4. /\ cells \in Seq(S) /\ Len(cells) = n + Len(behind)
      /\ \A j \in 1..n : cells[j] = m.cells[j]
      /\ cells[n + Len(behind)] = behind[Len(behind)]
  <2>1. /\ cells \in Seq(S) /\ Len(cells) = Len(m.cells) + Len(behind)
        /\ \A j \in 1..(Len(m.cells) + Len(behind)) :
              cells[j] = IF j <= Len(m.cells) THEN m.cells[j] ELSE behind[j - Len(m.cells)]
    BY <1>1, <1>2, ConcatProperties
  <2> HIDE DEF cells
  <2>2. Len(m.cells) = n
    BY DEF n
  <2>3. /\ \A j \in 1..n : j \in 1..(n + Len(behind)) /\ j <= n
        /\ n + Len(behind) \in 1..(n + Len(behind)) /\ ~ (n + Len(behind) <= n)
        /\ (n + Len(behind)) - n = Len(behind)
    <3> DEFINE l == Len(behind)
    <3>1. n \in Nat /\ l \in 1..2
      BY <1>1, <1>2, Zenon
    <3> HIDE DEF l
    <3>2. /\ \A j \in 1..n : j \in 1..(n + l) /\ j <= n
          /\ n + l \in 1..(n + l) /\ ~ (n + l <= n) /\ (n + l) - n = l
      BY <3>1
    <3> QED
      BY <3>2 DEF l
  <2> QED
    BY <2>1, <2>2, <2>3
<1> HIDE DEF cells
<1> DEFINE ends == {k \in Nat : k \in start..Len(cells) /\ cells[k] = End}
           e == Min(ends)
<1>5. e \in ends /\ \A k \in ends : e <= k
  <2>1. ends \in SUBSET Nat
    OBVIOUS
  <2>2. Len(cells) \in ends
    BY <1>1, <1>2, <1>4 DEF start
  <2> HIDE DEF ends
  <2> QED
    BY <2>1, <2>2, LeastElement
<1> HIDE DEF e
<1>6. e \in start..Len(cells) /\ P(e)
  <2>1. e \in Nat /\ e \in start..Len(cells) /\ cells[e] = End
    BY <1>5
  <2>2. ASSUME NEW j \in start..(e - 1) PROVE cells[j] # End
    <3>1. j \in Nat /\ j \in start..Len(cells) /\ ~ (e <= j)
      BY <1>1, <1>2, <1>4, <2>1 DEF start
    <3> QED
      BY <1>5, <3>1
  <2> QED
    BY <2>1, <2>2
<1>7. stop \in start..Len(cells) /\ P(stop)
  <2> HIDE DEF P
  <2> QED
    BY <1>6, Zenon
<1> HIDE DEF stop
<1>8. Len(SubSeq(cells, start, stop - 1)) = stop - start
  <2>1. stop \in Nat /\ start \in Nat \ {0} /\ stop - 1 <= Len(cells) /\ start <= stop /\ Len(cells) \in Nat
    BY <1>1, <1>2, <1>4, <1>7 DEF start
  <2> QED
    BY <1>4, <2>1
<1>9. ASSUME NEW j \in start..(stop - 1), j <= 4 * Size PROVE m.cells[j] # End
  <2>1. j \in 1..n
    BY <1>1, <1>9 DEF start
  <2> QED
    BY <1>4, <1>7, <2>1
<1>10. stop \in Nat /\ start <= stop
  BY <1>1, <1>2, <1>4, <1>7 DEF start
<1> QED
  BY <1>3, <1>8, <1>9, <1>10 DEF start

\* A run changes one text that had its terminator: the one Args end in.
LEMMA CutChanges ==
    ASSUME object = "applications", NEW inst \in Instances, NEW new,
           Structure(memory[inst]), IsCut(memory[inst], new, memory'[inst])
    PROVE  \A j, k \in Changed(inst) : j = k
<1> DEFINE m == memory[inst]
           m2 == memory'[inst]
           ends == WordEnds(StringFrom(m, Size + 1))
<1>1. /\ DOMAIN Strings = 1..4 /\ Size \in Nat /\ Size >= 1
      /\ Offset(1) = 0 /\ Offset(2) = Size /\ Offset(3) = 2 * Size /\ Offset(4) = 3 * Size
  BY ApplicationStrings
<1>2. PICK e \in Nat :
         /\ Size + 1 <= e
         /\ \A j \in (Size + 1)..(e - 1) : j <= 4 * Size => m.cells[j] # End
         /\ Len(StringFrom(m, Size + 1)) = e - (Size + 1)
  BY ArgsEnd
<1>3. \A i \in ends : i \in 0..(e - (Size + 1))
  BY <1>2 DEF WordEnds
<1>4. /\ Structure(m2)
      /\ \A j \in 1..(4 * Size) : m2.cells[j] = IF j - Size \in ends THEN End ELSE m.cells[j]
  BY DEF IsCut
<1> HIDE DEF m, m2, ends
<1>5. ASSUME NEW k \in Changed(inst)
      PROVE  k \in 2..4 /\ e \in (Offset(k) + 1)..(Offset(k) + Size)
  <2>1. /\ k \in 1..4 /\ k \in DOMAIN Strings /\ Contained(m, Strings[k])
        /\ StringFrom(m2, Start(Strings[k])) # StringFrom(m, Start(Strings[k]))
    BY <1>1 DEF Changed, m, m2
  <2>2. PICK i \in 1..Size : /\ m2.cells[Offset(k) + i] # m.cells[Offset(k) + i]
                             /\ \A h \in 1..(i - 1) : m.cells[Offset(k) + h] # End
    <3>1. Structure(m)
      BY DEF m
    <3> QED
      BY <1>4, <2>1, <3>1, SameBuffer
  <2>3. Offset(k) + i \in 1..(4 * Size)
    BY <1>1, <2>1
  <2>4. (Offset(k) + i) - Size \in ends /\ m.cells[Offset(k) + i] # End
    BY <1>4, <2>2, <2>3
  <2>5. Offset(k) + i \in Size..(e - 1)
    <3>1. (Offset(k) + i) - Size \in 0..(e - (Size + 1)) /\ Offset(k) \in Nat
      BY <1>1, <1>3, <2>1, <2>4
    <3> QED
      BY <1>1, <1>2, <3>1
  <2>6. PICK c \in (Offset(k) + 1)..(Offset(k) + Size) : m.cells[c] = End
    <3>1. Start(Strings[k]) = Offset(k) + 1 /\ Offset(k) \in Nat
      BY <1>1, <2>1, StringsOfObject
    <3>2. (Offset(k) + 1) + Size - 1 = Offset(k) + Size
      BY <1>1, <3>1
    <3> QED
      BY <2>1, <3>1, <3>2 DEF Contained
  <2>7. c - Offset(k) \in i..Size /\ Offset(k) + (c - Offset(k)) = c /\ c # Offset(k) + i
    <3>1. Offset(k) \in Nat /\ c - Offset(k) \in 1..Size /\ Offset(k) + (c - Offset(k)) = c
      BY <1>1, <2>1
    <3>2. ~ (c - Offset(k) \in 1..(i - 1))
      BY <2>2, <2>6, <3>1
    <3> QED
      BY <1>1, <2>4, <2>6, <3>1, <3>2
  <2>8. k # 1
    BY <1>1, <2>5, <2>7
  <2>9. c >= e
    <3>1. c <= 4 * Size /\ c >= Size + 1
      BY <1>1, <2>1, <2>8
    <3> QED
      BY <1>1, <1>2, <2>6, <3>1
  <2>10. k \in 2..4
    BY <2>1, <2>8
  <2> DEFINE b == Offset(k)
  <2>11. b \in Nat
    BY <1>1, <2>1
  <2>12. b + i \in Size..(e - 1) /\ c \in (b + 1)..(b + Size)
    BY <2>5
  <2> HIDE DEF b
  <2>13. e \in (b + 1)..(b + Size)
    <3>1. Size \in Nat /\ e \in Nat
      BY <1>1
    <3> QED
      BY <2>9, <2>11, <2>12, <3>1
  <2> QED
    BY <2>10, <2>13 DEF b
<1> QED
  <2> TAKE j, k \in Changed(inst)
  <2>1. /\ j \in 2..4 /\ e \in (Offset(j) + 1)..(Offset(j) + Size)
        /\ k \in 2..4 /\ e \in (Offset(k) + 1)..(Offset(k) + Size)
    BY <1>5
  <2> QED
    BY <1>1, <2>1

LEMMA OthersStep == Filled /\ Structured /\ [Next]_vars => [OneChanges]_vars
<1> SUFFICES ASSUME Filled, Structured, Next PROVE OneChanges
  BY DEF vars
<1>1. object \in {"device", "applications"}
  BY DEF Filled
<1>2. /\ \A i \in Instances : Structure(memory[i]) /\ Structure(memory'[i])
      /\ memory = [i \in Instances |-> memory[i]]
  <2>1. object' = object
    BY DEF Next, Fill, Write, Execute, DeviceStateUpdate, ApplicationChanges, Steps
  <2>2. StructuredAs(memory', written', overlong')
    BY <2>1, StructuredStep, StructuredNext
  <2> QED
    BY <2>2 DEF Structured, StructuredAs
<1>3. CASE \A i \in Instances : memory'[i].cells = memory[i].cells
  <2>1. \A i \in Instances : Changed(i) = {}
    BY <1>1, <1>2, <1>3, NothingChanges
  <2> QED
    BY <2>1 DEF OneChanges
<1>4. ASSUME NEW inst \in Instances, NEW new, Puts(inst, new)
      PROVE  \A i \in Instances : memory'[i].cells = memory[i].cells
  <2>1. memory' = [memory EXCEPT ![inst] = [memory[inst] EXCEPT !.ints = Stored(@, new)]]
    BY <1>4 DEF Puts
  <2> DEFINE m2 == [memory[inst] EXCEPT !.ints = Stored(@, new)]
  <2>2. m2.cells = memory[inst].cells
    <3> DEFINE m == memory[inst]
    <3>1. m = [cells |-> m.cells, ints |-> m.ints]
      BY <1>2 DEF Structure
    <3> HIDE DEF m
    <3>2. [m EXCEPT !.ints = Stored(@, new)].cells = m.cells
      BY <3>1
    <3> QED
      BY <3>2 DEF m
  <2> HIDE DEF m2
  <2>3. memory' = [memory EXCEPT ![inst] = m2]
    BY <2>1 DEF m2
  <2> QED
    BY <1>2, <2>2, <2>3
<1>5. CASE Write
  <2>1. CASE UNCHANGED <<memory, written, overlong>>
    BY <1>3, <2>1
  <2>2. CASE \E inst \in Instances, k \in DOMAIN Strings, text \in Seq(Character) :
                StringEffect(inst, k, text)
    <3>1. PICK inst \in Instances, k \in DOMAIN Strings, text \in Seq(Character) :
             StringEffect(inst, k, text)
      BY <2>2
    <3>2. /\ memory'[inst] = Copy(memory[inst], Start(Strings[k]), Size, text)
          /\ \A i \in Instances \ {inst} : memory'[i] = memory[i]
      <4> DEFINE m2 == Copy(memory[inst], Start(Strings[k]), Size, text)
      <4>1. memory' = [memory EXCEPT ![inst] = m2]
        BY <3>1 DEF StringEffect
      <4> HIDE DEF m2
      <4>2. memory'[inst] = m2 /\ \A i \in Instances \ {inst} : memory'[i] = memory[i]
        BY <1>2, <4>1
      <4> QED
        BY <4>2 DEF m2
    <3>3. \A i \in Instances \ {inst} : Changed(i) = {}
      BY <1>1, <1>2, <3>2, NothingChanges
    <3>4. /\ Changed(inst) \subseteq {k, k + 1}
          /\ k + 1 \in Changed(inst) => StringFrom(memory'[inst], Start(Strings[k + 1])) = <<>>
          /\ memory'[inst].ints # memory[inst].ints =>
                /\ k = Len(Strings)
                /\ memory'[inst].ints = [memory[inst].ints EXCEPT ![State] = @ - (@ % Base)]
      BY <1>1, <1>2, <3>1, <3>2, TextChanges
    <3> QED
      BY <3>2, <3>3, <3>4 DEF OneChanges
  <2>3. CASE \E value \in Int : /\ object = "device" /\ TimeEffect(value)
                                /\ -Modulus <= 2 * value /\ 2 * value < Modulus
    <3>1. PICK value \in Int : object = "device" /\ TimeEffect(value)
      BY <2>3
    <3>2. 0 \in Instances
      BY <3>1 DEF Instances
    <3> QED
      BY <1>3, <1>4, <3>1, <3>2 DEF TimeEffect
  <2> QED
    BY <1>5, <2>1, <2>2, <2>3, WriteEffect
<1>6. CASE DeviceStateUpdate
  <2>1. \E new : Puts(0, new)
    BY <1>6 DEF DeviceStateUpdate
  <2>2. 0 \in Instances
    BY <1>6 DEF DeviceStateUpdate, Instances
  <2> QED
    BY <1>3, <1>4, <2>1, <2>2
<1>7. CASE ApplicationChanges
  BY <1>3, <1>4, <1>7 DEF ApplicationChanges
<1>8. CASE Fill
  BY <1>3, <1>8 DEF Fill
<1>9. CASE Execute
  <2>1. CASE UNCHANGED <<memory, written, overlong>>
    BY <1>3, <2>1
  <2>2. CASE \E inst \in Instances : \E new : Puts(inst, new)
    BY <1>3, <1>4, <2>2
  <2>3. CASE \E inst \in Instances : Run(inst)
    <3>1. PICK inst \in Instances : Run(inst)
      BY <2>3
    <3>2. PICK new \in Started :
             memory' = [memory EXCEPT
                ![inst] = [CutArgs(memory[inst]) EXCEPT !.ints = Stored(@, new)]]
      BY <3>1 DEF Run
    <3> DEFINE m2 == [CutArgs(memory[inst]) EXCEPT !.ints = Stored(@, new)]
    <3>3. memory' = [memory EXCEPT ![inst] = m2]
      BY <3>2
    <3>4. IsCut(memory[inst], new, m2) /\ object = "applications"
      BY <1>2, <1>9, CutStructure, ExecuteEffect
    <3> HIDE DEF m2
    <3>5. memory'[inst] = m2 /\ \A i \in Instances \ {inst} : memory'[i] = memory[i]
      BY <1>2, <3>3
    <3>6. \A i \in Instances \ {inst} : Changed(i) = {}
      BY <1>1, <1>2, <3>5, NothingChanges
    <3>7. \A j, k \in Changed(inst) : j = k
      BY <1>2, <3>4, <3>5, CutChanges
    <3>8. memory'[inst].ints = Stored(memory[inst].ints, new)
      BY <3>4, <3>5 DEF IsCut
    <3>9. ASSUME NEW k \in Changed(inst)
          PROVE  k \in DOMAIN Strings /\ Changed(inst) \subseteq {k, k + 1} /\ k + 1 \notin Changed(inst)
      <4>1. k \in DOMAIN Strings /\ k + 1 # k
        BY <1>1, StringsOfObject DEF Changed
      <4> QED
        BY <3>7, <4>1
    <3>10. ASSUME NEW i \in Instances, NEW k \in Changed(i)
           PROVE  /\ i = inst
                  /\ k \in DOMAIN Strings /\ Changed(i) \subseteq {k, k + 1} /\ k + 1 \notin Changed(i)
      BY <3>6, <3>9
    <3> QED
      BY <3>2, <3>5, <3>8, <3>10 DEF OneChanges
  <2> QED
    BY <1>9, <2>1, <2>2, <2>3, ExecuteEffect
<1> QED
  BY <1>5, <1>6, <1>7, <1>8, <1>9 DEF Next

\* A write, however long its text, changes what one resource of one instance
\* reads as, and at most empties the buffer or the state right behind; a run
\* changes one text, however many words and spaces it cuts at; the timer and
\* the threads change none.
THEOREM WritesKeepOthers == Spec => OthersKeep
<1>1. Filled /\ Structured /\ [Next]_vars => [OneChanges]_vars
  BY OthersStep
<1> QED
  BY <1>1, IsStructured, PTL DEF Spec, OthersKeep

-----------------------------------------------------------------------------
(* Several integers                                                         *)

\* The room that a record takes.
LEMMA RecordFits ==
    ASSUME NEW type, NEW id \in Nat, NEW len \in Nat, len < Power(Base, 3)
    PROVE  RecordSize(type, id, len) \in Nat /\ RecordSize(type, id, len) <= len + 6
<1> DEFINE h == CreateHeader(type, id, len)
<1>1. Base \in Nat /\ Base >= 2
  BY BaseType
<1>2. Len(h.id) \in {1, 2}
  <2> DEFINE n == IF id >= Base THEN 2 ELSE 1
  <2>1. h.id = BigEndian(id, Base, n)
    BY DEF CreateHeader
  <2>2. n \in Nat /\ n \in {1, 2}
    OBVIOUS
  <2> HIDE DEF n, h
  <2>3. Len(BigEndian(id, Base, n)) = n
    BY <1>1, <2>2, BigEndianDigits, Zenon
  <2> QED
    BY <2>1, <2>2, <2>3
<1>3. Len(h.length) \in 0..3
  <2>1. h.length = LengthBytes(len)
    BY DEF CreateHeader
  <2>2. CASE len <= 7
    BY <2>1, <2>2 DEF LengthBytes
  <2>3. CASE ~ (len <= 7)
    <3> DEFINE n == Places(len, Base, 3)
    <3>1. 3 \in Nat /\ 3 >= 1
      OBVIOUS
    <3>2. n \in 1..3
      BY <1>1, <3>1, PlacesHold
    <3>3. h.length = BigEndian(len, Base, n)
      BY <2>1, <2>3 DEF LengthBytes
    <3> HIDE DEF n, h
    <3>4. n \in Nat
      BY <3>2
    <3>5. Len(BigEndian(len, Base, n)) = n
      BY <1>1, <3>4, BigEndianDigits, Zenon
    <3> QED
      BY <3>2, <3>3, <3>5
  <2> QED
    BY <2>2, <2>3
<1>4. RecordSize(type, id, len) = 1 + Len(h.id) + Len(h.length) + len
  BY DEF RecordSize, HeaderLength
<1> DEFINE x == Len(h.id)
           y == Len(h.length)
<1>5. x \in {1, 2} /\ y \in 0..3 /\ RecordSize(type, id, len) = 1 + x + y + len
  BY <1>2, <1>3, <1>4
<1> HIDE DEF h, x, y
<1> QED
  BY <1>5

LEMMA IntegerLength ==
    ASSUME NEW v \in Int, v >= 0, 2 * v < Modulus
    PROVE  Len(IntToTLV(v)) \in 1..Bytes
<1>1. Modulus \in Nat /\ Modulus > 0
  BY ModulusType, BaseType
<1>2. -Modulus < 2 * v
  BY <1>1
<1>3. \E len \in 1..Bytes : Len(IntToTLV(v)) = len
  BY <1>2, IntegerBytes
<1> QED
  BY <1>3

LEMMA ThreeAppended ==
    \A a, b, c : /\ Append(<<>>, a) = <<a>>
                 /\ Append(<<a>>, b) = <<a, b>>
                 /\ Append(<<a, b>>, c) = <<a, b, c>>
<1> TAKE a, b, c
<1> DEFINE S == {a, b, c}
<1>1. /\ <<>> \in Seq(S) /\ <<a>> \in Seq(S) /\ <<a, b>> \in Seq(S) /\ <<a, b, c>> \in Seq(S)
      /\ a \in S /\ b \in S /\ c \in S
  OBVIOUS
<1> HIDE DEF S
<1>2. Append(<<>>, a) = <<a>>
  BY <1>1
<1>3. Append(<<a>>, b) = <<a, b>>
  <2> DEFINE s == <<a>>
             t == <<a, b>>
  <2>1. s \in Seq(S) /\ t \in Seq(S) /\ Len(s) = 1 /\ Len(t) = 2 /\ s[1] = a /\ t[1] = a /\ t[2] = b
    BY <1>1
  <2> HIDE DEF s, t
  <2> DEFINE u == Append(s, b)
  <2>5. /\ u \in Seq(S) /\ Len(u) = Len(s) + 1
        /\ \A i \in 1..Len(s) : u[i] = s[i]
        /\ u[Len(s) + 1] = b
    <3>1. s \in Seq(S) /\ b \in S
      BY <1>1, <2>1
    <3> QED
      BY <3>1
  <2> HIDE DEF u
  <2>2. \A i \in 1..2 : u[i] = t[i]
    BY <2>1, <2>5
  <2>3. u \in Seq(S) /\ Len(u) = 2
    BY <2>1, <2>5
  <2>4. u = t
    BY <2>1, <2>2, <2>3, SeqEqual
  <2> QED
    BY <2>4 DEF s, t, u
<1>4. Append(<<a, b>>, c) = <<a, b, c>>
  <2> DEFINE s == <<a, b>>
             t == <<a, b, c>>
  <2>1. /\ s \in Seq(S) /\ t \in Seq(S) /\ Len(s) = 2 /\ Len(t) = 3
        /\ s[1] = a /\ s[2] = b /\ t[1] = a /\ t[2] = b /\ t[3] = c
    BY <1>1
  <2> HIDE DEF s, t
  <2> DEFINE u == Append(s, c)
  <2>5. /\ u \in Seq(S) /\ Len(u) = Len(s) + 1
        /\ \A i \in 1..Len(s) : u[i] = s[i]
        /\ u[Len(s) + 1] = c
    <3>1. s \in Seq(S) /\ c \in S
      BY <1>1, <2>1
    <3> QED
      BY <3>1
  <2> HIDE DEF u
  <2>2. \A i \in 1..3 : u[i] = t[i]
    BY <2>1, <2>5
  <2>3. u \in Seq(S) /\ Len(u) = 3
    BY <2>1, <2>5
  <2>4. u = t
    BY <2>1, <2>2, <2>3, SeqEqual
  <2> QED
    BY <2>4 DEF s, t, u
<1> QED
  BY <1>2, <1>3, <1>4

\* The record of one of several integers.
PartOf(slot, inst, n) == [id |-> n - 1, data |-> IntToTLV(NumberAt(PointerAt(slot, inst, n - 1)))]

LEMMA SeveralOfThree ==
    ASSUME NEW slot, NEW inst, slots[slot].nof = 3,
           \A n \in 0..2 : PointerAt(slot, inst, n) # None
    PROVE  Several(slot, inst) = <<PartOf(slot, inst, 1), PartOf(slot, inst, 2), PartOf(slot, inst, 3)>>
<1> DEFINE r(n) == PartOf(slot, inst, n)
           Is(p) == p = [n \in 0..slots[slot].nof |->
                           IF n = 0 THEN <<>>
                           ELSE IF PointerAt(slot, inst, n - 1) = None THEN p[n - 1]
                           ELSE Append(p[n - 1],
                                       [id   |-> n - 1,
                                        data |-> IntToTLV(NumberAt(PointerAt(slot, inst, n - 1)))])]
           q == CHOOSE p : Is(p)
           f == [n \in 0..3 |-> IF n = 0 THEN <<>> ELSE IF n = 1 THEN <<r(1)>>
                                ELSE IF n = 2 THEN <<r(1), r(2)>> ELSE <<r(1), r(2), r(3)>>]
<1>1. \A n \in 1..3 : PointerAt(slot, inst, n - 1) # None
  <2>1. \A n \in 1..3 : n - 1 \in 0..2
    OBVIOUS
  <2> QED
    BY <2>1
<1>2. \A p : Is(p) <=> p = [n \in 0..3 |-> IF n = 0 THEN <<>> ELSE Append(p[n - 1], r(n))]
  <2> TAKE p
  <2>1. \A n \in 0..3 :
          (IF n = 0 THEN <<>> ELSE IF PointerAt(slot, inst, n - 1) = None THEN p[n - 1]
           ELSE Append(p[n - 1],
                       [id |-> n - 1, data |-> IntToTLV(NumberAt(PointerAt(slot, inst, n - 1)))]))
          = IF n = 0 THEN <<>> ELSE Append(p[n - 1], r(n))
    BY <1>1 DEF PartOf
  <2> QED
    BY <2>1
<1> HIDE DEF Is
<1>3. Is(f)
  <2>2. \A n \in 0..3 : f[n] = IF n = 0 THEN <<>> ELSE Append(f[n - 1], r(n))
    <3>1. f[0] = <<>> /\ f[1] = <<r(1)>> /\ f[2] = <<r(1), r(2)>> /\ f[3] = <<r(1), r(2), r(3)>>
      OBVIOUS
    <3>2. \A a, b, c :
             /\ <<a>> = Append(<<>>, a) /\ <<a, b>> = Append(<<a>>, b)
             /\ <<a, b, c>> = Append(<<a, b>>, c)
      BY ThreeAppended
    <3> HIDE DEF f, r
    <3>3. /\ f[1] = Append(f[0], r(1)) /\ f[2] = Append(f[1], r(2)) /\ f[3] = Append(f[2], r(3))
      <4>1. f[1] = Append(f[0], r(1))
        BY <3>1, <3>2, Zenon
      <4>2. f[2] = Append(f[1], r(2))
        BY <3>1, <3>2, Zenon
      <4>3. f[3] = Append(f[2], r(3))
        <5>1. <<r(1), r(2), r(3)>> = Append(<<r(1), r(2)>>, r(3))
          <6> DEFINE a == r(1)
                     b == r(2)
                     c == r(3)
          <6> HIDE DEF a, b, c
          <6>1. <<a, b, c>> = Append(<<a, b>>, c)
            BY <3>2
          <6> QED
            BY <6>1 DEF a, b, c
        <5> QED
          BY <3>1, <5>1, Zenon
      <4> QED
        BY <4>1, <4>2, <4>3
    <3>4. \A n \in 0..3 : n = 0 \/ n = 1 \/ n = 2 \/ n = 3
      OBVIOUS
    <3>5. 1 - 1 = 0 /\ 2 - 1 = 1 /\ 3 - 1 = 2
      OBVIOUS
    <3> QED
      BY <3>1, <3>3, <3>4, <3>5
  <2>3. f = [n \in 0..3 |-> f[n]]
    OBVIOUS
  <2> HIDE DEF f, r
  <2> QED
    BY <1>2, <2>2, <2>3
<1>4. Is(q)
  <2> HIDE DEF f
  <2> QED
    BY <1>3, Zenon
<1>5. Several(slot, inst) = q[3]
  BY DEF Several, Is
<1> HIDE DEF q, f, r
<1>6. /\ q[0] = <<>> /\ q[1] = Append(q[0], r(1))
      /\ q[2] = Append(q[1], r(2)) /\ q[3] = Append(q[2], r(3))
  BY <1>2, <1>4
<1>7. q[3] = <<r(1), r(2), r(3)>>
  <2>1. q[1] = <<r(1)>>
    BY <1>6, ThreeAppended, Zenon
  <2>2. q[2] = <<r(1), r(2)>>
    BY <1>6, <2>1, ThreeAppended, Zenon
  <2> QED
    BY <1>6, <2>2, ThreeAppended, Zenon
<1> QED
  BY <1>5, <1>7 DEF r

\* Three integers have room in a buffer of Temp bytes, with their header.
LEMMA ThreeHaveRoom ==
    ASSUME NEW s, Len(s) = 3, \A n \in 1..3 : s[n].id \in Nat /\ Len(s[n].data) \in 1..Bytes
    PROVE  SeveralSize(s) \in Nat /\ SeveralSize(s) + 6 <= Temp
<1> DEFINE z(n) == RecordSize("instance", s[n].id, Len(s[n].data))
           Is(p) == p = [n \in 0..Len(s) |->
                           IF n = 0 THEN 0
                           ELSE p[n - 1] + RecordSize("instance", s[n].id, Len(s[n].data))]
           q == CHOOSE p : Is(p)
           f == [n \in 0..3 |-> IF n = 0 THEN 0 ELSE IF n = 1 THEN z(1)
                                ELSE IF n = 2 THEN z(1) + z(2) ELSE z(1) + z(2) + z(3)]
<1>1. Temp \in Nat /\ Temp >= 3 * (Bytes + 6) + 6 /\ Temp < Power(Base, 3) /\ Bytes \in Nat
      /\ Power(Base, 3) \in Nat
  <2>1. Bytes \in Nat /\ Base \in Nat /\ 3 \in Nat
    BY BaseType
  <2>2. Power(Base, 3) \in Nat
    BY <2>1, Powers
  <2> QED
    BY <2>1, <2>2, WidthAssumption
<1>2. \A n \in 1..3 : z(n) \in Nat /\ z(n) <= Bytes + 6
  <2> TAKE n \in 1..3
  <2> DEFINE len == Len(s[n].data)
  <2>1. len \in 1..Bytes /\ s[n].id \in Nat
    OBVIOUS
  <2> HIDE DEF len
  <2>2. len \in Nat /\ len < Power(Base, 3)
    BY <1>1, <2>1
  <2>3. RecordSize("instance", s[n].id, len) \in Nat /\ RecordSize("instance", s[n].id, len) <= len + 6
    BY <2>1, <2>2, RecordFits
  <2> QED
    BY <1>1, <2>1, <2>3 DEF len
<1>3. SeveralSize(s) = q[3]
  BY DEF SeveralSize
<1> HIDE DEF z
<1>4. \A p : Is(p) <=> p = [n \in 0..3 |-> IF n = 0 THEN 0 ELSE p[n - 1] + z(n)]
  BY DEF z
<1> HIDE DEF Is
<1>5. z(1) \in Nat /\ z(2) \in Nat /\ z(3) \in Nat
  BY <1>2
<1>6. Is(f)
  <2>1. f[0] = 0 /\ f[1] = z(1) /\ f[2] = z(1) + z(2) /\ f[3] = z(1) + z(2) + z(3)
        /\ f = [n \in 0..3 |-> f[n]]
    OBVIOUS
  <2> HIDE DEF f
  <2>2. f[1] = f[0] + z(1) /\ f[2] = f[1] + z(2) /\ f[3] = f[2] + z(3)
    BY <1>5, <2>1
  <2>3. \A n \in 0..3 : f[n] = IF n = 0 THEN 0 ELSE f[n - 1] + z(n)
    BY <2>1, <2>2
  <2> QED
    BY <1>4, <2>1, <2>3
<1>7. Is(q)
  <2> HIDE DEF f
  <2> QED
    BY <1>6, Zenon
<1> HIDE DEF q, f
<1>8. q[0] = 0 /\ q[1] = q[0] + z(1) /\ q[2] = q[1] + z(2) /\ q[3] = q[2] + z(3)
  BY <1>4, <1>7
<1>9. q[3] = z(1) + z(2) + z(3)
  BY <1>5, <1>8
<1>10. z(1) <= Bytes + 6 /\ z(2) <= Bytes + 6 /\ z(3) <= Bytes + 6
  BY <1>2
<1> DEFINE x == SeveralSize(s)
<1>11. x = z(1) + z(2) + z(3)
  BY <1>3, <1>9
<1> DEFINE bound == Bytes + 6
<1>12. bound \in Nat /\ Temp >= 3 * bound + 6 /\ z(1) <= bound /\ z(2) <= bound /\ z(3) <= bound
  BY <1>1, <1>10
<1> HIDE DEF x, bound
<1>13. x \in Nat /\ x <= 3 * bound
  BY <1>5, <1>11, <1>12
<1>14. x \in Nat /\ x + 6 <= Temp
  BY <1>1, <1>12, <1>13
<1> QED
  BY <1>14 DEF x

-----------------------------------------------------------------------------
(* Every resource is read as what was put there                             *)

\* What a read of a resource gives, if all is well.
Value(id, inst) ==
    LET pointer(x) == PointerOf(object, id, inst, x)
    IN  IF LastOf(object, id) = 2
        THEN <<[id |-> 0, data |-> IntToTLV(PutNumber(pointer(0)))],
               [id |-> 1, data |-> IntToTLV(PutNumber(pointer(1)))],
               [id |-> 2, data |-> IntToTLV(PutNumber(pointer(2)))]>>
        ELSE IF TypeOf(object, id) = "INT" THEN Int64ToPlainText(PutNumber(pointer(0)))
        ELSE PutText(pointer(0))

LEMMA GivenAre ==
    ASSUME Filled, Serving, NEW id \in Ids(object), AtOf(object, id) # "E", NEW inst \in Instances,
           NEW c
    PROVE  c \in Given(id, inst) <=> \E x \in 0..LastOf(object, id) : c = Setting(object, id, inst, x)
<1> DEFINE o == object
<1>1. Range(Calls) = Known(o) /\ o \in {"device", "applications"} /\ inst \in InstancesOf(o)
  BY FullTable DEF Instances, InstancesOf
<1>2. LastOf(o, id) \in {0, 2}
  BY DEF LastOf
<1>3. ASSUME c \in Given(id, inst)
      PROVE  \E x \in 0..LastOf(o, id) : c = Setting(o, id, inst, x)
  <2>1. c \in Known(o) /\ c.call = "set" /\ c.id = id /\ c.inst = inst
    BY <1>1, <1>3 DEF Given
  <2>2. <<id, inst, c.idx>> \in ValuesOf(o) /\ c = Setting(o, id, inst, c.idx)
    BY <2>1, KnownCall
  <2>3. c.idx \in 0..2 /\ c.idx <= LastOf(o, id)
    BY <1>1, <2>2, ValueType
  <2> QED
    BY <1>2, <2>2, <2>3
<1>4. ASSUME NEW x \in 0..LastOf(o, id), c = Setting(o, id, inst, x)
      PROVE  c \in Given(id, inst)
  <2>1. x \in 0..2 /\ x <= LastOf(o, id)
    BY <1>2
  <2> DEFINE v == <<id, inst, x>>
  <2>2. v \in Readable(o) \X InstancesOf(o) \X (0..2) /\ v[3] <= LastOf(o, v[1])
        /\ v[1] = id /\ v[2] = inst /\ v[3] = x
    BY <1>1, <2>1 DEF Readable
  <2> HIDE DEF v
  <2>3. v \in ValuesOf(o)
    BY <2>2 DEF ValuesOf
  <2>4. c \in Known(o)
    BY <1>4, <2>2, <2>3 DEF Known
  <2>5. c.call = "set" /\ c.id = id /\ c.inst = inst
    BY <1>4 DEF Setting, Set
  <2> QED
    BY <1>1, <2>4, <2>5 DEF Given
<1> QED
  BY <1>3, <1>4

LEMMA ExpectedIs ==
    ASSUME Filled, Serving, NEW id \in Ids(object), AtOf(object, id) # "E", NEW inst \in Instances
    PROVE  /\ Multiple(id, inst) <=> LastOf(object, id) = 2
           /\ Expected(id, inst) = Value(id, inst)
<1> DEFINE o == object
           n == LastOf(o, id)
           P(k) == PointerOf(o, id, inst, k)
           given(k) == (CHOOSE c \in Given(id, inst) : c.idx = k).pointer
           Highest(k) == \A c \in Given(id, inst) : c.idx <= k
           last == CHOOSE k \in {c.idx : c \in Given(id, inst)} : Highest(k)
<1>1. n \in {0, 2}
  BY DEF LastOf
<1>2. \A c : c \in Given(id, inst) <=> \E x \in 0..n : c = Setting(o, id, inst, x)
  BY GivenAre
<1>3. \A x : Setting(o, id, inst, x).idx = x /\ Setting(o, id, inst, x).pointer = P(x)
  BY DEF Setting, Set
<1> HIDE DEF P, n
<1>4. ASSUME NEW k \in 0..n PROVE given(k) = P(k)
  <2> DEFINE d == CHOOSE c \in Given(id, inst) : c.idx = k
  <2>1. Setting(o, id, inst, k) \in Given(id, inst) /\ Setting(o, id, inst, k).idx = k
    BY <1>2, <1>3
  <2>2. d \in Given(id, inst) /\ d.idx = k
    BY <2>1, Zenon
  <2>3. given(k) = d.pointer
    OBVIOUS
  <2> HIDE DEF d, given
  <2>4. d = Setting(o, id, inst, k)
    BY <1>2, <1>3, <2>2
  <2> QED
    BY <1>3, <2>3, <2>4
<1>5. Multiple(id, inst) <=> n = 2
  <2>1. Multiple(id, inst) <=> \E x \in 0..n : x > 0
    BY <1>2, <1>3 DEF Multiple
  <2> QED
    BY <1>1, <2>1
<1>6. last = n
  <2> DEFINE S == {c.idx : c \in Given(id, inst)}
  <2>1. n \in S /\ Highest(n) /\ \A k \in S : Highest(k) => k = n
    <3>1. n \in 0..n /\ n \in Nat
      BY <1>1
    <3>2. Setting(o, id, inst, n) \in Given(id, inst) /\ Setting(o, id, inst, n).idx = n
      BY <1>2, <1>3, <3>1
    <3>3. \A c \in Given(id, inst) : c.idx \in 0..n
      BY <1>2, <1>3
    <3> QED
      BY <3>1, <3>2, <3>3
  <2>2. last = CHOOSE k \in S : Highest(k)
    OBVIOUS
  <2> HIDE DEF S, Highest, last
  <2>3. last \in S /\ Highest(last)
    BY <2>1, <2>2, Zenon
  <2> QED
    BY <2>1, <2>3
<1>7. given(0).kind = "integer" <=> TypeOf(o, id) = "INT"
  <2>1. given(0) = P(0)
    BY <1>1, <1>4
  <2>2. P(0).kind = "integer" <=> TypeOf(o, id) = "INT"
    BY DEF P, PointerOf, Integer, Buffer, Literal
  <2> HIDE DEF given
  <2> QED
    BY <2>1, <2>2
<1>8. Expected(id, inst) =
         IF Multiple(id, inst)
         THEN [k \in 1..(last + 1) |-> [id |-> k - 1, data |-> IntToTLV(PutNumber(given(k - 1)))]]
         ELSE IF given(0).kind = "integer" THEN Int64ToPlainText(PutNumber(given(0)))
         ELSE PutText(given(0))
  BY DEF Expected
<1> HIDE DEF given, last
<1>9. Value(id, inst) = IF n = 2
        THEN <<[id |-> 0, data |-> IntToTLV(PutNumber(P(0)))],
               [id |-> 1, data |-> IntToTLV(PutNumber(P(1)))],
               [id |-> 2, data |-> IntToTLV(PutNumber(P(2)))]>>
        ELSE IF TypeOf(o, id) = "INT" THEN Int64ToPlainText(PutNumber(P(0)))
        ELSE PutText(P(0))
  BY DEF Value, n, P
<1>10. CASE n = 2
  <2> DEFINE r(k) == [id |-> k, data |-> IntToTLV(PutNumber(P(k)))]
             s == [k \in 1..3 |-> [id |-> k - 1, data |-> IntToTLV(PutNumber(given(k - 1)))]]
  <2>1. last + 1 = 3
    BY <1>6, <1>10
  <2>2. Expected(id, inst) = s
    BY <1>5, <1>8, <1>10, <2>1
  <2>3. s[1] = r(0) /\ s[2] = r(1) /\ s[3] = r(2)
    <3>1. given(0) = P(0) /\ given(1) = P(1) /\ given(2) = P(2)
      BY <1>4, <1>10
    <3>2. 1 - 1 = 0 /\ 2 - 1 = 1 /\ 3 - 1 = 2
      OBVIOUS
    <3> QED
      BY <3>1, <3>2
  <2>4. s = [k \in 1..3 |-> s[k]]
    OBVIOUS
  <2> HIDE DEF r, s
  <2>5. s = <<r(0), r(1), r(2)>>
    BY <2>3, <2>4
  <2>6. Value(id, inst) = <<r(0), r(1), r(2)>>
    BY <1>9, <1>10 DEF r
  <2> QED
    BY <1>5, <1>10, <2>2, <2>5, <2>6 DEF n
<1>11. CASE n # 2
  <2>1. given(0) = P(0)
    BY <1>1, <1>4
  <2> QED
    BY <1>5, <1>7, <1>8, <1>9, <1>11, <2>1 DEF n
<1> QED
  BY <1>10, <1>11

LEMMA NumberIsPut ==
    ASSUME Structured, NEW id, TypeOf(object, id) = "INT", NEW inst \in Instances \ overlong, NEW x
    PROVE  NumberAt(PointerOf(object, id, inst, x)) = PutNumber(PointerOf(object, id, inst, x))
<1> DEFINE pointer == PointerOf(object, id, inst, x)
<1>1. pointer.inst = inst
  BY DEF PointerOf, Integer
<1>2. memory[inst].ints = written[inst].ints
  BY DEF Structured, Kept
<1> HIDE DEF pointer
<1>3. NumberAt(pointer) = PutNumber(pointer)
  BY <1>1, <1>2 DEF NumberAt, PutNumber
<1> QED
  BY <1>3 DEF pointer

LEMMA TextIsPut ==
    ASSUME object \in {"device", "applications"}, Structured, NEW id \in Ids(object),
           TypeOf(object, id) = "STRING", NEW inst \in Instances \ overlong, NEW x
    PROVE  TextAt(PointerOf(object, id, inst, x)) = PutText(PointerOf(object, id, inst, x))
<1> DEFINE pointer == PointerOf(object, id, inst, x)
<1>1. CASE AtOf(object, id) = "RW"
  <2>1. PICK k \in DOMAIN Strings : BufferName(object, id) = Strings[k]
    BY <1>1, StringsOfObject
  <2>2. pointer.kind = "buffer" /\ pointer.inst = inst /\ pointer.name = Strings[k]
    BY <1>1, <2>1 DEF PointerOf, Buffer
  <2> HIDE DEF pointer
  <2>3. Structure(memory[inst]) /\ Holds(memory[inst], k, written[inst].texts[Strings[k]])
    BY DEF Structured, Kept
  <2>4. StringFrom(memory[inst], Start(Strings[k])) = written[inst].texts[Strings[k]]
    BY <2>3, HeldIsRead
  <2>5. TextAt(pointer) = PutText(pointer)
    BY <2>2, <2>4 DEF TextAt, PutText
  <2> QED
    BY <2>5 DEF pointer
<1>2. CASE AtOf(object, id) # "RW"
  <2>1. pointer.kind = "literal"
    BY <1>2 DEF PointerOf, Literal
  <2> HIDE DEF pointer
  <2>2. TextAt(pointer) = PutText(pointer)
    BY <2>1 DEF TextAt, PutText
  <2> QED
    BY <2>2 DEF pointer
<1> QED
  BY <1>1, <1>2

\* The integers of a resource that has several are small numbers.
LEMMA SourcesFit ==
    ASSUME object = "device", Structured, NEW id \in {6, 7, 8}, NEW x \in 0..2
    PROVE  Len(IntToTLV(NumberAt(PointerOf(object, id, 0, x)))) \in 1..Bytes
<1> DEFINE name == <<IntegerName(object, id), x>>
           pointer == PointerOf(object, id, 0, x)
           v == NumberAt(pointer)
<1>1. 0 \in Instances
  BY DEF Instances
<1>2. Integers64(memory[0].ints)
  BY <1>1 DEF Structured, Structure
<1>3. IntegerName(object, id) \in {"power_sources", "ps_voltage", "ps_current"}
  BY DEF IntegerName
<1>4. name \in IntegerNames /\ name # TimeName
  <2>1. DOMAIN PowerSources = {"power_sources", "ps_voltage", "ps_current"}
    BY DEF PowerSources
  <2>2. name \in (DOMAIN PowerSources) \X (0..2)
    BY <1>3, <2>1
  <2>3. name \in IntegerNames
    BY <2>2 DEF IntegerNames, DeviceIntegers
  <2>4. name # TimeName
    BY <1>3 DEF TimeName
  <2> QED
    BY <2>3, <2>4
<1>5. TypeOf(object, id) = "INT"
  BY DEF TypeOf
<1>6. pointer.inst = 0 /\ pointer.name = name
  BY <1>5 DEF PointerOf, Integer
<1> HIDE DEF name, pointer
<1>7. v = memory[0].ints[name]
  BY <1>6 DEF NumberAt
<1> HIDE DEF v
<1>8. v \in Int /\ v >= 0 /\ 2 * v < Modulus
  BY <1>2, <1>4, <1>7 DEF Integers64, Fits
<1>9. Len(IntToTLV(v)) \in 1..Bytes
  BY <1>8, IntegerLength
<1> QED
  BY <1>9 DEF v, pointer

\* The pointer that is found is the resource's own.
LEMMA OwnPointer ==
    ASSUME Filled, Serving, NEW id \in Ids(object), AtOf(object, id) # "E", NEW inst \in Instances,
           Placed(object, id, inst), NEW x \in 0..LastOf(object, id)
    PROVE  /\ PointerAt(id + 1, inst, x) = PointerOf(object, id, inst, x)
           /\ PointerOf(object, id, inst, x) \in Pointers
<1> DEFINE o == object
           v == <<id, inst, x>>
<1>1. o \in {"device", "applications"} /\ inst \in Nat /\ inst \in InstancesOf(o)
  BY FullTable, TableAssumption DEF Instances, InstancesOf
<1>2. x \in 0..2 /\ x <= LastOf(o, id)
  BY DEF LastOf
<1>3. v \in Readable(o) \X InstancesOf(o) \X (0..2) /\ v[3] <= LastOf(o, v[1])
  BY <1>1, <1>2 DEF Readable
<1> HIDE DEF v
<1>4. v \in ValuesOf(o)
  BY <1>3 DEF ValuesOf
<1>5. PointerAt(id + 1, inst, x) = PointerOf(o, id, inst, x)
  BY <1>1, <1>2, <1>4, PathsLead DEF v
<1>6. PointerOf(o, id, inst, x) \in Pointers
  BY <1>1, <1>4, ValueType DEF v
<1> QED
  BY <1>5, <1>6

\* What the n-th of a resource's integers is, as a record.
Number(id, inst, n) ==
    [id |-> n, data |-> IntToTLV(NumberAt(PointerOf(object, id, inst, n)))]

\* The three integers of a resource.
LEMMA ThreeAreFound ==
    ASSUME Filled, Structured, Serving, NEW id \in Ids(object), LastOf(object, id) = 2,
           NEW inst \in Instances
    PROVE  /\ Several(id + 1, inst) = <<Number(id, inst, 0), Number(id, inst, 1), Number(id, inst, 2)>>
           /\ SeveralSize(Several(id + 1, inst)) \in Nat
           /\ SeveralSize(Several(id + 1, inst)) + 6 <= Temp
<1> DEFINE o == object
           P(x) == PointerOf(o, id, inst, x)
           s == Several(id + 1, inst)
           part(n) == PartOf(id + 1, inst, n)
           z(n) == Number(id, inst, n)
<1>1. o = "device" /\ id \in {6, 7, 8} /\ inst = 0 /\ AtOf(o, id) = "R"
  <2>1. o = "device" /\ id \in {6, 7, 8}
    BY DEF LastOf
  <2> QED
    BY <2>1 DEF Instances, AtOf
<1>2. \A x \in 0..2 : PointerAt(id + 1, inst, x) = P(x) /\ P(x) \in Pointers
  <2>1. Placed(o, id, inst)
    BY <1>1, TableAssumption DEF Placed
  <2> QED
    BY <1>1, <2>1, OwnPointer
<1>3. \A x \in 0..2 : Len(IntToTLV(NumberAt(P(x)))) \in 1..Bytes
  BY <1>1, SourcesFit
<1> HIDE DEF P
<1>4. \A n \in 1..3 : part(n) = [id |-> n - 1, data |-> IntToTLV(NumberAt(P(n - 1)))]
  <2> TAKE n \in 1..3
  <2>1. n - 1 \in 0..2
    OBVIOUS
  <2>2. PointerAt(id + 1, inst, n - 1) = P(n - 1)
    BY <1>2, <2>1
  <2> QED
    BY <2>2 DEF PartOf
<1>5. \A n \in 0..2 : z(n) = [id |-> n, data |-> IntToTLV(NumberAt(P(n)))]
  BY DEF Number, P
<1>6. slots[id + 1].nof = 3
  BY FullSlot
<1>7. s = <<part(1), part(2), part(3)>>
  <2>1. \A x \in 0..2 : PointerAt(id + 1, inst, x) # None
    BY <1>2, NoneAssumption
  <2> QED
    BY <1>6, <2>1, SeveralOfThree
<1>8. part(1) = z(0) /\ part(2) = z(1) /\ part(3) = z(2)
  <2>1. /\ 1 - 1 = 0 /\ 2 - 1 = 1 /\ 3 - 1 = 2 /\ 1 \in 1..3 /\ 2 \in 1..3 /\ 3 \in 1..3
        /\ 0 \in 0..2 /\ 1 \in 0..2 /\ 2 \in 0..2
    OBVIOUS
  <2> HIDE DEF part, z
  <2> QED
    BY <1>4, <1>5, <2>1
<1>9. s = <<z(0), z(1), z(2)>>
  <2> HIDE DEF part, z, s
  <2> QED
    BY <1>7, <1>8
<1>10. SeveralSize(s) \in Nat /\ SeveralSize(s) + 6 <= Temp
  <2>1. 0 \in 0..2 /\ 1 \in 0..2 /\ 2 \in 0..2
    OBVIOUS
  <2> HIDE DEF z, s
  <2>2. Len(s) = 3 /\ s[1] = z(0) /\ s[2] = z(1) /\ s[3] = z(2)
    BY <1>9
  <2>3. /\ s[1].id = 0 /\ s[2].id = 1 /\ s[3].id = 2
        /\ s[1].data = IntToTLV(NumberAt(P(0)))
        /\ s[2].data = IntToTLV(NumberAt(P(1)))
        /\ s[3].data = IntToTLV(NumberAt(P(2)))
    BY <1>5, <2>1, <2>2
  <2>4. \A n \in 1..3 : s[n].id \in Nat /\ Len(s[n].data) \in 1..Bytes
    BY <1>3, <2>1, <2>3
  <2> QED
    BY <2>2, <2>4, ThreeHaveRoom
<1> QED
  BY <1>9, <1>10 DEF s, z

\* What is found at a resource of an instance.
There(id, inst) ==
    IF LastOf(object, id) = 2 THEN Several(id + 1, inst)
    ELSE IF TypeOf(object, id) = "INT"
    THEN Int64ToPlainText(NumberAt(PointerOf(object, id, inst, 0)))
    ELSE TextAt(PointerOf(object, id, inst, 0))

LEMMA ReadsWhatIsThere ==
    ASSUME Filled, Structured, Serving, NEW id \in Ids(object), AtOf(object, id) # "E",
           NEW inst \in Instances, Placed(object, id, inst)
    PROVE  ReadResource(id + 1, inst) = Content(There(id, inst))
<1> DEFINE o == object
           slot == id + 1
           r == slots[slot]
           pointer == PointerOf(o, id, inst, 0)
           pointers == [n \in 1..r.nof |-> PointerAt(slot, inst, n - 1)]
           size == SeveralSize(Several(slot, inst))
<1>1. id \in Nat
  BY DEF Ids, NofIds
<1>2. r.id = id /\ r.type = TypeOf(o, id) /\ r.at = AtOf(o, id) /\ r.nof = LastOf(o, id) + 1
  BY FullSlot
<1>3. LastOf(o, id) \in {0, 2} /\ (LastOf(o, id) = 2 => o = "device" /\ TypeOf(o, id) = "INT")
  BY DEF LastOf, TypeOf
<1>4. \A x \in 0..LastOf(o, id) : PointerAt(slot, inst, x) = PointerOf(o, id, inst, x)
                                 /\ PointerOf(o, id, inst, x) \in Pointers
  BY OwnPointer
<1>5. ReadResource(slot, inst) =
        IF r.type = "STRING"
        THEN IF r.nof # 1 THEN Failure("5.01")
             ELSE IF pointers[1] \in {None, Undefined} THEN Failure("undefined")
             ELSE Content(TextAt(pointers[1]))
        ELSE IF None \in Range(pointers) THEN Failure("5.00")
        ELSE IF \E n \in DOMAIN pointers :
                    pointers[n] = Undefined \/ pointers[n].kind # "integer"
        THEN Failure("undefined")
        ELSE IF r.nof = 1 THEN Content(Int64ToPlainText(NumberAt(pointers[1])))
        ELSE IF size > Temp \/ RecordSize("multiple", r.id, size) > Temp THEN Failure("5.00")
        ELSE Content(Several(slot, inst))
  BY <1>2 DEF ReadResource
<1>6. /\ DOMAIN pointers = 1..(LastOf(o, id) + 1)
      /\ \A n \in DOMAIN pointers : /\ pointers[n] = PointerOf(o, id, inst, n - 1)
                                    /\ pointers[n] # None /\ pointers[n] # Undefined
  <2>1. \A n \in 1..(LastOf(o, id) + 1) : n - 1 \in 0..LastOf(o, id)
    BY <1>3
  <2> QED
    BY <1>2, <1>4, <2>1, NoneAssumption
<1>7. pointers[1] = pointer /\ pointer \notin {None, Undefined}
  <2>1. 1 \in 1..(LastOf(o, id) + 1) /\ 1 - 1 = 0
    BY <1>3
  <2> HIDE DEF pointers
  <2> QED
    BY <1>6, <2>1
<1>8. None \notin Range(pointers)
  <2> HIDE DEF pointers
  <2> QED
    BY <1>6 DEF Range
<1> HIDE DEF r, pointers, slot, size
<1>9. CASE TypeOf(o, id) = "STRING"
  <2>1. r.nof = 1 /\ LastOf(o, id) # 2
    BY <1>2, <1>3, <1>9
  <2>2. ReadResource(slot, inst) = Content(TextAt(pointer))
    BY <1>2, <1>5, <1>7, <1>9, <2>1
  <2>3. There(id, inst) = TextAt(pointer)
    BY <1>9, <2>1 DEF There
  <2> QED
    BY <2>2, <2>3 DEF slot
<1>10. ASSUME TypeOf(o, id) # "STRING"
       PROVE  /\ TypeOf(o, id) = "INT"
              /\ \A n \in DOMAIN pointers : pointers[n].kind = "integer"
  <2>1. TypeOf(o, id) = "INT"
    BY <1>10 DEF TypeOf
  <2>2. \A x : PointerOf(o, id, inst, x).kind = "integer"
    BY <2>1 DEF PointerOf, Integer
  <2> QED
    BY <1>6, <2>1, <2>2
<1>11. CASE TypeOf(o, id) # "STRING" /\ LastOf(o, id) = 0
  <2>1. r.nof = 1
    BY <1>2, <1>11
  <2>2. ~ \E n \in DOMAIN pointers : pointers[n] = Undefined \/ pointers[n].kind # "integer"
    BY <1>6, <1>10, <1>11
  <2>3. ReadResource(slot, inst) = Content(Int64ToPlainText(NumberAt(pointer)))
    BY <1>2, <1>5, <1>7, <1>8, <1>11, <2>1, <2>2
  <2>4. There(id, inst) = Int64ToPlainText(NumberAt(pointer))
    BY <1>10, <1>11 DEF There
  <2> QED
    BY <2>3, <2>4 DEF slot
<1>12. CASE TypeOf(o, id) # "STRING" /\ LastOf(o, id) = 2
  <2>1. r.nof # 1
    BY <1>2, <1>12
  <2>2. ~ \E n \in DOMAIN pointers : pointers[n] = Undefined \/ pointers[n].kind # "integer"
    BY <1>6, <1>10, <1>12
  <2>3. Several(slot, inst) = There(id, inst) /\ size \in Nat /\ size + 6 <= Temp
    BY <1>12, ThreeAreFound DEF slot, size, There
  <2>4. Temp \in Nat /\ Temp < Power(Base, 3) /\ Power(Base, 3) \in Nat
    <3>1. Base \in Nat /\ 3 \in Nat
      BY BaseType
    <3>2. Power(Base, 3) \in Nat
      BY <3>1, Powers
    <3> QED
      BY <3>2, WidthAssumption
  <2>5. size < Power(Base, 3)
    BY <2>3, <2>4
  <2>6. RecordSize("multiple", id, size) \in Nat /\ RecordSize("multiple", id, size) <= size + 6
    BY <1>1, <2>3, <2>5, RecordFits
  <2> DEFINE whole == RecordSize("multiple", id, size)
  <2>7. ~ (size > Temp \/ whole > Temp)
    <3>1. whole \in Nat /\ whole <= size + 6
      BY <2>6
    <3> HIDE DEF whole
    <3> QED
      BY <2>3, <2>4, <3>1
  <2>8. ReadResource(slot, inst) = Content(Several(slot, inst))
    BY <1>2, <1>5, <1>8, <1>12, <2>1, <2>2, <2>7
  <2> QED
    BY <2>3, <2>8 DEF slot
<1> QED
  BY <1>3, <1>9, <1>11, <1>12

\* What is found is what was put there.
LEMMA ThereIsValue ==
    ASSUME Filled, Structured, Serving, NEW id \in Ids(object), NEW inst \in Instances \ overlong
    PROVE  There(id, inst) = Value(id, inst)
<1> DEFINE o == object
           P(x) == PointerOf(o, id, inst, x)
<1>1. CASE LastOf(o, id) = 2
  <2>1. TypeOf(o, id) = "INT"
    BY <1>1 DEF LastOf, TypeOf
  <2>2. /\ NumberAt(P(0)) = PutNumber(P(0)) /\ NumberAt(P(1)) = PutNumber(P(1))
        /\ NumberAt(P(2)) = PutNumber(P(2))
    BY <2>1, NumberIsPut
  <2>3. There(id, inst) = <<Number(id, inst, 0), Number(id, inst, 1), Number(id, inst, 2)>>
    BY <1>1, ThreeAreFound DEF There
  <2> HIDE DEF P
  <2>4. Value(id, inst) = <<[id |-> 0, data |-> IntToTLV(PutNumber(P(0)))],
                            [id |-> 1, data |-> IntToTLV(PutNumber(P(1)))],
                            [id |-> 2, data |-> IntToTLV(PutNumber(P(2)))]>>
    BY <1>1 DEF Value, P
  <2>5. /\ Number(id, inst, 0) = [id |-> 0, data |-> IntToTLV(NumberAt(P(0)))]
        /\ Number(id, inst, 1) = [id |-> 1, data |-> IntToTLV(NumberAt(P(1)))]
        /\ Number(id, inst, 2) = [id |-> 2, data |-> IntToTLV(NumberAt(P(2)))]
    BY DEF Number, P
  <2> QED
    BY <2>2, <2>3, <2>4, <2>5
<1>2. CASE LastOf(o, id) # 2 /\ TypeOf(o, id) = "INT"
  <2>1. NumberAt(P(0)) = PutNumber(P(0))
    BY <1>2, NumberIsPut
  <2> QED
    BY <1>2, <2>1 DEF There, Value
<1>3. CASE LastOf(o, id) # 2 /\ TypeOf(o, id) # "INT"
  <2>1. TypeOf(o, id) = "STRING" /\ o \in {"device", "applications"}
    BY <1>3, FullTable DEF TypeOf
  <2>2. TextAt(P(0)) = PutText(P(0))
    BY <2>1, TextIsPut
  <2> QED
    BY <1>3, <2>2 DEF There, Value
<1> QED
  BY <1>1, <1>2, <1>3

LEMMA AddedAre ==
    ASSUME Filled, Serving, NEW c
    PROVE  c \in Range(Calls) /\ c.call = "add" <=> \E id \in Ids(object) : c = Adding(object, id)
<1>1. Range(Calls) = Known(object)
  BY FullTable
<1>2. ASSUME c \in Range(Calls), c.call = "add"
      PROVE  \E id \in Ids(object) : c = Adding(object, id)
  BY <1>1, <1>2, KnownCall
<1>3. ASSUME NEW id \in Ids(object), c = Adding(object, id)
      PROVE  c \in Range(Calls) /\ c.call = "add"
  BY <1>1, <1>3 DEF Known, Adding, Add
<1> QED
  BY <1>2, <1>3

LEMMA EveryValueIsRead == Filled /\ Structured => WrittenIsRead
<1> SUFFICES ASSUME Filled, Structured, Serving, NEW p \in Paths, Sound(p),
                    InstanceOf(p) <= MaxInstances,
                    InstanceOf(p) = MaxInstances => SlotOf(p) < Len(slots)
             PROVE  ReadsWell(p)
  BY DEF WrittenIsRead
<1> DEFINE o == object
           id == p.res
           inst == InstanceOf(p)
           executable == \E c \in Range(Calls) : c.call = "add" /\ c.id = p.res /\ c.at = "E"
<1>1. /\ p.res # None /\ SlotOf(p) <= Len(slots) /\ inst \in Instances \ overlong
      /\ id \in Ids(o) /\ SlotOf(p) = id + 1 /\ inst \in Nat
  BY PathSlot DEF Sound
<1>2. executable <=> AtOf(o, id) = "E"
  <2>1. \A i : Adding(o, i).id = i /\ Adding(o, i).at = AtOf(o, i)
    BY DEF Adding, Add
  <2>2. executable => AtOf(o, id) = "E"
    BY <2>1, AddedAre
  <2>3. AtOf(o, id) = "E" => executable
    <3>1. Adding(o, id) \in Range(Calls) /\ Adding(o, id).call = "add"
      BY <1>1, AddedAre
    <3> QED
      BY <2>1, <3>1
  <2> QED
    BY <2>2, <2>3
<1>3. Read(p) = ReadResource(id + 1, inst)
  <2>1. Len(slots) \in Nat /\ id \in Nat
    BY <1>1, FullTable DEF Ids, NofIds
  <2>2. ~ (SlotOf(p) > Len(slots))
    BY <1>1, <2>1
  <2> QED
    BY <1>1, <2>2 DEF Read
<1>4. CASE AtOf(o, id) = "E"
  <2>1. slots[id + 1].at = "E"
    BY <1>1, <1>4, FullSlot
  <2>2. ReadResource(id + 1, inst) = Failure("4.05")
    BY <2>1 DEF ReadResource
  <2> QED
    BY <1>2, <1>3, <1>4, <2>2 DEF ReadsWell
<1>5. CASE AtOf(o, id) # "E"
  <2>1. Placed(o, id, inst)
    <3>1. Len(slots) = NofIds(o) /\ NofIds(o) \in Nat /\ MaxInstances \in Nat
      BY FullTable, TableAssumption DEF NofIds
    <3> QED
      BY <1>1, <3>1 DEF Placed
  <2>2. ReadResource(id + 1, inst) = Content(Value(id, inst))
    BY <1>1, <1>5, <2>1, ReadsWhatIsThere, ThereIsValue
  <2>3. Expected(id, inst) = Value(id, inst)
    BY <1>1, <1>5, ExpectedIs
  <2> QED
    BY <1>2, <1>3, <1>5, <2>2, <2>3 DEF ReadsWell
<1> QED
  BY <1>4, <1>5

\* Every resource of every instance that has a place in the table reads as
\* what was last put there, by a write, a command, the timer or a thread, Args
\* as what the runs since have left of it, with as many instances, values and
\* characters as one likes.
THEOREM ResourcesReadAsWritten == Spec => []WrittenIsRead
<1>1. Filled /\ Structured => WrittenIsRead
  BY EveryValueIsRead
<1> QED
  BY <1>1, IsStructured, PTL

-----------------------------------------------------------------------------
(* The whole is the sum of its parts                                        *)

\* The record of a resource that can be read.
RecordOf(k) == RecordsOf(k)[1]

\* Whether s lists the records r of the slots C, each once.
Lists(s, C, r) ==
    /\ s \in Seq({r[k] : k \in C})
    /\ \A k \in C : \E j \in 1..Len(s) : s[j] = r[k]
    /\ \A i, j \in 1..Len(s) : s[i].id = s[j].id => i = j

LEMMA ListsOneMore ==
    ASSUME NEW C, NEW r, NEW s, Lists(s, C, r), NEW k, \A c \in C : r[c].id # r[k].id
    PROVE  Lists(s \o <<r[k]>>, C \cup {k}, r)
<1> DEFINE S == {r[c] : c \in C \cup {k}}
           t == <<r[k]>>
           u == s \o t
           n == Len(s)
<1>1. /\ s \in Seq({r[c] : c \in C})
      /\ \A c \in C : \E j \in 1..Len(s) : s[j] = r[c]
      /\ \A i, j \in 1..Len(s) : s[i].id = s[j].id => i = j
  BY DEF Lists
<1>2. s \in Seq(S) /\ t \in Seq(S) /\ n \in Nat /\ Len(t) = 1 /\ t[1] = r[k]
  <2>1. {r[c] : c \in C} \subseteq S /\ r[k] \in S
    OBVIOUS
  <2>2. \A A, B : A \subseteq B => Seq(A) \subseteq Seq(B)
    OBVIOUS
  <2> HIDE DEF S
  <2> QED
    BY <1>1, <2>1, <2>2
<1>3. ASSUME NEW i \in 1..n PROVE \E c \in C : s[i] = r[c]
  <2>1. s[i] \in {r[c] : c \in C}
    BY <1>1
  <2> QED
    BY <2>1
<1> HIDE DEF S, t
<1>4. u \in Seq(S) /\ Len(u) = n + 1 /\ \A i \in 1..(n + 1) : u[i] = IF i <= n THEN s[i] ELSE t[i - n]
  BY <1>2, ConcatProperties
<1> HIDE DEF u, n
<1>5. (\A i \in 1..n : u[i] = s[i]) /\ u[n + 1] = r[k]
  <2>1. (n + 1) - n = 1 /\ ~ (n + 1 <= n) /\ n + 1 \in 1..(n + 1)
    BY <1>2
  <2>2. \A i \in 1..n : i \in 1..(n + 1) /\ i <= n
    BY <1>2
  <2> QED
    BY <1>2, <1>4, <2>1, <2>2
<1>6. ASSUME NEW c \in C \cup {k} PROVE \E j \in 1..Len(u) : u[j] = r[c]
  <2>1. CASE c = k
    BY <1>2, <1>4, <1>5, <2>1
  <2>2. CASE c \in C
    <3>1. PICK j \in 1..n : s[j] = r[c]
      BY <1>1, <2>2 DEF n
    <3> QED
      BY <1>2, <1>4, <1>5, <3>1
  <2> QED
    BY <2>1, <2>2
<1>7. ASSUME NEW i \in 1..Len(u), NEW j \in 1..Len(u), u[i].id = u[j].id PROVE i = j
  <2>1. \A x \in 1..(n + 1) : x \in 1..n \/ x = n + 1
    BY <1>2
  <2>2. \A x \in 1..n : u[x].id # u[n + 1].id
    BY <1>3, <1>5
  <2>3. i \in 1..n /\ j \in 1..n => i = j
    BY <1>1, <1>5, <1>7 DEF n
  <2> QED
    BY <1>4, <1>7, <2>1, <2>2, <2>3
<1>8. Lists(u, C \cup {k}, r)
  <2>1. u \in Seq({r[c] : c \in C \cup {k}})
    BY <1>4 DEF S
  <2> QED
    BY <1>6, <1>7, <2>1 DEF Lists
<1> QED
  BY <1>8 DEF u, t

\* The loop over the slots lists the record of each that it is asked for.
LEMMA RecordsAreListed ==
    ASSUME NEW n \in Nat, Len(slots) = n, NEW C \in SUBSET (1..n), NEW r,
           \A k \in C : RecordsOf(k) = <<r[k]>>,
           \A j, k \in C : j # k => r[j].id # r[k].id
    PROVE  Lists(Records(C), C, r)
<1> DEFINE X == Seq({r[k] : k \in C})
           F == [k \in 1..n |-> [x \in X |-> IF k \in C THEN x \o RecordsOf(k) ELSE x]]
           Is(p) == p = [k \in 0..Len(slots) |->
                           IF k = 0 THEN <<>>
                           ELSE IF k \in C THEN p[k - 1] \o RecordsOf(k)
                           ELSE p[k - 1]]
           q == CHOOSE p : Is(p)
<1>1. F \in [1..n -> [X -> X]] /\ <<>> \in X
  <2>1. \A k \in C : r[k] \in {r[c] : c \in C}
    OBVIOUS
  <2> DEFINE S == {r[c] : c \in C}
  <2>2. \A k \in C : r[k] \in S
    BY <2>1
  <2> HIDE DEF S
  <2>3. \A x \in Seq(S) : \A k \in C : x \o <<r[k]>> \in Seq(S)
    BY <2>2
  <2>4. <<>> \in Seq(S)
    OBVIOUS
  <2>5. X = Seq(S)
    BY DEF S
  <2> HIDE DEF X
  <2> QED
    BY <2>3, <2>4, <2>5
<1> HIDE DEF X
<1>2. PICK f \in [0..n -> X] : Follows(f, <<>>, n, F)
  <2> HIDE DEF F
  <2> QED
    BY <1>1, Recursion, Zenon
<1>3. ASSUME NEW i \in 1..n
      PROVE  f[i] = IF i \in C THEN f[i - 1] \o RecordsOf(i) ELSE f[i - 1]
  <2>1. i - 1 \in 0..n /\ f[i - 1] \in X
    OBVIOUS
  <2> QED
    BY <1>2, <2>1 DEF Follows
<1> DEFINE G(p, k) == IF k = 0 THEN <<>> ELSE IF k \in C THEN p[k - 1] \o RecordsOf(k) ELSE p[k - 1]
<1>3a. \A p : Is(p) <=> p = [k \in 0..n |-> G(p, k)]
  OBVIOUS
<1>4. Is(f)
  <2>1. f[0] = <<>>
    BY <1>2 DEF Follows
  <2>2. \A k \in 0..n : k = 0 \/ (k # 0 /\ k \in 1..n)
    OBVIOUS
  <2>3. \A k \in 0..n : f[k] = G(f, k)
    BY <1>3, <2>1, <2>2
  <2>4. f = [k \in 0..n |-> f[k]]
    OBVIOUS
  <2> HIDE DEF Is, G
  <2> QED
    BY <1>3a, <2>3, <2>4
<1>5. Is(q)
  <2> HIDE DEF Is
  <2> QED
    BY <1>4, Zenon
<1>6. Records(C) = q[n]
  BY DEF Records
<1> HIDE DEF q
<1>7. q[0] = <<>> /\ \A i \in 1..n : q[i] = IF i \in C THEN q[i - 1] \o RecordsOf(i) ELSE q[i - 1]
  <2>1. q = [k \in 0..n |-> G(q, k)]
    <3> HIDE DEF Is, G
    <3> QED
      BY <1>5, <1>3a
  <2>2. \A k \in 0..n : q[k] = G(q, k)
    <3> HIDE DEF G
    <3> QED
      BY <2>1
  <2>3. 0 \in 0..n /\ \A i \in 1..n : i \in 0..n /\ i # 0
    OBVIOUS
  <2> QED
    BY <2>2, <2>3
<1> HIDE DEF F, Is
<1> DEFINE T == {i \in Nat : i <= n => Lists(q[i], C \cap (1..i), r)}
<1>8. 0 \in T
  <2>1. C \cap (1..0) = {} /\ Len(<<>>) = 0 /\ 1..0 = {}
    OBVIOUS
  <2>2. Lists(<<>>, {}, r)
    BY <2>1 DEF Lists
  <2> QED
    BY <1>7, <2>1, <2>2
<1>9. ASSUME NEW i \in Nat, i \in T PROVE i + 1 \in T
  <2>1. SUFFICES ASSUME i + 1 <= n PROVE Lists(q[i + 1], C \cap (1..(i + 1)), r)
    OBVIOUS
  <2>2. i + 1 \in 1..n /\ (i + 1) - 1 = i /\ i <= n
    BY <2>1
  <2>3. Lists(q[i], C \cap (1..i), r)
    BY <1>9, <2>2
  <2>4. q[i + 1] = IF i + 1 \in C THEN q[i] \o RecordsOf(i + 1) ELSE q[i]
    BY <1>7, <2>2
  <2>5. 1..(i + 1) = (1..i) \cup {i + 1}
    OBVIOUS
  <2>6. CASE i + 1 \in C
    <3>1. \A c \in C \cap (1..i) : r[c].id # r[i + 1].id
      <4>1. \A c \in 1..i : c # i + 1
        OBVIOUS
      <4> QED
        BY <2>6, <4>1
    <3>2. Lists(q[i] \o <<r[i + 1]>>, (C \cap (1..i)) \cup {i + 1}, r)
      BY <2>3, <3>1, ListsOneMore
    <3>3. C \cap (1..(i + 1)) = (C \cap (1..i)) \cup {i + 1}
      BY <2>5, <2>6
    <3> QED
      BY <2>4, <2>6, <3>2, <3>3
  <2>7. CASE i + 1 \notin C
    <3>1. C \cap (1..(i + 1)) = C \cap (1..i)
      BY <2>5, <2>7
    <3> QED
      BY <2>3, <2>4, <2>7, <3>1
  <2> QED
    BY <2>6, <2>7
<1>10. n \in T
  <2> HIDE DEF T
  <2>1. Nat \subseteq T
    BY <1>8, <1>9, Induction
  <2> QED
    BY <2>1
<1>11. C \cap (1..n) = C
  OBVIOUS
<1> QED
  BY <1>6, <1>10, <1>11

\* A resource with one integer has one that text keeps.
LEMMA NumberFits ==
    ASSUME object \in {"device", "applications"}, Structured, NEW id \in Ids(object),
           TypeOf(object, id) = "INT", AtOf(object, id) # "E", LastOf(object, id) # 2
    PROVE  LET v == NumberAt(PointerOf(object, id, 0, 0))
           IN  /\ v \in Int /\ -Modulus <= 2 * v /\ 2 * v < Modulus
               /\ \E n \in DOMAIN memory[0].ints : v = memory[0].ints[n]
<1> DEFINE name == <<IntegerName(object, id), 0>>
           pointer == PointerOf(object, id, 0, 0)
           v == NumberAt(pointer)
<1>1. 0 \in Instances
  BY TableAssumption DEF Instances
<1>2. Integers64(memory[0].ints)
  BY <1>1 DEF Structured, Structure
<1>3. name \in IntegerNames
  <2>1. CASE object = "device"
    <3>1. id \in {9, 10, 11, 13}
      BY <2>1 DEF Ids, NofIds, TypeOf, AtOf, LastOf
    <3>2. IntegerName(object, id) \in {"battery_level", "memory_free", "error_code", "cur_time"}
      BY <2>1, <3>1 DEF IntegerName
    <3>3. name \in {"battery_level", "memory_free", "error_code", "cur_time"} \X {0}
      BY <3>2
    <3> QED
      BY <2>1, <3>3 DEF IntegerNames, DeviceIntegers
  <2>2. CASE object = "applications"
    <3>1. IntegerName(object, id) \in {"state", "error"}
      BY <2>2 DEF IntegerName
    <3>2. name \in {"state", "error"} \X {0}
      BY <3>1
    <3> QED
      BY <2>2, <3>2 DEF IntegerNames, ApplicationIntegers
  <2> QED
    BY <2>1, <2>2
<1>4. pointer.inst = 0 /\ pointer.name = name
  BY DEF PointerOf, Integer
<1> HIDE DEF name, pointer
<1>5. v = memory[0].ints[name]
  BY <1>4 DEF NumberAt
<1> HIDE DEF v
<1>6. v \in Int /\ -Modulus <= 2 * v /\ 2 * v < Modulus
  BY <1>2, <1>3, <1>5 DEF Integers64, Fits
<1>7. \E n \in DOMAIN memory[0].ints : v = memory[0].ints[n]
  BY <1>2, <1>3, <1>5 DEF Integers64
<1> QED
  BY <1>6, <1>7 DEF v, pointer

\* The record of a resource holds what a read of it gives.
LEMMA RecordOfResource ==
    ASSUME Filled, Structured, Serving, NEW id \in Ids(object), AtOf(object, id) # "E"
    PROVE  /\ RecordsOf(id + 1) = <<RecordOf(id + 1)>> /\ RecordOf(id + 1).id = id
           /\ RecordOf(id + 1).data =
                 IF TypeOf(object, id) = "STRING" \/ LastOf(object, id) = 2 THEN There(id, 0)
                 ELSE IntToTLV(NumberAt(PointerOf(object, id, 0, 0)))
<1> DEFINE o == object
           slot == id + 1
           r == slots[slot]
           first == PointerAt(slot, 0, 0)
           several == Several(slot, 0)
           pointer == PointerOf(o, id, 0, 0)
           wanted == IF TypeOf(o, id) = "STRING" \/ LastOf(o, id) = 2 THEN There(id, 0)
                     ELSE IntToTLV(NumberAt(pointer))
<1>1. o \in {"device", "applications"} /\ 0 \in Instances /\ Placed(o, id, 0)
  BY FullTable, TableAssumption DEF Instances, Placed
<1>2. r.id = id /\ r.type = TypeOf(o, id) /\ r.nof = LastOf(o, id) + 1
  BY FullSlot
<1>3. LastOf(o, id) \in {0, 2} /\ (LastOf(o, id) = 2 => TypeOf(o, id) = "INT")
      /\ TypeOf(o, id) \in {"STRING", "INT"}
  BY DEF LastOf, TypeOf
<1>4. first = pointer /\ first # None
  <2>1. 0 \in 0..LastOf(o, id)
    BY <1>3
  <2>2. PointerAt(id + 1, 0, 0) = PointerOf(o, id, 0, 0) /\ PointerOf(o, id, 0, 0) \in Pointers
    BY <1>1, <2>1, OwnPointer
  <2> QED
    BY <2>2, NoneAssumption
<1>5. RecordsOf(slot) =
        IF r.type = "STRING"
        THEN IF r.nof # 1 THEN <<>>
             ELSE <<[id |-> r.id, data |-> TextAt(first),
                     size |-> RecordSize("resource", r.id, Len(TextAt(first)))]>>
        ELSE IF r.nof = 1 /\ first # None
        THEN <<[id |-> r.id, data |-> IntToTLV(NumberAt(first)),
                size |-> RecordSize("resource", r.id, Len(IntToTLV(NumberAt(first))))]>>
        ELSE IF SeveralSize(several) > Temp THEN <<[id |-> r.id, data |-> several, size |-> Room + 1]>>
        ELSE <<[id |-> r.id, data |-> several,
                size |-> RecordSize("multiple", r.id, SeveralSize(several))]>>
  BY DEF RecordsOf
<1> HIDE DEF r, first, several, pointer
<1>6. \E size : RecordsOf(slot) = <<[id |-> id, data |-> wanted, size |-> size]>>
  <2>1. CASE TypeOf(o, id) = "STRING"
    <3>1. wanted = TextAt(pointer)
      BY <1>3, <2>1 DEF There, pointer
    <3> DEFINE size == RecordSize("resource", id, Len(TextAt(pointer)))
    <3>2. r.type = "STRING" /\ ~ (r.nof # 1)
      BY <1>2, <1>3, <2>1
    <3>3. RecordsOf(slot) = <<[id |-> id, data |-> TextAt(pointer), size |-> size]>>
      BY <1>2, <1>4, <1>5, <3>2
    <3> HIDE DEF size, wanted, slot
    <3> QED
      BY <3>1, <3>3
  <2>2. CASE TypeOf(o, id) = "INT" /\ LastOf(o, id) = 0
    <3> DEFINE v == NumberAt(pointer)
    <3>3. RecordsOf(slot) = <<[id |-> id, data |-> IntToTLV(v),
                               size |-> RecordSize("resource", id, Len(IntToTLV(v)))]>>
      BY <1>2, <1>3, <1>4, <1>5, <2>2
    <3> HIDE DEF v, slot
    <3>4. ~ (TypeOf(o, id) = "STRING" \/ LastOf(o, id) = 2)
      BY <2>2
    <3>5. wanted = IntToTLV(NumberAt(pointer))
      <4> HIDE DEF pointer
      <4> QED
        BY <3>4
    <3> QED
      BY <3>3, <3>5 DEF v
  <2>3. CASE LastOf(o, id) = 2
    <3>1. wanted = several
      BY <2>3 DEF There, several
    <3>2. r.nof # 1 /\ r.type # "STRING"
      BY <1>2, <1>3, <2>3
    <3> HIDE DEF wanted, slot
    <3> QED
      BY <1>2, <1>5, <3>1, <3>2
  <2> QED
    BY <1>3, <2>1, <2>2, <2>3
<1> HIDE DEF wanted
<1>7. PICK size : RecordsOf(slot) = <<[id |-> id, data |-> wanted, size |-> size]>>
  BY <1>6
<1>8. RecordsOf(slot) = <<RecordOf(slot)>> /\ RecordOf(slot).id = id /\ RecordOf(slot).data = wanted
  <2> HIDE DEF slot
  <2> QED
    BY <1>7 DEF RecordOf
<1> QED
  BY <1>8 DEF wanted, pointer

LEMMA WholeIsParts == Filled /\ Structured => WholeMatchesParts
<1> SUFFICES ASSUME Filled, Structured, Serving, ReadWhole.code = "2.05"
             PROVE  LET records  == ReadWhole.content
                        readable == {c \in Range(Calls) : c.call = "add" /\ c.at # "E"}
                        part(c)  == ReadResource(FindId(slots, c.id), 0).content
                    IN  /\ {records[k].id : k \in DOMAIN records} = {c.id : c \in readable}
                        /\ \A j, k \in DOMAIN records : records[j].id = records[k].id => j = k
                        /\ \A k \in DOMAIN records : \A c \in readable :
                              c.id = records[k].id =>
                                 part(c) =
                                    IF c.type = "STRING" \/ Multiple(c.id, 0)
                                    THEN records[k].data
                                    ELSE Int64ToPlainText(SignMagnitude(records[k].data))
  BY DEF WholeMatchesParts
<1> DEFINE o == object
           n == NofIds(o)
           C == {k \in DOMAIN slots : slots[k].at # "E"}
           s == Records(C)
           readable == {c \in Range(Calls) : c.call = "add" /\ c.at # "E"}
           part(c)  == ReadResource(FindId(slots, c.id), 0).content
           R == [k \in C |-> RecordOf(k)]
           Agrees(records) ==
              /\ {records[k].id : k \in DOMAIN records} = {c.id : c \in readable}
              /\ \A j, k \in DOMAIN records : records[j].id = records[k].id => j = k
              /\ \A k \in DOMAIN records : \A c \in readable :
                    c.id = records[k].id =>
                       part(c) =
                          IF c.type = "STRING" \/ Multiple(c.id, 0) THEN records[k].data
                          ELSE Int64ToPlainText(SignMagnitude(records[k].data))
<1>0. \A m \in DOMAIN memory[0].ints : 2 * memory[0].ints[m] # -Modulus
  <2>1. Failure("undefined").code # "2.05"
    BY DEF Failure
  <2> QED
    BY <2>1 DEF ReadWhole
<1>1. /\ o \in {"device", "applications"} /\ n \in Nat
      /\ Len(slots) = n /\ DOMAIN slots = 1..n
  BY FullTable DEF NofIds
<1>2. ASSUME NEW k \in 1..n
      PROVE  k - 1 \in Ids(o) /\ (k - 1) + 1 = k /\ k - 1 \in Nat
             /\ (k \in C <=> AtOf(o, k - 1) # "E")
  <2>1. k - 1 \in Ids(o) /\ (k - 1) + 1 = k /\ k - 1 \in Nat
    BY <1>1 DEF Ids
  <2>2. slots[(k - 1) + 1].at = AtOf(o, k - 1)
    BY <2>1, FullSlot
  <2> QED
    BY <1>1, <2>1, <2>2
<1>3. ASSUME NEW id \in Ids(o)
      PROVE  id + 1 \in 1..n /\ (id + 1) - 1 = id /\ id \in Nat
             /\ (id + 1 \in C <=> AtOf(o, id) # "E")
  <2>1. id + 1 \in 1..n /\ (id + 1) - 1 = id /\ id \in Nat
    BY <1>1 DEF Ids
  <2>2. slots[id + 1].at = AtOf(o, id)
    BY FullSlot
  <2> QED
    BY <1>1, <2>1, <2>2
\* What is listed.
<1>4. C \in SUBSET (1..n)
  BY <1>1
<1> HIDE DEF C
<1>5. \A k \in C : RecordsOf(k) = <<R[k]>> /\ R[k].id = k - 1
  <2> TAKE k \in C
  <2>1. k - 1 \in Ids(o) /\ AtOf(o, k - 1) # "E" /\ (k - 1) + 1 = k
    BY <1>2, <1>4
  <2>2. RecordsOf((k - 1) + 1) = <<RecordOf((k - 1) + 1)>> /\ RecordOf((k - 1) + 1).id = k - 1
    BY <2>1, RecordOfResource
  <2> QED
    BY <2>1, <2>2
<1> HIDE DEF R
<1>6. Lists(s, C, R)
  <2>1. \A j, k \in C : j # k => R[j].id # R[k].id
    <3>1. \A j, k \in C : j # k => j - 1 # k - 1
      BY <1>4
    <3> QED
      BY <1>5, <3>1
  <2> QED
    BY <1>1, <1>4, <1>5, <2>1, RecordsAreListed
<1>7. ReadWhole.content = s
  <2>1. ReadWhole \in {Content(s), Failure("5.00"), Failure("undefined")}
    BY DEF ReadWhole, Packed, C
  <2>2. ReadWhole # Failure("5.00") /\ ReadWhole # Failure("undefined")
    BY DEF Failure
  <2> QED
    BY <2>1, <2>2 DEF Content
<1> HIDE DEF s
<1>8. /\ DOMAIN s = 1..Len(s)
      /\ \A j \in DOMAIN s : \E k \in C : s[j] = R[k]
      /\ \A k \in C : \E j \in DOMAIN s : s[j] = R[k]
      /\ \A i, j \in DOMAIN s : s[i].id = s[j].id => i = j
  <2>1. s \in Seq({R[k] : k \in C})
    BY <1>6 DEF Lists
  <2>2. DOMAIN s = 1..Len(s) /\ \A j \in DOMAIN s : s[j] \in {R[k] : k \in C}
    BY <2>1
  <2> QED
    BY <1>6, <2>2 DEF Lists
\* What was added.
<1>9. \A c : c \in readable <=> \E id \in Ids(o) : AtOf(o, id) # "E" /\ c = Adding(o, id)
  <2>1. \A id : Adding(o, id).at = AtOf(o, id)
    BY DEF Adding, Add
  <2>2. \A c : c \in Range(Calls) /\ c.call = "add" <=> \E id \in Ids(o) : c = Adding(o, id)
    BY AddedAre
  <2> QED
    BY <2>1, <2>2
<1>10. \A id : Adding(o, id).id = id /\ Adding(o, id).type = TypeOf(o, id)
  BY DEF Adding, Add
<1> HIDE DEF readable
<1>11. {s[k].id : k \in DOMAIN s} = {c.id : c \in readable}
  <2>1. ASSUME NEW k \in DOMAIN s PROVE \E c \in readable : c.id = s[k].id
    <3>1. PICK i \in C : s[k] = R[i]
      BY <1>8
    <3>2. i - 1 \in Ids(o) /\ AtOf(o, i - 1) # "E" /\ s[k].id = i - 1
      BY <1>2, <1>4, <1>5, <3>1
    <3> QED
      BY <1>9, <1>10, <3>2
  <2>2. ASSUME NEW c \in readable PROVE \E k \in DOMAIN s : s[k].id = c.id
    <3>1. PICK id \in Ids(o) : AtOf(o, id) # "E" /\ c = Adding(o, id)
      BY <1>9
    <3>2. id + 1 \in C /\ (id + 1) - 1 = id
      BY <1>3, <3>1
    <3>3. PICK k \in DOMAIN s : s[k] = R[id + 1]
      BY <1>8, <3>2
    <3> QED
      BY <1>5, <1>10, <3>1, <3>2, <3>3
  <2> QED
    BY <2>1, <2>2
<1>12. ASSUME NEW k \in DOMAIN s, NEW c \in readable, c.id = s[k].id
       PROVE  part(c) = IF c.type = "STRING" \/ Multiple(c.id, 0) THEN s[k].data
                        ELSE Int64ToPlainText(SignMagnitude(s[k].data))
  <2>1. PICK id \in Ids(o) : AtOf(o, id) # "E" /\ c = Adding(o, id)
    BY <1>9
  <2>2. c.id = id /\ c.type = TypeOf(o, id)
    BY <1>10, <2>1
  <2>3. id + 1 \in C /\ id + 1 \in 1..n /\ (id + 1) - 1 = id /\ id \in Nat
    BY <1>3, <2>1
  <2>4. s[k] = R[id + 1]
    <3>1. PICK i \in C : s[k] = R[i]
      BY <1>8
    <3>2. i - 1 = id /\ i \in 1..n
      BY <1>4, <1>5, <1>12, <2>2, <3>1
    <3>3. i = id + 1
      BY <2>3, <3>2
    <3> QED
      BY <3>1, <3>3
  <2>5. s[k].data = IF TypeOf(o, id) = "STRING" \/ LastOf(o, id) = 2 THEN There(id, 0)
                    ELSE IntToTLV(NumberAt(PointerOf(o, id, 0, 0)))
    BY <2>1, <2>3, <2>4, RecordOfResource DEF R
  <2>6. 0 \in Instances /\ Placed(o, id, 0)
    BY <1>1, TableAssumption DEF Instances, Placed
  <2>7. Multiple(id, 0) <=> LastOf(o, id) = 2
    BY <2>1, <2>6, ExpectedIs
  <2>8. part(c) = There(id, 0)
    <3>1. ReadResource(id + 1, 0) = Content(There(id, 0))
      BY <2>1, <2>6, ReadsWhatIsThere
    <3>2. FindId(slots, id) = id + 1
      BY <2>1, <2>3, FullTable
    <3> QED
      BY <2>2, <3>1, <3>2 DEF Content
  <2>9. CASE TypeOf(o, id) = "STRING" \/ LastOf(o, id) = 2
    <3> HIDE DEF part
    <3> QED
      BY <2>2, <2>5, <2>7, <2>8, <2>9
  <2>10. CASE ~ (TypeOf(o, id) = "STRING" \/ LastOf(o, id) = 2)
    <3> DEFINE v == NumberAt(PointerOf(o, id, 0, 0))
    <3>1. TypeOf(o, id) = "INT" /\ LastOf(o, id) # 2
      BY <2>10 DEF TypeOf
    <3>2. v \in Int /\ -Modulus < 2 * v /\ 2 * v < Modulus
      BY <1>0, <1>1, <2>1, <3>1, NumberFits, ModulusType
    <3>3. SignMagnitude(IntToTLV(v)) = v
      BY <3>2, BytesKeepIntegers
    <3>4. There(id, 0) = Int64ToPlainText(v)
      BY <3>1 DEF There
    <3> HIDE DEF part, v
    <3>5. s[k].data = IntToTLV(v)
      BY <2>5, <2>10 DEF v
    <3> QED
      BY <2>2, <2>7, <2>8, <2>10, <3>3, <3>4, <3>5
  <2> QED
    BY <2>9, <2>10
<1>13. Agrees(s)
  <2> HIDE DEF part
  <2> QED
    BY <1>8, <1>11, <1>12
<1>14. Agrees(ReadWhole.content)
  <2> HIDE DEF Agrees
  <2> QED
    BY <1>7, <1>13
<1> QED
  BY <1>14, Zenon DEF readable

\* A read of the object that is answered lists each resource that can be read
\* once, with what a read of that resource of instance 0 gives: the two paths
\* through the code agree, in text and in TLV, on every value.
THEOREM WholeAgreesWithParts == Spec => []WholeMatchesParts
<1>1. Filled /\ Structured => WholeMatchesParts
  BY WholeIsParts
<1> QED
  BY <1>1, IsStructured, PTL
=============================================================================
