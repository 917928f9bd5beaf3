----------------------------- MODULE ObjectTable -----------------------------
(***************************************************************************)
(* The objects of the client program: the table of resources of            *)
(* tests/client/object.c, filled once by newObjectDevice and               *)
(* newObjectApplications, and the memory its value pointers name, where    *)
(* requests, the download threads and the status timer meet.  The two      *)
(* objects share nothing, so a behaviour is about one of them.             *)
(*                                                                         *)
(* Memory is modelled as far as its layout matters: a value pointer is     *)
(* looked up by its place in values[MaxInstances][MaxValues], and what     *)
(* lies behind the last place is the name of the next resource; the string *)
(* buffers of a structure lie one behind the other, with an integer behind *)
(* the last of an application.  Beyond that nothing is known: Undefined.   *)
(***************************************************************************)
EXTENDS Values

CONSTANTS
    Objects,       \* the objects looked at: "device", "applications"
    NofApplications,  \* NOF_APPLICATIONS: 20
    MaxInstances,  \* MAX_OBJ_INSTANCES: 10
    MaxValues,     \* MAX_DATA_VALUES: 10
    Size,          \* the length of a string buffer: 64
    Room, Temp,    \* the buffers of a TLV: 128 and 64
    Built,         \* per resource, the text the device is built with
    Paths,         \* the paths asked for: [inst, res], None where left out
    Payloads,      \* the texts written
    Levels,        \* the time of day, and states and errors of an application
    MaxSteps,      \* bound: the changes after the table is filled
    End, Space,    \* the terminator of a string, and " "
    None, Undefined

ASSUME TableAssumption ==
    /\ NofApplications \in Nat \ {0} /\ MaxInstances \in Nat \ {0}
    /\ MaxValues \in Nat /\ MaxValues >= 3 /\ Size \in Nat \ {0}

\* A buffer of Temp bytes has room for three integers with their headers, and
\* the device's voltages fit an integer.
ASSUME WidthAssumption ==
    /\ Temp \in Nat /\ Temp >= 3 * (Bytes + 6) + 6 /\ Temp < Power(Base, 3)
    /\ 2 * 5000 < Modulus

\* What a text is made of: no terminator.
Character == 0..9 \cup {Minus, Other, Space}

ASSUME InputAssumption ==
    /\ Objects \subseteq {"device", "applications"}
    /\ \A id \in {0, 1, 2, 3, 14, 15, 16} : Built[id] \in Seq(Character)
    /\ Len(Built[14]) < Size /\ Len(Built[15]) < Size
    /\ Paths \subseteq [inst : Nat \cup {None}, res : Nat \cup {None}]
    /\ Payloads \subseteq Seq(Character)
    /\ \A v \in Levels : v \in Nat /\ 2 * v < Modulus
    /\ MaxSteps \in Nat

VARIABLES object, step, slots, memory,
          sane,              \* no access went where nothing is known
          written, overlong  \* for the properties: what was put where

vars == <<object, step, slots, memory, sane, written, overlong>>

-----------------------------------------------------------------------------
(* The structures: device_state_t and applications_t.                      *)

Strings == IF object = "device" THEN <<"utc_offset", "time_zone">>
                                ELSE <<"name", "args", "version", "URL">>

Instances == IF object = "device" THEN {0} ELSE 0..(NofApplications - 1)

\* The device's texts, and its integers as built; an application has zeros.
DeviceTexts == [utc_offset |-> Built[14], time_zone |-> Built[15]]

PowerSources == [power_sources |-> <<0, 2, 7>>, ps_voltage |-> <<100, 80, 80>>,
                 ps_current |-> <<10, 8, 8>>]

DeviceIntegers ==
    [n \in (DOMAIN PowerSources) \X (0..2)
           \cup {"battery_level", "memory_free", "error_code", "cur_time"} \X {0} |->
        IF n[1] \in DOMAIN PowerSources THEN PowerSources[n[1]][n[2] + 1] ELSE 0]

ApplicationIntegers == [n \in {"state", "error"} \X {0} |-> 0]

State == <<"state", 0>>
Error == <<"error", 0>>

-----------------------------------------------------------------------------
(* Filling the table.                                                      *)

Literal(text) == [kind |-> "literal", text |-> text]
Buffer(inst, name) == [kind |-> "buffer", inst |-> inst, name |-> name]
Integer(inst, name, k) == [kind |-> "integer", inst |-> inst, name |-> <<name, k>>]

Pointers ==
    [kind : {"literal"}, text : Seq(Character)]
    \cup [kind : {"buffer"}, inst : Nat,
          name : {"utc_offset", "time_zone", "name", "args", "version", "URL"}]
    \cup [kind : {"integer"}, inst : Nat,
          name : DOMAIN DeviceIntegers \cup DOMAIN ApplicationIntegers]

ASSUME NoneAssumption ==
    /\ None \notin Int /\ None \notin Pointers /\ Undefined \notin Pointers
    /\ End \notin Character /\ None # Undefined /\ Space \notin Int /\ Space # Minus

Add(id, type, at) == [call |-> "add", id |-> id, type |-> type, at |-> at]
Sized(id, size) == [call |-> "size", id |-> id, size |-> size]
Set(id, type, inst, idx, pointer) ==
    [call |-> "set", id |-> id, type |-> type, inst |-> inst, idx |-> idx, pointer |-> pointer]

\* objectAddResourceString, ...StringRW, ...Int and ...IntRW.
AddString(id) == <<Add(id, "STRING", "R"), Sized(id, Len(Built[id])),
                   Set(id, "STRING", 0, 0, Literal(Built[id]))>>
AddStringRW(id, name) == <<Add(id, "STRING", "RW"), Sized(id, Size),
                           Set(id, "STRING", 0, 0, Buffer(0, name))>>
AddInt(id, at, name) == <<Add(id, "INT", at), Set(id, "INT", 0, 0, Integer(0, name, 0))>>

\* newObjectDevice.
DeviceCalls ==
    LET sources(k) == <<Set(6, "INT", 0, k, Integer(0, "power_sources", k)),
                        Set(7, "INT", 0, k, Integer(0, "ps_voltage", k)),
                        Set(8, "INT", 0, k, Integer(0, "ps_current", k))>>
    IN  AddString(0) \o AddString(1) \o AddString(2) \o AddString(3)
        \o <<Add(4, "INT", "E"), Add(5, "INT", "E"),
             Add(6, "INT", "R"), Add(7, "INT", "R"), Add(8, "INT", "R")>>
        \o sources(0) \o sources(1) \o sources(2)
        \o AddInt(9, "R", "battery_level") \o AddInt(10, "R", "memory_free")
        \o AddInt(11, "R", "error_code") \o <<Add(12, "INT", "E")>>
        \o AddInt(13, "RW", "cur_time")
        \o AddStringRW(14, "utc_offset") \o AddStringRW(15, "time_zone") \o AddString(16)

\* newObjectApplications.
ApplicationsCalls ==
    LET text(id) == <<Add(id, "STRING", "RW"), Sized(id, Size)>>
        instance(j) == <<Set(0, "STRING", j, 0, Buffer(j, "name")),
                         Set(1, "STRING", j, 0, Buffer(j, "version")),
                         Set(2, "STRING", j, 0, Buffer(j, "URL")),
                         Set(4, "STRING", j, 0, Buffer(j, "args")),
                         Set(7, "INT", j, 0, Integer(j, "state", 0)),
                         Set(8, "INT", j, 0, Integer(j, "error", 0))>>
    IN  text(0) \o text(1) \o text(2) \o <<Add(3, "INT", "E")>> \o text(4)
        \o <<Add(5, "INT", "E"), Add(6, "INT", "E"), Add(7, "INT", "R"), Add(8, "INT", "R")>>
        \o [i \in 1..(6 * NofApplications) |-> instance((i - 1) \div 6)[((i - 1) % 6) + 1]]

Calls == IF object = "device" THEN DeviceCalls ELSE ApplicationsCalls

\* newObjectConfig: calloc, and no identifiers.
NewTable ==
    LET free == [id |-> -1, desc |-> None, at |-> "R", type |-> "STRING", nof |-> 0,
                 size |-> 0, values |-> [k \in 0..(MaxInstances * MaxValues - 1) |-> None]]
    IN  [k \in 1..(IF object = "device" THEN 17 ELSE 9) |-> free]

\* findId: the slot of a resource, or one past the last.
FindId(s, id) ==
    IF \E k \in DOMAIN s : s[k].id = id
    THEN CHOOSE k \in DOMAIN s : s[k].id = id /\ \A j \in 1..(k - 1) : s[j].id # id
    ELSE Len(s) + 1

\* _objectAddResource: the resource's own slot, or the first free one.
AddResource(s, c) ==
    LET own  == FindId(s, c.id)
        slot == IF own <= Len(s) THEN own ELSE FindId(s, -1)
    IN  IF slot > Len(s) THEN s
        ELSE [s EXCEPT ![slot] = [@ EXCEPT !.id = c.id, !.desc = Literal(<<Other>>),
                                           !.at = c.at, !.type = c.type, !.nof = 1]]

\* objectResourceStringSize.
StringSize(s, c) ==
    LET slot == FindId(s, c.id)
    IN  IF slot > Len(s) THEN s ELSE [s EXCEPT ![slot].size = c.size]

\* The place behind the last one of a slot.
Past == MaxInstances * MaxValues

\* A value pointer is stored: in its place, or in the name of the next
\* resource, or, with no next resource, behind the table.
StorePointer(s, slot, place, pointer) ==
    IF place < Past THEN [s EXCEPT ![slot].values[place] = pointer]
    ELSE IF place = Past /\ slot < Len(s) THEN [s EXCEPT ![slot + 1].desc = pointer]
    ELSE s

\* What objectSetStringValueInstanceMultiple and its twin for integers refuse.
Accepts(s, c) ==
    LET slot == FindId(s, c.id)
    IN  /\ slot <= Len(s) /\ s[slot].type = c.type
        /\ c.inst <= MaxInstances /\ c.idx <= MaxValues

\* Variant: the count of integers is the highest index, as for strings.
SetValueUncounted(s, c) ==
    LET slot == FindId(s, c.id)
    IN  IF ~ Accepts(s, c) THEN s
        ELSE StorePointer([s EXCEPT ![slot].nof = IF c.idx <= @ THEN @ ELSE c.idx],
                          slot, c.inst * MaxValues + c.idx, c.pointer)

\* The bounds are passed by one, and a second value leaves the count at one.
SetValue(s, c) ==
    LET slot  == FindId(s, c.id)
        count == IF c.type = "INT" THEN c.idx + 1 ELSE c.idx
    IN  IF ~ Accepts(s, c) THEN s
        ELSE StorePointer([s EXCEPT ![slot].nof = IF c.idx <= @ THEN @ ELSE count],
                          slot, c.inst * MaxValues + c.idx, c.pointer)

\* The call stores behind the block of the table, where malloc keeps its own.
BehindTable(s, c) ==
    Accepts(s, c) /\ FindId(s, c.id) = Len(s) /\ c.inst * MaxValues + c.idx >= Past

Fill ==
    /\ step <= Len(Calls) /\ sane
    /\ step' = step + 1
    /\ LET c == Calls[step]
       IN  CASE c.call = "add"  -> slots' = AddResource(slots, c) /\ UNCHANGED sane
             [] c.call = "size" -> slots' = StringSize(slots, c) /\ UNCHANGED sane
             [] c.call = "set"  -> /\ slots' = SetValue(slots, c)
                                   /\ sane' \in IF BehindTable(slots, c) THEN BOOLEAN ELSE {TRUE}
    /\ UNCHANGED <<object, memory, written, overlong>>

Serving == step > Len(Calls) /\ sane

-----------------------------------------------------------------------------
(* Memory.                                                                 *)

\* The value pointer a request finds.
PointerAt(slot, inst, idx) ==
    LET place == inst * MaxValues + idx
    IN  IF place < Past THEN slots[slot].values[place]
        ELSE IF place = Past /\ slot < Len(slots) THEN slots[slot + 1].desc
        ELSE Undefined

\* The first cell of a string buffer.
Start(name) == Size * ((CHOOSE k \in DOMAIN Strings : Strings[k] = name) - 1) + 1

\* The string that starts at a cell: up to the first terminator.  The lowest
\* byte of an application's state is the character behind its buffers.
StringFrom(m, start) ==
    LET behind == IF object = "device" THEN <<Undefined, End>>
                  ELSE IF m.ints[State] % Base = 0 THEN <<End>>
                  ELSE <<m.ints[State] % Base, End>>
        cells  == m.cells \o behind
        stop   == CHOOSE k \in start..Len(cells) :
                     cells[k] = End /\ \A j \in start..(k - 1) : cells[j] # End
    IN  SubSeq(cells, start, stop - 1)

\* Variant: a text that is longer than the buffer is not cut.
CopyUncut(m, start, size, text) ==
    LET cells == [k \in DOMAIN m.cells |->
                    IF k \in start..(start + Len(text) - 1) THEN text[k - start + 1]
                    ELSE IF k = start + Len(text) THEN End ELSE m.cells[k]]
    IN  IF start + Len(text) <= Len(m.cells) \/ object = "device"
        THEN [m EXCEPT !.cells = cells]
        ELSE [m EXCEPT !.cells = cells, !.ints[State] = @ - (@ % Base)]

\* Variant: the terminator is left out.
CopyUnterminated(m, start, size, text) ==
    LET n == IF Len(text) > size THEN size ELSE Len(text)
    IN  [m EXCEPT !.cells = [k \in DOMAIN m.cells |->
            IF k \in start..(start + n - 1) THEN text[k - start + 1] ELSE m.cells[k]]]

\* The memcpy of prv_object_write and the terminator it puts behind: a text as
\* long as the buffer puts it into the next buffer, or the integer behind.
Copy(m, start, size, text) ==
    LET n     == IF Len(text) > size THEN size ELSE Len(text)
        cells == [k \in DOMAIN m.cells |->
                    IF k \in start..(start + n - 1) THEN text[k - start + 1]
                    ELSE IF k = start + n THEN End ELSE m.cells[k]]
    IN  IF start + n <= Len(m.cells) \/ object = "device" THEN [m EXCEPT !.cells = cells]
        ELSE [m EXCEPT !.cells = cells, !.ints[State] = @ - (@ % Base)]

-----------------------------------------------------------------------------
(* Requests.                                                               *)

SlotOf(p) == FindId(slots, IF p.res = None THEN 0 ELSE p.res)
InstanceOf(p) == IF p.inst = None THEN 0 ELSE p.inst

Content(content) == [code |-> "2.05", content |-> content]
Failure(code) == [code |-> code, content |-> None]

\* The text at a pointer, and the integer.
TextAt(pointer) == IF pointer.kind = "literal" THEN pointer.text
                   ELSE StringFrom(memory[pointer.inst], Start(pointer.name))
NumberAt(pointer) == memory[pointer.inst].ints[pointer.name]

RecordSize(type, id, len) == HeaderLength(CreateHeader(type, id, len)) + len

\* The integers of a resource, as TLV records in a buffer of Temp bytes.
Several(slot, inst) ==
    LET records[n \in 0..slots[slot].nof] ==
            IF n = 0 THEN <<>>
            ELSE IF PointerAt(slot, inst, n - 1) = None THEN records[n - 1]
            ELSE Append(records[n - 1],
                        [id   |-> n - 1,
                         data |-> IntToTLV(NumberAt(PointerAt(slot, inst, n - 1)))])
    IN  records[slots[slot].nof]

SeveralSize(records) ==
    LET size[n \in 0..Len(records)] ==
            IF n = 0 THEN 0
            ELSE size[n - 1] + RecordSize("instance", records[n].id, Len(records[n].data))
    IN  size[Len(records)]

\* prv_get_object_tlv for one resource of instance 0: one record, or none for
\* several strings.
RecordsOf(slot) ==
    LET r == slots[slot]
        first == PointerAt(slot, 0, 0)
        several == Several(slot, 0)
    IN  IF r.type = "STRING"
        THEN IF r.nof # 1 THEN <<>>
             ELSE <<[id |-> r.id, data |-> TextAt(first),
                     size |-> RecordSize("resource", r.id, Len(TextAt(first)))]>>
        ELSE IF r.nof = 1 /\ first # None
        THEN LET data == IntToTLV(NumberAt(first))
             IN  <<[id |-> r.id, data |-> data, size |-> RecordSize("resource", r.id, Len(data))]>>
        ELSE IF SeveralSize(several) > Temp THEN <<[id |-> r.id, data |-> several, size |-> Room + 1]>>
        ELSE <<[id |-> r.id, data |-> several,
                size |-> RecordSize("multiple", r.id, SeveralSize(several))]>>

\* The records of some of the resources, one behind the other, in a buffer
\* of Room bytes.
Records(chosen) ==
    LET records[k \in 0..Len(slots)] ==
            IF k = 0 THEN <<>>
            ELSE IF k \in chosen THEN records[k - 1] \o RecordsOf(k)
            ELSE records[k - 1]
    IN  records[Len(slots)]

Packed(records) ==
    LET size[k \in 0..Len(records)] == IF k = 0 THEN 0 ELSE size[k - 1] + records[k].size
    IN  IF size[Len(records)] \in 1..Room THEN Content(records) ELSE Failure("5.00")

\* Variant: resources that can only be executed are not left out.
ReadWholeExecutable == Packed(Records(DOMAIN slots))

\* prv_get_object_tlv: every resource that can be read, of instance 0.  The
\* lowest integer has no magnitude in an int64_t: lwm2m_intToTLV leaves its
\* buffer.
ReadWhole ==
    IF \E n \in DOMAIN memory[0].ints : 2 * memory[0].ints[n] = -Modulus
    THEN Failure("undefined")
    ELSE Packed(Records({k \in DOMAIN slots : slots[k].at # "E"}))

\* prv_object_read of one resource.
ReadResource(slot, inst) ==
    LET r == slots[slot]
        pointers == [n \in 1..r.nof |-> PointerAt(slot, inst, n - 1)]
        size == SeveralSize(Several(slot, inst))
    IN  IF r.at = "E" THEN Failure("4.05")
        ELSE IF r.type = "STRING"
        THEN IF r.nof # 1 THEN Failure("5.01")
             ELSE IF pointers[1] \in {None, Undefined} THEN Failure("undefined")
             ELSE Content(TextAt(pointers[1]))
        ELSE IF None \in Range(pointers) THEN Failure("5.00")
        ELSE IF \E n \in DOMAIN pointers :
                    pointers[n] = Undefined \/ pointers[n].kind # "integer"
        THEN Failure("undefined")
        ELSE IF r.nof = 1 THEN Content(Int64ToPlainText(NumberAt(pointers[1])))
        ELSE IF size > Temp \/ RecordSize("multiple", r.id, size) > Temp THEN Failure("5.00")
        ELSE Content(Several(slot, inst))

\* prv_object_read: with no resource in the path, resource 0 must exist.
Read(p) ==
    IF SlotOf(p) > Len(slots) THEN Failure("4.04")
    ELSE IF p.res = None THEN ReadWhole
    ELSE ReadResource(SlotOf(p), InstanceOf(p))

\* Integers of a structure are set.
Stored(ints, new) == [n \in DOMAIN ints |-> IF n \in DOMAIN new THEN new[n] ELSE ints[n]]

Puts(inst, new) ==
    /\ memory' = [memory EXCEPT ![inst].ints = Stored(@, new)]
    /\ written' = [written EXCEPT ![inst].ints = Stored(@, new)]
    /\ UNCHANGED <<sane, overlong>>

\* prv_object_write, where it changes anything: what it refuses, with 5.01,
\* 4.04, 4.05 or 4.00, stays as it was.
WriteString(slot, inst, text) ==
    LET pointer == PointerAt(slot, inst, 0)
        known   == pointer \notin {None, Undefined}
        full    == Len(text) >= Size
    IN  IF ~ known \/ pointer.kind # "buffer"
        THEN sane' = FALSE /\ UNCHANGED <<memory, written, overlong>>
        ELSE /\ memory' = [memory EXCEPT ![pointer.inst] =
                              Copy(@, Start(pointer.name), slots[slot].size, text)]
             /\ written' = [written EXCEPT ![pointer.inst].texts[pointer.name] = text]
             /\ overlong' = IF full THEN overlong \cup {pointer.inst} ELSE overlong
             /\ UNCHANGED sane

WriteInteger(slot, inst, text) ==
    LET pointer == PointerAt(slot, inst, 0)
        value   == PlainTextToInt64(text)
    IN  /\ pointer # None /\ value # Refused
        /\ IF pointer = Undefined \/ pointer.kind # "integer"
           THEN sane' = FALSE /\ UNCHANGED <<memory, written, overlong>>
           ELSE Puts(pointer.inst, [n \in {pointer.name} |-> value])

Steps == Serving /\ step <= Len(Calls) + MaxSteps /\ step' = step + 1 /\ UNCHANGED <<object, slots>>

Write ==
    /\ Steps
    /\ \E p \in Paths, text \in Payloads :
          LET slot == SlotOf(p)
          IN  /\ p.res # None /\ slot <= Len(slots)
              /\ slots[slot].at = "RW" /\ slots[slot].nof = 1
              /\ IF slots[slot].type = "STRING" THEN WriteString(slot, InstanceOf(p), text)
                                                ELSE WriteInteger(slot, InstanceOf(p), text)

\* Where exec_run_fork ends a string, by place in Args: strtok does behind each
\* word, the code before each.  Place 0 is the last byte of the name.
WordEnds(text) ==
    {i \in 0..Len(text) :
        \/ i < Len(text) /\ text[i + 1] # Space /\ (i = 0 \/ text[i] = Space)
        \/ i > 1 /\ text[i] = Space /\ text[i - 1] # Space}

CutArgs(m) ==
    LET start == Start("args")
        ends  == WordEnds(StringFrom(m, start))
    IN  [m EXCEPT !.cells = [k \in DOMAIN m.cells |->
            IF k - start + 1 \in ends THEN End ELSE m.cells[k]]]

\* For the properties: what a run leaves of a text, its first word or, if
\* spaces are before it, all of those but one.
Left(text) ==
    LET word    == {i \in DOMAIN text : text[i] # Space}
        space   == DOMAIN text \ word
        upTo(i) == SubSeq(text, 1, i - 1)
    IN  IF word = {} \/ space = {} THEN text
        ELSE IF 1 \in word THEN upTo(Min(space)) ELSE upTo(Min(word) - 1)

\* What a run stores: RUNNING, or ERROR and ERROR_RUNNING.
Started == {[n \in {State} |-> 3], [n \in {State, Error} |-> IF n = State THEN 4 ELSE 6]}

\* exec_run, once it has its memory: Args are cut, started or not.
Run(inst) ==
    \E new \in Started :
        /\ memory' = [memory EXCEPT
              ![inst] = [CutArgs(memory[inst]) EXCEPT !.ints = Stored(@, new)]]
        /\ written' = [written EXCEPT
              ![inst] = [texts |-> [written[inst].texts EXCEPT !["args"] = Left(@)],
                         ints  |-> Stored(written[inst].ints, new)]]
        /\ UNCHANGED <<sane, overlong>>

\* prv_object_execute, where it changes anything (nothing of the device does):
\* exec_download stores DOWNLOADING and no error, exec_kill IDLE.  Which of the
\* commands is refused is Applications' matter; the instance is looked at by
\* none of them.
Execute ==
    /\ object = "applications" /\ Steps
    /\ \E p \in Paths :
          LET inst == InstanceOf(p)
          IN  /\ p.res # None /\ SlotOf(p) <= Len(slots) /\ slots[SlotOf(p)].at = "E"
              /\ IF inst \notin Instances
                 THEN sane' = FALSE /\ UNCHANGED <<memory, written, overlong>>
                 ELSE
                   \/ p.res = 3 /\ Puts(inst, [n \in {State, Error} |-> IF n = State THEN 1 ELSE 0])
                   \/ p.res = 5 /\ Run(inst)
                   \/ p.res = 6 /\ Puts(inst, [n \in {State} |-> 0])

-----------------------------------------------------------------------------
(* The other writers.                                                      *)

\* device_state_update, without ENABLE_AD: called by the status timer.
DeviceStateUpdate ==
    /\ object = "device" /\ Steps
    /\ \E now \in Levels :
          Puts(0, [n \in {"ps_voltage", "ps_current"} \X (0..2)
                         \cup {"cur_time", "error_code", "memory_free"} \X {0} |->
                     CASE n[1] = "cur_time"        -> now
                       [] n = <<"ps_voltage", 0>>  -> 5000
                       [] n[1] = "ps_current"      -> 500
                       [] OTHER                    -> 0])

\* A thread or the timer stores a state or an error: see
\* Applications for which and when.
ApplicationChanges ==
    /\ object = "applications" /\ Steps
    /\ \E inst \in {InstanceOf(p) : p \in Paths} \cap Instances,
          name \in DOMAIN ApplicationIntegers, level \in Levels :
          Puts(inst, [n \in {name} |-> level])

\* main: the object is one read_objects makes, its structures as built.
Init ==
    /\ object \in Objects
    /\ step = 1 /\ slots = NewTable /\ sane = TRUE /\ overlong = {}
    /\ written = [inst \in Instances |->
          IF object = "device" THEN [texts |-> DeviceTexts, ints |-> DeviceIntegers]
          ELSE [texts |-> [name \in Range(Strings) |-> <<>>], ints |-> ApplicationIntegers]]
    /\ memory = [inst \in Instances |->
          [cells |-> [k \in 1..(Size * Len(Strings)) |->
                        LET text == written[inst].texts[Strings[1 + ((k - 1) \div Size)]]
                            at   == 1 + ((k - 1) % Size)
                        IN  IF at <= Len(text) THEN text[at] ELSE End],
           ints  |-> written[inst].ints]]

Next == Fill \/ Write \/ Execute \/ DeviceStateUpdate \/ ApplicationChanges

Spec == Init /\ [][Next]_vars

-----------------------------------------------------------------------------
(* Properties.                                                             *)

\* What was put at a pointer.
PutText(pointer) == IF pointer.kind = "literal" THEN pointer.text
                    ELSE written[pointer.inst].texts[pointer.name]
PutNumber(pointer) == written[pointer.inst].ints[pointer.name]

\* What the program set for a resource of an instance: one value or several.
Given(id, inst) ==
    {c \in Range(Calls) : c.call = "set" /\ c.id = id /\ c.inst = inst}

Multiple(id, inst) == \E c \in Given(id, inst) : c.idx > 0

\* What reading a resource of an instance gives, if all is well.
Expected(id, inst) ==
    LET given(k) == (CHOOSE c \in Given(id, inst) : c.idx = k).pointer
        last     == CHOOSE k \in {c.idx : c \in Given(id, inst)} :
                       \A c \in Given(id, inst) : c.idx <= k
    IN  IF Multiple(id, inst)
        THEN [k \in 1..(last + 1) |-> [id |-> k - 1, data |-> IntToTLV(PutNumber(given(k - 1)))]]
        ELSE IF given(0).kind = "integer" THEN Int64ToPlainText(PutNumber(given(0)))
        ELSE PutText(given(0))

ReadsWell(p) ==
    Read(p) = IF \E c \in Range(Calls) : c.call = "add" /\ c.id = p.res /\ c.at = "E"
              THEN Failure("4.05") ELSE Content(Expected(p.res, InstanceOf(p)))

\* The path names a resource of an instance that the program has, without a
\* text as long as its buffer in it.
Sound(p) == p.res # None /\ SlotOf(p) <= Len(slots) /\ InstanceOf(p) \in Instances \ overlong

\* Every resource is read as what was last put there, by whomever, and Args as
\* what the runs since have left of it: the table leads each path to its own
\* value, and no write or run touches another's.  (An integer is read as the
\* text that the conversion makes of it.)  That is so of the first
\* MaxInstances + 1 instances (the last of them by the grace of the next
\* resource's name, which the last resource lacks), and as long as no text as
\* long as its buffer was written to the structure.
WrittenIsRead ==
    Serving => \A p \in Paths :
        /\ Sound(p) /\ InstanceOf(p) <= MaxInstances
        /\ InstanceOf(p) = MaxInstances => SlotOf(p) < Len(slots)
        => ReadsWell(p)

\* The same of all the instances the comment at applications.c:60 has the
\* loop create.
AllInstances == Serving => \A p \in Paths : Sound(p) => ReadsWell(p)

\* A read of the object, if it has room, gives each resource that can be read
\* once, with the value a read of that resource of instance 0 gives: a text,
\* several integers, or the integer whose text that read gives.
WholeMatchesParts ==
    Serving /\ ReadWhole.code = "2.05" =>
        LET records  == ReadWhole.content
            readable == {c \in Range(Calls) : c.call = "add" /\ c.at # "E"}
            part(c)  == ReadResource(FindId(slots, c.id), 0).content
        IN  /\ {records[k].id : k \in DOMAIN records} = {c.id : c \in readable}
            /\ \A j, k \in DOMAIN records : records[j].id = records[k].id => j = k
            /\ \A k \in DOMAIN records : \A c \in readable :
                  c.id = records[k].id =>
                     part(c) = IF c.type = "STRING" \/ Multiple(c.id, 0) THEN records[k].data
                               ELSE Int64ToPlainText(SignMagnitude(records[k].data))

\* The buffer has a terminator of its own.
Contained(m, name) == \E k \in Start(name)..(Start(name) + Size - 1) : m.cells[k] = End

\* The buffers of an instance that had their terminator and read differently
\* after the step.
Changed(inst) ==
    {k \in DOMAIN Strings :
        /\ Contained(memory[inst], Strings[k])
        /\ StringFrom(memory[inst], Start(Strings[k])) # StringFrom(memory'[inst], Start(Strings[k]))}

\* A write or a run changes what one text of one instance reads as, however
\* long the text.  At most a write also empties the buffer behind, or the state
\* behind the last, and a run stores what became of it: a buffer that lost its
\* terminator is the only one to read on.
OneChanges ==
    Serving => \A inst \in Instances :
        Changed(inst) # {} =>
           /\ \A other \in Instances \ {inst} : memory'[other] = memory[other]
           /\ \E k \in DOMAIN Strings :
                 /\ Changed(inst) \subseteq {k, k + 1}
                 /\ k + 1 \in Changed(inst) =>
                       StringFrom(memory'[inst], Start(Strings[k + 1])) = <<>>
                 /\ memory'[inst].ints # memory[inst].ints =>
                       \/ /\ k = Len(Strings)
                          /\ memory'[inst].ints = [memory[inst].ints EXCEPT ![State] = @ - (@ % Base)]
                       \/ \E new \in Started : memory'[inst].ints = Stored(memory[inst].ints, new)

OthersKeep == [][OneChanges]_vars
=============================================================================
