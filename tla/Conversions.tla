----------------------------- MODULE Conversions -----------------------------
(***************************************************************************)
(* What one side says and what the other hears: an operator's path and the *)
(* path a client decodes, a location and the registration it names, the    *)
(* objects of a client and the list its server keeps, an integer and the   *)
(* text or TLV record it is sent as.  `said` is drawn from what the two    *)
(* programs can be given; each action is one way through the conversions   *)
(* of Uri and Values.                                                      *)
(***************************************************************************)
EXTENDS Uri, Values

CONSTANTS
    Texts,       \* paths that are typed
    StackUris,   \* what an uninitialised lwm2m_uri_t of a caller may hold
    ObjectLists, \* what clients have: sequences of [id, instances]
    Payloads,    \* object lists of clients of any make: sequences of items
    Room,        \* the characters of the buffer of lwm2m_register: 64
    Typed,       \* values that are written, as text
    Numbers,     \* integers that are read
    Records,     \* TLV records: [type, id, len]
    NotYet       \* nothing is heard yet

ASSUME SaidAssumption ==
    /\ Texts \subseteq Seq(Segments) \ {<<>>}
    /\ StackUris \subseteq Uris
    /\ ObjectLists \subseteq Seq([id : Ids, instances : Seq(Ids)])
    /\ Payloads \subseteq Seq([object : Segments, instance : Segments])
    /\ Typed \subseteq Seq(0..9 \cup {Minus, Other})
    /\ \A v \in Numbers : v \in Int /\ -Modulus < 2 * v /\ 2 * v < Modulus
    /\ \A r \in Records : /\ r = [type |-> r.type, id |-> r.id, len |-> r.len]
                          /\ r.id \in Nat /\ r.id < Power(Base, 2)
                          /\ r.len \in Nat /\ r.len < Power(Base, 3)

VARIABLES said, heard

vars == <<said, heard>>

Said ==
    [kind : {"path"}, text : Texts, uri : StackUris]
    \cup [kind : {"location"}, id : Ids]
    \cup [kind : {"objects"}, objects : ObjectLists]
    \cup [kind : {"payload"}, items : Payloads]
    \cup [kind : {"text"}, text : Typed]
    \cup [kind : {"number"}, value : Numbers]
    \cup [kind : {"record"}, record : Records]

Init == said \in Said /\ heard = NotYet

Hears(kind, value) ==
    said.kind = kind /\ heard = NotYet /\ heard' = value /\ UNCHANGED said

\* A command of the server: the path is read into the caller's variable and
\* becomes the path options that the client decodes.
Ask == Hears("path",
             LET uri == StringToUri(said.text, said.uri)
             IN  IF uri = Null THEN Null ELSE DecodeUri(SegmentsOf(uri)))

\* A client deregisters at the location it was given.
Locate == Hears("location", DecodeUri(LocationOf(said.id)))

\* Nothing is sent if the list is empty or has no room.
Register == Hears("objects",
                  LET items == RegisterPayload(said.objects, Room)
                  IN  IF items = <<>> THEN Null ELSE DecodeRegisterPayload(items))

Announce == Hears("payload", DecodeRegisterPayload(said.items))

Write == Hears("text", PlainTextToInt64(said.text))

Read == Hears("number", [text |-> PlainTextToInt64(Int64ToPlainText(said.value)),
                         tlv  |-> OpaqueToInt(IntToTLV(said.value))])

Send == Hears("record",
              LET r == said.record
              IN  DecodeTLV(CreateHeader(r.type, r.id, r.len), r.len))

Next == Ask \/ Locate \/ Register \/ Announce \/ Write \/ Read \/ Send

Spec == Init /\ [][Next]_vars

-----------------------------------------------------------------------------
(* Paths.                                                                  *)

\* The identifier a text means at place i: an empty segment means none.
Means(text, i, limit) ==
    \/ ~ Given(text, i)
    \/ text[i] \in 0..limit

\* The uri that a text means, by the three places it has.
Meaning(text) ==
    IF \/ text[1] \notin Ids
       \/ ~ Means(text, 2, MaxId - 1) \/ ~ Means(text, 3, MaxId - 1)
    THEN Null
    ELSE [flag |-> {"dm", "object"} \cup Flagged("instance", Given(text, 2))
                                    \cup Flagged("resource", Given(text, 3)),
          objectId   |-> text[1],
          instanceId |-> IF Given(text, 2) THEN text[2] ELSE 0,
          resourceId |-> IF Given(text, 3) THEN text[3] ELSE 0]

\* The text has no leading slash, and its numbers fit an int.
Plain(text) ==
    text[1] # Empty /\ \A i \in DOMAIN text : text[i] \in Nat => text[i] < IntMod

\* A path arrives at the client as it was typed, or is refused at the
\* server: no identifier takes another's place, whatever is left out.  That
\* is so of a caller's variable without stray flags, and of texts without a
\* leading slash: see CleanPaths and SlashedPaths.
PathArrives ==
    /\ said.kind = "path" /\ heard # NotYet /\ said.uri.flag = {} /\ Plain(said.text)
          => heard = Meaning(said.text)
    /\ said.kind = "location" /\ heard # NotYet
          => heard = [NoUri EXCEPT !.flag = {"registration", "object"}, !.objectId = said.id]

\* The same whatever the caller's variable held before: the comment at
\* core/liblwm2m.h:158 has lwm2m_stringToUri "fill the lwm2m_uri_t", but
\* nothing sets `flag` before `flag |=`.
CleanPaths ==
    said.kind = "path" /\ heard # NotYet /\ Plain(said.text)
        => heard = Meaning(said.text)

\* The form that the same comment and the server's help give paths, with a
\* leading slash, means what follows the slash.
SlashedPaths ==
    /\ said.kind = "path" /\ heard # NotYet /\ said.uri.flag = {}
    /\ Len(said.text) > 1 /\ said.text[1] = Empty /\ Plain(Tail(said.text))
    => heard = Meaning(Tail(said.text))

-----------------------------------------------------------------------------
(* Object lists.                                                           *)

\* The list has what the items name, once each and in order.
Lists(list, items) ==
    LET named == {item \in Range(items) : ParseNumber(item.object) \in 0..(MaxId - 1)}
        of(o) == {ParseNumber(item.instance) : item \in
                     {n \in named : ParseNumber(n.object) = o /\ n.instance # Empty}}
    IN  /\ Sorted(list.ids)
        /\ Range(list.ids) = {ParseNumber(item.object) : item \in named}
        /\ \A o \in Range(list.ids) :
              /\ Sorted(list.instances[o])
              /\ Range(list.instances[o]) = of(o) \cap 0..(MaxId - 1)

\* The server's list has the objects and instances a client registers, each
\* once, whatever their order in the payload; parts that do not parse and
\* the reserved identifier are left out.
ObjectListArrives ==
    /\ said.kind = "payload" /\ heard # NotYet => Lists(heard, said.items)
    /\ said.kind = "objects" /\ heard # NotYet =>
          LET items == AllItems(said.objects)
          IN  IF heard = Null THEN items = <<>> \/ Characters(items) > Room
                              ELSE Lists(heard, items)

-----------------------------------------------------------------------------
(* Values.                                                                 *)

\* Every integer is read back as it was: in text, if a long holds it (of any
\* other the text shows the part that a long holds); in TLV, unless one of its
\* bytes has its first bit set, and the record itself is right in any case.
\* A value is written as the number its text means, if an int64_t holds it.
NumberArrives ==
    /\ said.kind = "number" /\ heard # NotYet =>
          /\ Within(heard.text, LongMod) /\ (said.value - heard.text) % LongMod = 0
          /\ Within(said.value, LongMod) => heard.text = said.value
          /\ SignMagnitude(IntToTLV(said.value)) = said.value
          /\ Small(Tail(IntToTLV(said.value))) => heard.tlv = said.value
    /\ said.kind = "text" /\ heard # NotYet =>
          LET signs == {i \in DOMAIN said.text : said.text[i] = Minus}
              value == Positional(Unsigned(said.text), 10)
          IN  IF said.text = <<>> \/ Other \in Range(said.text) \/ ~ signs \subseteq {1}
              THEN heard = Refused
              ELSE 2 * value < Modulus => heard = IF signs = {1} THEN -value ELSE value

\* The same of the TLV of every integer: the comment at core/liblwm2m.h:119 has the
\* records hold the data, and tests/TLV/decode.c:154 holds such a time.
TlvArrives ==
    said.kind = "number" /\ heard # NotYet => heard.tlv = said.value

\* A record is decoded with the type, the identifier and the length it was
\* made with, unless a byte of its header has its first bit set.
RecordArrives ==
    /\ said.kind = "record" /\ heard # NotYet
    /\ LET h == CreateHeader(said.record.type, said.record.id, said.record.len)
       IN  Small(h.id) /\ Small(h.length)
    => heard = said.record
=============================================================================
