-------------------------------- MODULE Uri --------------------------------
(***************************************************************************)
(* How identifiers travel as text: the paths an operator types and the     *)
(* path options of a request (core/uri.c, transaction_new in               *)
(* core/transaction.c), and the object list a client registers with        *)
(* (prv_getRegisterPayload in core/objects.c, prv_getId and                *)
(* prv_decodeRegisterPayload in core/registration.c).                      *)
(*                                                                         *)
(* A text is the sequence of its segments between slashes ("3//2" is       *)
(* <<3, Empty, 2>>, "/3" is <<Empty, 3>>), a segment a number or one of    *)
(* the constants below.                                                    *)
(***************************************************************************)
EXTENDS List

CONSTANTS
    Empty,   \* a segment without characters
    Junk,    \* a segment with a character that is not a digit
    Rd, Bs,  \* "rd" and "bs"
    Null,    \* NULL, or the 0 that lwm2m_stringToUri returns
    MaxId,   \* LWM2M_MAX_ID: 65535
    IntMod   \* the number of values of an int: 2^32

ASSUME WidthAssumption ==
    /\ MaxId \in Nat \ {0} /\ MaxId < IdSpace
    /\ IntMod \in Nat /\ IntMod > 2 * MaxId + 1

ASSUME SegmentAssumption ==
    /\ {Empty, Junk, Rd, Bs} \cap Nat = {}
    /\ Empty # Junk /\ Empty # Rd /\ Empty # Bs /\ Rd # Bs
    /\ Junk # Rd /\ Junk # Bs

Segments == Nat \cup {Empty, Junk}

Ids == 0..MaxId

\* prv_parse_number over one segment, in an int: a segment without digits is
\* 0, a number too large wraps.
ParseNumber(s) ==
    CASE s = Empty -> 0
      [] s \in Nat -> IF 2 * (s % IntMod) < IntMod THEN s % IntMod
                                                   ELSE (s % IntMod) - IntMod
      [] OTHER     -> -1

\* A lwm2m_uri_t: `flag` says which of the identifiers are set.
Uris == [flag : SUBSET {"registration", "bootstrap", "dm", "object", "instance", "resource"},
         objectId : Ids, instanceId : Ids, resourceId : Ids]

\* The object lists of a server, with a list of instances for each object.
ObjectListRecords ==
    [ids : Seq(Identifiers),
     instances : UNION {[S -> Seq(Identifiers)] : S \in SUBSET Identifiers}]

ASSUME NullAssumption == Null \notin Uris /\ Null \notin ObjectListRecords

NoUri == [flag |-> {}, objectId |-> 0, instanceId |-> 0, resourceId |-> 0]

Flagged(name, set) == IF set THEN {name} ELSE {}

\* The text has a segment i with something in it.
Given(text, i) == i <= Len(text) /\ text[i] # Empty

\* lwm2m_stringToUri, into a variable of the caller that holds `uri`.  What
\* follows a third segment is not looked at.
StringToUri(text, uri) ==
    IF \/ text = <<Empty>>
       \/ ParseNumber(text[1]) \notin Ids
       \/ \E i \in {2, 3} :
             Given(text, i) /\ ParseNumber(text[i]) \notin 0..(MaxId - 1)
    THEN Null
    ELSE [flag |-> uri.flag \cup Flagged("instance", Given(text, 2))
                            \cup Flagged("resource", Given(text, 3)),
          objectId   |-> ParseNumber(text[1]),
          instanceId |-> IF Given(text, 2) THEN ParseNumber(text[2])
                                           ELSE uri.instanceId,
          resourceId |-> IF Given(text, 3) THEN ParseNumber(text[3])
                                           ELSE uri.resourceId]

\* Variant: the empty segment that keeps the resource in its place is left out.
SegmentsOfClosed(uri) ==
    <<uri.objectId>>
    \o (IF "instance" \in uri.flag THEN <<uri.instanceId>> ELSE <<>>)
    \o (IF "resource" \in uri.flag THEN <<uri.resourceId>> ELSE <<>>)

\* The path options transaction_new puts into a request.
SegmentsOf(uri) ==
    CASE {"instance", "resource"} \subseteq uri.flag ->
            <<uri.objectId, uri.instanceId, uri.resourceId>>
      [] "instance" \in uri.flag /\ "resource" \notin uri.flag ->
            <<uri.objectId, uri.instanceId>>
      [] "instance" \notin uri.flag /\ "resource" \in uri.flag ->
            <<uri.objectId, Empty, uri.resourceId>>
      [] OTHER -> <<uri.objectId>>

\* lwm2m_decode_uri over the path options of a request; an allocation that
\* fails gives Null as well and is left to the callers' models.
DecodeUri(path) ==
    IF path = <<>> THEN Null
    ELSE IF path[1] = Rd THEN
        IF Len(path) = 1 THEN [NoUri EXCEPT !.flag = {"registration"}]
        ELSE IF Len(path) = 2 /\ ParseNumber(path[2]) \in Ids
             THEN [NoUri EXCEPT !.flag = {"registration", "object"},
                                !.objectId = ParseNumber(path[2])]
        ELSE Null
    ELSE IF path[1] = Bs THEN
        IF Len(path) = 1 THEN [NoUri EXCEPT !.flag = {"bootstrap"}] ELSE Null
    ELSE IF \/ Len(path) > 3
            \/ ParseNumber(path[1]) \notin Ids
            \/ Given(path, 2) /\ ParseNumber(path[2]) \notin 0..(MaxId - 1)
            \/ Given(path, 3) /\ ParseNumber(path[3]) \notin Ids
    THEN Null
    ELSE [flag |-> {"dm", "object"} \cup Flagged("instance", Given(path, 2))
                                    \cup Flagged("resource", Given(path, 3)),
          objectId   |-> ParseNumber(path[1]),
          instanceId |-> IF Given(path, 2) THEN ParseNumber(path[2]) ELSE 0,
          resourceId |-> IF Given(path, 3) THEN ParseNumber(path[3]) ELSE 0]

\* The path a client is told to reach its registration by: "/rd/<id>".
LocationOf(id) == <<Rd, id>>

-----------------------------------------------------------------------------
(* Object lists.  An object of a client is [id, instances], with the list  *)
(* of its instances; an item of a payload [object, instance], where a part *)
(* that is not there is Empty.                                             *)

Width(n) == 1 + Cardinality({k \in 1..4 : n >= 10^k})

ItemWidth(item) ==
    Width(item.object) + 2
    + (IF item.instance = Empty THEN 0 ELSE 1 + Width(item.instance))

ItemsOf(object) ==
    IF object.instances = <<>>
    THEN <<[object |-> object.id, instance |-> Empty]>>
    ELSE [i \in DOMAIN object.instances |->
             [object |-> object.id, instance |-> object.instances[i]]]

\* The items of a client's objects, one object after the other, and the
\* characters that items take.
AllItems(objects) ==
    LET items[i \in 0..Len(objects)] ==
            IF i = 0 THEN <<>> ELSE items[i - 1] \o ItemsOf(objects[i])
    IN  items[Len(objects)]

Characters(items) ==
    LET sum[i \in 0..Len(items)] ==
            IF i = 0 THEN 0 ELSE sum[i - 1] + ItemWidth(items[i])
    IN  sum[Len(items)]

\* prv_getRegisterPayload, in a buffer of `room` characters.
RegisterPayload(objects, room) ==
    IF Characters(AllItems(objects)) > room THEN <<>> ELSE AllItems(objects)

\* What one item adds to an object list [ids, instances]: the object, if it
\* is not in the list, then the instance, if the object's list has it not.
RecordItem(list, item) ==
    LET o     == ParseNumber(item.object)
        i     == ParseNumber(item.instance)
        known == IF ListFind(list.ids, o) THEN list
                 ELSE [ids       |-> ListAdd(list.ids, o),
                       instances |-> [p \in DOMAIN list.instances \cup {o} |->
                                         IF p = o THEN <<>> ELSE list.instances[p]]]
    IN  IF o \notin 0..(MaxId - 1) THEN list
        ELSE IF \/ item.instance = Empty \/ i \notin 0..(MaxId - 1)
                \/ ListFind(known.instances[o], i)
        THEN known
        ELSE [known EXCEPT !.instances[o] = ListAdd(@, i)]

\* prv_decodeRegisterPayload; that the record of an object or an instance is
\* not allocated (see Lwm2mServer.Register) is left to the callers' models.
DecodeRegisterPayload(items) ==
    LET list[i \in 0..Len(items)] ==
            IF i = 0 THEN [ids |-> <<>>, instances |-> <<>>]
            ELSE RecordItem(list[i - 1], items[i])
    IN  list[Len(items)]
=============================================================================
