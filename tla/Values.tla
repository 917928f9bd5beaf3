------------------------------- MODULE Values -------------------------------
(***************************************************************************)
(* How integers travel: as decimal text (core/utils.c) and as TLV records  *)
(* (core/tlv.c).  A text is a sequence of characters, a digit 0..9, Minus  *)
(* or Other; a TLV record a record of its header's fields, its bytes in    *)
(* the order they are sent.                                                *)
(***************************************************************************)
EXTENDS SequencesExt, Integers

CONSTANTS
    Minus, Other,  \* "-", and a character that is neither that nor a digit
    Base,          \* the values of a byte: 256
    Bytes,         \* the bytes of an integer: 8
    LongMod,       \* the number of values of a long: 2^64, or 2^32 on the board
    Refused        \* no value

ASSUME ByteAssumption ==
    Base \in Nat /\ Base > 8 /\ Base % 2 = 0 /\ Bytes \in Nat /\ Bytes >= 3

ASSUME CharacterAssumption == Minus \notin Int /\ Other \notin Int /\ Minus # Other

\* n to the k-th.
Power(n, k) ==
    LET power[j \in 0..k] == IF j = 0 THEN 1 ELSE n * power[j - 1]
    IN  power[k]

\* What a loop adds up from digits, the highest first.
AddUp(digits, base) ==
    LET sum[i \in 0..Len(digits)] ==
            IF i = 0 THEN 0 ELSE sum[i - 1] * base + digits[i]
    IN  sum[Len(digits)]

\* The fewest of up to `max` digits that hold n, and the last `len` digits
\* of n, the highest first.
Places(n, base, max) ==
    CHOOSE k \in 1..max : n < Power(base, k) /\ (k = 1 \/ n >= Power(base, k - 1))

BigEndian(n, base, len) ==
    [i \in 1..len |-> (n \div Power(base, len - i)) % base]

Modulus == Power(Base, Bytes)

ASSUME LongAssumption == LongMod \in Nat \ {0} /\ LongMod <= Modulus

\* A number in the two's complement of an integer of m values: an int64_t, or
\* the part of one that lies in the place of a long.
Wrapped(n, m) == IF 2 * (n % m) < m THEN n % m ELSE (n % m) - m
Signed(n) == Wrapped(n, Modulus)
Long(n) == Wrapped(n, LongMod)

Within(n, m) == -m <= 2 * n /\ 2 * n < m

-----------------------------------------------------------------------------
(* Plain text.                                                             *)

\* lwm2m_PlainTextToInt64: the digits are added up modulo 2^64, the sign
\* comes last, and a text that is refused leaves the value alone.
PlainTextToInt64(text) ==
    LET negative == text # <<>> /\ text[1] = Minus
        digits   == IF negative THEN Tail(text) ELSE text
        value    == AddUp(digits, 10)
    IN  IF text = <<>> \/ \E i \in DOMAIN digits : digits[i] \notin 0..9
        THEN Refused
        ELSE Signed(IF negative THEN -value ELSE value)

\* The decimal digits of a natural number, without leading zeros.
Digits(n) == BigEndian(n, 10, Places(n, 10, n + 1))

\* lwm2m_int64ToPlainText: "%ld" takes what a long holds of the int64_t.
Int64ToPlainText(v) ==
    IF Long(v) < 0 THEN <<Minus>> \o Digits(-Long(v)) ELSE Digits(Long(v))

-----------------------------------------------------------------------------
(* TLV.                                                                    *)

\* What a char holds when a byte is stored in it: chars are signed.
Char(b) == IF 2 * b < Base THEN b ELSE b - Base

\* The loops of lwm2m_decodeTLV and lwm2m_opaqueToInt over bytes, in chars.
FromChars(bytes) == AddUp([i \in DOMAIN bytes |-> Char(bytes[i])], Base)

\* Variant: a byte is used up to its last value before the next is taken.
IntToTLVFull(v) ==
    LET value == IF v < 0 THEN -v ELSE v
        bytes == BigEndian(value, Base, Places(value, Base, Bytes))
    IN  IF v < 0 THEN [bytes EXCEPT ![1] = @ + Base \div 2] ELSE bytes

\* The data of lwm2m_intToTLV: the magnitude in the fewest bytes that leave
\* the first bit for the sign.  (The lowest integer has no magnitude in an
\* int64_t: what happens then is undefined, and no value of this operator.)
IntToTLV(v) ==
    LET value == IF v < 0 THEN -v ELSE v
        fits(k) == 2 * value < Power(Base, k)
        len   == CHOOSE k \in 1..Bytes : fits(k) /\ \A j \in 1..(k - 1) : ~ fits(j)
        bytes == BigEndian(value, Base, len)
    IN  IF v < 0 THEN [bytes EXCEPT ![1] = @ + Base \div 2] ELSE bytes

\* lwm2m_opaqueToInt.
OpaqueToInt(bytes) ==
    LET negative  == 2 * bytes[1] >= Base
        magnitude == FromChars([bytes EXCEPT ![1] = @ % (Base \div 2)])
    IN  IF Len(bytes) \notin 1..Bytes THEN Refused
        ELSE IF negative THEN -magnitude ELSE magnitude

\* The bytes of prv_create_header's length field, if it needs one.
LengthBytes(len) ==
    IF len <= 7 THEN <<>>
    ELSE BigEndian(len, Base, Places(len, Base, 3))

\* Variant: an identifier of two bytes is cut to its lower one.
CreateHeaderNarrow(type, id, len) ==
    [type |-> type, inline |-> IF len <= 7 THEN len ELSE 0,
     id |-> BigEndian(id, Base, 1), length |-> LengthBytes(len)]

\* prv_create_header: the header of `len` bytes of data.
CreateHeader(type, id, len) ==
    [type |-> type, inline |-> IF len <= 7 THEN len ELSE 0,
     id |-> BigEndian(id, Base, IF id >= Base THEN 2 ELSE 1), length |-> LengthBytes(len)]

HeaderLength(h) == 1 + Len(h.id) + Len(h.length)

\* lwm2m_opaqueToTLV: the size of the record, or 0 if it has no room.
OpaqueToTLV(type, id, len, room) ==
    LET size == HeaderLength(CreateHeader(type, id, len)) + len
    IN  IF room < size THEN 0 ELSE size

\* lwm2m_decodeTLV on a header followed by `room` bytes.  An identifier is a
\* uint16_t, a length a size_t: negative chars wrap.
DecodeTLV(h, room) ==
    LET id  == FromChars(h.id) % Power(Base, 2)
        len == (IF h.length = <<>> THEN h.inline ELSE FromChars(h.length)) % Modulus
    IN  IF (HeaderLength(h) + len) % Modulus > HeaderLength(h) + room
        THEN Refused
        ELSE [type |-> h.type, id |-> id, len |-> len]

-----------------------------------------------------------------------------
(* What digits and bytes mean.                                            *)

\* The number that a sequence of digits to a base means: each digit counts
\* the base to the number of digits behind it.
Positional(digits, base) ==
    LET sum[i \in 0..Len(digits)] ==
            IF i = 0 THEN 0
            ELSE sum[i - 1] + digits[i] * Power(base, Len(digits) - i)
    IN  sum[Len(digits)]

\* A text with its sign as a zero.
Unsigned(text) == [i \in DOMAIN text |-> IF text[i] = Minus THEN 0 ELSE text[i]]

\* The number that bytes mean with the sign in the first bit.
SignMagnitude(bytes) ==
    LET magnitude == Positional([bytes EXCEPT ![1] = @ % (Base \div 2)], Base)
    IN  IF 2 * bytes[1] >= Base THEN -magnitude ELSE magnitude

Small(bytes) == \A i \in DOMAIN bytes : 2 * bytes[i] < Base
=============================================================================
