--------------------------------- MODULE Ber ---------------------------------
(***************************************************************************)
(* ber.rs: any BER encoding of an element re-encoded as DER, and the       *)
(* encodings and the reference it is compared with.                        *)
(*                                                                         *)
(* A byte is a number below 256.  A result is a sequence of one element,   *)
(* or empty for every error.  An element is [tag, number, universal,       *)
(* bytes, kids, constructed].                                              *)
(***************************************************************************)
EXTENDS Naturals, Sequences, FiniteSets, SequencesExt

CONSTANTS
    MaxDepth,           \* MAX_DEPTH
    MaxTagOctets,       \* ten, in parse_element
    TagBits,            \* of a tag's number: 64
    MaxLengthOctets     \* eight, in parse_element

Malformed == <<>>

After(s, n) == SubSeq(s, n + 1, Len(s))

NumberOf(digits, base) ==
    LET Add(n, d) == n * base + d IN FoldLeft(Add, 0, digits)

OctetString == 4
BitString == 3
SetOf == 17

Primitive(tag, number, universal, bytes) ==
    [tag |-> tag, number |-> number, universal |-> universal,
     constructed |-> FALSE, bytes |-> bytes, kids |-> <<>>]
Constructed(tag, number, universal, kids) ==
    [tag |-> tag, number |-> number, universal |-> universal,
     constructed |-> TRUE, bytes |-> <<>>, kids |-> kids]

---------------------------------------------------------------------------
(* parse_element: what is read, and how much of the input it took. *)

\* Continuation octets of a high tag number, up to the first below 128.
TagLength(input) ==
    IF input[1] % 32 # 31 THEN 1
    ELSE LET ends == {i \in 2 .. Len(input) : input[i] < 128}
             last == CHOOSE i \in ends : \A j \in ends : i <= j
         IN  IF ends = {} THEN 0 ELSE IF last - 1 > MaxTagOctets THEN 0 ELSE last

TagNumber(tag) ==
    IF Len(tag) = 1 THEN tag[1] % 32
    ELSE NumberOf([i \in 1 .. Len(tag) - 1 |-> tag[i + 1] % 128], 128) % 2 ^ TagBits

\* <<octets, length>> of a definite length; <<>> when it does not fit.
DefiniteLength(input) ==
    LET n == input[1] % 128
    IN  IF input[1] < 128 THEN <<1, input[1]>>
        ELSE IF n = 0 \/ n > MaxLengthOctets \/ n > Len(input) - 1 THEN Malformed
        ELSE <<n + 1, NumberOf(SubSeq(input, 2, n + 1), 256)>>

RECURSIVE ParseElement(_, _), ParseKids(_, _), ParseToEnd(_, _)

\* The children of a definite length: all of the content.
ParseKids(content, depth) ==
    IF content = <<>> THEN << <<>> >>
    ELSE LET kid == ParseElement(content, depth)
             rest == IF kid = Malformed THEN Malformed ELSE ParseKids(After(content, kid[2]), depth)
         IN  IF rest = Malformed THEN Malformed ELSE << <<kid[1]>> \o rest[1] >>

\* The children of an indefinite length: up to the two zero octets.
ParseToEnd(input, depth) ==
    IF input = <<>> THEN Malformed
    ELSE IF input[1] = 0
         THEN IF Len(input) > 1 /\ input[2] = 0 THEN << <<>>, 2 >> ELSE Malformed
    ELSE LET kid == ParseElement(input, depth)
             rest == IF kid = Malformed THEN Malformed ELSE ParseToEnd(After(input, kid[2]), depth)
         IN  IF rest = Malformed THEN Malformed ELSE << <<kid[1]>> \o rest[1], kid[2] + rest[2] >>

ParseElement(input, depth) ==
    LET t == TagLength(input)
        tag == SubSeq(input, 1, t)
        constructed == (input[1] \div 32) % 2 = 1
        universal == input[1] < 64
        rest == After(input, t)
        toEnd == ParseToEnd(After(rest, 1), depth + 1)
        len == DefiniteLength(rest)
        content == SubSeq(rest, len[1] + 1, len[1] + len[2])
        kids == ParseKids(content, depth + 1)
        size == t + len[1] + len[2]
    IN  IF depth >= MaxDepth \/ input = <<>> THEN Malformed
        ELSE IF t = 0 \/ rest = <<>> THEN Malformed
        ELSE IF rest[1] = 128
             THEN IF ~constructed \/ toEnd = Malformed THEN Malformed
                  ELSE <<Constructed(tag, TagNumber(tag), universal, toEnd[1]), t + 1 + toEnd[2]>>
        ELSE IF len = Malformed THEN Malformed
        ELSE IF len[2] > Len(rest) - len[1] THEN Malformed
        ELSE IF ~constructed THEN <<Primitive(tag, TagNumber(tag), universal, content), size>>
        ELSE IF kids = Malformed THEN Malformed
        ELSE <<Constructed(tag, TagNumber(tag), universal, kids[1]), size>>

---------------------------------------------------------------------------
(* canonicalize, encode_element *)

RECURSIVE EncodeElement(_), Canonicalize(_)

LengthDigits(n) ==
    LET D[i \in 0 .. MaxLengthOctets] ==
            IF i = 0 THEN <<>> ELSE <<(n \div 256 ^ (i - 1)) % 256>> \o D[i - 1]
        size == CHOOSE i \in 1 .. MaxLengthOctets :
                    n < 256 ^ i /\ (i = 1 \/ n >= 256 ^ (i - 1))
    IN  D[size]

EncodeLength(n) == IF n < 128 THEN <<n>> ELSE <<128 + Len(LengthDigits(n))>> \o LengthDigits(n)

EncodeElement(e) ==
    LET content == IF e.constructed
                   THEN FlattenSeq([i \in DOMAIN e.kids |-> EncodeElement(e.kids[i])])
                   ELSE e.bytes
    IN  e.tag \o EncodeLength(Len(content)) \o content

\* The shorter encoding is continued with zeros.
Precedes(a, b) ==
    LET At(s, i) == IF i \in DOMAIN s THEN s[i] ELSE 0
    IN  \E i \in 1 .. (IF Len(a) > Len(b) THEN Len(a) ELSE Len(b)) :
            /\ At(a, i) < At(b, i)
            /\ \A j \in 1 .. i - 1 : At(a, j) = At(b, j)

Segments(kids, number) ==
    \A i \in DOMAIN kids : kids[i].universal /\ kids[i].number = number /\ ~kids[i].constructed

FlattenOctetString(kids) == FlattenSeq([i \in DOMAIN kids |-> kids[i].bytes])

\* The unused-bits octet of the first segment stands for all.
FlattenBitString(kids) ==
    IF kids = <<>> THEN <<0>>
    ELSE <<kids[1].bytes[1]>> \o FlattenSeq([i \in DOMAIN kids |-> After(kids[i].bytes, 1)])

\* Mutant: the order they were written in.
SortKids_AsTheyCome(kids) == kids

SortKids(kids) ==
    LET Before(a, b) == Precedes(EncodeElement(a), EncodeElement(b)) IN SortSeq(kids, Before)

Canonicalize(e) ==
    LET each == [i \in DOMAIN e.kids |-> Canonicalize(e.kids[i])]
        kids == [i \in DOMAIN each |-> each[i][1]]
        Is(number) == e.universal /\ e.number = number
    IN  IF ~e.constructed THEN <<e>>
        ELSE IF \E i \in DOMAIN each : each[i] = Malformed THEN Malformed
        ELSE IF Is(OctetString)
             THEN IF Segments(kids, OctetString)
                  THEN <<Primitive(<<OctetString>>, OctetString, TRUE, FlattenOctetString(kids))>>
                  ELSE Malformed
        ELSE IF Is(BitString)
             THEN IF Segments(kids, BitString) /\ \A i \in DOMAIN kids : kids[i].bytes # <<>>
                  THEN <<Primitive(<<BitString>>, BitString, TRUE, FlattenBitString(kids))>>
                  ELSE Malformed
        ELSE <<[e EXCEPT !.kids = IF Is(SetOf) THEN SortKids(kids) ELSE kids]>>

\* <<the DER encoding>>, or Malformed.
ToDer(input) ==
    LET parsed == ParseElement(input, 0)
        canon == Canonicalize(parsed[1])
    IN  IF parsed = Malformed THEN Malformed
        ELSE IF parsed[2] # Len(input) THEN Malformed
        ELSE IF canon = Malformed THEN Malformed
        ELSE <<EncodeElement(canon[1])>>

---------------------------------------------------------------------------
(* The reference: a value, its one DER encoding and some BER encodings. *)

RECURSIVE DerOf(_), BerOf(_)

Octets(bytes) == [kind |-> "octets", bytes |-> bytes, kids |-> <<>>]
Bits8(bytes) == [kind |-> "bits", bytes |-> <<0>> \o bytes, kids |-> <<>>]
SequenceOf(kids) == [kind |-> "sequence", bytes |-> <<>>, kids |-> kids]
SetOfValues(kids) == [kind |-> "set", bytes |-> <<>>, kids |-> kids]

TagOf(v) == CASE v.kind = "octets" -> 4 [] v.kind = "bits" -> 3
              [] v.kind = "sequence" -> 48 [] v.kind = "set" -> 49

ShortestLength(content) ==
    IF Len(content) < 128 THEN <<Len(content)>> ELSE <<129, Len(content)>>

Orders(s) ==
    {[i \in DOMAIN s |-> s[p[i]]] : p \in {f \in [DOMAIN s -> DOMAIN s] :
        \A i, j \in DOMAIN s : f[i] = f[j] => i = j}}

DerOf(v) ==
    LET content == IF v.kind \in {"octets", "bits"} THEN v.bytes
                   ELSE FlattenSeq([i \in DOMAIN v.kids |-> DerOf(v.kids[i])])
        sorted == CHOOSE o \in Orders(v.kids) :
                    \A i \in 1 .. Len(o) - 1 : ~Precedes(DerOf(o[i + 1]), DerOf(o[i]))
    IN  IF v.kind = "set" /\ v.kids # sorted THEN DerOf([v EXCEPT !.kids = sorted])
        ELSE <<TagOf(v)>> \o ShortestLength(content) \o content

\* The lengths of a content below 256 octets: the shortest, a longer one,
\* and for a constructed element none.
DefiniteForms(tag, content) ==
    {<<tag>> \o ShortestLength(content) \o content, <<tag, 130, 0, Len(content)>> \o content}
Forms(tag, content) ==
    DefiniteForms(tag, content) \cup {<<tag, 128>> \o content \o <<0, 0>>}

Cuts(bytes) == {<<SubSeq(bytes, 1, i), After(bytes, i)>> : i \in 0 .. Len(bytes)}

\* One of each of the sets, end to end.
Products(sets) ==
    LET Add(S, T) == {s \o t : s \in S, t \in T} IN FoldLeft(Add, {<<>>}, sets)

BerOf(v) ==
    CASE v.kind = "octets" ->
            DefiniteForms(4, v.bytes)
            \cup UNION {UNION {Forms(36, a \o b) : a \in DefiniteForms(4, c[1]),
                                                   b \in DefiniteForms(4, c[2])} : c \in Cuts(v.bytes)}
      [] v.kind = "bits" ->
            DefiniteForms(3, v.bytes)
            \cup UNION {UNION {Forms(35, a \o b) : a \in DefiniteForms(3, <<0>> \o c[1]),
                                                   b \in DefiniteForms(3, <<0>> \o c[2])}
                           : c \in Cuts(Tail(v.bytes))}
      [] v.kind = "sequence" ->
            UNION {Forms(48, c) : c \in Products([i \in DOMAIN v.kids |-> BerOf(v.kids[i])])}
      [] v.kind = "set" ->
            UNION {UNION {Forms(49, c) : c \in Products([i \in DOMAIN o |-> BerOf(o[i])])}
                      : o \in Orders(v.kids)}
=============================================================================
