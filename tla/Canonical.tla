------------------------------ MODULE Canonical ------------------------------
(***************************************************************************)
(* The tasks of Algorithms and those of ber.rs, whose operators call each  *)
(* other: BER as it is written, and the DER that is made of it.            *)
(***************************************************************************)
EXTENDS Algorithms

CONSTANTS MaxDepth, MaxTagOctets, TagBits, MaxLengthOctets

Asn == INSTANCE Ber

-----------------------------------------------------------------------------
(* BER: the encodings of some values, every short string of bytes, and     *)
(* sequences nested to the limit and beyond.                               *)

Pairs ==
    {<<Asn!Octets(<<0>>), Asn!Octets(<<>>)>>, <<Asn!Octets(<<7>>), Asn!Bits8(<<>>)>>,
     <<Asn!Octets(<<7>>), Asn!Octets(<<0>>)>>}
Values ==
    {Asn!Octets(<<7, 0>>), Asn!Octets([i \in 1 .. 130 |-> 0]), Asn!Bits8(<<5>>),
     Asn!SequenceOf(<<Asn!SetOfValues(<<Asn!Octets(<<>>), Asn!Octets(<<>>)>>)>>)}
    \cup {Asn!SetOfValues(s) : s \in Pairs}

\* So many sequences, one in the other.
Nested(levels) ==
    LET N[i \in 1 .. levels] == IF i = 1 THEN <<48, 0>> ELSE <<48, Len(N[i - 1])>> \o N[i - 1]
    IN  N[levels]

\* Numbers of tags beyond TagBits, that wrap to those of strings and sets.
Wrapping ==
    {<<36, 4, 31, 129, 4, 0>>, <<63, 129, 4, 2, 4, 0>>, <<63, 129, 3, 0>>,
     <<63, 129, 17, 6, 4, 1, 1, 4, 1, 0>>, <<63, 129, 17, 4, 4, 0, 3, 0>>}

Octet == {0, 1, 4, 31, 36, 48, 49, 128, 129}

BerTask ==
    \/ \E v \in Values : \E input \in Asn!BerOf(v) :
            task = [kind |-> "ber", value |-> v, input |-> input]
    \/ \E input \in Wrapping \cup UNION {[1 .. n -> Octet] : n \in 0 .. 5} :
            task = [kind |-> "bytes", input |-> input]
    \/ \E levels \in 1 .. MaxDepth + 2 :
            task = [kind |-> "nested", levels |-> levels, input |-> Nested(levels)]

BerAnswer(t) == Asn!ToDer(t.input)

---------------------------------------------------------------------------

InitWithBer == Init \/ (BerTask /\ answer = Pending)

NextWithBer == Next \/ Answering({"ber", "bytes", "nested"}, BerAnswer)

SpecWithBer == InitWithBer /\ [][NextWithBer]_vars

---------------------------------------------------------------------------

\* However BER writes a value, to_der gives its one DER encoding; what it
\* gives for any bytes it leaves as it is; and it refuses just what is nested
\* too deep (ber.rs).
CanonicalFormIsUnique ==
    /\ Answered("ber") => answer = <<Asn!DerOf(task.value)>>
    /\ Answered("bytes") /\ answer # Asn!Malformed => Asn!ToDer(answer[1]) = answer
    /\ Answered("nested") =>
            answer = IF task.levels > MaxDepth THEN Asn!Malformed ELSE <<task.input>>
=============================================================================
