------------------------------ MODULE Encodings ------------------------------
(***************************************************************************)
(* keys.rs: public keys as SPKI, private keys as PKCS#8 in the styles of   *)
(* several programs; the octets of a signature (gost3410.rs); and the tag, *)
(* length and value of a random seed (randseed.rs).                        *)
(*                                                                         *)
(* An octet is a number below Radix.  DER is left out: a structure is a    *)
(* record, its octets those of Encoded.  An object identifier of a curve   *)
(* is <<family, name>>, the one of an algorithm its family.                *)
(***************************************************************************)
EXTENDS Ecc, SequencesExt

CONSTANTS
    Params,         \* per curve, A, B and C: its parameters
    Radix,          \* 256
    ScalarOctets,   \* 32
    Encoded(_),     \* the octets of a structure or a number
    Failed

Families == {"ozdst", "ozmst"}

NumberBE(octets) ==
    LET N[i \in 0 .. Len(octets)] == IF i = 0 THEN 0 ELSE N[i - 1] * Radix + octets[i]
    IN  N[Len(octets)]
NumberLE(octets) == NumberBE(Reverse(octets))

\* be32: as long as a scalar, whatever the number.
ScalarBE(v) ==
    LET Left[i \in 0 .. ScalarOctets] == IF i = 0 THEN v ELSE Left[i - 1] \div Radix
    IN  [i \in 1 .. ScalarOctets |-> Left[ScalarOctets - i] % Radix]

---------------------------------------------------------------------------
(* Curves *)

\* The names a family knows each curve by; the first is the one it writes.
NamesOf(family) ==
    IF family = "ozdst"
    THEN [A |-> <<"A", "XCHA">>, B |-> <<"B">>, C |-> <<"C", "XCHB">>]
    ELSE [A |-> <<"A", "D">>, B |-> <<"B", "E">>, C |-> <<"C", "XCHB">>]

ParamOid(family, curve) == <<family, NamesOf(family)[curve][1]>>

CurveFromParamOid(family, oid) ==
    LET found == {c \in DOMAIN Params : \E i \in DOMAIN NamesOf(family)[c] : oid = <<family, NamesOf(family)[c][i]>>}
    IN  IF found = {} THEN Failed ELSE CHOOSE c \in found : TRUE

\* The curve of a name of either family.
CurveOfAnyFamily(oid) ==
    LET ozdst == CurveFromParamOid("ozdst", oid)
    IN  IF ozdst # Failed THEN ozdst ELSE CurveFromParamOid("ozmst", oid)

---------------------------------------------------------------------------
(* PublicKey *)

PublicKey(family, curve, point) == [family |-> family, curve |-> curve, point |-> point]

\* Each coordinate least significant octet first.
XyLE(point) == Reverse(ScalarBE(point[1])) \o Reverse(ScalarBE(point[2]))

FromXyLE(family, curve, octets) ==
    LET point == <<NumberLE(SubSeq(octets, 1, ScalarOctets)),
                   NumberLE(SubSeq(octets, ScalarOctets + 1, 2 * ScalarOctets))>>
    IN  IF Len(octets) = 2 * ScalarOctets /\ IsOnCurve(Params[curve], point)
        THEN PublicKey(family, curve, point)
        ELSE Failed

ToSpki(key) ==
    [algorithm |-> key.family, curve |-> ParamOid(key.family, key.curve), octets |-> XyLE(key.point)]

FromSpki(spki) ==
    LET curve == CurveFromParamOid(spki.algorithm, spki.curve)
    IN  IF spki.algorithm \notin Families \/ curve = Failed THEN Failed
        ELSE FromXyLE(spki.algorithm, curve, spki.octets)

---------------------------------------------------------------------------
(* PrivateKey: a PKCS#8 record is [algorithm, style, curve, private], where *)
(* the style is that of the algorithm's parameters: a sequence, a curve's   *)
(* name, or none; and private is what the octets of the private key are     *)
(* read as: a SEC1 structure, a number, or neither.                         *)

FromScalar(family, curve, d) ==
    IF d = 0 \/ d >= Params[curve].n THEN Failed
    ELSE [family |-> family, curve |-> curve, d |-> d, public |-> BaseMul(Params[curve], d)]

Sec1(octets, curve, public) ==
    [form |-> "sec1", octets |-> octets, curve |-> curve, public |-> public]

ToPkcs8(key) ==
    LET oid == ParamOid(key.family, key.curve)
    IN  [algorithm |-> key.family,
         style |-> "named",
         curve |-> oid,
         private |-> Sec1(ScalarBE(key.d), oid, XyLE(key.public))]

\* Mutant: the other style's order of octets.
GostScalar_BE(octets) == NumberBE(octets)

GostScalar(octets) == NumberLE(octets)

OctetsOfPrivate(private) == IF private.form = "octets" THEN private.octets ELSE Encoded(private)

\* One style takes any octets for a scalar, also a structure's.  The family
\* is the algorithm's, also where the curve's name is of the other one; the
\* public key that comes along is not read.
FromPkcs8(info) ==
    LET family == info.algorithm
        private == info.private
        ByName(oid) ==
            IF CurveOfAnyFamily(oid) = Failed THEN Failed
            ELSE FromScalar(family, CurveOfAnyFamily(oid), NumberBE(private.octets))
    IN  IF family \notin Families THEN Failed
        ELSE CASE info.style = "sequence" ->
                    IF CurveFromParamOid(family, info.curve) = Failed THEN Failed
                    ELSE FromScalar(family, CurveFromParamOid(family, info.curve),
                                    GostScalar(OctetsOfPrivate(private)))
               [] info.style = "named" ->
                    IF private.form = "sec1" THEN ByName(info.curve) ELSE Failed
               [] info.style = "none" ->
                    CASE private.form = "sec1" -> ByName(private.curve)
                      [] private.form = "integer" -> FromScalar(family, "A", private.value)
                      [] OTHER -> Failed

---------------------------------------------------------------------------
(* Signatures and seeds *)

EncodeSignature(sig) == ScalarBE(sig[1]) \o ScalarBE(sig[2])

\* What comes after the two numbers is not read.
DecodeSignature(octets) ==
    IF Len(octets) < 2 * ScalarOctets THEN Failed
    ELSE <<NumberBE(SubSeq(octets, 1, ScalarOctets)),
           NumberBE(SubSeq(octets, ScalarOctets + 1, 2 * ScalarOctets))>>

\* Digits, least significant first, each but the last marked as continued.
EncodeLength(len) ==
    LET half == Radix \div 2
        Digits[n \in 0 .. len] ==
            IF n < half THEN <<n>> ELSE <<half + (n % half)>> \o Digits[n \div half]
    IN  Digits[len]

EncodeTlv(tag, value) == <<tag>> \o EncodeLength(Len(value)) \o value

\* The seed: the encrypted description, its hash and the encrypted key.
EncodeSeed(encdata, hash, enckey) ==
    EncodeTlv(240, EncodeTlv(16, encdata) \o EncodeTlv(17, hash) \o EncodeTlv(18, enckey))
=============================================================================
