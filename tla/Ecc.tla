--------------------------------- MODULE Ecc ---------------------------------
(***************************************************************************)
(* ec.rs and gost3410.rs: complete addition, the fixed-width ladder, and   *)
(* signatures made and verified.  Numbers stand for BigUint and U256, and  *)
(* arithmetic modulo p or n for the Montgomery form; zeroizing leaves no   *)
(* trace in a value.  The textbook definitions they are compared with are  *)
(* at the end.                                                             *)
(*                                                                         *)
(* A curve is [p, a, b, n, g], an affine point <<x, y>>, a projective one  *)
(* <<x, y, z>>.                                                            *)
(***************************************************************************)
EXTENDS Integers, Sequences

CONSTANTS
    Bits,       \* SCALAR_BITS
    Infinity    \* the None of a point

\* 2^Bits
Width == LET W[i \in 0 .. Bits] == IF i = 0 THEN 1 ELSE W[i - 1] * 2 IN W[Bits]

\* The scalar without its lowest bits.
Shift(k, i) == LET S[j \in 0 .. i] == IF j = 0 THEN k ELSE S[j - 1] \div 2 IN S[i]

Bit(k, i) == Shift(k, i) % 2

Power(x, e, m) ==
    LET P[i \in 0 .. e] == IF i = 0 THEN 1 % m ELSE (P[i - 1] * x) % m IN P[e]

---------------------------------------------------------------------------
(* ec.rs *)

Identity == <<0, 1, 0>>

Project(c, pt) == <<pt[1] % c.p, pt[2] % c.p, 1>>

\* By Fermat's little theorem.
Invert(c, x) == Power(x, c.p - 2, c.p)

ToAffine(c, pt) ==
    IF pt[3] = 0 THEN Infinity
    ELSE LET zi == Invert(c, pt[3]) IN <<(pt[1] * zi) % c.p, (pt[2] * zi) % c.p>>

\* Renes, Costello and Batina's complete addition: no case is told apart.
AddProjective(c, p, q) ==
    LET t0 == p[1] * q[1]
        t1 == p[2] * q[2]
        t2 == p[3] * q[3]
        xy == (p[1] + p[2]) * (q[1] + q[2]) - (t0 + t1)     \* lines 4 to 8
        xz == (p[1] + p[3]) * (q[1] + q[3]) - (t0 + t2)     \* 9 to 13
        yz == (p[2] + p[3]) * (q[2] + q[3]) - (t1 + t2)     \* 14 to 18
        b3 == 3 * c.b
        w == b3 * t2 + c.a * xz                             \* 19 to 21
        u == 3 * t0 + c.a * t2                              \* 25 to 29
        v == b3 * xz + c.a * (t0 - c.a * t2)                \* 28 to 32
    IN  <<(xy * (t1 - w) - yz * v) % c.p,
          ((t1 - w) * (t1 + w) + u * v) % c.p,
          (yz * (t1 + w) + xy * u) % c.p>>

IsOnCurve(c, pt) ==
    /\ pt[1] < c.p /\ pt[2] < c.p
    /\ (pt[2] * pt[2]) % c.p = (pt[1] ^ 3 + c.a * pt[1] + c.b) % c.p

Add(c, p, q) ==
    CASE p = Infinity -> q
      [] q = Infinity -> p
      [] OTHER -> ToAffine(c, AddProjective(c, Project(c, p), Project(c, q)))

\* A wider scalar is reduced first.
Scalar(c, k) == IF k < Width THEN k ELSE k % c.n

\* <<r0, r1>> after so many bits, from the highest: both are swapped when the
\* bit is set, added into r1 and doubled into r0, and swapped back.
Ladder(c, k, pt) ==
    LET Rung[i \in 0 .. Bits] ==
            IF i = 0 THEN <<Identity, Project(c, pt)>>
            ELSE LET r == Rung[i - 1]
                     sum == AddProjective(c, r[1], r[2])
                 IN  IF Bit(k, Bits - i) = 1
                     THEN <<sum, AddProjective(c, r[2], r[2])>>
                     ELSE <<AddProjective(c, r[1], r[1]), sum>>
    IN  Rung[Bits]

Mul(c, k, pt) == ToAffine(c, Ladder(c, Scalar(c, k), pt)[1])

BaseMul(c, k) == Mul(c, k, c.g)

\* In fixed width for an odd order below 2^Bits, else in num_bigint.
MulAddModN(c, a, b, d, e) == (a * b + d * e) % c.n

---------------------------------------------------------------------------
(* gost3410.rs *)

\* The hash as the number its bytes are, least significant first.
HashToE(n, hash) == IF hash % n = 0 THEN 1 ELSE hash % n

\* What random_scalar keeps of its draws.
IsScalar(c, draw) == draw # 0 /\ draw < c.n

\* <<s, r>>, or <<>> for a nonce to be replaced.
SignWithK(c, d, e, k) ==
    LET pt == BaseMul(c, k)
        r == pt[1] % c.n
        s == MulAddModN(c, r, d, k, e)
    IN  IF pt = Infinity THEN <<>>
        ELSE IF r = 0 \/ s = 0 THEN <<>> ELSE <<s, r>>

\* Mutant: zero is in range.
InRange_Zero(c, sig) == sig[1] < c.n /\ sig[2] < c.n

InRange(c, sig) == sig[1] \in 1 .. c.n - 1 /\ sig[2] \in 1 .. c.n - 1

Verify(c, q, hash, sig) ==
    /\ InRange(c, sig)
    /\ IsOnCurve(c, q)
    /\ LET v == Power(HashToE(c.n, hash), c.n - 2, c.n)
           z1 == (sig[1] * v) % c.n
           z2 == (c.n - ((sig[2] * v) % c.n)) % c.n
           pt == Add(c, BaseMul(c, z1), Mul(c, z2, q))
       IN  pt # Infinity /\ pt[1] % c.n = sig[2]

---------------------------------------------------------------------------
(* The textbook: chords and tangents, and repeated addition. *)

InverseMod(x, m) == CHOOSE y \in 1 .. m - 1 : (x * y) % m = 1

ChordTangent(c, p, q) ==
    LET slope == IF p = q
                 THEN (3 * p[1] * p[1] + c.a) * InverseMod((2 * p[2]) % c.p, c.p)
                 ELSE (q[2] - p[2]) * InverseMod((q[1] - p[1]) % c.p, c.p)
        x == (slope * slope - p[1] - q[1]) % c.p
    IN  CASE p = Infinity -> q
          [] q = Infinity -> p
          [] p[1] = q[1] /\ (p[2] + q[2]) % c.p = 0 -> Infinity
          [] OTHER -> <<x, (slope * (p[1] - x) - p[2]) % c.p>>

Times(c, k, pt) ==
    LET T[i \in 0 .. k] == IF i = 0 THEN Infinity ELSE ChordTangent(c, T[i - 1], pt)
    IN  T[k]

\* A signature of the standard: some nonce makes it under q's private key.
IsSignature(c, q, hash, sig) ==
    \E d, k \in 1 .. c.n - 1 :
        /\ Times(c, d, c.g) = q
        /\ sig[2] = Times(c, k, c.g)[1] % c.n /\ sig[2] # 0
        /\ sig[1] = (sig[2] * d + k * HashToE(c.n, hash)) % c.n /\ sig[1] # 0

---------------------------------------------------------------------------
(* What makes a curve one to sign with. *)

Points(c) ==
    {Infinity} \cup {pt \in (0 .. c.p - 1) \X (0 .. c.p - 1) : IsOnCurve(c, pt)}

\* Chords and tangents make the points a group that g generates, of order n.
IsCyclic(c) ==
    /\ c.g \in Points(c) \ {Infinity}
    /\ \A x, y \in Points(c) : ChordTangent(c, x, y) \in Points(c)
    /\ \A x \in Points(c) : ChordTangent(c, x, Infinity) = x /\ ChordTangent(c, Infinity, x) = x
    /\ \A x, y, z \in Points(c) :
            ChordTangent(c, ChordTangent(c, x, y), z) = ChordTangent(c, x, ChordTangent(c, y, z))
    /\ Times(c, c.n, c.g) = Infinity
    /\ \A x \in Points(c) \ {Infinity} : \E d \in 1 .. c.n - 1 : x = Times(c, d, c.g)

\* The triples that stand for a point.
Triples(c) ==
    LET Field == 0 .. c.p - 1
    IN  {t \in Field \X Field \X (Field \ {0}) : ToAffine(c, t) \in Points(c)}
        \cup {<<0, y, 0>> : y \in Field \ {0}}

\* Addition is that of chords and tangents whatever the two points are.
IsComplete(c) ==
    \A t, u \in Triples(c) :
        /\ AddProjective(c, t, u) \in Triples(c)
        /\ ToAffine(c, AddProjective(c, t, u)) = ChordTangent(c, ToAffine(c, t), ToAffine(c, u))

\* n is a prime, as Fermat's theorem has it.
HasInverses(c) == \A x \in 1 .. c.n - 1 : (x * Power(x, c.n - 2, c.n)) % c.n = 1

IsSigningCurve(c) ==
    /\ c.p > 2 /\ c.n > 2 /\ c.n <= Width
    /\ IsCyclic(c) /\ IsComplete(c) /\ HasInverses(c)
=============================================================================
