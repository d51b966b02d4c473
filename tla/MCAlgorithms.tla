---------------------------- MODULE MCAlgorithms ----------------------------
(* Three-bit scalars, four levels of nesting.                              *)
EXTENDS Canonical

\* y^2 = x^3 + ax + b over GF(p), of order n, with the base point g.
Curve(p, a, b, n, g) == [p |-> p, a |-> a, b |-> b, n |-> n, g |-> g]

SmallCurves ==
    [A |-> Curve(5, 2, 1, 7, <<0, 1>>),
     B |-> Curve(7, 2, 1, 5, <<0, 1>>),
     C |-> Curve(5, 3, 2, 5, <<1, 1>>)]

\* A tag and a length before the octets; short numbers are short.
Encoding(private) ==
    IF private.form = "sec1" THEN <<2, 1>> \o private.octets
    ELSE <<2, 1>> \o IF private.value < 4 THEN <<private.value>> ELSE <<private.value \div 4, private.value % 4>>

\* Of two certificates of one name, that of the first key comes first.
Certificate(sid, key, sound) == [sid |-> sid, key |-> key, sound |-> sound]
SmallDer(cert) ==
    CASE cert = Certificate("s1", "k2", TRUE) -> 1
      [] cert = Certificate("s2", None, TRUE) -> 2
      [] cert = Certificate("s2", "k2", FALSE) -> 3
      [] OTHER -> 0
=============================================================================
