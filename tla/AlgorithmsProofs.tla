-------------------------- MODULE AlgorithmsProofs --------------------------
(***************************************************************************)
(* Theorems about the pure parts of the program, for every input:          *)
(* signatures over every curve one can sign with, the encodings of keys    *)
(* and signatures in octets of every size, key discovery on every file     *)
(* system, key stores under every password and what conversions keep of    *)
(* them, CMS signatures over every content, temporary chains over every    *)
(* key, requests; and, by them, that every answer to a task of Algorithms  *)
(* is exact, for every value of its constants.                             *)
(***************************************************************************)
EXTENDS Algorithms, SequenceTheorems, FiniteSetTheorems, WellFoundedInduction, TLAPS

-----------------------------------------------------------------------------
(* What is computed step by step. *)

\* A set with zero and each successor of its members is all of the naturals.
LEMMA Induction ==
    ASSUME NEW S \in SUBSET Nat, 0 \in S, \A n \in S : n + 1 \in S
    PROVE  S = Nat
<1> DEFINE T == Nat \ S
<1> SUFFICES ASSUME T # {} PROVE FALSE
  OBVIOUS
<1>1. PICK m \in T : \A n \in T : ~ (<<n, m>> \in OpToRel(<, Nat))
  BY Zenon, NatLessThanWellFounded, WFMin
<1>2. \A n \in T : ~ (n < m)
  BY <1>1 DEF OpToRel
<1>3. m - 1 \in S
  BY <1>2
<1> QED
  BY <1>3

LEMMA InductionUpTo ==
    ASSUME NEW N \in Nat, NEW S, 0 \in S, \A i \in 1 .. N : i - 1 \in S => i \in S
    PROVE  0 .. N \subseteq S
<1> DEFINE T == {k \in Nat : k <= N => k \in S}
<1>1. 0 \in T
  OBVIOUS
<1>2. ASSUME NEW k \in T PROVE k + 1 \in T
  <2>1. CASE k + 1 <= N
    <3>1. k \in S /\ k + 1 \in 1 .. N /\ (k + 1) - 1 = k
      BY <2>1
    <3> QED
      BY <3>1
  <2>2. CASE ~ (k + 1 <= N)
    BY <2>2
  <2> QED
    BY <2>1, <2>2
<1>3. T \in SUBSET Nat
  OBVIOUS
<1> HIDE DEF T
<1>4. T = Nat
  BY <1>1, <1>2, <1>3, Induction
<1> QED
  BY <1>4 DEF T

\* Values computed one from the other.
IsRecursion(f, base, Step, N) ==
    f[0] = base /\ \A n \in 1 .. N : f[n] = Step[<<n, f[n - 1]>>]

LEMMA RecursionUpTo ==
    ASSUME NEW X, NEW base \in X, NEW Step \in [Nat \X X -> X], NEW N \in Nat
    PROVE  \E f \in [0 .. N -> X] : IsRecursion(f, base, Step, N)
<1> DEFINE S == {k \in Nat : \E f \in [0 .. k -> X] : IsRecursion(f, base, Step, k)}
<1>1. 0 \in S
  <2>1. [i \in 0 .. 0 |-> base] \in [0 .. 0 -> X]
    OBVIOUS
  <2>2. IsRecursion([i \in 0 .. 0 |-> base], base, Step, 0)
    BY DEF IsRecursion
  <2> QED
    BY <2>1, <2>2
<1>2. ASSUME NEW k \in S PROVE k + 1 \in S
  <2>1. PICK f \in [0 .. k -> X] : IsRecursion(f, base, Step, k)
    OBVIOUS
  <2> DEFINE g == [i \in 0 .. k + 1 |-> IF i = k + 1 THEN Step[<<k + 1, f[k]>>] ELSE f[i]]
  <2>2. k \in Nat /\ f[k] \in X
    OBVIOUS
  <2>3. g \in [0 .. k + 1 -> X]
    BY <2>2
  <2>4. g[0] = base
    BY <2>1, <2>2 DEF IsRecursion
  <2>5. ASSUME NEW n \in 1 .. k + 1 PROVE g[n] = Step[<<n, g[n - 1]>>]
    <3>1. CASE n = k + 1
      <4>1. n - 1 = k /\ k \in 0 .. k + 1 /\ k # k + 1 /\ n \in 0 .. k + 1
        BY <2>2, <3>1
      <4>2. g[n] = Step[<<n, f[k]>>] /\ g[k] = f[k]
        BY <3>1, <4>1
      <4> QED
        BY <4>1, <4>2
    <3>2. CASE n # k + 1
      <4>1. n \in 1 .. k /\ n - 1 \in 0 .. k + 1 /\ n - 1 # k + 1 /\ n \in 0 .. k + 1
        BY <2>2, <3>2
      <4>2. g[n] = f[n] /\ g[n - 1] = f[n - 1]
        BY <4>1
      <4>3. f[n] = Step[<<n, f[n - 1]>>]
        BY <2>1, <4>1 DEF IsRecursion
      <4> QED
        BY <4>2, <4>3
    <3> QED
      BY <3>1, <3>2
  <2> HIDE DEF g
  <2>6. IsRecursion(g, base, Step, k + 1)
    BY <2>4, <2>5 DEF IsRecursion
  <2>7. k + 1 \in Nat
    BY <2>2
  <2> QED
    BY <2>3, <2>6, <2>7
<1> QED
  <2>1. S \in SUBSET Nat
    OBVIOUS
  <2> HIDE DEF S
  <2>2. S = Nat
    BY <1>1, <1>2, <2>1, Induction
  <2> QED
    BY <2>2 DEF S

-----------------------------------------------------------------------------
Octet == 0 .. Radix - 1
Widths == Radix \in Nat /\ Radix > 1 /\ ScalarOctets \in Nat

\* The numbers of the octets, from the front.
IsNumber(N, octets) ==
    /\ N \in [0 .. Len(octets) -> Nat]
    /\ N[0] = 0
    /\ \A i \in 1 .. Len(octets) : N[i] = N[i - 1] * Radix + octets[i]
    /\ Ec!NumberBE(octets) = N[Len(octets)]

LEMMA NumberSteps ==
    ASSUME Widths, NEW octets \in Seq(Octet)
    PROVE  \E N : IsNumber(N, octets)
<1> DEFINE n == Len(octets)
           Step == [x \in Nat \X Nat |-> IF x[1] \in 1 .. n THEN x[2] * Radix + octets[x[1]] ELSE 0]
<1>0. n \in Nat /\ \A i \in 1 .. n : octets[i] \in Octet
  OBVIOUS
<1>1. Step \in [Nat \X Nat -> Nat]
  <2> SUFFICES ASSUME NEW x \in Nat \X Nat, x[1] \in 1 .. n
               PROVE  x[2] * Radix + octets[x[1]] \in Nat
    OBVIOUS
  <2>1. octets[x[1]] \in Nat /\ x[2] \in Nat /\ Radix \in Nat
    BY <1>0 DEF Octet, Widths
  <2> QED
    BY <2>1
<1>2. PICK N \in [0 .. n -> Nat] : IsRecursion(N, 0, Step, n)
  <2> HIDE DEF Step
  <2> QED BY <1>0, <1>1, RecursionUpTo
<1>3. \A i \in 1 .. n : N[i] = N[i - 1] * Radix + octets[i]
  <2> SUFFICES ASSUME NEW i \in 1 .. n PROVE N[i] = N[i - 1] * Radix + octets[i]
    OBVIOUS
  <2>1. i \in Nat /\ N[i - 1] \in Nat /\ <<i, N[i - 1]>> \in Nat \X Nat
    BY <1>0
  <2>2. N[i] = Step[<<i, N[i - 1]>>]
    BY <1>2 DEF IsRecursion
  <2> QED
    BY <2>1, <2>2
<1>4. N[0] = 0
  BY <1>2 DEF IsRecursion
<1>5. N = [i \in 0 .. n |-> IF i = 0 THEN 0 ELSE N[i - 1] * Radix + octets[i]]
  <2>1. ASSUME NEW i \in 0 .. n PROVE N[i] = IF i = 0 THEN 0 ELSE N[i - 1] * Radix + octets[i]
    BY <1>0, <1>3, <1>4
  <2> QED
    BY <2>1
<1> DEFINE M == CHOOSE M : M = [i \in 0 .. n |-> IF i = 0 THEN 0 ELSE M[i - 1] * Radix + octets[i]]
<1>6. M = [i \in 0 .. n |-> IF i = 0 THEN 0 ELSE M[i - 1] * Radix + octets[i]]
  BY <1>5
<1> HIDE DEF M
<1>7. M[0] = 0 /\ \A i \in 1 .. n : M[i] = M[i - 1] * Radix + octets[i]
  BY <1>0, <1>6
<1>8. 0 .. n \subseteq {i \in 0 .. n : M[i] \in Nat}
  <2> DEFINE S == {i \in 0 .. n : M[i] \in Nat}
  <2>1. ASSUME NEW i \in 1 .. n, i - 1 \in S PROVE i \in S
    <3>1. octets[i] \in Nat /\ M[i - 1] \in Nat /\ Radix \in Nat /\ i \in 0 .. n
      BY <1>0, <2>1 DEF Octet, Widths
    <3> QED
      BY <1>7, <3>1
  <2>2. 0 \in S
    BY <1>0, <1>7
  <2> HIDE DEF S
  <2>3. 0 .. n \subseteq S
    BY <1>0, <2>1, <2>2, InductionUpTo
  <2> QED
    BY <2>3 DEF S
<1>9. M \in [0 .. n -> Nat]
  BY <1>6, <1>8
<1>10. Ec!NumberBE(octets) = M[n]
  BY DEF Ec!NumberBE, M
<1> QED
  BY <1>7, <1>9, <1>10 DEF IsNumber

\* What is left of the number after so many octets, from the back.
IsLeft(L, v) ==
    /\ L \in [0 .. ScalarOctets -> Nat]
    /\ L[0] = v
    /\ \A i \in 1 .. ScalarOctets : L[i] = L[i - 1] \div Radix
    /\ Ec!ScalarBE(v) = [i \in 1 .. ScalarOctets |-> L[ScalarOctets - i] % Radix]

LEMMA DivNat ==
    ASSUME NEW r \in Nat, r > 1, NEW a \in Nat
    PROVE  /\ a \div r \in Nat /\ (a % r) \in 0 .. r - 1
           /\ a = (a \div r) * r + (a % r)
           /\ \A m \in Nat : a < m * r => (a \div r) < m
OBVIOUS

LEMMA ScalarSteps ==
    ASSUME Widths, NEW v \in Nat
    PROVE  \E L : IsLeft(L, v)
<1> DEFINE n == ScalarOctets
           Step == [x \in Nat \X Nat |-> x[2] \div Radix]
<1>0. n \in Nat /\ Radix \in Nat /\ Radix > 1
  BY DEF Widths
<1>1. Step \in [Nat \X Nat -> Nat]
  BY <1>0, DivNat
<1>2. PICK N \in [0 .. n -> Nat] : IsRecursion(N, v, Step, n)
  <2> HIDE DEF Step
  <2> QED BY <1>0, <1>1, RecursionUpTo
<1>3. ASSUME NEW i \in 0 .. n PROVE N[i] = IF i = 0 THEN v ELSE N[i - 1] \div Radix
  <2>1. CASE i = 0
    BY <1>2, <2>1 DEF IsRecursion
  <2>2. CASE i # 0
    <3>1. i \in 1 .. n /\ N[i - 1] \in Nat /\ <<i, N[i - 1]>> \in Nat \X Nat
      BY <1>0, <2>2
    <3>2. N[i] = Step[<<i, N[i - 1]>>]
      BY <1>2, <3>1 DEF IsRecursion
    <3> QED
      BY <2>2, <3>1, <3>2
  <2> QED
    BY <2>1, <2>2
<1>4. N = [i \in 0 .. n |-> IF i = 0 THEN v ELSE N[i - 1] \div Radix]
  BY <1>3
<1> DEFINE L == CHOOSE L : L = [i \in 0 .. n |-> IF i = 0 THEN v ELSE L[i - 1] \div Radix]
<1>5. L = [i \in 0 .. n |-> IF i = 0 THEN v ELSE L[i - 1] \div Radix]
  BY <1>4
<1> HIDE DEF L
<1>6. L[0] = v /\ \A i \in 1 .. n : L[i] = L[i - 1] \div Radix
  BY <1>0, <1>5
<1>7. 0 .. n \subseteq {i \in 0 .. n : L[i] \in Nat}
  <2> DEFINE S == {i \in 0 .. n : L[i] \in Nat}
  <2>1. ASSUME NEW i \in 1 .. n, i - 1 \in S PROVE i \in S
    <3>1. L[i - 1] \in Nat /\ i \in 0 .. n
      BY <1>0, <2>1
    <3>2. L[i - 1] \div Radix \in Nat
      BY <1>0, <3>1, DivNat
    <3> QED
      BY <1>6, <3>1, <3>2
  <2>2. 0 \in S
    BY <1>0, <1>6
  <2> HIDE DEF S
  <2>3. 0 .. n \subseteq S
    BY <1>0, <2>1, <2>2, InductionUpTo
  <2> QED
    BY <2>3 DEF S
<1>8. L \in [0 .. n -> Nat]
  BY <1>5, <1>7
<1>9. Ec!ScalarBE(v) = [i \in 1 .. n |-> L[n - i] % Radix]
  BY DEF Ec!ScalarBE, L
<1> QED
  BY <1>6, <1>8, <1>9 DEF IsLeft

LEMMA WeightSteps ==
    ASSUME Widths
    PROVE  /\ Weight \in [0 .. ScalarOctets -> Nat]
           /\ Weight[0] = 1
           /\ \A i \in 1 .. ScalarOctets : Weight[i] = Weight[i - 1] * Radix
<1> DEFINE n == ScalarOctets
           Step == [x \in Nat \X Nat |-> x[2] * Radix]
<1>0. n \in Nat /\ Radix \in Nat /\ Radix > 1
  BY DEF Widths
<1>1. Step \in [Nat \X Nat -> Nat]
  BY <1>0
<1>2. PICK N \in [0 .. n -> Nat] : IsRecursion(N, 1, Step, n)
  <2> HIDE DEF Step
  <2> QED BY <1>0, <1>1, RecursionUpTo
<1>3. ASSUME NEW i \in 0 .. n PROVE N[i] = IF i = 0 THEN 1 ELSE N[i - 1] * Radix
  <2>1. CASE i = 0
    BY <1>2, <2>1 DEF IsRecursion
  <2>2. CASE i # 0
    <3>1. i \in 1 .. n /\ N[i - 1] \in Nat /\ <<i, N[i - 1]>> \in Nat \X Nat
      BY <1>0, <2>2
    <3>2. N[i] = Step[<<i, N[i - 1]>>]
      BY <1>2, <3>1 DEF IsRecursion
    <3> QED
      BY <2>2, <3>1, <3>2
  <2> QED
    BY <2>1, <2>2
<1>4. N = [i \in 0 .. n |-> IF i = 0 THEN 1 ELSE N[i - 1] * Radix]
  BY <1>3
<1>5. Weight = [i \in 0 .. n |-> IF i = 0 THEN 1 ELSE Weight[i - 1] * Radix]
  BY <1>4 DEF Weight
<1>6. Weight[0] = 1 /\ \A i \in 1 .. n : Weight[i] = Weight[i - 1] * Radix
  BY <1>0, <1>5
<1>7. 0 .. n \subseteq {i \in 0 .. n : Weight[i] \in Nat}
  <2> DEFINE S == {i \in 0 .. n : Weight[i] \in Nat}
  <2>1. ASSUME NEW i \in 1 .. n, i - 1 \in S PROVE i \in S
    <3>1. Weight[i - 1] \in Nat /\ i \in 0 .. n
      BY <1>0, <2>1
    <3> QED
      BY <1>0, <1>6, <3>1
  <2>2. 0 \in S
    BY <1>0, <1>6
  <2> HIDE DEF S
  <2>3. 0 .. n \subseteq S
    BY <1>0, <2>1, <2>2, InductionUpTo
  <2> QED
    BY <2>3 DEF S
<1> QED
  BY <1>5, <1>6, <1>7

\* A number that its octets hold.
Fits(v) == v \in Nat /\ v < Weight[ScalarOctets]

\* So many octets, and nothing else.
Scalars == {o \in Seq(Octet) : Len(o) = ScalarOctets}

LEMMA NothingIsLeft ==
    ASSUME Widths, NEW v, Fits(v), NEW L, IsLeft(L, v)
    PROVE  L[ScalarOctets] = 0
<1> DEFINE n == ScalarOctets
           S == {i \in 0 .. n : L[i] < Weight[n - i]}
<1>0. n \in Nat /\ Radix \in Nat /\ Radix > 1
  BY DEF Widths
<1>1. 0 \in S
  BY <1>0 DEF Fits, IsLeft
<1>2. ASSUME NEW i \in 1 .. n, i - 1 \in S PROVE i \in S
  <2> DEFINE a == L[i - 1]
             m == Weight[n - i]
  <2>1. n - i \in 0 .. n /\ n - (i - 1) \in 1 .. n /\ (n - (i - 1)) - 1 = n - i /\ i \in 0 .. n /\ i - 1 \in 0 .. n
    BY <1>0
  <2>2. a \in Nat /\ m \in Nat
    BY <2>1, WeightSteps DEF IsLeft
  <2>3. Weight[n - (i - 1)] = m * Radix
    BY <2>1, WeightSteps
  <2>4. a < m * Radix
    BY <1>2, <2>3
  <2>5. L[i] = a \div Radix
    BY DEF IsLeft
  <2> HIDE DEF a, m
  <2>6. (a \div Radix) < m
    BY <1>0, <2>2, <2>4, DivNat
  <2> QED
    BY <2>1, <2>5, <2>6 DEF m
<1>3. 0 .. n \subseteq S
  <2> HIDE DEF S
  <2> QED BY <1>0, <1>1, <1>2, InductionUpTo
<1>4. L[n] < Weight[0] /\ L[n] \in Nat
  BY <1>0, <1>3 DEF IsLeft
<1> QED
  BY <1>4, WeightSteps

LEMMA ScalarIsOctets ==
    ASSUME Widths, NEW v \in Nat
    PROVE  Ec!ScalarBE(v) \in Scalars
<1>1. PICK L : IsLeft(L, v)
  BY ScalarSteps
<1>2. ASSUME NEW i \in 1 .. ScalarOctets PROVE (L[ScalarOctets - i] % Radix) \in Octet
  <2>1. L[ScalarOctets - i] \in Nat
    BY <1>1 DEF IsLeft, Widths
  <2> QED
    BY <2>1, DivNat DEF Octet, Widths
<1> QED
  BY <1>1, <1>2 DEF IsLeft, Scalars, Widths

\* A number that fits is read again from its octets (keys.rs be32 and
\* from_bytes_be; gost3410.rs write_be32).
LEMMA NumberIsReadAgain ==
    ASSUME Widths, NEW v, Fits(v)
    PROVE  Ec!NumberBE(Ec!ScalarBE(v)) = v
<1> DEFINE n == ScalarOctets
           o == Ec!ScalarBE(v)
<1>0. n \in Nat /\ Radix \in Nat /\ Radix > 1 /\ v \in Nat
  BY DEF Widths, Fits
<1>1. PICK L : IsLeft(L, v)
  BY <1>0, ScalarSteps
<1>2. o \in Seq(Octet) /\ Len(o) = n
  BY <1>0, ScalarIsOctets DEF Scalars
<1>3. PICK N : IsNumber(N, o)
  BY <1>2, NumberSteps
<1>4. \A i \in 1 .. n : o[i] = L[n - i] % Radix
  BY <1>1 DEF IsLeft
<1> HIDE DEF o
<1> DEFINE S == {i \in 0 .. n : N[i] = L[n - i]}
<1>5. 0 \in S
  BY <1>0, <1>1, <1>3, NothingIsLeft DEF IsNumber
<1>6. ASSUME NEW i \in 1 .. n, i - 1 \in S PROVE i \in S
  <2> DEFINE a == L[n - i]
  <2>1. n - i \in 0 .. n /\ n - (i - 1) \in 1 .. n /\ (n - (i - 1)) - 1 = n - i /\ i \in 0 .. n
    BY <1>0
  <2>2. a \in Nat
    BY <1>1, <2>1 DEF IsLeft
  <2>3. N[i - 1] = a \div Radix
    BY <1>1, <1>6, <2>1 DEF IsLeft
  <2>4. N[i] = N[i - 1] * Radix + o[i]
    BY <1>2, <1>3 DEF IsNumber
  <2>5. N[i] = (a \div Radix) * Radix + (a % Radix)
    BY <1>4, <2>3, <2>4
  <2> HIDE DEF a
  <2>6. a = (a \div Radix) * Radix + (a % Radix)
    BY <1>0, <2>2, DivNat
  <2> QED
    BY <2>1, <2>5, <2>6 DEF a
<1>7. 0 .. n \subseteq S
  <2> HIDE DEF S
  <2> QED BY <1>0, <1>5, <1>6, InductionUpTo
<1>8. N[n] = L[0]
  BY <1>0, <1>7
<1> QED
  BY <1>1, <1>2, <1>3, <1>8 DEF IsNumber, IsLeft, o

LEMMA ShiftBack ==
    ASSUME NEW r \in Nat, r > 1, NEW a \in Nat, NEW d \in 0 .. r - 1
    PROVE  /\ (a * r + d) \div r = a /\ ((a * r + d) % r) = d
           /\ \A m \in Nat : a < m => a * r + d < m * r
OBVIOUS

\* So many octets are the number of theirs, and no others are.
LEMMA OctetsAreReadAgain ==
    ASSUME Widths, NEW o \in Scalars
    PROVE  /\ Fits(Ec!NumberBE(o))
           /\ Ec!ScalarBE(Ec!NumberBE(o)) = o
<1> DEFINE n == ScalarOctets
           v == Ec!NumberBE(o)
<1>0. n \in Nat /\ Radix \in Nat /\ Radix > 1
  BY DEF Widths
<1>1. o \in Seq(Octet) /\ Len(o) = n /\ \A i \in 1 .. n : o[i] \in 0 .. Radix - 1
  <2>1. o \in Seq(Octet) /\ Len(o) = n
    BY DEF Scalars
  <2>2. \A i \in 1 .. Len(o) : o[i] \in Octet
    BY <2>1
  <2> QED
    BY <2>1, <2>2 DEF Octet
<1>2. PICK N : IsNumber(N, o)
  BY <1>1, NumberSteps
<1>3. /\ N[0] = 0 /\ v = N[n] /\ v \in Nat
      /\ \A i \in 0 .. n : N[i] \in Nat
      /\ \A i \in 1 .. n : N[i] = N[i - 1] * Radix + o[i]
  BY <1>0, <1>1, <1>2 DEF IsNumber
<1> HIDE DEF v
<1>4. PICK L : IsLeft(L, v)
  BY <1>3, ScalarSteps
<1> DEFINE S == {i \in 0 .. n : L[i] = N[n - i]}
           T == {i \in 0 .. n : N[i] < Weight[i]}
<1>5. 0 .. n \subseteq S
  <2>1. 0 \in S
    BY <1>0, <1>3, <1>4 DEF IsLeft
  <2>2. ASSUME NEW i \in 1 .. n, i - 1 \in S PROVE i \in S
    <3>1. n - i \in 0 .. n /\ n - (i - 1) \in 1 .. n /\ (n - (i - 1)) - 1 = n - i /\ i \in 0 .. n
      BY <1>0
    <3>2. L[i] = N[n - (i - 1)] \div Radix
      BY <1>4, <2>2 DEF IsLeft
    <3>3. N[n - (i - 1)] = N[n - i] * Radix + o[n - (i - 1)]
      BY <1>3, <3>1
    <3> DEFINE a == N[n - i]
               d == o[n - (i - 1)]
    <3>4. a \in Nat /\ d \in 0 .. Radix - 1
      BY <1>1, <1>3, <3>1
    <3>5. L[i] = (a * Radix + d) \div Radix
      BY <3>2, <3>3
    <3> HIDE DEF a, d
    <3>6. L[i] = a
      BY <1>0, <3>4, <3>5, ShiftBack
    <3> QED
      BY <3>1, <3>6 DEF a
  <2> HIDE DEF S
  <2> QED
    BY <1>0, <2>1, <2>2, InductionUpTo
<1>6. 0 .. n \subseteq T
  <2>1. 0 \in T
    BY <1>0, <1>3, WeightSteps
  <2>2. ASSUME NEW i \in 1 .. n, i - 1 \in T PROVE i \in T
    <3>1. i - 1 \in 0 .. n /\ i \in 0 .. n
      BY <1>0
    <3> DEFINE a == N[i - 1]
               d == o[i]
               m == Weight[i - 1]
    <3>2. a \in Nat /\ d \in 0 .. Radix - 1 /\ m \in Nat /\ a < m
      BY <1>1, <1>3, <2>2, <3>1, WeightSteps
    <3>3. N[i] = a * Radix + d /\ Weight[i] = m * Radix
      BY <1>3, WeightSteps
    <3> HIDE DEF a, d, m
    <3>4. N[i] < Weight[i]
      BY <1>0, <3>2, <3>3, ShiftBack
    <3> QED
      BY <3>1, <3>4
  <2> HIDE DEF T
  <2> QED
    BY <1>0, <2>1, <2>2, InductionUpTo
<1>7. Fits(v)
  BY <1>0, <1>3, <1>6 DEF Fits
<1>8. ASSUME NEW i \in 1 .. n PROVE L[n - i] % Radix = o[i]
  <2>1. i - 1 \in 0 .. n /\ i \in 0 .. n /\ n - i \in 0 .. n /\ n - (n - i) = i
    BY <1>0
  <2>2. L[n - i] = N[i - 1] * Radix + o[i]
    BY <1>3, <1>5, <2>1
  <2> DEFINE a == N[i - 1]
             d == o[i]
  <2>3. a \in Nat /\ d \in 0 .. Radix - 1 /\ L[n - i] = a * Radix + d
    BY <1>1, <1>3, <2>1, <2>2
  <2> HIDE DEF a, d
  <2>4. ((a * Radix + d) % Radix) = d
    BY <1>0, <2>3, ShiftBack
  <2> QED
    BY <2>3, <2>4 DEF d
<1>9. Ec!ScalarBE(v) = [i \in 1 .. n |-> L[n - i] % Radix]
  BY <1>4 DEF IsLeft
<1>10. Ec!ScalarBE(v) = o
  BY <1>1, <1>8, <1>9
<1> QED
  BY <1>7, <1>10 DEF v

-----------------------------------------------------------------------------
\* A signature keeps its two numbers in its octets, whatever comes after them;
\* octets that are too few are refused (gost3410.rs encode_signature and
\* decode_signature).
THEOREM SignatureIsReadAgain ==
    ASSUME Widths, NEW sig \in Nat \X Nat, Fits(sig[1]), Fits(sig[2]),
           NEW extra \in Seq(Octet)
    PROVE  /\ Ec!DecodeSignature(Ec!EncodeSignature(sig) \o extra) = sig
           /\ \A octets \in Seq(Octet) :
                 Len(octets) < 2 * ScalarOctets => Ec!DecodeSignature(octets) = Failed
<1> DEFINE a == Ec!ScalarBE(sig[1])
           b == Ec!ScalarBE(sig[2])
           n == ScalarOctets
           octets == (a \o b) \o extra
<1>0. n \in Nat
  BY DEF Widths
<1>1. a \in Seq(Octet) /\ Len(a) = n /\ b \in Seq(Octet) /\ Len(b) = n
  BY ScalarIsOctets DEF Scalars, Fits
<1>2. Ec!NumberBE(a) = sig[1] /\ Ec!NumberBE(b) = sig[2]
  BY NumberIsReadAgain
<1>3. Ec!EncodeSignature(sig) \o extra = octets
  BY DEF Ec!EncodeSignature
<1> HIDE DEF a, b
<1>4. SubSeq(octets, 1, n) = a
  BY <1>0, <1>1
<1>5. SubSeq(octets, n + 1, 2 * n) = b
  BY <1>0, <1>1
<1>6. ~ (Len(octets) < 2 * ScalarOctets)
  BY <1>0, <1>1
<1> HIDE DEF octets
<1>7. Ec!DecodeSignature(octets)
         = <<Ec!NumberBE(SubSeq(octets, 1, n)), Ec!NumberBE(SubSeq(octets, n + 1, 2 * n))>>
  BY <1>6 DEF Ec!DecodeSignature
<1>8. <<sig[1], sig[2]>> = sig
  OBVIOUS
<1> QED
  BY <1>2, <1>3, <1>4, <1>5, <1>7, <1>8 DEF Ec!DecodeSignature

\* Three curves, none of which is the failure, whose numbers fit.
CurveIds == {"A", "B", "C"}
KnownCurves ==
    /\ Widths
    /\ DOMAIN Params = CurveIds /\ Failed \notin CurveIds
    /\ \A c \in CurveIds :
        /\ Params[c].p \in Nat /\ Params[c].p <= Weight[ScalarOctets]
        /\ Params[c].n \in Nat /\ Params[c].n <= Weight[ScalarOctets]

\* A family reads each name it writes as the curve it wrote it for, and no
\* family reads the other's names (keys.rs, curve_from_param_oid).
LEMMA NamesAreReadAgain ==
    ASSUME DOMAIN Params = CurveIds, NEW family \in Ec!Families, NEW curve \in CurveIds,
           NEW i \in DOMAIN Ec!NamesOf(family)[curve], NEW other \in Ec!Families \ {family}
    PROVE  /\ Ec!CurveFromParamOid(family, <<family, Ec!NamesOf(family)[curve][i]>>) = curve
           /\ Ec!CurveFromParamOid(other, <<family, Ec!NamesOf(family)[curve][i]>>) = Failed
<1> DEFINE name == Ec!NamesOf(family)[curve][i]
           oid == <<family, name>>
           Found(f) == {c \in DOMAIN Params : \E j \in DOMAIN Ec!NamesOf(f)[c] : oid = <<f, Ec!NamesOf(f)[c][j]>>}
<1>1. Found(other) = {}
  OBVIOUS
<1>2. curve \in Found(family)
  OBVIOUS
<1>3. ASSUME NEW c \in CurveIds, NEW j \in DOMAIN Ec!NamesOf(family)[c],
             Ec!NamesOf(family)[c][j] = name
      PROVE  c = curve
  BY <1>3 DEF Ec!NamesOf, CurveIds, Ec!Families
<1>4. Found(family) = {curve}
  BY <1>2, <1>3
<1> HIDE DEF Found, name
<1> QED
  BY <1>1, <1>4 DEF Ec!CurveFromParamOid, Found

LEMMA CurveOrNone ==
    ASSUME NEW family, NEW oid
    PROVE  /\ Ec!CurveFromParamOid(family, oid) \in {Failed} \cup DOMAIN Params
           /\ Ec!CurveOfAnyFamily(oid) \in {Failed} \cup DOMAIN Params
<1>1. \A f : Ec!CurveFromParamOid(f, oid) \in {Failed} \cup DOMAIN Params
  <2> TAKE f
  <2> DEFINE found == {c \in DOMAIN Params : \E i \in DOMAIN Ec!NamesOf(f)[c] : oid = <<f, Ec!NamesOf(f)[c][i]>>}
  <2>1. found # {} => (CHOOSE c \in found : TRUE) \in DOMAIN Params
    <3>1. found \subseteq DOMAIN Params
      OBVIOUS
    <3> HIDE DEF found
    <3> QED
      BY <3>1
  <2> QED
    BY <2>1 DEF Ec!CurveFromParamOid
<1> QED
  BY <1>1 DEF Ec!CurveOfAnyFamily

LEMMA ReversedTwice ==
    ASSUME NEW o \in Scalars, ScalarOctets \in Nat
    PROVE  /\ Ec!Reverse(o) \in Scalars
           /\ Ec!Reverse(Ec!Reverse(o)) = o
<1>1. o \in Seq(Octet) /\ Len(o) = ScalarOctets
  BY DEF Scalars
<1> DEFINE n == ScalarOctets
           r == Ec!Reverse(o)
<1>2. r = [i \in 1 .. n |-> o[(n - i) + 1]]
  BY <1>1 DEF Ec!Reverse
<1>3. \A i \in 1 .. n : (n - i) + 1 \in 1 .. n /\ o[i] \in Octet
  BY <1>1
<1>4. r \in Seq(Octet) /\ Len(r) = n
  BY <1>2, <1>3
<1> HIDE DEF r
<1>5. Ec!Reverse(r) = [i \in 1 .. n |-> r[(n - i) + 1]]
  BY <1>4 DEF Ec!Reverse
<1>6. ASSUME NEW i \in 1 .. n PROVE r[(n - i) + 1] = o[i]
  <2>1. (n - ((n - i) + 1)) + 1 = i
    OBVIOUS
  <2> QED
    BY <1>2, <1>3, <2>1
<1>7. Ec!Reverse(r) = o
  BY <1>1, <1>5, <1>6
<1> QED
  BY <1>4, <1>7 DEF r, Scalars

LEMMA LittleIsReadAgain ==
    ASSUME Widths
    PROVE  /\ \A v : Fits(v) => /\ Ec!Reverse(Ec!ScalarBE(v)) \in Scalars
                                /\ Ec!NumberLE(Ec!Reverse(Ec!ScalarBE(v))) = v
           /\ \A o \in Scalars : /\ Fits(Ec!NumberLE(o))
                                 /\ Ec!Reverse(Ec!ScalarBE(Ec!NumberLE(o))) = o
<1>0. ScalarOctets \in Nat
  BY DEF Widths
<1>1. ASSUME NEW v, Fits(v)
      PROVE  /\ Ec!Reverse(Ec!ScalarBE(v)) \in Scalars
             /\ Ec!NumberLE(Ec!Reverse(Ec!ScalarBE(v))) = v
  <2>1. Ec!ScalarBE(v) \in Scalars
    BY <1>1, ScalarIsOctets DEF Fits
  <2> QED
    BY <1>0, <1>1, <2>1, ReversedTwice, NumberIsReadAgain DEF Ec!NumberLE
<1>2. ASSUME NEW o \in Scalars
      PROVE  Fits(Ec!NumberLE(o)) /\ Ec!Reverse(Ec!ScalarBE(Ec!NumberLE(o))) = o
  <2>1. Ec!Reverse(o) \in Scalars /\ Ec!Reverse(Ec!Reverse(o)) = o
    BY <1>0, ReversedTwice
  <2> QED
    BY <2>1, OctetsAreReadAgain DEF Ec!NumberLE
<1> QED
  BY <1>1, <1>2

\* The coordinates of a point, and the octets of two, are read again.
LEMMA CoordinatesAreReadAgain ==
    ASSUME Widths
    PROVE  /\ \A point \in Nat \X Nat : Fits(point[1]) /\ Fits(point[2]) =>
                 /\ Len(Ec!XyLE(point)) = 2 * ScalarOctets
                 /\ Ec!NumberLE(SubSeq(Ec!XyLE(point), 1, ScalarOctets)) = point[1]
                 /\ Ec!NumberLE(SubSeq(Ec!XyLE(point), ScalarOctets + 1, 2 * ScalarOctets)) = point[2]
           /\ \A o \in Seq(Octet) : Len(o) = 2 * ScalarOctets =>
                 Ec!XyLE(<<Ec!NumberLE(SubSeq(o, 1, ScalarOctets)),
                           Ec!NumberLE(SubSeq(o, ScalarOctets + 1, 2 * ScalarOctets))>>) = o
<1> DEFINE n == ScalarOctets
<1>0. n \in Nat
  BY DEF Widths
<1>1. ASSUME NEW point \in Nat \X Nat, Fits(point[1]), Fits(point[2])
      PROVE  /\ Len(Ec!XyLE(point)) = 2 * n
             /\ Ec!NumberLE(SubSeq(Ec!XyLE(point), 1, n)) = point[1]
             /\ Ec!NumberLE(SubSeq(Ec!XyLE(point), n + 1, 2 * n)) = point[2]
  <2> DEFINE a == Ec!Reverse(Ec!ScalarBE(point[1]))
             b == Ec!Reverse(Ec!ScalarBE(point[2]))
  <2>1. a \in Scalars /\ b \in Scalars
    BY <1>1, LittleIsReadAgain
  <2>2. Ec!NumberLE(a) = point[1] /\ Ec!NumberLE(b) = point[2]
    BY <1>1, LittleIsReadAgain
  <2>3. Ec!XyLE(point) = a \o b
    BY DEF Ec!XyLE
  <2> HIDE DEF a, b
  <2>4. a \in Seq(Octet) /\ b \in Seq(Octet) /\ Len(a) = n /\ Len(b) = n
    BY <2>1 DEF Scalars
  <2>5. Len(a \o b) = 2 * n /\ SubSeq(a \o b, 1, n) = a /\ SubSeq(a \o b, n + 1, 2 * n) = b
    BY SMTT(30), <1>0, <2>4
  <2> QED
    BY <2>2, <2>3, <2>5
<1>2. ASSUME NEW o \in Seq(Octet), Len(o) = 2 * n
      PROVE  Ec!XyLE(<<Ec!NumberLE(SubSeq(o, 1, n)), Ec!NumberLE(SubSeq(o, n + 1, 2 * n))>>) = o
  <2> DEFINE a == SubSeq(o, 1, n)
             b == SubSeq(o, n + 1, 2 * n)
  <2>1. a \in Seq(Octet) /\ b \in Seq(Octet) /\ Len(a) = n /\ Len(b) = n
    BY <1>0, <1>2
  <2>2. a \o b = o
    BY <1>0, <1>2
  <2> HIDE DEF a, b
  <2>3. a \in Scalars /\ b \in Scalars
    BY <2>1 DEF Scalars
  <2>4. /\ Ec!Reverse(Ec!ScalarBE(Ec!NumberLE(a))) = a
        /\ Ec!Reverse(Ec!ScalarBE(Ec!NumberLE(b))) = b
    BY <2>3, LittleIsReadAgain
  <2>5. Ec!XyLE(<<Ec!NumberLE(a), Ec!NumberLE(b)>>) = a \o b
    BY <2>4 DEF Ec!XyLE
  <2> QED
    BY <2>2, <2>5 DEF a, b
<1> QED
  BY <1>1, <1>2

\* A public key is read again as it was written, under its family's name for
\* its curve (keys.rs to_spki and from_spki).
THEOREM PublicKeyIsReadAgain ==
    ASSUME KnownCurves, NEW family \in Ec!Families, NEW curve \in CurveIds,
           NEW point \in Nat \X Nat, Ec!IsOnCurve(Params[curve], point)
    PROVE  Ec!FromSpki(Ec!ToSpki(Ec!PublicKey(family, curve, point)))
              = Ec!PublicKey(family, curve, point)
<1> DEFINE key == Ec!PublicKey(family, curve, point)
           oid == Ec!ParamOid(family, curve)
           octets == Ec!XyLE(point)
           spki == [algorithm |-> family, curve |-> oid, octets |-> octets]
           n == ScalarOctets
<1>1. key.family = family /\ key.curve = curve /\ key.point = point
  BY DEF Ec!PublicKey
<1>2. Ec!ToSpki(key) = spki
  BY <1>1 DEF Ec!ToSpki
<1>3. Ec!CurveFromParamOid(family, oid) = curve
  <2>1. 1 \in DOMAIN Ec!NamesOf(family)[curve] /\ \E other \in Ec!Families \ {family} : TRUE
    BY DEF Ec!NamesOf, CurveIds, Ec!Families
  <2> QED
    BY <2>1, NamesAreReadAgain DEF KnownCurves, Ec!ParamOid
<1>4. Fits(point[1]) /\ Fits(point[2])
  <2>1. point[1] < Params[curve].p /\ point[2] < Params[curve].p
    BY DEF Ec!IsOnCurve
  <2>2. Params[curve].p \in Nat /\ Params[curve].p <= Weight[n] /\ n \in Nat
    BY DEF KnownCurves, Widths
  <2>3. Weight[n] \in Nat
    BY <2>2, WeightSteps DEF KnownCurves
  <2> QED
    BY <2>1, <2>2, <2>3 DEF Fits
<1>5. Ec!FromXyLE(family, curve, octets) = key
  <2>1. /\ Len(octets) = 2 * n
        /\ Ec!NumberLE(SubSeq(octets, 1, n)) = point[1]
        /\ Ec!NumberLE(SubSeq(octets, n + 1, 2 * n)) = point[2]
    BY <1>4, CoordinatesAreReadAgain DEF KnownCurves
  <2> HIDE DEF octets
  <2>2. <<point[1], point[2]>> = point
    OBVIOUS
  <2> QED
    BY <2>1, <2>2 DEF Ec!FromXyLE
<1>6. curve # Failed
  BY DEF KnownCurves
<1>7. spki.algorithm = family /\ spki.curve = oid /\ spki.octets = octets
  OBVIOUS
<1> HIDE DEF spki, oid, octets, key
<1> QED
  BY <1>2, <1>3, <1>5, <1>6, <1>7 DEF Ec!FromSpki, key

\* What is accepted for a public key is a point of the curve its name stands
\* for, and is written again in the octets it was read from (keys.rs from_spki).
THEOREM AcceptedPublicKeyIsOnCurve ==
    ASSUME KnownCurves, NEW spki, spki.octets \in Seq(Octet), Ec!FromSpki(spki) # Failed
    PROVE  LET key == Ec!FromSpki(spki)
           IN  /\ key = Ec!PublicKey(spki.algorithm, key.curve, key.point)
               /\ spki.algorithm \in Ec!Families
               /\ key.curve = Ec!CurveFromParamOid(spki.algorithm, spki.curve) /\ key.curve \in CurveIds
               /\ key.point \in Nat \X Nat /\ Ec!IsOnCurve(Params[key.curve], key.point)
               /\ Ec!ToSpki(key).octets = spki.octets
<1> DEFINE n == ScalarOctets
           octets == spki.octets
           curve == Ec!CurveFromParamOid(spki.algorithm, spki.curve)
           point == <<Ec!NumberLE(SubSeq(octets, 1, n)), Ec!NumberLE(SubSeq(octets, n + 1, 2 * n))>>
<1>1. Ec!FromSpki(spki) = Ec!FromXyLE(spki.algorithm, curve, octets)
  BY DEF Ec!FromSpki
<1>2. /\ Len(octets) = 2 * n /\ Ec!IsOnCurve(Params[curve], point)
      /\ Ec!FromSpki(spki) = Ec!PublicKey(spki.algorithm, curve, point)
  BY <1>1 DEF Ec!FromXyLE
<1>3. Ec!XyLE(point) = octets
  BY <1>2, CoordinatesAreReadAgain DEF KnownCurves
<1>6. spki.algorithm \in Ec!Families /\ curve \in CurveIds
  <2>1. spki.algorithm \in Ec!Families /\ curve # Failed
    BY DEF Ec!FromSpki
  <2> QED
    BY <2>1, CurveOrNone DEF KnownCurves
<1>7. point \in Nat \X Nat
  <2> DEFINE a == SubSeq(octets, 1, n)
             b == SubSeq(octets, n + 1, 2 * n)
  <2>1. a \in Scalars /\ b \in Scalars
    BY <1>2 DEF KnownCurves, Widths, Scalars
  <2> HIDE DEF a, b
  <2>2. Ec!NumberLE(a) \in Nat /\ Ec!NumberLE(b) \in Nat
    BY <2>1, LittleIsReadAgain DEF KnownCurves, Fits
  <2> QED
    BY <2>2 DEF a, b
<1> HIDE DEF curve, point
<1> DEFINE key == Ec!PublicKey(spki.algorithm, curve, point)
<1>4. key.family = spki.algorithm /\ key.curve = curve /\ key.point = point
  BY DEF Ec!PublicKey
<1>5. Ec!ToSpki(key).octets = Ec!XyLE(point)
  BY <1>4 DEF Ec!ToSpki
<1> HIDE DEF key
<1> QED
  BY <1>2, <1>3, <1>4, <1>5, <1>6, <1>7 DEF curve, key

-----------------------------------------------------------------------------
(* Private keys. *)

\* The names of a curve, in a family or in both.
NamesIn(family, curve) ==
    {<<family, Ec!NamesOf(family)[curve][i]>> : i \in DOMAIN Ec!NamesOf(family)[curve]}
EveryName(curve) == NamesIn("ozdst", curve) \cup NamesIn("ozmst", curve)

LEMMA NamedInItsFamily ==
    ASSUME KnownCurves, NEW family \in Ec!Families, NEW curve \in CurveIds,
           NEW oid \in NamesIn(family, curve)
    PROVE  Ec!CurveFromParamOid(family, oid) = curve /\ oid \in EveryName(curve)
<1>1. PICK i \in DOMAIN Ec!NamesOf(family)[curve] : oid = <<family, Ec!NamesOf(family)[curve][i]>>
  BY DEF NamesIn
<1>2. \E other \in Ec!Families \ {family} : TRUE
  BY DEF Ec!Families
<1>3. Ec!CurveFromParamOid(family, oid) = curve
  BY <1>1, <1>2, NamesAreReadAgain DEF KnownCurves
<1> QED
  BY <1>3 DEF EveryName, Ec!Families

LEMMA NamedInEither ==
    ASSUME KnownCurves, NEW curve \in CurveIds, NEW oid \in EveryName(curve)
    PROVE  Ec!CurveOfAnyFamily(oid) = curve
<1>1. "ozdst" \in Ec!Families \ {"ozmst"} /\ "ozmst" \in Ec!Families \ {"ozdst"} /\ curve # Failed
  BY DEF Ec!Families, KnownCurves
<1>2. CASE oid \in NamesIn("ozdst", curve)
  BY <1>1, <1>2, NamedInItsFamily DEF Ec!CurveOfAnyFamily
<1>3. CASE oid \in NamesIn("ozmst", curve)
  <2>1. PICK i \in DOMAIN Ec!NamesOf("ozmst")[curve] : oid = <<"ozmst", Ec!NamesOf("ozmst")[curve][i]>>
    BY <1>3 DEF NamesIn
  <2>2. DOMAIN Params = CurveIds
    BY DEF KnownCurves
  <2>3. Ec!CurveFromParamOid("ozdst", <<"ozmst", Ec!NamesOf("ozmst")[curve][i]>>) = Failed
        /\ Ec!CurveFromParamOid("ozmst", <<"ozmst", Ec!NamesOf("ozmst")[curve][i]>>) = curve
    BY ZenonT(40), <1>1, <2>2, NamesAreReadAgain
  <2>4. Ec!CurveFromParamOid("ozdst", oid) = Failed /\ Ec!CurveFromParamOid("ozmst", oid) = curve
    BY <2>1, <2>3
  <2> QED
    BY <1>1, <2>4 DEF Ec!CurveOfAnyFamily
<1> QED
  BY <1>2, <1>3 DEF EveryName

\* The scalar under the curve of a name, as two of the styles have it.
ByName(family, oid, octets) ==
    IF Ec!CurveOfAnyFamily(oid) = Failed THEN Failed
    ELSE Ec!FromScalar(family, Ec!CurveOfAnyFamily(oid), Ec!NumberBE(octets))

LEMMA StylesOfPkcs8 ==
    ASSUME NEW info, info.algorithm \in Ec!Families
    PROVE  /\ info.style = "sequence" =>
                Ec!FromPkcs8(info) =
                    IF Ec!CurveFromParamOid(info.algorithm, info.curve) = Failed THEN Failed
                    ELSE Ec!FromScalar(info.algorithm, Ec!CurveFromParamOid(info.algorithm, info.curve),
                                       Ec!GostScalar(Ec!OctetsOfPrivate(info.private)))
           /\ info.style = "named" =>
                Ec!FromPkcs8(info) =
                    IF info.private.form = "sec1"
                    THEN ByName(info.algorithm, info.curve, info.private.octets) ELSE Failed
           /\ info.style = "none" /\ info.private.form = "sec1" =>
                Ec!FromPkcs8(info) = ByName(info.algorithm, info.private.curve, info.private.octets)
           /\ info.style = "none" /\ info.private.form = "integer" =>
                Ec!FromPkcs8(info) = Ec!FromScalar(info.algorithm, "A", info.private.value)
           /\ info.style = "none" /\ info.private.form \notin {"sec1", "integer"} =>
                Ec!FromPkcs8(info) = Failed
<1>1. "sequence" # "named" /\ "sequence" # "none" /\ "named" # "none" /\ "sec1" # "integer"
  OBVIOUS
<1>2. ASSUME info.style = "sequence"
      PROVE  Ec!FromPkcs8(info) =
                    IF Ec!CurveFromParamOid(info.algorithm, info.curve) = Failed THEN Failed
                    ELSE Ec!FromScalar(info.algorithm, Ec!CurveFromParamOid(info.algorithm, info.curve),
                                       Ec!GostScalar(Ec!OctetsOfPrivate(info.private)))
  BY Zenon, <1>1, <1>2 DEF Ec!FromPkcs8
<1>3. ASSUME info.style = "named"
      PROVE  Ec!FromPkcs8(info) =
                    IF info.private.form = "sec1"
                    THEN ByName(info.algorithm, info.curve, info.private.octets) ELSE Failed
  BY Zenon, <1>1, <1>3 DEF Ec!FromPkcs8, ByName
<1>4. ASSUME info.style = "none", info.private.form = "sec1"
      PROVE  Ec!FromPkcs8(info) = ByName(info.algorithm, info.private.curve, info.private.octets)
  BY Zenon, <1>1, <1>4 DEF Ec!FromPkcs8, ByName
<1>5. ASSUME info.style = "none", info.private.form = "integer"
      PROVE  Ec!FromPkcs8(info) = Ec!FromScalar(info.algorithm, "A", info.private.value)
  BY Zenon, <1>1, <1>5 DEF Ec!FromPkcs8
<1>6. ASSUME info.style = "none", info.private.form \notin {"sec1", "integer"}
      PROVE  Ec!FromPkcs8(info) = Failed
  BY Zenon, <1>1, <1>6 DEF Ec!FromPkcs8
<1> QED
  BY <1>2, <1>3, <1>4, <1>5, <1>6

LEMMA ScalarFits ==
    ASSUME KnownCurves, NEW curve \in CurveIds, NEW d \in 1 .. Params[curve].n - 1
    PROVE  Fits(d)
<1>1. Params[curve].n \in Nat /\ Params[curve].n <= Weight[ScalarOctets] /\ ScalarOctets \in Nat
  BY DEF KnownCurves, Widths
<1>2. Weight[ScalarOctets] \in Nat
  BY <1>1, WeightSteps DEF KnownCurves
<1> QED
  BY <1>1, <1>2 DEF Fits

\* A structure under any name of the curve, GOST's own octets under a name of
\* the family, and a bare number where the curve is A.
IsWritten(info, family, curve, d) ==
    LET private == info.private
        be == Ec!ScalarBE(d)
    IN  /\ info.algorithm = family
        /\ \/ /\ info.style = "named" /\ info.curve \in EveryName(curve)
              /\ private.form = "sec1" /\ private.octets = be
           \/ /\ info.style = "none" /\ private.form = "sec1"
              /\ private.curve \in EveryName(curve) /\ private.octets = be
           \/ /\ info.style = "sequence" /\ info.curve \in NamesIn(family, curve)
              /\ private.form = "octets" /\ private.octets = Ec!Reverse(be)
           \/ /\ info.style = "none" /\ private.form = "integer"
              /\ private.value = d /\ curve = "A"

\* A private key is the same key in whichever style a program wrote it, and is
\* read again as it is written here (keys.rs from_pkcs8_der and to_pkcs8_der).
THEOREM PrivateKeyInEveryStyle ==
    ASSUME KnownCurves, NEW family \in Ec!Families, NEW curve \in CurveIds,
           NEW d \in 1 .. Params[curve].n - 1
    PROVE  /\ \A info : IsWritten(info, family, curve, d) =>
                 Ec!FromPkcs8(info) = Ec!FromScalar(family, curve, d)
           /\ Ec!FromPkcs8(Ec!ToPkcs8(Ec!FromScalar(family, curve, d)))
                 = Ec!FromScalar(family, curve, d)
<1> DEFINE be == Ec!ScalarBE(d)
           key == Ec!FromScalar(family, curve, d)
<1>1. Ec!NumberBE(be) = d /\ Ec!GostScalar(Ec!Reverse(be)) = d
  BY ScalarFits, NumberIsReadAgain, LittleIsReadAgain DEF KnownCurves, Ec!GostScalar
<1>2. curve # Failed
  BY DEF KnownCurves
<1> HIDE DEF be, key
<1>3. ASSUME NEW info, IsWritten(info, family, curve, d)
      PROVE  Ec!FromPkcs8(info) = key
  <2>1. info.algorithm = family
    BY <1>3 DEF IsWritten
  <2>2. ASSUME NEW oid \in EveryName(curve)
        PROVE  ByName(family, oid, be) = key
    BY <1>1, <1>2, NamedInEither DEF ByName, key
  <2>3. ASSUME info.style = "named", info.curve \in EveryName(curve),
               info.private.form = "sec1", info.private.octets = be
        PROVE  Ec!FromPkcs8(info) = key
    BY <2>1, <2>2, <2>3, StylesOfPkcs8
  <2>4. ASSUME info.style = "none", info.private.form = "sec1",
               info.private.curve \in EveryName(curve), info.private.octets = be
        PROVE  Ec!FromPkcs8(info) = key
    BY <2>1, <2>2, <2>4, StylesOfPkcs8
  <2>5. ASSUME info.style = "sequence", info.curve \in NamesIn(family, curve),
               info.private.form = "octets", info.private.octets = Ec!Reverse(be)
        PROVE  Ec!FromPkcs8(info) = key
    <3>1. Ec!CurveFromParamOid(family, info.curve) = curve
      BY <2>5, NamedInItsFamily
    <3> QED
      BY <1>1, <1>2, <2>1, <2>5, <3>1, StylesOfPkcs8 DEF key, Ec!OctetsOfPrivate
  <2>6. ASSUME info.style = "none", info.private.form = "integer", info.private.value = d, curve = "A"
        PROVE  Ec!FromPkcs8(info) = key
    BY <2>1, <2>6, StylesOfPkcs8 DEF key
  <2> QED
    BY <1>3, <2>3, <2>4, <2>5, <2>6 DEF IsWritten, be
<1>4. Ec!FromPkcs8(Ec!ToPkcs8(key)) = key
  <2> DEFINE info == Ec!ToPkcs8(key)
             oid == Ec!ParamOid(family, curve)
  <2>1. key.family = family /\ key.curve = curve /\ key.d = d
    <3>1. Params[curve].n \in Nat /\ ~ (d = 0 \/ d >= Params[curve].n)
      BY DEF KnownCurves
    <3>2. key = [family |-> family, curve |-> curve, d |-> d, public |-> Ec!BaseMul(Params[curve], d)]
      BY <3>1 DEF key, Ec!FromScalar
    <3> QED
      BY <3>2
  <2>2. /\ info.algorithm = family /\ info.style = "named" /\ info.curve = oid
        /\ info.private = Ec!Sec1(be, oid, Ec!XyLE(key.public))
    BY <2>1 DEF Ec!ToPkcs8, be
  <2>3. info.private.form = "sec1" /\ info.private.octets = be
    BY <2>2 DEF Ec!Sec1
  <2>4. oid \in NamesIn(family, curve)
    BY DEF Ec!ParamOid, NamesIn, Ec!NamesOf, CurveIds, Ec!Families
  <2>5. oid \in EveryName(curve)
    BY <2>4, NamedInItsFamily
  <2> HIDE DEF info
  <2>6. IsWritten(info, family, curve, d)
    BY <2>2, <2>3, <2>5 DEF IsWritten, be
  <2> QED
    BY <1>3, <2>6 DEF info
<1> QED
  BY <1>3, <1>4 DEF key

LEMMA OctetsAreANumber ==
    ASSUME KnownCurves, NEW octets \in Seq(Octet)
    PROVE  Ec!NumberBE(octets) \in Nat
BY NumberSteps DEF IsNumber, KnownCurves

\* Whatever is accepted for a private key, in whatever style, is a scalar in
\* range under its algorithm's family and one of the curves, with its own
\* public key; and it is read again as it is written here (keys.rs).
THEOREM AcceptedKeyIsReadAgain ==
    ASSUME KnownCurves, NEW info, info.style \in {"sequence", "named", "none"},
           info.private.form = "sec1" => info.private.octets \in Seq(Octet),
           info.private.form = "integer" => info.private.value \in Nat,
           Ec!OctetsOfPrivate(info.private) \in Seq(Octet),
           Ec!FromPkcs8(info) # Failed
    PROVE  LET key == Ec!FromPkcs8(info)
           IN  /\ key.family = info.algorithm /\ key.family \in Ec!Families
               /\ key.curve \in CurveIds
               /\ key.d \in 1 .. Params[key.curve].n - 1
               /\ key = Ec!FromScalar(key.family, key.curve, key.d)
               /\ key.public = Ec!BaseMul(Params[key.curve], key.d)
               /\ Ec!FromPkcs8(Ec!ToPkcs8(key)) = key
<1> DEFINE key == Ec!FromPkcs8(info)
           family == info.algorithm
<1>1. family \in Ec!Families
  BY Zenon DEF Ec!FromPkcs8
<1>2. ASSUME NEW octets \in Seq(Octet) PROVE Ec!NumberBE(octets) \in Nat
  BY <1>2, OctetsAreANumber
<1>3. ASSUME NEW octets \in Seq(Octet) PROVE Ec!GostScalar(octets) \in Nat
  <2>1. Ec!Reverse(octets) \in Seq(Octet)
    BY DEF Ec!Reverse
  <2> QED
    BY <1>2, <2>1 DEF Ec!GostScalar, Ec!NumberLE
<1>4. \E curve \in CurveIds, v \in Nat : key = Ec!FromScalar(family, curve, v)
  <2>1. CASE info.style = "sequence"
    <3>1. /\ Ec!CurveFromParamOid(family, info.curve) # Failed
          /\ key = Ec!FromScalar(family, Ec!CurveFromParamOid(family, info.curve),
                                 Ec!GostScalar(Ec!OctetsOfPrivate(info.private)))
      BY <1>1, <2>1, StylesOfPkcs8
    <3>2. Ec!CurveFromParamOid(family, info.curve) \in CurveIds
      BY <3>1, CurveOrNone DEF KnownCurves
    <3>3. Ec!GostScalar(Ec!OctetsOfPrivate(info.private)) \in Nat
      BY <1>3
    <3> HIDE DEF key, family
    <3> QED
      BY <3>1, <3>2, <3>3
  <2>2. ASSUME NEW oid, info.private.form = "sec1", key = ByName(family, oid, info.private.octets)
        PROVE  \E curve \in CurveIds, v \in Nat : key = Ec!FromScalar(family, curve, v)
    <3> DEFINE curve == Ec!CurveOfAnyFamily(oid)
               v == Ec!NumberBE(info.private.octets)
    <3>1. curve # Failed /\ key = Ec!FromScalar(family, curve, v)
      BY <2>2 DEF ByName
    <3>2. curve \in CurveIds
      BY <3>1, CurveOrNone DEF KnownCurves
    <3>3. v \in Nat
      BY <1>2, <2>2
    <3> HIDE DEF curve, v, key, family
    <3> QED
      BY <3>1, <3>2, <3>3
  <2>3. CASE info.style = "named"
    <3>1. info.private.form = "sec1" /\ key = ByName(family, info.curve, info.private.octets)
      BY <1>1, <2>3, StylesOfPkcs8
    <3> QED
      BY <2>2, <3>1
  <2>4. CASE info.style = "none"
    <3>1. CASE info.private.form = "sec1"
      <4>1. key = ByName(family, info.private.curve, info.private.octets)
        BY <1>1, <2>4, <3>1, StylesOfPkcs8
      <4> QED
        BY <2>2, <3>1, <4>1
    <3>2. CASE info.private.form = "integer"
      <4>1. key = Ec!FromScalar(family, "A", info.private.value) /\ "A" \in CurveIds
        BY <1>1, <2>4, <3>2, StylesOfPkcs8 DEF CurveIds
      <4> HIDE DEF key, family
      <4> QED
        BY <3>2, <4>1
    <3> QED
      BY <1>1, <2>4, <3>1, <3>2, StylesOfPkcs8
  <2> QED
    BY <2>1, <2>3, <2>4
<1>5. PICK curve \in CurveIds, v \in Nat : key = Ec!FromScalar(family, curve, v)
  BY <1>4
<1>6. Params[curve].n \in Nat
  BY DEF KnownCurves
<1>7. /\ v \in 1 .. Params[curve].n - 1
      /\ key = [family |-> family, curve |-> curve, d |-> v, public |-> Ec!BaseMul(Params[curve], v)]
  <2> HIDE DEF key
  <2>1. key # Failed
    BY DEF key
  <2>2. ~ (v = 0 \/ v >= Params[curve].n)
    BY <1>5, <2>1 DEF Ec!FromScalar
  <2> QED
    BY <1>5, <1>6, <2>2 DEF Ec!FromScalar
<1>8. Ec!FromPkcs8(Ec!ToPkcs8(key)) = key
  <2> HIDE DEF key, family
  <2>1. family \in Ec!Families
    BY <1>1
  <2> QED
    BY <1>5, <1>7, <2>1, PrivateKeyInEveryStyle
<1> HIDE DEF key, family
<1>9. key.family = family /\ key.curve = curve /\ key.d = v /\ key.public = Ec!BaseMul(Params[curve], v)
  BY <1>7
<1> QED
  BY <1>1, <1>5, <1>7, <1>8, <1>9 DEF key, family

-----------------------------------------------------------------------------
(* Points and the ladder. *)

\* Two recursions of one step agree as far as both go.
LEMMA RecursionIsOne ==
    ASSUME NEW X, NEW base \in X, NEW Step \in [Nat \X X -> X],
           NEW M \in Nat, NEW N \in Nat, M <= N, NEW f, NEW g,
           IsRecursion(f, base, Step, M), IsRecursion(g, base, Step, N)
    PROVE  \A i \in 0 .. M : f[i] = g[i]
<1> DEFINE S == {i \in 0 .. M : f[i] = g[i]}
<1>1. 0 \in S
  BY DEF IsRecursion
<1>2. ASSUME NEW i \in 1 .. M, i - 1 \in S PROVE i \in S
  <2>1. i \in 0 .. M /\ i \in 1 .. N
    OBVIOUS
  <2>2. f[i] = Step[<<i, f[i - 1]>>] /\ g[i] = Step[<<i, g[i - 1]>>]
    BY <2>1 DEF IsRecursion
  <2> QED
    BY <1>2, <2>1, <2>2
<1>3. 0 .. M \subseteq S
  <2> HIDE DEF S
  <2> QED BY <1>1, <1>2, InductionUpTo
<1> QED
  BY <1>3

\* The numbers a curve is made of.
Numbered(c) == c.p \in Nat /\ c.n \in Nat /\ Bits \in Nat /\ Infinity \notin Int \X Int
SigningCurve(c) == Numbered(c) /\ Ec!IsSigningCurve(c)

\* One more of the point.
More(c, pt) == [x \in Nat \X Ec!Points(c) |-> Ec!ChordTangent(c, x[2], pt)]

LEMMA MoreIsPoint ==
    ASSUME NEW c, SigningCurve(c), NEW pt \in Ec!Points(c)
    PROVE  More(c, pt) \in [Nat \X Ec!Points(c) -> Ec!Points(c)] /\ Infinity \in Ec!Points(c)
<1>1. \A x, y \in Ec!Points(c) : Ec!ChordTangent(c, x, y) \in Ec!Points(c)
  BY DEF SigningCurve, Ec!IsSigningCurve, Ec!IsCyclic
<1>2. Infinity \in Ec!Points(c)
  BY DEF Ec!Points
<1> DEFINE P == Ec!Points(c)
           CT(x, y) == Ec!ChordTangent(c, x, y)
<1>3. \A x, y \in P : CT(x, y) \in P
  BY <1>1
<1>4. More(c, pt) = [x \in Nat \X P |-> CT(x[2], pt)]
  BY DEF More
<1>5. pt \in P
  OBVIOUS
<1> HIDE DEF P, CT
<1>6. More(c, pt) \in [Nat \X P -> P]
  BY <1>3, <1>4, <1>5
<1> QED
  BY <1>2, <1>6 DEF P

\* A multiple is that of repeated addition.
IsSum(T, c, k, pt) ==
    /\ T \in [0 .. k -> Ec!Points(c)]
    /\ IsRecursion(T, Infinity, More(c, pt), k)
    /\ Ec!Times(c, k, pt) = T[k]

LEMMA TimesSteps ==
    ASSUME NEW c, SigningCurve(c), NEW pt \in Ec!Points(c), NEW k \in Nat
    PROVE  \E T : IsSum(T, c, k, pt)
<1> DEFINE P == Ec!Points(c)
<1>0. More(c, pt) \in [Nat \X P -> P] /\ Infinity \in P
  BY MoreIsPoint
<1>1. \A n \in Nat, x \in P : More(c, pt)[<<n, x>>] = Ec!ChordTangent(c, x, pt)
  BY DEF More
<1> HIDE DEF P
<1>2. PICK N \in [0 .. k -> P] : IsRecursion(N, Infinity, More(c, pt), k)
  BY <1>0, RecursionUpTo
<1>3. ASSUME NEW i \in 0 .. k PROVE N[i] = IF i = 0 THEN Infinity ELSE Ec!ChordTangent(c, N[i - 1], pt)
  <2>1. CASE i = 0
    BY <1>2, <2>1 DEF IsRecursion
  <2>2. CASE i # 0
    <3>1. i \in 1 .. k /\ N[i - 1] \in P /\ i \in Nat
      BY <2>2
    <3>2. N[i] = More(c, pt)[<<i, N[i - 1]>>]
      BY <1>2, <3>1 DEF IsRecursion
    <3> QED
      BY <1>1, <2>2, <3>1, <3>2
  <2> QED
    BY <2>1, <2>2
<1>4. N = [i \in 0 .. k |-> IF i = 0 THEN Infinity ELSE Ec!ChordTangent(c, N[i - 1], pt)]
  BY <1>3
<1> DEFINE T == CHOOSE T : T = [i \in 0 .. k |-> IF i = 0 THEN Infinity ELSE Ec!ChordTangent(c, T[i - 1], pt)]
<1>5. T = [i \in 0 .. k |-> IF i = 0 THEN Infinity ELSE Ec!ChordTangent(c, T[i - 1], pt)]
  BY <1>4
<1>6. Ec!Times(c, k, pt) = T[k]
  BY DEF Ec!Times
<1> HIDE DEF T
<1>7. T[0] = Infinity /\ \A i \in 1 .. k : T[i] = Ec!ChordTangent(c, T[i - 1], pt)
  BY <1>5
<1> DEFINE S == {i \in 0 .. k : T[i] \in P}
<1>8. 0 .. k \subseteq S
  <2>1. 0 \in S
    BY <1>0, <1>7
  <2>2. ASSUME NEW i \in 1 .. k, i - 1 \in S PROVE i \in S
    <3>1. i \in 0 .. k /\ T[i - 1] \in P /\ i \in Nat
      BY <2>2
    <3>2. <<i, T[i - 1]>> \in Nat \X P
      BY <3>1
    <3>3. More(c, pt)[<<i, T[i - 1]>>] \in P
      BY <1>0, <3>2
    <3> QED
      BY <1>1, <1>7, <3>1, <3>3
  <2> HIDE DEF S
  <2> QED
    BY <2>1, <2>2, InductionUpTo
<1>9. T \in [0 .. k -> P]
  BY <1>5, <1>8
<1>10. ASSUME NEW i \in 1 .. k PROVE T[i] = More(c, pt)[<<i, T[i - 1]>>]
  <2>1. T[i - 1] \in P /\ i \in Nat
    BY <1>9
  <2> QED
    BY <1>1, <1>7, <2>1
<1> QED
  BY <1>6, <1>7, <1>9, <1>10 DEF IsSum, IsRecursion, P

\* The laws of multiples, by the group's.
LEMMA TimesLaws ==
    ASSUME NEW c, SigningCurve(c), NEW pt \in Ec!Points(c)
    PROVE  /\ \A k \in Nat : Ec!Times(c, k, pt) \in Ec!Points(c)
           /\ Ec!Times(c, 0, pt) = Infinity
           /\ \A k \in Nat : Ec!Times(c, k + 1, pt) = Ec!ChordTangent(c, Ec!Times(c, k, pt), pt)
<1>1. ASSUME NEW k \in Nat PROVE Ec!Times(c, k, pt) \in Ec!Points(c)
  <2>1. PICK T : IsSum(T, c, k, pt)
    BY TimesSteps
  <2> QED
    BY <2>1 DEF IsSum
<1>2. Ec!Times(c, 0, pt) = Infinity
  <2>1. PICK T : IsSum(T, c, 0, pt)
    BY TimesSteps
  <2> QED
    BY <2>1 DEF IsSum, IsRecursion
<1>3. ASSUME NEW k \in Nat
      PROVE  Ec!Times(c, k + 1, pt) = Ec!ChordTangent(c, Ec!Times(c, k, pt), pt)
  <2>1. PICK T : IsSum(T, c, k, pt)
    BY TimesSteps
  <2>2. PICK U : IsSum(U, c, k + 1, pt)
    BY TimesSteps
  <2>3. IsRecursion(T, Infinity, More(c, pt), k) /\ IsRecursion(U, Infinity, More(c, pt), k + 1)
    BY <2>1, <2>2 DEF IsSum
  <2>4. k + 1 \in Nat /\ k <= k + 1 /\ k \in 0 .. k /\ k + 1 \in 1 .. k + 1 /\ (k + 1) - 1 = k
    OBVIOUS
  <2>5. T[k] = U[k]
    <3> DEFINE P == Ec!Points(c)
               Step == More(c, pt)
               m == k + 1
    <3>1. Step \in [Nat \X P -> P] /\ Infinity \in P
      BY MoreIsPoint
    <3>2. IsRecursion(T, Infinity, Step, k) /\ IsRecursion(U, Infinity, Step, m) /\ m \in Nat /\ k <= m
      BY <2>3, <2>4
    <3> HIDE DEF P, Step, m
    <3>3. \A i \in 0 .. k : T[i] = U[i]
      BY <3>1, <3>2, RecursionIsOne
    <3> QED
      BY <2>4, <3>3
  <2>6. U[k + 1] = More(c, pt)[<<k + 1, U[k]>>]
    BY <2>3, <2>4 DEF IsRecursion
  <2>7. U[k] \in Ec!Points(c)
    BY <2>2, <2>4 DEF IsSum
  <2>8. U[k + 1] = Ec!ChordTangent(c, U[k], pt)
    BY <2>4, <2>6, <2>7 DEF More
  <2> QED
    BY <2>1, <2>2, <2>5, <2>8 DEF IsSum
<1> QED
  BY <1>1, <1>2, <1>3

\* The sum of two points, short.
Plus(c, x, y) == Ec!ChordTangent(c, x, y)

LEMMA GroupLaws ==
    ASSUME NEW c, SigningCurve(c)
    PROVE  /\ c.g \in Ec!Points(c) /\ Infinity \in Ec!Points(c)
           /\ \A x, y \in Ec!Points(c) : Plus(c, x, y) \in Ec!Points(c)
           /\ \A x \in Ec!Points(c) : Plus(c, x, Infinity) = x /\ Plus(c, Infinity, x) = x
           /\ \A x, y, z \in Ec!Points(c) : Plus(c, Plus(c, x, y), z) = Plus(c, x, Plus(c, y, z))
           /\ Ec!Times(c, c.n, c.g) = Infinity
           /\ \A x \in Ec!Points(c) \ {Infinity} : \E d \in 1 .. c.n - 1 : x = Ec!Times(c, d, c.g)
<1>1. Infinity \in Ec!Points(c)
  BY DEF Ec!Points
<1> QED
  BY <1>1 DEF SigningCurve, Ec!IsSigningCurve, Ec!IsCyclic, Plus

LEMMA TimesOfSum ==
    ASSUME NEW c, SigningCurve(c), NEW pt \in Ec!Points(c), NEW a \in Nat, NEW b \in Nat
    PROVE  Ec!Times(c, a + b, pt) = Plus(c, Ec!Times(c, a, pt), Ec!Times(c, b, pt))
<1> DEFINE P == Ec!Points(c)
           T(k) == Ec!Times(c, k, pt)
           S == {k \in Nat : T(a + k) = Plus(c, T(a), T(k))}
<1>1. /\ \A k \in Nat : T(k) \in P
      /\ T(0) = Infinity
      /\ \A k \in Nat : T(k + 1) = Plus(c, T(k), pt)
  BY TimesLaws DEF Plus
<1>2. /\ \A x \in P : Plus(c, x, Infinity) = x
      /\ \A x, y, z \in P : Plus(c, Plus(c, x, y), z) = Plus(c, x, Plus(c, y, z))
      /\ pt \in P
  BY GroupLaws
<1> HIDE DEF P, T
<1>3. 0 \in S
  BY <1>1, <1>2
<1>4. ASSUME NEW k \in S PROVE k + 1 \in S
  <2>1. k \in Nat /\ k + 1 \in Nat /\ a + k \in Nat /\ a + (k + 1) = (a + k) + 1
    OBVIOUS
  <2>2. T(a + (k + 1)) = Plus(c, T(a + k), pt)
    BY <1>1, <2>1
  <2>3. T(a + k) = Plus(c, T(a), T(k))
    BY <1>4
  <2>4. Plus(c, Plus(c, T(a), T(k)), pt) = Plus(c, T(a), Plus(c, T(k), pt))
    BY <1>1, <1>2, <2>1
  <2>5. T(k + 1) = Plus(c, T(k), pt)
    BY <1>1, <2>1
  <2> QED
    BY <2>1, <2>2, <2>3, <2>4, <2>5
<1>5. S = Nat
  <2>1. S \in SUBSET Nat
    OBVIOUS
  <2> HIDE DEF S
  <2> QED BY <1>3, <1>4, <2>1, Induction
<1> QED
  BY <1>5 DEF T

LEMMA TimesOfProduct ==
    ASSUME NEW c, SigningCurve(c), NEW pt \in Ec!Points(c), NEW a \in Nat, NEW b \in Nat
    PROVE  Ec!Times(c, b, Ec!Times(c, a, pt)) = Ec!Times(c, a * b, pt)
<1> DEFINE x == Ec!Times(c, a, pt)
           S == {k \in Nat : Ec!Times(c, k, x) = Ec!Times(c, a * k, pt)}
<1>1. x \in Ec!Points(c)
  BY TimesLaws
<1> HIDE DEF x
<1>2. 0 \in S
  BY <1>1, TimesLaws
<1>3. ASSUME NEW k \in S PROVE k + 1 \in S
  <2>1. k \in Nat /\ k + 1 \in Nat /\ a * k \in Nat /\ a * (k + 1) = (a * k) + a
    OBVIOUS
  <2>2. Ec!Times(c, k + 1, x) = Plus(c, Ec!Times(c, k, x), x)
    BY <1>1, <2>1, TimesLaws DEF Plus
  <2>3. Ec!Times(c, (a * k) + a, pt) = Plus(c, Ec!Times(c, a * k, pt), x)
    BY <2>1, TimesOfSum DEF x
  <2>4. Ec!Times(c, k, x) = Ec!Times(c, a * k, pt)
    BY <1>3
  <2> QED
    BY <2>1, <2>2, <2>3, <2>4
<1>4. S = Nat
  <2>1. S \in SUBSET Nat
    OBVIOUS
  <2> HIDE DEF S
  <2> QED BY <1>2, <1>3, <2>1, Induction
<1> QED
  BY <1>4 DEF x

LEMMA TimesOfInfinity ==
    ASSUME NEW c, SigningCurve(c), NEW k \in Nat
    PROVE  Ec!Times(c, k, Infinity) = Infinity
<1> DEFINE S == {j \in Nat : Ec!Times(c, j, Infinity) = Infinity}
<1>0. Infinity \in Ec!Points(c)
  BY GroupLaws
<1>1. 0 \in S
  BY <1>0, TimesLaws
<1>2. ASSUME NEW j \in S PROVE j + 1 \in S
  <2>1. Ec!Times(c, j + 1, Infinity) = Plus(c, Infinity, Infinity)
    BY <1>0, <1>2, TimesLaws DEF Plus
  <2> QED
    BY <1>0, <2>1, GroupLaws
<1>3. S = Nat
  <2>1. S \in SUBSET Nat
    OBVIOUS
  <2> HIDE DEF S
  <2> QED BY <1>1, <1>2, <2>1, Induction
<1> QED
  BY <1>3

\* Every point's order divides the curve's.
LEMMA TimesOfOrder ==
    ASSUME NEW c, SigningCurve(c), NEW pt \in Ec!Points(c), NEW q \in Nat
    PROVE  Ec!Times(c, c.n * q, pt) = Infinity
<1>0. c.n \in Nat /\ c.g \in Ec!Points(c)
  BY GroupLaws DEF SigningCurve, Numbered
<1>1. Ec!Times(c, c.n, pt) = Infinity
  <2>1. CASE pt = Infinity
    BY <1>0, <2>1, TimesOfInfinity
  <2>2. CASE pt # Infinity
    <3>1. PICK d \in 1 .. c.n - 1 : pt = Ec!Times(c, d, c.g)
      BY <2>2, GroupLaws
    <3>2. d \in Nat /\ d * c.n = c.n * d
      BY <1>0
    <3>3. Ec!Times(c, c.n, pt) = Ec!Times(c, d * c.n, c.g)
      BY <1>0, <3>1, <3>2, TimesOfProduct
    <3>4. Ec!Times(c, d, Ec!Times(c, c.n, c.g)) = Ec!Times(c, c.n * d, c.g)
      BY <1>0, <3>2, TimesOfProduct
    <3> QED
      BY <3>2, <3>3, <3>4, GroupLaws, TimesOfInfinity
  <2> QED
    BY <2>1, <2>2
<1>2. Ec!Times(c, q, Ec!Times(c, c.n, pt)) = Ec!Times(c, c.n * q, pt)
  BY <1>0, TimesOfProduct
<1> QED
  BY <1>1, <1>2, TimesOfInfinity

\* Only what is left over the order counts.
LEMMA TimesIsPeriodic ==
    ASSUME NEW c, SigningCurve(c), NEW pt \in Ec!Points(c), NEW r \in Nat, NEW q \in Nat
    PROVE  Ec!Times(c, r + c.n * q, pt) = Ec!Times(c, r, pt)
<1>1. c.n * q \in Nat
  BY DEF SigningCurve, Numbered
<1>2. Ec!Times(c, r + c.n * q, pt) = Plus(c, Ec!Times(c, r, pt), Infinity)
  BY <1>1, TimesOfSum, TimesOfOrder
<1>3. Ec!Times(c, r, pt) \in Ec!Points(c)
  BY TimesLaws
<1> QED
  BY <1>2, <1>3, GroupLaws

LEMMA ShiftIsNat ==
    ASSUME NEW k \in Nat, NEW i \in Nat
    PROVE  \E S \in [0 .. i -> Nat] :
              IsRecursion(S, k, [x \in Nat \X Nat |-> x[2] \div 2], i) /\ Ec!Shift(k, i) = S[i]
<1> DEFINE Step == [x \in Nat \X Nat |-> x[2] \div 2]
<1>1. Step \in [Nat \X Nat -> Nat] /\ \A n, m \in Nat : Step[<<n, m>>] = m \div 2
  OBVIOUS
<1> HIDE DEF Step
<1>2. PICK N \in [0 .. i -> Nat] : IsRecursion(N, k, Step, i)
  BY <1>1, RecursionUpTo
<1>3. ASSUME NEW j \in 0 .. i PROVE N[j] = IF j = 0 THEN k ELSE N[j - 1] \div 2
  <2>1. CASE j = 0
    BY <1>2, <2>1 DEF IsRecursion
  <2>2. CASE j # 0
    <3>1. j \in 1 .. i /\ N[j - 1] \in Nat /\ j \in Nat
      BY <2>2
    <3> QED
      BY <1>1, <1>2, <2>2, <3>1 DEF IsRecursion
  <2> QED
    BY <2>1, <2>2
<1>4. N = [j \in 0 .. i |-> IF j = 0 THEN k ELSE N[j - 1] \div 2]
  BY <1>3
<1> DEFINE S == CHOOSE S : S = [j \in 0 .. i |-> IF j = 0 THEN k ELSE S[j - 1] \div 2]
<1>5. S = [j \in 0 .. i |-> IF j = 0 THEN k ELSE S[j - 1] \div 2]
  BY <1>4
<1>6. Ec!Shift(k, i) = S[i]
  BY DEF Ec!Shift
<1> HIDE DEF S
<1>7. S[0] = k /\ \A j \in 1 .. i : S[j] = S[j - 1] \div 2
  BY <1>5
<1> DEFINE R == {j \in 0 .. i : S[j] \in Nat}
<1>8. 0 .. i \subseteq R
  <2>1. 0 \in R
    BY <1>7
  <2>2. ASSUME NEW j \in 1 .. i, j - 1 \in R PROVE j \in R
    <3>1. j \in 0 .. i /\ S[j - 1] \in Nat
      BY <2>2
    <3>2. S[j - 1] \div 2 \in Nat
      BY <3>1
    <3> QED
      BY <1>7, <3>1, <3>2
  <2> HIDE DEF R
  <2> QED
    BY <2>1, <2>2, InductionUpTo
<1>9. S \in [0 .. i -> Nat]
  BY <1>5, <1>8
<1>10. IsRecursion(S, k, Step, i)
  <2>1. ASSUME NEW j \in 1 .. i PROVE S[j] = Step[<<j, S[j - 1]>>]
    <3>1. S[j - 1] \in Nat /\ j \in Nat
      BY <1>9
    <3> QED
      BY <1>1, <1>7, <3>1
  <2> QED
    BY <1>7, <2>1 DEF IsRecursion
<1> QED
  BY <1>6, <1>9, <1>10 DEF Step

LEMMA ShiftLaws ==
    ASSUME NEW k \in Nat
    PROVE  /\ \A i \in Nat : Ec!Shift(k, i) \in Nat
           /\ Ec!Shift(k, 0) = k
           /\ \A i \in Nat : Ec!Shift(k, i + 1) = Ec!Shift(k, i) \div 2
<1> DEFINE Step == [x \in Nat \X Nat |-> x[2] \div 2]
<1>0. Step \in [Nat \X Nat -> Nat] /\ \A n, m \in Nat : Step[<<n, m>>] = m \div 2
  OBVIOUS
<1>1. \A i \in Nat : \E S \in [0 .. i -> Nat] : IsRecursion(S, k, Step, i) /\ Ec!Shift(k, i) = S[i]
  BY ShiftIsNat
<1> HIDE DEF Step
<1>2. ASSUME NEW i \in Nat PROVE Ec!Shift(k, i) \in Nat
  <2>1. PICK S \in [0 .. i -> Nat] : Ec!Shift(k, i) = S[i]
    BY <1>1
  <2> QED
    BY <2>1
<1>3. Ec!Shift(k, 0) = k
  <2>1. PICK S \in [0 .. 0 -> Nat] : IsRecursion(S, k, Step, 0) /\ Ec!Shift(k, 0) = S[0]
    BY <1>1
  <2> QED
    BY <2>1 DEF IsRecursion
<1>4. ASSUME NEW n \in Nat PROVE Ec!Shift(k, n + 1) = Ec!Shift(k, n) \div 2
  <2> DEFINE m == n + 1
  <2>1. m \in Nat /\ n <= m /\ n \in 0 .. n /\ m \in 1 .. m /\ m - 1 = n /\ n \in 0 .. m
    OBVIOUS
  <2> HIDE DEF m
  <2>2. PICK S : IsRecursion(S, k, Step, n) /\ Ec!Shift(k, n) = S[n] /\ S \in [0 .. n -> Nat]
    BY <1>1
  <2>3. PICK U : IsRecursion(U, k, Step, m) /\ Ec!Shift(k, m) = U[m] /\ U \in [0 .. m -> Nat]
    BY <1>1, <2>1
  <2>4. \A j \in 0 .. n : S[j] = U[j]
    <3> DEFINE P == Nat
    <3>1. Step \in [Nat \X P -> P] /\ k \in P
      BY <1>0
    <3>2. IsRecursion(S, k, Step, n) /\ IsRecursion(U, k, Step, m)
      BY <2>2, <2>3
    <3>3. m \in Nat /\ n <= m
      BY <2>1
    <3> HIDE DEF P
    <3> QED
      BY <3>1, <3>2, <3>3, RecursionIsOne
  <2>5. U[m] = Step[<<m, U[n]>>] /\ U[n] \in Nat /\ S[n] = U[n]
    BY <2>1, <2>2, <2>3, <2>4 DEF IsRecursion
  <2>6. U[m] = U[n] \div 2
    BY <1>0, <2>1, <2>5
  <2> QED
    BY <2>2, <2>3, <2>5, <2>6 DEF m
<1> QED
  BY <1>2, <1>3, <1>4

LEMMA WidthSteps ==
    ASSUME Bits \in Nat
    PROVE  \E W \in [0 .. Bits -> Nat] :
              /\ W[0] = 1 /\ \A i \in 1 .. Bits : W[i] = W[i - 1] * 2
              /\ Ec!Width = W[Bits]
<1> DEFINE Step == [x \in Nat \X Nat |-> x[2] * 2]
<1>1. Step \in [Nat \X Nat -> Nat] /\ \A n, m \in Nat : Step[<<n, m>>] = m * 2
  OBVIOUS
<1> HIDE DEF Step
<1>2. PICK N \in [0 .. Bits -> Nat] : IsRecursion(N, 1, Step, Bits)
  BY <1>1, RecursionUpTo
<1>3. ASSUME NEW j \in 0 .. Bits PROVE N[j] = IF j = 0 THEN 1 ELSE N[j - 1] * 2
  <2>1. CASE j = 0
    BY <1>2, <2>1 DEF IsRecursion
  <2>2. CASE j # 0
    <3>1. j \in 1 .. Bits /\ N[j - 1] \in Nat /\ j \in Nat
      BY <2>2
    <3> QED
      BY <1>1, <1>2, <2>2, <3>1 DEF IsRecursion
  <2> QED
    BY <2>1, <2>2
<1>4. N = [j \in 0 .. Bits |-> IF j = 0 THEN 1 ELSE N[j - 1] * 2]
  BY <1>3
<1> DEFINE W == CHOOSE W : W = [j \in 0 .. Bits |-> IF j = 0 THEN 1 ELSE W[j - 1] * 2]
<1>5. W = [j \in 0 .. Bits |-> IF j = 0 THEN 1 ELSE W[j - 1] * 2]
  BY <1>4
<1>6. Ec!Width = W[Bits]
  BY DEF Ec!Width
<1> HIDE DEF W
<1>7. W[0] = 1 /\ \A j \in 1 .. Bits : W[j] = W[j - 1] * 2
  BY <1>5
<1> DEFINE R == {j \in 0 .. Bits : W[j] \in Nat}
<1>8. 0 .. Bits \subseteq R
  <2>1. 0 \in R
    BY <1>7
  <2>2. ASSUME NEW j \in 1 .. Bits, j - 1 \in R PROVE j \in R
    BY <1>7, <2>2
  <2> HIDE DEF R
  <2> QED
    BY <2>1, <2>2, InductionUpTo
<1>9. W \in [0 .. Bits -> Nat]
  BY <1>5, <1>8
<1> QED
  BY <1>6, <1>7, <1>9

\* Nothing is left of a scalar of the width after its bits.
LEMMA WidthIsShifted ==
    ASSUME Bits \in Nat, NEW k \in Nat, k < Ec!Width
    PROVE  Ec!Shift(k, Bits) = 0
<1>1. PICK W \in [0 .. Bits -> Nat] :
              /\ W[0] = 1 /\ \A i \in 1 .. Bits : W[i] = W[i - 1] * 2
              /\ Ec!Width = W[Bits]
  BY WidthSteps
<1> DEFINE S == {i \in 0 .. Bits : Ec!Shift(k, i) < W[Bits - i]}
<1>2. 0 \in S
  BY <1>1, ShiftLaws
<1>3. ASSUME NEW i \in 1 .. Bits, i - 1 \in S PROVE i \in S
  <2>1. i - 1 \in Nat /\ (i - 1) + 1 = i /\ i \in 0 .. Bits
    OBVIOUS
  <2>2. Ec!Shift(k, i) = Ec!Shift(k, i - 1) \div 2 /\ Ec!Shift(k, i - 1) \in Nat
    BY <2>1, ShiftLaws
  <2>3. Bits - (i - 1) \in 1 .. Bits /\ (Bits - (i - 1)) - 1 = Bits - i /\ Bits - i \in 0 .. Bits
    OBVIOUS
  <2>4. W[Bits - (i - 1)] = W[Bits - i] * 2 /\ W[Bits - i] \in Nat
    BY <1>1, <2>3
  <2>5. Ec!Shift(k, i - 1) < W[Bits - i] * 2
    BY <1>3, <2>4
  <2>6. Ec!Shift(k, i) < W[Bits - i]
    BY <2>2, <2>4, <2>5
  <2> QED
    BY <2>1, <2>6
<1>4. 0 .. Bits \subseteq S
  <2> HIDE DEF S
  <2> QED BY <1>2, <1>3, InductionUpTo
<1>5. Ec!Shift(k, Bits) < W[0] /\ Ec!Shift(k, Bits) \in Nat
  BY <1>4, ShiftLaws
<1> QED
  BY <1>1, <1>5

LEMMA PowerOfOne ==
    ASSUME NEW m \in Nat, m > 1, NEW e \in Nat
    PROVE  Ec!Power(1, e, m) = 1
<1> DEFINE N == [i \in 0 .. e |-> 1]
<1>1. N = [i \in 0 .. e |-> IF i = 0 THEN 1 % m ELSE (N[i - 1] * 1) % m]
  <2>1. (1 % m) = 1 /\ (1 * 1) % m = 1
    OBVIOUS
  <2> QED
    BY <2>1
<1> HIDE DEF N
<1> DEFINE P == CHOOSE P : P = [i \in 0 .. e |-> IF i = 0 THEN 1 % m ELSE (P[i - 1] * 1) % m]
<1>2. P = [i \in 0 .. e |-> IF i = 0 THEN 1 % m ELSE (P[i - 1] * 1) % m]
  BY <1>1
<1>3. Ec!Power(1, e, m) = P[e]
  BY DEF Ec!Power
<1> HIDE DEF P
<1> DEFINE S == {i \in 0 .. e : P[i] = 1}
<1>4. 0 .. e \subseteq S
  <2>1. 0 \in S
    <3>1. 0 \in 0 .. e /\ (1 % m) = 1
      OBVIOUS
    <3>2. P[0] = 1 % m
      BY <1>2, <3>1
    <3> QED
      BY <3>1, <3>2
  <2>2. ASSUME NEW i \in 1 .. e, i - 1 \in S PROVE i \in S
    <3>1. i \in 0 .. e /\ i # 0 /\ P[i - 1] = 1
      BY <2>2
    <3>2. P[i] = (P[i - 1] * 1) % m
      BY <1>2, <3>1
    <3> QED
      BY <3>1, <3>2
  <2> HIDE DEF S
  <2> QED
    BY <2>1, <2>2, InductionUpTo
<1> QED
  BY <1>3, <1>4

\* A point is what its triple stands for, and infinity what the identity does.
LEMMA ProjectedAndBack ==
    ASSUME NEW c, SigningCurve(c)
    PROVE  /\ Ec!Identity \in Ec!Triples(c) /\ Ec!ToAffine(c, Ec!Identity) = Infinity
           /\ \A x \in Ec!Points(c) \ {Infinity} :
                 /\ Ec!Project(c, x) \in Ec!Triples(c)
                 /\ Ec!ToAffine(c, Ec!Project(c, x)) = x
<1>0. c.p \in Nat /\ c.p > 2
  BY DEF SigningCurve, Numbered, Ec!IsSigningCurve
<1>1. Ec!Identity \in Ec!Triples(c)
  BY <1>0 DEF Ec!Identity, Ec!Triples
<1>2. Ec!ToAffine(c, Ec!Identity) = Infinity
  BY DEF Ec!Identity, Ec!ToAffine
<1>3. ASSUME NEW x \in Ec!Points(c) \ {Infinity}
      PROVE  Ec!Project(c, x) \in Ec!Triples(c) /\ Ec!ToAffine(c, Ec!Project(c, x)) = x
  <2>1. x \in (0 .. c.p - 1) \X (0 .. c.p - 1)
    BY <1>3 DEF Ec!Points
  <2> DEFINE t == Ec!Project(c, x)
  <2>2. x[1] \in 0 .. c.p - 1 /\ x[2] \in 0 .. c.p - 1 /\ x = <<x[1], x[2]>>
    BY <2>1
  <2>3. \A a \in 0 .. c.p - 1 : (a % c.p) = a /\ ((a * 1) % c.p) = a
    BY <1>0
  <2>4. t = <<x[1], x[2], 1>>
    BY <2>2, <2>3 DEF Ec!Project
  <2> HIDE DEF t
  <2>5. Ec!Invert(c, t[3]) = 1
    <3>1. t[3] = 1 /\ c.p - 2 \in Nat /\ c.p > 1
      BY <1>0, <2>4
    <3> QED
      BY <1>0, <3>1, PowerOfOne DEF Ec!Invert
  <2>6. Ec!ToAffine(c, t) = <<(t[1] * 1) % c.p, (t[2] * 1) % c.p>>
    BY <2>4, <2>5 DEF Ec!ToAffine
  <2>7. Ec!ToAffine(c, t) = x
    BY <2>2, <2>3, <2>4, <2>6
  <2>8. t \in (0 .. c.p - 1) \X (0 .. c.p - 1) \X ((0 .. c.p - 1) \ {0})
    BY <1>0, <2>2, <2>4
  <2>9. t \in Ec!Triples(c)
    BY <1>3, <2>7, <2>8 DEF Ec!Triples
  <2> QED
    BY <2>7, <2>9 DEF t
<1> QED
  BY <1>1, <1>2, <1>3

LEMMA AddedUp ==
    ASSUME NEW c, SigningCurve(c), NEW t \in Ec!Triples(c), NEW u \in Ec!Triples(c)
    PROVE  /\ Ec!AddProjective(c, t, u) \in Ec!Triples(c)
           /\ Ec!ToAffine(c, Ec!AddProjective(c, t, u)) = Plus(c, Ec!ToAffine(c, t), Ec!ToAffine(c, u))
BY DEF SigningCurve, Ec!IsSigningCurve, Ec!IsComplete, Plus

\* The ladder as a recursion, and its rungs.
Pairs(c) == Ec!Triples(c) \X Ec!Triples(c)
Climb(c, k) ==
    [x \in Nat \X Pairs(c) |->
        LET r == x[2]
            sum == Ec!AddProjective(c, r[1], r[2])
        IN  IF Ec!Bit(k, Bits - x[1]) = 1
            THEN <<sum, Ec!AddProjective(c, r[2], r[2])>>
            ELSE <<Ec!AddProjective(c, r[1], r[1]), sum>>]
IsLadder(R, c, k, pt) ==
    /\ R \in [0 .. Bits -> Pairs(c)]
    /\ IsRecursion(R, <<Ec!Identity, Ec!Project(c, pt)>>, Climb(c, k), Bits)
    /\ Ec!Ladder(c, k, pt) = R[Bits]

LEMMA ClimbsInPairs ==
    ASSUME NEW c, SigningCurve(c), NEW k \in Nat
    PROVE  /\ Climb(c, k) \in [Nat \X Pairs(c) -> Pairs(c)]
           /\ \A i \in Nat, r \in Pairs(c) :
                Climb(c, k)[<<i, r>>]
                    = LET sum == Ec!AddProjective(c, r[1], r[2])
                      IN  IF Ec!Bit(k, Bits - i) = 1
                          THEN <<sum, Ec!AddProjective(c, r[2], r[2])>>
                          ELSE <<Ec!AddProjective(c, r[1], r[1]), sum>>
<1> DEFINE T == Ec!Triples(c)
           A(t, u) == Ec!AddProjective(c, t, u)
           One(i) == Ec!Bit(k, Bits - i) = 1
<1>1. \A t, u \in T : A(t, u) \in T
  BY AddedUp
<1>2. Climb(c, k) = [x \in Nat \X (T \X T) |->
                        IF One(x[1]) THEN <<A(x[2][1], x[2][2]), A(x[2][2], x[2][2])>>
                        ELSE <<A(x[2][1], x[2][1]), A(x[2][1], x[2][2])>>]
  BY DEF Climb, Pairs
<1> HIDE DEF T, A, One
<1>3. Climb(c, k) \in [Nat \X (T \X T) -> T \X T]
  BY <1>1, <1>2
<1>4. \A i \in Nat, r \in T \X T :
         Climb(c, k)[<<i, r>>] = IF One(i) THEN <<A(r[1], r[2]), A(r[2], r[2])>>
                                 ELSE <<A(r[1], r[1]), A(r[1], r[2])>>
  BY <1>2
<1> QED
  BY <1>3, <1>4 DEF T, A, One, Pairs

LEMMA LadderSteps ==
    ASSUME NEW c, SigningCurve(c), NEW pt \in Ec!Points(c) \ {Infinity}, NEW k \in Nat
    PROVE  \E R : IsLadder(R, c, k, pt)
<1> DEFINE P == Pairs(c)
           base == <<Ec!Identity, Ec!Project(c, pt)>>
           Rung(i, r) == LET sum == Ec!AddProjective(c, r[1], r[2])
                         IN  IF Ec!Bit(k, Bits - i) = 1
                             THEN <<sum, Ec!AddProjective(c, r[2], r[2])>>
                             ELSE <<Ec!AddProjective(c, r[1], r[1]), sum>>
<1>0. Bits \in Nat /\ base \in P
  BY ProjectedAndBack DEF SigningCurve, Numbered, Pairs
<1>1. /\ Climb(c, k) \in [Nat \X P -> P]
      /\ \A i \in Nat, r \in P : Climb(c, k)[<<i, r>>] = Rung(i, r)
  BY ClimbsInPairs
<1> HIDE DEF P
<1>2. PICK N \in [0 .. Bits -> P] : IsRecursion(N, base, Climb(c, k), Bits)
  <2> HIDE DEF base
  <2> QED BY <1>0, <1>1, RecursionUpTo
<1>3. ASSUME NEW i \in 0 .. Bits PROVE N[i] = IF i = 0 THEN base ELSE Rung(i, N[i - 1])
  <2>1. CASE i = 0
    BY <1>2, <2>1 DEF IsRecursion
  <2>2. CASE i # 0
    <3>1. i \in 1 .. Bits /\ N[i - 1] \in P /\ i \in Nat
      BY <1>0, <2>2
    <3>2. N[i] = Climb(c, k)[<<i, N[i - 1]>>]
      BY <1>2, <3>1 DEF IsRecursion
    <3> HIDE DEF Rung, base
    <3> QED
      BY <1>1, <2>2, <3>1, <3>2
  <2> HIDE DEF Rung, base
  <2> QED
    BY <2>1, <2>2
<1>4. N = [i \in 0 .. Bits |-> IF i = 0 THEN base ELSE Rung(i, N[i - 1])]
  <2> HIDE DEF Rung, base
  <2> QED BY <1>3
<1> DEFINE R == CHOOSE R : R = [i \in 0 .. Bits |-> IF i = 0 THEN base ELSE Rung(i, R[i - 1])]
<1>5. R = [i \in 0 .. Bits |-> IF i = 0 THEN base ELSE Rung(i, R[i - 1])]
  <2> HIDE DEF Rung, base
  <2> QED BY <1>4
<1>6. Ec!Ladder(c, k, pt) = R[Bits]
  BY DEF Ec!Ladder
<1> HIDE DEF R, Rung, base
<1>7. R[0] = base /\ \A i \in 1 .. Bits : R[i] = Rung(i, R[i - 1])
  BY <1>0, <1>5
<1> DEFINE S == {i \in 0 .. Bits : R[i] \in P}
<1>8. 0 .. Bits \subseteq S
  <2>1. 0 \in S
    BY <1>0, <1>7
  <2>2. ASSUME NEW i \in 1 .. Bits, i - 1 \in S PROVE i \in S
    <3>1. i \in 0 .. Bits /\ R[i - 1] \in P /\ i \in Nat
      BY <1>0, <2>2
    <3>2. Climb(c, k)[<<i, R[i - 1]>>] \in P
      BY <1>1, <3>1
    <3> QED
      BY <1>1, <1>7, <3>1, <3>2
  <2> HIDE DEF S
  <2> QED
    BY <1>0, <2>1, <2>2, InductionUpTo
<1>9. R \in [0 .. Bits -> P]
  BY <1>5, <1>8
<1>10. IsRecursion(R, base, Climb(c, k), Bits)
  <2>1. ASSUME NEW i \in 1 .. Bits PROVE R[i] = Climb(c, k)[<<i, R[i - 1]>>]
    <3>1. R[i - 1] \in P /\ i \in Nat
      BY <1>0, <1>9
    <3> QED
      BY <1>1, <1>7, <3>1
  <2> QED
    BY <1>7, <2>1 DEF IsRecursion
<1> QED
  BY <1>6, <1>9, <1>10 DEF IsLadder, P, base

\* The two points of a rung are the multiples by what the bits so far make, and
\* by one more.
LEMMA LadderClimbs ==
    ASSUME NEW c, SigningCurve(c), NEW pt \in Ec!Points(c) \ {Infinity},
           NEW k \in Nat, k < Ec!Width
    PROVE  Ec!ToAffine(c, Ec!Ladder(c, k, pt)[1]) = Ec!Times(c, k, pt)
<1> DEFINE T(h) == Ec!Times(c, h, pt)
           Aff(t) == Ec!ToAffine(c, t)
           H(i) == Ec!Shift(k, Bits - i)
<1>0. Bits \in Nat
  BY DEF SigningCurve, Numbered
<1>1. PICK R : IsLadder(R, c, k, pt)
  BY LadderSteps
<1>2. /\ R \in [0 .. Bits -> Pairs(c)]
      /\ R[0] = <<Ec!Identity, Ec!Project(c, pt)>>
      /\ \A i \in 1 .. Bits : R[i] = Climb(c, k)[<<i, R[i - 1]>>]
      /\ Ec!Ladder(c, k, pt) = R[Bits]
  BY <1>1 DEF IsLadder, IsRecursion
<1>3. /\ \A h \in Nat : T(h) \in Ec!Points(c)
      /\ T(0) = Infinity
      /\ \A a, b \in Nat : T(a + b) = Plus(c, T(a), T(b))
  BY TimesLaws, TimesOfSum
<1>4. T(1) = pt
  <2>1. T(0 + 1) = Plus(c, T(0), pt)
    BY TimesLaws DEF Plus
  <2> QED
    BY <1>3, <2>1, GroupLaws
<1>5. /\ \A i \in 0 .. Bits : H(i) \in Nat
      /\ H(0) = 0 /\ H(Bits) = k
      /\ \A i \in 1 .. Bits : H(i - 1) = H(i) \div 2
  <2>1. ASSUME NEW i \in 0 .. Bits PROVE H(i) \in Nat
    <3>1. Bits - i \in Nat
      BY <1>0
    <3> QED
      BY <3>1, ShiftLaws
  <2>2. H(0) = 0
    <3>1. Bits - 0 = Bits
      BY <1>0
    <3> QED
      BY <1>0, <3>1, WidthIsShifted
  <2>3. H(Bits) = k
    <3>1. Bits - Bits = 0
      BY <1>0
    <3> QED
      BY <3>1, ShiftLaws
  <2>4. ASSUME NEW i \in 1 .. Bits PROVE H(i - 1) = H(i) \div 2
    <3>1. Bits - (i - 1) = (Bits - i) + 1 /\ Bits - i \in Nat
      BY <1>0
    <3> QED
      BY <3>1, ShiftLaws
  <2> QED
    BY <2>1, <2>2, <2>3, <2>4
<1>6. \A i \in 1 .. Bits : Ec!Bit(k, Bits - i) = (H(i) % 2)
  BY DEF Ec!Bit
<1> HIDE DEF T, Aff, H
<1> DEFINE S == {i \in 0 .. Bits : Aff(R[i][1]) = T(H(i)) /\ Aff(R[i][2]) = T(H(i) + 1)}
<1>7. 0 \in S
  <2>1. Aff(Ec!Identity) = Infinity /\ Aff(Ec!Project(c, pt)) = pt
    BY ProjectedAndBack DEF Aff
  <2>2. R[0][1] = Ec!Identity /\ R[0][2] = Ec!Project(c, pt)
    BY <1>2
  <2>3. H(0) + 1 = 1 /\ 0 \in 0 .. Bits
    BY <1>0, <1>5
  <2> QED
    BY <1>3, <1>4, <1>5, <2>1, <2>2, <2>3
<1>8. ASSUME NEW i \in 1 .. Bits, i - 1 \in S PROVE i \in S
  <2> DEFINE r == R[i - 1]
             h == H(i - 1)
             A(t, u) == Ec!AddProjective(c, t, u)
  <2>1. i \in Nat /\ i \in 0 .. Bits /\ i - 1 \in 0 .. Bits
    BY <1>0
  <2>2. r \in Pairs(c) /\ r[1] \in Ec!Triples(c) /\ r[2] \in Ec!Triples(c)
    BY <1>2, <2>1 DEF Pairs
  <2>3. R[i] = IF Ec!Bit(k, Bits - i) = 1 THEN <<A(r[1], r[2]), A(r[2], r[2])>>
               ELSE <<A(r[1], r[1]), A(r[1], r[2])>>
    <3>1. R[i] = Climb(c, k)[<<i, r>>]
      BY <1>2
    <3>2. \A j \in Nat, x \in Pairs(c) :
             Climb(c, k)[<<j, x>>] = IF Ec!Bit(k, Bits - j) = 1 THEN <<A(x[1], x[2]), A(x[2], x[2])>>
                                     ELSE <<A(x[1], x[1]), A(x[1], x[2])>>
      BY Zenon, ClimbsInPairs
    <3> HIDE DEF r, A
    <3> QED
      BY <2>1, <2>2, <3>1, <3>2
  <2>4. Aff(r[1]) = T(h) /\ Aff(r[2]) = T(h + 1) /\ h \in Nat /\ H(i) \in Nat
    BY <1>5, <1>8, <2>1
  <2>5. /\ Aff(A(r[1], r[1])) = T(h + h)
        /\ Aff(A(r[1], r[2])) = T(h + (h + 1))
        /\ Aff(A(r[2], r[2])) = T((h + 1) + (h + 1))
    <3>1. \A t, u \in Ec!Triples(c) : Aff(A(t, u)) = Plus(c, Aff(t), Aff(u))
      BY AddedUp DEF Aff
    <3>2. h + 1 \in Nat
      BY <2>4
    <3> HIDE DEF A, r, h
    <3>3. Aff(A(r[1], r[1])) = Plus(c, T(h), T(h)) /\ Plus(c, T(h), T(h)) = T(h + h)
      BY <1>3, <2>2, <2>4, <3>1
    <3>4. Aff(A(r[1], r[2])) = Plus(c, T(h), T(h + 1)) /\ Plus(c, T(h), T(h + 1)) = T(h + (h + 1))
      BY <1>3, <2>2, <2>4, <3>1, <3>2
    <3>5. Aff(A(r[2], r[2])) = Plus(c, T(h + 1), T(h + 1)) /\ Plus(c, T(h + 1), T(h + 1)) = T((h + 1) + (h + 1))
      BY <1>3, <2>2, <2>4, <3>1, <3>2
    <3> QED
      BY <3>3, <3>4, <3>5
  <2>6. h = H(i) \div 2 /\ Ec!Bit(k, Bits - i) = (H(i) % 2)
    BY <1>5, <1>6
  <2> HIDE DEF r, h, A
  <2>7. CASE Ec!Bit(k, Bits - i) = 1
    <3>1. H(i) = h + (h + 1) /\ H(i) + 1 = (h + 1) + (h + 1)
      BY <2>4, <2>6, <2>7
    <3> QED
      BY <2>1, <2>3, <2>5, <2>7, <3>1
  <2>8. CASE Ec!Bit(k, Bits - i) # 1
    <3>1. H(i) = h + h /\ H(i) + 1 = h + (h + 1)
      BY <2>4, <2>6, <2>8
    <3> QED
      BY <2>1, <2>3, <2>5, <2>8, <3>1
  <2> QED
    BY <2>7, <2>8
<1>9. 0 .. Bits \subseteq S
  <2> HIDE DEF S
  <2> QED BY <1>0, <1>7, <1>8, InductionUpTo
<1>10. Aff(R[Bits][1]) = T(k)
  BY <1>0, <1>5, <1>9
<1> QED
  BY <1>2, <1>10 DEF T, Aff

\* The ladder multiplies: whatever the scalar, wider than the fixed width too,
\* and whatever the point, its product is that of repeated addition by chords
\* and tangents (ec.rs, mul).
THEOREM LadderMultiplies ==
    ASSUME NEW c, SigningCurve(c), NEW pt \in Ec!Points(c) \ {Infinity}, NEW k \in Nat
    PROVE  Ec!Mul(c, k, pt) = Ec!Times(c, k, pt)
<1>0. c.n \in Nat /\ c.n > 2 /\ c.n <= Ec!Width /\ Bits \in Nat
  BY DEF SigningCurve, Numbered, Ec!IsSigningCurve
<1>1. Ec!Width \in Nat
  BY <1>0, WidthSteps
<1>2. CASE k < Ec!Width
  BY <1>2, LadderClimbs DEF Ec!Mul, Ec!Scalar
<1>3. CASE ~ (k < Ec!Width)
  <2> DEFINE r == k % c.n
             q == k \div c.n
  <2>1. r \in Nat /\ r < c.n /\ q \in Nat /\ k = r + c.n * q
    BY <1>0
  <2> HIDE DEF q
  <2>2. r < Ec!Width
    BY <1>0, <1>1, <2>1
  <2>3. Ec!Mul(c, k, pt) = Ec!ToAffine(c, Ec!Ladder(c, r, pt)[1])
    BY <1>3 DEF Ec!Mul, Ec!Scalar
  <2> HIDE DEF r
  <2>4. Ec!Mul(c, k, pt) = Ec!Times(c, r, pt)
    BY <2>1, <2>2, <2>3, LadderClimbs
  <2>5. Ec!Times(c, r + c.n * q, pt) = Ec!Times(c, r, pt)
    BY <2>1, TimesIsPeriodic
  <2> QED
    BY <2>1, <2>4, <2>5
<1> QED
  BY <1>2, <1>3

LEMMA AddIsPlus ==
    ASSUME NEW c, SigningCurve(c), NEW x \in Ec!Points(c), NEW y \in Ec!Points(c)
    PROVE  Ec!Add(c, x, y) = Plus(c, x, y)
<1>1. /\ \A z \in Ec!Points(c) : Plus(c, z, Infinity) = z /\ Plus(c, Infinity, z) = z
  BY GroupLaws
<1>2. CASE x = Infinity
  <2>1. Ec!Add(c, x, y) = y
    BY Zenon, <1>2 DEF Ec!Add
  <2> QED
    BY <1>1, <1>2, <2>1
<1>3. CASE x # Infinity /\ y = Infinity
  <2>1. Ec!Add(c, x, y) = x
    BY Zenon, <1>3 DEF Ec!Add
  <2> QED
    BY <1>1, <1>3, <2>1
<1>4. CASE x # Infinity /\ y # Infinity
  <2> DEFINE t == Ec!Project(c, x)
             u == Ec!Project(c, y)
  <2>1. Ec!Add(c, x, y) = Ec!ToAffine(c, Ec!AddProjective(c, t, u))
    BY Zenon, <1>4 DEF Ec!Add
  <2>2. t \in Ec!Triples(c) /\ u \in Ec!Triples(c) /\ Ec!ToAffine(c, t) = x /\ Ec!ToAffine(c, u) = y
    BY <1>4, ProjectedAndBack
  <2> HIDE DEF t, u
  <2> QED
    BY <2>1, <2>2, AddedUp
<1> QED
  BY <1>2, <1>3, <1>4

LEMMA PowerIsNat ==
    ASSUME NEW m \in Nat, m > 1, NEW x \in Nat, NEW e \in Nat
    PROVE  Ec!Power(x, e, m) \in Nat
<1> DEFINE Step == [y \in Nat \X Nat |-> (y[2] * x) % m]
<1>0. \A b \in Nat : (b * x) \in Nat /\ ((b * x) % m) \in Nat
  OBVIOUS
<1>1. Step \in [Nat \X Nat -> Nat] /\ \A a, b \in Nat : Step[<<a, b>>] = (b * x) % m
  BY <1>0
<1>2. 1 % m \in Nat
  OBVIOUS
<1> HIDE DEF Step
<1>3. PICK N \in [0 .. e -> Nat] : IsRecursion(N, 1 % m, Step, e)
  BY <1>1, <1>2, RecursionUpTo
<1>4. ASSUME NEW j \in 0 .. e PROVE N[j] = IF j = 0 THEN 1 % m ELSE (N[j - 1] * x) % m
  <2>1. CASE j = 0
    BY <1>3, <2>1 DEF IsRecursion
  <2>2. CASE j # 0
    <3>1. j \in 1 .. e /\ N[j - 1] \in Nat /\ j \in Nat
      BY <2>2
    <3> QED
      BY <1>1, <1>3, <2>2, <3>1 DEF IsRecursion
  <2> QED
    BY <2>1, <2>2
<1>5. N = [j \in 0 .. e |-> IF j = 0 THEN 1 % m ELSE (N[j - 1] * x) % m]
  BY <1>4
<1> DEFINE P == CHOOSE P : P = [j \in 0 .. e |-> IF j = 0 THEN 1 % m ELSE (P[j - 1] * x) % m]
<1>6. P = [j \in 0 .. e |-> IF j = 0 THEN 1 % m ELSE (P[j - 1] * x) % m]
  BY <1>5
<1>7. Ec!Power(x, e, m) = P[e]
  BY DEF Ec!Power
<1> HIDE DEF P
<1>8. P[0] = 1 % m /\ \A j \in 1 .. e : P[j] = (P[j - 1] * x) % m
  BY <1>6
<1> DEFINE R == {j \in 0 .. e : P[j] \in Nat}
<1>9. 0 .. e \subseteq R
  <2>1. 0 \in R
    BY <1>2, <1>8
  <2>2. ASSUME NEW j \in 1 .. e, j - 1 \in R PROVE j \in R
    <3>1. j \in 0 .. e /\ P[j - 1] \in Nat
      BY <2>2
    <3>2. ((P[j - 1] * x) % m) \in Nat
      BY <1>0, <3>1
    <3> QED
      BY <1>8, <3>1, <3>2
  <2> HIDE DEF R
  <2> QED
    BY <2>1, <2>2, InductionUpTo
<1> QED
  BY <1>7, <1>9

\* What a number leaves over the order, and how often it goes.
LEMMA Remainder ==
    ASSUME NEW n \in Nat, n > 2, NEW a \in Nat
    PROVE  \E q \in Nat : a = (a % n) + n * q /\ (a % n) \in 0 .. n - 1
<1>1. a \div n \in Nat /\ a = (a % n) + n * (a \div n) /\ (a % n) \in 0 .. n - 1
  OBVIOUS
<1> QED
  BY <1>1

LEMMA RemainderIsOne ==
    ASSUME NEW n \in Nat, n > 2, NEW s \in 0 .. n - 1, NEW q \in Int
    PROVE  (s + n * q) % n = s
OBVIOUS

LEMMA InverseOf ==
    ASSUME NEW c, SigningCurve(c), NEW x \in 1 .. c.n - 1
    PROVE  \E v \in Nat, q \in Nat : v = Ec!Power(x, c.n - 2, c.n) /\ x * v = 1 + c.n * q
<1> DEFINE v == Ec!Power(x, c.n - 2, c.n)
           n == c.n
<1>1. n \in Nat /\ n > 2 /\ x \in Nat /\ n > 1 /\ n - 2 \in Nat
  BY DEF SigningCurve, Numbered, Ec!IsSigningCurve
<1>2. v \in Nat
  BY <1>1, PowerIsNat
<1>3. ((x * v) % n) = 1
  BY DEF SigningCurve, Ec!IsSigningCurve, Ec!HasInverses
<1> HIDE DEF v, n
<1>4. PICK q \in Nat : x * v = ((x * v) % n) + n * q
  <2>1. x * v \in Nat
    BY <1>1, <1>2
  <2> QED
    BY <1>1, <2>1, Remainder
<1> QED
  BY <1>2, <1>3, <1>4 DEF v, n

LEMMA NeverInfinity ==
    ASSUME NEW c, SigningCurve(c), NEW d \in 1 .. c.n - 1
    PROVE  Ec!Times(c, d, c.g) \in Ec!Points(c) \ {Infinity}
<1>0. c.n \in Nat /\ d \in Nat /\ c.g \in Ec!Points(c) \ {Infinity}
  BY DEF SigningCurve, Numbered, Ec!IsSigningCurve, Ec!IsCyclic
<1>1. Ec!Times(c, d, c.g) \in Ec!Points(c)
  BY <1>0, TimesLaws
<1>2. ASSUME Ec!Times(c, d, c.g) = Infinity PROVE FALSE
  <2>1. PICK v \in Nat, q \in Nat : d * v = 1 + c.n * q
    BY InverseOf
  <2>2. Ec!Times(c, v, Infinity) = Ec!Times(c, d * v, c.g)
    BY <1>0, <1>2, TimesOfProduct
  <2>3. Ec!Times(c, 1 + c.n * q, c.g) = Ec!Times(c, 1, c.g)
    BY <1>0, TimesIsPeriodic
  <2>4. Ec!Times(c, 0 + 1, c.g) = Plus(c, Infinity, c.g)
    BY <1>0, TimesLaws DEF Plus
  <2>5. Plus(c, Infinity, c.g) = c.g
    BY <1>0, GroupLaws
  <2>6. Ec!Times(c, v, Infinity) = Infinity
    BY TimesOfInfinity
  <2> QED
    BY <1>0, <2>1, <2>2, <2>3, <2>4, <2>5, <2>6
<1> QED
  BY <1>1, <1>2

\* The numbers of verify, of a signature <<s, r>>.
Z1(c, e, s) == (s * Ec!Power(e, c.n - 2, c.n)) % c.n
Z2(c, e, r) == (c.n - ((r * Ec!Power(e, c.n - 2, c.n)) % c.n)) % c.n

LEMMA NumbersOfVerify ==
    ASSUME NEW c, SigningCurve(c), NEW e \in 1 .. c.n - 1, NEW s \in Nat, NEW r \in Nat
    PROVE  /\ Z1(c, e, s) \in Nat /\ Z2(c, e, r) \in Nat
           /\ \E a, b \in Int : /\ Z1(c, e, s) * e = s + c.n * a
                                /\ Z2(c, e, r) * e = c.n * b - r
<1> DEFINE n == c.n
<1>0. n \in Nat /\ n > 2 /\ e \in Nat
  BY DEF SigningCurve, Numbered, Ec!IsSigningCurve
<1>1. PICK v \in Nat, q \in Nat : v = Ec!Power(e, n - 2, n) /\ e * v = 1 + n * q
  BY InverseOf
<1> HIDE DEF n
<1> DEFINE z == (s * v) % n
           w == (r * v) % n
           y == (n - w) % n
<1>2. PICK i \in Nat : s * v = z + n * i /\ z \in 0 .. n - 1
  <2>1. s * v \in Nat
    OBVIOUS
  <2> QED
    BY <1>0, <2>1, Remainder
<1>3. PICK j \in Nat : r * v = w + n * j /\ w \in 0 .. n - 1
  <2>1. r * v \in Nat
    OBVIOUS
  <2> QED
    BY <1>0, <2>1, Remainder
<1> HIDE DEF z, w
<1>4. PICK k \in Nat : n - w = y + n * k /\ y \in 0 .. n - 1
  <2>1. n - w \in Nat
    BY <1>0, <1>3
  <2> QED
    BY <1>0, <2>1, Remainder
<1> HIDE DEF y
<1>5. z \in Nat /\ w \in Nat /\ y \in Nat
  BY <1>0, <1>2, <1>3, <1>4
<1>6. z * e = s + n * (s * q - i * e)
  <2>1. z = s * v - n * i
    BY <1>0, <1>2, <1>5
  <2>2. z * e = s * (e * v) - n * (i * e)
    BY <1>0, <2>1
  <2>3. s * (e * v) = s + n * (s * q)
    BY <1>0, <1>1
  <2> QED
    BY <1>0, <2>2, <2>3
<1>7. y * e = n * (e - k * e + j * e - r * q) - r
  <2>1. y = n - n * k - r * v + n * j
    BY <1>0, <1>3, <1>4, <1>5
  <2>2. y * e = n * e - n * (k * e) - r * (e * v) + n * (j * e)
    BY <1>0, <2>1
  <2>3. r * (e * v) = r + n * (r * q)
    BY <1>0, <1>1
  <2> QED
    BY <1>0, <2>2, <2>3
<1>8. Z1(c, e, s) = z /\ Z2(c, e, r) = y
  BY <1>1 DEF Z1, Z2, z, y, w, n
<1>9. s * q - i * e \in Int /\ e - k * e + j * e - r * q \in Int
  BY <1>0
<1> QED
  BY <1>5, <1>6, <1>7, <1>8, <1>9 DEF n

\* What verify adds up is the multiple of the base point by one number.
LEMMA VerifiedPoint ==
    ASSUME NEW c, SigningCurve(c), NEW e \in 1 .. c.n - 1, NEW s \in Nat, NEW r \in Nat,
           NEW d \in 1 .. c.n - 1
    PROVE  LET z1 == Z1(c, e, s)
               z2 == Z2(c, e, r)
               q == Ec!Times(c, d, c.g)
           IN  Ec!Add(c, Ec!BaseMul(c, z1), Ec!Mul(c, z2, q)) = Ec!Times(c, z1 + d * z2, c.g)
<1> DEFINE z1 == Z1(c, e, s)
           z2 == Z2(c, e, r)
           q == Ec!Times(c, d, c.g)
<1>1. z1 \in Nat /\ z2 \in Nat
  BY NumbersOfVerify
<1>2. d \in Nat /\ c.g \in Ec!Points(c) \ {Infinity} /\ q \in Ec!Points(c) \ {Infinity}
  BY NeverInfinity DEF SigningCurve, Numbered, Ec!IsSigningCurve, Ec!IsCyclic
<1> HIDE DEF z1, z2
<1>3. Ec!BaseMul(c, z1) = Ec!Times(c, z1, c.g)
  BY <1>1, <1>2, LadderMultiplies DEF Ec!BaseMul
<1>4. Ec!Mul(c, z2, q) = Ec!Times(c, d * z2, c.g)
  <2>1. Ec!Mul(c, z2, q) = Ec!Times(c, z2, q)
    <3> HIDE DEF q
    <3> QED BY <1>1, <1>2, LadderMultiplies
  <2>2. Ec!Times(c, z2, Ec!Times(c, d, c.g)) = Ec!Times(c, d * z2, c.g)
    <3>1. c.g \in Ec!Points(c)
      BY <1>2
    <3>2. \A a, b \in Nat : Ec!Times(c, b, Ec!Times(c, a, c.g)) = Ec!Times(c, a * b, c.g)
      BY <3>1, TimesOfProduct
    <3> QED
      BY <1>1, <1>2, <3>2
  <2> QED
    BY <2>1, <2>2 DEF q
<1>5. d * z2 \in Nat
  BY <1>1, <1>2
<1>6. Ec!Times(c, z1, c.g) \in Ec!Points(c) /\ Ec!Times(c, d * z2, c.g) \in Ec!Points(c)
  BY <1>1, <1>2, <1>5, TimesLaws
<1>7. Ec!Times(c, z1 + d * z2, c.g) = Plus(c, Ec!Times(c, z1, c.g), Ec!Times(c, d * z2, c.g))
  BY <1>1, <1>2, <1>5, TimesOfSum
<1> QED
  BY <1>3, <1>4, <1>6, <1>7, AddIsPlus DEF z1, z2

LEMMA HashIsUnit ==
    ASSUME NEW c, SigningCurve(c), NEW hash \in Nat
    PROVE  Ec!HashToE(c.n, hash) \in 1 .. c.n - 1
<1>1. c.n \in Nat /\ c.n > 2
  BY DEF SigningCurve, Numbered, Ec!IsSigningCurve
<1> DEFINE n == c.n
<1> HIDE DEF n
<1>2. n \in Nat /\ n > 2
  BY <1>1 DEF n
<1>3. (hash % n) \in 0 .. n - 1
  BY <1>2
<1>4. Ec!HashToE(n, hash) \in 1 .. n - 1
  BY <1>2, <1>3 DEF Ec!HashToE
<1> QED
  BY <1>4 DEF n

\* A factor with an inverse is cancelled modulo the order.
LEMMA Cancelled ==
    ASSUME NEW n \in Nat, n > 2, NEW e \in Nat, NEW v \in Nat, NEW w \in Nat, e * v = 1 + n * w,
           NEW x \in Nat, NEW k \in 0 .. n - 1, NEW j \in Int, x * e = k * e + n * j
    PROVE  x % n = k
<1>0. k \in Nat
  OBVIOUS
<1>1. x * (e * v) = x + n * (x * w) /\ k * (e * v) = k + n * (k * w)
  BY <1>0
<1>2. x * (e * v) = k * (e * v) + n * (j * v)
  BY <1>0
<1> DEFINE y == k * w + j * v - x * w
<1>3. x = k + n * y
  BY <1>0, <1>1, <1>2
<1>4. y \in Int
  BY <1>0
<1> HIDE DEF y
<1> QED
  BY <1>3, <1>4, RemainderIsOne

\* The point verify compares with r.
Verified(c, e, q, sig) ==
    Ec!Add(c, Ec!BaseMul(c, Z1(c, e, sig[1])), Ec!Mul(c, Z2(c, e, sig[2]), q))

LEMMA VerifyCompares ==
    ASSUME NEW c, NEW q, NEW hash, NEW sig
    PROVE  LET pt == Verified(c, Ec!HashToE(c.n, hash), q, sig)
           IN  Ec!Verify(c, q, hash, sig) <=>
                   Ec!InRange(c, sig) /\ Ec!IsOnCurve(c, q) /\ pt # Infinity /\ pt[1] % c.n = sig[2]
  BY Zenon DEF Verified, Z1, Z2, Ec!Verify

\* What sig says of a nonce k and a private key d, e being the hash.
Signs(c, e, d, k, sig) ==
    /\ sig[2] = Ec!Times(c, k, c.g)[1] % c.n /\ sig[2] # 0
    /\ sig[1] = (sig[2] * d + k * e) % c.n /\ sig[1] # 0

LEMMA SignatureHasNonce ==
    ASSUME NEW c, NEW q, NEW hash, NEW sig
    PROVE  Ec!IsSignature(c, q, hash, sig) <=>
               \E d, k \in 1 .. c.n - 1 :
                   Ec!Times(c, d, c.g) = q /\ Signs(c, Ec!HashToE(c.n, hash), d, k, sig)
  BY DEF Signs, Ec!IsSignature

\* Number by number, verify's equation is the standard's.
LEMMA VerifiedHasNonce ==
    ASSUME NEW c, SigningCurve(c), NEW e \in 1 .. c.n - 1, NEW d \in 1 .. c.n - 1,
           NEW sig \in Nat \X Nat, Ec!InRange(c, sig),
           NEW pt, pt = Verified(c, e, Ec!Times(c, d, c.g), sig),
           pt # Infinity, pt[1] % c.n = sig[2]
    PROVE  \E k \in 1 .. c.n - 1 : Signs(c, e, d, k, sig)
<1> DEFINE n == c.n
           s == sig[1]
           r == sig[2]
           z1 == Z1(c, e, s)
           z2 == Z2(c, e, r)
           x == z1 + d * z2
           k == x % n
<1>0. n \in Nat /\ n > 2 /\ s \in 1 .. n - 1 /\ r \in 1 .. n - 1 /\ s \in Nat /\ r \in Nat
      /\ e \in Nat /\ d \in Nat /\ c.g \in Ec!Points(c)
  BY GroupLaws DEF SigningCurve, Numbered, Ec!IsSigningCurve, Ec!InRange
<1>1. z1 \in Nat /\ z2 \in Nat
      /\ \E a, b \in Int : z1 * e = s + n * a /\ z2 * e = n * b - r
  <2>1. \A i, l \in Nat :
            /\ Z1(c, e, i) \in Nat /\ Z2(c, e, l) \in Nat
            /\ \E a, b \in Int : Z1(c, e, i) * e = i + c.n * a /\ Z2(c, e, l) * e = c.n * b - l
    BY NumbersOfVerify
  <2>2. s \in Nat /\ r \in Nat
    BY <1>0
  <2> HIDE DEF s, r
  <2> QED BY <2>1, <2>2
<1>2. pt = Ec!Times(c, x, c.g)
  <2> HIDE DEF s, r
  <2>1. Ec!Add(c, Ec!BaseMul(c, z1), Ec!Mul(c, z2, Ec!Times(c, d, c.g))) = Ec!Times(c, x, c.g)
    BY <1>0, VerifiedPoint
  <2> QED BY <2>1 DEF Verified, s, r
<1>3. PICK a \in Int, b \in Int : z1 * e = s + n * a /\ z2 * e = n * b - r
  BY <1>1
<1> HIDE DEF z1, z2
<1>4. x \in Nat
  BY <1>0, <1>1
<1>5. x * e = s + n * (a + d * b) - d * r
  <2>1. x * e = z1 * e + d * (z2 * e)
    BY <1>0, <1>1
  <2>2. d * (z2 * e) = n * (d * b) - d * r
    BY <1>0, <1>3
  <2> HIDE DEF x, s, r, n
  <2> QED
    BY <1>0, <1>3, <2>1, <2>2
<1> HIDE DEF x, s, r, n
<1>6. PICK m \in Nat : x = k + n * m /\ k \in 0 .. n - 1
  BY <1>0, <1>4, Remainder
<1> HIDE DEF k
<1>7. Ec!Times(c, x, c.g) = Ec!Times(c, k, c.g)
  <2>1. k \in Nat
    BY <1>0, <1>6
  <2>2. Ec!Times(c, k + c.n * m, c.g) = Ec!Times(c, k, c.g)
    BY <1>0, <2>1, TimesIsPeriodic
  <2> QED
    BY <1>6, <2>2 DEF n
<1>8. k # 0
  BY <1>0, <1>2, <1>7, TimesLaws
<1>9. (r * d + k * e) % n = s
  <2>1. x * e = k * e + n * (m * e)
    BY <1>0, <1>6
  <2>2. r * d + k * e = s + n * (a + d * b - m * e)
    BY <1>0, <1>5, <2>1, <1>6
  <2>3. a + d * b - m * e \in Int /\ s \in 0 .. n - 1
    BY <1>0
  <2>4. (s + n * (a + d * b - m * e)) % n = s
    BY <1>0, <2>3, RemainderIsOne
  <2> QED
    BY <2>2, <2>4
<1>10. k \in 1 .. c.n - 1 /\ r # 0 /\ s # 0
  BY <1>0, <1>6, <1>8 DEF n
<1>11. r = Ec!Times(c, k, c.g)[1] % c.n
  BY <1>2, <1>7 DEF r
<1> QED
  BY <1>9, <1>10, <1>11 DEF Signs, s, r, n

LEMMA NonceIsVerified ==
    ASSUME NEW c, SigningCurve(c), NEW e \in 1 .. c.n - 1,
           NEW d \in 1 .. c.n - 1, NEW k \in 1 .. c.n - 1,
           NEW sig \in Nat \X Nat, Signs(c, e, d, k, sig)
    PROVE  Verified(c, e, Ec!Times(c, d, c.g), sig) = Ec!Times(c, k, c.g)
<1> DEFINE n == c.n
           s == sig[1]
           r == sig[2]
           z1 == Z1(c, e, s)
           z2 == Z2(c, e, r)
           x == z1 + d * z2
<1>0. n \in Nat /\ n > 2 /\ s \in Nat /\ r \in Nat
      /\ e \in Nat /\ d \in Nat /\ k \in Nat /\ c.g \in Ec!Points(c)
  BY GroupLaws DEF SigningCurve, Numbered, Ec!IsSigningCurve
<1>1. z1 \in Nat /\ z2 \in Nat
      /\ \E a, b \in Int : z1 * e = s + n * a /\ z2 * e = n * b - r
  <2>1. \A i, l \in Nat :
            /\ Z1(c, e, i) \in Nat /\ Z2(c, e, l) \in Nat
            /\ \E a, b \in Int : Z1(c, e, i) * e = i + c.n * a /\ Z2(c, e, l) * e = c.n * b - l
    BY NumbersOfVerify
  <2>2. s \in Nat /\ r \in Nat
    BY <1>0
  <2> HIDE DEF s, r
  <2> QED BY <2>1, <2>2
<1>2. Verified(c, e, Ec!Times(c, d, c.g), sig) = Ec!Times(c, x, c.g)
  <2> HIDE DEF s, r
  <2>1. Ec!Add(c, Ec!BaseMul(c, z1), Ec!Mul(c, z2, Ec!Times(c, d, c.g))) = Ec!Times(c, x, c.g)
    BY <1>0, VerifiedPoint
  <2> QED BY <2>1 DEF Verified, s, r
<1>3. PICK a \in Int, b \in Int : z1 * e = s + n * a /\ z2 * e = n * b - r
  BY <1>1
<1>4. PICK v \in Nat, w \in Nat : e * v = 1 + n * w
  BY InverseOf
<1>5. s = (r * d + k * e) % n
  BY DEF Signs
<1> HIDE DEF z1, z2
<1>6. x \in Nat
  BY <1>0, <1>1
<1>7. x * e = s + n * (a + d * b) - d * r
  <2>1. x * e = z1 * e + d * (z2 * e)
    BY <1>0, <1>1
  <2>2. d * (z2 * e) = n * (d * b) - d * r
    BY <1>0, <1>3
  <2> HIDE DEF x, s, r, n
  <2> QED
    BY <1>0, <1>3, <2>1, <2>2
<1> HIDE DEF x, s, r, n
<1>8. PICK j \in Nat : r * d + k * e = s + n * j
  <2> DEFINE y == r * d + k * e
  <2>1. y \in Nat
    BY <1>0
  <2>2. s = y % n
    BY <1>5 DEF s, r, n
  <2> HIDE DEF y
  <2>3. \E j \in Nat : y = (y % n) + n * j
    <3>1. n \in Nat /\ n > 2
      BY <1>0
    <3> HIDE DEF n
    <3> QED
      BY <2>1, <3>1, Remainder
  <2> QED
    BY <2>2, <2>3 DEF y
<1>9. x * e = k * e + n * (a + d * b - j)
  BY <1>0, <1>7, <1>8
<1>10. k \in 0 .. n - 1 /\ a + d * b - j \in Int
  BY <1>0 DEF n
<1>11. PICK m \in Nat : x = k + n * m
  <2> DEFINE i == a + d * b - j
  <2>1. x * e = k * e + n * i /\ i \in Int
    BY <1>9, <1>10
  <2> HIDE DEF i
  <2> QED
    <3>1. n \in Nat /\ n > 2 /\ e \in Nat /\ k \in 0 .. n - 1 /\ e * v = 1 + n * w
      BY <1>0, <1>4, <1>10 DEF n
    <3>2. x % n = k
      BY <1>6, <2>1, <3>1, Cancelled
    <3>3. \E m \in Nat : x = (x % n) + n * m
      BY ZenonT(40), <1>6, <3>1, Remainder
    <3> QED
      BY <3>2, <3>3
<1>12. Ec!Times(c, k + c.n * m, c.g) = Ec!Times(c, k, c.g)
  BY <1>0, TimesIsPeriodic
<1> QED
  BY <1>2, <1>11, <1>12 DEF n

\* gost3410.rs's verify accepts exactly the signatures of the standard: the pairs that some nonce
\* makes of the hash under the private key of the public key, whatever number the hash is and
\* whatever pair is sent.  The curve is one to sign with.
THEOREM VerifiesExactly ==
    ASSUME NEW c, SigningCurve(c), NEW q \in Nat \X Nat, NEW hash \in Nat, NEW sig \in Nat \X Nat
    PROVE  Ec!Verify(c, q, hash, sig) <=> Ec!IsSignature(c, q, hash, sig)
<1> DEFINE e == Ec!HashToE(c.n, hash)
           pt == Verified(c, e, q, sig)
<1>0. e \in 1 .. c.n - 1
  BY HashIsUnit
<1>1. Ec!Verify(c, q, hash, sig) <=>
          Ec!InRange(c, sig) /\ Ec!IsOnCurve(c, q) /\ pt # Infinity /\ pt[1] % c.n = sig[2]
  BY VerifyCompares
<1>2. Ec!IsSignature(c, q, hash, sig) <=>
          \E d, k \in 1 .. c.n - 1 : Ec!Times(c, d, c.g) = q /\ Signs(c, e, d, k, sig)
  BY SignatureHasNonce
<1> HIDE DEF e
<1>3. ASSUME Ec!InRange(c, sig), Ec!IsOnCurve(c, q), pt # Infinity, pt[1] % c.n = sig[2]
      PROVE  \E d, k \in 1 .. c.n - 1 : Ec!Times(c, d, c.g) = q /\ Signs(c, e, d, k, sig)
  <2>1. q \in Ec!Points(c) \ {Infinity}
    <3>1. q[1] \in 0 .. c.p - 1 /\ q[2] \in 0 .. c.p - 1
      BY <1>3 DEF Ec!IsOnCurve, SigningCurve, Numbered
    <3>2. q \in (0 .. c.p - 1) \X (0 .. c.p - 1) /\ q # Infinity
      BY <3>1 DEF SigningCurve, Numbered
    <3> QED
      BY <1>3, <3>2 DEF Ec!Points
  <2>2. PICK d \in 1 .. c.n - 1 : q = Ec!Times(c, d, c.g)
    BY <2>1, GroupLaws
  <2>3. \E k \in 1 .. c.n - 1 : Signs(c, e, d, k, sig)
    BY <1>0, <1>3, <2>2, VerifiedHasNonce
  <2> QED
    BY <2>2, <2>3
<1>4. ASSUME NEW d \in 1 .. c.n - 1, NEW k \in 1 .. c.n - 1,
             Ec!Times(c, d, c.g) = q, Signs(c, e, d, k, sig)
      PROVE  Ec!InRange(c, sig) /\ Ec!IsOnCurve(c, q) /\ pt # Infinity /\ pt[1] % c.n = sig[2]
  <2>1. pt = Ec!Times(c, k, c.g)
    BY <1>0, <1>4, NonceIsVerified
  <2>2. q \in Ec!Points(c) \ {Infinity} /\ Ec!Times(c, k, c.g) \in Ec!Points(c) \ {Infinity}
    BY <1>4, NeverInfinity
  <2>3. Ec!IsOnCurve(c, q)
    BY <2>2 DEF Ec!Points
  <2>4. pt # Infinity /\ pt[1] % c.n = sig[2]
    BY <1>4, <2>1, <2>2 DEF Signs
  <2>5. Ec!InRange(c, sig)
    <3> DEFINE n == c.n
               x == Ec!Times(c, k, c.g)[1]
               y == sig[2] * d + k * e
    <3>1. n \in Nat /\ n > 2 /\ x \in Nat /\ y \in Nat /\ sig[1] \in Nat /\ sig[2] \in Nat
      <4>1. c.n \in Nat /\ c.n > 2 /\ c.p \in Nat
        BY DEF SigningCurve, Numbered, Ec!IsSigningCurve
      <4>2. Ec!Times(c, k, c.g) \in (0 .. c.p - 1) \X (0 .. c.p - 1)
        BY <2>2 DEF Ec!Points
      <4>3. e \in Nat /\ d \in Nat /\ k \in Nat /\ sig[2] \in Nat
        BY <1>0, <4>1
      <4> QED
        BY <4>1, <4>2, <4>3
    <3>2. sig[2] = x % n /\ sig[2] # 0 /\ sig[1] = y % n /\ sig[1] # 0
      BY <1>4 DEF Signs
    <3> HIDE DEF n, x, y
    <3>3. (x % n) \in 0 .. n - 1 /\ (y % n) \in 0 .. n - 1
      BY <3>1
    <3>4. sig[1] \in 1 .. n - 1 /\ sig[2] \in 1 .. n - 1
      BY <3>1, <3>2, <3>3
    <3> QED
      BY <3>4 DEF Ec!InRange, n
  <2> QED
    BY <2>3, <2>4, <2>5
<1> QED
  BY <1>1, <1>2, <1>3, <1>4

LEMMA SignedIsSignature ==
    ASSUME NEW c, SigningCurve(c), NEW hash \in Nat,
           NEW d \in 1 .. c.n - 1, NEW k \in 1 .. c.n - 1,
           Ec!SignWithK(c, d, Ec!HashToE(c.n, hash), k) # <<>>
    PROVE  LET q == Ec!Times(c, d, c.g)
               sig == Ec!SignWithK(c, d, Ec!HashToE(c.n, hash), k)
           IN  /\ Ec!IsSignature(c, q, hash, sig)
               /\ sig \in Nat \X Nat /\ q \in Nat \X Nat /\ Ec!BaseMul(c, d) = q
<1> DEFINE e == Ec!HashToE(c.n, hash)
           n == c.n
           pt == Ec!BaseMul(c, k)
           r == pt[1] % n
           s == (r * d + k * e) % n
           sig == Ec!SignWithK(c, d, e, k)
<1>0. n \in Nat /\ n > 2 /\ c.p \in Nat /\ e \in Nat /\ d \in Nat /\ k \in Nat
      /\ c.g \in Ec!Points(c) \ {Infinity}
  BY HashIsUnit DEF SigningCurve, Numbered, Ec!IsSigningCurve, Ec!IsCyclic
<1>1. Ec!BaseMul(c, d) = Ec!Times(c, d, c.g) /\ pt = Ec!Times(c, k, c.g)
  BY <1>0, LadderMultiplies DEF Ec!BaseMul
<1>2. Ec!Times(c, d, c.g) \in Ec!Points(c) \ {Infinity} /\ pt \in Ec!Points(c) \ {Infinity}
  BY <1>1, NeverInfinity
<1>3. sig = <<s, r>> /\ r # 0 /\ s # 0
  BY <1>2 DEF Ec!SignWithK, Ec!MulAddModN
<1>4. sig \in Nat \X Nat /\ Ec!Times(c, d, c.g) \in Nat \X Nat
  <2>1. pt[1] \in Nat /\ Ec!Times(c, d, c.g) \in Nat \X Nat
    BY <1>0, <1>2 DEF Ec!Points
  <2> HIDE DEF n, e, pt
  <2>2. r \in Nat
    BY <1>0, <2>1
  <2> HIDE DEF r
  <2>3. r * d + k * e \in Nat
    BY <1>0, <2>2
  <2>4. s \in Nat
    BY <1>0, <2>3
  <2> QED
    BY <1>3, <2>1, <2>2, <2>4
<1>5. Signs(c, e, d, k, sig)
  BY <1>1, <1>3 DEF Signs
<1>6. Ec!IsSignature(c, Ec!Times(c, d, c.g), hash, sig)
  BY <1>5, SignatureHasNonce
<1> QED
  BY <1>1, <1>4, <1>6

\* What gost3410.rs signs under a nonce verifies under the public key of the same private key,
\* whatever the hash: sign_with_k gives up (<<>>) on no nonce whose signature would not.
THEOREM SignedVerifies ==
    ASSUME NEW c, SigningCurve(c), NEW hash \in Nat,
           NEW d \in 1 .. c.n - 1, NEW k \in 1 .. c.n - 1,
           Ec!SignWithK(c, d, Ec!HashToE(c.n, hash), k) # <<>>
    PROVE  Ec!Verify(c, Ec!BaseMul(c, d), hash, Ec!SignWithK(c, d, Ec!HashToE(c.n, hash), k))
<1> DEFINE q == Ec!Times(c, d, c.g)
           sig == Ec!SignWithK(c, d, Ec!HashToE(c.n, hash), k)
<1>1. /\ Ec!IsSignature(c, q, hash, sig)
      /\ sig \in Nat \X Nat /\ q \in Nat \X Nat /\ Ec!BaseMul(c, d) = q
  BY SignedIsSignature
<1> HIDE DEF q, sig
<1>2. Ec!Verify(c, q, hash, sig)
  BY <1>1, VerifiesExactly
<1> QED
  BY <1>1, <1>2 DEF sig

-----------------------------------------------------------------------------
(* Discovery. *)

\* A file system whose directories are sequences of names.
FileSystem(fs, Name) == fs.dirs \subseteq Seq(Name) /\ DSKEYS \in Name /\ DSKEYS # ""

LEMMA DisksAreDirectories ==
    ASSUME NEW fs, NEW Name, FileSystem(fs, Name)
    PROVE  Files!ListDisks(fs) \subseteq Seq(Name)
BY Zenon DEF Files!ListDisks, FileSystem

\* An entry of a file in the disk, or in its DSKEYS.
Entry(disk, path, f, a) ==
    [disk |-> disk, path |-> path, name |-> f.stem, alias |-> a, file |-> f]
EntryOn(fs, kind, disk, i) ==
    \E path \in {"", DSKEYS}, f \in fs.files : \E a \in Files!EntriesOf(f, kind) :
        /\ f.dir = Files!Below(disk, path) /\ Files!HasExtension(f, kind)
        /\ i = Entry(disk, path, f, a)

LEMMA Scanned ==
    ASSUME NEW fs, NEW kind, NEW disk, NEW i
    PROVE  i \in Files!ScanDisk(fs, kind, disk) <=> EntryOn(fs, kind, disk, i)
<1> DEFINE On(path) == {f \in fs.files : f.dir = Files!Below(disk, path) /\ Files!HasExtension(f, kind)}
           Of(path, f) == {Entry(disk, path, f, a) : a \in Files!EntriesOf(f, kind)}
           At(path) == UNION {Of(path, f) : f \in On(path)}
<1>1. Files!ScanDisk(fs, kind, disk) = UNION {At(path) : path \in {"", DSKEYS}}
  BY DEF Files!ScanDisk, Entry
<1>2. i \in Files!ScanDisk(fs, kind, disk) <=> \E path \in {"", DSKEYS} : i \in At(path)
  <2> HIDE DEF At
  <2> QED BY Zenon, <1>1
<1>3. \A path : i \in At(path) <=> \E f \in On(path) : i \in Of(path, f)
  <2> HIDE DEF On, Of
  <2> QED OBVIOUS
<1>4. \A path, f : i \in Of(path, f) <=> \E a \in Files!EntriesOf(f, kind) : i = Entry(disk, path, f, a)
  OBVIOUS
<1>5. \A path, f : f \in On(path) <=> f \in fs.files /\ f.dir = Files!Below(disk, path) /\ Files!HasExtension(f, kind)
  OBVIOUS
<1> HIDE DEF On, Of, At
<1>6. ASSUME i \in Files!ScanDisk(fs, kind, disk) PROVE EntryOn(fs, kind, disk, i)
  <2>1. PICK path \in {"", DSKEYS} : i \in At(path)
    BY Zenon, <1>2, <1>6
  <2>2. PICK f \in On(path) : i \in Of(path, f)
    BY Zenon, <1>3, <2>1
  <2>3. PICK a \in Files!EntriesOf(f, kind) : i = Entry(disk, path, f, a)
    BY Zenon, <1>4, <2>2
  <2> QED
    BY Zenon, <1>5, <2>3 DEF EntryOn
<1>7. ASSUME EntryOn(fs, kind, disk, i) PROVE i \in Files!ScanDisk(fs, kind, disk)
  <2>1. PICK path \in {"", DSKEYS}, f \in fs.files : \E a \in Files!EntriesOf(f, kind) :
           /\ f.dir = Files!Below(disk, path) /\ Files!HasExtension(f, kind)
           /\ i = Entry(disk, path, f, a)
    BY Zenon, <1>7 DEF EntryOn
  <2>2. f \in On(path) /\ i \in Of(path, f)
    BY Zenon, <1>4, <1>5, <2>1
  <2> QED
    BY Zenon, <1>2, <1>3, <2>2
<1> QED
  BY <1>6, <1>7

\* What is found anywhere, as Scan has it before it leaves out what it finds
\* twice.
Found(fs, kind) == UNION {Files!ScanDisk(fs, kind, disk) : disk \in Files!ListDisks(fs)}
Twin(i, j) == i.file = j.file /\ i.alias = j.alias

LEMMA ScanIsOfTheFound ==
    ASSUME NEW fs, NEW kind
    PROVE  Files!Scan(fs, kind)
              = {i \in Found(fs, kind) :
                    i.path = "" \/ \A j \in Found(fs, kind) : Twin(i, j) => j.path # ""}
BY Zenon DEF Files!Scan, Found, Twin

\* An entry of any disk, with its place.
Placed(fs, kind, i) ==
    /\ i.disk \in Files!ListDisks(fs) /\ i.path \in {"", DSKEYS} /\ i.name = i.file.stem
    /\ i.file \in fs.files /\ i.file.dir = Files!Below(i.disk, i.path)
    /\ i = Entry(i.disk, i.path, i.file, i.alias)
    /\ i \in Files!ScanDisk(fs, kind, i.disk)

LEMMA FoundSomewhere ==
    ASSUME NEW fs, NEW kind, NEW i \in Found(fs, kind)
    PROVE  Placed(fs, kind, i)
<1>1. PICK disk \in Files!ListDisks(fs) : i \in Files!ScanDisk(fs, kind, disk)
  BY DEF Found
<1>2. EntryOn(fs, kind, disk, i)
  BY Zenon, <1>1, Scanned
<1>3. PICK path \in {"", DSKEYS}, f \in fs.files :
         /\ f.dir = Files!Below(disk, path)
         /\ \E a \in Files!EntriesOf(f, kind) : i = Entry(disk, path, f, a)
  BY Zenon, <1>2 DEF EntryOn
<1>4. PICK a : i = Entry(disk, path, f, a)
  BY Zenon, <1>3
<1>5. i.disk = disk /\ i.path = path /\ i.alias = a /\ i.file = f /\ i.name = f.stem
  BY Zenon, <1>4 DEF Entry
<1> QED
  BY Zenon, <1>1, <1>3, <1>4, <1>5 DEF Placed

\* A key of a file is shown to a site once, whatever disks the file is in:
\* no file and alias have two places in the list (discovery.rs, scan).
THEOREM ListedOnce ==
    ASSUME NEW fs, NEW Name, FileSystem(fs, Name), NEW kind,
           NEW i \in Files!Scan(fs, kind), NEW j \in Files!Scan(fs, kind),
           i.file = j.file, i.alias = j.alias
    PROVE  i = j
<1>1. /\ i \in Found(fs, kind) /\ j \in Found(fs, kind)
      /\ i.path = "" \/ j.path # ""
      /\ j.path = "" \/ i.path # ""
  BY Zenon, ScanIsOfTheFound DEF Twin
<1>2. Placed(fs, kind, i) /\ Placed(fs, kind, j)
  BY Zenon, <1>1, FoundSomewhere
<1>3. i.disk \in Seq(Name) /\ j.disk \in Seq(Name) /\ DSKEYS \in Name
  BY Zenon, <1>2, DisksAreDirectories DEF FileSystem, Placed
<1>4. i.path \in {"", DSKEYS} /\ j.path = i.path
  BY Zenon, <1>1, <1>2 DEF Placed
<1>5. Files!Below(i.disk, i.path) = Files!Below(j.disk, i.path)
  BY Zenon, <1>2, <1>4 DEF Placed
<1>6. i.disk = j.disk
  <2>1. CASE i.path = ""
    BY Zenon, <1>5, <2>1 DEF Files!Below
  <2>2. CASE i.path # ""
    <3>1. Append(i.disk, DSKEYS) = Append(j.disk, DSKEYS)
      BY Zenon, <1>5, <2>2 DEF Files!Below
    <3> DEFINE d == i.disk
               e == j.disk
    <3>2. d \in Seq(Name) /\ e \in Seq(Name) /\ Append(d, DSKEYS) = Append(e, DSKEYS)
      BY <1>3, <3>1
    <3> HIDE DEF d, e
    <3>3. d = e
      BY <1>3, <3>2, AppendInjective
    <3> QED
      BY <3>3 DEF d, e
  <2> QED
    BY Zenon, <2>1, <2>2
<1> QED
  BY Zenon, <1>2, <1>4, <1>6 DEF Placed

LEMMA TwinIsListed ==
    ASSUME NEW fs, NEW kind, NEW disk \in Files!ListDisks(fs),
           NEW i \in Files!ScanDisk(fs, kind, disk)
    PROVE  \E j \in Files!Scan(fs, kind) : j.file = i.file /\ j.alias = i.alias
<1>1. i \in Found(fs, kind)
  BY DEF Found
<1>2. CASE i \in Files!Scan(fs, kind)
  BY <1>2
<1>3. CASE i \notin Files!Scan(fs, kind)
  <2>1. PICK j \in Found(fs, kind) : Twin(i, j) /\ j.path = ""
    BY Zenon, <1>1, <1>3, ScanIsOfTheFound
  <2>2. j \in Files!Scan(fs, kind)
    BY Zenon, <2>1, ScanIsOfTheFound
  <2> QED
    BY Zenon, <2>1, <2>2 DEF Twin
<1> QED
  BY <1>2, <1>3

\* No key is left out: each entry of a key file in a disk, or in the DSKEYS of
\* one, is in the list, wherever it is said to be (discovery.rs, scan).
THEOREM EveryKeyIsListed ==
    ASSUME NEW fs, NEW kind, NEW disk \in Files!ListDisks(fs), NEW path \in {"", DSKEYS},
           NEW f \in fs.files, NEW a \in Files!EntriesOf(f, kind),
           Files!HasExtension(f, kind), f.dir = Files!Below(disk, path)
    PROVE  \E i \in Files!Scan(fs, kind) : i.file = f /\ i.alias = a
<1> DEFINE i == Entry(disk, path, f, a)
<1>1. i \in Files!ScanDisk(fs, kind, disk)
  BY Zenon, Scanned DEF EntryOn
<1>2. i.file = f /\ i.alias = a
  BY Zenon DEF Entry
<1> HIDE DEF i
<1> QED
  BY Zenon, <1>1, <1>2, TwinIsListed

\* What the list says of a key names that key's file and no other, when its
\* extension is written as the plugin writes it and its stem can be named;
\* and the list of the disk it is said to be on has it too (discovery.rs, scan,
\* resolve and scan_disk).
THEOREM ListedIsNamed ==
    ASSUME NEW fs, NEW kind, NEW i \in Files!Scan(fs, kind),
           i.file.ext = kind, i.name \notin {HiddenStem, BadStem}
    PROVE  /\ Files!Resolve(fs, i.disk, i.path, i.name, kind)
                 = <<i.file.dir, i.file.stem, i.file.ext>>
           /\ i \in Files!ListCertificates(fs, kind, i.disk)
<1>1. i \in Found(fs, kind)
  BY Zenon, ScanIsOfTheFound
<1>2. Placed(fs, kind, i)
  BY <1>1, FoundSomewhere
<1> QED
  BY Zenon, <1>2 DEF Files!Resolve, Files!ListCertificates, Placed

-----------------------------------------------------------------------------
(* Key stores. *)

\* What a password sealed opens under no other one: a PKCS#12 store never, and
\* a YTKS-2 store with a key in it not even under the password that reads
\* without one (pkcs12/reader.rs, ytks.rs).
THEOREM OpensUnderItsPasswordOnly ==
    ASSUME NEW store, NEW entries, NEW password, NEW other,
           password # None, other # password
    PROVE  /\ Files!ReadPfx(Files!WritePfx(store, password), other) = PasswordIncorrect
           /\ (\E i \in DOMAIN entries : Files!IsKeyEntry(entries[i])) =>
                 Files!ReadYtks(Files!WriteYtks(entries, password), other) = PasswordIncorrect
<1>1. Files!WritePfx(store, password).mac = password
  BY DEF Files!WritePfx
<1>2. Files!ReadPfx(Files!WritePfx(store, password), other) = PasswordIncorrect
  <2> DEFINE file == Files!WritePfx(store, password)
  <2>1. file.mac \notin {None, other}
    BY <1>1
  <2> HIDE DEF file
  <2>2. Files!ReadPfx(file, other) = PasswordIncorrect
    BY <2>1 DEF Files!ReadPfx
  <2> QED
    BY <2>2 DEF file
<1>3. ASSUME NEW i \in DOMAIN entries, Files!IsKeyEntry(entries[i])
      PROVE  Files!ReadYtks(Files!WriteYtks(entries, password), other) = PasswordIncorrect
  <2> DEFINE file == Files!WriteYtks(entries, password)
             sealed == {e \in Files!RangeOf(file.entries) : Files!IsKeyEntry(e.entry)}
  <2>1. i \in DOMAIN file.entries /\ file.entries[i] = [entry |-> entries[i], password |-> password]
    BY DEF Files!WriteYtks
  <2>2. file.entries[i] \in sealed /\ file.entries[i].password = password
    BY <1>3, <2>1 DEF Files!RangeOf
  <2>3. ~ \A e \in sealed : e.password = other
    BY <2>2
  <2> HIDE DEF sealed
  <2>4. Files!ReadYtks(file, other) =
           IF Files!OpensYtks(file, other) /\ \A e \in sealed : e.password = other
           THEN [j \in DOMAIN file.entries |-> file.entries[j].entry]
           ELSE PasswordIncorrect
    BY Zenon DEF Files!ReadYtks, sealed
  <2> QED
    BY <2>3, <2>4
<1> QED
  BY <1>2, <1>3

\* A YTKS-2 store is read as it was written (ytks.rs).
THEOREM YtksIsReadAgain ==
    ASSUME NEW Entries, NEW entries \in Seq(Entries), NEW password
    PROVE  Files!ReadYtks(Files!WriteYtks(entries, password), password) = entries
<1> DEFINE file == Files!WriteYtks(entries, password)
           sealed == {e \in Files!RangeOf(file.entries) : Files!IsKeyEntry(e.entry)}
<1>1. /\ file.digest = password
      /\ file.entries = [i \in DOMAIN entries |-> [entry |-> entries[i], password |-> password]]
  BY DEF Files!WriteYtks
<1>2. Files!OpensYtks(file, password)
  BY <1>1 DEF Files!OpensYtks
<1>3. \A e \in sealed : e.password = password
  BY <1>1 DEF Files!RangeOf
<1>4. [i \in DOMAIN file.entries |-> file.entries[i].entry] = entries
  BY <1>1
<1>5. Files!ReadYtks(file, password) =
         IF Files!OpensYtks(file, password) /\ \A e \in sealed : e.password = password
         THEN [j \in DOMAIN file.entries |-> file.entries[j].entry]
         ELSE PasswordIncorrect
  BY Zenon DEF Files!ReadYtks
<1> QED
  BY <1>2, <1>3, <1>4, <1>5

-----------------------------------------------------------------------------
(* CMS. *)

\* A set of naturals has a least element, which Min is.
LEMMA LeastOf ==
    ASSUME NEW S \in SUBSET Nat, S # {}
    PROVE  /\ Signed!Min(S) \in S
           /\ \A j \in S : Signed!Min(S) <= j
<1> DEFINE Least(x) == \A y \in S : x <= y
<1>1. \E x \in S : \A y \in S : ~ (<<y, x>> \in OpToRel(<, Nat))
  BY Zenon, NatLessThanWellFounded, WFMin
<1>2. PICK x \in S : \A y \in S : ~ (<<y, x>> \in OpToRel(<, Nat))
  BY Zenon, <1>1
<1>3. \A y \in S : ~ (y < x)
  BY <1>2 DEF OpToRel
<1>4. Least(x)
  BY <1>3
<1>5. Signed!Min(S) = CHOOSE m \in S : Least(m)
  BY DEF Signed!Min
<1> HIDE DEF Least
<1>6. Signed!Min(S) \in S /\ Least(Signed!Min(S))
  BY <1>4, <1>5
<1> QED
  BY <1>6 DEF Least

\* Certificates whose places are numbers have a first one.
LEMMA FirstOf ==
    ASSUME NEW certs, certs # {}, \A c \in certs : Der(c) \in Nat
    PROVE  \E c \in certs : \A other \in certs : Der(c) <= Der(other)
<1> DEFINE places == {Der(c) : c \in certs}
<1>1. places \in SUBSET Nat /\ places # {}
  OBVIOUS
<1>2. Signed!Min(places) \in places /\ \A j \in places : Signed!Min(places) <= j
  <2> HIDE DEF places
  <2> QED BY <1>1, LeastOf
<1> QED
  BY <1>2

\* The certificate found for a signer is the first that is named as it names one.
LEMMA FirstNamed ==
    ASSUME NEW sd, NEW sid, None \notin sd.certs, \A c \in sd.certs : Der(c) \in Nat
    PROVE  LET named == {c \in sd.certs : c.sid = sid}
               cert == Signed!FindCert(sd, sid)
           IN  IF named = {} THEN cert = None
               ELSE cert \in named /\ cert # None /\ \A other \in named : Der(cert) <= Der(other)
<1> DEFINE named == {c \in sd.certs : c.sid = sid}
           cert == Signed!FindCert(sd, sid)
           First(c) == \A other \in named : Der(c) <= Der(other)
<1>1. cert = IF named = {} THEN None ELSE CHOOSE c \in named : First(c)
  BY DEF Signed!FindCert
<1>2. ASSUME named # {} PROVE \E c \in named : First(c)
  <2>1. \A c \in named : Der(c) \in Nat
    OBVIOUS
  <2> HIDE DEF named
  <2> QED
    BY <1>2, <2>1, FirstOf
<1>3. None \notin named
  OBVIOUS
<1> HIDE DEF First, cert, named
<1>4. named # {} => cert \in named /\ First(cert)
  BY <1>1, <1>2
<1>5. IF named = {} THEN cert = None ELSE cert \in named /\ cert # None /\ First(cert)
  BY <1>1, <1>3, <1>4
<1> QED
  BY <1>5 DEF First, cert, named

\* A signer whose verdict is good has a certificate in the message, the first
\* that it names; its signature is of that certificate's key, and over the
\* octets of the content that was judged or, with signed attributes, over
\* those that name the content's type and digest (cms.rs, verify).
THEOREM AcceptedWasSigned ==
    ASSUME NEW sd, NEW content, NEW si, None \notin sd.certs, \A c \in sd.certs : Der(c) \in Nat,
           NEW Types, NEW Digests,
           si.attrs \in {None} \cup [contentType : Types, digest : Digests],
           Signed!VerifySigner(sd, content, si)
    PROVE  /\ si.signature.over =
                IF si.attrs = None THEN content ELSE Signed!Attributes(sd.contentType, content)
           /\ \E cert \in sd.certs :
                /\ cert.sid = si.sid
                /\ cert.key = si.signature.key
                /\ cert.key # None
                /\ cert.sound
                /\ \A other \in sd.certs : other.sid = si.sid => Der(cert) <= Der(other)
<1> DEFINE cert == Signed!FindCert(sd, si.sid)
           signed == IF si.attrs = None THEN content ELSE si.attrs
           named == {c \in sd.certs : c.sid = si.sid}
<1>1. /\ cert # None /\ cert.key # None /\ cert.sound
      /\ si.attrs # None => Signed!AttributesMatch(si.attrs, sd.contentType, content)
      /\ si.signature = [key |-> cert.key, over |-> signed]
  BY DEF Signed!VerifySigner
<1>2. IF named = {} THEN cert = None
      ELSE cert \in named /\ cert # None /\ \A other \in named : Der(cert) <= Der(other)
  BY FirstNamed
<1> HIDE DEF cert
<1>3. cert \in named /\ \A other \in named : Der(cert) <= Der(other)
  <2> HIDE DEF named
  <2> QED BY <1>1, <1>2
<1>4. si.signature.key = cert.key /\ si.signature.over = signed
  <2> HIDE DEF signed
  <2> QED BY <1>1
<1>5. signed = IF si.attrs = None THEN content ELSE Signed!Attributes(sd.contentType, content)
  <2>1. CASE si.attrs = None
    BY <2>1
  <2>2. CASE si.attrs # None
    <3>1. si.attrs \in [contentType : Types, digest : Digests]
      BY <2>2
    <3>2. si.attrs = Signed!Attributes(sd.contentType, content)
      BY <1>1, <2>2, <3>1 DEF Signed!AttributesMatch, Signed!Attributes
    <3> QED
      BY <2>2, <3>2
  <2> QED
    BY <2>1, <2>2
<1> HIDE DEF signed
<1> QED
  BY <1>1, <1>3, <1>4, <1>5

\* The verdict on a document that sign made.
Accepts(content, other, attached, key, chain) ==
    LET sd == Signed!Sign(content, attached, key, chain)
    IN  \A si \in sd.signers : Signed!VerifySigner(sd, other, si)

\* A chain of certificates as sign takes one: none twice, and no other with the
\* name of the first, since the set of them forgets which was the first.
IsSigningChain(chain, Certs) ==
    /\ chain \in Seq(Certs) /\ chain # <<>>
    /\ Signed!IsInjective(chain)
    /\ \A i \in DOMAIN chain : chain[i].sid = chain[1].sid => i = 1

\* What sign makes is accepted for the content that was signed and for no
\* other, and only under the key of the certificate it names, if no other
\* certificate of the chain has that name (cms.rs, sign and verify).
THEOREM SignedIsAccepted ==
    ASSUME NEW Certs, NEW chain, NEW content, NEW other, NEW attached, NEW key,
           None \notin Certs, \A c \in Certs : Der(c) \in Nat,
           IsSigningChain(chain, Certs),
           chain[1].sid # None, chain[1].key # None, chain[1].sound = TRUE,
           None # Signed!Attributes(IdData, content)
    PROVE  Accepts(content, other, attached, key, chain) <=> other = content /\ key = chain[1].key
<1> DEFINE attrs == Signed!Attributes(IdData, content)
           signature == [key |-> key, over |-> attrs]
           signer == [sid |-> chain[1].sid, digestAlg |-> GostDigest, attrs |-> attrs, signature |-> signature]
           sd == Signed!Sign(content, attached, key, chain)
<1>1. /\ sd.contentType = IdData /\ sd.signers = {signer}
      /\ sd.certs = {chain[i] : i \in DOMAIN chain}
  BY DEF Signed!Sign, Signed!SignerInfo, Signed!ToSet, IsSigningChain
<1>2. 1 \in DOMAIN chain /\ \A i \in DOMAIN chain : chain[i] \in Certs
  BY DEF IsSigningChain
<1>3. Signed!FindCert(sd, chain[1].sid) = chain[1]
  <2> DEFINE named == {c \in sd.certs : c.sid = chain[1].sid}
             cert == Signed!FindCert(sd, chain[1].sid)
  <2>1. named = {chain[1]}
    BY <1>1, <1>2 DEF IsSigningChain
  <2>2. None \notin sd.certs /\ \A c \in sd.certs : Der(c) \in Nat
    BY <1>1, <1>2
  <2> HIDE DEF sd
  <2>3. IF named = {} THEN cert = None
        ELSE cert \in named /\ cert # None /\ \A o \in named : Der(cert) <= Der(o)
    BY <2>2, FirstNamed
  <2> HIDE DEF named, cert
  <2>4. cert = chain[1]
    BY <2>1, <2>3
  <2> QED
    BY <2>4 DEF cert
<1> HIDE DEF sd
<1>4. /\ signer.sid = chain[1].sid /\ signer.digestAlg = GostDigest /\ signer.attrs = attrs
      /\ signer.signature = signature
  OBVIOUS
<1>5. Signed!AttributesMatch(attrs, IdData, other) <=> other = content
  BY DEF Signed!AttributesMatch, Signed!Attributes
<1> HIDE DEF signer, attrs
<1>6. signature = [key |-> chain[1].key, over |-> attrs] <=> key = chain[1].key
  OBVIOUS
<1> HIDE DEF signature
<1>7. Signed!VerifySigner(sd, other, signer)
         <=> /\ Signed!AttributesMatch(attrs, IdData, other)
             /\ signature = [key |-> chain[1].key, over |-> attrs]
  <2>1. chain[1] # None /\ attrs # None
    BY <1>2 DEF attrs
  <2> QED
    BY <1>1, <1>3, <1>4, <2>1 DEF Signed!VerifySigner
<1>8. Accepts(content, other, attached, key, chain) <=> Signed!VerifySigner(sd, other, signer)
  BY <1>1 DEF Accepts, sd
<1> QED
  BY <1>1, <1>5, <1>6, <1>7, <1>8

-----------------------------------------------------------------------------
(* The tasks and their answers. *)

\* A task has the answer of its kind, or none yet.
Replied ==
    \/ answer = Pending
    \/ task.kind \in {"mul", "sign", "verify"} /\ answer = CurveAnswer(task)
    \/ task.kind \in {"pkcs8", "spki", "signature", "seed"} /\ answer = EncodingAnswer(task)
    \/ task.kind \in {"store"} /\ answer = StoreAnswer(task)
    \/ task.kind \in {"disks"} /\ answer = DiskAnswer(task)
    \/ task.kind \in {"cms"} /\ answer = CmsAnswer(task)
    \/ task.kind \in {"chain", "pkcs7", "pkcs10", "request", "generate"} /\ answer = CertificateAnswer(task)

Inv == Asked /\ Replied

LEMMA TasksAreAnswered == Spec => []Inv
<1>1. Init => Inv
  BY DEF Init, Inv, Replied
<1>2. Inv /\ [Next]_vars => Inv'
  <2> SUFFICES ASSUME Inv, [Next]_vars PROVE Inv'
    OBVIOUS
  <2>1. task' = task
    BY DEF Next, Answering, vars
  <2>2. Asked'
    <3>1. UNCHANGED MulTask /\ UNCHANGED SignTask /\ UNCHANGED VerifyTask
          /\ UNCHANGED StoreTask /\ UNCHANGED DiskTask /\ UNCHANGED CmsTask
      BY <2>1 DEF MulTask, SignTask, VerifyTask, StoreTask, DiskTask, CmsTask
    <3>2. UNCHANGED EncodingTask
      BY <2>1 DEF EncodingTask, Pkcs8Task, SpkiTask, SignatureTask, SeedTask
    <3>3. UNCHANGED CertificateTask
      BY <2>1 DEF CertificateTask, ChainTask, Pkcs7Task, Pkcs10Task, RequestTask, GenerateTask
    <3> QED
      BY <3>1, <3>2, <3>3 DEF Inv, Asked
  <2>3. CASE UNCHANGED vars
    BY <2>1, <2>2, <2>3 DEF Inv, Replied, vars
  <2>4. CASE Next
    BY <2>1, <2>2, <2>4 DEF Next, Answering, Inv, Replied
  <2> QED
    BY <2>3, <2>4
<1> QED
  BY <1>1, <1>2, PTL DEF Spec

LEMMA TaskOfItsKind ==
    ASSUME Asked
    PROVE  /\ task.kind = "mul" => MulTask
           /\ task.kind = "sign" => SignTask
           /\ task.kind = "verify" => VerifyTask
           /\ task.kind = "pkcs8" => Pkcs8Task
           /\ task.kind = "spki" => SpkiTask
           /\ task.kind = "signature" => SignatureTask
           /\ task.kind = "seed" => SeedTask
           /\ task.kind = "store" => StoreTask
           /\ task.kind = "disks" => DiskTask
           /\ task.kind = "cms" => CmsTask
           /\ task.kind = "chain" => ChainTask
           /\ task.kind = "pkcs7" => Pkcs7Task
           /\ task.kind = "pkcs10" => Pkcs10Task
           /\ task.kind = "request" => RequestTask
<1>1. MulTask => task.kind = "mul"
  BY DEF MulTask
<1>2. SignTask => task.kind = "sign"
  BY DEF SignTask
<1>3. VerifyTask => task.kind = "verify"
  BY DEF VerifyTask
<1>4. Pkcs8Task => task.kind = "pkcs8"
  BY DEF Pkcs8Task
<1>5. SpkiTask => task.kind = "spki"
  BY DEF SpkiTask
<1>6. SignatureTask => task.kind = "signature"
  BY DEF SignatureTask
<1>7. SeedTask => task.kind = "seed"
  BY DEF SeedTask
<1>8. StoreTask => task.kind = "store"
  BY DEF StoreTask
<1>9. DiskTask => task.kind = "disks"
  BY DEF DiskTask
<1>10. CmsTask => task.kind = "cms"
  BY DEF CmsTask
<1>11. ChainTask => task.kind = "chain"
  BY DEF ChainTask
<1>12. Pkcs7Task => task.kind = "pkcs7"
  BY DEF Pkcs7Task
<1>13. Pkcs10Task => task.kind = "pkcs10"
  <2>1. ASSUME NEW s, NEW from, NEW name, NEW list,
               task = [kind |-> "pkcs10", session |-> s, from |-> from, name |-> name, list |-> list]
        PROVE  task.kind = "pkcs10"
    BY <2>1
  <2> QED
    BY Zenon, <2>1 DEF Pkcs10Task
<1>14. RequestTask => task.kind = "request"
  BY DEF RequestTask
<1>15. GenerateTask => task.kind = "generate"
  BY DEF GenerateTask
<1> QED
  BY <1>1, <1>2, <1>3, <1>4, <1>5, <1>6, <1>7,
     <1>8, <1>9, <1>10, <1>11, <1>12, <1>13, <1>14, <1>15
  DEF Asked, EncodingTask, CertificateTask

LEMMA CurvesSign ==
    ASSUME NEW c \in Curves
    PROVE  /\ SigningCurve(c) /\ c.n \in Nat /\ c.p \in Nat
           /\ Numbers \subseteq Nat
           /\ PointsOf(c) \subseteq Nat \X Nat
<1>1. SigningCurve(c) /\ c.n \in Nat /\ c.p \in Nat /\ Bits \in Nat
  BY CurvesAssumption DEF SigningCurve, Numbered
<1>2. Ec!Width \in Nat
  BY <1>1, WidthSteps
<1>3. \A d \in 1 .. c.n - 1 : Ec!Times(c, d, c.g) \in Nat \X Nat
  BY <1>1, NeverInfinity DEF Ec!Points
<1>4. c.g \in Nat \X Nat
  <2>1. c.g \in Ec!Points(c) \ {Infinity}
    BY <1>1 DEF SigningCurve, Ec!IsSigningCurve, Ec!IsCyclic
  <2> QED
    BY <1>1, <2>1 DEF Ec!Points
<1> QED
  BY <1>1, <1>2, <1>3, <1>4 DEF Numbers, PointsOf

\* Of the task's curve, the signatures that verify are those of the standard,
\* what is signed is one, and the ladder multiplies: SignaturesAreExact, for
\* curves of every size (ec.rs and gost3410.rs).
THEOREM SpecSignaturesAreExact == Spec => []SignaturesAreExact
<1>1. ASSUME Inv, Answered("verify")
      PROVE  answer <=> Ec!IsSignature(task.curve, task.q, task.hash, task.sig)
  <2>1. task.kind = "verify" /\ VerifyTask
    BY <1>1, TaskOfItsKind DEF Inv, Answered
  <2>2. PICK c \in Curves : \E q \in PointsOf(c), hash \in {0, 1, 3, 5, 7}, sig \in Numbers \X Numbers :
            task = [kind |-> "verify", curve |-> c, q |-> q, hash |-> hash, sig |-> sig]
    BY <2>1 DEF VerifyTask
  <2>3. task.curve = c /\ task.q \in PointsOf(c) /\ task.hash \in Nat /\ task.sig \in Numbers \X Numbers
    BY <2>2
  <2>4. SigningCurve(c) /\ task.q \in Nat \X Nat /\ task.sig \in Nat \X Nat
    BY <2>3, CurvesSign
  <2>5. answer = CurveAnswer(task)
    BY <1>1, <2>1 DEF Inv, Replied, Answered
  <2>6. CurveAnswer(task) = Ec!Verify(task.curve, task.q, task.hash, task.sig)
    BY Zenon, <2>1 DEF CurveAnswer
  <2>7. Ec!Verify(task.curve, task.q, task.hash, task.sig)
            <=> Ec!IsSignature(task.curve, task.q, task.hash, task.sig)
    BY <2>3, <2>4, VerifiesExactly
  <2> QED
    BY Zenon, <2>5, <2>6, <2>7
<1>2. ASSUME Inv, Answered("sign"), answer # <<>>
      PROVE  Ec!IsSignature(task.curve, Ec!Times(task.curve, task.d, task.curve.g), task.hash, answer)
  <2>1. task.kind = "sign" /\ SignTask
    BY <1>2, TaskOfItsKind DEF Inv, Answered
  <2>2. PICK c \in Curves : \E d \in 1 .. c.n - 1, hash, draw \in Numbers :
            task = [kind |-> "sign", curve |-> c, d |-> d, hash |-> hash, draw |-> draw]
    BY <2>1 DEF SignTask
  <2>3. task.curve = c /\ task.d \in 1 .. c.n - 1 /\ task.hash \in Nat /\ task.draw \in Nat
    BY <2>2, CurvesSign
  <2>4. answer = CurveAnswer(task)
    BY <1>2, <2>1 DEF Inv, Replied, Answered
  <2>5. CurveAnswer(task) = IF Ec!IsScalar(task.curve, task.draw)
                            THEN Ec!SignWithK(task.curve, task.d, Ec!HashToE(task.curve.n, task.hash), task.draw)
                            ELSE <<>>
    BY Zenon, <2>1 DEF CurveAnswer
  <2>6. Ec!IsScalar(c, task.draw) /\ answer = Ec!SignWithK(c, task.d, Ec!HashToE(c.n, task.hash), task.draw)
    BY <1>2, <2>3, <2>4, <2>5
  <2>7. SigningCurve(c) /\ task.draw \in 1 .. c.n - 1
    BY <2>3, <2>6, CurvesSign DEF Ec!IsScalar
  <2>8. Ec!IsSignature(c, Ec!Times(c, task.d, c.g), task.hash, answer)
    BY <1>2, <2>3, <2>6, <2>7, SignedIsSignature
  <2> QED
    BY <2>3, <2>8
<1>3. ASSUME Inv, Answered("mul") PROVE answer = Ec!Times(task.curve, task.k, task.pt)
  <2>1. task.kind = "mul" /\ MulTask
    BY <1>3, TaskOfItsKind DEF Inv, Answered
  <2>2. PICK c \in Curves : \E d \in 1 .. c.n - 1, k \in 0 .. 2 * Ec!Width :
            task = [kind |-> "mul", curve |-> c, k |-> k, pt |-> Ec!Times(c, d, c.g)]
    BY <2>1 DEF MulTask
  <2>3. SigningCurve(c) /\ Ec!Width \in Nat
    BY CurvesSign, WidthSteps, CurvesAssumption
  <2>4. task.curve = c /\ task.k \in Nat /\ \E d \in 1 .. c.n - 1 : task.pt = Ec!Times(c, d, c.g)
    BY <2>2, <2>3
  <2>5. task.pt \in Ec!Points(c) \ {Infinity}
    BY <2>3, <2>4, NeverInfinity
  <2>6. answer = CurveAnswer(task)
    BY <1>3, <2>1 DEF Inv, Replied, Answered
  <2>7. CurveAnswer(task) = Ec!Mul(task.curve, task.k, task.pt)
    BY Zenon, <2>1 DEF CurveAnswer
  <2> QED
    BY <2>3, <2>4, <2>5, <2>6, <2>7, LadderMultiplies
<1>4. Inv => SignaturesAreExact
  BY <1>1, <1>2, <1>3 DEF SignaturesAreExact
<1> QED
  BY <1>4, TasksAreAnswered, PTL

-----------------------------------------------------------------------------
(* The tasks of encodings. *)

LEMMA KnownCurvesAreGiven ==
    /\ KnownCurves
    /\ \A c \in CurveIds : Params[c] \in Curves
    /\ ScalarOctets \in Nat /\ ScalarOctets > 0
<1>1. /\ Radix \in Nat /\ Radix > 1 /\ ScalarOctets \in Nat /\ ScalarOctets > 0
      /\ DOMAIN Params = CurveIds /\ Failed \notin CurveIds
      /\ \A c \in Curves : c.p <= Weight[ScalarOctets] /\ c.n <= Weight[ScalarOctets]
  BY EncodingsAssumption DEF CurveIds
<1>2. \A c \in CurveIds : Params[c] \in Curves
  BY <1>1 DEF Curves
<1>3. \A c \in Curves : c.p \in Nat /\ c.n \in Nat
  BY CurvesAssumption
<1> QED
  BY <1>1, <1>2, <1>3 DEF KnownCurves, Widths

LEMMA DividedTwice ==
    ASSUME NEW r \in Nat, r > 1, NEW w \in Nat, w > 0, NEW a \in Nat
    PROVE  (a \div w) \div r = a \div (w * r)
<1> DEFINE q == a \div w
           m == a % w
           p == q \div r
           d == q % r
<1>1. q \in Nat /\ m \in 0 .. w - 1 /\ a = q * w + m
  OBVIOUS
<1> HIDE DEF q, m
<1>2. p \in Nat /\ d \in 0 .. r - 1 /\ q = p * r + d
  BY <1>1, DivNat
<1> HIDE DEF p, d
<1> DEFINE x == d * w + m
           y == w * r
<1>3. a = p * y + x
  BY <1>1, <1>2
<1>4. x \in 0 .. y - 1 /\ y \in Nat
  <2>1. d + 1 <= r /\ d \in Nat /\ m \in Nat /\ m < w
    BY <1>1, <1>2
  <2>2. (d + 1) * w <= r * w
    BY <2>1
  <2> QED
    BY <2>1, <2>2
<1>5. y > 1
  BY <1>4
<1> HIDE DEF x, y
<1>6. (p * y + x) \div y = p
  BY <1>2, <1>4, <1>5, ShiftBack
<1> QED
  BY <1>3, <1>6 DEF y, p, q

\* be32 writes the octets of the positions, as long as the curve's order is
\* (keys.rs).
LEMMA ScalarIsPositional ==
    ASSUME Widths, NEW v \in Nat
    PROVE  Ec!ScalarBE(v) = Positional(v)
<1>0. ScalarOctets \in Nat /\ Radix \in Nat /\ Radix > 1
  BY DEF Widths
<1>1. PICK L : IsLeft(L, v)
  BY ScalarSteps
<1>2. /\ Weight \in [0 .. ScalarOctets -> Nat] /\ Weight[0] = 1
      /\ \A i \in 1 .. ScalarOctets : Weight[i] = Weight[i - 1] * Radix
  BY WeightSteps
<1>3. L[0] = v /\ (\A i \in 1 .. ScalarOctets : L[i] = L[i - 1] \div Radix)
      /\ Ec!ScalarBE(v) = [i \in 1 .. ScalarOctets |-> L[ScalarOctets - i] % Radix]
  BY <1>1 DEF IsLeft
<1> DEFINE S == {i \in 0 .. ScalarOctets : Weight[i] > 0 /\ L[i] = v \div Weight[i]}
<1>4. 0 \in S
  BY <1>0, <1>2, <1>3
<1>5. ASSUME NEW i \in 1 .. ScalarOctets, i - 1 \in S PROVE i \in S
  <2> DEFINE w == Weight[i - 1]
  <2>1. w \in Nat /\ w > 0 /\ L[i - 1] = v \div w /\ i \in 0 .. ScalarOctets
    BY <1>0, <1>2, <1>5
  <2>2. Weight[i] = w * Radix /\ L[i] = (v \div w) \div Radix
    BY <1>2, <1>3, <2>1
  <2> HIDE DEF w
  <2>3. (v \div w) \div Radix = v \div (w * Radix)
    BY <1>0, <2>1, DividedTwice
  <2>4. w * Radix > 0
    BY <1>0, <2>1
  <2> QED
    BY <2>1, <2>2, <2>3, <2>4
<1> HIDE DEF S
<1>6. 0 .. ScalarOctets \subseteq S
  BY <1>0, <1>4, <1>5, InductionUpTo
<1>7. \A i \in 1 .. ScalarOctets : L[ScalarOctets - i] = v \div Weight[ScalarOctets - i]
  <2>1. \A i \in 1 .. ScalarOctets : ScalarOctets - i \in 0 .. ScalarOctets
    BY <1>0
  <2> QED
    BY <1>6, <2>1 DEF S
<1> QED
  BY <1>3, <1>7 DEF Positional

\* The names a family's curve goes by are those the program knows.
LEMMA NamesAreKnown ==
    ASSUME NEW family \in Ec!Families, NEW c \in CurveIds
    PROVE  NamesFor(family, c) = NamesIn(family, c)
<1>1. CASE family = "ozdst"
  <2>1. Means[family] = [A |-> "A", XCHA |-> "A", B |-> "B", C |-> "C", XCHB |-> "C"]
    BY <1>1 DEF Means
  <2>2. Ec!NamesOf(family) = [A |-> <<"A", "XCHA">>, B |-> <<"B">>, C |-> <<"C", "XCHB">>]
    BY <1>1 DEF Ec!NamesOf
  <2> QED
    BY <2>1, <2>2 DEF NamesFor, NamesIn, CurveIds
<1>2. CASE family = "ozmst"
  <2>1. Means[family] = [A |-> "A", D |-> "A", B |-> "B", E |-> "B", C |-> "C", XCHB |-> "C"]
    BY <1>2 DEF Means
  <2>2. Ec!NamesOf(family) = [A |-> <<"A", "D">>, B |-> <<"B", "E">>, C |-> <<"C", "XCHB">>]
    BY <1>2 DEF Ec!NamesOf
  <2> QED
    BY <2>1, <2>2 DEF NamesFor, NamesIn, CurveIds
<1> QED
  BY <1>1, <1>2 DEF Ec!Families

LEMMA PrivateKeyIs ==
    ASSUME NEW f \in Ec!Families, NEW c \in CurveIds, NEW d \in 1 .. Params[c].n - 1
    PROVE  LET k == [family |-> f, curve |-> c, d |-> d, public |-> Ec!Times(Params[c], d, Params[c].g)]
           IN  k \in PrivateKeys /\ Ec!FromScalar(f, c, d) = k
<1> DEFINE k == [family |-> f, curve |-> c, d |-> d, public |-> Ec!Times(Params[c], d, Params[c].g)]
           curve == Params[c]
<1>1. curve \in Curves /\ c \in DOMAIN Params
  BY KnownCurvesAreGiven DEF KnownCurves
<1>2. SigningCurve(curve) /\ curve.n \in Nat /\ d \in Nat
  <2> HIDE DEF curve
  <2>1. SigningCurve(curve) /\ curve.n \in Nat
    BY <1>1, CurvesSign
  <2>2. d \in Nat
    BY <2>1 DEF curve
  <2> QED
    BY <2>1, <2>2
<1>3. k \in PrivateKeys
  BY <1>1 DEF PrivateKeys
<1>4. Ec!BaseMul(curve, d) = Ec!Times(curve, d, curve.g)
  <2> HIDE DEF curve
  <2>1. curve.g \in Ec!Points(curve) \ {Infinity}
    BY <1>2 DEF SigningCurve, Ec!IsSigningCurve, Ec!IsCyclic
  <2> QED
    BY <1>2, <2>1, LadderMultiplies DEF Ec!BaseMul
<1>5. d # 0 /\ ~ (d >= curve.n)
  BY <1>2
<1> QED
  BY <1>3, <1>4, <1>5 DEF Ec!FromScalar

LEMMA PrivateKeyOf ==
    ASSUME NEW k \in PrivateKeys
    PROVE  /\ k.family \in Ec!Families /\ k.curve \in CurveIds /\ k.d \in 1 .. Params[k.curve].n - 1
           /\ k.public = Ec!Times(Params[k.curve], k.d, Params[k.curve].g)
           /\ k = Ec!FromScalar(k.family, k.curve, k.d)
<1>1. PICK c \in DOMAIN Params : \E f \in Ec!Families, d \in 1 .. Params[c].n - 1 :
          k = [family |-> f, curve |-> c, d |-> d, public |-> Ec!Times(Params[c], d, Params[c].g)]
  BY DEF PrivateKeys
<1> PICK f \in Ec!Families, d \in 1 .. Params[c].n - 1 :
          k = [family |-> f, curve |-> c, d |-> d, public |-> Ec!Times(Params[c], d, Params[c].g)]
  BY <1>1
<1>2. c \in CurveIds
  BY KnownCurvesAreGiven DEF KnownCurves
<1>3. Ec!FromScalar(f, c, d) = k
  BY <1>2, PrivateKeyIs
<1>4. k.family = f /\ k.curve = c /\ k.d = d /\ k.public = Ec!Times(Params[c], d, Params[c].g)
  OBVIOUS
<1> QED
  BY <1>2, <1>3, <1>4

\* The octets and numbers a scalar is read from.
ReadableScalar(private) ==
    /\ private.form = "sec1" => private.octets \in Seq(Octet) /\ private.curve \in CurveNames
    /\ private.form = "integer" => private.value \in Nat
    /\ Ec!OctetsOfPrivate(private) \in Seq(Octet)

LEMMA OctetsAreSequences ==
    ASSUME NEW n \in Nat, NEW o \in OctetsOf(n)
    PROVE  o \in Seq(Octet) /\ Len(o) = n
<1>1. o \in [1 .. n -> Octet]
  BY DEF OctetsOf, Octet
<1> QED
  BY <1>1

LEMMA OctetsAreReadable ==
    /\ \A o \in Seq(Octet) : ReadableScalar(Octets(o))
    /\ \A o \in OctetsOf(ScalarOctets), name \in CurveNames : ReadableScalar(Structure(o, name))
    /\ \A k \in PrivateKeys : k.d \in Nat => ReadableScalar(Number(k.d))
<1>1. ASSUME NEW o \in Seq(Octet) PROVE ReadableScalar(Octets(o))
  BY <1>1 DEF ReadableScalar, Octets, Ec!OctetsOfPrivate
<1>2. ASSUME NEW o \in OctetsOf(ScalarOctets), NEW name \in CurveNames PROVE ReadableScalar(Structure(o, name))
  <2> DEFINE private == Structure(o, name)
  <2>1. private.form = "sec1" /\ private.octets = o /\ private.curve = name
    BY DEF Structure
  <2>2. o \in Seq(Octet)
    BY OctetsAreSequences, KnownCurvesAreGiven
  <2>3. Encoded(private) \in Seq(Octet)
    BY EncodedAssumption DEF Octet
  <2> HIDE DEF private
  <2>4. Ec!OctetsOfPrivate(private) = Encoded(private)
    BY <2>1 DEF Ec!OctetsOfPrivate
  <2>5. private.form # "integer"
    BY <2>1
  <2>6. private.octets \in Seq(Octet) /\ private.curve \in CurveNames
    BY Zenon, <2>1, <2>2
  <2>7. Ec!OctetsOfPrivate(private) \in Seq(Octet)
    BY Zenon, <2>3, <2>4
  <2>8. ReadableScalar(private)
    BY Zenon, <2>5, <2>6, <2>7 DEF ReadableScalar
  <2> QED
    BY <2>8 DEF private
<1>3. ASSUME NEW k \in PrivateKeys, k.d \in Nat PROVE ReadableScalar(Number(k.d))
  <2> DEFINE private == Number(k.d)
  <2>1. private.form = "integer" /\ private.value = k.d
    BY DEF Number
  <2>2. Encoded(private) \in Seq(Octet)
    BY EncodedAssumption DEF Octet
  <2> HIDE DEF private
  <2>3. Ec!OctetsOfPrivate(private) = Encoded(private)
    BY <2>1 DEF Ec!OctetsOfPrivate
  <2>4. private.form # "sec1"
    BY <2>1
  <2>5. private.value \in Nat
    BY <1>3, <2>1
  <2>6. Ec!OctetsOfPrivate(private) \in Seq(Octet)
    BY Zenon, <2>2, <2>3
  <2>7. ReadableScalar(private)
    BY Zenon, <2>4, <2>5, <2>6 DEF ReadableScalar
  <2> QED
    BY <2>7 DEF private
<1> QED
  BY <1>1, <1>2, <1>3

Styles == {"sequence", "named", "none"}

LEMMA WrittenIsRead ==
    ASSUME NEW k \in PrivateKeys, NEW written \in WrittenAs(k)
    PROVE  /\ IsWritten(written, k.family, k.curve, k.d)
           /\ \E style \in Styles : \E name, private :
                 ReadableScalar(private) /\ written = Pkcs8(k.family, style, name, private)
<1> DEFINE be == Positional(k.d)
           names == NamesFor("ozdst", k.curve) \cup NamesFor("ozmst", k.curve)
<1>1. k.family \in Ec!Families /\ k.curve \in CurveIds /\ k.d \in Nat
  <2>1. Params[k.curve].n \in Nat
    BY PrivateKeyOf, KnownCurvesAreGiven DEF KnownCurves
  <2> QED
    BY <2>1, PrivateKeyOf
<1>2. /\ be = Ec!ScalarBE(k.d) /\ be \in OctetsOf(ScalarOctets)
      /\ Reverse(be) = Ec!Reverse(be) /\ Reverse(be) \in Seq(Octet)
  <2>1. be = Ec!ScalarBE(k.d) /\ be \in Scalars
    BY <1>1, ScalarIsPositional, ScalarIsOctets, KnownCurvesAreGiven DEF KnownCurves
  <2>2. Ec!Reverse(be) \in Scalars
    <3> HIDE DEF be
    <3> QED BY <2>1, ReversedTwice, KnownCurvesAreGiven
  <2>3. Reverse(be) = Ec!Reverse(be)
    <3> HIDE DEF be
    <3> QED BY DEF Reverse, Ec!Reverse
  <2>4. \A o \in Scalars : o \in Seq(Octet) /\ o \in OctetsOf(ScalarOctets)
    <3> SUFFICES ASSUME NEW o \in Scalars PROVE o \in Seq(Octet) /\ o \in OctetsOf(ScalarOctets)
      OBVIOUS
    <3>1. o \in Seq(Octet) /\ Len(o) = ScalarOctets
      BY DEF Scalars
    <3>2. o \in [1 .. Len(o) -> Octet]
      BY <3>1
    <3> QED
      BY <3>1, <3>2 DEF OctetsOf, Octet
  <2> HIDE DEF be
  <2> QED
    BY <2>1, <2>2, <2>3, <2>4
<1>3. names = EveryName(k.curve) /\ NamesFor(k.family, k.curve) = NamesIn(k.family, k.curve)
  BY <1>1, NamesAreKnown DEF EveryName, Ec!Families
<1>0. names \subseteq CurveNames /\ None \in CurveNames
  BY DEF CurveNames, NamesFor, Ec!Families, Means, Names
<1>4. \/ \E name \in names : written = Pkcs8(k.family, "named", name, Structure(be, None))
      \/ \E name \in names : written = Pkcs8(k.family, "none", None, Structure(be, name))
      \/ \E name \in NamesFor(k.family, k.curve) :
            written = Pkcs8(k.family, "sequence", name, Octets(Reverse(be)))
      \/ k.curve = "A" /\ written = Pkcs8(k.family, "none", None, Number(k.d))
  BY DEF WrittenAs
<1> HIDE DEF be, names
<1>5. CASE \E name \in names : written = Pkcs8(k.family, "named", name, Structure(be, None))
  <2>1. PICK name \in names : written = Pkcs8(k.family, "named", name, Structure(be, None))
    BY <1>5
  <2> DEFINE private == Structure(be, None)
  <2>2. private.form = "sec1" /\ private.octets = be
    BY DEF Structure, Octets
  <2> HIDE DEF private
  <2>3. /\ written = Pkcs8(k.family, "named", name, private)
        /\ written.algorithm = k.family /\ written.style = "named" /\ written.curve = name
        /\ written.private = private
    BY <2>1 DEF private, Pkcs8
  <2>4. ReadableScalar(private)
    BY <1>0, <1>2, OctetsAreReadable DEF private
  <2>5. IsWritten(written, k.family, k.curve, k.d)
    BY <1>2, <1>3, <2>1, <2>2, <2>3 DEF IsWritten
  <2> QED
    BY <2>3, <2>4, <2>5 DEF Styles
<1>6. CASE \E name \in names : written = Pkcs8(k.family, "none", None, Structure(be, name))
  <2>1. PICK name \in names : written = Pkcs8(k.family, "none", None, Structure(be, name))
    BY <1>6
  <2> DEFINE private == Structure(be, name)
  <2>2. private.form = "sec1" /\ private.octets = be /\ private.curve = name
    BY DEF Structure, Octets
  <2> HIDE DEF private
  <2>3. /\ written = Pkcs8(k.family, "none", None, private)
        /\ written.algorithm = k.family /\ written.style = "none" /\ written.curve = None
        /\ written.private = private
    BY <2>1 DEF private, Pkcs8
  <2>4. ReadableScalar(private)
    BY <1>0, <1>2, OctetsAreReadable DEF private
  <2>5. IsWritten(written, k.family, k.curve, k.d)
    BY <1>2, <1>3, <2>1, <2>2, <2>3 DEF IsWritten
  <2> QED
    BY <2>3, <2>4, <2>5 DEF Styles
<1>7. CASE \E name \in NamesFor(k.family, k.curve) : written = Pkcs8(k.family, "sequence", name, Octets(Reverse(be)))
  <2>1. PICK name \in NamesFor(k.family, k.curve) : written = Pkcs8(k.family, "sequence", name, Octets(Reverse(be)))
    BY <1>7
  <2> DEFINE private == Octets(Reverse(be))
  <2>2. private.form = "octets" /\ private.octets = Reverse(be)
    BY DEF Structure, Octets
  <2> HIDE DEF private
  <2>3. /\ written = Pkcs8(k.family, "sequence", name, private)
        /\ written.algorithm = k.family /\ written.style = "sequence" /\ written.curve = name
        /\ written.private = private
    BY <2>1 DEF private, Pkcs8
  <2>4. ReadableScalar(private)
    BY <1>0, <1>2, OctetsAreReadable DEF private
  <2>5. IsWritten(written, k.family, k.curve, k.d)
    BY <1>2, <1>3, <2>1, <2>2, <2>3 DEF IsWritten
  <2> QED
    BY <2>3, <2>4, <2>5 DEF Styles
<1>8. CASE k.curve = "A" /\ written = Pkcs8(k.family, "none", None, Number(k.d))
  <2> DEFINE private == Number(k.d)
  <2>2. private.form = "integer" /\ private.value = k.d
    BY DEF Number
  <2> HIDE DEF private
  <2>3. /\ written = Pkcs8(k.family, "none", None, private)
        /\ written.algorithm = k.family /\ written.style = "none" /\ written.private = private
    BY <1>8 DEF private, Pkcs8
  <2>4. ReadableScalar(private)
    BY <1>1, OctetsAreReadable DEF private
  <2>5. IsWritten(written, k.family, k.curve, k.d)
    BY <1>8, <2>2, <2>3 DEF IsWritten
  <2> QED
    BY <2>3, <2>4, <2>5 DEF Styles
<1> QED
  BY <1>4, <1>5, <1>6, <1>7, <1>8

LEMMA DamagedIsOne ==
    ASSUME NEW w, NEW info \in Damaged(w)
    PROVE  \/ info = w
           \/ info = Pkcs8("rsa", w.style, w.curve, w.private)
           \/ \E s \in Styles : info = Pkcs8(w.algorithm, s, w.curve, w.private)
           \/ \E n \in CurveNames : info = Pkcs8(w.algorithm, w.style, n, w.private)
           \/ \E o \in OctetsOf(1) \cup OctetsOf(3) :
                 info = Pkcs8(w.algorithm, w.style, w.curve, Octets(o))
           \/ /\ w.private.form = "sec1"
              /\ \E o \in OctetsOf(ScalarOctets) :
                    info = Pkcs8(w.algorithm, w.style, w.curve, Structure(o, w.private.curve))
BY DEF Damaged, Styles

LEMMA DamagedIsRead ==
    ASSUME NEW f, NEW style \in Styles, NEW name, NEW private, ReadableScalar(private),
           NEW info \in Damaged(Pkcs8(f, style, name, private))
    PROVE  info.style \in Styles /\ ReadableScalar(info.private)
<1> DEFINE w == Pkcs8(f, style, name, private)
<1>1. w = [algorithm |-> f, style |-> style, curve |-> name, private |-> private]
  BY DEF Pkcs8
<1>2. \A n \in Nat : \A o \in OctetsOf(n) : o \in Seq(Octet)
  BY OctetsAreSequences
<1>3. private.form = "sec1" => \A o \in OctetsOf(ScalarOctets) : ReadableScalar(Structure(o, private.curve))
  BY OctetsAreReadable DEF ReadableScalar
<1>4. \/ info = w
      \/ info = Pkcs8("rsa", style, name, private)
      \/ \E s \in Styles : info = Pkcs8(f, s, name, private)
      \/ \E n \in CurveNames : info = Pkcs8(f, style, n, private)
      \/ \E o \in OctetsOf(1) \cup OctetsOf(3) : info = Pkcs8(f, style, name, Octets(o))
      \/ /\ private.form = "sec1"
         /\ \E o \in OctetsOf(ScalarOctets) : info = Pkcs8(f, style, name, Structure(o, private.curve))
  <2>1. w.algorithm = f /\ w.style = style /\ w.curve = name /\ w.private = private
    BY <1>1
  <2>2. info \in Damaged(w)
    OBVIOUS
  <2> HIDE DEF w
  <2> QED
    BY Zenon, <2>1, <2>2, DamagedIsOne
<1>5. \E a, s, n, q : s \in Styles /\ ReadableScalar(q) /\ info = Pkcs8(a, s, n, q)
  <2>1. \A o \in OctetsOf(1) \cup OctetsOf(3) : ReadableScalar(Octets(o))
    BY <1>2, OctetsAreReadable
  <2> QED
    BY <1>3, <1>4, <2>1
<1> QED
  BY <1>5 DEF Pkcs8

LEMMA PublicOfIs ==
    ASSUME NEW k \in PrivateKeys
    PROVE  /\ PublicOf(k) = Ec!PublicKey(k.family, k.curve, k.public)
           /\ k.family \in Ec!Families /\ k.curve \in CurveIds
           /\ k.public \in Nat \X Nat /\ Ec!IsOnCurve(Params[k.curve], k.public)
           /\ Ec!FromSpki(Ec!ToSpki(PublicOf(k))) = PublicOf(k)
<1> DEFINE c == Params[k.curve]
           q == k.public
<1>1. k.family \in Ec!Families /\ k.curve \in CurveIds /\ k.d \in 1 .. c.n - 1 /\ q = Ec!Times(c, k.d, c.g)
  BY PrivateKeyOf
<1>2. SigningCurve(c) /\ c.p \in Nat
  <2>1. c \in Curves
    BY <1>1, KnownCurvesAreGiven
  <2> HIDE DEF c
  <2> QED
    BY <2>1, CurvesSign
<1>3. q \in Nat \X Nat /\ Ec!IsOnCurve(c, q)
  <2> HIDE DEF c, q
  <2>1. q \in Ec!Points(c) \ {Infinity}
    BY <1>1, <1>2, NeverInfinity
  <2> QED
    BY <1>2, <2>1 DEF Ec!Points
<1>4. PublicOf(k) = Ec!PublicKey(k.family, k.curve, q)
  BY DEF PublicOf, Ec!PublicKey
<1>5. Ec!FromSpki(Ec!ToSpki(Ec!PublicKey(k.family, k.curve, q))) = Ec!PublicKey(k.family, k.curve, q)
  BY <1>1, <1>3, PublicKeyIsReadAgain, KnownCurvesAreGiven
<1> QED
  BY <1>1, <1>3, <1>4, <1>5


LEMMA Pkcs8IsExact ==
    ASSUME Inv, Answered("pkcs8")
    PROVE  /\ task.info = task.written => answer = task.key
           /\ answer # Failed =>
                /\ answer \in PrivateKeys
                /\ Ec!FromPkcs8(Ec!ToPkcs8(answer)) = answer
                /\ Ec!FromSpki(Ec!ToSpki(PublicOf(answer))) = PublicOf(answer)
<1>1. task.kind = "pkcs8" /\ Pkcs8Task
  BY TaskOfItsKind DEF Inv, Answered
<1>2. PICK k \in PrivateKeys : \E written \in WrittenAs(k) : \E info \in Damaged(written) :
        task = [kind |-> "pkcs8", key |-> k, written |-> written, info |-> info]
  BY <1>1 DEF Pkcs8Task
<1>3. task.key = k /\ task.written \in WrittenAs(k) /\ task.info \in Damaged(task.written)
  BY <1>2
<1>4. answer = Ec!FromPkcs8(task.info)
  <2>1. answer = EncodingAnswer(task)
    BY <1>1 DEF Inv, Replied, Answered
  <2> QED
    BY Zenon, <1>1, <2>1 DEF EncodingAnswer
<1>5. k.family \in Ec!Families /\ k.curve \in CurveIds /\ k.d \in 1 .. Params[k.curve].n - 1
      /\ k = Ec!FromScalar(k.family, k.curve, k.d)
  BY PrivateKeyOf
<1>6. ASSUME task.info = task.written PROVE answer = task.key
  <2>1. IsWritten(task.info, k.family, k.curve, k.d)
    BY <1>3, <1>6, WrittenIsRead
  <2>2. Ec!FromPkcs8(task.info) = Ec!FromScalar(k.family, k.curve, k.d)
    BY <1>5, <2>1, PrivateKeyInEveryStyle, KnownCurvesAreGiven
  <2> QED
    BY <1>3, <1>4, <1>5, <2>2
<1>7. ASSUME answer # Failed
      PROVE  /\ answer \in PrivateKeys
             /\ Ec!FromPkcs8(Ec!ToPkcs8(answer)) = answer
             /\ Ec!FromSpki(Ec!ToSpki(PublicOf(answer))) = PublicOf(answer)
  <2>1. task.info.style \in Styles /\ ReadableScalar(task.info.private)
    <3>1. PICK style \in Styles : \E name, private :
              ReadableScalar(private) /\ task.written = Pkcs8(k.family, style, name, private)
      BY <1>3, WrittenIsRead
    <3>2. PICK name, private : ReadableScalar(private) /\ task.written = Pkcs8(k.family, style, name, private)
      BY <3>1
    <3> QED
      BY <1>3, <3>2, DamagedIsRead
  <2> DEFINE info == task.info
  <2>2. /\ info.style \in {"sequence", "named", "none"}
        /\ info.private.form = "sec1" => info.private.octets \in Seq(Octet)
        /\ info.private.form = "integer" => info.private.value \in Nat
        /\ Ec!OctetsOfPrivate(info.private) \in Seq(Octet)
        /\ answer = Ec!FromPkcs8(info)
    BY <1>4, <2>1 DEF Styles, ReadableScalar
  <2> HIDE DEF info
  <2>3. /\ answer.family = info.algorithm
        /\ answer.curve \in CurveIds
        /\ answer.d \in 1 .. Params[answer.curve].n - 1
        /\ Ec!FromPkcs8(Ec!ToPkcs8(answer)) = answer
    BY <1>7, <2>2, AcceptedKeyIsReadAgain, KnownCurvesAreGiven
  <2>4. answer \in PrivateKeys
    <3>1. info.algorithm \in Ec!Families
      BY <1>7, <2>2 DEF Ec!FromPkcs8
    <3>2. answer = Ec!FromScalar(answer.family, answer.curve, answer.d)
      BY <1>7, <2>2, AcceptedKeyIsReadAgain, KnownCurvesAreGiven
    <3> QED
      BY <2>3, <3>1, <3>2, PrivateKeyIs
  <2>5. Ec!FromSpki(Ec!ToSpki(PublicOf(answer))) = PublicOf(answer)
    BY <2>4, PublicOfIs
  <2> QED
    BY <2>3, <2>4, <2>5
<1> QED
  BY <1>6, <1>7

LEMMA SpkiIsExact ==
    ASSUME Inv, Answered("spki")
    PROVE  /\ answer # Failed =>
                /\ \E k \in PrivateKeys : answer = PublicOf(k)
                /\ Ec!ToSpki(answer).octets = task.spki.octets
           /\ \A k \in PrivateKeys : Ec!ToSpki(PublicOf(k)) = task.spki => answer = PublicOf(k)
<1> DEFINE spki == task.spki
<1>1. task.kind = "spki" /\ SpkiTask
  BY TaskOfItsKind DEF Inv, Answered
<1>2. answer = Ec!FromSpki(spki)
  <2>1. answer = EncodingAnswer(task)
    BY <1>1 DEF Inv, Replied, Answered
  <2> QED
    BY Zenon, <1>1, <2>1 DEF EncodingAnswer
<1>3. spki.octets \in Seq(Octet)
  <2>1. PICK k \in PrivateKeys, o \in OctetsOf(2 * ScalarOctets) \cup OctetsOf(1), name \in CurveNames :
            task = [kind |-> "spki", spki |-> Spki(k.family, name, o)]
    BY <1>1 DEF SpkiTask
  <2>2. spki = [algorithm |-> k.family, curve |-> name, octets |-> o]
    BY <2>1 DEF Spki
  <2>3. o \in Seq(Octet)
    <3>1. 2 * ScalarOctets \in Nat /\ 1 \in Nat
      BY KnownCurvesAreGiven
    <3> QED
      BY <3>1, OctetsAreSequences
  <2> QED
    BY <2>2, <2>3
<1> HIDE DEF spki
<1>4. ASSUME answer # Failed
      PROVE  (\E k \in PrivateKeys : answer = PublicOf(k)) /\ Ec!ToSpki(answer).octets = spki.octets
  <2> DEFINE f == spki.algorithm
             id == answer.curve
             c == Params[id]
             q == answer.point
  <2>1. /\ answer = Ec!PublicKey(f, id, q)
        /\ f \in Ec!Families /\ id \in CurveIds
        /\ q \in Nat \X Nat /\ Ec!IsOnCurve(c, q)
        /\ Ec!ToSpki(answer).octets = spki.octets
    BY <1>2, <1>3, <1>4, AcceptedPublicKeyIsOnCurve, KnownCurvesAreGiven
  <2>2. SigningCurve(c) /\ c.p \in Nat /\ Infinity \notin Int \X Int
    <3>1. c \in Curves
      BY <2>1, KnownCurvesAreGiven
    <3> HIDE DEF c
    <3> QED
      BY <3>1, CurvesSign, CurvesAssumption
  <2> HIDE DEF f, id, q
  <2>3. q \in Ec!Points(c) \ {Infinity}
    BY <2>1, <2>2 DEF Ec!Points, Ec!IsOnCurve
  <2>4. PICK d \in 1 .. c.n - 1 : q = Ec!Times(c, d, c.g)
    <3> HIDE DEF c
    <3> QED
      BY <2>2, <2>3, GroupLaws
  <2> DEFINE k == [family |-> f, curve |-> id, d |-> d, public |-> Ec!Times(c, d, c.g)]
  <2>5. k \in PrivateKeys
    BY <2>1, <2>4, PrivateKeyIs
  <2>6. PublicOf(k) = answer
    BY <2>1, <2>4 DEF PublicOf, Ec!PublicKey
  <2> HIDE DEF k
  <2> QED
    BY <2>1, <2>5, <2>6
<1>5. ASSUME NEW k \in PrivateKeys, Ec!ToSpki(PublicOf(k)) = spki
      PROVE  answer = PublicOf(k)
  BY <1>2, <1>5, PublicOfIs
<1> QED
  BY <1>4, <1>5 DEF spki

LEMMA SignatureIsExact ==
    ASSUME Inv, Answered("signature")
    PROVE  /\ Ec!DecodeSignature(answer) = task.sig
           /\ Ec!DecodeSignature(SubSeq(answer, 1, 2 * ScalarOctets - 1)) = Failed
<1>1. task.kind = "signature" /\ SignatureTask
  BY TaskOfItsKind DEF Inv, Answered
<1>2. PICK sig \in Numbers \X Numbers, extra \in OctetsOf(0) \cup OctetsOf(1) :
          task = [kind |-> "signature", sig |-> sig, extra |-> extra]
  BY <1>1 DEF SignatureTask
<1>3. task.sig = sig /\ task.extra = extra
  BY <1>2
<1>4. answer = Ec!EncodeSignature(sig) \o extra
  <2>1. answer = EncodingAnswer(task)
    BY <1>1 DEF Inv, Replied, Answered
  <2> QED
    BY Zenon, <1>1, <1>3, <2>1 DEF EncodingAnswer
<1>5. Widths /\ ScalarOctets \in Nat /\ ScalarOctets > 0
  BY KnownCurvesAreGiven DEF KnownCurves
<1>6. sig \in Nat \X Nat /\ Fits(sig[1]) /\ Fits(sig[2])
  <2>1. Ec!Width \in Nat /\ Ec!Width <= Weight[ScalarOctets]
    BY WidthSteps, CurvesAssumption, EncodingsAssumption
  <2>2. Weight[ScalarOctets] \in Nat
    BY <1>5, WeightSteps
  <2> QED
    BY <2>1, <2>2 DEF Numbers, Fits
<1>7. extra \in Seq(Octet)
  BY OctetsAreSequences
<1>8. /\ Ec!DecodeSignature(answer) = sig
      /\ \A octets \in Seq(Octet) : Len(octets) < 2 * ScalarOctets => Ec!DecodeSignature(octets) = Failed
  BY <1>4, <1>5, <1>6, <1>7, SignatureIsReadAgain
<1>9. answer \in Seq(Octet) /\ Len(answer) >= 2 * ScalarOctets
  <2> DEFINE a == Ec!ScalarBE(sig[1])
             b == Ec!ScalarBE(sig[2])
  <2>1. a \in Seq(Octet) /\ Len(a) = ScalarOctets /\ b \in Seq(Octet) /\ Len(b) = ScalarOctets
    BY <1>5, <1>6, ScalarIsOctets DEF Scalars
  <2>2. answer = (a \o b) \o extra
    BY <1>4 DEF Ec!EncodeSignature
  <2> HIDE DEF a, b
  <2> QED
    BY <1>5, <1>7, <2>1, <2>2
<1>10. SubSeq(answer, 1, 2 * ScalarOctets - 1) \in Seq(Octet)
       /\ Len(SubSeq(answer, 1, 2 * ScalarOctets - 1)) < 2 * ScalarOctets
  BY <1>5, <1>9
<1> QED
  BY <1>3, <1>8, <1>10

-----------------------------------------------------------------------------
(* Tag, length and value. *)

Halves == Radix \in Nat /\ Half \in Nat /\ Half > 1

LEMMA HalfOfRadix == Halves
<1>1. Radix \in Nat /\ Radix > 3
  BY EncodingsAssumption
<1>2. Radix \div 2 \in Nat /\ Radix \div 2 > 1
  BY <1>1
<1> QED
  BY <1>1, <1>2 DEF Halves, Half

\* The lengths of the digits, from the most significant one.
IsLength(V, digits) ==
    /\ V \in [0 .. Len(digits) -> Nat]
    /\ V[0] = 0
    /\ \A i \in 1 .. Len(digits) : V[i] = V[i - 1] * Half + (digits[Len(digits) + 1 - i] % Half)
    /\ LengthOf(digits) = V[Len(digits)]

LEMMA LengthSteps ==
    ASSUME NEW digits \in Seq(Nat)
    PROVE  \E V : IsLength(V, digits)
<1> DEFINE n == Len(digits)
           d(i) == digits[n + 1 - i] % Half
           Step == [x \in Nat \X Nat |-> IF x[1] \in 1 .. n THEN x[2] * Half + d(x[1]) ELSE 0]
<1>0. n \in Nat /\ Half \in Nat /\ \A i \in 1 .. n : d(i) \in Nat
  <2>1. Half \in Nat /\ Half > 1 /\ n \in Nat
    BY HalfOfRadix DEF Halves
  <2>2. ASSUME NEW i \in 1 .. n PROVE d(i) \in Nat
    <3>1. n + 1 - i \in 1 .. n
      BY <2>1
    <3>2. digits[n + 1 - i] \in Nat
      BY <3>1
    <3> QED
      BY <2>1, <3>2, DivNat
  <2> QED
    BY <2>1, <2>2
<1> HIDE DEF n
<1>1. Step \in [Nat \X Nat -> Nat]
  <2> SUFFICES ASSUME NEW x \in Nat \X Nat, x[1] \in 1 .. n PROVE x[2] * Half + d(x[1]) \in Nat
    OBVIOUS
  <2>1. d(x[1]) \in Nat /\ x[2] \in Nat /\ Half \in Nat
    BY <1>0
  <2> QED
    BY <2>1
<1>2. PICK N \in [0 .. n -> Nat] : IsRecursion(N, 0, Step, n)
  <2> HIDE DEF Step
  <2> QED BY <1>0, <1>1, RecursionUpTo
<1>3. \A i \in 1 .. n : N[i] = N[i - 1] * Half + d(i)
  <2> SUFFICES ASSUME NEW i \in 1 .. n PROVE N[i] = N[i - 1] * Half + d(i)
    OBVIOUS
  <2>1. i \in Nat /\ N[i - 1] \in Nat /\ <<i, N[i - 1]>> \in Nat \X Nat
    BY <1>0
  <2>2. N[i] = Step[<<i, N[i - 1]>>]
    BY <1>2 DEF IsRecursion
  <2> QED
    BY <2>1, <2>2
<1>4. N[0] = 0
  BY <1>2 DEF IsRecursion
<1>5. N = [i \in 0 .. n |-> IF i = 0 THEN 0 ELSE N[i - 1] * Half + d(i)]
  <2>1. ASSUME NEW i \in 0 .. n PROVE N[i] = IF i = 0 THEN 0 ELSE N[i - 1] * Half + d(i)
    BY <1>0, <1>3, <1>4
  <2> QED
    BY <2>1
<1> DEFINE V == CHOOSE V : V = [i \in 0 .. n |-> IF i = 0 THEN 0 ELSE V[i - 1] * Half + d(i)]
<1>6. V = [i \in 0 .. n |-> IF i = 0 THEN 0 ELSE V[i - 1] * Half + d(i)]
  BY <1>5
<1>7. LengthOf(digits) = V[n]
  BY DEF LengthOf, n
<1> HIDE DEF V
<1>8. V[0] = 0 /\ \A i \in 1 .. n : V[i] = V[i - 1] * Half + d(i)
  <2>1. V[0] = 0
    BY <1>0, <1>6
  <2>2. ASSUME NEW i \in 1 .. n PROVE V[i] = V[i - 1] * Half + d(i)
    <3>1. i \in 0 .. n /\ i # 0
      BY <1>0
    <3> HIDE DEF d
    <3> QED
      BY <1>6, <3>1
  <2> QED
    BY <2>1, <2>2
<1> DEFINE S == {i \in 0 .. n : V[i] \in Nat}
<1>9. 0 .. n \subseteq S
  <2>1. ASSUME NEW i \in 1 .. n, i - 1 \in S PROVE i \in S
    <3>1. d(i) \in Nat /\ V[i - 1] \in Nat /\ i \in 0 .. n
      BY <1>0, <2>1
    <3>2. V[i - 1] * Half + d(i) \in Nat
      <4> HIDE DEF d
      <4>1. ASSUME NEW a \in Nat, NEW b \in Nat PROVE a * Half + b \in Nat
        BY <1>0
      <4> QED
        BY <3>1, <4>1
    <3>3. V[i] = V[i - 1] * Half + d(i)
      BY <1>8
    <3>4. V[i] \in Nat
      BY Zenon, <3>2, <3>3
    <3> QED
      BY <3>1, <3>4
  <2>2. 0 \in S
    BY <1>0, <1>8
  <2> HIDE DEF S
  <2> QED
    BY <1>0, <2>1, <2>2, InductionUpTo
<1>10. V \in [0 .. n -> Nat]
  BY <1>6, <1>9
<1> QED
  BY <1>7, <1>8, <1>10 DEF IsLength, n

\* One digit more below the others.
LEMMA LengthOfMore ==
    ASSUME NEW d \in Nat, NEW digits \in Seq(Nat)
    PROVE  /\ LengthOf(digits) \in Nat
           /\ LengthOf(<<>>) = 0
           /\ LengthOf(<<d>> \o digits) = LengthOf(digits) * Half + (d % Half)
<1> DEFINE n == Len(digits)
           more == <<d>> \o digits
<1>1. n \in Nat /\ more \in Seq(Nat) /\ Len(more) = n + 1 /\ more[1] = d
      /\ \A i \in 1 .. n : more[i + 1] = digits[i]
  OBVIOUS
<1>2. PICK V : IsLength(V, digits)
  BY LengthSteps
<1>3. PICK W : IsLength(W, more)
  BY <1>1, LengthSteps
<1>4. LengthOf(<<>>) = 0
  <2>1. <<>> \in Seq(Nat) /\ Len(<<>>) = 0
    OBVIOUS
  <2>2. PICK U : IsLength(U, <<>>)
    BY <2>1, LengthSteps
  <2> QED
    BY <2>1, <2>2 DEF IsLength
<1> HIDE DEF more
<1>5. V \in [0 .. n -> Nat] /\ V[0] = 0 /\ LengthOf(digits) = V[n]
      /\ \A i \in 1 .. n : V[i] = V[i - 1] * Half + (digits[n + 1 - i] % Half)
  BY <1>2 DEF IsLength
<1>6. W[0] = 0 /\ LengthOf(more) = W[n + 1]
      /\ \A i \in 1 .. n + 1 : W[i] = W[i - 1] * Half + (more[(n + 1) + 1 - i] % Half)
  BY <1>1, <1>3 DEF IsLength
<1> HIDE DEF n
<1> DEFINE S == {i \in 0 .. n : W[i] = V[i]}
<1>7. 0 .. n \subseteq S
  <2>1. ASSUME NEW i \in 1 .. n, i - 1 \in S PROVE i \in S
    <3>1. W[i] = W[i - 1] * Half + (more[(n + 1) + 1 - i] % Half)
      BY <1>1, <1>6
    <3>2. (n + 1) + 1 - i = (n + 1 - i) + 1 /\ n + 1 - i \in 1 .. n
      BY <1>1
    <3>3. more[(n + 1) + 1 - i] = digits[n + 1 - i]
      BY <1>1, <3>2
    <3>4. V[i] = V[i - 1] * Half + (digits[n + 1 - i] % Half)
      BY <1>5
    <3>5. W[i - 1] = V[i - 1] /\ i \in 0 .. n
      BY <1>1, <2>1
    <3> QED
      BY <3>1, <3>3, <3>4, <3>5
  <2>2. 0 \in S
    BY <1>1, <1>5, <1>6
  <2> HIDE DEF S
  <2> QED
    BY <1>1, <2>1, <2>2, InductionUpTo
<1>8. W[n] = V[n]
  BY <1>1, <1>7
<1>9. W[n + 1] = W[n] * Half + (d % Half)
  <2>1. n + 1 \in 1 .. n + 1 /\ (n + 1) - 1 = n /\ (n + 1) + 1 - (n + 1) = 1
    BY <1>1
  <2> QED
    BY <1>1, <1>6, <2>1
<1> QED
  BY <1>1, <1>4, <1>5, <1>6, <1>8, <1>9 DEF more, n

LEMMA HalvedIsLess ==
    ASSUME NEW n \in Nat, ~ (n < Half)
    PROVE  n \div Half \in 0 .. n - 1 /\ (n % Half) \in 0 .. Half - 1 /\ n = (n \div Half) * Half + (n % Half)
<1>1. Half \in Nat /\ Half > 1
  BY HalfOfRadix DEF Halves
<1>2. n < n * Half
  BY <1>1
<1> DEFINE q == n \div Half
           r == n % Half
<1>3. q \in Nat /\ r \in 0 .. Half - 1 /\ n = q * Half + r /\ \A m \in Nat : n < m * Half => q < m
  BY <1>1, DivNat
<1> HIDE DEF q, r
<1>4. q < n
  BY <1>2, <1>3
<1> QED
  BY <1>3, <1>4 DEF q, r

\* The digits of each length up to this one.
IsDigits(D, len) ==
    /\ D \in [0 .. len -> Seq(Nat)]
    /\ \A n \in 0 .. len : D[n] = IF n < Half THEN <<n>> ELSE <<Half + (n % Half)>> \o D[n \div Half]

LEMMA DigitsExist ==
    ASSUME NEW len \in Nat
    PROVE  \E D : IsDigits(D, len)
<1> DEFINE S == {m \in 0 .. len : \E D : IsDigits(D, m)}
<1>0. Half \in Nat /\ Half > 1
  BY HalfOfRadix DEF Halves
<1>1. 0 \in S
  <2> DEFINE D == [n \in 0 .. 0 |-> <<n>>]
  <2>1. IsDigits(D, 0)
    BY <1>0 DEF IsDigits
  <2> HIDE DEF D
  <2> QED
    BY <2>1
<1>2. ASSUME NEW m \in 1 .. len, m - 1 \in S PROVE m \in S
  <2>1. PICK D : IsDigits(D, m - 1)
    BY <1>2
  <2> DEFINE last == IF m < Half THEN <<m>> ELSE <<Half + (m % Half)>> \o D[m \div Half]
             E == [n \in 0 .. m |-> IF n = m THEN last ELSE D[n]]
  <2>2. D \in [0 .. m - 1 -> Seq(Nat)] /\ m \in Nat
    BY <2>1 DEF IsDigits
  <2>3. last \in Seq(Nat)
    <3>1. CASE m < Half
      BY <2>2, <3>1
    <3>2. CASE ~ (m < Half)
      <4>1. m \div Half \in 0 .. m - 1 /\ m % Half \in Nat
        <5>1. (m % Half) \in 0 .. Half - 1 /\ m \div Half \in 0 .. m - 1
          BY <2>2, <3>2, HalvedIsLess
        <5>2. 0 .. Half - 1 \subseteq Nat
          BY <1>0
        <5> QED
          BY Zenon, <5>1, <5>2
      <4>2. D[m \div Half] \in Seq(Nat) /\ Half + (m % Half) \in Nat
        BY <1>0, <2>2, <4>1
      <4> QED
        BY <3>2, <4>2
    <3> QED
      BY <3>1, <3>2
  <2>4. ASSUME NEW n \in 0 .. m
        PROVE  E[n] = IF n < Half THEN <<n>> ELSE <<Half + (n % Half)>> \o E[n \div Half]
    <3>1. ~ (n < Half) => n \div Half \in 0 .. m /\ n \div Half # m /\ E[n \div Half] = D[n \div Half]
      <4> SUFFICES ASSUME ~ (n < Half)
                   PROVE  n \div Half \in 0 .. m /\ n \div Half # m /\ E[n \div Half] = D[n \div Half]
        OBVIOUS
      <4>1. n \div Half \in 0 .. n - 1
        BY HalvedIsLess
      <4>2. n \div Half \in 0 .. m /\ n \div Half # m
        BY <2>2, <4>1
      <4> QED
        BY <4>2
    <3>2. CASE n = m
      BY <3>1, <3>2
    <3>3. CASE n # m
      <4>1. n \in 0 .. m - 1
        BY <2>2, <3>3
      <4>2. D[n] = IF n < Half THEN <<n>> ELSE <<Half + (n % Half)>> \o D[n \div Half]
        BY <2>1, <4>1 DEF IsDigits
      <4>3. E[n] = D[n]
        BY <3>3
      <4> HIDE DEF E
      <4> QED
        BY <3>1, <4>2, <4>3
    <3> QED
      BY <3>2, <3>3
  <2>5. E \in [0 .. m -> Seq(Nat)]
    <3> HIDE DEF last
    <3> QED
      BY <2>2, <2>3
  <2> HIDE DEF E
  <2>6. IsDigits(E, m)
    BY <2>4, <2>5 DEF IsDigits
  <2> QED
    BY <2>2, <2>6
<1>3. 0 .. len \subseteq S
  <2> HIDE DEF S
  <2> QED BY <1>1, <1>2, InductionUpTo
<1> QED
  BY <1>3

\* What EncodeLength computes with is such digits.
LEMMA LengthHasDigits ==
    ASSUME NEW len \in Nat
    PROVE  \E D : IsDigits(D, len) /\ Ec!EncodeLength(len) = D[len]
<1>1. PICK N : IsDigits(N, len)
  BY DigitsExist
<1>2. N = [n \in 0 .. len |-> IF n < Half THEN <<n>> ELSE <<Half + (n % Half)>> \o N[n \div Half]]
  BY <1>1 DEF IsDigits
<1> DEFINE D == CHOOSE D : D = [n \in 0 .. len |-> IF n < Half THEN <<n>> ELSE <<Half + (n % Half)>> \o D[n \div Half]]
<1>3. D = [n \in 0 .. len |-> IF n < Half THEN <<n>> ELSE <<Half + (n % Half)>> \o D[n \div Half]]
  BY Zenon, <1>2
<1>4. Ec!EncodeLength(len) = D[len]
  BY DEF Ec!EncodeLength, Half
<1> HIDE DEF D
<1>5. \A n \in 0 .. len : D[n] = IF n < Half THEN <<n>> ELSE <<Half + (n % Half)>> \o D[n \div Half]
  BY <1>3
<1>6. Half \in Nat /\ Half > 1
  BY HalfOfRadix DEF Halves
<1> DEFINE S == {m \in 0 .. len : \A n \in 0 .. m : D[n] \in Seq(Nat)}
<1>7. 0 \in S
  <2>1. D[0] = <<0>>
    <3>1. 0 \in 0 .. len /\ 0 < Half
      BY <1>6
    <3> QED
      BY Zenon, <1>5, <3>1
  <2>2. D[0] \in Seq(Nat)
    BY <2>1
  <2>3. 0 \in 0 .. len /\ \A n \in 0 .. 0 : n = 0
    OBVIOUS
  <2> QED
    BY Zenon, <2>2, <2>3
<1>8. ASSUME NEW m \in 1 .. len, m - 1 \in S PROVE m \in S
  <2>1. D[m] \in Seq(Nat)
    <3>0. m \in Nat /\ m \in 0 .. len
      OBVIOUS
    <3>1. CASE m < Half
      <4>1. D[m] = <<m>>
        BY Zenon, <1>5, <3>0, <3>1
      <4> QED
        BY <3>0, <4>1
    <3>2. CASE ~ (m < Half)
      <4>1. m \div Half \in 0 .. m - 1 /\ m % Half \in Nat
        <5>1. (m % Half) \in 0 .. Half - 1 /\ m \div Half \in 0 .. m - 1
          BY <3>0, <3>2, HalvedIsLess
        <5>2. 0 .. Half - 1 \subseteq Nat
          BY <1>6
        <5> QED
          BY Zenon, <5>1, <5>2
      <4>2. D[m \div Half] \in Seq(Nat) /\ Half + (m % Half) \in Nat
        BY <1>6, <1>8, <4>1
      <4>3. D[m] = <<Half + (m % Half)>> \o D[m \div Half]
        BY <1>5, <3>0, <3>2
      <4> QED
        BY <4>2, <4>3
    <3> QED
      BY <3>1, <3>2
  <2>2. \A n \in 0 .. m : n = m \/ n \in 0 .. m - 1
    OBVIOUS
  <2> QED
    BY <1>8, <2>1, <2>2
<1>9. 0 .. len \subseteq S
  <2> HIDE DEF S
  <2> QED BY <1>7, <1>8, InductionUpTo
<1>10. D \in [0 .. len -> Seq(Nat)]
  <2>1. \A n \in 0 .. len : D[n] \in Seq(Nat)
    BY <1>9
  <2> QED
    BY <1>3, <2>1
<1> QED
  BY <1>4, <1>5, <1>10 DEF IsDigits

\* Digits that say where they end.
Ended(digits) ==
    /\ digits \in Seq(Nat) /\ Len(digits) > 0
    /\ \A i \in 1 .. Len(digits) - 1 : digits[i] >= Half
    /\ digits[Len(digits)] < Half

\* A length is read again from its digits, which say where they end
\* (randseed.rs).
LEMMA LengthIsReadAgain ==
    ASSUME NEW len \in Nat
    PROVE  Ended(Ec!EncodeLength(len)) /\ LengthOf(Ec!EncodeLength(len)) = len
<1>0. Half \in Nat /\ Half > 1
  BY HalfOfRadix DEF Halves
<1>1. PICK D : IsDigits(D, len) /\ Ec!EncodeLength(len) = D[len]
  BY LengthHasDigits
<1>2. /\ \A n \in 0 .. len : n < Half => D[n] = <<n>>
      /\ \A n \in 0 .. len : ~ (n < Half) => D[n] = <<Half + (n % Half)>> \o D[n \div Half]
      /\ \A n \in 0 .. len : D[n] \in Seq(Nat)
  BY Zenon, <1>1 DEF IsDigits
<1> DEFINE Read(n) == Ended(D[n]) /\ LengthOf(D[n]) = n
           S == {m \in 0 .. len : \A n \in 0 .. m : Read(n)}
<1>3. ASSUME NEW n \in 0 .. len, n < Half PROVE Read(n)
  <2>1. D[n] = <<n>> /\ n \in Nat
    BY <1>2, <1>3
  <2>2. Ended(<<n>>)
    BY <1>3, <2>1 DEF Ended
  <2>3. LengthOf(<<n>> \o <<>>) = LengthOf(<<>>) * Half + (n % Half) /\ LengthOf(<<>>) = 0
    <3>1. <<>> \in Seq(Nat)
      OBVIOUS
    <3> QED
      BY Zenon, <2>1, <3>1, LengthOfMore
  <2>4. <<n>> \o <<>> = <<n>> /\ 0 * Half + (n % Half) = n
    BY <1>0, <1>3
  <2>5. LengthOf(<<n>>) = n
    BY Zenon, <2>3, <2>4
  <2> QED
    BY Zenon, <2>1, <2>2, <2>5
<1>4. ASSUME NEW n \in 0 .. len, ~ (n < Half), Read(n \div Half) PROVE Read(n)
  <2> DEFINE q == n \div Half
             r == n % Half
             rest == D[q]
  <2>1. n \in Nat /\ q \in 0 .. n - 1 /\ r \in 0 .. Half - 1 /\ n = q * Half + r
    BY <1>4, HalvedIsLess
  <2>2. D[n] = <<Half + r>> \o rest
    BY Zenon, <1>2, <1>4
  <2>3. Ended(rest) /\ LengthOf(rest) = q
    BY <1>4
  <2> HIDE DEF q, r, rest
  <2>4. rest \in Seq(Nat) /\ Len(rest) > 0 /\ Half + r \in Nat /\ Half + r >= Half
    BY <1>0, <2>1, <2>3 DEF Ended
  <2>5. Ended(<<Half + r>> \o rest)
    <3> DEFINE d == Half + r
               more == <<d>> \o rest
               m == Len(rest)
    <3>1. m \in Nat /\ m > 0 /\ more \in Seq(Nat) /\ Len(more) = m + 1 /\ more[1] = d
          /\ \A i \in 1 .. m : more[i + 1] = rest[i]
      BY <2>4
    <3>2. (\A i \in 1 .. m - 1 : rest[i] >= Half) /\ rest[m] < Half /\ d >= Half
      BY <2>3, <2>4 DEF Ended
    <3> HIDE DEF d, more, m
    <3>3. ASSUME NEW i \in 1 .. m PROVE more[i] >= Half
      <4>1. CASE i = 1
        BY <3>1, <3>2, <4>1
      <4>2. CASE i # 1
        <5>1. i - 1 \in 1 .. m - 1 /\ i - 1 \in 1 .. m /\ (i - 1) + 1 = i
          BY <3>1, <4>2
        <5> QED
          BY <3>1, <3>2, <5>1
      <4> QED
        BY <4>1, <4>2
    <3>4. more[m + 1] < Half
      <4>1. m \in 1 .. m
        BY <3>1
      <4> QED
        BY <3>1, <3>2, <4>1
    <3>5. (m + 1) - 1 = m /\ m + 1 > 0
      BY <3>1
    <3>6. Ended(more)
      BY <3>1, <3>3, <3>4, <3>5 DEF Ended
    <3> QED
      BY <3>6 DEF more, d
  <2>6. LengthOf(<<Half + r>> \o rest) = LengthOf(rest) * Half + ((Half + r) % Half)
    BY <2>4, LengthOfMore
  <2>7. ((Half + r) % Half) = r
    <3>1. (1 * Half + r) % Half = r
      BY <1>0, <2>1, ShiftBack
    <3>2. 1 * Half + r = Half + r
      BY <1>0
    <3> QED
      BY <3>1, <3>2
  <2>8. LengthOf(<<Half + r>> \o rest) = n
    BY <2>1, <2>3, <2>6, <2>7
  <2> QED
    BY <2>2, <2>5, <2>8
<1> HIDE DEF Read
<1>5. 0 \in S
  <2>1. 0 \in 0 .. len /\ 0 < Half /\ \A n \in 0 .. 0 : n = 0
    BY <1>0
  <2> QED
    BY <1>3, <2>1
<1>6. ASSUME NEW m \in 1 .. len, m - 1 \in S PROVE m \in S
  <2>1. Read(m)
    <3>0. m \in 0 .. len /\ m \in Nat
      OBVIOUS
    <3>1. CASE m < Half
      BY <1>3, <3>0, <3>1
    <3>2. CASE ~ (m < Half)
      <4>1. m \div Half \in 0 .. m - 1
        BY <3>0, <3>2, HalvedIsLess
      <4>2. Read(m \div Half)
        BY <1>6, <4>1
      <4> QED
        BY <1>4, <3>0, <3>2, <4>2
    <3> QED
      BY <3>1, <3>2
  <2>2. \A n \in 0 .. m : n = m \/ n \in 0 .. m - 1
    OBVIOUS
  <2>3. \A n \in 0 .. m - 1 : Read(n)
    BY <1>6
  <2>4. m \in 0 .. len
    OBVIOUS
  <2> QED
    BY Zenon, <2>1, <2>2, <2>3, <2>4
<1>7. 0 .. len \subseteq S
  <2> HIDE DEF S
  <2> QED BY <1>5, <1>6, InductionUpTo
<1>8. Read(len)
  BY <1>7
<1> QED
  BY <1>1, <1>8 DEF Read

\* Four sequences joined are where they are looked for.
IsJoined(all, tag, a, b, c) ==
    /\ all \in Seq(Nat) /\ all[1] = tag
    /\ Len(all) = 1 + Len(a) + Len(b) + Len(c)
    /\ \A i \in 1 .. Len(a) : all[i + 1] = a[i]
    /\ SubSeq(all, 2, Len(a) + 1) = a
    /\ SubSeq(all, Len(a) + 2, Len(all)) = b \o c
    /\ SubSeq(b \o c, 1, Len(b)) = b
    /\ SubSeq(b \o c, Len(b) + 1, Len(b \o c)) = c

LEMMA JoinedInAnyOrder ==
    ASSUME NEW a \in Seq(Nat), NEW b \in Seq(Nat), NEW c \in Seq(Nat)
    PROVE  (a \o b) \o c = a \o (b \o c)
BY SMTT(30)

LEMMA CutWhereJoined ==
    ASSUME NEW a \in Seq(Nat), NEW b \in Seq(Nat)
    PROVE  /\ SubSeq(a \o b, 1, Len(a)) = a
           /\ SubSeq(a \o b, Len(a) + 1, Len(a \o b)) = b
<1> DEFINE all == a \o b
           first == SubSeq(all, 1, Len(a))
           second == SubSeq(all, Len(a) + 1, Len(all))
<1>1. /\ Len(a) \in Nat /\ Len(b) \in Nat /\ all \in Seq(Nat) /\ Len(all) = Len(a) + Len(b)
      /\ \A i \in 1 .. Len(a) : all[i] = a[i]
      /\ \A i \in 1 .. Len(b) : all[i + Len(a)] = b[i]
  OBVIOUS
<1> HIDE DEF all
<1>2. /\ first \in Seq(Nat) /\ Len(first) = Len(a)
      /\ \A i \in 1 .. Len(first) : first[i] = all[i]
  BY <1>1
<1>3. /\ second \in Seq(Nat) /\ Len(second) = Len(b)
      /\ \A i \in 1 .. Len(second) : second[i] = all[i + Len(a)]
  <2> DEFINE m == Len(a) + 1
             n == Len(all)
  <2>1. m \in Nat /\ n \in Nat /\ (n - m) + 1 = Len(b) /\ \A i \in m .. n : all[i] \in Nat
    BY <1>1
  <2> HIDE DEF m, n
  <2>2. /\ SubSeq(all, m, n) \in Seq(Nat)
        /\ Len(SubSeq(all, m, n)) = Len(b)
        /\ \A i \in 1 .. Len(b) : SubSeq(all, m, n)[i] = all[(m + i) - 1]
    BY <1>1, <2>1
  <2>3. \A i \in 1 .. Len(b) : (m + i) - 1 = i + Len(a)
    BY <1>1 DEF m
  <2> QED
    BY <2>2, <2>3 DEF m, n
<1> HIDE DEF first, second
<1>4. first = a
  BY <1>1, <1>2, SeqEqual
<1>5. second = b
  <2>1. \A i \in 1 .. Len(second) : second[i] = b[i]
    BY <1>1, <1>3
  <2> QED
    BY <1>3, <2>1, SeqEqual
<1> QED
  BY <1>4, <1>5 DEF first, second, all

LEMMA JoinedAndCut ==
    ASSUME NEW tag \in Nat, NEW a \in Seq(Nat), NEW b \in Seq(Nat), NEW c \in Seq(Nat)
    PROVE  IsJoined((<<tag>> \o a \o b) \o c, tag, a, b, c)
<1> DEFINE all == (<<tag>> \o a \o b) \o c
<1>1. all \in Seq(Nat) /\ all[1] = tag /\ Len(all) = 1 + Len(a) + Len(b) + Len(c)
      /\ \A i \in 1 .. Len(a) : all[i + 1] = a[i]
  OBVIOUS
<1>2. SubSeq(all, 2, Len(a) + 1) = a
  OBVIOUS
<1>3. SubSeq(all, Len(a) + 2, Len(all)) = b \o c
  <2> DEFINE front == <<tag>> \o a
             back == b \o c
  <2>1. <<tag>> \in Seq(Nat) /\ front \in Seq(Nat) /\ back \in Seq(Nat) /\ Len(front) = Len(a) + 1
        /\ Len(a) \in Nat
    OBVIOUS
  <2>2. all = front \o back
    <3> HIDE DEF all
    <3>1. \A x \in Seq(Nat) : (x \o b) \o c = x \o (b \o c)
      BY JoinedInAnyOrder
    <3>2. (front \o b) \o c = front \o (b \o c)
      BY Zenon, <2>1, <3>1
    <3> QED BY <3>2 DEF all
  <2> HIDE DEF all, front, back
  <2>3. SubSeq(front \o back, Len(front) + 1, Len(front \o back)) = back
    BY <2>1, CutWhereJoined
  <2>4. Len(front) + 1 = Len(a) + 2
    BY <2>1
  <2> QED
    BY <2>2, <2>3, <2>4 DEF back
<1>4. SubSeq(b \o c, 1, Len(b)) = b /\ SubSeq(b \o c, Len(b) + 1, Len(b \o c)) = c
  BY CutWhereJoined
<1> HIDE DEF all
<1>5. IsJoined(all, tag, a, b, c)
  BY <1>1, <1>2, <1>3, <1>4 DEF IsJoined
<1> QED
  BY <1>5 DEF all

\* A value starts after the first digit that says the length ends there.
LEMMA TlvIsCutThere ==
    ASSUME NEW octets \in Seq(Nat), NEW last \in 2 .. Len(octets), octets[last] < Half,
           \A j \in 2 .. last - 1 : octets[j] >= Half
    PROVE  LET after == SubSeq(octets, last + 1, Len(octets))
               len == LengthOf(SubSeq(octets, 2, last))
           IN  ReadTlv(octets) = <<octets[1], SubSeq(after, 1, len), SubSeq(after, len + 1, Len(after))>>
<1> DEFINE P(i) == octets[i] < Half /\ \A j \in 2 .. i - 1 : octets[j] >= Half
<1>0. Half \in Nat
  BY HalfOfRadix DEF Halves
<1>1. ASSUME NEW i \in 2 .. Len(octets), P(i) PROVE i = last
  <2>1. \A j \in 2 .. Len(octets) : octets[j] \in Nat /\ ~ (octets[j] >= Half /\ octets[j] < Half)
    BY <1>0
  <2>2. CASE i < last
    <3>1. i \in 2 .. last - 1
      BY <2>2
    <3> QED
      BY <1>1, <2>1, <3>1
  <2>3. CASE last < i
    <3>1. last \in 2 .. i - 1
      BY <2>3
    <3> QED
      BY <1>1, <2>1, <3>1
  <2> QED
    BY <2>2, <2>3
<1>2. LastDigit(octets) = last
  <2>1. P(last)
    OBVIOUS
  <2>2. LastDigit(octets) = CHOOSE i \in 2 .. Len(octets) : P(i)
    BY DEF LastDigit
  <2> HIDE DEF P
  <2> QED
    BY <1>1, <2>1, <2>2
<1> QED
  BY Zenon, <1>2 DEF ReadTlv

\* A tag, a length and a value are read again, whatever comes after them and
\* however many digits the length takes (randseed.rs).
THEOREM TlvIsReadAgain ==
    ASSUME NEW tag \in Nat, NEW value \in Seq(Nat), NEW rest \in Seq(Nat)
    PROVE  ReadTlv(Ec!EncodeTlv(tag, value) \o rest) = <<tag, value, rest>>
<1> DEFINE digits == Ec!EncodeLength(Len(value))
           m == Len(digits)
           octets == (<<tag>> \o digits \o value) \o rest
<1>1. Len(value) \in Nat
  OBVIOUS
<1>2. Ended(digits) /\ LengthOf(digits) = Len(value)
  BY <1>1, LengthIsReadAgain
<1>3. digits \in Seq(Nat) /\ m \in Nat /\ m > 0 /\ digits[m] < Half
      /\ \A i \in 1 .. m - 1 : digits[i] >= Half
  BY <1>2 DEF Ended
<1>4. Ec!EncodeTlv(tag, value) \o rest = octets
  BY DEF Ec!EncodeTlv
<1> HIDE DEF digits
<1>5. /\ octets \in Seq(Nat) /\ octets[1] = tag
      /\ Len(octets) = 1 + m + Len(value) + Len(rest)
      /\ \A i \in 1 .. m : octets[i + 1] = digits[i]
      /\ SubSeq(octets, 2, m + 1) = digits
      /\ SubSeq(octets, m + 2, Len(octets)) = value \o rest
      /\ SubSeq(value \o rest, 1, Len(value)) = value
      /\ SubSeq(value \o rest, Len(value) + 1, Len(value \o rest)) = rest
  <2>1. IsJoined(octets, tag, digits, value, rest)
    BY <1>3, JoinedAndCut
  <2> HIDE DEF octets
  <2> QED
    BY <2>1 DEF IsJoined
<1> HIDE DEF octets, m
<1>6. m + 1 \in 2 .. Len(octets)
  BY <1>1, <1>3, <1>5
<1>7. \A j \in 2 .. (m + 1) - 1 : octets[j] >= Half
  <2> SUFFICES ASSUME NEW j \in 2 .. (m + 1) - 1 PROVE octets[j] >= Half
    OBVIOUS
  <2>1. j - 1 \in 1 .. m - 1 /\ j - 1 \in 1 .. m /\ (j - 1) + 1 = j
    BY <1>3
  <2>2. octets[j] = digits[j - 1]
    BY <1>5, <2>1
  <2> QED
    BY <1>3, <2>1, <2>2
<1>8. octets[m + 1] < Half
  <2>1. m \in 1 .. m
    BY <1>3
  <2> QED
    BY <1>3, <1>5, <2>1
<1> DEFINE after == SubSeq(octets, (m + 1) + 1, Len(octets))
           len == LengthOf(SubSeq(octets, 2, m + 1))
<1>9. ReadTlv(octets) = <<octets[1], SubSeq(after, 1, len), SubSeq(after, len + 1, Len(after))>>
  BY Zenon, <1>5, <1>6, <1>7, <1>8, TlvIsCutThere
<1>10. after = value \o rest
  <2>1. (m + 1) + 1 = m + 2
    BY <1>3
  <2> QED
    BY Zenon, <1>5, <2>1
<1>11. len = Len(value)
  BY Zenon, <1>2, <1>5
<1> HIDE DEF after, len
<1> QED
  BY Zenon, <1>4, <1>5, <1>9, <1>10, <1>11

LEMMA TlvIsNumbers ==
    ASSUME NEW tag \in Nat, NEW value \in Seq(Nat)
    PROVE  Ec!EncodeTlv(tag, value) \in Seq(Nat)
<1>1. Len(value) \in Nat
  OBVIOUS
<1>2. Ec!EncodeLength(Len(value)) \in Seq(Nat)
  BY <1>1, LengthIsReadAgain DEF Ended
<1> QED
  BY <1>2 DEF Ec!EncodeTlv

LEMMA SeedIsExact ==
    ASSUME Inv, Answered("seed")
    PROVE  LET outer == ReadTlv(answer)
               first == ReadTlv(outer[2])
               second == ReadTlv(first[3])
               third == ReadTlv(second[3])
           IN  <<first[2], second[2], third[2], third[3], outer[3]>>
                   = <<task.parts[1], task.parts[2], task.parts[3], <<>>, <<>> >>
<1>1. task.kind = "seed" /\ SeedTask
  BY TaskOfItsKind DEF Inv, Answered
<1>2. PICK i \in 0 .. 2 * Radix + 1, j \in 0 .. 2 * Radix + 1, k \in 0 .. 2 * Radix + 1 :
          task = [kind |-> "seed",
                  parts |-> <<[n \in 1 .. i |-> 0], [n \in 1 .. j |-> 1], [n \in 1 .. k |-> 2]>>]
  BY <1>1 DEF SeedTask
<1> DEFINE e == task.parts[1]
           h == task.parts[2]
           key == task.parts[3]
<1>3. e \in Seq(Nat) /\ h \in Seq(Nat) /\ key \in Seq(Nat)
  <2>1. i \in Nat /\ j \in Nat /\ k \in Nat
    BY HalfOfRadix DEF Halves
  <2>2. e = [n \in 1 .. i |-> 0] /\ h = [n \in 1 .. j |-> 1] /\ key = [n \in 1 .. k |-> 2]
    BY <1>2
  <2> QED
    BY <2>1, <2>2
<1>4. answer = Ec!EncodeSeed(e, h, key)
  <2>1. answer = EncodingAnswer(task)
    BY <1>1 DEF Inv, Replied, Answered
  <2> QED
    BY Zenon, <1>1, <2>1 DEF EncodingAnswer
<1> HIDE DEF e, h, key
<1> DEFINE a == Ec!EncodeTlv(16, e)
           b == Ec!EncodeTlv(17, h)
           c == Ec!EncodeTlv(18, key)
           inner == a \o (b \o c)
<1>5. a \in Seq(Nat) /\ b \in Seq(Nat) /\ c \in Seq(Nat)
  BY <1>3, TlvIsNumbers
<1>6. answer = Ec!EncodeTlv(240, inner)
  <2>1. answer = Ec!EncodeTlv(240, (a \o b) \o c)
    BY <1>4 DEF Ec!EncodeSeed
  <2> HIDE DEF a, b, c
  <2>2. (a \o b) \o c = inner
    BY <1>5, JoinedInAnyOrder
  <2> QED
    BY <2>1, <2>2
<1>7. ReadTlv(inner) = <<16, e, b \o c>>
  <2>1. b \o c \in Seq(Nat)
    <3> HIDE DEF b, c
    <3> QED
      BY <1>5
  <2> QED
    BY <1>3, <2>1, TlvIsReadAgain
<1>8. ReadTlv(b \o c) = <<17, h, c>>
  BY <1>3, <1>5, TlvIsReadAgain
<1> DEFINE none == <<>>
<1>9. none \in Seq(Nat)
  OBVIOUS
<1>10. ReadTlv(c) = <<18, key, none>>
  <2>1. ReadTlv(c \o none) = <<18, key, none>>
    <3> HIDE DEF none
    <3> QED
      BY <1>3, <1>9, TlvIsReadAgain
  <2>2. c \o none = c
    <3> HIDE DEF c
    <3> QED
      BY <1>5
  <2> QED
    BY <2>1, <2>2
<1> HIDE DEF a, b, c
<1>11. inner \in Seq(Nat)
  BY <1>5
<1>12. ReadTlv(answer) = <<240, inner, none>>
  <2> DEFINE all == Ec!EncodeTlv(240, inner)
  <2> HIDE DEF inner
  <2>1. ReadTlv(all \o none) = <<240, inner, none>>
    <3> HIDE DEF none
    <3> QED
      BY <1>9, <1>11, TlvIsReadAgain
  <2>2. all \in Seq(Nat)
    BY <1>11, TlvIsNumbers
  <2>3. all \o none = all
    <3> HIDE DEF all
    <3> QED
      BY <2>2
  <2> QED
    BY <1>6, <2>1, <2>3
<1> DEFINE rest == b \o c
<1> HIDE DEF inner, none, rest
<1>13. ReadTlv(answer)[2] = inner /\ ReadTlv(answer)[3] = none
  BY <1>12
<1>14. ReadTlv(inner)[2] = e /\ ReadTlv(inner)[3] = rest
  BY <1>7 DEF rest
<1>15. ReadTlv(rest)[2] = h /\ ReadTlv(rest)[3] = c
  BY <1>8 DEF rest
<1>16. ReadTlv(c)[2] = key /\ ReadTlv(c)[3] = none
  BY <1>10
<1> QED
  BY Zenon, <1>13, <1>14, <1>15, <1>16 DEF e, h, key, none

\* A private key is read the same from every style, what is accepted is a key
\* with its own public one and is read again as it is written, a signature
\* keeps its numbers and a seed its parts: EncodingsAreExact, for octets of
\* every radix, scalars of every width and lengths of every size (keys.rs,
\* gost3410.rs and randseed.rs).
THEOREM SpecEncodingsAreExact == Spec => []EncodingsAreExact
<1>1. Inv => EncodingsAreExact
  BY Pkcs8IsExact, SpkiIsExact, SignatureIsExact, SeedIsExact DEF EncodingsAreExact
<1> QED
  BY <1>1, TasksAreAnswered, PTL

-----------------------------------------------------------------------------
(* The tasks of documents. *)

\* A message as the tasks have them.
AttributesThere == [contentType : {None, IdData}, digest : {None} \cup Texts]
IsSignerInfo(si) ==
    /\ si.attrs \in {None} \cup AttributesThere
    /\ si.signature.key \in {"k1", "k2"}
    /\ si.signature = [key |-> si.signature.key, over |-> si.signature.over]
IsMessage(sd) ==
    /\ sd.content \in {None} \cup Contents /\ sd.contentType \in {IdData, "other"}
    /\ sd.certs \subseteq Certificates
    /\ \A si \in sd.signers : IsSignerInfo(si)

Message(contentType, content, certs, signers) ==
    [contentType |-> contentType, content |-> content, certs |-> certs, signers |-> signers]

LEMMA MessageIs ==
    ASSUME NEW attached \in BOOLEAN, NEW key \in {"k1", "k2"}, NEW signer \in Certificates,
           NEW cert \in Certificates, NEW a \in AttributesThere,
           NEW sd \in Replaced(Signed!Sign(Text("c"), attached, key, <<signer>>), a, cert)
    PROVE  IsMessage(sd)
<1> DEFINE attrs == Signed!Attributes(IdData, Text("c"))
           content == IF attached THEN Text("c") ELSE None
           si == Signed!SignerInfo(signer.sid, attrs, key, attrs)
           s == Message(IdData, content, {signer}, {si})
           Signers(t) == [s EXCEPT !.signers = t]
           Signer(b, over) == Signed!SignerInfo(signer.sid, b, key, over)
<1>1. Signed!Sign(Text("c"), attached, key, <<signer>>) = s
  <2>1. <<signer>> # <<>> /\ Signed!IsInjective(<<signer>>) /\ Signed!ToSet(<<signer>>) = {signer}
    BY DEF Signed!IsInjective, Signed!ToSet
  <2> QED
    BY <2>1 DEF Signed!Sign, Message
<1>2. \/ sd \in {s, [s EXCEPT !.content = Text("d")], [s EXCEPT !.content = attrs],
                 [s EXCEPT !.contentType = "other"],
                 [s EXCEPT !.certs = {cert} \cup @], [s EXCEPT !.certs = {cert}]}
      \/ sd \in {Signers({[si EXCEPT !.sid = None]}), Signers({[si EXCEPT !.digestAlg = "other"]}),
                 Signers({Signer(None, attrs)}), Signers({Signer(a, attrs)}), Signers({Signer(a, a)}),
                 Signers({Signer(None, Text("c"))}), Signers({si, Signer(a, attrs)})}
  <2>1. (CHOOSE info \in s.signers : TRUE) = si
    BY DEF Message
  <2>2. si.sid = signer.sid /\ si.signature.key = key /\ si.attrs = attrs
    BY DEF Signed!SignerInfo
  <2>3. sd \in Replaced(s, a, cert)
    BY <1>1
  <2> HIDE DEF s, si, attrs
  <2> QED
    BY <2>1, <2>2, <2>3 DEF Replaced
<1>3. attrs \in AttributesThere
  BY DEF Signed!Attributes, AttributesThere, Texts
<1> HIDE DEF attrs
<1>4. \A sid, over, b : b \in {None} \cup AttributesThere => IsSignerInfo(Signed!SignerInfo(sid, b, key, over))
  BY DEF IsSignerInfo, Signed!SignerInfo
<1>5. /\ IsSignerInfo(si) /\ IsSignerInfo([si EXCEPT !.sid = None])
      /\ IsSignerInfo([si EXCEPT !.digestAlg = "other"])
      /\ IsSignerInfo(Signer(None, attrs)) /\ IsSignerInfo(Signer(a, attrs)) /\ IsSignerInfo(Signer(a, a))
      /\ IsSignerInfo(Signer(None, Text("c")))
  <2>1. [si EXCEPT !.sid = None] = Signed!SignerInfo(None, attrs, key, attrs)
    BY DEF Signed!SignerInfo
  <2>2. IsSignerInfo([si EXCEPT !.digestAlg = "other"])
    BY <1>3 DEF Signed!SignerInfo, IsSignerInfo
  <2> HIDE DEF si
  <2> QED
    BY <1>3, <1>4, <2>1, <2>2 DEF si
<1>6. content \in {None} \cup Contents /\ Text("d") \in {None} \cup Contents /\ attrs \in {None} \cup Contents
  BY DEF Contents, Texts, attrs
<1>7. {signer} \in SUBSET Certificates /\ {cert} \in SUBSET Certificates /\ {cert} \cup {signer} \in SUBSET Certificates
  OBVIOUS
<1>8. /\ s.contentType = IdData /\ s.content = content /\ s.certs = {signer} /\ s.signers = {si}
      /\ DOMAIN s = {"contentType", "content", "certs", "signers"}
  <2> HIDE DEF si, content
  <2> QED BY DEF Message
<1> HIDE DEF si, s, content, Signers, Signer
<1>9. /\ IsMessage(s)
      /\ \A d \in {None} \cup Contents : IsMessage([s EXCEPT !.content = d])
      /\ IsMessage([s EXCEPT !.contentType = "other"])
      /\ \A c \in SUBSET Certificates : IsMessage([s EXCEPT !.certs = c])
      /\ \A t : (\A i \in t : IsSignerInfo(i)) => IsMessage([s EXCEPT !.signers = t])
  <2>1. IsMessage(s)
    BY <1>5, <1>6, <1>7, <1>8 DEF IsMessage
  <2>2. \A d \in {None} \cup Contents : IsMessage([s EXCEPT !.content = d])
    BY <1>5, <1>7, <1>8 DEF IsMessage
  <2>3. IsMessage([s EXCEPT !.contentType = "other"])
    BY <1>5, <1>6, <1>7, <1>8 DEF IsMessage
  <2>4. \A c \in SUBSET Certificates : IsMessage([s EXCEPT !.certs = c])
    BY <1>5, <1>6, <1>8 DEF IsMessage
  <2>5. \A t : (\A i \in t : IsSignerInfo(i)) => IsMessage([s EXCEPT !.signers = t])
    BY <1>6, <1>7, <1>8 DEF IsMessage
  <2> QED
    BY <2>1, <2>2, <2>3, <2>4, <2>5
<1>15. CASE sd \in {s, [s EXCEPT !.content = Text("d")], [s EXCEPT !.content = attrs],
                    [s EXCEPT !.contentType = "other"],
                    [s EXCEPT !.certs = {cert} \cup @], [s EXCEPT !.certs = {cert}]}
  <2>1. [s EXCEPT !.certs = {cert} \cup @] = [s EXCEPT !.certs = {cert} \cup {signer}]
    BY <1>8
  <2> QED
    BY <1>6, <1>7, <1>9, <1>15, <2>1
<1>16. ASSUME NEW t, sd = Signers(t), \A i \in t : IsSignerInfo(i) PROVE IsMessage(sd)
  BY <1>9, <1>16 DEF Signers
<1>17. \A i : IsSignerInfo(i) => \A t : t \in {{i}, {si, i}} => \A k \in t : IsSignerInfo(k)
  BY <1>5
<1> QED
  BY <1>2, <1>5, <1>15, <1>16, <1>17

LEMMA CertificatesAre ==
    Certificates = {[sid |-> "s1", key |-> "k1", sound |-> TRUE], [sid |-> "s1", key |-> "k2", sound |-> TRUE],
                    [sid |-> "s2", key |-> None, sound |-> TRUE], [sid |-> "s2", key |-> "k2", sound |-> FALSE]}
BY DEF Certificates

LEMMA CmsIsSigned ==
    ASSUME Inv
    PROVE  SignersSigned
<1> SUFFICES ASSUME Answered("cms"), answer # None,
                    NEW si \in task.sd.signers
             PROVE  LET content == Signed!ContentOf(task.sd, task.detached)
                        Named == {c \in task.sd.certs : c.sid = si.sid}
                        IsSigner(c) == c.sound /\ c.key = si.signature.key
                    IN  /\ answer[si] =>
                            /\ \E c \in Named : IsSigner(c)
                            /\ si.signature.over \in {content, Signed!Attributes(task.sd.contentType, content)}
                        /\ /\ Named # {} /\ \A c \in Named : IsSigner(c)
                           /\ si.digestAlg = GostDigest
                           /\ si.attrs = Signed!Attributes(task.sd.contentType, content)
                           /\ si.signature.over = si.attrs
                           => answer[si]
  BY Zenon DEF SignersSigned
<1> DEFINE sd == task.sd
           content == Signed!ContentOf(task.sd, task.detached)
           Named == {c \in task.sd.certs : c.sid = si.sid}
           IsSigner(c) == c.sound /\ c.key = si.signature.key
<1>1. task.kind = "cms" /\ CmsTask
  BY TaskOfItsKind DEF Inv, Answered
<1>2. task.detached \in {None} \cup Contents /\ IsMessage(sd)
  <2>1. PICK attached \in BOOLEAN, key \in {"k1", "k2"}, signer \in Certificates, cert \in Certificates,
             type \in {None, IdData}, digest \in {None} \cup Texts, detached \in {None} \cup Contents :
             \E m \in Replaced(Signed!Sign(Text("c"), attached, key, <<signer>>), Signed!Attributes(type, digest), cert) :
                task = [kind |-> "cms", detached |-> detached, sd |-> m]
    BY <1>1 DEF CmsTask
  <2>2. PICK m \in Replaced(Signed!Sign(Text("c"), attached, key, <<signer>>), Signed!Attributes(type, digest), cert) :
             task = [kind |-> "cms", detached |-> detached, sd |-> m]
    BY <2>1
  <2>3. Signed!Attributes(type, digest) \in AttributesThere
    BY DEF Signed!Attributes, AttributesThere
  <2>4. IsMessage(m)
    BY <2>2, <2>3, MessageIs
  <2> QED
    BY <2>2, <2>4
<1>3. answer = Signed!Verify(task.sd, task.detached)
  <2>1. answer = CmsAnswer(task)
    BY <1>1 DEF Inv, Replied, Answered
  <2> QED
    BY <2>1 DEF CmsAnswer
<1>4. /\ content # None
      /\ answer = [j \in sd.signers |-> Signed!VerifySigner(sd, content, j)]
  BY <1>3 DEF Signed!Verify
<1>5. answer[si] = Signed!VerifySigner(sd, content, si)
  BY <1>4
<1>6. content \in Contents
  <2>1. sd.content \in {None} \cup Contents
    BY <1>2 DEF IsMessage
  <2> QED
    BY <1>2, <1>4, <2>1 DEF Signed!ContentOf
<1>7. /\ IsSignerInfo(si) /\ sd.certs \subseteq Certificates /\ sd.contentType \in {IdData, "other"}
      /\ None \notin sd.certs /\ \A c \in sd.certs : Der(c) \in Nat
  <2>1. IsSignerInfo(si) /\ sd.certs \subseteq Certificates /\ sd.contentType \in {IdData, "other"}
    BY <1>2 DEF IsMessage
  <2>2. None \notin Certificates /\ \A c \in Certificates : Der(c) \in Nat
    BY AbsenceAssumption, DerAssumption
  <2> HIDE DEF sd
  <2> QED
    BY <2>1, <2>2
<1> HIDE DEF content, sd
<1>8. ASSUME answer[si]
      PROVE  /\ \E c \in Named : IsSigner(c)
             /\ si.signature.over \in {content, Signed!Attributes(sd.contentType, content)}
  <2>1. Signed!VerifySigner(sd, content, si)
    BY <1>5, <1>8
  <2>2. si.attrs \in {None} \cup [contentType : {None, IdData}, digest : {None} \cup Texts]
    BY <1>7 DEF IsSignerInfo, AttributesThere
  <2>3. /\ si.signature.over =
                IF si.attrs = None THEN content ELSE Signed!Attributes(sd.contentType, content)
        /\ \E c \in sd.certs : c.sid = si.sid /\ c.key = si.signature.key /\ c.sound
    <3>1. None \notin sd.certs /\ \A c \in sd.certs : Der(c) \in Nat
      BY <1>7
    <3>2. /\ si.signature.over =
                IF si.attrs = None THEN content ELSE Signed!Attributes(sd.contentType, content)
          /\ \E c \in sd.certs :
                /\ c.sid = si.sid
                /\ c.key = si.signature.key
                /\ c.key # None
                /\ c.sound
                /\ \A other \in sd.certs : other.sid = si.sid => Der(c) <= Der(other)
      BY Zenon, <2>1, <2>2, <3>1, AcceptedWasSigned
    <3> QED
      BY Zenon, <3>2
  <2>4. \E c \in Named : IsSigner(c)
    <3>1. PICK c \in sd.certs : c.sid = si.sid /\ c.key = si.signature.key /\ c.sound
      BY <2>3
    <3>2. c \in Named /\ IsSigner(c)
      BY <3>1 DEF sd
    <3> HIDE DEF Named, IsSigner
    <3> QED
      BY Zenon, <3>2
  <2>5. si.signature.over = content \/ si.signature.over = Signed!Attributes(sd.contentType, content)
    BY Zenon, <2>3
  <2> QED
    BY <2>4, <2>5
<1>9. ASSUME Named # {}, \A c \in Named : IsSigner(c), si.digestAlg = GostDigest,
             si.attrs = Signed!Attributes(sd.contentType, content), si.signature.over = si.attrs
      PROVE  answer[si]
  <2> DEFINE cert == Signed!FindCert(sd, si.sid)
  <2>1. cert \in Named /\ cert # None
    <3>1. Named = {c \in sd.certs : c.sid = si.sid}
      BY DEF sd
    <3> HIDE DEF cert, Named
    <3> QED
      BY <1>7, <1>9, <3>1, FirstNamed DEF cert
  <2>2. cert \in Certificates /\ cert.sid = si.sid
    BY <1>7, <2>1 DEF sd
  <2>3. cert.sound /\ cert.key = si.signature.key
    BY <1>9, <2>1
  <2> HIDE DEF cert
  <2>7. cert.sid \in {"s1", "s2"}
    BY <2>2, CertificatesAre
  <2>8. si.sid # None /\ cert.key # None
    <3>1. si.signature.key \in {"k1", "k2"}
      BY <1>7 DEF IsSignerInfo
    <3>2. None \notin {"k1", "k2", "s1", "s2"}
      BY AbsenceAssumption
    <3> QED
      BY <2>2, <2>3, <2>7, <3>1, <3>2
  <2>9. si.attrs # None
    BY <1>6, <1>7, <1>9, AbsenceAssumption
  <2>10. si.signature = [key |-> cert.key, over |-> si.attrs]
    BY <1>7, <1>9, <2>3 DEF IsSignerInfo
  <2>11. Signed!AttributesMatch(si.attrs, sd.contentType, content)
    BY <1>9 DEF Signed!AttributesMatch, Signed!Attributes
  <2>13. Signed!VerifySigner(sd, content, si)
    BY <1>9, <2>1, <2>3, <2>8, <2>9, <2>10, <2>11 DEF Signed!VerifySigner, cert
  <2> QED
    BY <1>5, <2>13
<1> QED
  BY <1>8, <1>9 DEF sd, content

-----------------------------------------------------------------------------
(* Chains. *)

\* A certificate as an authority makes one: its fields, and a signature of the
\* signer over all of them but the signature and its algorithm.
Fields == {"sid", "subject", "issuer", "ext", "family", "key", "sound", "algorithm", "signature"}

IsMade(c, issuer, subject, public, signer) ==
    /\ DOMAIN c = Fields
    /\ c.sid = <<issuer, subject>> /\ c.subject = subject /\ c.sound = TRUE
    /\ c.family = public.family /\ c.key = public.key
    /\ c.algorithm = signer.family
    /\ c.signature = [key |-> signer.key, over |-> Signed!Tbs(c)]

LEMMA MadeIs ==
    ASSUME NEW issuer, NEW subject, NEW public, NEW signer, NEW ext
    PROVE  IsMade(Signed!MakeCertificate(issuer, subject, public, signer, ext), issuer, subject, public, signer)
<1> DEFINE c == [sid |-> <<issuer, subject>>, subject |-> subject, issuer |-> issuer, ext |-> ext,
                 family |-> public.family, key |-> public.key, sound |-> TRUE,
                 algorithm |-> signer.family, signature |-> None]
           d == [c EXCEPT !.signature = Signed!SignWith(signer, Signed!Tbs(c))]
<1>1. Signed!MakeCertificate(issuer, subject, public, signer, ext) = d
  BY DEF Signed!MakeCertificate
<1>2. \A s : LET e == [c EXCEPT !.signature = s]
             IN  /\ DOMAIN e = Fields /\ e.signature = s /\ Signed!Tbs(e) = Signed!Tbs(c)
                 /\ e.sid = <<issuer, subject>> /\ e.subject = subject /\ e.sound = TRUE
                 /\ e.family = public.family /\ e.key = public.key /\ e.algorithm = signer.family
  BY DEF Fields, Signed!Tbs
<1>3. /\ DOMAIN d = Fields /\ d.signature = Signed!SignWith(signer, Signed!Tbs(c)) /\ Signed!Tbs(d) = Signed!Tbs(c)
      /\ d.sid = <<issuer, subject>> /\ d.subject = subject /\ d.sound = TRUE
      /\ d.family = public.family /\ d.key = public.key /\ d.algorithm = signer.family
  <2> HIDE DEF c
  <2> QED BY Zenon, <1>2
<1> HIDE DEF d, c
<1>4. IsMade(d, issuer, subject, public, signer)
  BY <1>3 DEF IsMade, Signed!SignWith
<1> QED
  BY <1>1, <1>4

\* A temporary chain's three certificates, each of its own key.
LEMMA ChainIsMade ==
    ASSUME NEW family, NEW curve, NEW point, NEW subject, NEW rootPoint, NEW caPoint
    PROVE  LET chain == Signed!Issue(SigningKey(family, curve, point), subject, rootPoint, caPoint)
               public == SigningKey(family, curve, point)
               ca == SigningKey(family, curve, caPoint)
               root == SigningKey(family, curve, rootPoint)
           IN  /\ DOMAIN chain = 1 .. 3
               /\ IsMade(chain[1], "ca", subject, public, ca)
               /\ IsMade(chain[2], "root", "ca", ca, root)
               /\ IsMade(chain[3], "root", "root", root, root)
<1> DEFINE public == SigningKey(family, curve, point)
           New(p) == [public EXCEPT !.key = <<@[1], p>>]
           rootKey == New(rootPoint)
           caKey == New(caPoint)
           Ext(ca, key, issuerKey) ==
              [ca |-> ca, ski |-> Signed!KeyIdentifier(key), aki |-> Signed!KeyIdentifier(issuerKey)]
<1>1. \A p : New(p) = SigningKey(family, curve, p)
  BY DEF SigningKey
<1>2. rootKey = SigningKey(family, curve, rootPoint) /\ caKey = SigningKey(family, curve, caPoint)
  BY <1>1
<1> DEFINE c1 == Signed!MakeCertificate("ca", subject, public, caKey, Ext(FALSE, public, caKey))
           c2 == Signed!MakeCertificate("root", "ca", caKey, rootKey, Ext(TRUE, caKey, rootKey))
           c3 == Signed!MakeCertificate("root", "root", rootKey, rootKey, None)
<1>3. Signed!Issue(public, subject, rootPoint, caPoint) = <<c1, c2, c3>>
  BY Zenon DEF Signed!Issue
<1>4. /\ IsMade(c1, "ca", subject, public, caKey)
      /\ IsMade(c2, "root", "ca", caKey, rootKey)
      /\ IsMade(c3, "root", "root", rootKey, rootKey)
  <2> HIDE DEF rootKey, caKey, Ext, public
  <2> QED BY Zenon, MadeIs
<1> HIDE DEF c1, c2, c3, rootKey, caKey, public
<1>5. LET chain == <<c1, c2, c3>>
      IN  DOMAIN chain = 1 .. 3 /\ chain[1] = c1 /\ chain[2] = c2 /\ chain[3] = c3
  OBVIOUS
<1> QED
  BY <1>2, <1>3, <1>4, <1>5 DEF public

\* What a signature has to be.
LEMMA VerifiesJust ==
    ASSUME Failed \notin BOOLEAN, NEW c, NEW d
    PROVE  Signed!VerifyCertificateSignature(c, d) = TRUE
              <=> /\ c.algorithm \in Signed!Algorithms /\ d.key # None
                  /\ c.signature = [key |-> d.key, over |-> Signed!Tbs(c)]
<1>1. CASE c.algorithm \notin Signed!Algorithms \/ d.key = None
  <2>1. Signed!VerifyCertificateSignature(c, d) = Failed
    BY <1>1 DEF Signed!VerifyCertificateSignature
  <2> QED
    BY <1>1, <2>1
<1>2. CASE ~ (c.algorithm \notin Signed!Algorithms \/ d.key = None)
  <2>1. Signed!VerifyCertificateSignature(c, d) = (c.signature = [key |-> d.key, over |-> Signed!Tbs(c)])
    BY <1>2 DEF Signed!VerifyCertificateSignature, Signed!SignWith
  <2> QED
    BY <1>2, <2>1
<1> QED
  BY <1>1, <1>2

\* A key matches its own certificate, and no other key does.
LEMMA MatchesJust ==
    ASSUME NEW c, NEW f, NEW curve, NEW point, c.key # None => c.key = <<c.key[1], c.key[2]>>
    PROVE  Signed!CheckKeyMatchesCertificate(SigningKey(f, curve, point), c) = "OK"
              <=> c.key # None /\ c.family = f /\ c.key = <<curve, point>>
BY DEF Signed!CheckKeyMatchesCertificate, SigningKey

\* A temporary chain can be stored with the key it was made for, of either
\* algorithm and whatever the points of its authority's keys are, and with no
\* other key (tempchain.rs and keystore.rs, append_pfx).
THEOREM IssuedChainIsStored ==
    ASSUME Failed \notin BOOLEAN, NEW family \in Signed!Algorithms, NEW curve, NEW point, NEW subject,
           NEW rootPoint, NEW caPoint,
           \A p \in {point, rootPoint, caPoint} : <<curve, p>> # None,
           NEW f, NEW c, NEW p
    PROVE  LET chain == Signed!Issue(SigningKey(family, curve, point), subject, rootPoint, caPoint)
           IN  /\ Signed!VerifyChain(chain[1], chain[2], chain[3])
               /\ Signed!CheckKeyMatchesCertificate(SigningKey(f, c, p), chain[1]) = "OK"
                     <=> SigningKey(f, c, p) = SigningKey(family, curve, point)
<1> DEFINE chain == Signed!Issue(SigningKey(family, curve, point), subject, rootPoint, caPoint)
           public == SigningKey(family, curve, point)
           ca == SigningKey(family, curve, caPoint)
           root == SigningKey(family, curve, rootPoint)
<1>1. /\ IsMade(chain[1], "ca", subject, public, ca)
      /\ IsMade(chain[2], "root", "ca", ca, root)
      /\ IsMade(chain[3], "root", "root", root, root)
  BY ChainIsMade
<1>2. /\ public.family = family /\ ca.family = family /\ root.family = family
      /\ public.key = <<curve, point>> /\ ca.key = <<curve, caPoint>> /\ root.key = <<curve, rootPoint>>
  BY DEF SigningKey
<1> HIDE DEF chain, public, ca, root
<1>3. /\ Signed!VerifyCertificateSignature(chain[1], chain[2]) = TRUE
      /\ Signed!VerifyCertificateSignature(chain[2], chain[3]) = TRUE
      /\ Signed!VerifyCertificateSignature(chain[3], chain[3]) = TRUE
  <2> DEFINE c1 == chain[1]
             c2 == chain[2]
             c3 == chain[3]
  <2>1. /\ c1.algorithm = family /\ c1.signature = [key |-> c2.key, over |-> Signed!Tbs(c1)] /\ c2.key # None
        /\ c2.algorithm = family /\ c2.signature = [key |-> c3.key, over |-> Signed!Tbs(c2)] /\ c3.key # None
        /\ c3.algorithm = family /\ c3.signature = [key |-> c3.key, over |-> Signed!Tbs(c3)]
    BY <1>1, <1>2 DEF IsMade
  <2> HIDE DEF c1, c2, c3
  <2>2. \A e, d : /\ e.algorithm \in Signed!Algorithms /\ d.key # None
                  /\ e.signature = [key |-> d.key, over |-> Signed!Tbs(e)]
                  => Signed!VerifyCertificateSignature(e, d) = TRUE
    BY VerifiesJust
  <2> QED
    BY Zenon, <2>1, <2>2 DEF c1, c2, c3
<1>4. Signed!VerifyChain(chain[1], chain[2], chain[3])
  BY <1>3 DEF Signed!VerifyChain, Signed!RequireSignedBy
<1>5. Signed!CheckKeyMatchesCertificate(SigningKey(f, c, p), chain[1]) = "OK"
         <=> family = f /\ <<curve, point>> = <<c, p>>
  <2> DEFINE d == chain[1]
  <2>1. d.key = <<curve, point>> /\ d.family = family /\ d.key # None
    BY <1>1, <1>2 DEF IsMade
  <2>2. d.key = <<d.key[1], d.key[2]>>
    BY <2>1
  <2> HIDE DEF d
  <2>3. Signed!CheckKeyMatchesCertificate(SigningKey(f, c, p), d) = "OK"
           <=> d.key # None /\ d.family = f /\ d.key = <<c, p>>
    BY <2>1, <2>2, MatchesJust
  <2> QED
    BY <2>1, <2>3 DEF d
<1>6. SigningKey(f, c, p) = SigningKey(family, curve, point) <=> family = f /\ <<curve, point>> = <<c, p>>
  BY DEF SigningKey
<1> QED
  BY <1>4, <1>5, <1>6 DEF chain

\* A chain that verifies, and whose signatures are of certificates that were
\* issued, says in each certificate what an issuer signed, under the key
\* of the next one: nothing in it is replaced, whoever put it together and
\* whatever else the certificates say (tempchain.rs and x509.rs).
THEOREM VerifiedChainWasIssued ==
    ASSUME Failed \notin BOOLEAN, NEW Issued, \A c \in Issued : c.signature.over = Signed!Tbs(c),
           NEW subject, NEW ca, NEW root,
           \A c \in {subject, ca, root} : \E d \in Issued : c.signature = d.signature,
           Signed!VerifyChain(subject, ca, root)
    PROVE  /\ \E d \in Issued : Signed!Tbs(subject) = Signed!Tbs(d) /\ d.signature.key = ca.key
           /\ \E d \in Issued : Signed!Tbs(ca) = Signed!Tbs(d) /\ d.signature.key = root.key
           /\ \E d \in Issued : Signed!Tbs(root) = Signed!Tbs(d) /\ d.signature.key = root.key
<1>1. ASSUME NEW c \in {subject, ca, root}, NEW issuer, Signed!RequireSignedBy(c, issuer)
      PROVE  \E d \in Issued : Signed!Tbs(c) = Signed!Tbs(d) /\ d.signature.key = issuer.key
  <2>1. c.signature = [key |-> issuer.key, over |-> Signed!Tbs(c)]
    BY <1>1, VerifiesJust DEF Signed!RequireSignedBy
  <2>2. PICK d \in Issued : c.signature = d.signature
    OBVIOUS
  <2>3. d.signature.key = issuer.key /\ d.signature.over = Signed!Tbs(c)
    BY <2>1, <2>2
  <2> QED
    BY <2>2, <2>3
<1> QED
  BY <1>1 DEF Signed!VerifyChain

\* The keys and chains of the tasks.
LEMMA SigningKeyIs ==
    ASSUME NEW k \in SigningKeys
    PROVE  \E family \in Signed!Algorithms, curve \in {"A", "B"}, point \in {1, 2} : k = SigningKey(family, curve, point)
BY DEF SigningKeys, Signed!Algorithms

\* A certificate of a temporary chain.
IsOwn(c) ==
    /\ DOMAIN c = Fields
    /\ c.algorithm \in Signed!Algorithms
    /\ c.signature = [key |-> c.signature.key, over |-> Signed!Tbs(c)]
    /\ c.signature.key # None /\ c.sound = TRUE /\ c.sid # None /\ c.key # None

LEMMA TemporaryIs ==
    ASSUME NEW k \in SigningKeys
    PROVE  /\ DOMAIN Temporary(k) = 1 .. 3
           /\ \A i \in 1 .. 3 : IsOwn(Temporary(k)[i])
           /\ Temporary(k)[1].family = k.family /\ Temporary(k)[1].key = k.key
           /\ Temporary(k)[1].subject = "s" /\ k.key # None
           /\ \A i, j \in 1 .. 3 : Temporary(k)[i].sid = Temporary(k)[j].sid => i = j
<1>1. PICK family \in Signed!Algorithms, curve \in {"A", "B"}, point \in {1, 2} : k = SigningKey(family, curve, point)
  BY SigningKeyIs
<1> DEFINE chain == Temporary(k)
           ca == SigningKey(family, curve, 4)
           root == SigningKey(family, curve, 3)
<1>2. /\ DOMAIN chain = 1 .. 3
      /\ IsMade(chain[1], "ca", "s", k, ca)
      /\ IsMade(chain[2], "root", "ca", ca, root)
      /\ IsMade(chain[3], "root", "root", root, root)
  BY <1>1, ChainIsMade DEF Temporary
<1>3. k.family = family /\ ca.family = family /\ root.family = family
  BY <1>1 DEF SigningKey
<1>4. \A i \in 1 .. 3 : None \notin {chain[i].sid, chain[i].key}
  BY AbsenceAssumption
<1> HIDE DEF chain, ca, root
<1>5. ca.key = chain[2].key /\ root.key = chain[3].key /\ k.key = chain[1].key
  BY <1>2 DEF IsMade
<1>6. \A c, i, s, p, q : IsMade(c, i, s, p, q) /\ q.family \in Signed!Algorithms /\ q.key # None
                           /\ None \notin {c.sid, c.key} => IsOwn(c)
  BY DEF IsMade, IsOwn
<1>7. IsOwn(chain[1]) /\ IsOwn(chain[2]) /\ IsOwn(chain[3])
  <2>1. ca.key # None /\ root.key # None
    BY <1>4, <1>5
  <2> QED
    BY <1>2, <1>3, <1>4, <1>6, <2>1
<1>8. \A i \in 1 .. 3 : i = 1 \/ i = 2 \/ i = 3
  OBVIOUS
<1>9. \A i \in 1 .. 3 : IsOwn(chain[i])
  BY <1>7, <1>8
<1>10. \A i, j \in 1 .. 3 : chain[i].sid = chain[j].sid => i = j
  <2>1. chain[1].sid = <<"ca", "s">> /\ chain[2].sid = <<"root", "ca">> /\ chain[3].sid = <<"root", "root">>
    BY <1>2 DEF IsMade
  <2>2. <<"ca", "s">> # <<"root", "ca">> /\ <<"ca", "s">> # <<"root", "root">> /\ <<"root", "ca">> # <<"root", "root">>
    OBVIOUS
  <2> QED
    BY <1>8, <2>1, <2>2
<1> QED
  BY <1>2, <1>4, <1>5, <1>9, <1>10 DEF IsMade, chain

\* A certificate of a chain in which one part was replaced: its signature is
\* still one that was made over some certificate.
Own == UNION {{Temporary(k)[i] : i \in 1 .. 3} : k \in SigningKeys}
IsPart(c) ==
    /\ \E d \in Own : c.signature = d.signature
    /\ c.algorithm \in Signed!Algorithms \cup {None}

LEMMA OwnIs ==
    ASSUME NEW c \in Own
    PROVE  IsOwn(c) /\ IsPart(c)
<1>1. IsOwn(c)
  BY TemporaryIs DEF Own
<1> QED
  BY <1>1 DEF IsPart, IsOwn

LEMMA DamagedChainIs ==
    ASSUME NEW k \in SigningKeys, NEW chain \in DamagedChains(Temporary(k)), NEW n \in 1 .. 3
    PROVE  IsPart(chain[n])
<1> DEFINE base == Temporary(k)
           other(i) == base[(i % 3) + 1]
<1>1. DOMAIN base = 1 .. 3 /\ \A i \in 1 .. 3 : base[i] \in Own /\ IsOwn(base[i]) /\ IsPart(base[i])
  BY TemporaryIs, OwnIs DEF Own
<1>2. DOMAIN base[1] = Fields
  BY <1>1 DEF IsOwn
<1>3. \A i \in 1 .. 3 : (i % 3) + 1 \in 1 .. 3
  OBVIOUS
<1>4. \/ chain = base
      \/ \E i \in 1 .. 3, field \in Fields : chain = [base EXCEPT ![i] = [@ EXCEPT ![field] = other(i)[field]]]
      \/ \E i \in 1 .. 3, field \in {"key", "algorithm"} : chain = [base EXCEPT ![i] = [@ EXCEPT ![field] = None]]
      \/ \E i, j \in 1 .. 3 : chain = [base EXCEPT ![i] = base[j]]
      \/ \E i \in 1 .. 3, l \in SigningKeys : chain = [base EXCEPT ![i] = Temporary(l)[i]]
  <2> HIDE DEF base
  <2>1. chain \in DamagedChains(base)
    BY DEF base
  <2> QED
    BY <1>2, <2>1 DEF DamagedChains
<1> HIDE DEF base
<1>5. ASSUME NEW i \in 1 .. 3, NEW c, IsPart(c), chain = [base EXCEPT ![i] = c]
      PROVE  IsPart(chain[n])
  <2>1. chain[n] = IF n = i THEN c ELSE base[n]
    BY <1>1, <1>5
  <2> QED
    BY <1>1, <1>5, <2>1
<1>6. ASSUME NEW i \in 1 .. 3, NEW j \in 1 .. 3, NEW field \in Fields
      PROVE  IsPart([base[i] EXCEPT ![field] = base[j][field]])
  <2> DEFINE c == base[i]
             d == base[j]
  <2>1. IsOwn(c) /\ IsOwn(d) /\ IsPart(c) /\ IsPart(d)
    BY <1>1
  <2> HIDE DEF c, d
  <2> DEFINE e == [c EXCEPT ![field] = d[field]]
  <2>2. e.signature \in {c.signature, d.signature} /\ e.algorithm \in {c.algorithm, d.algorithm}
    BY <2>1 DEF IsOwn, Fields
  <2> HIDE DEF e
  <2>3. IsPart(e)
    BY <2>1, <2>2 DEF IsPart
  <2> QED
    BY <2>3 DEF e, c, d
<1>7. ASSUME NEW i \in 1 .. 3, NEW field \in {"key", "algorithm"}
      PROVE  IsPart([base[i] EXCEPT ![field] = None])
  <2> DEFINE c == base[i]
  <2>1. IsOwn(c) /\ IsPart(c)
    BY <1>1
  <2> HIDE DEF c
  <2> DEFINE e == [c EXCEPT ![field] = None]
  <2>2. e.signature = c.signature /\ e.algorithm \in {c.algorithm, None}
    BY <2>1 DEF IsOwn, Fields
  <2> HIDE DEF e
  <2>3. IsPart(e)
    BY <2>1, <2>2 DEF IsPart
  <2> QED
    BY <2>3 DEF e, c
<1>8. \A l \in SigningKeys, i \in 1 .. 3 : IsPart(Temporary(l)[i])
  BY OwnIs DEF Own
<1> QED
  BY <1>1, <1>3, <1>4, <1>5, <1>6, <1>7, <1>8

\* What a certificate's wrapping leaves to be judged.
Statuses(c, d) == {Signed!VerifyCertificate(x, y).status : x \in Wrapped(c), y \in Wrapped(d)}

LEMMA Judged ==
    ASSUME Failed \notin BOOLEAN, NEW c, NEW d, c # Failed, d # Failed
    PROVE  Statuses(c, d)
              = IF Signed!VerifyCertificateSignature(c, d) = TRUE THEN {"OK", "Runtime"} ELSE {"Runtime"}
<1> DEFINE Pem == <<"pem", "base64">>
           W(w, v) == [wrapped |-> w, value |-> v]
           Ws == Signed!Wrappings \cup {Pem}
           V(w, u) == Signed!VerifyCertificate(W(w, c), W(u, d)).status
<1>1. Pem \notin Signed!Wrappings /\ <<>> \in Signed!Wrappings
  BY DEF Signed!Wrappings
<1>2. \A s : s \in Statuses(c, d) <=> \E w, u \in Ws : s = V(w, u)
  <2>1. \A v, x : x \in Wrapped(v) <=> \E w \in Ws : x = W(w, v)
    BY DEF Wrapped
  <2>2. \A s : s \in Statuses(c, d)
                  <=> \E x \in Wrapped(c), y \in Wrapped(d) : s = Signed!VerifyCertificate(x, y).status
    BY DEF Statuses
  <2> HIDE DEF W, Ws
  <2> QED
    BY <2>1, <2>2
<1>3. \A w \in Ws : \A v : Signed!ParseCertificateAny(W(w, v)) = IF w = Pem THEN Failed ELSE v
  BY <1>1 DEF Signed!ParseCertificateAny
<1> HIDE DEF Pem, W, Ws
<1>4. \A w, u \in Ws : V(w, u) =
          IF w = Pem \/ u = Pem \/ Signed!VerifyCertificateSignature(c, d) # TRUE THEN "Runtime" ELSE "OK"
  <2>1. \A w, u \in Ws : Failed \in {Signed!ParseCertificateAny(W(w, c)), Signed!ParseCertificateAny(W(u, d))}
                            <=> w = Pem \/ u = Pem
    BY <1>3
  <2>2. ASSUME NEW w \in Ws, NEW u \in Ws, ~ (w = Pem \/ u = Pem)
        PROVE  Signed!ParseCertificateAny(W(w, c)) = c /\ Signed!ParseCertificateAny(W(u, d)) = d
    BY <1>3, <2>2
  <2>3. Signed!Refused("Runtime").status = "Runtime" /\ Signed!Answer("OK", None).status = "OK"
    BY DEF Signed!Refused, Signed!Answer
  <2> QED
    BY <2>1, <2>2, <2>3 DEF Signed!VerifyCertificate
<1>5. Pem \in Ws /\ <<>> \in Ws /\ <<>> # Pem
  BY <1>1 DEF Ws, Pem
<1> HIDE DEF V
<1> DEFINE holds == Signed!VerifyCertificateSignature(c, d) = TRUE
<1>6. V(Pem, Pem) = "Runtime" /\ (holds => V(<<>>, <<>>) = "OK")
  BY <1>4, <1>5
<1>7. \A w, u \in Ws : V(w, u) \in IF holds THEN {"OK", "Runtime"} ELSE {"Runtime"}
  BY <1>4
<1> HIDE DEF holds
<1>8. \A s : s \in Statuses(c, d) <=> s \in IF holds THEN {"OK", "Runtime"} ELSE {"Runtime"}
  BY <1>2, <1>5, <1>6, <1>7
<1>9. Statuses(c, d) = IF holds THEN {"OK", "Runtime"} ELSE {"Runtime"}
  BY <1>8
<1> QED
  BY <1>9 DEF holds

\* A certificate of a task, judged by the key of the next.
WasIssued(c, d) == \E o \in Own : Signed!Tbs(c) = Signed!Tbs(o) /\ o.signature.key = d.key

LEMMA PartIsJudged ==
    ASSUME NEW c, NEW d, IsPart(c)
    PROVE  /\ Signed!VerifyCertificateSignature(c, d) = TRUE => WasIssued(c, d)
           /\ Signed!VerifyCertificateSignature(c, d) = TRUE
                <=> /\ WasIssued(c, d) /\ c.algorithm # None
                    /\ c.signature.key = d.key /\ c.signature.over = Signed!Tbs(c)
<1>1. PICK o \in Own : c.signature = o.signature
  BY DEF IsPart
<1>2. IsOwn(o)
  BY OwnIs
<1>3. Failed \notin BOOLEAN /\ None \notin Signed!Algorithms
  BY AbsenceAssumption
<1>4. c.signature = [key |-> c.signature.key, over |-> c.signature.over] /\ c.signature.key # None
  BY <1>1, <1>2 DEF IsOwn
<1>5. Signed!VerifyCertificateSignature(c, d) = TRUE
         <=> /\ c.algorithm \in Signed!Algorithms /\ d.key # None
             /\ c.signature = [key |-> d.key, over |-> Signed!Tbs(c)]
  BY <1>3, VerifiesJust
<1>6. ASSUME Signed!VerifyCertificateSignature(c, d) = TRUE
      PROVE  /\ WasIssued(c, d) /\ c.algorithm # None
             /\ c.signature.key = d.key /\ c.signature.over = Signed!Tbs(c)
  <2>1. c.signature.key = d.key /\ c.signature.over = Signed!Tbs(c) /\ c.algorithm \in Signed!Algorithms
    BY <1>5, <1>6
  <2>2. o.signature.key = d.key /\ Signed!Tbs(o) = Signed!Tbs(c)
    BY <1>1, <1>2, <2>1 DEF IsOwn
  <2> QED
    BY <1>3, <2>1, <2>2 DEF WasIssued
<1>7. ASSUME c.algorithm # None, c.signature.key = d.key, c.signature.over = Signed!Tbs(c)
      PROVE  Signed!VerifyCertificateSignature(c, d) = TRUE
  <2>1. c.algorithm \in Signed!Algorithms
    BY <1>7 DEF IsPart
  <2> QED
    BY <1>4, <1>5, <1>7, <2>1
<1> QED
  BY <1>6, <1>7

LEMMA ChainsAreSigned ==
    ASSUME Inv
    PROVE  StoredChainsAreSigned
<1> DEFINE subject == task.chain[1]
           Issuer(i) == task.chain[IF i = 3 THEN 3 ELSE i + 1]
           IsIssued(i) == \E k \in SigningKeys : \E c \in Files!RangeOf(Temporary(k)) :
                /\ Signed!Tbs(task.chain[i]) = Signed!Tbs(c)
                /\ c.signature.key = Issuer(i).key
           first == task.chain = task.issued =>
                       (answer.stored <=> [family |-> subject.family, key |-> subject.key] = task.key)
           second == answer.stored =>
                       /\ [family |-> subject.family, key |-> subject.key] = task.key
                       /\ \A i \in 1 .. 3 : IsIssued(i)
           third == \A i \in 1 .. 3 :
                       answer.verified[i] = IF IsIssued(i) /\ task.chain[i].algorithm # None
                                                 /\ task.chain[i].signature.key = Issuer(i).key
                                                 /\ task.chain[i].signature.over = Signed!Tbs(task.chain[i])
                                            THEN {"OK", "Runtime"} ELSE {"Runtime"}
<1> SUFFICES ASSUME Answered("chain") PROVE first /\ second /\ third
  BY Zenon DEF StoredChainsAreSigned
<1>1. task.kind = "chain" /\ ChainTask
  BY TaskOfItsKind DEF Inv, Answered
<1>2. PICK k, session \in SigningKeys : \E chain \in DamagedChains(Temporary(k)) :
          task = [kind |-> "chain", issued |-> Temporary(k), key |-> session, chain |-> chain]
  BY Zenon, <1>1 DEF ChainTask
<1>3. PICK chain \in DamagedChains(Temporary(k)) :
          task = [kind |-> "chain", issued |-> Temporary(k), key |-> session, chain |-> chain]
  BY <1>2
<1>4. task.issued = Temporary(k) /\ task.key = session /\ task.chain = chain
  BY <1>3
<1>5. answer = ChainAnswer(task)
  <2>1. answer = CertificateAnswer(task)
    BY <1>1 DEF Inv, Replied, Answered
  <2> QED
    BY Zenon, <1>1, <2>1 DEF CertificateAnswer
<1>6. /\ answer.stored = (/\ Signed!CheckKeyMatchesCertificate(session, chain[1]) = "OK"
                          /\ Signed!VerifyChain(chain[1], chain[2], chain[3]))
      /\ \A i \in 1 .. 3 : answer.verified[i] = Statuses(chain[i], Issuer(i))
  BY <1>4, <1>5 DEF ChainAnswer, Statuses
<1>7. /\ Failed \notin BOOLEAN
      /\ \A i \in 1 .. 3 : IsPart(chain[i]) /\ chain[i] # Failed
  BY AbsenceAssumption, DamagedChainIs
<1>8. \A i \in 1 .. 3 : WasIssued(chain[i], Issuer(i)) <=> IsIssued(i)
  <2>1. \A l \in SigningKeys : Files!RangeOf(Temporary(l)) = {Temporary(l)[i] : i \in 1 .. 3}
    BY TemporaryIs DEF Files!RangeOf
  <2> HIDE DEF Issuer
  <2> QED
    BY <1>4, <2>1 DEF WasIssued, Own
<1>9. \A i \in 1 .. 3 : (IF i = 3 THEN 3 ELSE i + 1) \in 1 .. 3
  OBVIOUS
<1>10. third
  <2> SUFFICES ASSUME NEW i \in 1 .. 3
               PROVE  answer.verified[i] = IF IsIssued(i) /\ task.chain[i].algorithm # None
                                                 /\ task.chain[i].signature.key = Issuer(i).key
                                                 /\ task.chain[i].signature.over = Signed!Tbs(task.chain[i])
                                            THEN {"OK", "Runtime"} ELSE {"Runtime"}
    BY Zenon DEF third
  <2> DEFINE d == Issuer(i)
             c == chain[i]
  <2>1. c # Failed /\ d # Failed /\ IsPart(c)
    BY <1>4, <1>7, <1>9
  <2> HIDE DEF c, d
  <2>2. Statuses(c, d)
           = IF Signed!VerifyCertificateSignature(c, d) = TRUE THEN {"OK", "Runtime"} ELSE {"Runtime"}
    BY <1>7, <2>1, Judged
  <2>3. Signed!VerifyCertificateSignature(c, d) = TRUE
                <=> /\ WasIssued(c, d) /\ c.algorithm # None
                    /\ c.signature.key = d.key /\ c.signature.over = Signed!Tbs(c)
    BY <2>1, PartIsJudged
  <2>4. WasIssued(c, d) <=> IsIssued(i)
    BY <1>8 DEF c, d
  <2>5. answer.verified[i] = Statuses(c, d)
    BY <1>6 DEF c, d
  <2> HIDE DEF IsIssued, Issuer
  <2> QED
    BY <1>4, <2>2, <2>3, <2>4, <2>5 DEF c, d
<1>11. PICK f \in Signed!Algorithms, curve \in {"A", "B"}, point \in {1, 2} : session = SigningKey(f, curve, point)
  BY SigningKeyIs
<1>12. second
  <2> SUFFICES ASSUME answer.stored
               PROVE  /\ [family |-> subject.family, key |-> subject.key] = task.key
                      /\ \A i \in 1 .. 3 : IsIssued(i)
    BY DEF second
  <2> DEFINE c == chain[1]
  <2>1. Signed!CheckKeyMatchesCertificate(session, c) = "OK"
    BY <1>6
  <2> HIDE DEF c
  <2>2. c.family = session.family /\ c.key = session.key
    BY <2>1 DEF Signed!CheckKeyMatchesCertificate
  <2>3. session = [family |-> session.family, key |-> session.key]
    BY <1>11 DEF SigningKey
  <2>4. /\ Signed!VerifyCertificateSignature(chain[1], chain[2]) = TRUE
        /\ Signed!VerifyCertificateSignature(chain[2], chain[3]) = TRUE
        /\ Signed!VerifyCertificateSignature(chain[3], chain[3]) = TRUE
    BY <1>6 DEF Signed!VerifyChain, Signed!RequireSignedBy
  <2>5. WasIssued(chain[1], chain[2]) /\ WasIssued(chain[2], chain[3]) /\ WasIssued(chain[3], chain[3])
    <3>1. \A x, y : IsPart(x) /\ Signed!VerifyCertificateSignature(x, y) = TRUE => WasIssued(x, y)
      BY PartIsJudged
    <3>2. IsPart(chain[1]) /\ IsPart(chain[2]) /\ IsPart(chain[3])
      BY <1>7
    <3> QED
      BY <2>4, <3>1, <3>2
  <2>6. Issuer(1) = chain[2] /\ Issuer(2) = chain[3] /\ Issuer(3) = chain[3]
    BY <1>4
  <2> HIDE DEF Issuer, IsIssued
  <2>7. IsIssued(1) /\ IsIssued(2) /\ IsIssued(3)
    BY <1>8, <2>5, <2>6
  <2>8. \A i \in 1 .. 3 : i = 1 \/ i = 2 \/ i = 3
    OBVIOUS
  <2> QED
    BY <1>4, <2>2, <2>3, <2>7, <2>8 DEF c
<1>13. first
  <2> SUFFICES ASSUME chain = Temporary(k)
               PROVE  answer.stored <=> [family |-> subject.family, key |-> subject.key] = task.key
    BY <1>4 DEF first
  <2>1. PICK g \in Signed!Algorithms, v \in {"A", "B"}, p \in {1, 2} : k = SigningKey(g, v, p)
    BY SigningKeyIs
  <2>2. /\ Temporary(k)[1].family = k.family /\ Temporary(k)[1].key = k.key
        /\ \A i \in 1 .. 3 : Temporary(k)[i].key # None
    BY TemporaryIs DEF IsOwn
  <2>3. \A q \in {p, 3, 4} : <<v, q>> # None
    <3>1. /\ Temporary(k)[1].key = <<v, p>> /\ Temporary(k)[2].key = <<v, 4>> /\ Temporary(k)[3].key = <<v, 3>>
      <4>1. \A q : SigningKey(g, v, q).key = <<v, q>>
        BY DEF SigningKey
      <4>2. /\ IsMade(Temporary(k)[1], "ca", "s", SigningKey(g, v, p), SigningKey(g, v, 4))
            /\ IsMade(Temporary(k)[2], "root", "ca", SigningKey(g, v, 4), SigningKey(g, v, 3))
            /\ IsMade(Temporary(k)[3], "root", "root", SigningKey(g, v, 3), SigningKey(g, v, 3))
        BY <2>1, ChainIsMade DEF Temporary
      <4> QED
        BY <4>1, <4>2 DEF IsMade
    <3> QED
      BY <2>2, <3>1
  <2>4. /\ Signed!VerifyChain(chain[1], chain[2], chain[3])
        /\ Signed!CheckKeyMatchesCertificate(SigningKey(f, curve, point), chain[1]) = "OK"
              <=> SigningKey(f, curve, point) = SigningKey(g, v, p)
    BY <1>7, <2>1, <2>3, IssuedChainIsStored DEF Temporary
  <2>5. answer.stored <=> session = k
    BY <1>6, <1>11, <2>1, <2>4
  <2>6. [family |-> subject.family, key |-> subject.key] = k
    BY <1>4, <2>1, <2>2 DEF SigningKey
  <2> QED
    BY <1>4, <2>5, <2>6
<1> QED
  BY <1>10, <1>12, <1>13

-----------------------------------------------------------------------------
(* What a site is given through a session. *)

Kinds == {"none", "pfx", "yks", "key_pair", "device"}

LEMMA Pkcs7OfKind ==
    ASSUME NEW session, session.kind \in Kinds, NEW data, NEW detached,
           Signed!CreatePkcs7(session, data, detached).status = "OK"
    PROVE  LET sd == Signed!Sign(data, ~detached, session.key.key, session.chain)
           IN  /\ session.kind \in {"pfx", "yks"} /\ sd # None
               /\ Signed!CreatePkcs7(session, data, detached) = Signed!Answer("OK", sd)
<1> DEFINE sd == Signed!Sign(data, ~detached, session.key.key, session.chain)
           kind == session.kind
           made == Signed!CreatePkcs7(session, data, detached)
           judged == IF sd = None \/ Signed!Verify(sd, IF detached THEN data ELSE None) = None
                     THEN Signed!Refused("Runtime")
                     ELSE Signed!Answer("OK", sd)
<1>1. made = CASE kind = "none" -> Signed!Refused("KeyIdIsNotFound")
               [] kind \in {"pfx", "yks"} -> judged
               [] kind = "device" -> Signed!Refused("DeviceNotFound")
               [] OTHER -> Signed!Refused("KeyIdIsNotSupported")
  BY Zenon DEF Signed!CreatePkcs7, Signed!KeyStoreKinds
<1>2. kind \in Kinds /\ made.status = "OK"
  OBVIOUS
<1>3. \A status : Signed!Refused(status).status = status
  BY DEF Signed!Refused, Signed!Answer
<1> HIDE DEF made, kind, judged
<1>4. \/ kind = "none" /\ made = Signed!Refused("KeyIdIsNotFound")
      \/ kind \in {"pfx", "yks"} /\ made = judged
      \/ kind = "device" /\ made = Signed!Refused("DeviceNotFound")
      \/ kind = "key_pair" /\ made = Signed!Refused("KeyIdIsNotSupported")
  <2>1. CASE kind = "none"
    BY Zenon, <1>1, <2>1
  <2>2. CASE kind \in {"pfx", "yks"}
    <3>1. kind # "none" /\ kind # "device"
      BY <2>2
    <3> QED BY Zenon, <1>1, <2>2, <3>1
  <2>3. CASE kind = "device"
    <3>1. kind # "none" /\ kind \notin {"pfx", "yks"}
      BY <2>3
    <3> QED BY Zenon, <1>1, <2>3, <3>1
  <2>4. CASE kind = "key_pair"
    <3>1. kind # "none" /\ kind \notin {"pfx", "yks"} /\ kind # "device"
      BY <2>4
    <3> QED BY Zenon, <1>1, <2>4, <3>1
  <2> QED
    BY <1>2, <2>1, <2>2, <2>3, <2>4 DEF Kinds
<1>5. kind \in {"pfx", "yks"} /\ made = judged
  BY <1>2, <1>3, <1>4
<1>6. sd # None /\ made = Signed!Answer("OK", sd)
  <2> HIDE DEF sd
  <2> QED BY <1>2, <1>3, <1>5 DEF judged
<1> QED
  BY <1>5, <1>6 DEF made, kind

\* What a site's functions make, of a session of each kind.
LEMMA ChainOfKind ==
    ASSUME NEW session, session.kind \in {"pfx", "yks"}
    PROVE  Signed!GetCertificateChain(session) = Signed!Answer("OK", session.chain)
<1>1. session.kind \in {"pfx", "yks"} /\ session.kind # "none"
  OBVIOUS
<1> QED
  BY Zenon, <1>1 DEF Signed!GetCertificateChain, Signed!KeyStoreKinds

LEMMA Pkcs10OfKind ==
    ASSUME NEW session, session.kind \in Kinds, NEW subject, NEW list,
           Signed!CreatePkcs10(session, subject, list).status = "OK"
    PROVE  LET policies == Signed!ParseCpList(list, FALSE)
           IN  /\ session.kind = "key_pair" /\ policies # Failed
               /\ Signed!CreatePkcs10(session, subject, list)
                     = Signed!Answer("OK", Signed!Build(session.key, subject, policies))
<1> DEFINE kind == session.kind
           policies == Signed!ParseCpList(list, FALSE)
           made == Signed!CreatePkcs10(session, subject, list)
           built == Signed!Answer("OK", Signed!Build(session.key, subject, policies))
<1>1. made = IF policies = Failed THEN Signed!Refused("InvalidCertificatePolicyOid")
             ELSE CASE kind = "key_pair" -> built
                    [] kind = "device" -> Signed!Refused("DeviceNotFound")
                    [] kind = "none" -> Signed!Refused("KeyPairByIdIsNotFound")
                    [] OTHER -> Signed!Refused("KeyIdDoesNotMatch")
  BY Zenon DEF Signed!CreatePkcs10
<1>2. kind \in Kinds /\ made.status = "OK"
  OBVIOUS
<1>3. \A status : Signed!Refused(status).status = status
  BY DEF Signed!Refused, Signed!Answer
<1> HIDE DEF made, kind, built, policies
<1>4. policies # Failed
  BY <1>1, <1>2, <1>3
<1>5. \/ kind = "key_pair" /\ made = built
      \/ \E status \in {"DeviceNotFound", "KeyPairByIdIsNotFound", "KeyIdDoesNotMatch"} : made = Signed!Refused(status)
  <2>1. CASE kind = "key_pair"
    BY Zenon, <1>1, <1>4, <2>1
  <2>2. CASE kind = "device"
    <3>1. kind # "key_pair"
      BY <2>2
    <3> QED BY Zenon, <1>1, <1>4, <2>2, <3>1
  <2>3. CASE kind = "none"
    <3>1. kind # "key_pair" /\ kind # "device"
      BY <2>3
    <3> QED BY Zenon, <1>1, <1>4, <2>3, <3>1
  <2>4. CASE kind \in {"pfx", "yks"}
    <3>1. kind # "none" /\ kind # "key_pair" /\ kind # "device"
      BY <2>4
    <3> QED BY Zenon, <1>1, <1>4, <2>4, <3>1
  <2> QED
    BY <1>2, <2>1, <2>2, <2>3, <2>4 DEF Kinds
<1>6. kind = "key_pair" /\ made = built
  BY <1>2, <1>3, <1>5
<1> QED
  BY <1>4, <1>6 DEF made, kind, built, policies

LEMMA Pkcs10FromKeyOfKind ==
    ASSUME NEW session, session.kind \in Kinds, NEW replacement, NEW list,
           Signed!CreatePkcs10FromKey(session, replacement, list).status = "OK"
    PROVE  LET policies == Signed!ParseCpList(list, TRUE)
               subject == IF replacement = "" THEN session.chain[1].subject ELSE replacement
           IN  /\ session.kind \in {"pfx", "yks"} /\ policies # Failed /\ session.chain # <<>>
               /\ Signed!CreatePkcs10FromKey(session, replacement, list)
                     = Signed!Answer("OK", Signed!Build(session.key, subject, policies))
<1> DEFINE kind == session.kind
           policies == Signed!ParseCpList(list, TRUE)
           subject == IF replacement = "" THEN session.chain[1].subject ELSE replacement
           made == Signed!CreatePkcs10FromKey(session, replacement, list)
           built == Signed!Answer("OK", Signed!Build(session.key, subject, policies))
           ofKey == IF session.chain = <<>> THEN Signed!Refused("Runtime") ELSE built
<1>1. made = IF policies = Failed THEN Signed!Refused("InvalidCertificatePolicyOid")
             ELSE CASE kind = "none" -> Signed!Refused("KeyIdIsNotFound")
                    [] kind \in {"pfx", "yks"} -> ofKey
                    [] OTHER -> Signed!Refused("KeyIdIsNotSupported")
  BY Zenon DEF Signed!CreatePkcs10FromKey, Signed!KeyStoreKinds
<1>2. kind \in Kinds /\ made.status = "OK"
  OBVIOUS
<1>3. \A status : Signed!Refused(status).status = status
  BY DEF Signed!Refused, Signed!Answer
<1> HIDE DEF made, kind, built, policies, ofKey
<1>4. policies # Failed
  BY <1>1, <1>2, <1>3
<1>5. \/ kind \in {"pfx", "yks"} /\ made = ofKey
      \/ \E status \in {"KeyIdIsNotFound", "KeyIdIsNotSupported"} : made = Signed!Refused(status)
  <2>1. CASE kind = "none"
    BY Zenon, <1>1, <1>4, <2>1
  <2>2. CASE kind \in {"pfx", "yks"}
    <3>1. kind # "none"
      BY <2>2
    <3> QED BY Zenon, <1>1, <1>4, <2>2, <3>1
  <2>3. CASE kind \in {"key_pair", "device"}
    <3>1. kind # "none" /\ kind \notin {"pfx", "yks"}
      BY <2>3
    <3> QED BY Zenon, <1>1, <1>4, <2>3, <3>1
  <2> QED
    BY <1>2, <2>1, <2>2, <2>3 DEF Kinds
<1>6. kind \in {"pfx", "yks"} /\ made = ofKey
  BY <1>2, <1>3, <1>5
<1>7. session.chain # <<>> /\ made = built
  BY <1>2, <1>3, <1>6 DEF ofKey
<1> QED
  BY Zenon, <1>4, <1>6, <1>7 DEF made, kind, built, policies

\* A policy of a list that is read is an identifier, and stands without spaces
\* where nothing takes them away.
LEMMA PoliciesAre ==
    ASSUME NEW list, NEW n \in Nat, DOMAIN list = 1 .. n, NEW trimEach \in BOOLEAN,
           Signed!ParseCpList(list, trimEach) # Failed
    PROVE  /\ Len(Signed!ParseCpList(list, trimEach)) = n
           /\ ~trimEach => \A i \in DOMAIN list : ~list[i].spaced
<1>1. /\ ~ \E i \in DOMAIN list : list[i].oid = BadOid \/ (list[i].spaced /\ ~trimEach)
      /\ Signed!ParseCpList(list, trimEach) = Signed!CertificatePolicies(list)
  BY DEF Signed!ParseCpList
<1> DEFINE policies == Signed!CertificatePolicies(list)
<1>2. policies = [i \in 1 .. n |-> list[i].oid]
  BY DEF Signed!CertificatePolicies
<1>3. Len(policies) = n
  BY <1>2
<1> QED
  BY <1>1, <1>3

LEMMA VerifiedRequestSays ==
    ASSUME NEW req, Failed \notin BOOLEAN, Signed!VerifySignature(req) = TRUE
    PROVE  req.signature = [key |-> req.info.key, over |-> req.info]
<1>1. CASE req.info.key = None
  <2>1. Signed!VerifySignature(req) = Failed
    BY <1>1 DEF Signed!VerifySignature
  <2> QED
    BY <2>1
<1>2. CASE req.info.key # None
  BY <1>2 DEF Signed!VerifySignature, Signed!SignWith
<1> QED
  BY <1>1, <1>2

\* A request that was built verifies, and any other one with its signature only
\* if it says the same: the same subject, key and policies (pkcs10.rs).
THEOREM RequestVerifiesAsBuilt ==
    ASSUME NEW k, NEW subject, NEW policies, NEW req, Failed \notin BOOLEAN, k.key # None,
           req.signature = Signed!Build(k, subject, policies).signature
    PROVE  LET built == Signed!Build(k, subject, policies)
           IN  /\ Signed!VerifySignature(built) = TRUE
               /\ Signed!VerifySignature(req) = TRUE => req.info = built.info
<1> DEFINE built == Signed!Build(k, subject, policies)
<1>1. built.info.key = k.key /\ built.signature = [key |-> k.key, over |-> built.info]
  BY DEF Signed!Build, Signed!SignWith
<1> HIDE DEF built
<1>2. Signed!VerifySignature(built) = TRUE
  BY <1>1 DEF Signed!VerifySignature, Signed!SignWith
<1>3. ASSUME Signed!VerifySignature(req) = TRUE PROVE req.info = built.info
  <2>1. req.signature = [key |-> req.info.key, over |-> req.info]
    BY <1>3, VerifiedRequestSays
  <2>2. req.signature = built.signature
    BY DEF built
  <2>3. req.signature.over = req.info /\ built.signature.over = built.info
    BY <1>1, <2>1
  <2> QED
    BY <2>2, <2>3
<1> QED
  BY <1>2, <1>3 DEF built

LEMMA CertificateTaskIsAnswered ==
    ASSUME Inv, answer # Pending, task.kind \in {"chain", "pkcs7", "pkcs10", "request", "generate"}
    PROVE  answer = CertificateAnswer(task)
BY DEF Inv, Replied

\* A session of a task: no chain, or a temporary one, not always of its key, or
\* one certificate twice.
LEMMA SessionIs ==
    ASSUME NEW session \in SessionsOf
    PROVE  /\ session.kind \in Kinds /\ session.key \in SigningKeys
           /\ session.chain # <<>> => \E j \in SigningKeys : session.chain \in {Temporary(j), Doubled(j)}
<1>1. PICK kind \in Kinds, k \in SigningKeys,
           chain \in {<<>>} \cup {Temporary(j) : j \in SigningKeys} \cup {Doubled(j) : j \in SigningKeys} :
         session = Session(kind, k, chain)
  BY DEF SessionsOf, Kinds
<1>2. session.kind = kind /\ session.key = k /\ session.chain = chain
  BY <1>1 DEF Session
<1> QED
  BY <1>2

LEMMA TemporaryIsOwn ==
    ASSUME NEW j \in SigningKeys
    PROVE  /\ Temporary(j) \in Seq(Own) /\ None \notin Own
           /\ Temporary(j)[1] \in Own /\ IsOwn(Temporary(j)[1]) /\ Temporary(j)[1].subject = "s"
<1>1. DOMAIN Temporary(j) = 1 .. 3 /\ \A i \in 1 .. 3 : Temporary(j)[i] \in Own
  BY TemporaryIs DEF Own
<1>2. \E a, b, c : Temporary(j) = <<a, b, c>>
  <2>1. Temporary(j) = Signed!Issue(j, "s", 3, 4)
    BY DEF Temporary
  <2> QED
    BY Zenon, <2>1 DEF Signed!Issue
<1>3. Temporary(j) \in Seq(Own)
  <2>1. PICK a, b, c : Temporary(j) = <<a, b, c>>
    BY <1>2
  <2>2. a \in Own /\ b \in Own /\ c \in Own
    BY <1>1, <2>1
  <2> QED
    BY <2>1, <2>2
<1>4. None \notin Own
  <2>1. \A k \in SigningKeys : Temporary(k) \in DamagedChains(Temporary(k))
    BY DEF DamagedChains
  <2> QED
    BY <2>1, AbsenceAssumption DEF Own
<1> QED
  BY <1>1, <1>3, <1>4, OwnIs, TemporaryIs

LEMMA DoubledIs ==
    ASSUME NEW j \in SigningKeys
    PROVE  Doubled(j)[1] = Temporary(j)[1] /\ ~Signed!IsInjective(Doubled(j))
<1> DEFINE c == Temporary(j)[1]
           chain == Doubled(j)
<1>1. chain = <<c, c>>
  BY DEF Doubled
<1> HIDE DEF c, chain
<1>2. 1 \in DOMAIN chain /\ 2 \in DOMAIN chain /\ chain[1] = c /\ chain[2] = c
  BY <1>1
<1>3. ~Signed!IsInjective(chain)
  BY <1>2 DEF Signed!IsInjective
<1> QED
  BY <1>2, <1>3 DEF c, chain

LEMMA TemporaryIsAccepted ==
    ASSUME NEW j \in SigningKeys, NEW data \in Texts, NEW other, NEW whole, NEW k
    PROVE  Accepts(data, other, whole, k, Temporary(j)) <=> other = data /\ k = Temporary(j)[1].key
<1> DEFINE issued == Temporary(j)
           certs == Own
<1>1. issued \in Seq(certs) /\ None \notin certs /\ IsOwn(issued[1])
  BY TemporaryIsOwn
<1>2. issued # <<>> /\ DOMAIN issued = 1 .. 3 /\ \A a, b \in 1 .. 3 : issued[a].sid = issued[b].sid => a = b
  <2>1. DOMAIN issued = 1 .. 3 /\ \A a, b \in 1 .. 3 : issued[a].sid = issued[b].sid => a = b
    BY TemporaryIs
  <2> HIDE DEF issued
  <2> QED
    BY <2>1
<1>3. None # Signed!Attributes(IdData, data)
  BY AbsenceAssumption DEF Contents
<1>4. \A c \in certs : Der(c) \in Nat
  BY DerAssumption DEF Own
<1> HIDE DEF issued, certs
<1>5. issued[1].sid # None /\ issued[1].key # None /\ issued[1].sound = TRUE
  BY <1>1 DEF IsOwn
<1>6. IsSigningChain(issued, certs)
  BY <1>1, <1>2 DEF IsSigningChain, Signed!IsInjective
<1>7. Accepts(data, other, whole, k, issued) <=> other = data /\ k = issued[1].key
  BY <1>1, <1>3, <1>4, <1>5, <1>6, SignedIsAccepted
<1> QED
  BY <1>7 DEF issued

LEMMA DocumentsAreSigned ==
    ASSUME Inv, Answered("pkcs7"), answer.made.status = "OK"
    PROVE  LET sd == answer.made.value
               verdicts == Signed!Verify(sd, task.content)
               other == Signed!Verify(sd, Text("other"))
           IN  /\ sd.signers # {}
               /\ \A si \in sd.signers :
                    /\ si.signature.key = task.session.key.key
                    /\ verdicts[si] <=> task.session.chain[1].key = task.session.key.key
                    /\ task.detached => ~other[si]
               /\ sd.content = IF task.detached THEN None ELSE task.content
               /\ answer.chain.value = task.session.chain
               /\ sd.certs = Files!RangeOf(answer.chain.value)
<1>1. task.kind = "pkcs7" /\ Pkcs7Task /\ answer # Pending
  BY TaskOfItsKind DEF Inv, Answered
<1>2. PICK session \in SessionsOf, content \in Texts, detached \in BOOLEAN :
         task = [kind |-> "pkcs7", session |-> session, content |-> content, detached |-> detached]
  BY Zenon, <1>1 DEF Pkcs7Task
<1>3. task.session = session /\ task.content = content /\ task.detached = detached
  BY <1>2
<1>4. answer = [made |-> Signed!CreatePkcs7(session, content, detached),
                chain |-> Signed!GetCertificateChain(session)]
  <2>1. answer = CertificateAnswer(task)
    BY <1>1, CertificateTaskIsAnswered
  <2>2. CertificateAnswer(task) = [made |-> Signed!CreatePkcs7(task.session, task.content, task.detached),
                                   chain |-> Signed!GetCertificateChain(task.session)]
    BY Zenon, <1>1 DEF CertificateAnswer
  <2> QED
    BY <1>3, <2>1, <2>2
<1> DEFINE key == session.key.key
           chain == session.chain
           sd == Signed!Sign(content, ~detached, key, chain)
           attrs == Signed!Attributes(IdData, content)
           signer == Signed!SignerInfo(chain[1].sid, attrs, key, attrs)
<1>5. /\ session.kind \in {"pfx", "yks"} /\ sd # None /\ answer.made.value = sd
      /\ answer.chain.value = chain
  <2>1. session.kind \in Kinds /\ Signed!CreatePkcs7(session, content, detached).status = "OK"
    BY <1>4, SessionIs
  <2>2. /\ session.kind \in {"pfx", "yks"} /\ sd # None
        /\ Signed!CreatePkcs7(session, content, detached) = Signed!Answer("OK", sd)
    BY <2>1, Pkcs7OfKind
  <2>3. Signed!GetCertificateChain(session) = Signed!Answer("OK", chain)
    BY <2>2, ChainOfKind
  <2> HIDE DEF sd, chain
  <2> QED
    BY <1>4, <2>2, <2>3 DEF Signed!Answer
<1>6. chain # <<>> /\ Signed!IsInjective(chain)
  <2> HIDE DEF chain
  <2> QED BY <1>5 DEF Signed!Sign
<1>7. PICK j \in SigningKeys : chain = Temporary(j)
  <2>1. PICK j \in SigningKeys : chain \in {Temporary(j), Doubled(j)}
    BY <1>6, SessionIs
  <2> HIDE DEF chain
  <2> QED
    BY <1>6, <2>1, DoubledIs
<1>8. content # None /\ Text("other") # None /\ Text("other") # content
  BY AbsenceAssumption DEF Contents, Texts, Text
<1> HIDE DEF chain, key, attrs
<1>9. /\ sd.content = IF detached THEN None ELSE content
      /\ sd.certs = Files!RangeOf(chain)
      /\ sd.signers = {signer}
  BY <1>6 DEF Signed!Sign, Signed!ToSet, Files!RangeOf, attrs
<1>10. signer.signature.key = key
  BY DEF Signed!SignerInfo
<1>11. \A judged : Signed!VerifySigner(sd, judged, signer) <=> judged = content /\ key = chain[1].key
  <2> TAKE judged
  <2> DEFINE attached == ~detached
  <2>1. Accepts(content, judged, attached, key, chain) <=> judged = content /\ key = chain[1].key
    BY <1>7, TemporaryIsAccepted
  <2>2. sd = Signed!Sign(content, attached, key, chain)
    BY DEF attached
  <2>3. Accepts(content, judged, attached, key, chain)
            <=> \A si \in sd.signers : Signed!VerifySigner(sd, judged, si)
    BY Zenon, <2>2 DEF Accepts
  <2> HIDE DEF sd, attached, signer
  <2> QED
    BY <1>9, <2>1, <2>3
<1> HIDE DEF sd, signer
<1>12. Signed!ContentOf(sd, content) = content /\ (detached => Signed!ContentOf(sd, Text("other")) = Text("other"))
  BY <1>9, <1>8 DEF Signed!ContentOf
<1>13. Signed!Verify(sd, content)[signer] = Signed!VerifySigner(sd, content, signer)
  BY <1>8, <1>9, <1>12 DEF Signed!Verify
<1>14. detached => Signed!Verify(sd, Text("other"))[signer] = Signed!VerifySigner(sd, Text("other"), signer)
  BY <1>8, <1>9, <1>12 DEF Signed!Verify
<1> QED
  BY <1>3, <1>5, <1>8, <1>9, <1>10, <1>11, <1>13, <1>14 DEF key, chain

LEMMA ListIsSequence ==
    ASSUME NEW list \in CpLists
    PROVE  Len(list) \in Nat /\ DOMAIN list = 1 .. Len(list)
<1>1. list \in Seq(Policies)
  <2> DEFINE S == Policies
  <2> HIDE DEF S
  <2>1. <<>> \in Seq(S)
    OBVIOUS
  <2>2. \A p \in S : <<p>> \in Seq(S)
    OBVIOUS
  <2>3. \A p, q \in S : <<p, q>> \in Seq(S)
    OBVIOUS
  <2>4. list \in {<<>>} \cup {<<p>> : p \in S} \cup {<<p, q>> : p, q \in S}
    BY DEF CpLists, S
  <2>5. list = <<>> \/ (\E p \in S : list = <<p>>) \/ (\E p, q \in S : list = <<p, q>>)
    BY <2>4
  <2> QED
    BY <2>1, <2>2, <2>3, <2>5 DEF S
<1> QED
  BY <1>1

LEMMA RequestsAreOfTheirSession ==
    ASSUME Inv, Answered("pkcs10"), answer.status = "OK"
    PROVE  /\ task.session.kind \in IF task.from THEN {"pfx", "yks"} ELSE {"key_pair"}
           /\ Signed!InfoView(answer.value) =
                [subject |-> IF task.from /\ task.name = "" THEN "s" ELSE task.name,
                 key |-> task.session.key.key, verified |-> TRUE]
           /\ Len(answer.value.info.policies) = Len(task.list)
           /\ ~task.from => \A i \in DOMAIN task.list : ~task.list[i].spaced
<1>1. task.kind = "pkcs10" /\ Pkcs10Task /\ answer # Pending
  BY TaskOfItsKind DEF Inv, Answered
<1>2. PICK session \in SessionsOf, from \in BOOLEAN, name \in {"", "t"}, list \in CpLists :
         task = [kind |-> "pkcs10", session |-> session, from |-> from, name |-> name, list |-> list]
  BY Zenon, <1>1 DEF Pkcs10Task
<1>3. task.session = session /\ task.from = from /\ task.name = name /\ task.list = list
  BY Zenon, <1>2
<1>4. answer = IF from THEN Signed!CreatePkcs10FromKey(session, name, list)
               ELSE Signed!CreatePkcs10(session, name, list)
  <2>1. answer = CertificateAnswer(task)
    BY Zenon, <1>1, CertificateTaskIsAnswered
  <2>2. CertificateAnswer(task) = IF task.from THEN Signed!CreatePkcs10FromKey(task.session, task.name, task.list)
                                  ELSE Signed!CreatePkcs10(task.session, task.name, task.list)
    BY Zenon, <1>1 DEF CertificateAnswer
  <2> QED
    BY Zenon, <1>3, <2>1, <2>2
<1>5. session.kind \in Kinds /\ session.key \in SigningKeys
      /\ (session.chain # <<>> => session.chain[1].subject = "s")
  BY SessionIs, TemporaryIsOwn, DoubledIs
<1>6. session.key.key # None /\ Failed \notin BOOLEAN
  BY Zenon, <1>5, TemporaryIs, AbsenceAssumption
<1>7. Len(list) \in Nat /\ DOMAIN list = 1 .. Len(list)
  BY Zenon, ListIsSequence
<1> DEFINE subject == IF from /\ name = "" THEN "s" ELSE name
           policies == Signed!ParseCpList(list, from)
           built == Signed!Build(session.key, subject, policies)
<1>8. /\ session.kind \in IF from THEN {"pfx", "yks"} ELSE {"key_pair"}
      /\ policies # Failed /\ answer.value = built
  <2>1. CASE from
    <3> DEFINE s == IF name = "" THEN session.chain[1].subject ELSE name
    <3>1. Signed!CreatePkcs10FromKey(session, name, list).status = "OK"
      BY Zenon, <1>4, <2>1
    <3>2. /\ session.kind \in {"pfx", "yks"} /\ Signed!ParseCpList(list, TRUE) # Failed /\ session.chain # <<>>
          /\ Signed!CreatePkcs10FromKey(session, name, list)
                = Signed!Answer("OK", Signed!Build(session.key, s, Signed!ParseCpList(list, TRUE)))
      BY Zenon, <1>5, <3>1, Pkcs10FromKeyOfKind
    <3>3. s = subject /\ policies = Signed!ParseCpList(list, TRUE)
      BY Zenon, <1>5, <2>1, <3>2
    <3> HIDE DEF s, subject, policies
    <3>4. answer = Signed!Answer("OK", built)
      BY Zenon, <1>4, <2>1, <3>2, <3>3
    <3> HIDE DEF built
    <3>5. answer.value = built
      BY Zenon, <3>4 DEF Signed!Answer
    <3> QED
      BY Zenon, <2>1, <3>2, <3>3, <3>5
  <2>2. CASE ~from
    <3>1. Signed!CreatePkcs10(session, name, list).status = "OK"
      BY Zenon, <1>4, <2>2
    <3>2. /\ session.kind = "key_pair" /\ Signed!ParseCpList(list, FALSE) # Failed
          /\ Signed!CreatePkcs10(session, name, list)
                = Signed!Answer("OK", Signed!Build(session.key, name, Signed!ParseCpList(list, FALSE)))
      BY Zenon, <1>5, <3>1, Pkcs10OfKind
    <3>3. name = subject /\ policies = Signed!ParseCpList(list, FALSE)
      BY Zenon, <2>2
    <3> HIDE DEF subject, policies
    <3>4. answer = Signed!Answer("OK", built)
      BY Zenon, <1>4, <2>2, <3>2, <3>3
    <3> HIDE DEF built
    <3>5. answer.value = built
      BY Zenon, <3>4 DEF Signed!Answer
    <3> QED
      BY Zenon, <2>2, <3>2, <3>3, <3>5
  <2> QED
    BY Zenon, <2>1, <2>2
<1>9. /\ Len(policies) = Len(list)
      /\ ~from => \A i \in DOMAIN list : ~list[i].spaced
  BY Zenon, <1>7, <1>8, PoliciesAre
<1> HIDE DEF policies, subject
<1>10. built.info.subject = subject /\ built.info.key = session.key.key /\ built.info.policies = policies
  BY Zenon DEF Signed!Build
<1>11. Signed!VerifySignature(built) = TRUE
  BY Zenon, <1>6, RequestVerifiesAsBuilt
<1>12. Signed!InfoView(built) = [subject |-> subject, key |-> session.key.key, verified |-> TRUE]
  <2> HIDE DEF built
  <2> QED BY Zenon, <1>10, <1>11 DEF Signed!InfoView
<1> QED
  BY Zenon, <1>3, <1>8, <1>9, <1>10, <1>12 DEF subject

\* Of the damaged forms of a request only the request itself verifies.
LEMMA DamagedRequestIs ==
    ASSUME NEW k \in SigningKeys, NEW other \in SigningKeys,
           NEW req \in DamagedRequests(Signed!Build(k, "s", <<>>), other)
    PROVE  Signed!VerifySignature(req) = TRUE <=> req = Signed!Build(k, "s", <<>>)
<1> DEFINE built == Signed!Build(k, "s", <<>>)
           forged == Signed!Build(other, "t", <<>>)
<1>1. Failed \notin BOOLEAN /\ k.key # None
  BY TemporaryIs, AbsenceAssumption
<1>2. /\ built = [info |-> built.info, algorithm |-> built.algorithm, signature |-> built.signature]
      /\ built.info.subject = "s" /\ forged.signature.over.subject = "t"
  BY DEF Signed!Build, Signed!SignWith
<1>3. Signed!VerifySignature(built) = TRUE
  BY <1>1, RequestVerifiesAsBuilt
<1>4. req.signature = built.signature /\ Signed!VerifySignature(req) = TRUE => req.info = built.info
  BY <1>1, RequestVerifiesAsBuilt
<1>5. \/ \E i : req = [built EXCEPT !.info = i]
      \/ req = [built EXCEPT !.signature = forged.signature]
  <2> HIDE DEF built, forged
  <2>1. req \in DamagedRequests(built, other)
    BY DEF built
  <2> QED
    BY <2>1 DEF DamagedRequests, forged
<1> HIDE DEF built, forged
<1>6. CASE \E i : req = [built EXCEPT !.info = i]
  <2>1. PICK i : req = [built EXCEPT !.info = i]
    BY <1>6
  <2> DEFINE a == built.algorithm
             b == built.signature
             x == built.info
  <2>0. built = [info |-> x, algorithm |-> a, signature |-> b]
    BY <1>2
  <2> HIDE DEF a, b, x
  <2>2. req = [info |-> i, algorithm |-> a, signature |-> b]
    BY <2>0, <2>1
  <2>3. req.signature = b /\ req.info = i /\ (i = x => req = built)
    BY <2>0, <2>2
  <2> QED
    BY <1>3, <1>4, <2>3 DEF built, b, x
<1>7. CASE req = [built EXCEPT !.signature = forged.signature]
  <2>1. req.info = built.info /\ req.signature = forged.signature
    BY <1>2, <1>7
  <2>2. Signed!VerifySignature(req) = TRUE => req.signature.over = req.info
    <3> SUFFICES ASSUME Signed!VerifySignature(req) = TRUE
                 PROVE  req.signature.over = req.info
      OBVIOUS
    <3>1. req.signature = [key |-> req.info.key, over |-> req.info]
      BY <1>1, VerifiedRequestSays
    <3> QED
      BY <3>1
  <2>3. Signed!VerifySignature(req) # TRUE
    BY <1>2, <2>1, <2>2
  <2> QED
    BY <1>3, <2>3 DEF built
<1> QED
  BY <1>5, <1>6, <1>7

LEMMA RequestsAreJudged ==
    ASSUME Inv, Answered("request")
    PROVE  IF answer.status = "OK"
           THEN answer.value.verified <=> task.input.value = task.built
           ELSE task.input.wrapped = <<"pem", "base64">>
<1>1. task.kind = "request" /\ RequestTask /\ answer # Pending
  BY TaskOfItsKind DEF Inv, Answered
<1>2. PICK k \in SigningKeys, other \in SigningKeys :
          \E damaged \in DamagedRequests(Signed!Build(k, "s", <<>>), other) : \E input \in Wrapped(damaged) :
              task = [kind |-> "request", built |-> Signed!Build(k, "s", <<>>), input |-> input]
  BY <1>1 DEF RequestTask
<1>3. PICK damaged \in DamagedRequests(Signed!Build(k, "s", <<>>), other) : \E input \in Wrapped(damaged) :
          task = [kind |-> "request", built |-> Signed!Build(k, "s", <<>>), input |-> input]
  BY <1>2
<1>4. PICK input \in Wrapped(damaged) :
          task = [kind |-> "request", built |-> Signed!Build(k, "s", <<>>), input |-> input]
  BY <1>3
<1> DEFINE built == Signed!Build(k, "s", <<>>)
           holds == Signed!VerifySignature(damaged) = TRUE
<1>5. holds <=> damaged = built
  BY DamagedRequestIs
<1> HIDE DEF built
<1>6. task.input = input /\ task.built = built
  BY <1>4 DEF built
<1>7. /\ input.value = damaged
      /\ input.wrapped \in Signed!Wrappings \cup {<<"pem", "base64">>}
  BY DEF Wrapped
<1>8. damaged # Failed
  BY AbsenceAssumption
<1>9. answer = Signed!GetPkcs10Info(input)
  <2>1. answer = CertificateAnswer(task)
    BY <1>1, CertificateTaskIsAnswered
  <2>2. CertificateAnswer(task) = Signed!GetPkcs10Info(task.input)
    BY Zenon, <1>1 DEF CertificateAnswer
  <2> QED
    BY <1>6, <2>1, <2>2
<1>10. Signed!InfoView(damaged).verified = holds
  BY DEF Signed!InfoView
<1> HIDE DEF holds
<1>11. CASE input.wrapped \in Signed!Wrappings
  <2>1. Signed!ParseRequest(input) = damaged
    BY <1>7, <1>11 DEF Signed!ParseRequest
  <2>2. answer = Signed!Answer("OK", Signed!InfoView(damaged))
    BY <1>8, <1>9, <2>1 DEF Signed!GetPkcs10Info
  <2>3. answer.status = "OK" /\ answer.value = Signed!InfoView(damaged)
    BY <2>2 DEF Signed!Answer
  <2>4. answer.value.verified = holds
    BY <1>10, <2>3
  <2> QED
    BY <1>5, <1>6, <1>7, <2>3, <2>4
<1>12. CASE input.wrapped \notin Signed!Wrappings
  <2>1. Signed!ParseRequest(input) = Failed
    BY <1>12 DEF Signed!ParseRequest
  <2>2. answer.status = "FailedToOpenPkcs10"
    BY <1>9, <2>1 DEF Signed!GetPkcs10Info, Signed!Refused, Signed!Answer
  <2> QED
    BY <1>6, <1>7, <1>12, <2>2
<1> QED
  BY <1>11, <1>12

\* A key pair is of the family that was asked for, unless its person took the
\* suggested one.
LEMMA KeyPairsAreAsAsked ==
    ASSUME Inv, Answered("generate"), answer.status = "OK", task.asked # "UseSuggested"
    PROVE  answer.value.family = task.name
<1>1. task.kind = "generate" /\ answer # Pending
  BY DEF Answered
<1>2. answer = Signed!GenerateKey(task.name, task.asked, 1)
  <2>1. answer = CertificateAnswer(task)
    BY <1>1, CertificateTaskIsAnswered
  <2>2. CertificateAnswer(task) = Signed!GenerateKey(task.name, task.asked, 1)
    BY Zenon, <1>1 DEF CertificateAnswer
  <2> QED
    BY <2>1, <2>2
<1> QED
  BY <1>2 DEF Signed!GenerateKey, Signed!Refused, Signed!Answer

LEMMA SessionsAreSigned ==
    ASSUME Inv
    PROVE  SessionsSignWithTheirKey
BY Zenon, DocumentsAreSigned, RequestsAreOfTheirSession, RequestsAreJudged, KeyPairsAreAsAsked
   DEF SessionsSignWithTheirKey

\* Nothing verifies but what was signed, and what the program signs does, in
\* documents, chains and requests, for every value of the constants (cms.rs,
\* tempchain.rs, keystore.rs, x509.rs, pkcs7.rs and pkcs10.rs).
THEOREM SpecVerifiedMeansSigned == Spec => []VerifiedMeansSigned
<1>1. Inv => VerifiedMeansSigned
  BY CmsIsSigned, ChainsAreSigned, SessionsAreSigned DEF VerifiedMeansSigned
<1> QED
  BY <1>1, TasksAreAnswered, PTL

-----------------------------------------------------------------------------
(* What a file keeps of a sequence, in its order. *)

\* The prefixes of what is kept.
IsKept(K, s, places, S) ==
    /\ K \in [0 .. Len(s) -> Seq(S)]
    /\ K[0] = <<>>
    /\ \A i \in 1 .. Len(s) : K[i] = IF i \in places THEN Append(K[i - 1], s[i]) ELSE K[i - 1]
    /\ Files!Kept(s, places) = K[Len(s)]

LEMMA KeptSteps ==
    ASSUME NEW S, NEW s \in Seq(S), NEW places
    PROVE  \E K : IsKept(K, s, places, S)
<1> DEFINE n == Len(s)
           X == Seq(S)
           Step == [x \in Nat \X X |->
                       IF x[1] \in places /\ x[1] \in 1 .. n THEN Append(x[2], s[x[1]]) ELSE x[2]]
<1>0. n \in Nat /\ <<>> \in X /\ \A i \in 1 .. n : s[i] \in S
  OBVIOUS
<1>1. Step \in [Nat \X X -> X]
  <2> SUFFICES ASSUME NEW x \in Nat \X X, x[1] \in 1 .. n PROVE Append(x[2], s[x[1]]) \in X
    OBVIOUS
  <2>1. x[2] \in Seq(S) /\ s[x[1]] \in S
    BY <1>0
  <2> QED
    BY <2>1
<1>2. PICK N \in [0 .. n -> X] : IsRecursion(N, <<>>, Step, n)
  <2> HIDE DEF Step, X
  <2> QED BY <1>0, <1>1, RecursionUpTo
<1>3. \A i \in 1 .. n : N[i] = IF i \in places THEN Append(N[i - 1], s[i]) ELSE N[i - 1]
  <2> SUFFICES ASSUME NEW i \in 1 .. n
               PROVE  N[i] = IF i \in places THEN Append(N[i - 1], s[i]) ELSE N[i - 1]
    OBVIOUS
  <2>0. i \in Nat /\ i - 1 \in 0 .. n
    BY <1>0
  <2>1. i \in Nat /\ N[i - 1] \in X /\ <<i, N[i - 1]>> \in Nat \X X
    <3> HIDE DEF X, n
    <3>1. N[i - 1] \in X
      BY <2>0
    <3> QED
      BY <2>0, <3>1
  <2>2. N[i] = Step[<<i, N[i - 1]>>]
    BY <1>2 DEF IsRecursion
  <2> DEFINE prev == N[i - 1]
  <2>3. Step[<<i, prev>>] = IF i \in places THEN Append(prev, s[i]) ELSE prev
    <3>1. i \in 1 .. n /\ <<i, prev>>[1] = i /\ <<i, prev>>[2] = prev /\ <<i, prev>> \in Nat \X X
      BY <2>1
    <3> HIDE DEF prev, X, n
    <3> QED
      BY <3>1
  <2> HIDE DEF Step
  <2> QED
    BY <2>2, <2>3
<1>4. N[0] = <<>>
  BY <1>2 DEF IsRecursion
<1> HIDE DEF Step, X
<1>5. N = [i \in 0 .. n |-> IF i = 0 THEN <<>> ELSE IF i \in places THEN Append(N[i - 1], s[i]) ELSE N[i - 1]]
  <2>1. ASSUME NEW i \in 0 .. n
        PROVE  N[i] = IF i = 0 THEN <<>> ELSE IF i \in places THEN Append(N[i - 1], s[i]) ELSE N[i - 1]
    <3>1. CASE i = 0
      BY <1>4, <3>1
    <3>2. CASE i \in 1 .. n
      BY <1>0, <1>3, <3>2
    <3> QED
      BY <1>0, <3>1, <3>2
  <2>2. N = [i \in 0 .. n |-> N[i]]
    BY <1>2 DEF IsRecursion
  <2> QED
    BY <2>1, <2>2
<1> DEFINE K == CHOOSE K : K = [i \in 0 .. n |-> IF i = 0 THEN <<>>
                                                 ELSE IF i \in places THEN Append(K[i - 1], s[i]) ELSE K[i - 1]]
<1>6. K = [i \in 0 .. n |-> IF i = 0 THEN <<>> ELSE IF i \in places THEN Append(K[i - 1], s[i]) ELSE K[i - 1]]
  BY Zenon, <1>5
<1> HIDE DEF K
<1>7. /\ DOMAIN K = 0 .. n /\ K[0] = <<>>
      /\ \A i \in 1 .. n : K[i] = IF i \in places THEN Append(K[i - 1], s[i]) ELSE K[i - 1]
  <2>1. DOMAIN K = 0 .. n /\ 0 \in 0 .. n
    BY <1>0, <1>6
  <2>2. \A i \in 0 .. n : K[i] = IF i = 0 THEN <<>> ELSE IF i \in places THEN Append(K[i - 1], s[i]) ELSE K[i - 1]
    BY Zenon, <1>6
  <2>3. \A i \in 1 .. n : i \in 0 .. n /\ i # 0
    BY <1>0
  <2> QED
    BY Zenon, <2>1, <2>2, <2>3
<1>8. 0 .. n \subseteq {i \in 0 .. n : K[i] \in X}
  <2> DEFINE T == {i \in 0 .. n : K[i] \in X}
  <2>1. ASSUME NEW i \in 1 .. n, i - 1 \in T PROVE i \in T
    <3>1. K[i - 1] \in Seq(S) /\ s[i] \in S /\ i \in 0 .. n
      BY <1>0, <2>1 DEF X
    <3>2. Append(K[i - 1], s[i]) \in Seq(S)
      BY <3>1
    <3> QED
      BY <1>7, <3>1, <3>2 DEF X
  <2>2. 0 \in T
    BY <1>0, <1>7
  <2> HIDE DEF T
  <2>3. 0 .. n \subseteq T
    BY <1>0, <2>1, <2>2, InductionUpTo
  <2> QED
    BY <2>3 DEF T
<1>9. K \in [0 .. n -> Seq(S)]
  BY <1>6, <1>8 DEF X
<1>10. Files!Kept(s, places) = K[n]
  BY DEF Files!Kept, K
<1> QED
  BY <1>7, <1>9, <1>10 DEF IsKept

KeptUntil(s, places, i) == {s[j] : j \in {j \in places : j <= i}}

LEMMA KeptSoFar ==
    ASSUME NEW S, NEW s \in Seq(S), NEW places, NEW K,
           places \subseteq DOMAIN s, IsKept(K, s, places, S)
    PROVE  \A i \in 0 .. Len(s) : Files!RangeOf(K[i]) = KeptUntil(s, places, i)
<1>0. Len(s) \in Nat /\ DOMAIN s = 1 .. Len(s) /\ \A i \in 1 .. Len(s) : s[i] \in S
  OBVIOUS
<1>1. IsKept(K, s, places, S)
  OBVIOUS
<1> DEFINE Until(i) == KeptUntil(s, places, i)
           T == {i \in 0 .. Len(s) : Files!RangeOf(K[i]) = Until(i)}
<1>2. 0 \in T
  <2>1. Until(0) = {} /\ K[0] = <<>>
    BY <1>0, <1>1 DEF IsKept, KeptUntil
  <2> QED
    BY <1>0, <2>1 DEF Files!RangeOf
<1>3. ASSUME NEW i \in 1 .. Len(s), i - 1 \in T PROVE i \in T
  <2>1. K[i - 1] \in Seq(S) /\ s[i] \in S /\ i \in 0 .. Len(s)
    BY <1>0, <1>1 DEF IsKept
  <2>2. Files!RangeOf(K[i - 1]) = Until(i - 1)
    BY <1>3
  <2>3. CASE i \in places
    <3>1. K[i] = Append(K[i - 1], s[i])
      BY <1>1, <2>3 DEF IsKept
    <3>2. Files!RangeOf(Append(K[i - 1], s[i])) = Files!RangeOf(K[i - 1]) \cup {s[i]}
      <4> DEFINE t == K[i - 1]
      <4> HIDE DEF t
      <4>1. \A t1 \in Seq(S), x \in S : Files!RangeOf(Append(t1, x)) = Files!RangeOf(t1) \cup {x}
        BY AppendProperties DEF Files!RangeOf
      <4> QED
        BY <2>1, <4>1 DEF t
    <3>3. Until(i) = Until(i - 1) \cup {s[i]}
      BY <1>0, <2>3 DEF KeptUntil
    <3> HIDE DEF Until
    <3> QED
      BY <2>1, <2>2, <3>1, <3>2, <3>3
  <2>4. CASE i \notin places
    <3>1. K[i] = K[i - 1]
      BY <1>1, <2>4 DEF IsKept
    <3>2. Until(i) = Until(i - 1)
      BY <1>0, <2>4 DEF KeptUntil
    <3> HIDE DEF Until
    <3> QED
      BY <2>1, <2>2, <3>1, <3>2
  <2> QED
    BY <2>3, <2>4
<1> HIDE DEF T
<1>4. 0 .. Len(s) \subseteq T
  BY <1>0, <1>2, <1>3, InductionUpTo
<1> QED
  BY <1>0, <1>4 DEF T

\* What is kept is just what is at the places.
LEMMA KeptIs ==
    ASSUME NEW S, NEW s \in Seq(S), NEW places, places \subseteq DOMAIN s
    PROVE  /\ Files!Kept(s, places) \in Seq(S)
           /\ Files!RangeOf(Files!Kept(s, places)) = {s[i] : i \in places}
<1>0. Len(s) \in Nat /\ DOMAIN s = 1 .. Len(s)
  OBVIOUS
<1>1. PICK K : IsKept(K, s, places, S)
  BY KeptSteps
<1>2. Files!RangeOf(K[Len(s)]) = KeptUntil(s, places, Len(s)) /\ K[Len(s)] \in Seq(S)
  <2>1. \A i \in 0 .. Len(s) : Files!RangeOf(K[i]) = KeptUntil(s, places, i)
    BY <1>1, KeptSoFar
  <2>2. \A i \in 0 .. Len(s) : K[i] \in Seq(S)
    BY <1>1 DEF IsKept
  <2> QED
    BY <1>0, <2>1, <2>2
<1>3. KeptUntil(s, places, Len(s)) = {s[j] : j \in places}
  BY <1>0 DEF KeptUntil
<1> QED
  BY <1>1, <1>2, <1>3 DEF IsKept

\* It is kept in its order: before a member are only earlier ones.
KeptAfter(t, s, places, p) ==
    \E q \in 1 .. Len(t) :
        /\ t[q] = s[p]
        /\ \A r \in 1 .. q - 1 : \E o \in places : o < p /\ t[r] = s[o]

LEMMA KeptInOrder ==
    ASSUME NEW S, NEW s \in Seq(S), NEW places, places \subseteq DOMAIN s, NEW p \in places
    PROVE  KeptAfter(Files!Kept(s, places), s, places, p)
<1>0. Len(s) \in Nat /\ DOMAIN s = 1 .. Len(s) /\ p \in 1 .. Len(s) /\ \A i \in 1 .. Len(s) : s[i] \in S
  OBVIOUS
<1>1. PICK K : IsKept(K, s, places, S)
  BY KeptSteps
<1> DEFINE T == {i \in 0 .. Len(s) : i < p \/ KeptAfter(K[i], s, places, p)}
<1>2. 0 \in T
  BY <1>0
<1>3. ASSUME NEW i \in 1 .. Len(s), i - 1 \in T PROVE i \in T
  <2>1. K[i - 1] \in Seq(S) /\ s[i] \in S /\ i \in 0 .. Len(s) /\ i - 1 \in 0 .. Len(s)
    BY <1>0, <1>1 DEF IsKept
  <2>2. CASE i < p
    BY <2>1, <2>2
  <2>3. CASE i = p
    <3>1. K[i] = Append(K[i - 1], s[i])
      BY <1>1, <2>3 DEF IsKept
    <3> DEFINE t == K[i - 1]
               q == Len(t) + 1
    <3>2. t \in Seq(S) /\ Len(t) \in Nat
      BY <2>1
    <3>3. \A r \in 1 .. Len(t) : t[r] \in KeptUntil(s, places, i - 1)
      <4>1. Files!RangeOf(t) = KeptUntil(s, places, i - 1)
        BY <1>1, <2>1, KeptSoFar
      <4> QED
        BY <3>2, <4>1 DEF Files!RangeOf
    <3>4. \A x \in KeptUntil(s, places, i - 1) : \E o \in places : o < p /\ x = s[o]
      BY <1>0, <2>3 DEF KeptUntil
    <3> HIDE DEF t
    <3>5. /\ Len(Append(t, s[i])) = q /\ Append(t, s[i])[q] = s[i]
          /\ \A r \in 1 .. q - 1 : Append(t, s[i])[r] = t[r]
      BY <2>1, <3>2
    <3>6. KeptAfter(Append(t, s[i]), s, places, p)
      BY <2>3, <3>2, <3>3, <3>4, <3>5 DEF KeptAfter
    <3> QED
      BY <2>1, <3>1, <3>6 DEF t
  <2>4. CASE i > p
    <3> DEFINE t == K[i - 1]
    <3>1. t \in Seq(S) /\ KeptAfter(t, s, places, p)
      BY <1>0, <1>3, <2>1, <2>4
    <3>2. K[i] = t \/ K[i] = Append(t, s[i])
      BY <1>1 DEF IsKept
    <3> HIDE DEF t
    <3>3. KeptAfter(Append(t, s[i]), s, places, p)
      <4>1. PICK q \in 1 .. Len(t) : /\ t[q] = s[p]
                                      /\ \A r \in 1 .. q - 1 : \E o \in places : o < p /\ t[r] = s[o]
        BY <3>1 DEF KeptAfter
      <4>2. Len(Append(t, s[i])) = Len(t) + 1 /\ \A r \in 1 .. Len(t) : Append(t, s[i])[r] = t[r]
        BY <2>1, <3>1
      <4>3. q \in 1 .. Len(t) + 1 /\ Len(t) \in Nat /\ \A r \in 1 .. q - 1 : r \in 1 .. Len(t)
        BY <3>1
      <4> QED
        BY <4>1, <4>2, <4>3 DEF KeptAfter
    <3> QED
      BY <2>1, <3>1, <3>2, <3>3
  <2> QED
    BY <1>0, <2>2, <2>3, <2>4
<1> HIDE DEF T
<1>4. 0 .. Len(s) \subseteq T
  BY <1>0, <1>2, <1>3, InductionUpTo
<1>5. KeptAfter(K[Len(s)], s, places, p)
  BY <1>0, <1>4 DEF T
<1> QED
  BY <1>1, <1>5 DEF IsKept

\* What is kept of adjacent places is that part of the sequence.
LEMMA KeptOfPart ==
    ASSUME NEW S, NEW s \in Seq(S), NEW a \in Nat, NEW b \in Nat, a <= b, b <= Len(s)
    PROVE  Files!Kept(s, a + 1 .. b) = SubSeq(s, a + 1, b)
<1> DEFINE places == a + 1 .. b
           n == Len(s)
<1>0. n \in Nat /\ \A i \in 1 .. n : s[i] \in S
  OBVIOUS
<1>1. PICK K : IsKept(K, s, places, S)
  BY KeptSteps
<1> DEFINE Part(i) == IF i <= a THEN <<>> ELSE IF i <= b THEN SubSeq(s, a + 1, i) ELSE SubSeq(s, a + 1, b)
           T == {i \in 0 .. n : K[i] = Part(i)}
<1>2. 0 \in T
  BY <1>0, <1>1 DEF IsKept
<1>3. ASSUME NEW i \in 1 .. n, i - 1 \in T PROVE i \in T
  <2>1. i \in 0 .. n /\ K[i - 1] = Part(i - 1)
    BY <1>3
  <2>2. K[i] = IF i \in places THEN Append(K[i - 1], s[i]) ELSE K[i - 1]
    BY <1>1 DEF IsKept
  <2> SUFFICES K[i] = Part(i)
    BY <2>1
  <2>3. CASE i <= a
    BY <2>1, <2>2, <2>3
  <2>4. CASE i = a + 1 /\ i <= b
    <3>1. K[i] = Append(<<>>, s[i])
      BY <2>1, <2>2, <2>4
    <3>2. Append(<<>>, s[i]) = <<s[i]>>
      OBVIOUS
    <3>3. SubSeq(s, i, i) = <<s[i]>>
      <4>1. SubSeq(s, i, i) \in Seq(S) /\ Len(SubSeq(s, i, i)) = 1 /\ SubSeq(s, i, i)[1] = s[i]
        BY <1>0
      <4>2. <<s[i]>> \in Seq(S) /\ Len(<<s[i]>>) = 1 /\ <<s[i]>>[1] = s[i]
        BY <1>0
      <4> DEFINE t == SubSeq(s, i, i)
                 u == <<s[i]>>
      <4>3. \A j \in 1 .. Len(t) : t[j] = u[j]
        BY <4>1, <4>2
      <4>4. t \in Seq(S) /\ u \in Seq(S) /\ Len(t) = Len(u)
        BY <4>1, <4>2
      <4> HIDE DEF t, u
      <4>5. t = u
        BY <4>3, <4>4, SeqEqual
      <4> QED
        BY <4>5 DEF t, u
    <3>4. Part(i) = SubSeq(s, i, i)
      BY <2>4
    <3> HIDE DEF Part
    <3> QED
      BY <3>1, <3>2, <3>3, <3>4
  <2>5. CASE i > a + 1 /\ i <= b
    <3>1. K[i] = Append(SubSeq(s, a + 1, i - 1), s[i])
      BY <2>1, <2>2, <2>5
    <3>2. Append(SubSeq(s, a + 1, i - 1), s[i]) = SubSeq(s, a + 1, i)
      BY <1>0, <2>5
    <3>3. Part(i) = SubSeq(s, a + 1, i)
      BY <2>5
    <3> HIDE DEF Part
    <3> QED
      BY <3>1, <3>2, <3>3
  <2>6. CASE i > b
    <3>1. K[i] = Part(i - 1)
      BY <2>1, <2>2, <2>6
    <3>2. CASE i = b + 1 /\ b = a
      <4>1. SubSeq(s, a + 1, b) = <<>>
        BY <1>0, <3>2
      <4> QED
        BY <2>1, <3>1, <3>2, <4>1
    <3>3. CASE i = b + 1 /\ b # a
      BY <2>1, <3>1, <3>3
    <3>4. CASE i > b + 1
      BY <2>1, <3>1, <3>4
    <3> QED
      BY <2>6, <3>2, <3>3, <3>4
  <2> QED
    BY <2>3, <2>4, <2>5, <2>6
<1> HIDE DEF T
<1>4. 0 .. n \subseteq T
  BY <1>0, <1>2, <1>3, InductionUpTo
<1>5. K[n] = Part(n)
  BY <1>0, <1>4 DEF T
<1>6. Part(n) = SubSeq(s, a + 1, b)
  <2>1. CASE n <= a
    <3>1. SubSeq(s, a + 1, b) = <<>>
      BY <1>0, <2>1
    <3> QED
      BY <2>1, <3>1
  <2>2. CASE n > a
    <3>1. n <= b => n = b
      BY <1>0
    <3> QED
      BY <1>0, <2>2, <3>1
  <2> QED
    BY <1>0, <2>1, <2>2
<1> HIDE DEF Part
<1> QED
  BY <1>1, <1>5, <1>6 DEF IsKept

-----------------------------------------------------------------------------
(* Bags of several chains, one chain after the other. *)

LEMMA RangeOfJoined ==
    ASSUME NEW S, NEW t \in Seq(S), NEW u \in Seq(S)
    PROVE  Files!RangeOf(t \o u) = Files!RangeOf(t) \cup Files!RangeOf(u)
<1>1. /\ DOMAIN (t \o u) = 1 .. Len(t) + Len(u) /\ Len(t) \in Nat /\ Len(u) \in Nat
      /\ \A k \in 1 .. Len(t) + Len(u) : (t \o u)[k] = IF k <= Len(t) THEN t[k] ELSE u[k - Len(t)]
  OBVIOUS
<1>2. \A k \in 1 .. Len(u) : k + Len(t) \in 1 .. Len(t) + Len(u) /\ (t \o u)[k + Len(t)] = u[k]
  BY <1>1
<1>3. \A k \in 1 .. Len(t) : k \in 1 .. Len(t) + Len(u) /\ (t \o u)[k] = t[k]
  BY <1>1
<1>4. \A k \in 1 .. Len(t) + Len(u) :
         \/ k \in 1 .. Len(t) /\ (t \o u)[k] = t[k]
         \/ k - Len(t) \in 1 .. Len(u) /\ (t \o u)[k] = u[k - Len(t)]
  BY <1>1
<1>5. DOMAIN t = 1 .. Len(t) /\ DOMAIN u = 1 .. Len(u)
  OBVIOUS
<1>6. ASSUME NEW x \in Files!RangeOf(t \o u) PROVE x \in Files!RangeOf(t) \cup Files!RangeOf(u)
  BY <1>1, <1>4, <1>5 DEF Files!RangeOf
<1>7. ASSUME NEW x \in Files!RangeOf(t) PROVE x \in Files!RangeOf(t \o u)
  <2>1. PICK k \in 1 .. Len(t) : x = t[k]
    BY <1>5 DEF Files!RangeOf
  <2> QED
    BY <1>1, <1>3, <2>1 DEF Files!RangeOf
<1>8. ASSUME NEW x \in Files!RangeOf(u) PROVE x \in Files!RangeOf(t \o u)
  <2>1. PICK k \in 1 .. Len(u) : x = u[k]
    BY <1>5 DEF Files!RangeOf
  <2> QED
    BY <1>1, <1>2, <2>1 DEF Files!RangeOf
<1> QED
  BY <1>6, <1>7, <1>8

\* Sequences joined one after the other.
IsRunTogether(N, seqs, S) ==
    /\ N \in [0 .. Len(seqs) -> Seq(S)]
    /\ N[0] = <<>>
    /\ \A i \in 1 .. Len(seqs) : N[i] = N[i - 1] \o seqs[i]
    /\ Files!FlattenSeq(seqs) = N[Len(seqs)]

LEMMA JoinedSteps ==
    ASSUME NEW S, NEW seqs \in Seq(Seq(S))
    PROVE  \E N : IsRunTogether(N, seqs, S)
<1> DEFINE n == Len(seqs)
           X == Seq(S)
           Step == [x \in Nat \X X |-> IF x[1] \in 1 .. n THEN x[2] \o seqs[x[1]] ELSE x[2]]
<1>0. n \in Nat /\ <<>> \in X /\ \A i \in 1 .. n : seqs[i] \in Seq(S)
  OBVIOUS
<1>1. Step \in [Nat \X X -> X]
  <2> SUFFICES ASSUME NEW x \in Nat \X X, x[1] \in 1 .. n PROVE x[2] \o seqs[x[1]] \in X
    OBVIOUS
  <2>1. x[2] \in Seq(S) /\ seqs[x[1]] \in Seq(S)
    BY <1>0
  <2> QED
    BY <2>1
<1>2. PICK N \in [0 .. n -> X] : IsRecursion(N, <<>>, Step, n)
  <2> HIDE DEF Step, X
  <2> QED BY <1>0, <1>1, RecursionUpTo
<1>3. \A i \in 1 .. n : N[i] = N[i - 1] \o seqs[i]
  <2> SUFFICES ASSUME NEW i \in 1 .. n PROVE N[i] = N[i - 1] \o seqs[i]
    OBVIOUS
  <2>0. i \in Nat /\ i - 1 \in 0 .. n
    BY <1>0
  <2>1. N[i - 1] \in X /\ <<i, N[i - 1]>> \in Nat \X X
    <3> HIDE DEF X, n
    <3>1. N[i - 1] \in X
      BY <2>0
    <3> QED
      BY <2>0, <3>1
  <2>2. N[i] = Step[<<i, N[i - 1]>>]
    BY <1>2 DEF IsRecursion
  <2> DEFINE prev == N[i - 1]
  <2>3. Step[<<i, prev>>] = prev \o seqs[i]
    <3>1. i \in 1 .. n /\ <<i, prev>>[1] = i /\ <<i, prev>>[2] = prev /\ <<i, prev>> \in Nat \X X
      BY <2>1
    <3> HIDE DEF prev, X, n
    <3> QED
      BY <3>1
  <2> HIDE DEF Step
  <2> QED
    BY <2>2, <2>3
<1>4. N[0] = <<>>
  BY <1>2 DEF IsRecursion
<1> HIDE DEF Step, X
<1> DEFINE One == [i \in 1 .. n |-> N[i]]
<1>5. One = [i \in 1 .. n |-> IF i = 1 THEN seqs[i] ELSE One[i - 1] \o seqs[i]]
  <2>1. ASSUME NEW i \in 1 .. n
        PROVE  N[i] = IF i = 1 THEN seqs[i] ELSE One[i - 1] \o seqs[i]
    <3>0. N[i] = N[i - 1] \o seqs[i] /\ seqs[i] \in Seq(S)
      BY <1>0, <1>3
    <3>1. CASE i = 1
      <4>1. N[i] = <<>> \o seqs[i]
        <5>1. N[i - 1] = <<>>
          <6>1. i - 1 = 0
            BY <3>1
          <6> QED
            BY <1>4, <6>1
        <5> QED
          BY <3>0, <5>1
      <4>2. <<>> \o seqs[i] = seqs[i]
        BY <3>0
      <4> QED
        BY <3>1, <4>1, <4>2
    <3>2. CASE i # 1
      <4>1. i - 1 \in 1 .. n
        BY <1>0, <3>2
      <4>2. One[i - 1] = N[i - 1]
        BY <4>1
      <4> HIDE DEF One
      <4> QED
        BY <3>0, <3>2, <4>2
    <3> QED
      BY <3>1, <3>2
  <2> QED
    BY <2>1
<1> DEFINE K == CHOOSE K : K = [i \in 1 .. n |-> IF i = 1 THEN seqs[i] ELSE K[i - 1] \o seqs[i]]
<1> HIDE DEF One
<1>6. K = [i \in 1 .. n |-> IF i = 1 THEN seqs[i] ELSE K[i - 1] \o seqs[i]]
  BY Zenon, <1>5
<1> HIDE DEF K
<1>7. \A i \in 1 .. n : K[i] = IF i = 1 THEN seqs[i] ELSE K[i - 1] \o seqs[i]
  BY Zenon, <1>6
<1> DEFINE T == {i \in 0 .. n : i = 0 \/ K[i] = N[i]}
<1>8. ASSUME NEW i \in 1 .. n, i - 1 \in T PROVE i \in T
  <2>0. N[i] = N[i - 1] \o seqs[i] /\ seqs[i] \in Seq(S) /\ i \in 0 .. n
    <3> HIDE DEF T
    <3>1. N[i] = N[i - 1] \o seqs[i]
      BY <1>3
    <3>2. seqs[i] \in Seq(S)
      BY <1>0
    <3> QED
      BY <1>0, <3>1, <3>2
  <2>1. CASE i = 1
    <3>0. N[i - 1] = <<>>
      <4>1. i - 1 = 0
        BY <2>1
      <4> QED
        BY <1>4, <4>1
    <3>1. N[i] = <<>> \o seqs[i]
      BY <2>0, <3>0
    <3>2. K[i] = seqs[i]
      BY <1>7, <2>1
    <3> QED
      BY <2>0, <3>1, <3>2
  <2>2. CASE i # 1
    <3>1. K[i - 1] = N[i - 1]
      BY <1>0, <1>8, <2>2
    <3>2. K[i] = K[i - 1] \o seqs[i]
      BY <1>7, <2>2
    <3> QED
      BY <2>0, <3>1, <3>2
  <2> QED
    BY <2>1, <2>2
<1>9. 0 .. n \subseteq T
  <2>1. 0 \in T
    BY <1>0
  <2> HIDE DEF T
  <2> QED
    BY <1>0, <1>8, <2>1, InductionUpTo
<1>10. Files!FlattenSeq(seqs) = IF n = 0 THEN seqs ELSE K[n]
  BY Zenon DEF Files!FlattenSeq, K
<1>11. Files!FlattenSeq(seqs) = N[n]
  <2>1. CASE n = 0
    BY <1>4, <1>10, <2>1
  <2>2. CASE n # 0
    <3>1. n \in T
      BY <1>0, <1>9
    <3> QED
      BY <1>10, <2>2, <3>1
  <2> QED
    BY <2>1, <2>2
<1> QED
  BY <1>2, <1>3, <1>4, <1>11 DEF IsRunTogether, X

\* What is joined is what the sequences hold.
HeldUpTo(seqs, i) == UNION {Files!RangeOf(seqs[j]) : j \in 1 .. i}

LEMMA JoinedHolds ==
    ASSUME NEW S, NEW seqs \in Seq(Seq(S)), NEW N, IsRunTogether(N, seqs, S)
    PROVE  \A i \in 0 .. Len(seqs) :
               Files!RangeOf(N[i]) = HeldUpTo(seqs, i)
<1> DEFINE n == Len(seqs)
           Held(i) == HeldUpTo(seqs, i)
           T == {i \in 0 .. n : Files!RangeOf(N[i]) = Held(i)}
<1>0. n \in Nat /\ \A i \in 1 .. n : seqs[i] \in Seq(S)
  OBVIOUS
<1>1. 0 \in T
  BY <1>0 DEF IsRunTogether, HeldUpTo, Files!RangeOf
<1>2. ASSUME NEW i \in 1 .. n, i - 1 \in T PROVE i \in T
  <2>0. i - 1 \in 0 .. n
    BY <1>0
  <2>1. N[i - 1] \in Seq(S) /\ seqs[i] \in Seq(S) /\ N[i] = N[i - 1] \o seqs[i]
    BY <1>0, <2>0 DEF IsRunTogether
  <2>2. Files!RangeOf(N[i - 1]) = Held(i - 1)
    BY <1>2
  <2>3. Files!RangeOf(N[i - 1] \o seqs[i]) = Files!RangeOf(N[i - 1]) \cup Files!RangeOf(seqs[i])
    BY <2>1, RangeOfJoined
  <2>4. Held(i) = Held(i - 1) \cup Files!RangeOf(seqs[i])
    <3>1. 1 .. i = (1 .. i - 1) \cup {i}
      BY <1>0
    <3> QED
      BY <3>1 DEF HeldUpTo
  <2>5. i \in 0 .. n
    BY <1>0
  <2> HIDE DEF Held
  <2> QED
    BY <2>1, <2>2, <2>3, <2>4, <2>5
<1> HIDE DEF T
<1>3. 0 .. n \subseteq T
  BY <1>0, <1>1, <1>2, InductionUpTo
<1> QED
  BY <1>3 DEF T

\* The first member of the k-th sequence has only those of earlier ones before it.
ComesAfter(t, seqs, k) ==
    \E p \in 1 .. Len(t) :
        /\ t[p] = seqs[k][1]
        /\ \A r \in 1 .. p - 1 : \E j \in 1 .. k - 1 : t[r] \in Files!RangeOf(seqs[j])

LEMMA ComesAfterStill ==
    ASSUME NEW S, NEW seqs, NEW k, NEW t \in Seq(S), NEW u \in Seq(S), ComesAfter(t, seqs, k)
    PROVE  ComesAfter(t \o u, seqs, k)
<1>1. PICK p \in 1 .. Len(t) :
         /\ t[p] = seqs[k][1]
         /\ \A r \in 1 .. p - 1 : \E j \in 1 .. k - 1 : t[r] \in Files!RangeOf(seqs[j])
  BY DEF ComesAfter
<1>2. /\ Len(t \o u) = Len(t) + Len(u) /\ Len(t) \in Nat /\ Len(u) \in Nat
      /\ \A r \in 1 .. Len(t) : (t \o u)[r] = t[r]
  OBVIOUS
<1>3. p \in 1 .. Len(t \o u) /\ \A r \in 1 .. p - 1 : r \in 1 .. Len(t)
  BY <1>2
<1> QED
  BY <1>1, <1>2, <1>3 DEF ComesAfter

LEMMA JoinedInOrder ==
    ASSUME NEW S, NEW seqs \in Seq(Seq(S)), NEW k \in DOMAIN seqs, seqs[k] # <<>>
    PROVE  ComesAfter(Files!FlattenSeq(seqs), seqs, k)
<1> DEFINE n == Len(seqs)
           T(N) == {i \in 0 .. n : i < k \/ ComesAfter(N[i], seqs, k)}
<1>0. n \in Nat /\ k \in 1 .. n /\ \A i \in 1 .. n : seqs[i] \in Seq(S)
  OBVIOUS
<1>1. PICK N : IsRunTogether(N, seqs, S)
  BY JoinedSteps
<1>2. 0 \in T(N)
  BY <1>0
<1>3. ASSUME NEW i \in 1 .. n, i - 1 \in T(N) PROVE i \in T(N)
  <2> DEFINE t == N[i - 1]
             u == seqs[i]
  <2>0. i \in 0 .. n /\ i - 1 \in 0 .. n
    BY <1>0
  <2>1. t \in Seq(S) /\ u \in Seq(S) /\ N[i] = t \o u /\ i \in 0 .. n /\ i - 1 \in 0 .. n
    BY <1>0, <1>1, <2>0 DEF IsRunTogether
  <2>2. CASE i < k
    BY <2>1, <2>2
  <2>3. CASE i = k
    <3>1. Files!RangeOf(t) = HeldUpTo(seqs, k - 1)
      <4>1. \A x \in 0 .. n : Files!RangeOf(N[x]) = HeldUpTo(seqs, x)
        BY <1>1, JoinedHolds
      <4> QED
        BY <2>0, <2>3, <4>1
    <3>2. u # <<>> /\ u[1] = seqs[k][1]
      BY <2>3
    <3> HIDE DEF t, u
    <3>3. Len(u) \in Nat /\ Len(u) # 0 /\ Len(t) \in Nat
      BY <2>1, <3>2, EmptySeq
    <3> DEFINE p == Len(t) + 1
    <3>4. /\ p \in 1 .. Len(t \o u) /\ (t \o u)[p] = u[1]
          /\ \A r \in 1 .. p - 1 : (t \o u)[r] = t[r] /\ r \in DOMAIN t
      BY <2>1, <3>3
    <3>5. \A r \in 1 .. p - 1 : \E j \in 1 .. k - 1 : t[r] \in Files!RangeOf(seqs[j])
      <4> SUFFICES ASSUME NEW r \in 1 .. p - 1 PROVE \E j \in 1 .. k - 1 : t[r] \in Files!RangeOf(seqs[j])
        OBVIOUS
      <4>1. t[r] \in Files!RangeOf(t)
        BY <3>4 DEF Files!RangeOf
      <4> QED
        BY <3>1, <4>1 DEF HeldUpTo
    <3> HIDE DEF p
    <3>6. ComesAfter(t \o u, seqs, k)
      BY <3>2, <3>4, <3>5 DEF ComesAfter
    <3> QED
      BY <2>1, <3>6
  <2>4. CASE i > k
    <3>1. ComesAfter(t, seqs, k)
      BY <1>0, <1>3, <2>1, <2>4
    <3> HIDE DEF t, u
    <3> QED
      BY <2>1, <3>1, ComesAfterStill
  <2> QED
    BY <1>0, <2>2, <2>3, <2>4
<1>4. 0 .. n \subseteq T(N)
  <2> DEFINE T0 == T(N)
  <2>1. 0 \in T0 /\ \A i \in 1 .. n : i - 1 \in T0 => i \in T0
    BY <1>2, <1>3
  <2> HIDE DEF T0
  <2>2. 0 .. n \subseteq T0
    BY <1>0, <2>1, InductionUpTo
  <2> QED
    BY <2>2 DEF T0
<1>5. ComesAfter(N[n], seqs, k)
  <2>1. n \in 0 .. n /\ ~ (n < k)
    BY <1>0
  <2> QED
    BY <1>4, <2>1
<1> QED
  BY <1>1, <1>5 DEF IsRunTogether

\* All of the members, and nothing else.
LEMMA FlattenedHolds ==
    ASSUME NEW S, NEW seqs \in Seq(Seq(S))
    PROVE  /\ Files!FlattenSeq(seqs) \in Seq(S)
           /\ Files!RangeOf(Files!FlattenSeq(seqs)) = UNION {Files!RangeOf(s) : s \in Files!RangeOf(seqs)}
<1>0. Len(seqs) \in 0 .. Len(seqs) /\ DOMAIN seqs = 1 .. Len(seqs)
  OBVIOUS
<1>1. PICK N : IsRunTogether(N, seqs, S)
  BY JoinedSteps
<1>2. Files!RangeOf(N[Len(seqs)]) = HeldUpTo(seqs, Len(seqs))
  <2>1. \A i \in 0 .. Len(seqs) : Files!RangeOf(N[i]) = HeldUpTo(seqs, i)
    BY <1>1, JoinedHolds
  <2> QED
    BY <1>0, <2>1
<1>3. HeldUpTo(seqs, Len(seqs)) = UNION {Files!RangeOf(s) : s \in {seqs[j] : j \in 1 .. Len(seqs)}}
  BY DEF HeldUpTo
<1>4. {seqs[j] : j \in 1 .. Len(seqs)} = Files!RangeOf(seqs)
  BY <1>0 DEF Files!RangeOf
<1>5. N[Len(seqs)] \in Seq(S)
  BY <1>0, <1>1 DEF IsRunTogether
<1> QED
  BY <1>1, <1>2, <1>3, <1>4, <1>5 DEF IsRunTogether

-----------------------------------------------------------------------------
(* Chains as they are found in a file. *)

LEMMA LeastPlace ==
    ASSUME NEW S \in SUBSET Nat, S # {}
    PROVE  /\ Files!Min(S) \in S
           /\ \A j \in S : Files!Min(S) <= j
<1>1. Files!Min(S) = Signed!Min(S)
  BY DEF Files!Min, Signed!Min
<1> QED
  BY <1>1, LeastOf

\* Where a certificate is for the first time.
FirstPlaces(bags) == {i \in DOMAIN bags : \A j \in 1 .. i - 1 : bags[j].cert # bags[i].cert}

CertsOfBags(bags) == {b.cert : b \in Files!RangeOf(bags)}

\* No certificate is left out with those that are there twice.
LEMMA OnceIsAll ==
    ASSUME NEW S, NEW bags \in Seq(S)
    PROVE  /\ Files!OncePerCertificate(bags) \in Seq(S)
           /\ CertsOfBags(Files!OncePerCertificate(bags)) = CertsOfBags(bags)
<1> DEFINE once == Files!OncePerCertificate(bags)
<1>0. DOMAIN bags = 1 .. Len(bags) /\ Len(bags) \in Nat /\ FirstPlaces(bags) \subseteq DOMAIN bags
  BY DEF FirstPlaces
<1>1. once = Files!Kept(bags, FirstPlaces(bags))
  BY DEF Files!OncePerCertificate, FirstPlaces
<1>2. once \in Seq(S) /\ Files!RangeOf(once) = {bags[i] : i \in FirstPlaces(bags)}
  BY <1>0, <1>1, KeptIs
<1>3. ASSUME NEW i \in DOMAIN bags
      PROVE  \E j \in FirstPlaces(bags) : bags[j].cert = bags[i].cert
  <2> DEFINE same == {j \in DOMAIN bags : bags[j].cert = bags[i].cert}
             m == Files!Min(same)
  <2>1. same \in SUBSET Nat /\ same # {}
    BY <1>0
  <2> HIDE DEF same
  <2>2. m \in same /\ \A j \in same : m <= j
    BY <2>1, LeastPlace
  <2> HIDE DEF m
  <2>3. m \in 1 .. Len(bags) /\ bags[m].cert = bags[i].cert
    BY <1>0, <2>2 DEF same
  <2>4. \A j \in 1 .. m - 1 : bags[j].cert # bags[m].cert
    BY <1>0, <2>2, <2>3 DEF same
  <2> QED
    BY <1>0, <2>3, <2>4 DEF FirstPlaces
<1> HIDE DEF once
<1>4. CertsOfBags(bags) \subseteq CertsOfBags(once)
  <2> SUFFICES ASSUME NEW c \in CertsOfBags(bags) PROVE c \in CertsOfBags(once)
    OBVIOUS
  <2>1. PICK i \in DOMAIN bags : c = bags[i].cert
    BY DEF CertsOfBags, Files!RangeOf
  <2>2. PICK j \in FirstPlaces(bags) : bags[j].cert = bags[i].cert
    BY <1>3
  <2>3. bags[j] \in Files!RangeOf(once)
    BY <1>2
  <2> QED
    BY <2>1, <2>2, <2>3 DEF CertsOfBags
<1>5. CertsOfBags(once) \subseteq CertsOfBags(bags)
  <2>1. Files!RangeOf(once) \subseteq Files!RangeOf(bags)
    BY <1>0, <1>2 DEF Files!RangeOf
  <2> QED
    BY <2>1 DEF CertsOfBags
<1> QED
  BY <1>2, <1>4, <1>5 DEF once

-----------------------------------------------------------------------------
\* The chain as it grows.
IsGrowing(N, leaf, certs, Certs) ==
    /\ N \in [0 .. Len(certs) -> Seq(Certs) \ {<<>>}]
    /\ N[0] = <<leaf>>
    /\ \A i \in 1 .. Len(certs) :
          N[i] = IF Files!IssuerPlaces(N[i - 1], certs) = {} THEN N[i - 1]
                 ELSE Append(N[i - 1], certs[Files!Min(Files!IssuerPlaces(N[i - 1], certs))])
    /\ Files!FollowIssuers(leaf, certs) = N[Len(certs)]

LEMMA IssuerPlace ==
    ASSUME NEW Certs, NEW certs \in Seq(Certs), NEW chain, Files!IssuerPlaces(chain, certs) # {}
    PROVE  /\ Files!Min(Files!IssuerPlaces(chain, certs)) \in Files!IssuerPlaces(chain, certs)
           /\ Files!IssuerPlaces(chain, certs) \subseteq 1 .. Len(certs)
<1> DEFINE S == Files!IssuerPlaces(chain, certs)
<1>1. S \subseteq 1 .. Len(certs) /\ Len(certs) \in Nat
  BY DEF Files!IssuerPlaces
<1> HIDE DEF S
<1>2. S \in SUBSET Nat /\ S # {}
  BY <1>1 DEF S
<1>3. Files!Min(S) \in S
  BY <1>2, LeastPlace
<1> QED
  BY <1>1, <1>3 DEF S

LEMMA GrowingSteps ==
    ASSUME NEW Certs, NEW certs \in Seq(Certs), NEW leaf \in Certs
    PROVE  \E N : IsGrowing(N, leaf, certs, Certs)
<1> DEFINE n == Len(certs)
           X == Seq(Certs) \ {<<>>}
           places(chain) == Files!IssuerPlaces(chain, certs)
           Grown(chain) == IF places(chain) = {} THEN chain ELSE Append(chain, certs[Files!Min(places(chain))])
           Step == [x \in Nat \X X |-> Grown(x[2])]
<1>0. n \in Nat /\ <<leaf>> \in X
  OBVIOUS
<1>1. \A chain \in X : Grown(chain) \in X
  <2> SUFFICES ASSUME NEW chain \in X, places(chain) # {}
               PROVE  Append(chain, certs[Files!Min(places(chain))]) \in X
    OBVIOUS
  <2> DEFINE c == certs[Files!Min(places(chain))]
  <2>1. c \in Certs
    <3>1. Files!Min(places(chain)) \in 1 .. n
      BY IssuerPlace
    <3> QED
      BY <3>1
  <2> HIDE DEF c
  <2>2. Append(chain, c) \in Seq(Certs) /\ Append(chain, c) # <<>>
    BY <2>1, AppendProperties
  <2> QED
    BY <2>2 DEF c
<1> HIDE DEF Grown, X
<1>2. Step \in [Nat \X X -> X]
  BY <1>1
<1>3. PICK N \in [0 .. n -> X] : IsRecursion(N, <<leaf>>, Step, n)
  <2> HIDE DEF Step
  <2> QED BY <1>0, <1>2, RecursionUpTo
<1>4. \A i \in 1 .. n : N[i] = Grown(N[i - 1])
  <2> SUFFICES ASSUME NEW i \in 1 .. n PROVE N[i] = Grown(N[i - 1])
    OBVIOUS
  <2>0. i \in Nat /\ i - 1 \in 0 .. n
    BY <1>0
  <2>1. N[i - 1] \in X
    BY <1>3, <2>0
  <2>2. N[i] = Step[<<i, N[i - 1]>>]
    BY <1>3 DEF IsRecursion
  <2> DEFINE prev == N[i - 1]
  <2>3. Step[<<i, prev>>] = Grown(prev)
    <3>1. <<i, prev>>[2] = prev /\ <<i, prev>> \in Nat \X X
      BY <2>0, <2>1
    <3> HIDE DEF prev
    <3> QED
      BY <3>1
  <2> HIDE DEF Step
  <2> QED
    BY <2>2, <2>3
<1>5. N[0] = <<leaf>>
  BY <1>3 DEF IsRecursion
<1> HIDE DEF Step
<1>6. N = [i \in 0 .. n |-> IF i = 0 THEN <<leaf>> ELSE Grown(N[i - 1])]
  <2>1. ASSUME NEW i \in 0 .. n
        PROVE  N[i] = IF i = 0 THEN <<leaf>> ELSE Grown(N[i - 1])
    <3>1. CASE i = 0
      BY <1>5, <3>1
    <3>2. CASE i \in 1 .. n
      BY <1>0, <1>4, <3>2
    <3> QED
      BY <1>0, <3>1, <3>2
  <2>2. N = [i \in 0 .. n |-> N[i]]
    BY <1>3
  <2> QED
    BY <2>1, <2>2
<1> DEFINE K == CHOOSE K : K = [i \in 0 .. n |-> IF i = 0 THEN <<leaf>> ELSE Grown(K[i - 1])]
<1>7. K = [i \in 0 .. n |-> IF i = 0 THEN <<leaf>> ELSE Grown(K[i - 1])]
  BY Zenon, <1>6
<1> HIDE DEF K
<1>8. \A i \in 0 .. n : K[i] = IF i = 0 THEN <<leaf>> ELSE Grown(K[i - 1])
  BY Zenon, <1>7
<1> DEFINE T == {i \in 0 .. n : K[i] = N[i]}
<1>9. 0 .. n \subseteq T
  <2>1. 0 \in T
    BY <1>0, <1>5, <1>8
  <2>2. ASSUME NEW i \in 1 .. n, i - 1 \in T PROVE i \in T
    <3>1. K[i - 1] = N[i - 1] /\ i \in 0 .. n /\ i # 0
      BY <1>0, <2>2
    <3>2. K[i] = Grown(K[i - 1])
      BY <1>8, <3>1
    <3>3. N[i] = Grown(N[i - 1])
      BY <1>4
    <3> QED
      BY <3>1, <3>2, <3>3
  <2> HIDE DEF T
  <2> QED
    BY <1>0, <2>1, <2>2, InductionUpTo
<1>10. Files!FollowIssuers(leaf, certs) = K[n]
  BY Zenon DEF Files!FollowIssuers, K, Grown
<1>11. K[n] = N[n]
  BY <1>0, <1>9
<1> QED
  BY <1>3, <1>4, <1>5, <1>10, <1>11 DEF IsGrowing, X, Grown

\* A chain a reader can build again: each next certificate is the only one
\* there is, among all, that the one before names as its issuer and that is
\* not in the chain yet.
Follows(chain, all) ==
    \A j \in 1 .. Len(chain) - 1 :
        /\ chain[j].subject # chain[j].issuer
        /\ \A d \in all :
              (d.subject = chain[j].issuer /\ d \notin {chain[i] : i \in 1 .. j}) <=> d = chain[j + 1]

\* So far, the chain or as much of it as there has been time for.
Regained(grown, chain, i) ==
    IF i + 1 <= Len(chain) THEN grown = SubSeq(chain, 1, i + 1)
    ELSE Len(chain) <= Len(grown) /\ \A j \in 1 .. Len(chain) : grown[j] = chain[j]

LEMMA RegainsMore ==
    ASSUME NEW Certs, NEW certs \in Seq(Certs), NEW chain \in Seq(Certs) \ {<<>>}, NEW leaf, NEW N,
           NEW i \in 1 .. Len(certs),
           IsGrowing(N, leaf, certs, Certs),
           Files!RangeOf(chain) \subseteq Files!RangeOf(certs),
           Follows(chain, Files!RangeOf(certs)), Regained(N[i - 1], chain, i - 1)
    PROVE  Regained(N[i], chain, i)
<1> DEFINE m == Len(chain)
           prev == N[i - 1]
           places == Files!IssuerPlaces(prev, certs)
           next == certs[Files!Min(places)]
<1>0. /\ m \in Nat /\ m # 0 /\ Len(certs) \in Nat /\ i \in Nat
      /\ \A j \in 1 .. m : chain[j] \in Certs
      /\ DOMAIN certs = 1 .. Len(certs) /\ DOMAIN chain = 1 .. m
  BY EmptySeq
<1>1. prev \in Seq(Certs) /\ prev # <<>>
  <2>1. i - 1 \in 0 .. Len(certs)
    BY <1>0
  <2>2. N[i - 1] \in Seq(Certs) \ {<<>>}
    BY <2>1 DEF IsGrowing
  <2> QED
    BY <2>2
<1>2. N[i] = IF places = {} THEN prev ELSE Append(prev, next)
  BY DEF IsGrowing
<1>3. places # {} => next \in Certs /\ Files!Min(places) \in places /\ Files!Min(places) \in 1 .. Len(certs)
  <2> SUFFICES ASSUME places # {} PROVE next \in Certs /\ Files!Min(places) \in places /\ Files!Min(places) \in 1 .. Len(certs)
    OBVIOUS
  <2>1. Files!Min(places) \in places /\ Files!Min(places) \in 1 .. Len(certs)
    BY IssuerPlace
  <2> QED
    BY <2>1
<1>4. CASE i + 1 <= m
  <2>1. prev = SubSeq(chain, 1, i)
    BY <1>0, <1>4 DEF Regained
  <2>2. Len(prev) = i /\ \A j \in 1 .. i : prev[j] = chain[j]
    BY <1>0, <1>4, <2>1
  <2> HIDE DEF prev
  <2>3. Files!RangeOf(prev) = {chain[j] : j \in 1 .. i}
    BY <1>1, <2>2 DEF Files!RangeOf
  <2>4. i \in 1 .. m - 1 /\ i + 1 \in 1 .. m /\ prev[Len(prev)] = chain[i]
    BY <1>0, <1>4, <2>2
  <2>5. \A q \in DOMAIN certs : q \in places <=> certs[q] = chain[i + 1]
    <3> SUFFICES ASSUME NEW q \in DOMAIN certs PROVE q \in places <=> certs[q] = chain[i + 1]
      OBVIOUS
    <3>1. certs[q] \in Files!RangeOf(certs)
      BY DEF Files!RangeOf
    <3>2. q \in places <=> /\ chain[i].subject # chain[i].issuer
                           /\ certs[q].subject = chain[i].issuer
                           /\ certs[q] \notin {chain[j] : j \in 1 .. i}
      BY <2>3, <2>4 DEF Files!IssuerPlaces
    <3>3. /\ chain[i].subject # chain[i].issuer
          /\ (certs[q].subject = chain[i].issuer /\ certs[q] \notin {chain[j] : j \in 1 .. i})
                <=> certs[q] = chain[i + 1]
      BY <2>4, <3>1 DEF Follows
    <3> QED
      BY <3>2, <3>3
  <2>6. \E q \in DOMAIN certs : certs[q] = chain[i + 1]
    BY <1>0, <2>4 DEF Files!RangeOf
  <2>7. places # {}
    BY <2>5, <2>6
  <2>8. next = chain[i + 1]
    BY <1>0, <1>3, <2>5, <2>7
  <2> HIDE DEF places, next
  <2>9. N[i] = Append(prev, chain[i + 1])
    BY <1>2, <2>7, <2>8
  <2>10. Append(SubSeq(chain, 1, i), chain[i + 1]) = SubSeq(chain, 1, i + 1)
    BY <1>0, <1>4
  <2> QED
    BY <1>4, <2>1, <2>9, <2>10 DEF Regained
<1>5. CASE ~ (i + 1 <= m)
  <2>1. m <= Len(prev) /\ \A j \in 1 .. m : prev[j] = chain[j]
    <3>1. CASE i = m
      <4>1. prev = SubSeq(chain, 1, m)
        BY <1>0, <3>1 DEF Regained
      <4>2. SubSeq(chain, 1, m) = chain
        BY <1>0
      <4> HIDE DEF prev
      <4> QED
        BY <1>0, <4>1, <4>2
    <3>2. CASE i # m
      <4>1. ~ ((i - 1) + 1 <= m)
        <5>1. m \in Nat /\ i \in Nat
          BY <1>0
        <5> HIDE DEF m
        <5> QED
          BY <1>5, <3>2, <5>1
      <4> HIDE DEF prev
      <4>2. Regained(prev, chain, i - 1)
        BY DEF prev
      <4> QED
        BY <4>1, <4>2 DEF Regained
    <3> QED
      BY <3>1, <3>2
  <2> HIDE DEF prev, places, next
  <2>2. CASE places = {}
    BY <1>2, <1>5, <2>1, <2>2 DEF Regained
  <2>3. CASE places # {}
    <3> DEFINE longer == Append(prev, next)
    <3>1. Len(longer) = Len(prev) + 1 /\ Len(prev) \in Nat /\ \A j \in 1 .. Len(prev) : longer[j] = prev[j]
      BY <1>1, <1>3, <2>3, AppendProperties
    <3>2. N[i] = longer
      BY <1>2, <2>3
    <3> HIDE DEF longer
    <3>3. m <= Len(longer) /\ \A j \in 1 .. m : longer[j] = chain[j]
      BY <1>0, <2>1, <3>1
    <3> QED
      BY <1>5, <3>2, <3>3 DEF Regained
  <2> QED
    BY <2>2, <2>3
<1> QED
  BY <1>4, <1>5

\* A chain has no more certificates than there are.
LEMMA ChainIsNoLonger ==
    ASSUME NEW Certs, NEW certs \in Seq(Certs), NEW chain \in Seq(Certs),
           Files!RangeOf(chain) \subseteq Files!RangeOf(certs), Follows(chain, Files!RangeOf(certs))
    PROVE  Len(chain) <= Len(certs)
<1> DEFINE m == Len(chain)
           n == Len(certs)
           f == [j \in 1 .. m |-> CHOOSE q \in 1 .. n : certs[q] = chain[j]]
<1>0. m \in Nat /\ n \in Nat /\ DOMAIN certs = 1 .. n /\ DOMAIN chain = 1 .. m
  OBVIOUS
<1>1. \A j \in 1 .. m : \E q \in 1 .. n : certs[q] = chain[j]
  BY <1>0 DEF Files!RangeOf
<1>2. \A j \in 1 .. m : f[j] \in 1 .. n /\ certs[f[j]] = chain[j]
  BY <1>1
<1>3. f \in [1 .. m -> 1 .. n]
  BY <1>2
<1> HIDE DEF f
<1>4. ASSUME NEW j \in 1 .. m, NEW k \in 1 .. m, j < k PROVE chain[j] # chain[k]
  <2>1. k - 1 \in 1 .. m - 1 /\ j \in 1 .. k - 1 /\ (k - 1) + 1 = k
    BY <1>0, <1>4
  <2>2. chain[k] \in Files!RangeOf(certs)
    BY <1>0 DEF Files!RangeOf
  <2>3. chain[k] \notin {chain[i] : i \in 1 .. k - 1}
    BY <2>1, <2>2 DEF Follows
  <2> QED
    BY <2>1, <2>3
<1>5. \A j, k \in 1 .. m : f[j] = f[k] => j = k
  <2> SUFFICES ASSUME NEW j \in 1 .. m, NEW k \in 1 .. m, f[j] = f[k], j # k PROVE FALSE
    OBVIOUS
  <2>1. chain[j] = chain[k]
    BY <1>2
  <2>2. j < k \/ k < j
    BY <1>0
  <2> QED
    BY <1>4, <2>1, <2>2
<1>6. f \in Injection(1 .. m, 1 .. n)
  BY <1>3, <1>5 DEF Injection, IsInjective
<1>7. IsFiniteSet(1 .. n) /\ Cardinality(1 .. n) = n /\ Cardinality(1 .. m) = m
  <2>1. \A k \in Nat : IsFiniteSet(1 .. k) /\ Cardinality(1 .. k) = IF 1 > k THEN 0 ELSE k - 1 + 1
    BY FS_Interval
  <2>2. \A k \in Nat : Cardinality(1 .. k) = k
    BY <2>1
  <2> QED
    BY <1>0, <2>1, <2>2
<1>8. Cardinality(1 .. m) <= Cardinality(1 .. n)
  BY <1>6, <1>7, FS_Injection
<1> QED
  BY <1>7, <1>8

\* What the issuers add is among the certificates, after the leaf; and a chain
\* that can be followed is what they begin with.
LEMMA FollowedChain ==
    ASSUME NEW Certs, NEW certs \in Seq(Certs), NEW leaf \in Files!RangeOf(certs)
    PROVE  /\ Files!FollowIssuers(leaf, certs) \in Seq(Files!RangeOf(certs))
           /\ \A chain \in Seq(Certs) \ {<<>>} :
                 chain[1] = leaf /\ Files!RangeOf(chain) \subseteq Files!RangeOf(certs)
                 /\ Follows(chain, Files!RangeOf(certs))
                 => IsPrefix(chain, Files!FollowIssuers(leaf, certs))
<1> DEFINE all == Files!RangeOf(certs)
<1>0. Len(certs) \in Nat /\ DOMAIN certs = 1 .. Len(certs)
  OBVIOUS
<1>1. certs \in Seq(all)
  <2>1. \A q \in 1 .. Len(certs) : certs[q] \in all
    BY <1>0 DEF Files!RangeOf
  <2> QED
    BY <1>0, <2>1
<1> HIDE DEF all
<1>2. PICK N : IsGrowing(N, leaf, certs, all)
  BY <1>1, GrowingSteps DEF all
<1>3. Files!FollowIssuers(leaf, certs) = N[Len(certs)] /\ N[Len(certs)] \in Seq(all)
  BY <1>0, <1>2 DEF IsGrowing
<1>4. ASSUME NEW chain \in Seq(Certs) \ {<<>>}, chain[1] = leaf,
             Files!RangeOf(chain) \subseteq all, Follows(chain, all)
      PROVE  IsPrefix(chain, N[Len(certs)])
  <2> DEFINE m == Len(chain)
             T == {i \in 0 .. Len(certs) : Regained(N[i], chain, i)}
  <2>0. m \in Nat /\ m # 0 /\ DOMAIN chain = 1 .. m
    BY EmptySeq
  <2>1. chain \in Seq(all) \ {<<>>}
    <3>1. \A j \in 1 .. m : chain[j] \in all
      BY <1>4, <2>0 DEF Files!RangeOf
    <3> QED
      BY <2>0, <3>1
  <2>2. 0 \in T
    <3>1. SubSeq(chain, 1, 1) = <<leaf>>
      <4> DEFINE t == SubSeq(chain, 1, 1)
                 u == <<leaf>>
      <4>1. t \in Seq(all) /\ Len(t) = 1 /\ t[1] = leaf
        BY <1>4, <2>0, <2>1
      <4>2. u \in Seq(all) /\ Len(u) = 1 /\ u[1] = leaf
        BY DEF all
      <4> HIDE DEF t, u
      <4>3. \A j \in 1 .. Len(t) : t[j] = u[j]
        BY <4>1, <4>2
      <4>4. t = u
        BY <4>1, <4>2, <4>3, SeqEqual
      <4> QED
        BY <4>4 DEF t, u
    <3>2. 0 + 1 <= m /\ 0 + 1 = 1
      BY <2>0
    <3>3. N[0] = <<leaf>>
      BY <1>2 DEF IsGrowing
    <3>4. Regained(<<leaf>>, chain, 0)
      BY <3>1, <3>2 DEF Regained
    <3> QED
      BY <1>0, <3>3, <3>4
  <2>3. ASSUME NEW i \in 1 .. Len(certs), i - 1 \in T PROVE i \in T
    <3>1. Regained(N[i - 1], chain, i - 1) /\ i \in 0 .. Len(certs)
      BY <1>0, <2>3
    <3>2. Regained(N[i], chain, i)
      BY <1>1, <1>2, <1>4, <2>1, <3>1, RegainsMore DEF all
    <3> QED
      BY <3>1, <3>2
  <2> HIDE DEF T
  <2>4. 0 .. Len(certs) \subseteq T
    BY <1>0, <2>2, <2>3, InductionUpTo
  <2>5. Regained(N[Len(certs)], chain, Len(certs))
    BY <1>0, <2>4 DEF T
  <2>6. m <= Len(certs)
    BY <1>4, ChainIsNoLonger DEF all
  <2> DEFINE grown == N[Len(certs)]
  <2>7. grown \in Seq(all)
    BY <1>3
  <2>8. m <= Len(grown) /\ \A j \in 1 .. m : grown[j] = chain[j]
    BY <1>0, <2>0, <2>5, <2>6 DEF Regained
  <2> HIDE DEF grown
  <2>9. SubSeq(chain, 1, m) = SubSeq(grown, 1, m)
    BY <2>0, <2>1, <2>7, <2>8
  <2>10. IsPrefix(chain, grown)
    BY <2>8, <2>9 DEF IsPrefix
  <2> QED
    BY <2>10 DEF grown
<1> QED
  BY <1>3, <1>4 DEF all

\* What a reader makes of a key's certificates is among those of the file.
LEMMA BuiltChain ==
    ASSUME NEW Bags, NEW bags \in Seq(Bags), NEW key, NEW id
    PROVE  Files!BuildChain(key, id, bags) \in Seq(CertsOfBags(bags))
<1> DEFINE certs == [i \in DOMAIN bags |-> bags[i].cert]
           tied == {i \in DOMAIN bags : id # None /\ bags[i].id = id}
           ofKey == {i \in DOMAIN bags : bags[i].cert.key = key}
           leaf == IF tied = {} THEN ofKey ELSE tied
           all == CertsOfBags(bags)
<1>0. DOMAIN bags = 1 .. Len(bags) /\ Len(bags) \in Nat
  OBVIOUS
<1>1. \A i \in 1 .. Len(bags) : bags[i].cert \in all
  BY <1>0 DEF CertsOfBags, Files!RangeOf
<1>2. certs \in Seq(all) /\ Len(certs) = Len(bags)
  BY <1>0, <1>1
<1>3. Files!RangeOf(certs) = all
  BY <1>0 DEF CertsOfBags, Files!RangeOf
<1>4. leaf \in SUBSET Nat /\ leaf \subseteq 1 .. Len(bags)
  BY <1>0
<1>5. Files!BuildChain(key, id, bags)
          = IF leaf = {} THEN certs ELSE Files!FollowIssuers(certs[Files!Min(leaf)], certs)
  BY Zenon DEF Files!BuildChain
<1>6. ASSUME leaf # {} PROVE certs[Files!Min(leaf)] \in Files!RangeOf(certs)
  <2>0. DOMAIN certs = 1 .. Len(bags)
    BY <1>0
  <2> HIDE DEF leaf, certs
  <2>1. Files!Min(leaf) \in leaf
    BY <1>4, <1>6, LeastPlace
  <2>2. Files!Min(leaf) \in DOMAIN certs
    BY <1>4, <2>0, <2>1
  <2> QED
    BY <2>2 DEF Files!RangeOf
<1> HIDE DEF leaf, certs, all
<1>7. ASSUME leaf # {} PROVE Files!FollowIssuers(certs[Files!Min(leaf)], certs) \in Seq(all)
  BY <1>2, <1>3, <1>6, <1>7, FollowedChain
<1>8. Files!BuildChain(key, id, bags) \in Seq(all)
  BY <1>2, <1>5, <1>7
<1> QED
  BY <1>8 DEF all

\* The first certificate of a key, before which none is tied to it.
TiedFirst(bags, id, cert) ==
    \E q \in DOMAIN bags :
        /\ bags[q].id = id /\ bags[q].cert = cert
        /\ \A r \in 1 .. q - 1 : bags[r].id # id

LEMMA RebuiltChain ==
    ASSUME NEW Bags, NEW bags \in Seq(Bags), NEW key, NEW id, NEW Certs, NEW chain \in Seq(Certs) \ {<<>>},
           id # None, CertsOfBags(bags) \subseteq Certs, TiedFirst(bags, id, chain[1]),
           Files!RangeOf(chain) \subseteq CertsOfBags(bags), Follows(chain, CertsOfBags(bags))
    PROVE  IsPrefix(chain, Files!BuildChain(key, id, bags))
<1> DEFINE certs == [i \in DOMAIN bags |-> bags[i].cert]
           tied == {i \in DOMAIN bags : id # None /\ bags[i].id = id}
           ofKey == {i \in DOMAIN bags : bags[i].cert.key = key}
           leaf == IF tied = {} THEN ofKey ELSE tied
<1>0. DOMAIN bags = 1 .. Len(bags) /\ Len(bags) \in Nat
  OBVIOUS
<1>1. PICK q \in DOMAIN bags :
         /\ bags[q].id = id /\ bags[q].cert = chain[1]
         /\ \A r \in 1 .. q - 1 : bags[r].id # id
  BY DEF TiedFirst
<1>2. tied # {} /\ tied \in SUBSET Nat /\ q \in tied
  BY <1>0, <1>1
<1>3. Files!Min(tied) = q
  <2> DEFINE least == Files!Min(tied)
  <2>1. least \in tied /\ \A j \in tied : least <= j
    BY <1>2, LeastPlace
  <2> HIDE DEF least
  <2>2. least <= q /\ least \in 1 .. Len(bags) /\ bags[least].id = id /\ q \in 1 .. Len(bags)
    BY <1>0, <1>2, <2>1
  <2>3. ~ (least \in 1 .. q - 1)
    BY <1>1, <2>2
  <2>4. least = q
    BY <1>0, <2>2, <2>3
  <2> QED
    BY <2>4 DEF least
<1>4. \A i \in 1 .. Len(bags) : bags[i].cert \in CertsOfBags(bags)
  BY <1>0 DEF CertsOfBags, Files!RangeOf
<1>5. certs \in Seq(Certs)
  BY <1>0, <1>4
<1>6. Files!RangeOf(certs) = CertsOfBags(bags)
  BY <1>0 DEF CertsOfBags, Files!RangeOf
<1>7. Files!BuildChain(key, id, bags)
          = IF leaf = {} THEN certs ELSE Files!FollowIssuers(certs[Files!Min(leaf)], certs)
  BY Zenon DEF Files!BuildChain
<1>8. leaf = tied /\ certs[q] = chain[1]
  BY <1>1, <1>2
<1>9. chain[1] \in Files!RangeOf(certs)
  BY <1>0, <1>1, <1>8 DEF Files!RangeOf
<1> HIDE DEF leaf, certs, tied
<1>10. Files!BuildChain(key, id, bags) = Files!FollowIssuers(chain[1], certs)
  BY <1>2, <1>3, <1>7, <1>8
<1>11. IsPrefix(chain, Files!FollowIssuers(chain[1], certs))
  BY <1>5, <1>6, <1>9, FollowedChain
<1> QED
  BY <1>10, <1>11

-----------------------------------------------------------------------------
\* A store, of certificates of the set.
IsStore(store, Certs) ==
    /\ \E Keys, Bags : store.keys \in Seq(Keys) /\ store.certs \in Seq(Bags)
    /\ \A k \in Files!RangeOf(store.keys) : k.chain \in Seq(Certs)
    /\ \A c \in Files!RangeOf(store.certs) : c.cert \in Certs

\* A store that says which certificates are whose: its keys are named, have
\* identifiers of their own and certificates in no earlier key's chain; and
\* their chains can be followed.
Readable(store) ==
    /\ \A k \in Files!RangeOf(store.keys) :
          /\ k.alias # None /\ Files!LocalKeyId(k) # None
          /\ k.chain # <<>> => Follows(k.chain, AllCerts(store))
    /\ \A i, j \in DOMAIN store.keys :
          i < j /\ store.keys[i].chain # <<>> /\ store.keys[j].chain # <<>> =>
              /\ Files!LocalKeyId(store.keys[i]) # Files!LocalKeyId(store.keys[j])
              /\ store.keys[j].chain[1] \notin Files!RangeOf(store.keys[i].chain)

\* The certificates as they are written, before one that is there twice is
\* left out.
ChainsOf(store) == [i \in DOMAIN store.keys |-> Files!ChainBags(store.keys[i])]
Written(store) == Files!FlattenSeq(ChainsOf(store)) \o Files!StandaloneBags(store.certs)

AnyBag(store) ==
    (UNION {Files!RangeOf(Files!ChainBags(k)) : k \in Files!RangeOf(store.keys)})
    \cup Files!RangeOf(Files!StandaloneBags(store.certs))

LEMMA ChainBagsAre ==
    ASSUME NEW Certs, NEW k, k.chain \in Seq(Certs)
    PROVE  /\ Files!ChainBags(k) \in Seq(Files!RangeOf(Files!ChainBags(k)))
           /\ CertsOfBags(Files!ChainBags(k)) = Files!RangeOf(k.chain)
           /\ Files!ChainBags(k) = <<>> <=> k.chain = <<>>
           /\ k.chain # <<>> =>
                 Files!ChainBags(k)[1] = Files!CertBag(k.alias, Files!LocalKeyId(k), k.chain[1])
           /\ \A b \in Files!RangeOf(Files!ChainBags(k)) :
                 k.chain # <<>> /\ b.cert \in Files!RangeOf(k.chain) /\ b.id \in {None, Files!LocalKeyId(k)}
<1> DEFINE chain == k.chain
           bags == Files!ChainBags(k)
           Bag(i) == IF i = 1 THEN Files!CertBag(k.alias, Files!LocalKeyId(k), k.chain[1])
                     ELSE Files!CertBag(None, None, k.chain[i])
<1>0. DOMAIN chain = 1 .. Len(chain) /\ Len(chain) \in Nat /\ (chain = <<>> <=> Len(chain) = 0)
  BY EmptySeq
<1>1. bags = [i \in 1 .. Len(chain) |-> Bag(i)]
  BY <1>0 DEF Files!ChainBags
<1>2. \A i \in 1 .. Len(chain) : Bag(i).cert = chain[i] /\ Bag(i).id \in {None, Files!LocalKeyId(k)}
  BY DEF Files!CertBag
<1> HIDE DEF Bag
<1>3. \A i \in 1 .. Len(chain) : bags[i] = Bag(i)
  BY <1>1
<1>4. DOMAIN bags = 1 .. Len(chain)
  BY <1>1
<1> HIDE DEF bags, chain
<1>5. bags \in Seq(Files!RangeOf(bags)) /\ Len(bags) = Len(chain)
  <2>1. \A i \in 1 .. Len(chain) : Bag(i) \in Files!RangeOf(bags)
    BY <1>3, <1>4 DEF Files!RangeOf
  <2> QED
    BY <1>0, <1>1, <2>1
<1>6. CertsOfBags(bags) = Files!RangeOf(chain)
  BY <1>0, <1>2, <1>3, <1>4 DEF CertsOfBags, Files!RangeOf
<1>7. bags = <<>> <=> chain = <<>>
  BY <1>0, <1>5, EmptySeq
<1>8. chain # <<>> => bags[1] = Bag(1)
  BY <1>0, <1>3
<1>9. Bag(1) = Files!CertBag(k.alias, Files!LocalKeyId(k), k.chain[1])
  BY DEF Bag
<1>10. \A b \in Files!RangeOf(bags) :
          chain # <<>> /\ b.cert \in Files!RangeOf(chain) /\ b.id \in {None, Files!LocalKeyId(k)}
  BY <1>0, <1>2, <1>3, <1>4 DEF Files!RangeOf
<1> QED
  BY <1>5, <1>6, <1>7, <1>8, <1>9, <1>10 DEF bags, chain

LEMMA StandaloneBagsAre ==
    ASSUME NEW Bags, NEW certs \in Seq(Bags)
    PROVE  /\ Files!StandaloneBags(certs) \in Seq(Files!RangeOf(Files!StandaloneBags(certs)))
           /\ CertsOfBags(Files!StandaloneBags(certs)) = CertsOfBags(certs)
<1> DEFINE bags == Files!StandaloneBags(certs)
           Bag(i) == Files!CertBag(certs[i].alias, IF certs[i].alias = None THEN None ELSE certs[i].id, certs[i].cert)
<1>0. DOMAIN certs = 1 .. Len(certs) /\ Len(certs) \in Nat
  OBVIOUS
<1>1. bags = [i \in 1 .. Len(certs) |-> Bag(i)]
  BY <1>0 DEF Files!StandaloneBags
<1>2. \A i \in 1 .. Len(certs) : Bag(i).cert = certs[i].cert
  BY DEF Files!CertBag
<1> HIDE DEF Bag
<1>3. \A i \in 1 .. Len(certs) : bags[i] = Bag(i)
  BY <1>1
<1>4. DOMAIN bags = 1 .. Len(certs)
  BY <1>1
<1> HIDE DEF bags
<1>5. bags \in Seq(Files!RangeOf(bags))
  <2>1. \A i \in 1 .. Len(certs) : Bag(i) \in Files!RangeOf(bags)
    BY <1>3, <1>4 DEF Files!RangeOf
  <2> QED
    BY <1>0, <1>1, <2>1
<1>6. CertsOfBags(bags) = CertsOfBags(certs)
  BY <1>0, <1>2, <1>3, <1>4 DEF CertsOfBags, Files!RangeOf
<1> QED
  BY <1>5, <1>6 DEF bags

\* What is written are the store's certificates.
LEMMA WrittenIsAll ==
    ASSUME NEW Certs, NEW store, IsStore(store, Certs)
    PROVE  /\ Written(store) \in Seq(AnyBag(store))
           /\ CertsOfBags(Written(store)) = AllCerts(store)
           /\ ChainsOf(store) \in Seq(Seq(AnyBag(store)))
           /\ Files!FlattenSeq(ChainsOf(store)) \in Seq(AnyBag(store))
           /\ Files!StandaloneBags(store.certs) \in Seq(AnyBag(store))
           /\ AllCerts(store) \subseteq Certs
<1> DEFINE S == AnyBag(store)
           alone == Files!StandaloneBags(store.certs)
           chains == ChainsOf(store)
           flat == Files!FlattenSeq(chains)
<1>1. PICK Keys, Bags : store.keys \in Seq(Keys) /\ store.certs \in Seq(Bags)
  BY DEF IsStore
<1>2. DOMAIN store.keys = 1 .. Len(store.keys) /\ Len(store.keys) \in Nat
  BY <1>1
<1>3. \A i \in DOMAIN store.keys : store.keys[i] \in Files!RangeOf(store.keys)
  BY DEF Files!RangeOf
<1>4. ASSUME NEW k \in Files!RangeOf(store.keys)
      PROVE  Files!ChainBags(k) \in Seq(S) /\ CertsOfBags(Files!ChainBags(k)) = Files!RangeOf(k.chain)
  <2>1. k.chain \in Seq(Certs)
    BY DEF IsStore
  <2>2. /\ Files!ChainBags(k) \in Seq(Files!RangeOf(Files!ChainBags(k)))
        /\ CertsOfBags(Files!ChainBags(k)) = Files!RangeOf(k.chain)
    BY <2>1, ChainBagsAre
  <2>3. Files!RangeOf(Files!ChainBags(k)) \subseteq S
    BY DEF AnyBag
  <2> HIDE DEF S
  <2> QED
    BY <2>2, <2>3, SeqMonotonic
<1>5. alone \in Seq(S) /\ CertsOfBags(alone) = CertsOfBags(store.certs)
  <2>1. /\ alone \in Seq(Files!RangeOf(alone))
        /\ CertsOfBags(alone) = CertsOfBags(store.certs)
    BY <1>1, StandaloneBagsAre
  <2>2. Files!RangeOf(alone) \subseteq S
    BY DEF AnyBag
  <2> HIDE DEF S, alone
  <2> QED
    BY <2>1, <2>2, SeqMonotonic
<1> HIDE DEF S
<1>6. chains \in Seq(Seq(S)) /\ DOMAIN chains = DOMAIN store.keys
      /\ \A i \in DOMAIN store.keys : chains[i] = Files!ChainBags(store.keys[i])
  BY <1>2, <1>3, <1>4 DEF ChainsOf
<1> HIDE DEF chains, alone
<1>7. flat \in Seq(S) /\ Files!RangeOf(flat) = UNION {Files!RangeOf(s) : s \in Files!RangeOf(chains)}
  BY <1>6, FlattenedHolds
<1> HIDE DEF flat
<1>8. flat \o alone \in Seq(S)
  BY <1>5, <1>7
<1>9. Files!RangeOf(flat \o alone) = Files!RangeOf(flat) \cup Files!RangeOf(alone)
  BY <1>5, <1>7, RangeOfJoined
<1>10. CertsOfBags(flat \o alone) = CertsOfBags(flat) \cup CertsOfBags(alone)
  BY <1>9 DEF CertsOfBags
<1>11. CertsOfBags(flat) = UNION {Files!RangeOf(k.chain) : k \in Files!RangeOf(store.keys)}
  <2>1. ASSUME NEW c \in CertsOfBags(flat)
        PROVE  \E k \in Files!RangeOf(store.keys) : c \in Files!RangeOf(k.chain)
    <3>1. PICK b \in Files!RangeOf(flat) : c = b.cert
      BY DEF CertsOfBags
    <3>2. PICK i \in DOMAIN chains : b \in Files!RangeOf(chains[i])
      <4>1. PICK s \in Files!RangeOf(chains) : b \in Files!RangeOf(s)
        BY <1>7, <3>1
      <4>2. PICK i \in DOMAIN chains : s = chains[i]
        BY DEF Files!RangeOf
      <4> QED
        BY <4>1, <4>2
    <3> DEFINE k == store.keys[i]
    <3>3. k \in Files!RangeOf(store.keys) /\ b \in Files!RangeOf(Files!ChainBags(k))
      BY <1>3, <1>6, <3>2
    <3> HIDE DEF k
    <3>4. c \in CertsOfBags(Files!ChainBags(k))
      BY <3>1, <3>3 DEF CertsOfBags
    <3> QED
      BY <1>4, <3>3, <3>4
  <2>2. ASSUME NEW k \in Files!RangeOf(store.keys), NEW c \in Files!RangeOf(k.chain)
        PROVE  c \in CertsOfBags(flat)
    <3>1. PICK i \in DOMAIN store.keys : k = store.keys[i]
      BY DEF Files!RangeOf
    <3>2. c \in CertsOfBags(Files!ChainBags(k))
      BY <1>4
    <3>3. PICK b \in Files!RangeOf(Files!ChainBags(k)) : c = b.cert
      BY <3>2 DEF CertsOfBags
    <3>4. chains[i] \in Files!RangeOf(chains) /\ chains[i] = Files!ChainBags(k)
      BY <1>6, <3>1 DEF Files!RangeOf
    <3>5. b \in Files!RangeOf(flat)
      BY <1>7, <3>3, <3>4
    <3> QED
      BY <3>3, <3>5 DEF CertsOfBags
  <2> QED
    BY <2>1, <2>2
<1>12. AllCerts(store) = CertsOfBags(store.certs) \cup UNION {Files!RangeOf(k.chain) : k \in Files!RangeOf(store.keys)}
  BY DEF AllCerts, CertsOfBags
<1>13. AllCerts(store) \subseteq Certs
  <2>1. CertsOfBags(store.certs) \subseteq Certs
    BY DEF IsStore, CertsOfBags
  <2>2. ASSUME NEW k \in Files!RangeOf(store.keys) PROVE Files!RangeOf(k.chain) \subseteq Certs
    <3>1. k.chain \in Seq(Certs)
      BY DEF IsStore
    <3> QED
      BY <3>1 DEF Files!RangeOf
  <2> QED
    BY <1>12, <2>1, <2>2
<1> QED
  BY <1>5, <1>6, <1>7, <1>8, <1>10, <1>11, <1>12, <1>13 DEF Written, S, chains, alone, flat

-----------------------------------------------------------------------------
(* A PKCS#12 file, read as it was written. *)

\* The certificate of a key stays before all that have its identifier.
LEMMA LeafIsFirst ==
    ASSUME NEW Certs, NEW store, NEW k \in DOMAIN store.keys,
           IsStore(store, Certs), Readable(store), store.keys[k].chain # <<>>
    PROVE  TiedFirst(Files!OncePerCertificate(Written(store)),
                     Files!LocalKeyId(store.keys[k]), store.keys[k].chain[1])
<1> DEFINE keys == store.keys
           id == Files!LocalKeyId(keys[k])
           cert == keys[k].chain[1]
           chains == ChainsOf(store)
           S == AnyBag(store)
           bags == Written(store)
           once == Files!OncePerCertificate(bags)
<1>0. /\ chains \in Seq(Seq(S)) /\ bags \in Seq(S)
      /\ Files!FlattenSeq(chains) \in Seq(S) /\ Files!StandaloneBags(store.certs) \in Seq(S)
      /\ DOMAIN chains = DOMAIN keys
      /\ \A i \in DOMAIN keys : chains[i] = Files!ChainBags(keys[i]) /\ keys[i] \in Files!RangeOf(keys)
  <2>1. DOMAIN chains = DOMAIN keys /\ \A i \in DOMAIN keys : chains[i] = Files!ChainBags(keys[i])
    BY DEF ChainsOf
  <2>2. \A i \in DOMAIN keys : keys[i] \in Files!RangeOf(keys)
    BY DEF Files!RangeOf
  <2>3. /\ chains \in Seq(Seq(S)) /\ bags \in Seq(S)
        /\ Files!FlattenSeq(chains) \in Seq(S) /\ Files!StandaloneBags(store.certs) \in Seq(S)
    BY WrittenIsAll
  <2> QED
    BY <2>1, <2>2, <2>3
<1>1. ASSUME NEW i \in DOMAIN keys
      PROVE  /\ keys[i].chain # <<>> =>
                   chains[i] # <<>>
                   /\ chains[i][1] = Files!CertBag(keys[i].alias, Files!LocalKeyId(keys[i]), keys[i].chain[1])
             /\ \A b \in Files!RangeOf(chains[i]) :
                   /\ keys[i].chain # <<>> /\ b.cert \in Files!RangeOf(keys[i].chain)
                   /\ b.id \in {None, Files!LocalKeyId(keys[i])}
  <2> DEFINE one == keys[i]
  <2>1. one.chain \in Seq(Certs) /\ chains[i] = Files!ChainBags(one)
    BY <1>0 DEF IsStore
  <2> HIDE DEF one, chains
  <2>2. /\ Files!ChainBags(one) = <<>> <=> one.chain = <<>>
        /\ one.chain # <<>> =>
              Files!ChainBags(one)[1] = Files!CertBag(one.alias, Files!LocalKeyId(one), one.chain[1])
        /\ \A b \in Files!RangeOf(Files!ChainBags(one)) :
              one.chain # <<>> /\ b.cert \in Files!RangeOf(one.chain) /\ b.id \in {None, Files!LocalKeyId(one)}
    BY <2>1, ChainBagsAre
  <2> QED
    BY <2>1, <2>2 DEF one
<1>2. DOMAIN keys \subseteq Nat /\ \A j \in 1 .. k - 1 : j \in DOMAIN keys /\ j < k
  <2>1. PICK Keys : keys \in Seq(Keys)
    BY DEF IsStore
  <2>2. DOMAIN keys = 1 .. Len(keys) /\ Len(keys) \in Nat
    BY <2>1
  <2> QED
    BY <2>2
<1>3. /\ id # None
      /\ \A j \in 1 .. k - 1 : keys[j].chain # <<>> =>
            Files!LocalKeyId(keys[j]) # id /\ cert \notin Files!RangeOf(keys[j].chain)
  BY <1>0, <1>2 DEF Readable
<1> DEFINE flat == Files!FlattenSeq(chains)
           alone == Files!StandaloneBags(store.certs)
<1>4. ComesAfter(bags, chains, k)
  <2>1. chains[k] # <<>>
    BY <1>1
  <2> HIDE DEF chains, S
  <2>2. ComesAfter(flat, chains, k)
    BY <1>0, <2>1, JoinedInOrder
  <2>3. bags = flat \o alone
    BY DEF Written, chains
  <2>4. flat \in Seq(S) /\ alone \in Seq(S)
    BY <1>0
  <2> HIDE DEF flat, alone, bags
  <2>5. ComesAfter(flat \o alone, chains, k)
    BY <2>2, <2>4, ComesAfterStill
  <2> QED
    BY <2>3, <2>5
<1>5. PICK p \in 1 .. Len(bags) :
         /\ bags[p] = chains[k][1]
         /\ \A r \in 1 .. p - 1 : \E j \in 1 .. k - 1 : bags[r] \in Files!RangeOf(chains[j])
  BY <1>4 DEF ComesAfter
<1>6. bags[p].cert = cert /\ bags[p].id = id
  <2>1. chains[k][1] = Files!CertBag(keys[k].alias, id, cert)
    BY <1>1
  <2>2. bags[p] = Files!CertBag(keys[k].alias, id, cert)
    BY <1>5, <2>1
  <2> HIDE DEF bags, id, cert
  <2> QED
    BY <2>2 DEF Files!CertBag
<1> HIDE DEF bags, chains, id, cert, S
<1>7. \A r \in 1 .. p - 1 : bags[r].cert # cert /\ bags[r].id # id
  <2> SUFFICES ASSUME NEW r \in 1 .. p - 1 PROVE bags[r].cert # cert /\ bags[r].id # id
    OBVIOUS
  <2>1. PICK j \in 1 .. k - 1 : bags[r] \in Files!RangeOf(chains[j])
    BY <1>5
  <2>2. /\ keys[j].chain # <<>> /\ bags[r].cert \in Files!RangeOf(keys[j].chain)
        /\ bags[r].id \in {None, Files!LocalKeyId(keys[j])}
    BY <1>1, <1>2, <2>1
  <2> QED
    BY <1>3, <2>2
<1>8. p \in FirstPlaces(bags) /\ FirstPlaces(bags) \subseteq DOMAIN bags /\ DOMAIN bags \subseteq Nat
      /\ \A o \in DOMAIN bags : o < p => o \in 1 .. p - 1
  <2>1. DOMAIN bags = 1 .. Len(bags) /\ Len(bags) \in Nat
    BY <1>0
  <2> QED
    BY <1>6, <1>7, <2>1 DEF FirstPlaces
<1>9. once = Files!Kept(bags, FirstPlaces(bags)) /\ once \in Seq(S)
  <2>1. once = Files!Kept(bags, FirstPlaces(bags))
    BY DEF Files!OncePerCertificate, FirstPlaces
  <2>2. once \in Seq(S)
    BY <1>0, OnceIsAll
  <2> QED
    BY <2>1, <2>2
<1> HIDE DEF once
<1>10. KeptAfter(once, bags, FirstPlaces(bags), p)
  BY <1>0, <1>8, <1>9, KeptInOrder
<1>11. PICK q \in 1 .. Len(once) :
          /\ once[q] = bags[p]
          /\ \A r \in 1 .. q - 1 : \E o \in FirstPlaces(bags) : o < p /\ once[r] = bags[o]
  BY <1>10 DEF KeptAfter
<1>12. \A r \in 1 .. q - 1 : once[r].id # id
  BY <1>7, <1>8, <1>11
<1>13. q \in DOMAIN once
  BY <1>9
<1>14. TiedFirst(once, id, cert)
  BY <1>6, <1>11, <1>12, <1>13 DEF TiedFirst
<1> QED
  BY <1>14 DEF once, bags, id, cert

\* A file whose parts open under the password, and what is read of it then.
PfxOpens(file, password) ==
    /\ file.mac \in {None, password}
    /\ file.certsPassword \in {None, password}
    /\ \A b \in Files!RangeOf(Files!WithAlias(file.keys)) : b.password = password

PfxStore(file) ==
    [keys |-> [i \in DOMAIN Files!WithAlias(file.keys) |->
                  [alias |-> Files!WithAlias(file.keys)[i].alias, id |-> Files!WithAlias(file.keys)[i].id,
                   key |-> Files!WithAlias(file.keys)[i].key,
                   chain |-> Files!BuildChain(Files!WithAlias(file.keys)[i].key,
                                              Files!WithAlias(file.keys)[i].id, file.certs)]],
     certs |-> file.certs]

LEMMA PfxIsRead ==
    ASSUME NEW file, NEW password, PfxOpens(file, password)
    PROVE  Files!ReadPfx(file, password) = PfxStore(file)
BY Zenon DEF Files!ReadPfx, PfxOpens, PfxStore

LEMMA AllKept ==
    ASSUME NEW S, NEW s \in Seq(S), NEW places, places = DOMAIN s
    PROVE  Files!Kept(s, places) = s
<1>1. places = 0 + 1 .. Len(s) /\ Len(s) \in Nat
  OBVIOUS
<1>2. Files!Kept(s, 0 + 1 .. Len(s)) = SubSeq(s, 0 + 1, Len(s))
  BY <1>1, KeptOfPart
<1>3. SubSeq(s, 0 + 1, Len(s)) = s
  BY <1>1
<1> QED
  BY <1>1, <1>2, <1>3

KeyBag(k, password) ==
    [alias |-> k.alias, id |-> Files!LocalKeyId(k), key |-> k.key, password |-> password]

\* What a file has of a store whose keys have names.
LEMMA WrittenPfx ==
    ASSUME NEW Keys, NEW store, NEW password, store.keys \in Seq(Keys),
           \A k \in Files!RangeOf(store.keys) : k.alias # None
    PROVE  LET file == Files!WritePfx(store, password)
           IN  /\ PfxOpens(file, password)
               /\ Files!WithAlias(file.keys) = [i \in DOMAIN store.keys |-> KeyBag(store.keys[i], password)]
               /\ file.certs = Files!OncePerCertificate(Written(store))
<1> DEFINE file == Files!WritePfx(store, password)
           bags == [i \in DOMAIN store.keys |-> KeyBag(store.keys[i], password)]
<1>0. DOMAIN store.keys = 1 .. Len(store.keys) /\ Len(store.keys) \in Nat
  OBVIOUS
<1>1. file.keys = bags /\ file.mac = password /\ file.certsPassword = None
  BY DEF Files!WritePfx, KeyBag
<1>2. file.certs = Files!OncePerCertificate(Written(store))
  BY DEF Files!WritePfx, Written, ChainsOf
<1>3. \A i \in DOMAIN store.keys : bags[i].alias # None /\ bags[i].password = password
  BY DEF KeyBag, Files!RangeOf
<1>4. bags \in Seq({bags[i] : i \in DOMAIN store.keys}) /\ DOMAIN bags = DOMAIN store.keys
  BY <1>0
<1> HIDE DEF bags, file
<1>5. {i \in DOMAIN bags : bags[i].alias # None} = DOMAIN bags
  BY <1>3, <1>4
<1>6. Files!WithAlias(bags) = bags
  BY <1>4, <1>5, AllKept DEF Files!WithAlias
<1>7. \A b \in Files!RangeOf(bags) : b.password = password
  BY <1>3, <1>4 DEF Files!RangeOf
<1>8. PfxOpens(file, password)
  BY <1>1, <1>6, <1>7 DEF PfxOpens
<1> QED
  BY <1>1, <1>2, <1>6, <1>8 DEF bags, file

\* A PKCS#12 file is read as the store it was written from: its keys, with
\* the certificates of each, and every other certificate (writer.rs, reader.rs).
THEOREM StoreIsReadAgain ==
    ASSUME NEW Certs, NEW store, NEW password, IsStore(store, Certs), Readable(store)
    PROVE  Keeps(Files!ReadPfx(Files!WritePfx(store, password), password), store)
<1> DEFINE file == Files!WritePfx(store, password)
           new == Files!ReadPfx(file, password)
           keys == store.keys
           once == Files!OncePerCertificate(Written(store))
           Built(i) == Files!BuildChain(keys[i].key, Files!LocalKeyId(keys[i]), once)
<1>1. PICK Keys : keys \in Seq(Keys)
  BY DEF IsStore
<1>2. DOMAIN keys = 1 .. Len(keys) /\ Len(keys) \in Nat
  BY <1>1
<1>3. /\ PfxOpens(file, password)
      /\ Files!WithAlias(file.keys) = [i \in DOMAIN keys |-> KeyBag(keys[i], password)]
      /\ file.certs = once
  <2>1. \A k \in Files!RangeOf(keys) : k.alias # None
    BY DEF Readable
  <2> QED
    BY <1>1, <2>1, WrittenPfx
<1>4. new = PfxStore(file)
  BY <1>3, PfxIsRead
<1> HIDE DEF file, new, once
<1>5. /\ new.keys = [i \in DOMAIN keys |-> [alias |-> keys[i].alias, id |-> Files!LocalKeyId(keys[i]),
                                             key |-> keys[i].key, chain |-> Built(i)]]
      /\ new.certs = once
  BY <1>3, <1>4 DEF PfxStore, KeyBag
<1>6. /\ Written(store) \in Seq(AnyBag(store)) /\ once \in Seq(AnyBag(store))
      /\ CertsOfBags(once) = AllCerts(store)
      /\ AllCerts(store) \subseteq Certs
  <2>1. Written(store) \in Seq(AnyBag(store)) /\ CertsOfBags(Written(store)) = AllCerts(store)
        /\ AllCerts(store) \subseteq Certs
    BY WrittenIsAll
  <2>2. once \in Seq(AnyBag(store)) /\ CertsOfBags(once) = CertsOfBags(Written(store))
    BY <2>1, OnceIsAll DEF once
  <2> QED
    BY <2>1, <2>2
<1>7. \A i \in DOMAIN keys : Built(i) \in Seq(AllCerts(store))
  BY <1>6, BuiltChain
<1>8. ASSUME NEW i \in DOMAIN keys PROVE IsPrefix(keys[i].chain, Built(i))
  <2> DEFINE chain == keys[i].chain
             built == Built(i)
             id == Files!LocalKeyId(keys[i])
  <2>1. chain \in Seq(Certs) /\ id # None /\ keys[i] \in Files!RangeOf(keys)
        /\ (chain # <<>> => Follows(chain, AllCerts(store)))
    BY DEF Files!RangeOf, IsStore, Readable
  <2>2. CASE chain = <<>>
    <3>1. built \in Seq(AllCerts(store))
      BY <1>7
    <3> HIDE DEF built
    <3>2. Len(chain) = 0 /\ Len(chain) <= Len(built) /\ SubSeq(chain, 1, 0) = SubSeq(built, 1, 0)
      BY <2>2, <3>1
    <3> QED
      BY <3>2 DEF IsPrefix, built
  <2>3. CASE chain # <<>>
    <3>1. TiedFirst(once, id, chain[1])
      BY <2>3, LeafIsFirst DEF once
    <3>2. Files!RangeOf(chain) \subseteq AllCerts(store)
      BY <2>1 DEF AllCerts
    <3>3. chain \in Seq(Certs) \ {<<>>}
      BY <2>1, <2>3
    <3> HIDE DEF chain, id
    <3>4. IsPrefix(chain, Files!BuildChain(keys[i].key, id, once))
      BY <1>6, <2>1, <2>3, <3>1, <3>2, <3>3, RebuiltChain
    <3> QED
      BY <3>4 DEF chain, id
  <2> QED
    BY <2>2, <2>3
<1> HIDE DEF Built
<1>9. AllCerts(new) = AllCerts(store)
  <2>1. CertsOfBags(new.certs) = AllCerts(store)
    BY <1>5, <1>6
  <2>2. ASSUME NEW k \in Files!RangeOf(new.keys) PROVE Files!RangeOf(k.chain) \subseteq AllCerts(store)
    <3>1. PICK i \in DOMAIN keys : k.chain = Built(i)
      BY <1>5 DEF Files!RangeOf
    <3>2. k.chain \in Seq(AllCerts(store))
      BY <1>7, <3>1
    <3> QED
      BY <3>2 DEF Files!RangeOf
  <2>3. AllCerts(new) = CertsOfBags(new.certs) \cup UNION {Files!RangeOf(k.chain) : k \in Files!RangeOf(new.keys)}
    BY DEF AllCerts, CertsOfBags
  <2> QED
    BY <2>1, <2>2, <2>3
<1>10. Len(new.keys) = Len(keys)
  BY <1>2, <1>5
<1>11. \A i \in DOMAIN keys : /\ new.keys[i].alias = keys[i].alias
                              /\ new.keys[i].key = keys[i].key
                              /\ new.keys[i].chain = Built(i)
  BY <1>5
<1>12. Keeps(new, store)
  BY <1>8, <1>9, <1>10, <1>11 DEF Keeps
<1> QED
  BY <1>12 DEF new, file

-----------------------------------------------------------------------------
(* A store converted to YTKS-2 and back. *)

\* A certificate that no key of the store has in its chain.
Alone(store) == {i \in DOMAIN store.certs :
                    \A k \in Files!RangeOf(store.keys) : store.certs[i].cert \notin Files!RangeOf(k.chain)}

KeyEntryOf(k) == Files!KeyEntry(k.alias, k.key, k.chain)
TrustedEntryOf(c) == Files!TrustedEntry(IF c.alias = None THEN c.cert.subject ELSE c.alias, c.cert)

\* A store converted has an entry for each key, and then one for each
\* certificate that is in no chain.
Entries(keys, alone) ==
    [i \in DOMAIN keys |-> KeyEntryOf(keys[i])] \o [i \in DOMAIN alone |-> TrustedEntryOf(alone[i])]

LEMMA Converted ==
    ASSUME NEW store
    PROVE  Files!FromPkcs12(store) = Entries(store.keys, Files!Kept(store.certs, Alone(store)))
BY Zenon DEF Files!FromPkcs12, Entries, KeyEntryOf, TrustedEntryOf, Alone

KeyOf(e) == [alias |-> e.alias, id |-> None, key |-> e.key, chain |-> e.certs]
CertOf(e) == Files!CertBag(e.alias, None, e.certs[1])

\* The entries of keys and those of certificates are told apart again.
Apart(entries, keys, alone) ==
    /\ \E E : entries \in Seq(E)
    /\ Files!ToPkcs12(entries)
          = [keys |-> [i \in DOMAIN keys |-> KeyOf(KeyEntryOf(keys[i]))],
             certs |-> [i \in DOMAIN alone |-> CertOf(TrustedEntryOf(alone[i]))]]

LEMMA EntriesApart ==
    ASSUME NEW Keys, NEW Bags, NEW keys \in Seq(Keys), NEW alone \in Seq(Bags),
           \A k \in Files!RangeOf(keys) : k.key # None
    PROVE  Apart(Entries(keys, alone), keys, alone)
<1> DEFINE a == [i \in DOMAIN keys |-> KeyEntryOf(keys[i])]
           b == [i \in DOMAIN alone |-> TrustedEntryOf(alone[i])]
           E == Files!RangeOf(a) \cup Files!RangeOf(b)
           entries == a \o b
           places == {i \in DOMAIN entries : Files!IsKeyEntry(entries[i])}
           n == Len(keys)
           m == Len(alone)
<1>0. /\ DOMAIN keys = 1 .. n /\ n \in Nat /\ DOMAIN alone = 1 .. m /\ m \in Nat
  OBVIOUS
<1>1. a \in Seq(E) /\ Len(a) = n /\ DOMAIN a = 1 .. n /\ \A i \in 1 .. n : a[i] = KeyEntryOf(keys[i])
  <2>1. \A i \in 1 .. n : KeyEntryOf(keys[i]) \in Files!RangeOf(a)
    BY <1>0 DEF Files!RangeOf
  <2> HIDE DEF E
  <2>2. \A i \in 1 .. n : KeyEntryOf(keys[i]) \in E
    BY <2>1 DEF E
  <2> QED
    BY <1>0, <2>2
<1>2. b \in Seq(E) /\ Len(b) = m /\ DOMAIN b = 1 .. m /\ \A i \in 1 .. m : b[i] = TrustedEntryOf(alone[i])
  <2>1. \A i \in 1 .. m : TrustedEntryOf(alone[i]) \in Files!RangeOf(b)
    BY <1>0 DEF Files!RangeOf
  <2> HIDE DEF E
  <2>2. \A i \in 1 .. m : TrustedEntryOf(alone[i]) \in E
    BY <2>1 DEF E
  <2> QED
    BY <1>0, <2>2
<1>3. \A i \in 1 .. n : Files!IsKeyEntry(a[i])
  BY <1>0, <1>1 DEF KeyEntryOf, Files!KeyEntry, Files!IsKeyEntry, Files!RangeOf
<1>4. \A i \in 1 .. m : ~ Files!IsKeyEntry(b[i])
  BY <1>2 DEF TrustedEntryOf, Files!TrustedEntry, Files!IsKeyEntry
<1>5. Entries(keys, alone) = entries
  BY DEF Entries
<1> HIDE DEF a, b, E
<1>7. /\ entries \in Seq(E) /\ Len(entries) = n + m /\ DOMAIN entries = 1 .. n + m
      /\ \A i \in 1 .. n + m : entries[i] = IF i <= n THEN a[i] ELSE b[i - n]
  BY SMTT(40), <1>0, <1>1, <1>2
<1>8. \A i \in 1 .. n + m : IF i <= n THEN i \in 1 .. n ELSE i - n \in 1 .. m
  BY <1>0
<1>9. SubSeq(entries, 1, n) = a /\ SubSeq(entries, n + 1, n + m) = b
  <2> DEFINE s == SubSeq(entries, 1, n)
             t == SubSeq(entries, n + 1, n + m)
  <2> HIDE DEF entries
  <2>1. s \in Seq(E) /\ Len(s) = n /\ \A i \in 1 .. n : s[i] = entries[i]
    BY <1>0, <1>7
  <2>2. t \in Seq(E) /\ Len(t) = m /\ \A i \in 1 .. m : t[i] = entries[n + i]
    BY <1>0, <1>7
  <2>3. \A i \in 1 .. n : i \in 1 .. n + m /\ i <= n
    BY <1>0
  <2>4. \A i \in 1 .. m : n + i \in 1 .. n + m /\ ~ (n + i <= n) /\ (n + i) - n = i
    BY <1>0
  <2> HIDE DEF s, t
  <2>5. \A i \in 1 .. Len(s) : s[i] = a[i]
    BY <1>7, <2>1, <2>3
  <2>6. \A i \in 1 .. Len(t) : t[i] = b[i]
    BY <1>7, <2>2, <2>4
  <2>7. s = a
    BY <1>1, <2>1, <2>5, SeqEqual
  <2>8. t = b
    BY <1>2, <2>2, <2>6, SeqEqual
  <2> QED
    BY <2>7, <2>8 DEF s, t
<1> HIDE DEF entries
<1>10. places = 0 + 1 .. n
  BY <1>0, <1>3, <1>4, <1>7, <1>8
<1>11. DOMAIN entries \ places = n + 1 .. n + m
  <2> HIDE DEF places
  <2> QED
    BY <1>0, <1>7, <1>10
<1> HIDE DEF places
<1>12. Files!Kept(entries, places) = a
  <2>1. 0 \in Nat /\ n \in Nat /\ 0 <= n /\ n <= Len(entries) /\ entries \in Seq(E) /\ 0 + 1 = 1
    BY <1>0, <1>7
  <2> HIDE DEF n
  <2>2. Files!Kept(entries, 0 + 1 .. n) = SubSeq(entries, 0 + 1, n)
    BY <2>1, KeptOfPart
  <2>3. SubSeq(entries, 0 + 1, n) = SubSeq(entries, 1, n)
    BY <2>1
  <2> QED
    BY <1>9, <1>10, <2>2, <2>3
<1>13. Files!Kept(entries, DOMAIN entries \ places) = b
  <2>1. Files!Kept(entries, n + 1 .. n + m) = SubSeq(entries, n + 1, n + m)
    BY <1>0, <1>7, KeptOfPart
  <2> QED
    BY <1>9, <1>11, <2>1
<1>14. Files!ToPkcs12(entries)
          = [keys |-> [i \in DOMAIN a |-> KeyOf(a[i])], certs |-> [i \in DOMAIN b |-> CertOf(b[i])]]
  <2> DEFINE kept == Files!Kept(entries, places)
             others == Files!Kept(entries, DOMAIN entries \ places)
  <2>1. Files!ToPkcs12(entries)
          = [keys |-> [i \in DOMAIN kept |-> KeyOf(kept[i])], certs |-> [i \in DOMAIN others |-> CertOf(others[i])]]
    BY Zenon DEF Files!ToPkcs12, places, KeyOf, CertOf
  <2>2. kept = a /\ others = b
    BY <1>12, <1>13
  <2> HIDE DEF kept, others
  <2> QED
    BY <2>1, <2>2
<1>15. /\ [i \in DOMAIN a |-> KeyOf(a[i])] = [i \in DOMAIN keys |-> KeyOf(KeyEntryOf(keys[i]))]
       /\ [i \in DOMAIN b |-> CertOf(b[i])] = [i \in DOMAIN alone |-> CertOf(TrustedEntryOf(alone[i]))]
  BY <1>0, <1>1, <1>2
<1> QED
  BY <1>5, <1>7, <1>14, <1>15 DEF Apart

\* A store whose keys are told apart by themselves, as they are once their
\* identifiers are gone.
Convertible(store) ==
    /\ \A k \in Files!RangeOf(store.keys) : k.key # None
    /\ \A i, j \in DOMAIN store.keys :
          i < j /\ store.keys[i].chain # <<>> /\ store.keys[j].chain # <<>> =>
              store.keys[i].key # store.keys[j].key

\* What is left of a store in the other format.
SameKeys(back, store) ==
    /\ DOMAIN back.keys = DOMAIN store.keys /\ Len(back.keys) = Len(store.keys)
    /\ \A i \in DOMAIN store.keys :
          /\ back.keys[i].alias = store.keys[i].alias /\ back.keys[i].id = None
          /\ back.keys[i].key = store.keys[i].key /\ back.keys[i].chain = store.keys[i].chain

LEMMA IsOfItsMembers ==
    ASSUME NEW n \in Nat, NEW s, s = [i \in 1 .. n |-> s[i]]
    PROVE  s \in Seq(Files!RangeOf(s))
<1>1. DOMAIN s = 1 .. n
  OBVIOUS
<1>2. \A i \in 1 .. n : s[i] \in Files!RangeOf(s)
  BY <1>1 DEF Files!RangeOf
<1> DEFINE S == Files!RangeOf(s)
<1> HIDE DEF S
<1>3. s \in [1 .. n -> S]
  BY <1>2 DEF S
<1> QED
  BY <1>3 DEF S

LEMMA ConvertedAndBack ==
    ASSUME NEW Certs, NEW store, IsStore(store, Certs), Convertible(store)
    PROVE  LET entries == Files!FromPkcs12(store)
               back == Files!ToPkcs12(entries)
           IN  /\ \E E : entries \in Seq(E)
               /\ IsStore(back, Certs)
               /\ SameKeys(back, store)
               /\ AllCerts(back) = AllCerts(store)
<1> DEFINE keys == store.keys
           certs == store.certs
           alone == Files!Kept(certs, Alone(store))
           entries == Files!FromPkcs12(store)
           back == Files!ToPkcs12(entries)
           NewKey(i) == KeyOf(KeyEntryOf(keys[i]))
           NewCert(i) == CertOf(TrustedEntryOf(alone[i]))
<1>1. PICK Keys, Bags : keys \in Seq(Keys) /\ certs \in Seq(Bags)
  BY DEF IsStore
<1>2. alone \in Seq(Bags) /\ Files!RangeOf(alone) = {certs[i] : i \in Alone(store)}
  <2>1. Alone(store) \subseteq DOMAIN certs
    BY DEF Alone
  <2> QED
    BY <1>1, <2>1, KeptIs
<1> HIDE DEF alone
<1>3. entries = Entries(keys, alone)
  BY Converted DEF alone
<1>4. \A k \in Files!RangeOf(keys) : k.key # None
  BY DEF Convertible
<1>5. /\ \E E : entries \in Seq(E)
      /\ back = [keys |-> [i \in DOMAIN keys |-> NewKey(i)], certs |-> [i \in DOMAIN alone |-> NewCert(i)]]
  <2>1. /\ \E E : Entries(keys, alone) \in Seq(E)
        /\ Files!ToPkcs12(Entries(keys, alone))
              = [keys |-> [i \in DOMAIN keys |-> NewKey(i)], certs |-> [i \in DOMAIN alone |-> NewCert(i)]]
    <3>1. Apart(Entries(keys, alone), keys, alone)
      <4> HIDE DEF keys
      <4> QED
        BY <1>1, <1>2, <1>4, EntriesApart
    <3> QED
      BY <3>1 DEF Apart
  <2> HIDE DEF NewKey, NewCert, entries
  <2> QED
    BY <1>3, <2>1
<1>6. \A i : /\ NewKey(i).alias = keys[i].alias /\ NewKey(i).id = None
             /\ NewKey(i).key = keys[i].key /\ NewKey(i).chain = keys[i].chain
             /\ NewCert(i).cert = alone[i].cert
  <2>1. \A k : KeyOf(KeyEntryOf(k)) = [alias |-> k.alias, id |-> None, key |-> k.key, chain |-> k.chain]
    BY DEF KeyOf, KeyEntryOf, Files!KeyEntry
  <2>2. \A c : CertOf(TrustedEntryOf(c)).cert = c.cert
    BY DEF CertOf, TrustedEntryOf, Files!TrustedEntry, Files!CertBag
  <2> QED
    BY <2>1, <2>2
<1> HIDE DEF NewKey, NewCert, back, entries
<1>7. DOMAIN keys = 1 .. Len(keys) /\ Len(keys) \in Nat /\ DOMAIN alone = 1 .. Len(alone) /\ Len(alone) \in Nat
  BY <1>1, <1>2
<1>8. SameKeys(back, store)
  <2>1. DOMAIN back.keys = DOMAIN keys /\ \A i \in DOMAIN keys : back.keys[i] = NewKey(i)
    BY <1>5
  <2>2. Len(back.keys) = Len(keys)
    BY <1>5, <1>7
  <2> QED
    BY <1>6, <2>1, <2>2 DEF SameKeys
<1>9. Files!RangeOf(back.certs) = {NewCert(i) : i \in DOMAIN alone}
  BY <1>5 DEF Files!RangeOf
<1>10. CertsOfBags(back.certs) = {certs[i].cert : i \in Alone(store)}
  <2>1. {NewCert(i).cert : i \in DOMAIN alone} = {alone[i].cert : i \in DOMAIN alone}
    BY <1>6
  <2>2. CertsOfBags(back.certs) = {NewCert(i).cert : i \in DOMAIN alone}
    BY <1>9 DEF CertsOfBags
  <2>3. {alone[i].cert : i \in DOMAIN alone} = CertsOfBags(alone)
    BY DEF CertsOfBags, Files!RangeOf
  <2>4. CertsOfBags(alone) = {certs[i].cert : i \in Alone(store)}
    BY <1>2 DEF CertsOfBags
  <2> QED
    BY <2>1, <2>2, <2>3, <2>4
<1> DEFINE chains == UNION {Files!RangeOf(k.chain) : k \in Files!RangeOf(keys)}
<1>11. UNION {Files!RangeOf(k.chain) : k \in Files!RangeOf(back.keys)} = chains
  <2>1. {k.chain : k \in Files!RangeOf(back.keys)} = {k.chain : k \in Files!RangeOf(keys)}
    BY <1>8 DEF SameKeys, Files!RangeOf
  <2>2. \A ks : UNION {Files!RangeOf(k.chain) : k \in ks} = UNION {Files!RangeOf(c) : c \in {k.chain : k \in ks}}
    OBVIOUS
  <2> QED
    BY <2>1, <2>2
<1>12. /\ AllCerts(store) = CertsOfBags(certs) \cup chains
       /\ AllCerts(back) = CertsOfBags(back.certs) \cup chains
  BY <1>11 DEF AllCerts, CertsOfBags
<1>13. \A i \in DOMAIN certs : i \in Alone(store) \/ certs[i].cert \in chains
  BY DEF Alone
<1>14. CertsOfBags(certs) = {certs[i].cert : i \in DOMAIN certs} /\ Alone(store) \subseteq DOMAIN certs
  BY DEF CertsOfBags, Files!RangeOf, Alone
<1> HIDE DEF chains
<1>15. AllCerts(back) = AllCerts(store)
  BY <1>10, <1>12, <1>13, <1>14
<1>16. IsStore(back, Certs)
  <2>1. back.keys \in Seq(Files!RangeOf(back.keys)) /\ back.certs \in Seq(Files!RangeOf(back.certs))
    <3>1. /\ back.keys = [i \in 1 .. Len(keys) |-> back.keys[i]]
          /\ back.certs = [i \in 1 .. Len(alone) |-> back.certs[i]]
          /\ DOMAIN back.keys = 1 .. Len(keys) /\ DOMAIN back.certs = 1 .. Len(alone)
      BY <1>5, <1>7
    <3>2. back.keys \in Seq(Files!RangeOf(back.keys))
      BY <1>7, <3>1, IsOfItsMembers
    <3>3. back.certs \in Seq(Files!RangeOf(back.certs))
      BY <1>7, <3>1, IsOfItsMembers
    <3> QED
      BY <3>2, <3>3
  <2>2. \A k \in Files!RangeOf(back.keys) : k.chain \in Seq(Certs)
    BY <1>8 DEF SameKeys, IsStore, Files!RangeOf
  <2>3. \A c \in Files!RangeOf(back.certs) : c.cert \in Certs
    <3>1. \A c \in Files!RangeOf(back.certs) : c.cert \in CertsOfBags(back.certs)
      BY DEF CertsOfBags
    <3>2. CertsOfBags(back.certs) \subseteq CertsOfBags(certs)
      BY <1>10, <1>14
    <3>3. CertsOfBags(certs) \subseteq Certs
      BY DEF IsStore, CertsOfBags
    <3> QED
      BY <3>1, <3>2, <3>3
  <2> QED
    BY <2>1, <2>2, <2>3 DEF IsStore
<1> QED
  BY <1>5, <1>8, <1>15, <1>16 DEF back, entries

\* A PKCS#12 store written as YTKS-2, read, converted back, written as PKCS#12
\* and read again has kept its keys and certificates (ytks.rs, engine.rs).
THEOREM ConversionsKeepStore ==
    ASSUME NEW Certs, NEW store, NEW password,
           IsStore(store, Certs), Readable(store), Convertible(store)
    PROVE  LET entries == Files!ReadYtks(Files!WriteYtks(Files!FromPkcs12(store), password), password)
           IN  Keeps(Files!ReadPfx(Files!WritePfx(Files!ToPkcs12(entries), password), password), store)
<1> DEFINE entries == Files!FromPkcs12(store)
           back == Files!ToPkcs12(entries)
           new == Files!ReadPfx(Files!WritePfx(back, password), password)
<1>1. /\ \E E : entries \in Seq(E)
      /\ IsStore(back, Certs) /\ SameKeys(back, store) /\ AllCerts(back) = AllCerts(store)
  BY ConvertedAndBack
<1> HIDE DEF entries
<1>2. Files!ReadYtks(Files!WriteYtks(entries, password), password) = entries
  BY <1>1, YtksIsReadAgain
<1> HIDE DEF back
<1>3. Readable(back)
  <2>1. ASSUME NEW k \in Files!RangeOf(back.keys)
        PROVE  /\ k.alias # None /\ Files!LocalKeyId(k) # None
               /\ k.chain # <<>> => Follows(k.chain, AllCerts(back))
    <3>1. PICK i \in DOMAIN store.keys : k = back.keys[i] /\ store.keys[i] \in Files!RangeOf(store.keys)
      BY <1>1 DEF SameKeys, Files!RangeOf
    <3>2. k.alias = store.keys[i].alias /\ k.key = store.keys[i].key /\ k.chain = store.keys[i].chain /\ k.id = None
      BY <1>1, <3>1 DEF SameKeys
    <3>3. store.keys[i].alias # None /\ store.keys[i].key # None
          /\ (store.keys[i].chain # <<>> => Follows(store.keys[i].chain, AllCerts(store)))
      BY <3>1 DEF Readable, Convertible
    <3> QED
      BY <1>1, <3>2, <3>3 DEF Files!LocalKeyId
  <2>2. ASSUME NEW i \in DOMAIN back.keys, NEW j \in DOMAIN back.keys,
               i < j, back.keys[i].chain # <<>>, back.keys[j].chain # <<>>
        PROVE  /\ Files!LocalKeyId(back.keys[i]) # Files!LocalKeyId(back.keys[j])
               /\ back.keys[j].chain[1] \notin Files!RangeOf(back.keys[i].chain)
    <3>1. \A x \in {i, j} : /\ x \in DOMAIN store.keys /\ Files!LocalKeyId(back.keys[x]) = store.keys[x].key
                            /\ back.keys[x].chain = store.keys[x].chain
      BY <1>1 DEF SameKeys, Files!LocalKeyId
    <3> QED
      BY <2>2, <3>1 DEF Readable, Convertible
  <2> QED
    BY <2>1, <2>2 DEF Readable
<1>4. Keeps(new, back)
  BY <1>1, <1>3, StoreIsReadAgain
<1> HIDE DEF new
<1>5. Keeps(new, store)
  BY <1>1, <1>4 DEF Keeps, SameKeys
<1> QED
  BY <1>2, <1>5 DEF new, back, entries

\* A password other than the store's does not open its keys in either format.
LEMMA ConvertedIsSealed ==
    ASSUME NEW Certs, NEW store, NEW password, NEW other,
           IsStore(store, Certs), Convertible(store), store.keys # <<>>,
           password # None, other # password
    PROVE  Files!ReadYtks(Files!WriteYtks(Files!FromPkcs12(store), password), other) = PasswordIncorrect
<1> DEFINE keys == store.keys
           alone == Files!Kept(store.certs, Alone(store))
           a == [i \in DOMAIN keys |-> KeyEntryOf(keys[i])]
           b == [i \in DOMAIN alone |-> TrustedEntryOf(alone[i])]
           entries == Files!FromPkcs12(store)
<1>1. PICK Keys, Bags : keys \in Seq(Keys) /\ store.certs \in Seq(Bags)
  BY DEF IsStore
<1>2. alone \in Seq(Bags)
  <2>1. Alone(store) \subseteq DOMAIN store.certs
    BY DEF Alone
  <2> QED
    BY <1>1, <2>1, KeptIs
<1>3. entries = a \o b
  BY Converted DEF Entries
<1> HIDE DEF alone
<1>4. DOMAIN keys = 1 .. Len(keys) /\ Len(keys) \in Nat /\ Len(keys) # 0
  <2> HIDE DEF keys
  <2>1. keys # <<>>
    BY DEF keys
  <2> QED
    BY <1>1, <2>1, EmptySeq
<1>5. DOMAIN alone = 1 .. Len(alone) /\ Len(alone) \in Nat
  BY <1>2
<1>6. /\ DOMAIN a = 1 .. Len(keys) /\ Len(a) = Len(keys) /\ a[1] = KeyEntryOf(keys[1])
      /\ Len(b) = Len(alone)
      /\ a \in Seq({KeyEntryOf(keys[i]) : i \in DOMAIN keys})
      /\ b \in Seq({TrustedEntryOf(alone[i]) : i \in DOMAIN alone})
  BY <1>4, <1>5
<1> HIDE DEF a, b, entries
<1>7. 1 \in DOMAIN entries /\ entries[1] = a[1]
  <2> DEFINE E == {KeyEntryOf(keys[i]) : i \in DOMAIN keys} \cup {TrustedEntryOf(alone[i]) : i \in DOMAIN alone}
  <2>1. a \in Seq(E) /\ b \in Seq(E)
    BY <1>6, SeqMonotonic
  <2> HIDE DEF E
  <2>2. /\ DOMAIN (a \o b) = 1 .. Len(a) + Len(b) /\ Len(a) \in Nat /\ Len(b) \in Nat
        /\ \A i \in 1 .. Len(a) : (a \o b)[i] = a[i]
    BY <2>1
  <2>3. Len(a) # 0
    BY <1>4, <1>6
  <2>4. 1 \in DOMAIN (a \o b) /\ (a \o b)[1] = a[1]
    BY <2>2, <2>3
  <2> QED
    BY <1>3, <2>4
<1>8. Files!IsKeyEntry(entries[1])
  <2>1. keys[1].key # None
    BY <1>4 DEF Convertible, Files!RangeOf
  <2> QED
    BY <1>6, <1>7, <2>1 DEF KeyEntryOf, Files!KeyEntry, Files!IsKeyEntry
<1>9. Files!ReadYtks(Files!WriteYtks(entries, password), other) = PasswordIncorrect
  BY <1>7, <1>8, OpensUnderItsPasswordOnly
<1> QED
  BY <1>9 DEF entries

-----------------------------------------------------------------------------
(* The tasks of stores. *)

AnyCert == {Root, Authority, Leaf("k1"), Leaf("k2")}

\* The chain of a key, as far as it goes.
LEMMA ChainOfKey ==
    ASSUME NEW key \in {"k1", "k2"}, NEW chain \in Chains(key)
    PROVE  /\ chain \in Seq(AnyCert)
           /\ Files!RangeOf(chain) \subseteq {Leaf(key), Authority, Root}
           /\ chain # <<>> => chain[1] = Leaf(key)
           /\ \A all \in SUBSET AnyCert : Follows(chain, all)
<1> DEFINE l == Leaf(key)
           one == <<l>>
           two == <<l, Authority>>
           three == <<l, Authority, Root>>
<1>1. /\ l \in AnyCert /\ Authority \in AnyCert /\ Root \in AnyCert
      /\ l.subject \in {"s1", "s2"} /\ l.issuer = "authority"
      /\ Authority.subject = "authority" /\ Authority.issuer = "root"
      /\ Root.subject = "root"
      /\ \A d \in AnyCert : /\ d.subject = "authority" => d = Authority
                            /\ d.subject = "root" => d = Root
  BY DEF AnyCert, Leaf, Authority, Root, Cert
<1>2. l # Authority /\ l # Root /\ Authority # Root
  BY <1>1
<1> HIDE DEF l
<1>3. chain \in {<<>>, one, two, three}
  BY DEF Chains, l
<1>4. CASE chain = <<>>
  BY <1>4 DEF Files!RangeOf, Follows
<1>5. CASE chain = one
  BY <1>1, <1>5 DEF Files!RangeOf, Follows, l
<1>6. CASE chain = two
  <2>1. Len(chain) = 2 /\ chain[1] = l /\ chain[2] = Authority /\ chain \in Seq(AnyCert) /\ DOMAIN chain = 1 .. 2
    BY <1>1, <1>6
  <2>2. ASSUME NEW all \in SUBSET AnyCert, NEW j \in 1 .. Len(chain) - 1
        PROVE  /\ chain[j].subject # chain[j].issuer
               /\ \A d \in all :
                     (d.subject = chain[j].issuer /\ d \notin {chain[i] : i \in 1 .. j}) <=> d = chain[j + 1]
    <3>1. j = 1 /\ {chain[i] : i \in 1 .. j} = {l}
      BY <2>1
    <3> QED
      BY <1>1, <1>2, <2>1, <3>1
  <2> QED
    BY <2>1, <2>2 DEF Files!RangeOf, Follows, l
<1>7. CASE chain = three
  <2>1. /\ Len(chain) = 3 /\ chain[1] = l /\ chain[2] = Authority /\ chain[3] = Root
        /\ chain \in Seq(AnyCert) /\ DOMAIN chain = 1 .. 3
    BY <1>1, <1>7
  <2>2. ASSUME NEW all \in SUBSET AnyCert, NEW j \in 1 .. Len(chain) - 1
        PROVE  /\ chain[j].subject # chain[j].issuer
               /\ \A d \in all :
                     (d.subject = chain[j].issuer /\ d \notin {chain[i] : i \in 1 .. j}) <=> d = chain[j + 1]
    <3>1. CASE j = 1
      <4>1. {chain[i] : i \in 1 .. j} = {l}
        BY <2>1, <3>1
      <4> QED
        BY <1>1, <1>2, <2>1, <3>1, <4>1
    <3>2. CASE j = 2
      <4>1. {chain[i] : i \in 1 .. j} = {l, Authority}
        BY <2>1, <3>2
      <4> QED
        BY <1>1, <1>2, <2>1, <3>2, <4>1
    <3> QED
      BY <2>1, <3>1, <3>2
  <2> QED
    BY <2>1, <2>2 DEF Files!RangeOf, Follows, l
<1> QED
  BY <1>3, <1>4, <1>5, <1>6, <1>7

KeyA(k) ==
    /\ k.alias = "a" /\ k.key = "k1" /\ k.chain \in Chains("k1")
    /\ Files!LocalKeyId(k) \in {"k1", "id"}
KeyB(k) ==
    /\ k.alias = "b" /\ k.key = "k2" /\ k.chain \in Chains("k2")
    /\ Files!LocalKeyId(k) = "k2"

\* The one key comes before the other.
KeysTold(keys) ==
    /\ \E Keys : keys \in Seq(Keys)
    /\ \A k \in Files!RangeOf(keys) : KeyA(k) \/ KeyB(k)
    /\ \A i, j \in DOMAIN keys : i < j => KeyA(keys[i]) /\ KeyB(keys[j])

LEMMA KeysOfStore ==
    ASSUME NEW store \in Stores
    PROVE  KeysTold(store.keys)
<1>1. PICK a \in {<<>>} \cup KeysOf("k1", "a"),
           b \in {<<>>} \cup {k \in KeysOf("k2", "b") : k[1].id = None} :
              store.keys = a \o b
  <2> DEFINE A == {<<>>} \cup KeysOf("k1", "a")
             B == {<<>>} \cup {k \in KeysOf("k2", "b") : k[1].id = None}
             C == {<<>>} \cup CertsOf \cup {<<Files!CertBag(None, None, Authority), Files!CertBag("x", None, Root)>>}
  <2>1. Stores = {[keys |-> a \o b, certs |-> c] : a \in A, b \in B, c \in C}
    BY DEF Stores
  <2> HIDE DEF A, B, C
  <2>2. PICK a \in A, b \in B, c \in C : store = [keys |-> a \o b, certs |-> c]
    BY <2>1
  <2>3. store.keys = a \o b
    BY <2>2
  <2> QED
    BY <2>3 DEF A, B
<1>2. a = <<>> \/ \E k : a = <<k>> /\ KeyA(k)
  <2> SUFFICES ASSUME a \in KeysOf("k1", "a") PROVE \E k : a = <<k>> /\ KeyA(k)
    BY <1>1
  <2>1. PICK id \in {None, "id"}, chain \in Chains("k1") :
           a = <<[alias |-> "a", id |-> id, key |-> "k1", chain |-> chain]>>
    BY DEF KeysOf
  <2> DEFINE k == [alias |-> "a", id |-> id, key |-> "k1", chain |-> chain]
  <2>2. KeyA(k)
    BY DEF KeyA, Files!LocalKeyId
  <2> QED
    BY <2>1, <2>2
<1>3. b = <<>> \/ \E k : b = <<k>> /\ KeyB(k)
  <2> SUFFICES ASSUME b \in KeysOf("k2", "b"), b[1].id = None PROVE \E k : b = <<k>> /\ KeyB(k)
    BY <1>1
  <2>1. PICK id \in {None, "id"}, chain \in Chains("k2") :
           b = <<[alias |-> "b", id |-> id, key |-> "k2", chain |-> chain]>>
    BY DEF KeysOf
  <2> DEFINE k == [alias |-> "b", id |-> id, key |-> "k2", chain |-> chain]
  <2>2. b = <<k>> /\ k.id = None
    BY <2>1
  <2>3. KeyB(k)
    BY <2>2 DEF KeyB, Files!LocalKeyId
  <2> QED
    BY <2>2, <2>3
<1>4. CASE a = <<>>
  <2>1. store.keys = b
    <3>1. CASE b = <<>>
      BY <1>1, <1>4, <3>1
    <3>2. ASSUME NEW k, b = <<k>> PROVE <<>> \o b = b
      <4>1. b \in Seq({k})
        BY <3>2
      <4> QED
        BY <4>1, ConcatEmptySeq
    <3> QED
      BY <1>1, <1>3, <1>4, <3>1, <3>2
  <2>2. CASE b = <<>>
    <3>1. store.keys \in Seq({}) /\ Files!RangeOf(store.keys) = {} /\ DOMAIN store.keys = {}
      BY <2>1, <2>2 DEF Files!RangeOf
    <3> QED
      BY <3>1 DEF KeysTold
  <2>3. ASSUME NEW k, b = <<k>>, KeyB(k) PROVE KeysTold(store.keys)
    <3>1. /\ store.keys \in Seq({k}) /\ Files!RangeOf(store.keys) = {k}
          /\ \A i, j \in DOMAIN store.keys : ~ (i < j)
      BY <2>1, <2>3 DEF Files!RangeOf
    <3> QED
      BY <2>3, <3>1 DEF KeysTold
  <2> QED
    BY <1>3, <2>2, <2>3
<1>5. ASSUME NEW ka, a = <<ka>>, KeyA(ka), b = <<>> PROVE KeysTold(store.keys)
  <2>1. a \in Seq({ka})
    BY <1>5
  <2>2. store.keys = <<ka>>
    BY <1>1, <1>5, <2>1, ConcatEmptySeq
  <2>3. /\ store.keys \in Seq({ka}) /\ Files!RangeOf(store.keys) = {ka}
        /\ \A i, j \in DOMAIN store.keys : ~ (i < j)
    BY <2>2 DEF Files!RangeOf
  <2> QED
    BY <1>5, <2>3 DEF KeysTold
<1>6. ASSUME NEW ka, NEW kb, a = <<ka>>, KeyA(ka), b = <<kb>>, KeyB(kb) PROVE KeysTold(store.keys)
  <2>1. <<ka>> \in Seq({ka, kb}) /\ <<kb>> \in Seq({ka, kb}) /\ store.keys = <<ka>> \o <<kb>>
    BY <1>1, <1>6
  <2>2. /\ store.keys \in Seq({ka, kb}) /\ DOMAIN store.keys = 1 .. 2
        /\ store.keys[1] = ka /\ store.keys[2] = kb
    BY <2>1
  <2>3. Files!RangeOf(store.keys) = {ka, kb}
    BY <2>2 DEF Files!RangeOf
  <2>4. \A i, j \in DOMAIN store.keys : i < j => store.keys[i] = ka /\ store.keys[j] = kb
    BY <2>2
  <2> QED
    BY <1>6, <2>2, <2>3, <2>4 DEF KeysTold
<1> QED
  BY <1>2, <1>3, <1>4, <1>5, <1>6

LEMMA CertsOfStore ==
    ASSUME NEW store \in Stores
    PROVE  /\ \E Bags : store.certs \in Seq(Bags)
           /\ \A c \in Files!RangeOf(store.certs) : c.cert \in AnyCert
<1> DEFINE two == <<Files!CertBag(None, None, Authority), Files!CertBag("x", None, Root)>>
<1>1. store.certs = <<>> \/ store.certs \in CertsOf \/ store.certs = two
  BY DEF Stores
<1>2. CASE store.certs = <<>>
  <2>1. store.certs \in Seq({}) /\ Files!RangeOf(store.certs) = {}
    BY <1>2 DEF Files!RangeOf
  <2> QED
    BY <2>1
<1>3. CASE store.certs \in CertsOf
  <2>1. PICK alias \in {None, "x"}, c \in {Root, Leaf("k2")} : store.certs = <<Files!CertBag(alias, None, c)>>
    BY <1>3 DEF CertsOf
  <2> DEFINE bag == Files!CertBag(alias, None, c)
  <2>2. bag.cert \in AnyCert
    BY DEF Files!CertBag, AnyCert
  <2> HIDE DEF bag
  <2>3. store.certs = <<bag>>
    BY <2>1 DEF bag
  <2>4. store.certs \in Seq({bag}) /\ Files!RangeOf(store.certs) = {bag}
    BY <2>3 DEF Files!RangeOf
  <2> QED
    BY <2>2, <2>4
<1>4. CASE store.certs = two
  <2> DEFINE b1 == Files!CertBag(None, None, Authority)
             b2 == Files!CertBag("x", None, Root)
  <2>1. b1.cert \in AnyCert /\ b2.cert \in AnyCert
    BY DEF Files!CertBag, AnyCert
  <2>2. store.certs = <<b1, b2>>
    BY <1>4
  <2> HIDE DEF b1, b2
  <2>3. store.certs \in Seq({b1, b2}) /\ Files!RangeOf(store.certs) = {b1, b2}
    BY <2>2 DEF Files!RangeOf
  <2> QED
    BY <2>1, <2>3
<1> QED
  BY <1>1, <1>2, <1>3, <1>4

LEMMA StoreIs ==
    ASSUME NEW store \in Stores
    PROVE  IsStore(store, AnyCert) /\ Readable(store) /\ Convertible(store)
<1>1. \A k \in Files!RangeOf(store.keys) : KeyA(k) \/ KeyB(k)
  BY KeysOfStore DEF KeysTold
<1>2. ASSUME NEW k \in Files!RangeOf(store.keys)
      PROVE  /\ k.chain \in Seq(AnyCert) /\ k.alias # None /\ k.key # None /\ Files!LocalKeyId(k) # None
             /\ \A all \in SUBSET AnyCert : Follows(k.chain, all)
  <2>1. k.chain \in Seq(AnyCert) /\ \A all \in SUBSET AnyCert : Follows(k.chain, all)
    BY <1>1, ChainOfKey DEF KeyA, KeyB
  <2>2. k.alias # None /\ k.key # None /\ Files!LocalKeyId(k) # None
    BY <1>1, StoresAssumption DEF KeyA, KeyB
  <2> QED
    BY <2>1, <2>2
<1>3. IsStore(store, AnyCert)
  BY <1>2, KeysOfStore, CertsOfStore DEF IsStore, KeysTold
<1>4. AllCerts(store) \in SUBSET AnyCert
  BY <1>3, WrittenIsAll
<1>5. ASSUME NEW i \in DOMAIN store.keys, NEW j \in DOMAIN store.keys, i < j,
             store.keys[i].chain # <<>>, store.keys[j].chain # <<>>
      PROVE  /\ Files!LocalKeyId(store.keys[i]) # Files!LocalKeyId(store.keys[j])
             /\ store.keys[i].key # store.keys[j].key
             /\ store.keys[j].chain[1] \notin Files!RangeOf(store.keys[i].chain)
  <2>1. KeyA(store.keys[i]) /\ KeyB(store.keys[j])
    BY <1>5, KeysOfStore DEF KeysTold
  <2>2. store.keys[j].chain[1] = Leaf("k2") /\ Files!RangeOf(store.keys[i].chain) \subseteq {Leaf("k1"), Authority, Root}
    BY <1>5, <2>1, ChainOfKey DEF KeyA, KeyB
  <2>3. Leaf("k2") \notin {Leaf("k1"), Authority, Root}
    BY DEF Leaf, Authority, Root, Cert
  <2> QED
    BY <2>1, <2>2, <2>3 DEF KeyA, KeyB
<1>6. Readable(store)
  BY <1>2, <1>4, <1>5 DEF Readable
<1>7. Convertible(store)
  BY <1>2, <1>5 DEF Convertible
<1> QED
  BY <1>3, <1>6, <1>7

\* A store keeps its keys, their certificates and every other certificate when
\* it is written and read, as PKCS#12, as YTKS-2 and converted back, and opens
\* under no other password: ConversionsKeepKeys, for every value of the
\* constants (pkcs12/, ytks.rs).
THEOREM SpecConversionsKeepKeys == Spec => []ConversionsKeepKeys
<1>1. ASSUME Inv, Answered("store") PROVE ConversionsKeepKeys
  <2>1. task.kind = "store" /\ StoreTask
    BY <1>1, TaskOfItsKind DEF Inv, Answered
  <2>2. PICK store \in Stores, password \in Passwords, other \in Passwords :
            task = [kind |-> "store", store |-> store, password |-> password, other |-> other]
    BY <2>1 DEF StoreTask
  <2>3. task.store = store /\ task.password = password /\ task.other = other
    BY <2>2
  <2> DEFINE entries == Files!FromPkcs12(store)
             yks == Files!ReadYtks(Files!WriteYtks(entries, password), other)
             pfx == Files!ReadPfx(Files!WritePfx(store, password), other)
             back(e) == Files!ReadPfx(Files!WritePfx(Files!ToPkcs12(e), password), password)
  <2>4. answer = StoreAnswer(task)
    BY <1>1, <2>1 DEF Inv, Replied, Answered
  <2>5. StoreAnswer(task) = [pfx |-> pfx, yks |-> yks,
                             back |-> IF yks = PasswordIncorrect THEN yks ELSE back(yks)]
    BY <2>3 DEF StoreAnswer
  <2> HIDE DEF pfx, yks, back, entries
  <2>6. answer.pfx = pfx /\ answer.yks = yks /\ answer.back = IF yks = PasswordIncorrect THEN yks ELSE back(yks)
    BY <2>4, <2>5
  <2>7. IsStore(store, AnyCert) /\ Readable(store) /\ Convertible(store) /\ password # None
        /\ entries # PasswordIncorrect
    BY StoreIs, StoresAssumption DEF entries
  <2>8. CASE other = password
    <3>1. Keeps(pfx, store)
      BY <2>7, <2>8, StoreIsReadAgain DEF pfx
    <3>2. \E E : entries \in Seq(E)
      BY <2>7, ConvertedAndBack DEF entries
    <3>3. yks = entries
      BY <2>8, <3>2, YtksIsReadAgain DEF yks
    <3>4. Keeps(back(yks), store)
      BY <2>7, <2>8, ConversionsKeepStore DEF back, yks, entries
    <3> QED
      BY <2>3, <2>6, <2>7, <2>8, <3>1, <3>3, <3>4 DEF ConversionsKeepKeys
  <2>9. CASE other # password
    <3>1. pfx = PasswordIncorrect
      BY <2>7, <2>9, OpensUnderItsPasswordOnly DEF pfx
    <3>2. store.keys # <<>> => yks = PasswordIncorrect
      BY <2>7, <2>9, ConvertedIsSealed DEF yks, entries
    <3> QED
      BY <2>3, <2>6, <2>9, <3>1, <3>2 DEF ConversionsKeepKeys
  <2> QED
    BY <2>8, <2>9
<1>2. Inv => ConversionsKeepKeys
  BY <1>1 DEF ConversionsKeepKeys
<1> QED
  BY <1>2, TasksAreAnswered, PTL

-----------------------------------------------------------------------------
(* What is listed of a key file. *)

\* Nothing but what a member repeats is left out.
LEMMA ConsecutiveIsAll ==
    ASSUME NEW S, NEW s \in Seq(S)
    PROVE  Files!RangeOf(Files!Consecutive(s)) = Files!RangeOf(s)
<1> DEFINE places == {i \in DOMAIN s : i = 1 \/ s[i - 1] # s[i]}
           kept == {s[i] : i \in places}
           T == {i \in 0 .. Len(s) : i = 0 \/ s[i] \in kept}
<1>0. DOMAIN s = 1 .. Len(s) /\ Len(s) \in Nat /\ places \subseteq DOMAIN s
  OBVIOUS
<1>1. Files!RangeOf(Files!Consecutive(s)) = kept
  <2>1. Files!Consecutive(s) = Files!Kept(s, places)
    BY DEF Files!Consecutive
  <2> HIDE DEF places
  <2> QED
    BY <1>0, <2>1, KeptIs
<1>2. 0 .. Len(s) \subseteq T
  <2>1. 0 \in T
    BY <1>0
  <2>2. ASSUME NEW i \in 1 .. Len(s), i - 1 \in T PROVE i \in T
    <3>1. CASE i \in places
      BY <1>0, <3>1
    <3>2. CASE i \notin places
      <4>1. i # 1 /\ s[i - 1] = s[i]
        BY <1>0, <3>2
      <4>2. s[i - 1] \in kept
        BY <1>0, <2>2, <4>1
      <4> HIDE DEF kept
      <4> QED
        BY <1>0, <4>1, <4>2
    <3> QED
      BY <3>1, <3>2
  <2> HIDE DEF T
  <2> QED
    BY <1>0, <2>1, <2>2, InductionUpTo
<1>3. \A i \in DOMAIN s : s[i] \in kept
  <2> HIDE DEF kept
  <2> QED
    BY <1>0, <1>2
<1>4. kept \subseteq Files!RangeOf(s)
  BY <1>0 DEF Files!RangeOf
<1>5. Files!RangeOf(s) \subseteq kept
  <2> HIDE DEF kept
  <2> QED
    BY <1>3 DEF Files!RangeOf
<1> QED
  BY <1>1, <1>4, <1>5

AliasesOf(s) == {b.alias : b \in Files!RangeOf(s)}

\* The aliases a file with a named key shows without a password are those of
\* the keys it opens with one (pkcs12/reader.rs).
THEOREM ListedAliasesOpen ==
    ASSUME NEW Bags, NEW file, NEW password, file.keys \in Seq(Bags),
           Files!WithAlias(file.keys) # <<>>, PfxOpens(file, password)
    PROVE  Files!RangeOf(Files!ListAliases(file)) = AliasesOf(Files!ReadPfx(file, password).keys)
<1> DEFINE shown == Files!WithAlias(file.keys)
           aliases == Files!Aliases(file.keys)
           new == Files!ReadPfx(file, password)
<1>1. shown \in Seq(Bags) /\ shown # <<>>
  <2> DEFINE places == {i \in DOMAIN file.keys : file.keys[i].alias # None}
  <2>1. shown = Files!Kept(file.keys, places) /\ places \subseteq DOMAIN file.keys
    BY DEF Files!WithAlias
  <2> HIDE DEF places
  <2> QED
    BY <2>1, KeptIs
<1>2. aliases = [i \in DOMAIN shown |-> shown[i].alias]
  BY DEF Files!Aliases
<1>3. /\ DOMAIN new.keys = DOMAIN shown
      /\ \A i \in DOMAIN shown : new.keys[i].alias = shown[i].alias
  <2>1. new = PfxStore(file)
    BY PfxIsRead
  <2> QED
    BY <2>1 DEF PfxStore
<1> HIDE DEF shown, aliases, new
<1>4. DOMAIN shown = 1 .. Len(shown) /\ Len(shown) \in Nat /\ Len(shown) # 0
  BY <1>1, EmptySeq
<1>5. aliases \in Seq(AliasesOf(shown)) /\ aliases # <<>>
  <2>1. \A i \in 1 .. Len(shown) : shown[i].alias \in AliasesOf(shown)
    BY <1>4 DEF AliasesOf, Files!RangeOf
  <2>2. aliases \in Seq(AliasesOf(shown)) /\ Len(aliases) = Len(shown)
    BY <1>2, <1>4, <2>1
  <2>3. aliases # <<>>
    BY <1>4, <2>2
  <2> QED
    BY <2>2, <2>3
<1>6. Files!ListAliases(file) = Files!Consecutive(aliases)
  <2>1. Files!ListAliases(file)
            = Files!Consecutive(IF aliases = <<>> THEN IF file.certsPassword = None THEN Files!Aliases(file.certs) ELSE <<>>
                                ELSE aliases)
    BY Zenon DEF Files!ListAliases, aliases
  <2> QED
    BY <1>5, <2>1
<1>7. Files!RangeOf(Files!Consecutive(aliases)) = Files!RangeOf(aliases)
  BY <1>5, ConsecutiveIsAll
<1>8. Files!RangeOf(aliases) = {shown[i].alias : i \in DOMAIN shown}
  BY <1>2 DEF Files!RangeOf
<1>9. AliasesOf(new.keys) = {shown[i].alias : i \in DOMAIN shown}
  BY <1>3 DEF AliasesOf, Files!RangeOf
<1> QED
  BY <1>6, <1>7, <1>8, <1>9 DEF new

-----------------------------------------------------------------------------
(* The tasks of disks. *)

KeyStoreKey(alias) == [alias |-> alias, id |-> None, key |-> "k1", chain |-> <<Leaf("k1")>>]

LEMMA KeyStoreIs ==
    ASSUME NEW alias
    PROVE  /\ KeyStore(alias).keys = <<KeyStoreKey(alias)>>
           /\ KeyStore(alias).certs = <<>>
           /\ KeyStore(alias).keys \in Seq({KeyStoreKey(alias)})
           /\ Files!RangeOf(KeyStore(alias).keys) = {KeyStoreKey(alias)}
           /\ IsStore(KeyStore(alias), AnyCert) /\ Convertible(KeyStore(alias))
<1> DEFINE store == KeyStore(alias)
           k == KeyStoreKey(alias)
<1>1. store.keys = <<k>> /\ store.certs = <<>>
  BY DEF KeyStore, KeyStoreKey
<1>2. k.key = "k1" /\ k.chain = <<Leaf("k1")>> /\ k.chain \in Seq(AnyCert)
  BY DEF KeyStoreKey, AnyCert
<1> HIDE DEF store, k
<1>3. store.keys \in Seq({k}) /\ Files!RangeOf(store.keys) = {k} /\ DOMAIN store.keys = {1} /\ Len(store.keys) = 1
  BY <1>1 DEF Files!RangeOf
<1>4. store.certs \in Seq({}) /\ Files!RangeOf(store.certs) = {}
  BY <1>1 DEF Files!RangeOf
<1>5. IsStore(store, AnyCert)
  BY <1>2, <1>3, <1>4 DEF IsStore
<1>6. Convertible(store)
  <2>1. \A x \in Files!RangeOf(store.keys) : x.key # None
    BY <1>2, <1>3, StoresAssumption
  <2>2. \A i, j \in DOMAIN store.keys : ~ (i < j)
    BY <1>3
  <2> QED
    BY <2>1, <2>2 DEF Convertible
<1> QED
  BY <1>1, <1>3, <1>5, <1>6 DEF store, k

\* A PKCS#12 file of one key lists its alias, which opens.
LEMMA PfxOfOneKey ==
    ASSUME NEW alias, NEW password, alias # None
    PROVE  LET file == Files!WritePfx(KeyStore(alias), password)
           IN  /\ Files!RangeOf(Files!ListAliases(file)) = {alias}
               /\ AliasesOf(Files!ReadPfx(file, password).keys) = {alias}
<1> DEFINE store == KeyStore(alias)
           file == Files!WritePfx(store, password)
           bags == [i \in DOMAIN store.keys |-> KeyBag(store.keys[i], password)]
           bag == KeyBag(KeyStoreKey(alias), password)
<1>1. /\ store.keys \in Seq({KeyStoreKey(alias)}) /\ Files!RangeOf(store.keys) = {KeyStoreKey(alias)}
      /\ store.keys = <<KeyStoreKey(alias)>>
  BY KeyStoreIs
<1>2. KeyStoreKey(alias).alias = alias /\ bag.alias = alias
  BY DEF KeyStoreKey, KeyBag
<1>3. /\ PfxOpens(file, password)
      /\ Files!WithAlias(file.keys) = bags
      /\ file.certs = Files!OncePerCertificate(Written(store))
  <2> HIDE DEF store
  <2>1. \A k \in Files!RangeOf(store.keys) : k.alias # None
    BY <1>1, <1>2
  <2>2. store.keys \in Seq({KeyStoreKey(alias)})
    BY <1>1
  <2> QED
    BY <2>1, <2>2, WrittenPfx
<1>4. file.keys = bags
  BY DEF Files!WritePfx, KeyBag
<1>5. DOMAIN bags = 1 .. 1 /\ bags[1] = bag /\ bags = <<bag>>
  BY <1>1
<1> HIDE DEF bags, bag, file
<1>6. file.keys \in Seq({bag}) /\ Files!WithAlias(file.keys) # <<>>
  BY <1>3, <1>4, <1>5
<1>7. Files!RangeOf(Files!ListAliases(file)) = AliasesOf(Files!ReadPfx(file, password).keys)
  BY <1>3, <1>6, ListedAliasesOpen
<1>8. Files!ReadPfx(file, password).keys = PfxStore(file).keys
  BY <1>3, PfxIsRead
<1>9. DOMAIN PfxStore(file).keys = 1 .. 1 /\ PfxStore(file).keys[1].alias = alias
  BY <1>2, <1>3, <1>5 DEF PfxStore
<1>10. AliasesOf(PfxStore(file).keys) = {alias}
  BY <1>9 DEF AliasesOf, Files!RangeOf
<1> QED
  BY <1>7, <1>8, <1>10 DEF file

\* And so does a YTKS-2 file.
LEMMA YtksOfOneKey ==
    ASSUME NEW alias, NEW password
    PROVE  LET file == Files!WriteYtks(Files!FromPkcs12(KeyStore(alias)), password)
           IN  /\ {e.alias : e \in Files!RangeOf(Files!ListYtks(file))} = {alias}
               /\ AliasesOf(Files!ToPkcs12(Files!ReadYtks(file, password)).keys) = {alias}
<1> DEFINE store == KeyStore(alias)
           k == KeyStoreKey(alias)
           entries == Files!FromPkcs12(store)
           file == Files!WriteYtks(entries, password)
           back == Files!ToPkcs12(entries)
           alone == Files!Kept(store.certs, Alone(store))
<1>1. /\ store.keys = <<k>> /\ store.certs = <<>>
      /\ IsStore(store, AnyCert) /\ Convertible(store)
  BY KeyStoreIs
<1>2. /\ \E E : entries \in Seq(E)
      /\ SameKeys(back, store)
  BY <1>1, ConvertedAndBack
<1>3. k.alias = alias
  BY DEF KeyStoreKey
<1>4. alone = <<>>
  <2> DEFINE none == <<>>
             places == Alone(store)
  <2>1. places = {}
    BY <1>1 DEF Alone
  <2>2. store.certs \in Seq({}) /\ places \subseteq DOMAIN store.certs
    BY <1>1, <2>1
  <2>3. alone \in Seq({})
    BY <2>2, KeptIs
  <2> HIDE DEF alone
  <2> QED
    BY <2>3
<1>5. entries = <<KeyEntryOf(k)>>
  <2>1. entries = Entries(store.keys, alone)
    BY Converted
  <2> DEFINE a == [i \in DOMAIN store.keys |-> KeyEntryOf(store.keys[i])]
             b == [i \in DOMAIN alone |-> TrustedEntryOf(alone[i])]
             e == KeyEntryOf(k)
  <2>2. a = <<e>>
    BY <1>1
  <2>3. b = <<>>
    BY <1>4
  <2>4. entries = a \o b
    BY <2>1 DEF Entries
  <2> HIDE DEF a, b, entries, e
  <2>5. <<e>> \o <<>> = <<e>>
    BY ConcatEmptySeq
  <2> QED
    BY <2>2, <2>3, <2>4, <2>5 DEF e
<1> HIDE DEF entries, alone, store, k
<1>6. Files!ReadYtks(file, password) = entries
  BY <1>2, YtksIsReadAgain
<1>7. DOMAIN store.keys = {1} /\ store.keys[1] = k
  BY <1>1
<1>8. AliasesOf(back.keys) = {alias}
  BY <1>2, <1>3, <1>7 DEF SameKeys, AliasesOf, Files!RangeOf
<1>9. {x.alias : x \in Files!RangeOf(Files!ListYtks(file))} = {alias}
  <2> DEFINE listed == Files!ListYtks(file)
  <2>1. DOMAIN file.entries = DOMAIN entries /\ \A i \in DOMAIN entries : file.entries[i].entry = entries[i]
    BY DEF Files!WriteYtks
  <2>2. DOMAIN listed = DOMAIN file.entries /\ \A i \in DOMAIN listed : listed[i].alias = file.entries[i].entry.alias
    BY DEF Files!ListYtks
  <2>3. DOMAIN entries = {1} /\ entries[1] = KeyEntryOf(k)
    BY <1>5
  <2>4. KeyEntryOf(k).alias = alias
    BY <1>3 DEF KeyEntryOf, Files!KeyEntry
  <2> HIDE DEF listed, file
  <2>5. DOMAIN listed = {1} /\ listed[1].alias = alias
    BY <2>1, <2>2, <2>3, <2>4
  <2>6. Files!RangeOf(listed) = {listed[1]}
    BY <2>5 DEF Files!RangeOf
  <2> QED
    BY <2>5, <2>6 DEF listed
<1> QED
  BY <1>6, <1>8, <1>9 DEF entries, store

\* A file that has entries of a kind has one, of the key it opens.
ListsItsKey(f) ==
    /\ f.stem \in {"n", "m", HiddenStem} /\ f.kind \in {"pfx", "yks"} /\ Files!HasExtension(f, f.kind)
    /\ \A kind : Files!EntriesOf(f, kind) # {} => f.kind = kind /\ f.store # None
    /\ f.store # None => \E a : Files!EntriesOf(f, f.kind) = {a} /\ AliasesOf(Opened(f, "p")) = {a}

LEMMA KeyFileListsItsKey ==
    ASSUME NEW dir, NEW f \in KeyFiles(dir)
    PROVE  ListsItsKey(f)
<1> DEFINE pfx == Files!WritePfx(KeyStore("a"), "p")
           yks == Files!WriteYtks(Files!FromPkcs12(KeyStore("b")), "p")
<1>0. \A kind : Files!EntriesOf(f, kind) # {} => f.kind = kind /\ f.store # None
  BY DEF Files!EntriesOf
<1>1. /\ f.stem \in {"n", "m", HiddenStem} /\ f.kind \in {"pfx", "yks"} /\ Files!HasExtension(f, f.kind)
      /\ f.kind = "pfx" => f.store = pfx
      /\ f.kind = "yks" => f.store \in {yks, None}
  <2> HIDE DEF pfx, yks
  <2>1. \/ \E stem \in {"n", HiddenStem} :
               f = [dir |-> dir, stem |-> stem, ext |-> "pfx", kind |-> "pfx", store |-> pfx]
        \/ f = [dir |-> dir, stem |-> "n", ext |-> "PFX", kind |-> "pfx", store |-> pfx]
        \/ f = [dir |-> dir, stem |-> "m", ext |-> "yks", kind |-> "yks", store |-> yks]
        \/ f = [dir |-> dir, stem |-> "n", ext |-> "yks", kind |-> "yks", store |-> None]
    BY DEF KeyFiles, pfx, yks
  <2> QED
    BY <2>1 DEF Files!HasExtension
<1>2. /\ Files!RangeOf(Files!ListAliases(pfx)) = {"a"}
      /\ AliasesOf(Files!ReadPfx(pfx, "p").keys) = {"a"}
  BY StoresAssumption, PfxOfOneKey
<1>3. /\ {e.alias : e \in Files!RangeOf(Files!ListYtks(yks))} = {"b"}
      /\ AliasesOf(Files!ToPkcs12(Files!ReadYtks(yks, "p")).keys) = {"b"}
  BY YtksOfOneKey
<1> HIDE DEF pfx, yks
<1>4. CASE f.kind = "pfx"
  <2>1. f.store # None => Files!EntriesOf(f, f.kind) = {"a"}
    BY <1>1, <1>2, <1>4 DEF Files!EntriesOf
  <2>2. AliasesOf(Opened(f, "p")) = {"a"}
    BY <1>1, <1>2, <1>4 DEF Opened
  <2> QED
    BY <1>0, <1>1, <2>1, <2>2 DEF ListsItsKey
<1>5. CASE f.kind = "yks"
  <2>1. f.store # None => Files!EntriesOf(f, f.kind) = {e.alias : e \in Files!RangeOf(Files!ListYtks(f.store))}
    BY <1>5 DEF Files!EntriesOf
  <2>2. AliasesOf(Opened(f, "p")) = AliasesOf(Files!ToPkcs12(Files!ReadYtks(f.store, "p")).keys)
    BY <1>5 DEF Opened
  <2>3. f.store # None => f.store = yks
    BY <1>1, <1>5
  <2>4. f.store # None => Files!EntriesOf(f, f.kind) = {"b"} /\ AliasesOf(Opened(f, "p")) = {"b"}
    BY <1>3, <2>1, <2>2, <2>3
  <2> QED
    BY <1>0, <1>1, <2>4 DEF ListsItsKey
<1> QED
  BY <1>1, <1>4, <1>5

\* The file systems that are asked about.
KeyDisks(fs) ==
    /\ FileSystem(fs, {"volumes", "folder", DSKEYS})
    /\ \A f \in fs.files : ListsItsKey(f)

LEMMA DiskTaskIs ==
    ASSUME DiskTask
    PROVE  KeyDisks(task.fs)
<1>1. PICK extra \in SUBSET {Inside(Volumes), Folder},
           dirs \in {Directories, Directories \ {Folder}, {Folder}} :
           \E f, g \in UNION {KeyFiles(dir) : dir \in dirs} :
              task = [kind |-> "disks",
                      fs |-> [volumes |-> Volumes, extra |-> extra, dirs |-> dirs, files |-> {f, g}]]
  BY DEF DiskTask
<1>2. PICK f \in UNION {KeyFiles(dir) : dir \in dirs}, g \in UNION {KeyFiles(dir) : dir \in dirs} :
           task = [kind |-> "disks",
                   fs |-> [volumes |-> Volumes, extra |-> extra, dirs |-> dirs, files |-> {f, g}]]
  BY <1>1
<1>3. task.fs.dirs = dirs /\ task.fs.files = {f, g}
  BY <1>2
<1>4. ListsItsKey(f) /\ ListsItsKey(g)
  <2>1. (\E dir : f \in KeyFiles(dir)) /\ (\E dir : g \in KeyFiles(dir))
    OBVIOUS
  <2> QED
    BY <2>1, KeyFileListsItsKey
<1>5. dirs \subseteq Seq({"volumes", "folder", DSKEYS})
  <2>1. /\ Volumes \in Seq({"volumes", "folder", DSKEYS})
        /\ Folder \in Seq({"volumes", "folder", DSKEYS})
    BY DEF Volumes, Folder
  <2>2. \A d \in Seq({"volumes", "folder", DSKEYS}) : Inside(d) \in Seq({"volumes", "folder", DSKEYS})
    BY DEF Inside
  <2> QED
    BY <2>1, <2>2 DEF Directories
<1> QED
  BY Zenon, <1>3, <1>4, <1>5, NamesAssumption DEF KeyDisks, FileSystem

LEMMA EntryOfItsFile ==
    ASSUME NEW fs, NEW kind, NEW disk, NEW i \in Files!ScanDisk(fs, kind, disk)
    PROVE  i.file \in fs.files /\ i.alias \in Files!EntriesOf(i.file, kind)
<1>1. EntryOn(fs, kind, disk, i)
  BY Scanned
<1>2. PICK path \in {"", DSKEYS}, f \in fs.files :
         \E a \in Files!EntriesOf(f, kind) : i = Entry(disk, path, f, a)
  BY Zenon, <1>1 DEF EntryOn
<1>3. PICK a \in Files!EntriesOf(f, kind) : i = Entry(disk, path, f, a)
  BY Zenon, <1>2
<1>4. i.file = f /\ i.alias = a
  BY Zenon, <1>3 DEF Entry
<1> QED
  BY Zenon, <1>4

\* What is listed is an entry of its file.
LEMMA ListedIsOfItsFile ==
    ASSUME NEW fs, NEW kind, KeyDisks(fs), NEW i \in Files!Scan(fs, kind)
    PROVE  /\ i.file \in fs.files /\ i.name = i.file.stem /\ i.file.kind = kind
           /\ {i.alias} = Files!EntriesOf(i.file, kind) /\ {i.alias} = AliasesOf(Opened(i.file, "p"))
<1>1. Placed(fs, kind, i)
  BY Zenon, FoundSomewhere, ScanIsOfTheFound
<1>2. PICK f \in fs.files : f = i.file /\ i.alias \in Files!EntriesOf(f, kind)
  BY Zenon, <1>1, EntryOfItsFile DEF Placed
<1>3. ListsItsKey(f)
  BY DEF KeyDisks
<1>4. f.kind = kind /\ f.store # None
  BY <1>2, <1>3 DEF ListsItsKey
<1>5. PICK a : Files!EntriesOf(f, kind) = {a} /\ AliasesOf(Opened(f, "p")) = {a}
  BY <1>3, <1>4 DEF ListsItsKey
<1> QED
  BY Zenon, <1>1, <1>2, <1>4, <1>5 DEF Placed

LEMMA ListedKeyOpens ==
    ASSUME NEW fs, NEW kind, KeyDisks(fs), NEW i \in Files!Scan(fs, kind),
           i.file.ext = kind, i.file.stem # HiddenStem
    PROVE  /\ Files!Resolve(fs, i.disk, i.path, i.name, kind) = <<i.file.dir, i.file.stem, i.file.ext>>
           /\ \E k \in Files!RangeOf(Opened(i.file, "p")) : k.alias = i.alias
<1>1. /\ i.file \in fs.files /\ i.name = i.file.stem
      /\ i.alias \in AliasesOf(Opened(i.file, "p"))
  BY ListedIsOfItsFile
<1>2. i.name \notin {HiddenStem, BadStem}
  BY Zenon, <1>1, NamesAssumption DEF KeyDisks, ListsItsKey
<1>3. Files!Resolve(fs, i.disk, i.path, i.name, kind) = <<i.file.dir, i.file.stem, i.file.ext>>
  BY <1>2, ListedIsNamed
<1> QED
  BY <1>1, <1>3 DEF AliasesOf

LEMMA FileIsListedOnce ==
    ASSUME NEW fs, NEW kind, KeyDisks(fs), NEW f \in fs.files,
           f.kind = kind, f.store # None, f.dir \in Files!ListDisks(fs)
    PROVE  Cardinality({i \in Files!Scan(fs, kind) : i.file = f}) = 1
<1>1. ListsItsKey(f)
  BY DEF KeyDisks
<1>2. PICK a : Files!EntriesOf(f, kind) = {a}
  BY <1>1 DEF ListsItsKey
<1>3. PICK i \in Files!Scan(fs, kind) : i.file = f /\ i.alias = a
  <2> DEFINE e == Entry(f.dir, "", f, a)
  <2>1. EntryOn(fs, kind, f.dir, e)
    BY Zenon, <1>1, <1>2 DEF ListsItsKey, Files!Below, EntryOn
  <2>2. e.file = f /\ e.alias = a
    BY DEF Entry
  <2> HIDE DEF e
  <2>3. e \in Files!ScanDisk(fs, kind, f.dir)
    BY <2>1, Scanned
  <2> QED
    BY <2>2, <2>3, TwinIsListed
<1>4. ASSUME NEW j \in Files!Scan(fs, kind), j.file = f PROVE j = i
  <2>1. {j.alias} = {a}
    BY <1>2, <1>4, ListedIsOfItsFile
  <2>2. i.file = j.file /\ i.alias = j.alias
    BY <1>3, <1>4, <2>1
  <2> QED
    BY <2>2, ListedOnce DEF KeyDisks
<1>5. {j \in Files!Scan(fs, kind) : j.file = f} = {i}
  BY <1>3, <1>4
<1> QED
  BY <1>5, FS_Singleton

LEMMA DiskListIsListed ==
    ASSUME NEW fs, NEW kind, NEW disk
    PROVE  IF disk \in Files!ListDisks(fs)
           THEN \A i \in Files!ListCertificates(fs, kind, disk) :
                   \E j \in Files!Scan(fs, kind) : j.file = i.file /\ j.alias = i.alias
           ELSE Files!ListCertificates(fs, kind, disk) = None
<1>1. CASE disk \in Files!ListDisks(fs)
  BY <1>1, TwinIsListed DEF Files!ListCertificates
<1>2. CASE disk \notin Files!ListDisks(fs)
  BY <1>2 DEF Files!ListCertificates
<1> QED
  BY <1>1, <1>2

\* Each key a site is shown is found again where the list says it is and opens
\* under its alias, and each key file on a disk is listed once:
\* EveryListedKeyOpens, for every value of the constants (discovery.rs).
THEOREM SpecEveryListedKeyOpens == Spec => []EveryListedKeyOpens
<1>1. ASSUME Inv, Answered("disks") PROVE EveryListedKeyOpens
  <2> DEFINE fs == task.fs
             disks == Files!ListDisks(fs)
  <2>1. KeyDisks(fs)
    BY <1>1, TaskOfItsKind, DiskTaskIs DEF Inv, Answered
  <2>2. answer = DiskAnswer(task)
    BY <1>1 DEF Inv, Replied, Answered
  <2>3. \A kind \in {"pfx", "yks"} :
          /\ answer[kind] = Files!Scan(fs, kind)
          /\ \A disk \in Directories : answer.one[kind][disk] = Files!ListCertificates(fs, kind, disk)
    BY <2>2 DEF DiskAnswer
  <2> HIDE DEF fs
  <2>4. ASSUME NEW kind \in {"pfx", "yks"}
        PROVE  /\ \A i \in answer[kind] :
                    i.file.ext = kind /\ i.file.stem # HiddenStem =>
                        /\ Files!Resolve(fs, i.disk, i.path, i.name, kind)
                                = <<i.file.dir, i.file.stem, i.file.ext>>
                        /\ \E k \in Files!RangeOf(Opened(i.file, "p")) : k.alias = i.alias
               /\ \A f \in fs.files :
                    f.kind = kind /\ f.store # None /\ f.dir \in disks =>
                        Cardinality({i \in answer[kind] : i.file = f}) = 1
               /\ \A disk \in Directories :
                    IF disk \in disks
                    THEN \A i \in answer.one[kind][disk] :
                            \E j \in answer[kind] : j.file = i.file /\ j.alias = i.alias
                    ELSE answer.one[kind][disk] = None
    <3>1. answer[kind] = Files!Scan(fs, kind)
      BY <2>3
    <3>2. \A i \in answer[kind] :
             i.file.ext = kind /\ i.file.stem # HiddenStem =>
                 /\ Files!Resolve(fs, i.disk, i.path, i.name, kind)
                         = <<i.file.dir, i.file.stem, i.file.ext>>
                 /\ \E k \in Files!RangeOf(Opened(i.file, "p")) : k.alias = i.alias
      BY <2>1, <3>1, ListedKeyOpens
    <3>3. \A f \in fs.files :
             f.kind = kind /\ f.store # None /\ f.dir \in disks =>
                 Cardinality({i \in answer[kind] : i.file = f}) = 1
      BY <2>1, <3>1, FileIsListedOnce
    <3>4. ASSUME NEW disk \in Directories
          PROVE  IF disk \in disks
                 THEN \A i \in answer.one[kind][disk] :
                         \E j \in answer[kind] : j.file = i.file /\ j.alias = i.alias
                 ELSE answer.one[kind][disk] = None
      <4>1. answer.one[kind][disk] = Files!ListCertificates(fs, kind, disk)
        BY <2>3
      <4> QED
        BY <3>1, <4>1, DiskListIsListed
    <3> QED
      BY <3>2, <3>3, <3>4
  <2> QED
    BY <2>4 DEF EveryListedKeyOpens, fs
<1>2. Inv => EveryListedKeyOpens
  BY <1>1 DEF EveryListedKeyOpens
<1> QED
  BY <1>2, TasksAreAnswered, PTL
==============================================================================
