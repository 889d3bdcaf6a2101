----------------------------- MODULE CodecProofs -----------------------------
(***************************************************************************)
(* Proofs about Codec: about the encoder and the decoder on any contents,  *)
(* for bytes of any number of bits, down to what the encoder writes.       *)
(***************************************************************************)
EXTENDS Codec, ByteStreamProofs, FiniteSetTheorems

-----------------------------------------------------------------------------
(* Three words in a row.                                                   *)
Regroups(s, t, u) == (s \o t) \o u = s \o (t \o u)

LEMMA Regrouping ==
    ASSUME NEW S, NEW s \in Seq(S), NEW t \in Seq(S), NEW u \in Seq(S)
    PROVE  Regroups(s, t, u)
    BY ConcatAssociative DEF Regroups

-----------------------------------------------------------------------------
(* Numbers and their digits.                                               *)

(* The values of the first k of n digits, with which Value computes.       *)
Values(digits, base, n) ==
    {u \in [0..n -> Int] :
        u[0] = 0 /\ \A k \in 1..n : u[k] = base * u[k-1] + digits[k]}

LEMMA ValueIs ==
    ASSUME NEW base \in Nat, NEW digits, NEW n \in Nat, n = Len(digits),
           \A k \in 1..n : digits[k] \in Int
    PROVE  \E u \in Values(digits, base, n) : Value(digits, base) = u[n]
PROOF
<1> DEFINE D       == 0..n
           At(g, k) == IF k = 0 THEN 0 ELSE base * g[k-1] + digits[k]
           Step(g) == [k \in D |-> At(g, k)]
           step    == [k \in D |-> [g \in [D -> Int] |-> At(g, k)]]
           rank    == [k \in D |-> k]
           upto    == CHOOSE g : g = Step(g)
<1>1. step \in [D -> [[D -> Int] -> Int]]
    <2>1. ASSUME NEW k \in D, NEW g \in [D -> Int] PROVE At(g, k) \in Int
        <3>1. CASE k = 0
            BY <3>1
        <3>2. CASE k # 0
            <4>1. k-1 \in D /\ k \in 1..n
                BY <3>2
            <4>2. g[k-1] \in Int /\ digits[k] \in Int
                BY <4>1
            <4> QED  BY <3>2, <4>2
        <3> QED  BY <3>1, <3>2
    <2> HIDE DEF At
    <2> QED  BY <2>1
<1>2. ASSUME NEW k \in D, NEW f \in [D -> Int], NEW g \in [D -> Int],
             \A e \in D : rank[e] < rank[k] => f[e] = g[e]
      PROVE  step[k][f] = step[k][g]
    <2>1. k # 0 => k-1 \in D /\ rank[k-1] < rank[k]
        OBVIOUS
    <2>2. At(f, k) = At(g, k)
        BY <1>2, <2>1
    <2> HIDE DEF At, D
    <2> QED  BY <2>2
<1>3. PICK h \in [D -> Int] : \A k \in D : h[k] = step[k][h]
    <2>1. rank \in [D -> 0..n] /\ Int # {}
        OBVIOUS
    <2> HIDE DEF D, step, rank
    <2>2. Ranked(D, Int, n, rank, step)
        BY <1>1, <1>2, <2>1 DEF Ranked
    <2> QED  BY <2>2, RankedRecursion DEF Fixpoints
<1>4. h = Step(h)
    <2>1. \A k \in D : h[k] = At(h, k)
        <3> HIDE DEF At, D
        <3> QED  BY <1>3
    <2> HIDE DEF At, D
    <2> QED  BY <2>1
<1>5. upto = Step(upto)
    <2> HIDE DEF Step
    <2> QED  BY <1>4
<1>6. Value(digits, base) = upto[n]
    BY DEF Value
<1> HIDE DEF upto
<1>7. upto = [k \in D |-> upto[k]]
    <2> HIDE DEF At, D
    <2> QED  BY <1>5
<1>8. upto[0] = 0 /\ \A k \in 1..n : upto[k] = base * upto[k-1] + digits[k]
    <2>1. \A k \in D : upto[k] = At(upto, k)
        <3> HIDE DEF At, D
        <3> QED  BY <1>5
    <2>2. 0 \in D /\ \A k \in 1..n : k \in D /\ k # 0
        OBVIOUS
    <2> HIDE DEF D
    <2> QED  BY <2>1, <2>2
<1>9. D \subseteq {k \in D : upto[k] \in Int}
    <2> DEFINE T == {k \in D : upto[k] \in Int}
    <2>1. 0 \in T
        BY <1>8
    <2>2. ASSUME NEW k \in 1..n, k-1 \in T PROVE k \in T
        <3>1. PICK a \in Int, b \in Int : a = upto[k-1] /\ b = digits[k]
            BY <2>2
        <3>2. upto[k] = base * a + b
            BY <1>8, <3>1
        <3>3. upto[k] \in Int
            BY <3>2
        <3> QED  BY <3>3
    <2> HIDE DEF T
    <2>3. \A k \in 1..n : k-1 \in T => k \in T
        BY <2>2
    <2>4. 0..n \subseteq T
        BY <2>1, <2>3, BoundedInduction
    <2> QED  BY <2>4 DEF T
<1>10. upto \in [D -> Int]
    <2> HIDE DEF D
    <2> QED  BY <1>7, <1>9
<1>11. upto \in Values(digits, base, n)
    BY <1>8, <1>10 DEF Values
<1> QED  BY <1>6, <1>11

(* The results of shifting by k of n digits, with which Shifted computes.  *)
Shifts(value, base, n) ==
    {r \in [0..n -> Int] : r[0] = value /\ \A k \in 1..n : r[k] = r[k-1] \div base}

LEMMA ShiftedIs ==
    ASSUME NEW value \in Int, NEW base \in Nat \ {0}, NEW n \in Nat
    PROVE  \E r \in Shifts(value, base, n) : Shifted(value, base, n) = r[n]
PROOF
<1> DEFINE D       == 0..n
           At(g, k) == IF k = 0 THEN value ELSE g[k-1] \div base
           Step(g) == [k \in D |-> At(g, k)]
           step    == [k \in D |-> [g \in [D -> Int] |-> At(g, k)]]
           rank    == [k \in D |-> k]
           rest    == CHOOSE g : g = Step(g)
<1>1. step \in [D -> [[D -> Int] -> Int]]
    <2>1. ASSUME NEW k \in D, NEW g \in [D -> Int] PROVE At(g, k) \in Int
        <3>1. CASE k = 0
            BY <3>1
        <3>2. CASE k # 0
            <4>1. k-1 \in D
                BY <3>2
            <4>2. PICK a \in Int : a = g[k-1]
                BY <4>1
            <4>3. a \div base \in Int
                OBVIOUS
            <4> QED  BY <3>2, <4>2, <4>3
        <3> QED  BY <3>1, <3>2
    <2> HIDE DEF At
    <2> QED  BY <2>1
<1>2. ASSUME NEW k \in D, NEW f \in [D -> Int], NEW g \in [D -> Int],
             \A e \in D : rank[e] < rank[k] => f[e] = g[e]
      PROVE  step[k][f] = step[k][g]
    <2>1. k # 0 => k-1 \in D /\ rank[k-1] < rank[k]
        OBVIOUS
    <2>2. At(f, k) = At(g, k)
        BY <1>2, <2>1
    <2> HIDE DEF At, D
    <2> QED  BY <2>2
<1>3. PICK h \in [D -> Int] : \A k \in D : h[k] = step[k][h]
    <2>1. rank \in [D -> 0..n] /\ Int # {}
        OBVIOUS
    <2> HIDE DEF D, step, rank
    <2>2. Ranked(D, Int, n, rank, step)
        BY <1>1, <1>2, <2>1 DEF Ranked
    <2> QED  BY <2>2, RankedRecursion DEF Fixpoints
<1>4. h = Step(h)
    <2>1. \A k \in D : h[k] = At(h, k)
        <3> HIDE DEF At, D
        <3> QED  BY <1>3
    <2> HIDE DEF At, D
    <2> QED  BY <2>1
<1>5. rest = Step(rest)
    <2> HIDE DEF Step
    <2> QED  BY <1>4
<1>6. Shifted(value, base, n) = rest[n]
    BY DEF Shifted
<1> HIDE DEF rest
<1>7. rest = [k \in D |-> rest[k]]
    <2> HIDE DEF At, D
    <2> QED  BY <1>5
<1>8. rest[0] = value /\ \A k \in 1..n : rest[k] = rest[k-1] \div base
    <2>1. \A k \in D : rest[k] = At(rest, k)
        <3> HIDE DEF At, D
        <3> QED  BY <1>5
    <2>2. 0 \in D /\ \A k \in 1..n : k \in D /\ k # 0
        OBVIOUS
    <2> HIDE DEF D
    <2> QED  BY <2>1, <2>2
<1>9. D \subseteq {k \in D : rest[k] \in Int}
    <2> DEFINE T == {k \in D : rest[k] \in Int}
    <2>1. 0 \in T
        BY <1>8
    <2>2. ASSUME NEW k \in 1..n, k-1 \in T PROVE k \in T
        <3>1. PICK a \in Int : a = rest[k-1]
            BY <2>2
        <3>2. rest[k] = a \div base /\ a \div base \in Int
            BY <1>8, <3>1
        <3>3. rest[k] \in Int
            BY <3>2
        <3> QED  BY <3>3
    <2> HIDE DEF T
    <2>3. \A k \in 1..n : k-1 \in T => k \in T
        BY <2>2
    <2>4. 0..n \subseteq T
        BY <2>1, <2>3, BoundedInduction
    <2> QED  BY <2>4 DEF T
<1>10. rest \in [D -> Int]
    <2> HIDE DEF D
    <2> QED  BY <1>7, <1>9
<1>11. rest \in Shifts(value, base, n)
    BY <1>8, <1>10 DEF Shifts
<1> QED  BY <1>6, <1>11

(* One digit more to shift by.                                             *)
LEMMA ShiftedStep ==
    ASSUME NEW value \in Int, NEW base \in Nat \ {0}
    PROVE  /\ Shifted(value, base, 0) = value
           /\ \A n \in Nat : /\ Shifted(value, base, n) \in Int
                             /\ Shifted(value, base, n+1) = Shifted(value, base, n) \div base
PROOF
<1>1. Shifted(value, base, 0) = value
    <2>1. 0 \in Nat
        OBVIOUS
    <2>2. PICK r \in Shifts(value, base, 0) : Shifted(value, base, 0) = r[0]
        BY <2>1, ShiftedIs
    <2> QED  BY <2>2 DEF Shifts
<1>2. ASSUME NEW n \in Nat
      PROVE  /\ Shifted(value, base, n) \in Int
             /\ Shifted(value, base, n+1) = Shifted(value, base, n) \div base
    <2>1. PICK m \in Nat : m = n + 1
        OBVIOUS
    <2>2. PICK r \in [0..n -> Int] :
              /\ r[0] = value /\ \A k \in 1..n : r[k] = r[k-1] \div base
              /\ Shifted(value, base, n) = r[n]
        <3>1. \E r \in Shifts(value, base, n) : Shifted(value, base, n) = r[n]
            BY ShiftedIs
        <3> QED  BY <3>1 DEF Shifts
    <2>3. PICK s \in [0..m -> Int] :
              /\ s[0] = value /\ \A k \in 1..m : s[k] = s[k-1] \div base
              /\ Shifted(value, base, m) = s[m]
        <3>1. \E s \in Shifts(value, base, m) : Shifted(value, base, m) = s[m]
            BY ShiftedIs
        <3> QED  BY <3>1 DEF Shifts
    <2> DEFINE T == {k \in 0..n : s[k] = r[k]}
    <2>4. 0 \in T
        BY <2>2, <2>3
    <2>5. ASSUME NEW k \in 1..n, k-1 \in T PROVE k \in T
        <3>1. k \in 1..m /\ s[k-1] = r[k-1]
            BY <2>1, <2>5
        <3> QED  BY <2>2, <2>3, <3>1
    <2>6. 0..n \subseteq T
        <3> HIDE DEF T
        <3> QED  BY <2>4, <2>5, BoundedInduction
    <2>7. s[n] = r[n]
        BY <2>6
    <2>8. m \in 1..m /\ m - 1 = n
        BY <2>1
    <2>9. s[m] = s[n] \div base
        BY <2>3, <2>8
    <2> QED  BY <2>1, <2>2, <2>3, <2>7, <2>9
<1> QED  BY <1>1, <1>2

(* The value of a sequence is that of a prefix and of one more digit.      *)
LEMMA ValueStep ==
    ASSUME NEW base \in Nat, NEW s \in Seq(Int), NEW x \in Int
    PROVE  /\ Value(<<>>, base) = 0
           /\ Value(s, base) \in Int
           /\ Value(Append(s, x), base) = base * Value(s, base) + x
PROOF
<1>1. Value(<<>>, base) = 0
    <2>1. Len(<<>>) = 0 /\ \A k \in 1..0 : <<>>[k] \in Int
        OBVIOUS
    <2>2. PICK u \in Values(<<>>, base, 0) : Value(<<>>, base) = u[0]
        BY <2>1, ValueIs
    <2> QED  BY <2>2 DEF Values
<1> DEFINE t == Append(s, x)
<1>2. PICK n \in Nat, m \in Nat : n = Len(s) /\ m = n + 1
    OBVIOUS
<1>3. /\ Len(t) = m /\ t[m] = x
      /\ \A k \in 1..n : s[k] \in Int /\ t[k] = s[k]
    BY <1>2
<1> HIDE DEF t
<1>4. PICK u \in [0..n -> Int] :
          /\ u[0] = 0 /\ \A k \in 1..n : u[k] = base * u[k-1] + s[k]
          /\ Value(s, base) = u[n]
    <2>1. n = Len(s) /\ \A k \in 1..n : s[k] \in Int
        BY <1>2, <1>3
    <2>2. \E u \in Values(s, base, n) : Value(s, base) = u[n]
        BY <2>1, ValueIs
    <2> QED  BY <2>2 DEF Values
<1>5. \A k \in 1..m : t[k] \in Int
    <2>1. ASSUME NEW k \in 1..m PROVE k = m \/ k \in 1..n
        BY <1>2
    <2> QED  BY <1>3, <2>1
<1>6. PICK v \in [0..m -> Int] :
          /\ v[0] = 0 /\ \A k \in 1..m : v[k] = base * v[k-1] + t[k]
          /\ Value(t, base) = v[m]
    <2>1. m = Len(t)
        BY <1>3
    <2>2. \E v \in Values(t, base, m) : Value(t, base) = v[m]
        BY <1>5, <2>1, ValueIs
    <2> QED  BY <2>2 DEF Values
<1> DEFINE T == {k \in 0..n : v[k] = u[k]}
<1>7. 0 \in T
    BY <1>4, <1>6
<1>8. ASSUME NEW k \in 1..n, k-1 \in T PROVE k \in T
    <2>1. k \in 1..m /\ v[k-1] = u[k-1] /\ t[k] = s[k]
        BY <1>2, <1>3, <1>8
    <2> QED  BY <1>4, <1>6, <2>1
<1>9. 0..n \subseteq T
    <2> HIDE DEF T
    <2> QED  BY <1>7, <1>8, BoundedInduction
<1>10. v[n] = u[n]
    BY <1>9
<1>11. m \in 1..m /\ m - 1 = n
    BY <1>2
<1>12. v[m] = base * v[n] + x
    BY <1>3, <1>6, <1>11
<1> QED  BY <1>1, <1>4, <1>6, <1>10, <1>12 DEF t

(* Digits that are natural numbers have a natural value.                   *)
LEMMA ValueNat ==
    ASSUME NEW base \in Nat, NEW s \in Seq(Nat)
    PROVE  Value(s, base) \in Nat
PROOF
<1>1. PICK n \in Nat : n = Len(s)
    OBVIOUS
<1>2. \A k \in 1..n : s[k] \in Nat
    BY <1>1
<1>3. PICK u \in [0..n -> Int] :
          /\ u[0] = 0 /\ \A k \in 1..n : u[k] = base * u[k-1] + s[k]
          /\ Value(s, base) = u[n]
    <2>1. \A k \in 1..n : s[k] \in Int
        BY <1>2
    <2>2. \E u \in Values(s, base, n) : Value(s, base) = u[n]
        BY <1>1, <2>1, ValueIs
    <2> QED  BY <2>2 DEF Values
<1> DEFINE T == {k \in 0..n : u[k] \in Nat}
<1>4. 0 \in T
    BY <1>3
<1>5. ASSUME NEW k \in 1..n, k-1 \in T PROVE k \in T
    <2>1. PICK a \in Nat, b \in Nat : a = u[k-1] /\ b = s[k]
        BY <1>2, <1>5
    <2>2. PICK c \in Nat : c = base * a
        OBVIOUS
    <2>3. u[k] = c + b
        BY <1>3, <2>1, <2>2
    <2>4. u[k] \in Nat
        BY <2>3
    <2> QED  BY <2>4
<1>6. 0..n \subseteq T
    <2> HIDE DEF T
    <2> QED  BY <1>4, <1>5, BoundedInduction
<1>7. u[n] \in Nat
    BY <1>6
<1> QED  BY <1>3, <1>7

-----------------------------------------------------------------------------
(* Bytes.                                                                  *)


(* A bit more on either side of an inequality.                             *)
LEMMA BitMore ==
    ASSUME NEW c \in Nat, NEW d \in Nat, c < d, NEW e \in {0, 1}
    PROVE  /\ 2 * c + e \in Nat /\ 2 * d \in Nat
           /\ 2 * c + e < 2 * d /\ d > 0
    OBVIOUS

(* One and ByteBits zeros, digit by digit; and the digits of a byte.       *)
LEMMA BytePowers ==
    /\ HUF_ASCII_COUNT \in Nat \ {0, 1} /\ HUF_ASCII_COUNT % 2 = 0
    /\ \A s \in Seq({0, 1}) : Len(s) = ByteBits => Value(s, 2) \in Symbols
PROOF
<1> DEFINE a == <<1>> \o Zeros(ByteBits)
<1>1. PICK B \in Nat, M \in Nat : B = ByteBits /\ M = B + 1 /\ B # 0
    BY WidthAssumption
<1>2. Len(a) = M /\ a[1] = 1 /\ \A k \in 1..M : a[k] \in Int /\ (k # 1 => a[k] = 0)
    BY <1>1 DEF Zeros
<1> HIDE DEF a
<1>3. PICK u \in [0..M -> Int] :
          /\ u[0] = 0 /\ \A k \in 1..M : u[k] = 2 * u[k-1] + a[k]
          /\ Value(a, 2) = u[M]
    <2>1. \E u \in Values(a, 2, M) : Value(a, 2) = u[M]
        BY <1>2, ValueIs
    <2> QED  BY <2>1 DEF Values
<1>4. HUF_ASCII_COUNT = u[M]
    BY <1>3 DEF HUF_ASCII_COUNT, a
<1>5. u[1] = 1 /\ \A k \in 2..M : u[k] = 2 * u[k-1]
    <2>1. 1 \in 1..M /\ \A k \in 2..M : k \in 1..M /\ k # 1
        BY <1>1
    <2>2. u[1] = 2 * u[1-1] + 1
        BY <1>2, <1>3, <2>1
    <2>3. ASSUME NEW k \in 2..M PROVE u[k] = 2 * u[k-1]
        <3>1. k-1 \in 0..M
            BY <1>1
        <3>2. PICK b \in Int : b = u[k-1]
            BY <3>1
        <3>3. u[k] = 2 * b + 0
            BY <1>2, <1>3, <2>1, <3>2
        <3> QED  BY <3>2, <3>3
    <2> QED  BY <1>3, <2>2, <2>3
<1>6. ASSUME NEW s \in [1..B -> {0, 1}], NEW v \in [0..B -> Int], v[0] = 0,
             \A k \in 1..B : v[k] = 2 * v[k-1] + s[k]
      PROVE  /\ v[B] \in Nat /\ v[B] < u[M]
             /\ u[B] \in Nat \ {0} /\ u[M] = 2 * u[B]
    <2> DEFINE T == {k \in 0..B : v[k] \in Nat /\ u[k+1] \in Nat /\ v[k] < u[k+1]
                                  /\ (k > 0 => u[k] > 0)}
    <2>1. 0 \in T
        BY <1>5, <1>6
    <2>2. ASSUME NEW k \in 1..B, k-1 \in T PROVE k \in T
        <3>1. k+1 \in 2..M /\ (k+1)-1 = k /\ (k-1)+1 = k
            BY <1>1
        <3>2. PICK c \in Nat, d \in Nat, e \in {0, 1} : c = v[k-1] /\ d = u[k] /\ e = s[k] /\ c < d
            BY <2>2, <3>1
        <3>3. v[k] = 2 * c + e /\ u[k+1] = 2 * d
            BY <1>5, <1>6, <3>1, <3>2
        <3>4. 2 * c + e \in Nat /\ 2 * d \in Nat /\ 2 * c + e < 2 * d /\ d > 0
            BY <3>2, BitMore
        <3>5. v[k] \in Nat /\ u[k+1] \in Nat /\ v[k] < u[k+1] /\ u[k] > 0
            <4> HIDE DEF T
            <4> QED  BY <3>2, <3>3, <3>4
        <3>6. k \in 0..B
            OBVIOUS
        <3> QED  BY <3>5, <3>6
    <2>3. 0..B \subseteq T
        <3> HIDE DEF T
        <3> QED  BY <2>1, <2>2, BoundedInduction
    <2>4. B \in T
        BY <2>3
    <2>5. M \in 2..M /\ M - 1 = B /\ B + 1 = M
        BY <1>1
    <2>6. u[M] = 2 * u[B]
        BY <1>5, <2>5
    <2>7. u[B] \in Nat \ {0}
        <3>1. B - 1 \in 0..B /\ (B-1) + 1 = B
            BY <1>1
        <3>2. B - 1 \in T
            BY <2>3, <3>1
        <3> QED  BY <1>1, <2>4, <3>1, <3>2
    <2> QED  BY <2>4, <2>5, <2>6, <2>7
<1>7. ASSUME NEW s \in [1..B -> {0, 1}], Len(s) = B
      PROVE  Value(s, 2) \in Nat /\ Value(s, 2) < u[M] /\ u[B] \in Nat \ {0} /\ u[M] = 2 * u[B]
    <2>1. \A k \in 1..B : s[k] \in Int
        OBVIOUS
    <2>2. \E v \in Values(s, 2, B) : Value(s, 2) = v[B]
        BY <1>7, <2>1, ValueIs
    <2>3. PICK v \in [0..B -> Int] :
              /\ v[0] = 0 /\ \A k \in 1..B : v[k] = 2 * v[k-1] + s[k]
              /\ Value(s, 2) = v[B]
        BY <2>2 DEF Values
    <2> QED  BY <1>6, <2>3
<1>8. \A s \in Seq({0, 1}) : Len(s) = ByteBits => Value(s, 2) \in Symbols
    <2>1. ASSUME NEW s \in Seq({0, 1}), Len(s) = ByteBits PROVE Value(s, 2) \in Symbols
        <3>1. s \in [1..B -> {0, 1}] /\ Len(s) = B
            BY <1>1, <2>1
        <3>2. Value(s, 2) \in Nat /\ Value(s, 2) < u[M] /\ u[M] \in Int
            BY <1>7, <3>1, <1>3
        <3> QED  BY <1>4, <3>2 DEF Symbols
    <2> QED  BY <2>1
<1>9. HUF_ASCII_COUNT \in Nat \ {0, 1} /\ HUF_ASCII_COUNT % 2 = 0
    <2> DEFINE s == [k \in 1..B |-> 0]
    <2>1. s \in [1..B -> {0, 1}] /\ Len(s) = B
        OBVIOUS
    <2> HIDE DEF s
    <2>2. PICK h \in Nat \ {0} : u[M] = 2 * h
        BY <1>7, <2>1
    <2>3. 2 * h \in Nat \ {0, 1} /\ (2 * h) % 2 = 0
        OBVIOUS
    <2> QED  BY <1>4, <2>2, <2>3
<1> QED  BY <1>8, <1>9

LEMMA SymbolFacts ==
    /\ HUF_ASCII_COUNT \in Nat \ {0, 1} /\ HUF_BTREE_LEN \in Nat
    /\ 0 \in Symbols /\ \A s \in Symbols : s \in Nat /\ s \in Int
PROOF
<1>1. HUF_ASCII_COUNT \in Nat \ {0, 1}
    BY BytePowers
<1>2. PICK c \in Nat \ {0, 1} : c = HUF_ASCII_COUNT
    BY <1>1
<1>3. 0 \in 0 .. c-1 /\ 4 * c \in Nat
    OBVIOUS
<1>4. \A s \in 0 .. c-1 : s \in Nat /\ s \in Int
    OBVIOUS
<1> QED  BY <1>1, <1>2, <1>3, <1>4 DEF Symbols, HUF_BTREE_LEN

LEMMA Remainders ==
    ASSUME NEW n \in Int
    PROVE  n % HUF_ASCII_COUNT \in Symbols
PROOF
<1>1. PICK c \in Nat \ {0} : c = HUF_ASCII_COUNT
    BY BytePowers
<1>2. n % c \in 0 .. c-1
    OBVIOUS
<1> QED  BY <1>1, <1>2 DEF Symbols

(* Fewer bits than a byte has are filled up with zeros.                    *)
LEMMA ByteOfBits ==
    ASSUME NEW s \in Seq({0, 1}), Len(s) <= ByteBits
    PROVE  ByteOf(s) \in Symbols
PROOF
<1> DEFINE z == Zeros(ByteBits - Len(s))
<1>1. PICK n \in Nat : n = ByteBits - Len(s)
    BY WidthAssumption
<1>2. z \in Seq({0, 1}) /\ Len(z) = n
    BY <1>1 DEF Zeros
<1> HIDE DEF z
<1>3. s \o z \in Seq({0, 1}) /\ Len(s \o z) = ByteBits
    BY WidthAssumption, <1>1, <1>2
<1>4. Value(s \o z, 2) \in Symbols
    <2> DEFINE t == s \o z
    <2>1. t \in Seq({0, 1}) /\ Len(t) = ByteBits
        BY <1>3
    <2> HIDE DEF t
    <2>2. Value(t, 2) \in Symbols
        BY <2>1, BytePowers
    <2> QED  BY <2>2 DEF t
<1> QED  BY <1>4 DEF ByteOf, z

(* An integer in memory, and what is read back.                            *)
LEMMA DigitsType ==
    ASSUME NEW value \in Int, NEW width \in Nat
    PROVE  Digits(value, width) \in Seq(Symbols) /\ Len(Digits(value, width)) = width
PROOF
<1>1. ASSUME NEW i \in 1..width
      PROVE  Shifted(value, HUF_ASCII_COUNT, i-1) % HUF_ASCII_COUNT \in Symbols
    <2>1. PICK n \in Nat : n = i - 1
        OBVIOUS
    <2>2. HUF_ASCII_COUNT \in Nat \ {0}
        BY SymbolFacts
    <2>3. Shifted(value, HUF_ASCII_COUNT, n) \in Int
        BY <2>2, ShiftedStep
    <2> QED  BY <2>1, <2>3, Remainders
<1>2. Digits(value, width) \in [1..width -> Symbols]
    BY <1>1 DEF Digits
<1> QED  BY <1>2

LEMMA UnsignedType ==
    ASSUME NEW digits \in Seq(Symbols)
    PROVE  Unsigned(digits) \in Nat
PROOF
<1>1. PICK n \in Nat : n = Len(digits) /\ DOMAIN digits = 1..n
    OBVIOUS
<1>2. ASSUME NEW i \in 1..n PROVE digits[n - i + 1] \in Nat
    <2>1. PICK k \in 1..n : k = n - i + 1
        OBVIOUS
    <2>2. digits[k] \in Symbols
        BY <1>1
    <2> QED  BY <2>1, <2>2, SymbolFacts
<1>3. Reverse(digits) \in Seq(Nat)
    <2>1. Reverse(digits) \in [1..n -> Nat]
        BY <1>1, <1>2 DEF Reverse
    <2> QED  BY <2>1
<1> QED  BY <1>3, SymbolFacts, ValueNat DEF Unsigned

LEMMA SignedType ==
    ASSUME NEW digits \in Seq(Symbols), digits # <<>>
    PROVE  Signed(digits) \in Int
PROOF
<1>1. PICK n \in Nat : n = Len(digits)
    OBVIOUS
<1> DEFINE d == [digits EXCEPT ![n] = SignedTop(@)]
<1>2. n \in 1..n /\ (\A i \in 1..n : digits[i] \in Int) /\ HUF_ASCII_COUNT \in Int
    <2>1. n \in 1..n /\ \A i \in 1..n : digits[i] \in Symbols
        BY <1>1
    <2>2. \A i \in 1..n : digits[i] \in Int
        BY <2>1, SymbolFacts
    <2>3. HUF_ASCII_COUNT \in Int
        BY SymbolFacts
    <2> QED  BY <2>1, <2>2, <2>3
<1>3. SignedTop(digits[n]) \in Int
    BY <1>2 DEF SignedTop
<1>4. Len(d) = n /\ \A i \in 1..n : d[i] \in Int
    <2>1. DOMAIN digits = 1..n
        BY <1>1
    <2>2. d = [i \in 1..n |-> IF i = n THEN SignedTop(digits[n]) ELSE digits[i]]
        BY <2>1
    <2> HIDE DEF d
    <2>3. Len(d) = n
        BY <2>2
    <2>4. \A i \in 1..n : d[i] = IF i = n THEN SignedTop(digits[n]) ELSE digits[i]
        BY <2>2
    <2> QED  BY <1>2, <1>3, <2>3, <2>4
<1> HIDE DEF d
<1>5. Reverse(d) \in Seq(Int)
    <2>1. \A i \in 1..n : d[n - i + 1] \in Int
        <3>1. ASSUME NEW i \in 1..n PROVE d[n - i + 1] \in Int
            <4>1. n - i + 1 \in 1..n
                OBVIOUS
            <4> QED  BY <1>4, <4>1
        <3> QED  BY <3>1
    <2>2. Reverse(d) \in [1..n -> Int]
        BY <1>4, <2>1 DEF Reverse
    <2> QED  BY <2>2
<1>6. Value(Reverse(d), HUF_ASCII_COUNT) \in Int
    BY <1>5, SymbolFacts, ValueStep
<1> QED  BY <1>1, <1>6 DEF Signed, Unsigned, d

-----------------------------------------------------------------------------
(* Trees.                                                                  *)

LEMMA SlotFacts ==
    \E c \in Nat \ {0, 1} :
        /\ HUF_ASCII_COUNT = c /\ Symbols = 0 .. c-1 /\ Slots = 0 .. 2*c-1
        /\ None = -1 /\ None \notin Slots /\ Symbols \subseteq Slots
PROOF
<1>1. PICK c \in Nat \ {0, 1} : c = HUF_ASCII_COUNT
    BY SymbolFacts
<1>2. 0 .. c-1 \subseteq 0 .. 2*c-1 /\ -1 \notin 0 .. 2*c-1
    OBVIOUS
<1> QED  BY <1>1, <1>2 DEF Symbols, Slots, None

(* The way up from a node ends: a parent lies above its children.          *)
Climbs(t) ==
    /\ t.parent \in [Slots -> Slots \cup {None}]
    /\ \A m \in Slots : t.parent[m] # None => m < t.parent[m]

LEMMA NodeToStringIs ==
    ASSUME NEW t, Climbs(t)
    PROVE  \A m \in Slots :
              /\ NodeToString(t, m) \in Seq({0, 1})
              /\ t.parent[m] = None => NodeToString(t, m) = <<>>
              /\ t.parent[m] # None =>
                    NodeToString(t, m) = <<IF t.left[t.parent[m]] = m THEN 0 ELSE 1>>
                                         \o NodeToString(t, t.parent[m])
PROOF
<1>1. PICK N \in Nat : Slots = 0..N /\ None \notin Slots
    <2>1. PICK c \in Nat \ {0, 1} : Slots = 0 .. 2*c-1 /\ None \notin Slots
        BY SlotFacts
    <2>2. 2*c-1 \in Nat
        OBVIOUS
    <2> QED  BY <2>1, <2>2
<1>2. /\ t.parent \in [Slots -> Slots \cup {None}]
      /\ \A m \in Slots : t.parent[m] # None => m < t.parent[m]
    BY DEF Climbs
<1> DEFINE S       == Seq({0, 1})
           Turn(m) == IF t.left[t.parent[m]] = m THEN 0 ELSE 1
           At(g, m) == IF t.parent[m] = None THEN <<>>
                       ELSE <<IF t.left[t.parent[m]] = m THEN 0 ELSE 1>> \o g[t.parent[m]]
           Step(g) == [m \in Slots |-> At(g, m)]
           step    == [m \in Slots |-> [g \in [Slots -> S] |-> At(g, m)]]
           rank    == [m \in Slots |-> N - m]
           path    == CHOOSE g : g = Step(g)
<1>3. ASSUME NEW m \in Slots, NEW g \in [Slots -> S] PROVE At(g, m) \in S
    <2>1. CASE t.parent[m] = None
        BY <2>1
    <2>2. CASE t.parent[m] # None
        <3>1. g[t.parent[m]] \in S
            BY <1>2, <2>2
        <3>2. <<Turn(m)>> \in S
            OBVIOUS
        <3> HIDE DEF Turn
        <3>3. <<Turn(m)>> \o g[t.parent[m]] \in S
            BY <3>1, <3>2
        <3> QED  BY <2>2, <3>3 DEF Turn
    <2> QED  BY <2>1, <2>2
<1>4. step \in [Slots -> [[Slots -> S] -> S]]
    <2> HIDE DEF At, S
    <2> QED  BY <1>3
<1>5. ASSUME NEW k \in Slots, NEW f \in [Slots -> S], NEW g \in [Slots -> S],
             \A e \in Slots : rank[e] < rank[k] => f[e] = g[e]
      PROVE  step[k][f] = step[k][g]
    <2>1. t.parent[k] # None => t.parent[k] \in Slots /\ rank[t.parent[k]] < rank[k]
        <3>1. ASSUME t.parent[k] # None
              PROVE  t.parent[k] \in Slots /\ rank[t.parent[k]] < rank[k]
            <4>1. PICK p \in Slots : p = t.parent[k] /\ k < p
                BY <1>2, <3>1
            <4>2. N - p < N - k
                BY <1>1, <4>1
            <4> QED  BY <4>1, <4>2
        <3> QED  BY <3>1
    <2>2. At(f, k) = At(g, k)
        <3>1. t.parent[k] # None => f[t.parent[k]] = g[t.parent[k]]
            <4> HIDE DEF rank
            <4> QED  BY <1>5, <2>1
        <3> QED  BY <3>1
    <2> HIDE DEF At, S
    <2> QED  BY <2>2
<1>6. PICK h \in [Slots -> S] : \A k \in Slots : h[k] = step[k][h]
    <2>1. rank \in [Slots -> 0..N] /\ S # {}
        <3>1. \A m \in Slots : N - m \in 0..N
            BY <1>1
        <3>2. <<>> \in S
            OBVIOUS
        <3> QED  BY <3>1, <3>2
    <2> HIDE DEF step, rank, S
    <2>2. Ranked(Slots, S, N, rank, step)
        BY <1>4, <1>5, <2>1 DEF Ranked
    <2> QED  BY <2>2, RankedRecursion DEF Fixpoints
<1>7. h = Step(h)
    <2>1. \A k \in Slots : h[k] = At(h, k)
        <3> HIDE DEF At, S
        <3> QED  BY <1>6
    <2> HIDE DEF At
    <2> QED  BY <2>1
<1>8. path = Step(path)
    <2> HIDE DEF Step
    <2> QED  BY <1>7
<1>9. \A m \in Slots : NodeToString(t, m) = path[m]
    BY DEF NodeToString
<1> HIDE DEF path
<1>10. \A m \in Slots : path[m] = At(path, m)
    <2> HIDE DEF At
    <2> QED  BY <1>8
<1>11. Slots \subseteq {m \in Slots : path[m] \in S}
    <2> DEFINE T == {m \in Slots : path[m] \in S}
    <2>1. rank \in [Slots -> 0..N]
        <3>1. \A m \in Slots : N - m \in 0..N
            BY <1>1
        <3> QED  BY <3>1
    <2>2. ASSUME NEW m \in Slots, \A e \in Slots : rank[e] < rank[m] => e \in T
          PROVE  m \in T
        <3>1. CASE t.parent[m] = None
            <4>1. At(path, m) = <<>> /\ <<>> \in S
                BY <3>1
            <4> HIDE DEF At, S
            <4>2. path[m] \in S
                BY <1>10, <4>1
            <4> QED  BY <4>2
        <3>2. CASE t.parent[m] # None
            <4>1. PICK p \in Slots : p = t.parent[m] /\ m < p
                BY <1>2, <3>2
            <4>2. rank[p] < rank[m]
                BY <1>1, <4>1
            <4>3. path[p] \in S
                BY <2>2, <4>1, <4>2
            <4>4. path[m] = <<Turn(m)>> \o path[p]
                BY <1>10, <3>2, <4>1
            <4>5. <<Turn(m)>> \in S
                OBVIOUS
            <4> HIDE DEF Turn
            <4>6. path[m] \in S
                BY <4>3, <4>4, <4>5
            <4> QED  BY <4>6
        <3> QED  BY <3>1, <3>2
    <2>3. Slots \subseteq T
        <3>1. N \in Nat
            OBVIOUS
        <3> HIDE DEF T, rank
        <3>2. Inherited(Slots, rank, T)
            BY <2>2 DEF Inherited
        <3> QED  BY <2>1, <3>1, <3>2, RankedInduction
    <2> QED  BY <2>3 DEF T
<1>12. ASSUME NEW m \in Slots
       PROVE  /\ path[m] \in S
              /\ t.parent[m] = None => path[m] = <<>>
              /\ t.parent[m] # None =>
                    /\ t.parent[m] \in Slots
                    /\ path[m] = <<IF t.left[t.parent[m]] = m THEN 0 ELSE 1>> \o path[t.parent[m]]
    BY <1>2, <1>10, <1>11
<1> HIDE DEF At
<1> QED  BY <1>9, <1>12

(* The way down to the leaves ends: children lie below their parent.       *)
Falls(t) ==
    /\ t.root \in Slots \cup {None}
    /\ t.left \in [Slots -> Slots \cup {None}]
    /\ t.right \in [Slots -> Slots \cup {None}]
    /\ \A n \in Slots : t.left[n] < n /\ t.right[n] < n

(* The preorders of the subtrees.                                          *)
Preorders(t) ==
    {e \in [Slots \cup {None} -> Seq(Int)] :
        /\ e[None] = <<HUF_LEAF_NODE>>
        /\ \A n \in Slots : e[n] = <<n>> \o e[t.left[n]] \o e[t.right[n]]}

LEMMA SerializeIs ==
    ASSUME NEW t, Falls(t)
    PROVE  \E e \in Preorders(t) : Serialize(t) = e[t.root]
PROOF
<1>1. PICK N \in Nat : Slots = 1..N-1 \cup {0} /\ None = -1 /\ N > 0
    <2>1. PICK c \in Nat \ {0, 1} : Slots = 0 .. 2*c-1 /\ None = -1
        BY SlotFacts
    <2>2. 2*c \in Nat /\ 2*c > 0 /\ 0 .. 2*c-1 = (1 .. 2*c-1) \cup {0}
        OBVIOUS
    <2> QED  BY <2>1, <2>2
<1>2. /\ t.root \in Slots \cup {None}
      /\ t.left \in [Slots -> Slots \cup {None}]
      /\ t.right \in [Slots -> Slots \cup {None}]
      /\ \A n \in Slots : t.left[n] < n /\ t.right[n] < n
    BY DEF Falls
<1> DEFINE D       == Slots \cup {None}
           S       == Seq(Int)
           At(g, n) == IF n = None THEN <<HUF_LEAF_NODE>>
                       ELSE <<n>> \o g[t.left[n]] \o g[t.right[n]]
           Step(g) == [n \in D |-> At(g, n)]
           step    == [n \in D |-> [g \in [D -> S] |-> At(g, n)]]
           rank    == [n \in D |-> n + 1]
           elements == CHOOSE g : g = Step(g)
<1>3. ASSUME NEW n \in D, NEW g \in [D -> S] PROVE At(g, n) \in S
    <2>1. CASE n = None
        BY <2>1 DEF HUF_LEAF_NODE
    <2>2. CASE n # None
        <3>1. PICK l \in S, r \in S : l = g[t.left[n]] /\ r = g[t.right[n]]
            BY <1>2, <2>2
        <3>2. <<n>> \in S
            BY <1>1
        <3>3. <<n>> \o l \o r \in S
            BY <3>1, <3>2
        <3> QED  BY <2>2, <3>1, <3>3
    <2> QED  BY <2>1, <2>2
<1>4. step \in [D -> [[D -> S] -> S]]
    <2> HIDE DEF At, S, D
    <2> QED  BY <1>3
<1>5. \A n \in D : n # None => /\ n \in Slots /\ t.left[n] \in D /\ t.right[n] \in D
                               /\ rank[t.left[n]] < rank[n] /\ rank[t.right[n]] < rank[n]
    <2>1. ASSUME NEW n \in D, n # None
          PROVE  /\ n \in Slots /\ t.left[n] \in D /\ t.right[n] \in D
                 /\ rank[t.left[n]] < rank[n] /\ rank[t.right[n]] < rank[n]
        <3>1. n \in Slots
            BY <2>1
        <3>2. PICK l \in D, r \in D : l = t.left[n] /\ r = t.right[n] /\ l < n /\ r < n
            BY <1>2, <3>1
        <3>3. l \in Int /\ r \in Int /\ n \in Int
            BY <1>1
        <3>4. l + 1 < n + 1 /\ r + 1 < n + 1
            BY <3>2, <3>3
        <3> QED  BY <3>1, <3>2, <3>4
    <2> QED  BY <2>1
<1>6. rank \in [D -> 0..N] /\ S # {}
    <2>1. \A n \in D : n + 1 \in 0..N
        BY <1>1
    <2>2. <<>> \in S
        OBVIOUS
    <2> QED  BY <2>1, <2>2
<1>7. ASSUME NEW k \in D, NEW f \in [D -> S], NEW g \in [D -> S],
             \A e \in D : rank[e] < rank[k] => f[e] = g[e]
      PROVE  step[k][f] = step[k][g]
    <2>1. k # None => f[t.left[k]] = g[t.left[k]] /\ f[t.right[k]] = g[t.right[k]]
        <3> HIDE DEF rank, D
        <3> QED  BY <1>5, <1>7
    <2>2. At(f, k) = At(g, k)
        BY <2>1
    <2> HIDE DEF At, S, D
    <2> QED  BY <2>2
<1>8. PICK h \in [D -> S] : \A k \in D : h[k] = step[k][h]
    <2> HIDE DEF step, rank, S, D
    <2>1. Ranked(D, S, N, rank, step)
        BY <1>4, <1>6, <1>7 DEF Ranked
    <2> QED  BY <2>1, RankedRecursion DEF Fixpoints
<1>9. h = Step(h)
    <2>1. \A k \in D : h[k] = At(h, k)
        <3> HIDE DEF At, S, D
        <3> QED  BY <1>8
    <2> HIDE DEF At, D
    <2> QED  BY <2>1
<1>10. elements = Step(elements)
    <2> HIDE DEF Step
    <2> QED  BY <1>9
<1>11. Serialize(t) = elements[t.root]
    BY DEF Serialize
<1> HIDE DEF elements
<1>12. elements = [n \in D |-> elements[n]] /\ \A n \in D : elements[n] = At(elements, n)
    <2>1. \A n \in D : elements[n] = At(elements, n)
        <3> HIDE DEF At, D
        <3> QED  BY <1>10
    <2>2. elements = [n \in D |-> elements[n]]
        <3> HIDE DEF At, D
        <3> QED  BY <1>10
    <2> QED  BY <2>1, <2>2
<1>13. D \subseteq {n \in D : elements[n] \in S}
    <2> DEFINE T == {n \in D : elements[n] \in S}
    <2>1. ASSUME NEW n \in D, \A e \in D : rank[e] < rank[n] => e \in T
          PROVE  n \in T
        <3>1. CASE n = None
            <4>1. At(elements, n) \in S
                BY <3>1 DEF HUF_LEAF_NODE
            <4> HIDE DEF At, S, D
            <4> QED  BY <1>12, <4>1
        <3>2. CASE n # None
            <4>1. PICK l \in D, r \in D : l = t.left[n] /\ r = t.right[n]
                                          /\ rank[l] < rank[n] /\ rank[r] < rank[n]
                <5> HIDE DEF rank, D
                <5> QED  BY <1>5, <3>2
            <4>2. elements[l] \in S /\ elements[r] \in S
                <5> HIDE DEF rank
                <5> QED  BY <2>1, <4>1
            <4>3. elements[n] = <<n>> \o elements[l] \o elements[r]
                <5>1. elements[n] = At(elements, n)
                    BY <1>12
                <5> QED  BY <3>2, <4>1, <5>1
            <4>4. <<n>> \in S
                BY <1>1
            <4>5. elements[n] \in S
                BY <4>2, <4>3, <4>4
            <4> QED  BY <4>5
        <3> QED  BY <3>1, <3>2
    <2>2. D \subseteq T
        <3> HIDE DEF T, rank, D, S
        <3>1. rank \in [D -> 0..N]
            BY <1>6
        <3>2. Inherited(D, rank, T)
            BY <2>1 DEF Inherited
        <3> QED  BY <3>1, <3>2, RankedInduction
    <2> QED  BY <2>2 DEF T
<1>14. elements \in [D -> S]
    <2>1. elements = [n \in D |-> elements[n]]
        BY <1>12
    <2> HIDE DEF D, S
    <2> QED  BY <1>13, <2>1
<1>15. elements \in Preorders(t)
    <2>1. None \in D /\ \A n \in Slots : n \in D /\ n # None
        BY <1>1
    <2>2. elements[None] = At(elements, None) /\ \A n \in Slots : elements[n] = At(elements, n)
        BY <1>12, <2>1
    <2>3. elements[None] = <<HUF_LEAF_NODE>>
        BY <2>2
    <2>4. \A n \in Slots : elements[n] = <<n>> \o elements[t.left[n]] \o elements[t.right[n]]
        BY <2>1, <2>2
    <2> HIDE DEF At
    <2> QED  BY <1>14, <2>3, <2>4 DEF Preorders
<1> QED  BY <1>11, <1>15

(* How many elements the branch at a position takes, as Deserialize        *)
(* computes it.                                                            *)
Spans(elements) ==
    {span \in [Nat -> Nat] :
        \A p \in Nat :
            span[p] = IF p > Len(elements) THEN 0
                      ELSE IF elements[p] = HUF_LEAF_NODE THEN 1
                      ELSE 1 + span[p+1] + span[p + 1 + span[p+1]]}

(* The branch at a position is a node, or NULL.                            *)
Branch(elements, p) ==
    IF p <= Len(elements) /\ elements[p] # HUF_LEAF_NODE THEN p ELSE None

LEMMA DeserializeIs ==
    ASSUME NEW elements \in Seq(Int)
    PROVE  \E span \in Spans(elements) :
              Deserialize(elements) =
                  [root  |-> IF Len(elements) = 0 THEN None ELSE Branch(elements, 1),
                   index |-> elements,
                   left  |-> [p \in 1 .. Len(elements) |-> Branch(elements, p + 1)],
                   right |-> [p \in 1 .. Len(elements) |-> Branch(elements, p + 1 + span[p+1])]]
PROOF
<1>1. PICK count \in Nat, N \in Nat : count = Len(elements) /\ N = count + 1
    OBVIOUS
<1> DEFINE D       == Nat
           At(g, p) == IF p > count THEN 0
                       ELSE IF elements[p] = HUF_LEAF_NODE THEN 1
                       ELSE 1 + g[p+1] + g[p + 1 + g[p+1]]
           Step(g) == [p \in D |-> At(g, p)]
           step    == [p \in D |-> [g \in [D -> D] |-> At(g, p)]]
           rank    == [p \in D |-> IF p > count THEN 0 ELSE N - p]
           span    == CHOOSE g : g = Step(g)
<1>1a. /\ rank \in [D -> 0..N]
      /\ \A k, e \in D : k < e /\ ~ (k > count) => rank[e] < rank[k]
    <2>1. \A p \in Nat : (IF p > count THEN 0 ELSE N - p) \in 0..N
        <3>1. ASSUME NEW p \in Nat PROVE (IF p > count THEN 0 ELSE N - p) \in 0..N
            <4>1. p > count \/ N - p \in 0..N
                BY <1>1
            <4>2. 0 \in 0..N
                OBVIOUS
            <4> QED  BY <4>1, <4>2
        <3> QED  BY <3>1
    <2>2. ASSUME NEW k \in Nat, NEW e \in Nat, k < e, ~ (k > count)
          PROVE  rank[e] < rank[k]
        <3>1. rank[k] = N - k /\ rank[e] = IF e > count THEN 0 ELSE N - e
            BY <2>2
        <3>2. 0 < N - k /\ N - e < N - k
            BY <1>1, <2>2
        <3> HIDE DEF rank
        <3> QED  BY <3>1, <3>2
    <2> QED  BY <2>1, <2>2
<1>2. ASSUME NEW p \in D, NEW g \in [D -> D] PROVE At(g, p) \in D
    <2>1. PICK a \in Nat : a = g[p+1]
        OBVIOUS
    <2>2. PICK b \in Nat : b = g[p + 1 + a]
        OBVIOUS
    <2>3. 1 + a + b \in Nat
        OBVIOUS
    <2> QED  BY <2>1, <2>2, <2>3
<1>3. step \in [D -> [[D -> D] -> D]]
    <2> HIDE DEF At, D
    <2> QED  BY <1>2
<1>4. ASSUME NEW k \in D, NEW f \in [D -> D], NEW g \in [D -> D],
             \A e \in D : rank[e] < rank[k] => f[e] = g[e]
      PROVE  step[k][f] = step[k][g]
    <2>1. At(f, k) = At(g, k)
        <3>1. CASE k > count
            BY <3>1
        <3>2. CASE ~ (k > count)
            <4>1. ASSUME NEW e \in D, k < e PROVE f[e] = g[e]
                <5> HIDE DEF rank, D
                <5>1. rank[e] < rank[k]
                    BY <1>1a, <3>2, <4>1
                <5> QED  BY <1>4, <5>1
            <4>2. PICK a \in Nat : a = f[k+1]
                OBVIOUS
            <4>3. g[k+1] = a
                BY <4>1, <4>2
            <4>4. f[k + 1 + a] = g[k + 1 + a]
                BY <4>1
            <4> QED  BY <4>2, <4>3, <4>4
        <3> QED  BY <3>1, <3>2
    <2> HIDE DEF At, D
    <2> QED  BY <2>1
<1>5. PICK h \in [D -> D] : \A k \in D : h[k] = step[k][h]
    <2>1. D # {}
        OBVIOUS
    <2> HIDE DEF step, rank, D
    <2>2. Ranked(D, D, N, rank, step)
        BY <1>1a, <1>3, <1>4, <2>1 DEF Ranked
    <2> QED  BY <2>2, RankedRecursion DEF Fixpoints
<1>6. h = Step(h)
    <2>1. \A k \in D : h[k] = At(h, k)
        <3> HIDE DEF At, D
        <3> QED  BY <1>5
    <2> HIDE DEF At, D
    <2> QED  BY <2>1
<1>7. span = Step(span)
    <2> HIDE DEF Step
    <2> QED  BY <1>6
<1> DEFINE Node(p) == IF p <= count /\ elements[p] # HUF_LEAF_NODE THEN p ELSE None
<1>8. Deserialize(elements) =
          [root  |-> IF count = 0 THEN None ELSE Node(1),
           index |-> elements,
           left  |-> [p \in 1..count |-> Node(p + 1)],
           right |-> [p \in 1..count |-> Node(p + 1 + span[p+1])]]
    BY <1>1 DEF Deserialize
<1>9. \A p : Node(p) = Branch(elements, p)
    BY <1>1 DEF Branch
<1> HIDE DEF span
<1>10. span = [p \in D |-> span[p]] /\ \A p \in D : span[p] = At(span, p)
    <2>1. \A p \in D : span[p] = At(span, p)
        <3> HIDE DEF At, D
        <3> QED  BY <1>7
    <2>2. span = [p \in D |-> span[p]]
        <3> HIDE DEF At, D
        <3> QED  BY <1>7
    <2> QED  BY <2>1, <2>2
<1>11. D \subseteq {p \in D : span[p] \in D}
    <2> DEFINE T == {p \in D : span[p] \in D}
    <2>2. ASSUME NEW k \in D, \A e \in D : rank[e] < rank[k] => e \in T
          PROVE  k \in T
        <3>1. CASE k > count
            <4>1. At(span, k) = 0
                BY <3>1
            <4> HIDE DEF At
            <4>2. span[k] = 0
                BY <1>10, <4>1
            <4> QED  BY <4>2
        <3>2. CASE ~ (k > count)
            <4>1. ASSUME NEW e \in D, k < e PROVE span[e] \in D
                <5> HIDE DEF rank, D
                <5>1. rank[e] < rank[k]
                    BY <1>1a, <3>2, <4>1
                <5> QED  BY <2>2, <5>1
            <4>2. PICK i \in Nat : i = k + 1 /\ k < i
                OBVIOUS
            <4>3. PICK a \in Nat : a = span[i]
                BY <4>1, <4>2
            <4>4. PICK j \in Nat : j = k + 1 + a /\ k < j
                OBVIOUS
            <4>5. PICK b \in Nat : b = span[j]
                BY <4>1, <4>4
            <4>6. At(span, k) \in Nat
                <5>1. 1 + a + b \in Nat
                    OBVIOUS
                <5> QED  BY <4>2, <4>3, <4>4, <4>5, <5>1
            <4> HIDE DEF At
            <4>7. span[k] \in Nat
                BY <1>10, <4>6
            <4> QED  BY <4>7
        <3> QED  BY <3>1, <3>2
    <2>3. D \subseteq T
        <3> HIDE DEF T, rank, D
        <3>1. Inherited(D, rank, T)
            BY <2>2 DEF Inherited
        <3> QED  BY <1>1a, <3>1, RankedInduction
    <2> QED  BY <2>3 DEF T
<1>12. span \in Spans(elements)
    <2>1. span \in [Nat -> Nat]
        <3>1. span = [p \in D |-> span[p]]
            BY <1>10
        <3>2. span \in [D -> D]
            <4> HIDE DEF D
            <4> QED  BY <1>11, <3>1
        <3> QED  BY <3>2
    <2>2. \A p \in Nat : span[p] = At(span, p)
        BY <1>10
    <2> QED  BY <1>1, <2>1, <2>2 DEF Spans
<1> HIDE DEF Node
<1>13. Deserialize(elements) =
          [root  |-> IF Len(elements) = 0 THEN None ELSE Branch(elements, 1),
           index |-> elements,
           left  |-> [p \in 1 .. Len(elements) |-> Branch(elements, p + 1)],
           right |-> [p \in 1 .. Len(elements) |-> Branch(elements, p + 1 + span[p+1])]]
    BY <1>1, <1>8, <1>9
<1> QED  BY <1>12, <1>13

(* The bytes of a serialized tree, and the elements they hold.             *)
LEMMA TreeBytesType ==
    ASSUME NEW elements \in Seq(Int)
    PROVE  TreeBytes(elements) \in Seq(Symbols)
PROOF
<1>1. PICK n \in Nat, w \in Nat \ {0} : n = Len(elements) /\ w = IntWidth
    BY WidthAssumption
<1>2. n * w \in Nat
    OBVIOUS
<1>3. ASSUME NEW k \in 1 .. n * w
      PROVE  Digits(elements[((k-1) \div w) + 1], w)[((k-1) % w) + 1] \in Symbols
    <2>1. PICK a \in Nat : a = k - 1 /\ a < n * w
        BY <1>2
    <2>2. PICK q \in Nat, r \in 0 .. w-1 : q = a \div w /\ r = a % w /\ a = w * q + r
        <3>1. /\ a \div w \in Nat /\ a % w \in 0 .. w-1
              /\ a = w * (a \div w) + (a % w)
            BY Division
        <3> QED  BY <3>1, Zenon
    <2>3. q < n
        <3> SUFFICES ASSUME n <= q PROVE FALSE
            OBVIOUS
        <3>1. w * n <= w * q
            BY Products
        <3>2. PICK x \in Nat, y \in Nat : x = w * n /\ y = w * q
            OBVIOUS
        <3>3. n * w = x
            BY <3>2
        <3> QED  BY <2>1, <2>2, <3>1, <3>2, <3>3
    <2>4. PICK i \in 1..n, j \in 1..w : i = q + 1 /\ j = r + 1
        BY <2>3
    <2>5. elements[i] \in Int
        BY <1>1
    <2>6. /\ Digits(elements[i], w) \in Seq(Symbols)
          /\ Len(Digits(elements[i], w)) = w
        BY <2>5, DigitsType
    <2>7. Digits(elements[i], w)[j] \in Symbols
        BY <2>6
    <2> QED  BY <2>1, <2>2, <2>4, <2>7
<1>4. TreeBytes(elements) \in [1 .. n * w -> Symbols]
    BY <1>1, <1>3 DEF TreeBytes
<1> QED  BY <1>2, <1>4

LEMMA ElementsType ==
    ASSUME NEW digits \in Seq(Symbols)
    PROVE  Elements(digits) \in Seq(Int)
PROOF
<1>1. PICK n \in Nat, w \in Nat \ {0} : n = Len(digits) /\ w = IntWidth
    BY WidthAssumption
<1>2. PICK m \in Nat : m = n \div w /\ w * m <= n
    <2>1. PICK q \in Nat, r \in 0 .. w-1 : q = n \div w /\ n = w * q + r
        <3>1. /\ n \div w \in Nat /\ n % w \in 0 .. w-1
              /\ n = w * (n \div w) + (n % w)
            BY Division
        <3> QED  BY <3>1, Zenon
    <2>2. PICK x \in Nat : x = w * q
        OBVIOUS
    <2>3. x <= n
        BY <2>1, <2>2
    <2> QED  BY <2>1, <2>2, <2>3
<1>3. ASSUME NEW i \in 1..m
      PROVE  Signed(SubSeq(digits, (i-1) * w + 1, i * w)) \in Int
    <2>1. PICK h \in Nat : h = i - 1
        OBVIOUS
    <2>2. w * h \in Nat /\ w * i = w * h + w /\ w * i <= w * m
        <3>1. w * h \in Nat
            OBVIOUS
        <3>2. w * (h + 1) = w * h + w
            OBVIOUS
        <3>3. i \in Nat /\ i <= m /\ i = h + 1
            BY <2>1
        <3>4. w * i <= w * m
            BY <3>3, Products
        <3> QED  BY <3>1, <3>2, <3>3, <3>4
    <2>3. PICK a \in Nat, b \in Nat : a = w * h /\ b = a + w /\ b = w * i /\ b <= n
        <3>1. PICK a \in Nat, x \in Nat : a = w * h /\ x = w * m
            BY <2>2
        <3> QED  BY <1>2, <2>2, <3>1
    <2>4. (i-1) * w = a /\ i * w = b
        BY <2>1, <2>3
    <2>5. \A k \in a+1 .. b : digits[k] \in Symbols
        <3>1. \A k \in 1..n : digits[k] \in Symbols
            BY <1>1
        <3> QED  BY <2>3, <3>1
    <2>6. SubSeq(digits, a + 1, b) \in Seq(Symbols) /\ SubSeq(digits, a + 1, b) # <<>>
        <3>1. a + 1 \in Nat \ {0} /\ a + 1 <= b /\ b <= n
            BY <2>3
        <3>2. /\ SubSeq(digits, a + 1, b) \in Seq(Symbols)
              /\ Len(SubSeq(digits, a + 1, b)) = b - (a + 1) + 1
            BY <1>1, <3>1, SubSeqProperties
        <3>3. Len(SubSeq(digits, a + 1, b)) # 0
            BY <2>3, <3>2
        <3> DEFINE s == SubSeq(digits, a + 1, b)
        <3>4. s \in Seq(Symbols) /\ Len(s) # 0
            BY <3>2, <3>3
        <3> HIDE DEF s
        <3>5. s # <<>>
            BY <3>4
        <3> QED  BY <3>4, <3>5 DEF s
    <2>7. Signed(SubSeq(digits, a + 1, b)) \in Int
        BY <2>6, SignedType
    <2> QED  BY <2>4, <2>7
<1>4. Elements(digits) \in [1..m -> Int]
    BY <1>1, <1>2, <1>3 DEF Elements
<1> QED  BY <1>4

(* A tree that was read leads from its nodes to its nodes.                 *)
LEMMA ShapeType ==
    ASSUME NEW elements \in Seq(Int)
    PROVE  /\ Deserialize(elements).index = elements
           /\ Deserialize(elements).root \in 1 .. Len(elements) \cup {None}
           /\ \A n \in 1 .. Len(elements) :
                 /\ Deserialize(elements).left[n] \in 1 .. Len(elements) \cup {None}
                 /\ Deserialize(elements).right[n] \in 1 .. Len(elements) \cup {None}
PROOF
<1>1. PICK count \in Nat : count = Len(elements)
    OBVIOUS
<1>2. PICK span \in [Nat -> Nat] :
          Deserialize(elements) =
              [root  |-> IF count = 0 THEN None ELSE Branch(elements, 1),
               index |-> elements,
               left  |-> [p \in 1..count |-> Branch(elements, p + 1)],
               right |-> [p \in 1..count |-> Branch(elements, p + 1 + span[p+1])]]
    BY <1>1, DeserializeIs DEF Spans
<1>3. \A p \in Nat \ {0} : Branch(elements, p) \in 1..count \cup {None}
    BY <1>1 DEF Branch
<1> HIDE DEF Branch
<1>4. ASSUME NEW n \in 1..count
      PROVE  /\ Branch(elements, n + 1) \in 1..count \cup {None}
             /\ Branch(elements, n + 1 + span[n+1]) \in 1..count \cup {None}
    <2>1. PICK a \in Nat : a = span[n+1]
        OBVIOUS
    <2>2. n + 1 \in Nat \ {0} /\ n + 1 + a \in Nat \ {0}
        OBVIOUS
    <2> QED  BY <1>3, <2>1, <2>2
<1>5. Branch(elements, 1) \in 1..count \cup {None}
    <2>1. 1 \in Nat \ {0}
        OBVIOUS
    <2> QED  BY <1>3, <2>1
<1> QED  BY <1>1, <1>2, <1>4, <1>5

-----------------------------------------------------------------------------
(* The tree while it is built.                                             *)

LEMMA LightestIsOne ==
    ASSUME NEW weights \in [Slots -> Nat], NEW S, S \subseteq Slots, S # {}
    PROVE  Lightest(weights, S) \in S
PROOF
<1>1. PICK N \in Nat : Slots = 0..N
    <2>1. PICK c \in Nat \ {0, 1} : Slots = 0 .. 2*c-1
        BY SlotFacts
    <2>2. 2*c-1 \in Nat
        OBVIOUS
    <2> QED  BY <2>1, <2>2
<1> DEFINE R == {weights[i] : i \in S}
<1>2. R \subseteq Nat /\ R # {}
    OBVIOUS
<1>3. PICK r \in R : \A q \in R : r <= q
    <2> HIDE DEF R
    <2> QED  BY <1>2, LeastNatural
<1> DEFINE T == {N - i : i \in {k \in S : weights[k] = r}}
<1>4. T \subseteq Nat /\ T # {}
    <2>1. \A i \in S : i \in 0..N
        BY <1>1
    <2>2. \A i \in 0..N : N - i \in Nat
        OBVIOUS
    <2>3. \E k \in S : weights[k] = r
        OBVIOUS
    <2> QED  BY <2>1, <2>2, <2>3
<1>5. PICK m \in T : \A q \in T : m <= q
    <2> HIDE DEF T
    <2> QED  BY <1>4, LeastNatural
<1>6. PICK i \in S : weights[i] = r /\ m = N - i
    OBVIOUS
<1>7. ASSUME NEW k \in S
      PROVE  weights[i] < weights[k] \/ (weights[i] = weights[k] /\ i >= k)
    <2>1. weights[i] <= weights[k] /\ weights[i] \in Nat /\ weights[k] \in Nat
        BY <1>3, <1>6
    <2>2. ASSUME weights[i] = weights[k] PROVE i >= k
        <3>1. N - k \in T
            BY <1>6, <2>2
        <3>2. N - i <= N - k /\ i \in 0..N /\ k \in 0..N
            BY <1>1, <1>5, <1>6, <3>1
        <3> QED  BY <3>2
    <2> QED  BY <2>1, <2>2
<1> QED  BY <1>7 DEF Lightest

(* The slots that still have a weight.                                     *)
Active(weights, node) == {i \in 0 .. node-1 : weights[i] # 0}

(* Every byte value of the data has either its weight still or a parent;   *)
(* and what is left to merge tells how many nodes there are.               *)
Forest(t, weights, used) ==
    /\ weights \in [Slots -> Nat]
    /\ used \subseteq Symbols /\ t.leaves \subseteq used
    /\ t.node \in HUF_ASCII_COUNT .. 2*HUF_ASCII_COUNT
    /\ Climbs(t) /\ Falls(t)
    /\ \A n \in Slots : n >= t.node => weights[n] = 0
    /\ \A s \in used : weights[s] # 0 \/ s \in t.leaves
    /\ \A s \in Symbols : weights[s] # 0 => s \in used
    /\ \A s \in t.leaves : t.parent[s] # None
    /\ t.root = None =>
          /\ Active(weights, t.node) # {}
          /\ Cardinality(Active(weights, t.node)) + t.node = Cardinality(used) + HUF_ASCII_COUNT
    /\ t.root # None => used \subseteq t.leaves

LEMMA MergeForest ==
    ASSUME NEW t, NEW weights, NEW used, Forest(t, weights, used), t.root = None
    PROVE  LET work == Merge([tree |-> t, rates |-> weights])
           IN  /\ Forest(work.tree, work.rates, used)
               /\ t.node \in Slots
PROOF
<1> DEFINE node   == t.node
           active == {i \in 0 .. node-1 : weights[i] # 0}
           one    == Lightest(weights, active)
           single == active = {one}
           two    == IF single THEN one ELSE Lightest(weights, active \ {one})
           weight == weights[one] + (IF single THEN 0 ELSE weights[two])
           newRates  == [weights EXCEPT ![one] = 0, ![two] = 0, ![node] = weight]
           newParent == [t.parent EXCEPT ![one] = node, ![two] = node]
           newLeft   == [t.left EXCEPT ![node] = one]
           newRight  == [t.right EXCEPT ![node] = IF single THEN None ELSE two]
           newLeaves == t.leaves \cup ({one, two} \cap Symbols)
           newRoot   == IF single THEN node ELSE None
           new == [root |-> newRoot, node |-> node + 1, leaves |-> newLeaves,
                   parent |-> newParent, left |-> newLeft, right |-> newRight]
<1>1. Merge([tree |-> t, rates |-> weights]) = [rates |-> newRates, tree |-> new]
    BY DEF Merge
<1>2. PICK c \in Nat \ {0, 1} :
          /\ HUF_ASCII_COUNT = c /\ Symbols = 0 .. c-1 /\ Slots = 0 .. 2*c-1
          /\ None = -1 /\ None \notin Slots /\ Symbols \subseteq Slots
    BY SlotFacts
<1>3. /\ weights \in [Slots -> Nat]
      /\ used \subseteq Symbols /\ t.leaves \subseteq used
      /\ node \in c .. 2*c
      /\ Climbs(t) /\ Falls(t)
      /\ \A n \in Slots : n >= node => weights[n] = 0
      /\ \A s \in used : weights[s] # 0 \/ s \in t.leaves
      /\ \A s \in Symbols : weights[s] # 0 => s \in used
      /\ \A s \in t.leaves : t.parent[s] # None
      /\ active # {}
      /\ Cardinality(active) + node = Cardinality(used) + c
    BY <1>2 DEF Forest, Active
<1>4. active \subseteq Slots /\ IsFiniteSet(active) /\ Cardinality(active) \in Nat
    <2>1. active \subseteq 0 .. node-1 /\ 0 .. node-1 \subseteq Slots
        <3>1. active \subseteq 0 .. node-1
            OBVIOUS
        <3>2. 0 .. node-1 \subseteq 0 .. 2*c-1
            <4> HIDE DEF node, active
            <4> QED  BY <1>3
        <3> QED  BY <1>2, <3>1, <3>2
    <2>2. IsFiniteSet(0 .. node-1)
        <3>1. 0 \in Int /\ node-1 \in Int
            BY <1>3
        <3> HIDE DEF node
        <3> QED  BY <3>1, FS_Interval
    <2>3. IsFiniteSet(active)
        BY <2>1, <2>2, FS_Subset
    <2> QED  BY <2>1, <2>3, FS_CardinalityType
<1>5. node \in c .. 2*c-1
    <2>1. Cardinality(used) \in Nat /\ Cardinality(used) <= c
        <3>1. IsFiniteSet(Symbols) /\ Cardinality(Symbols) = c
            <4>1. IsFiniteSet(0 .. c-1) /\ Cardinality(0 .. c-1) = c
                <5>1. 0 \in Int /\ c-1 \in Int /\ 0 <= c-1 /\ c-1 - 0 + 1 = c
                    OBVIOUS
                <5> QED  BY <5>1, FS_Interval
            <4> QED  BY <1>2, <4>1
        <3>2. IsFiniteSet(used) /\ Cardinality(used) <= Cardinality(Symbols)
            BY <1>3, <3>1, FS_Subset
        <3> QED  BY <3>1, <3>2, FS_CardinalityType
    <2>2. Cardinality(active) # 0
        BY <1>3, <1>4, FS_EmptySet
    <2> QED  BY <1>3, <1>4, <2>1, <2>2
<1>6. one \in active
    BY <1>3, <1>4, LightestIsOne
<1> HIDE DEF one
<1>7. two \in active /\ (~ single => two # one)
    <2>1. CASE single
        BY <1>6, <2>1
    <2>2. CASE ~ single
        <3>1. active \ {one} # {} /\ active \ {one} \subseteq Slots
            BY <1>4, <1>6, <2>2
        <3>2. Lightest(weights, active \ {one}) \in active \ {one}
            BY <1>3, <3>1, LightestIsOne
        <3> QED  BY <2>2, <3>2
    <2> QED  BY <2>1, <2>2
<1>8. /\ one \in 0 .. node-1 /\ weights[one] \in Nat \ {0}
      /\ two \in 0 .. node-1 /\ weights[two] \in Nat \ {0}
      /\ one \in Slots /\ two \in Slots /\ node \in Slots
      /\ one < node /\ two < node /\ node \notin Symbols
    <2>1. one \in Slots /\ two \in Slots /\ node \in Slots
        BY <1>2, <1>4, <1>5, <1>6, <1>7
    <2>2. node \notin Symbols
        BY <1>2, <1>5
    <2>3. weights[one] \in Nat \ {0} /\ weights[two] \in Nat \ {0}
        BY <1>3, <1>6, <1>7, <2>1
    <2>4. one \in 0 .. node-1 /\ two \in 0 .. node-1
        BY <1>6, <1>7
    <2>5. one < node /\ two < node
        BY <1>3, <2>4
    <2> QED  BY <2>1, <2>2, <2>3, <2>4, <2>5
<1> HIDE DEF two
<1>9. weight \in Nat \ {0}
    <2>1. PICK a \in Nat \ {0}, b \in Nat \ {0} : a = weights[one] /\ b = weights[two]
        BY <1>8
    <2>2. a + b \in Nat \ {0} /\ a + 0 \in Nat \ {0}
        OBVIOUS
    <2> QED  BY <2>1, <2>2
<1> HIDE DEF weight, active, single
<1>10. /\ newRates \in [Slots -> Nat]
       /\ newRates[node] = weight
       /\ \A n \in Slots : n # node => newRates[n] = IF n \in {one, two} THEN 0 ELSE weights[n]
    BY <1>3, <1>8, <1>9
<1>11. /\ newParent \in [Slots -> Slots \cup {None}]
       /\ \A n \in Slots : newParent[n] = IF n \in {one, two} THEN node ELSE t.parent[n]
    <2>1. t.parent \in [Slots -> Slots \cup {None}]
        BY <1>3 DEF Climbs
    <2> QED  BY <1>8, <2>1
<1>12. /\ newLeft \in [Slots -> Slots \cup {None}]
       /\ newRight \in [Slots -> Slots \cup {None}]
       /\ newLeft[node] = one /\ newRight[node] \in {None, two}
       /\ \A n \in Slots : n # node => newLeft[n] = t.left[n] /\ newRight[n] = t.right[n]
    <2>1. t.left \in [Slots -> Slots \cup {None}] /\ t.right \in [Slots -> Slots \cup {None}]
        BY <1>3 DEF Falls
    <2> QED  BY <1>8, <2>1
<1> HIDE DEF newRates, newParent, newLeft, newRight
<1>13. Climbs(new)
    <2>1. \A m \in Slots : newParent[m] # None => m < newParent[m]
        BY <1>3, <1>8, <1>11 DEF Climbs
    <2> QED  BY <1>11, <2>1 DEF Climbs
<1>14. Falls(new)
    <2>1. ASSUME NEW n \in Slots PROVE newLeft[n] < n /\ newRight[n] < n
        <3>1. CASE n = node
            <4>1. None < node
                BY <1>2, <1>5
            <4> QED  BY <1>8, <1>12, <3>1, <4>1
        <3>2. CASE n # node
            BY <1>3, <1>12, <3>2 DEF Falls
        <3> QED  BY <3>1, <3>2
    <2>2. newRoot \in Slots \cup {None}
        BY <1>8
    <2> QED  BY <1>12, <2>1, <2>2 DEF Falls
<1>15. newLeaves \subseteq used
    BY <1>3, <1>8
<1>16. \A n \in Slots : n >= node + 1 => newRates[n] = 0
    <2>1. ASSUME NEW n \in Slots, n >= node + 1 PROVE newRates[n] = 0
        <3>1. n # node /\ n # one /\ n # two /\ n >= node
            <4>1. n \in Int /\ node \in Int /\ one \in Int /\ two \in Int
                BY <1>2, <1>8
            <4> HIDE DEF node
            <4> QED  BY <1>8, <2>1, <4>1
        <3> QED  BY <1>3, <1>10, <3>1
    <2> QED  BY <2>1
<1>17. \A s \in used : newRates[s] # 0 \/ s \in newLeaves
    <2>1. ASSUME NEW s \in used PROVE newRates[s] # 0 \/ s \in newLeaves
        <3>1. s \in Symbols /\ s \in Slots /\ s # node
            BY <1>2, <1>3, <1>8
        <3> QED  BY <1>3, <1>10, <3>1
    <2> QED  BY <2>1
<1>18. \A s \in Symbols : newRates[s] # 0 => s \in used
    <2>1. ASSUME NEW s \in Symbols, newRates[s] # 0 PROVE s \in used
        <3>1. s \in Slots /\ s # node
            BY <1>2, <1>8
        <3> QED  BY <1>3, <1>10, <2>1, <3>1
    <2> QED  BY <2>1
<1>19. \A s \in newLeaves : newParent[s] # None
    <2>1. ASSUME NEW s \in newLeaves PROVE newParent[s] # None
        <3>1. s \in Slots
            BY <1>2, <1>3, <1>15
        <3>2. s \in t.leaves \/ s \in {one, two}
            OBVIOUS
        <3> QED  BY <1>2, <1>3, <1>8, <1>11, <3>1, <3>2
    <2> QED  BY <2>1
<1>20. ASSUME single PROVE Forest(new, newRates, used)
    <2>1. used \subseteq newLeaves
        <3>1. ASSUME NEW s \in used, s \notin t.leaves PROVE s = one
            <4>1. weights[s] # 0 /\ s \in 0 .. node-1
                BY <1>2, <1>3, <1>5, <3>1
            <4> QED  BY <1>20, <4>1 DEF single, active
        <3>2. one \in active /\ \A s \in used : s \in Symbols
            BY <1>3, <1>6
        <3> QED  BY <3>1, <3>2
    <2>2. newRoot = node /\ node # None
        BY <1>2, <1>8, <1>20
    <2>3. node + 1 \in c .. 2*c
        BY <1>5
    <2>4. Forest(new, newRates, used)
        <3> HIDE DEF newLeaves, newRoot, node
        <3> QED  BY <1>2, <1>3, <1>10, <1>13, <1>14, <1>15, <1>16, <1>17, <1>18, <1>19,
                    <2>1, <2>2, <2>3 DEF Forest
    <2> QED  BY <2>4
<1>21. ASSUME ~ single PROVE Forest(new, newRates, used)
    <2> DEFINE others == active \ {one, two}
    <2>1. Active(newRates, node + 1) = others \cup {node}
        <3>1. ASSUME NEW i \in 0 .. (node + 1) - 1
              PROVE  newRates[i] # 0 <=> i \in others \cup {node}
            <4>1. CASE i = node
                BY <1>9, <1>10, <4>1
            <4>2. CASE i # node
                <5>1. i \in 0 .. node-1 /\ i \in Slots
                    BY <1>2, <1>5, <4>2
                <5> QED  BY <1>10, <4>2, <5>1 DEF active
            <4> QED  BY <4>1, <4>2
        <3>2. \A i \in others \cup {node} : i \in 0 .. (node + 1) - 1
            BY <1>5 DEF active
        <3> HIDE DEF others, node
        <3> QED  BY <3>1, <3>2 DEF Active
    <2>2. Cardinality(others \cup {node}) = Cardinality(active) - 1
        <3>1. node \notin others /\ two \in active \ {one}
            <4>1. node \notin 0 .. node-1
                BY <1>5
            <4> QED  BY <1>7, <1>21, <4>1 DEF active
        <3>2. /\ IsFiniteSet(active \ {one})
              /\ Cardinality(active \ {one}) = Cardinality(active) - 1
            BY <1>4, <1>6, FS_RemoveElement
        <3>3. /\ IsFiniteSet((active \ {one}) \ {two})
              /\ Cardinality((active \ {one}) \ {two}) = Cardinality(active \ {one}) - 1
            BY <3>1, <3>2, FS_RemoveElement
        <3>4. others = (active \ {one}) \ {two}
            OBVIOUS
        <3> HIDE DEF others
        <3>5. Cardinality(others \cup {node}) = Cardinality(others) + 1
            BY <3>1, <3>3, <3>4, FS_AddElement
        <3> QED  BY <1>4, <3>2, <3>3, <3>4, <3>5
    <2>3. Cardinality(Active(newRates, node + 1)) + (node + 1) = Cardinality(used) + c
        <3>1. PICK a \in Nat : a = Cardinality(active)
            BY <1>4
        <3>2. Cardinality(Active(newRates, node + 1)) = a - 1
            BY <2>1, <2>2, <3>1
        <3>3. (a - 1) + (node + 1) = a + node
            BY <1>5
        <3> QED  BY <1>3, <3>1, <3>2, <3>3
    <2>4. Active(newRates, node + 1) # {}
        BY <2>1
    <2>5. newRoot = None
        BY <1>21
    <2>6. node + 1 \in c .. 2*c
        BY <1>5
    <2>7. Forest(new, newRates, used)
        <3> HIDE DEF newLeaves, newRoot, node
        <3> QED  BY <1>2, <1>3, <1>10, <1>13, <1>14, <1>15, <1>16, <1>17, <1>18, <1>19,
                    <2>3, <2>4, <2>5, <2>6 DEF Forest
    <2> QED  BY <2>7
<1>22. Forest(new, newRates, used)
    BY <1>20, <1>21
<1> HIDE DEF new
<1> QED  BY <1>1, <1>8, <1>22

(* The weights of some data: a byte value has one when it is in the data.  *)
LEMMA CountForest ==
    ASSUME NEW data \in Seq(Symbols), data # <<>>
    PROVE  Forest(NoTree, Populate(NoRates, data), {data[i] : i \in 1 .. Len(data)})
PROOF
<1> DEFINE used  == {data[i] : i \in 1 .. Len(data)}
           weights == Populate(NoRates, data)
<1>1. PICK c \in Nat \ {0, 1} :
          /\ HUF_ASCII_COUNT = c /\ Symbols = 0 .. c-1 /\ Slots = 0 .. 2*c-1
          /\ None = -1 /\ None \notin Slots /\ Symbols \subseteq Slots
    BY SlotFacts
<1>2. PICK n \in Nat \ {0} : n = Len(data)
    <2>1. Len(data) # 0
        OBVIOUS
    <2> QED  BY <2>1
<1>3. used \subseteq Symbols /\ used # {}
    <2>1. \A i \in 1..n : data[i] \in Symbols
        BY <1>2
    <2>2. 1 \in 1..n
        OBVIOUS
    <2> QED  BY <1>2, <2>1, <2>2
<1>4. ASSUME NEW s \in Slots
      PROVE  weights[s] \in Nat /\ (weights[s] # 0 <=> s \in used)
    <2> DEFINE places == {i \in 1 .. Len(data) : data[i] = s}
    <2>1. IsFiniteSet(places)
        <3>1. IsFiniteSet(1..n)
            BY FS_Interval
        <3>2. places \subseteq 1..n
            BY <1>2
        <3> QED  BY <3>1, <3>2, FS_Subset
    <2>2. weights[s] = 0 + Cardinality(places)
        BY DEF Populate, NoRates
    <2>3. places = {} <=> s \notin used
        OBVIOUS
    <2> HIDE DEF places, used, weights
    <2>4. Cardinality(places) \in Nat /\ (Cardinality(places) = 0 <=> places = {})
        BY <2>1, FS_CardinalityType, FS_EmptySet
    <2> QED  BY <2>2, <2>3, <2>4
<1>5. weights \in [Slots -> Nat]
    <2>1. weights = [s \in Slots |-> weights[s]]
        BY DEF Populate
    <2> HIDE DEF weights
    <2> QED  BY <1>4, <2>1
<1> HIDE DEF weights
<1>6. Climbs(NoTree) /\ Falls(NoTree)
    <2>1. \A s \in Slots : None < s
        BY <1>1
    <2> QED  BY <2>1 DEF Climbs, Falls, NoTree
<1>7. \A s \in Slots : s >= c => weights[s] = 0
    <2>1. \A s \in Slots : s >= c => s \notin Symbols
        BY <1>1
    <2> QED  BY <1>3, <1>4, <2>1
<1>8. Active(weights, c) = used
    <2>1. \A i \in 0 .. c-1 : i \in Slots /\ i \in Symbols
        BY <1>1
    <2>2. \A i \in used : i \in 0 .. c-1
        BY <1>1, <1>3
    <2> HIDE DEF used
    <2> QED  BY <1>4, <2>1, <2>2 DEF Active
<1>9. c \in c .. 2*c
    OBVIOUS
<1>10. /\ NoTree.leaves = {} /\ NoTree.node = c /\ NoTree.root = None
    BY <1>1 DEF NoTree
<1> HIDE DEF used
<1>11. Forest(NoTree, weights, used)
    BY <1>1, <1>3, <1>4, <1>5, <1>6, <1>7, <1>8, <1>9, <1>10 DEF Forest
<1> QED  BY <1>11 DEF used, weights

-----------------------------------------------------------------------------
(* The tree of some data, turn by turn.                                    *)

LEMMA MergedStep ==
    ASSUME NEW weights
    PROVE  /\ Merged(weights, 0) = [tree |-> NoTree, rates |-> weights]
           /\ \A n \in Nat :
                 Merged(weights, n+1) = IF Merged(weights, n).tree.root = None
                                        THEN Merge(Merged(weights, n))
                                        ELSE Merged(weights, n)
PROOF
<1> DEFINE First     == [tree |-> NoTree, rates |-> weights]
           After(w)  == IF w.tree.root = None THEN Merge(w) ELSE w
           At(g, k)  == IF k = 0 THEN First ELSE After(g[k-1])
           Step(g, n) == [k \in 0..n |-> At(g, k)]
           step(n)   == CHOOSE g : g = Step(g, n)
<1>1. ASSUME NEW n \in Nat PROVE Merged(weights, n) = step(n)[n]
    BY DEF Merged
<1> HIDE DEF First, After
<1>2. ASSUME NEW N \in Nat PROVE \E g : g = Step(g, N)
    <2> DEFINE T == {n \in 0..N : \E g : g = Step(g, n)}
    <2>1. 0 \in T
        <3> DEFINE g == [k \in 0..0 |-> First]
        <3>1. g = Step(g, 0)
            <4>1. \A k \in 0..0 : k = 0
                OBVIOUS
            <4> QED  BY <4>1
        <3> HIDE DEF g, Step
        <3> QED  BY <3>1
    <2>2. ASSUME NEW n \in 1..N, n - 1 \in T PROVE n \in T
        <3>1. PICK g : g = Step(g, n-1)
            BY <2>2
        <3>2. \A k \in 0..n-1 : g[k] = At(g, k)
            <4> HIDE DEF At
            <4> QED  BY <3>1
        <3> DEFINE h == [k \in 0..n |-> IF k = n THEN After(g[n-1]) ELSE g[k]]
        <3>3. \A k \in 0..n-1 : h[k] = g[k]
            OBVIOUS
        <3>4. h[n] = After(g[n-1]) /\ n - 1 \in 0..n-1 /\ n # 0
            OBVIOUS
        <3>5. h = [k \in 0..n |-> h[k]]
            OBVIOUS
        <3> HIDE DEF h
        <3>6. ASSUME NEW k \in 0..n PROVE h[k] = At(h, k)
            <4>1. CASE k = n
                BY <3>3, <3>4, <4>1
            <4>2. CASE k = 0
                <5>1. 0 \in 0..n-1
                    OBVIOUS
                <5> QED  BY <3>2, <3>3, <4>2, <5>1
            <4>3. CASE k # n /\ k # 0
                <5>1. k \in 0..n-1 /\ k-1 \in 0..n-1
                    BY <4>3
                <5> QED  BY <3>2, <3>3, <4>3, <5>1
            <4> QED  BY <4>1, <4>2, <4>3
        <3>7. h = Step(h, n)
            <4> HIDE DEF At
            <4> QED  BY <3>5, <3>6
        <3> QED  BY <3>7
    <2>3. N \in T
        <3> HIDE DEF T
        <3>1. 0..N \subseteq T
            BY <2>1, <2>2, BoundedInduction
        <3> QED  BY <3>1
    <2> QED  BY <2>3
<1>3. ASSUME NEW n \in Nat PROVE \A k \in 0..n : step(n)[k] = At(step(n), k)
    <2> DEFINE g == step(n)
    <2>1. g = Step(g, n)
        <3> HIDE DEF Step
        <3> QED  BY <1>2
    <2> HIDE DEF g, At
    <2>2. \A k \in 0..n : g[k] = At(g, k)
        BY <2>1
    <2> QED  BY <2>2 DEF g
<1>4. ASSUME NEW n \in Nat PROVE step(n+1)[n] = step(n)[n]
    <2> DEFINE f == step(n)
               g == step(n+1)
               T == {k \in 0..n : f[k] = g[k]}
    <2>1. (\A k \in 0..n : f[k] = At(f, k)) /\ \A k \in 0..n : g[k] = At(g, k)
        <3>1. n + 1 \in Nat /\ \A k \in 0..n : k \in 0..n+1
            OBVIOUS
        <3> HIDE DEF At, Step
        <3> QED  BY <1>3, <3>1
    <2> HIDE DEF f, g
    <2>2. 0 \in T
        BY <2>1
    <2>3. ASSUME NEW k \in 1..n, k - 1 \in T PROVE k \in T
        <3>1. k \in 0..n /\ k # 0 /\ f[k-1] = g[k-1]
            BY <2>3
        <3> QED  BY <2>1, <3>1
    <2>4. n \in T
        <3> HIDE DEF T
        <3>1. 0..n \subseteq T
            BY <2>2, <2>3, BoundedInduction
        <3> QED  BY <3>1
    <2> QED  BY <2>4 DEF f, g
<1>5. Merged(weights, 0) = First
    <2>1. 0 \in Nat /\ 0 \in 0..0
        OBVIOUS
    <2> DEFINE g == step(0)
    <2>2. g[0] = At(g, 0)
        <3> HIDE DEF At, Step
        <3> QED  BY <1>3, <2>1
    <2>3. Merged(weights, 0) = g[0]
        BY <1>1, <2>1
    <2> HIDE DEF g
    <2> QED  BY <2>2, <2>3
<1>6. ASSUME NEW n \in Nat PROVE Merged(weights, n+1) = After(Merged(weights, n))
    <2>1. n + 1 \in Nat /\ n + 1 \in 0..n+1 /\ n + 1 # 0 /\ (n + 1) - 1 = n
        OBVIOUS
    <2>2. Merged(weights, n+1) = step(n+1)[n+1] /\ Merged(weights, n) = step(n)[n]
        BY <1>1, <2>1
    <2>3. step(n+1)[n+1] = After(step(n+1)[n])
        <3> DEFINE g == step(n+1)
        <3>1. g[n+1] = At(g, n+1)
            <4> HIDE DEF At, Step
            <4> QED  BY <1>3, <2>1
        <3> HIDE DEF g
        <3>2. g[n+1] = After(g[n])
            BY <2>1, <3>1
        <3> QED  BY <3>2 DEF g
    <2> HIDE DEF step
    <2> QED  BY <1>4, <2>2, <2>3
<1> QED  BY <1>5, <1>6 DEF First, After

(* The tree is built in as many turns as there are byte values at most.    *)
Grown(weights, used, n) ==
    LET work == Merged(weights, n)
    IN  /\ Forest(work.tree, work.rates, used)
        /\ work.tree.root = None => work.tree.node = HUF_ASCII_COUNT + n

LEMMA MergedGrows ==
    ASSUME NEW data \in Seq(Symbols), data # <<>>,
           NEW weights, weights = Populate(NoRates, data),
           NEW used, used = {data[i] : i \in 1 .. Len(data)}
    PROVE  /\ \A n \in 0 .. HUF_ASCII_COUNT : Grown(weights, used, n)
           /\ Merged(weights, HUF_ASCII_COUNT).tree.root # None
           /\ \A n \in 0 .. HUF_ASCII_COUNT : Merged(weights, n).tree.root # None =>
                 Merged(weights, n) = Merged(weights, HUF_ASCII_COUNT)
PROOF
<1>1. PICK c \in Nat \ {0, 1} : HUF_ASCII_COUNT = c /\ Symbols = 0 .. c-1
    BY SlotFacts
<1>2. /\ Merged(weights, 0) = [tree |-> NoTree, rates |-> weights]
      /\ \A n \in Nat :
            Merged(weights, n+1) = IF Merged(weights, n).tree.root = None
                                   THEN Merge(Merged(weights, n))
                                   ELSE Merged(weights, n)
    BY MergedStep
<1> DEFINE T == {n \in 0..c : Grown(weights, used, n)}
<1>3. 0 \in T
    <2>1. Forest(NoTree, weights, used)
        BY CountForest
    <2>2. NoTree.node = HUF_ASCII_COUNT + 0
        BY <1>1 DEF NoTree
    <2> QED  BY <1>1, <1>2, <2>1, <2>2 DEF Grown
<1>4. ASSUME NEW n \in 1..c, n - 1 \in T PROVE n \in T
    <2>1. PICK m \in Nat : m = n - 1 /\ n = m + 1 /\ m \in 0..c
        OBVIOUS
    <2>2. Grown(weights, used, m)
        BY <1>4, <2>1
    <2> DEFINE old == Merged(weights, m)
               new == Merged(weights, n)
    <2>3. CASE old.tree.root # None
        <3>1. new = old
            BY <1>2, <2>1, <2>3
        <3>2. Grown(weights, used, n)
            BY <2>2, <2>3, <3>1 DEF Grown
        <3> QED  BY <3>2
    <2>4. CASE old.tree.root = None
        <3>1. new = Merge(old)
            BY <1>2, <2>1, <2>4
        <3>2. Forest(old.tree, old.rates, used) /\ old.tree.node = c + m
            BY <1>1, <2>2, <2>4 DEF Grown
        <3> DEFINE pair == [tree |-> old.tree, rates |-> old.rates]
        <3>3. Merge(old) = Merge(pair)
            BY DEF Merge
        <3> HIDE DEF old, new
        <3>4. Forest(Merge(pair).tree, Merge(pair).rates, used)
            BY <2>4, <3>2, MergeForest
        <3>5. Merge(pair).tree.node = old.tree.node + 1
            BY DEF Merge
        <3>6. new.tree.node = HUF_ASCII_COUNT + n
            BY <1>1, <2>1, <3>1, <3>2, <3>3, <3>5
        <3>7. Grown(weights, used, n)
            BY <3>1, <3>3, <3>4, <3>6 DEF Grown, new
        <3> QED  BY <3>7
    <2> QED  BY <2>3, <2>4
<1>5. 0..c \subseteq T
    <2> HIDE DEF T
    <2> QED  BY <1>3, <1>4, BoundedInduction
<1>6. \A n \in 0..c : Grown(weights, used, n)
    BY <1>5
<1>7. Merged(weights, c).tree.root # None
    <2> SUFFICES ASSUME Merged(weights, c).tree.root = None PROVE FALSE
        OBVIOUS
    <2> DEFINE t == Merged(weights, c).tree
               w == Merged(weights, c).rates
    <2>1. Forest(t, w, used) /\ t.node = c + c
        <3>1. c \in 0..c
            OBVIOUS
        <3>2. Grown(weights, used, c)
            BY <1>6, <3>1
        <3> QED  BY <1>1, <3>2 DEF Grown
    <2>2. /\ Active(w, t.node) # {} /\ IsFiniteSet(Active(w, t.node))
          /\ Cardinality(Active(w, t.node)) + t.node = Cardinality(used) + c
        <3>1. Active(w, t.node) \subseteq 0 .. (c + c) - 1
            BY <2>1 DEF Active
        <3>2. IsFiniteSet(0 .. (c + c) - 1)
            BY FS_Interval
        <3>3. IsFiniteSet(Active(w, t.node))
            BY <3>1, <3>2, FS_Subset
        <3> QED  BY <1>1, <2>1, <3>3 DEF Forest
    <2>3. IsFiniteSet(used) /\ Cardinality(used) \in Nat /\ Cardinality(used) <= c
        <3>1. used \subseteq 0 .. c-1
            <4>1. \A i \in 1 .. Len(data) : data[i] \in Symbols
                OBVIOUS
            <4> QED  BY <1>1, <4>1
        <3>2. IsFiniteSet(0 .. c-1) /\ Cardinality(0 .. c-1) = c
            BY FS_Interval
        <3> QED  BY <3>1, <3>2, FS_Subset, FS_CardinalityType
    <2>4. Cardinality(Active(w, t.node)) \in Nat \ {0}
        BY <2>2, FS_EmptySet, FS_CardinalityType
    <2> HIDE DEF t, w
    <2>5. PICK k \in Nat \ {0}, u \in Nat, d \in Nat :
             k = Cardinality(Active(w, t.node)) /\ u = Cardinality(used) /\ d = t.node
        <3>1. c + c \in Nat
            OBVIOUS
        <3> QED  BY <2>1, <2>3, <2>4, <3>1, Zenon
    <2>6. k + d = u + c /\ d = c + c /\ u <= c
        BY <2>1, <2>2, <2>3, <2>5
    <2> QED  BY <2>6
<1>8. ASSUME NEW n \in 0..c, Merged(weights, n).tree.root # None
      PROVE  Merged(weights, n) = Merged(weights, c)
    <2> DEFINE R == {k \in 0..c-n : Merged(weights, n + k) = Merged(weights, n)}
    <2>1. 0 \in R
        OBVIOUS
    <2>2. ASSUME NEW k \in 1..c-n, k - 1 \in R PROVE k \in R
        <3>1. PICK m \in Nat : m = n + (k - 1) /\ m + 1 = n + k
            OBVIOUS
        <3>2. Merged(weights, m) = Merged(weights, n)
            BY <2>2, <3>1
        <3>3. Merged(weights, m + 1) = Merged(weights, n)
            BY <1>2, <1>8, <3>2
        <3> QED  BY <3>1, <3>3
    <2>3. c - n \in R
        <3>1. c - n \in Nat
            OBVIOUS
        <3> HIDE DEF R
        <3>2. 0..c-n \subseteq R
            BY <2>1, <2>2, <3>1, BoundedInduction
        <3> QED  BY <3>1, <3>2
    <2>4. n + (c - n) = c
        OBVIOUS
    <2> QED  BY <2>3, <2>4
<1> QED  BY <1>1, <1>6, <1>7, <1>8

(* The tree of a block: a forest that is complete.                         *)
LEMMA BlockTreeIs ==
    ASSUME NEW data \in Seq(Symbols), data # <<>>
    PROVE  /\ \E weights : Forest(BlockTree(data), weights, {data[i] : i \in 1 .. Len(data)})
           /\ BlockTree(data).root # None
PROOF
<1> DEFINE weights == Populate(NoRates, data)
           used == {data[i] : i \in 1 .. Len(data)}
<1>1. HUF_ASCII_COUNT \in 0 .. HUF_ASCII_COUNT
    <2>1. HUF_ASCII_COUNT \in Nat
        BY SymbolFacts
    <2> QED  BY <2>1
<1>2. Grown(weights, used, HUF_ASCII_COUNT) /\ Merged(weights, HUF_ASCII_COUNT).tree.root # None
    BY <1>1, MergedGrows
<1>3. BlockTree(data) = Merged(weights, HUF_ASCII_COUNT).tree
    BY DEF BlockTree, FromHistogram
<1> QED  BY <1>2, <1>3 DEF Grown

-----------------------------------------------------------------------------
(* The bits of a block.                                                    *)

LEMMA ReverseIs ==
    ASSUME NEW S, NEW s \in Seq(S)
    PROVE  /\ Reverse(s) \in Seq(S) /\ Len(Reverse(s)) = Len(s)
           /\ \A i \in 1 .. Len(s) : Reverse(s)[i] = s[Len(s) - i + 1]
PROOF
<1>1. PICK n \in Nat : n = Len(s)
    OBVIOUS
<1>2. \A i \in 1..n : s[i] \in S
    BY <1>1
<1>3. \A i \in 1..n : n - i + 1 \in 1..n
    OBVIOUS
<1>4. Reverse(s) = [i \in 1..n |-> s[n - i + 1]]
    BY <1>1 DEF Reverse
<1>5. Reverse(s) \in [1..n -> S]
    BY <1>2, <1>3, <1>4
<1> QED  BY <1>1, <1>4, <1>5

LEMMA BitsAfterIs ==
    ASSUME NEW t, NEW data \in Seq(Symbols),
           \A i \in 1 .. Len(data) : NodeToString(t, data[i]) \in Seq({0, 1})
    PROVE  /\ \A n \in 0 .. Len(data) : BitsAfter(t, data, n) \in Seq({0, 1})
           /\ BitsAfter(t, data, Len(data)) = <<>>
           /\ \A n \in 0 .. Len(data) - 1 :
                 BitsAfter(t, data, n) = Reverse(NodeToString(t, data[n+1])) \o BitsAfter(t, data, n+1)
PROOF
<1>1. PICK N \in Nat : N = Len(data)
    OBVIOUS
<1> DEFINE D       == 0..N
           S       == Seq({0, 1})
           At(g, k) == IF k = N THEN <<>>
                       ELSE Reverse(NodeToString(t, data[k+1])) \o g[k+1]
           Step(g) == [k \in D |-> At(g, k)]
           step    == [k \in D |-> [g \in [D -> S] |-> At(g, k)]]
           rank    == [k \in D |-> N - k]
           rest    == CHOOSE g : g = Step(g)
<1>2. ASSUME NEW k \in D, k # N
      PROVE  /\ k + 1 \in D /\ rank[k+1] < rank[k]
             /\ Reverse(NodeToString(t, data[k+1])) \in S
    <2>1. k + 1 \in D /\ k + 1 \in 1..N /\ N - (k + 1) < N - k
        BY <1>1, <1>2
    <2>2. NodeToString(t, data[k+1]) \in S
        BY <1>1, <2>1
    <2> QED  BY <2>1, <2>2, ReverseIs
<1>3. ASSUME NEW k \in D, NEW g \in [D -> S] PROVE At(g, k) \in S
    <2>1. CASE k = N
        BY <2>1
    <2>2. CASE k # N
        <3>1. PICK p \in D : p = k + 1
            BY <1>2, <2>2
        <3>2. PICK a \in S, b \in S : a = Reverse(NodeToString(t, data[k+1])) /\ b = g[k+1]
            BY <1>2, <2>2, <3>1
        <3>3. a \o b \in S
            OBVIOUS
        <3> QED  BY <2>2, <3>2, <3>3
    <2> QED  BY <2>1, <2>2
<1>4. step \in [D -> [[D -> S] -> S]]
    <2> HIDE DEF At, S, D
    <2> QED  BY <1>3
<1>5. ASSUME NEW k \in D, NEW f \in [D -> S], NEW g \in [D -> S],
             \A e \in D : rank[e] < rank[k] => f[e] = g[e]
      PROVE  step[k][f] = step[k][g]
    <2>1. At(f, k) = At(g, k)
        <3>1. CASE k = N
            BY <3>1
        <3>2. CASE k # N
            <4>1. f[k+1] = g[k+1]
                <5> HIDE DEF rank, D
                <5> QED  BY <1>2, <1>5, <3>2
            <4> QED  BY <3>2, <4>1
        <3> QED  BY <3>1, <3>2
    <2> HIDE DEF At, S, D
    <2> QED  BY <2>1
<1>6. PICK h \in [D -> S] : \A k \in D : h[k] = step[k][h]
    <2>1. rank \in [D -> 0..N] /\ S # {}
        <3>1. \A m \in D : N - m \in 0..N
            BY <1>1
        <3>2. <<>> \in S
            OBVIOUS
        <3> QED  BY <3>1, <3>2
    <2> HIDE DEF step, rank, S, D
    <2>2. Ranked(D, S, N, rank, step)
        BY <1>4, <1>5, <2>1 DEF Ranked
    <2> QED  BY <2>2, RankedRecursion DEF Fixpoints
<1>7. h = Step(h)
    <2>1. \A k \in D : h[k] = At(h, k)
        <3> HIDE DEF At, S, D
        <3> QED  BY <1>6
    <2> HIDE DEF At, D
    <2> QED  BY <2>1
<1>8. rest = Step(rest)
    <2> HIDE DEF Step
    <2> QED  BY <1>7
<1>9. \A n \in D : BitsAfter(t, data, n) = rest[n]
    BY <1>1 DEF BitsAfter
<1> HIDE DEF rest
<1>10. \A k \in D : rest[k] = At(rest, k)
    <2> HIDE DEF At, D
    <2> QED  BY <1>8
<1>11. D \subseteq {k \in D : rest[k] \in S}
    <2> DEFINE T == {k \in D : rest[k] \in S}
    <2>1. rank \in [D -> 0..N]
        <3>1. \A m \in D : N - m \in 0..N
            BY <1>1
        <3> QED  BY <3>1
    <2>2. ASSUME NEW k \in D, \A e \in D : rank[e] < rank[k] => e \in T
          PROVE  k \in T
        <3>1. CASE k = N
            <4>1. rest[k] = <<>> /\ <<>> \in Seq({0, 1})
                BY <1>10, <3>1
            <4> QED  BY <4>1
        <3>2. CASE k # N
            <4>1. rest[k+1] \in S
                <5>1. k + 1 \in T
                    <6> HIDE DEF T, rank, D
                    <6> QED  BY <1>2, <2>2, <3>2
                <5> QED  BY <5>1
            <4>2. PICK a \in S, b \in S : a = Reverse(NodeToString(t, data[k+1])) /\ b = rest[k+1]
                BY <1>2, <3>2, <4>1
            <4>3. a \o b \in S
                OBVIOUS
            <4>4. rest[k] = a \o b
                BY <1>10, <3>2, <4>2
            <4> QED  BY <4>3, <4>4
        <3> QED  BY <3>1, <3>2
    <2>3. D \subseteq T
        <3>1. N \in Nat
            OBVIOUS
        <3> HIDE DEF T, rank, D
        <3>2. Inherited(D, rank, T)
            BY <2>2 DEF Inherited
        <3> QED  BY <2>1, <3>1, <3>2, RankedInduction
    <2> QED  BY <2>3
<1>12. N \in D /\ \A n \in 0..N-1 : n \in D /\ n # N /\ n + 1 \in D
    BY <1>1
<1>13. \A n \in D : BitsAfter(t, data, n) \in S
    BY <1>9, <1>11
<1>14. BitsAfter(t, data, N) = <<>>
    BY <1>9, <1>10, <1>12
<1>15. \A n \in 0..N-1 : BitsAfter(t, data, n)
                            = Reverse(NodeToString(t, data[n+1])) \o BitsAfter(t, data, n+1)
    <2>1. ASSUME NEW n \in 0..N-1
          PROVE  rest[n] = Reverse(NodeToString(t, data[n+1])) \o rest[n+1]
        BY <1>10, <1>12
    <2> HIDE DEF D
    <2> QED  BY <1>9, <1>12, <2>1
<1> QED  BY <1>1, <1>13, <1>14, <1>15

-----------------------------------------------------------------------------
(* Bits in bytes.                                                          *)

(* The bits that go into byte i of n, for l bits.                          *)
From(i) == (i-1) * ByteBits
Upto(i, n, l) == IF i < n THEN i * ByteBits ELSE l

LEMMA PackedCount ==
    ASSUME NEW l \in Nat, NEW n, n = (l + ByteBits - 1) \div ByteBits
    PROVE  /\ n \in Nat /\ (l = 0 <=> n = 0)
           /\ (l + ByteBits + ByteBits - 1) \div ByteBits = n + 1
           /\ \A i \in 1..n : /\ From(i) \in Nat /\ Upto(i, n, l) \in Nat
                              /\ From(i) < Upto(i, n, l) /\ Upto(i, n, l) <= l
                              /\ Upto(i, n, l) <= From(i) + ByteBits
PROOF
<1>1. PICK B \in Nat \ {0} : B = ByteBits
    BY WidthAssumption
<1>2. PICK r \in 0 .. B-1 : n \in Nat /\ l + B - 1 = B * n + r
    <2>1. l + B - 1 \in Nat
        OBVIOUS
    <2>2. /\ (l + B - 1) \div B \in Nat /\ (l + B - 1) % B \in 0 .. B-1
          /\ l + B - 1 = B * ((l + B - 1) \div B) + ((l + B - 1) % B)
        BY <2>1, Division
    <2> QED  BY <1>1, <2>2, Zenon
<1>3. PICK p \in Nat : p = B * n
    BY <1>2
<1>4. l + B - 1 = p + r /\ p < l + B /\ l <= p
    BY <1>2, <1>3
<1>5. l = 0 <=> n = 0
    <2>1. n # 0 => p >= B
        <3>1. ASSUME n # 0 PROVE p >= B
            <4>1. n \in Nat /\ 1 <= n
                BY <1>2, <3>1
            <4>2. B * 1 <= B * n
                BY <4>1, Products
            <4> QED  BY <1>3, <4>2
        <3> QED  BY <3>1
    <2>2. n = 0 => p = 0
        BY <1>3
    <2> QED  BY <1>4, <2>1, <2>2
<1>6. (l + B + B - 1) \div B = n + 1
    <2>1. n + 1 \in Nat /\ B * (n + 1) = p + B
        BY <1>2, <1>3
    <2>2. l + B + B - 1 = B * (n + 1) + r
        BY WidthAssumption, <1>4, <2>1
    <2> QED  BY <2>1, <2>2, DivisionIs
<1>7. ASSUME NEW i \in 1..n
      PROVE  /\ From(i) \in Nat /\ Upto(i, n, l) \in Nat
             /\ From(i) < Upto(i, n, l) /\ Upto(i, n, l) <= l
             /\ Upto(i, n, l) <= From(i) + ByteBits
    <2>1. n \in Nat /\ i \in Nat /\ i - 1 \in Nat /\ n - 1 \in Nat /\ i - 1 <= n - 1
        BY <1>2
    <2>2. PICK a \in Nat, b \in Nat, c \in Nat : a = B * (i-1) /\ b = B * i /\ c = B * (n-1)
        <3>1. \A x \in Nat : B * x \in Nat
            OBVIOUS
        <3>2. B * (i-1) \in Nat /\ B * i \in Nat /\ B * (n-1) \in Nat
            BY <2>1, <3>1
        <3> QED  BY <3>2, Zenon
    <2>3. b = a + B /\ p = c + B
        BY <1>3, <2>1, <2>2
    <2>4. a <= c
        BY <2>1, <2>2, Products
    <2>5. i < n => b <= c
        <3>1. ASSUME i < n PROVE b <= c
            <4>1. i <= n - 1
                BY <2>1, <3>1
            <4> QED  BY <2>1, <2>2, <4>1, Products
        <3> QED  BY <3>1
    <2>6. From(i) = a /\ Upto(i, n, l) = IF i < n THEN b ELSE l
        <3>1. (i-1) * B = B * (i-1) /\ i * B = B * i
            BY <2>1
        <3> QED  BY <1>1, <2>2, <3>1 DEF From, Upto
    <2>7. ~ (i < n) => i - 1 = n - 1 /\ a = c
        BY WidthAssumption, <2>1, <2>2
    <2>8. CASE i < n
        BY <1>1, <1>4, <2>2, <2>3, <2>4, <2>5, <2>6, <2>8
    <2>9. CASE ~ (i < n)
        BY <1>1, <1>4, <2>2, <2>3, <2>4, <2>6, <2>7, <2>9
    <2> QED  BY <2>8, <2>9
<1> QED  BY <1>1, <1>2, <1>5, <1>6, <1>7

LEMMA PackedType ==
    ASSUME NEW word \in Seq({0, 1})
    PROVE  Packed(word) \in Seq(Symbols)
PROOF
<1>1. PICK l \in Nat : l = Len(word)
    OBVIOUS
<1>2. PICK n \in Nat : n = (l + ByteBits - 1) \div ByteBits
    BY PackedCount
<1>3. ASSUME NEW i \in 1..n
      PROVE  ByteOf(SubSeq(word, From(i) + 1, Upto(i, n, l))) \in Symbols
    <2>1. PICK a \in Nat, b \in Nat :
             a = From(i) /\ b = Upto(i, n, l) /\ a < b /\ b <= l /\ b <= a + ByteBits
        <3>1. /\ From(i) \in Nat /\ Upto(i, n, l) \in Nat
              /\ From(i) < Upto(i, n, l) /\ Upto(i, n, l) <= l
              /\ Upto(i, n, l) <= From(i) + ByteBits
            BY <1>2, PackedCount
        <3> QED  BY <3>1, Zenon
    <2>2. \A k \in a+1 .. b : word[k] \in {0, 1}
        BY <1>1, <2>1
    <2>3. a + 1 \in Int /\ b \in Int /\ a + 1 <= b /\ b - (a + 1) + 1 <= ByteBits
        BY WidthAssumption, <2>1
    <2>4. SubSeq(word, a + 1, b) \in Seq({0, 1}) /\ Len(SubSeq(word, a + 1, b)) <= ByteBits
        BY <2>2, <2>3, SubSeqProperties
    <2> QED  BY <2>1, <2>4, ByteOfBits
<1>4. Packed(word) = [i \in 1..n |-> ByteOf(SubSeq(word, From(i) + 1, Upto(i, n, l)))]
    BY <1>1, <1>2 DEF Packed, From, Upto
<1>5. Packed(word) \in [1..n -> Symbols]
    BY <1>3, <1>4
<1> QED  BY <1>5

(* No bits are no bytes, and at most ByteBits bits are one.                *)
LEMMA PackedShort ==
    /\ Packed(<<>>) = <<>>
    /\ \A word \in Seq({0, 1}) :
          word # <<>> /\ Len(word) <= ByteBits => Packed(word) = <<ByteOf(word)>>
PROOF
<1>1. Packed(<<>>) = <<>>
    <2>1. Len(<<>>) = 0 /\ 0 \in Nat
        OBVIOUS
    <2>2. (Len(<<>>) + ByteBits - 1) \div ByteBits = 0
        BY <2>1, PackedCount
    <2>3. Packed(<<>>) \in Seq(Symbols)
        <3>1. <<>> \in Seq({0, 1})
            OBVIOUS
        <3> QED  BY <3>1, PackedType
    <2>4. DOMAIN Packed(<<>>) = 1..0
        BY <2>2 DEF Packed
    <2> QED  BY <2>3, <2>4, EmptySeq
<1>2. ASSUME NEW word \in Seq({0, 1}), word # <<>>, Len(word) <= ByteBits
      PROVE  Packed(word) = <<ByteOf(word)>>
    <2> PICK B \in Nat \ {0} : B = ByteBits
        BY WidthAssumption
    <2>1. PICK l \in 1..B : l = Len(word)
        <3>1. Len(word) \in Nat \ {0}
            BY <1>2, EmptySeq
        <3> QED  BY <1>2, <3>1
    <2>2. (l + B - 1) \div B = 1
        <3>1. l + B - 1 = B * 1 + (l - 1) /\ l - 1 \in 0 .. B-1
            OBVIOUS
        <3> QED  BY <3>1, DivisionIs
    <2>3. SubSeq(word, (1-1) * B + 1, l) = word
        <3>1. (1-1) * B + 1 = 1
            OBVIOUS
        <3> QED  BY <2>1, <3>1, SubSeqFull
    <2>4. Packed(word) = [i \in 1..1 |-> ByteOf(SubSeq(word, (i-1) * B + 1,
                                              IF i < 1 THEN i * B ELSE l))]
        BY <2>1, <2>2 DEF Packed
    <2>5. \A i \in 1..1 : ByteOf(SubSeq(word, (i-1) * B + 1, IF i < 1 THEN i * B ELSE l))
                          = ByteOf(word)
        <3>1. \A i \in 1..1 : i = 1 /\ ~ (i < 1)
            OBVIOUS
        <3> QED  BY <2>3, <3>1
    <2>6. Packed(word) = [i \in 1..1 |-> ByteOf(word)]
        BY <2>4, <2>5
    <2> QED  BY <2>6
<1> QED  BY <1>1, <1>2

(* A full byte first.                                                      *)
LEMMA PackedStep ==
    ASSUME NEW s \in Seq({0, 1}), Len(s) = ByteBits, NEW r \in Seq({0, 1})
    PROVE  Packed(s \o r) = <<ByteOf(s)>> \o Packed(r)
PROOF
<1>1. PICK l \in Nat, B \in Nat \ {0} : l = Len(r) /\ B = ByteBits
    BY WidthAssumption
<1>2. PICK n \in Nat : n = (l + ByteBits - 1) \div ByteBits
    BY PackedCount
<1> DEFINE w == s \o r
           f == [i \in 1..n+1 |-> ByteOf(SubSeq(w, From(i) + 1, Upto(i, n+1, l + B)))]
           g == [i \in 1..n |-> ByteOf(SubSeq(r, From(i) + 1, Upto(i, n, l)))]
<1>3. w \in Seq({0, 1}) /\ Len(w) = l + B
    BY <1>1
<1>4. Packed(r) = g
    BY <1>1, <1>2 DEF Packed, From, Upto
<1>5. Packed(w) = f
    <2>1. (l + ByteBits + ByteBits - 1) \div ByteBits = n + 1
        BY <1>2, PackedCount
    <2>2. (Len(w) + ByteBits - 1) \div ByteBits = n + 1
        BY <1>1, <1>3, <2>1
    <2> HIDE DEF w
    <2> QED  BY <1>3, <2>2 DEF Packed, From, Upto
<1>6. Packed(r) \in Seq(Symbols) /\ Packed(w) \in Seq(Symbols) /\ ByteOf(s) \in Symbols
    <2>1. Len(s) <= ByteBits
        OBVIOUS
    <2> QED  BY <1>3, <2>1, PackedType, ByteOfBits
<1>7. f[1] = ByteOf(s)
    <2>1. 1 \in 1..n+1 /\ From(1) + 1 = 1
        BY DEF From
    <2>2. Upto(1, n+1, l + B) = B
        <3>1. CASE n = 0
            <4>1. l = 0
                BY <1>2, <3>1, PackedCount
            <4> QED  BY <3>1, <4>1 DEF Upto
        <3>2. CASE n # 0
            <4>1. 1 < n + 1 /\ 1 * B = B
                BY <3>2
            <4> QED  BY <1>1, <4>1 DEF Upto
        <3> QED  BY <3>1, <3>2
    <2>3. SubSeq(w, 1, B) = s
        <3>1. 1 \in 1 .. Len(s) /\ B \in 1 .. Len(s)
            BY <1>1
        <3>2. SubSeq(s \o r, 1, B) = SubSeq(s, 1, B)
            BY <3>1, SubSeqOfConcat1
        <3> QED  BY <1>1, <3>2, SubSeqFull
    <2> HIDE DEF w
    <2> QED  BY <2>1, <2>2, <2>3
<1>8. ASSUME NEW i \in 1..n PROVE f[i+1] = g[i]
    <2>1. PICK a \in Nat, b \in Nat : a = From(i) /\ b = Upto(i, n, l) /\ a < b /\ b <= l
        <3>1. /\ From(i) \in Nat /\ Upto(i, n, l) \in Nat
              /\ From(i) < Upto(i, n, l) /\ Upto(i, n, l) <= l
            BY <1>2, PackedCount
        <3> QED  BY <3>1, Zenon
    <2>2. i + 1 \in 1..n+1 /\ (i + 1) - 1 = i /\ i \in Nat /\ (i + 1 < n + 1 <=> i < n)
        OBVIOUS
    <2>3. From(i+1) = a + B /\ Upto(i+1, n+1, l + B) = b + B
        <3>1. i * B = (i - 1) * B + B /\ (i + 1) * B = i * B + B
            BY <2>2
        <3>2. From(i+1) = a + B
            BY <1>1, <2>1, <2>2, <3>1 DEF From
        <3>3. ASSUME i < n PROVE Upto(i+1, n+1, l + B) = b + B
            <4>1. b = i * B
                BY <1>1, <2>1, <3>3 DEF Upto
            <4>2. Upto(i+1, n+1, l + B) = (i + 1) * B
                BY <1>1, <2>2, <3>3 DEF Upto
            <4> QED  BY <3>1, <4>1, <4>2
        <3>4. ASSUME ~ (i < n) PROVE Upto(i+1, n+1, l + B) = b + B
            <4>1. b = l
                BY <2>1, <3>4 DEF Upto
            <4>2. Upto(i+1, n+1, l + B) = l + B
                BY <2>2, <3>4 DEF Upto
            <4> QED  BY <4>1, <4>2
        <3> QED  BY <3>2, <3>3, <3>4
    <2>4. SubSeq(w, (a + B) + 1, b + B) = SubSeq(r, a + 1, b)
        <3>1. PICK m \in Nat, k \in Nat : m = (a + B) + 1 /\ k = b + B
            BY <2>1
        <3>2. m \in Len(s) + 1 .. Len(s) + Len(r) /\ k \in Len(s) + 1 .. Len(s) + Len(r)
            BY SMTT(20), <1>1, <2>1, <3>1
        <3>3. SubSeq(s \o r, m, k) = SubSeq(r, m - Len(s), k - Len(s))
            BY <3>2, SubSeqOfConcat2
        <3>4. m - Len(s) = a + 1 /\ k - Len(s) = b
            <4>1. PICK x \in Nat, y \in Nat, z \in Nat :
                     x = a /\ y = B /\ z = b /\ Len(s) = y /\ m = (x + y) + 1 /\ k = z + y
                BY <1>1, <2>1, <3>1
            <4> QED  BY <4>1
        <3> QED  BY <3>1, <3>3, <3>4
    <2> HIDE DEF w
    <2> QED  BY <2>1, <2>2, <2>3, <2>4
<1>9. Len(f) = n + 1 /\ Len(g) = n
    <2>1. DOMAIN f = 1..n+1 /\ DOMAIN g = 1..n
        OBVIOUS
    <2> HIDE DEF f, g
    <2> QED  BY <1>4, <1>5, <1>6, <2>1, LenProperties
<1> DEFINE h == <<ByteOf(s)>> \o g
<1>10. h \in Seq(Symbols) /\ Len(h) = n + 1 /\ h[1] = ByteOf(s) /\ \A i \in 1..n : h[i+1] = g[i]
    <2> HIDE DEF g
    <2>1. PICK y \in Symbols : y = ByteOf(s)
        BY <1>6
    <2>2. g \in Seq(Symbols) /\ <<y>> \in Seq(Symbols) /\ Len(<<y>>) = 1 /\ <<y>>[1] = y
        BY <1>4, <1>6
    <2>3. /\ <<y>> \o g \in Seq(Symbols) /\ Len(<<y>> \o g) = 1 + n
          /\ \A k \in 1 .. 1 + n : (<<y>> \o g)[k] = IF k <= 1 THEN <<y>>[k] ELSE g[k - 1]
        BY <1>9, <2>2, ConcatProperties
    <2>4. 1 \in 1 .. 1 + n /\ \A i \in 1..n : i + 1 \in 1 .. 1 + n /\ ~ (i + 1 <= 1) /\ (i + 1) - 1 = i
        OBVIOUS
    <2> HIDE DEF h
    <2>5. h = <<y>> \o g
        BY <2>1 DEF h
    <2> QED  BY <2>1, <2>2, <2>3, <2>4, <2>5
<1> HIDE DEF f, g, h
<1>11. ASSUME NEW k \in 1..n+1 PROVE f[k] = h[k]
    <2>1. k = 1 \/ \E i \in 1..n : k = i + 1
        <3>1. k = 1 \/ (k - 1 \in 1..n /\ k = (k - 1) + 1)
            OBVIOUS
        <3> QED  BY <3>1
    <2> QED  BY <1>7, <1>8, <1>10, <2>1
<1>12. f = h
    BY <1>5, <1>6, <1>9, <1>10, <1>11, SeqEqual
<1> QED  BY <1>4, <1>5, <1>12 DEF h, w

-----------------------------------------------------------------------------
(* The reference encoding.                                                 *)

(* A complete tree of some bytes: each of them has a code word.            *)
LEMMA CompleteTree ==
    ASSUME NEW t, NEW weights, NEW data \in Seq(Symbols), t.root # None,
           Forest(t, weights, {data[i] : i \in 1 .. Len(data)})
    PROVE  /\ \A i \in 1 .. Len(data) : NodeToString(t, data[i]) \in Seq({0, 1})
           /\ Serialize(t) \in Seq(Int) /\ Len(Serialize(t)) \in Nat
PROOF
<1>1. Climbs(t) /\ Falls(t)
    BY DEF Forest
<1>2. ASSUME NEW i \in 1 .. Len(data) PROVE NodeToString(t, data[i]) \in Seq({0, 1})
    <2>1. data[i] \in Symbols
        OBVIOUS
    <2>2. data[i] \in Slots
        BY <2>1, SlotFacts
    <2> QED  BY <1>1, <2>2, NodeToStringIs
<1>3. Serialize(t) \in Seq(Int)
    <2>1. \E e \in Preorders(t) : Serialize(t) = e[t.root]
        BY <1>1, SerializeIs
    <2>2. t.root \in Slots \cup {None}
        BY <1>1 DEF Falls
    <2> QED  BY <2>1, <2>2 DEF Preorders
<1> QED  BY <1>2, <1>3

LEMMA BlockType ==
    ASSUME NEW data \in Seq(Symbols), data # <<>>
    PROVE  Block(data) \in Seq(Symbols)
PROOF
<1> DEFINE t    == BlockTree(data)
           head == Serialize(t)
<1>1. /\ \A i \in 1 .. Len(data) : NodeToString(t, data[i]) \in Seq({0, 1})
      /\ head \in Seq(Int) /\ Len(head) \in Nat
    <2>1. PICK weights : Forest(t, weights, {data[i] : i \in 1 .. Len(data)})
        BY BlockTreeIs
    <2>2. t.root # None
        BY BlockTreeIs
    <2> HIDE DEF t
    <2> QED  BY <2>1, <2>2, CompleteTree
<1> HIDE DEF t, head
<1>2. BitsAfter(t, data, 0) \in Seq({0, 1})
    <2>1. 0 \in 0 .. Len(data)
        OBVIOUS
    <2> QED  BY <1>1, <2>1, BitsAfterIs
<1>3. PICK a \in Seq(Symbols), b \in Seq(Symbols), c \in Seq(Symbols), d \in Seq(Symbols) :
         /\ a = Digits(Len(data), SizeWidth) /\ b = Digits(Len(head), IntWidth)
         /\ c = TreeBytes(head) /\ d = Packed(BitsAfter(t, data, 0))
    <2>1. Len(data) \in Int /\ Len(head) \in Int /\ SizeWidth \in Nat /\ IntWidth \in Nat
        BY WidthAssumption, <1>1
    <2>2. Digits(Len(data), SizeWidth) \in Seq(Symbols) /\ Digits(Len(head), IntWidth) \in Seq(Symbols)
        BY <2>1, DigitsType
    <2>3. TreeBytes(head) \in Seq(Symbols) /\ Packed(BitsAfter(t, data, 0)) \in Seq(Symbols)
        BY <1>1, <1>2, TreeBytesType, PackedType
    <2> QED  BY <2>2, <2>3, Zenon
<1>4. Block(data) = a \o b \o c \o d
    BY <1>3 DEF Block, t, head
<1>5. a \o b \o c \o d \in Seq(Symbols)
    OBVIOUS
<1> QED  BY <1>4, <1>5

(* Where the block that starts at a place ends.                            *)
BlockEnd(data, length, b) == IF b + length < Len(data) THEN b + length ELSE Len(data)

LEMMA BlockEndIs ==
    ASSUME NEW data \in Seq(Symbols), NEW length \in Nat \ {0}, NEW b \in Nat, b < Len(data)
    PROVE  /\ BlockEnd(data, length, b) \in b+1 .. Len(data)
           /\ SubSeq(data, b+1, BlockEnd(data, length, b)) \in Seq(Symbols)
           /\ SubSeq(data, b+1, BlockEnd(data, length, b)) # <<>>
           /\ Block(SubSeq(data, b+1, BlockEnd(data, length, b))) \in Seq(Symbols)
PROOF
<1>1. PICK L \in Nat : L = Len(data)
    OBVIOUS
<1>2. PICK e \in b+1 .. L : e = BlockEnd(data, length, b)
    <2>1. (IF b + length < L THEN b + length ELSE L) \in b+1 .. L
        BY <1>1
    <2> QED  BY <1>1, <2>1 DEF BlockEnd
<1> DEFINE s == SubSeq(data, b+1, e)
<1>3. s \in Seq(Symbols) /\ Len(s) = e - b /\ Len(s) # 0
    <2>1. b + 1 \in Int /\ e \in Int /\ b + 1 <= e /\ \A i \in b+1 .. e : i \in 1 .. L
        OBVIOUS
    <2>2. \A i \in b+1 .. e : data[i] \in Symbols
        BY <1>1, <2>1
    <2>3. e - (b + 1) + 1 = e - b /\ e - b # 0
        OBVIOUS
    <2> QED  BY <2>1, <2>2, <2>3, SubSeqProperties
<1> HIDE DEF s
<1>4. s # <<>>
    BY <1>3, EmptySeq
<1> QED  BY <1>1, <1>2, <1>3, <1>4, BlockType DEF s

LEMMA EncodingFromIs ==
    ASSUME NEW data \in Seq(Symbols), NEW length \in Nat, length # 0 \/ data = <<>>
    PROVE  \A b \in Nat :
              /\ EncodingFrom(data, length, b) \in Seq(Symbols)
              /\ b >= Len(data) => EncodingFrom(data, length, b) = <<>>
              /\ b < Len(data) =>
                    EncodingFrom(data, length, b)
                        = Block(SubSeq(data, b+1, BlockEnd(data, length, b)))
                          \o EncodingFrom(data, length, BlockEnd(data, length, b))
PROOF
<1>1. PICK N \in Nat : N = Len(data)
    OBVIOUS
<1> DEFINE D       == Nat
           S       == Seq(Symbols)
           End(b)  == BlockEnd(data, length, b)
           At(g, b) == IF b >= Len(data) THEN <<>>
                       ELSE Block(SubSeq(data, b+1, End(b))) \o g[End(b)]
           Step(g) == [b \in D |-> At(g, b)]
           step    == [b \in D |-> [g \in [D -> S] |-> At(g, b)]]
           rank    == [b \in D |-> IF b >= N THEN 0 ELSE N - b]
           from    == CHOOSE g : g = Step(g)
<1>2. ASSUME NEW b \in D, ~ (b >= N)
      PROVE  /\ End(b) \in D /\ rank[End(b)] < rank[b]
             /\ Block(SubSeq(data, b+1, End(b))) \in S
    <2>1. b < Len(data) /\ length \in Nat \ {0}
        <3>1. data # <<>>
            BY <1>1, <1>2
        <3> QED  BY <1>1, <1>2, <3>1
    <2>2. PICK e \in b+1 .. N : e = End(b)
        BY <1>1, <2>1, BlockEndIs
    <2>3. e \in D /\ rank[e] < rank[b]
        BY <1>2
    <2>4. Block(SubSeq(data, b+1, End(b))) \in S
        BY <2>1, BlockEndIs
    <2> HIDE DEF End
    <2> QED  BY <2>2, <2>3, <2>4
<1> HIDE DEF End
<1>3. ASSUME NEW b \in D, NEW g \in [D -> S] PROVE At(g, b) \in S
    <2>1. CASE b >= N
        BY <1>1, <2>1
    <2>2. CASE ~ (b >= N)
        <3> HIDE DEF rank, D
        <3>1. PICK p \in D : p = End(b)
            BY <1>2, <2>2
        <3>2. PICK x \in S, y \in S : x = Block(SubSeq(data, b+1, End(b))) /\ y = g[End(b)]
            <4>1. g[End(b)] \in S
                BY <3>1
            <4> QED  BY <1>2, <2>2, <4>1
        <3>3. x \o y \in S
            OBVIOUS
        <3> QED  BY <1>1, <2>2, <3>2, <3>3
    <2> QED  BY <2>1, <2>2
<1>4. step \in [D -> [[D -> S] -> S]]
    <2> HIDE DEF At, S, D
    <2> QED  BY <1>3
<1>5. ASSUME NEW k \in D, NEW f \in [D -> S], NEW g \in [D -> S],
             \A e \in D : rank[e] < rank[k] => f[e] = g[e]
      PROVE  step[k][f] = step[k][g]
    <2>1. At(f, k) = At(g, k)
        <3>1. CASE k >= N
            BY <1>1, <3>1
        <3>2. CASE ~ (k >= N)
            <4>1. f[End(k)] = g[End(k)]
                <5> HIDE DEF rank, D
                <5> QED  BY <1>2, <1>5, <3>2
            <4> QED  BY <1>1, <3>2, <4>1
        <3> QED  BY <3>1, <3>2
    <2> HIDE DEF At, S, D
    <2> QED  BY <2>1
<1>6. rank \in [D -> 0..N]
    <2>1. \A b \in D : (IF b >= N THEN 0 ELSE N - b) \in 0..N
        OBVIOUS
    <2> HIDE DEF D
    <2> QED  BY <2>1
<1>7. PICK h \in [D -> S] : \A k \in D : h[k] = step[k][h]
    <2>1. S # {}
        <3>1. <<>> \in S
            OBVIOUS
        <3> QED  BY <3>1
    <2> HIDE DEF step, rank, S, D
    <2>2. Ranked(D, S, N, rank, step)
        BY <1>4, <1>5, <1>6, <2>1 DEF Ranked
    <2> QED  BY <2>2, RankedRecursion DEF Fixpoints
<1>8. h = Step(h)
    <2>1. \A k \in D : h[k] = At(h, k)
        <3> HIDE DEF At, S, D
        <3> QED  BY <1>7
    <2> HIDE DEF At, D
    <2> QED  BY <2>1
<1>9. from = Step(from)
    <2> HIDE DEF Step
    <2> QED  BY <1>8
<1>10. \A b \in D : EncodingFrom(data, length, b) = from[b]
    BY DEF EncodingFrom, End, BlockEnd
<1> HIDE DEF from
<1>11. \A k \in D : from[k] = At(from, k)
    <2> HIDE DEF At, D
    <2> QED  BY <1>9
<1>12. D \subseteq {k \in D : from[k] \in S}
    <2> DEFINE T == {k \in D : from[k] \in S}
    <2>1. ASSUME NEW k \in D, \A e \in D : rank[e] < rank[k] => e \in T
          PROVE  k \in T
        <3>1. CASE k >= N
            <4>1. from[k] = <<>> /\ <<>> \in S
                BY SMTT(20), <1>1, <1>11, <3>1
            <4> QED  BY <4>1
        <3>2. CASE ~ (k >= N)
            <4>1. from[End(k)] \in S
                <5>1. End(k) \in T
                    <6> HIDE DEF T, rank, D
                    <6> QED  BY <1>2, <2>1, <3>2
                <5> QED  BY <5>1
            <4>2. PICK x \in S, y \in S : x = Block(SubSeq(data, k+1, End(k))) /\ y = from[End(k)]
                BY <1>2, <3>2, <4>1
            <4>3. x \o y \in S
                OBVIOUS
            <4>4. from[k] = x \o y
                BY <1>1, <1>11, <3>2, <4>2
            <4> QED  BY <4>3, <4>4
        <3> QED  BY <3>1, <3>2
    <2>2. D \subseteq T
        <3>1. N \in Nat
            OBVIOUS
        <3> HIDE DEF T, rank, D
        <3>2. Inherited(D, rank, T)
            BY <2>1 DEF Inherited
        <3> QED  BY <1>6, <3>1, <3>2, RankedInduction
    <2> QED  BY <2>2
<1>13. ASSUME NEW b \in D, b >= Len(data) PROVE EncodingFrom(data, length, b) = <<>>
    BY <1>10, <1>11, <1>13
<1>14. ASSUME NEW b \in D, b < Len(data)
       PROVE  EncodingFrom(data, length, b)
                = Block(SubSeq(data, b+1, End(b))) \o EncodingFrom(data, length, End(b))
    <2>1. ~ (b >= N) /\ ~ (b >= Len(data))
        BY <1>1, <1>14
    <2>2. End(b) \in D
        BY <1>2, <2>1
    <2>3. from[b] = Block(SubSeq(data, b+1, End(b))) \o from[End(b)]
        BY <1>11, <2>1
    <2> HIDE DEF D
    <2> QED  BY <1>10, <2>2, <2>3
<1>15. \A b \in D : EncodingFrom(data, length, b) \in S
    <2> HIDE DEF D
    <2> QED  BY <1>10, <1>12
<1> QED  BY <1>13, <1>14, <1>15 DEF End

-----------------------------------------------------------------------------
(* The encoder.                                                            *)


Used == {buf[i] : i \in 1 .. Len(buf)}

(* The code words of a tree.                                               *)
Coding(t) == [s \in Symbols |-> IF s \in t.leaves THEN NodeToString(t, s) ELSE NoCode]

InBlock == {"count", "merge", "coding", "size", "treelength", "tree", "bits"}
Coded   == {"size", "treelength", "tree", "bits"}

EncTypes ==
    /\ source \in Seq(Symbols) /\ size \in Nat /\ blocksize \in Nat
    /\ left \in 0..size /\ need \in 0..size /\ buf \in Seq(Symbols)
    /\ rates \in [Slots -> Nat]
    /\ pos \in 0..need /\ index \in Nat
    /\ bits \in Seq({0, 1}) /\ Len(bits) < ByteBits
    /\ written \in Seq(Symbols) /\ encoded \in Seq(Symbols)

(* The tree is that of the bytes of the block, as far as it is built; the  *)
(* mapping is that of the tree, and the writing is inside a code word.     *)
EncSteps ==
    /\ epc \in {"init", "read", "reset", "flush", "returned"} \cup InBlock
    /\ epc \in {"read", "reset"} \cup InBlock => blocksize > 0 /\ left > 0
    /\ epc \in InBlock => Len(buf) = need /\ need \in 1..left
    /\ epc # "bits" => pos = 0
    /\ epc \in {"init", "read", "count"} => rates = NoRates /\ tree = NoTree
    /\ epc \in {"init", "read", "count", "merge", "coding"} => mapping = NoMapping
    /\ epc \in {"merge", "coding"} \cup Coded => Forest(tree, rates, Used)
    /\ epc = "merge" => tree.root = None
    /\ epc \in {"coding"} \cup Coded => tree.root # None
    /\ epc \in Coded => mapping = Coding(tree)
    /\ epc = "bits" /\ pos < need => index \in 1 .. Len(Code)

EncInv == EncTypes /\ EncSteps

-----------------------------------------------------------------------------
(* The decoder.                                                            *)

Positions == 1 .. Len(shape.index) \cup {None}

DecTypes ==
    /\ stream \in Seq(Symbols) /\ processed \in 0 .. Len(stream)
    /\ chunk \in Nat /\ treelen \in 0 .. HUF_BTREE_LEN
    /\ shape.index \in Seq(Int) /\ shape.root \in Positions /\ last \in Positions
    /\ \A n \in 1 .. Len(shape.index) : shape.left[n] \in Positions /\ shape.right[n] \in Positions
    /\ byte \in Symbols /\ offset \in 0..ByteBits /\ restored \in Nat
    /\ decoded \in Seq(Symbols) /\ output \in Seq(Symbols)

(* Between two blocks no node is left over from the one before.            *)
DecSteps ==
    /\ dpc \notin {"byte", "bit"} => last = None
    /\ dpc = "idle" => processed = 0
    /\ dpc \in {"byte", "bit"} => restored <= chunk
    /\ dpc = "bit" => restored < chunk /\ offset > 0

DecInv == DecTypes /\ DecSteps

-----------------------------------------------------------------------------
(* The steps of the encoder.                                               *)

LEMMA Constants ==
    /\ NoRates \in [Slots -> Nat] /\ <<>> \in Seq(Symbols) /\ <<>> \in Seq({0, 1})
    /\ Len(<<>>) = 0 /\ 0 < ByteBits /\ 0 \in Symbols
    /\ HUF_ASCII_COUNT \in Nat \ {0, 1} /\ HUF_BTREE_LEN \in Nat /\ None = -1
PROOF
<1>1. NoRates \in [Slots -> Nat]
    BY DEF NoRates
<1>2. <<>> \in Seq(Symbols) /\ <<>> \in Seq({0, 1}) /\ Len(<<>>) = 0
    OBVIOUS
<1> QED  BY WidthAssumption, <1>1, <1>2, SymbolFacts DEF None

LEMMA ReturnKeeps ==
    ASSUME EncInv, NEW result, NEW held \in Seq(Symbols), Return(result, held)
    PROVE  EncInv'
PROOF
<1>1. EncTypes'
    BY Constants DEF EncInv, EncTypes, Return
<1>2. EncSteps'
    BY DEF EncSteps, Return, InBlock, Coded
<1> QED  BY <1>1, <1>2 DEF EncInv

LEMMA FailKeeps ==
    ASSUME EncInv, NEW result, NEW data \in Seq(Symbols), ReturnError(result, data)
    PROVE  EncInv'
PROOF
<1>1. PICK n \in 0 .. Len(data) : Return(result, SubSeq(data, 1, n))
    BY DEF ReturnError
<1>2. SubSeq(data, 1, n) \in Seq(Symbols)
    OBVIOUS
<1> QED  BY <1>1, <1>2, ReturnKeeps

LEMMA BeginKeeps ==
    ASSUME EncInv, Begin
    PROVE  EncInv'
PROOF
<1>1. CASE ReturnError("memory", written)
    BY <1>1, FailKeeps DEF EncInv, EncTypes
<1>2. CASE ~ ReturnError("memory", written)
    <2>1. /\ epc = "init" /\ left' = size /\ blocksize' = ChunkLength
          /\ epc' = IF size > 0 THEN "read" ELSE "flush"
          /\ UNCHANGED <<source, size, need, buf, rates, tree, mapping, pos,
                         index, bits, written, eresult, encoded>>
        BY <1>2 DEF Begin
    <2>2. ChunkLength \in Nat /\ (size > 0 => ChunkLength > 0)
        BY DEF ChunkLength, EncInv, EncTypes
    <2>3. EncTypes'
        BY <2>1, <2>2 DEF EncInv, EncTypes
    <2>4. EncSteps'
        BY <2>1, <2>2 DEF EncInv, EncTypes, EncSteps, InBlock, Coded
    <2> QED  BY <2>3, <2>4 DEF EncInv
<1> QED  BY <1>1, <1>2

LEMMA ReadBlockKeeps ==
    ASSUME EncInv, ReadBlock
    PROVE  EncInv'
PROOF
<1> DEFINE n == IF left < blocksize THEN left ELSE blocksize
<1>1. CASE ReturnError("source", written) \/ ReturnError("short", written)
    BY <1>1, FailKeeps DEF EncInv, EncTypes
<1>2. CASE ~ (ReturnError("source", written) \/ ReturnError("short", written))
    <2>1. /\ epc = "read" /\ Consumed + n <= Len(source)
          /\ need' = n /\ buf' = SubSeq(source, Consumed + 1, Consumed + n)
          /\ epc' = "count"
          /\ UNCHANGED <<source, size, blocksize, left, rates, tree, mapping,
                         pos, index, bits, written, eresult, encoded>>
        BY <1>2 DEF ReadBlock
    <2>2. /\ size \in Nat /\ left \in 1..size /\ blocksize \in Nat \ {0}
          /\ source \in Seq(Symbols) /\ pos = 0
        BY <2>1 DEF EncInv, EncTypes, EncSteps
    <2>3. n \in 1..left /\ Consumed \in Nat
        BY <2>2 DEF Consumed
    <2> HIDE DEF n
    <2>4. buf' \in Seq(Symbols) /\ Len(buf') = n
        <3>1. PICK a \in Nat, b \in Nat : a = Consumed /\ b = a + n /\ b <= Len(source)
            BY <2>1, <2>3
        <3>2. \A i \in a+1 .. b : source[i] \in Symbols
            BY <2>2, <3>1
        <3>3. a + 1 \in 1 .. b + 1 /\ b - (a + 1) + 1 = n
            BY <2>2, <2>3, <3>1
        <3>4. buf' = SubSeq(source, a + 1, b)
            BY <2>1, <3>1
        <3>5. SubSeq(source, a + 1, b) \in Seq(Symbols) /\ Len(SubSeq(source, a + 1, b)) = n
            <4> HIDE DEF EncInv
            <4>1. a + 1 \in Nat /\ b \in Nat /\ a + 1 <= b + 1 /\ \A i \in a+1 .. b : source[i] \in Symbols
                BY <3>2, <3>3
            <4> QED  BY WidthAssumption, <2>2, <3>1, <3>3, <4>1, SubSeqProperties
        <3> QED  BY <3>4, <3>5
    <2>5. EncTypes'
        BY <2>1, <2>2, <2>3, <2>4 DEF EncInv, EncTypes
    <2>6. EncSteps'
        BY <2>1, <2>2, <2>3, <2>4 DEF EncInv, EncSteps, InBlock, Coded
    <2> QED  BY <2>5, <2>6 DEF EncInv
<1> QED  BY <1>1, <1>2

LEMMA CountBlockKeeps ==
    ASSUME EncInv, CountBlock
    PROVE  EncInv'
PROOF
<1>1. /\ epc = "count" /\ rates' = Populate(rates, buf) /\ epc' = "merge"
      /\ UNCHANGED <<source, size, blocksize, left, need, buf, tree, mapping,
                     pos, index, bits, written, eresult, encoded>>
    BY DEF CountBlock
<1>2. /\ rates = NoRates /\ tree = NoTree /\ buf \in Seq(Symbols) /\ Len(buf) = need
      /\ need \in 1..left /\ left \in Nat
    BY <1>1 DEF EncInv, EncTypes, EncSteps, InBlock
<1>3. Forest(tree', rates', Used')
    <2>1. buf # <<>>
        BY <1>2
    <2>2. Used' = {buf[i] : i \in 1 .. Len(buf)}
        BY <1>1 DEF Used
    <2> QED  BY <1>1, <1>2, <2>1, <2>2, CountForest
<1>4. EncTypes'
    <2>1. rates' \in [Slots -> Nat]
        BY <1>3 DEF Forest
    <2> QED  BY <1>1, <2>1 DEF EncInv, EncTypes
<1>5. EncSteps'
    <2>1. tree'.root = None
        BY <1>1, <1>2 DEF NoTree
    <2> QED  BY <1>1, <1>3, <2>1 DEF EncInv, EncSteps, InBlock, Coded
<1> QED  BY <1>4, <1>5 DEF EncInv

LEMMA MergeRatesKeeps ==
    ASSUME EncInv, MergeRates
    PROVE  EncInv'
PROOF
<1> DEFINE work == Merge([tree |-> tree, rates |-> rates])
<1>1. CASE ReturnError("memory", written)
    BY <1>1, FailKeeps DEF EncInv, EncTypes
<1>2. CASE ~ ReturnError("memory", written)
    <2>1. /\ epc = "merge" /\ tree' = work.tree /\ rates' = work.rates
          /\ epc' = IF tree'.root = None THEN "merge" ELSE "coding"
          /\ UNCHANGED <<source, size, blocksize, left, need, buf, mapping,
                         pos, index, bits, written, eresult, encoded>>
        BY <1>2 DEF MergeRates
    <2>2. Forest(tree, rates, Used) /\ tree.root = None
        BY <2>1 DEF EncInv, EncSteps
    <2>3. Forest(tree', rates', Used')
        <3>1. Used' = Used
            BY <2>1 DEF Used
        <3> QED  BY <2>1, <2>2, <3>1, MergeForest
    <2> HIDE DEF work
    <2>4. EncTypes'
        <3>1. rates' \in [Slots -> Nat]
            BY <2>3 DEF Forest
        <3> QED  BY <2>1, <3>1 DEF EncInv, EncTypes
    <2>5. EncSteps'
        BY <2>1, <2>3 DEF EncInv, EncSteps, InBlock, Coded
    <2> QED  BY <2>4, <2>5 DEF EncInv
<1> QED  BY <1>1, <1>2

LEMMA CreateCodingKeeps ==
    ASSUME EncInv, CreateCoding
    PROVE  EncInv'
PROOF
<1>1. CASE ReturnError("memory", written) \/ ReturnError("overrun", written)
    BY <1>1, FailKeeps DEF EncInv, EncTypes
<1>2. CASE ~ (ReturnError("memory", written) \/ ReturnError("overrun", written))
    <2>1. /\ epc = "coding" /\ epc' = "size"
          /\ mapping' = [s \in Symbols |-> IF s \in tree.leaves
                                           THEN NodeToString(tree, s) ELSE mapping[s]]
          /\ UNCHANGED <<source, size, blocksize, left, need, buf, rates, tree,
                         pos, index, bits, written, eresult, encoded>>
        BY <1>2 DEF CreateCoding
    <2>2. mapping' = Coding(tree')
        <3>1. \A s \in Symbols : mapping[s] = NoCode
            BY <2>1 DEF EncInv, EncSteps, NoMapping
        <3> QED  BY <2>1, <3>1 DEF Coding
    <2>3. Used' = Used
        BY <2>1 DEF Used
    <2>4. EncTypes'
        BY <2>1 DEF EncInv, EncTypes
    <2>5. EncSteps'
        BY <2>1, <2>2, <2>3 DEF EncInv, EncSteps, InBlock, Coded
    <2> QED  BY <2>4, <2>5 DEF EncInv
<1> QED  BY <1>1, <1>2

(* Every byte of the block has a code word of at least one bit.            *)
LEMMA CodeFacts ==
    ASSUME EncInv, epc \in Coded
    PROVE  /\ \A i \in 1..need : /\ buf[i] \in Symbols
                                 /\ mapping[buf[i]] \in Seq({0, 1})
                                 /\ Len(mapping[buf[i]]) \in Nat \ {0}
                                 /\ mapping[buf[i]] # NoCode
           /\ Serialize(tree) \in Seq(Int)
PROOF
<1>1. /\ Forest(tree, rates, Used) /\ tree.root # None /\ mapping = Coding(tree)
      /\ buf \in Seq(Symbols) /\ Len(buf) = need
    BY DEF EncInv, EncTypes, EncSteps, InBlock, Coded
<1>2. ASSUME NEW i \in 1..need
      PROVE  /\ buf[i] \in Symbols
             /\ mapping[buf[i]] \in Seq({0, 1})
             /\ Len(mapping[buf[i]]) \in Nat \ {0}
             /\ mapping[buf[i]] # NoCode
    <2>1. PICK s \in Symbols : s = buf[i] /\ s \in Used
        BY <1>1 DEF Used
    <2>2. s \in tree.leaves /\ tree.parent[s] # None /\ s \in Slots /\ Climbs(tree)
        BY <1>1, <2>1, SlotFacts DEF Forest
    <2>3. mapping[s] = NodeToString(tree, s)
        BY <1>1, <2>2 DEF Coding
    <2>4. PICK p \in Slots : p = tree.parent[s]
        BY <2>2 DEF Climbs
    <2> DEFINE bit == IF tree.left[p] = s THEN 0 ELSE 1
    <2>5. /\ NodeToString(tree, s) = <<bit>> \o NodeToString(tree, p)
          /\ NodeToString(tree, p) \in Seq({0, 1})
        BY <2>2, <2>4, NodeToStringIs
    <2>6. bit \in {0, 1}
        OBVIOUS
    <2> HIDE DEF bit
    <2>7. PICK w \in Seq({0, 1}) : w = NodeToString(tree, p)
        BY <2>5
    <2>8. <<bit>> \o w \in Seq({0, 1}) /\ Len(<<bit>> \o w) = 1 + Len(w) /\ Len(w) \in Nat
        BY <2>6
    <2>9. Len(<<bit>> \o w) \in Nat \ {0}
        BY <2>8
    <2>10. <<bit>> \o w # NoCode
        <3>1. Len(<<bit>> \o w) # 0
            BY <2>9
        <3>2. Len(NoCode) = 0
            BY DEF NoCode
        <3> DEFINE v == <<bit>> \o w
        <3>3. Len(v) # 0
            BY <3>1
        <3> HIDE DEF v
        <3>4. v # NoCode
            BY <3>2, <3>3
        <3> QED  BY <3>4 DEF v
    <2> QED  BY <2>1, <2>3, <2>5, <2>7, <2>8, <2>9, <2>10
<1>3. Serialize(tree) \in Seq(Int)
    <2>1. Falls(tree)
        BY <1>1 DEF Forest
    <2>2. \E e \in Preorders(tree) : Serialize(tree) = e[tree.root]
        BY <2>1, SerializeIs
    <2>3. tree.root \in Slots \cup {None}
        BY <2>1 DEF Falls
    <2> QED  BY <2>2, <2>3 DEF Preorders
<1> QED  BY <1>2, <1>3

(* A call of the writer for some bytes outside the block of bits.          *)
LEMMA PutKeeps ==
    ASSUME EncInv, NEW data \in Seq(Symbols), Put(data),
           epc \in {"size", "treelength"},
           epc' = IF epc = "size" THEN "treelength" ELSE "tree",
           UNCHANGED <<source, size, blocksize, left, need, buf, rates, tree,
                       mapping, pos, index, bits, eresult, encoded>>
    PROVE  EncInv'
PROOF
<1>1. written \o data \in Seq(Symbols)
    BY DEF EncInv, EncTypes
<1>2. EncTypes'
    BY <1>1 DEF EncInv, EncTypes, Put
<1>3. EncSteps'
    <2>1. Used' = Used
        BY DEF Used
    <2> QED  BY <2>1 DEF EncInv, EncSteps, InBlock, Coded
<1> QED  BY <1>2, <1>3 DEF EncInv

LEMMA PutFailsKeeps ==
    ASSUME EncInv, NEW data \in Seq(Symbols), PutFails(data)
    PROVE  EncInv'
PROOF
<1>1. written \o data \in Seq(Symbols)
    BY DEF EncInv, EncTypes
<1> QED  BY <1>1, FailKeeps DEF PutFails

LEMMA WriteSizeKeeps ==
    ASSUME EncInv, WriteSize
    PROVE  EncInv'
PROOF
<1>1. Digits(need, SizeWidth) \in Seq(Symbols)
    <2>1. need \in Int /\ SizeWidth \in Nat
        BY WidthAssumption DEF EncInv, EncTypes
    <2> QED  BY <2>1, DigitsType
<1>2. CASE PutFails(Digits(need, SizeWidth))
    BY <1>1, <1>2, PutFailsKeeps
<1>3. CASE ~ PutFails(Digits(need, SizeWidth))
    BY <1>1, <1>3, PutKeeps DEF WriteSize
<1> QED  BY <1>2, <1>3

LEMMA WriteTreeLengthKeeps ==
    ASSUME EncInv, WriteTreeLength
    PROVE  EncInv'
PROOF
<1>1. Digits(TreeLength, IntWidth) \in Seq(Symbols)
    <2>1. Serialize(tree) \in Seq(Int)
        BY CodeFacts DEF WriteTreeLength, Coded
    <2>2. TreeLength \in Int /\ IntWidth \in Nat
        BY WidthAssumption, <2>1 DEF TreeLength
    <2> QED  BY <2>2, DigitsType
<1>2. CASE PutFails(Digits(TreeLength, IntWidth))
    BY <1>1, <1>2, PutFailsKeeps
<1>3. CASE ~ PutFails(Digits(TreeLength, IntWidth))
    BY <1>1, <1>3, PutKeeps DEF WriteTreeLength
<1> QED  BY <1>2, <1>3

LEMMA WriteTreeKeeps ==
    ASSUME EncInv, WriteTree
    PROVE  EncInv'
PROOF
<1> DEFINE data == TreeBytes(Serialize(tree))
<1>1. data \in Seq(Symbols)
    BY CodeFacts, TreeBytesType DEF WriteTree, Coded
<1> HIDE DEF data
<1>2. CASE PutFails(data)
    BY <1>1, <1>2, PutFailsKeeps
<1>3. CASE ~ PutFails(data)
    <2>1. /\ epc = "tree" /\ epc' = "bits" /\ written' = written \o data
          /\ pos' = 0 /\ bits' = <<>> /\ index' = Len(mapping[buf[1]])
          /\ UNCHANGED <<source, size, blocksize, left, need, buf, rates, tree,
                         mapping, eresult, encoded>>
        BY <1>3 DEF WriteTree, Put, data
    <2>2. need \in Nat \ {0}
        BY <2>1 DEF EncInv, EncTypes, EncSteps, InBlock
    <2>3. Len(mapping[buf[1]]) \in Nat \ {0}
        <3>1. 1 \in 1..need
            BY <2>2
        <3> QED  BY <2>1, <3>1, CodeFacts DEF Coded
    <2>4. EncTypes'
        <3>1. written \o data \in Seq(Symbols)
            BY <1>1 DEF EncInv, EncTypes
        <3>2. pos' \in 0..need
            BY <2>1, <2>2
        <3> QED  BY <2>1, <2>3, <3>1, <3>2, Constants DEF EncInv, EncTypes
    <2>5. EncSteps'
        <3>1. Used' = Used
            BY <2>1 DEF Used
        <3>2. Code' = mapping[buf[1]]
            BY <2>1 DEF Code
        <3>3. index' \in 1 .. Len(Code')
            BY <2>1, <2>3, <3>2
        <3> QED  BY <2>1, <3>1, <3>3 DEF EncInv, EncSteps, InBlock, Coded
    <2> QED  BY <2>4, <2>5 DEF EncInv
<1> QED  BY <1>2, <1>3 DEF data

(* The bit that is written next.                                           *)
LEMMA FilledFacts ==
    ASSUME EncInv, epc = "bits", pos < need
    PROVE  /\ Code \in Seq({0, 1}) /\ index \in 1 .. Len(Code)
           /\ Filled \in Seq({0, 1}) /\ Len(Filled) = Len(bits) + 1
           /\ Len(Filled) <= ByteBits
PROOF
<1>1. index \in 1 .. Len(Code)
    BY DEF EncInv, EncSteps
<1>2. pos + 1 \in 1..need
    BY DEF EncInv, EncTypes
<1>3. Code \in Seq({0, 1})
    BY <1>2, CodeFacts DEF Code, Coded
<1>4. PICK b \in {0, 1} : b = Code[index]
    BY <1>1, <1>3
<1>5. bits \in Seq({0, 1}) /\ Len(bits) < ByteBits
    BY DEF EncInv, EncTypes
<1>6. Append(bits, b) \in Seq({0, 1}) /\ Len(Append(bits, b)) = Len(bits) + 1
    BY <1>5
<1>7. Len(bits) \in Nat
    BY <1>5
<1> QED  BY WidthAssumption, <1>1, <1>3, <1>4, <1>5, <1>6, <1>7 DEF Filled

LEMMA WriteBitKeeps ==
    ASSUME EncInv, WriteBit
    PROVE  EncInv'
PROOF
<1>1. epc = "bits" /\ pos < need
    BY DEF WriteBit
<1>2. /\ Filled \in Seq({0, 1}) /\ Len(Filled) \in Nat /\ Len(Filled) <= ByteBits
      /\ index \in 1 .. Len(Code)
    BY <1>1, FilledFacts
<1>3. <<ByteOf(Filled)>> \in Seq(Symbols)
    BY <1>2, ByteOfBits
<1>4. CASE PutFails(<<ByteOf(Filled)>>)
    BY <1>3, <1>4, PutFailsKeeps
<1>5. CASE ~ PutFails(<<ByteOf(Filled)>>)
    <2>1. /\ IF Len(Filled) = ByteBits
             THEN written' = written \o <<ByteOf(Filled)>> /\ bits' = <<>>
             ELSE written' = written /\ bits' = Filled
          /\ IF index > 1
             THEN index' = index - 1 /\ pos' = pos
             ELSE /\ pos' = pos + 1
                  /\ index' = IF pos + 1 < need THEN Len(mapping[buf[pos + 2]]) ELSE 0
          /\ UNCHANGED <<source, size, blocksize, left, need, buf, rates, tree,
                         mapping, epc, eresult, encoded>>
        BY <1>5 DEF WriteBit, Put
    <2>2. written' \in Seq(Symbols)
        <3>1. written \o <<ByteOf(Filled)>> \in Seq(Symbols) /\ written \in Seq(Symbols)
            BY <1>3 DEF EncInv, EncTypes
        <3> QED  BY <2>1, <3>1
    <2>3. bits' \in Seq({0, 1}) /\ Len(bits') < ByteBits
        <3>1. CASE Len(Filled) = ByteBits
            <4>1. bits' = <<>>
                BY <2>1, <3>1
            <4> QED  BY <4>1, Constants
        <3>2. CASE Len(Filled) # ByteBits
            <4>1. bits' = Filled
                BY <2>1, <3>2
            <4>2. Len(Filled) < ByteBits
                BY WidthAssumption, <1>2, <3>2
            <4> QED  BY <1>2, <4>1, <4>2
        <3> QED  BY <3>1, <3>2
    <2>4. pos \in Nat /\ need \in Nat /\ pos < need /\ index \in Nat \ {0}
        BY <1>1, <1>2 DEF EncInv, EncTypes
    <2>5. pos + 1 < need => Len(mapping[buf[pos + 2]]) \in Nat \ {0}
        <3>1. ASSUME pos + 1 < need PROVE pos + 2 \in 1..need
            BY <2>4, <3>1
        <3> QED  BY <1>1, <3>1, CodeFacts DEF Coded
    <2>6. pos' \in 0..need /\ index' \in Nat
        BY <2>1, <2>4, <2>5
    <2>7. EncTypes'
        BY <2>1, <2>2, <2>3, <2>6 DEF EncInv, EncTypes
    <2>8. pos' < need' => index' \in 1 .. Len(Code')
        <3>1. CASE index > 1
            <4>1. Code' = Code
                BY <2>1, <3>1 DEF Code
            <4>2. index - 1 \in 1 .. Len(Code)
                BY <1>2, <3>1
            <4> QED  BY <2>1, <3>1, <4>1, <4>2
        <3>2. CASE ~ (index > 1)
            <4>1. pos' = pos + 1 /\ (pos + 1) + 1 = pos + 2
                BY <2>1, <2>4, <3>2
            <4>2. Code' = mapping[buf[pos + 2]]
                BY <2>1, <4>1 DEF Code
            <4>3. ASSUME pos + 1 < need PROVE index' \in 1 .. Len(Code')
                <5>1. index' = Len(mapping[buf[pos + 2]])
                    BY <2>1, <3>2, <4>3
                <5>2. PICK l \in Nat \ {0} : l = Len(mapping[buf[pos + 2]])
                    BY <2>5, <4>3
                <5>3. l \in 1..l
                    OBVIOUS
                <5> QED  BY <4>2, <5>1, <5>2, <5>3
            <4> QED  BY <2>1, <4>1, <4>3
        <3> QED  BY <3>1, <3>2
    <2>9. EncSteps'
        <3>1. Used' = Used
            BY <2>1 DEF Used
        <3> QED  BY <1>1, <2>1, <2>8, <3>1 DEF EncInv, EncSteps, InBlock, Coded
    <2> QED  BY <2>7, <2>9 DEF EncInv
<1> QED  BY <1>4, <1>5

LEMMA WriteRestKeeps ==
    ASSUME EncInv, WriteRest
    PROVE  EncInv'
PROOF
<1>1. <<ByteOf(bits)>> \in Seq(Symbols)
    BY WidthAssumption, ByteOfBits DEF EncInv, EncTypes
<1>2. CASE PutFails(<<ByteOf(bits)>>)
    BY <1>1, <1>2, PutFailsKeeps
<1>3. CASE ~ PutFails(<<ByteOf(bits)>>)
    <2>1. /\ epc = "bits" /\ pos = need
          /\ IF bits # <<>> THEN written' = written \o <<ByteOf(bits)>> ELSE written' = written
          /\ left' = StillToRead /\ pos' = 0
          /\ epc' = IF left' > 0 THEN "reset" ELSE "flush"
          /\ UNCHANGED <<source, size, blocksize, need, buf, rates, tree,
                         mapping, index, bits, eresult, encoded>>
        BY <1>3 DEF WriteRest, Put
    <2>2. written' \in Seq(Symbols)
        <3>1. written \o <<ByteOf(bits)>> \in Seq(Symbols) /\ written \in Seq(Symbols)
            BY <1>1 DEF EncInv, EncTypes
        <3> QED  BY <2>1, <3>1
    <2>3. left' \in 0..size /\ need \in 0..size
        BY <2>1 DEF StillToRead, EncInv, EncTypes, EncSteps, InBlock
    <2>4. EncTypes'
        BY <2>1, <2>2, <2>3 DEF EncInv, EncTypes
    <2>5. EncSteps'
        BY <2>1, <2>3 DEF EncInv, EncTypes, EncSteps, InBlock, Coded
    <2> QED  BY <2>4, <2>5 DEF EncInv
<1> QED  BY <1>2, <1>3

LEMMA ResetBlockKeeps ==
    ASSUME EncInv, ResetBlock
    PROVE  EncInv'
PROOF
<1>1. EncTypes'
    BY Constants DEF ResetBlock, EncInv, EncTypes
<1>2. EncSteps'
    BY DEF ResetBlock, EncInv, EncSteps, InBlock, Coded
<1> QED  BY <1>1, <1>2 DEF EncInv

LEMMA FlushEncodedKeeps ==
    ASSUME EncInv, FlushEncoded
    PROVE  EncInv'
PROOF
<1>1. written \in Seq(Symbols)
    BY DEF EncInv, EncTypes
<1> QED  BY <1>1, ReturnKeeps, PutFailsKeeps, Constants DEF FlushEncoded

LEMMA EncodeKeeps ==
    ASSUME EncInv, EncNext
    PROVE  EncInv'
    BY BeginKeeps, ReadBlockKeeps, CountBlockKeeps, MergeRatesKeeps, CreateCodingKeeps,
       WriteSizeKeeps, WriteTreeLengthKeeps, WriteTreeKeeps, WriteBitKeeps, WriteRestKeeps,
       ResetBlockKeeps, FlushEncodedKeeps DEF EncNext

-----------------------------------------------------------------------------
(* What the encoder writes.                                                *)

(* The encoding of what the source holds from a place on.                  *)
Rest(place) == EncodingFrom(source, ChunkLength, place)

(* Where the block ends that the encoder is at.                            *)
Ahead == Consumed + need

(* What follows the size in the encoding of the block.                     *)
Headless == Digits(TreeLength, IntWidth) \o (TreeBytes(Serialize(tree)) \o Packed(BitsAfter(tree, buf, 0)))
Treeless == TreeBytes(Serialize(tree)) \o Packed(BitsAfter(tree, buf, 0))

(* The bits of the block that are still to be written.                     *)
ToWrite == IF pos < need THEN Reverse(SubSeq(Code, 1, index)) \o BitsAfter(tree, buf, pos + 1)
                         ELSE <<>>

Before == {"count", "merge", "coding", "size"}

(* What is written, and what follows from where the control is, make up    *)
(* the reference encoding.                                                 *)
DataInv ==
    /\ size \in {Len(source), Len(source) + 1}
    /\ epc = "init" => written = <<>>
    /\ epc \in {"read", "reset"} => written \o Rest(Consumed) = Encoding
    /\ epc \in InBlock => Ahead <= Len(source)
    /\ epc \in Before => written \o (Block(buf) \o Rest(Ahead)) = Encoding
    /\ epc = "merge" => [tree |-> tree, rates |-> rates]
                            = Merged(Populate(NoRates, buf), tree.node - HUF_ASCII_COUNT)
    /\ epc \in {"coding"} \cup Coded => tree = BlockTree(buf)
    /\ epc = "treelength" => written \o (Headless \o Rest(Ahead)) = Encoding
    /\ epc = "tree" => written \o (Treeless \o Rest(Ahead)) = Encoding
    /\ epc = "bits" => written \o (Packed(bits \o ToWrite) \o Rest(Ahead)) = Encoding
    /\ epc = "flush" => written = Encoding /\ size = Len(source)
    /\ epc = "returned" =>
          /\ IsPrefix(encoded, Encoding)
          /\ eresult = "ok" => encoded = Encoding /\ size = Len(source)

LEMMA RestIs ==
    ASSUME EncInv, DataInv, NEW b \in Nat
    PROVE  /\ Rest(b) \in Seq(Symbols) /\ Encoding \in Seq(Symbols) /\ Encoding = Rest(0)
           /\ b >= Len(source) => Rest(b) = <<>>
           /\ b < Len(source) =>
                 /\ ChunkLength \in Nat \ {0}
                 /\ Rest(b) = Block(SubSeq(source, b+1, BlockEnd(source, ChunkLength, b)))
                              \o Rest(BlockEnd(source, ChunkLength, b))
PROOF
<1>1. source \in Seq(Symbols) /\ size \in Nat /\ blocksize \in Nat
      /\ size \in {Len(source), Len(source) + 1}
    BY DEF EncInv, EncTypes, DataInv
<1>2. ChunkLength \in Nat /\ (ChunkLength # 0 \/ source = <<>>)
    <2>1. ChunkLength = 0 => Len(source) = 0
        BY <1>1 DEF ChunkLength
    <2>2. Len(source) = 0 => source = <<>>
        BY <1>1, EmptySeq
    <2>3. ChunkLength \in Nat
        BY <1>1 DEF ChunkLength
    <2> QED  BY <2>1, <2>2, <2>3
<1>3. b < Len(source) => ChunkLength # 0
    BY <1>1 DEF ChunkLength
<1>4. 0 \in Nat
    OBVIOUS
<1> HIDE DEF EncInv, DataInv
<1> QED  BY <1>1, <1>2, <1>3, <1>4, EncodingFromIs DEF Rest, Encoding

(* The reference does not change in a call.                                *)
LEMMA SameRest ==
    ASSUME EncInv, DataInv, source' = source, size' = size,
           blocksize' = blocksize \/ blocksize' = ChunkLength
    PROVE  Encoding' = Encoding /\ ChunkLength' = ChunkLength
PROOF
<1>1. ChunkLength' = ChunkLength
    BY DEF ChunkLength
<1> QED  BY <1>1 DEF Encoding

(* The pieces of a block.                                                  *)
LEMMA PieceTypes ==
    ASSUME EncInv, epc \in Coded
    PROVE  /\ Digits(need, SizeWidth) \in Seq(Symbols)
           /\ Digits(TreeLength, IntWidth) \in Seq(Symbols)
           /\ TreeBytes(Serialize(tree)) \in Seq(Symbols)
           /\ Packed(BitsAfter(tree, buf, 0)) \in Seq(Symbols)
           /\ Treeless \in Seq(Symbols) /\ Headless \in Seq(Symbols)
           /\ \A n \in 0..need : BitsAfter(tree, buf, n) \in Seq({0, 1})
           /\ BitsAfter(tree, buf, need) = <<>>
           /\ \A n \in 0 .. need - 1 :
                 BitsAfter(tree, buf, n) = Reverse(mapping[buf[n+1]]) \o BitsAfter(tree, buf, n+1)
PROOF
<1>1. /\ buf \in Seq(Symbols) /\ Len(buf) = need /\ need \in Nat
      /\ Forest(tree, rates, Used) /\ tree.root # None /\ mapping = Coding(tree)
    BY DEF EncInv, EncTypes, EncSteps, InBlock, Coded
<1>2. /\ \A i \in 1..need : NodeToString(tree, buf[i]) \in Seq({0, 1})
      /\ Serialize(tree) \in Seq(Int) /\ TreeLength \in Int
    <2>1. Forest(tree, rates, {buf[i] : i \in 1 .. Len(buf)})
        BY <1>1 DEF Used
    <2>2. /\ \A i \in 1 .. Len(buf) : NodeToString(tree, buf[i]) \in Seq({0, 1})
          /\ Serialize(tree) \in Seq(Int) /\ Len(Serialize(tree)) \in Nat
        BY <1>1, <2>1, CompleteTree
    <2>3. TreeLength \in Int
        BY <2>2 DEF TreeLength
    <2> QED  BY <1>1, <2>2, <2>3
<1>3. ASSUME NEW i \in 1..need PROVE mapping[buf[i]] = NodeToString(tree, buf[i])
    <2>1. buf[i] \in Used /\ buf[i] \in Symbols
        BY <1>1 DEF Used
    <2>2. buf[i] \in tree.leaves
        BY <1>1, <2>1 DEF Forest
    <2> QED  BY <1>1, <2>1, <2>2 DEF Coding
<1>4. /\ \A n \in 0..need : BitsAfter(tree, buf, n) \in Seq({0, 1})
      /\ BitsAfter(tree, buf, need) = <<>>
      /\ \A n \in 0 .. need - 1 :
            BitsAfter(tree, buf, n) = Reverse(NodeToString(tree, buf[n+1])) \o BitsAfter(tree, buf, n+1)
    BY <1>1, <1>2, BitsAfterIs
<1>5. ASSUME NEW n \in 0 .. need - 1
      PROVE  BitsAfter(tree, buf, n) = Reverse(mapping[buf[n+1]]) \o BitsAfter(tree, buf, n+1)
    <2>1. n + 1 \in 1..need
        BY <1>1
    <2> QED  BY <1>3, <1>4, <2>1
<1>6. PICK a \in Seq(Symbols), b \in Seq(Symbols), c \in Seq(Symbols) :
         /\ a = Digits(TreeLength, IntWidth) /\ b = TreeBytes(Serialize(tree))
         /\ c = Packed(BitsAfter(tree, buf, 0))
    <2>1. Digits(TreeLength, IntWidth) \in Seq(Symbols) /\ TreeBytes(Serialize(tree)) \in Seq(Symbols)
        BY WidthAssumption, <1>2, DigitsType, TreeBytesType
    <2>2. 0 \in 0..need
        BY <1>1
    <2>3. Packed(BitsAfter(tree, buf, 0)) \in Seq(Symbols)
        BY <1>4, <2>2, PackedType
    <2> QED  BY <2>1, <2>3, Zenon
<1>7. Headless \in Seq(Symbols) /\ Treeless \in Seq(Symbols)
    <2>1. b \o c \in Seq(Symbols) /\ a \o (b \o c) \in Seq(Symbols)
        BY <1>6
    <2> QED  BY <1>6, <2>1 DEF Headless, Treeless
<1>8. Digits(need, SizeWidth) \in Seq(Symbols)
    <2>1. need \in Int /\ SizeWidth \in Nat
        BY WidthAssumption, <1>1
    <2> QED  BY <2>1, DigitsType
<1> QED  BY <1>4, <1>5, <1>6, <1>7, <1>8

LEMMA ToWriteType ==
    ASSUME EncInv, epc = "bits"
    PROVE  /\ ToWrite \in Seq({0, 1}) /\ bits \o ToWrite \in Seq({0, 1})
           /\ Packed(bits \o ToWrite) \in Seq(Symbols)
PROOF
<1>1. need \in Nat /\ pos \in 0..need /\ bits \in Seq({0, 1})
    BY DEF EncInv, EncTypes
<1>2. \A n \in 0..need : BitsAfter(tree, buf, n) \in Seq({0, 1})
    BY PieceTypes DEF Coded
<1>3. ToWrite \in Seq({0, 1})
    <2>1. CASE pos < need
        <3>1. Code \in Seq({0, 1}) /\ index \in 1 .. Len(Code)
            BY <2>1, FilledFacts
        <3>2. SubSeq(Code, 1, index) \in Seq({0, 1})
            BY <3>1
        <3>3. Reverse(SubSeq(Code, 1, index)) \in Seq({0, 1})
            BY <3>2, ReverseIs
        <3>4. BitsAfter(tree, buf, pos + 1) \in Seq({0, 1})
            <4>1. pos + 1 \in 0..need
                BY <1>1, <2>1
            <4> QED  BY <1>2, <4>1
        <3> QED  BY <2>1, <3>3, <3>4, ConcatProperties DEF ToWrite
    <2>2. CASE ~ (pos < need)
        BY <2>2, Constants DEF ToWrite
    <2> QED  BY <2>1, <2>2
<1>4. bits \o ToWrite \in Seq({0, 1})
    BY <1>1, <1>3, ConcatProperties
<1> QED  BY <1>3, <1>4, PackedType

(* What is written leads to the reference.                                 *)
LEMMA WrittenLeads ==
    ASSUME EncInv, DataInv, epc # "returned"
    PROVE  \E r \in Seq(Symbols) : written \o r = Encoding
PROOF
<1>1. /\ written \in Seq(Symbols) /\ buf \in Seq(Symbols) /\ need \in Nat /\ left \in 0..size
      /\ size \in Nat /\ bits \in Seq({0, 1})
    BY DEF EncInv, EncTypes
<1>2. Consumed \in Nat /\ Ahead \in Nat
    BY <1>1 DEF Consumed, Ahead
<1>3. Rest(Consumed) \in Seq(Symbols) /\ Rest(Ahead) \in Seq(Symbols) /\ Encoding \in Seq(Symbols)
    BY <1>2, RestIs
<1>4. CASE epc = "init"
    <2>1. written = <<>> /\ <<>> \o Encoding = Encoding
        BY <1>3, <1>4, ConcatEmptySeq DEF DataInv
    <2> QED  BY <1>3, <2>1
<1>5. CASE epc \in {"read", "reset"}
    BY <1>3, <1>5 DEF DataInv
<1>6. CASE epc \in Before
    <2>1. buf # <<>>
        <3>1. Len(buf) # 0
            BY <1>6 DEF EncInv, EncSteps, InBlock, Before
        <3> QED  BY <3>1
    <2>2. Block(buf) \in Seq(Symbols)
        BY <1>1, <2>1, BlockType
    <2>3. Block(buf) \o Rest(Ahead) \in Seq(Symbols)
        BY <1>3, <2>2, ConcatProperties
    <2> QED  BY <1>6, <2>3 DEF DataInv
<1>7. CASE epc = "flush"
    <2>1. written \o <<>> = Encoding /\ <<>> \in Seq(Symbols)
        BY <1>1, <1>7, ConcatEmptySeq DEF DataInv
    <2> QED  BY <2>1
<1>8. CASE epc \in {"treelength", "tree", "bits"}
    <2>1. /\ Headless \in Seq(Symbols) /\ Treeless \in Seq(Symbols)
          /\ epc = "bits" => Packed(bits \o ToWrite) \in Seq(Symbols)
        BY <1>8, PieceTypes, ToWriteType DEF Coded
    <2>2. /\ Headless \o Rest(Ahead) \in Seq(Symbols) /\ Treeless \o Rest(Ahead) \in Seq(Symbols)
          /\ epc = "bits" => Packed(bits \o ToWrite) \o Rest(Ahead) \in Seq(Symbols)
        BY <1>3, <2>1, ConcatProperties
    <2> QED  BY <1>8, <2>2 DEF DataInv
<1>9. epc \in {"init", "read", "reset", "flush", "treelength", "tree", "bits"} \cup Before
    BY DEF EncInv, EncSteps, InBlock, Before
<1> QED  BY <1>4, <1>5, <1>6, <1>7, <1>8, <1>9

(* A return with a prefix of the reference.                                *)
LEMMA ReturnEncodes ==
    ASSUME EncInv, DataInv, NEW data \in Seq(Symbols), NEW r \in Seq(Symbols),
           data \o r = Encoding, NEW result, ReturnError(result, data),
           result # "ok"
    PROVE  DataInv'
PROOF
<1>1. PICK n \in 0 .. Len(data) : Return(result, SubSeq(data, 1, n))
    BY DEF ReturnError
<1>2. /\ epc' = "returned" /\ eresult' = result /\ encoded' = SubSeq(data, 1, n)
      /\ source' = source /\ size' = size /\ blocksize' = blocksize
    BY <1>1 DEF Return
<1>3. Encoding' = Encoding
    BY <1>2, SameRest
<1>4. IsPrefix(SubSeq(data, 1, n), Encoding)
    <2>1. PICK l \in Nat, m \in Nat : l = Len(data) /\ m = Len(r) /\ n \in 0..l
        OBVIOUS
    <2> DEFINE all == data \o r
               s   == SubSeq(data, 1, n)
               t   == SubSeq(all, 1, n)
    <2>2. /\ all \in Seq(Symbols) /\ Len(all) = l + m
          /\ \A i \in 1..l : all[i] = data[i]
        <3>1. /\ all \in Seq(Symbols) /\ Len(all) = l + m
              /\ \A i \in 1 .. l + m : all[i] = IF i <= l THEN data[i] ELSE r[i - l]
            BY <2>1, ConcatProperties
        <3> HIDE DEF all
        <3> QED  BY <2>1, <3>1
    <2> HIDE DEF all
    <2>3. s \in Seq(Symbols) /\ Len(s) = n /\ \A i \in 1..n : s[i] = data[i]
        <3>1. \A i \in 1..n : data[i] \in Symbols
            BY <2>1
        <3>2. 1 \in Int /\ n \in Int /\ n - 1 + 1 = n /\ (1 <= n \/ n = 0)
            BY <2>1
        <3>3. /\ SubSeq(data, 1, n) \in Seq(Symbols)
              /\ Len(SubSeq(data, 1, n)) = IF 1 <= n THEN n - 1 + 1 ELSE 0
              /\ \A i \in 1 .. n - 1 + 1 : SubSeq(data, 1, n)[i] = data[1 + i - 1]
            BY <3>1, <3>2, SubSeqProperties
        <3>4. \A i \in 1..n : 1 + i - 1 = i
            OBVIOUS
        <3> HIDE DEF s
        <3>5. s = SubSeq(data, 1, n)
            BY DEF s
        <3> QED  BY <3>2, <3>3, <3>4, <3>5
    <2>4. t \in Seq(Symbols) /\ Len(t) = n /\ \A i \in 1..n : t[i] = all[i]
        <3>1. \A i \in 1..n : all[i] \in Symbols
            BY <2>1, <2>2
        <3>2. 1 \in Int /\ n \in Int /\ n - 1 + 1 = n /\ (1 <= n \/ n = 0)
            BY <2>1
        <3>3. /\ SubSeq(all, 1, n) \in Seq(Symbols)
              /\ Len(SubSeq(all, 1, n)) = IF 1 <= n THEN n - 1 + 1 ELSE 0
              /\ \A i \in 1 .. n - 1 + 1 : SubSeq(all, 1, n)[i] = all[1 + i - 1]
            BY <3>1, <3>2, SubSeqProperties
        <3>4. \A i \in 1..n : 1 + i - 1 = i
            OBVIOUS
        <3> HIDE DEF t
        <3>5. t = SubSeq(all, 1, n)
            BY DEF t
        <3> QED  BY <3>2, <3>3, <3>4, <3>5
    <2> HIDE DEF s, t
    <2>5. s = t
        <3>1. ASSUME NEW i \in 1..n PROVE s[i] = t[i]
            <4>1. i \in 1..l
                BY <2>1
            <4>2. all[i] = data[i]
                BY <2>2, <4>1
            <4> QED  BY <2>3, <2>4, <4>2
        <3> QED  BY <2>3, <2>4, <3>1, SeqEqual
    <2>6. SubSeq(s, 1, n) = s
        BY <2>3, SubSeqFull
    <2>7. Len(s) <= Len(all) /\ SubSeq(s, 1, Len(s)) = SubSeq(all, 1, Len(s))
        BY <2>1, <2>2, <2>3, <2>5, <2>6 DEF t
    <2>8. IsPrefix(s, all)
        BY <2>3, <2>2, <2>7 DEF IsPrefix
    <2> QED  BY <2>8 DEF s, all
<1> QED  BY <1>2, <1>3, <1>4 DEF DataInv, InBlock, Before, Coded

(* An error before anything of this step is written.                       *)
LEMMA FailEncodes ==
    ASSUME EncInv, DataInv, epc # "returned", NEW result, ReturnError(result, written),
           result \in {"memory", "overrun"}
    PROVE  DataInv'
PROOF
<1>1. PICK r \in Seq(Symbols) : written \o r = Encoding
    BY WrittenLeads
<1>2. written \in Seq(Symbols)
    BY DEF EncInv, EncTypes
<1> QED  BY <1>1, <1>2, ReturnEncodes

(* A failing call of the writer.                                           *)
LEMMA PutFailsEncodes ==
    ASSUME EncInv, DataInv, NEW data \in Seq(Symbols), NEW r \in Seq(Symbols),
           written \o (data \o r) = Encoding, PutFails(data)
    PROVE  DataInv'
PROOF
<1>1. written \in Seq(Symbols)
    BY DEF EncInv, EncTypes
<1>2. written \o data \in Seq(Symbols)
    BY <1>1, ConcatProperties
<1>3. (written \o data) \o r = written \o (data \o r)
    <2>1. PICK w \in Seq(Symbols) : w = written
        BY <1>1
    <2>2. (w \o data) \o r = w \o (data \o r)
        <3>1. Regroups(w, data, r)
            BY Regrouping
        <3> QED  BY <3>1 DEF Regroups
    <2> QED  BY <2>1, <2>2
<1>4. (written \o data) \o r = Encoding
    BY <1>3
<1> QED  BY <1>2, <1>4, ReturnEncodes DEF PutFails

LEMMA BeginEncodes ==
    ASSUME EncInv, DataInv, Begin
    PROVE  DataInv'
PROOF
<1>0. epc = "init"
    BY DEF Begin
<1>1. CASE ReturnError("memory", written)
    BY <1>0, <1>1, FailEncodes
<1>2. CASE ~ ReturnError("memory", written)
    <2>1. /\ left' = size /\ blocksize' = ChunkLength
          /\ epc' = IF size > 0 THEN "read" ELSE "flush"
          /\ UNCHANGED <<source, size, need, buf, rates, tree, mapping, pos,
                         index, bits, written, eresult, encoded>>
        BY <1>2 DEF Begin
    <2>2. /\ size \in Nat /\ size \in {Len(source), Len(source) + 1} /\ written = <<>>
          /\ source \in Seq(Symbols)
        BY <1>0 DEF EncInv, EncTypes, DataInv
    <2>3. Encoding' = Encoding /\ ChunkLength' = ChunkLength
        BY <2>1, SameRest
    <2>4. CASE size > 0
        <3>1. Consumed' = 0
            BY <2>1, <2>2 DEF Consumed
        <3>2. Rest(Consumed)' = Rest(0)
            BY <2>1, <2>3, <3>1 DEF Rest
        <3>3. Encoding \in Seq(Symbols) /\ Encoding = Rest(0)
            BY RestIs
        <3>4. (written \o Rest(Consumed))' = Encoding'
            BY <2>1, <2>2, <2>3, <3>2, <3>3, ConcatEmptySeq
        <3> QED  BY <2>1, <2>2, <2>4, <3>4 DEF DataInv, InBlock, Before, Coded
    <2>5. CASE ~ (size > 0)
        <3>1. size = 0 /\ Len(source) = 0
            BY <2>2, <2>5
        <3>2. Encoding = Rest(0) /\ Rest(0) = <<>>
            BY <3>1, RestIs
        <3>3. written' = Encoding' /\ size' = Len(source')
            BY <2>1, <2>2, <2>3, <3>1, <3>2
        <3> QED  BY <2>1, <2>2, <2>5, <3>3 DEF DataInv, InBlock, Before, Coded
    <2> QED  BY <2>4, <2>5
<1> QED  BY <1>1, <1>2

LEMMA ReadBlockEncodes ==
    ASSUME EncInv, DataInv, ReadBlock
    PROVE  DataInv'
PROOF
<1> DEFINE n == IF left < blocksize THEN left ELSE blocksize
<1>1. /\ epc = "read" /\ size \in Nat /\ left \in 1..size /\ blocksize \in Nat \ {0}
      /\ source \in Seq(Symbols) /\ size \in {Len(source), Len(source) + 1}
      /\ written \in Seq(Symbols)
      /\ written \o Rest(Consumed) = Encoding
    BY DEF ReadBlock, EncInv, EncTypes, EncSteps, DataInv
<1>2. n \in 1..left /\ Consumed \in Nat /\ Consumed + n \in Nat
      /\ (n = left \/ n = blocksize) /\ n <= blocksize
    BY <1>1 DEF Consumed
<1>3. CASE ReturnError("source", written) \/ ReturnError("short", written)
    <2>1. Rest(Consumed) \in Seq(Symbols)
        BY <1>2, RestIs
    <2> QED  BY <1>1, <1>3, <2>1, ReturnEncodes
<1>4. CASE ~ (ReturnError("source", written) \/ ReturnError("short", written))
    <2>1. /\ Consumed + n <= Len(source)
          /\ need' = n /\ buf' = SubSeq(source, Consumed + 1, Consumed + n)
          /\ epc' = "count"
          /\ UNCHANGED <<source, size, blocksize, left, rates, tree, mapping,
                         pos, index, bits, written, eresult, encoded>>
        BY <1>4 DEF ReadBlock
    <2> HIDE DEF n
    <2>2. PICK a \in Nat, e \in Nat : a = Consumed /\ e = Consumed + n
        BY <1>2
    <2>3. a < Len(source) /\ e <= Len(source) /\ e = a + n
        BY <1>1, <1>2, <2>1, <2>2
    <2>4. ChunkLength = blocksize
        BY <1>1 DEF ChunkLength
    <2>5. BlockEnd(source, ChunkLength, a) = e
        <3>1. left = size - a
            BY <1>1, <2>2 DEF Consumed
        <3>2. PICK L \in Nat : L = Len(source)
            BY <1>1
        <3>3. PICK l \in Nat, b \in Nat, s \in Nat, m \in Nat :
                 l = left /\ b = blocksize /\ s = size /\ m = n
            BY <1>1, <1>2
        <3>4. /\ m <= l /\ m <= b /\ (m = l \/ m = b) /\ l = s - a
              /\ e = a + m /\ e <= L /\ (s = L \/ s = L + 1)
            BY <1>1, <1>2, <2>3, <3>1, <3>2, <3>3
        <3>5. (IF a + b < L THEN a + b ELSE L) = e
            BY <3>4
        <3>6. (IF a + blocksize < L THEN a + blocksize ELSE L) = e
            BY <3>3, <3>5
        <3> QED  BY <2>4, <3>2, <3>6 DEF BlockEnd
    <2>6. Rest(a) = Block(SubSeq(source, a + 1, e)) \o Rest(e)
        BY <2>3, <2>5, RestIs
    <2>7. Encoding' = Encoding /\ ChunkLength' = ChunkLength
        BY <2>1, SameRest
    <2>8. Ahead' = e
        BY <2>1, <2>2 DEF Ahead, Consumed
    <2>9. Rest(Ahead)' = Rest(e)
        BY <2>1, <2>7, <2>8 DEF Rest
    <2>10. (written \o (Block(buf) \o Rest(Ahead)))' = Encoding'
        BY <1>1, <2>1, <2>2, <2>6, <2>7, <2>9
    <2>11. Ahead' <= Len(source')
        BY <2>1, <2>3, <2>8
    <2> QED  BY <1>1, <2>1, <2>10, <2>11 DEF DataInv, InBlock, Before, Coded
<1> QED  BY <1>3, <1>4

(* The steps up to the size change nothing of what is written or read.     *)
LEMMA SameBlock ==
    ASSUME EncInv, DataInv, epc \in Before, epc' \in Before,
           UNCHANGED <<source, size, blocksize, left, need, buf, written>>
    PROVE  /\ Encoding' = Encoding /\ Ahead' = Ahead
           /\ Ahead' <= Len(source')
           /\ (written \o (Block(buf) \o Rest(Ahead)))' = Encoding'
PROOF
<1>1. Encoding' = Encoding /\ ChunkLength' = ChunkLength
    BY SameRest
<1>2. Ahead' = Ahead
    BY DEF Ahead, Consumed
<1>3. Rest(Ahead)' = Rest(Ahead)
    BY <1>1, <1>2 DEF Rest
<1>4. Ahead <= Len(source) /\ written \o (Block(buf) \o Rest(Ahead)) = Encoding
    BY DEF DataInv, Before, InBlock
<1> QED  BY <1>1, <1>2, <1>3, <1>4

LEMMA CountBlockEncodes ==
    ASSUME EncInv, DataInv, CountBlock
    PROVE  DataInv'
PROOF
<1>1. /\ epc = "count" /\ rates' = Populate(rates, buf) /\ epc' = "merge"
      /\ UNCHANGED <<source, size, blocksize, left, need, buf, tree, mapping,
                     pos, index, bits, written, eresult, encoded>>
    BY DEF CountBlock
<1>2. rates = NoRates /\ tree = NoTree
    BY <1>1 DEF EncInv, EncSteps
<1>3. /\ Encoding' = Encoding /\ Ahead' <= Len(source')
      /\ (written \o (Block(buf) \o Rest(Ahead)))' = Encoding'
    BY <1>1, SameBlock DEF Before
<1>4. [tree |-> tree', rates |-> rates'] = Merged(Populate(NoRates, buf'), tree'.node - HUF_ASCII_COUNT)
    <2>1. tree'.node - HUF_ASCII_COUNT = 0
        <3>1. HUF_ASCII_COUNT \in Nat
            BY SymbolFacts
        <3> QED  BY <1>1, <1>2, <3>1 DEF NoTree
    <2>2. Merged(Populate(NoRates, buf), 0) = [tree |-> NoTree, rates |-> Populate(NoRates, buf)]
        BY MergedStep
    <2> QED  BY <1>1, <1>2, <2>1, <2>2
<1>5. size' \in {Len(source'), Len(source') + 1}
    BY <1>1 DEF DataInv
<1> QED  BY <1>1, <1>3, <1>4, <1>5 DEF DataInv, InBlock, Before, Coded

LEMMA MergeRatesEncodes ==
    ASSUME EncInv, DataInv, MergeRates
    PROVE  DataInv'
PROOF
<1> DEFINE work == Merge([tree |-> tree, rates |-> rates])
           weights == Populate(NoRates, buf)
           K == HUF_ASCII_COUNT
<1>0. epc = "merge"
    BY DEF MergeRates
<1>1. CASE ReturnError("memory", written)
    BY <1>0, <1>1, FailEncodes
<1>2. CASE ~ ReturnError("memory", written)
    <2>1. /\ tree' = work.tree /\ rates' = work.rates
          /\ epc' = IF tree'.root = None THEN "merge" ELSE "coding"
          /\ UNCHANGED <<source, size, blocksize, left, need, buf, mapping,
                         pos, index, bits, written, eresult, encoded>>
        BY <1>2 DEF MergeRates
    <2>2. /\ Forest(tree, rates, Used) /\ tree.root = None
          /\ buf \in Seq(Symbols) /\ Len(buf) # 0
        BY <1>0 DEF EncInv, EncTypes, EncSteps, InBlock
    <2>3. buf # <<>> /\ Used = {buf[i] : i \in 1 .. Len(buf)}
        BY <2>2 DEF Used
    <2>4. [tree |-> tree, rates |-> rates] = Merged(weights, tree.node - K)
        BY <1>0 DEF DataInv
    <2>5. PICK k \in Nat, n \in Nat : k = K /\ tree.node = k + n /\ tree.node - k = n /\ k + n < 2 * k
        <3>1. PICK k \in Nat : k = K /\ Slots = 0 .. 2*k - 1
            BY SlotFacts
        <3>2. tree.node \in k .. 2*k /\ tree.node \in Slots
            BY <2>2, <3>1, MergeForest DEF Forest
        <3>3. PICK d \in Nat : d = tree.node /\ k <= d /\ d < 2 * k
            BY <3>1, <3>2
        <3>4. PICK n \in Nat : d = k + n /\ d - k = n
            BY <3>3
        <3> QED  BY <3>1, <3>3, <3>4
    <2>6. Merged(weights, n) = [tree |-> tree, rates |-> rates]
        BY <2>4, <2>5
    <2>7. Merged(weights, n+1) = work
        <3> DEFINE pair == [tree |-> tree, rates |-> rates]
        <3>1. pair.tree.root = None
            BY <2>2
        <3> HIDE DEF pair, weights
        <3>2. Merged(weights, n+1) = IF Merged(weights, n).tree.root = None
                                     THEN Merge(Merged(weights, n))
                                     ELSE Merged(weights, n)
            BY MergedStep
        <3>3. Merged(weights, n) = pair
            BY <2>6 DEF pair
        <3>4. Merged(weights, n+1) = Merge(pair)
            BY <3>1, <3>2, <3>3
        <3> QED  BY <3>4 DEF pair
    <2>8. work = [tree |-> tree', rates |-> rates'] /\ tree'.node = k + (n + 1)
        <3>1. work = [tree |-> work.tree, rates |-> work.rates]
            BY DEF Merge
        <3>2. work.tree.node = tree.node + 1
            BY DEF Merge
        <3> HIDE DEF work
        <3> QED  BY <2>1, <2>5, <3>1, <3>2
    <2> HIDE DEF work, weights
    <2>9. /\ Encoding' = Encoding /\ Ahead' = Ahead /\ size' \in {Len(source'), Len(source') + 1}
        BY <2>1, SameRest DEF Ahead, Consumed, DataInv
    <2>10. CASE tree'.root = None
        <3>1. epc' = "merge"
            BY <2>1, <2>10
        <3>2. /\ Ahead' <= Len(source')
              /\ (written \o (Block(buf) \o Rest(Ahead)))' = Encoding'
            BY <1>0, <2>1, <3>1, SameBlock DEF Before
        <3>3. [tree |-> tree', rates |-> rates'] = Merged(Populate(NoRates, buf'), tree'.node - K)
            <4>1. tree'.node - k = n + 1
                BY <2>8
            <4>2. weights = Populate(NoRates, buf')
                BY <2>1 DEF weights
            <4> QED  BY <2>5, <2>7, <2>8, <4>1, <4>2
        <3> QED  BY <2>9, <3>1, <3>2, <3>3 DEF DataInv, InBlock, Before, Coded
    <2>11. CASE tree'.root # None
        <3>1. epc' = "coding"
            BY <2>1, <2>11
        <3>2. /\ Ahead' <= Len(source')
              /\ (written \o (Block(buf) \o Rest(Ahead)))' = Encoding'
            BY <1>0, <2>1, <3>1, SameBlock DEF Before
        <3>3. tree' = BlockTree(buf')
            <4>1. n + 1 \in 0 .. k
                BY <2>5
            <4>2. Merged(weights, n+1).tree.root # None
                BY <2>7, <2>8, <2>11
            <4>3. Merged(weights, n+1) = Merged(weights, k)
                BY <2>2, <2>3, <2>5, <4>1, <4>2, MergedGrows DEF weights
            <4>4. tree' = Merged(weights, k).tree
                BY <2>7, <2>8, <4>3
            <4> QED  BY <2>1, <2>5, <4>4 DEF BlockTree, FromHistogram, weights
        <3> QED  BY <2>9, <3>1, <3>2, <3>3 DEF DataInv, InBlock, Before, Coded
    <2> QED  BY <2>10, <2>11
<1> QED  BY <1>1, <1>2

LEMMA CreateCodingEncodes ==
    ASSUME EncInv, DataInv, CreateCoding
    PROVE  DataInv'
PROOF
<1>0. epc = "coding"
    BY DEF CreateCoding
<1>1. CASE ReturnError("memory", written) \/ ReturnError("overrun", written)
    BY <1>0, <1>1, FailEncodes
<1>2. CASE ~ (ReturnError("memory", written) \/ ReturnError("overrun", written))
    <2>1. /\ epc' = "size"
          /\ UNCHANGED <<source, size, blocksize, left, need, buf, rates, tree,
                         pos, index, bits, written, eresult, encoded>>
        BY <1>2 DEF CreateCoding
    <2>2. /\ Encoding' = Encoding /\ Ahead' <= Len(source')
          /\ (written \o (Block(buf) \o Rest(Ahead)))' = Encoding'
        BY <1>0, <2>1, SameBlock DEF Before
    <2>3. tree' = BlockTree(buf') /\ size' \in {Len(source'), Len(source') + 1}
        BY <1>0, <2>1 DEF DataInv
    <2> QED  BY <2>1, <2>2, <2>3 DEF DataInv, InBlock, Before, Coded
<1> QED  BY <1>1, <1>2

(* A call of the writer that succeeds, for the pieces before the bits.     *)
LEMMA PutEncodes ==
    ASSUME EncInv, DataInv, epc \in Coded, NEW data \in Seq(Symbols), NEW r \in Seq(Symbols),
           written \o ((data \o r) \o Rest(Ahead)) = Encoding,
           Put(data), UNCHANGED <<source, size, blocksize, left, need, buf, tree>>
    PROVE  /\ Encoding' = Encoding /\ Rest(Ahead)' = Rest(Ahead) /\ Rest(Ahead) \in Seq(Symbols)
           /\ Ahead' <= Len(source') /\ size' \in {Len(source'), Len(source') + 1}
           /\ tree' = BlockTree(buf')
           /\ written' \o (r \o Rest(Ahead)) = Encoding
PROOF
<1>1. Encoding' = Encoding /\ ChunkLength' = ChunkLength
    BY SameRest
<1>2. Ahead' = Ahead
    BY DEF Ahead, Consumed
<1>3. Rest(Ahead)' = Rest(Ahead)
    BY <1>1, <1>2 DEF Rest
<1>4. Ahead <= Len(source) /\ size \in {Len(source), Len(source) + 1} /\ tree = BlockTree(buf)
    BY DEF DataInv, Coded, InBlock
<1>5. written \in Seq(Symbols) /\ Rest(Ahead) \in Seq(Symbols)
    <2>1. written \in Seq(Symbols) /\ Ahead \in Nat
        BY DEF EncInv, EncTypes, Ahead, Consumed
    <2> QED  BY <2>1, RestIs
<1>6. PICK w \in Seq(Symbols), u \in Seq(Symbols), v \in Seq(Symbols) :
         w = written /\ u = Rest(Ahead) /\ v = r \o u
    <2>1. r \o Rest(Ahead) \in Seq(Symbols)
        BY <1>5, ConcatProperties
    <2> QED  BY <1>5, <2>1, Zenon
<1>7. (data \o r) \o u = data \o v
    <2>1. (data \o r) \o u = data \o (r \o u)
        <3>1. Regroups(data, r, u)
            BY Regrouping
        <3> QED  BY <3>1 DEF Regroups
    <2> QED  BY <1>6, <2>1
<1>8. (w \o data) \o v = w \o (data \o v)
    <2>1. Regroups(w, data, v)
        BY Regrouping
    <2> QED  BY <2>1 DEF Regroups
<1>9. written' = w \o data
    BY <1>6 DEF Put
<1> QED  BY <1>1, <1>2, <1>3, <1>4, <1>5, <1>6, <1>7, <1>8, <1>9

LEMMA WriteSizeEncodes ==
    ASSUME EncInv, DataInv, WriteSize
    PROVE  DataInv'
PROOF
<1> DEFINE data == Digits(need, SizeWidth)
<1>1. epc = "size" /\ Ahead \in Nat
    BY DEF WriteSize, EncInv, EncTypes, Ahead, Consumed
<1>2. data \in Seq(Symbols) /\ Headless \in Seq(Symbols) /\ Rest(Ahead) \in Seq(Symbols)
    BY <1>1, PieceTypes, RestIs DEF Coded
<1>3. written \o ((data \o Headless) \o Rest(Ahead)) = Encoding
    <2>1. tree = BlockTree(buf) /\ Len(buf) = need
        BY <1>1 DEF DataInv, EncInv, EncSteps, InBlock, Coded
    <2>2. PICK a \in Seq(Symbols), b \in Seq(Symbols), c \in Seq(Symbols), d \in Seq(Symbols) :
             /\ a = data /\ b = Digits(TreeLength, IntWidth) /\ c = TreeBytes(Serialize(tree))
             /\ d = Packed(BitsAfter(tree, buf, 0))
        BY <1>1, PieceTypes, Zenon DEF Coded
    <2>3. Block(buf) = a \o b \o c \o d
        BY <2>1, <2>2 DEF Block, TreeLength
    <2>4. Headless = b \o (c \o d)
        BY <2>2 DEF Headless
    <2>5. a \o b \o c \o d = a \o (b \o (c \o d))
        <3>1. PICK bc \in Seq(Symbols) : bc = b \o c
            BY ConcatProperties
        <3>2. (a \o b) \o c = a \o bc /\ (a \o bc) \o d = a \o (bc \o d)
            <4>1. Regroups(a, b, c) /\ Regroups(a, bc, d)
                BY Regrouping
            <4> QED  BY <3>1, <4>1 DEF Regroups
        <3>3. (b \o c) \o d = b \o (c \o d)
            <4>1. Regroups(b, c, d)
                BY Regrouping
            <4> QED  BY <4>1 DEF Regroups
        <3> QED  BY <3>1, <3>2, <3>3
    <2>6. Block(buf) = data \o Headless
        BY <2>2, <2>3, <2>4, <2>5
    <2>7. written \o (Block(buf) \o Rest(Ahead)) = Encoding
        BY <1>1 DEF DataInv, Before
    <2> QED  BY <2>6, <2>7
<1> HIDE DEF data
<1>4. CASE PutFails(data)
    <2>1. PICK u \in Seq(Symbols), v \in Seq(Symbols) : u = Headless /\ v = Rest(Ahead)
        BY <1>2
    <2>2. (data \o u) \o v = data \o (u \o v) /\ u \o v \in Seq(Symbols)
        <3>1. Regroups(data, u, v)
            BY <1>2, Regrouping
        <3>2. u \o v \in Seq(Symbols)
            BY <1>2, ConcatProperties
        <3> QED  BY <3>1, <3>2 DEF Regroups
    <2>3. written \o (data \o (u \o v)) = Encoding
        BY <1>3, <2>1, <2>2
    <2> QED  BY <1>2, <1>4, <2>2, <2>3, PutFailsEncodes
<1>5. CASE ~ PutFails(data)
    <2>1. /\ Put(data) /\ epc' = "treelength"
          /\ UNCHANGED <<source, size, blocksize, left, need, buf, rates, tree,
                         mapping, pos, index, bits, eresult, encoded>>
        BY <1>5 DEF WriteSize, data
    <2>2. /\ Encoding' = Encoding /\ Rest(Ahead)' = Rest(Ahead)
          /\ Ahead' <= Len(source') /\ size' \in {Len(source'), Len(source') + 1}
          /\ tree' = BlockTree(buf')
          /\ written' \o (Headless \o Rest(Ahead)) = Encoding
        BY <1>1, <1>2, <1>3, <2>1, PutEncodes DEF Coded
    <2>3. Headless' = Headless
        BY <2>1 DEF Headless, TreeLength
    <2>4. (written \o (Headless \o Rest(Ahead)))' = Encoding'
        BY <2>2, <2>3
    <2> QED  BY <2>1, <2>2, <2>4 DEF DataInv, InBlock, Before, Coded
<1> QED  BY <1>4, <1>5

LEMMA WriteTreeLengthEncodes ==
    ASSUME EncInv, DataInv, WriteTreeLength
    PROVE  DataInv'
PROOF
<1> DEFINE data == Digits(TreeLength, IntWidth)
<1>1. epc = "treelength" /\ Ahead \in Nat
    BY DEF WriteTreeLength, EncInv, EncTypes, Ahead, Consumed
<1>2. data \in Seq(Symbols) /\ Treeless \in Seq(Symbols) /\ Rest(Ahead) \in Seq(Symbols)
    BY <1>1, PieceTypes, RestIs DEF Coded
<1>3. written \o ((data \o Treeless) \o Rest(Ahead)) = Encoding
    BY <1>1 DEF DataInv, Headless, Treeless
<1> HIDE DEF data
<1>4. CASE PutFails(data)
    <2>1. PICK u \in Seq(Symbols), v \in Seq(Symbols) : u = Treeless /\ v = Rest(Ahead)
        BY <1>2
    <2>2. (data \o u) \o v = data \o (u \o v) /\ u \o v \in Seq(Symbols)
        <3>1. Regroups(data, u, v)
            BY <1>2, Regrouping
        <3>2. u \o v \in Seq(Symbols)
            BY <1>2, ConcatProperties
        <3> QED  BY <3>1, <3>2 DEF Regroups
    <2>3. written \o (data \o (u \o v)) = Encoding
        BY <1>3, <2>1, <2>2
    <2> QED  BY <1>2, <1>4, <2>2, <2>3, PutFailsEncodes
<1>5. CASE ~ PutFails(data)
    <2>1. /\ Put(data) /\ epc' = "tree"
          /\ UNCHANGED <<source, size, blocksize, left, need, buf, rates, tree,
                         mapping, pos, index, bits, eresult, encoded>>
        BY <1>5 DEF WriteTreeLength, data
    <2>2. /\ Encoding' = Encoding /\ Rest(Ahead)' = Rest(Ahead)
          /\ Ahead' <= Len(source') /\ size' \in {Len(source'), Len(source') + 1}
          /\ tree' = BlockTree(buf')
          /\ written' \o (Treeless \o Rest(Ahead)) = Encoding
        BY <1>1, <1>2, <1>3, <2>1, PutEncodes DEF Coded
    <2>3. Treeless' = Treeless
        BY <2>1 DEF Treeless
    <2>4. (written \o (Treeless \o Rest(Ahead)))' = Encoding'
        BY <2>2, <2>3
    <2> QED  BY <2>1, <2>2, <2>4 DEF DataInv, InBlock, Before, Coded
<1> QED  BY <1>4, <1>5

LEMMA WriteTreeEncodes ==
    ASSUME EncInv, DataInv, WriteTree
    PROVE  DataInv'
PROOF
<1> DEFINE data == TreeBytes(Serialize(tree))
           r    == Packed(BitsAfter(tree, buf, 0))
<1>1. /\ epc = "tree" /\ Ahead \in Nat /\ need \in Nat \ {0}
      /\ Len(buf) = need /\ buf \in Seq(Symbols)
    BY DEF WriteTree, EncInv, EncTypes, EncSteps, InBlock, Ahead, Consumed
<1>2. data \in Seq(Symbols) /\ r \in Seq(Symbols) /\ Rest(Ahead) \in Seq(Symbols)
    BY <1>1, PieceTypes, RestIs DEF Coded
<1>3. written \o ((data \o r) \o Rest(Ahead)) = Encoding
    BY <1>1 DEF DataInv, Treeless
<1> HIDE DEF data, r
<1>4. CASE PutFails(data)
    <2>1. PICK u \in Seq(Symbols), v \in Seq(Symbols) : u = r /\ v = Rest(Ahead)
        BY <1>2
    <2>2. (data \o u) \o v = data \o (u \o v) /\ u \o v \in Seq(Symbols)
        <3>1. Regroups(data, u, v)
            BY <1>2, Regrouping
        <3>2. u \o v \in Seq(Symbols)
            BY <1>2, ConcatProperties
        <3> QED  BY <3>1, <3>2 DEF Regroups
    <2>3. written \o (data \o (u \o v)) = Encoding
        BY <1>3, <2>1, <2>2
    <2> QED  BY <1>2, <1>4, <2>2, <2>3, PutFailsEncodes
<1>5. CASE ~ PutFails(data)
    <2>1. /\ Put(data) /\ epc' = "bits" /\ pos' = 0 /\ bits' = <<>>
          /\ index' = Len(mapping[buf[1]])
          /\ UNCHANGED <<source, size, blocksize, left, need, buf, rates, tree,
                         mapping, eresult, encoded>>
        BY <1>5 DEF WriteTree, data
    <2>2. /\ Encoding' = Encoding /\ Rest(Ahead)' = Rest(Ahead)
          /\ Ahead' <= Len(source') /\ size' \in {Len(source'), Len(source') + 1}
          /\ tree' = BlockTree(buf')
          /\ written' \o (r \o Rest(Ahead)) = Encoding
        BY <1>1, <1>2, <1>3, <2>1, PutEncodes DEF Coded
    <2>3. PICK c \in Seq({0, 1}) : c = mapping[buf[1]]
        <3>1. 1 \in 1..need
            BY <1>1
        <3> QED  BY <1>1, <3>1, CodeFacts DEF Coded
    <2>4. ToWrite' = BitsAfter(tree, buf, 0)
        <3>1. Code' = c /\ index' = Len(c)
            BY <2>1, <2>3 DEF Code
        <3>2. SubSeq(c, 1, Len(c)) = c
            BY SubSeqFull
        <3>3. 0 \in 0 .. need - 1 /\ 0 + 1 = 1
            BY <1>1
        <3>4. BitsAfter(tree, buf, 0) = Reverse(c) \o BitsAfter(tree, buf, 1)
            BY <1>1, <2>3, <3>3, PieceTypes DEF Coded
        <3>5. pos' < need' /\ pos' + 1 = 1
            BY <1>1, <2>1
        <3> QED  BY <2>1, <3>1, <3>2, <3>4, <3>5 DEF ToWrite
    <2>5. Packed(bits \o ToWrite)' = r
        <3>1. 0 \in 0..need
            BY <1>1
        <3>2. PICK all \in Seq({0, 1}) : all = BitsAfter(tree, buf, 0)
            BY <1>1, <3>1, PieceTypes DEF Coded
        <3>3. <<>> \o all = all
            BY ConcatEmptySeq
        <3>4. (bits \o ToWrite)' = all
            BY <2>1, <2>4, <3>2, <3>3
        <3> QED  BY <3>2, <3>4 DEF r
    <2>6. (written \o (Packed(bits \o ToWrite) \o Rest(Ahead)))' = Encoding'
        BY <2>2, <2>5
    <2> QED  BY <2>1, <2>2, <2>6 DEF DataInv, InBlock, Before, Coded
<1> QED  BY <1>4, <1>5

(* The bit that is written comes first in what is still to be written.     *)
LEMMA NextBit ==
    ASSUME NEW c \in Seq({0, 1}), NEW i \in 1 .. Len(c), NEW tail \in Seq({0, 1})
    PROVE  /\ Reverse(SubSeq(c, 1, i)) \o tail = <<c[i]>> \o (Reverse(SubSeq(c, 1, i-1)) \o tail)
           /\ Reverse(SubSeq(c, 1, i-1)) \in Seq({0, 1})
           /\ i = 1 => Reverse(SubSeq(c, 1, i-1)) = <<>>
PROOF
<1> DEFINE B == {0, 1}
           p == SubSeq(c, 1, i)
           q == SubSeq(c, 1, i-1)
<1>1. c \in Seq(B) /\ \A k \in 1 .. i : c[k] \in B
    OBVIOUS
<1> HIDE DEF B
<1>2. p \in Seq(B) /\ Len(p) = i /\ \A k \in 1..i : p[k] = c[k]
    <2>1. /\ p \in Seq(B) /\ Len(p) = IF 1 <= i THEN i - 1 + 1 ELSE 0
          /\ \A k \in 1 .. i - 1 + 1 : p[k] = c[1 + k - 1]
        <3>1. 1 \in Int /\ i \in Int
            OBVIOUS
        <3> QED  BY <1>1, <3>1, SubSeqProperties
    <2>2. i - 1 + 1 = i /\ 1 <= i /\ \A k \in 1..i : 1 + k - 1 = k
        OBVIOUS
    <2> HIDE DEF p
    <2> QED  BY <2>1, <2>2
<1>3. q \in Seq(B) /\ Len(q) = i - 1 /\ \A k \in 1 .. i-1 : q[k] = c[k]
    <2>1. /\ q \in Seq(B) /\ Len(q) = IF 1 <= i - 1 THEN (i - 1) - 1 + 1 ELSE 0
          /\ \A k \in 1 .. (i - 1) - 1 + 1 : q[k] = c[1 + k - 1]
        <3>1. 1 \in Int /\ i - 1 \in Int /\ \A k \in 1 .. i-1 : c[k] \in B
            BY <1>1
        <3> QED  BY <3>1, SubSeqProperties
    <2>2. /\ (i - 1) - 1 + 1 = i - 1 /\ (1 <= i - 1 \/ i - 1 = 0)
          /\ \A k \in 1 .. i-1 : 1 + k - 1 = k
        OBVIOUS
    <2> HIDE DEF q
    <2> QED  BY <2>1, <2>2
<1> HIDE DEF p, q
<1>4. /\ Reverse(p) \in Seq(B) /\ Len(Reverse(p)) = i
      /\ \A k \in 1..i : Reverse(p)[k] = c[i - k + 1]
    <2>1. \A k \in 1..i : i - k + 1 \in 1..i
        OBVIOUS
    <2> QED  BY <1>2, <2>1, ReverseIs
<1>5. /\ Reverse(q) \in Seq(B) /\ Len(Reverse(q)) = i - 1
      /\ \A k \in 1 .. i-1 : Reverse(q)[k] = c[i - k]
    <2>1. \A k \in 1 .. i-1 : (i - 1) - k + 1 = i - k /\ i - k \in 1 .. i-1
        OBVIOUS
    <2>2. /\ Reverse(q) \in Seq(B) /\ Len(Reverse(q)) = i - 1
          /\ \A k \in 1 .. i-1 : Reverse(q)[k] = q[(i - 1) - k + 1]
        <3>1. /\ Reverse(q) \in Seq(B) /\ Len(Reverse(q)) = Len(q)
              /\ \A k \in 1 .. Len(q) : Reverse(q)[k] = q[Len(q) - k + 1]
            BY <1>3, ReverseIs
        <3>2. Len(q) = i - 1
            BY <1>3
        <3> HIDE DEF q
        <3> QED  BY <3>1, <3>2
    <2> QED  BY <1>3, <2>1, <2>2
<1>6. PICK x \in Seq(B), y \in Seq(B), b \in B :
         x = Reverse(p) /\ y = Reverse(q) /\ b = c[i]
    <2>1. c[i] \in B
        BY <1>1
    <2> QED  BY <1>4, <1>5, <2>1, Zenon
<1> DEFINE z == <<b>> \o y
<1>7. z \in Seq(B) /\ Len(z) = i /\ z[1] = b /\ \A k \in 2..i : z[k] = y[k - 1]
    <2>1. <<b>> \in Seq(B) /\ Len(<<b>>) = 1 /\ <<b>>[1] = b
        OBVIOUS
    <2>2. /\ z \in Seq(B) /\ Len(z) = 1 + (i - 1)
          /\ \A k \in 1 .. 1 + (i - 1) : z[k] = IF k <= 1 THEN <<b>>[k] ELSE y[k - 1]
        BY <1>5, <1>6, <2>1, ConcatProperties
    <2>3. 1 + (i - 1) = i /\ 1 \in 1..i /\ \A k \in 2..i : k \in 1..i /\ ~ (k <= 1)
        OBVIOUS
    <2> HIDE DEF z
    <2>4. /\ z \in Seq(B) /\ Len(z) = i
          /\ \A k \in 1..i : z[k] = IF k <= 1 THEN <<b>>[k] ELSE y[k - 1]
        <3>1. 1 + (i - 1) = i
            BY <2>3
        <3> QED  BY <2>2, <3>1, Zenon
    <2>5. z[1] = b
        <3>1. 1 <= 1
            OBVIOUS
        <3> QED  BY <2>1, <2>3, <2>4, <3>1, Zenon
    <2>6. ASSUME NEW k \in 2..i PROVE z[k] = y[k - 1]
        BY <2>3, <2>4, Zenon
    <2> QED  BY <2>4, <2>5, <2>6, Zenon
<1> HIDE DEF z
<1>8. x = z
    <2>1. ASSUME NEW k \in 1..i PROVE x[k] = z[k]
        <3>1. CASE k = 1
            <4>1. x[1] = c[i - 1 + 1] /\ i - 1 + 1 = i /\ 1 \in 1..i
                BY <1>4, <1>6
            <4> QED  BY <1>6, <1>7, <3>1, <4>1
        <3>2. CASE k # 1
            <4>1. k \in 2..i /\ k - 1 \in 1 .. i-1 /\ i - (k - 1) = i - k + 1
                BY <3>2
            <4>2. x[k] = c[i - k + 1]
                BY <1>4, <1>6
            <4>3. y[k - 1] = c[i - (k - 1)]
                BY <1>5, <1>6, <4>1
            <4> QED  BY <1>7, <4>1, <4>2, <4>3
        <3> QED  BY <3>1, <3>2
    <2>2. Len(x) = i
        BY <1>4, <1>6
    <2> QED  BY <1>7, <2>1, <2>2, SeqEqual
<1>9. x \o tail = <<b>> \o (y \o tail)
    <2>1. <<b>> \in Seq(B) /\ tail \in Seq(B)
        BY DEF B
    <2>2. (<<b>> \o y) \o tail = <<b>> \o (y \o tail)
        <3>1. Regroups(<<b>>, y, tail)
            BY <2>1, Regrouping
        <3> QED  BY <2>1, <3>1 DEF Regroups
    <2> QED  BY <1>8, <2>2 DEF z
<1>10. i = 1 => y = <<>>
    <2>1. i = 1 => Len(y) = 0
        BY <1>5, <1>6
    <2> QED  BY <2>1, EmptySeq
<1> QED  BY <1>5, <1>6, <1>9, <1>10 DEF B, p, q

LEMMA Regroup ==
    ASSUME NEW S, NEW b \in Seq(S), NEW d \in S, NEW w \in Seq(S)
    PROVE  b \o (<<d>> \o w) = Append(b, d) \o w
PROOF
<1>1. PICK x \in Seq(S) : x = <<d>>
    <2>1. <<d>> \in Seq(S)
        OBVIOUS
    <2> QED  BY <2>1, Zenon
<1>2. b \o (x \o w) = (b \o x) \o w
    <2>1. Regroups(b, x, w)
        BY Regrouping
    <2> QED  BY <2>1 DEF Regroups
<1>3. Append(b, d) = b \o <<d>>
    BY AppendIsConcat
<1> QED  BY <1>1, <1>2, <1>3

(* A bit moves from what is to be written to what is in the bit writer.    *)
LEMMA BitMoves ==
    ASSUME EncInv, DataInv, epc = "bits", pos < need, NEW r,
           r = Reverse(SubSeq(Code, 1, index - 1)) \o BitsAfter(tree, buf, pos + 1)
    PROVE  r \in Seq({0, 1}) /\ bits \o ToWrite = Filled \o r
PROOF
<1>1. /\ bits \in Seq({0, 1}) /\ pos \in Nat /\ need \in Nat
    BY DEF EncInv, EncTypes
<1>2. pos + 1 \in 0..need
    BY <1>1
<1>3. /\ Code \in Seq({0, 1}) /\ index \in 1 .. Len(Code)
      /\ BitsAfter(tree, buf, pos + 1) \in Seq({0, 1})
    BY <1>2, FilledFacts, PieceTypes DEF Coded
<1>4. PICK c \in Seq({0, 1}), tail \in Seq({0, 1}), b \in Seq({0, 1}) :
         c = Code /\ tail = BitsAfter(tree, buf, pos + 1) /\ b = bits
    BY <1>1, <1>3
<1>5. PICK i \in 1 .. Len(c) : i = index
    BY <1>3, <1>4
<1>6. /\ Reverse(SubSeq(c, 1, i)) \o tail = <<c[i]>> \o (Reverse(SubSeq(c, 1, i-1)) \o tail)
      /\ Reverse(SubSeq(c, 1, i-1)) \in Seq({0, 1})
    BY NextBit
<1>7. ToWrite = Reverse(SubSeq(c, 1, i)) \o tail /\ r = Reverse(SubSeq(c, 1, i-1)) \o tail
    BY <1>4, <1>5 DEF ToWrite
<1>8. r \in Seq({0, 1})
    <2>1. PICK x \in Seq({0, 1}) : x = Reverse(SubSeq(c, 1, i-1))
        BY <1>6
    <2>2. x \o tail \in Seq({0, 1})
        BY ConcatProperties
    <2> QED  BY <1>7, <2>1, <2>2
<1>9. PICK d \in {0, 1}, w \in Seq({0, 1}) : d = c[i] /\ w = r
    <2>1. c[i] \in {0, 1}
        OBVIOUS
    <2> QED  BY <1>8, <2>1
<1>10. b \o (<<d>> \o w) = Append(b, d) \o w
    BY SMTT(20), Regroup
<1>12. Filled = Append(b, d)
    BY <1>4, <1>5, <1>9 DEF Filled
<1>13. ToWrite = <<d>> \o w
    BY <1>6, <1>7, <1>9
<1> QED  BY <1>4, <1>8, <1>9, <1>10, <1>12, <1>13

(* What is to be written after the bit.                                    *)
LEMMA BitIsGone ==
    ASSUME EncInv, EncInv', DataInv, epc = "bits", pos < need,
           IF index > 1
           THEN index' = index - 1 /\ pos' = pos
           ELSE /\ pos' = pos + 1
                /\ index' = IF pos + 1 < need THEN Len(mapping[buf[pos + 2]]) ELSE 0,
           UNCHANGED <<need, buf, tree, mapping>>
    PROVE  ToWrite' = Reverse(SubSeq(Code, 1, index - 1)) \o BitsAfter(tree, buf, pos + 1)
PROOF
<1>1. pos \in Nat /\ need \in Nat /\ index \in Nat \ {0} /\ pos + 1 \in 0..need
    <2>1. pos \in Nat /\ need \in Nat
        BY DEF EncInv, EncTypes
    <2>2. index \in 1 .. Len(Code) /\ Code \in Seq({0, 1})
        BY FilledFacts
    <2> QED  BY <2>1, <2>2
<1>2. CASE index > 1
    <2>1. Code' = Code /\ index' = index - 1 /\ pos' = pos
        BY <1>2 DEF Code
    <2>2. ToWrite' = Reverse(SubSeq(Code', 1, index')) \o BitsAfter(tree', buf', pos' + 1)
        BY <2>1 DEF ToWrite
    <2> QED  BY <2>1, <2>2
<1>3. CASE ~ (index > 1)
    <2>1. index = 1 /\ pos' = pos + 1
        BY <1>1, <1>3
    <2>2. PICK c \in Seq({0, 1}), tail \in Seq({0, 1}) :
             c = Code /\ tail = BitsAfter(tree, buf, pos + 1)
        BY <1>1, FilledFacts, PieceTypes DEF Coded
    <2>3. Reverse(SubSeq(c, 1, 1 - 1)) = <<>>
        <3>1. 1 \in 1 .. Len(c)
            BY <2>1, <2>2, FilledFacts
        <3> QED  BY <3>1, NextBit
    <2>4. Reverse(SubSeq(Code, 1, index - 1)) \o BitsAfter(tree, buf, pos + 1) = tail
        <3>1. <<>> \o tail = tail
            BY ConcatEmptySeq
        <3>2. index - 1 = 1 - 1
            BY <2>1
        <3> QED  BY <2>2, <2>3, <3>1, <3>2
    <2>5. CASE pos + 1 < need
        <3>1. pos + 1 \in 0 .. need - 1 /\ (pos + 1) + 1 = pos + 2 /\ pos + 2 \in 1..need
            BY <1>1, <2>5
        <3>2. PICK d \in Seq({0, 1}) : d = mapping[buf[pos + 2]]
            BY <3>1, CodeFacts DEF Coded
        <3>3. BitsAfter(tree, buf, pos + 1) = Reverse(d) \o BitsAfter(tree, buf, pos + 2)
            BY <3>1, <3>2, PieceTypes DEF Coded
        <3>4. Code' = d /\ index' = Len(d) /\ pos' + 1 = pos + 2 /\ pos' < need'
            BY <1>3, <2>1, <2>5, <3>1, <3>2 DEF Code
        <3>5. SubSeq(d, 1, Len(d)) = d
            BY SubSeqFull
        <3>6. ToWrite' = Reverse(SubSeq(Code', 1, index')) \o BitsAfter(tree', buf', pos' + 1)
            BY <3>4 DEF ToWrite
        <3> QED  BY <2>2, <2>4, <3>3, <3>4, <3>5, <3>6
    <2>6. CASE ~ (pos + 1 < need)
        <3>1. pos + 1 = need /\ ~ (pos' < need')
            BY <1>1, <2>1, <2>6
        <3>2. ToWrite' = <<>>
            BY <3>1 DEF ToWrite
        <3>3. tail = <<>>
            BY <2>2, <3>1, PieceTypes DEF Coded
        <3> QED  BY <2>4, <3>2, <3>3
    <2> QED  BY <2>5, <2>6
<1> QED  BY <1>2, <1>3

LEMMA WriteBitEncodes ==
    ASSUME EncInv, EncInv', DataInv, WriteBit
    PROVE  DataInv'
PROOF
<1> DEFINE r == Reverse(SubSeq(Code, 1, index - 1)) \o BitsAfter(tree, buf, pos + 1)
           byte1 == <<ByteOf(Filled)>>
<1>1. epc = "bits" /\ pos < need
    BY DEF WriteBit
<1>2. r \in Seq({0, 1}) /\ bits \o ToWrite = Filled \o r
    BY <1>1, BitMoves
<1>3. Filled \in Seq({0, 1}) /\ byte1 \in Seq(Symbols) /\ written \in Seq(Symbols)
    BY SMTT(20), <1>1, FilledFacts, ByteOfBits DEF EncInv, EncTypes
<1>4. Rest(Ahead) \in Seq(Symbols)
    <2>1. Ahead \in Nat
        BY DEF EncInv, EncTypes, Ahead, Consumed
    <2> QED  BY <2>1, RestIs
<1>5. written \o (Packed(Filled \o r) \o Rest(Ahead)) = Encoding
    BY <1>1, <1>2 DEF DataInv
<1> HIDE DEF r, byte1
<1>6. PICK w \in Seq(Symbols), u \in Seq(Symbols), v \in Seq(Symbols), p \in Seq(Symbols) :
         /\ w = written /\ u = Rest(Ahead) /\ v = Packed(r) /\ p = v \o u
    <2>1. Packed(r) \in Seq(Symbols)
        BY <1>2, PackedType
    <2>2. Packed(r) \o Rest(Ahead) \in Seq(Symbols)
        BY <1>4, <2>1, ConcatProperties
    <2> QED  BY <1>3, <1>4, <2>1, <2>2, Zenon
<1>7. Len(Filled) = ByteBits => written \o (byte1 \o p) = Encoding
    <2> SUFFICES ASSUME Len(Filled) = ByteBits PROVE written \o (byte1 \o p) = Encoding
        OBVIOUS
    <2>1. Packed(Filled \o r) = byte1 \o v
        BY <1>2, <1>3, <1>6, PackedStep DEF byte1
    <2>2. (byte1 \o v) \o u = byte1 \o (v \o u)
        <3>1. Regroups(byte1, v, u)
            BY <1>3, Regrouping
        <3> QED  BY <1>3, <3>1 DEF Regroups
    <2> QED  BY <1>5, <1>6, <2>1, <2>2
<1>8. CASE Len(Filled) = ByteBits /\ PutFails(byte1)
    BY <1>3, <1>6, <1>7, <1>8, PutFailsEncodes
<1>9. CASE ~ (Len(Filled) = ByteBits /\ PutFails(byte1))
    <2>1. /\ IF Len(Filled) = ByteBits
             THEN written' = written \o byte1 /\ bits' = <<>>
             ELSE written' = written /\ bits' = Filled
          /\ IF index > 1
             THEN index' = index - 1 /\ pos' = pos
             ELSE /\ pos' = pos + 1
                  /\ index' = IF pos + 1 < need THEN Len(mapping[buf[pos + 2]]) ELSE 0
          /\ UNCHANGED <<source, size, blocksize, left, need, buf, rates, tree,
                         mapping, epc, eresult, encoded>>
        BY <1>9 DEF WriteBit, Put, byte1
    <2>2. ToWrite' = r
        BY <1>1, <2>1, BitIsGone DEF r
    <2>3. Encoding' = Encoding /\ Rest(Ahead)' = Rest(Ahead) /\ Ahead' = Ahead
        <3>1. Encoding' = Encoding /\ ChunkLength' = ChunkLength
            BY <2>1, SameRest
        <3>2. Ahead' = Ahead
            BY <2>1 DEF Ahead, Consumed
        <3> QED  BY <2>1, <3>1, <3>2 DEF Rest
    <2>4. (written \o (Packed(bits \o ToWrite) \o Rest(Ahead)))' = Encoding'
        <3>1. CASE Len(Filled) = ByteBits
            <4>1. bits' \o ToWrite' = r
                <5>1. <<>> \o r = r
                    BY <1>2, ConcatEmptySeq
                <5> QED  BY <2>1, <2>2, <3>1, <5>1
            <4>2. (w \o byte1) \o p = w \o (byte1 \o p)
                <5>1. Regroups(w, byte1, p)
                    BY <1>3, Regrouping
                <5> QED  BY <1>3, <5>1 DEF Regroups
            <4>3. written' = w \o byte1
                BY <1>6, <2>1, <3>1
            <4>4. (Packed(bits \o ToWrite) \o Rest(Ahead))' = p
                BY <1>6, <2>3, <4>1
            <4> QED  BY <1>6, <1>7, <2>3, <3>1, <4>2, <4>3, <4>4
        <3>2. CASE Len(Filled) # ByteBits
            <4>1. bits' \o ToWrite' = Filled \o r /\ written' = written
                BY <2>1, <2>2, <3>2
            <4> QED  BY <1>5, <2>3, <4>1
        <3> QED  BY <3>1, <3>2
    <2>5. /\ epc' = "bits" /\ size' \in {Len(source'), Len(source') + 1}
          /\ Ahead' <= Len(source') /\ tree' = BlockTree(buf')
        BY <1>1, <2>1, <2>3 DEF DataInv, InBlock, Coded
    <2> QED  BY <2>4, <2>5 DEF DataInv, InBlock, Before, Coded
<1> QED  BY <1>8, <1>9

LEMMA WriteRestEncodes ==
    ASSUME EncInv, DataInv, WriteRest
    PROVE  DataInv'
PROOF
<1> DEFINE byte1 == IF bits # <<>> THEN <<ByteOf(bits)>> ELSE <<>>
<1>1. epc = "bits" /\ pos = need
    BY DEF WriteRest
<1>2. /\ bits \in Seq({0, 1}) /\ Len(bits) <= ByteBits /\ written \in Seq(Symbols)
      /\ size \in Nat /\ left \in 0..size /\ need \in 1..left
    BY WidthAssumption, <1>1 DEF EncInv, EncTypes, EncSteps, InBlock
<1>3. Ahead \in Nat /\ Rest(Ahead) \in Seq(Symbols)
    <2>1. Ahead \in Nat
        BY <1>2 DEF Ahead, Consumed
    <2> QED  BY <2>1, RestIs
<1>4. byte1 \in Seq(Symbols)
    <2>1. <<ByteOf(bits)>> \in Seq(Symbols)
        BY <1>2, ByteOfBits
    <2> QED  BY <2>1, Constants
<1>5. Packed(bits \o ToWrite) = byte1
    <2>1. bits \o ToWrite = bits
        <3>1. ToWrite = <<>>
            BY <1>1, <1>2 DEF ToWrite
        <3>2. bits \o <<>> = bits
            BY <1>2, ConcatEmptySeq
        <3> QED  BY <3>1, <3>2
    <2> QED  BY <1>2, <2>1, PackedShort
<1>6. written \o (byte1 \o Rest(Ahead)) = Encoding
    BY <1>1, <1>5 DEF DataInv
<1>7. CASE bits # <<>> /\ PutFails(<<ByteOf(bits)>>)
    <2>1. PutFails(byte1)
        BY <1>7
    <2> HIDE DEF byte1
    <2> QED  BY <1>3, <1>4, <1>6, <2>1, PutFailsEncodes
<1>8. CASE ~ (bits # <<>> /\ PutFails(<<ByteOf(bits)>>))
    <2>1. /\ written' = written \o byte1
          /\ left' = left - need
          /\ epc' = IF left' > 0 THEN "reset" ELSE "flush"
          /\ UNCHANGED <<source, size, blocksize, need, buf, rates, tree,
                         mapping, index, bits, eresult, encoded>>
        <3>1. written \o <<>> = written
            BY <1>2, ConcatEmptySeq
        <3> QED  BY <1>8, <3>1 DEF WriteRest, Put, StillToRead
    <2> HIDE DEF byte1
    <2>2. Encoding' = Encoding /\ ChunkLength' = ChunkLength
        BY <2>1, SameRest
    <2>3. written' \o Rest(Ahead) = Encoding
        <3>1. PICK w \in Seq(Symbols), b \in Seq(Symbols), u \in Seq(Symbols) :
                 w = written /\ b = byte1 /\ u = Rest(Ahead)
            BY <1>2, <1>3, <1>4
        <3>2. (w \o b) \o u = w \o (b \o u)
            <4>1. Regroups(w, b, u)
                BY Regrouping
            <4> QED  BY <4>1 DEF Regroups
        <3> QED  BY <1>6, <2>1, <3>1, <3>2
    <2>4. /\ size \in {Len(source), Len(source) + 1} /\ Ahead <= Len(source)
          /\ source \in Seq(Symbols)
        BY <1>1 DEF DataInv, InBlock, EncInv, EncTypes
    <2>5. Consumed' = Ahead
        BY <1>2, <2>1 DEF Consumed, Ahead
    <2>6. CASE left' > 0
        <3>1. Rest(Consumed)' = Rest(Ahead)
            BY <2>1, <2>2, <2>5 DEF Rest
        <3>2. (written \o Rest(Consumed))' = Encoding' /\ epc' = "reset"
            BY <2>1, <2>2, <2>3, <2>6, <3>1
        <3> QED  BY <2>1, <2>4, <3>2 DEF DataInv, InBlock, Before, Coded
    <2>7. CASE ~ (left' > 0)
        <3>1. Ahead = size /\ size = Len(source)
            BY <1>2, <2>1, <2>4, <2>7 DEF Ahead, Consumed
        <3>2. Rest(Ahead) = <<>>
            BY <1>3, <3>1, RestIs
        <3>3. written' = Encoding
            <4>1. written' \in Seq(Symbols)
                BY <1>2, <1>4, <2>1, ConcatProperties
            <4>2. written' \o <<>> = written'
                BY <4>1, ConcatEmptySeq
            <4> QED  BY <2>3, <3>2, <4>2
        <3>4. epc' = "flush" /\ written' = Encoding' /\ size' = Len(source')
            BY <2>1, <2>2, <2>7, <3>1, <3>3
        <3> QED  BY <2>1, <2>4, <3>4 DEF DataInv, InBlock, Before, Coded
    <2> QED  BY <2>6, <2>7
<1> QED  BY <1>7, <1>8

LEMMA ResetBlockEncodes ==
    ASSUME EncInv, DataInv, ResetBlock
    PROVE  DataInv'
PROOF
<1>1. /\ epc = "reset" /\ epc' = "read"
      /\ UNCHANGED <<source, size, blocksize, left, written>>
    BY DEF ResetBlock
<1>2. Encoding' = Encoding /\ ChunkLength' = ChunkLength
    BY <1>1, SameRest
<1>3. Consumed' = Consumed
    BY <1>1 DEF Consumed
<1>4. Rest(Consumed)' = Rest(Consumed)
    BY <1>1, <1>2, <1>3 DEF Rest
<1>5. (written \o Rest(Consumed))' = Encoding' /\ size' \in {Len(source'), Len(source') + 1}
    BY <1>1, <1>2, <1>4 DEF DataInv
<1> QED  BY <1>1, <1>5 DEF DataInv, InBlock, Before, Coded

LEMMA FlushEncodedEncodes ==
    ASSUME EncInv, DataInv, FlushEncoded
    PROVE  DataInv'
PROOF
<1>1. epc = "flush" /\ written = Encoding /\ written \in Seq(Symbols)
      /\ size \in {Len(source), Len(source) + 1}
    BY DEF FlushEncoded, DataInv, EncInv, EncTypes
<1>2. CASE PutFails(<<>>)
    <2>1. <<>> \in Seq(Symbols) /\ <<>> \o <<>> = <<>> /\ written \o <<>> = written
        BY <1>1, ConcatEmptySeq, Constants
    <2>2. written \o (<<>> \o <<>>) = Encoding
        BY <1>1, <2>1
    <2> QED  BY <1>2, <2>1, <2>2, PutFailsEncodes
<1>3. CASE Return("ok", written)
    <2>1. /\ epc' = "returned" /\ eresult' = "ok" /\ encoded' = written
          /\ source' = source /\ size' = size /\ blocksize' = blocksize
        BY <1>3 DEF Return
    <2>2. Encoding' = Encoding
        BY <2>1, SameRest
    <2>3. IsPrefix(written, written)
        <3>1. Len(written) <= Len(written)
            BY <1>1
        <3> QED  BY <3>1 DEF IsPrefix
    <2> QED  BY <1>1, <2>1, <2>2, <2>3 DEF DataInv, InBlock, Before, Coded
<1> QED  BY <1>2, <1>3 DEF FlushEncoded

LEMMA EncodeEncodes ==
    ASSUME EncInv, DataInv, EncNext
    PROVE  DataInv'
PROOF
<1>1. EncInv'
    BY EncodeKeeps
<1> QED
    BY <1>1, BeginEncodes, ReadBlockEncodes, CountBlockEncodes, MergeRatesEncodes,
       CreateCodingEncodes, WriteSizeEncodes, WriteTreeLengthEncodes, WriteTreeEncodes,
       WriteBitEncodes, WriteRestEncodes, ResetBlockEncodes, FlushEncodedEncodes DEF EncNext

-----------------------------------------------------------------------------
(* The steps of the decoder.                                               *)

LEMMA DReturnKeeps ==
    ASSUME DecInv, NEW result, NEW held \in Seq(Symbols), DReturn(result, held)
    PROVE  DecInv'
PROOF
<1>1. DecTypes'
    <2>1. shape'.index = <<>> /\ shape'.root = None /\ <<>> \in Seq(Int) /\ Len(<<>>) = 0
        BY DEF DReturn, NoShape
    <2>2. 1..0 = {}
        OBVIOUS
    <2>3. None \in Positions'
        BY DEF Positions
    <2>4. 0 \in 0 .. HUF_BTREE_LEN /\ 0 \in 0..ByteBits
        BY WidthAssumption, Constants
    <2> QED  BY <2>1, <2>2, <2>3, <2>4, Constants DEF DecInv, DecTypes, DReturn
<1>2. DecSteps'
    BY DEF DecSteps, DReturn
<1> QED  BY <1>1, <1>2 DEF DecInv

LEMMA DFailKeeps ==
    ASSUME DecInv, NEW result, NEW data \in Seq(Symbols), DReturnError(result, data)
    PROVE  DecInv'
PROOF
<1>1. PICK n \in 0 .. Len(data) : DReturn(result, SubSeq(data, 1, n))
    BY DEF DReturnError
<1>2. SubSeq(data, 1, n) \in Seq(Symbols)
    OBVIOUS
<1> QED  BY <1>1, <1>2, DReturnKeeps

LEMMA ShortKeeps ==
    ASSUME DecInv, NEW n, Short(n)
    PROVE  DecInv'
    BY DFailKeeps DEF Short, DecInv, DecTypes

(* The bytes that a read gets.                                             *)
LEMMA BytesType ==
    ASSUME DecInv, NEW n \in Nat, Got(n)
    PROVE  /\ Bytes(n) \in Seq(Symbols) /\ Len(Bytes(n)) = n
           /\ processed + n \in 0 .. Len(stream)
PROOF
<1>1. stream \in Seq(Symbols) /\ processed \in 0 .. Len(stream)
    BY DEF DecInv, DecTypes
<1>2. PICK a \in Nat, b \in Nat : a = processed /\ b = a + n /\ b <= Len(stream)
    BY <1>1 DEF Got
<1>3. \A i \in a+1 .. b : stream[i] \in Symbols
    BY <1>1, <1>2
<1>4. a + 1 \in 1 .. b + 1 /\ b - (a + 1) + 1 = n
    BY <1>2
<1>5. Bytes(n) = SubSeq(stream, a + 1, b)
    BY <1>2 DEF Bytes
<1>6. Bytes(n) \in Seq(Symbols) /\ Len(Bytes(n)) = n
    BY <1>1, <1>2, <1>3, <1>4, <1>5, SubSeqProperties
<1> QED  BY <1>1, <1>2, <1>6

LEMMA NextBlockKeeps ==
    ASSUME DecInv, NextBlock
    PROVE  DecInv'
PROOF
<1>1. DecTypes'
    BY DEF NextBlock, DecInv, DecTypes, Positions
<1>2. DecSteps'
    BY DEF NextBlock, DecInv, DecSteps
<1> QED  BY <1>1, <1>2 DEF DecInv

LEMMA FlushDecodedKeeps ==
    ASSUME DecInv, FlushDecoded
    PROVE  DecInv'
    BY DReturnKeeps, DFailKeeps DEF FlushDecoded, DecInv, DecTypes

LEMMA ReadSizeKeeps ==
    ASSUME DecInv, ReadSize
    PROVE  DecInv'
PROOF
<1>1. CASE Short(SizeWidth)
    BY <1>1, ShortKeeps
<1>2. CASE ~ Short(SizeWidth)
    <2>1. /\ dpc = "size" /\ Got(SizeWidth) /\ dpc' = "treelength"
          /\ chunk' = Unsigned(Bytes(SizeWidth)) /\ processed' = processed + SizeWidth
          /\ UNCHANGED <<stream, treelen, shape, last, byte, offset, restored,
                         decoded, dresult, output>>
        BY <1>2 DEF ReadSize
    <2>2. SizeWidth \in Nat
        BY WidthAssumption
    <2>3. processed' \in 0 .. Len(stream) /\ chunk' \in Nat
        BY <2>1, <2>2, BytesType, UnsignedType
    <2>4. DecTypes'
        BY <2>1, <2>3 DEF DecInv, DecTypes, Positions
    <2>5. DecSteps'
        BY <2>1 DEF DecInv, DecSteps
    <2> QED  BY <2>4, <2>5 DEF DecInv
<1> QED  BY <1>1, <1>2

LEMMA ReadTreeLengthKeeps ==
    ASSUME DecInv, ReadTreeLength
    PROVE  DecInv'
PROOF
<1> DEFINE n == Signed(Bytes(IntWidth))
<1>1. CASE Short(IntWidth)
    BY <1>1, ShortKeeps
<1>2. CASE DReturnError("overflow", decoded) \/ DReturnError("memory", decoded)
    BY <1>2, DFailKeeps DEF DecInv, DecTypes
<1>3. CASE /\ ~ Short(IntWidth)
           /\ ~ (DReturnError("overflow", decoded) \/ DReturnError("memory", decoded))
    <2>1. /\ dpc = "treelength" /\ Got(IntWidth) /\ dpc' = "tree"
          /\ ValidLength(n) /\ treelen' = n /\ processed' = processed + IntWidth
          /\ UNCHANGED <<stream, chunk, shape, last, byte, offset,
                         restored, decoded, dresult, output>>
        BY <1>3 DEF ReadTreeLength
    <2>2. IntWidth \in Nat \ {0}
        BY WidthAssumption
    <2>3. /\ Bytes(IntWidth) \in Seq(Symbols) /\ Len(Bytes(IntWidth)) = IntWidth
          /\ processed + IntWidth \in 0 .. Len(stream)
        BY <2>1, <2>2, BytesType
    <2>4. Bytes(IntWidth) # <<>>
        <3> DEFINE d == Bytes(IntWidth)
        <3>1. Len(d) # 0
            BY <2>2, <2>3
        <3> HIDE DEF d
        <3>2. d # <<>>
            BY <3>1
        <3> QED  BY <3>2 DEF d
    <2>5. n \in Int
        BY <2>3, <2>4, SignedType
    <2> HIDE DEF n
    <2>6. treelen' \in 0 .. HUF_BTREE_LEN
        BY <2>1, <2>5, Constants DEF ValidLength
    <2>7. DecTypes'
        BY <2>1, <2>3, <2>6 DEF DecInv, DecTypes, Positions
    <2>8. DecSteps'
        BY <2>1 DEF DecInv, DecSteps
    <2> QED  BY <2>7, <2>8 DEF DecInv
<1> QED  BY <1>1, <1>2, <1>3

LEMMA ReadTreeKeeps ==
    ASSUME DecInv, ReadTree
    PROVE  DecInv'
PROOF
<1> DEFINE n == treelen * IntWidth
<1>1. CASE Short(n)
    BY <1>1, ShortKeeps
<1>2. CASE DReturnError("memory", decoded)
    BY <1>2, DFailKeeps DEF DecInv, DecTypes
<1>3. CASE ~ Short(n) /\ ~ DReturnError("memory", decoded)
    <2>1. /\ dpc = "tree" /\ Got(n) /\ dpc' = "byte" /\ processed' = processed + n
          /\ shape' = Deserialize(Elements(Bytes(n)))
          /\ last' = IF last = None THEN shape'.root ELSE last
          /\ restored' = 0
          /\ UNCHANGED <<stream, chunk, treelen, byte, offset, decoded,
                         dresult, output>>
        BY <1>3 DEF ReadTree
    <2>2. n \in Nat
        <3>1. PICK t \in Nat : t = treelen
            BY Constants DEF DecInv, DecTypes
        <3>2. t * IntWidth \in Nat
            BY WidthAssumption
        <3> QED  BY <3>1, <3>2
    <2> HIDE DEF n
    <2>3. Bytes(n) \in Seq(Symbols) /\ processed' \in 0 .. Len(stream)
        BY <2>1, <2>2, BytesType
    <2> DEFINE elements == Elements(Bytes(n))
    <2>4. elements \in Seq(Int)
        BY <2>3, ElementsType
    <2> HIDE DEF elements
    <2>5. shape' = Deserialize(elements) /\ last = None
        BY <2>1 DEF DecInv, DecSteps, elements
    <2>6. /\ shape'.index = elements /\ shape'.root \in 1 .. Len(elements) \cup {None}
          /\ \A k \in 1 .. Len(elements) :
                /\ shape'.left[k] \in 1 .. Len(elements) \cup {None}
                /\ shape'.right[k] \in 1 .. Len(elements) \cup {None}
        BY <2>4, <2>5, ShapeType
    <2>7. Positions' = 1 .. Len(elements) \cup {None}
        BY <2>6 DEF Positions
    <2>8. last' \in Positions'
        BY <2>1, <2>5, <2>6, <2>7
    <2>9. DecTypes'
        BY <2>1, <2>3, <2>4, <2>6, <2>7, <2>8 DEF DecInv, DecTypes
    <2>10. DecSteps'
        BY <2>1 DEF DecInv, DecTypes, DecSteps
    <2> QED  BY <2>9, <2>10 DEF DecInv
<1> QED  BY <1>1, <1>2, <1>3

LEMMA ReadByteKeeps ==
    ASSUME DecInv, ReadByte
    PROVE  DecInv'
PROOF
<1>1. CASE Short(1)
    BY <1>1, ShortKeeps
<1>2. CASE ~ Short(1)
    <2>1. /\ dpc = "byte" /\ restored < chunk /\ Got(1) /\ dpc' = "bit"
          /\ byte' = Bytes(1)[1] /\ processed' = processed + 1 /\ offset' = ByteBits
          /\ UNCHANGED <<stream, chunk, treelen, shape, last, restored,
                         decoded, dresult, output>>
        BY <1>2 DEF ReadByte
    <2>2. 1 \in Nat
        OBVIOUS
    <2>3. Bytes(1) \in Seq(Symbols) /\ Len(Bytes(1)) = 1 /\ processed' \in 0 .. Len(stream)
        BY <2>1, <2>2, BytesType
    <2>4. byte' \in Symbols /\ offset' \in 0..ByteBits /\ offset' > 0
        BY WidthAssumption, <2>1, <2>3
    <2>5. DecTypes'
        BY <2>1, <2>3, <2>4 DEF DecInv, DecTypes, Positions
    <2>6. DecSteps'
        BY <2>1, <2>4 DEF DecInv, DecTypes, DecSteps
    <2> QED  BY <2>5, <2>6 DEF DecInv
<1> QED  BY <1>1, <1>2

LEMMA DownFacts ==
    ASSUME DecInv, last # None, Down # None
    PROVE  /\ Down \in Positions /\ shape.index[Down] \in Int
           /\ shape.index[Down] % HUF_ASCII_COUNT \in Symbols
PROOF
<1>1. last \in 1 .. Len(shape.index)
    BY DEF DecInv, DecTypes, Positions
<1>2. Down \in Positions
    BY <1>1 DEF Down, DecInv, DecTypes
<1>3. Down \in 1 .. Len(shape.index) /\ shape.index \in Seq(Int)
    BY <1>2 DEF DecInv, DecTypes, Positions
<1>4. shape.index[Down] \in Int
    BY <1>3
<1> QED  BY <1>2, <1>4, Remainders

LEMMA ReadBitKeeps ==
    ASSUME DecInv, ReadBit
    PROVE  DecInv'
PROOF
<1> DEFINE symbol == shape.index[Down] % HUF_ASCII_COUNT
<1>1. /\ dpc = "bit" /\ last # None /\ restored < chunk /\ offset \in 1..ByteBits
      /\ restored \in Nat /\ chunk \in Nat
    BY DEF ReadBit, DecInv, DecTypes, DecSteps
<1>2. CASE DReturnError("corrupted", decoded)
    BY <1>2, DFailKeeps DEF DecInv, DecTypes
<1>3. CASE ~ DReturnError("corrupted", decoded)
    <2>1. Down # None
        BY <1>3 DEF ReadBit
    <2>2. Down \in Positions /\ symbol \in Symbols
        BY <1>1, <2>1, DownFacts
    <2>3. offset - 1 \in 0..ByteBits /\ (offset # 1 => offset - 1 > 0)
        BY WidthAssumption, <1>1
    <2>4. ASSUME /\ last' = Down /\ offset' = offset - 1
                 /\ dpc' = IF offset = 1 THEN "byte" ELSE "bit"
                 /\ UNCHANGED <<stream, processed, chunk, treelen, shape, byte,
                                restored, decoded, dresult, output>>
          PROVE  DecInv'
        <3>1. DecTypes'
            BY <2>2, <2>3, <2>4 DEF DecInv, DecTypes, Positions
        <3>2. DecSteps'
            BY <1>1, <2>3, <2>4 DEF DecInv, DecSteps
        <3> QED  BY <3>1, <3>2 DEF DecInv
    <2>5. Append(decoded, symbol) \in Seq(Symbols)
        BY <2>2 DEF DecInv, DecTypes
    <2>6. ASSUME /\ decoded' = Append(decoded, symbol) /\ restored' = restored + 1
                 /\ last' = shape.root /\ offset' = offset - 1
                 /\ dpc' = IF offset = 1 \/ restored' >= chunk THEN "byte" ELSE "bit"
                 /\ UNCHANGED <<stream, processed, chunk, treelen, shape, byte,
                                dresult, output>>
          PROVE  DecInv'
        <3>1. DecTypes'
            BY <1>1, <2>3, <2>5, <2>6 DEF DecInv, DecTypes, Positions
        <3>2. DecSteps'
            BY <1>1, <2>3, <2>6 DEF DecInv, DecSteps
        <3> QED  BY <3>1, <3>2 DEF DecInv
    <2>7. CASE DReturnError("sink", Append(decoded, symbol))
        BY <2>5, <2>7, DFailKeeps
    <2> QED  BY <1>3, <2>1, <2>4, <2>6, <2>7 DEF ReadBit
<1> QED  BY <1>2, <1>3

LEMMA FollowNullKeeps ==
    ASSUME DecInv, FollowNull
    PROVE  DecInv'
PROOF
<1>1. DecTypes'
    BY DEF FollowNull, DecInv, DecTypes, Positions
<1>2. DecSteps'
    BY DEF FollowNull, DecInv, DecSteps
<1> QED  BY <1>1, <1>2 DEF DecInv

LEMMA EndBlockKeeps ==
    ASSUME DecInv, EndBlock
    PROVE  DecInv'
PROOF
<1>1. DecTypes'
    <2>1. shape'.index = <<>> /\ shape'.root = None /\ <<>> \in Seq(Int) /\ Len(<<>>) = 0
        BY DEF EndBlock, NoShape
    <2>2. 1..0 = {}
        OBVIOUS
    <2>3. None \in Positions'
        BY DEF Positions
    <2> QED  BY <2>1, <2>2, <2>3 DEF DecInv, DecTypes, EndBlock
<1>2. DecSteps'
    BY DEF EndBlock, DecInv, DecSteps
<1> QED  BY <1>1, <1>2 DEF DecInv

LEMMA DecodeKeeps ==
    ASSUME DecInv, DecNext
    PROVE  DecInv'
    BY NextBlockKeeps, FlushDecodedKeeps, ReadSizeKeeps, ReadTreeLengthKeeps, ReadTreeKeeps,
       ReadByteKeeps, ReadBitKeeps, FollowNullKeeps, EndBlockKeeps DEF DecNext

-----------------------------------------------------------------------------
(* The two calls.                                                          *)

IInv == EncInv /\ DecInv

LEMMA InitInv == Init => IInv
PROOF
<1> SUFFICES ASSUME Init PROVE IInv
    OBVIOUS
<1> USE DEF Init
<1>1. EncInv
    <2>1. EncTypes
        <3>1. source \in Seq(Symbols) /\ blocksize \in Nat
            BY InputsAssumption DEF EncInit
        <3>2. size \in Nat
            <4>1. PICK n \in Nat : n = Len(source)
                BY <3>1
            <4> QED  BY <4>1 DEF EncInit
        <3> QED  BY <3>1, <3>2, Constants DEF EncInit, EncTypes
    <2>2. EncSteps
        BY DEF EncInit, EncSteps, InBlock, Coded
    <2> QED  BY <2>1, <2>2 DEF EncInv
<1>2. DecInv
    <2>1. DecTypes
        <3>1. shape.index = <<>> /\ shape.root = None /\ <<>> \in Seq(Int) /\ Len(<<>>) = 0
            BY DEF DecInit, NoShape
        <3>2. 1..0 = {}
            OBVIOUS
        <3>3. None \in Positions
            BY DEF Positions
        <3>4. 0 \in 0 .. HUF_BTREE_LEN /\ 0 \in 0..ByteBits /\ 0 \in 0..0
            BY WidthAssumption, Constants
        <3> QED  BY <3>1, <3>2, <3>3, <3>4, Constants DEF DecInit, DecTypes
    <2>2. DecSteps
        BY DEF DecInit, DecSteps
    <2> QED  BY <2>1, <2>2 DEF DecInv
<1> QED  BY <1>1, <1>2 DEF IInv

LEMMA DeliverKeeps ==
    ASSUME DecInv, encoded \in Seq(Symbols), Deliver
    PROVE  DecInv'
PROOF
<1>1. /\ dpc = "idle" /\ dpc' = "loop"
      /\ UNCHANGED <<processed, chunk, treelen, shape, last, byte,
                     offset, restored, decoded, dresult, output>>
    BY DEF Deliver
<1>2. stream' \in Seq(Symbols)
    <2>1. CASE stream' = encoded
        BY <2>1
    <2>2. ASSUME NEW i, NEW n,
                 stream' = [k \in 1 .. Len(encoded) |-> IF k \in i+1 .. i+n
                                                        THEN 0 ELSE encoded[k]]
          PROVE  stream' \in Seq(Symbols)
        <3>1. \A k \in 1 .. Len(encoded) : encoded[k] \in Symbols
            OBVIOUS
        <3>2. stream' \in [1 .. Len(encoded) -> Symbols] /\ Len(encoded) \in Nat
            BY <2>2, <3>1, Constants
        <3> QED  BY <3>2
    <2> QED  BY <2>1, <2>2 DEF Deliver
<1>3. processed' \in 0 .. Len(stream')
    BY <1>1, <1>2 DEF DecInv, DecSteps
<1>4. DecTypes'
    BY <1>1, <1>2, <1>3 DEF DecInv, DecTypes, Positions
<1>5. DecSteps'
    BY <1>1 DEF DecInv, DecSteps
<1> QED  BY <1>4, <1>5 DEF DecInv

LEMMA NextInv == IInv /\ [Next]_vars => IInv'
PROOF
<1> SUFFICES ASSUME IInv, [Next]_vars PROVE IInv'
    OBVIOUS
<1>1. (UNCHANGED encVars) => EncInv'
    <2> SUFFICES ASSUME UNCHANGED encVars PROVE EncInv'
        OBVIOUS
    <2>1. Used' = Used /\ Code' = Code
        BY DEF Used, Code, encVars
    <2> QED  BY <2>1 DEF IInv, EncInv, EncTypes, EncSteps, encVars
<1>2. (UNCHANGED decVars) => DecInv'
    BY DEF IInv, DecInv, DecTypes, DecSteps, Positions, decVars
<1>3. CASE Encode
    BY <1>2, <1>3, EncodeKeeps DEF IInv, Encode
<1>4. CASE Deliver
    BY <1>1, <1>4, DeliverKeeps DEF IInv, EncInv, EncTypes, Deliver
<1>5. CASE Decode
    BY <1>1, <1>5, DecodeKeeps DEF IInv, Decode
<1>6. CASE Over
    BY <1>1, <1>2, <1>6 DEF IInv, Over, vars
<1>7. CASE UNCHANGED vars
    BY <1>1, <1>2, <1>7 DEF IInv, vars
<1> QED  BY <1>3, <1>4, <1>5, <1>6, <1>7 DEF Next

LEMMA Invariance == Spec => []IInv
    BY InitInv, NextInv, PTL DEF Spec

(* Type correctness of huf_encode and of huf_decode on any stream.         *)
THEOREM TypeCorrect == Spec => []TypeOK
PROOF
<1>1. IInv => TypeOK
    BY DEF IInv, EncInv, EncTypes, DecInv, DecTypes, TypeOK, Positions
<1> QED  BY <1>1, Invariance, PTL

(* The element of the mapping that __huf_encode_block reads                *)
(* (src/encoder.c:101-106) exists for every byte of the block.             *)
THEOREM BytesAreCoded == Spec => []EveryByteHasCode
PROOF
<1>1. IInv => EveryByteHasCode
    BY CodeFacts DEF IInv, EveryByteHasCode, Coded
<1> QED  BY <1>1, Invariance, PTL

(* On any stream the decoder restores no more bytes of a block than its    *)
(* header announces (src/decoder.c:51-92).                                 *)
THEOREM BlockIsNotOverrun == Spec => []RestoredWithinBlock
PROOF
<1>1. IInv => RestoredWithinBlock
    BY DEF IInv, DecInv, DecSteps, RestoredWithinBlock
<1> QED  BY <1>1, Invariance, PTL

LEMMA InitData == Init => DataInv
PROOF
<1> SUFFICES ASSUME Init PROVE DataInv
    OBVIOUS
<1>1. epc = "init" /\ written = <<>> /\ size \in {Len(source), Len(source) + 1}
    BY DEF Init, EncInit
<1> QED  BY <1>1 DEF DataInv, InBlock, Before, Coded

LEMMA NextData == IInv /\ DataInv /\ [Next]_vars => DataInv'
PROOF
<1> SUFFICES ASSUME IInv, DataInv, [Next]_vars PROVE DataInv'
    OBVIOUS
<1>1. CASE Encode
    BY <1>1, EncodeEncodes DEF IInv, Encode
<1>2. CASE UNCHANGED encVars
    <2>1. /\ UNCHANGED <<source, size, blocksize, left, need, buf, rates, tree, mapping>>
          /\ UNCHANGED <<pos, index, bits, written, epc, eresult, encoded>>
        BY <1>2 DEF encVars
    <2>2. /\ Encoding' = Encoding /\ Consumed' = Consumed /\ Ahead' = Ahead
          /\ Rest(Consumed)' = Rest(Consumed) /\ Rest(Ahead)' = Rest(Ahead)
        BY <2>1 DEF Encoding, ChunkLength, Consumed, Ahead, Rest
    <2>3. Headless' = Headless /\ Treeless' = Treeless /\ ToWrite' = ToWrite
        BY <2>1 DEF Headless, Treeless, ToWrite, TreeLength, Code
    <2> QED  BY <2>1, <2>2, <2>3 DEF DataInv
<1>3. CASE Deliver \/ Decode \/ Over \/ UNCHANGED vars
    <2>1. UNCHANGED encVars
        BY <1>3 DEF Deliver, Decode, Over, vars
    <2> QED  BY <1>2, <2>1
<1> QED  BY <1>1, <1>3 DEF Next

(* What huf_encode leaves with its sink, when it returns, is a prefix of   *)
(* the reference encoding, and all of it when it succeeds, which it never  *)
(* does when told of more data than there is (src/encoder.c:288-380).      *)
THEOREM ReferenceIsWritten == Spec => []EncodesBlocks
PROOF
<1>1. Spec => []DataInv
    BY InitData, NextData, Invariance, PTL DEF Spec
<1>2. DataInv => EncodesBlocks
    BY DEF DataInv, EncodesBlocks
<1> QED  BY <1>1, <1>2, PTL

-----------------------------------------------------------------------------
(* Reading numbers back: halves and quotients of larger numbers are larger *)
(* too.                                                                    *)
LEMMA QuotientOrder ==
    ASSUME NEW x \in Nat, NEW y \in Nat, x <= y, NEW b \in Nat \ {0}
    PROVE  x \div b \in Nat /\ y \div b \in Nat /\ x \div b <= y \div b
PROOF
<1>1. PICK p \in Nat, r \in Nat : p = x \div b /\ r < b /\ x = b * p + r
    BY Division
<1>2. PICK q \in Nat, s \in Nat : q = y \div b /\ s < b /\ y = b * q + s
    BY Division
<1>3. p <= q
    <2> SUFFICES ASSUME q + 1 <= p PROVE FALSE
        OBVIOUS
    <2>1. PICK m \in Nat, k \in Nat : m = b * p /\ k = b * q
        OBVIOUS
    <2>2. b * (q + 1) <= b * p
        BY Products
    <2>3. b * (q + 1) = k + b
        BY <2>1
    <2> QED  BY <1>1, <1>2, <2>1, <2>2, <2>3
<1> QED  BY <1>1, <1>2, <1>3

LEMMA QuotientDouble ==
    ASSUME NEW x \in Nat, NEW y \in Nat, 2 * x <= y, NEW b \in Nat \ {0}
    PROVE  x \div b \in Nat /\ y \div b \in Nat /\ 2 * (x \div b) <= y \div b
PROOF
<1>1. PICK p \in Nat, r \in Nat : p = x \div b /\ r < b /\ x = b * p + r
    BY Division
<1>2. PICK q \in Nat, s \in Nat : q = y \div b /\ s < b /\ y = b * q + s
    BY Division
<1>3. 2 * p <= q
    <2> SUFFICES ASSUME q + 1 <= 2 * p PROVE FALSE
        OBVIOUS
    <2>1. PICK m \in Nat, k \in Nat, d \in Nat : m = b * p /\ k = b * q /\ d = 2 * p
        OBVIOUS
    <2>2. b * (q + 1) <= b * d
        BY <2>1, Products
    <2>3. b * (q + 1) = k + b /\ b * d = 2 * m
        BY <2>1
    <2> QED  BY <1>1, <1>2, <2>1, <2>2, <2>3
<1> QED  BY <1>1, <1>2, <1>3

(* The quotient of an integer, rounded down, and the remainder.            *)
LEMMA IntDivision ==
    ASSUME NEW a \in Int, NEW b \in Nat \ {0}
    PROVE  /\ a \div b \in Int /\ a % b \in 0 .. b - 1
           /\ a = b * (a \div b) + (a % b)
    OBVIOUS

(* The digits of a number, the first of which is all that is left of it.   *)
Spelled(v, b, w, u) ==
    /\ Len(u) = w /\ u[1] = Shifted(v, b, w - 1)
    /\ \A k \in 2..w : u[k] = Shifted(v, b, w - k) % b

(* They give the number back.                                              *)
LEMMA ValueBack ==
    ASSUME NEW v \in Int, NEW b \in Nat \ {0}, NEW w \in Nat \ {0}, NEW u \in Seq(Int),
           Spelled(v, b, w, u)
    PROVE  Value(u, b) = v
PROOF
<1> USE DEF Spelled
<1>1. /\ Shifted(v, b, 0) = v
      /\ \A n \in Nat : /\ Shifted(v, b, n) \in Int
                        /\ Shifted(v, b, n+1) = Shifted(v, b, n) \div b
    BY ShiftedStep
<1>2. PICK g \in [0..w -> Int] :
          /\ g[0] = 0 /\ \A k \in 1..w : g[k] = b * g[k-1] + u[k]
          /\ Value(u, b) = g[w]
    <2>1. b \in Nat /\ w \in Nat /\ w = Len(u) /\ \A k \in 1..w : u[k] \in Int
        OBVIOUS
    <2>2. \E g \in Values(u, b, w) : Value(u, b) = g[w]
        BY <2>1, ValueIs, Zenon
    <2> QED  BY <2>2 DEF Values
<1> DEFINE T == {k \in 0 .. w-1 : g[k+1] = Shifted(v, b, w - (k+1))}
<1>3. 0 \in T
    <2>1. 1 \in 1..w /\ 1 - 1 = 0 /\ 0 + 1 = 1
        OBVIOUS
    <2>2. g[1] = b * g[0] + u[1] /\ u[1] \in Int
        BY <1>2, <2>1
    <2>3. g[1] = u[1]
        BY <1>2, <2>2
    <2> QED  BY <2>1, <2>3
<1>4. ASSUME NEW k \in 1 .. w-1, k - 1 \in T PROVE k \in T
    <2>1. PICK n \in Nat : n = w - (k + 1) /\ n + 1 = w - k
        OBVIOUS
    <2>2. PICK a \in Int : a = Shifted(v, b, n)
        BY <1>1
    <2>3. g[k] = a \div b
        <3>1. (k - 1) + 1 = k
            OBVIOUS
        <3> QED  BY <1>1, <1>4, <2>1, <2>2, <3>1
    <2>4. k + 1 \in 2..w /\ k + 1 \in 1..w /\ (k + 1) - 1 = k
        OBVIOUS
    <2>5. g[k+1] = b * g[k] + u[k+1] /\ u[k+1] = a % b
        BY <1>2, <2>1, <2>2, <2>4
    <2>6. a = b * (a \div b) + (a % b)
        BY IntDivision
    <2>7. g[k+1] = a
        BY <2>3, <2>5, <2>6
    <2> QED  BY <2>1, <2>2, <2>7
<1>5. 0 .. w-1 \subseteq T
    <2>1. w - 1 \in Nat
        OBVIOUS
    <2> HIDE DEF T
    <2> QED  BY <1>3, <1>4, <2>1, BoundedInduction
<1>6. w - 1 \in T /\ (w - 1) + 1 = w /\ w - w = 0
    <2>1. w - 1 \in 0 .. w-1 /\ (w - 1) + 1 = w /\ w - w = 0
        OBVIOUS
    <2> HIDE DEF T
    <2> QED  BY <1>5, <2>1
<1> QED  BY <1>1, <1>2, <1>6

(* The bits of a value, from the top.                                      *)
LEMMA BitsOfValue ==
    ASSUME NEW z \in Seq({0, 1})
    PROVE  \A k \in 1 .. Len(z) : Shifted(Value(z, 2), 2, Len(z) - k) % 2 = z[k]
PROOF
<1>1. PICK n \in Nat : n = Len(z)
    OBVIOUS
<1>2. \A k \in 1..n : z[k] \in {0, 1}
    BY <1>1
<1>3. PICK g \in [0..n -> Int] :
          /\ g[0] = 0 /\ \A k \in 1..n : g[k] = 2 * g[k-1] + z[k]
          /\ Value(z, 2) = g[n]
    <2>1. \A k \in 1..n : z[k] \in Int
        BY <1>2
    <2>2. \E g \in Values(z, 2, n) : Value(z, 2) = g[n]
        BY <1>1, <2>1, ValueIs
    <2> QED  BY <2>2 DEF Values
<1>4. PICK v \in Int : v = Value(z, 2)
    BY <1>3
<1>5. /\ Shifted(v, 2, 0) = v
      /\ \A m \in Nat : Shifted(v, 2, m+1) = Shifted(v, 2, m) \div 2
    <2>1. 2 \in Nat \ {0}
        OBVIOUS
    <2> QED  BY <2>1, ShiftedStep, Zenon
<1>6. ASSUME NEW k \in 1..n
      PROVE  g[k] \div 2 = g[k-1] /\ g[k] % 2 = z[k]
    <2>1. PICK a \in Int, d \in {0, 1} : a = g[k-1] /\ d = z[k]
        BY <1>2
    <2>2. (2 * a + d) \div 2 = a /\ (2 * a + d) % 2 = d
        OBVIOUS
    <2> QED  BY <1>3, <2>1, <2>2
<1> DEFINE T == {m \in 0..n : Shifted(v, 2, m) = g[n-m]}
<1>7. 0 \in T
    BY <1>3, <1>4, <1>5
<1>8. ASSUME NEW m \in 1..n, m - 1 \in T PROVE m \in T
    <2>1. PICK l \in Nat, k \in 1..n : l = m - 1 /\ l + 1 = m /\ k = n - l /\ k - 1 = n - m
        OBVIOUS
    <2>2. Shifted(v, 2, m) = Shifted(v, 2, l) \div 2 /\ Shifted(v, 2, l) = g[k]
        BY <1>5, <1>8, <2>1
    <2> QED  BY <1>6, <2>1, <2>2
<1>9. 0..n \subseteq T
    <2> HIDE DEF T
    <2> QED  BY <1>7, <1>8, BoundedInduction
<1>10. ASSUME NEW k \in 1..n PROVE Shifted(v, 2, n - k) % 2 = z[k]
    <2>1. PICK m \in 0..n : m = n - k /\ n - m = k
        OBVIOUS
    <2>2. Shifted(v, 2, m) = g[k]
        BY <1>9, <2>1
    <2> QED  BY <1>6, <2>1, <2>2
<1> QED  BY <1>1, <1>4, <1>10

(* Shifting keeps the order of numbers, and what it leaves of the double   *)
(* is at least the double of what it leaves.                               *)
LEMMA ShiftedOrder ==
    ASSUME NEW v \in Nat, NEW u \in Nat, v <= u, NEW b \in Nat \ {0}
    PROVE  \A n \in Nat : /\ Shifted(v, b, n) \in Nat /\ Shifted(u, b, n) \in Nat
                          /\ Shifted(v, b, n) <= Shifted(u, b, n)
PROOF
<1> SUFFICES ASSUME NEW n \in Nat
             PROVE  /\ Shifted(v, b, n) \in Nat /\ Shifted(u, b, n) \in Nat
                    /\ Shifted(v, b, n) <= Shifted(u, b, n)
    OBVIOUS
<1>1. /\ Shifted(v, b, 0) = v /\ Shifted(u, b, 0) = u
      /\ \A m \in Nat : /\ Shifted(v, b, m+1) = Shifted(v, b, m) \div b
                        /\ Shifted(u, b, m+1) = Shifted(u, b, m) \div b
    BY ShiftedStep
<1> DEFINE T == {m \in 0..n : /\ Shifted(v, b, m) \in Nat /\ Shifted(u, b, m) \in Nat
                              /\ Shifted(v, b, m) <= Shifted(u, b, m)}
<1>2. 0 \in T
    BY <1>1
<1>3. ASSUME NEW m \in 1..n, m - 1 \in T PROVE m \in T
    <2>1. PICK l \in Nat : l = m - 1 /\ l + 1 = m
        OBVIOUS
    <2>2. PICK x \in Nat, y \in Nat : x = Shifted(v, b, l) /\ y = Shifted(u, b, l) /\ x <= y
        BY <1>3, <2>1
    <2>3. x \div b \in Nat /\ y \div b \in Nat /\ x \div b <= y \div b
        BY <2>2, QuotientOrder
    <2> QED  BY <1>1, <2>1, <2>2, <2>3
<1>4. 0..n \subseteq T
    <2> HIDE DEF T
    <2> QED  BY <1>2, <1>3, BoundedInduction
<1>5. n \in 0..n
    OBVIOUS
<1> QED  BY <1>4, <1>5

LEMMA ShiftedDouble ==
    ASSUME NEW v \in Nat, NEW b \in Nat \ {0}
    PROVE  \A n \in Nat : /\ Shifted(v, b, n) \in Nat /\ Shifted(2 * v, b, n) \in Nat
                          /\ 2 * Shifted(v, b, n) <= Shifted(2 * v, b, n)
PROOF
<1> SUFFICES ASSUME NEW n \in Nat
             PROVE  /\ Shifted(v, b, n) \in Nat /\ Shifted(2 * v, b, n) \in Nat
                    /\ 2 * Shifted(v, b, n) <= Shifted(2 * v, b, n)
    OBVIOUS
<1>0. PICK u \in Nat : u = 2 * v
    OBVIOUS
<1>1. /\ Shifted(v, b, 0) = v /\ Shifted(u, b, 0) = u
      /\ \A m \in Nat : /\ Shifted(v, b, m+1) = Shifted(v, b, m) \div b
                        /\ Shifted(u, b, m+1) = Shifted(u, b, m) \div b
    BY ShiftedStep
<1> DEFINE T == {m \in 0..n : /\ Shifted(v, b, m) \in Nat /\ Shifted(u, b, m) \in Nat
                              /\ 2 * Shifted(v, b, m) <= Shifted(u, b, m)}
<1>2. 0 \in T
    <2>1. 0 \in 0..n /\ 2 * v <= u
        BY <1>0
    <2> QED  BY <1>1, <2>1
<1>3. ASSUME NEW m \in 1..n, m - 1 \in T PROVE m \in T
    <2>1. PICK l \in Nat : l = m - 1 /\ l + 1 = m
        OBVIOUS
    <2>2. PICK x \in Nat, y \in Nat : x = Shifted(v, b, l) /\ y = Shifted(u, b, l) /\ 2 * x <= y
        BY <1>3, <2>1
    <2>3. x \div b \in Nat /\ y \div b \in Nat /\ 2 * (x \div b) <= y \div b
        BY <2>2, QuotientDouble
    <2> QED  BY <1>1, <2>1, <2>2, <2>3
<1>4. 0..n \subseteq T
    <2> HIDE DEF T
    <2> QED  BY <1>2, <1>3, BoundedInduction
<1>5. n \in 0..n
    OBVIOUS
<1> QED  BY <1>0, <1>4, <1>5

(* A number that fits the bytes it is written in is read back as it was.   *)
LEMMA UnsignedBack ==
    ASSUME NEW v \in Nat, NEW w \in Nat \ {0}, Shifted(v, HUF_ASCII_COUNT, w) = 0
    PROVE  Unsigned(Digits(v, w)) = v
PROOF
<1>1. PICK c \in Nat \ {0, 1} : c = HUF_ASCII_COUNT
    BY SymbolFacts
<1>2. Shifted(v, c, w-1) \in Nat /\ Shifted(v, c, w) = Shifted(v, c, w-1) \div c
    <2>1. PICK m \in Nat : m = w - 1 /\ m + 1 = w
        OBVIOUS
    <2>2. Shifted(v, c, m) \in Nat
        <3>1. v <= v
            OBVIOUS
        <3> QED  BY <3>1, ShiftedOrder
    <2>3. Shifted(v, c, m+1) = Shifted(v, c, m) \div c
        BY ShiftedStep
    <2> QED  BY <2>1, <2>2, <2>3
<1>3. Shifted(v, c, w-1) % c = Shifted(v, c, w-1)
    <2>1. PICK a \in Nat : a = Shifted(v, c, w-1)
        BY <1>2
    <2>2. a \div c = 0
        BY <1>1, <1>2, <2>1
    <2>3. a = c * (a \div c) + (a % c) /\ a % c \in Nat
        BY Division
    <2>4. a = a % c
        BY <2>2, <2>3
    <2> QED  BY <2>1, <2>4
<1> DEFINE d == Digits(v, w)
           u == Reverse(d)
<1>4. Len(d) = w /\ \A i \in 1..w : d[i] = Shifted(v, c, i-1) % c
    BY <1>1 DEF Digits
<1> HIDE DEF d
<1>5. d \in Seq(Symbols) /\ Symbols \subseteq Int
    <2>1. v \in Int /\ w \in Nat
        OBVIOUS
    <2> QED  BY <2>1, DigitsType, SymbolFacts DEF d
<1>6. u \in Seq(Symbols) /\ Len(u) = w /\ \A i \in 1..w : u[i] = d[w - i + 1]
    BY <1>4, <1>5, ReverseIs
<1> HIDE DEF u
<1>7. u[1] = Shifted(v, c, w-1)
    <2>1. 1 \in 1..w /\ w - 1 + 1 = w /\ w \in 1..w
        OBVIOUS
    <2> QED  BY <1>3, <1>4, <1>6, <2>1
<1>8. \A k \in 2..w : u[k] = Shifted(v, c, w - k) % c
    <2>1. ASSUME NEW k \in 2..w PROVE u[k] = Shifted(v, c, w - k) % c
        <3>1. k \in 1..w /\ w - k + 1 \in 1..w /\ (w - k + 1) - 1 = w - k
            OBVIOUS
        <3> QED  BY <1>4, <1>6, <3>1
    <2> QED  BY <2>1
<1>9. u \in Seq(Int)
    <2>1. \A i \in 1..w : u[i] \in Symbols
        BY <1>6
    <2>2. u \in [1..w -> Symbols]
        BY <1>6
    <2>3. u \in [1..w -> Int]
        BY <1>5, <2>2
    <2> QED  BY <2>3
<1>10. Value(u, c) = v
    <2>1. v \in Int /\ c \in Nat \ {0}
        OBVIOUS
    <2>2. Len(u) = w
        BY <1>6
    <2>3. Spelled(v, c, w, u)
        BY <1>7, <1>8, <2>2 DEF Spelled
    <2> QED  BY <1>9, <2>1, <2>3, ValueBack
<1> QED  BY <1>1, <1>10 DEF Unsigned, u, d

LEMMA MinusOne ==
    ASSUME NEW b \in Nat \ {0, 1}
    PROVE  \A n \in Nat : Shifted(-1, b, n) = -1
PROOF
<1> SUFFICES ASSUME NEW n \in Nat PROVE Shifted(-1, b, n) = -1
    OBVIOUS
<1>1. /\ Shifted(-1, b, 0) = -1
      /\ \A m \in Nat : Shifted(-1, b, m+1) = Shifted(-1, b, m) \div b
    <2>1. -1 \in Int /\ b \in Nat \ {0}
        OBVIOUS
    <2> QED  BY <2>1, ShiftedStep
<1>2. (-1) \div b = -1
    <2>1. PICK q \in Int, r \in 0 .. b-1 : q = (-1) \div b /\ -1 = b * q + r
        BY IntDivision
    <2>2. CASE q >= 0
        <3>1. b * q >= 0
            <4>1. b * 0 <= b * q
                BY <2>2, Products
            <4> QED  BY <4>1
        <3> QED  BY <2>1, <3>1
    <2>3. CASE q <= -2
        <3>1. PICK p \in Nat : p = -q /\ 2 <= p
            BY <2>3
        <3>2. b * 2 <= b * p
            BY <3>1, Products
        <3>3. b * q = - (b * p)
            BY <3>1
        <3> QED  BY <2>1, <3>2, <3>3
    <2> QED  BY <2>1, <2>2, <2>3
<1> DEFINE T == {m \in 0..n : Shifted(-1, b, m) = -1}
<1>3. 0 \in T
    BY <1>1
<1>4. ASSUME NEW m \in 1..n, m - 1 \in T PROVE m \in T
    <2>1. PICK l \in Nat : l = m - 1 /\ l + 1 = m
        OBVIOUS
    <2> QED  BY <1>1, <1>2, <1>4, <2>1
<1>5. 0..n \subseteq T
    <2> HIDE DEF T
    <2> QED  BY <1>3, <1>4, BoundedInduction
<1>6. n \in 0..n
    OBVIOUS
<1> QED  BY <1>5, <1>6

(* The numbers that int16_t holds: the node indices and tree lengths, and  *)
(* the -1 that stands for NULL.                                            *)
Fits(v) == v = -1 \/ (v \in Nat /\ v <= HUF_BTREE_LEN + 1)

LEMMA TopDigit ==
    ASSUME NEW v, Fits(v)
    PROVE  /\ v \in Int
           /\ SignedTop(Shifted(v, HUF_ASCII_COUNT, IntWidth - 1) % HUF_ASCII_COUNT)
                = Shifted(v, HUF_ASCII_COUNT, IntWidth - 1)
PROOF
<1>1. PICK c \in Nat \ {0, 1} : c = HUF_ASCII_COUNT
    BY SymbolFacts
<1>2. PICK w \in Nat : IntWidth = w + 1 /\ w = IntWidth - 1
    <2>1. IntWidth - 1 \in Nat /\ (IntWidth - 1) + 1 = IntWidth
        BY WidthAssumption
    <2> QED  BY <2>1
<1>3. CASE v = -1
    <2>1. Shifted(v, c, w) = -1
        BY <1>3, MinusOne
    <2>2. (-1) % c = c - 1
        <3>0. PICK m \in Int : m = -1
            OBVIOUS
        <3>1. PICK q \in Int, r \in 0 .. c-1 : q = (-1) \div c /\ r = (-1) % c /\ -1 = c * q + r
            BY <3>0, IntDivision
        <3>2. PICK z \in Int : z = c * (q + 1) /\ z = c - 1 - r
            BY <3>1
        <3>3. z \in 0 .. c - 1
            BY <3>2
        <3>4. z = 0
            <4>1. CASE q + 1 = 0
                BY <3>2, <4>1
            <4>2. CASE q + 1 >= 1
                <5>1. c * 1 <= c * (q + 1)
                    BY <4>2, Products
                <5> QED  BY <3>2, <3>3, <5>1
            <4>3. CASE q + 1 <= -1
                <5>1. PICK p \in Nat : p = -(q + 1) /\ 1 <= p
                    BY <4>3
                <5>2. c * 1 <= c * p
                    BY <5>1, Products
                <5>3. c * (q + 1) = - (c * p)
                    BY <5>1
                <5> QED  BY <3>2, <3>3, <5>2, <5>3
            <4> QED  BY <4>1, <4>2, <4>3
        <3> QED  BY <3>1, <3>2, <3>4
    <2>3. ~ (2 * (c - 1) < c) /\ (c - 1) - c = -1
        OBVIOUS
    <2>4. SignedTop(c - 1) = -1
        BY <1>1, <2>3 DEF SignedTop
    <2> QED  BY <1>1, <1>2, <1>3, <2>1, <2>2, <2>4
<1>4. CASE v \in Nat /\ v <= HUF_BTREE_LEN + 1
    <2>1. PICK h \in Nat, g \in Nat, d \in Nat :
             h = HUF_BTREE_LEN + 1 /\ g = 2 * h /\ d = 2 * v /\ d <= g
        BY <1>4, SymbolFacts
    <2>2. Shifted(g, c, w + 1) = 0
        BY <1>1, <1>2, <2>1, RangeAssumption
    <2>3. Shifted(d, c, w + 1) = 0
        <3>1. Shifted(d, c, w + 1) \in Nat /\ Shifted(d, c, w + 1) <= Shifted(g, c, w + 1)
            <4>1. d <= g /\ c \in Nat \ {0} /\ w + 1 \in Nat
                BY <2>1
            <4> QED  BY <4>1, ShiftedOrder, Zenon
        <3> QED  BY <2>2, <3>1
    <2>4. PICK x \in Nat, y \in Nat :
             x = Shifted(v, c, w) /\ y = Shifted(d, c, w) /\ 2 * x <= y
        BY <1>4, <2>1, ShiftedDouble
    <2>5. y \div c = 0
        <3>1. Shifted(d, c, w + 1) = Shifted(d, c, w) \div c
            BY ShiftedStep
        <3> QED  BY <2>3, <2>4, <3>1
    <2>6. y < c
        <3>1. y = c * (y \div c) + (y % c) /\ y % c \in 0 .. c-1
            BY Division
        <3> QED  BY <2>5, <3>1
    <2>7. x % c = x /\ 2 * x < c
        <3>1. x \in 0 .. c-1 /\ 0 \in Nat /\ c * 0 + x = x
            BY <2>4, <2>6
        <3>2. (c * 0 + x) % c = x
            BY <3>1, DivisionIs
        <3> QED  BY <2>4, <2>6, <3>1, <3>2
    <2> QED  BY <1>1, <1>2, <1>4, <2>4, <2>7 DEF SignedTop
<1> QED  BY <1>3, <1>4 DEF Fits

LEMMA SignedBack ==
    ASSUME NEW v, Fits(v)
    PROVE  Signed(Digits(v, IntWidth)) = v
PROOF
<1>1. PICK c \in Nat \ {0, 1} : c = HUF_ASCII_COUNT
    BY SymbolFacts
<1>2. PICK w \in Nat \ {0} : w = IntWidth
    BY WidthAssumption
<1>3. v \in Int /\ SignedTop(Shifted(v, c, w-1) % c) = Shifted(v, c, w-1)
    BY <1>1, <1>2, TopDigit
<1>4. \A n \in Nat : Shifted(v, c, n) \in Int
    BY <1>3, ShiftedStep
<1> DEFINE d == Digits(v, w)
           s == [d EXCEPT ![w] = SignedTop(@)]
           u == Reverse(s)
<1>5. d = [i \in 1..w |-> Shifted(v, c, i-1) % c]
    BY <1>1 DEF Digits
<1> HIDE DEF d
<1>6. s = [i \in 1..w |-> IF i = w THEN Shifted(v, c, w-1) ELSE Shifted(v, c, i-1) % c]
    <2>1. w \in 1..w
        OBVIOUS
    <2> QED  BY <1>3, <1>5, <2>1
<1> HIDE DEF s
<1>7. s \in Seq(Int) /\ Len(s) = w
    <2>1. ASSUME NEW i \in 1..w
          PROVE  (IF i = w THEN Shifted(v, c, w-1) ELSE Shifted(v, c, i-1) % c) \in Int
        <3>1. i - 1 \in Nat /\ w - 1 \in Nat
            OBVIOUS
        <3>2. Shifted(v, c, w-1) \in Int /\ Shifted(v, c, i-1) \in Int
            BY <1>4, <3>1
        <3>3. Shifted(v, c, i-1) % c \in Int
            BY <3>2, IntDivision
        <3> QED  BY <3>2, <3>3
    <2>2. s \in [1..w -> Int]
        BY <1>6, <2>1
    <2> QED  BY <2>2
<1>8. u \in Seq(Int) /\ Len(u) = w /\ \A i \in 1..w : u[i] = s[w - i + 1]
    BY <1>7, ReverseIs
<1> HIDE DEF u
<1>9. u[1] = Shifted(v, c, w-1)
    <2>1. 1 \in 1..w /\ w - 1 + 1 = w /\ w \in 1..w
        OBVIOUS
    <2> QED  BY <1>6, <1>8, <2>1
<1>10. \A k \in 2..w : u[k] = Shifted(v, c, w - k) % c
    <2>1. ASSUME NEW k \in 2..w PROVE u[k] = Shifted(v, c, w - k) % c
        <3>1. /\ k \in 1..w /\ w - k + 1 \in 1..w /\ (w - k + 1) - 1 = w - k
              /\ w - k + 1 # w
            OBVIOUS
        <3> QED  BY <1>6, <1>8, <3>1
    <2> QED  BY <2>1
<1>11. Value(u, c) = v
    <2>1. c \in Nat \ {0}
        OBVIOUS
    <2>2. Spelled(v, c, w, u)
        BY <1>8, <1>9, <1>10 DEF Spelled
    <2> QED  BY <1>3, <1>8, <2>1, <2>2, ValueBack
<1>12. Len(d) = w
    BY <1>5
<1>13. Signed(d) = Unsigned(s)
    BY <1>12 DEF Signed, s
<1> QED  BY <1>1, <1>2, <1>11, <1>13 DEF Unsigned, u, d

(* A tree is read back from its bytes.                                     *)
LEMMA ElementsBack ==
    ASSUME NEW elements \in Seq(Int), \A i \in 1 .. Len(elements) : Fits(elements[i])
    PROVE  /\ Len(TreeBytes(elements)) = Len(elements) * IntWidth
           /\ Elements(TreeBytes(elements)) = elements
PROOF
<1>1. PICK w \in Nat \ {0} : w = IntWidth
    BY WidthAssumption
<1>2. PICK n \in Nat : n = Len(elements) /\ \A i \in 1..n : elements[i] \in Int /\ Fits(elements[i])
    OBVIOUS
<1>3. PICK l \in Nat : l = n * w /\ l = w * n
    OBVIOUS
<1> DEFINE t == TreeBytes(elements)
<1>4. /\ t \in Seq(Symbols) /\ Len(t) = l
      /\ \A k \in 1..l : t[k] = Digits(elements[((k-1) \div w) + 1], w)[((k-1) % w) + 1]
    <2>1. t \in Seq(Symbols)
        BY TreeBytesType
    <2>2. t = [k \in 1..l |-> Digits(elements[((k-1) \div w) + 1], w)[((k-1) % w) + 1]]
        BY <1>1, <1>2, <1>3 DEF TreeBytes
    <2> HIDE DEF t
    <2> QED  BY <2>1, <2>2
<1> HIDE DEF t
<1>5. l \div w = n
    <2>1. 0 \in 0 .. w-1 /\ w * n + 0 = l
        BY <1>3
    <2> QED  BY <2>1, DivisionIs
<1>6. ASSUME NEW i \in 1..n
      PROVE  Signed(SubSeq(t, (i-1) * w + 1, i * w)) = elements[i]
    <2>1. PICK m \in Nat : m = w * (i - 1) /\ m = (i-1) * w /\ m + w = i * w /\ m + w <= l
        <3>1. PICK p \in Nat : p = i - 1
            OBVIOUS
        <3>2. PICK m \in Nat : m = w * p
            OBVIOUS
        <3>3. m + w = w * i
            BY <3>1, <3>2
        <3>4. w * i <= w * n
            BY Products
        <3> QED  BY <1>3, <3>1, <3>2, <3>3, <3>4
    <2> DEFINE d == Digits(elements[i], w)
               s == SubSeq(t, m + 1, m + w)
    <2>2. d \in Seq(Symbols) /\ Len(d) = w
        BY <1>2, DigitsType
    <2>3. s \in Seq(Symbols) /\ Len(s) = w /\ \A j \in 1..w : s[j] = t[m + j]
        <3>1. /\ m + 1 \in Int /\ m + w \in Int /\ m + 1 <= m + w
              /\ (m + w) - (m + 1) + 1 = w
            OBVIOUS
        <3>2. \A k \in m + 1 .. m + w : t[k] \in Symbols
            <4>1. \A k \in m + 1 .. m + w : k \in 1..l
                BY <2>1
            <4>2. \A k \in 1..l : t[k] \in Symbols
                BY <1>4
            <4> QED  BY <4>1, <4>2
        <3>3. /\ s \in Seq(Symbols) /\ Len(s) = w
              /\ \A j \in 1..w : s[j] = t[(m + 1) + j - 1]
            BY <3>1, <3>2, SubSeqProperties
        <3>4. \A j \in 1..w : (m + 1) + j - 1 = m + j
            OBVIOUS
        <3> HIDE DEF s
        <3> QED  BY <3>3, <3>4
    <2>4. ASSUME NEW j \in 1..w PROVE s[j] = d[j]
        <3>1. PICK k \in 1..l, r \in 0 .. w-1, p \in Nat :
                 k = m + j /\ r = j - 1 /\ p = i - 1 /\ k - 1 = w * p + r
            BY <2>1
        <3>2. (k - 1) \div w = p /\ (k - 1) % w = r /\ p + 1 = i /\ r + 1 = j
            <4>1. (w * p + r) \div w = p /\ (w * p + r) % w = r
                BY DivisionIs
            <4> QED  BY <3>1, <4>1
        <3>3. t[k] = Digits(elements[((k-1) \div w) + 1], w)[((k-1) % w) + 1]
            BY <1>4
        <3>4. t[k] = d[j]
            BY <3>2, <3>3
        <3> HIDE DEF s, d
        <3> QED  BY <2>3, <3>1, <3>4
    <2> HIDE DEF s, d
    <2>5. s = d
        BY <2>2, <2>3, <2>4, SeqEqual
    <2>6. Signed(d) = elements[i]
        BY <1>1, <1>2, SignedBack DEF d
    <2> QED  BY <2>1, <2>5, <2>6 DEF s
<1>7. Elements(t) = [i \in 1..n |-> Signed(SubSeq(t, (i-1) * w + 1, i * w))]
    BY <1>1, <1>4, <1>5 DEF Elements
<1>8. Elements(t) = [i \in 1..n |-> elements[i]]
    BY <1>6, <1>7
<1>9. elements = [i \in 1..n |-> elements[i]]
    BY <1>2
<1> QED  BY <1>1, <1>2, <1>3, <1>4, <1>8, <1>9 DEF t

(* The bits that are read from a byte, from the top, are those that were   *)
(* put in it, and zeros after them.                                        *)
LEMMA BitsOfByte ==
    ASSUME NEW s \in Seq({0, 1}), Len(s) <= ByteBits
    PROVE  \A k \in 1 .. Len(s) : Shifted(ByteOf(s), 2, ByteBits - k) % 2 = s[k]
PROOF
<1>1. PICK n \in Nat, m \in Nat, z \in Nat : n = Len(s) /\ m = ByteBits /\ z = m - n /\ n + z = m
    BY WidthAssumption
<1>2. Zeros(z) \in Seq({0, 1}) /\ Len(Zeros(z)) = z
    <2>1. Zeros(z) \in [1..z -> {0, 1}]
        BY DEF Zeros
    <2> QED  BY <2>1 DEF Zeros
<1>3. PICK B : B = {0, 1}
    OBVIOUS
<1>4. PICK x \in Seq(B) : x = Zeros(z) /\ Len(x) = z
    BY <1>2, <1>3
<1>5. s \in Seq(B)
    BY <1>3
<1> DEFINE all == s \o x
<1>6. all \in Seq(B) /\ Len(all) = m /\ \A k \in 1..n : all[k] = s[k]
    <2>1. /\ all \in Seq(B) /\ Len(all) = n + z
          /\ \A k \in 1 .. n + z : all[k] = IF k <= n THEN s[k] ELSE x[k - n]
        BY <1>1, <1>4, <1>5, ConcatProperties
    <2>2. \A k \in 1..n : k \in 1 .. n + z /\ k <= n
        OBVIOUS
    <2> HIDE DEF all
    <2> QED  BY <1>1, <2>1, <2>2
<1>7. ByteOf(s) = Value(all, 2)
    BY <1>1, <1>4 DEF ByteOf
<1> HIDE DEF all
<1>8. \A k \in 1..m : Shifted(Value(all, 2), 2, m - k) % 2 = all[k]
    BY <1>3, <1>6, BitsOfValue
<1>9. \A k \in 1..n : k \in 1..m
    BY <1>1
<1> QED  BY <1>1, <1>6, <1>7, <1>8, <1>9

(* What one turn of the loop does to the tree and to the weights: two      *)
(* slots that have a weight, or one twice, get the next one for a parent.  *)
Turned(t, weights, work, one, two) ==
    /\ {one, two} \subseteq {n \in Slots : weights[n] # 0 /\ n < t.node}
    /\ t.node \in Slots /\ t.node >= HUF_ASCII_COUNT
    /\ one = two => \A n \in Slots : weights[n] # 0 => n = one
    /\ work.tree.node = t.node + 1
    /\ work.tree.root = IF one = two THEN t.node ELSE None
    /\ \A n \in Slots :
          /\ work.rates[n] # 0 <=> n = t.node \/ (weights[n] # 0 /\ n \notin {one, two})
          /\ work.tree.parent[n] = IF n \in {one, two} THEN t.node ELSE t.parent[n]
          /\ work.tree.left[n] = IF n = t.node THEN one ELSE t.left[n]
          /\ work.tree.right[n] = IF n # t.node THEN t.right[n]
                                  ELSE IF one = two THEN None ELSE two

LEMMA MergeIs ==
    ASSUME NEW t, NEW weights, NEW used, Forest(t, weights, used), t.root = None
    PROVE  \E one, two \in Slots :
              Turned(t, weights, Merge([tree |-> t, rates |-> weights]), one, two)
PROOF
<1> DEFINE node   == t.node
           active == {i \in 0 .. node-1 : weights[i] # 0}
           one    == Lightest(weights, active)
           single == active = {one}
           two    == IF single THEN one ELSE Lightest(weights, active \ {one})
           weight == weights[one] + (IF single THEN 0 ELSE weights[two])
           newRates  == [weights EXCEPT ![one] = 0, ![two] = 0, ![node] = weight]
           newParent == [t.parent EXCEPT ![one] = node, ![two] = node]
           newLeft   == [t.left EXCEPT ![node] = one]
           newRight  == [t.right EXCEPT ![node] = IF single THEN None ELSE two]
           newLeaves == t.leaves \cup ({one, two} \cap Symbols)
           newRoot   == IF single THEN node ELSE None
           new == [root |-> newRoot, node |-> node + 1, leaves |-> newLeaves,
                   parent |-> newParent, left |-> newLeft, right |-> newRight]
           work == Merge([tree |-> t, rates |-> weights])
<1>1. work = [rates |-> newRates, tree |-> new]
    BY DEF Merge
<1> HIDE DEF work
<1>2. PICK c \in Nat \ {0, 1} :
          /\ HUF_ASCII_COUNT = c /\ Symbols = 0 .. c-1 /\ Slots = 0 .. 2*c-1
          /\ None = -1 /\ None \notin Slots /\ Symbols \subseteq Slots
    BY SlotFacts
<1>3. /\ weights \in [Slots -> Nat]
      /\ node \in c .. 2*c
      /\ Climbs(t) /\ Falls(t)
      /\ \A n \in Slots : n >= node => weights[n] = 0
      /\ active # {}
    BY <1>2 DEF Forest, Active
<1>4. node \in Slots /\ node >= c
    <2>1. node \in Slots
        BY MergeForest
    <2> QED  BY <1>3, <2>1
<1>5. active \subseteq Slots /\ active = {n \in Slots : weights[n] # 0 /\ n < node}
    <2>1. \A n \in 0 .. node-1 : n \in Slots /\ n < node
        BY <1>2, <1>3
    <2>2. \A n \in Slots : n < node => n \in 0 .. node-1
        BY <1>2, <1>3
    <2> HIDE DEF node
    <2> QED  BY <2>1, <2>2
<1>6. \A n \in Slots : weights[n] # 0 => n \in active
    BY <1>2, <1>3, <1>5
<1>7. one \in active
    BY <1>3, <1>5, LightestIsOne
<1> HIDE DEF one
<1>8. two \in active /\ (single <=> one = two)
    <2>1. CASE single
        BY <1>7, <2>1
    <2>2. CASE ~ single
        <3>1. active \ {one} # {} /\ active \ {one} \subseteq Slots
            BY <1>5, <1>7, <2>2
        <3>2. Lightest(weights, active \ {one}) \in active \ {one}
            BY <1>3, <3>1, LightestIsOne
        <3> QED  BY <2>2, <3>2
    <2> QED  BY <2>1, <2>2
<1> HIDE DEF two
<1>9. /\ one \in Slots /\ two \in Slots /\ one < node /\ two < node
      /\ weights[one] \in Nat \ {0} /\ weights[two] \in Nat \ {0}
    BY <1>3, <1>5, <1>7, <1>8
<1>10. weight \in Nat \ {0}
    <2>1. PICK a \in Nat \ {0}, b \in Nat \ {0} : a = weights[one] /\ b = weights[two]
        BY <1>9
    <2>2. a + b \in Nat \ {0} /\ a + 0 \in Nat \ {0}
        OBVIOUS
    <2> QED  BY <2>1, <2>2
<1>11. single => \A n \in Slots : weights[n] # 0 => n = one
    BY <1>6
<1> HIDE DEF weight, active, single
<1>12. /\ newRates[node] = weight
       /\ \A n \in Slots : n # node => newRates[n] = IF n \in {one, two} THEN 0 ELSE weights[n]
    BY <1>3, <1>4, <1>9, <1>10
<1>13. \A n \in Slots : newParent[n] = IF n \in {one, two} THEN node ELSE t.parent[n]
    <2>1. t.parent \in [Slots -> Slots \cup {None}]
        BY <1>3 DEF Climbs
    <2> QED  BY <1>9, <2>1
<1>14. /\ \A n \in Slots : newLeft[n] = IF n = node THEN one ELSE t.left[n]
       /\ \A n \in Slots : newRight[n] = IF n # node THEN t.right[n]
                                         ELSE IF single THEN None ELSE two
    <2>1. t.left \in [Slots -> Slots \cup {None}] /\ t.right \in [Slots -> Slots \cup {None}]
        BY <1>3 DEF Falls
    <2> QED  BY <1>4, <2>1
<1> HIDE DEF newRates, newParent, newLeft, newRight
<1>15. \A n \in Slots : newRates[n] # 0 <=> n = node \/ (weights[n] # 0 /\ n \notin {one, two})
    BY <1>3, <1>4, <1>10, <1>12
<1>16. /\ work.tree.node = node + 1 /\ work.tree.root = newRoot /\ work.rates = newRates
       /\ work.tree.parent = newParent /\ work.tree.left = newLeft /\ work.tree.right = newRight
    BY <1>1
<1> HIDE DEF new
<1>17. Turned(t, weights, work, one, two)
    <2>1. {one, two} \subseteq {n \in Slots : weights[n] # 0 /\ n < t.node}
        BY <1>9
    <2> QED  BY <1>2, <1>4, <1>8, <1>11, <1>13, <1>14, <1>15, <1>16, <2>1 DEF Turned
<1> QED  BY <1>9, <1>17 DEF work

(* Parents and children agree; a byte value is a leaf and every other node *)
(* is not; and only a node with a weight, or the root, has no parent.      *)
Joined(t, weights) ==
    /\ \A n \in Slots : t.parent[n] # None =>
          /\ t.parent[n] \in Slots /\ n < t.parent[n]
          /\ t.parent[n] >= HUF_ASCII_COUNT /\ t.parent[n] < t.node
          /\ t.left[t.parent[n]] = n \/ t.right[t.parent[n]] = n
          /\ weights[n] = 0
    /\ \A n \in Symbols : t.left[n] = None /\ t.right[n] = None
    /\ \A n \in Slots : n >= HUF_ASCII_COUNT /\ n < t.node =>
          t.left[n] # None /\ (weights[n] # 0 \/ t.parent[n] # None)
    /\ \A n \in Slots : n >= t.node => weights[n] = 0
    /\ t.root # None =>
          /\ t.root \in Slots /\ t.parent[t.root] = None /\ weights[t.root] # 0
          /\ \A n \in Slots : weights[n] # 0 => n = t.root

LEMMA MergeJoined ==
    ASSUME NEW t, NEW weights, NEW used, Forest(t, weights, used), t.root = None,
           Joined(t, weights)
    PROVE  LET work == Merge([tree |-> t, rates |-> weights])
           IN  Joined(work.tree, work.rates)
PROOF
<1> DEFINE work == Merge([tree |-> t, rates |-> weights])
           new  == work.tree
<1>1. PICK c \in Nat \ {0, 1} :
          /\ HUF_ASCII_COUNT = c /\ Symbols = 0 .. c-1 /\ Slots = 0 .. 2*c-1
          /\ None = -1 /\ None \notin Slots /\ Symbols \subseteq Slots
    BY SlotFacts
<1>2. PICK one, two \in Slots : Turned(t, weights, work, one, two)
    BY MergeIs
<1> HIDE DEF work
<1>3. PICK node \in Slots : node = t.node /\ node >= c
    BY <1>1, <1>2 DEF Turned
<1>4. /\ weights[one] # 0 /\ one < node /\ weights[two] # 0 /\ two < node
      /\ one = two => \A n \in Slots : weights[n] # 0 => n = one
      /\ new.node = node + 1
      /\ new.root = IF one = two THEN node ELSE None
    BY <1>2, <1>3 DEF Turned
<1>5. ASSUME NEW n \in Slots
      PROVE  /\ work.rates[n] # 0 <=> n = node \/ (weights[n] # 0 /\ n \notin {one, two})
             /\ new.parent[n] = IF n \in {one, two} THEN node ELSE t.parent[n]
             /\ new.left[n] = IF n = node THEN one ELSE t.left[n]
             /\ new.right[n] = IF n # node THEN t.right[n]
                               ELSE IF one = two THEN None ELSE two
    BY <1>2, <1>3 DEF Turned
<1> DEFINE loads == work.rates
<1> HIDE DEF new, loads
<1>6. /\ \A n \in Slots : t.parent[n] # None =>
            /\ t.parent[n] \in Slots /\ n < t.parent[n]
            /\ t.parent[n] >= c /\ t.parent[n] < node
            /\ t.left[t.parent[n]] = n \/ t.right[t.parent[n]] = n
            /\ weights[n] = 0
      /\ \A n \in Symbols : t.left[n] = None /\ t.right[n] = None
      /\ \A n \in Slots : n >= c /\ n < node =>
            t.left[n] # None /\ (weights[n] # 0 \/ t.parent[n] # None)
      /\ \A n \in Slots : n >= node => weights[n] = 0
    BY <1>1, <1>3 DEF Joined
<1>7. t.parent[node] = None
    <2>1. SUFFICES ASSUME t.parent[node] # None PROVE FALSE
        OBVIOUS
    <2>2. PICK p \in Slots : p = t.parent[node] /\ node < p /\ p < node
        BY <1>6, <2>1
    <2>3. p \in Int /\ node \in Int
        BY <1>1
    <2> QED  BY <2>2, <2>3
<1>8. ASSUME NEW n \in Slots, new.parent[n] # None
      PROVE  /\ new.parent[n] \in Slots /\ n < new.parent[n]
             /\ new.parent[n] >= c /\ new.parent[n] < new.node
             /\ new.left[new.parent[n]] = n \/ new.right[new.parent[n]] = n
             /\ loads[n] = 0
    <2>1. CASE n \in {one, two}
        <3>1. new.parent[n] = node /\ n < node
            BY <1>4, <1>5, <2>1
        <3>2. new.left[node] = n \/ new.right[node] = n
            BY <1>5, <2>1
        <3>3. n # node
            BY <1>1, <1>3, <3>1
        <3>4. loads[n] = 0
            BY <1>5, <2>1, <3>3 DEF loads
        <3>5. node < node + 1
            BY <1>1
        <3> QED  BY <1>3, <1>4, <3>1, <3>2, <3>4, <3>5
    <2>2. CASE n \notin {one, two}
        <3>1. PICK p \in Slots : p = t.parent[n] /\ p = new.parent[n]
            BY <1>5, <1>6, <1>8, <2>2
        <3>2. n < p /\ p >= c /\ p < node /\ (t.left[p] = n \/ t.right[p] = n) /\ weights[n] = 0
            BY <1>5, <1>6, <1>8, <2>2, <3>1
        <3>3. p # node /\ p < node + 1
            BY <1>1, <1>3, <3>2
        <3>4. new.left[p] = n \/ new.right[p] = n
            BY <1>5, <3>2, <3>3
        <3>5. n # node
            BY <1>5, <1>7, <1>8, <2>2
        <3>6. loads[n] = 0
            BY <1>5, <3>2, <3>5 DEF loads
        <3> QED  BY <1>4, <3>1, <3>2, <3>3, <3>4, <3>6
    <2> QED  BY <2>1, <2>2
<1>9. ASSUME NEW n \in Symbols PROVE new.left[n] = None /\ new.right[n] = None
    <2>1. n \in Slots /\ n # node
        BY <1>1, <1>3
    <2> QED  BY <1>5, <1>6, <2>1
<1>10. ASSUME NEW n \in Slots, n >= c, n < new.node
       PROVE  new.left[n] # None /\ (loads[n] # 0 \/ new.parent[n] # None)
    <2>1. CASE n = node
        <3>1. new.left[n] = one /\ loads[n] # 0
            BY <1>5, <2>1 DEF loads
        <3> QED  BY <1>1, <3>1
    <2>2. CASE n # node
        <3>1. n < node
            BY <1>1, <1>4, <1>10, <2>2
        <3>2. t.left[n] # None /\ (weights[n] # 0 \/ t.parent[n] # None)
            BY <1>6, <1>10, <3>1
        <3>3. new.left[n] # None
            BY <1>5, <2>2, <3>2
        <3>4. node # None
            BY <1>1
        <3>5. CASE n \in {one, two}
            BY <1>5, <3>3, <3>4, <3>5
        <3>6. CASE n \notin {one, two}
            BY <1>5, <3>2, <3>3, <3>6 DEF loads
        <3> QED  BY <3>5, <3>6
    <2> QED  BY <2>1, <2>2
<1>11. ASSUME NEW n \in Slots, n >= new.node PROVE loads[n] = 0
    <2>1. n >= node /\ n # node
        BY <1>1, <1>4, <1>11
    <2> QED  BY <1>5, <1>6, <2>1 DEF loads
<1>12. ASSUME new.root # None
       PROVE  /\ new.root \in Slots /\ new.parent[new.root] = None /\ loads[new.root] # 0
              /\ \A n \in Slots : loads[n] # 0 => n = new.root
    <2>1. one = two /\ new.root = node
        BY <1>4, <1>12
    <2>2. node \notin {one, two}
        <3>1. one \in Int /\ two \in Int /\ node \in Int
            BY <1>1
        <3> QED  BY <1>4, <3>1
    <2>3. new.parent[node] = None /\ loads[node] # 0
        BY <1>5, <1>7, <2>2 DEF loads
    <2>4. ASSUME NEW n \in Slots, loads[n] # 0 PROVE n = node
        <3>1. n = node \/ (weights[n] # 0 /\ n # one)
            BY <1>5, <2>4 DEF loads
        <3> QED  BY <1>4, <2>1, <3>1
    <2> QED  BY <2>1, <2>3, <2>4
<1>13. Joined(new, loads)
    BY <1>1, <1>8, <1>9, <1>10, <1>11, <1>12 DEF Joined
<1> QED  BY <1>13 DEF new, loads, work

(* What a tree takes in the stream: an element for every node and for every*)
(* NULL, counted by the sets of the nodes that lie below the nodes with a  *)
(* weight, which have nothing in common.                                   *)
Counted(t, used) ==
    used \cup {m \in Slots : m >= HUF_ASCII_COUNT /\ m < t.node}

Sizes(t, weights, used, under, len) ==
    /\ under \in [Slots -> SUBSET Slots] /\ len \in [Slots \cup {None} -> Nat]
    /\ len[None] = 1
    /\ \A n \in Slots : n < t.node => len[n] = 1 + len[t.left[n]] + len[t.right[n]]
    /\ \A n \in Slots : weights[n] # 0 =>
          under[n] \subseteq Counted(t, used) /\ len[n] = 2 * Cardinality(under[n]) + 1
    /\ \A n, m \in Slots :
          weights[n] # 0 /\ weights[m] # 0 /\ n # m => under[n] \cap under[m] = {}

Sized(t, weights, used) ==
    /\ \E under, len : Sizes(t, weights, used, under, len)
    /\ t.root # None => t.node = Cardinality(used) + HUF_ASCII_COUNT

LEMMA MergeSized ==
    ASSUME NEW t, NEW weights, NEW used, Forest(t, weights, used), t.root = None,
           Sized(t, weights, used)
    PROVE  LET work == Merge([tree |-> t, rates |-> weights])
           IN  Sized(work.tree, work.rates, used)
PROOF
<1> DEFINE work == Merge([tree |-> t, rates |-> weights])
           new  == work.tree
           loads == work.rates
<1>1. PICK c \in Nat \ {0, 1} :
          /\ HUF_ASCII_COUNT = c /\ Symbols = 0 .. c-1 /\ Slots = 0 .. 2*c-1
          /\ None = -1 /\ None \notin Slots /\ Symbols \subseteq Slots
    BY SlotFacts
<1>2. PICK one, two \in Slots : Turned(t, weights, work, one, two)
    BY MergeIs
<1> HIDE DEF work
<1>3. PICK node \in Slots : node = t.node /\ node >= c
    BY <1>1, <1>2 DEF Turned
<1>4. /\ weights[one] # 0 /\ one < node /\ weights[two] # 0 /\ two < node
      /\ one = two => \A n \in Slots : weights[n] # 0 => n = one
      /\ new.node = node + 1
      /\ new.root = IF one = two THEN node ELSE None
    BY <1>2, <1>3 DEF Turned
<1>5. ASSUME NEW n \in Slots
      PROVE  /\ loads[n] # 0 <=> n = node \/ (weights[n] # 0 /\ n \notin {one, two})
             /\ new.left[n] = IF n = node THEN one ELSE t.left[n]
             /\ new.right[n] = IF n # node THEN t.right[n]
                               ELSE IF one = two THEN None ELSE two
    BY <1>2, <1>3 DEF Turned
<1> HIDE DEF new, loads
<1>6. PICK under, len : Sizes(t, weights, used, under, len)
    BY DEF Sized
<1>7. /\ under \in [Slots -> SUBSET Slots] /\ len \in [Slots \cup {None} -> Nat]
      /\ len[None] = 1
      /\ \A n \in Slots : n < node => len[n] = 1 + len[t.left[n]] + len[t.right[n]]
      /\ \A n \in Slots : weights[n] # 0 =>
            under[n] \subseteq Counted(t, used) /\ len[n] = 2 * Cardinality(under[n]) + 1
      /\ \A n, m \in Slots :
            weights[n] # 0 /\ weights[m] # 0 /\ n # m => under[n] \cap under[m] = {}
    BY <1>3, <1>6 DEF Sizes
<1>8. used \subseteq Symbols /\ node \notin Symbols /\ node \notin Counted(t, used)
    <2>1. used \subseteq Symbols
        BY DEF Forest
    <2>2. node \notin Symbols
        BY <1>1, <1>3
    <2>3. node \notin {m \in Slots : m >= HUF_ASCII_COUNT /\ m < t.node}
        BY <1>1, <1>3
    <2> QED  BY <2>1, <2>2, <2>3 DEF Counted
<1>9. Counted(new, used) = Counted(t, used) \cup {node}
    <2>1. \A m \in Slots : m < node + 1 <=> m < node \/ m = node
        BY <1>1
    <2> QED  BY <1>1, <1>3, <1>4, <2>1 DEF Counted
<1>10. \A S \in SUBSET Slots : IsFiniteSet(S) /\ Cardinality(S) \in Nat
    <2>1. IsFiniteSet(Slots)
        <3>1. 2*c-1 \in Int
            OBVIOUS
        <3>2. IsFiniteSet(0 .. 2*c-1)
            BY <3>1, FS_Interval
        <3> QED  BY <1>1, <3>2
    <2> QED  BY <2>1, FS_Subset, FS_CardinalityType
<1> DEFINE right == IF one = two THEN None ELSE two
           both  == IF one = two THEN under[one] ELSE under[one] \cup under[two]
           under2 == [under EXCEPT ![node] = both \cup {node}]
           len2   == [len EXCEPT ![node] = 1 + len[one] + len[right]]
<1>11. len2 \in [Slots \cup {None} -> Nat] /\ under2 \in [Slots -> SUBSET Slots]
    <2>1. right \in Slots \cup {None}
        OBVIOUS
    <2>2. len[one] \in Nat /\ len[right] \in Nat
        BY <1>7, <2>1
    <2> HIDE DEF right
    <2>3. 1 + len[one] + len[right] \in Nat
        BY <2>2
    <2>4. both \cup {node} \in SUBSET Slots
        BY <1>7
    <2> HIDE DEF both
    <2> QED  BY <1>7, <2>3, <2>4
<1>12. /\ len2[node] = 1 + len[one] + len[right] /\ under2[node] = both \cup {node}
       /\ \A n \in Slots \cup {None} : n # node => len2[n] = len[n]
       /\ \A n \in Slots : n # node => under2[n] = under[n]
    BY <1>7
<1>13. None # node /\ one # node /\ two # node
    <2>1. one \in Int /\ two \in Int /\ node \in Int
        BY <1>1
    <2> QED  BY <1>1, <1>4, <2>1
<1>14. len2[None] = 1
    BY <1>7, <1>12, <1>13
<1>15. ASSUME NEW n \in Slots, n < new.node
       PROVE  len2[n] = 1 + len2[new.left[n]] + len2[new.right[n]]
    <2>1. CASE n = node
        <3>1. new.left[n] = one /\ new.right[n] = right
            BY <1>5, <2>1
        <3>2. right \in Slots \cup {None} /\ right # node
            BY <1>13
        <3>3. len2[one] = len[one] /\ len2[right] = len[right]
            BY <1>12, <1>13, <3>2
        <3> HIDE DEF right, len2
        <3> QED  BY <1>12, <2>1, <3>1, <3>3
    <2>2. CASE n # node
        <3>1. n < node
            BY <1>1, <1>4, <1>15, <2>2
        <3>2. PICK a, b \in Slots \cup {None} : a = t.left[n] /\ b = t.right[n] /\ a < n /\ b < n
            BY DEF Forest, Falls
        <3>3. a # node /\ b # node
            <4>1. a \in Int /\ b \in Int /\ n \in Int /\ node \in Int
                BY <1>1
            <4> QED  BY <3>1, <3>2, <4>1
        <3>4. len2[a] = len[a] /\ len2[b] = len[b] /\ len2[n] = len[n]
            BY <1>12, <2>2, <3>3
        <3>5. new.left[n] = a /\ new.right[n] = b
            BY <1>5, <2>2, <3>2
        <3> HIDE DEF len2
        <3> QED  BY <1>7, <3>1, <3>2, <3>4, <3>5
    <2> QED  BY <2>1, <2>2
<1>16. /\ both \subseteq Counted(t, used) /\ both \in SUBSET Slots
       /\ 1 + len[one] + len[right] = 2 * (Cardinality(both) + 1) + 1
    <2>1. /\ under[one] \subseteq Counted(t, used) /\ under[two] \subseteq Counted(t, used)
          /\ len[one] = 2 * Cardinality(under[one]) + 1
          /\ len[two] = 2 * Cardinality(under[two]) + 1
          /\ under[one] \in SUBSET Slots /\ under[two] \in SUBSET Slots
        BY <1>4, <1>7
    <2>2. PICK a \in Nat, b \in Nat :
             /\ a = Cardinality(under[one]) /\ IsFiniteSet(under[one])
             /\ b = Cardinality(under[two]) /\ IsFiniteSet(under[two])
        BY <1>10, <2>1
    <2>3. CASE one = two
        <3>1. both = under[one] /\ len[right] = 1
            BY <1>7, <2>3
        <3>2. 1 + (2 * a + 1) + 1 = 2 * (a + 1) + 1
            OBVIOUS
        <3> HIDE DEF both, right
        <3> QED  BY <2>1, <2>2, <3>1, <3>2
    <2>4. CASE one # two
        <3>1. both = under[one] \cup under[two] /\ right = two
            BY <2>4
        <3>2. under[one] \cap under[two] = {}
            BY <1>4, <1>7, <2>4
        <3>3. Cardinality(under[one] \cup under[two]) = a + b - 0
            <4>1. Cardinality(under[one] \cup under[two])
                    = Cardinality(under[one]) + Cardinality(under[two])
                      - Cardinality(under[one] \cap under[two])
                BY <2>2, FS_Union
            <4>2. Cardinality({}) = 0
                BY FS_EmptySet
            <4> QED  BY <2>2, <3>2, <4>1, <4>2
        <3>4. 1 + (2 * a + 1) + (2 * b + 1) = 2 * ((a + b - 0) + 1) + 1
            OBVIOUS
        <3> HIDE DEF both, right
        <3> QED  BY <2>1, <2>2, <3>1, <3>3, <3>4
    <2> QED  BY <2>3, <2>4
<1>17. Cardinality(both \cup {node}) = Cardinality(both) + 1
    <2>1. node \notin both /\ IsFiniteSet(both)
        BY <1>8, <1>10, <1>16
    <2> HIDE DEF both
    <2> QED  BY <2>1, FS_AddElement
<1>18. ASSUME NEW n \in Slots, loads[n] # 0
       PROVE  under2[n] \subseteq Counted(new, used) /\ len2[n] = 2 * Cardinality(under2[n]) + 1
    <2>1. CASE n = node
        <3> HIDE DEF both, right, under2, len2
        <3> QED  BY <1>9, <1>12, <1>16, <1>17, <2>1
    <2>2. CASE n # node
        <3>1. weights[n] # 0
            BY <1>5, <1>18, <2>2
        <3>2. under2[n] = under[n] /\ len2[n] = len[n]
            BY <1>12, <2>2
        <3> HIDE DEF both, right, under2, len2
        <3> QED  BY <1>7, <1>9, <3>1, <3>2
    <2> QED  BY <2>1, <2>2
<1>19. ASSUME NEW n \in Slots, loads[n] # 0, n # node
       PROVE  /\ under2[n] = under[n] /\ weights[n] # 0 /\ n # one /\ n # two
              /\ under[n] \cap (both \cup {node}) = {}
    <2>1. weights[n] # 0 /\ n # one /\ n # two
        BY <1>5, <1>19
    <2>2. under[n] \cap under[one] = {} /\ under[n] \cap under[two] = {}
        BY <1>4, <1>7, <2>1
    <2>3. node \notin under[n]
        BY <1>7, <1>8, <2>1
    <2>4. under[n] \cap (both \cup {node}) = {}
        BY <2>2, <2>3
    <2>5. under2[n] = under[n]
        BY <1>12, <1>19
    <2> QED  BY <2>1, <2>4, <2>5
<1>20. ASSUME NEW n \in Slots, NEW m \in Slots, loads[n] # 0, loads[m] # 0, n # m
       PROVE  under2[n] \cap under2[m] = {}
    <2> HIDE DEF both, right, under2, len2
    <2>1. CASE n = node
        BY <1>12, <1>19, <1>20, <2>1
    <2>2. CASE m = node
        BY <1>12, <1>19, <1>20, <2>2
    <2>3. CASE n # node /\ m # node
        BY <1>7, <1>19, <1>20, <2>3
    <2> QED  BY <2>1, <2>2, <2>3
<1> HIDE DEF under2, len2, both, right
<1>21. Sizes(new, loads, used, under2, len2)
    BY <1>11, <1>14, <1>15, <1>18, <1>20 DEF Sizes
<1>22. ASSUME new.root # None PROVE new.node = Cardinality(used) + HUF_ASCII_COUNT
    <2>1. one = two
        BY <1>4, <1>22
    <2>2. Active(weights, node) = {one}
        <3>1. \A n \in 0 .. node-1 : n \in Slots
            BY <1>1, <1>3
        <3>2. one \in 0 .. node-1
            BY <1>1, <1>4
        <3> QED  BY <1>4, <2>1, <3>1, <3>2 DEF Active
    <2>3. Cardinality({one}) = 1
        BY FS_Singleton
    <2>4. 1 + node = Cardinality(used) + c
        BY <1>1, <1>3, <2>2, <2>3 DEF Forest
    <2>5. 1 + node = node + 1
        BY <1>1
    <2> QED  BY <1>1, <1>4, <2>4, <2>5
<1>23. Sized(new, loads, used)
    BY <1>21, <1>22 DEF Sized
<1> QED  BY <1>23 DEF new, loads, work

(* The weights of some data, before there is any parent.                   *)
LEMMA CountJoined ==
    ASSUME NEW weights, NEW used, Forest(NoTree, weights, used)
    PROVE  Joined(NoTree, weights) /\ Sized(NoTree, weights, used)
PROOF
<1>1. PICK c \in Nat \ {0, 1} :
          /\ HUF_ASCII_COUNT = c /\ Symbols = 0 .. c-1 /\ Slots = 0 .. 2*c-1
          /\ None = -1 /\ None \notin Slots /\ Symbols \subseteq Slots
    BY SlotFacts
<1>2. /\ NoTree.root = None /\ NoTree.node = c
      /\ \A n \in Slots : NoTree.parent[n] = None /\ NoTree.left[n] = None /\ NoTree.right[n] = None
    BY <1>1 DEF NoTree
<1>3. /\ weights \in [Slots -> Nat] /\ used \subseteq Symbols
      /\ \A n \in Slots : n >= c => weights[n] = 0
      /\ \A s \in Symbols : weights[s] # 0 => s \in used
    BY <1>1, <1>2 DEF Forest
<1>4. Joined(NoTree, weights)
    <2>1. \A n \in Slots : ~ (n >= c /\ n < c)
        BY <1>1
    <2> QED  BY <1>1, <1>2, <1>3, <2>1 DEF Joined
<1>5. \A n \in Slots : weights[n] # 0 => n \in used
    <2>1. \A n \in Slots : n >= c \/ n \in Symbols
        BY <1>1
    <2> QED  BY <1>3, <2>1
<1> DEFINE under == [n \in Slots |-> {n}]
           len   == [n \in Slots \cup {None} |-> IF n = None THEN 1 ELSE 3]
<1>6. /\ under \in [Slots -> SUBSET Slots] /\ len \in [Slots \cup {None} -> Nat]
      /\ len[None] = 1 /\ \A n \in Slots : under[n] = {n} /\ len[n] = 3
    BY <1>1
<1> HIDE DEF under, len
<1>7. \A n \in Slots : n < NoTree.node =>
         len[n] = 1 + len[NoTree.left[n]] + len[NoTree.right[n]]
    BY <1>2, <1>6
<1>8. \A n \in Slots : weights[n] # 0 =>
         /\ under[n] \subseteq Counted(NoTree, used)
         /\ len[n] = 2 * Cardinality(under[n]) + 1
    <2>1. \A n \in Slots : Cardinality({n}) = 1
        BY FS_Singleton
    <2>2. \A n \in Slots : len[n] = 2 * Cardinality(under[n]) + 1
        BY <1>6, <2>1
    <2> QED  BY <1>5, <1>6, <2>2 DEF Counted
<1>9. \A n, m \in Slots : n # m => under[n] \cap under[m] = {}
    BY <1>6
<1>10. Sizes(NoTree, weights, used, under, len)
    BY <1>6, <1>7, <1>8, <1>9 DEF Sizes
<1> QED  BY <1>2, <1>4, <1>10 DEF Sized

(* The tree of a block is whole: its nodes are joined, and counted.        *)
LEMMA BlockTreeWhole ==
    ASSUME NEW data \in Seq(Symbols), data # <<>>,
           NEW used, used = {data[i] : i \in 1 .. Len(data)}
    PROVE  \E weights : /\ Forest(BlockTree(data), weights, used)
                        /\ Joined(BlockTree(data), weights)
                        /\ Sized(BlockTree(data), weights, used)
PROOF
<1> DEFINE weights == Populate(NoRates, data)
           Whole(n) == /\ Joined(Merged(weights, n).tree, Merged(weights, n).rates)
                       /\ Sized(Merged(weights, n).tree, Merged(weights, n).rates, used)
<1>1. PICK c \in Nat : HUF_ASCII_COUNT = c /\ c \in 0..c
    <2>1. HUF_ASCII_COUNT \in Nat
        BY SymbolFacts
    <2> QED  BY <2>1
<1>2. /\ Merged(weights, 0) = [tree |-> NoTree, rates |-> weights]
      /\ \A n \in Nat :
            Merged(weights, n+1) = IF Merged(weights, n).tree.root = None
                                   THEN Merge(Merged(weights, n))
                                   ELSE Merged(weights, n)
    BY MergedStep
<1>3. \A n \in 0..c : Forest(Merged(weights, n).tree, Merged(weights, n).rates, used)
    BY <1>1, MergedGrows DEF Grown
<1> HIDE DEF weights
<1> DEFINE T == {n \in 0..c : Whole(n)}
<1>4. 0 \in T
    <2>1. Forest(NoTree, weights, used)
        BY CountForest DEF weights
    <2>2. Joined(NoTree, weights) /\ Sized(NoTree, weights, used)
        BY <2>1, CountJoined
    <2>3. Merged(weights, 0).tree = NoTree /\ Merged(weights, 0).rates = weights
        BY <1>2
    <2>4. Whole(0)
        BY <2>2, <2>3
    <2> HIDE DEF Whole
    <2> QED  BY <2>4
<1>5. ASSUME NEW n \in 1..c, n - 1 \in T PROVE n \in T
    <2>1. PICK m \in Nat : m = n - 1 /\ n = m + 1 /\ m \in 0..c
        OBVIOUS
    <2> DEFINE old == Merged(weights, m)
               new == Merged(weights, n)
    <2>2. Whole(m) /\ Forest(old.tree, old.rates, used)
        BY <1>3, <1>5, <2>1
    <2>3. Whole(n)
        <3>1. CASE old.tree.root # None
            <4>1. new = old
                BY <1>2, <2>1, <3>1
            <4> HIDE DEF old, new
            <4> QED  BY <2>2, <4>1 DEF old, new
        <3>2. CASE old.tree.root = None
            <4>1. new = Merge(old)
                BY <1>2, <2>1, <3>2
            <4> DEFINE pair == [tree |-> old.tree, rates |-> old.rates]
            <4>2. Merge(old) = Merge(pair)
                BY DEF Merge
            <4>3. Joined(old.tree, old.rates) /\ Sized(old.tree, old.rates, used)
                BY <2>2
            <4> HIDE DEF old, new
            <4>4. /\ Joined(Merge(pair).tree, Merge(pair).rates)
                  /\ Sized(Merge(pair).tree, Merge(pair).rates, used)
                BY <2>2, <3>2, <4>3, MergeJoined, MergeSized
            <4>5. Joined(new.tree, new.rates) /\ Sized(new.tree, new.rates, used)
                BY <4>1, <4>2, <4>4
            <4> QED  BY <4>5 DEF new
        <3> QED  BY <3>1, <3>2
    <2> HIDE DEF Whole
    <2> QED  BY <2>3
<1>6. Whole(c)
    <2> HIDE DEF Whole
    <2>1. c \in T
        <3> HIDE DEF T
        <3>1. 0..c \subseteq T
            BY <1>4, <1>5, BoundedInduction
        <3> QED  BY <1>1, <3>1
    <2> QED  BY <2>1
<1>7. BlockTree(data) = Merged(weights, c).tree
    BY <1>1 DEF BlockTree, FromHistogram, weights
<1> QED  BY <1>1, <1>3, <1>6, <1>7

(* A node is an element of its own preorder, which holds nodes and NULLs;  *)
(* the sizes are the lengths of the preorders.                             *)
LEMMA PreorderSizes ==
    ASSUME NEW t, NEW weights, NEW used, NEW under, NEW len,
           Falls(t), Sizes(t, weights, used, under, len), NEW e \in Preorders(t)
    PROVE  \A n \in Slots \cup {None} :
              /\ e[n] \in Seq(Slots \cup {None}) /\ Len(e[n]) > 0
              /\ n < t.node /\ t.node \in Nat => Len(e[n]) = len[n]
PROOF
<1>1. PICK N \in Nat : Slots = 1..N-1 \cup {0} /\ None = -1 /\ N > 0
    <2>1. PICK c \in Nat \ {0, 1} : Slots = 0 .. 2*c-1 /\ None = -1
        BY SlotFacts
    <2>2. 2*c \in Nat /\ 2*c > 0 /\ 0 .. 2*c-1 = (1 .. 2*c-1) \cup {0}
        OBVIOUS
    <2> QED  BY <2>1, <2>2
<1>2. /\ t.left \in [Slots -> Slots \cup {None}] /\ t.right \in [Slots -> Slots \cup {None}]
      /\ \A n \in Slots : t.left[n] < n /\ t.right[n] < n
    BY DEF Falls
<1>3. /\ e[None] = <<HUF_LEAF_NODE>>
      /\ \A n \in Slots : e[n] = <<n>> \o e[t.left[n]] \o e[t.right[n]]
    BY DEF Preorders
<1>4. /\ len[None] = 1
      /\ \A n \in Slots : n < t.node => len[n] = 1 + len[t.left[n]] + len[t.right[n]]
    BY DEF Sizes
<1> DEFINE D    == Slots \cup {None}
           S    == Seq(Slots \cup {None})
           rank == [n \in D |-> n + 1]
           T    == {n \in D : /\ e[n] \in S /\ Len(e[n]) > 0
                              /\ n < t.node /\ t.node \in Nat => Len(e[n]) = len[n]}
<1>5. rank \in [D -> 0..N]
    BY <1>1
<1>6. ASSUME NEW n \in D, \A m \in D : rank[m] < rank[n] => m \in T
      PROVE  n \in T
    <2>1. CASE n = None
        <3>1. e[n] = <<None>>
            BY <1>3, <2>1 DEF HUF_LEAF_NODE, None
        <3>2. <<None>> \in S /\ Len(<<None>>) = 1
            OBVIOUS
        <3> HIDE DEF S
        <3>3. e[n] \in S /\ Len(e[n]) = 1 /\ len[n] = 1
            BY <1>4, <2>1, <3>1, <3>2
        <3>4. e[n] \in S /\ Len(e[n]) > 0 /\ Len(e[n]) = len[n]
            BY <3>3
        <3> HIDE DEF D
        <3> QED  BY <3>4
    <2>2. CASE n # None
        <3>1. PICK a \in D, b \in D : a = t.left[n] /\ b = t.right[n] /\ a < n /\ b < n
            BY <1>2, <2>2
        <3>2. rank[a] < rank[n] /\ rank[b] < rank[n]
            BY <1>1, <3>1
        <3>3. a \in T /\ b \in T
            BY <1>6, <3>2
        <3>4. PICK x \in S, y \in S : x = e[a] /\ y = e[b] /\ Len(x) > 0 /\ Len(y) > 0
            BY <3>3
        <3>5. n \in Slots /\ e[n] = <<n>> \o x \o y
            BY <1>3, <2>2, <3>1, <3>4
        <3>6. <<n>> \in S /\ Len(<<n>>) = 1
            BY <3>5
        <3>7. (<<n>> \o x) \o y \in S /\ Len((<<n>> \o x) \o y) = 1 + Len(x) + Len(y)
            <4>1. PICK B : B = Slots \cup {None}
                OBVIOUS
            <4>2. <<n>> \in Seq(B) /\ x \in Seq(B) /\ y \in Seq(B)
                BY <3>6, <4>1
            <4>3. <<n>> \o x \in Seq(B) /\ Len(<<n>> \o x) = 1 + Len(x)
                BY <3>6, <4>2
            <4>4. (<<n>> \o x) \o y \in Seq(B) /\ Len((<<n>> \o x) \o y) = 1 + Len(x) + Len(y)
                BY <4>2, <4>3
            <4> QED  BY <4>1, <4>4
        <3>8. ASSUME n < t.node, t.node \in Nat PROVE Len(e[n]) = len[n]
            <4>1. a < t.node /\ b < t.node
                <5>1. a \in Int /\ b \in Int /\ n \in Int
                    BY <1>1
                <5> QED  BY <3>1, <3>8, <5>1
            <4>2. Len(x) = len[a] /\ Len(y) = len[b]
                BY <3>3, <3>4, <3>8, <4>1
            <4>3. len[n] = 1 + len[a] + len[b]
                BY <1>4, <3>1, <3>5, <3>8
            <4> QED  BY <3>5, <3>7, <4>2, <4>3
        <3>9. Len(e[n]) > 0
            <4>1. Len(x) \in Nat /\ Len(y) \in Nat
                OBVIOUS
            <4>2. 1 + Len(x) + Len(y) > 0
                BY <4>1
            <4> QED  BY <3>5, <3>7, <4>2
        <3> HIDE DEF S
        <3> QED  BY <3>5, <3>7, <3>8, <3>9
    <2> QED  BY <2>1, <2>2
<1>7. D \subseteq T
    <2> HIDE DEF D, T, rank
    <2>1. Inherited(D, rank, T)
        BY <1>6 DEF Inherited
    <2> QED  BY <1>5, <2>1, RankedInduction
<1> QED  BY <1>7

(* The tree of a block fits its length in the stream, and it fits the      *)
(* array unless the block has all the byte values.                         *)
LEMMA HeadSize ==
    ASSUME NEW t, NEW weights, NEW used,
           Forest(t, weights, used), Joined(t, weights), Sized(t, weights, used), t.root # None
    PROVE  /\ Serialize(t) \in Seq(Slots \cup {None})
           /\ Len(Serialize(t)) \in 1 .. HUF_BTREE_LEN + 1
           /\ used # Symbols => Len(Serialize(t)) <= HUF_BTREE_LEN
PROOF
<1>1. PICK c \in Nat \ {0, 1} :
          /\ HUF_ASCII_COUNT = c /\ Symbols = 0 .. c-1 /\ Slots = 0 .. 2*c-1
          /\ None = -1 /\ None \notin Slots /\ Symbols \subseteq Slots
    BY SlotFacts
<1>2. PICK e \in Preorders(t) : Serialize(t) = e[t.root]
    BY SerializeIs DEF Forest
<1>3. PICK under, len : Sizes(t, weights, used, under, len)
    BY DEF Sized
<1>4. /\ t.root \in Slots /\ weights[t.root] # 0 /\ t.node \in Nat /\ t.root < t.node
      /\ used \subseteq Symbols
      /\ t.node = Cardinality(used) + c
    <2>1. t.root \in Slots /\ weights[t.root] # 0 /\ t.node \in c .. 2*c
        BY <1>1 DEF Joined, Forest
    <2>2. ~ (t.root >= t.node)
        BY <2>1 DEF Joined
    <2> QED  BY <1>1, <2>1, <2>2 DEF Forest, Sized
<1>5. e[t.root] \in Seq(Slots \cup {None}) /\ Len(e[t.root]) > 0 /\ Len(e[t.root]) = len[t.root]
    BY <1>3, <1>4, PreorderSizes DEF Forest
<1>6. under[t.root] \subseteq Counted(t, used) /\ len[t.root] = 2 * Cardinality(under[t.root]) + 1
    BY <1>3, <1>4 DEF Sizes
<1>7. /\ IsFiniteSet(Symbols) /\ Cardinality(Symbols) = c
      /\ IsFiniteSet(used) /\ Cardinality(used) \in Nat /\ Cardinality(used) <= c
    <2>1. IsFiniteSet(0 .. c-1) /\ Cardinality(0 .. c-1) = c
        <3>1. 0 \in Int /\ c-1 \in Int /\ 0 <= c-1 /\ c-1 - 0 + 1 = c
            OBVIOUS
        <3> QED  BY <3>1, FS_Interval
    <2> QED  BY <1>1, <1>4, <2>1, FS_Subset, FS_CardinalityType
<1>8. PICK u \in Nat : u = Cardinality(used) /\ u <= c /\ t.node = u + c
    BY <1>4, <1>7
<1>9. IsFiniteSet(Counted(t, used)) /\ Cardinality(Counted(t, used)) = u + u
    <2> DEFINE inner == {m \in Slots : m >= HUF_ASCII_COUNT /\ m < t.node}
    <2>1. inner = c .. (u + c) - 1
        <3>1. \A m \in Slots : m \in Int
            BY <1>1
        <3>2. \A m \in c .. (u + c) - 1 : m \in 0 .. 2*c-1 /\ m >= c /\ m < u + c
            BY <1>8
        <3>3. \A m \in Int : m >= c /\ m < u + c => m \in c .. (u + c) - 1
            OBVIOUS
        <3> QED  BY <1>1, <1>8, <3>1, <3>2, <3>3
    <2>2. IsFiniteSet(inner) /\ Cardinality(inner) = u
        <3>1. CASE u = 0
            <4>1. c .. (u + c) - 1 = {}
                BY <3>1
            <4> QED  BY <2>1, <3>1, <4>1, FS_EmptySet
        <3>2. CASE u # 0
            <4>1. c \in Int /\ (u + c) - 1 \in Int /\ c <= (u + c) - 1 /\ (u + c) - 1 - c + 1 = u
                BY <3>2
            <4>2. IsFiniteSet(c .. (u + c) - 1) /\ Cardinality(c .. (u + c) - 1) = u
                BY <4>1, FS_Interval
            <4> QED  BY <2>1, <4>2
        <3> QED  BY <3>1, <3>2
    <2>3. used \cap inner = {}
        BY <1>1, <1>4
    <2> HIDE DEF inner
    <2>4. /\ IsFiniteSet(used \cup inner)
          /\ Cardinality(used \cup inner) = Cardinality(used) + Cardinality(inner)
                                            - Cardinality(used \cap inner)
        BY <1>7, <2>2, FS_Union
    <2>5. Cardinality(used \cap inner) = 0
        BY <2>3, FS_EmptySet
    <2>6. u + u - 0 = u + u
        OBVIOUS
    <2> QED  BY <1>8, <2>2, <2>4, <2>5, <2>6 DEF Counted, inner
<1>10. PICK k \in Nat : k = Cardinality(under[t.root]) /\ k <= u + u
    BY <1>6, <1>9, FS_Subset, FS_CardinalityType
<1>11. Len(Serialize(t)) = 2 * k + 1
    BY <1>2, <1>5, <1>6, <1>10
<1>12. 2 * k + 1 \in 1 .. 4 * c + 1
    BY <1>8, <1>10
<1>13. ASSUME used # Symbols PROVE 2 * k + 1 <= 4 * c
    <2>1. u # c
        <3>1. used # Symbols /\ used \subseteq Symbols
            BY <1>4, <1>13
        <3>2. Cardinality(used) < Cardinality(Symbols)
            BY <1>7, <3>1, FS_Subset
        <3> QED  BY <1>7, <1>8, <3>2
    <2> QED  BY <1>8, <1>10, <2>1
<1> QED  BY <1>1, <1>2, <1>5, <1>11, <1>12, <1>13 DEF HUF_BTREE_LEN

-----------------------------------------------------------------------------
(* The tree that is read back has the nodes of the tree that was written,  *)
(* each one at the place where its preorder starts.                        *)

Covers(elements, p, word) ==
    /\ p \in Nat \ {0} /\ p + Len(word) - 1 <= Len(elements)
    /\ \A k \in 1 .. Len(word) : elements[p + k - 1] = word[k]

LEMMA CoverParts ==
    ASSUME NEW elements \in Seq(Int), NEW n \in Int, NEW x \in Seq(Int), NEW y \in Seq(Int),
           NEW p \in Nat, Covers(elements, p, <<n>> \o x \o y)
    PROVE  /\ p \in 1 .. Len(elements) /\ elements[p] = n
           /\ Covers(elements, p + 1, x) /\ Covers(elements, p + 1 + Len(x), y)
PROOF
<1>1. PICK a \in Nat, b \in Nat, l \in Nat : a = Len(x) /\ b = Len(y) /\ l = Len(elements)
    OBVIOUS
<1> DEFINE word == <<n>> \o x \o y
<1>2. /\ Len(word) = 1 + a + b /\ word[1] = n
      /\ \A k \in 1..a : word[1 + k] = x[k]
      /\ \A k \in 1..b : word[1 + a + k] = y[k]
    <2>1. <<n>> \in Seq(Int) /\ Len(<<n>>) = 1 /\ <<n>>[1] = n
        OBVIOUS
    <2> DEFINE front == <<n>> \o x
    <2>2. /\ front \in Seq(Int) /\ Len(front) = 1 + a
          /\ \A k \in 1 .. 1 + a : front[k] = IF k <= 1 THEN <<n>>[k] ELSE x[k - 1]
        BY <1>1, <2>1, ConcatProperties
    <2> HIDE DEF front
    <2>3. /\ front \o y \in Seq(Int) /\ Len(front \o y) = (1 + a) + b
          /\ \A k \in 1 .. (1 + a) + b :
                (front \o y)[k] = IF k <= 1 + a THEN front[k] ELSE y[k - (1 + a)]
        <3>1. PICK m \in Nat, f \in Seq(Int) : m = 1 + a /\ f = front /\ Len(f) = m
            BY <2>2
        <3>2. /\ f \o y \in Seq(Int) /\ Len(f \o y) = Len(f) + Len(y)
              /\ \A k \in 1 .. Len(f) + Len(y) :
                    (f \o y)[k] = IF k <= Len(f) THEN f[k] ELSE y[k - Len(f)]
            BY ConcatProperties, Zenon
        <3> QED  BY <1>1, <3>1, <3>2
    <2>4. word = front \o y
        BY DEF front
    <2> HIDE DEF word
    <2>5. word[1] = n
        <3>1. 1 \in 1 .. (1 + a) + b /\ 1 <= 1 + a /\ 1 \in 1 .. 1 + a
            OBVIOUS
        <3> QED  BY <2>1, <2>2, <2>3, <2>4, <3>1
    <2>6. ASSUME NEW k \in 1..a PROVE word[1 + k] = x[k]
        <3>1. /\ 1 + k \in 1 .. (1 + a) + b /\ 1 + k <= 1 + a /\ 1 + k \in 1 .. 1 + a
              /\ ~ (1 + k <= 1) /\ (1 + k) - 1 = k
            OBVIOUS
        <3>2. word[1 + k] = front[1 + k] /\ front[1 + k] = x[(1 + k) - 1]
            BY <2>2, <2>3, <2>4, <3>1
        <3> QED  BY <3>1, <3>2
    <2>7. ASSUME NEW k \in 1..b PROVE word[1 + a + k] = y[k]
        <3>1. /\ 1 + a + k \in 1 .. (1 + a) + b /\ ~ (1 + a + k <= 1 + a)
              /\ (1 + a + k) - (1 + a) = k
            OBVIOUS
        <3>2. word[1 + a + k] = y[(1 + a + k) - (1 + a)]
            BY <2>3, <2>4, <3>1
        <3> QED  BY <3>1, <3>2
    <2> QED  BY <2>3, <2>4, <2>5, <2>6, <2>7
<1> HIDE DEF word
<1>3. /\ p \in Nat \ {0} /\ p + (1 + a + b) - 1 <= l
      /\ \A k \in 1 .. 1 + a + b : elements[p + k - 1] = word[k]
    BY <1>1, <1>2 DEF Covers, word
<1>4. p \in 1..l /\ elements[p] = n
    <2>1. 1 \in 1 .. 1 + a + b /\ p + 1 - 1 = p
        BY <1>3
    <2>2. elements[p + 1 - 1] = word[1]
        BY <1>3, <2>1
    <2> QED  BY <1>2, <1>3, <2>1, <2>2
<1>5. Covers(elements, p + 1, x)
    <2>1. p + 1 \in Nat \ {0} /\ (p + 1) + a - 1 <= l
        BY <1>3
    <2>2. ASSUME NEW k \in 1..a PROVE elements[(p + 1) + k - 1] = x[k]
        <3>1. 1 + k \in 1 .. 1 + a + b /\ p + (1 + k) - 1 = (p + 1) + k - 1
            BY <1>3
        <3>2. elements[p + (1 + k) - 1] = word[1 + k]
            BY <1>3, <3>1
        <3> QED  BY <1>2, <3>1, <3>2
    <2> QED  BY <1>1, <2>1, <2>2 DEF Covers
<1>6. Covers(elements, p + 1 + a, y)
    <2>1. p + 1 + a \in Nat \ {0} /\ (p + 1 + a) + b - 1 <= l
        BY <1>3
    <2>2. ASSUME NEW k \in 1..b PROVE elements[(p + 1 + a) + k - 1] = y[k]
        <3>1. 1 + a + k \in 1 .. 1 + a + b /\ p + (1 + a + k) - 1 = (p + 1 + a) + k - 1
            BY <1>3
        <3>2. elements[p + (1 + a + k) - 1] = word[1 + a + k]
            BY <1>3, <3>1
        <3> QED  BY <1>2, <3>1, <3>2
    <2> QED  BY <1>1, <2>1, <2>2 DEF Covers
<1> QED  BY <1>1, <1>4, <1>5, <1>6

(* The preorders of a tree, as sequences of numbers.                       *)
Ordered(t, e) ==
    /\ Falls(t) /\ e \in Preorders(t)
    /\ \A n \in Slots \cup {None} : e[n] \in Seq(Slots \cup {None}) /\ Len(e[n]) > 0

(* A node at a place, and its children behind it.                          *)
Parts(t, e, elements, n, p) ==
    /\ p \in 1 .. Len(elements) /\ elements[p] = n
    /\ t.left[n] \in Slots \cup {None} /\ t.right[n] \in Slots \cup {None}
    /\ Len(e[t.left[n]]) \in Nat /\ Len(e[t.right[n]]) \in Nat
    /\ Len(e[n]) = 1 + Len(e[t.left[n]]) + Len(e[t.right[n]])
    /\ Covers(elements, p + 1, e[t.left[n]])
    /\ Covers(elements, p + 1 + Len(e[t.left[n]]), e[t.right[n]])

LEMMA NodeParts ==
    ASSUME NEW t, NEW e, Ordered(t, e), NEW elements \in Seq(Int)
    PROVE  \A n \in Slots : \A p : Covers(elements, p, e[n]) => Parts(t, e, elements, n, p)
PROOF
<1> TAKE n \in Slots
<1> TAKE p
<1> HAVE Covers(elements, p, e[n])
<1>1. Slots \subseteq Int /\ None \in Int
    <2>1. PICK c \in Nat \ {0, 1} : Slots = 0 .. 2*c-1 /\ None = -1
        BY SlotFacts
    <2> QED  BY <2>1
<1>2. PICK a \in Slots \cup {None}, b \in Slots \cup {None} :
         a = t.left[n] /\ b = t.right[n] /\ e[n] = <<n>> \o e[a] \o e[b]
    <2>1. t.left[n] \in Slots \cup {None} /\ t.right[n] \in Slots \cup {None}
        BY DEF Ordered, Falls
    <2>2. e[n] = <<n>> \o e[t.left[n]] \o e[t.right[n]]
        BY DEF Ordered, Preorders
    <2> QED  BY <2>1, <2>2
<1>3. n \in Int /\ e[a] \in Seq(Int) /\ e[b] \in Seq(Int)
    BY <1>1 DEF Ordered, Preorders
<1>4. PICK x \in Seq(Int), y \in Seq(Int) : x = e[a] /\ y = e[b] /\ e[n] = <<n>> \o x \o y
    BY <1>2, <1>3
<1>5. /\ p \in 1 .. Len(elements) /\ elements[p] = n
      /\ Covers(elements, p + 1, x) /\ Covers(elements, p + 1 + Len(x), y)
    <2>1. Covers(elements, p, <<n>> \o x \o y)
        BY <1>4
    <2>2. n \in Int /\ p \in Nat
        BY <1>3, <2>1 DEF Covers
    <2> QED  BY <2>1, <2>2, CoverParts
<1>6. Len(<<n>> \o x \o y) = 1 + Len(x) + Len(y)
    BY <1>3
<1>7. Len(x) \in Nat /\ Len(y) \in Nat
    OBVIOUS
<1>8. /\ t.left[n] \in Slots \cup {None} /\ t.right[n] \in Slots \cup {None}
      /\ x = e[t.left[n]] /\ y = e[t.right[n]] /\ Len(e[n]) = 1 + Len(x) + Len(y)
    BY <1>2, <1>4, <1>6
<1> QED  BY <1>5, <1>7, <1>8, Zenon DEF Parts

LEMMA SpanIs ==
    ASSUME NEW t, NEW e, Ordered(t, e), NEW elements \in Seq(Int),
           NEW span \in Spans(elements)
    PROVE  \A n \in Slots \cup {None} : \A p \in Nat :
              Covers(elements, p, e[n]) => span[p] = Len(e[n])
PROOF
<1>1. PICK N \in Nat : Slots = 1..N-1 \cup {0} /\ None = -1 /\ N > 0
    <2>1. PICK c \in Nat \ {0, 1} : Slots = 0 .. 2*c-1 /\ None = -1
        BY SlotFacts
    <2>2. 2*c \in Nat /\ 2*c > 0 /\ 0 .. 2*c-1 = (1 .. 2*c-1) \cup {0}
        OBVIOUS
    <2> QED  BY <2>1, <2>2
<1>2. \A n \in Slots : t.left[n] < n /\ t.right[n] < n
    BY DEF Ordered, Falls
<1>3. \A p \in Nat :
         span[p] = IF p > Len(elements) THEN 0
                   ELSE IF elements[p] = HUF_LEAF_NODE THEN 1
                   ELSE 1 + span[p+1] + span[p + 1 + span[p+1]]
    BY DEF Spans
<1> DEFINE D    == Slots \cup {None}
           rank == [n \in D |-> n + 1]
           T    == {n \in D : \A p \in Nat : Covers(elements, p, e[n]) => span[p] = Len(e[n])}
<1>4. rank \in [D -> 0..N]
    BY <1>1
<1>5. ASSUME NEW n \in D, \A m \in D : rank[m] < rank[n] => m \in T
      PROVE  n \in T
    <2>1. ASSUME NEW p \in Nat, Covers(elements, p, e[n]) PROVE span[p] = Len(e[n])
        <3>1. CASE n = None
            <4>1. e[n] = <<HUF_LEAF_NODE>>
                BY <3>1 DEF Ordered, Preorders
            <4>2. Len(e[n]) = 1 /\ e[n][1] = HUF_LEAF_NODE
                BY <4>1
            <4>3. p + 1 - 1 <= Len(elements) /\ elements[p + 1 - 1] = HUF_LEAF_NODE
                BY <2>1, <4>2 DEF Covers
            <4>4. p + 1 - 1 = p /\ Len(elements) \in Nat
                OBVIOUS
            <4>5. ~ (p > Len(elements)) /\ elements[p] = HUF_LEAF_NODE
                BY <4>3, <4>4
            <4> QED  BY <1>3, <4>2, <4>5
        <3>2. CASE n # None
            <4>1. n \in Slots
                BY <3>2
            <4>2. /\ p \in 1 .. Len(elements) /\ elements[p] = n
                  /\ t.left[n] \in D /\ t.right[n] \in D
                  /\ Len(e[t.left[n]]) \in Nat /\ Len(e[t.right[n]]) \in Nat
                  /\ Len(e[n]) = 1 + Len(e[t.left[n]]) + Len(e[t.right[n]])
                  /\ Covers(elements, p + 1, e[t.left[n]])
                  /\ Covers(elements, p + 1 + Len(e[t.left[n]]), e[t.right[n]])
                BY <2>1, <4>1, NodeParts DEF Parts
            <4>3. PICK a \in D, b \in D : a = t.left[n] /\ b = t.right[n] /\ a < n /\ b < n
                BY <1>2, <4>1, <4>2
            <4>4. PICK x \in Nat, y \in Nat : x = Len(e[a]) /\ y = Len(e[b])
                BY <4>2, <4>3
            <4>5. a \in T /\ b \in T
                <5>1. rank[a] < rank[n] /\ rank[b] < rank[n]
                    BY <1>1, <4>3
                <5> QED  BY <1>5, <5>1
            <4>6. p + 1 \in Nat /\ p + 1 + x \in Nat
                OBVIOUS
            <4>7. span[p + 1] = x
                BY <4>2, <4>3, <4>4, <4>5, <4>6
            <4>8. span[p + 1 + x] = y
                BY <4>2, <4>3, <4>4, <4>5, <4>6
            <4>9. ~ (p > Len(elements)) /\ elements[p] # HUF_LEAF_NODE
                <5>1. n # HUF_LEAF_NODE
                    BY <3>2 DEF None, HUF_LEAF_NODE
                <5>2. Len(elements) \in Nat
                    OBVIOUS
                <5> QED  BY <4>2, <5>1, <5>2
            <4>10. span[p] = 1 + x + y
                BY <1>3, <4>7, <4>8, <4>9
            <4> QED  BY <4>2, <4>3, <4>4, <4>10
        <3> QED  BY <3>1, <3>2
    <2> HIDE DEF D
    <2> QED  BY <2>1
<1>6. D \subseteq T
    <2> HIDE DEF D, T, rank
    <2>1. Inherited(D, rank, T)
        BY <1>5 DEF Inherited
    <2> QED  BY <1>4, <2>1, RankedInduction
<1> QED  BY <1>6

(* A whole tree, with a root.                                              *)
Rooted(t, used) ==
    /\ t.root # None
    /\ \E weights : Forest(t, weights, used) /\ Joined(t, weights) /\ Sized(t, weights, used)

(* A place in the serialized tree is where the preorder of a node starts.  *)
Stands(t, p, n) == \E e : Ordered(t, e) /\ Covers(Serialize(t), p, e[n])

(* A branch that is read back: NULL, or a place for the child of the node. *)
Follows(t, q, child) ==
    IF child = None THEN q = None ELSE Stands(t, q, child)

LEMMA BranchIs ==
    ASSUME NEW t, NEW e, Ordered(t, e), Serialize(t) \in Seq(Int),
           NEW n \in Slots \cup {None}, NEW p \in Nat, Covers(Serialize(t), p, e[n])
    PROVE  Follows(t, Branch(Serialize(t), p), n)
PROOF
<1>1. PICK elements \in Seq(Int) : elements = Serialize(t)
    OBVIOUS
<1>2. CASE n = None
    <2>1. e[n] = <<HUF_LEAF_NODE>>
        BY <1>2 DEF Ordered, Preorders
    <2>2. Len(e[n]) = 1 /\ e[n][1] = HUF_LEAF_NODE
        BY <2>1
    <2>3. p \in Nat /\ elements[p + 1 - 1] = HUF_LEAF_NODE
        BY <1>1, <2>2 DEF Covers
    <2>4. p + 1 - 1 = p
        BY <2>3
    <2>5. Branch(elements, p) = None
        BY <2>3, <2>4 DEF Branch
    <2> QED  BY <1>1, <1>2, <2>5 DEF Follows
<1>3. CASE n # None
    <2>1. n \in Slots
        BY <1>3
    <2>2. p \in 1 .. Len(elements) /\ elements[p] = n
        <3>1. Covers(elements, p, e[n])
            BY <1>1
        <3>2. Parts(t, e, elements, n, p)
            BY <2>1, <3>1, NodeParts
        <3> QED  BY <3>2 DEF Parts
    <2>3. p <= Len(elements) /\ elements[p] # HUF_LEAF_NODE
        BY <1>3, <2>2 DEF None, HUF_LEAF_NODE
    <2>4. Branch(elements, p) = p
        BY <2>3 DEF Branch
    <2>5. Stands(t, p, n)
        BY DEF Stands
    <2> QED  BY <1>1, <1>3, <2>4, <2>5 DEF Follows
<1> QED  BY <1>2, <1>3

LEMMA RootedFacts ==
    ASSUME NEW t, NEW used, Rooted(t, used)
    PROVE  /\ Falls(t) /\ t.root \in Slots
           /\ Serialize(t) \in Seq(Int)
           /\ \E e : Ordered(t, e) /\ Serialize(t) = e[t.root]
PROOF
<1>1. PICK weights : Forest(t, weights, used) /\ Joined(t, weights) /\ Sized(t, weights, used)
    BY DEF Rooted
<1>2. Falls(t) /\ t.root \in Slots
    BY <1>1 DEF Forest, Joined, Rooted
<1>3. PICK under, len : Sizes(t, weights, used, under, len)
    BY <1>1 DEF Sized
<1>4. PICK e \in Preorders(t) : Serialize(t) = e[t.root]
    BY <1>2, SerializeIs
<1>5. Ordered(t, e)
    BY <1>2, <1>3, PreorderSizes DEF Ordered
<1>6. e[t.root] \in Seq(Int)
    BY <1>2 DEF Preorders
<1> QED  BY <1>2, <1>4, <1>5, <1>6

LEMMA ReadBack ==
    ASSUME NEW t, NEW used, Rooted(t, used), NEW back, back = Deserialize(Serialize(t))
    PROVE  /\ back.root # None /\ Stands(t, back.root, t.root)
           /\ \A n \in Slots : \A p : Stands(t, p, n) =>
                 /\ p \in 1 .. Len(back.index) /\ back.index[p] = n
                 /\ Follows(t, back.left[p], t.left[n])
                 /\ Follows(t, back.right[p], t.right[n])
PROOF
<1>1. PICK elements \in Seq(Int) : elements = Serialize(t)
    BY RootedFacts
<1>2. PICK span \in Spans(elements) :
         back = [root  |-> IF Len(elements) = 0 THEN None ELSE Branch(elements, 1),
                 index |-> elements,
                 left  |-> [p \in 1 .. Len(elements) |-> Branch(elements, p + 1)],
                 right |-> [p \in 1 .. Len(elements) |-> Branch(elements, p + 1 + span[p+1])]]
    BY <1>1, DeserializeIs
<1>3. /\ back.index = elements
      /\ back.root = IF Len(elements) = 0 THEN None ELSE Branch(elements, 1)
      /\ \A p \in 1 .. Len(elements) :
            /\ back.left[p] = Branch(elements, p + 1)
            /\ back.right[p] = Branch(elements, p + 1 + span[p+1])
    BY <1>2
<1>4. back.root # None /\ Stands(t, back.root, t.root)
    <2>1. PICK e : Ordered(t, e) /\ elements = e[t.root]
        BY <1>1, RootedFacts
    <2>2. t.root \in Slots /\ t.root # None
        BY RootedFacts DEF Rooted
    <2>3. Len(elements) > 0 /\ Len(elements) \in Nat
        BY <2>1, <2>2 DEF Ordered
    <2>4. Covers(elements, 1, e[t.root])
        <3>1. 1 \in Nat \ {0} /\ 1 + Len(elements) - 1 <= Len(elements)
            BY <2>3
        <3>2. \A k \in 1 .. Len(elements) : 1 + k - 1 = k
            BY <2>3
        <3> QED  BY <2>1, <3>1, <3>2 DEF Covers
    <2>5. 1 \in 1 .. Len(elements) /\ elements[1] = t.root
        <3>1. Parts(t, e, elements, t.root, 1)
            BY <2>1, <2>2, <2>4, NodeParts
        <3> QED  BY <3>1 DEF Parts
    <2>6. Branch(elements, 1) = 1
        BY <2>2, <2>3, <2>5 DEF Branch, None, HUF_LEAF_NODE
    <2>7. back.root = 1
        BY <1>3, <2>3, <2>6
    <2>8. Stands(t, 1, t.root)
        BY <1>1, <2>1, <2>4 DEF Stands
    <2> QED  BY <2>7, <2>8 DEF None
<1>5. ASSUME NEW n \in Slots, NEW p, Stands(t, p, n)
      PROVE  /\ p \in 1 .. Len(back.index) /\ back.index[p] = n
             /\ Follows(t, back.left[p], t.left[n])
             /\ Follows(t, back.right[p], t.right[n])
    <2>1. PICK e : Ordered(t, e) /\ Covers(elements, p, e[n])
        BY <1>1, <1>5 DEF Stands
    <2>2. /\ p \in 1 .. Len(elements) /\ elements[p] = n
          /\ t.left[n] \in Slots \cup {None} /\ t.right[n] \in Slots \cup {None}
          /\ Covers(elements, p + 1, e[t.left[n]])
          /\ Covers(elements, p + 1 + Len(e[t.left[n]]), e[t.right[n]])
        <3>1. Parts(t, e, elements, n, p)
            BY <2>1, NodeParts
        <3> QED  BY <3>1 DEF Parts
    <2>3. p + 1 \in Nat /\ p + 1 + Len(e[t.left[n]]) \in Nat
        BY <2>2 DEF Covers
    <2>4. span[p + 1] = Len(e[t.left[n]])
        BY <2>1, <2>2, <2>3, SpanIs
    <2>5. Follows(t, Branch(elements, p + 1), t.left[n])
        BY <1>1, <2>1, <2>2, <2>3, BranchIs
    <2>6. Follows(t, Branch(elements, p + 1 + span[p + 1]), t.right[n])
        BY <1>1, <2>1, <2>2, <2>3, <2>4, BranchIs
    <2> QED  BY <1>3, <2>2, <2>5, <2>6
<1> QED  BY <1>4, <1>5

-----------------------------------------------------------------------------
(* The nodes on the way from a node up to the root.  A bit of the code     *)
(* word leads from one of them back to the one before.                     *)
Chain(t, m, way) ==
    LET word == NodeToString(t, m) IN
    /\ way \in Seq(Slots) /\ Len(way) = Len(word) + 1
    /\ way[1] = m /\ way[Len(way)] = t.root
    /\ \A i \in 1 .. Len(word) :
          way[i] = IF word[i] = 1 THEN t.right[way[i+1]] ELSE t.left[way[i+1]]
    /\ \A i \in 2 .. Len(way) : t.left[way[i]] # None

LEMMA ChainIs ==
    ASSUME NEW t, NEW used, Rooted(t, used), NEW s \in used
    PROVE  /\ s \in Symbols /\ NodeToString(t, s) \in Seq({0, 1}) /\ Len(NodeToString(t, s)) > 0
           /\ \E way : Chain(t, s, way)
PROOF
<1>1. PICK c \in Nat \ {0, 1} :
          /\ HUF_ASCII_COUNT = c /\ Symbols = 0 .. c-1 /\ Slots = 0 .. 2*c-1
          /\ None = -1 /\ None \notin Slots /\ Symbols \subseteq Slots
    BY SlotFacts
<1>2. PICK weights : Forest(t, weights, used) /\ Joined(t, weights)
    BY DEF Rooted
<1>3. PICK N \in Nat : N = 2*c-1 /\ Slots = 0..N
    BY <1>1
<1>4. /\ \A n \in Slots : t.parent[n] # None =>
            /\ t.parent[n] \in Slots /\ n < t.parent[n]
            /\ t.parent[n] >= HUF_ASCII_COUNT /\ t.parent[n] < t.node
            /\ t.left[t.parent[n]] = n \/ t.right[t.parent[n]] = n
      /\ \A n \in Slots : n >= HUF_ASCII_COUNT /\ n < t.node =>
            t.left[n] # None /\ (weights[n] # 0 \/ t.parent[n] # None)
      /\ t.root \in Slots /\ t.parent[t.root] = None
      /\ \A n \in Slots : weights[n] # 0 => n = t.root
    BY <1>2 DEF Joined, Rooted
<1>5. \A m \in Slots :
         /\ NodeToString(t, m) \in Seq({0, 1})
         /\ t.parent[m] = None => NodeToString(t, m) = <<>>
         /\ t.parent[m] # None =>
               NodeToString(t, m) = <<IF t.left[t.parent[m]] = m THEN 0 ELSE 1>>
                                    \o NodeToString(t, t.parent[m])
    BY <1>2, NodeToStringIs DEF Forest
<1> DEFINE rank == [m \in Slots |-> N - m]
           T    == {m \in Slots : m = t.root \/ t.parent[m] # None => \E way : Chain(t, m, way)}
<1>6. rank \in [Slots -> 0..N]
    <2>1. \A m \in Slots : N - m \in 0..N
        BY <1>3
    <2> QED  BY <2>1
<1>7. Chain(t, t.root, <<t.root>>)
    <2>1. NodeToString(t, t.root) = <<>>
        BY <1>4, <1>5
    <2>2. PICK r \in Slots : r = t.root
        BY <1>4
    <2>3. <<r>> \in Seq(Slots) /\ Len(<<r>>) = Len(<<>>) + 1 /\ <<r>>[1] = r /\ <<r>>[Len(<<r>>)] = r
        OBVIOUS
    <2>4. 1 .. Len(<<>>) = {} /\ 2 .. Len(<<r>>) = {}
        OBVIOUS
    <2> QED  BY <2>1, <2>2, <2>3, <2>4 DEF Chain
<1>8. ASSUME NEW m \in Slots, t.parent[m] # None, NEW way, Chain(t, t.parent[m], way)
      PROVE  Chain(t, m, <<m>> \o way)
    <2>1. PICK p \in Slots : /\ p = t.parent[m] /\ p >= HUF_ASCII_COUNT /\ p < t.node
                             /\ t.left[p] = m \/ t.right[p] = m
        BY <1>4, <1>8
    <2> DEFINE x == IF t.left[p] = m THEN 0 ELSE 1
    <2>2. PICK word \in Seq({0, 1}) : word = NodeToString(t, p)
        BY <1>5
    <2>3. PICK l \in Nat : l = Len(word)
        OBVIOUS
    <2>4. NodeToString(t, m) = <<x>> \o word
        BY <1>5, <1>8, <2>1, <2>2
    <2>5. /\ way \in Seq(Slots) /\ Len(way) = l + 1
          /\ way[1] = p /\ way[l + 1] = t.root
          /\ \A i \in 1..l : way[i] = IF word[i] = 1 THEN t.right[way[i+1]] ELSE t.left[way[i+1]]
          /\ \A i \in 2 .. l + 1 : t.left[way[i]] # None
        BY <1>8, <2>1, <2>2, <2>3 DEF Chain
    <2> DEFINE all == <<m>> \o way
               bits2 == <<x>> \o word
    <2>6. /\ all \in Seq(Slots) /\ Len(all) = l + 2 /\ all[1] = m
          /\ \A i \in 1 .. l + 1 : all[i + 1] = way[i]
        <3>1. <<m>> \in Seq(Slots) /\ Len(<<m>>) = 1 /\ <<m>>[1] = m
            OBVIOUS
        <3>2. /\ all \in Seq(Slots) /\ Len(all) = Len(<<m>>) + Len(way)
              /\ \A k \in 1 .. Len(<<m>>) + Len(way) :
                    all[k] = IF k <= Len(<<m>>) THEN <<m>>[k] ELSE way[k - Len(<<m>>)]
            <4>1. way \in Seq(Slots)
                BY <2>5
            <4> QED  BY <3>1, <4>1, ConcatProperties, Zenon
        <3> HIDE DEF all
        <3>3. 1 + (l + 1) = l + 2 /\ 1 \in 1 .. l + 2 /\ 1 <= 1
            OBVIOUS
        <3>4. \A i \in 1 .. l + 1 : i + 1 \in 1 .. l + 2 /\ ~ (i + 1 <= 1) /\ (i + 1) - 1 = i
            OBVIOUS
        <3> QED  BY <2>5, <3>1, <3>2, <3>3, <3>4
    <2>7. /\ Len(bits2) = l + 1 /\ bits2[1] = x /\ \A i \in 1..l : bits2[i + 1] = word[i]
        <3>1. PICK B : B = {0, 1}
            OBVIOUS
        <3>2. <<x>> \in Seq(B) /\ word \in Seq(B) /\ Len(<<x>>) = 1 /\ <<x>>[1] = x
            BY <3>1
        <3> HIDE DEF x
        <3>3. /\ Len(bits2) = Len(<<x>>) + Len(word)
              /\ \A k \in 1 .. Len(<<x>>) + Len(word) :
                    bits2[k] = IF k <= Len(<<x>>) THEN <<x>>[k] ELSE word[k - Len(<<x>>)]
            BY <3>2, ConcatProperties, Zenon
        <3> HIDE DEF bits2
        <3>4. 1 + l = l + 1 /\ 1 \in 1 .. l + 1 /\ 1 <= 1
            OBVIOUS
        <3>5. \A i \in 1..l : i + 1 \in 1 .. l + 1 /\ ~ (i + 1 <= 1) /\ (i + 1) - 1 = i
            OBVIOUS
        <3> QED  BY <2>3, <3>2, <3>3, <3>4, <3>5
    <2> HIDE DEF all, bits2
    <2>8. all[l + 2] = t.root /\ all[2] = p
        <3>1. l + 1 \in 1 .. l + 1 /\ 1 \in 1 .. l + 1 /\ (l + 1) + 1 = l + 2 /\ 1 + 1 = 2
            OBVIOUS
        <3> QED  BY <2>5, <2>6, <3>1
    <2>9. ASSUME NEW i \in 1 .. l + 1
          PROVE  all[i] = IF bits2[i] = 1 THEN t.right[all[i+1]] ELSE t.left[all[i+1]]
        <3>1. CASE i = 1
            <4>1. 1 + 1 = 2
                OBVIOUS
            <4> QED  BY <2>1, <2>6, <2>7, <2>8, <3>1, <4>1
        <3>2. CASE i # 1
            <4>1. PICK k \in 1..l : i = k + 1
                <5>1. i - 1 \in 1..l /\ i = (i - 1) + 1
                    BY <3>2
                <5> QED  BY <5>1
            <4>2. k \in 1 .. l + 1 /\ k + 1 \in 1 .. l + 1
                OBVIOUS
            <4>3. /\ all[k + 1] = way[k] /\ all[(k + 1) + 1] = way[k + 1]
                  /\ bits2[k + 1] = word[k]
                BY <2>6, <2>7, <4>2
            <4>4. way[k] = IF word[k] = 1 THEN t.right[way[k+1]] ELSE t.left[way[k+1]]
                BY <2>5
            <4> QED  BY <4>1, <4>3, <4>4
        <3> QED  BY <3>1, <3>2
    <2>10. ASSUME NEW i \in 2 .. l + 2 PROVE t.left[all[i]] # None
        <3>1. CASE i = 2
            BY <1>4, <2>1, <2>8, <3>1
        <3>2. CASE i # 2
            <4>1. PICK k \in 2 .. l + 1 : i = k + 1
                <5>1. i - 1 \in 2 .. l + 1 /\ i = (i - 1) + 1
                    BY <3>2
                <5> QED  BY <5>1
            <4>2. k \in 1 .. l + 1
                OBVIOUS
            <4> QED  BY <2>5, <2>6, <4>1, <4>2
        <3> QED  BY <3>1, <3>2
    <2>11. Len(all) = (l + 1) + 1
        BY <2>6
    <2>12. Len(NodeToString(t, m)) = l + 1 /\ NodeToString(t, m) = bits2
        BY <2>4, <2>7 DEF bits2
    <2>13. Chain(t, m, all)
        BY <2>6, <2>8, <2>9, <2>10, <2>11, <2>12 DEF Chain
    <2> QED  BY <2>13 DEF all
<1>9. ASSUME NEW m \in Slots, \A n \in Slots : rank[n] < rank[m] => n \in T
      PROVE  m \in T
    <2>1. CASE m = t.root
        BY <1>7, <2>1
    <2>2. CASE m # t.root /\ t.parent[m] # None
        <3>1. PICK p \in Slots : p = t.parent[m] /\ m < p /\ p >= HUF_ASCII_COUNT /\ p < t.node
            BY <1>4, <2>2
        <3>2. p = t.root \/ t.parent[p] # None
            BY <1>4, <3>1
        <3>3. rank[p] < rank[m]
            BY <1>3, <3>1
        <3>4. PICK way : Chain(t, p, way)
            BY <1>9, <3>2, <3>3
        <3> QED  BY <1>8, <2>2, <3>1, <3>4
    <2>3. CASE m # t.root /\ t.parent[m] = None
        BY <2>3
    <2> QED  BY <2>1, <2>2, <2>3
<1>10. Slots \subseteq T
    <2> HIDE DEF T, rank
    <2>1. Inherited(Slots, rank, T)
        BY <1>9 DEF Inherited
    <2> QED  BY <1>6, <2>1, RankedInduction
<1>11. s \in Symbols /\ s \in Slots /\ t.parent[s] # None
    BY <1>1, <1>2 DEF Forest, Rooted
<1>12. NodeToString(t, s) \in Seq({0, 1}) /\ Len(NodeToString(t, s)) > 0
    <2>1. PICK x \in {0, 1}, word \in Seq({0, 1}) : NodeToString(t, s) = <<x>> \o word
        <3>1. t.parent[s] \in Slots
            BY <1>4, <1>11
        <3> QED  BY <1>5, <1>11, <3>1
    <2>2. Len(<<x>> \o word) = 1 + Len(word) /\ Len(word) \in Nat
        OBVIOUS
    <2> QED  BY <1>5, <1>11, <2>1, <2>2
<1>13. \E way : Chain(t, s, way)
    BY <1>10, <1>11
<1> QED  BY <1>11, <1>12, <1>13

-----------------------------------------------------------------------------
(* The parts of a block, as they are read.                                 *)

LEMMA SizeIsRead ==
    ASSUME NEW n \in Nat, Shifted(n, HUF_ASCII_COUNT, SizeWidth) = 0
    PROVE  /\ Digits(n, SizeWidth) \in Seq(Symbols) /\ Len(Digits(n, SizeWidth)) = SizeWidth
           /\ Unsigned(Digits(n, SizeWidth)) = n
PROOF
<1>1. SizeWidth \in Nat \ {0} /\ n \in Int
    BY WidthAssumption
<1> QED  BY <1>1, DigitsType, UnsignedBack

LEMMA LengthIsRead ==
    ASSUME NEW n \in Nat, n <= HUF_BTREE_LEN + 1
    PROVE  /\ Digits(n, IntWidth) \in Seq(Symbols) /\ Len(Digits(n, IntWidth)) = IntWidth
           /\ Signed(Digits(n, IntWidth)) = n
PROOF
<1>1. IntWidth \in Nat \ {0} /\ n \in Int
    BY WidthAssumption
<1>2. Fits(n)
    BY DEF Fits
<1> QED  BY <1>1, <1>2, DigitsType, SignedBack

LEMMA HeadIsRead ==
    ASSUME NEW t, NEW used, Rooted(t, used)
    PROVE  /\ Serialize(t) \in Seq(Int) /\ Len(Serialize(t)) \in 1 .. HUF_BTREE_LEN + 1
           /\ used # Symbols => Len(Serialize(t)) <= HUF_BTREE_LEN
           /\ TreeBytes(Serialize(t)) \in Seq(Symbols)
           /\ Len(TreeBytes(Serialize(t))) = Len(Serialize(t)) * IntWidth
           /\ Elements(TreeBytes(Serialize(t))) = Serialize(t)
PROOF
<1>1. PICK weights : Forest(t, weights, used) /\ Joined(t, weights) /\ Sized(t, weights, used)
    BY DEF Rooted
<1>2. t.root # None
    BY DEF Rooted
<1>3. PICK head : head = Serialize(t)
    OBVIOUS
<1>4. /\ head \in Seq(Slots \cup {None}) /\ Len(head) \in 1 .. HUF_BTREE_LEN + 1
      /\ used # Symbols => Len(head) <= HUF_BTREE_LEN
    BY <1>1, <1>2, <1>3, HeadSize
<1>5. \A v \in Slots \cup {None} : v \in Int /\ Fits(v)
    <2>1. PICK c \in Nat : c = HUF_ASCII_COUNT
        BY SymbolFacts
    <2>2. \A v \in (0 .. 2 * c - 1) \cup {-1} : v \in Int /\ (v = -1 \/ (v \in Nat /\ v <= 4 * c + 1))
        OBVIOUS
    <2> QED  BY <2>1, <2>2 DEF Slots, None, Fits, HUF_BTREE_LEN
<1>6. PICK n \in Nat : n = Len(head) /\ head \in [1..n -> Slots \cup {None}]
    BY <1>4
<1>7. head \in Seq(Int) /\ \A i \in 1 .. Len(head) : Fits(head[i])
    BY <1>5, <1>6
<1>8. TreeBytes(head) \in Seq(Symbols)
    BY <1>7, TreeBytesType
<1> QED  BY <1>3, <1>4, <1>7, <1>8, ElementsBack

(* The bytes of some data.                                                 *)
BytesOf(data) == {data[i] : i \in 1 .. Len(data)}

LEMMA BlockParts ==
    ASSUME NEW data \in Seq(Symbols), data # <<>>
    PROVE  LET t == BlockTree(data) IN
           /\ Rooted(t, BytesOf(data))
           /\ \A n \in 0 .. Len(data) : BitsAfter(t, data, n) \in Seq({0, 1})
           /\ BitsAfter(t, data, Len(data)) = <<>>
           /\ \A n \in 0 .. Len(data) - 1 :
                 BitsAfter(t, data, n) = Reverse(NodeToString(t, data[n+1])) \o BitsAfter(t, data, n+1)
           /\ Packed(BitsAfter(t, data, 0)) \in Seq(Symbols)
           /\ Block(data) = Digits(Len(data), SizeWidth)
                            \o (Digits(Len(Serialize(t)), IntWidth)
                                \o (TreeBytes(Serialize(t)) \o Packed(BitsAfter(t, data, 0))))
PROOF
<1>1. PICK t, head : t = BlockTree(data) /\ head = Serialize(t)
    OBVIOUS
<1>2. Rooted(t, BytesOf(data))
    <2>1. t.root # None
        BY <1>1, BlockTreeIs
    <2> QED  BY <1>1, <2>1, BlockTreeWhole DEF Rooted, BytesOf
<1>3. \A i \in 1 .. Len(data) : NodeToString(t, data[i]) \in Seq({0, 1})
    BY <1>2, ChainIs DEF BytesOf
<1>4. /\ \A n \in 0 .. Len(data) : BitsAfter(t, data, n) \in Seq({0, 1})
      /\ BitsAfter(t, data, Len(data)) = <<>>
      /\ \A n \in 0 .. Len(data) - 1 :
            BitsAfter(t, data, n) = Reverse(NodeToString(t, data[n+1])) \o BitsAfter(t, data, n+1)
    BY <1>3, BitsAfterIs
<1>5. Packed(BitsAfter(t, data, 0)) \in Seq(Symbols)
    <2>1. 0 \in 0 .. Len(data)
        OBVIOUS
    <2> QED  BY <1>4, <2>1, PackedType
<1>6. PICK a \in Seq(Symbols), b \in Seq(Symbols), c \in Seq(Symbols), d \in Seq(Symbols) :
         /\ a = Digits(Len(data), SizeWidth) /\ b = Digits(Len(head), IntWidth)
         /\ c = TreeBytes(head) /\ d = Packed(BitsAfter(t, data, 0))
    <2>1. TreeBytes(head) \in Seq(Symbols) /\ Len(head) \in Int
        BY <1>1, <1>2, HeadIsRead
    <2>2. Len(data) \in Int /\ SizeWidth \in Nat /\ IntWidth \in Nat
        BY WidthAssumption
    <2>3. Digits(Len(data), SizeWidth) \in Seq(Symbols) /\ Digits(Len(head), IntWidth) \in Seq(Symbols)
        BY <2>1, <2>2, DigitsType
    <2> QED  BY <1>5, <2>1, <2>3, Zenon
<1>7. Block(data) = a \o b \o c \o d
    BY <1>1, <1>6 DEF Block
<1>8. a \o b \o c \o d = a \o (b \o (c \o d))
    <2>1. PICK bc \in Seq(Symbols) : bc = b \o c
        BY ConcatProperties
    <2>2. (a \o b) \o c = a \o bc
        <3>1. Regroups(a, b, c)
            BY <2>1, Regrouping
        <3> QED  BY <2>1, <3>1 DEF Regroups
    <2>3. (a \o bc) \o d = a \o (bc \o d)
        <3>1. Regroups(a, bc, d)
            BY Regrouping
        <3> QED  BY <3>1 DEF Regroups
    <2>4. (b \o c) \o d = b \o (c \o d)
        <3>1. Regroups(b, c, d)
            BY Regrouping
        <3> QED  BY <3>1 DEF Regroups
    <2> QED  BY <2>1, <2>2, <2>3, <2>4
<1> QED  BY <1>1, <1>2, <1>4, <1>5, <1>6, <1>7, <1>8

-----------------------------------------------------------------------------
(* Reading a stream that holds a word and then another one.                *)

HoldsNext(all, p, x, y) ==
    /\ p + Len(x) <= Len(all) /\ SubSeq(all, p + 1, p + Len(x)) = x
    /\ SubSeq(all, 1, p + Len(x)) \o y = all

LEMMA ReadOn ==
    ASSUME NEW all \in Seq(Symbols), NEW p \in Nat, p <= Len(all),
           NEW x \in Seq(Symbols), NEW y \in Seq(Symbols), SubSeq(all, 1, p) \o (x \o y) = all
    PROVE  HoldsNext(all, p, x, y)
PROOF
<1>1. PICK L \in Nat, n \in Nat, m \in Nat : L = Len(all) /\ n = Len(x) /\ m = Len(y)
    OBVIOUS
<1>2. \A i \in 1..L : all[i] \in Symbols
    BY <1>1
<1>3. PICK s \in Seq(Symbols) : s = SubSeq(all, 1, p) /\ Len(s) = p /\ \A i \in 1..p : s[i] = all[i]
    <2>1. 1 \in Int /\ p \in Int /\ \A i \in 1..p : all[i] \in Symbols
        BY <1>1, <1>2
    <2>2. /\ SubSeq(all, 1, p) \in Seq(Symbols)
          /\ Len(SubSeq(all, 1, p)) = IF 1 <= p THEN p - 1 + 1 ELSE 0
          /\ \A i \in 1 .. p - 1 + 1 : SubSeq(all, 1, p)[i] = all[1 + i - 1]
        BY <2>1, SubSeqProperties
    <2>3. p - 1 + 1 = p /\ (IF 1 <= p THEN p - 1 + 1 ELSE 0) = p /\ \A i \in 1..p : 1 + i - 1 = i
        OBVIOUS
    <2> QED  BY <2>2, <2>3
<1>4. PICK xy \in Seq(Symbols) : /\ xy = x \o y /\ Len(xy) = n + m
                           /\ \A i \in 1 .. n + m : xy[i] = IF i <= n THEN x[i] ELSE y[i - n]
    <2>1. /\ x \o y \in Seq(Symbols) /\ Len(x \o y) = Len(x) + Len(y)
          /\ \A i \in 1 .. Len(x) + Len(y) : (x \o y)[i] = IF i <= Len(x) THEN x[i] ELSE y[i - Len(x)]
        BY ConcatProperties, Zenon
    <2> QED  BY <1>1, <2>1, Zenon
<1>5. /\ s \o xy = all /\ Len(s \o xy) = p + (n + m)
      /\ \A i \in 1 .. p + (n + m) : (s \o xy)[i] = IF i <= p THEN s[i] ELSE xy[i - p]
    <2>1. s \o xy = all
        BY <1>3, <1>4
    <2>2. /\ Len(s \o xy) = Len(s) + Len(xy)
          /\ \A i \in 1 .. Len(s) + Len(xy) : (s \o xy)[i] = IF i <= Len(s) THEN s[i] ELSE xy[i - Len(s)]
        BY ConcatProperties
    <2> QED  BY <1>3, <1>4, <2>1, <2>2
<1>6. L = p + n + m
    BY <1>1, <1>5
<1>7. ASSUME NEW i \in 1..n PROVE all[p + i] = x[i]
    <2>1. p + i \in 1 .. p + (n + m) /\ ~ (p + i <= p) /\ (p + i) - p = i /\ i \in 1 .. n + m /\ i <= n
        OBVIOUS
    <2>2. (s \o xy)[p + i] = xy[i]
        BY <1>5, <2>1
    <2> QED  BY <1>4, <1>5, <2>1, <2>2
<1> DEFINE t == SubSeq(all, p + 1, p + n)
<1>8. t \in Seq(Symbols) /\ Len(t) = n /\ \A i \in 1..n : t[i] = all[p + i]
    <2>1. p + 1 \in Int /\ p + n \in Int /\ \A i \in p + 1 .. p + n : all[i] \in Symbols
        BY <1>2, <1>6
    <2>2. /\ t \in Seq(Symbols) /\ Len(t) = IF p + 1 <= p + n THEN p + n - (p + 1) + 1 ELSE 0
          /\ \A i \in 1 .. p + n - (p + 1) + 1 : t[i] = all[p + 1 + i - 1]
        BY <2>1, SubSeqProperties
    <2>3. /\ p + n - (p + 1) + 1 = n /\ (IF p + 1 <= p + n THEN p + n - (p + 1) + 1 ELSE 0) = n
          /\ \A i \in 1..n : p + 1 + i - 1 = p + i
        OBVIOUS
    <2> HIDE DEF t
    <2> QED  BY <2>2, <2>3
<1>9. t = x
    <2> HIDE DEF t
    <2> QED  BY <1>1, <1>7, <1>8, SeqEqual
<1>10. SubSeq(all, 1, p + n) = s \o x
    <2>1. 1 \in 1 .. L + 1 /\ p \in 1 - 1 .. L /\ p + n \in p .. L
        BY <1>6
    <2>2. SubSeq(all, 1, p) \o SubSeq(all, p + 1, p + n) = SubSeq(all, 1, p + n)
        BY <1>1, <2>1, ConcatAdjacentSubSeq
    <2> QED  BY <1>3, <1>8, <1>9, <2>2
<1>11. (s \o x) \o y = s \o (x \o y)
    <2>1. Regroups(s, x, y)
        BY Regrouping
    <2> QED  BY <2>1 DEF Regroups
<1>12. SubSeq(all, 1, p + n) \o y = all
    BY <1>4, <1>5, <1>10, <1>11
<1>13. SubSeq(all, p + 1, p + n) = x /\ p + n <= L
    BY <1>6, <1>8, <1>9
<1> QED  BY <1>1, <1>12, <1>13 DEF HoldsNext

(* Two streams hold the same n bytes from a place on.                      *)
SameBytes(str, all, p, n) == SubSeq(str, p + 1, p + n) = SubSeq(all, p + 1, p + n)

LEMMA ReadPrefix ==
    ASSUME NEW all \in Seq(Symbols), NEW str \in Seq(Symbols), IsPrefix(str, all),
           NEW p \in Nat, NEW n \in Nat, p + n <= Len(str)
    PROVE  SameBytes(str, all, p, n)
PROOF
<1>1. PICK l \in Nat, L \in Nat : l = Len(str) /\ L = Len(all) /\ l <= L
    BY DEF IsPrefix
<1>2. SubSeq(str, 1, l) = SubSeq(all, 1, l) /\ SubSeq(str, 1, l) = str
    BY <1>1, SubSeqFull DEF IsPrefix
<1>3. \A i \in 1..l : str[i] \in Symbols /\ all[i] \in Symbols
    BY <1>1
<1>4. \A i \in 1..l : str[i] = all[i]
    <2>1. 1 \in Int /\ l \in Int
        OBVIOUS
    <2>2. \A i \in 1 .. l - 1 + 1 : SubSeq(all, 1, l)[i] = all[1 + i - 1]
        BY <1>3, <2>1, SubSeqProperties
    <2>3. l - 1 + 1 = l /\ \A i \in 1..l : 1 + i - 1 = i
        OBVIOUS
    <2> QED  BY <1>2, <2>2, <2>3
<1>5. p + 1 \in Int /\ p + n \in Int /\ \A i \in p + 1 .. p + n : i \in 1..l
    BY <1>1
<1>6. /\ SubSeq(str, p + 1, p + n) \in Seq(Symbols) /\ SubSeq(all, p + 1, p + n) \in Seq(Symbols)
      /\ Len(SubSeq(str, p + 1, p + n)) = Len(SubSeq(all, p + 1, p + n))
      /\ Len(SubSeq(str, p + 1, p + n)) = n
      /\ \A i \in 1 .. p + n - (p + 1) + 1 :
            /\ SubSeq(str, p + 1, p + n)[i] = str[p + 1 + i - 1]
            /\ SubSeq(all, p + 1, p + n)[i] = all[p + 1 + i - 1]
    <2>1. /\ \A i \in p + 1 .. p + n : str[i] \in Symbols
          /\ \A i \in p + 1 .. p + n : all[i] \in Symbols
        BY <1>3, <1>5
    <2>2. (IF p + 1 <= p + n THEN p + n - (p + 1) + 1 ELSE 0) = n
        OBVIOUS
    <2> QED  BY <1>5, <2>1, <2>2, SubSeqProperties
<1>7. \A i \in 1..n : SubSeq(str, p + 1, p + n)[i] = SubSeq(all, p + 1, p + n)[i]
    <2>1. /\ p + n - (p + 1) + 1 = n
          /\ \A i \in 1..n : p + 1 + i - 1 \in p + 1 .. p + n
        OBVIOUS
    <2> QED  BY <1>4, <1>5, <1>6, <2>1
<1> QED  BY <1>6, <1>7, SeqEqual DEF SameBytes

(* The block at a place of the source.                                     *)
BlockAt(b, e, data) ==
    /\ b \in Nat /\ e \in Nat /\ e \in b+1 .. Len(source) /\ e \in BlockEnds
    /\ data \in Seq(Symbols) /\ data # <<>> /\ Len(data) = e - b
    /\ \A k \in 1 .. e - b : data[k] = source[b + k]
    /\ Rest(b) = Block(data) \o Rest(e) /\ Rest(e) \in Seq(Symbols)
    /\ Shifted(Len(data), HUF_ASCII_COUNT, SizeWidth) = 0
    /\ Symbols \subseteq BytesOf(data) => FullBlock

LEMMA PlaceOfBlock ==
    ASSUME EncInv, DataInv, source \in Inputs, NEW b \in BlockEnds, b < Len(source)
    PROVE  BlockAt(b, BlockEnd(source, ChunkLength, b),
                   SubSeq(source, b + 1, BlockEnd(source, ChunkLength, b)))
PROOF
<1>0. PICK e, data : e = BlockEnd(source, ChunkLength, b) /\ data = SubSeq(source, b + 1, e)
    OBVIOUS
<1>1. PICK L \in Nat : source \in Seq(Symbols) /\ L = Len(source)
    BY DEF EncInv, EncTypes
<1>2. b \in Nat /\ b < L
    BY <1>1 DEF BlockEnds
<1>3. PICK c \in Nat \ {0} : c = ChunkLength
    BY <1>1, <1>2, RestIs
<1>4. /\ e \in b+1 .. L /\ data \in Seq(Symbols) /\ data # <<>>
    BY <1>0, <1>1, <1>2, <1>3, BlockEndIs
<1>5. e \in Nat /\ b + 1 \in Int /\ b + 1 <= e
    BY <1>2, <1>4
<1>6. Len(data) = e - b /\ \A k \in 1 .. e - b : data[k] = source[b + k]
    <2>1. \A i \in b+1 .. e : source[i] \in Symbols
        BY <1>1, <1>2, <1>4
    <2>2. /\ Len(data) = IF b + 1 <= e THEN e - (b + 1) + 1 ELSE 0
          /\ \A i \in 1 .. e - (b + 1) + 1 : data[i] = source[b + 1 + i - 1]
        BY <1>0, <1>5, <2>1, SubSeqProperties
    <2>3. /\ e - (b + 1) + 1 = e - b /\ (IF b + 1 <= e THEN e - (b + 1) + 1 ELSE 0) = e - b
          /\ \A i \in 1 .. e - b : b + 1 + i - 1 = b + i
        BY <1>2, <1>5
    <2> QED  BY <2>2, <2>3
<1>7. Rest(b) = Block(data) \o Rest(e) /\ Rest(e) \in Seq(Symbols)
    BY <1>0, <1>1, <1>2, <1>5, RestIs
<1>8. e = L \/ e = b + c
    BY <1>0, <1>1, <1>3 DEF BlockEnd
<1>9. e - b <= c
    BY <1>0, <1>1, <1>2, <1>3 DEF BlockEnd
<1>10. e \in BlockEnds
    <2>1. CASE e = L
        BY <1>1, <1>4, <1>5, <2>1 DEF BlockEnds
    <2>2. CASE e = b + c
        <3>1. b % c = 0
            BY <1>1, <1>2, <1>3 DEF BlockEnds
        <3>2. PICK q \in Nat : b = c * q
            <4>1. b \div c \in Nat /\ b = c * (b \div c) + (b % c)
                BY <1>2, Division
            <4>2. PICK q \in Nat : q = b \div c
                BY <4>1
            <4>3. b = c * q
                BY <1>2, <3>1, <4>1, <4>2
            <4> QED  BY <4>3
        <3>3. q + 1 \in Nat /\ 0 \in 0 .. c-1 /\ c * (q + 1) + 0 = e
            BY <2>2, <3>2
        <3>4. e % c = 0
            <4>1. (c * (q + 1) + 0) % c = 0
                BY <3>3, DivisionIs
            <4> QED  BY <3>3, <4>1
        <3> QED  BY <1>1, <1>3, <1>4, <1>5, <3>4 DEF BlockEnds
    <2> QED  BY <1>8, <2>1, <2>2
<1>11. Shifted(Len(data), HUF_ASCII_COUNT, SizeWidth) = 0
    <2>1. PICK l \in Nat : l = Len(data) /\ l <= L
        BY <1>1, <1>2, <1>4, <1>6
    <2>2. HUF_ASCII_COUNT \in Nat \ {0} /\ SizeWidth \in Nat
        BY SymbolFacts, WidthAssumption
    <2>3. PICK u \in Nat, v \in Nat : /\ u = Shifted(l, HUF_ASCII_COUNT, SizeWidth)
                                      /\ v = Shifted(L, HUF_ASCII_COUNT, SizeWidth) /\ u <= v
        <3>1. L \in Nat /\ l \in Nat /\ l <= L
            BY <2>1
        <3>2. PICK w \in Nat, a \in Nat \ {0} : w = SizeWidth /\ a = HUF_ASCII_COUNT
            BY <2>2
        <3>3. Shifted(l, a, w) \in Nat /\ Shifted(L, a, w) \in Nat /\ Shifted(l, a, w) <= Shifted(L, a, w)
            BY <3>1, ShiftedOrder
        <3> QED  BY <3>2, <3>3
    <2>4. v = 0
        BY <1>1, <2>3, RangeAssumption
    <2>5. u = 0
        BY <2>3, <2>4
    <2> QED  BY <2>1, <2>3, <2>5
<1>12. ASSUME Symbols \subseteq BytesOf(data) PROVE FullBlock
    <2>1. BytesOf(data) \subseteq {source[i] : i \in b+1 .. e}
        <3>1. ASSUME NEW k \in 1 .. e - b PROVE data[k] \in {source[i] : i \in b+1 .. e}
            <4>1. b + k \in b+1 .. e
                BY <1>2, <1>5
            <4> QED  BY <1>6, <4>1
        <3> QED  BY <1>6, <3>1 DEF BytesOf
    <2>2. b \in BlockStarts
        BY <1>1, <1>2 DEF BlockStarts
    <2>3. b < e /\ e - b <= ChunkLength
        BY <1>2, <1>3, <1>5, <1>9
    <2> QED  BY <1>10, <1>12, <2>1, <2>2, <2>3, Zenon DEF FullBlock
<1>13. BlockAt(b, e, data)
    BY <1>1, <1>2, <1>4, <1>5, <1>6, <1>7, <1>10, <1>11, <1>12 DEF BlockAt
<1> QED  BY <1>0, <1>13

-----------------------------------------------------------------------------
(* The data behind the decoder.                                            *)

(* The block that the decoder is at.                                       *)
Start == IF dpc \in {"byte", "bit"} THEN Len(decoded) - restored ELSE Len(decoded)
End   == BlockEnd(source, ChunkLength, Start)
Data  == SubSeq(source, Start + 1, End)
Tree  == BlockTree(Data)
Heading  == Serialize(Tree)
Body  == Packed(BitsAfter(Tree, Data, 0)) \o Rest(End)
Spell(k) == NodeToString(Tree, Data[k])

(* What has been read, and then this, is the encoding.                     *)
Onward(word) == SubSeq(Encoding, 1, processed) \o word = Encoding

(* The bits of the block that are still to be decoded, the last i bits of  *)
(* a code word first.                                                      *)
Due(i) == IF restored < chunk
          THEN Reverse(SubSeq(Spell(restored + 1), 1, i)) \o BitsAfter(Tree, Data, restored + 1)
          ELSE <<>>

(* The decoder is on the way down to the next byte.                        *)
Midway(i, way) ==
    /\ chunk = Len(Data) /\ shape = Deserialize(Heading)
    /\ restored < chunk =>
          /\ Chain(Tree, Data[restored + 1], way)
          /\ i \in 1 .. Len(Spell(restored + 1)) /\ Stands(Tree, last, way[i + 1])

(* The bits left in the byte that is decoded begin with these.             *)
Held(front) ==
    /\ Len(front) <= offset
    /\ \A k \in 1 .. Len(front) : Shifted(byte, 2, offset - k) % 2 = front[k]

(* The bits of the byte, and those that are still in the stream.           *)
Split(i, front, back) ==
    /\ front \in Seq({0, 1}) /\ back \in Seq({0, 1})
    /\ Due(i) = front \o back /\ Held(front)
    /\ Len(front) < offset => back = <<>>
    /\ Onward(Packed(back) \o Rest(End))

Working == {"loop", "size", "treelength", "tree", "byte", "bit"}

(* What is decoded is the data so far, and what is still to be read is the *)
(* rest of its encoding.                                                   *)
Reading ==
    /\ dpc \in Working \cup {"returned"}
    /\ Len(decoded) <= Len(source) /\ decoded = SubSeq(source, 1, Len(decoded))
    /\ dpc \in Working => Start \in BlockEnds
    /\ dpc \in Working \ {"loop"} => Start < Len(source)
    /\ dpc \in {"loop", "size"} => Onward(Rest(Start))
    /\ dpc \in {"treelength", "tree"} => chunk = Len(Data)
    /\ dpc = "treelength" => Onward(Digits(Len(Heading), IntWidth) \o (TreeBytes(Heading) \o Body))
    /\ dpc = "tree" => treelen = Len(Heading) /\ Onward(TreeBytes(Heading) \o Body)
    /\ dpc = "byte" => \E i, way : Midway(i, way) /\ Onward(Packed(Due(i)) \o Rest(End))
    /\ dpc = "bit" => \E i, way, front, back : Midway(i, way) /\ Split(i, front, back)

(* How a call may end.                                                     *)
Ended ==
    /\ dresult \in {"ok", "memory", "sink", "short", "source", "overflow"}
    /\ dresult = "ok" => /\ output = decoded /\ Len(decoded) \in BlockEnds
                         /\ eresult = "ok" => Len(decoded) = Len(source)
    /\ dresult = "source" => eresult # "ok"
    /\ dresult = "overflow" => FullBlock

(* The decoder on a stream that is a whole encoding or the beginning of    *)
(* one.                                                                    *)
Faithful ==
    /\ IsPrefix(stream, Encoding) /\ (eresult = "ok" => stream = Encoding)
    /\ Reading
    /\ dpc = "returned" => Ended

(* The decoder is called when the encoder has returned.                    *)
InTurn ==
    /\ source \in Inputs
    /\ dpc = "idle" => decoded = <<>>
    /\ dpc # "idle" => epc = "returned"
    /\ dpc # "returned" => dresult = "none"

ReadInv == InTurn /\ (dpc # "idle" /\ ~damaged => Faithful)

(* What the steps of the decoder start from.                               *)
Live == EncInv /\ DecInv /\ DataInv /\ source \in Inputs /\ Faithful

LEMMA LiveFacts ==
    ASSUME Live
    PROVE  /\ source \in Seq(Symbols) /\ Len(source) \in Nat
           /\ stream \in Seq(Symbols) /\ processed \in Nat /\ processed <= Len(stream)
           /\ decoded \in Seq(Symbols) /\ Len(decoded) \in Nat
           /\ restored \in Nat /\ chunk \in Nat /\ offset \in Nat /\ byte \in Nat
           /\ Encoding \in Seq(Symbols) /\ IsPrefix(stream, Encoding) /\ Len(stream) <= Len(Encoding)
           /\ eresult = "ok" => stream = Encoding
PROOF
<1>1. EncInv /\ DataInv /\ DecTypes /\ IsPrefix(stream, Encoding) /\ (eresult = "ok" => stream = Encoding)
    BY DEF Live, DecInv, Faithful
<1>2. source \in Seq(Symbols)
    BY <1>1 DEF EncInv, EncTypes
<1>3. /\ stream \in Seq(Symbols) /\ processed \in 0 .. Len(stream) /\ decoded \in Seq(Symbols)
      /\ restored \in Nat /\ chunk \in Nat /\ offset \in 0..ByteBits /\ byte \in Symbols
    BY <1>1 DEF DecTypes
<1>4. processed \in Nat /\ processed <= Len(stream) /\ offset \in Nat /\ byte \in Nat
    BY <1>3, SymbolFacts, WidthAssumption
<1>5. Encoding \in Seq(Symbols)
    <2>1. 0 \in Nat
        OBVIOUS
    <2> QED  BY <1>1, <2>1, RestIs
<1>6. Len(stream) <= Len(Encoding)
    BY <1>1 DEF IsPrefix
<1> QED  BY <1>1, <1>2, <1>3, <1>4, <1>5, <1>6

(* The bytes of the next word in the stream are read as that word, and     *)
(* they are there unless the stream was cut short.                         *)
LEMMA Taken ==
    ASSUME Live, NEW x \in Seq(Symbols), NEW y \in Seq(Symbols), Onward(x \o y),
           NEW n, n = Len(x)
    PROVE  /\ Got(n) => Bytes(n) = x /\ SubSeq(Encoding, 1, processed + n) \o y = Encoding
           /\ eresult = "ok" => Got(n)
PROOF
<1>1. PICK all \in Seq(Symbols), str \in Seq(Symbols), p \in Nat :
         /\ all = Encoding /\ str = stream /\ p = processed /\ p <= Len(all)
         /\ IsPrefix(str, all) /\ (eresult = "ok" => str = all)
    <2>1. processed <= Len(Encoding)
        BY LiveFacts
    <2> QED  BY <2>1, LiveFacts
<1>2. SubSeq(all, 1, p) \o (x \o y) = all /\ n \in Nat
    BY <1>1 DEF Onward
<1>3. /\ p + n <= Len(all) /\ SubSeq(all, p + 1, p + n) = x
      /\ SubSeq(all, 1, p + n) \o y = all
    <2>1. p <= Len(all) /\ SubSeq(all, 1, p) \o (x \o y) = all
        BY <1>1, <1>2
    <2>2. HoldsNext(all, p, x, y)
        BY <2>1, ReadOn
    <2> QED  BY <2>2 DEF HoldsNext
<1>4. ASSUME p + n <= Len(str) PROVE SubSeq(str, p + 1, p + n) = SubSeq(all, p + 1, p + n)
    <2>1. IsPrefix(str, all) /\ n \in Nat /\ p + n <= Len(str)
        BY <1>1, <1>2, <1>4
    <2>2. n \in Nat
        BY <2>1
    <2>3. SameBytes(str, all, p, n)
        BY <2>1, <2>2, ReadPrefix
    <2> QED  BY <2>3 DEF SameBytes
<1> QED  BY <1>1, <1>3, <1>4 DEF Got, Bytes

(* A step does not move the block that the decoder is at.                  *)
LEMMA SameSpan ==
    ASSUME UNCHANGED encVars
    PROVE  /\ source' = source /\ ChunkLength' = ChunkLength /\ Encoding' = Encoding
           /\ BlockEnds' = BlockEnds /\ (FullBlock' <=> FullBlock) /\ eresult' = eresult
           /\ Start' = Start => /\ End' = End /\ Data' = Data /\ Tree' = Tree
                                /\ Heading' = Heading /\ Body' = Body
                                /\ Rest(End)' = Rest(End) /\ Rest(Start)' = Rest(Start)
PROOF
<1>1. source' = source /\ ChunkLength' = ChunkLength /\ eresult' = eresult
    BY DEF encVars, ChunkLength
<1>2. Encoding' = Encoding /\ BlockEnds' = BlockEnds
    BY <1>1 DEF Encoding, BlockEnds
<1>3. FullBlock' <=> FullBlock
    BY <1>1, <1>2 DEF FullBlock, BlockStarts
<1>4. ASSUME Start' = Start
      PROVE  /\ End' = End /\ Data' = Data /\ Tree' = Tree
             /\ Heading' = Heading /\ Body' = Body
             /\ Rest(End)' = Rest(End) /\ Rest(Start)' = Rest(Start)
    <2>1. End' = End
        BY <1>1, <1>4 DEF End
    <2>2. Data' = Data
        BY <1>1, <1>4, <2>1 DEF Data
    <2>3. Tree' = Tree
        BY <2>2 DEF Tree
    <2>4. Heading' = Heading
        BY <2>3 DEF Heading
    <2>5. Rest(End)' = Rest(End) /\ Rest(Start)' = Rest(Start)
        BY <1>1, <1>4, <2>1 DEF Rest
    <2>6. Body' = Body
        BY <2>2, <2>3, <2>5 DEF Body
    <2> QED  BY <2>1, <2>2, <2>3, <2>4, <2>5, <2>6
<1> QED  BY <1>1, <1>2, <1>3, <1>4

(* The block that the decoder is at.                                       *)
LEMMA AtBlock ==
    ASSUME Live, Start \in BlockEnds, Start < Len(source)
    PROVE  /\ Start \in Nat /\ End \in Nat /\ End \in Start+1 .. Len(source) /\ End \in BlockEnds
           /\ Data \in Seq(Symbols) /\ Data # <<>> /\ Len(Data) = End - Start /\ Len(Data) \in Nat \ {0}
           /\ \A k \in 1 .. Len(Data) : Data[k] = source[Start + k]
           /\ Rooted(Tree, BytesOf(Data))
           /\ Rest(End) \in Seq(Symbols) /\ Body \in Seq(Symbols)
           /\ Shifted(Len(Data), HUF_ASCII_COUNT, SizeWidth) = 0
           /\ Symbols \subseteq BytesOf(Data) => FullBlock
PROOF
<1>1. EncInv /\ DataInv /\ source \in Inputs
    BY DEF Live
<1>2. PICK b \in BlockEnds : b = Start /\ b < Len(source)
    OBVIOUS
<1>3. PICK e, d : /\ e = BlockEnd(source, ChunkLength, b) /\ d = SubSeq(source, b + 1, e)
                  /\ e = End /\ d = Data
    BY <1>2 DEF End, Data
<1>4. /\ b \in Nat /\ e \in Nat /\ e \in b+1 .. Len(source) /\ e \in BlockEnds
      /\ d \in Seq(Symbols) /\ d # <<>> /\ Len(d) = e - b
      /\ \A k \in 1 .. e - b : d[k] = source[b + k]
      /\ Rest(e) \in Seq(Symbols)
      /\ Shifted(Len(d), HUF_ASCII_COUNT, SizeWidth) = 0
      /\ Symbols \subseteq BytesOf(d) => FullBlock
    <2>1. BlockAt(b, e, d)
        BY <1>1, <1>2, <1>3, PlaceOfBlock
    <2> QED  BY <2>1 DEF BlockAt
<1>5. PICK t : t = BlockTree(d) /\ t = Tree
    BY <1>3 DEF Tree
<1>6. Rooted(t, BytesOf(d)) /\ Packed(BitsAfter(t, d, 0)) \in Seq(Symbols)
    BY <1>4, <1>5, BlockParts
<1>7. Body \in Seq(Symbols)
    <2>1. PICK x \in Seq(Symbols), y \in Seq(Symbols) : x = Packed(BitsAfter(t, d, 0)) /\ y = Rest(e)
        BY <1>4, <1>6, Zenon
    <2>2. x \o y \in Seq(Symbols)
        BY ConcatProperties
    <2> QED  BY <1>3, <1>5, <2>1, <2>2 DEF Body
<1>8. Len(d) \in Nat \ {0}
    BY <1>4, EmptySeq
<1> QED  BY <1>2, <1>3, <1>4, <1>5, <1>6, <1>7, <1>8

(* The header of the block, and what follows it.                           *)
LEMMA AtHeader ==
    ASSUME Live, Start \in BlockEnds, Start < Len(source)
    PROVE  /\ Digits(Len(Data), SizeWidth) \in Seq(Symbols)
           /\ Len(Digits(Len(Data), SizeWidth)) = SizeWidth
           /\ Unsigned(Digits(Len(Data), SizeWidth)) = Len(Data)
           /\ Digits(Len(Heading), IntWidth) \in Seq(Symbols)
           /\ Len(Digits(Len(Heading), IntWidth)) = IntWidth
           /\ Signed(Digits(Len(Heading), IntWidth)) = Len(Heading)
           /\ Heading \in Seq(Int) /\ Len(Heading) \in Nat
           /\ ~FullBlock => Len(Heading) <= HUF_BTREE_LEN
           /\ TreeBytes(Heading) \in Seq(Symbols)
           /\ Len(TreeBytes(Heading)) = Len(Heading) * IntWidth
           /\ Elements(TreeBytes(Heading)) = Heading
           /\ TreeBytes(Heading) \o Body \in Seq(Symbols)
           /\ Digits(Len(Heading), IntWidth) \o (TreeBytes(Heading) \o Body) \in Seq(Symbols)
PROOF
<1>1. PICK d, t, h :
         d \in Seq(Symbols) /\ d = Data /\ t = Tree /\ h = Serialize(t) /\ h = Heading
    BY AtBlock DEF Heading
<1>2. /\ Rooted(t, BytesOf(d)) /\ Len(d) \in Nat /\ Shifted(Len(d), HUF_ASCII_COUNT, SizeWidth) = 0
      /\ Symbols \subseteq BytesOf(d) => FullBlock
    BY <1>1, AtBlock
<1>3. /\ Digits(Len(d), SizeWidth) \in Seq(Symbols) /\ Len(Digits(Len(d), SizeWidth)) = SizeWidth
      /\ Unsigned(Digits(Len(d), SizeWidth)) = Len(d)
    BY <1>2, SizeIsRead
<1>4. /\ h \in Seq(Int) /\ Len(h) \in 1 .. HUF_BTREE_LEN + 1
      /\ BytesOf(d) # Symbols => Len(h) <= HUF_BTREE_LEN
      /\ TreeBytes(h) \in Seq(Symbols) /\ Len(TreeBytes(h)) = Len(h) * IntWidth
      /\ Elements(TreeBytes(h)) = h
    BY <1>1, <1>2, HeadIsRead
<1>5. Len(h) \in Nat /\ Len(h) <= HUF_BTREE_LEN + 1
    BY <1>4
<1>6. /\ Digits(Len(h), IntWidth) \in Seq(Symbols) /\ Len(Digits(Len(h), IntWidth)) = IntWidth
      /\ Signed(Digits(Len(h), IntWidth)) = Len(h)
    BY <1>5, LengthIsRead
<1>7. PICK x \in Seq(Symbols), y \in Seq(Symbols), z \in Seq(Symbols) :
         x = Digits(Len(h), IntWidth) /\ y = TreeBytes(h) /\ z = Body
    BY <1>4, <1>6, AtBlock, Zenon
<1>8. y \o z \in Seq(Symbols) /\ x \o (y \o z) \in Seq(Symbols)
    BY ConcatProperties
<1> QED  BY <1>1, <1>2, <1>3, <1>4, <1>5, <1>6, <1>7, <1>8

LEMMA AtSize ==
    ASSUME Live, Start \in BlockEnds, Start < Len(source)
    PROVE  Rest(Start) = Digits(Len(Data), SizeWidth)
                         \o (Digits(Len(Heading), IntWidth) \o (TreeBytes(Heading) \o Body))
PROOF
<1>1. EncInv /\ DataInv /\ source \in Inputs
    BY DEF Live
<1>2. PICK b \in BlockEnds : b = Start /\ b < Len(source)
    OBVIOUS
<1>3. PICK e, d : /\ e = BlockEnd(source, ChunkLength, b) /\ d = SubSeq(source, b + 1, e)
                  /\ e = End /\ d = Data
    BY <1>2 DEF End, Data
<1>4. d \in Seq(Symbols) /\ d # <<>> /\ Rest(b) = Block(d) \o Rest(e)
    <2>1. BlockAt(b, e, d)
        BY <1>1, <1>2, <1>3, PlaceOfBlock
    <2> QED  BY <2>1 DEF BlockAt
<1>5. PICK t, h : t = BlockTree(d) /\ t = Tree /\ h = Serialize(t) /\ h = Heading
    BY <1>3 DEF Tree, Heading
<1>6. PICK x \in Seq(Symbols), y \in Seq(Symbols), z \in Seq(Symbols), u \in Seq(Symbols), v \in Seq(Symbols) :
         /\ x = Digits(Len(d), SizeWidth) /\ y = Digits(Len(h), IntWidth)
         /\ z = TreeBytes(h) /\ u = Packed(BitsAfter(t, d, 0)) /\ v = Rest(e)
    <2>1. Packed(BitsAfter(t, d, 0)) \in Seq(Symbols)
        BY <1>4, <1>5, BlockParts
    <2>2. /\ Digits(Len(d), SizeWidth) \in Seq(Symbols) /\ Digits(Len(h), IntWidth) \in Seq(Symbols)
          /\ TreeBytes(h) \in Seq(Symbols)
        BY <1>3, <1>5, AtHeader
    <2>3. Rest(e) \in Seq(Symbols)
        BY <1>3, AtBlock
    <2> QED  BY <2>1, <2>2, <2>3, Zenon
<1>7. Block(d) = x \o (y \o (z \o u))
    <2>1. d \in Seq(Symbols) /\ d # <<>>
        BY <1>4
    <2>2. Block(d) = Digits(Len(d), SizeWidth)
                     \o (Digits(Len(Serialize(BlockTree(d))), IntWidth)
                         \o (TreeBytes(Serialize(BlockTree(d))) \o Packed(BitsAfter(BlockTree(d), d, 0))))
        BY <2>1, BlockParts, Zenon
    <2> QED  BY <1>5, <1>6, <2>2
<1>8. PICK zu \in Seq(Symbols), yzu \in Seq(Symbols) : zu = z \o u /\ yzu = y \o zu
    <2>1. z \o u \in Seq(Symbols) /\ y \o (z \o u) \in Seq(Symbols)
        BY ConcatProperties
    <2> QED  BY <2>1
<1>9. (x \o yzu) \o v = x \o (yzu \o v)
    <2>1. Regroups(x, yzu, v)
        BY Regrouping
    <2> QED  BY <2>1 DEF Regroups
<1>10. (y \o zu) \o v = y \o (zu \o v)
    <2>1. Regroups(y, zu, v)
        BY Regrouping
    <2> QED  BY <2>1 DEF Regroups
<1>11. (z \o u) \o v = z \o (u \o v)
    <2>1. Regroups(z, u, v)
        BY Regrouping
    <2> QED  BY <2>1 DEF Regroups
<1>12. Body = u \o v
    BY <1>3, <1>5, <1>6 DEF Body
<1>13. Rest(b) = x \o (y \o (z \o (u \o v)))
    BY <1>4, <1>6, <1>7, <1>8, <1>9, <1>10, <1>11
<1> QED  BY <1>2, <1>3, <1>5, <1>6, <1>12, <1>13

-----------------------------------------------------------------------------
(* The steps of the decoder, on what the encoder wrote.                    *)

(* The steps leave the stream alone.                                       *)
LEMMA SameStream ==
    ASSUME Live, UNCHANGED encVars, stream' = stream, Reading',
           dpc' = "returned" => Ended'
    PROVE  Faithful'
PROOF
<1>1. IsPrefix(stream, Encoding) /\ (eresult = "ok" => stream = Encoding)
    BY DEF Live, Faithful
<1>2. Encoding' = Encoding /\ eresult' = eresult
    BY SameSpan
<1> QED  BY <1>1, <1>2 DEF Faithful

LEMMA ReturnReads ==
    ASSUME Live, UNCHANGED encVars, NEW result, NEW held, DReturn(result, held),
           result \in {"ok", "memory", "sink", "short", "source", "overflow"},
           result = "ok" => /\ held = decoded /\ Len(decoded) \in BlockEnds
                            /\ eresult = "ok" => Len(decoded) = Len(source),
           result = "source" => eresult # "ok", result = "overflow" => FullBlock
    PROVE  Faithful'
PROOF
<1>1. /\ dpc' = "returned" /\ dresult' = result /\ output' = held
      /\ stream' = stream /\ decoded' = decoded
    BY DEF DReturn
<1>2. /\ source' = source /\ BlockEnds' = BlockEnds
      /\ (FullBlock' <=> FullBlock) /\ eresult' = eresult
    BY SameSpan
<1>3. Len(decoded) <= Len(source) /\ decoded = SubSeq(source, 1, Len(decoded))
    BY DEF Live, Faithful, Reading
<1>4. Reading'
    BY <1>1, <1>2, <1>3 DEF Reading, Working
<1>5. Ended'
    BY <1>1, <1>2 DEF Ended
<1> QED  BY <1>1, <1>4, <1>5, SameStream

LEMMA FailReads ==
    ASSUME Live, UNCHANGED encVars, NEW result, NEW data, DReturnError(result, data),
           result \in {"memory", "sink", "short", "source", "overflow"},
           result = "source" => eresult # "ok", result = "overflow" => FullBlock
    PROVE  Faithful'
PROOF
<1>1. PICK held : DReturn(result, held)
    BY DEF DReturnError
<1> QED  BY <1>1, ReturnReads

(* The source has too little only if the stream was cut.                   *)
LEMMA ShortReads ==
    ASSUME Live, UNCHANGED encVars, NEW n, Short(n), eresult = "ok" => Got(n)
    PROVE  Faithful'
PROOF
<1>1. CASE ~Got(n) /\ DReturnError("source", decoded)
    BY <1>1, FailReads
<1>2. CASE DReturnError("short", decoded)
    BY <1>2, FailReads
<1> QED  BY <1>1, <1>2 DEF Short

(* Between two blocks.                                                     *)
LEMMA AtLoop ==
    ASSUME Live, dpc \in {"loop", "size"}
    PROVE  /\ Start = Len(decoded) /\ Start \in BlockEnds /\ Start \in Nat /\ Start <= Len(source)
           /\ Rest(Start) \in Seq(Symbols) /\ Onward(Rest(Start))
           /\ Start >= Len(source) => Rest(Start) = <<>>
           /\ Start < Len(source) => Len(Rest(Start)) > 0
PROOF
<1>1. Reading /\ EncInv /\ DataInv
    BY DEF Live, Faithful
<1>2. /\ Start = Len(decoded) /\ Start \in BlockEnds /\ Start <= Len(source)
      /\ Onward(Rest(Start))
    BY <1>1 DEF Reading, Start, Working
<1>3. Start \in Nat
    BY <1>2, LiveFacts
<1>4. Rest(Start) \in Seq(Symbols) /\ (Start >= Len(source) => Rest(Start) = <<>>)
    BY <1>1, <1>3, RestIs
<1>5. ASSUME Start < Len(source) PROVE Len(Rest(Start)) > 0
    <2>1. PICK x \in Seq(Symbols), y \in Seq(Symbols) :
             /\ x = Digits(Len(Data), SizeWidth)
             /\ y = Digits(Len(Heading), IntWidth) \o (TreeBytes(Heading) \o Body)
        BY <1>2, <1>5, AtHeader, Zenon
    <2>2. Rest(Start) = x \o y
        BY <1>2, <1>5, <2>1, AtSize
    <2>3. Len(x) = SizeWidth
        BY <1>2, <1>5, <2>1, AtHeader
    <2>4. Len(x \o y) = Len(x) + Len(y) /\ Len(y) \in Nat
        BY ConcatProperties
    <2>5. Len(x) \in Nat \ {0}
        BY <2>3, WidthAssumption
    <2> QED  BY <2>2, <2>4, <2>5
<1> QED  BY <1>2, <1>3, <1>4, <1>5

(* What has been read and what comes next are the encoding.                *)
LEMMA OnwardLength ==
    ASSUME Live, NEW y \in Seq(Symbols), Onward(y)
    PROVE  processed + Len(y) = Len(Encoding)
PROOF
<1>1. PICK all \in Seq(Symbols), p \in Nat, L \in Nat :
         all = Encoding /\ p = processed /\ L = Len(all) /\ p <= L
    <2>1. processed <= Len(Encoding)
        BY LiveFacts
    <2> QED  BY <2>1, LiveFacts
<1>2. \A i \in 1..p : all[i] \in Symbols
    BY <1>1
<1>3. PICK s \in Seq(Symbols) : s = SubSeq(all, 1, p) /\ Len(s) = p
    <2>1. 1 \in Int /\ p \in Int
        OBVIOUS
    <2>2. /\ SubSeq(all, 1, p) \in Seq(Symbols)
          /\ Len(SubSeq(all, 1, p)) = IF 1 <= p THEN p - 1 + 1 ELSE 0
        BY <1>2, <2>1, SubSeqProperties
    <2>3. (IF 1 <= p THEN p - 1 + 1 ELSE 0) = p
        OBVIOUS
    <2> QED  BY <2>2, <2>3
<1>4. s \o y = all
    BY <1>1, <1>3 DEF Onward
<1>5. Len(s \o y) = Len(s) + Len(y)
    BY ConcatProperties
<1> QED  BY <1>1, <1>3, <1>4, <1>5

LEMMA NextBlockReads ==
    ASSUME Live, NextBlock, UNCHANGED encVars
    PROVE  Faithful'
PROOF
<1>1. /\ dpc = "loop" /\ processed < Len(stream) /\ dpc' = "size"
      /\ UNCHANGED <<stream, processed, decoded, restored>>
    BY DEF NextBlock
<1>2. /\ Start = Len(decoded) /\ Start \in BlockEnds /\ Start \in Nat /\ Start <= Len(source)
      /\ Rest(Start) \in Seq(Symbols) /\ Onward(Rest(Start))
      /\ Start >= Len(source) => Rest(Start) = <<>>
    BY <1>1, AtLoop
<1>3. Start < Len(source)
    <2>1. PICK r \in Seq(Symbols) : r = Rest(Start)
        BY <1>2
    <2>2. processed + Len(r) = Len(Encoding)
        BY <1>2, <2>1, OnwardLength
    <2>3. processed \in Nat /\ Len(stream) \in Nat /\ Len(stream) <= Len(Encoding) /\ Len(source) \in Nat
        BY LiveFacts
    <2>4. r = <<>> => Len(r) = 0
        OBVIOUS
    <2> QED  BY <1>1, <1>2, <2>1, <2>2, <2>3, <2>4
<1>4. Start' = Start
    BY <1>1 DEF Start
<1>5. source' = source /\ BlockEnds' = BlockEnds /\ Encoding' = Encoding /\ Rest(Start)' = Rest(Start)
    BY <1>4, SameSpan
<1>6. Onward(Rest(Start))'
    BY <1>1, <1>2, <1>5 DEF Onward
<1>7. Len(decoded) <= Len(source) /\ decoded = SubSeq(source, 1, Len(decoded))
    BY DEF Live, Faithful, Reading
<1>8. Reading'
    BY <1>1, <1>2, <1>3, <1>4, <1>5, <1>6, <1>7 DEF Reading, Working
<1> QED  BY <1>1, <1>8, SameStream

LEMMA FlushDecodedReads ==
    ASSUME Live, FlushDecoded, UNCHANGED encVars
    PROVE  Faithful'
PROOF
<1>1. dpc = "loop" /\ processed >= Len(stream)
    BY DEF FlushDecoded
<1>2. CASE DReturn("ok", decoded)
    <2>1. /\ Start = Len(decoded) /\ Start \in BlockEnds /\ Start \in Nat /\ Start <= Len(source)
          /\ Rest(Start) \in Seq(Symbols) /\ Onward(Rest(Start))
          /\ Start < Len(source) => Len(Rest(Start)) > 0
        BY <1>1, AtLoop
    <2>2. ASSUME eresult = "ok" PROVE Len(decoded) = Len(source)
        <3>1. PICK r \in Seq(Symbols) : r = Rest(Start)
            BY <2>1
        <3>2. processed + Len(r) = Len(Encoding) /\ Len(r) \in Nat
            BY <2>1, <3>1, OnwardLength
        <3>3. processed \in Nat /\ stream = Encoding /\ Len(stream) \in Nat /\ Len(source) \in Nat
            BY <2>2, LiveFacts
        <3> QED  BY <1>1, <2>1, <3>1, <3>2, <3>3
    <2> QED  BY <1>2, <2>1, <2>2, ReturnReads
<1>3. CASE DReturnError("sink", decoded)
    BY <1>3, FailReads
<1> QED  BY <1>2, <1>3 DEF FlushDecoded

LEMMA ReadSizeReads ==
    ASSUME Live, ReadSize, UNCHANGED encVars
    PROVE  Faithful'
PROOF
<1>1. dpc = "size"
    BY DEF ReadSize
<1>2. /\ Start = Len(decoded) /\ Start \in BlockEnds /\ Start < Len(source)
      /\ Onward(Rest(Start))
    <2>1. Start < Len(source)
        BY <1>1 DEF Live, Faithful, Reading, Working
    <2> QED  BY <1>1, <2>1, AtLoop
<1>3. PICK x \in Seq(Symbols), y \in Seq(Symbols) :
         /\ x = Digits(Len(Data), SizeWidth)
         /\ y = Digits(Len(Heading), IntWidth) \o (TreeBytes(Heading) \o Body)
    BY <1>2, AtHeader, Zenon
<1>4. Onward(x \o y) /\ SizeWidth = Len(x) /\ Unsigned(x) = Len(Data)
    BY <1>2, <1>3, AtSize, AtHeader
<1>5. /\ Got(SizeWidth) => Bytes(SizeWidth) = x /\ SubSeq(Encoding, 1, processed + SizeWidth) \o y = Encoding
      /\ eresult = "ok" => Got(SizeWidth)
    BY <1>4, Taken
<1>6. CASE Short(SizeWidth)
    BY <1>5, <1>6, ShortReads
<1>7. CASE ~Short(SizeWidth)
    <2>1. /\ Got(SizeWidth) /\ chunk' = Unsigned(Bytes(SizeWidth)) /\ processed' = processed + SizeWidth
          /\ dpc' = "treelength"
          /\ UNCHANGED <<stream, decoded, restored>>
        BY <1>7 DEF ReadSize
    <2>2. Start' = Start
        BY <1>1, <2>1 DEF Start
    <2>3. /\ source' = source /\ BlockEnds' = BlockEnds /\ Encoding' = Encoding
          /\ Data' = Data /\ Heading' = Heading /\ Body' = Body
        BY <2>2, SameSpan
    <2>4. chunk' = Len(Data')
        BY <1>4, <1>5, <2>1, <2>3
    <2>5. Onward(Digits(Len(Heading), IntWidth) \o (TreeBytes(Heading) \o Body))'
        BY <1>3, <1>5, <2>1, <2>3 DEF Onward
    <2>6. Len(decoded) <= Len(source) /\ decoded = SubSeq(source, 1, Len(decoded))
        BY DEF Live, Faithful, Reading
    <2>7. Reading'
        BY <1>2, <2>1, <2>2, <2>3, <2>4, <2>5, <2>6 DEF Reading, Working
    <2> QED  BY <2>1, <2>7, SameStream
<1> QED  BY <1>6, <1>7

LEMMA ReadTreeLengthReads ==
    ASSUME Live, ReadTreeLength, UNCHANGED encVars
    PROVE  Faithful'
PROOF
<1>1. dpc = "treelength"
    BY DEF ReadTreeLength
<1>2. /\ Start \in BlockEnds /\ Start < Len(source) /\ chunk = Len(Data)
      /\ Onward(Digits(Len(Heading), IntWidth) \o (TreeBytes(Heading) \o Body))
    BY <1>1 DEF Live, Faithful, Reading, Working
<1>3. PICK x \in Seq(Symbols), y \in Seq(Symbols) :
         x = Digits(Len(Heading), IntWidth) /\ y = TreeBytes(Heading) \o Body
    BY <1>2, AtHeader, Zenon
<1>4. Onward(x \o y) /\ IntWidth = Len(x) /\ Signed(x) = Len(Heading)
    BY <1>2, <1>3, AtHeader
<1>5. /\ Got(IntWidth) => Bytes(IntWidth) = x /\ SubSeq(Encoding, 1, processed + IntWidth) \o y = Encoding
      /\ eresult = "ok" => Got(IntWidth)
    BY <1>4, Taken
<1>6. /\ Len(Heading) \in Nat /\ (~FullBlock => Len(Heading) <= HUF_BTREE_LEN)
    BY <1>2, AtHeader
<1>7. CASE Short(IntWidth)
    BY <1>5, <1>7, ShortReads
<1>8. CASE DReturnError("memory", decoded)
    BY <1>8, FailReads
<1>9. CASE Got(IntWidth) /\ ~ValidLength(Signed(Bytes(IntWidth))) /\ DReturnError("overflow", decoded)
    <2>1. FullBlock
        <3>1. ~ValidLength(Len(Heading))
            BY <1>4, <1>5, <1>9
        <3>2. ~ (Len(Heading) <= HUF_BTREE_LEN)
            BY <1>6, <3>1 DEF ValidLength
        <3> QED  BY <1>6, <3>2
    <2> QED  BY <1>9, <2>1, FailReads
<1>10. CASE /\ Got(IntWidth) /\ treelen' = Signed(Bytes(IntWidth)) /\ processed' = processed + IntWidth
            /\ dpc' = "tree"
            /\ UNCHANGED <<stream, chunk, decoded, restored>>
    <2>1. Start' = Start
        BY <1>1, <1>10 DEF Start
    <2>2. /\ source' = source /\ BlockEnds' = BlockEnds /\ Encoding' = Encoding
          /\ Data' = Data /\ Heading' = Heading /\ Body' = Body
        BY <2>1, SameSpan
    <2>3. treelen' = Len(Heading')
        BY <1>4, <1>5, <1>10, <2>2
    <2>4. Onward(TreeBytes(Heading) \o Body)'
        BY <1>3, <1>5, <1>10, <2>2 DEF Onward
    <2>5. Len(decoded) <= Len(source) /\ decoded = SubSeq(source, 1, Len(decoded))
        BY DEF Live, Faithful, Reading
    <2>6. Reading'
        BY <1>2, <1>10, <2>1, <2>2, <2>3, <2>4, <2>5 DEF Reading, Working
    <2> QED  BY <1>10, <2>6, SameStream
<1> QED  BY <1>7, <1>8, <1>9, <1>10 DEF ReadTreeLength

(* The bits of some data after its first n bytes, of which only the last   *)
(* i bits of the code word are left of the first one.                      *)
Word(t, data, n, i) ==
    IF n < Len(data)
    THEN Reverse(SubSeq(NodeToString(t, data[n+1]), 1, i)) \o BitsAfter(t, data, n + 1)
    ELSE <<>>

(* At the root of the tree all the bits of the next byte are left.         *)
AtRoot(t, data, n, i, way) ==
    /\ Word(t, data, n, i) = BitsAfter(t, data, n)
    /\ n < Len(data) => /\ Chain(t, data[n+1], way)
                        /\ i \in 1 .. Len(NodeToString(t, data[n+1])) /\ way[i+1] = t.root

LEMMA WordStarts ==
    ASSUME NEW data \in Seq(Symbols), data # <<>>, NEW t, t = BlockTree(data),
           NEW n \in Nat, n <= Len(data)
    PROVE  \E i, way : AtRoot(t, data, n, i, way)
PROOF
<1>1. PICK L \in Nat : L = Len(data)
    OBVIOUS
<1>2. Rooted(t, BytesOf(data)) /\ BitsAfter(t, data, L) = <<>>
    BY <1>1, BlockParts
<1>3. CASE n = L
    <2>1. Word(t, data, n, 0) = BitsAfter(t, data, n)
        BY <1>1, <1>2, <1>3 DEF Word
    <2>2. AtRoot(t, data, n, 0, <<>>)
        BY <1>1, <1>3, <2>1 DEF AtRoot
    <2> QED  BY <2>2
<1>4. CASE n < L
    <2>1. n + 1 \in 1..L /\ n \in 0 .. L - 1
        BY <1>4
    <2>2. PICK m \in Symbols : m = data[n+1] /\ m \in BytesOf(data)
        BY <1>1, <2>1 DEF BytesOf
    <2>3. PICK word, way : word = NodeToString(t, m) /\ word \in Seq({0, 1}) /\ Len(word) > 0
                           /\ Chain(t, m, way)
        BY <1>2, <2>2, ChainIs
    <2>4. PICK i \in Nat : i = Len(word) /\ i \in 1 .. Len(word) /\ SubSeq(word, 1, i) = word
        BY <2>3, SubSeqFull
    <2>5. way[i+1] = t.root
        BY <2>3, <2>4 DEF Chain
    <2>6. BitsAfter(t, data, n) = Reverse(word) \o BitsAfter(t, data, n + 1)
        BY <1>1, <2>1, <2>2, <2>3, BlockParts
    <2>7. Word(t, data, n, i) = BitsAfter(t, data, n)
        BY <1>1, <1>4, <2>2, <2>3, <2>4, <2>6 DEF Word
    <2>8. AtRoot(t, data, n, i, way)
        BY <2>2, <2>3, <2>4, <2>5, <2>7 DEF AtRoot
    <2> QED  BY <2>8
<1> QED  BY <1>1, <1>3, <1>4

(* The byte that begins the packing of some bits.                          *)
Begins(word, front, back) ==
    /\ front \in Seq({0, 1}) /\ back \in Seq({0, 1}) /\ word = front \o back
    /\ Len(front) <= ByteBits /\ (Len(front) < ByteBits => back = <<>>)
    /\ Packed(word) = <<ByteOf(front)>> \o Packed(back)

LEMMA FirstByte ==
    ASSUME NEW word \in Seq({0, 1}), word # <<>>
    PROVE  \E front, back : Begins(word, front, back)
PROOF
<1> PICK B : B = {0, 1}
    OBVIOUS
<1>1. PICK l \in Nat, m \in Nat \ {0} : B = {0, 1} /\ l = Len(word) /\ m = ByteBits
    <2>1. ByteBits \in Nat \ {0} /\ Len(word) \in Nat
        BY WidthAssumption
    <2> QED  BY <2>1
<1>2. word \in Seq(B) /\ \A k \in 1..l : word[k] \in B
    BY <1>1
<1>3. CASE l <= m
    <2>1. word \o <<>> = word /\ <<>> \in Seq(B)
        BY <1>2, ConcatEmptySeq, EmptySeq
    <2>2. Packed(word) = <<ByteOf(word)>> /\ Packed(<<>>) = <<>>
        BY <1>1, <1>3, PackedShort
    <2>3. <<ByteOf(word)>> \o <<>> = <<ByteOf(word)>>
        <3>1. PICK v : v = ByteOf(word)
            OBVIOUS
        <3>2. <<v>> \in Seq({v})
            OBVIOUS
        <3> QED  BY <3>1, <3>2, ConcatEmptySeq
    <2>4. Begins(word, word, <<>>)
        BY <1>1, <1>3, <2>1, <2>2, <2>3 DEF Begins
    <2> QED  BY <2>4
<1>4. CASE ~ (l <= m)
    <2>1. PICK front \in Seq(B), back \in Seq(B) :
             Len(front) = m /\ front \o back = word
        <3>1. /\ 1 \in 1 .. l + 1 /\ m \in 0 .. l /\ l \in m .. l /\ 1 - 1 = 0
              /\ 1 \in Int /\ m \in Int /\ m + 1 \in Int /\ l \in Int
            BY <1>4
        <3>2. SubSeq(word, 1, m) \o SubSeq(word, m + 1, l) = SubSeq(word, 1, l)
            BY <1>1, <1>2, <3>1, ConcatAdjacentSubSeq
        <3>3. SubSeq(word, 1, l) = word
            BY <1>1, SubSeqFull
        <3>4. SubSeq(word, 1, m) \in Seq(B) /\ Len(SubSeq(word, 1, m)) = m
            <4>1. \A k \in 1..m : word[k] \in B
                BY <1>2, <1>4
            <4>2. (IF 1 <= m THEN m - 1 + 1 ELSE 0) = m
                OBVIOUS
            <4> QED  BY <3>1, <4>1, <4>2, SubSeqProperties
        <3>5. SubSeq(word, m + 1, l) \in Seq(B)
            <4>1. \A k \in m + 1 .. l : word[k] \in B
                BY <1>2
            <4> QED  BY <3>1, <4>1, SubSeqProperties
        <3> QED  BY <3>2, <3>3, <3>4, <3>5, Zenon
    <2>2. Packed(front \o back) = <<ByteOf(front)>> \o Packed(back)
        <3>1. front \in Seq({0, 1}) /\ back \in Seq({0, 1}) /\ Len(front) = ByteBits
            BY <1>1, <2>1
        <3> QED  BY <3>1, PackedStep
    <2>3. Begins(word, front, back)
        BY <1>1, <2>1, <2>2 DEF Begins
    <2> QED  BY <2>3
<1> QED  BY <1>3, <1>4

LEMMA ReadTreeReads ==
    ASSUME Live, ReadTree, UNCHANGED encVars
    PROVE  Faithful'
PROOF
<1>1. dpc = "tree"
    BY DEF ReadTree
<1>2. /\ Start \in BlockEnds /\ Start < Len(source) /\ chunk = Len(Data)
      /\ treelen = Len(Heading) /\ Onward(TreeBytes(Heading) \o Body)
    BY <1>1 DEF Live, Faithful, Reading, Working
<1>3. PICK x \in Seq(Symbols), y \in Seq(Symbols) : x = TreeBytes(Heading) /\ y = Body
    BY <1>2, AtHeader, AtBlock, Zenon
<1>4. PICK n : n = treelen * IntWidth
    OBVIOUS
<1>5. Onward(x \o y) /\ n = Len(x) /\ Elements(x) = Heading
    BY <1>2, <1>3, <1>4, AtHeader
<1>6. /\ Got(n) => Bytes(n) = x /\ SubSeq(Encoding, 1, processed + n) \o y = Encoding
      /\ eresult = "ok" => Got(n)
    BY <1>5, Taken
<1>7. CASE Short(treelen * IntWidth)
    BY <1>4, <1>6, <1>7, ShortReads
<1>8. CASE DReturnError("memory", decoded)
    BY <1>8, FailReads
<1>9. CASE ~ (Short(treelen * IntWidth) \/ DReturnError("memory", decoded))
    <2>1. /\ Got(n) /\ processed' = processed + n
          /\ shape' = Deserialize(Elements(Bytes(n)))
          /\ last' = IF last = None THEN shape'.root ELSE last
          /\ restored' = 0 /\ dpc' = "byte" /\ stream' = stream /\ chunk' = chunk /\ decoded' = decoded
        BY <1>4, <1>9 DEF ReadTree
    <2>2. last = None
        BY <1>1 DEF Live, DecInv, DecSteps
    <2>3. Start' = Start
        <3>1. Len(decoded) - 0 = Len(decoded)
            BY LiveFacts
        <3> QED  BY <1>1, <2>1, <3>1 DEF Start
    <2>4. /\ source' = source /\ BlockEnds' = BlockEnds /\ Encoding' = Encoding
          /\ Data' = Data /\ Tree' = Tree /\ Heading' = Heading /\ Body' = Body
          /\ Rest(End)' = Rest(End)
        BY <2>3, SameSpan
    <2>5. shape' = Deserialize(Heading) /\ last' = shape'.root
        BY <1>5, <1>6, <2>1, <2>2
    <2>6. PICK d, t :
             d \in Seq(Symbols) /\ d = Data /\ t = Tree /\ d # <<>> /\ t = BlockTree(d) /\ Rooted(t, BytesOf(d))
             /\ Len(d) \in Nat \ {0}
        BY <1>2, AtBlock DEF Tree
    <2>7. Stands(t, last', t.root)
        <3>1. shape' = Deserialize(Serialize(t))
            BY <2>5, <2>6 DEF Heading
        <3> QED  BY <2>5, <2>6, <3>1, ReadBack
    <2>8. PICK i, way : AtRoot(t, d, 0, i, way)
        <3>1. 0 \in Nat /\ 0 <= Len(d)
            BY <2>6
        <3> QED  BY <2>6, <3>1, WordStarts
    <2>9. /\ Due(i)' = BitsAfter(t, d, 0)
          /\ Chain(t, d[1], way) /\ i \in 1 .. Len(NodeToString(t, d[1])) /\ way[i+1] = t.root
        <3>1. 0 < Len(d) /\ 0 + 1 = 1
            BY <2>6
        <3>2. Due(i)' = Word(t, d, 0, i)
            BY <1>2, <2>1, <2>4, <2>6, <3>1 DEF Due, Spell, Word
        <3> QED  BY <2>8, <3>1, <3>2 DEF AtRoot
    <2>10. Midway(i, way)'
        <3>1. restored' + 1 = 1
            BY <2>1
        <3> QED  BY <1>2, <2>1, <2>4, <2>5, <2>6, <2>7, <2>9, <3>1 DEF Midway, Spell
    <2>11. Onward(Packed(Due(i)) \o Rest(End))'
        <3>1. y = Packed(BitsAfter(t, d, 0)) \o Rest(End)
            BY <1>3, <2>6 DEF Body
        <3> QED  BY <1>6, <2>1, <2>4, <2>9, <3>1 DEF Onward
    <2>12. Len(decoded) <= Len(source) /\ decoded = SubSeq(source, 1, Len(decoded))
        BY DEF Live, Faithful, Reading
    <2>13. Reading'
        BY <1>2, <2>1, <2>3, <2>4, <2>10, <2>11, <2>12 DEF Reading, Working
    <2> QED  BY <2>1, <2>13, SameStream
<1> QED  BY <1>7, <1>8, <1>9

(* The bits that are still to be decoded.                                  *)
Lasting(i, word, rest) ==
    /\ word = Spell(restored + 1) /\ word \in Seq({0, 1}) /\ i \in 1 .. Len(word)
    /\ rest \in Seq({0, 1}) /\ rest = BitsAfter(Tree, Data, restored + 1)
    /\ Due(i) = Reverse(SubSeq(word, 1, i)) \o rest
    /\ Due(i) = <<word[i]>> \o (Reverse(SubSeq(word, 1, i - 1)) \o rest)
    /\ Reverse(SubSeq(word, 1, i - 1)) \in Seq({0, 1})
    /\ i = 1 => Reverse(SubSeq(word, 1, i - 1)) = <<>>
    /\ Data[restored + 1] \in BytesOf(Data) /\ Data[restored + 1] = source[Start + restored + 1]

LEMMA DueIs ==
    ASSUME Live, Start \in BlockEnds, Start < Len(source), NEW i, NEW way, Midway(i, way),
           restored < chunk
    PROVE  \E word, rest : Lasting(i, word, rest)
PROOF
<1>1. PICK d, t, n :
         d \in Seq(Symbols) /\ n \in Nat /\ d = Data /\ t = Tree /\ n = restored /\ d # <<>> /\ t = BlockTree(d)
         /\ Rooted(t, BytesOf(d)) /\ Len(d) \in Nat
         /\ \A k \in 1 .. Len(d) : d[k] = source[Start + k]
    <2>1. restored \in Nat
        BY LiveFacts
    <2> QED  BY <2>1, AtBlock DEF Tree
<1>2. n < Len(d)
    BY <1>1 DEF Midway
<1>3. n + 1 \in 1 .. Len(d) /\ n + 1 \in 0 .. Len(d)
    BY <1>1, <1>2
<1>4. PICK m \in BytesOf(d) : m = d[n+1] /\ m = source[Start + (n + 1)]
    BY <1>1, <1>3 DEF BytesOf
<1>5. PICK word \in Seq({0, 1}) : word = NodeToString(t, m)
    BY <1>1, <1>4, ChainIs
<1>6. PICK rest \in Seq({0, 1}) : rest = BitsAfter(t, d, n + 1)
    BY <1>1, <1>3, BlockParts
<1>7. i \in 1 .. Len(word)
    BY <1>1, <1>4, <1>5 DEF Midway, Spell
<1>8. /\ Reverse(SubSeq(word, 1, i)) \o rest = <<word[i]>> \o (Reverse(SubSeq(word, 1, i-1)) \o rest)
      /\ Reverse(SubSeq(word, 1, i-1)) \in Seq({0, 1})
      /\ i = 1 => Reverse(SubSeq(word, 1, i-1)) = <<>>
    BY <1>7, NextBit
<1>9. word = Spell(restored + 1)
    BY <1>1, <1>4, <1>5 DEF Spell
<1>10. Due(i) = Reverse(SubSeq(word, 1, i)) \o rest
    BY <1>1, <1>6, <1>9 DEF Due
<1>11. Start + (n + 1) = Start + restored + 1
    <2>1. Start \in Nat
        BY AtBlock
    <2> QED  BY <1>1, <2>1
<1>12. Lasting(i, word, rest)
    BY <1>1, <1>4, <1>6, <1>7, <1>8, <1>9, <1>10, <1>11 DEF Lasting
<1> QED  BY <1>12

(* The decoder is between two bytes or two bits of a block.                *)
LEMMA InBlockFacts ==
    ASSUME Live, dpc \in {"byte", "bit"}
    PROVE  /\ Start \in BlockEnds /\ Start < Len(source) /\ Start \in Nat
           /\ Start + restored = Len(decoded)
           /\ chunk = Len(Data) => Start + chunk = End /\ End <= Len(source)
           /\ restored <= chunk
PROOF
<1>1. Start \in BlockEnds /\ Start < Len(source) /\ Start = Len(decoded) - restored
    BY DEF Live, Faithful, Reading, Working, Start
<1>2. /\ Start \in Nat /\ End \in Nat /\ End \in Start+1 .. Len(source) /\ Len(Data) = End - Start
    BY <1>1, AtBlock
<1>3. restored <= chunk
    BY DEF Live, DecInv, DecSteps
<1>4. restored \in Nat /\ Len(decoded) \in Nat /\ Len(source) \in Nat
    BY LiveFacts
<1> QED  BY <1>1, <1>2, <1>3, <1>4

LEMMA ReadByteReads ==
    ASSUME Live, ReadByte, UNCHANGED encVars
    PROVE  Faithful'
PROOF
<1>1. dpc = "byte" /\ restored < chunk
    BY DEF ReadByte
<1>2. Start \in BlockEnds /\ Start < Len(source)
    BY <1>1, InBlockFacts
<1>3. PICK i, way : Midway(i, way) /\ Onward(Packed(Due(i)) \o Rest(End))
    BY <1>1 DEF Live, Faithful, Reading
<1>4. PICK word, rest : Lasting(i, word, rest)
    BY <1>1, <1>2, <1>3, DueIs
<1>5. Due(i) \in Seq({0, 1}) /\ Due(i) # <<>>
    <2>1. PICK B : B = {0, 1}
        OBVIOUS
    <2>2. PICK u \in Seq(B), v \in Seq(B), b \in B : Due(i) = <<b>> \o (u \o v)
        <3>1. word[i] \in B
            BY <1>4, <2>1 DEF Lasting
        <3>2. Reverse(SubSeq(word, 1, i - 1)) \in Seq(B) /\ rest \in Seq(B)
            BY <1>4, <2>1 DEF Lasting
        <3>3. Due(i) = <<word[i]>> \o (Reverse(SubSeq(word, 1, i - 1)) \o rest)
            BY <1>4 DEF Lasting
        <3> QED  BY <3>1, <3>2, <3>3
    <2>3. PICK w \in Seq(B), x \in Seq(B) : w = u \o v /\ x = <<b>> /\ Len(x) = 1
        <3>1. u \o v \in Seq(B)
            BY ConcatProperties
        <3>2. <<b>> \in Seq(B) /\ Len(<<b>>) = 1
            OBVIOUS
        <3> QED  BY <3>1, <3>2
    <2>4. x \o w \in Seq(B) /\ Len(x \o w) = Len(x) + Len(w) /\ Len(w) \in Nat
        BY ConcatProperties
    <2>5. Len(x \o w) # 0
        BY <2>3, <2>4
    <2>6. Due(i) = x \o w
        BY <2>2, <2>3
    <2> QED  BY <2>1, <2>4, <2>5, <2>6
<1>6. PICK front, back : Begins(Due(i), front, back)
    BY <1>5, FirstByte
<1>7. PICK x \in Seq(Symbols), y \in Seq(Symbols) :
         /\ x = <<ByteOf(front)>> /\ Len(x) = 1 /\ y = Packed(back) \o Rest(End)
         /\ Onward(x \o y)
    <2>1. PICK v \in Symbols : v = ByteOf(front)
        BY <1>6, ByteOfBits DEF Begins
    <2>2. PICK x \in Seq(Symbols) : x = <<v>> /\ Len(x) = 1
        <3>1. <<v>> \in Seq(Symbols) /\ Len(<<v>>) = 1
            OBVIOUS
        <3> QED  BY <3>1
    <2>3. PICK a \in Seq(Symbols), b \in Seq(Symbols) : a = Packed(back) /\ b = Rest(End)
        BY <1>2, <1>6, AtBlock, PackedType DEF Begins
    <2>4. PICK y \in Seq(Symbols) : y = a \o b
        BY ConcatProperties
    <2>5. (x \o a) \o b = x \o (a \o b)
        <3>1. Regroups(x, a, b)
            BY Regrouping
        <3> QED  BY <3>1 DEF Regroups
    <2>6. Packed(Due(i)) = x \o a
        BY <1>6, <2>1, <2>2, <2>3 DEF Begins
    <2>7. Packed(Due(i)) \o Rest(End) = x \o y
        BY <2>3, <2>4, <2>5, <2>6
    <2>8. Onward(x \o y)
        BY <1>3, <2>7
    <2> QED  BY <2>1, <2>2, <2>3, <2>4, <2>8
<1>8. /\ Got(1) => Bytes(1) = x /\ SubSeq(Encoding, 1, processed + 1) \o y = Encoding
      /\ eresult = "ok" => Got(1)
    BY <1>7, Taken
<1>9. CASE Short(1)
    BY <1>8, <1>9, ShortReads
<1>10. CASE ~Short(1)
    <2>1. /\ Got(1) /\ byte' = Bytes(1)[1] /\ processed' = processed + 1 /\ offset' = ByteBits
          /\ dpc' = "bit" /\ UNCHANGED <<stream, chunk, shape, last, restored, decoded>>
        BY <1>10 DEF ReadByte
    <2>2. byte' = ByteOf(front)
        BY <1>7, <1>8, <2>1
    <2>3. Start' = Start
        BY <1>1, <2>1 DEF Start
    <2>4. /\ source' = source /\ BlockEnds' = BlockEnds /\ Encoding' = Encoding
          /\ Data' = Data /\ Tree' = Tree /\ Heading' = Heading /\ Rest(End)' = Rest(End)
        BY <2>3, SameSpan
    <2>5. Midway(i, way)' /\ Due(i)' = Due(i)
        BY <1>3, <2>1, <2>4 DEF Midway, Spell, Due
    <2>6. Held(front)'
        <3>1. front \in Seq({0, 1}) /\ Len(front) <= ByteBits
            BY <1>6 DEF Begins
        <3>2. \A k \in 1 .. Len(front) : Shifted(ByteOf(front), 2, ByteBits - k) % 2 = front[k]
            BY <3>1, BitsOfByte
        <3> QED  BY <2>1, <2>2, <3>1, <3>2 DEF Held
    <2>7. Onward(Packed(back) \o Rest(End))'
        BY <1>7, <1>8, <2>1, <2>4 DEF Onward
    <2>8. Split(i, front, back)'
        BY <1>6, <2>1, <2>5, <2>6, <2>7 DEF Split, Begins
    <2>9. Len(decoded) <= Len(source) /\ decoded = SubSeq(source, 1, Len(decoded))
        BY DEF Live, Faithful, Reading
    <2>10. Reading'
        BY <1>2, <2>1, <2>3, <2>4, <2>5, <2>8, <2>9 DEF Reading, Working
    <2> QED  BY <2>1, <2>10, SameStream
<1> QED  BY <1>9, <1>10

LEMMA EndBlockReads ==
    ASSUME Live, EndBlock, UNCHANGED encVars
    PROVE  Faithful'
PROOF
<1>1. dpc = "byte" /\ restored >= chunk /\ dpc' = "loop"
      /\ UNCHANGED <<stream, processed, restored, decoded>>
    BY DEF EndBlock
<1>2. /\ Start \in BlockEnds /\ Start < Len(source) /\ Start \in Nat
      /\ Start + restored = Len(decoded) /\ restored <= chunk
    BY <1>1, InBlockFacts
<1>3. PICK i, way : Midway(i, way) /\ Onward(Packed(Due(i)) \o Rest(End))
    BY <1>1 DEF Live, Faithful, Reading
<1>4. restored = chunk /\ chunk \in Nat
    BY <1>1, <1>2, LiveFacts
<1>5. Len(decoded) = End
    <2>1. chunk = Len(Data)
        BY <1>3 DEF Midway
    <2> QED  BY <1>1, <1>2, <1>4, <2>1, InBlockFacts
<1>6. Onward(Rest(End))
    <2>1. Due(i) = <<>>
        BY <1>4 DEF Due
    <2>2. Packed(Due(i)) = <<>>
        BY <2>1, PackedShort
    <2>3. PICK r \in Seq(Symbols) : r = Rest(End)
        BY <1>2, AtBlock
    <2>4. <<>> \o r = r
        BY ConcatEmptySeq
    <2> QED  BY <1>3, <2>2, <2>3, <2>4
<1>7. End \in BlockEnds
    BY <1>2, AtBlock
<1>8. Start' = End
    BY <1>1, <1>5 DEF Start
<1>9. source' = source /\ BlockEnds' = BlockEnds /\ Encoding' = Encoding /\ ChunkLength' = ChunkLength
    BY SameSpan
<1>10. Rest(Start)' = Rest(End)
    BY <1>8, <1>9 DEF Rest
<1>11. Onward(Rest(Start))'
    BY <1>1, <1>6, <1>9, <1>10 DEF Onward
<1>12. Len(decoded) <= Len(source) /\ decoded = SubSeq(source, 1, Len(decoded))
    BY DEF Live, Faithful, Reading
<1>13. Reading'
    BY <1>1, <1>7, <1>8, <1>9, <1>11, <1>12 DEF Reading, Working
<1> QED  BY <1>1, <1>13, SameStream

(* A bit leads to the next node of the way, and the bits of a code word    *)
(* down to the leaf of its byte.                                           *)
Leads(t, back, way, i, m, q) ==
    /\ q # None /\ Stands(t, q, way[i])
    /\ i = 1 => back.left[q] = None /\ back.right[q] = None /\ back.index[q] = m
    /\ i > 1 => back.left[q] # None

LEMMA StepDown ==
    ASSUME NEW t, NEW used, Rooted(t, used), NEW back, back = Deserialize(Serialize(t)),
           NEW m \in used, NEW way, Chain(t, m, way),
           NEW word, word = NodeToString(t, m), NEW i \in 1 .. Len(word),
           NEW p, Stands(t, p, way[i+1])
    PROVE  /\ p # None
           /\ Leads(t, back, way, i, m, IF word[i] = 1 THEN back.right[p] ELSE back.left[p])
PROOF
<1>1. m \in Symbols /\ word \in Seq({0, 1})
    BY ChainIs
<1>2. PICK weights : Forest(t, weights, used) /\ Joined(t, weights)
    BY DEF Rooted
<1>3. /\ \A n \in Slots : t.left[n] \in Slots \cup {None} /\ t.right[n] \in Slots \cup {None}
      /\ \A n \in Symbols : t.left[n] = None /\ t.right[n] = None
    BY <1>2, RootedFacts DEF Falls, Joined
<1>4. /\ i \in Nat /\ i + 1 \in 1 .. Len(way) /\ i \in 1 .. Len(way)
      /\ way \in Seq(Slots) /\ way[1] = m
      /\ way[i] = IF word[i] = 1 THEN t.right[way[i+1]] ELSE t.left[way[i+1]]
      /\ i > 1 => t.left[way[i]] # None
    <2>1. Len(way) = Len(word) + 1 /\ Len(word) \in Nat
        BY <1>1 DEF Chain
    <2>2. i + 1 \in 1 .. Len(way) /\ i \in 1 .. Len(way) /\ (i > 1 => i \in 2 .. Len(way))
        BY <2>1
    <2> QED  BY <2>2 DEF Chain
<1>5. PICK n \in Slots, k \in Slots : n = way[i+1] /\ k = way[i]
    BY <1>4
<1>6. /\ n # None /\ k # None
    BY SlotFacts DEF Slots, None
<1>7. /\ p \in 1 .. Len(back.index)
      /\ Follows(t, back.left[p], t.left[n]) /\ Follows(t, back.right[p], t.right[n])
    BY <1>5, ReadBack
<1>8. PICK q : q = IF word[i] = 1 THEN back.right[p] ELSE back.left[p]
    OBVIOUS
<1>9. Follows(t, q, k)
    BY <1>4, <1>5, <1>7, <1>8
<1>10. Stands(t, q, k)
    BY <1>6, <1>9 DEF Follows
<1>11. /\ q \in 1 .. Len(back.index) /\ back.index[q] = k
       /\ Follows(t, back.left[q], t.left[k]) /\ Follows(t, back.right[q], t.right[k])
    BY <1>10, ReadBack
<1>12. \A r \in 1 .. Len(back.index) : r # None
    BY DEF None
<1>13. ASSUME i = 1 PROVE back.left[q] = None /\ back.right[q] = None /\ back.index[q] = m
    <2>1. k = m
        BY <1>4, <1>5, <1>13
    <2>2. t.left[k] = None /\ t.right[k] = None
        BY <1>1, <1>3, <2>1
    <2> QED  BY <1>11, <2>1, <2>2 DEF Follows
<1>14. ASSUME i > 1 PROVE back.left[q] # None
    <2>1. PICK j \in Slots : j = t.left[k] /\ j # None
        BY <1>3, <1>4, <1>5, <1>14
    <2>2. Stands(t, back.left[q], j)
        BY <1>11, <2>1 DEF Follows
    <2>3. back.left[q] \in 1 .. Len(back.index)
        BY <2>2, ReadBack
    <2> QED  BY <1>12, <2>3
<1>15. Leads(t, back, way, i, m, q)
    BY <1>5, <1>10, <1>11, <1>12, <1>13, <1>14 DEF Leads
<1> QED  BY <1>7, <1>8, <1>12, <1>15

(* After a bit of the block.                                               *)
LEMMA BitReads ==
    ASSUME Live, UNCHANGED encVars, dpc = "bit",
           dpc' = IF offset = 1 \/ restored' >= chunk THEN "byte" ELSE "bit",
           Start' = Start, UNCHANGED <<stream, processed, byte, chunk>>, offset' = offset - 1,
           NEW f \in {0, 1}, NEW front \in Seq({0, 1}), NEW back \in Seq({0, 1}),
           restored' \in Nat, Held(<<f>> \o front), Len(<<f>> \o front) < offset => back = <<>>,
           Onward(Packed(back) \o Rest(End)),
           NEW i, NEW way, Midway(i, way)', Due(i)' = front \o back,
           Len(decoded') <= Len(source), decoded' = SubSeq(source, 1, Len(decoded'))
    PROVE  Faithful'
PROOF
<1>1. /\ source' = source /\ BlockEnds' = BlockEnds /\ Encoding' = Encoding
      /\ Rest(End)' = Rest(End)
    BY SameSpan
<1>2. Start \in BlockEnds /\ Start < Len(source) /\ offset \in Nat
    BY InBlockFacts, LiveFacts
<1>3. Onward(Packed(back) \o Rest(End))'
    BY <1>1 DEF Onward
<1>4. PICK B : B = {0, 1}
    OBVIOUS
<1>5. PICK x \in Seq(B), u \in Seq(B), v \in Seq(B), n \in Nat :
         x = <<f>> /\ u = front /\ v = back /\ n = Len(u) /\ Len(x) = 1 /\ x[1] = f
    <2>1. <<f>> \in Seq(B) /\ Len(<<f>>) = 1 /\ <<f>>[1] = f /\ Len(front) \in Nat
        BY <1>4
    <2> QED  BY <1>4, <2>1
<1>6. Len(x \o u) = n + 1 /\ \A k \in 1..n : k + 1 \in 1 .. n + 1 /\ (x \o u)[k+1] = u[k]
    <2>1. /\ Len(x \o u) = Len(x) + Len(u)
          /\ \A k \in 1 .. Len(x) + Len(u) : (x \o u)[k] = IF k <= Len(x) THEN x[k] ELSE u[k - Len(x)]
        BY ConcatProperties
    <2>2. \A k \in 1..n : k + 1 \in 1 .. n + 1 /\ ~ (k + 1 <= 1) /\ (k + 1) - 1 = k
        OBVIOUS
    <2> QED  BY <1>5, <2>1, <2>2
<1>7. /\ n + 1 <= offset /\ (n + 1 < offset => v = <<>>)
      /\ \A k \in 1..n : Shifted(byte, 2, (offset - 1) - k) % 2 = u[k]
    <2>1. /\ Len(x \o u) <= offset /\ (Len(x \o u) < offset => v = <<>>)
          /\ \A k \in 1 .. Len(x \o u) : Shifted(byte, 2, offset - k) % 2 = (x \o u)[k]
        BY <1>5 DEF Held
    <2>2. \A k \in 1..n : offset - (k + 1) = (offset - 1) - k
        BY <1>2
    <2> QED  BY <1>6, <2>1, <2>2
<1>8. CASE dpc' = "bit"
    <2>1. Held(front)'
        BY <1>2, <1>5, <1>7 DEF Held
    <2>2. Len(front) < offset' => back = <<>>
        BY <1>2, <1>5, <1>7
    <2>3. Split(i, front, back)'
        BY <1>3, <2>1, <2>2 DEF Split
    <2>4. Reading'
        BY <1>1, <1>2, <1>8, <2>3 DEF Reading, Working
    <2> QED  BY <1>8, <2>4, SameStream
<1>9. CASE dpc' = "byte"
    <2>1. front = <<>>
        <3>1. CASE offset = 1
            <4>1. n = 0
                BY <1>7, <3>1
            <4> QED  BY <1>5, <4>1, EmptySeq
        <3>2. CASE restored' >= chunk
            <4>1. u \o v = <<>>
                <5>1. restored' \in Nat /\ chunk \in Nat
                    BY LiveFacts
                <5>2. ~ (restored' < chunk')
                    BY <3>2, <5>1
                <5>3. Due(i)' = <<>>
                    BY <5>2 DEF Due
                <5> QED  BY <1>5, <5>3
            <4> QED  BY <1>5, <4>1, ConcatEqualIffEmpty
        <3> QED  BY <1>9, <3>1, <3>2
    <2>2. Due(i)' = back
        <3>1. <<>> \o v = v
            BY ConcatEmptySeq
        <3> QED  BY <1>5, <2>1, <3>1
    <2>3. Onward(Packed(Due(i)) \o Rest(End))'
        BY <1>3, <2>2
    <2>4. Reading'
        BY <1>1, <1>2, <1>9, <2>3 DEF Reading, Working
    <2> QED  BY <1>9, <2>4, SameStream
<1> QED  BY <1>8, <1>9

(* The first part of a word that begins with f begins with f too.          *)
Splits(S, a, b, w, f) ==
    /\ a[1] = f
    /\ \E rest \in Seq(S) : a = <<f>> \o rest /\ w = rest \o b

(* Two splits of a word, the first part of one of them a single element.   *)
LEMMA FirstOfTwo ==
    ASSUME NEW S, NEW a \in Seq(S), NEW b \in Seq(S), NEW w \in Seq(S), NEW f \in S,
           a # <<>>, a \o b = <<f>> \o w
    PROVE  Splits(S, a, b, w, f)
PROOF
<1>1. PICK n \in Nat, k \in Nat, l \in Nat : n = Len(a) /\ n # 0 /\ k = Len(b) /\ l = Len(w)
    <2>1. Len(a) \in Nat \ {0} /\ Len(b) \in Nat /\ Len(w) \in Nat
        BY EmptySeq
    <2> QED  BY <2>1
<1>2. PICK x \in Seq(S) : x = <<f>> /\ Len(x) = 1 /\ x[1] = f
    <2>1. <<f>> \in Seq(S) /\ Len(<<f>>) = 1 /\ <<f>>[1] = f
        OBVIOUS
    <2> QED  BY <2>1
<1> DEFINE y == a \o b
<1>3. /\ y \in Seq(S) /\ Len(y) = n + k
      /\ \A i \in 1 .. n + k : y[i] = IF i <= n THEN a[i] ELSE b[i - n]
    BY <1>1, ConcatProperties
<1>4. /\ Len(y) = 1 + l /\ \A i \in 1 .. 1 + l : y[i] = IF i <= 1 THEN x[i] ELSE w[i - 1]
    <2>1. /\ Len(x \o w) = Len(x) + Len(w)
          /\ \A i \in 1 .. Len(x) + Len(w) : (x \o w)[i] = IF i <= Len(x) THEN x[i] ELSE w[i - Len(x)]
        BY ConcatProperties
    <2>2. y = x \o w
        BY <1>2
    <2> HIDE DEF y
    <2> QED  BY <1>1, <1>2, <2>1, <2>2
<1> HIDE DEF y
<1>5. a[1] = f
    <2>1. 1 \in 1 .. n + k /\ 1 \in 1 .. 1 + l /\ 1 <= n
        BY <1>1
    <2> QED  BY <1>2, <1>3, <1>4, <2>1
<1>6. PICK rest \in Seq(S), j \in Nat : a = x \o rest /\ j = Len(rest) /\ j = n - 1
    <2>1. 1 \in 1 .. Len(a) /\ Len(a) \in 1 .. Len(a)
        BY <1>1
    <2>2. SubSeq(a, 1, n) = <<a[1]>> \o SubSeq(a, 1 + 1, n) /\ SubSeq(a, 1, n) = a
        BY <1>1, <2>1, SubSeqRecursiveFirst, SubSeqFull
    <2>3. SubSeq(a, 2, n) \in Seq(S) /\ Len(SubSeq(a, 2, n)) = n - 1
        <3>1. 2 \in Int /\ n \in Int /\ \A i \in 2..n : a[i] \in S
            BY <1>1
        <3>2. /\ SubSeq(a, 2, n) \in Seq(S)
              /\ Len(SubSeq(a, 2, n)) = IF 2 <= n THEN n - 2 + 1 ELSE 0
            BY <3>1, SubSeqProperties
        <3>3. (IF 2 <= n THEN n - 2 + 1 ELSE 0) = n - 1
            BY <1>1
        <3> QED  BY <3>2, <3>3
    <2>4. 1 + 1 = 2 /\ n - 1 \in Nat
        BY <1>1
    <2> QED  BY <1>2, <1>5, <2>2, <2>3, <2>4
<1>7. (x \o rest) \o b = x \o (rest \o b)
    <2>1. Regroups(x, rest, b)
        BY Regrouping
    <2> QED  BY <2>1 DEF Regroups
<1>8. PICK z \in Seq(S) : z = rest \o b
    BY ConcatProperties
<1>9. x \o z = x \o w
    BY <1>2, <1>6, <1>7, <1>8
<1>10. z = w
    BY <1>9, ConcatSimplifications
<1> QED  BY <1>2, <1>5, <1>6, <1>8, <1>10 DEF Splits

(* One bit: a step down the tree of the block, at whose end is the byte    *)
(* that the bits were written for.                                         *)
LEMMA ReadBitReads ==
    ASSUME Live, DecInv', ReadBit, UNCHANGED encVars
    PROVE  Faithful'
PROOF
<1>1. dpc = "bit" /\ last # None /\ restored < chunk
    BY DEF ReadBit, Live, DecInv, DecSteps
<1>2. /\ Start \in BlockEnds /\ Start < Len(source) /\ Start \in Nat
      /\ Start + restored = Len(decoded) /\ restored \in Nat /\ chunk \in Nat /\ offset \in Nat
    BY <1>1, InBlockFacts, LiveFacts
<1>3. PICK i, way, front, back : Midway(i, way) /\ Split(i, front, back)
    BY <1>1 DEF Live, Faithful, Reading
<1>4. PICK word, rest : Lasting(i, word, rest)
    BY <1>1, <1>2, <1>3, DueIs
<1>5. PICK t, m : /\ t = Tree /\ m = Data[restored + 1] /\ m \in BytesOf(Data)
                  /\ m = source[Start + restored + 1]
                  /\ Rooted(t, BytesOf(Data)) /\ shape = Deserialize(Serialize(t))
                  /\ Chain(t, m, way) /\ word = NodeToString(t, m) /\ i \in 1 .. Len(word)
                  /\ Stands(t, last, way[i+1])
    BY <1>1, <1>2, <1>3, <1>4, AtBlock DEF Midway, Lasting, Spell, Heading
<1>6. PICK f \in {0, 1}, after \in Seq({0, 1}), left1 \in Seq({0, 1}), held \in Seq({0, 1}) :
         /\ f = word[i] /\ left1 = Reverse(SubSeq(word, 1, i - 1))
         /\ after = left1 \o rest /\ front = <<f>> \o held /\ after = held \o back
         /\ f = Bit
    <2>1. PICK B : B = {0, 1}
        OBVIOUS
    <2>2. PICK f \in B, u \in Seq(B), v \in Seq(B), a \in Seq(B), b \in Seq(B) :
             /\ f = word[i] /\ u = Reverse(SubSeq(word, 1, i - 1)) /\ v = rest
             /\ a = front /\ b = back
             /\ a \o b = <<f>> \o (u \o v)
        <3>1. word[i] \in B
            BY <1>4, <2>1 DEF Lasting
        <3>2. Reverse(SubSeq(word, 1, i - 1)) \in Seq(B) /\ rest \in Seq(B)
            BY <1>4, <2>1 DEF Lasting
        <3>3. front \in Seq(B) /\ back \in Seq(B)
            BY <1>3, <2>1 DEF Split
        <3>4. front \o back = <<word[i]>> \o (Reverse(SubSeq(word, 1, i - 1)) \o rest)
            BY <1>3, <1>4 DEF Lasting, Split
        <3> QED  BY <3>1, <3>2, <3>3, <3>4
    <2>3. PICK w \in Seq(B) : w = u \o v
        BY ConcatProperties
    <2>4. a # <<>>
        <3>1. SUFFICES ASSUME a = <<>> PROVE FALSE
            OBVIOUS
        <3>2. b = <<>>
            <4>1. Len(a) = 0
                BY <3>1
            <4>2. Len(front) < offset
                BY <1>1, <2>2, <4>1 DEF Live, DecInv, DecTypes, DecSteps
            <4> QED  BY <1>3, <2>2, <4>2 DEF Split
        <3>3. <<f>> \o w = <<>>
            <4>1. a \o b = <<>>
                BY <3>1, <3>2
            <4> QED  BY <2>2, <2>3, <4>1
        <3>4. PICK x \in Seq(B) : x = <<f>> /\ Len(x) = 1
            <4>1. <<f>> \in Seq(B) /\ Len(<<f>>) = 1
                OBVIOUS
            <4> QED  BY <4>1
        <3>5. x \o w = <<>> <=> x = <<>> /\ w = <<>>
            BY ConcatEqualIffEmpty
        <3>6. x # <<>>
            <4>1. Len(<<>>) = 0
                OBVIOUS
            <4> QED  BY <3>4, <4>1
        <3> QED  BY <3>3, <3>4, <3>5, <3>6
    <2>5. /\ a[1] = f
          /\ \E held \in Seq(B) : a = <<f>> \o held /\ w = held \o b
        <3>1. a \o b = <<f>> \o w
            BY <2>2, <2>3
        <3>2. Splits(B, a, b, w, f)
            BY <2>4, <3>1, FirstOfTwo
        <3> QED  BY <3>2 DEF Splits
    <2>6. PICK held \in Seq(B) : a = <<f>> \o held /\ w = held \o b
        BY <2>5
    <2>7. f = Bit
        <3>1. Len(a) \in Nat \ {0} /\ 1 \in 1 .. Len(a)
            BY <2>4, EmptySeq
        <3>2. Shifted(byte, 2, offset - 1) % 2 = a[1]
            BY <1>3, <2>2, <3>1 DEF Split, Held
        <3> QED  BY <2>5, <3>2 DEF Bit
    <2> QED  BY <2>1, <2>2, <2>3, <2>6, <2>7
<1>7. /\ last # None
      /\ Leads(t, shape, way, i, m, IF word[i] = 1 THEN shape.right[last] ELSE shape.left[last])
    BY <1>5, StepDown
<1>8. Down = IF word[i] = 1 THEN shape.right[last] ELSE shape.left[last]
    BY <1>6 DEF Down
<1>9. /\ Down # None /\ Stands(t, Down, way[i])
      /\ i = 1 => IsLeaf(Down) /\ shape.index[Down] = m
      /\ i > 1 => ~IsLeaf(Down)
    BY <1>7, <1>8 DEF Leads, IsLeaf
<1>10. i \in Nat /\ i >= 1
    BY <1>4 DEF Lasting
<1>11. /\ Held(<<f>> \o held) /\ (Len(<<f>> \o held) < offset => back = <<>>)
       /\ Onward(Packed(back) \o Rest(End)) /\ back \in Seq({0, 1})
    BY <1>3, <1>6 DEF Split
<1>12. Len(decoded) <= Len(source) /\ decoded = SubSeq(source, 1, Len(decoded))
    BY DEF Live, Faithful, Reading
<1>13. CASE /\ ~IsLeaf(Down) /\ last' = Down /\ offset' = offset - 1
            /\ dpc' = IF offset = 1 THEN "byte" ELSE "bit"
            /\ UNCHANGED <<stream, processed, chunk, shape, byte, restored, decoded>>
    <2>1. i > 1 /\ i - 1 \in Nat /\ i - 1 \in 1 .. Len(word) /\ (i - 1) + 1 = i
        BY <1>4, <1>9, <1>10, <1>13 DEF Lasting
    <2>2. dpc' = IF offset = 1 \/ restored' >= chunk THEN "byte" ELSE "bit"
        BY <1>1, <1>2, <1>13
    <2>3. Start' = Start
        BY <1>1, <1>13 DEF Start
    <2>4. Data' = Data /\ Tree' = Tree /\ Heading' = Heading
        BY <2>3, SameSpan
    <2>5. Due(i - 1)' = held \o back
        <3>1. Due(i - 1)' = left1 \o rest
            BY <1>1, <1>4, <1>6, <1>13, <2>4 DEF Due, Spell, Lasting
        <3> QED  BY <1>6, <3>1
    <2>6. Midway(i - 1, way)'
        <3>1. word = Spell(restored + 1)'
            BY <1>4, <1>13, <2>4 DEF Lasting, Spell
        <3>2. Stands(t, last', way[(i - 1) + 1])
            BY <1>9, <1>13, <2>1
        <3> QED  BY <1>3, <1>5, <1>13, <2>1, <2>4, <3>1, <3>2 DEF Midway
    <2>7. restored' \in Nat /\ Len(decoded') <= Len(source) /\ decoded' = SubSeq(source, 1, Len(decoded'))
        BY <1>2, <1>12, <1>13
    <2> QED  BY <1>1, <1>11, <1>13, <2>2, <2>3, <2>5, <2>6, <2>7, BitReads
<1>14. CASE /\ IsLeaf(Down)
            /\ decoded' = Append(decoded, shape.index[Down] % HUF_ASCII_COUNT)
            /\ restored' = restored + 1 /\ last' = shape.root /\ offset' = offset - 1
            /\ dpc' = IF offset = 1 \/ restored' >= chunk THEN "byte" ELSE "bit"
            /\ UNCHANGED <<stream, processed, chunk, shape, byte>>
    <2>1. i = 1 /\ shape.index[Down] = m
        BY <1>9, <1>10, <1>14
    <2>2. m \in Symbols /\ m % HUF_ASCII_COUNT = m
        <3>1. m \in Symbols
            BY <1>5, ChainIs
        <3>2. PICK c \in Nat \ {0, 1} : c = HUF_ASCII_COUNT /\ m \in 0 .. c - 1
            BY <3>1, SymbolFacts DEF Symbols
        <3>3. m % c = m
            <4>1. 0 \in Nat /\ c * 0 + m = m
                BY <3>2
            <4>2. (c * 0 + m) % c = m
                BY <3>2, <4>1, DivisionIs
            <4> QED  BY <4>1, <4>2
        <3> QED  BY <3>1, <3>2, <3>3
    <2>3. decoded' = Append(decoded, m)
        BY <1>14, <2>1, <2>2
    <2>4. /\ Len(decoded') = Len(decoded) + 1 /\ Len(decoded') <= Len(source)
          /\ decoded' = SubSeq(source, 1, Len(decoded'))
        <3>1. PICK s \in Seq(Symbols), L \in Nat, n \in Nat, d \in Seq(Symbols) :
                 s = source /\ L = Len(s) /\ n = Len(decoded) /\ d = decoded /\ n <= L
                 /\ d = SubSeq(s, 1, n)
            BY <1>12, LiveFacts
        <3>2. n + 1 <= L
            <4>1. chunk = Len(Data)
                BY <1>3 DEF Midway
            <4>2. Start + chunk = End /\ End <= Len(source)
                BY <1>1, <4>1, InBlockFacts
            <4> QED  BY <1>1, <1>2, <3>1, <4>2
        <3>3. m = s[n+1]
            <4>1. Start + restored + 1 = n + 1
                BY <1>2, <3>1
            <4> QED  BY <1>5, <3>1, <4>1
        <3>4. SubSeq(s, 1, n + 1) = Append(SubSeq(s, 1, n), s[n+1])
            BY <3>1, <3>2, PrefixStep
        <3>5. Len(Append(d, m)) = n + 1
            BY <3>1
        <3> QED  BY <2>3, <3>1, <3>2, <3>3, <3>4, <3>5
    <2>5. Start' = Start
        <3>1. Start' = Len(decoded') - restored'
            BY <1>14 DEF Start
        <3>2. PICK a \in Nat, r \in Nat, n \in Nat :
                 a = Start /\ r = restored /\ n = Len(decoded) /\ a + r = n
            BY <1>2, LiveFacts
        <3>3. Len(decoded') = n + 1 /\ restored' = r + 1
            BY <1>14, <2>4, <3>2
        <3>4. (n + 1) - (r + 1) = a
            BY <3>2
        <3>5. Start' = (n + 1) - (r + 1)
            BY <3>1, <3>3
        <3> QED  BY <3>2, <3>4, <3>5
    <2>6. Data' = Data /\ Tree' = Tree /\ Heading' = Heading
        BY <2>5, SameSpan
    <2>7. PICK d, n : /\ d \in Seq(Symbols) /\ d = Data /\ d # <<>> /\ t = BlockTree(d)
                      /\ n \in Nat /\ n = restored + 1 /\ n <= Len(d) /\ Len(d) = chunk
        <3>1. chunk = Len(Data)
            BY <1>3 DEF Midway
        <3>2. Data \in Seq(Symbols) /\ Data # <<>> /\ t = BlockTree(Data)
            BY <1>2, <1>5, AtBlock DEF Tree
        <3>3. restored + 1 \in Nat /\ restored + 1 <= chunk
            BY <1>1, <1>2
        <3> QED  BY <3>1, <3>2, <3>3
    <2>8. PICK j, way2 : AtRoot(t, d, n, j, way2)
        BY <2>7, WordStarts
    <2>9. Due(j)' = held \o back
        <3>1. Due(j)' = Word(t, d, n, j)
            BY <1>5, <1>14, <2>6, <2>7 DEF Due, Spell, Word
        <3>2. rest = BitsAfter(t, d, n)
            BY <1>4, <1>5, <2>7 DEF Lasting
        <3>3. after = rest
            <4>1. left1 = <<>>
                BY <1>4, <1>6, <2>1 DEF Lasting
            <4>2. PICK B : B = {0, 1}
                OBVIOUS
            <4>3. PICK r \in Seq(B) : r = rest
                BY <1>4, <4>2 DEF Lasting
            <4>4. <<>> \o r = r
                BY ConcatEmptySeq
            <4> QED  BY <1>6, <4>1, <4>3, <4>4
        <3> QED  BY <1>6, <2>8, <3>1, <3>2, <3>3 DEF AtRoot
    <2>10. Midway(j, way2)'
        <3>1. chunk' = Len(Data') /\ shape' = Deserialize(Heading')
            BY <1>3, <1>14, <2>6 DEF Midway
        <3>2. ASSUME restored' < chunk'
              PROVE  /\ Chain(Tree', Data'[restored' + 1], way2)
                     /\ j \in 1 .. Len(Spell(restored + 1)') /\ Stands(Tree', last', way2[j + 1])
            <4>1. n < Len(d) /\ restored' = n
                BY <1>14, <2>7, <3>2
            <4>2. /\ Chain(t, d[n+1], way2)
                  /\ j \in 1 .. Len(NodeToString(t, d[n+1])) /\ way2[j+1] = t.root
                BY <2>8, <4>1 DEF AtRoot
            <4>3. Stands(t, shape.root, t.root)
                BY <1>5, ReadBack
            <4> QED  BY <1>5, <1>14, <2>6, <2>7, <4>1, <4>2, <4>3 DEF Spell
        <3> QED  BY <3>1, <3>2 DEF Midway
    <2>11. restored' \in Nat
        BY <1>2, <1>14
    <2> QED  BY <1>1, <1>11, <1>14, <2>4, <2>5, <2>9, <2>10, <2>11, BitReads
<1>15. CASE DReturnError("sink", Append(decoded, shape.index[Down] % HUF_ASCII_COUNT))
    BY <1>15, FailReads
<1> QED  BY <1>9, <1>13, <1>14, <1>15 DEF ReadBit

(* The steps of neither call.                                              *)
LEMMA SameFaithful ==
    ASSUME Faithful, UNCHANGED encVars, UNCHANGED decVars
    PROVE  Faithful'
PROOF
<1>1. /\ stream' = stream /\ processed' = processed /\ chunk' = chunk /\ treelen' = treelen
      /\ shape' = shape /\ last' = last /\ byte' = byte /\ offset' = offset
      /\ restored' = restored /\ decoded' = decoded /\ dpc' = dpc /\ dresult' = dresult
      /\ output' = output
    BY DEF decVars
<1>2. Start' = Start
    BY <1>1 DEF Start
<1>3. /\ source' = source /\ Encoding' = Encoding
      /\ BlockEnds' = BlockEnds /\ (FullBlock' <=> FullBlock) /\ eresult' = eresult
      /\ End' = End /\ Data' = Data /\ Tree' = Tree
      /\ Heading' = Heading /\ Body' = Body
      /\ Rest(End)' = Rest(End) /\ Rest(Start)' = Rest(Start)
    BY <1>2, SameSpan
<1>4. \A i, way : Midway(i, way)' <=> Midway(i, way)
    BY <1>1, <1>3 DEF Midway, Spell
<1>5. \A i : Due(i)' = Due(i)
    BY <1>1, <1>3 DEF Due, Spell
<1>6. \A i, front, back : Split(i, front, back)' <=> Split(i, front, back)
    BY <1>1, <1>3, <1>5 DEF Split, Held, Onward
<1>7. /\ Onward(Rest(Start))' <=> Onward(Rest(Start))
      /\ Onward(TreeBytes(Heading) \o Body)' <=> Onward(TreeBytes(Heading) \o Body)
      /\ Onward(Digits(Len(Heading), IntWidth) \o (TreeBytes(Heading) \o Body))'
            <=> Onward(Digits(Len(Heading), IntWidth) \o (TreeBytes(Heading) \o Body))
      /\ \A i : Onward(Packed(Due(i)) \o Rest(End))' <=> Onward(Packed(Due(i)) \o Rest(End))
    BY <1>1, <1>3, <1>5 DEF Onward
<1>8. Reading'
    BY <1>1, <1>2, <1>3, <1>4, <1>6, <1>7 DEF Faithful, Reading, Working
<1>9. Ended' <=> Ended
    BY <1>1, <1>3 DEF Ended
<1> QED  BY <1>1, <1>3, <1>8, <1>9 DEF Faithful

(* No step of the decoder on such a stream leads astray: the root of the   *)
(* tree is there for each bit.                                             *)
LEMMA NoNull ==
    ASSUME Live, dpc = "bit"
    PROVE  last # None
PROOF
<1>1. restored < chunk
    BY DEF Live, DecInv, DecSteps
<1>2. Start \in BlockEnds /\ Start < Len(source) /\ restored \in Nat
    BY InBlockFacts, LiveFacts
<1>3. PICK i, way, front, back : Midway(i, way) /\ Split(i, front, back)
    BY DEF Live, Faithful, Reading
<1>4. PICK word, rest : Lasting(i, word, rest)
    BY <1>1, <1>2, <1>3, DueIs
<1>5. PICK t, m : /\ t = Tree /\ m \in BytesOf(Data)
                  /\ Rooted(t, BytesOf(Data)) /\ shape = Deserialize(Serialize(t))
                  /\ Chain(t, m, way) /\ word = NodeToString(t, m) /\ i \in 1 .. Len(word)
                  /\ Stands(t, last, way[i+1])
    BY <1>1, <1>2, <1>3, <1>4, AtBlock DEF Midway, Lasting, Spell, Heading
<1> QED  BY <1>5, StepDown

(* Each step of the decoder.                                               *)
LEMMA DecodeReads ==
    ASSUME Live, DecInv', DecNext, UNCHANGED encVars
    PROVE  Faithful'
PROOF
<1>1. ~ FollowNull
    BY NoNull DEF FollowNull
<1> QED  BY <1>1, NextBlockReads, FlushDecodedReads, ReadSizeReads, ReadTreeLengthReads,
            ReadTreeReads, ReadByteReads, ReadBitReads, EndBlockReads DEF DecNext

(* The decoder is called with all that the encoder has left.               *)
LEMMA DeliverReads ==
    ASSUME EncInv, DecInv, DataInv, InTurn, Deliver, ~damaged'
    PROVE  Faithful'
PROOF
<1>1. /\ epc = "returned" /\ dpc = "idle" /\ dpc' = "loop" /\ stream' = encoded
      /\ UNCHANGED encVars /\ UNCHANGED <<processed, restored, decoded>>
    BY DEF Deliver
<1>2. processed' = 0 /\ decoded' = <<>> /\ Len(decoded') = 0
    BY <1>1 DEF DecInv, DecSteps, InTurn
<1>3. Encoding' = Encoding /\ BlockEnds' = BlockEnds /\ source' = source /\ eresult' = eresult
    BY <1>1, SameSpan
<1>4. IsPrefix(stream', Encoding') /\ (eresult' = "ok" => stream' = Encoding')
    BY <1>1, <1>3 DEF DataInv
<1>5. source \in Seq(Symbols) /\ Len(source) \in Nat
    BY DEF EncInv, EncTypes
<1>6. Start' = 0
    BY <1>1, <1>2 DEF Start
<1>7. 0 \in BlockEnds
    <2>1. PICK c \in Nat : c = ChunkLength
        BY DEF ChunkLength, EncInv, EncTypes
    <2>2. c # 0 => 0 % c = 0
        OBVIOUS
    <2>3. c = 0 => Len(source) = 0
        BY <1>5, <2>1 DEF ChunkLength, DataInv
    <2> QED  BY <1>5, <2>1, <2>2, <2>3 DEF BlockEnds
<1>8. Onward(Rest(Start))'
    <2>1. Rest(0) \in Seq(Symbols) /\ Encoding = Rest(0)
        <3>1. 0 \in Nat
            OBVIOUS
        <3> QED  BY <3>1, RestIs
    <2>2. PICK r \in Seq(Symbols) : r = Rest(0)
        BY <2>1
    <2>3. SubSeq(r, 1, 0) = <<>> /\ <<>> \o r = r
        BY SubSeqEmpty, ConcatEmptySeq
    <2>4. Rest(Start)' = Rest(0)
        BY <1>1, <1>6 DEF Rest, ChunkLength, encVars
    <2>5. Onward(Rest(Start))' <=> SubSeq(Encoding', 1, processed') \o Rest(Start)' = Encoding'
        BY DEF Onward
    <2>6. SubSeq(Encoding', 1, processed') = <<>>
        BY <1>2, <1>3, <2>1, <2>2, <2>3
    <2> QED  BY <1>3, <2>1, <2>2, <2>3, <2>4, <2>5, <2>6
<1>9. SubSeq(source, 1, 0) = <<>>
    BY <1>5, SubSeqEmpty
<1>10. Reading'
    BY <1>1, <1>2, <1>3, <1>5, <1>6, <1>7, <1>8, <1>9 DEF Reading, Working
<1> QED  BY <1>1, <1>4, <1>10 DEF Faithful

(* The encoder does nothing once it has returned.                          *)
LEMMA EncodeWaits ==
    ASSUME EncNext
    PROVE  epc # "returned" /\ source' = source
PROOF
<1> USE DEF Return, ReturnError, Put, PutFails
<1>1. CASE Begin
    BY <1>1 DEF Begin
<1>2. CASE ReadBlock
    BY <1>2 DEF ReadBlock
<1>3. CASE CountBlock
    BY <1>3 DEF CountBlock
<1>4. CASE MergeRates
    BY <1>4 DEF MergeRates
<1>5. CASE CreateCoding
    BY <1>5 DEF CreateCoding
<1>6. CASE WriteSize
    BY <1>6 DEF WriteSize
<1>7. CASE WriteTreeLength
    BY <1>7 DEF WriteTreeLength
<1>8. CASE WriteTree
    BY <1>8 DEF WriteTree
<1>9. CASE WriteBit
    BY <1>9 DEF WriteBit
<1>10. CASE WriteRest
    BY <1>10 DEF WriteRest
<1>11. CASE ResetBlock
    BY <1>11 DEF ResetBlock
<1>12. CASE FlushEncoded
    BY <1>12 DEF FlushEncoded
<1> QED  BY <1>1, <1>2, <1>3, <1>4, <1>5, <1>6, <1>7, <1>8, <1>9, <1>10, <1>11, <1>12 DEF EncNext

(* The decoder does not go back to where it started from, and it has no    *)
(* result before it returns.                                               *)
LEMMA DecodeIsCalled ==
    ASSUME DecNext
    PROVE  /\ dpc # "idle" /\ dpc' # "idle"
           /\ dpc' # "returned" => dresult' = dresult /\ dpc # "returned"
PROOF
<1> USE DEF DReturn, DReturnError, Short
<1>1. CASE NextBlock \/ FlushDecoded
    BY <1>1 DEF NextBlock, FlushDecoded
<1>2. CASE ReadSize
    BY <1>2 DEF ReadSize
<1>3. CASE ReadTreeLength
    BY <1>3 DEF ReadTreeLength
<1>4. CASE ReadTree
    BY <1>4 DEF ReadTree
<1>5. CASE ReadByte
    BY <1>5 DEF ReadByte
<1>6. CASE ReadBit
    BY <1>6 DEF ReadBit
<1>7. CASE FollowNull \/ EndBlock
    BY <1>7 DEF FollowNull, EndBlock
<1> QED  BY <1>1, <1>2, <1>3, <1>4, <1>5, <1>6, <1>7 DEF DecNext

LEMMA InitRead == Init => ReadInv
    BY DEF Init, EncInit, DecInit, ReadInv, InTurn

LEMMA NextRead == IInv /\ IInv' /\ DataInv /\ ReadInv /\ [Next]_vars => ReadInv'
PROOF
<1> SUFFICES ASSUME IInv, IInv', DataInv, ReadInv, [Next]_vars PROVE ReadInv'
    OBVIOUS
<1>1. EncInv /\ DecInv /\ DecInv' /\ InTurn
    BY DEF IInv, ReadInv
<1>2. CASE Encode
    <2>1. dpc = "idle" /\ source' = source
        BY <1>1, <1>2, EncodeWaits DEF Encode, InTurn
    <2>2. dpc' = "idle" /\ decoded' = decoded /\ dresult' = dresult
        BY <1>2, <2>1 DEF Encode, decVars
    <2> QED  BY <1>1, <2>1, <2>2 DEF ReadInv, InTurn
<1>3. CASE Deliver
    <2>1. InTurn'
        BY <1>1, <1>3 DEF Deliver, InTurn, encVars
    <2> QED  BY <1>1, <1>3, <2>1, DeliverReads DEF ReadInv
<1>4. CASE Decode
    <2>1. DecNext /\ UNCHANGED encVars /\ damaged' = damaged
        BY <1>4 DEF Decode
    <2>2. InTurn'
        BY <1>1, <2>1, DecodeIsCalled DEF InTurn, encVars
    <2>3. ASSUME ~damaged' PROVE Faithful'
        <3>1. dpc # "idle" /\ ~damaged
            BY <2>1, <2>3, DecodeIsCalled
        <3>2. Live
            BY <1>1, <3>1 DEF Live, ReadInv, InTurn
        <3> QED  BY <1>1, <2>1, <3>2, DecodeReads
    <2> QED  BY <2>2, <2>3 DEF ReadInv
<1>5. CASE UNCHANGED vars
    <2>1. UNCHANGED encVars /\ UNCHANGED decVars /\ damaged' = damaged
        BY <1>5 DEF vars
    <2>2. InTurn'
        BY <1>1, <2>1 DEF InTurn, encVars, decVars
    <2>3. ASSUME dpc' # "idle", ~damaged' PROVE Faithful'
        <3>1. Faithful
            BY <2>1, <2>3 DEF ReadInv, decVars
        <3> QED  BY <2>1, <3>1, SameFaithful
    <2> QED  BY <2>2, <2>3 DEF ReadInv
<1> QED  BY <1>2, <1>3, <1>4, <1>5 DEF Next, Over

(* The inductive invariant of the two calls and of the data behind them.   *)
LEMMA ReadInvariance == Spec => [](IInv /\ DataInv /\ ReadInv)
PROOF
<1>1. Init => IInv /\ DataInv /\ ReadInv
    BY InitInv, InitData, InitRead
<1>2. IInv /\ DataInv /\ ReadInv /\ [Next]_vars => IInv' /\ DataInv' /\ ReadInv'
    BY NextInv, NextData, NextRead
<1> QED  BY <1>1, <1>2, PTL DEF Spec

LEMMA Decoded ==
    ASSUME IInv, DataInv, ReadInv, ~damaged
    PROVE  /\ source \in Seq(Symbols) /\ decoded \in Seq(Symbols)
           /\ Len(decoded) <= Len(source) /\ decoded = SubSeq(source, 1, Len(decoded))
PROOF
<1>1. source \in Seq(Symbols) /\ decoded \in Seq(Symbols)
    BY DEF IInv, EncInv, EncTypes, DecInv, DecTypes
<1>2. CASE dpc = "idle"
    <2>1. decoded = <<>> /\ Len(<<>>) = 0 /\ Len(source) \in Nat
        BY <1>1, <1>2 DEF ReadInv, InTurn
    <2>2. SubSeq(source, 1, 0) = <<>>
        BY <1>1, SubSeqEmpty
    <2> QED  BY <1>1, <2>1, <2>2
<1>3. CASE dpc # "idle"
    BY <1>1, <1>3 DEF ReadInv, Faithful, Reading
<1> QED  BY <1>2, <1>3

(* All that is decoded is the whole data.                                  *)
LEMMA AllDecoded ==
    ASSUME IInv, DataInv, ReadInv, ~damaged, Len(decoded) = Len(source)
    PROVE  decoded = source
    BY Decoded, SubSeqFull

(* What the decoder writes of a stream that huf_encode wrote, whole or cut *)
(* short by an error, is always a prefix of the data                       *)
(* (src/decoder.c:34-92, 218-276).                                         *)
THEOREM OnlyDataIsDecoded == Spec => []DecodesPrefix
PROOF
<1>1. IInv /\ DataInv /\ ReadInv => DecodesPrefix
    <2> SUFFICES ASSUME IInv, DataInv, ReadInv, ~damaged PROVE IsPrefix(decoded, source)
        BY DEF DecodesPrefix
    <2>1. /\ source \in Seq(Symbols) /\ decoded \in Seq(Symbols)
          /\ Len(decoded) <= Len(source) /\ decoded = SubSeq(source, 1, Len(decoded))
        BY Decoded
    <2>2. SubSeq(decoded, 1, Len(decoded)) = decoded
        BY <2>1, SubSeqFull
    <2> QED  BY <2>1, <2>2 DEF IsPrefix
<1> QED  BY <1>1, ReadInvariance, PTL

(* What huf_encode wrote, huf_decode decodes to the data it was written    *)
(* from, unless one of its allocations or its sink fails, its source gives *)
(* a read less than it has, or a block holds all the byte values           *)
(* (src/decoder.c:218-276).                                                *)
THEOREM DataIsRestored == Spec => []RoundTrip
PROOF
<1>1. IInv /\ DataInv /\ ReadInv => RoundTrip
    <2> SUFFICES ASSUME IInv, DataInv, ReadInv, dpc = "returned", eresult = "ok", ~damaged,
                        ~FullBlock, dresult \notin {"memory", "sink", "short"}
                 PROVE  dresult = "ok" /\ output = source
        BY DEF RoundTrip
    <2>1. Ended
        BY DEF ReadInv, Faithful
    <2>2. dresult = "ok"
        BY <2>1 DEF Ended
    <2>3. output = decoded /\ Len(decoded) = Len(source)
        BY <2>1, <2>2 DEF Ended
    <2> QED  BY <2>2, <2>3, AllDecoded
<1> QED  BY <1>1, ReadInvariance, PTL

(* Without damage the decoder never follows a NULL root or meets a missing *)
(* branch, for any data, block size and cut (src/decoder.c:48-71, 237).    *)
THEOREM OnlyDamageCorrupts == Spec => []CorruptOnlyIfDamaged
PROOF
<1>1. IInv /\ DataInv /\ ReadInv => CorruptOnlyIfDamaged
    <2> SUFFICES ASSUME ReadInv, ~damaged
                 PROVE  dpc # "undefined" /\ dresult # "corrupted"
        BY DEF CorruptOnlyIfDamaged
    <2>1. dpc # "idle" => Reading /\ (dpc = "returned" => Ended)
        BY DEF ReadInv, Faithful
    <2>2. dpc # "undefined"
        BY <2>1 DEF Reading, Working
    <2>3. dresult # "corrupted"
        BY <2>1 DEF ReadInv, InTurn, Ended
    <2> QED  BY <2>2, <2>3
<1> QED  BY <1>1, ReadInvariance, PTL

(* A stream that an error of huf_encode cut short inside a block is never  *)
(* decoded with success: a success is the data up to the end of a block,   *)
(* and all of it if huf_encode succeeded (src/decoder.c:54, 218-248).      *)
THEOREM CutIsFound == Spec => []CutIsNoticed
PROOF
<1>1. IInv /\ DataInv /\ ReadInv => CutIsNoticed
    <2> SUFFICES ASSUME IInv, DataInv, ReadInv, dresult = "ok", ~damaged
                 PROVE  Len(output) \in BlockEnds /\ (output = source \/ eresult # "ok")
        BY DEF CutIsNoticed
    <2>1. dpc = "returned"
        BY DEF ReadInv, InTurn
    <2>2. Ended
        BY <2>1 DEF ReadInv, Faithful
    <2>3. output = decoded /\ Len(decoded) \in BlockEnds
        BY <2>2 DEF Ended
    <2>4. eresult = "ok" => output = source
        BY <2>2, <2>3, AllDecoded DEF Ended
    <2> QED  BY <2>3, <2>4
<1> QED  BY <1>1, ReadInvariance, PTL
=============================================================================
