------------------------- MODULE HuffmanFileProofs -------------------------
(***************************************************************************)
(* What HuffmanFile promises, proved for every block size, every buffer    *)
(* size, all lengths of writes and reads and any number of sessions.       *)
(*                                                                         *)
(* First the stream of blocks: what Payload and Encoding compute, how they *)
(* behave under concatenation and for a prefix.  Then the compressor: what *)
(* a call hands to huf_encode and what it keeps.  Last the inductive       *)
(* invariant FileInv, that each action keeps it, and what follows.         *)
(***************************************************************************)
EXTENDS HuffmanFile, ByteStreamProofs

Bytes == Nat \ {0}

Divides(m, n) == \E k \in Nat : n = m * k

-----------------------------------------------------------------------------
(* The bytes in a stream of blocks.                                        *)

(* The function that Payload is defined by.                                *)
Counted(units, f) ==
    /\ f \in [0 .. Len(units) -> Seq(Bytes)]
    /\ f[0] = <<>>
    /\ \A n \in 1 .. Len(units) :
          f[n] = IF units[n] > 0 THEN Append(f[n-1], units[n]) ELSE f[n-1]
    /\ Payload(units) = f[Len(units)]

(* There is such a function: Payload is well defined.                      *)
LEMMA PayloadRecursion ==
    ASSUME NEW units \in Seq(Int)
    PROVE  \E f : Counted(units, f)
PROOF
<1> DEFINE N    == Len(units)
           S    == Seq(Bytes)
           next == [n \in 1..N |-> [s \in S |->
                       IF units[n] > 0 THEN Append(s, units[n]) ELSE s]]
           upto == CHOOSE g : g = [n \in 0..N |->
                      IF n = 0 THEN <<>>
                      ELSE IF units[n] > 0 THEN Append(g[n-1], units[n]) ELSE g[n-1]]
<1>1. N \in Nat /\ <<>> \in S /\ S = Seq(Bytes) /\ N = Len(units)
    OBVIOUS
<1>2. next \in [1..N -> [S -> S]]
    <2>1. ASSUME NEW n \in 1..N, NEW s \in S
          PROVE  (IF units[n] > 0 THEN Append(s, units[n]) ELSE s) \in S
        <3>1. units[n] \in Int /\ (units[n] > 0 => units[n] \in Bytes)
            BY DEF Bytes
        <3> QED  BY <3>1
    <2> QED  BY <2>1
<1>3. Solutions(N, S, <<>>, next) # {}
    <2> HIDE DEF N, S, next
    <2> QED  BY <1>1, <1>2, Recursion
<1>4. PICK f \in [0..N -> S] : f[0] = <<>> /\ \A n \in 1..N : f[n] = next[n][f[n-1]]
    <2> HIDE DEF N, S, next
    <2> QED  BY <1>3 DEF Solutions
<1>5. ASSUME NEW n \in 1..N
      PROVE  f[n] = IF units[n] > 0 THEN Append(f[n-1], units[n]) ELSE f[n-1]
    <2>1. f[n-1] \in S
        OBVIOUS
    <2> QED  BY <1>4, <2>1
<1> HIDE DEF N, S, next
<1> DEFINE At(g, n) == IF n = 0 THEN <<>>
                       ELSE IF units[n] > 0 THEN Append(g[n-1], units[n]) ELSE g[n-1]
           Step(g)  == [n \in 0..N |-> At(g, n)]
<1>6. f = Step(f)
    <2>1. \A n \in 0..N : f[n] = At(f, n)
        <3>1. ASSUME NEW n \in 0..N PROVE n = 0 \/ n \in 1..N
            BY <1>1
        <3> QED  BY <1>4, <1>5, <3>1
    <2>2. f = [n \in 0..N |-> f[n]]
        OBVIOUS
    <2> DEFINE F == Step(f)
    <2>3. F = [n \in 0..N |-> F[n]] /\ \A n \in 0..N : F[n] = At(f, n)
        <3> HIDE DEF At
        <3> QED  OBVIOUS
    <2> HIDE DEF F, At
    <2>4. \A n \in 0..N : F[n] = f[n]
        BY <2>1, <2>3
    <2>5. F = f
        BY <2>2, <2>3, <2>4
    <2> QED  BY <2>5 DEF F
<1>7. upto = Step(upto)
    <2>1. upto = CHOOSE g : g = Step(g)
        OBVIOUS
    <2> HIDE DEF upto, Step
    <2> QED  BY <2>1, <1>6
<1> HIDE DEF upto
<1>8. /\ DOMAIN upto = 0..N /\ upto[0] = <<>>
      /\ \A n \in 1..N :
            upto[n] = IF units[n] > 0 THEN Append(upto[n-1], units[n]) ELSE upto[n-1]
      /\ upto = [n \in 0..N |-> upto[n]]
    <2> DEFINE F == Step(upto)
    <2>1. DOMAIN F = 0..N /\ F = [n \in 0..N |-> F[n]]
        OBVIOUS
    <2>2. \A n \in 0..N : F[n] = IF n = 0 THEN <<>>
                          ELSE IF units[n] > 0 THEN Append(upto[n-1], units[n]) ELSE upto[n-1]
        OBVIOUS
    <2> HIDE DEF F
    <2>3. upto = F
        BY <1>7 DEF F
    <2>4. F[0] = <<>>
        <3>1. 0 \in 0..N
            BY <1>1
        <3> QED  BY <3>1, <2>2
    <2>5. ASSUME NEW n \in 1..N
          PROVE  F[n] = IF units[n] > 0 THEN Append(F[n-1], units[n]) ELSE F[n-1]
        <3>1. n \in 0..N /\ n # 0
            BY <1>1
        <3> QED  BY <3>1, <2>2, <2>3
    <2> QED  BY <2>1, <2>3, <2>4, <2>5
<1> DEFINE T == {n \in 0..N : upto[n] \in S}
<1>9. 0..N \subseteq T
    <2>1. 0 \in T
        <3>1. 0 \in 0..N
            BY <1>1
        <3>2. upto[0] \in S
            BY <1>1, <1>8
        <3> QED  BY <3>1, <3>2
    <2>2. \A n \in 1..N : n - 1 \in T => n \in T
        <3>1. ASSUME NEW n \in 1..N, upto[n-1] \in S PROVE upto[n] \in S
            <4>1. units[n] \in Int /\ (units[n] > 0 => units[n] \in Bytes)
                BY <1>1 DEF Bytes
            <4>2. units[n] > 0 => Append(upto[n-1], units[n]) \in S
                BY <1>1, <3>1, <4>1
            <4> QED  BY <1>8, <3>1, <4>2
        <3>2. \A n \in 1..N : n \in 0..N
            BY <1>1
        <3> QED  BY <3>1, <3>2
    <2> HIDE DEF T
    <2> QED  BY <1>1, <2>1, <2>2, BoundedInduction
<1>10. upto \in [0..N -> S]
    <2>1. \A n \in 0..N : upto[n] \in S
        BY <1>9
    <2>2. upto = [n \in 0..N |-> upto[n]]
        BY <1>8
    <2> QED  BY <2>1, <2>2
<1>11. Payload(units) = upto[N]
    BY DEF Payload, upto, N
<1> QED  BY <1>1, <1>8, <1>10, <1>11 DEF Counted

(* Appending to the second of two sequences appends to both.               *)
LEMMA BytesAppend ==
    \A s, t \in Seq(Bytes), e \in Bytes : s \o Append(t, e) = Append(s \o t, e)
    OBVIOUS

(* The bytes of a stream are positive numbers.                             *)
LEMMA PayloadType ==
    ASSUME NEW units \in Seq(Int)
    PROVE  Payload(units) \in Seq(Bytes)
PROOF
<1>1. PICK f : Counted(units, f)
    BY PayloadRecursion
<1>2. Len(units) \in 0 .. Len(units)
    OBVIOUS
<1> QED  BY <1>1, <1>2 DEF Counted

(* An empty stream holds none.                                             *)
LEMMA PayloadEmpty == Payload(<<>>) = <<>>
PROOF
<1>1. <<>> \in Seq(Int) /\ Len(<<>>) = 0
    OBVIOUS
<1>2. \E f : Counted(<<>>, f)
    BY <1>1, PayloadRecursion
<1>3. PICK f : Counted(<<>>, f)
    BY <1>2
<1> QED  BY <1>1, <1>3 DEF Counted

(* A header holds no byte, everything else is one.                         *)
LEMMA PayloadAppend ==
    ASSUME NEW s \in Seq(Int), NEW u \in Int
    PROVE  Payload(Append(s, u)) = IF u > 0 THEN Append(Payload(s), u) ELSE Payload(s)
PROOF
<1> DEFINE t == Append(s, u)
           N == Len(s)
<1>1. /\ t \in Seq(Int) /\ Len(t) = N + 1 /\ N \in Nat
      /\ (\A i \in 1..N : t[i] = s[i]) /\ t[N+1] = u
    BY AppendProperties
<1>2. PICK f : Counted(s, f)
    BY PayloadRecursion
<1> HIDE DEF t
<1>3. PICK g : Counted(t, g)
    BY <1>1, PayloadRecursion
<1>4. /\ f[0] = <<>> /\ g[0] = <<>>
      /\ \A n \in 1..N : f[n] = IF s[n] > 0 THEN Append(f[n-1], s[n]) ELSE f[n-1]
      /\ \A n \in 1..N+1 : g[n] = IF t[n] > 0 THEN Append(g[n-1], t[n]) ELSE g[n-1]
      /\ Payload(s) = f[N] /\ Payload(t) = g[N+1]
    BY <1>1, <1>2, <1>3 DEF Counted
<1> DEFINE T == {n \in 0..N : f[n] = g[n]}
<1>5. 0..N \subseteq T
    <2>1. 0 \in T
        BY <1>1, <1>4
    <2>2. ASSUME NEW n \in 1..N, n - 1 \in T PROVE n \in T
        <3>1. n \in 1..N+1 /\ n \in 0..N
            BY <1>1
        <3>2. f[n-1] = g[n-1] /\ t[n] = s[n]
            BY <1>1, <2>2
        <3>3. f[n] = g[n]
            BY <3>1, <3>2, <1>4
        <3> QED  BY <3>1, <3>3
    <2>3. \A n \in 1..N : n - 1 \in T => n \in T
        BY <2>2
    <2> HIDE DEF T
    <2> QED  BY <1>1, <2>1, <2>3, BoundedInduction
<1>6. f[N] = g[N]
    <2>1. N \in 0..N
        BY <1>1
    <2> QED  BY <2>1, <1>5
<1>7. g[N+1] = IF u > 0 THEN Append(g[N], u) ELSE g[N]
    <2>1. N + 1 \in 1..N+1 /\ (N + 1) - 1 = N
        BY <1>1
    <2> QED  BY <2>1, <1>1, <1>4
<1> QED  BY <1>4, <1>6, <1>7 DEF t

(* The bytes of two streams, one after the other.                          *)
LEMMA PayloadConcat ==
    ASSUME NEW s \in Seq(Int), NEW t \in Seq(Int)
    PROVE  Payload(s \o t) = Payload(s) \o Payload(t)
PROOF
<1> DEFINE N == Len(t)
           p(n) == SubSeq(t, 1, n)
           T == {n \in 0..N : Payload(s \o p(n)) = Payload(s) \o Payload(p(n))}
<1>1. N \in Nat
    OBVIOUS
<1>2. 0 \in T
    <2>1. p(0) = <<>> /\ s \o <<>> = s
        BY SubSeqEmpty, ConcatEmptySeq
    <2>2. Payload(s) \o <<>> = Payload(s)
        BY PayloadType, ConcatEmptySeq
    <2>3. Payload(s \o p(0)) = Payload(s) \o Payload(p(0))
        <3> HIDE DEF p
        <3> QED  BY <2>1, <2>2, PayloadEmpty
    <2>4. 0 \in 0..N
        BY <1>1
    <2> QED  BY <2>3, <2>4
<1>3. ASSUME NEW n \in 1..N, n - 1 \in T PROVE n \in T
    <2> DEFINE a == p(n-1)
               u == t[n]
    <2>1. a \in Seq(Int) /\ u \in Int /\ p(n) = Append(a, u)
        BY PrefixStep
    <2>2. Payload(s \o a) = Payload(s) \o Payload(a)
        BY <1>3
    <2> HIDE DEF a, u
    <2>3. s \o Append(a, u) = Append(s \o a, u) /\ s \o a \in Seq(Int)
        <3>1. s \o a \in Seq(Int)
            BY <2>1, ConcatProperties
        <3>2. s \o Append(a, u) = Append(s \o a, u)
            <4>1. s \in Seq(Int) /\ a \in Seq(Int) /\ u \in Int
                BY <2>1
            <4> QED  BY <4>1
        <3> QED  BY <3>1, <3>2
    <2>4. /\ Payload(Append(a, u)) = IF u > 0 THEN Append(Payload(a), u) ELSE Payload(a)
          /\ Payload(Append(s \o a, u)) =
                IF u > 0 THEN Append(Payload(s \o a), u) ELSE Payload(s \o a)
        BY <2>1, <2>3, PayloadAppend
    <2>5. Payload(s) \in Seq(Bytes) /\ Payload(a) \in Seq(Bytes)
        BY <2>1, PayloadType
    <2>6. u > 0 => Append(Payload(s) \o Payload(a), u) = Payload(s) \o Append(Payload(a), u)
        <3> SUFFICES ASSUME u > 0
                     PROVE Append(Payload(s) \o Payload(a), u) = Payload(s) \o Append(Payload(a), u)
            OBVIOUS
        <3>1. u \in Bytes
            BY <2>1 DEF Bytes
        <3> QED  BY <2>5, <3>1, BytesAppend, Zenon
    <2>7. Payload(s \o p(n)) = Payload(s) \o Payload(p(n))
        BY <2>1, <2>2, <2>3, <2>4, <2>6
    <2> QED  BY <2>7
<1>4. \A n \in 1..N : n - 1 \in T => n \in T
    BY <1>3
<1> HIDE DEF T, p
<1>5. N \in T
    <2>1. 0..N \subseteq T
        BY <1>1, <1>2, <1>4, BoundedInduction
    <2> QED  BY <1>1, <2>1
<1>6. p(N) = t
    BY SubSeqFull DEF p
<1> QED  BY <1>5, <1>6 DEF T

-----------------------------------------------------------------------------
(* What huf_encode writes.                                                 *)

(* The number of blocks of some data.                                      *)
LEMMA Blocks ==
    ASSUME NEW length \in Nat
    PROVE  /\ BlockCount(length) \in Nat
           /\ length <= BlockSize * BlockCount(length)
           /\ \A q \in Nat : q < BlockCount(length) => BlockSize * q < length
PROOF
<1> DEFINE c == BlockCount(length)
           a == length + BlockSize - 1
<1>1. BlockSize \in Nat \ {0} /\ a \in Nat
    BY BlockSizeAssumption
<1>2. c \in Nat /\ a % BlockSize \in 0 .. BlockSize - 1 /\ a = BlockSize * c + (a % BlockSize)
    BY <1>1, Division DEF BlockCount
<1>3. length <= BlockSize * c
    BY <1>1, <1>2
<1>4. ASSUME NEW q \in Nat, q < c PROVE BlockSize * q < length
    <2>1. q + 1 \in Nat /\ q + 1 <= c
        BY <1>2, <1>4
    <2> HIDE DEF c
    <2>2. BlockSize * (q + 1) <= BlockSize * c
        BY <1>1, <1>2, <2>1, Products
    <2>3. BlockSize * (q + 1) = BlockSize * q + BlockSize /\ BlockSize * q \in Nat
        BY <1>1
    <2>4. BlockSize * c <= a
        BY <1>1, <1>2
    <2> QED  BY <1>1, <1>2, <2>2, <2>3, <2>4
<1> QED  BY <1>2, <1>3, <1>4

(* The place of a unit in the encoding of some data.                       *)
LEMMA Placed ==
    ASSUME NEW i \in Nat \ {0}
    PROVE  \E q \in Nat, r \in 0 .. BlockSize :
              /\ i = (BlockSize + 1) * q + r + 1
              /\ (i - 1) \div (BlockSize + 1) = q
              /\ (i - 1) % (BlockSize + 1) = r
PROOF
<1>1. BlockSize + 1 \in Nat \ {0} /\ i - 1 \in Nat
    BY BlockSizeAssumption
<1>2. /\ (i - 1) \div (BlockSize + 1) \in Nat
      /\ (i - 1) % (BlockSize + 1) \in 0 .. (BlockSize + 1) - 1
      /\ i - 1 = (BlockSize + 1) * ((i - 1) \div (BlockSize + 1)) + ((i - 1) % (BlockSize + 1))
    BY <1>1, Division
<1>3. (BlockSize + 1) - 1 = BlockSize
    BY BlockSizeAssumption
<1> QED  BY <1>2, <1>3

(* What stands at a place of the encoding: the header of a block that is   *)
(* not empty, or a byte.                                                   *)
LEMMA EncodingAt ==
    ASSUME NEW data \in Seq(Bytes),
           NEW q \in Nat, NEW r \in 0 .. BlockSize, NEW i \in Nat \ {0},
           i = (BlockSize + 1) * q + r + 1,
           i <= Len(data) + BlockCount(Len(data))
    PROVE  /\ q < BlockCount(Len(data)) /\ BlockSize * q < Len(data)
           /\ BlockSize * q + r <= Len(data)
           /\ i = BlockSize * q + q + r + 1
           /\ r = 0 => Encoding(data)[i] = IF Len(data) - BlockSize * q <= BlockSize
                                           THEN BlockSize * q - Len(data) ELSE -BlockSize
           /\ r > 0 => /\ BlockSize * q + r \in 1 .. Len(data)
                       /\ Encoding(data)[i] = data[BlockSize * q + r]
PROOF
<1> DEFINE L == Len(data)
           c == BlockCount(L)
           B == BlockSize
<1>1. B \in Nat \ {0} /\ L \in Nat
    BY BlockSizeAssumption
<1>2. c \in Nat /\ L <= B * c /\ \A p \in Nat : p < c => B * p < L
    <2> HIDE DEF L
    <2> QED  BY <1>1, Blocks
<1> HIDE DEF L, c, B
<1>3. i = B * q + q + r + 1 /\ B * q \in Nat
    <2>1. (B + 1) * q = B * q + q
        BY <1>1
    <2> QED  BY <1>1, <2>1 DEF B
<1>4. q < c
    <2> SUFFICES ASSUME c <= q PROVE FALSE
        BY <1>2
    <2>1. B * c <= B * q
        BY <1>1, <1>2, Products
    <2>2. i <= L + c
        BY DEF L, c
    <2>3. B * c \in Nat /\ r \in Nat
        BY <1>1, <1>2
    <2> QED  BY <1>1, <1>2, <1>3, <2>1, <2>2, <2>3
<1>5. B * q < L
    BY <1>2, <1>4
<1>6. B * q + r <= L
    <2>1. CASE q + 1 = c
        <3>1. i <= L + c
            BY DEF L, c
        <3> QED  BY <1>1, <1>3, <2>1, <3>1
    <2>2. CASE q + 1 # c
        <3>1. q + 1 \in Nat /\ q + 1 < c
            BY <1>2, <1>4, <2>2
        <3>2. B * (q + 1) < L /\ B * (q + 1) = B * q + B
            BY <1>1, <1>2, <3>1
        <3>3. r <= B /\ r \in Nat
            BY DEF B
        <3> QED  BY <1>1, <1>3, <3>2, <3>3
    <2> QED  BY <2>1, <2>2
<1>7. i \in 1 .. L + c
    BY <1>1, <1>2 DEF L, c
<1>8. (i - 1) \div (B + 1) = q /\ (i - 1) % (B + 1) = r
    <2>1. B + 1 \in Nat \ {0} /\ r \in 0 .. (B + 1) - 1
        BY <1>1 DEF B
    <2>2. ((B + 1) * q + r) \div (B + 1) = q /\ ((B + 1) * q + r) % (B + 1) = r
        BY <2>1, DivisionIs
    <2>3. i - 1 = (B + 1) * q + r
        BY <1>1, <2>1 DEF B
    <2> QED  BY <2>2, <2>3
<1>9. Encoding(data)[i] = IF r > 0 THEN data[q * B + r] ELSE -Min({L - q * B, B})
    BY <1>7, <1>8 DEF Encoding, L, c, B
<1>10. q * B = B * q /\ (r > 0 => B * q + r \in 1 .. L)
    BY <1>1, <1>3, <1>6
<1>11. ASSUME r = 0
       PROVE  Encoding(data)[i] = IF L - B * q <= B THEN B * q - L ELSE -B
    <2>1. L - q * B \in Int /\ B \in Int
        BY <1>1, <1>3, <1>10
    <2>2. Encoding(data)[i] = -Min({L - q * B, B})
        BY <1>9, <1>11
    <2>3. Min({L - q * B, B}) = IF L - q * B <= B THEN L - q * B ELSE B
        BY <2>1, MinMax
    <2>4. PICK m \in Int : m = Min({L - q * B, B}) /\ Encoding(data)[i] = -m
        BY <2>1, <2>2, <2>3
    <2>5. m = IF L - B * q <= B THEN L - B * q ELSE B
        <3>1. L - q * B = L - B * q
            BY <1>10
        <3> QED  BY <2>3, <2>4, <3>1
    <2>6. -m = IF L - B * q <= B THEN B * q - L ELSE -B
        BY <2>5, <1>1, <1>3
    <2> QED  BY <2>4, <2>6
<1>12. ASSUME r > 0 PROVE Encoding(data)[i] = data[B * q + r]
    <2>1. Encoding(data)[i] = data[q * B + r]
        BY <1>9, <1>12
    <2>2. q * B + r = B * q + r
        BY <1>10
    <2> QED  BY <2>1, <2>2
<1> QED  BY <1>3, <1>4, <1>5, <1>6, <1>10, <1>11, <1>12 DEF L, c, B

(* huf_encode writes the data and a header for each of its blocks.         *)
LEMMA EncodingType ==
    ASSUME NEW data \in Seq(Bytes)
    PROVE  /\ Encoding(data) \in Seq(Int)
           /\ Len(Encoding(data)) = Len(data) + BlockCount(Len(data))
PROOF
<1> DEFINE L == Len(data)
           N == L + BlockCount(L)
           e == Encoding(data)
<1>1. N \in Nat /\ L \in Nat
    <2> HIDE DEF L
    <2>1. L \in Nat
        BY DEF L
    <2>2. BlockCount(L) \in Nat
        BY <2>1, Blocks
    <2> QED  BY <2>1, <2>2
<1>2. ASSUME NEW i \in 1 .. N PROVE e[i] \in Int
    <2>1. i \in Nat \ {0} /\ i <= N
        BY <1>1
    <2>2. PICK q \in Nat, r \in 0 .. BlockSize : i = (BlockSize + 1) * q + r + 1
        BY <2>1, Placed
    <2>3. /\ r = 0 => e[i] = IF L - BlockSize * q <= BlockSize
                             THEN BlockSize * q - L ELSE -BlockSize
          /\ r > 0 => /\ BlockSize * q + r \in 1 .. L
                      /\ e[i] = data[BlockSize * q + r]
        <3>1. i <= Len(data) + BlockCount(Len(data))
            BY <2>1
        <3> HIDE DEF e, L, N
        <3> QED  BY <2>1, <2>2, <3>1, EncodingAt DEF e, L
    <2> HIDE DEF e, N, L
    <2>4. CASE r = 0
        <3>1. BlockSize \in Int /\ L \in Int /\ BlockSize * q \in Int
            BY <1>1, BlockSizeAssumption
        <3> QED  BY <2>3, <2>4, <3>1
    <2>5. CASE r > 0
        <3>1. \A n \in 1 .. L : data[n] \in Bytes
            BY ElementOfSeq DEF L
        <3>2. data[BlockSize * q + r] \in Bytes
            BY <2>3, <2>5, <3>1
        <3>3. \A b \in Bytes : b \in Int
            BY DEF Bytes
        <3>4. e[i] = data[BlockSize * q + r]
            BY <2>3, <2>5
        <3> QED  BY <3>2, <3>3, <3>4
    <2>6. r = 0 \/ r > 0
        OBVIOUS
    <2> QED  BY <2>4, <2>5, <2>6
<1>3. e = [i \in 1 .. N |-> e[i]]
    BY DEF Encoding
<1> HIDE DEF e, N
<1>4. e \in [1 .. N -> Int]
    BY <1>2, <1>3
<1> QED  BY <1>1, <1>4 DEF e, N

(* A header stands where a block begins, and nowhere else.                 *)
LEMMA EncodingHeaders ==
    ASSUME NEW data \in Seq(Bytes)
    PROVE  \A i \in 1 .. Len(Encoding(data)) :
              \E q \in Nat, r \in 0 .. BlockSize :
                 /\ i = (BlockSize + 1) * q + r + 1
                 /\ (i \in Headers(Encoding(data))) = (r = 0)
PROOF
<1> DEFINE e == Encoding(data)
<1>1. e \in Seq(Int) /\ Len(e) = Len(data) + BlockCount(Len(data))
    BY EncodingType
<1> SUFFICES ASSUME NEW i \in 1 .. Len(e)
             PROVE  \E q \in Nat, r \in 0 .. BlockSize :
                       /\ i = (BlockSize + 1) * q + r + 1
                       /\ (i \in Headers(e)) = (r = 0)
    OBVIOUS
<1> HIDE DEF e
<1>2. i \in Nat \ {0} /\ i <= Len(data) + BlockCount(Len(data))
    BY <1>1
<1>3. PICK q \in Nat, r \in 0 .. BlockSize : i = (BlockSize + 1) * q + r + 1
    BY <1>2, Placed
<1>4. /\ BlockSize * q < Len(data)
      /\ r = 0 => e[i] = IF Len(data) - BlockSize * q <= BlockSize
                         THEN BlockSize * q - Len(data) ELSE -BlockSize
      /\ r > 0 => /\ BlockSize * q + r \in 1 .. Len(data)
                  /\ e[i] = data[BlockSize * q + r]
    BY <1>2, <1>3, EncodingAt DEF e
<1>5. i \in DOMAIN e
    BY <1>1
<1>6. CASE r = 0
    <2>1. BlockSize \in Nat \ {0} /\ BlockSize * q \in Nat /\ Len(data) \in Nat
        BY BlockSizeAssumption
    <2>2. e[i] < 0
        BY <1>4, <1>6, <2>1
    <2> QED  BY <1>3, <1>5, <1>6, <2>2 DEF Headers
<1>7. CASE r > 0
    <2>1. \A n \in 1 .. Len(data) : data[n] \in Bytes
        BY ElementOfSeq
    <2>2. data[BlockSize * q + r] \in Bytes
        BY <1>4, <1>7, <2>1
    <2>3. \A b \in Bytes : ~ (b < 0)
        BY DEF Bytes
    <2>4. e[i] = data[BlockSize * q + r]
        BY <1>4, <1>7
    <2>5. ~ (e[i] < 0)
        BY <2>2, <2>3, <2>4
    <2>6. r # 0
        BY <1>7
    <2> QED  BY <1>3, <1>5, <2>5, <2>6 DEF Headers
<1> QED  BY <1>6, <1>7

(* The blocks of an encoding are complete and full, but for the last one.  *)
LEMMA EncodingBlocks ==
    ASSUME NEW data \in Seq(Bytes), NEW i \in Headers(Encoding(data))
    PROVE  LET e == Encoding(data)
               m == BlockEnd(e, i) - i
           IN  /\ i \in 1 .. Len(e) /\ m \in 1 .. BlockSize /\ i + m <= Len(e)
               /\ \A k \in i+1 .. i+m : k \notin Headers(e)
               /\ i + m < Len(e) => i + m + 1 \in Headers(e) /\ m = BlockSize
               /\ Divides(BlockSize, Len(data)) => m = BlockSize
PROOF
<1> DEFINE e == Encoding(data)
           B == BlockSize
           L == Len(data)
           c == BlockCount(L)
           m == BlockEnd(e, i) - i
<1>1. e \in Seq(Int) /\ Len(e) = L + c
    BY EncodingType
<1>2. i \in 1 .. Len(e) /\ i \in Headers(e)
    BY <1>1 DEF Headers
<1>3. B \in Nat \ {0} /\ L \in Nat
    BY BlockSizeAssumption
<1>4. c \in Nat /\ L <= B * c /\ \A p \in Nat : p < c => B * p < L
    <2> HIDE DEF L
    <2> QED  BY <1>3, Blocks
<1>5. \A j \in 1 .. Len(e) : \E p \in Nat, s \in 0 .. B :
          j = (B + 1) * p + s + 1 /\ (j \in Headers(e)) = (s = 0)
    BY EncodingHeaders
<1>6. PICK q \in Nat : i = (B + 1) * q + 0 + 1
    <2>1. PICK p \in Nat, s \in 0 .. B : i = (B + 1) * p + s + 1 /\ (i \in Headers(e)) = (s = 0)
        BY <1>2, <1>5
    <2> QED  BY <2>1, <1>2
<1>7. /\ q < c /\ B * q < L /\ i = B * q + q + 0 + 1
      /\ e[i] = IF L - B * q <= B THEN B * q - L ELSE -B
    <2>1. i \in Nat \ {0} /\ i <= Len(data) + BlockCount(Len(data)) /\ 0 \in 0 .. BlockSize
        BY <1>1, <1>2, <1>3
    <2> QED  BY <2>1, <1>6, EncodingAt
<1>8. m = IF L - B * q <= B THEN L - B * q ELSE B
    <2> HIDE DEF B, L
    <2> QED  BY <1>2, <1>3, <1>7 DEF BlockEnd
<1> HIDE DEF e, B, L, c, m
<1>9. B * q \in Nat /\ m \in 1 .. B
    BY <1>3, <1>7, <1>8
<1>10. i + m <= Len(e) /\ (i + m < Len(e) => m = B /\ q + 1 < c)
    <2>1. CASE L - B * q <= B
        <3>1. ~ (q + 1 < c)
            <4> SUFFICES ASSUME q + 1 < c PROVE FALSE
                OBVIOUS
            <4>1. B * (q + 1) < L /\ B * (q + 1) = B * q + B
                BY <1>3, <1>4
            <4> QED  BY <1>3, <1>9, <2>1, <4>1
        <3>2. c = q + 1
            BY <1>4, <1>7, <3>1
        <3>3. m = L - B * q
            BY <1>8, <2>1
        <3> QED  BY <1>1, <1>3, <1>7, <1>9, <3>2, <3>3
    <2>2. CASE ~ (L - B * q <= B)
        <3>1. m = B
            BY <1>8, <2>2
        <3>2. q + 1 < c
            <4> SUFFICES ASSUME c <= q + 1 PROVE FALSE
                BY <1>4
            <4>1. B * c <= B * (q + 1) /\ B * (q + 1) = B * q + B
                BY <1>3, <1>4, Products
            <4> QED  BY <1>3, <1>4, <1>9, <2>2, <4>1
        <3>3. B * (q + 1) < L /\ B * (q + 1) = B * q + B
            BY <1>3, <1>4, <3>2
        <3> QED  BY <1>1, <1>3, <1>4, <1>7, <1>9, <3>1, <3>2, <3>3
    <2> QED  BY <2>1, <2>2
<1>11. ASSUME NEW k \in i+1 .. i+m PROVE k \notin Headers(e)
    <2>1. k \in 1 .. Len(e) /\ k - i \in 1 .. B
        BY <1>1, <1>2, <1>3, <1>4, <1>9, <1>10
    <2>2. PICK p \in Nat, s \in 0 .. B : k = (B + 1) * p + s + 1 /\ (k \in Headers(e)) = (s = 0)
        BY <1>5, <2>1
    <2>3. s # 0
        <3> SUFFICES ASSUME s = 0 PROVE FALSE
            OBVIOUS
        <3>1. (B + 1) * (p - q) = k - i
            BY <1>3, <1>6, <2>2
        <3>2. p - q \in Int /\ B + 1 \in Nat
            BY <1>3
        <3>3. CASE p - q <= 0
            <4>1. (B + 1) * (p - q) <= 0
                BY <3>2, <3>3
            <4> QED  BY <3>1, <4>1, <2>1
        <3>4. CASE 1 <= p - q
            <4>1. B + 1 <= (B + 1) * (p - q)
                BY <3>2, <3>4
            <4> QED  BY <1>3, <3>1, <4>1, <2>1
        <3> QED  BY <3>2, <3>3, <3>4
    <2> QED  BY <2>2, <2>3
<1>12. ASSUME i + m < Len(e) PROVE i + m + 1 \in Headers(e)
    <2>1. m = B /\ i + m + 1 \in 1 .. Len(e)
        BY <1>1, <1>2, <1>3, <1>4, <1>9, <1>10, <1>12
    <2>2. PICK p \in Nat, s \in 0 .. B :
              i + m + 1 = (B + 1) * p + s + 1 /\ (i + m + 1 \in Headers(e)) = (s = 0)
        BY <1>5, <2>1
    <2>3. (B + 1) * (q + 1 - p) = s
        BY <1>3, <1>6, <2>1, <2>2
    <2>4. s = 0
        <3>1. q + 1 - p \in Int /\ B + 1 \in Nat /\ s < B + 1 /\ 0 <= s
            BY <1>3
        <3>2. CASE q + 1 - p <= 0
            <4>1. (B + 1) * (q + 1 - p) <= 0
                BY <3>1, <3>2
            <4> QED  BY <2>3, <3>1, <4>1
        <3>3. CASE 1 <= q + 1 - p
            <4>1. B + 1 <= (B + 1) * (q + 1 - p)
                BY <3>1, <3>3
            <4> QED  BY <2>3, <3>1, <4>1
        <3> QED  BY <3>1, <3>2, <3>3
    <2> QED  BY <2>2, <2>4
<1>13. ASSUME Divides(B, L) PROVE m = B
    <2>1. PICK k \in Nat : L = B * k
        BY <1>13 DEF Divides
    <2>2. B * (k - q) = L - B * q /\ k - q \in Int
        BY <1>3, <2>1
    <2>3. 1 <= k - q
        <3> SUFFICES ASSUME k - q <= 0 PROVE FALSE
            BY <2>2
        <3>1. B * (k - q) <= 0
            BY <1>3, <2>2
        <3> QED  BY <1>3, <1>7, <1>9, <2>2, <3>1
    <2>4. B <= B * (k - q)
        BY <1>3, <2>2, <2>3
    <2> QED  BY <1>3, <1>8, <1>9, <2>2, <2>4
<1> QED  BY <1>2, <1>9, <1>10, <1>11, <1>12, <1>13 DEF e, B, L, m

(* What it writes is a stream of whole blocks.                             *)
LEMMA EncodingWhole ==
    ASSUME NEW data \in Seq(Bytes)
    PROVE  Whole(Encoding(data))
PROOF
<1> DEFINE e == Encoding(data)
<1>1. e \in Seq(Int)
    BY EncodingType
<1>2. ASSUME e # <<>> PROVE 1 \in Headers(e)
    <2>1. 1 \in 1 .. Len(e)
        BY <1>1, <1>2
    <2>2. PICK q \in Nat, r \in 0 .. BlockSize :
              1 = (BlockSize + 1) * q + r + 1 /\ (1 \in Headers(e)) = (r = 0)
        BY <2>1, EncodingHeaders
    <2>3. r = 0
        <3>1. (BlockSize + 1) * q \in Nat
            BY BlockSizeAssumption
        <3> QED  BY <2>2, <3>1
    <2> QED  BY <2>2, <2>3
<1>3. ASSUME NEW i \in Headers(e)
      PROVE  /\ \A k \in i+1 .. BlockEnd(e, i) : k \notin Headers(e)
             /\ BlockEnd(e, i) < Len(e) => BlockEnd(e, i) + 1 \in Headers(e)
             /\ BlockEnd(e, i) <= Len(e)
    <2> DEFINE m == BlockEnd(e, i) - i
    <2>1. /\ i \in 1 .. Len(e) /\ m \in 1 .. BlockSize /\ i + m <= Len(e)
          /\ \A k \in i+1 .. i+m : k \notin Headers(e)
          /\ i + m < Len(e) => i + m + 1 \in Headers(e)
        BY EncodingBlocks
    <2>2. e[i] \in Int
        BY <1>1, <2>1
    <2>3. BlockEnd(e, i) = i + m
        BY <2>1, <2>2 DEF BlockEnd
    <2> HIDE DEF e, m
    <2> QED  BY <2>1, <2>3
<1> HIDE DEF e
<1> QED  BY <1>2, <1>3 DEF Whole, Continuous, e

(* The bytes of the encoding of some data are the data.                    *)
LEMMA EncodingPayload ==
    ASSUME NEW data \in Seq(Bytes)
    PROVE  Payload(Encoding(data)) = data
PROOF
<1> DEFINE e == Encoding(data)
           B == BlockSize
           L == Len(data)
           c == BlockCount(L)
           N == L + c
           T == {n \in 0..N : \A q \in Nat, r \in 0..B :
                    n = (B + 1) * q + r =>
                       LET k == B * q + (IF r = 0 THEN 0 ELSE r - 1)
                       IN  k <= L => Payload(SubSeq(e, 1, n)) = SubSeq(data, 1, k)}
<1>1. e \in Seq(Int) /\ Len(e) = N
    BY EncodingType
<1>2. B \in Nat \ {0} /\ L \in Nat
    BY BlockSizeAssumption
<1>3. c \in Nat /\ L <= B * c /\ \A p \in Nat : p < c => B * p < L
    <2> HIDE DEF L
    <2> QED  BY <1>2, Blocks
<1>4. N \in Nat
    BY <1>2, <1>3
<1>5. 0 \in T
    <2> SUFFICES ASSUME NEW q \in Nat, NEW r \in 0..B, 0 = (B + 1) * q + r
                 PROVE  Payload(SubSeq(e, 1, 0))
                        = SubSeq(data, 1, B * q + (IF r = 0 THEN 0 ELSE r - 1))
        BY <1>4
    <2>1. (B + 1) * q \in Nat /\ (B + 1) * q = B * q + q /\ B * q \in Nat
        BY <1>2
    <2>2. r = 0 /\ q = 0 /\ B * q = 0
        BY <1>2, <2>1
    <2>3. SubSeq(e, 1, 0) = <<>> /\ SubSeq(data, 1, 0) = <<>>
        BY SubSeqEmpty
    <2>4. B * q + (IF r = 0 THEN 0 ELSE r - 1) = 0
        BY <2>2
    <2> QED  BY <2>3, <2>4, PayloadEmpty
<1>6. ASSUME NEW n \in 1..N, n - 1 \in T PROVE n \in T
    <2>1. PICK q \in Nat, r \in 0 .. B : n = (B + 1) * q + r + 1
        <3>1. n \in Nat \ {0}
            BY <1>4
        <3> QED  BY <3>1, Placed
    <2>2. /\ B * q < L /\ B * q + r <= L
          /\ r = 0 => e[n] = IF L - B * q <= B THEN B * q - L ELSE -B
          /\ r > 0 => B * q + r \in 1 .. L /\ e[n] = data[B * q + r]
        <3>1. n \in Nat \ {0} /\ n <= Len(data) + BlockCount(Len(data))
            BY <1>4
        <3> QED  BY <2>1, <3>1, EncodingAt
    <2>3. SubSeq(e, 1, n-1) \in Seq(Int) /\ e[n] \in Int
          /\ SubSeq(e, 1, n) = Append(SubSeq(e, 1, n-1), e[n])
        <3> HIDE DEF e
        <3> QED  BY <1>1, PrefixStep
    <2> DEFINE k == B * q + (IF r = 0 THEN 0 ELSE r - 1)
               p == SubSeq(e, 1, n-1)
    <2>4. B * q \in Nat /\ k \in Nat /\ k <= L
        BY <1>2, <2>2
    <2>5. Payload(p) = SubSeq(data, 1, k)
        <3>1. n - 1 = (B + 1) * q + r
            BY <1>2, <2>1
        <3> QED  BY <3>1, <2>4, <1>6
    <2> HIDE DEF p
    <2>6. Payload(SubSeq(e, 1, n)) = IF e[n] > 0 THEN Append(Payload(p), e[n]) ELSE Payload(p)
        BY <2>3, PayloadAppend DEF p
    <2>7. Payload(SubSeq(e, 1, n)) = SubSeq(data, 1, B * q + r)
        <3>1. CASE r = 0
            <4>1. ~ (e[n] > 0)
                BY <1>2, <2>2, <2>4, <3>1
            <4>2. k = B * q + r
                BY <2>4, <3>1
            <4> QED  BY <2>5, <2>6, <4>1, <4>2
        <3>2. CASE r > 0
            <4> DEFINE j == B * q + r
            <4>1. j \in 1 .. L /\ e[n] = data[j] /\ k = j - 1
                BY <1>2, <2>2, <2>4, <3>2
            <4> HIDE DEF j, k, e, L
            <4>2. data[j] \in Bytes /\ SubSeq(data, 1, j) = Append(SubSeq(data, 1, j - 1), data[j])
                BY <4>1, PrefixStep DEF L
            <4>3. data[j] > 0
                BY <4>2 DEF Bytes
            <4>4. Payload(SubSeq(e, 1, n)) = SubSeq(data, 1, j)
                BY <2>5, <2>6, <4>1, <4>2, <4>3
            <4> QED  BY <4>4 DEF j
        <3> QED  BY <3>1, <3>2
    <2>8. ASSUME NEW q2 \in Nat, NEW r2 \in 0..B, n = (B + 1) * q2 + r2
          PROVE  B * q2 + (IF r2 = 0 THEN 0 ELSE r2 - 1) = B * q + r
        <3>1. (B + 1) * q \in Nat /\ (B + 1) * q = B * q + q
              /\ (B + 1) * q2 \in Nat /\ (B + 1) * q2 = B * q2 + q2 /\ B * q2 \in Nat
            BY <1>2
        <3>2. CASE r = B
            <4>1. n = (B + 1) * (q + 1) + 0 /\ q + 1 \in Nat /\ 0 \in 0 .. (B + 1) - 1
                BY <1>2, <2>1, <3>2
            <4>2. n \div (B + 1) = q + 1 /\ n % (B + 1) = 0
                <5>1. B + 1 \in Nat \ {0}
                    BY <1>2
                <5> QED  BY <4>1, <5>1, DivisionIs
            <4>3. n \div (B + 1) = q2 /\ n % (B + 1) = r2
                <5>1. r2 \in 0 .. (B + 1) - 1 /\ B + 1 \in Nat \ {0}
                    BY <1>2
                <5> QED  BY <2>8, <5>1, DivisionIs
            <4>4. q2 = q + 1 /\ r2 = 0
                BY <4>2, <4>3
            <4>5. B * (q + 1) = B * q + B
                BY <1>2
            <4> QED  BY <1>2, <2>4, <3>2, <4>4, <4>5
        <3>3. CASE r # B
            <4>1. n = (B + 1) * q + (r + 1) /\ r + 1 \in 0 .. (B + 1) - 1
                BY <1>2, <2>1, <3>3
            <4>2. n \div (B + 1) = q /\ n % (B + 1) = r + 1
                <5>1. B + 1 \in Nat \ {0}
                    BY <1>2
                <5> QED  BY <4>1, <5>1, DivisionIs
            <4>3. n \div (B + 1) = q2 /\ n % (B + 1) = r2
                <5>1. r2 \in 0 .. (B + 1) - 1 /\ B + 1 \in Nat \ {0}
                    BY <1>2
                <5> QED  BY <2>8, <5>1, DivisionIs
            <4>4. q2 = q /\ r2 = r + 1
                BY <4>2, <4>3
            <4> QED  BY <1>2, <2>4, <4>4
        <3> QED  BY <3>2, <3>3
    <2>9. n \in 0..N
        BY <1>4
    <2>10. \A q2 \in Nat, r2 \in 0..B : n = (B + 1) * q2 + r2 =>
              LET k2 == B * q2 + (IF r2 = 0 THEN 0 ELSE r2 - 1)
              IN  k2 <= L => Payload(SubSeq(e, 1, n)) = SubSeq(data, 1, k2)
        BY <2>7, <2>8
    <2> QED  BY <2>9, <2>10
<1>7. N \in T
    <2>1. \A n \in 1..N : n - 1 \in T => n \in T
        BY <1>6
    <2>2. N \in 0..N
        BY <1>4
    <2> HIDE DEF T, N
    <2>3. 0..N \subseteq T
        BY <1>4, <1>5, <2>1, BoundedInduction
    <2> QED  BY <2>2, <2>3
<1>8. \E q \in Nat, r \in 0..B :
         N = (B + 1) * q + r /\ B * q + (IF r = 0 THEN 0 ELSE r - 1) = L
    <2> HIDE DEF L, c
    <2>1. CASE L = 0
        <3>1. c = 0
            <4>1. ~ (0 < c)
                <5> SUFFICES ASSUME 0 < c PROVE FALSE
                    OBVIOUS
                <5>1. B * 0 < L /\ B * 0 = 0
                    BY <1>2, <1>3
                <5> QED  BY <2>1, <5>1
            <4> QED  BY <1>3, <4>1
        <3>2. N = (B + 1) * 0 + 0 /\ B * 0 + 0 = L /\ 0 \in 0..B
            BY <1>2, <2>1, <3>1
        <3> QED  BY <3>2
    <2>2. CASE L # 0
        <3>1. c # 0
            BY <1>2, <1>3, <2>2
        <3> DEFINE d == L - B * (c - 1)
        <3>2. c - 1 \in Nat /\ B * (c - 1) < L /\ B * (c - 1) \in Nat /\ B * c = B * (c - 1) + B
            BY <1>2, <1>3, <3>1
        <3>3. d \in 1..B
            BY <1>2, <1>3, <3>2
        <3>4. N = (B + 1) * (c - 1) + d + 1 /\ B * (c - 1) + d = L
            <4>1. (B + 1) * (c - 1) = B * (c - 1) + (c - 1)
                BY <1>2, <3>2
            <4> QED  BY <1>2, <1>3, <3>2, <4>1
        <3> HIDE DEF d
        <3>5. CASE d = B
            <4>1. N = (B + 1) * c + 0 /\ B * c + 0 = L /\ 0 \in 0..B
                <5>1. (B + 1) * c = B * c + c /\ (B + 1) * (c - 1) = B * (c - 1) + (c - 1)
                    BY <1>2, <1>3, <3>2
                <5> QED  BY <1>2, <1>3, <3>2, <3>4, <3>5, <5>1
            <4> QED  BY <1>3, <4>1
        <3>6. CASE d # B
            <4>1. d + 1 \in 0..B /\ d + 1 # 0 /\ (d + 1) - 1 = d
                BY <1>2, <3>3, <3>6
            <4>2. (B + 1) * (c - 1) \in Nat
                BY <1>2, <3>2
            <4>3. N = (B + 1) * (c - 1) + (d + 1)
                BY <3>3, <3>4, <4>2
            <4> HIDE DEF N
            <4> QED  BY <3>2, <3>4, <4>1, <4>3
        <3> QED  BY <3>5, <3>6
    <2> QED  BY <2>1, <2>2
<1>9. Payload(SubSeq(e, 1, N)) = SubSeq(data, 1, L)
    <2>1. L <= L
        BY <1>2
    <2> HIDE DEF e, L, N
    <2> QED  BY <1>7, <1>8, <2>1
<1>10. SubSeq(e, 1, N) = e /\ SubSeq(data, 1, L) = data
    <2> HIDE DEF e
    <2> QED  BY <1>1, SubSeqFull
<1> QED  BY <1>9, <1>10

(* The headers of a stream and an encoding that follows it.                *)
LEMMA HeadersOfConcat ==
    ASSUME NEW s \in Seq(Int), NEW t \in Seq(Int)
    PROVE  /\ \A i \in Headers(s) : i \in Headers(s \o t) /\ BlockEnd(s \o t, i) = BlockEnd(s, i)
           /\ \A i \in Headers(t) : /\ Len(s) + i \in Headers(s \o t)
                                    /\ BlockEnd(s \o t, Len(s) + i) = Len(s) + BlockEnd(t, i)
           /\ \A i \in Headers(s \o t) :
                 i \in Headers(s) \/ (i > Len(s) /\ i - Len(s) \in Headers(t))
PROOF
<1> DEFINE u == s \o t
<1>1. /\ u \in Seq(Int) /\ Len(u) = Len(s) + Len(t)
      /\ \A i \in 1 .. Len(s) + Len(t) : u[i] = IF i <= Len(s) THEN s[i] ELSE t[i - Len(s)]
    BY ConcatProperties
<1>2. /\ Headers(u) = {i \in 1 .. Len(u) : u[i] < 0}
      /\ Headers(s) = {i \in 1 .. Len(s) : s[i] < 0}
      /\ Headers(t) = {i \in 1 .. Len(t) : t[i] < 0}
    BY <1>1 DEF Headers
<1> HIDE DEF u
<1>3. ASSUME NEW i \in 1 .. Len(s) PROVE i \in 1 .. Len(u) /\ u[i] = s[i] /\ s[i] \in Int
    BY <1>1
<1>4. ASSUME NEW i \in 1 .. Len(t)
      PROVE  Len(s) + i \in 1 .. Len(u) /\ u[Len(s) + i] = t[i] /\ t[i] \in Int
    <2>1. Len(s) + i \in 1 .. Len(u) /\ ~ (Len(s) + i <= Len(s)) /\ (Len(s) + i) - Len(s) = i
        BY <1>1
    <2> QED  BY <1>1, <2>1
<1>5. ASSUME NEW i \in Headers(s)
      PROVE  i \in Headers(u) /\ BlockEnd(u, i) = BlockEnd(s, i)
    BY <1>2, <1>3 DEF BlockEnd
<1>6. ASSUME NEW i \in Headers(t)
      PROVE  Len(s) + i \in Headers(u) /\ BlockEnd(u, Len(s) + i) = Len(s) + BlockEnd(t, i)
    BY <1>2, <1>4 DEF BlockEnd
<1>7. ASSUME NEW i \in Headers(u)
      PROVE  i \in Headers(s) \/ (i > Len(s) /\ i - Len(s) \in Headers(t))
    <2>1. i \in 1 .. Len(s) + Len(t) /\ u[i] < 0
        BY <1>1, <1>2
    <2>2. CASE i <= Len(s)
        BY <1>1, <1>2, <2>1, <2>2
    <2>3. CASE ~ (i <= Len(s))
        <3>1. i > Len(s) /\ i - Len(s) \in 1 .. Len(t)
            BY <2>1, <2>3
        <3> QED  BY <1>1, <1>2, <2>1, <2>3, <3>1
    <2> QED  BY <2>2, <2>3
<1> QED  BY <1>5, <1>6, <1>7 DEF u

(* Whole blocks that follow whole blocks.                                  *)
LEMMA WholeConcat ==
    ASSUME NEW s \in Seq(Int), NEW t \in Seq(Int), Whole(s), Whole(t)
    PROVE  Whole(s \o t)
PROOF
<1> DEFINE u == s \o t
<1>1. u \in Seq(Int) /\ Len(u) = Len(s) + Len(t) /\ Len(s) \in Nat /\ Len(t) \in Nat
    BY ConcatProperties
<1>2. /\ \A i \in Headers(s) : i \in Headers(u) /\ BlockEnd(u, i) = BlockEnd(s, i)
      /\ \A i \in Headers(t) : /\ Len(s) + i \in Headers(u)
                               /\ BlockEnd(u, Len(s) + i) = Len(s) + BlockEnd(t, i)
      /\ \A i \in Headers(u) :
            i \in Headers(s) \/ (i > Len(s) /\ i - Len(s) \in Headers(t))
    BY HeadersOfConcat
<1>3. /\ s # <<>> => 1 \in Headers(s)
      /\ t # <<>> => 1 \in Headers(t)
      /\ \A i \in Headers(s) :
            /\ \A k \in i+1 .. BlockEnd(s, i) : k \notin Headers(s)
            /\ BlockEnd(s, i) < Len(s) => BlockEnd(s, i) + 1 \in Headers(s)
            /\ BlockEnd(s, i) <= Len(s)
      /\ \A i \in Headers(t) :
            /\ \A k \in i+1 .. BlockEnd(t, i) : k \notin Headers(t)
            /\ BlockEnd(t, i) < Len(t) => BlockEnd(t, i) + 1 \in Headers(t)
            /\ BlockEnd(t, i) <= Len(t)
    BY DEF Whole, Continuous
<1>4. /\ s = <<>> <=> Len(s) = 0
      /\ t = <<>> <=> Len(t) = 0
      /\ u = <<>> <=> Len(u) = 0
    <2> HIDE DEF u
    <2> QED  BY <1>1, EmptySeq
<1>5. /\ \A i \in Headers(s) : i \in 1 .. Len(s) /\ BlockEnd(s, i) \in Int
      /\ \A i \in Headers(t) : i \in 1 .. Len(t) /\ BlockEnd(t, i) \in Int
    BY DEF Headers, BlockEnd
<1> HIDE DEF u
<1>6. ASSUME u # <<>> PROVE 1 \in Headers(u)
    <2>1. CASE s # <<>>
        BY <1>2, <1>3, <2>1
    <2>2. CASE s = <<>>
        <3>1. Len(s) = 0 /\ t # <<>>
            BY <1>1, <1>4, <1>6, <2>2
        <3>2. 1 \in Headers(t) /\ Len(s) + 1 = 1
            BY <1>3, <3>1
        <3> QED  BY <1>2, <3>2
    <2> QED  BY <2>1, <2>2
<1>7. ASSUME NEW i \in Headers(u)
      PROVE  /\ \A k \in i+1 .. BlockEnd(u, i) : k \notin Headers(u)
             /\ BlockEnd(u, i) < Len(u) => BlockEnd(u, i) + 1 \in Headers(u)
             /\ BlockEnd(u, i) <= Len(u)
    <2>1. CASE i \in Headers(s)
        <3> DEFINE end == BlockEnd(s, i)
        <3>1. end <= Len(s) /\ end \in Int /\ i \in 1 .. Len(s) /\ BlockEnd(u, i) = end
            BY <1>2, <1>3, <1>5, <2>1
        <3>2. ASSUME NEW k \in i+1 .. end PROVE k \notin Headers(u)
            <4>1. k \notin Headers(s)
                BY <1>3, <2>1
            <4>2. ~ (k > Len(s))
                BY <1>1, <3>1
            <4> QED  BY <1>2, <4>1, <4>2
        <3>3. ASSUME end < Len(u) PROVE end + 1 \in Headers(u)
            <4>1. CASE end < Len(s)
                BY <1>2, <1>3, <2>1, <4>1
            <4>2. CASE end = Len(s)
                <5>1. t # <<>>
                    BY <1>1, <1>4, <3>3, <4>2
                <5>2. Len(s) + 1 \in Headers(u)
                    BY <1>2, <1>3, <5>1
                <5> QED  BY <4>2, <5>2
            <4> QED  BY <1>1, <3>1, <4>1, <4>2
        <3>4. end <= Len(u)
            BY <1>1, <3>1
        <3> QED  BY <3>1, <3>2, <3>3, <3>4
    <2>2. CASE i > Len(s) /\ i - Len(s) \in Headers(t)
        <3> DEFINE j == i - Len(s)
                   end == BlockEnd(t, j)
        <3>1. j \in Headers(t) /\ j \in 1 .. Len(t) /\ end \in Int /\ end <= Len(t)
            BY <1>3, <1>5, <2>2
        <3>2. i \in Int /\ i = Len(s) + j
            <4>1. i \in Int
                BY <1>1 DEF Headers
            <4> QED  BY <1>1, <4>1
        <3> HIDE DEF j
        <3>3. BlockEnd(u, i) = Len(s) + end
            BY <1>2, <3>1, <3>2
        <3> HIDE DEF end
        <3>4. ASSUME NEW k \in i+1 .. Len(s) + end PROVE k \notin Headers(u)
            <4>1. k - Len(s) \in j+1 .. end /\ k > Len(s)
                BY <1>1, <3>1, <3>2
            <4>2. k - Len(s) \notin Headers(t)
                BY <1>3, <3>1, <4>1 DEF end
            <4>3. k \notin Headers(s)
                BY <1>1, <1>5, <4>1
            <4> QED  BY <1>2, <4>2, <4>3
        <3>5. ASSUME Len(s) + end < Len(u) PROVE Len(s) + end + 1 \in Headers(u)
            <4>1. end < Len(t)
                BY <1>1, <3>1, <3>5
            <4>2. end + 1 \in Headers(t)
                BY <1>3, <3>1, <4>1 DEF end
            <4>3. Len(s) + (end + 1) \in Headers(u)
                BY <1>2, <4>2
            <4>4. Len(s) + (end + 1) = Len(s) + end + 1
                BY <1>1, <3>1
            <4> QED  BY <4>3, <4>4
        <3>6. Len(s) + end <= Len(u)
            BY <1>1, <3>1
        <3> QED  BY <3>3, <3>4, <3>5, <3>6
    <2> QED  BY <1>2, <2>1, <2>2
<1> QED  BY <1>6, <1>7 DEF u, Whole, Continuous

-----------------------------------------------------------------------------
(* Sequences in order, and prefixes.                                       *)

(* The numbers of a sequence increase, from above one bound to another.    *)
Ordered(s, low, high) ==
    /\ \A i \in 1 .. Len(s) : low < s[i] /\ s[i] <= high
    /\ \A i, j \in 1 .. Len(s) : i < j => s[i] < s[j]

(* A run of bytes is in order.                                             *)
LEMMA RunOrdered ==
    ASSUME NEW a \in Nat, NEW n \in Nat
    PROVE  /\ Run(a, n) \in Seq(Bytes)
           /\ Ordered(Run(a, n), a, a + n)
PROOF
<1>1. /\ Run(a, n) \in Seq(Nat) /\ Len(Run(a, n)) = n
      /\ \A i \in 1..n : Run(a, n)[i] = a + i
    BY RunProperties
<1>2. Run(a, n) = [i \in 1..n |-> a + i]
    BY DEF Run
<1>3. \A i \in 1..n : a + i \in Bytes
    BY DEF Bytes
<1>4. Run(a, n) \in Seq(Bytes)
    BY <1>2, <1>3
<1> QED  BY <1>1, <1>4 DEF Ordered

(* So are two sequences, when the second starts where the first ends,      *)
LEMMA OrderedConcat ==
    ASSUME NEW s \in Seq(Bytes), NEW t \in Seq(Bytes),
           NEW a \in Nat, NEW b \in Nat, NEW c \in Nat, a <= b, b <= c,
           Ordered(s, a, b), Ordered(t, b, c)
    PROVE  Ordered(s \o t, a, c)
PROOF
<1> DEFINE u == s \o t
<1>1. /\ u \in Seq(Bytes) /\ Len(u) = Len(s) + Len(t)
      /\ \A i \in 1 .. Len(s) + Len(t) : u[i] = IF i <= Len(s) THEN s[i] ELSE t[i - Len(s)]
    BY ConcatProperties
<1>2. /\ Len(s) \in Nat /\ Len(t) \in Nat
      /\ \A i \in 1 .. Len(s) : s[i] \in Nat /\ a < s[i] /\ s[i] <= b
      /\ \A i \in 1 .. Len(t) : t[i] \in Nat /\ b < t[i] /\ t[i] <= c
      /\ \A i, j \in 1 .. Len(s) : i < j => s[i] < s[j]
      /\ \A i, j \in 1 .. Len(t) : i < j => t[i] < t[j]
    <2>1. (\A i \in 1 .. Len(s) : s[i] \in Bytes) /\ (\A i \in 1 .. Len(t) : t[i] \in Bytes)
        BY ElementOfSeq
    <2> QED  BY <2>1 DEF Ordered, Bytes
<1> HIDE DEF u
<1>3. ASSUME NEW i \in 1 .. Len(u)
      PROVE  \/ i \in 1 .. Len(s) /\ u[i] = s[i]
             \/ i > Len(s) /\ i - Len(s) \in 1 .. Len(t) /\ u[i] = t[i - Len(s)]
    <2>1. i \in 1 .. Len(s) + Len(t)
        BY <1>1
    <2>2. CASE i <= Len(s)
        BY <1>1, <1>2, <2>1, <2>2
    <2>3. CASE ~ (i <= Len(s))
        <3>1. i > Len(s) /\ i - Len(s) \in 1 .. Len(t)
            BY <1>2, <2>1, <2>3
        <3> QED  BY <1>1, <2>1, <2>3, <3>1
    <2> QED  BY <2>2, <2>3
<1>4. ASSUME NEW i \in 1 .. Len(u) PROVE a < u[i] /\ u[i] <= c
    <2>1. CASE i \in 1 .. Len(s) /\ u[i] = s[i]
        BY <1>2, <2>1
    <2>2. CASE i - Len(s) \in 1 .. Len(t) /\ u[i] = t[i - Len(s)]
        BY <1>2, <2>2
    <2> QED  BY <1>3, <2>1, <2>2
<1>5. ASSUME NEW i \in 1 .. Len(u), NEW j \in 1 .. Len(u), i < j PROVE u[i] < u[j]
    <2>1. CASE j \in 1 .. Len(s) /\ u[j] = s[j]
        <3>1. ~ (i > Len(s))
            BY <1>1, <1>2, <1>5, <2>1
        <3>2. i \in 1 .. Len(s) /\ u[i] = s[i]
            BY <1>3, <3>1
        <3> QED  BY <1>2, <1>5, <2>1, <3>2
    <2>2. CASE j > Len(s) /\ j - Len(s) \in 1 .. Len(t) /\ u[j] = t[j - Len(s)]
        <3>1. CASE i \in 1 .. Len(s) /\ u[i] = s[i]
            <4>1. s[i] \in Nat /\ s[i] <= b
                BY <1>2, <3>1
            <4>2. t[j - Len(s)] \in Nat /\ b < t[j - Len(s)]
                BY <1>2, <2>2
            <4>3. b \in Nat
                OBVIOUS
            <4> QED  BY <2>2, <3>1, <4>1, <4>2, <4>3
        <3>2. CASE i > Len(s) /\ i - Len(s) \in 1 .. Len(t) /\ u[i] = t[i - Len(s)]
            <4>1. i - Len(s) < j - Len(s)
                BY <1>1, <1>2, <1>5
            <4> QED  BY <1>2, <2>2, <3>2, <4>1
        <3> QED  BY <1>3, <3>1, <3>2
    <2> QED  BY <1>3, <2>1, <2>2
<1> QED  BY <1>4, <1>5 DEF Ordered, u

(* a sequence within wider bounds,                                         *)
LEMMA OrderedWider ==
    ASSUME NEW s \in Seq(Bytes), NEW a \in Nat, NEW b \in Nat, NEW c \in Nat, b <= c,
           Ordered(s, a, b)
    PROVE  Ordered(s, a, c)
PROOF
<1>1. \A i \in 1 .. Len(s) : s[i] \in Nat
    <2>1. \A i \in 1 .. Len(s) : s[i] \in Bytes
        BY ElementOfSeq
    <2> QED  BY <2>1 DEF Bytes
<1> QED  BY <1>1 DEF Ordered

(* and the beginning of a sequence.                                        *)
LEMMA OrderedPrefix ==
    ASSUME NEW s \in Seq(Bytes), NEW n \in 0 .. Len(s), NEW a \in Nat, NEW b \in Nat,
           Ordered(s, a, b)
    PROVE  SubSeq(s, 1, n) \in Seq(Bytes) /\ Ordered(SubSeq(s, 1, n), a, b)
PROOF
<1>1. \A i \in 1 .. n : s[i] \in Bytes
    BY ElementOfSeq
<1>2. /\ SubSeq(s, 1, n) \in Seq(Bytes) /\ Len(SubSeq(s, 1, n)) = n
      /\ \A i \in 1 .. n : SubSeq(s, 1, n)[i] = s[i]
    BY <1>1, SubSeqProperties
<1>3. n \in Nat /\ n <= Len(s) /\ Len(s) \in Nat
    OBVIOUS
<1> QED  BY <1>2, <1>3 DEF Ordered

(* The bytes in the first part of a stream are the first bytes in it.      *)
LEMMA PayloadPrefix ==
    ASSUME NEW s \in Seq(Int), NEW n \in 0 .. Len(s)
    PROVE  /\ SubSeq(s, 1, n) \in Seq(Int)
           /\ Len(Payload(SubSeq(s, 1, n))) \in 0 .. Len(Payload(s))
           /\ Payload(SubSeq(s, 1, n))
              = SubSeq(Payload(s), 1, Len(Payload(SubSeq(s, 1, n))))
PROOF
<1> DEFINE a == SubSeq(s, 1, n)
           b == SubSeq(s, n + 1, Len(s))
           p == Payload(a)
           q == Payload(b)
<1>1. a \in Seq(Int) /\ b \in Seq(Int)
    <2>1. /\ \A i \in 1 .. n : s[i] \in Int
          /\ \A i \in n + 1 .. Len(s) : s[i] \in Int
        BY ElementOfSeq
    <2>2. n + 1 \in Int /\ Len(s) \in Int
        OBVIOUS
    <2> QED  BY <2>1, <2>2, SubSeqProperties
<1>2. a \o b = s
    <2>1. 1 \in 1 .. Len(s) + 1 /\ n \in 1 - 1 .. Len(s) /\ Len(s) \in n .. Len(s)
        OBVIOUS
    <2>2. a \o b = SubSeq(s, 1, Len(s))
        BY <2>1, ConcatAdjacentSubSeq
    <2> QED  BY <2>2, SubSeqFull
<1> HIDE DEF a, b
<1>3. p \in Seq(Bytes) /\ q \in Seq(Bytes)
    BY <1>1, PayloadType
<1>4. Payload(s) = p \o q
    BY <1>1, <1>2, PayloadConcat
<1> HIDE DEF p, q
<1>5. Len(p) \in 0 .. Len(p \o q) /\ SubSeq(p \o q, 1, Len(p)) = p
    <2>1. /\ p \o q \in Seq(Bytes) /\ Len(p \o q) = Len(p) + Len(q)
          /\ \A i \in 1 .. Len(p) + Len(q) : (p \o q)[i] = IF i <= Len(p) THEN p[i] ELSE q[i - Len(p)]
        BY <1>3, ConcatProperties
    <2>2. Len(p) \in Nat /\ Len(q) \in Nat
        BY <1>3
    <2>3. \A i \in 1 .. Len(p) : (p \o q)[i] = p[i] /\ (p \o q)[i] \in Bytes
        BY <1>3, <2>1, <2>2
    <2>4. /\ SubSeq(p \o q, 1, Len(p)) \in Seq(Bytes)
          /\ Len(SubSeq(p \o q, 1, Len(p))) = Len(p)
          /\ \A i \in 1 .. Len(p) : SubSeq(p \o q, 1, Len(p))[i] = (p \o q)[i]
        BY <2>2, <2>3, SubSeqProperties
    <2>5. SubSeq(p \o q, 1, Len(p)) = p
        BY <1>3, <2>3, <2>4, SeqEqual
    <2> QED  BY <2>1, <2>2, <2>5
<1> QED  BY <1>1, <1>4, <1>5 DEF a, p

-----------------------------------------------------------------------------
(* The compressor.                                                         *)

(* What divides two numbers divides their sum, difference and multiples.   *)
LEMMA DividesFacts ==
    ASSUME NEW m \in Bytes
    PROVE  /\ Divides(m, 0) /\ Divides(m, m)
           /\ \A a \in Nat : a % m = 0 => Divides(m, a)
           /\ \A a, b \in Nat : Divides(m, a) /\ Divides(m, b) => Divides(m, a + b)
           /\ \A a, b \in Nat : Divides(m, a) /\ Divides(m, b) /\ b <= a => Divides(m, a - b)
           /\ \A a, b \in Nat : Divides(m, a) => Divides(m, a * b)
           /\ \A a \in Nat : Divides(m, a) /\ a # 0 => m <= a
PROOF
<1>1. m \in Nat \ {0}
    BY DEF Bytes
<1>2. Divides(m, 0) /\ Divides(m, m)
    <2>1. 0 = m * 0 /\ m = m * 1
        BY <1>1
    <2> QED  BY <2>1 DEF Divides
<1>3. ASSUME NEW a \in Nat, a % m = 0 PROVE Divides(m, a)
    <2>1. a \div m \in Nat /\ a = m * (a \div m) + (a % m)
        BY <1>1, Division
    <2>2. PICK k \in Nat : k = a \div m
        BY <2>1
    <2>3. m * k \in Nat
        BY <1>1
    <2>4. a = m * k
        BY <1>3, <2>1, <2>2, <2>3
    <2> QED  BY <2>4 DEF Divides
<1>4. ASSUME NEW a \in Nat, NEW b \in Nat, Divides(m, a), Divides(m, b)
      PROVE  Divides(m, a + b) /\ (b <= a => Divides(m, a - b))
    <2>1. PICK j \in Nat, k \in Nat : a = m * j /\ b = m * k
        BY <1>4 DEF Divides
    <2>2. a + b = m * (j + k) /\ j + k \in Nat
        BY <1>1, <2>1
    <2>3. ASSUME b <= a PROVE Divides(m, a - b)
        <3>1. a - b = m * (j - k)
            BY <1>1, <2>1
        <3>2. j - k \in Nat
            <4> SUFFICES ASSUME j < k PROVE FALSE
                OBVIOUS
            <4>1. m * (j - k) < 0
                BY <1>1
            <4> QED  BY <2>3, <3>1, <4>1
        <3> QED  BY <3>1, <3>2 DEF Divides
    <2> QED  BY <2>2, <2>3 DEF Divides
<1>5. ASSUME NEW a \in Nat, NEW b \in Nat, Divides(m, a) PROVE Divides(m, a * b)
    <2>1. PICK k \in Nat : a = m * k
        BY <1>5 DEF Divides
    <2>2. k * b \in Nat /\ a * b = m * (k * b)
        BY <1>1, <2>1
    <2> QED  BY <2>2 DEF Divides
<1>6. ASSUME NEW a \in Nat, Divides(m, a), a # 0 PROVE m <= a
    <2>1. PICK k \in Nat : a = m * k
        BY <1>6 DEF Divides
    <2>2. 1 <= k
        BY <1>1, <1>6, <2>1
    <2> QED  BY <1>1, <2>1, <2>2
<1> QED  BY <1>2, <1>3, <1>4, <1>5, <1>6

-----------------------------------------------------------------------------
(* The input stream of the compressor holds less than a block, or blocks.  *)
Fits == Len(cin) < BlockSize \/ Divides(BlockSize, Len(cin))

(* A call of compress with no full block keeps the end of its data, and    *)
(* all of it when that is not longer than what is there.                   *)
LEMMA KeepsIs ==
    ASSUME NEW n \in Nat, cin \in Seq(Bytes), given \in Nat, NumBlocks(n) = 0
    PROVE  /\ Len(cin) + n < BlockSize
           /\ \E j \in 0..n : /\ Remaining(n) = Run(given + j, n - j)
                              /\ Len(cin) = 0 \/ n <= Len(cin) => j = 0
PROOF
<1> DEFINE c == Len(cin)
           d == Data(n)
<1>1. BlockSize \in Nat \ {0} /\ c \in Nat
    BY BlockSizeAssumption
<1>2. c + n < BlockSize
    <2>1. c + n \in Nat
        BY <1>1
    <2>2. /\ (c + n) % BlockSize \in 0 .. BlockSize - 1
          /\ c + n = BlockSize * ((c + n) \div BlockSize) + ((c + n) % BlockSize)
        BY <1>1, <2>1, Division
    <2>3. (c + n) \div BlockSize = 0
        BY DEF NumBlocks
    <2> QED  BY <1>1, <2>2, <2>3
<1>3. d \in Seq(Nat) /\ Len(d) = n
    BY RunProperties DEF Data
<1>4. MaxBytes(n) = 0 - c /\ RemBytes(n) = n + c
    BY <1>1 DEF MaxBytes, RemBytes
<1> DEFINE j == IF c = 0 \/ n <= c THEN 0 ELSE n - c
<1>5. j \in 0..n
    BY <1>1
<1>6. Remaining(n) = Run(given + j, n - j)
    <2>1. CASE n + c > 0
        <3>1. Remaining(n) = Slice(d, 0 - c, n)
            <4>1. (0 - c) + (n + c) = n
                BY <1>1
            <4> QED  BY <1>4, <2>1, <4>1 DEF Remaining
        <3>2. Slice(d, 0 - c, n) = SubSeq(d, j + 1, n)
            <4> HIDE DEF d, c
            <4>1. CASE c = 0
                <5>1. 0 - c = 0 /\ ~ (0 - c < 0) /\ ~ (n < 0)
                    BY <1>1, <4>1
                <5>2. Min({0, n}) = 0 /\ Min({n, n}) = n
                    BY MinMax
                <5>3. Slice(d, 0, n) = SubSeq(d, 0 + 1, n)
                    BY <1>3, <5>1, <5>2 DEF Slice
                <5>4. j = 0
                    BY <4>1
                <5> QED  BY <5>1, <5>3, <5>4
            <4>2. CASE c # 0
                <5>1. 0 - c < 0 /\ ~ (n < 0) /\ n + (0 - c) \in Int
                    BY <1>1, <4>2
                <5>2. Max({n + (0 - c), 0}) = j /\ Min({n, n}) = n
                    <6>1. PICK v \in Int : v = n + (0 - c)
                        BY <5>1
                    <6>2. Max({v, 0}) = IF v <= 0 THEN 0 ELSE v
                        <7>1. 0 \in Int
                            OBVIOUS
                        <7> QED  BY <7>1, MinMax, Zenon
                    <6>3. Min({n, n}) = n
                        BY MinMax
                    <6>4. j = IF v <= 0 THEN 0 ELSE v
                        BY <1>1, <4>2, <6>1
                    <6> QED  BY <6>1, <6>2, <6>3, <6>4
                <5> HIDE DEF j
                <5> QED  BY <1>3, <5>1, <5>2 DEF Slice
            <4> QED  BY <4>1, <4>2
        <3>3. SubSeq(d, j + 1, n) = Run(given + j, n - j)
            <4> HIDE DEF j
            <4> QED  BY <1>5, RunSuffix DEF Data
        <3> QED  BY <3>1, <3>2, <3>3
    <2>2. CASE ~ (n + c > 0)
        <3>1. n = 0 /\ j = 0
            BY <1>1, <2>2
        <3>2. Remaining(n) = <<>>
            BY <1>4, <2>2 DEF Remaining
        <3>3. Run(given + j, n - j) = <<>>
            <4> HIDE DEF j
            <4>1. given + j \in Nat /\ n - j = 0
                BY <1>5, <3>1
            <4>2. PICK a \in Nat : a = given + j
                BY <4>1
            <4>3. Run(a, 0) \in Seq(Nat) /\ Len(Run(a, 0)) = 0
                <5>1. 0 \in Nat
                    OBVIOUS
                <5> QED  BY <5>1, RunProperties, Zenon
            <4> QED  BY <4>1, <4>2, <4>3, EmptySeq
        <3> QED  BY <3>2, <3>3
    <2> QED  BY <2>1, <2>2
<1> QED  BY <1>2, <1>5, <1>6

(* A call with full blocks hands them to huf_encode and splits its data    *)
(* where they end.                                                         *)
LEMMA BlocksIs ==
    ASSUME NEW n \in Nat, cin \in Seq(Bytes), given \in Nat, Fits, NumBlocks(n) > 0
    PROVE  \E k \in 0..n :
              /\ k = BlockSize * NumBlocks(n) - Len(cin)
              /\ n - k < BlockSize /\ BlockSize <= NumBlocks(n) * BlockSize
              /\ NumBlocks(n) \in Nat
              /\ ToEncode(n) = cin \o Run(given, k)
              /\ ToEncode(n) \in Seq(Bytes)
              /\ Len(ToEncode(n)) = NumBlocks(n) * BlockSize
              /\ Remaining(n) = Run(given + k, n - k)
PROOF
<1> DEFINE c == Len(cin)
           d == Data(n)
           b == NumBlocks(n)
           k == BlockSize * b - c
<1>1. BlockSize \in Nat \ {0} /\ c \in Nat
    BY BlockSizeAssumption
<1>2. /\ b \in Nat /\ (c + n) % BlockSize \in 0 .. BlockSize - 1
      /\ c + n = BlockSize * b + ((c + n) % BlockSize)
    <2>1. c + n \in Nat
        BY <1>1
    <2> QED  BY <1>1, <2>1, Division DEF NumBlocks
<1>3. b >= 1
    BY <1>2
<1> HIDE DEF b, c
<1>4. BlockSize * b \in Nat /\ BlockSize <= BlockSize * b /\ b * BlockSize = BlockSize * b
    BY <1>1, <1>2, <1>3
<1>5. c <= BlockSize * b
    <2>1. CASE c < BlockSize
        BY <1>1, <1>4, <2>1
    <2>2. CASE Divides(BlockSize, c)
        <3>1. PICK j \in Nat : c = BlockSize * j
            BY <2>2 DEF Divides
        <3>2. CASE j <= b
            BY <1>1, <1>2, <3>1, <3>2, Products
        <3>3. CASE b + 1 <= j
            <4>1. BlockSize * (b + 1) <= BlockSize * j /\ BlockSize * (b + 1) = BlockSize * b + BlockSize
                BY <1>1, <1>2, <3>3, Products
            <4>2. c + n < BlockSize * b + BlockSize
                BY <1>1, <1>2, <1>4
            <4> QED  BY <1>1, <1>4, <3>1, <4>1, <4>2
        <3> QED  BY <1>2, <3>2, <3>3
    <2> QED  BY <2>1, <2>2 DEF Fits, c
<1>6. k \in 0..n /\ n - k < BlockSize
    BY <1>1, <1>2, <1>4, <1>5
<1>7. d \in Seq(Nat) /\ Len(d) = n
    BY RunProperties DEF Data
<1>8. MaxBytes(n) = k /\ RemBytes(n) = n - k
    BY <1>4 DEF MaxBytes, RemBytes, b, c
<1> HIDE DEF k
<1>9. Slice(d, 0, k) = Run(given, k)
    <2>1. ~ (0 < 0) /\ ~ (k < 0)
        BY <1>6
    <2>2. Min({0, n}) = 0 /\ Min({k, n}) = k
        BY <1>6, MinMax
    <2>3. Slice(d, 0, k) = SubSeq(d, 0 + 1, k)
        <3> HIDE DEF d
        <3> QED  BY <1>7, <2>1, <2>2 DEF Slice
    <2> QED  BY <1>6, <2>3, RunPrefix DEF Data
<1>10. ToEncode(n) = cin \o Run(given, k)
    BY <1>8, <1>9 DEF ToEncode
<1>11. Run(given, k) \in Seq(Bytes) /\ Len(Run(given, k)) = k
    <2>1. k \in Nat
        BY <1>6
    <2> QED  BY <2>1, RunOrdered, RunProperties
<1>12. ToEncode(n) \in Seq(Bytes) /\ Len(ToEncode(n)) = b * BlockSize
    <2>1. /\ cin \o Run(given, k) \in Seq(Bytes)
          /\ Len(cin \o Run(given, k)) = c + k
        BY <1>11, ConcatProperties DEF c
    <2>2. c + k = b * BlockSize
        BY <1>1, <1>4 DEF k
    <2> QED  BY <1>10, <2>1, <2>2
<1>13. Remaining(n) = Run(given + k, n - k)
    <2>1. CASE n - k > 0
        <3>1. Remaining(n) = Slice(d, k, n)
            <4>1. k + (n - k) = n
                BY <1>6
            <4> QED  BY <1>8, <2>1, <4>1 DEF Remaining
        <3>2. ~ (k < 0) /\ ~ (n < 0)
            BY <1>6
        <3>3. Min({k, n}) = k /\ Min({n, n}) = n
            BY <1>6, MinMax
        <3>4. Slice(d, k, n) = SubSeq(d, k + 1, n)
            <4> HIDE DEF d
            <4> QED  BY <1>7, <3>2, <3>3 DEF Slice
        <3>5. SubSeq(d, k + 1, n) = Run(given + k, n - k)
            BY <1>6, RunSuffix DEF Data
        <3> QED  BY <3>1, <3>4, <3>5
    <2>2. CASE ~ (n - k > 0)
        <3>1. Remaining(n) = <<>> /\ n - k = 0
            BY <1>6, <1>8, <2>2 DEF Remaining
        <3>2. given + k \in Nat
            BY <1>6
        <3>3. Run(given + k, 0) \in Seq(Nat) /\ Len(Run(given + k, 0)) = 0
            BY <3>2, RunProperties
        <3> QED  BY <3>1, <3>3, EmptySeq
    <2> QED  BY <2>1, <2>2
<1> QED  BY <1>2, <1>4, <1>6, <1>10, <1>12, <1>13 DEF k, b, c

(* A call is served in full when nothing of the stream was read before.    *)
LEMMA UnreadIs ==
    ASSUME NEW content \in Seq(Bytes), coff \in 0 .. Len(content)
    PROVE  /\ Unread(content) \in Seq(Bytes)
           /\ Len(Unread(content)) = Len(content) - coff
           /\ Enough(content, Len(content)) <=> coff = 0
           /\ coff = 0 => Unread(content) = content
PROOF
<1>1. \A i \in coff + 1 .. Len(content) : content[i] \in Bytes
    BY ElementOfSeq
<1>2. coff + 1 \in Int /\ Len(content) \in Int
    OBVIOUS
<1>3. /\ Unread(content) \in Seq(Bytes)
      /\ Len(Unread(content)) = IF coff + 1 <= Len(content)
                                THEN Len(content) - (coff + 1) + 1 ELSE 0
    BY <1>1, <1>2, SubSeqProperties DEF Unread
<1>4. Len(Unread(content)) = Len(content) - coff
    BY <1>3
<1>5. Enough(content, Len(content)) <=> coff = 0
    BY <1>4 DEF Enough
<1>6. ASSUME coff = 0 PROVE Unread(content) = content
    <2>1. coff + 1 = 1
        BY <1>6
    <2> QED  BY <2>1, SubSeqFull DEF Unread
<1> QED  BY <1>3, <1>4, <1>5, <1>6

(* With nothing read before, a call that is served in full encodes all of  *)
(* what it was given.                                                      *)
LEMMA EncodedIs ==
    ASSUME NEW content \in Seq(Bytes), coff = 0
    PROVE  Encoded(content, Len(content)) = Encoding(content)
PROOF
<1>1. Unread(content) = content /\ Enough(content, Len(content))
    BY UnreadIs
<1>2. Served(content, Len(content)) = Len(content)
    BY <1>1 DEF Served
<1>3. SubSeq(content, 1, Len(content)) = content
    BY SubSeqFull
<1> QED  BY <1>1, <1>2, <1>3 DEF Encoded

(* A call is served with whole blocks of what is there.                    *)
LEMMA ServedIs ==
    ASSUME NEW content \in Seq(Bytes), coff \in 0 .. Len(content), NEW length \in Nat
    PROVE  /\ Served(content, length) \in 0 .. Len(content) - coff
           /\ Encoded(content, length) \in Seq(Int)
           /\ Served(content, length) = 0 => Len(Encoded(content, length)) = 0
PROOF
<1> DEFINE u == Unread(content)
           v == Served(content, length)
           d == SubSeq(u, 1, v)
<1>1. u \in Seq(Bytes) /\ Len(u) = Len(content) - coff
    BY UnreadIs
<1>2. BlockSize \in Nat \ {0} /\ Len(u) \in Nat
    BY <1>1, BlockSizeAssumption
<1>3. v \in 0 .. Len(u)
    <2>1. CASE Enough(content, length)
        <3>1. length <= Len(u) /\ v = length
            BY <2>1 DEF Enough, Served
        <3> HIDE DEF u, v
        <3> QED  BY <1>2, <3>1
    <2>2. CASE ~ Enough(content, length)
        <3>1. v = BlockSize * (Len(u) \div BlockSize)
            BY <2>2 DEF Served
        <3> HIDE DEF u, v
        <3>2. PICK l \in Nat : l = Len(u)
            BY <1>2
        <3>3. /\ l \div BlockSize \in Nat /\ l % BlockSize \in 0 .. BlockSize - 1
              /\ l = BlockSize * (l \div BlockSize) + (l % BlockSize)
            BY <1>2, Division
        <3>4. v = BlockSize * (l \div BlockSize)
            BY <3>1, <3>2
        <3>5. v \in Nat
            BY <1>2, <3>3, <3>4
        <3> QED  BY <1>2, <3>2, <3>3, <3>4, <3>5
    <2> QED  BY <2>1, <2>2
<1> HIDE DEF u, v
<1>4. d \in Seq(Bytes) /\ Len(d) = v
    <2>1. \A i \in 1 .. v : u[i] \in Bytes
        BY <1>1, <1>3, ElementOfSeq
    <2>2. 1 \in Int /\ v \in Int
        BY <1>2, <1>3
    <2> QED  BY <1>2, <1>3, <2>1, <2>2, SubSeqProperties
<1>5. Encoded(content, length) = Encoding(d)
    BY DEF Encoded, u, v
<1> HIDE DEF d
<1>6. Encoding(d) \in Seq(Int) /\ Len(Encoding(d)) = Len(d) + BlockCount(Len(d))
    BY <1>4, EncodingType
<1>7. ASSUME v = 0 PROVE Len(Encoding(d)) = 0
    <2>1. BlockCount(0) \in Nat /\ \A q \in Nat : q < BlockCount(0) => BlockSize * q < 0
        BY Blocks
    <2>2. BlockSize * 0 = 0
        BY <1>2
    <2>3. BlockCount(0) = 0
        BY <2>1, <2>2
    <2> QED  BY <1>4, <1>6, <1>7, <2>3
<1> QED  BY <1>1, <1>3, <1>5, <1>6, <1>7 DEF v

(* What the encoder that fails leaves in the streams.                      *)
LEMMA FailureLeaves ==
    ASSUME NEW content \in Seq(Bytes), content # <<>>, coff \in 0 .. Len(content),
           NEW length \in Nat, cout \in Seq(Int), coff = 0 => cout = <<>>,
           EncodeFails(content, length) \/ EncodeShort(content, length)
    PROVE  /\ coff' \in 0 .. Len(content) /\ cout' \in Seq(Int)
           /\ coff <= coff' /\ (coff' = 0 => cout' = <<>>)
PROOF
<1> DEFINE units == Encoded(content, length)
           v == Served(content, length)
           upto(n) == BlockSize * (n \div (BlockSize + 1) + 1)
<1>1. v \in 0 .. Len(content) - coff /\ units \in Seq(Int) /\ (v = 0 => Len(units) = 0)
    BY ServedIs
<1>2. BlockSize \in Nat \ {0} /\ Len(content) \in Nat /\ Len(content) # 0
    BY BlockSizeAssumption, EmptySeq
<1> HIDE DEF units, v, upto
<1>3. CASE coff' = coff /\ cout' = cout
    BY <1>2, <1>3
<1>4. ASSUME NEW n \in 0 .. Len(units) - 1,
             cout' = cout \o SubSeq(units, 1, n), coff' = coff + Min({upto(n), v})
      PROVE  coff' \in 1 .. Len(content) /\ coff <= coff' /\ cout' \in Seq(Int)
    <2>1. n \in Nat /\ Len(units) \in Nat /\ Len(units) # 0
        BY <1>1, <1>4
    <2>2. upto(n) \in Nat \ {0}
        <3>1. BlockSize + 1 \in Nat \ {0}
            BY <1>2
        <3>2. n \div (BlockSize + 1) \in Nat
            BY <2>1, <3>1, Division
        <3>3. PICK k \in Nat : k = n \div (BlockSize + 1)
            BY <3>2
        <3>4. BlockSize * (k + 1) \in Nat \ {0}
            BY <1>2
        <3> QED  BY <3>3, <3>4 DEF upto
    <2>3. v \in Nat \ {0} /\ coff \in Nat /\ v <= Len(content) - coff
        BY <1>1, <1>2, <2>1
    <2>4. PICK a \in Nat \ {0} : a = upto(n)
        BY <2>2
    <2>5. Min({a, v}) = IF a <= v THEN a ELSE v
        BY <2>3, MinMax
    <2>6. PICK m \in Nat \ {0} : m = Min({a, v}) /\ m <= v
        BY <2>3, <2>5
    <2>7. coff' = coff + m
        BY <1>4, <2>4, <2>6
    <2>8. coff' \in 1 .. Len(content) /\ coff <= coff'
        <3>1. PICK w \in Nat, c \in Nat, l \in Nat :
                  w = v /\ c = coff /\ l = Len(content) /\ m <= w /\ w <= l - c
            BY <1>2, <2>3, <2>6
        <3>2. c + m \in 1 .. l /\ c <= c + m
            BY <3>1
        <3> QED  BY <2>7, <3>1, <3>2
    <2>9. SubSeq(units, 1, n) \in Seq(Int)
        <3>1. \A i \in 1 .. n : units[i] \in Int
            BY <1>1, <2>1, ElementOfSeq
        <3> QED  BY <2>1, <3>1, SubSeqProperties
    <2> QED  BY <1>4, <2>8, <2>9, ConcatProperties
<1>5. CASE EncodeShort(content, length)
    <2>1. cout' = cout \o units /\ coff' = Len(content)
        BY <1>5 DEF EncodeShort, units
    <2> QED  BY <1>1, <1>2, <2>1, ConcatProperties
<1>6. CASE EncodeFails(content, length)
    <2>1. \/ coff' = coff /\ cout' = cout
          \/ \E n \in 0 .. Len(units) - 1 :
                cout' = cout \o SubSeq(units, 1, n) /\ coff' = coff + Min({upto(n), v})
        BY <1>6, Zenon DEF EncodeFails, units, v, upto
    <2>2. \/ coff' = coff /\ cout' = cout
          \/ coff' \in 1 .. Len(content) /\ coff <= coff' /\ cout' \in Seq(Int)
        BY <2>1, <1>4
    <2> QED  BY <1>2, <1>3, <2>2
<1> QED  BY <1>5, <1>6

-----------------------------------------------------------------------------
(* The inductive invariant.                                                *)

Types ==
    /\ cin \in Seq(Bytes) /\ coff \in 0 .. Len(cin) /\ cout \in Seq(Int) /\ given \in Nat
    /\ din \in Seq(Int) /\ doff \in 0 .. Len(din) /\ dout \in Seq(Int)
    /\ mode \in {"closed", "write", "read", "closing"}
    /\ fp \in {"none", "owned", "given"}
    /\ (mode = "closed") = (fp = "none")
    /\ gap \in BOOLEAN
    /\ file \in Seq(Int) /\ fpos \in 0 .. Len(file)
    /\ result \in {"ok", "write", "encode", "decode", "memory", "close"}
    /\ delivered \in Seq(Int)
    /\ base \in 0 .. given /\ start \in 0 .. Len(file)
    /\ sizes \subseteq Nat
    /\ regular \in BOOLEAN /\ failed \in BOOLEAN /\ torn \in BOOLEAN

(* What a mode leaves untouched.                                           *)
Modes ==
    /\ mode # "read" => fpos = 0 /\ delivered = <<>> /\ ~gap
    /\ mode # "write" => sizes = {} /\ (~failed => cin = <<>>)

(* After huf_encode failed in the middle of its input, the input stream    *)
(* holds whole blocks, of which some are read: it can never serve a call   *)
(* in full again, so that nothing the output stream holds is written.      *)
Compressor ==
    mode = "write" =>
        /\ Fits
        /\ coff = 0 => cout = <<>>
        /\ coff > 0 => BlockSize <= Len(cin)
        /\ ~failed => coff = 0 /\ Len(cin) < BlockSize
        /\ \A m \in Bytes : Divides(m, BlockSize) /\ sizes \subseteq {0, m}
                            => Divides(m, Len(cin))
        /\ regular => Regular(sizes)

(* What is written, and then what can still be written, comes in order.    *)
Order ==
    \E b \in 0 .. given :
        /\ Ordered(Payload(file), 0, b)
        /\ mode = "write" /\ coff = 0 => Ordered(cin, b, given)

(* What the decompressor took is what was read from the file, and it       *)
(* returns bytes once at most.                                             *)
Reading ==
    mode = "read" =>
        /\ doff = 0 => dout = <<>> /\ delivered = <<>>
        /\ ~gap => din = SubSeq(file, 1, fpos) /\ IsPrefix(delivered, Payload(file))

FileInv ==
    /\ Types /\ Modes /\ Compressor /\ Order /\ Reading
    /\ WellFormed /\ NothingLost

-----------------------------------------------------------------------------
(* The invariant holds at the beginning.                                   *)
LEMMA FileInit == Init => FileInv
PROOF
<1> SUFFICES ASSUME Init PROVE FileInv
    OBVIOUS
<1> USE DEF Init, CompInit, DecompInit
<1>1. Len(<<>>) = 0 /\ <<>> \in Seq(Int) /\ <<>> \in Seq(Bytes)
    OBVIOUS
<1>2. Types
    <2>1. cin = <<>> /\ din = <<>> /\ file = <<>> /\ 0 \in 0 .. 0 /\ 0 \in Nat
        OBVIOUS
    <2>2. Len(cin) = 0 /\ Len(din) = 0 /\ Len(file) = 0
        BY <1>1, <2>1
    <2>3. coff \in 0 .. Len(cin) /\ doff \in 0 .. Len(din)
        BY <2>1, <2>2
    <2>4. fpos \in 0 .. Len(file) /\ start \in 0 .. Len(file) /\ base \in 0 .. given
        BY <2>1, <2>2
    <2> QED  BY <1>1, <2>3, <2>4 DEF Types
<1>3. Modes /\ Compressor /\ Reading
    BY DEF Modes, Compressor, Reading
<1>4. Payload(<<>>) = <<>>
    BY PayloadEmpty
<1>5. Order
    <2>1. Ordered(<<>>, 0, 0)
        BY <1>1 DEF Ordered
    <2>2. Ordered(Payload(file), 0, 0)
        BY <1>4, <2>1
    <2> QED  BY <2>2 DEF Order
<1>6. WellFormed
    <2>1. Headers(file) = {}
        BY <1>1 DEF Headers
    <2> QED  BY <2>1 DEF WellFormed, Whole, Continuous
<1>7. NothingLost
    <2>1. Run(0, 0) \in Seq(Nat) /\ Len(Run(0, 0)) = 0
        BY RunProperties
    <2>2. Run(0, 0) = <<>>
        BY <2>1, EmptySeq
    <2>3. base = 0 /\ given - base = 0 /\ Payload(file) = <<>> /\ cin = <<>>
        BY <1>4
    <2>4. <<>> \o <<>> = <<>>
        OBVIOUS
    <2> QED  BY <2>2, <2>3, <2>4 DEF NothingLost
<1> QED  BY <1>2, <1>3, <1>5, <1>6, <1>7 DEF FileInv

-----------------------------------------------------------------------------
(* Opening to write: with an empty compressor, at the end of the file or   *)
(* with an empty file.                                                     *)
LEMMA OpenToWriteStep ==
    ASSUME FileInv, NEW kind \in {"owned", "given"}, NEW truncates \in BOOLEAN,
           OpenToWrite(kind, truncates)
    PROVE  FileInv'
PROOF
<1>1. /\ mode = "closed" /\ mode' = "write" /\ fp' = kind
      /\ cin' = <<>> /\ coff' = 0 /\ cout' = <<>> /\ given' = given
      /\ result' = "ok"
      /\ din' = din /\ doff' = doff /\ dout' = dout /\ fpos' = fpos
      /\ delivered' = delivered /\ gap' = gap /\ sizes' = sizes
    BY DEF OpenToWrite, NewCompressor, decompVars
<1>2. /\ file' \in Seq(Int) /\ start' = Len(file')
      /\ base' \in 0 .. given /\ regular' \in BOOLEAN /\ failed' \in BOOLEAN /\ torn' \in BOOLEAN
      /\ \/ file' = <<>> /\ base' = given
         \/ /\ file' = file /\ base' = base /\ regular' = regular
            /\ failed' = failed /\ torn' = torn
    <2>1. CASE truncates
        <3>1. /\ file' = <<>> /\ start' = 0 /\ base' = given
              /\ regular' = TRUE /\ failed' = FALSE /\ torn' = FALSE
            BY <2>1 DEF OpenToWrite
        <3>2. Len(file') = 0 /\ file' \in Seq(Int)
            BY <3>1
        <3>3. given \in Nat
            BY DEF FileInv, Types
        <3>4. base' \in 0 .. given
            BY <3>1, <3>3
        <3> QED  BY <3>1, <3>2, <3>4
    <2>2. CASE ~ truncates
        <3>1. /\ start' = Len(file) /\ file' = file /\ base' = base
              /\ regular' = regular /\ failed' = failed /\ torn' = torn
            BY <2>2 DEF OpenToWrite
        <3> QED  BY <3>1 DEF FileInv, Types
    <2> QED  BY <2>1, <2>2
<1>3. Len(<<>>) = 0 /\ <<>> \in Seq(Bytes) /\ <<>> \in Seq(Int)
    OBVIOUS
<1>4. Types'
    <2>1. fpos = 0 /\ Len(file') \in Nat
        BY <1>1, <1>2 DEF FileInv, Modes
    <2>2. fpos' \in 0 .. Len(file') /\ start' \in 0 .. Len(file')
        BY <1>1, <1>2, <2>1
    <2>3. coff' \in 0 .. Len(cin')
        BY <1>1, <1>3
    <2>4. base' \in 0 .. given' /\ given' \in Nat
        BY <1>1, <1>2 DEF FileInv, Types
    <2> QED  BY <1>1, <1>2, <1>3, <2>2, <2>3, <2>4 DEF FileInv, Types
<1>5. Modes'
    BY <1>1 DEF FileInv, Modes
<1>6. Compressor'
    <2>1. Len(cin') = 0 /\ BlockSize \in Nat \ {0} /\ sizes' = {}
        BY <1>1, <1>3, BlockSizeAssumption DEF FileInv, Modes
    <2>2. Fits'
        BY <2>1 DEF Fits
    <2>3. Regular(sizes')
        BY <2>1 DEF Regular
    <2>4. \A m \in Bytes : Divides(m, Len(cin'))
        BY <2>1, DividesFacts
    <2> QED  BY <1>1, <2>1, <2>2, <2>3, <2>4 DEF Compressor
<1>7. Order'
    <2>1. PICK b \in 0 .. given : Ordered(Payload(file), 0, b)
        BY DEF FileInv, Order
    <2>2. \A low, high : Ordered(<<>>, low, high)
        BY <1>3 DEF Ordered
    <2>3. Ordered(Payload(file'), 0, b)
        BY <1>2, <2>1, <2>2, PayloadEmpty
    <2>4. b \in 0 .. given' /\ Ordered(cin', b, given')
        BY <1>1, <2>2
    <2> QED  BY <2>3, <2>4 DEF Order
<1>8. Reading'
    BY <1>1 DEF Reading
<1>9. WellFormed'
    <2> SUFFICES ASSUME ~ torn'
                 PROVE  /\ Whole(file')
                        /\ \A i \in Headers(file') : ~ (i > start')
        BY DEF WellFormed
    <2>1. \A i \in Headers(file') : ~ (i > start')
        <3>1. Headers(file') \subseteq 1 .. Len(file')
            BY <1>2 DEF Headers
        <3> QED  BY <1>2, <3>1
    <2>2. CASE file' = <<>>
        <3>1. Headers(file') = {}
            BY <1>3, <2>2 DEF Headers
        <3> QED  BY <2>1, <2>2, <3>1 DEF Whole, Continuous
    <2>3. CASE file' = file /\ torn' = torn
        BY <2>1, <2>3 DEF FileInv, WellFormed
    <2> QED  BY <1>2, <2>2, <2>3
<1>10. NothingLost'
    <2> SUFFICES ASSUME ~ torn', ~ failed', regular'
                 PROVE  Payload(file') \o cin' = Run(base', given' - base')
        BY DEF NothingLost
    <2>1. CASE file' = <<>> /\ base' = given
        <3>1. given \in Nat /\ given - given = 0
            BY DEF FileInv, Types
        <3>2. Run(given, 0) \in Seq(Nat) /\ Len(Run(given, 0)) = 0
            BY <3>1, RunProperties
        <3>3. Run(given, 0) = <<>>
            BY <3>2, EmptySeq
        <3>4. <<>> \o <<>> = <<>>
            OBVIOUS
        <3> QED  BY <1>1, <2>1, <3>1, <3>3, <3>4, PayloadEmpty
    <2>2. CASE /\ file' = file /\ base' = base /\ regular' = regular
               /\ failed' = failed /\ torn' = torn
        <3>1. cin = <<>>
            BY <1>1, <2>2 DEF FileInv, Modes
        <3>2. Payload(file) \o cin = Run(base, given - base)
            BY <2>2 DEF FileInv, NothingLost
        <3> QED  BY <1>1, <2>2, <3>1, <3>2
    <2> QED  BY <1>2, <2>1, <2>2
<1> QED  BY <1>4, <1>5, <1>6, <1>7, <1>8, <1>9, <1>10 DEF FileInv

(* Opening to read: at the beginning of the file.                          *)
LEMMA OpenToReadStep ==
    ASSUME FileInv, NEW kind \in {"owned", "given"}, OpenToRead(kind)
    PROVE  FileInv'
PROOF
<1>1. /\ mode = "closed" /\ mode' = "read" /\ fp' = kind
      /\ din' = <<>> /\ doff' = 0 /\ dout' = <<>> /\ result' = "ok"
      /\ cin' = cin /\ coff' = coff /\ cout' = cout /\ given' = given
      /\ file' = file /\ fpos' = fpos /\ delivered' = delivered /\ gap' = gap
      /\ base' = base /\ start' = Len(file) /\ sizes' = sizes
      /\ regular' = regular /\ failed' = failed /\ torn' = torn
    BY DEF OpenToRead, NewDecompressor, compVars
<1>2. Len(<<>>) = 0 /\ <<>> \in Seq(Int)
    OBVIOUS
<1>3. Types'
    <2>1. doff' \in 0 .. Len(din')
        BY <1>1, <1>2
    <2>2. Len(file) \in Nat /\ start' \in 0 .. Len(file')
        BY <1>1 DEF FileInv, Types
    <2> QED  BY <1>1, <1>2, <2>1, <2>2 DEF FileInv, Types
<1>4. Modes' /\ Compressor'
    BY <1>1 DEF FileInv, Modes, Compressor
<1>5. Order'
    BY <1>1 DEF FileInv, Order
<1>6. Reading'
    <2>1. fpos' = 0 /\ delivered' = <<>>
        BY <1>1 DEF FileInv, Modes
    <2>2. SubSeq(file', 1, 0) = <<>>
        BY SubSeqEmpty
    <2>3. IsPrefix(<<>>, Payload(file'))
        <3>1. file' \in Seq(Int)
            BY <1>3 DEF Types
        <3>2. Len(Payload(file')) \in Nat
            BY <3>1, PayloadType
        <3>3. SubSeq(<<>>, 1, 0) = <<>> /\ SubSeq(Payload(file'), 1, 0) = <<>>
            BY SubSeqEmpty
        <3> QED  BY <1>2, <3>2, <3>3 DEF IsPrefix
    <2> QED  BY <1>1, <2>1, <2>2, <2>3 DEF Reading
<1>7. WellFormed'
    <2>1. Headers(file') \subseteq 1 .. Len(file')
        BY DEF Headers
    <2>2. Len(file') \in Nat
        BY <1>3 DEF Types
    <2>3. \A i \in Headers(file') : ~ (i > start')
        BY <1>1, <2>1, <2>2
    <2> QED  BY <1>1, <2>3 DEF FileInv, WellFormed
<1>8. NothingLost'
    BY <1>1 DEF FileInv, NothingLost
<1> QED  BY <1>3, <1>4, <1>5, <1>6, <1>7, <1>8 DEF FileInv

(* What is decoded is a sequence of numbers.                               *)
LEMMA DecodedType ==
    ASSUME NEW units \in Seq(Int)
    PROVE  Decoded(units) \in Seq(Int)
PROOF
<1>1. Payload(units) \in Seq(Bytes) /\ Bytes \subseteq Int
    BY PayloadType DEF Bytes
<1>2. Payload(units) \in Seq(Int)
    BY <1>1, SeqMonotonic
<1>3. <<Unknown>> \in Seq(Int)
    BY DEF Unknown
<1> QED  BY <1>2, <1>3 DEF Decoded

(* The part of a sequence from some place on.                              *)
LEMMA RestType ==
    ASSUME NEW s \in Seq(Int), NEW m \in Nat
    PROVE  /\ SubSeq(s, m + 1, Len(s)) \in Seq(Int)
           /\ m <= Len(s) => Len(SubSeq(s, m + 1, Len(s))) = Len(s) - m
PROOF
<1>1. m + 1 \in Int /\ Len(s) \in Int /\ \A i \in m + 1 .. Len(s) : s[i] \in Int
    OBVIOUS
<1>2. /\ SubSeq(s, m + 1, Len(s)) \in Seq(Int)
      /\ Len(SubSeq(s, m + 1, Len(s))) = IF m + 1 <= Len(s) THEN Len(s) - (m + 1) + 1 ELSE 0
    BY <1>1, SubSeqProperties
<1> QED  BY <1>1, <1>2

(* A read takes what comes next in the file.                               *)
LEMMA ChunkIs ==
    ASSUME NEW size \in Int, file \in Seq(Int), fpos \in 0 .. Len(file)
    PROVE  /\ Chunk(size) \in Seq(Int)
           /\ fpos + Len(Chunk(size)) \in fpos .. Len(file)
           /\ SubSeq(file, 1, fpos) \o Chunk(size) = SubSeq(file, 1, fpos + Len(Chunk(size)))
PROOF
<1> DEFINE n == IF size < 0 THEN BufferSize ELSE size
           m == Min({fpos + n, Len(file)})
<1>1. n \in Nat /\ fpos \in Nat /\ Len(file) \in Nat /\ fpos <= Len(file)
    BY SizesAssumption
<1>2. m \in fpos .. Len(file)
    <2> HIDE DEF n
    <2>1. PICK a \in Nat : a = fpos + n
        BY <1>1
    <2>2. Min({a, Len(file)}) = IF a <= Len(file) THEN a ELSE Len(file)
        BY <1>1, MinMax
    <2> QED  BY <1>1, <2>1, <2>2
<1>3. Chunk(size) = SubSeq(file, fpos + 1, m)
    BY DEF Chunk
<1> HIDE DEF m, n
<1>4. /\ SubSeq(file, fpos + 1, m) \in Seq(Int)
      /\ Len(SubSeq(file, fpos + 1, m)) = m - fpos
    <2>1. fpos + 1 \in Int /\ m \in Int /\ \A i \in fpos + 1 .. m : file[i] \in Int
        BY <1>1, <1>2
    <2>2. /\ SubSeq(file, fpos + 1, m) \in Seq(Int)
          /\ Len(SubSeq(file, fpos + 1, m)) = IF fpos + 1 <= m THEN m - (fpos + 1) + 1 ELSE 0
        BY <2>1, SubSeqProperties
    <2> QED  BY <1>1, <1>2, <2>2
<1>5. fpos + Len(Chunk(size)) = m
    BY <1>1, <1>2, <1>3, <1>4
<1>6. SubSeq(file, 1, fpos) \o SubSeq(file, fpos + 1, m) = SubSeq(file, 1, m)
    <2>1. 1 \in 1 .. Len(file) + 1 /\ fpos \in 1 - 1 .. Len(file) /\ m \in fpos .. Len(file)
        BY <1>1, <1>2
    <2> QED  BY <2>1, ConcatAdjacentSubSeq
<1> QED  BY <1>2, <1>3, <1>4, <1>5, <1>6

(* A prefix of the file gives a prefix of its bytes.                       *)
LEMMA PrefixGivesPrefix ==
    ASSUME NEW s \in Seq(Int), NEW n \in 0 .. Len(s)
    PROVE  IsPrefix(Payload(SubSeq(s, 1, n)), Payload(s))
PROOF
<1> DEFINE p == Payload(SubSeq(s, 1, n))
           q == Payload(s)
<1>1. SubSeq(s, 1, n) \in Seq(Int) /\ Len(p) \in 0 .. Len(q) /\ p = SubSeq(q, 1, Len(p))
    BY PayloadPrefix
<1>2. p \in Seq(Bytes) /\ q \in Seq(Bytes)
    BY <1>1, PayloadType
<1> HIDE DEF p, q
<1>3. SubSeq(p, 1, Len(p)) = p
    BY <1>2, SubSeqFull
<1>4. Len(p) <= Len(q)
    BY <1>1, <1>2
<1>5. IsPrefix(p, q)
    BY <1>1, <1>3, <1>4 DEF IsPrefix
<1> QED  BY <1>5 DEF p, q

-----------------------------------------------------------------------------
(* A read: whatever becomes of the call, the decompressor took the chunk   *)
(* that follows what it had of the file, or gap says that it did not.  It  *)
(* returns bytes only for a stream it had not touched before.              *)
LEMMA ReadStep ==
    ASSUME FileInv, NEW size \in ReadSizes \cup {Omitted}, Read(size)
    PROVE  FileInv'
PROOF
<1> DEFINE chunk   == Chunk(size)
           content == din \o chunk
           pending == SubSeq(content, doff + 1, Len(content))
<1>1. /\ mode = "read" /\ mode' = mode /\ fp' = fp
      /\ cin' = cin /\ coff' = coff /\ cout' = cout /\ given' = given
      /\ file' = file /\ fpos' = fpos + Len(chunk)
      /\ base' = base /\ start' = start /\ sizes' = sizes
      /\ regular' = regular /\ failed' = failed /\ torn' = torn
    BY DEF Read, compVars
<1>2. /\ din \in Seq(Int) /\ doff \in 0 .. Len(din) /\ dout \in Seq(Int)
      /\ file \in Seq(Int) /\ fpos \in 0 .. Len(file) /\ delivered \in Seq(Int)
      /\ gap \in BOOLEAN
      /\ doff = 0 => dout = <<>> /\ delivered = <<>>
      /\ ~gap => din = SubSeq(file, 1, fpos) /\ IsPrefix(delivered, Payload(file))
    BY <1>1 DEF FileInv, Types, Reading
<1>3. /\ chunk \in Seq(Int) /\ fpos + Len(chunk) \in fpos .. Len(file)
      /\ SubSeq(file, 1, fpos) \o chunk = SubSeq(file, 1, fpos + Len(chunk))
    <2>1. size \in Int
        BY SizesAssumption DEF Omitted
    <2> QED  BY <1>2, <2>1, ChunkIs
<1>4. fpos' \in 0 .. Len(file')
    BY <1>1, <1>2, <1>3
<1> HIDE DEF chunk
<1>5. content \in Seq(Int) /\ Len(content) = Len(din) + Len(chunk) /\ Len(chunk) \in Nat
    BY <1>2, <1>3, ConcatProperties
<1>6. Content(chunk) = content /\ Pending(chunk) = pending
    BY DEF Content, Pending
<1> HIDE DEF content
<1>7. doff \in Nat /\ doff <= Len(content) /\ Len(content) \in Nat
    BY <1>2, <1>5
<1>8. pending \in Seq(Int) /\ Len(pending) = Len(content) - doff
    BY <1>5, <1>7, RestType
<1> HIDE DEF pending
<1>9. Decoded(pending) \in Seq(Int) /\ Decompressed(chunk) = dout \o Decoded(pending)
    BY <1>6, <1>8, DecodedType DEF Decompressed
<1>10. Decompressed(chunk) \in Seq(Int)
    BY <1>2, <1>9, ConcatProperties
<1>11. ~gap => content = SubSeq(file, 1, fpos')
    BY <1>1, <1>2, <1>3 DEF content
<1> DEFINE Reads ==
        /\ din' \in Seq(Int) /\ doff' \in 0 .. Len(din') /\ dout' \in Seq(Int)
        /\ delivered' \in Seq(Int) /\ gap' \in BOOLEAN
        /\ result' \in {"ok", "decode", "memory"}
        /\ doff' = 0 => dout' = <<>> /\ delivered' = <<>>
        /\ ~gap' => din' = SubSeq(file', 1, fpos') /\ IsPrefix(delivered', Payload(file'))
<1>12. ASSUME /\ DecompressReturns(chunk)
            /\ delivered' = delivered \o Decompressed(chunk)
            /\ result' = "ok" /\ gap' = gap
      PROVE  Reads
    <2>1. /\ doff = 0 /\ Whole(content)
          /\ din' = content /\ doff' = Len(content) /\ dout' = <<>>
        BY <1>6, <1>12 DEF DecompressReturns, Completes
    <2>2. pending = content
        <3>1. doff + 1 = 1
            BY <2>1
        <3> QED  BY <1>5, <3>1, SubSeqFull DEF pending
    <2>3. Decoded(pending) = Payload(content)
        BY <2>1, <2>2 DEF Decoded, Whole
    <2>4. delivered' = Payload(content)
        <3>1. dout = <<>> /\ delivered = <<>>
            BY <1>2, <2>1
        <3>2. Payload(content) \in Seq(Bytes)
            BY <1>5, PayloadType
        <3>3. <<>> \o (<<>> \o Payload(content)) = Payload(content)
            BY <3>2, ConcatEmptySeq
        <3> QED  BY <1>9, <1>12, <2>3, <3>1, <3>3
    <2>5. doff' = 0 => delivered' = <<>>
        <3> SUFFICES ASSUME Len(content) = 0 PROVE delivered' = <<>>
            BY <2>1
        <3>1. content = <<>>
            BY <1>5, EmptySeq
        <3> QED  BY <2>4, <3>1, PayloadEmpty
    <2>6. ~gap' => din' = SubSeq(file', 1, fpos') /\ IsPrefix(delivered', Payload(file'))
        <3> SUFFICES ASSUME ~gap
                     PROVE  din' = SubSeq(file', 1, fpos') /\ IsPrefix(delivered', Payload(file'))
            BY <1>12
        <3>1. din' = SubSeq(file, 1, fpos') /\ content = SubSeq(file, 1, fpos')
            BY <1>11, <2>1
        <3>2. IsPrefix(Payload(SubSeq(file, 1, fpos')), Payload(file))
            BY <1>1, <1>2, <1>4, PrefixGivesPrefix
        <3> QED  BY <1>1, <2>4, <3>1, <3>2
    <2>7. delivered' \in Seq(Int)
        BY <1>2, <1>10, <1>12, ConcatProperties
    <2>8. doff' \in 0 .. Len(din')
        BY <1>7, <2>1
    <2> QED  BY <1>2, <1>5, <1>12, <2>1, <2>5, <2>6, <2>7, <2>8
<1>13. ASSUME /\ DecompressShort(chunk)
            /\ result' = "decode" /\ delivered' = delivered /\ gap' = gap
      PROVE  Reads
    <2>1. /\ ~ (doff = 0 /\ Whole(content))
          /\ din' = content /\ doff' = Len(content) /\ dout' = Decompressed(chunk)
        BY <1>6, <1>13 DEF DecompressShort, Completes
    <2>2. doff' # 0
        <3> SUFFICES ASSUME Len(content) = 0 PROVE FALSE
            BY <2>1
        <3>1. content = <<>> /\ doff = 0
            BY <1>5, <1>7, EmptySeq
        <3>2. Headers(<<>>) = {}
            BY DEF Headers
        <3>3. Whole(content)
            BY <3>1, <3>2 DEF Whole, Continuous
        <3> QED  BY <2>1, <3>1, <3>3
    <2>3. doff' \in 0 .. Len(din')
        BY <1>7, <2>1
    <2> QED  BY <1>1, <1>2, <1>5, <1>10, <1>11, <1>13, <2>1, <2>2, <2>3
<1>14. ASSUME /\ DecompressRefuses(chunk)
            /\ result' = "memory" /\ gap' = TRUE /\ delivered' = delivered
      PROVE  Reads
    <2>1. din' = din /\ doff' = doff /\ dout' = dout
        BY <1>14 DEF DecompressRefuses, decompVars
    <2> QED  BY <1>2, <1>14, <2>1
<1>15. ASSUME /\ DecompressFails(chunk)
            /\ result' = "memory" /\ delivered' = delivered /\ gap' = gap
      PROVE  Reads
    <2>1a. PICK k \in 0 .. Len(pending) : \E written \in {k - 1, k} \cap Nat :
              /\ din' = content /\ doff' = doff + k
              /\ dout' = dout \o Decoded(SubSeq(pending, 1, written))
        BY <1>6, <1>15 DEF DecompressFails
    <2>1. PICK written \in {k - 1, k} \cap Nat :
              /\ din' = content /\ doff' = doff + k
              /\ dout' = dout \o Decoded(SubSeq(pending, 1, written))
        BY <2>1a
    <2>2. k \in Nat /\ written \in 0 .. Len(pending) /\ (k = 0 => written = 0)
        BY <1>8, <2>1
    <2>3. SubSeq(pending, 1, written) \in Seq(Int)
        BY <1>8, <2>2, PayloadPrefix
    <2>4. dout' \in Seq(Int)
        <3>1. Decoded(SubSeq(pending, 1, written)) \in Seq(Int)
            BY <2>3, DecodedType
        <3> QED  BY <1>2, <2>1, <3>1, ConcatProperties
    <2>5. doff' \in 0 .. Len(din')
        BY <1>7, <1>8, <2>1
    <2>6. ASSUME doff' = 0 PROVE dout' = <<>> /\ delivered' = <<>>
        <3>1. doff = 0 /\ k = 0 /\ written = 0
            BY <1>7, <2>1, <2>2, <2>6
        <3>2. SubSeq(pending, 1, 0) = <<>>
            BY SubSeqEmpty
        <3>3. Decoded(<<>>) = <<>>
            <4>1. Headers(<<>>) = {}
                BY DEF Headers
            <4>2. Continuous(<<>>)
                BY <4>1 DEF Continuous
            <4> QED  BY <4>2, PayloadEmpty DEF Decoded
        <3>4. <<>> \o <<>> = <<>>
            OBVIOUS
        <3> QED  BY <1>2, <1>15, <2>1, <3>1, <3>2, <3>3, <3>4
    <2> QED  BY <1>1, <1>2, <1>5, <1>11, <1>15, <2>1, <2>4, <2>5, <2>6
<1>16. Reads
    <2>1. \/ /\ DecompressReturns(chunk)
             /\ delivered' = delivered \o Decompressed(chunk)
             /\ result' = "ok" /\ gap' = gap
          \/ /\ DecompressShort(chunk)
             /\ result' = "decode" /\ delivered' = delivered /\ gap' = gap
          \/ /\ DecompressRefuses(chunk)
             /\ result' = "memory" /\ gap' = TRUE /\ delivered' = delivered
          \/ /\ DecompressFails(chunk)
             /\ result' = "memory" /\ delivered' = delivered /\ gap' = gap
        BY DEF Read, chunk
    <2> HIDE DEF Reads
    <2> QED  BY <1>12, <1>13, <1>14, <1>15, <2>1
<1>17. Types'
    BY <1>1, <1>4, <1>16 DEF FileInv, Types
<1>18. Modes' /\ Compressor'
    BY <1>1 DEF FileInv, Modes, Compressor, Fits
<1>19. Order' /\ WellFormed' /\ NothingLost'
    BY <1>1 DEF FileInv, Order, WellFormed, NothingLost
<1>20. Reading'
    BY <1>16 DEF Reading
<1> QED  BY <1>17, <1>18, <1>19, <1>20 DEF FileInv

(* The end of a session that reads.                                        *)
LEMMA CloseReadingStep ==
    ASSUME FileInv, CloseReading
    PROVE  FileInv'
PROOF
<1>1. /\ mode = "read" /\ mode' = "closing" /\ fp' = fp
      /\ din' = <<>> /\ doff' = 0 /\ dout' = <<>> /\ result' = "ok"
      /\ fpos' = 0 /\ delivered' = <<>> /\ gap' = FALSE
      /\ cin' = cin /\ coff' = coff /\ cout' = cout /\ given' = given
      /\ file' = file /\ base' = base /\ start' = start /\ sizes' = sizes
      /\ regular' = regular /\ failed' = failed /\ torn' = torn
    BY DEF CloseReading, NewDecompressor, compVars
<1>2. Len(<<>>) = 0 /\ <<>> \in Seq(Int)
    OBVIOUS
<1>3. Types'
    <2>1. file \in Seq(Int) /\ Len(file) \in Nat
        BY DEF FileInv, Types
    <2>2. doff' \in 0 .. Len(din') /\ fpos' \in 0 .. Len(file')
        BY <1>1, <1>2, <2>1
    <2> QED  BY <1>1, <1>2, <2>2 DEF FileInv, Types
<1>4. Modes'
    BY <1>1 DEF FileInv, Modes
<1>5. Compressor' /\ Reading'
    BY <1>1 DEF Compressor, Reading
<1>6. Order'
    BY <1>1 DEF FileInv, Order
<1>7. WellFormed' /\ NothingLost'
    BY <1>1 DEF FileInv, WellFormed, NothingLost
<1> QED  BY <1>3, <1>4, <1>5, <1>6, <1>7 DEF FileInv

(* The file object is closed, and may lose an end of what the session      *)
(* wrote: what is left is still in order.                                  *)
LEMMA CloseFpStep ==
    ASSUME FileInv, CloseFp
    PROVE  FileInv'
PROOF
<1>1. /\ mode = "closing" /\ mode' = "closed" /\ fp' = "none"
      /\ cin' = cin /\ coff' = coff /\ cout' = cout /\ given' = given
      /\ din' = din /\ doff' = doff /\ dout' = dout
      /\ fpos' = fpos /\ delivered' = delivered /\ gap' = gap
      /\ base' = base /\ start' = start /\ sizes' = sizes
      /\ regular' = regular /\ failed' = failed
    BY DEF CloseFp, compVars, decompVars
<1>2. PICK n \in start .. Len(file) :
         /\ file' = SubSeq(file, 1, n)
         /\ torn' = (torn \/ n < Len(file))
         /\ result' \in {result, "close"}
    <2>1. file \in Seq(Int) /\ Len(file) \in start .. Len(file)
        BY DEF FileInv, Types
    <2>2. SubSeq(file, 1, Len(file)) = file
        BY <2>1, SubSeqFull
    <2>3. torn = (torn \/ Len(file) < Len(file))
        BY <2>1 DEF FileInv, Types
    <2>4. CASE file' = file /\ result' = result /\ torn' = torn
        BY <2>1, <2>2, <2>3, <2>4
    <2>5. CASE /\ result' = "close"
               /\ \E n \in start .. Len(file) :
                     file' = SubSeq(file, 1, n) /\ torn' = (torn \/ n < Len(file))
        BY <2>5
    <2> QED  BY <2>4, <2>5 DEF CloseFp
<1>3. /\ file \in Seq(Int) /\ Len(file) \in Nat /\ start \in Nat /\ n \in 0 .. Len(file)
      /\ fpos = 0 /\ given \in Nat
    BY <1>1 DEF FileInv, Types, Modes
<1>4. file' \in Seq(Int) /\ Len(file') = n
    BY <1>2, <1>3, PayloadPrefix
<1>5. Types'
    <2>1. fpos' \in 0 .. Len(file') /\ start' \in 0 .. Len(file')
        BY <1>1, <1>3, <1>4
    <2>2. torn' \in BOOLEAN
        BY <1>2
    <2>3. result' \in {"ok", "write", "encode", "decode", "memory", "close"}
        BY <1>2 DEF FileInv, Types
    <2> QED  BY <1>1, <1>4, <2>1, <2>2, <2>3 DEF FileInv, Types
<1>6. Modes'
    BY <1>1 DEF FileInv, Modes
<1>7. Compressor' /\ Reading'
    BY <1>1 DEF Compressor, Reading
<1>8. Order'
    <2>1. PICK b \in 0 .. given : Ordered(Payload(file), 0, b)
        BY DEF FileInv, Order
    <2>2. PICK k \in 0 .. Len(Payload(file)) : Payload(file') = SubSeq(Payload(file), 1, k)
        BY <1>2, <1>3, PayloadPrefix
    <2>3. Payload(file) \in Seq(Bytes) /\ b \in Nat
        BY <1>3, PayloadType
    <2>4. Ordered(Payload(file'), 0, b)
        BY <2>1, <2>2, <2>3, OrderedPrefix
    <2> QED  BY <1>1, <2>4 DEF Order
<1>9. ~ torn' => ~ torn /\ file' = file
    <2>1. ~ torn' => ~ torn /\ ~ (n < Len(file))
        BY <1>2, Zenon
    <2>2. ~ (n < Len(file)) => n = Len(file)
        BY <1>3
    <2>3. SubSeq(file, 1, Len(file)) = file
        BY <1>3, SubSeqFull
    <2>4. ~ (n < Len(file)) => file' = file
        BY <1>2, <2>2, <2>3
    <2> QED  BY <2>1, <2>4, Zenon
<1>10. WellFormed' /\ NothingLost'
    BY <1>1, <1>9 DEF FileInv, WellFormed, NothingLost
<1> QED  BY <1>5, <1>6, <1>7, <1>8, <1>10 DEF FileInv

-----------------------------------------------------------------------------
(* Nothing is encoded as nothing.                                          *)
LEMMA EncodingNone == Encoding(<<>>) = <<>>
PROOF
<1>1. <<>> \in Seq(Bytes) /\ Len(<<>>) = 0
    OBVIOUS
<1>2. BlockCount(0) = 0
    <2>1. BlockCount(0) \in Nat /\ \A q \in Nat : q < BlockCount(0) => BlockSize * q < 0
        BY Blocks
    <2>2. BlockSize * 0 = 0
        BY BlockSizeAssumption
    <2> QED  BY <2>1, <2>2
<1>3. Encoding(<<>>) \in Seq(Int) /\ Len(Encoding(<<>>)) = 0 + BlockCount(0)
    BY <1>1, EncodingType
<1> QED  BY <1>2, <1>3, EmptySeq

(* What a write of encoded data makes of the file: all of it is there, or  *)
(* a beginning.                                                            *)
LEMMA FileGrows ==
    ASSUME file \in Seq(Int), torn \in BOOLEAN, NEW data \in Seq(Bytes), FpWrite(Encoding(data))
    PROVE  /\ file' \in Seq(Int) /\ Len(file) <= Len(file')
           /\ result' \in {"ok", "write"} /\ failed' = failed /\ torn' \in BOOLEAN
           /\ \E k \in 0 .. Len(data) :
                 Payload(file') = Payload(file) \o SubSeq(data, 1, k)
           /\ ~ torn' => /\ ~ torn /\ file' = file \o Encoding(data)
                         /\ Payload(file') = Payload(file) \o data
PROOF
<1> DEFINE e == Encoding(data)
<1>1. e \in Seq(Int) /\ Len(e) \in Nat /\ Payload(e) = data
    BY EncodingType, EncodingPayload
<1> HIDE DEF e
<1>2. CASE FpWrites(e) /\ failed' = failed
    <2>1. file' = file \o e /\ result' = "ok" /\ torn' = torn
        BY <1>2 DEF FpWrites
    <2>2. file' \in Seq(Int) /\ Len(file') = Len(file) + Len(e)
        BY <1>1, <2>1, ConcatProperties
    <2>3. Payload(file') = Payload(file) \o data
        BY <1>1, <2>1, PayloadConcat
    <2>4. SubSeq(data, 1, Len(data)) = data /\ Len(data) \in 0 .. Len(data)
        BY SubSeqFull
    <2>5. \E k \in 0 .. Len(data) : Payload(file') = Payload(file) \o SubSeq(data, 1, k)
        BY <2>3, <2>4, Zenon
    <2>6. file' \in Seq(Int) /\ Len(file) <= Len(file')
        BY <1>1, <2>2
    <2> QED  BY <1>2, <2>1, <2>3, <2>5, <2>6, Zenon DEF e
<1>3. CASE FpWritesLess(e) /\ failed' = failed
    <2>1. PICK n \in 0 .. Len(e) - 1 : file' = file \o SubSeq(e, 1, n)
        BY <1>3 DEF FpWritesLess
    <2>2. result' \in {"ok", "write"} /\ torn' = TRUE
        BY <1>3 DEF FpWritesLess
    <2>3. n \in 0 .. Len(e)
        BY <1>1, <2>1
    <2>4. /\ SubSeq(e, 1, n) \in Seq(Int)
          /\ Len(Payload(SubSeq(e, 1, n))) \in 0 .. Len(data)
          /\ Payload(SubSeq(e, 1, n)) = SubSeq(data, 1, Len(Payload(SubSeq(e, 1, n))))
        BY <1>1, <2>3, PayloadPrefix
    <2>5. file' \in Seq(Int) /\ Len(file') = Len(file) + Len(SubSeq(e, 1, n))
        BY <2>1, <2>4, ConcatProperties
    <2>6. Len(file) <= Len(file')
        <3>1. Len(SubSeq(e, 1, n)) \in Nat /\ Len(file) \in Nat
            BY <2>4
        <3> QED  BY <2>5, <3>1
    <2>7. Payload(file') = Payload(file) \o Payload(SubSeq(e, 1, n))
        BY <2>1, <2>4, PayloadConcat
    <2>8. \E k \in 0 .. Len(data) : Payload(file') = Payload(file) \o SubSeq(data, 1, k)
        BY <2>4, <2>7, Zenon
    <2>9. file' \in Seq(Int)
        BY <2>5
    <2> HIDE DEF FpWritesLess
    <2> QED  BY <1>3, <2>2, <2>6, <2>8, <2>9, Zenon
<1> QED  BY <1>2, <1>3 DEF FpWrite, e

(* The blocks of the file stay whole and full, also when the session ends  *)
(* with the write of one that is not full.                                 *)
LEMMA WellFormedGrows ==
    ASSUME file \in Seq(Int), torn \in BOOLEAN, start \in 0 .. Len(file), start' = start,
           mode = "write", WellFormed, NEW data \in Seq(Bytes), FpWrite(Encoding(data)),
           mode' = "write" => Divides(BlockSize, Len(data))
    PROVE  WellFormed'
PROOF
<1> DEFINE e == Encoding(data)
<1>1. e \in Seq(Int) /\ Len(e) \in Nat
    BY EncodingType
<1> SUFFICES ASSUME ~ torn'
             PROVE  /\ Whole(file')
                    /\ \A i \in Headers(file') :
                          i > start' /\ (mode' = "write" \/ BlockEnd(file', i) < Len(file'))
                          => BlockEnd(file', i) = i + BlockSize
    BY DEF WellFormed
<1>2. ~ torn /\ file' = file \o e
    BY FileGrows
<1>3. /\ Whole(file)
      /\ \A i \in Headers(file) : i > start => BlockEnd(file, i) = i + BlockSize
    BY <1>2 DEF WellFormed
<1>4. Whole(e)
    BY EncodingWhole
<1>5. Whole(file')
    BY <1>1, <1>2, <1>3, <1>4, WholeConcat
<1>6. Len(file') = Len(file) + Len(e)
    BY <1>1, <1>2, ConcatProperties
<1>7. ASSUME NEW i \in Headers(file'), i > start',
             mode' = "write" \/ BlockEnd(file', i) < Len(file')
      PROVE  BlockEnd(file', i) = i + BlockSize
    <2>1. CASE i \in Headers(file)
        <3>1. BlockEnd(file', i) = BlockEnd(file, i)
            BY <1>1, <1>2, <2>1, HeadersOfConcat
        <3> QED  BY <1>3, <1>7, <2>1, <3>1
    <2>2. CASE i > Len(file) /\ i - Len(file) \in Headers(e)
        <3> DEFINE j == i - Len(file)
        <3>1. i \in Nat /\ i = Len(file) + j /\ j \in Headers(e) /\ Len(file) \in Nat
            <4>1. file' \in Seq(Int)
                BY <1>1, <1>2, ConcatProperties
            <4>2. i \in 1 .. Len(file')
                BY <4>1 DEF Headers
            <4> QED  BY <2>2, <4>2
        <3> HIDE DEF j
        <3>2. BlockEnd(file', i) = Len(file) + BlockEnd(e, j)
            BY <1>1, <1>2, <3>1, HeadersOfConcat
        <3> DEFINE m == BlockEnd(e, j) - j
        <3>3. /\ j \in 1 .. Len(e) /\ m \in 1 .. BlockSize
              /\ j + m < Len(e) => m = BlockSize
              /\ Divides(BlockSize, Len(data)) => m = BlockSize
            BY <3>1, EncodingBlocks DEF e
        <3>4. BlockEnd(e, j) \in Int
            <4>1. e[j] \in Int
                BY <1>1, <3>3, ElementOfSeq
            <4> QED  BY <3>3, <4>1 DEF BlockEnd
        <3>5. BlockEnd(e, j) = j + m
            BY <3>3, <3>4
        <3> HIDE DEF m
        <3>6. m = BlockSize
            <4>1. CASE mode' = "write"
                BY <3>3, <4>1
            <4>2. CASE BlockEnd(file', i) < Len(file')
                <5>1. j + m < Len(e)
                    BY <1>1, <1>6, <3>1, <3>2, <3>3, <3>5, <4>2, BlockSizeAssumption
                <5> QED  BY <3>3, <5>1
            <4> QED  BY <1>7, <4>1, <4>2
        <3> QED  BY <3>1, <3>2, <3>3, <3>5, <3>6, BlockSizeAssumption
    <2> QED  BY <1>1, <1>2, <1>7, <2>1, <2>2, HeadersOfConcat
<1> QED  BY <1>5, <1>7

(* What is written comes in order.                                         *)
LEMMA OrderGrows ==
    ASSUME file \in Seq(Int), torn \in BOOLEAN, NEW data \in Seq(Bytes), FpWrite(Encoding(data)),
           NEW b \in Nat, NEW c \in Nat, b <= c,
           Ordered(Payload(file), 0, b), Ordered(data, b, c)
    PROVE  Ordered(Payload(file'), 0, c)
PROOF
<1>1. PICK k \in 0 .. Len(data) : Payload(file') = Payload(file) \o SubSeq(data, 1, k)
    BY FileGrows
<1>2. SubSeq(data, 1, k) \in Seq(Bytes) /\ Ordered(SubSeq(data, 1, k), b, c)
    BY OrderedPrefix
<1>3. Payload(file) \in Seq(Bytes)
    BY PayloadType
<1>4. 0 \in Nat /\ 0 <= b
    OBVIOUS
<1> QED  BY <1>1, <1>2, <1>3, <1>4, OrderedConcat

(* What a write or the end of a session leaves alone.                      *)
LEMMA WritingFrame ==
    ASSUME FileInv, mode = "write",
           cin' \in Seq(Bytes), coff' \in 0 .. Len(cin'), cout' \in Seq(Int),
           given' \in Nat, given <= given',
           file' \in Seq(Int), Len(file) <= Len(file'),
           result' \in {"ok", "write", "encode"},
           failed' \in BOOLEAN, torn' \in BOOLEAN,
           UNCHANGED <<decompVars, fpos, delivered, gap, base, start>>,
           \/ /\ mode' = "write" /\ fp' = fp
              /\ sizes' \subseteq Nat /\ regular' \in BOOLEAN
           \/ /\ mode' = "closing" /\ fp' = fp /\ sizes' = {} /\ regular' = regular
              /\ failed' \/ cin' = <<>>
    PROVE  Types' /\ Modes' /\ Reading'
PROOF
<1>1. /\ din' = din /\ doff' = doff /\ dout' = dout /\ fpos' = fpos
      /\ delivered' = delivered /\ gap' = gap /\ base' = base /\ start' = start
    BY DEF decompVars
<1>2. /\ fpos = 0 /\ delivered = <<>> /\ ~gap
    BY DEF FileInv, Modes
<1>3. Len(file) \in Nat /\ Len(file') \in Nat /\ start \in 0 .. Len(file) /\ base \in 0 .. given
    BY DEF FileInv, Types
<1>4. fpos' \in 0 .. Len(file') /\ start' \in 0 .. Len(file') /\ base' \in 0 .. given'
    <2>1. given \in Nat
        BY DEF FileInv, Types
    <2> QED  BY <1>1, <1>2, <1>3, <2>1
<1>5. CASE /\ mode' = "write" /\ fp' = fp
           /\ sizes' \subseteq Nat /\ regular' \in BOOLEAN
    <2>1. Types'
        BY <1>1, <1>4, <1>5 DEF FileInv, Types
    <2> QED  BY <1>1, <1>2, <1>5, <2>1 DEF Modes, Reading
<1>6. CASE /\ mode' = "closing" /\ fp' = fp /\ sizes' = {} /\ regular' = regular
           /\ failed' \/ cin' = <<>>
    <2>1. Types'
        BY <1>1, <1>4, <1>6 DEF FileInv, Types
    <2> QED  BY <1>1, <1>2, <1>6, <2>1 DEF Modes, Reading
<1> QED  BY <1>5, <1>6

(* A write of a length that the earlier ones and the block size allow      *)
(* fills the input stream to a multiple of that length.                    *)
LEMMA MultiplesStay ==
    ASSUME FileInv, mode = "write", NEW n \in Nat, NEW m \in Bytes,
           Divides(m, BlockSize), sizes \cup {n} \subseteq {0, m}
    PROVE  /\ Divides(m, Len(cin)) /\ Divides(m, n)
           /\ Len(cin) = 0 \/ n <= Len(cin)
PROOF
<1>1. Divides(m, Len(cin)) /\ Len(cin) \in Nat
    BY DEF FileInv, Compressor, Types
<1>2. n = 0 \/ n = m
    OBVIOUS
<1>3. Divides(m, n)
    BY <1>2, DividesFacts
<1>4. Len(cin) # 0 => m <= Len(cin)
    BY <1>1, DividesFacts
<1> QED  BY <1>1, <1>2, <1>3, <1>4

(* Concatenation is associative.                                           *)
LEMMA BytesAssociative ==
    ASSUME NEW s \in Seq(Bytes), NEW t \in Seq(Bytes), NEW u \in Seq(Bytes)
    PROVE  s \o (t \o u) = (s \o t) \o u
PROOF BY ConcatAssociative

(* A write that fills no block: it is kept by the compressor, but for what *)
(* an irregular write loses.                                               *)
LEMMA KeepsStep ==
    ASSUME FileInv, NEW n \in WriteSizes, Write(n), CompressKeeps(n), FpWrite(<<>>)
    PROVE  FileInv'
PROOF
<1>1. /\ mode = "write" /\ mode' = mode /\ fp' = fp
      /\ sizes' = sizes \cup {n} /\ regular' = (regular /\ Regular(sizes'))
      /\ UNCHANGED <<decompVars, fpos, delivered, gap, base, start>>
    BY DEF Write
<1>2. /\ NumBlocks(n) = 0 /\ cin' = cin \o Remaining(n) /\ given' = given + n
      /\ coff' = coff /\ cout' = cout
    BY DEF CompressKeeps
<1>3. /\ cin \in Seq(Bytes) /\ Len(cin) \in Nat /\ coff \in 0 .. Len(cin) /\ cout \in Seq(Int)
      /\ given \in Nat /\ file \in Seq(Int) /\ torn \in BOOLEAN /\ failed \in BOOLEAN
      /\ regular \in BOOLEAN /\ sizes \subseteq Nat /\ base \in 0 .. given
      /\ start \in 0 .. Len(file)
    BY DEF FileInv, Types
<1>4. n \in Nat /\ BlockSize \in Nat \ {0}
    BY SizesAssumption, BlockSizeAssumption
<1>5. Len(cin) + n < BlockSize
    BY <1>2, <1>3, <1>4, KeepsIs
<1>6. PICK j \in 0..n : /\ Remaining(n) = Run(given + j, n - j)
                        /\ Len(cin) = 0 \/ n <= Len(cin) => j = 0
    BY <1>2, <1>3, <1>4, KeepsIs
<1>7. PICK a \in Nat, l \in Nat : a = given + j /\ l = n - j
    BY <1>3, <1>4
<1>8. Run(a, l) \in Seq(Bytes) /\ Ordered(Run(a, l), a, a + l) /\ Len(Run(a, l)) = l
    BY RunOrdered, RunProperties
<1>9. cin' = cin \o Run(a, l)
    BY <1>2, <1>6, <1>7
<1>10. cin' \in Seq(Bytes) /\ Len(cin') = Len(cin) + l
    BY <1>3, <1>8, <1>9, ConcatProperties
<1>11. Len(cin') \in Nat /\ Len(cin) <= Len(cin') /\ Len(cin') < BlockSize
    BY <1>3, <1>4, <1>5, <1>7, <1>10
<1>12. coff = 0 /\ cout = <<>>
    BY <1>1, <1>3, <1>4, <1>5 DEF FileInv, Compressor
<1>13. FpWrite(Encoding(<<>>)) /\ <<>> \in Seq(Bytes) /\ Len(<<>>) = 0
    BY EncodingNone
<1>14. /\ file' \in Seq(Int) /\ Len(file) <= Len(file')
       /\ result' \in {"ok", "write"} /\ failed' = failed /\ torn' \in BOOLEAN
       /\ ~ torn' => ~ torn /\ Payload(file') = Payload(file) \o <<>>
    BY <1>3, <1>13, FileGrows, Zenon
<1>15. Types' /\ Modes' /\ Reading'
    <2>1. coff' \in 0 .. Len(cin') /\ given' \in Nat /\ given <= given'
        BY <1>2, <1>3, <1>4, <1>11
    <2>2. sizes' \subseteq Nat /\ regular' \in BOOLEAN
        BY <1>1, <1>3, <1>4
    <2> QED  BY <1>1, <1>2, <1>3, <1>10, <1>14, <2>1, <2>2, WritingFrame
<1>16. Compressor'
    <2>1. ASSUME NEW m \in Bytes, Divides(m, BlockSize), sizes' \subseteq {0, m}
          PROVE  Divides(m, Len(cin'))
        <3>1. Divides(m, Len(cin)) /\ Divides(m, n) /\ j = 0
            BY <1>1, <1>4, <1>6, <2>1, MultiplesStay
        <3>2. Len(cin') = Len(cin) + n
            BY <1>4, <1>7, <1>10, <3>1
        <3> QED  BY <1>3, <1>4, <3>1, <3>2, DividesFacts
    <2>2. Fits'
        BY <1>11 DEF Fits
    <2>3. coff' = 0 /\ ~ (coff' > 0) /\ cout' = <<>>
        BY <1>2, <1>12
    <2>4. regular' => Regular(sizes')
        BY <1>1
    <2> QED  BY <1>11, <2>1, <2>2, <2>3, <2>4, Zenon DEF Compressor
<1>17. Order'
    <2>1. PICK b \in 0 .. given : Ordered(Payload(file), 0, b) /\ Ordered(cin, b, given)
        BY <1>1, <1>12 DEF FileInv, Order
    <2>2. b \in Nat /\ b <= b /\ b \in 0 .. given'
        BY <1>2, <1>3, <1>4
    <2>3. Ordered(<<>>, b, b)
        BY <1>13 DEF Ordered
    <2>4. Ordered(Payload(file'), 0, b)
        BY <1>3, <1>13, <2>1, <2>2, <2>3, OrderGrows
    <2>5. given <= a /\ a + l = given' /\ b <= a /\ a <= a + l /\ a + l \in Nat
        BY <1>2, <1>3, <1>4, <1>7, <2>2
    <2>6. Ordered(cin, b, a)
        BY <1>3, <2>1, <2>2, <2>5, OrderedWider
    <2>7. Ordered(cin', b, given')
        BY <1>3, <1>8, <1>9, <2>2, <2>5, <2>6, OrderedConcat
    <2> QED  BY <2>2, <2>4, <2>7 DEF Order
<1>18. WellFormed'
    <2>1. Divides(BlockSize, 0)
        BY <1>4, DividesFacts DEF Bytes
    <2> QED  BY <1>1, <1>3, <1>13, <2>1, WellFormedGrows DEF FileInv
<1>19. NothingLost'
    <2> SUFFICES ASSUME ~ torn', ~ failed', regular'
                 PROVE  Payload(file') \o cin' = Run(base', given' - base')
        BY DEF NothingLost
    <2>1. ~ torn /\ ~ failed /\ regular /\ Regular(sizes \cup {n})
        BY <1>1, <1>14
    <2>2. Payload(file) \o cin = Run(base, given - base)
        BY <2>1 DEF FileInv, NothingLost
    <2>3. Len(cin) = 0 \/ n <= Len(cin)
        <3>1. CASE \A i \in sizes \cup {n} : i >= BlockSize
            BY <1>3, <1>4, <1>5, <3>1
        <3>2. CASE \E m \in sizes \cup {n} :
                      m > 0 /\ BlockSize % m = 0 /\ sizes \cup {n} \subseteq {0, m}
            <4>1. PICK m \in Bytes : BlockSize % m = 0 /\ sizes \cup {n} \subseteq {0, m}
                BY <1>3, <1>4, <3>2 DEF Bytes
            <4>2. Divides(m, BlockSize)
                BY <1>4, <4>1, DividesFacts
            <4> QED  BY <1>1, <1>4, <4>1, <4>2, MultiplesStay
        <3>3. CASE sizes \cup {n} \subseteq {0}
            <4>1. n = 0
                BY <3>3
            <4> QED  BY <1>3, <4>1
        <3> QED  BY <2>1, <3>1, <3>2, <3>3 DEF Regular
    <2>4. a = given /\ l = n
        BY <1>3, <1>4, <1>6, <1>7, <2>3
    <2>5. Payload(file) \in Seq(Bytes)
        BY <1>3, PayloadType
    <2>6. Payload(file') = Payload(file)
        BY <1>14, <2>5, ConcatEmptySeq
    <2>7. Payload(file) \o (cin \o Run(given, n)) = (Payload(file) \o cin) \o Run(given, n)
        <3>1. Run(given, n) \in Seq(Bytes)
            BY <1>8, <2>4
        <3> QED  BY <1>3, <2>5, <3>1, BytesAssociative, Zenon
    <2>8. Run(base, given - base) \o Run(given, n) = Run(base, given + n - base)
        <3>1. PICK w \in Nat : w = given - base
            BY <1>3
        <3>2. base + w = given /\ w + n = given + n - base /\ base \in Nat
            BY <1>3, <1>4, <3>1
        <3>3. Run(base, w) \o Run(base + w, n) = Run(base, w + n)
            BY <1>4, <3>2, RunConcat
        <3> QED  BY <3>1, <3>2, <3>3, Zenon
    <2>9. cin' = cin \o Run(given, n) /\ base' = base /\ given' = given + n
        BY <1>1, <1>2, <1>9, <2>4
    <2>10. Payload(file') \o cin' = Payload(file) \o (cin \o Run(given, n))
        BY <2>6, <2>9
    <2>11. Run(base', given' - base') = Run(base, given + n - base)
        <3>1. given' - base' = given + n - base
            BY <1>3, <1>4, <2>9
        <3> QED  BY <2>9, <3>1
    <2>12. (Payload(file) \o cin) \o Run(given, n) = Run(base, given - base) \o Run(given, n)
        BY <2>2
    <2> QED  BY <2>7, <2>8, <2>10, <2>11, <2>12
<1> QED  BY <1>15, <1>16, <1>17, <1>18, <1>19 DEF FileInv

(* What a call with full blocks hands to huf_encode.                       *)
LEMMA CallIs ==
    ASSUME FileInv, mode = "write", NEW n \in Nat, NumBlocks(n) > 0
    PROVE  \E k \in 0..n :
              /\ k = BlockSize * NumBlocks(n) - Len(cin) /\ n - k < BlockSize
              /\ NumBlocks(n) \in Nat
              /\ ToEncode(n) = cin \o Run(given, k)
              /\ ToEncode(n) \in Seq(Bytes)
              /\ Len(ToEncode(n)) = NumBlocks(n) * BlockSize
              /\ Divides(BlockSize, Len(ToEncode(n)))
              /\ BlockSize <= Len(ToEncode(n)) /\ Len(cin) <= Len(ToEncode(n))
              /\ ToEncode(n) # <<>>
              /\ Remaining(n) = Run(given + k, n - k)
PROOF
<1>1. cin \in Seq(Bytes) /\ Len(cin) \in Nat /\ given \in Nat /\ Fits
    BY DEF FileInv, Types, Compressor
<1>2. PICK k \in 0..n :
              /\ k = BlockSize * NumBlocks(n) - Len(cin)
              /\ n - k < BlockSize /\ BlockSize <= NumBlocks(n) * BlockSize
              /\ NumBlocks(n) \in Nat
              /\ ToEncode(n) = cin \o Run(given, k)
              /\ ToEncode(n) \in Seq(Bytes)
              /\ Len(ToEncode(n)) = NumBlocks(n) * BlockSize
              /\ Remaining(n) = Run(given + k, n - k)
    BY <1>1, BlocksIs
<1>3. BlockSize \in Nat \ {0}
    BY BlockSizeAssumption
<1>4. NumBlocks(n) * BlockSize = BlockSize * NumBlocks(n)
    BY <1>2, <1>3
<1>5. Divides(BlockSize, Len(ToEncode(n)))
    BY <1>2, <1>4 DEF Divides
<1>6. BlockSize <= Len(ToEncode(n))
    BY <1>2
<1>7. Len(cin) <= Len(ToEncode(n))
    <2>1. PICK a \in Nat : a = BlockSize * NumBlocks(n)
        BY <1>2, <1>3
    <2>2. k = a - Len(cin) /\ k \in Nat
        BY <1>2, <2>1
    <2> QED  BY <1>1, <1>2, <1>4, <2>1, <2>2
<1>8. ToEncode(n) # <<>>
    <2>1. Len(ToEncode(n)) # 0
        BY <1>2, <1>3, <1>6
    <2> QED  BY <2>1
<1> QED  BY <1>2, <1>5, <1>6, <1>7, <1>8

(* A write that fills blocks: all that the compressor held goes to the file *)
(* in front of what is new.  It can only be reached with a stream of which *)
(* nothing was read, hence not after a failure.                            *)
LEMMA BlocksStep ==
    ASSUME FileInv, NEW n \in WriteSizes, Write(n), CompressBlocks(n), FpWrite(Compressed(n))
    PROVE  FileInv'
PROOF
<1> DEFINE data == ToEncode(n)
<1>1. /\ mode = "write" /\ mode' = mode /\ fp' = fp
      /\ sizes' = sizes \cup {n} /\ regular' = (regular /\ Regular(sizes'))
      /\ UNCHANGED <<decompVars, fpos, delivered, gap, base, start>>
    BY DEF Write
<1>2. /\ NumBlocks(n) > 0 /\ Enough(data, NumBlocks(n) * BlockSize)
      /\ cin' = Remaining(n) /\ coff' = 0 /\ cout' = <<>> /\ given' = given + n
    BY DEF CompressBlocks
<1>3. /\ cin \in Seq(Bytes) /\ Len(cin) \in Nat /\ coff \in 0 .. Len(cin) /\ cout \in Seq(Int)
      /\ given \in Nat /\ file \in Seq(Int) /\ torn \in BOOLEAN /\ failed \in BOOLEAN
      /\ regular \in BOOLEAN /\ sizes \subseteq Nat /\ base \in 0 .. given
      /\ start \in 0 .. Len(file)
    BY DEF FileInv, Types
<1>4. n \in Nat /\ BlockSize \in Nat \ {0}
    BY SizesAssumption, BlockSizeAssumption
<1>5. PICK k \in 0..n :
              /\ k = BlockSize * NumBlocks(n) - Len(cin) /\ n - k < BlockSize
              /\ NumBlocks(n) \in Nat
              /\ data = cin \o Run(given, k)
              /\ data \in Seq(Bytes)
              /\ Len(data) = NumBlocks(n) * BlockSize
              /\ Divides(BlockSize, Len(data))
              /\ BlockSize <= Len(data) /\ Len(cin) <= Len(data)
              /\ Remaining(n) = Run(given + k, n - k)
    BY <1>1, <1>2, <1>4, CallIs
<1> HIDE DEF data
<1>6. PICK a \in Nat, l \in Nat : a = given + k /\ l = n - k
    <2>1. given \in Nat /\ n \in Nat
        BY <1>3, <1>4
    <2>2. given + k \in Nat /\ n - k \in Nat
        BY <2>1
    <2> QED  BY <2>2
<1>7. /\ Run(a, l) \in Seq(Bytes) /\ Ordered(Run(a, l), a, a + l) /\ Len(Run(a, l)) = l
      /\ Run(given, k) \in Seq(Bytes) /\ Ordered(Run(given, k), given, given + k)
    <2>1. k \in Nat /\ given \in Nat
        BY <1>3, <1>4
    <2>2. Run(a, l) \in Seq(Bytes) /\ Ordered(Run(a, l), a, a + l) /\ Len(Run(a, l)) = l
        BY RunOrdered, RunProperties
    <2>3. Run(given, k) \in Seq(Bytes) /\ Ordered(Run(given, k), given, given + k)
        BY <2>1, RunOrdered
    <2> QED  BY <2>2, <2>3
<1>8. cin' = Run(a, l) /\ Len(cin') < BlockSize /\ Len(cin') \in Nat
    BY <1>2, <1>4, <1>5, <1>6, <1>7
<1>9. coff = 0 /\ cout = <<>>
    <2>1. coff \in 0 .. Len(data)
        BY <1>3, <1>5
    <2>2. Enough(data, Len(data))
        BY <1>2, <1>5
    <2>3. coff = 0
        BY <1>5, <2>1, <2>2, UnreadIs
    <2> QED  BY <1>1, <2>3 DEF FileInv, Compressor
<1>10. FpWrite(Encoding(data))
    <2>1. Encoded(data, NumBlocks(n) * BlockSize) = Encoding(data)
        BY <1>5, <1>9, EncodedIs
    <2>2. Encoding(data) \in Seq(Int)
        BY <1>5, EncodingType
    <2>3. Compressed(n) = Encoding(data)
        BY <1>9, <2>1, <2>2, ConcatEmptySeq DEF Compressed, data
    <2> QED  BY <2>3
<1>11. /\ file' \in Seq(Int) /\ Len(file) <= Len(file')
       /\ result' \in {"ok", "write"} /\ failed' = failed /\ torn' \in BOOLEAN
       /\ ~ torn' => ~ torn /\ Payload(file') = Payload(file) \o data
    BY <1>3, <1>5, <1>10, FileGrows, Zenon
<1>12. Types' /\ Modes' /\ Reading'
    <2>1. coff' \in 0 .. Len(cin') /\ given' \in Nat /\ given <= given'
        BY <1>2, <1>3, <1>4, <1>8
    <2>2. sizes' \subseteq Nat /\ regular' \in BOOLEAN
        BY <1>1, <1>3, <1>4
    <2>3. cin' \in Seq(Bytes) /\ cout' \in Seq(Int)
        BY <1>2, <1>7, <1>8
    <2> QED  BY <1>1, <1>3, <1>11, <2>1, <2>2, <2>3, WritingFrame
<1>13. Compressor'
    <2>1. ASSUME NEW m \in Bytes, Divides(m, BlockSize), sizes' \subseteq {0, m}
          PROVE  Divides(m, Len(cin'))
        <3>1. Divides(m, Len(cin)) /\ Divides(m, n)
            BY <1>1, <1>4, <2>1, MultiplesStay
        <3>2. PICK w \in Nat : w = BlockSize * NumBlocks(n)
            BY <1>4, <1>5
        <3>3. Divides(m, w)
            BY <1>4, <1>5, <2>1, <3>2, DividesFacts
        <3>4. k = w - Len(cin) /\ Len(cin) <= w
            BY <1>3, <1>5, <3>2
        <3>5. Divides(m, w - Len(cin))
            BY <1>3, <3>1, <3>3, <3>4, DividesFacts
        <3>6. Divides(m, n - k)
            BY <1>4, <3>1, <3>4, <3>5, DividesFacts
        <3> QED  BY <1>6, <1>7, <1>8, <3>6
    <2>2. Fits'
        BY <1>8 DEF Fits
    <2>3. ~ (coff' > 0)
        BY <1>2
    <2>4. regular' => Regular(sizes')
        BY <1>1
    <2> QED  BY <1>2, <1>8, <2>1, <2>2, <2>3, <2>4, Zenon DEF Compressor
<1>14. Order'
    <2>1. PICK b \in 0 .. given : Ordered(Payload(file), 0, b) /\ Ordered(cin, b, given)
        BY <1>1, <1>9 DEF FileInv, Order
    <2>2. b \in Nat /\ b <= given /\ given <= a /\ b <= a /\ a \in 0 .. given' /\ a + l = given'
        BY <1>2, <1>3, <1>4, <1>6, <2>1
    <2>3. Ordered(data, b, a)
        BY <1>3, <1>5, <1>6, <1>7, <2>1, <2>2, OrderedConcat
    <2>4. Ordered(Payload(file'), 0, a)
        BY <1>3, <1>5, <1>10, <2>1, <2>2, <2>3, OrderGrows
    <2>5. Ordered(cin', a, given')
        BY <1>7, <1>8, <2>2
    <2> QED  BY <2>2, <2>4, <2>5 DEF Order
<1>15. WellFormed'
    BY <1>1, <1>3, <1>5, <1>10, WellFormedGrows DEF FileInv
<1>16. NothingLost'
    <2> SUFFICES ASSUME ~ torn', ~ failed', regular'
                 PROVE  Payload(file') \o cin' = Run(base', given' - base')
        BY DEF NothingLost
    <2>1. ~ torn /\ ~ failed /\ regular
        BY <1>1, <1>11
    <2>2. Payload(file) \o cin = Run(base, given - base)
        BY <2>1 DEF FileInv, NothingLost
    <2>3. Payload(file) \in Seq(Bytes)
        BY <1>3, PayloadType
    <2>4. Payload(file') = Payload(file) \o (cin \o Run(given, k))
        BY <1>5, <1>11
    <2>5. Payload(file) \o (cin \o Run(given, k)) = (Payload(file) \o cin) \o Run(given, k)
        BY <1>3, <1>7, <2>3, BytesAssociative, Zenon
    <2>6. PICK w \in Nat : w = given - base
        BY <1>3
    <2>7. base \in Nat /\ base + w = given /\ base + (w + k) = a /\ (w + k) + l = given' - base'
          /\ base' = base
        BY <1>1, <1>2, <1>3, <1>4, <1>6, <2>6
    <2>8. Run(base, w) \o Run(base + w, k) = Run(base, w + k)
        <3>1. k \in Nat /\ base \in Nat
            BY <1>4, <2>7
        <3> QED  BY <3>1, RunConcat
    <2>9. Run(base, w + k) \o Run(base + (w + k), l) = Run(base, (w + k) + l)
        <3>1. w + k \in Nat /\ base \in Nat
            BY <1>4, <2>7
        <3> QED  BY <3>1, RunConcat
    <2>10. Payload(file') = Run(base, w + k)
        <3>1. (Payload(file) \o cin) \o Run(given, k) = Run(base, w) \o Run(base + w, k)
            BY <2>2, <2>6, <2>7
        <3> QED  BY <2>4, <2>5, <2>8, <3>1
    <2>11. Payload(file') \o cin' = Run(base, w + k) \o Run(base + (w + k), l)
        BY <1>8, <2>7, <2>10
    <2> QED  BY <2>7, <2>9, <2>11
<1> QED  BY <1>12, <1>13, <1>14, <1>15, <1>16 DEF FileInv

(* A write for which the encoder fails: the file stays as it is.           *)
LEMMA RaisesStep ==
    ASSUME FileInv, NEW n \in WriteSizes, Write(n), CompressRaises(n), Raise("encode")
    PROVE  FileInv'
PROOF
<1> DEFINE data == ToEncode(n)
<1>1. /\ mode = "write" /\ mode' = mode /\ fp' = fp
      /\ sizes' = sizes \cup {n} /\ regular' = (regular /\ Regular(sizes'))
      /\ UNCHANGED <<decompVars, fpos, delivered, gap, base, start>>
      /\ given' = given + n
      /\ result' = "encode" /\ failed' = TRUE /\ file' = file /\ torn' = torn
    BY DEF Write, CompressRaises, Raise
<1>2. /\ cin \in Seq(Bytes) /\ Len(cin) \in Nat /\ coff \in 0 .. Len(cin) /\ cout \in Seq(Int)
      /\ given \in Nat /\ file \in Seq(Int) /\ torn \in BOOLEAN
      /\ regular \in BOOLEAN /\ sizes \subseteq Nat /\ Len(file) \in Nat
    BY DEF FileInv, Types
<1>3. n \in Nat /\ BlockSize \in Nat \ {0} /\ NumBlocks(n) > 0
    BY SizesAssumption, BlockSizeAssumption DEF CompressRaises
<1>4. PICK k \in 0..n :
              /\ k = BlockSize * NumBlocks(n) - Len(cin) /\ n - k < BlockSize
              /\ NumBlocks(n) \in Nat
              /\ data = cin \o Run(given, k)
              /\ data \in Seq(Bytes)
              /\ Len(data) = NumBlocks(n) * BlockSize
              /\ Divides(BlockSize, Len(data))
              /\ BlockSize <= Len(data) /\ Len(cin) <= Len(data)
              /\ data # <<>>
    BY <1>1, <1>3, CallIs
<1> HIDE DEF data
<1>5. coff = 0 => cout = <<>>
    BY <1>1 DEF FileInv, Compressor
<1>6. \/ cin' = cin /\ coff' = coff /\ cout' = cout
      \/ /\ cin' = data /\ coff' \in 0 .. Len(data) /\ cout' \in Seq(Int)
         /\ coff <= coff' /\ (coff' = 0 => cout' = <<>>)
    <2>1. CASE UNCHANGED <<cin, coff, cout>>
        BY <2>1
    <2>2. CASE /\ cin' = data
               /\ \/ EncodeFails(data, NumBlocks(n) * BlockSize)
                  \/ EncodeShort(data, NumBlocks(n) * BlockSize)
        <3>1. coff \in 0 .. Len(data)
            BY <1>2, <1>4
        <3>2. Len(data) \in Nat
            BY <1>4
        <3> QED  BY <1>2, <1>4, <1>5, <2>2, <3>1, <3>2, FailureLeaves
    <2> QED  BY <2>1, <2>2 DEF CompressRaises, data
<1>7. given' \in Nat /\ given <= given'
    BY <1>1, <1>2, <1>3
<1>8. Types' /\ Modes' /\ Reading'
    <2>1. cin' \in Seq(Bytes) /\ coff' \in 0 .. Len(cin') /\ cout' \in Seq(Int)
        BY <1>2, <1>4, <1>6
    <2>2. sizes' \subseteq Nat /\ regular' \in BOOLEAN
        BY <1>1, <1>2, <1>3
    <2>3. file' \in Seq(Int) /\ Len(file) <= Len(file')
        BY <1>1, <1>2
    <2> QED  BY <1>1, <1>2, <1>7, <2>1, <2>2, <2>3, WritingFrame
<1>9. Compressor'
    <2>1. ASSUME NEW m \in Bytes, Divides(m, BlockSize), sizes' \subseteq {0, m}
          PROVE  Divides(m, Len(cin'))
        <3>1. Divides(m, Len(cin))
            BY <1>1, <1>3, <2>1, MultiplesStay
        <3>2. Divides(m, Len(data))
            <4>1. PICK w \in Nat : w = BlockSize * NumBlocks(n)
                BY <1>3, <1>4
            <4>2. Divides(m, w)
                BY <1>3, <1>4, <2>1, <4>1, DividesFacts
            <4>3. w = NumBlocks(n) * BlockSize
                BY <1>3, <1>4, <4>1
            <4> QED  BY <1>4, <4>2, <4>3
        <3> QED  BY <1>6, <3>1, <3>2
    <2>2. Fits'
        <3>1. Fits
            BY <1>1 DEF FileInv, Compressor
        <3> QED  BY <1>4, <1>6, <3>1 DEF Fits
    <2>3. coff' = 0 => cout' = <<>>
        BY <1>5, <1>6
    <2>4. coff' > 0 => BlockSize <= Len(cin')
        <3>1. coff > 0 => BlockSize <= Len(cin)
            BY <1>1 DEF FileInv, Compressor
        <3> QED  BY <1>4, <1>6, <3>1
    <2>5. regular' => Regular(sizes')
        BY <1>1
    <2> QED  BY <1>1, <2>1, <2>2, <2>3, <2>4, <2>5, Zenon DEF Compressor
<1>10. Order'
    <2>1. PICK b \in 0 .. given : /\ Ordered(Payload(file), 0, b)
                                  /\ coff = 0 => Ordered(cin, b, given)
        BY <1>1 DEF FileInv, Order
    <2>2. b \in Nat /\ b <= given /\ b \in 0 .. given'
        BY <1>2, <1>7
    <2>3. ASSUME coff' = 0 PROVE Ordered(cin', b, given')
        <3>1. coff = 0 /\ Ordered(cin, b, given)
            BY <1>2, <1>6, <2>1, <2>3
        <3>2. CASE cin' = cin
            BY <1>2, <1>7, <2>2, <3>1, <3>2, OrderedWider
        <3>3. CASE cin' = data
            <4>1. PICK a \in Nat : a = given + k
                BY <1>2, <1>3, <1>4
            <4>2. given <= a /\ a <= given' /\ b <= a
                <5>1. given \in Nat /\ n \in Nat /\ k \in 0..n /\ given' = given + n
                    BY <1>1, <1>2, <1>3
                <5> QED  BY <2>2, <4>1, <5>1
            <4>3. Run(given, k) \in Seq(Bytes) /\ Ordered(Run(given, k), given, a)
                <5>1. k \in Nat /\ given \in Nat
                    BY <1>2, <1>3, <1>4
                <5> QED  BY <4>1, <5>1, RunOrdered
            <4>4. Ordered(data, b, a)
                BY <1>2, <1>4, <2>2, <3>1, <4>2, <4>3, OrderedConcat
            <4> QED  BY <1>4, <1>7, <2>2, <3>3, <4>2, <4>4, OrderedWider
        <3> QED  BY <1>6, <3>2, <3>3
    <2>4. Ordered(Payload(file'), 0, b)
        BY <1>1, <2>1
    <2> QED  BY <2>2, <2>3, <2>4 DEF Order
<1>11. WellFormed'
    BY <1>1 DEF FileInv, WellFormed
<1>12. NothingLost'
    BY <1>1 DEF NothingLost
<1> QED  BY <1>8, <1>9, <1>10, <1>11, <1>12 DEF FileInv

(* A flush that returns encodes all that the compressor holds and nothing  *)
(* of a call that failed before it.                                        *)
LEMMA FlushedIs ==
    ASSUME FileInv, mode = "write", FlushReturns
    PROVE  coff = 0 /\ cout = <<>> /\ Flushed = Encoding(cin)
PROOF
<1>1. cin = <<>> \/ Enough(cin, Len(cin))
    BY DEF FlushReturns
<1>2. cin \in Seq(Bytes) /\ Len(cin) \in Nat /\ coff \in 0 .. Len(cin)
    BY DEF FileInv, Types
<1>3. coff = 0 /\ cout = <<>>
    <2>1. CASE cin = <<>>
        <3>1. Len(cin) = 0
            BY <2>1
        <3> QED  BY <1>2, <3>1 DEF FileInv, Compressor
    <2>2. CASE Enough(cin, Len(cin))
        <3>1. coff = 0
            BY <1>2, <2>2, UnreadIs
        <3> QED  BY <3>1 DEF FileInv, Compressor
    <2> QED  BY <1>1, <2>1, <2>2
<1>4. CASE cin = <<>>
    BY <1>3, <1>4, EncodingNone DEF Flushed
<1>5. CASE cin # <<>>
    <2>1. Encoded(cin, Len(cin)) = Encoding(cin)
        BY <1>2, <1>3, EncodedIs
    <2>2. Encoding(cin) \in Seq(Int)
        BY <1>2, EncodingType
    <2> QED  BY <1>3, <1>5, <2>1, <2>2, ConcatEmptySeq DEF Flushed
<1> QED  BY <1>3, <1>4, <1>5

(* The end of a session that writes the block that is not full.            *)
LEMMA FlushReturnsStep ==
    ASSUME FileInv, CloseWriting, FlushReturns, FpWrite(Flushed)
    PROVE  FileInv'
PROOF
<1>1. /\ mode = "write" /\ mode' = "closing" /\ fp' = fp /\ sizes' = {}
      /\ UNCHANGED <<decompVars, fpos, delivered, gap, base, start>> /\ regular' = regular
    BY DEF CloseWriting
<1>2. /\ cin = <<>> \/ Enough(cin, Len(cin))
      /\ cin' = <<>> /\ coff' = 0 /\ cout' = <<>> /\ given' = given
    BY DEF FlushReturns
<1>3. /\ cin \in Seq(Bytes) /\ Len(cin) \in Nat /\ coff \in 0 .. Len(cin) /\ cout \in Seq(Int)
      /\ given \in Nat /\ file \in Seq(Int) /\ torn \in BOOLEAN /\ failed \in BOOLEAN
      /\ start \in 0 .. Len(file)
    BY DEF FileInv, Types
<1>4. <<>> \in Seq(Bytes) /\ <<>> \in Seq(Int) /\ Len(<<>>) = 0
    OBVIOUS
<1>5. coff = 0 /\ cout = <<>>
    BY <1>1, FlushedIs
<1>6. FpWrite(Encoding(cin))
    BY <1>1, FlushedIs
<1>7. /\ file' \in Seq(Int) /\ Len(file) <= Len(file')
      /\ result' \in {"ok", "write"} /\ failed' = failed /\ torn' \in BOOLEAN
      /\ ~ torn' => ~ torn /\ Payload(file') = Payload(file) \o cin
    BY <1>3, <1>6, FileGrows, Zenon
<1>8. Types' /\ Modes' /\ Reading'
    <2>1. coff' \in 0 .. Len(cin') /\ given' \in Nat /\ given <= given'
        BY <1>2, <1>3, <1>4
    <2>2. cin' \in Seq(Bytes) /\ cout' \in Seq(Int)
        BY <1>2, <1>4
    <2> QED  BY <1>1, <1>2, <1>3, <1>7, <2>1, <2>2, WritingFrame
<1>9. Compressor'
    BY <1>1 DEF Compressor
<1>10. Order'
    <2>1. PICK b \in 0 .. given : Ordered(Payload(file), 0, b) /\ Ordered(cin, b, given)
        BY <1>1, <1>5 DEF FileInv, Order
    <2>2. b \in Nat /\ b <= given /\ given \in 0 .. given'
        BY <1>2, <1>3, <2>1
    <2>3. Ordered(Payload(file'), 0, given)
        BY <1>3, <1>6, <2>1, <2>2, OrderGrows
    <2> QED  BY <1>1, <2>2, <2>3 DEF Order
<1>11. WellFormed'
    BY <1>1, <1>3, <1>6, WellFormedGrows DEF FileInv
<1>12. NothingLost'
    <2> SUFFICES ASSUME ~ torn', ~ failed', regular'
                 PROVE  Payload(file') \o cin' = Run(base', given' - base')
        BY DEF NothingLost
    <2>1. ~ torn /\ ~ failed /\ regular
        BY <1>1, <1>7
    <2>2. Payload(file) \o cin = Run(base, given - base)
        BY <2>1 DEF FileInv, NothingLost
    <2>3. Payload(file') = Payload(file) \o cin /\ Payload(file') \in Seq(Bytes)
        BY <1>7, PayloadType
    <2>4. Payload(file') \o <<>> = Payload(file')
        BY <2>3, ConcatEmptySeq
    <2>5. base' = base /\ given' = given /\ cin' = <<>>
        BY <1>1, <1>2
    <2> QED  BY <2>2, <2>3, <2>4, <2>5
<1> QED  BY <1>8, <1>9, <1>10, <1>11, <1>12 DEF FileInv

(* And of one whose last block cannot be encoded.                          *)
LEMMA FlushRaisesStep ==
    ASSUME FileInv, CloseWriting, FlushRaises, Raise("encode")
    PROVE  FileInv'
PROOF
<1>1. /\ mode = "write" /\ mode' = "closing" /\ fp' = fp /\ sizes' = {}
      /\ UNCHANGED <<decompVars, fpos, delivered, gap, base, start>> /\ regular' = regular
      /\ result' = "encode" /\ failed' = TRUE /\ file' = file /\ torn' = torn
      /\ base' = base /\ start' = start
    BY DEF CloseWriting, Raise
<1>2. /\ cin # <<>>
      /\ EncodeFails(cin, Len(cin)) \/ EncodeShort(cin, Len(cin))
      /\ cin' = cin /\ given' = given
    BY DEF FlushRaises
<1>3. /\ cin \in Seq(Bytes) /\ Len(cin) \in Nat /\ coff \in 0 .. Len(cin) /\ cout \in Seq(Int)
      /\ given \in Nat /\ file \in Seq(Int) /\ torn \in BOOLEAN /\ Len(file) \in Nat
    BY DEF FileInv, Types
<1>4. coff = 0 => cout = <<>>
    BY <1>1 DEF FileInv, Compressor
<1>5. coff' \in 0 .. Len(cin) /\ cout' \in Seq(Int)
    BY <1>2, <1>3, <1>4, FailureLeaves
<1>6. Types' /\ Modes' /\ Reading'
    <2>1. given' \in Nat /\ given <= given' /\ file' \in Seq(Int) /\ Len(file) <= Len(file')
        BY <1>1, <1>2, <1>3
    <2> QED  BY <1>1, <1>2, <1>3, <1>5, <2>1, WritingFrame
<1>7. Compressor'
    BY <1>1 DEF Compressor
<1>8. Order'
    BY <1>1, <1>2 DEF FileInv, Order
<1>9. WellFormed'
    BY <1>1 DEF FileInv, WellFormed
<1>10. NothingLost'
    BY <1>1 DEF NothingLost
<1> QED  BY <1>6, <1>7, <1>8, <1>9, <1>10 DEF FileInv

-----------------------------------------------------------------------------
(* Every step keeps the invariant.                                         *)
LEMMA FileStep ==
    ASSUME FileInv, [Next]_vars
    PROVE  FileInv'
PROOF
<1>1. ASSUME NEW kind \in {"owned", "given"}, OpenToRead(kind) PROVE FileInv'
    BY <1>1, OpenToReadStep
<1>2. ASSUME NEW kind \in {"owned", "given"}, NEW truncates \in BOOLEAN,
             OpenToWrite(kind, truncates)
      PROVE  FileInv'
    BY <1>2, OpenToWriteStep
<1>3. ASSUME NEW n \in WriteSizes, Write(n) PROVE FileInv'
    <2>1. \/ CompressKeeps(n) /\ FpWrite(<<>>)
          \/ CompressBlocks(n) /\ FpWrite(Compressed(n))
          \/ CompressRaises(n) /\ Raise("encode")
        BY <1>3, Zenon DEF Write
    <2> QED  BY <1>3, <2>1, KeepsStep, BlocksStep, RaisesStep
<1>4. ASSUME NEW size \in ReadSizes \cup {Omitted}, Read(size) PROVE FileInv'
    BY <1>4, ReadStep
<1>5. ASSUME CloseWriting PROVE FileInv'
    <2>1. \/ FlushReturns /\ FpWrite(Flushed)
          \/ FlushRaises /\ Raise("encode")
        BY <1>5, Zenon DEF CloseWriting
    <2> QED  BY <1>5, <2>1, FlushReturnsStep, FlushRaisesStep
<1>6. ASSUME CloseReading PROVE FileInv'
    BY <1>6, CloseReadingStep
<1>7. ASSUME CloseFp PROVE FileInv'
    BY <1>7, CloseFpStep
<1>8. ASSUME UNCHANGED vars PROVE FileInv'
    <2>1. /\ cin' = cin /\ coff' = coff /\ cout' = cout /\ given' = given
          /\ din' = din /\ doff' = doff /\ dout' = dout
          /\ mode' = mode /\ fp' = fp /\ file' = file /\ fpos' = fpos
          /\ result' = result /\ delivered' = delivered /\ gap' = gap
          /\ base' = base /\ start' = start /\ sizes' = sizes
          /\ regular' = regular /\ failed' = failed /\ torn' = torn
        BY <1>8 DEF vars, compVars, decompVars, fileVars
    <2>2. Types' /\ Modes'
        BY <2>1 DEF FileInv, Types, Modes
    <2>3. Compressor'
        BY <2>1 DEF FileInv, Compressor, Fits
    <2>4. Order' /\ Reading'
        BY <2>1 DEF FileInv, Order, Reading
    <2>5. WellFormed' /\ NothingLost'
        BY <2>1 DEF FileInv, WellFormed, NothingLost
    <2> QED  BY <2>2, <2>3, <2>4, <2>5 DEF FileInv
<1> QED  BY <1>1, <1>2, <1>3, <1>4, <1>5, <1>6, <1>7, <1>8, Zenon DEF Next

(* The inductive invariant holds in every reachable state.                 *)
LEMMA Invariance == Spec => []FileInv
PROOF
<1>1. Init => FileInv
    BY FileInit
<1>2. FileInv /\ [Next]_vars => FileInv'
    BY FileStep
<1> QED  BY <1>1, <1>2, PTL DEF Spec

(* The file, the compressor and the decompressor are always well formed.   *)
THEOREM TypeCorrect == Spec => []TypeOK
PROOF
<1>1. FileInv => TypeOK
    BY DEF FileInv, Types, TypeOK
<1> QED  BY <1>1, Invariance, PTL

(* Whatever fails and whoever tries again, no byte is in the file twice,   *)
(* nor before an earlier one (huffmanfile.py:319-346, 357-362).            *)
THEOREM FileInOrder == Spec => []InOrder
PROOF
<1>1. ASSUME FileInv PROVE InOrder
    <2> DEFINE bytes == Payload(file)
    <2>1. bytes \in Seq(Bytes)
        BY <1>1, PayloadType DEF FileInv, Types
    <2>2. PICK b \in 0 .. given : Ordered(bytes, 0, b)
        BY <1>1 DEF FileInv, Order
    <2> HIDE DEF bytes
    <2>3. \A i \in 1 .. Len(bytes) - 1 : bytes[i] < bytes[i + 1]
        BY <2>1, <2>2 DEF Ordered
    <2> QED  BY <2>3 DEF InOrder, bytes
<1> QED  BY <1>1, Invariance, PTL

(* As long as the file object takes what it is given, the file consists of *)
(* whole blocks, of full size but the last of a session, also after the    *)
(* compressor failed in the middle of a block (huffmanfile.py:335-341).    *)
THEOREM BlocksWellFormed == Spec => []WellFormed
PROOF
<1>1. FileInv => WellFormed
    BY DEF FileInv
<1> QED  BY <1>1, Invariance, PTL

(* With writes that are regular, of any sizes and in any number of sessions, *)
(* and no failure, nothing is lost (huffmanfile.py:316-346).               *)
THEOREM NothingIsLost == Spec => []NothingLost
PROOF
<1>1. FileInv => NothingLost
    BY DEF FileInv
<1> QED  BY <1>1, Invariance, PTL

(* What the reads of a session return is what the file holds from its      *)
(* beginning, for every block size, buffer size and size of a read, and    *)
(* whichever other calls fail in between, as long as no chunk was taken    *)
(* from the file and then refused by the decompressor's input stream       *)
(* (huffmanfile.py:161-162, 391-400).                                      *)
THEOREM ReadsAPrefix == Spec => []ReadsPrefix
PROOF
<1>1. FileInv => ReadsPrefix
    BY DEF FileInv, Reading, ReadsPrefix
<1> QED  BY <1>1, Invariance, PTL

(* When the body of close() raises nothing, all that the compressor held   *)
(* is in the file opened by name, once, for every block size and after any *)
(* writes and failures (huffmanfile.py:100-106, 355-362).                  *)
THEOREM CloseReportsHolds == Spec => CloseReports
PROOF
<1>1. ASSUME FileInv, Next, mode = "write", mode' = "closing", fp = "owned", result' = "ok"
      PROVE  Payload(file') = Payload(file) \o cin
    <2>1. CloseWriting
        BY <1>1 DEF Next, OpenToRead, OpenToWrite, Write, Read, CloseReading, CloseFp
    <2>2. FlushReturns /\ FpWrite(Flushed)
        BY <1>1, <2>1 DEF CloseWriting, Raise
    <2>3. Flushed = Encoding(cin)
        BY <1>1, <2>2, FlushedIs
    <2>4. FpWrites(Flushed)
        BY <1>1, <2>2 DEF FpWrite, FpWritesLess
    <2>5. cin \in Seq(Bytes) /\ file \in Seq(Int)
        BY <1>1 DEF FileInv, Types
    <2>6. file' = file \o Encoding(cin)
        BY <2>3, <2>4 DEF FpWrites
    <2>7. Encoding(cin) \in Seq(Int) /\ Payload(Encoding(cin)) = cin
        BY <2>5, EncodingType, EncodingPayload
    <2> QED  BY <2>5, <2>6, <2>7, PayloadConcat
<1>2. FileInv /\ [Next]_vars =>
          [mode = "write" /\ mode' = "closing" /\ fp = "owned" /\ result' = "ok"
           => Payload(file') = Payload(file) \o cin]_vars
    BY <1>1
<1> QED  BY <1>2, Invariance, PTL DEF Spec, CloseReports
=============================================================================
