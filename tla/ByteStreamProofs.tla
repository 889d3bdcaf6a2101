-------------------------- MODULE ByteStreamProofs -------------------------
(***************************************************************************)
(* Facts that several proofs rest on: induction on the natural numbers up  *)
(* to a bound, recursive definitions, numbers, prefixes of sequences, and  *)
(* the runs of a byte stream.                                              *)
(***************************************************************************)
EXTENDS ByteStream, Integers, SequencesExt, SequenceTheorems,
        WellFoundedInduction, TLAPS

(* The relation < on the natural numbers, as a set of pairs.               *)
LessThan == OpToRel(<, Nat)

(* Every set of natural numbers has a least element.  The inductions below *)
(* are made with it: the least counterexample cannot be.                   *)
LEMMA LeastNatural ==
    ASSUME NEW T, T \subseteq Nat, T # {}
    PROVE  \E n \in T : \A m \in T : n <= m
PROOF
<1>1. IsWellFoundedOn(LessThan, Nat)
    BY NatLessThanWellFounded DEF LessThan
<1>2. PICK n \in T : \A m \in T : <<m, n>> \notin LessThan
    BY <1>1, WFMin
<1>3. \A a, b \in Nat : <<a, b>> \in LessThan <=> a < b
    BY DEF LessThan, OpToRel
<1>4. \A m \in T : m \in Nat /\ n \in Nat /\ ~ (m < n)
    BY <1>2, <1>3
<1> QED  BY <1>4

(* A set of natural numbers up to some bound that holds 0 and with a       *)
(* number its successor holds all of them.                                 *)
LEMMA BoundedInduction ==
    ASSUME NEW N \in Nat, NEW T, 0 \in T,
           \A n \in 1..N : n - 1 \in T => n \in T
    PROVE  0..N \subseteq T
PROOF
<1> SUFFICES ASSUME (0..N) \ T # {} PROVE FALSE
    OBVIOUS
<1>1. PICK n \in (0..N) \ T : \A m \in (0..N) \ T : n <= m
    <2>1. (0..N) \ T \subseteq Nat
        OBVIOUS
    <2> QED  BY <2>1, LeastNatural
<1>2. n # 0 /\ n \in 1..N /\ n - 1 \in 0..N
    OBVIOUS
<1>3. n - 1 \in T
    BY <1>1, <1>2
<1> QED  BY <1>2, <1>3

(* The functions that a base and a step define.                            *)
Solutions(N, S, base, next) ==
    {g \in [0..N -> S] : g[0] = base /\ \A n \in 1..N : g[n] = next[n][g[n-1]]}

(* There is one.                                                           *)
LEMMA Recursion ==
    ASSUME NEW N \in Nat, NEW S, NEW base \in S,
           NEW next \in [1..N -> [S -> S]]
    PROVE  Solutions(N, S, base, next) # {}
PROOF
<1> DEFINE Upto(n) == {g \in [0..n -> S] :
                          g[0] = base /\ \A k \in 1..n : g[k] = next[k][g[k-1]]}
           T == {n \in 0..N : Upto(n) # {}}
<1>1. 0 \in T
    <2> DEFINE g == [k \in 0..0 |-> base]
    <2>1. g \in Upto(0)
        OBVIOUS
    <2> QED  BY <2>1
<1>2. ASSUME NEW n \in 1..N, n - 1 \in T
      PROVE  n \in T
    <2>1. PICK g \in [0..n-1 -> S] :
              g[0] = base /\ \A k \in 1..n-1 : g[k] = next[k][g[k-1]]
        BY <1>2
    <2> DEFINE h == [k \in 0..n |-> IF k = n THEN next[n][g[n-1]] ELSE g[k]]
    <2>2. next[n][g[n-1]] \in S
        OBVIOUS
    <2>3. h \in [0..n -> S] /\ h[0] = base
        BY <2>1, <2>2
    <2>4. ASSUME NEW k \in 1..n PROVE h[k] = next[k][h[k-1]]
        <3>1. k \in 0..n /\ k-1 \in 0..n /\ k - 1 # n
            OBVIOUS
        <3>2. h[k-1] = g[k-1]
            BY <3>1
        <3>3. CASE k = n
            BY <3>2, <3>3
        <3>4. CASE k # n
            <4>1. k \in 1..n-1
                BY <3>4
            <4> QED  BY <4>1, <3>2, <2>1
        <3> QED  BY <3>3, <3>4
    <2> HIDE DEF h
    <2>5. h \in Upto(n)
        BY <2>3, <2>4
    <2> QED  BY <2>5
<1>3. \A n \in 1..N : n - 1 \in T => n \in T
    BY <1>2
<1> HIDE DEF T
<1>4. 0..N \subseteq T
    BY <1>1, <1>3, BoundedInduction
<1>5. N \in T
    BY <1>4
<1> QED  BY <1>5 DEF T, Solutions

(* Induction along a rank.  A set inherits when it holds each element all  *)
(* of whose predecessors in rank it holds.                                 *)
Inherited(D, rank, T) ==
    \A d \in D : (\A e \in D : rank[e] < rank[d] => e \in T) => d \in T

(* A set that inherits holds every element.                                *)
LEMMA RankedInduction ==
    ASSUME NEW D, NEW N \in Nat, NEW rank \in [D -> 0..N], NEW T,
           Inherited(D, rank, T)
    PROVE  D \subseteq T
PROOF
<1>0. \A d \in D : (\A e \in D : rank[e] < rank[d] => e \in T) => d \in T
    BY DEF Inherited
<1> DEFINE R == {n \in 0..N : \A d \in D : rank[d] <= n => d \in T}
<1>1. ASSUME NEW n \in 0..N, \A d \in D : rank[d] < n => d \in T
      PROVE  n \in R
    <2>1. ASSUME NEW d \in D, rank[d] <= n PROVE d \in T
        <3>1. rank[d] \in Int
            OBVIOUS
        <3>2. CASE rank[d] < n
            BY <1>1, <3>2
        <3>3. CASE rank[d] = n
            BY <1>0, <1>1, <3>3
        <3> QED  BY <2>1, <3>1, <3>2, <3>3
    <2> QED  BY <2>1
<1>2. 0 \in R
    <2>1. \A d \in D : ~ (rank[d] < 0)
        OBVIOUS
    <2>2. 0 \in 0..N
        OBVIOUS
    <2> QED  BY <1>1, <2>1, <2>2
<1>3. ASSUME NEW n \in 1..N, n - 1 \in R PROVE n \in R
    <2>1. \A d \in D : rank[d] < n => d \in T
        <3>1. \A d \in D : rank[d] < n => rank[d] <= n - 1
            OBVIOUS
        <3> QED  BY <1>3, <3>1
    <2>2. n \in 0..N
        OBVIOUS
    <2> QED  BY <1>1, <2>1, <2>2
<1>4. N \in R
    <2> HIDE DEF R
    <2>1. \A n \in 1..N : n - 1 \in R => n \in R
        BY <1>3
    <2>2. 0..N \subseteq R
        BY <1>2, <2>1, BoundedInduction
    <2> QED  BY <2>2
<1>5. \A d \in D : rank[d] <= N
    OBVIOUS
<1> QED  BY <1>4, <1>5

(* A recursive definition in which the value at an element depends on the  *)
(* values at elements of smaller rank only,                                *)
Ranked(D, S, N, rank, step) ==
    /\ S # {} /\ N \in Nat
    /\ rank \in [D -> 0..N]
    /\ step \in [D -> [[D -> S] -> S]]
    /\ \A d \in D : \A f, g \in [D -> S] :
          (\A e \in D : rank[e] < rank[d] => f[e] = g[e]) => step[d][f] = step[d][g]

(* and the functions it holds of.                                          *)
Fixpoints(D, S, step) == {h \in [D -> S] : \A d \in D : h[d] = step[d][h]}

(* There is one: a recursive definition along a rank, like that of the     *)
(* depth of a node or of the serialization of a tree (src/tree.c), is      *)
(* satisfied by some function.                                             *)
LEMMA RankedRecursion ==
    ASSUME NEW D, NEW S, NEW N, NEW rank, NEW step, Ranked(D, S, N, rank, step)
    PROVE  Fixpoints(D, S, step) # {}
PROOF
<1> /\ S # {} /\ N \in Nat
    /\ rank \in [D -> 0..N]
    /\ step \in [D -> [[D -> S] -> S]]
    /\ \A d \in D : \A f, g \in [D -> S] :
          (\A e \in D : rank[e] < rank[d] => f[e] = g[e]) => step[d][f] = step[d][g]
    BY DEF Ranked
<1>1. PICK M \in Nat : M = N + 1
    OBVIOUS
<1> DEFINE Upto(n) == {h \in [D -> S] : \A d \in D : rank[d] < n => h[d] = step[d][h]}
           T == {n \in 0..M : Upto(n) # {}}
<1>2. 0 \in T
    <2>1. PICK s \in S : TRUE
        OBVIOUS
    <2> DEFINE h == [d \in D |-> s]
    <2>2. h \in [D -> S] /\ \A d \in D : ~ (rank[d] < 0)
        OBVIOUS
    <2>3. h \in Upto(0)
        BY <2>2
    <2> QED  BY <2>3
<1>3. ASSUME NEW n \in 1..M, n - 1 \in T PROVE n \in T
    <2>1. PICK h \in [D -> S] : \A d \in D : rank[d] < n - 1 => h[d] = step[d][h]
        BY <1>3
    <2> DEFINE g == [d \in D |-> IF rank[d] = n - 1 THEN step[d][h] ELSE h[d]]
    <2>2. g \in [D -> S]
        OBVIOUS
    <2>3. ASSUME NEW d \in D, rank[d] < n PROVE g[d] = step[d][g]
        <3>1. \A e \in D : rank[e] < rank[d] => g[e] = h[e]
            <4>1. ASSUME NEW e \in D, rank[e] < rank[d] PROVE rank[e] # n - 1
                BY <2>3, <4>1
            <4> QED  BY <4>1
        <3> HIDE DEF g
        <3>2. step[d][g] = step[d][h]
            BY <2>2, <3>1
        <3>3. g[d] = step[d][h]
            <4>1. PICK r \in Int : r = rank[d]
                OBVIOUS
            <4>2. r < n /\ n \in Int
                BY <2>3, <4>1
            <4>3. r = n - 1 \/ r < n - 1
                BY <4>2
            <4> QED  BY <2>1, <4>1, <4>3 DEF g
        <3> QED  BY <3>2, <3>3
    <2> HIDE DEF g
    <2>4. g \in Upto(n)
        BY <2>2, <2>3
    <2> QED  BY <2>4
<1>4. M \in T
    <2> HIDE DEF T
    <2>1. \A n \in 1..M : n - 1 \in T => n \in T
        BY <1>3
    <2>2. 0..M \subseteq T
        BY <1>2, <2>1, BoundedInduction
    <2> QED  BY <2>2
<1>5. PICK h \in Upto(M) : TRUE
    BY <1>4
<1>6. \A d \in D : rank[d] < M
    BY <1>1
<1> QED  BY <1>5, <1>6 DEF Fixpoints

-----------------------------------------------------------------------------
(* Numbers and sequences.                                                  *)

(* The two outcomes of Min and Max of two numbers.                         *)
LEMMA MinMax ==
    ASSUME NEW a \in Int, NEW b \in Int
    PROVE  /\ Min({a, b}) = IF a <= b THEN a ELSE b
           /\ Max({a, b}) = IF a <= b THEN b ELSE a
PROOF
<1>1. (IF a <= b THEN a ELSE b) \in {a, b} /\ (IF a <= b THEN b ELSE a) \in {a, b}
    OBVIOUS
<1>2. \A x \in {a, b} : x \in Int /\ ((\A y \in {a, b} : x <= y) => x = IF a <= b THEN a ELSE b)
    OBVIOUS
<1>3. \A x \in {a, b} : x \in Int /\ ((\A y \in {a, b} : x >= y) => x = IF a <= b THEN b ELSE a)
    OBVIOUS
<1>4. \A y \in {a, b} : (IF a <= b THEN a ELSE b) <= y
    OBVIOUS
<1>5. \A y \in {a, b} : (IF a <= b THEN b ELSE a) >= y
    OBVIOUS
<1>6. Min({a, b}) = IF a <= b THEN a ELSE b
    BY <1>1, <1>2, <1>4 DEF Min
<1>7. Max({a, b}) = IF a <= b THEN b ELSE a
    BY <1>1, <1>3, <1>5 DEF Max
<1> QED  BY <1>6, <1>7

(* Division with remainder.                                                *)
LEMMA Division ==
    ASSUME NEW a \in Nat, NEW b \in Nat \ {0}
    PROVE  /\ a \div b \in Nat /\ a % b \in 0 .. b - 1
           /\ a = b * (a \div b) + (a % b)
    OBVIOUS

(* And what it is for a multiple and a remainder.                          *)
LEMMA DivisionIs ==
    ASSUME NEW b \in Nat \ {0}, NEW q \in Nat, NEW r \in 0 .. b - 1
    PROVE  (b * q + r) \div b = q /\ (b * q + r) % b = r
    OBVIOUS

(* Products are ordered like their factors.                                *)
LEMMA Products ==
    ASSUME NEW b \in Nat, NEW m \in Nat, NEW n \in Nat, m <= n
    PROVE  b * m <= b * n
    OBVIOUS

(* A prefix is the one before it and one more element.                     *)
LEMMA PrefixStep ==
    ASSUME NEW S, NEW s \in Seq(S), NEW n \in 1 .. Len(s)
    PROVE  /\ SubSeq(s, 1, n-1) \in Seq(S) /\ Len(SubSeq(s, 1, n-1)) = n - 1
           /\ s[n] \in S
           /\ SubSeq(s, 1, n) = Append(SubSeq(s, 1, n-1), s[n])
PROOF
<1>1. n - 1 \in Int /\ n \in Nat /\ \A i \in 1 .. n : s[i] \in S
    OBVIOUS
<1> DEFINE a == SubSeq(s, 1, n-1)
           b == SubSeq(s, 1, n)
<1>2. a \in Seq(S) /\ Len(a) = n - 1 /\ \A i \in 1..n-1 : a[i] = s[i]
    BY <1>1, SubSeqProperties
<1>3. b \in Seq(S) /\ Len(b) = n /\ \A i \in 1..n : b[i] = s[i]
    BY <1>1, SubSeqProperties
<1> DEFINE c == Append(a, s[n])
<1>4. c \in Seq(S) /\ Len(c) = n /\ (\A i \in 1..n-1 : c[i] = a[i]) /\ c[n] = s[n]
    BY <1>1, <1>2, AppendProperties
<1> HIDE DEF a, b, c
<1>5. \A i \in 1..n : b[i] = c[i]
    <2>1. ASSUME NEW i \in 1..n PROVE b[i] = c[i]
        <3>1. i = n \/ i \in 1..n-1
            OBVIOUS
        <3> QED  BY <3>1, <1>2, <1>3, <1>4
    <2> QED  BY <2>1
<1>6. b = c
    BY <1>3, <1>4, <1>5, SeqEqual
<1> QED  BY <1>1, <1>2, <1>6 DEF a, b, c

-----------------------------------------------------------------------------
(* The bytes of a run.                                                     *)
LEMMA RunProperties ==
    ASSUME NEW a \in Nat, NEW n \in Nat
    PROVE  /\ Run(a, n) \in Seq(Nat)
           /\ Len(Run(a, n)) = n
           /\ \A i \in 1..n : Run(a, n)[i] = a + i
PROOF
<1>1. Run(a, n) \in [1..n -> Nat]
    BY DEF Run
<1> QED  BY <1>1 DEF Run

(* Adjacent runs make one.                                                 *)
LEMMA RunConcat ==
    ASSUME NEW a \in Nat, NEW m \in Nat, NEW n \in Nat
    PROVE  Run(a, m) \o Run(a + m, n) = Run(a, m + n)
PROOF
<1> DEFINE s == Run(a, m)
           t == Run(a + m, n)
           u == Run(a, m + n)
<1>1. s \in Seq(Nat) /\ Len(s) = m /\ \A i \in 1..m : s[i] = a + i
    BY RunProperties
<1>2. t \in Seq(Nat) /\ Len(t) = n /\ \A i \in 1..n : t[i] = a + m + i
    <2>1. a + m \in Nat
        OBVIOUS
    <2> QED  BY <2>1, RunProperties
<1>3. u \in Seq(Nat) /\ Len(u) = m + n /\ \A i \in 1..m+n : u[i] = a + i
    <2>1. m + n \in Nat
        OBVIOUS
    <2> QED  BY <2>1, RunProperties
<1> HIDE DEF s, t, u
<1>4. /\ s \o t \in Seq(Nat) /\ Len(s \o t) = m + n
      /\ \A i \in 1..m+n : (s \o t)[i] = IF i <= m THEN s[i] ELSE t[i - m]
    BY <1>1, <1>2, ConcatProperties
<1>5. ASSUME NEW i \in 1..m+n PROVE (s \o t)[i] = u[i]
    <2>1. i \in Nat /\ u[i] = a + i
        BY <1>3
    <2>2. CASE i <= m
        BY <1>1, <1>4, <2>1, <2>2
    <2>3. CASE ~ (i <= m)
        <3>1. i - m \in 1..n
            BY <2>1, <2>3
        <3>2. t[i - m] = a + m + (i - m)
            BY <1>2, <3>1
        <3>3. a + m + (i - m) = a + i
            BY <2>1
        <3>4. (s \o t)[i] = t[i - m]
            BY <1>4, <2>3
        <3> QED  BY <2>1, <3>2, <3>3, <3>4
    <2> QED  BY <2>2, <2>3
<1>6. s \o t = u
    BY <1>3, <1>4, <1>5, SeqEqual
<1> QED  BY <1>6 DEF s, t, u

(* The first bytes of a run are a run.                                     *)
LEMMA RunPrefix ==
    ASSUME NEW a \in Nat, NEW n \in Nat, NEW k \in 0..n
    PROVE  SubSeq(Run(a, n), 1, k) = Run(a, k)
PROOF
<1>1. /\ Run(a, n) \in Seq(Nat) /\ Len(Run(a, n)) = n
      /\ \A i \in 1..n : Run(a, n)[i] = a + i
    BY RunProperties
<1>2. /\ Run(a, k) \in Seq(Nat) /\ Len(Run(a, k)) = k
      /\ \A i \in 1..k : Run(a, k)[i] = a + i
    BY RunProperties
<1> QED  BY <1>1, <1>2

(* Of two runs from the same place the shorter is a prefix of the longer.  *)
LEMMA RunIsPrefix ==
    ASSUME NEW a \in Nat, NEW m \in Nat, NEW n \in Nat, m <= n
    PROVE  IsPrefix(Run(a, m), Run(a, n))
PROOF
<1>1. Len(Run(a, m)) = m /\ Len(Run(a, n)) = n
    BY RunProperties
<1>2. SubSeq(Run(a, m), 1, m) = Run(a, m) /\ SubSeq(Run(a, n), 1, m) = Run(a, m)
    BY RunPrefix
<1> QED  BY <1>1, <1>2 DEF IsPrefix

(* The last bytes of a run are a run.                                      *)
LEMMA RunSuffix ==
    ASSUME NEW a \in Nat, NEW n \in Nat, NEW k \in 0..n
    PROVE  SubSeq(Run(a, n), k + 1, n) = Run(a + k, n - k)
PROOF
<1>1. /\ Run(a, n) \in Seq(Nat) /\ Len(Run(a, n)) = n
      /\ \A i \in 1..n : Run(a, n)[i] = a + i
    BY RunProperties
<1>2. a + k \in Nat /\ n - k \in Nat
    OBVIOUS
<1>3. /\ Run(a + k, n - k) \in Seq(Nat) /\ Len(Run(a + k, n - k)) = n - k
      /\ \A i \in 1..n - k : Run(a + k, n - k)[i] = (a + k) + i
    BY <1>2, RunProperties
<1>4. \A i \in k + 1 .. n : Run(a, n)[i] \in Nat
    BY <1>1
<1> DEFINE u == SubSeq(Run(a, n), k + 1, n)
<1>5. /\ u \in Seq(Nat) /\ Len(u) = n - k
      /\ \A i \in 1 .. n - k : u[i] = Run(a, n)[k + 1 + i - 1]
    BY <1>4, SubSeqProperties
<1>6. ASSUME NEW i \in 1 .. n - k PROVE u[i] = Run(a + k, n - k)[i]
    <2>1. k + 1 + i - 1 \in 1..n /\ k + 1 + i - 1 = k + i
        OBVIOUS
    <2>2. u[i] = a + (k + i)
        BY <1>1, <1>5, <2>1
    <2> QED  BY <1>3, <2>2
<1> HIDE DEF u
<1>7. u = Run(a + k, n - k)
    BY <1>3, <1>5, <1>6, SeqEqual
<1> QED  BY <1>7 DEF u
=============================================================================
