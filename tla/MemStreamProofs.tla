-------------------------- MODULE MemStreamProofs --------------------------
(***************************************************************************)
(* Proofs about MemStream, for every set of capacities and every length of *)
(* the writes and reads.                                                   *)
(***************************************************************************)
EXTENDS MemStream, ByteStreamProofs

USE MemAssumption

(* What was read since the last rewind are the first bytes written since,  *)
(* up to the read position.                                                *)
ReadInv == /\ received = Run(base, off)
           /\ state = "new" => len = 0

MInv == TypeOK /\ HoldsWritten /\ ReadInv

-----------------------------------------------------------------------------
LEMMA InitInv == Init => MInv
PROOF
<1> SUFFICES ASSUME Init PROVE MInv
    OBVIOUS
<1>1. received = Run(0, 0) /\ received \in Seq(Nat)
    BY RunProperties DEF Init
<1>2. cells \in [1..0 -> Nat]
    BY DEF Init
<1>3. TypeOK /\ HoldsWritten /\ ReadInv
    BY <1>1, <1>2 DEF Init, TypeOK, HoldsWritten, ReadInv
<1> QED  BY <1>3 DEF MInv

LEMMA OpenInv ==
    ASSUME MInv, Open
    PROVE  MInv'
PROOF
<1>1. PICK c \in Capacities : cap' = c /\ cells' = [i \in 1..c |-> Junk]
    BY DEF Open
<1>2. len' = 0 /\ off' = 0 /\ state' = "open" /\ base' = base /\ received' = received
    BY DEF Open
<1>3. TypeOK'
    BY <1>1, <1>2 DEF MInv, TypeOK, Junk
<1>4. HoldsWritten'
    BY <1>2 DEF HoldsWritten
<1>5. ReadInv'
    BY <1>2 DEF MInv, TypeOK, ReadInv, Open
<1> QED  BY <1>3, <1>4, <1>5 DEF MInv
(* What a write puts behind the written bytes is what comes next.          *)
LEMMA ChunkBytes ==
    ASSUME TypeOK, NEW n \in Nat
    PROVE  /\ Chunk(n) \in Seq(Nat) /\ Len(Chunk(n)) = n
           /\ \A i \in 1..n : Chunk(n)[i] = base + len + i
PROOF
<1>1. base + len \in Nat
    BY DEF TypeOK
<1> QED  BY <1>1, RunProperties DEF Chunk

LEMMA WriteInPlaceInv ==
    ASSUME MInv, NEW n \in 0 .. MaxWrite, state = "open", len <= cap,
           WriteInPlace(n)
    PROVE  MInv' /\ len' <= cap' /\ cap <= cap'
PROOF
<1>1. /\ cap \in Nat /\ cells \in [1..cap -> Nat] /\ len \in Nat /\ off \in 0..len
      /\ base \in Nat /\ n \in Nat
    BY DEF MInv, TypeOK
<1>2. /\ len' = len + n /\ cap >= len + n
      /\ UNCHANGED <<cap, off, state, base, received>>
      /\ cells' = [i \in 1..cap |-> IF i > len /\ i <= len + n
                                    THEN Chunk(n)[i - len] ELSE cells[i]]
    BY DEF WriteInPlace
<1>3. \A i \in 1..n : Chunk(n)[i] = base + len + i
    BY ChunkBytes DEF MInv
<1>4. ASSUME NEW i \in 1..cap, i > len, i <= len + n
      PROVE  cells'[i] = base + i
    <2>1. i - len \in 1..n /\ base + len + (i - len) = base + i
        BY <1>1, <1>4
    <2> QED  BY <1>2, <1>3, <1>4, <2>1
<1>5. ASSUME NEW i \in 1..cap, ~ (i > len /\ i <= len + n)
      PROVE  cells'[i] = cells[i]
    BY <1>2, <1>5
<1>6. cells' \in [1..cap' -> Nat]
    <2>1. \A i \in 1..cap : cells'[i] \in Nat
        BY <1>1, <1>4, <1>5
    <2> QED  BY <1>2, <2>1
<1>7. HoldsWritten'
    <2> SUFFICES ASSUME NEW i \in 1..len', i <= cap'
                 PROVE  cells'[i] = base' + i
        BY DEF HoldsWritten
    <2>1. i \in 1..cap
        BY <1>1, <1>2
    <2>2. CASE i > len
        BY <1>1, <1>2, <1>4, <2>1, <2>2
    <2>3. CASE ~ (i > len)
        BY <1>1, <1>2, <1>5, <2>1, <2>3 DEF MInv, HoldsWritten
    <2> QED  BY <2>2, <2>3
<1>8. TypeOK'
    <2>1. /\ cap' \in Nat /\ len' \in Nat /\ off' \in 0..len' /\ base' \in Nat
          /\ state' = state /\ received' = received
        BY <1>1, <1>2
    <2> QED  BY <1>6, <2>1 DEF MInv, TypeOK
<1>9. ReadInv'
    BY <1>1, <1>2 DEF MInv, ReadInv
<1> QED  BY <1>1, <1>2, <1>7, <1>8, <1>9 DEF MInv

LEMMA WriteGrownInv ==
    ASSUME MInv, NEW n \in 0 .. MaxWrite, state = "open", len <= cap,
           WriteGrown(n)
    PROVE  MInv' /\ cap <= cap' /\ (n <= cap => len' <= cap')
PROOF
<1>1. /\ cap \in Nat /\ cells \in [1..cap -> Nat] /\ len \in Nat /\ off \in 0..len
      /\ base \in Nat /\ n \in Nat
    BY DEF MInv, TypeOK
<1>2. /\ len' = len + n /\ cap' = Grown(n)
      /\ UNCHANGED <<off, state, base, received>>
      /\ cells' = Block(Grown(n), cells, len, Chunk(n))
    BY DEF WriteGrown
<1>3. Grown(n) \in Nat /\ cap <= Grown(n) /\ (n <= cap => len + n <= Grown(n))
    BY <1>1 DEF Grown
<1>4. Len(Chunk(n)) = n /\ \A i \in 1..n : Chunk(n)[i] = base + len + i
    BY ChunkBytes DEF MInv
<1>5. \A i \in 1..Grown(n) :
          cells'[i] = IF i <= len THEN cells[i]
                      ELSE IF i <= len + n THEN Chunk(n)[i - len] ELSE 0
    BY <1>2, <1>4 DEF Block, Junk
<1>6. ASSUME NEW i \in 1..Grown(n)
      PROVE  /\ cells'[i] \in Nat
             /\ i <= len + n => cells'[i] = base + i
    <2>1. CASE i <= len
        <3>1. i \in 1..cap /\ i \in 1..len
            BY <1>1, <1>3, <2>1
        <3> QED  BY <1>1, <1>5, <2>1, <3>1 DEF MInv, HoldsWritten
    <2>2. CASE ~ (i <= len) /\ i <= len + n
        <3>1. i - len \in 1..n /\ base + len + (i - len) = base + i
            BY <1>1, <1>3, <2>2
        <3> QED  BY <1>1, <1>3, <1>4, <1>5, <2>2, <3>1
    <2>3. CASE ~ (i <= len) /\ ~ (i <= len + n)
        BY <1>5, <2>3
    <2> QED  BY <2>1, <2>2, <2>3
<1>7. cells' \in [1..cap' -> Nat]
    <2>1. cells' = [i \in 1..cap' |-> cells'[i]]
        BY <1>2 DEF Block
    <2> QED  BY <1>2, <1>6, <2>1
<1>8. HoldsWritten'
    BY <1>1, <1>2, <1>3, <1>6 DEF HoldsWritten
<1>9. TypeOK' /\ ReadInv'
    BY <1>1, <1>2, <1>3, <1>7 DEF MInv, TypeOK, ReadInv
<1> QED  BY <1>1, <1>2, <1>3, <1>8, <1>9 DEF MInv

LEMMA ReadStepInv ==
    ASSUME MInv, NEW n \in 0 .. MaxRead, Read(n)
    PROVE  MInv'
PROOF
<1> DEFINE got == IF n > Remaining THEN Remaining ELSE n
           data == [i \in 1..got |-> cells[off + i]]
<1>1. /\ cap \in Nat /\ cells \in [1..cap -> Nat] /\ len \in Nat /\ off \in 0..len
      /\ base \in Nat /\ n \in Nat /\ len <= cap /\ state = "open"
    BY DEF MInv, TypeOK, Read
<1>2. /\ received' = received \o data /\ off' = off + got
      /\ UNCHANGED <<cells, cap, len, state, base>>
    BY DEF Read
<1>3. got \in Nat /\ off + got <= len
    BY <1>1 DEF Remaining
<1>4. data = Run(base + off, got)
    <2>1. ASSUME NEW i \in 1..got PROVE cells[off + i] = base + off + i
        <3>1. off + i \in 1..len /\ off + i <= cap
            BY <1>1, <1>3
        <3>2. cells[off + i] = base + (off + i)
            BY <3>1 DEF MInv, HoldsWritten
        <3> QED  BY <1>1, <3>2
    <2> HIDE DEF got
    <2> QED  BY <2>1 DEF Run
<1> HIDE DEF got, data
<1>5. received' = Run(base, off + got)
    <2>1. received = Run(base, off)
        BY DEF MInv, ReadInv
    <2>2. Run(base, off) \o Run(base + off, got) = Run(base, off + got)
        <3>1. base \in Nat /\ off \in Nat /\ got \in Nat
            BY <1>1, <1>3
        <3> QED  BY <3>1, RunConcat
    <2> QED  BY <1>2, <1>4, <2>1, <2>2
<1>6. received' \in Seq(Nat)
    BY <1>1, <1>3, <1>5, RunProperties
<1>7. TypeOK' /\ HoldsWritten' /\ ReadInv'
    BY <1>1, <1>2, <1>3, <1>5, <1>6 DEF MInv, TypeOK, HoldsWritten, ReadInv
<1> QED  BY <1>7 DEF MInv

LEMMA RewindInv ==
    ASSUME MInv, Rewind
    PROVE  MInv' /\ received' = <<>>
PROOF
<1>1. base + len \in Nat
    BY DEF MInv, TypeOK
<1>2. Run(base + len, 0) = <<>> /\ <<>> \in Seq(Nat)
    BY <1>1, RunProperties
<1> QED  BY <1>1, <1>2 DEF Rewind, MInv, TypeOK, HoldsWritten, ReadInv

LEMMA StepInv ==
    ASSUME MInv, [Next]_vars
    PROVE  MInv'
PROOF
<1>1. CASE Open
    BY <1>1, OpenInv
<1>2. ASSUME NEW n \in 0 .. MaxWrite, Write(n) PROVE MInv'
    <2>1. CASE WriteInPlace(n)
        BY <1>2, <2>1, WriteInPlaceInv DEF Write
    <2>2. CASE WriteGrown(n)
        BY <1>2, <2>2, WriteGrownInv DEF Write
    <2>3. CASE UNCHANGED vars
        BY <2>3 DEF vars, MInv, TypeOK, HoldsWritten, ReadInv
    <2> QED  BY <1>2, <2>1, <2>2, <2>3 DEF Write, WriteFails
<1>3. ASSUME NEW n \in 0 .. MaxRead, Read(n) PROVE MInv'
    BY <1>3, ReadStepInv
<1>4. CASE Rewind
    BY <1>4, RewindInv
<1>5. CASE Close
    BY <1>5 DEF Close, MInv, TypeOK, HoldsWritten, ReadInv
<1>6. CASE UNCHANGED vars
    BY <1>6 DEF vars, MInv, TypeOK, HoldsWritten, ReadInv
<1> QED  BY <1>1, <1>2, <1>3, <1>4, <1>5, <1>6 DEF Next

LEMMA Invariance == Spec => []MInv
PROOF BY InitInv, StepInv, PTL DEF Spec

-----------------------------------------------------------------------------
(* The properties.                                                         *)

(* The read position never passes the written bytes (memread, memwrite,    *)
(* huf_memrewind).                                                         *)
THEOREM TypeCorrect == Spec => []TypeOK
PROOF BY Invariance, PTL DEF MInv

(* The block holds every byte written since the last rewind, also when it  *)
(* was moved to a larger one (memwrite).                                   *)
THEOREM HoldsWrittenHolds == Spec => []HoldsWritten
PROOF BY Invariance, PTL DEF MInv

(* A stream whose writes are never longer than the capacity it was opened  *)
(* with never writes past its block, however often it grows (memwrite).    *)
THEOREM ShortWritesStayWithin ==
    ASSUME \A c \in Capacities : MaxWrite <= c
    PROVE  Spec => []WithinCapacity
PROOF
<1> DEFINE Roomy == /\ WithinCapacity
                    /\ state # "new" => MaxWrite <= cap
<1>1. Init => Roomy
    BY DEF Init, WithinCapacity
<1>2. MInv /\ Roomy /\ [Next]_vars => Roomy'
    <2> SUFFICES ASSUME MInv, Roomy, [Next]_vars PROVE Roomy'
        OBVIOUS
    <2>1. len \in Nat /\ cap \in Nat
        BY DEF MInv, TypeOK
    <2>2. CASE Open
        BY <2>2 DEF Open, WithinCapacity
    <2>3. ASSUME NEW n \in 0 .. MaxWrite, Write(n) PROVE Roomy'
        <3>1. state = "open" /\ len <= cap /\ n <= cap /\ n \in Nat
            BY <2>1, <2>3 DEF Write
        <3>2. CASE WriteInPlace(n)
            BY <2>1, <3>1, <3>2, WriteInPlaceInv DEF WriteInPlace, WithinCapacity
        <3>3. CASE WriteGrown(n)
            <4>1. cap' \in Nat /\ cap <= cap' /\ len' <= cap' /\ state' = state
                BY <3>1, <3>3, WriteGrownInv DEF MInv, TypeOK, WriteGrown
            <4> QED  BY <2>1, <3>1, <4>1 DEF WithinCapacity
        <3>4. CASE UNCHANGED vars
            BY <3>4 DEF vars, WithinCapacity
        <3> QED  BY <2>3, <3>2, <3>3, <3>4 DEF Write, WriteFails
    <2>4. CASE \/ \E n \in 0 .. MaxRead : Read(n)
               \/ Close \/ UNCHANGED vars
        BY <2>4 DEF Read, Close, vars, WithinCapacity
    <2>5. CASE Rewind
        BY <2>1, <2>5 DEF Rewind, WithinCapacity
    <2> QED  BY <2>2, <2>3, <2>4, <2>5 DEF Next
<1> QED  BY Invariance, <1>1, <1>2, PTL DEF Spec

-----------------------------------------------------------------------------
(* The stream implements a restartable pipe.                               *)

LEMMA WriteFrame ==
    ASSUME MInv, NEW n \in 0 .. MaxWrite, Write(n)
    PROVE  base' = base /\ len <= len' /\ len' \in Nat /\ received' = received
PROOF BY DEF Write, WriteInPlace, WriteGrown, WriteFails, vars, MInv, TypeOK

(* Whatever is written and read, in whatever pieces, the stream gives out  *)
(* the bytes it was given in order, and after a rewind it starts afresh.   *)
THEOREM MemImplementsPipe == Spec => MemIsPipe
PROOF
<1>1. Init => Pipe!Init
    <2>1. Run(0, 0) = <<>>
        BY RunProperties
    <2> QED  BY <2>1 DEF Init, Pipe!Init
<1>2. MInv /\ MInv' /\ [Next]_vars
        => [Pipe!Transfer \/ Pipe!Restart]_<<Run(base, len), received>>
    <2> SUFFICES ASSUME MInv, MInv', [Next]_vars
                 PROVE  Pipe!Transfer \/ Pipe!Restart
                        \/ UNCHANGED <<Run(base, len), received>>
        OBVIOUS
    <2>1. /\ base \in Nat /\ len \in Nat /\ off \in Nat /\ off <= len
          /\ received = Run(base, off)
          /\ base' \in Nat /\ len' \in Nat /\ off' \in Nat /\ off' <= len'
          /\ received' = Run(base', off')
        BY DEF MInv, TypeOK, ReadInv
    <2>2. ASSUME base' = base, len <= len', off <= off' PROVE Pipe!Transfer
        <3>1. /\ IsPrefix(Run(base, len), Run(base, len'))
              /\ IsPrefix(Run(base, off), Run(base, off'))
              /\ IsPrefix(Run(base, off'), Run(base, len'))
            BY <2>1, <2>2, RunIsPrefix
        <3> QED  BY <2>1, <2>2, <3>1 DEF Pipe!Transfer, Pipe!IsPrefix, IsPrefix
    <2>3. CASE Open
        <3>1. state = "new" /\ len' = 0 /\ off' = 0 /\ base' = base
            BY <2>3 DEF Open
        <3>2. len = 0
            BY <3>1 DEF MInv, ReadInv
        <3>3. off = 0
            BY <2>1, <3>2
        <3> QED  BY <2>2, <3>1, <3>2, <3>3
    <2>4. ASSUME NEW n \in 0 .. MaxWrite, Write(n) PROVE Pipe!Transfer
        <3>1. off' = off
            BY <2>4 DEF Write, WriteInPlace, WriteGrown, WriteFails, vars
        <3> QED  BY <2>1, <2>2, <2>4, <3>1, WriteFrame
    <2>5. ASSUME NEW n \in 0 .. MaxRead, Read(n) PROVE Pipe!Transfer
        <3>1. base' = base /\ len' = len /\ off <= off'
            BY <2>1, <2>5 DEF Read, Remaining
        <3> QED  BY <2>1, <2>2, <3>1
    <2>6. CASE Rewind
        <3>1. received' = <<>> /\ base' = base + len /\ len' = 0
            BY <2>6 DEF Rewind
        <3>2. Run(base', len') = <<>>
            BY <2>1, <3>1, RunProperties
        <3> QED  BY <3>1, <3>2 DEF Pipe!Restart
    <2>7. CASE Close \/ UNCHANGED vars
        BY <2>7 DEF Close, vars
    <2> QED  BY <2>3, <2>4, <2>5, <2>6, <2>7 DEF Next
<1> QED  BY Invariance, <1>1, <1>2, PTL DEF Spec, MemIsPipe, Pipe!RestartableSpec
=============================================================================
