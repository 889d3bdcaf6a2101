------------------------- MODULE BufioReaderProofs -------------------------
(***************************************************************************)
(* Proofs about BufioReader, for every capacity of the buffer, every       *)
(* length of the reads, every source and every way it splits its answers.  *)
(* They need a source that does not fail: what huf_bufio_read makes of a   *)
(* failure of read(2) is shown by a run.                                   *)
(***************************************************************************)
EXTENDS BufioReader, ByteStreamProofs

USE ReaderAssumption

(* What was delivered is the beginning of the stream.                      *)
DeliveredInv ==
    /\ delivered = Run(0, Len(delivered))
    /\ Len(delivered) <= pos

NoFault == fault = FALSE

CountInv == processed = Len(delivered)

RInv == TypeOK /\ ReadAheadComesNext /\ CountInv /\ DeliveredInv /\ NoFault

-----------------------------------------------------------------------------
(* The parts of a call.                                                    *)

LEMMA InitInv == Init => RInv
PROOF
<1> SUFFICES ASSUME Init PROVE RInv
    OBVIOUS
<1>1. delivered = Run(0, 0) /\ delivered \in Seq(Nat) /\ Len(delivered) = 0
    BY RunProperties DEF Init
<1>2. bytes \in [1..Capacity -> Nat]
    BY DEF Init, Junk
<1>3. fault \in BOOLEAN
    BY DEF Init
<1>4. TypeOK
    BY <1>1, <1>2, <1>3 DEF Init, TypeOK
<1>5. ReadAheadComesNext /\ CountInv /\ DeliveredInv
    BY <1>1 DEF Init, ReadAheadComesNext, CountInv, DeliveredInv, Available
<1>6. NoFault
    BY DEF Init, NoFault
<1> QED  BY <1>4, <1>5, <1>6 DEF RInv

LEMMA SmallerIs ==
    ASSUME NEW m \in Nat, NEW n \in Nat
    PROVE  /\ Smaller(m, n) \in Nat /\ Smaller(m, n) <= m /\ Smaller(m, n) <= n
           /\ Smaller(m, n) = m \/ Smaller(m, n) = n
PROOF BY DEF Smaller

(* What is known when a call begins.                                       *)
CallBegins(n) ==
    /\ bytes \in [1..Capacity -> Nat] /\ offset \in Nat /\ length \in Nat
    /\ offset <= length /\ length <= Capacity /\ pos \in Nat
    /\ pos <= SourceSize /\ delivered \in Seq(Nat) /\ n \in Nat
    /\ Len(delivered) \in Nat /\ Available \in Nat /\ Available = length - offset
    /\ pos = Len(delivered) + Available
    /\ delivered = Run(0, Len(delivered))
    /\ Served(n) \in Nat /\ Served(n) <= n /\ Served(n) <= Available
    /\ Served(n) = n \/ Served(n) = Available
    /\ offset + Served(n) <= length
    /\ Buffered(n) = Run(Len(delivered), Served(n))

LEMMA CallFacts ==
    ASSUME RInv, NEW n \in 0 .. MaxRead, status = "ok"
    PROVE  CallBegins(n)
PROOF
<1>1. /\ bytes \in [1..Capacity -> Nat] /\ offset \in Nat /\ length \in Nat
      /\ offset <= length /\ length <= Capacity /\ pos \in Nat
      /\ pos <= SourceSize /\ delivered \in Seq(Nat) /\ n \in Nat
      /\ Len(delivered) \in Nat
    BY DEF RInv, TypeOK
<1>2. Available \in Nat
    BY <1>1 DEF Available
<1>3. /\ Served(n) \in Nat /\ Served(n) <= n /\ Served(n) <= Available
      /\ Served(n) = n \/ Served(n) = Available
    BY <1>1, <1>2, SmallerIs DEF Served
<1>4. offset + Served(n) <= length
    BY <1>1, <1>3 DEF Available
<1>5. pos = Len(delivered) + Available /\ delivered = Run(0, Len(delivered))
    BY DEF RInv, ReadAheadComesNext, DeliveredInv
<1>6. \A i \in 1 .. Served(n) : bytes[offset + i] = Len(delivered) + i
    <2>1. \A i \in 1 .. Served(n) : i \in 1 .. Available
        BY <1>2, <1>3
    <2> QED  BY <2>1 DEF RInv, ReadAheadComesNext
<1>7. Buffered(n) = Run(Len(delivered), Served(n))
    BY <1>6 DEF Buffered, Run
<1> QED  BY <1>1, <1>2, <1>3, <1>4, <1>5, <1>7 DEF CallBegins, Available

(* An answer of a source that does not fail.                               *)
LEMMA AnswerFacts ==
    ASSUME RInv, ReadFaults = FALSE, NEW m \in Nat,
           NEW answer \in Answers(m) \cup Faults
    PROVE  \E k \in Nat : /\ k <= m /\ pos + k <= SourceSize
                          /\ answer.count = k /\ answer.data = Run(pos, k)
                          /\ answer.fault = FALSE
                          /\ Len(answer.data) = k
                          /\ ~ShortReads => k = m \/ pos + k = SourceSize
                          /\ k = 0 => m = 0 \/ pos = SourceSize
PROOF
<1>1. answer \in Answers(m)
    BY DEF Faults
<1>2. PICK k \in Counts(m) :
          answer = [count |-> k, data |-> Run(pos, k), fault |-> FALSE]
    BY <1>1 DEF Answers
<1>3. pos \in Nat /\ SourceSize - pos \in Nat
    BY DEF RInv, TypeOK
<1>4. /\ Left(m) \in Nat /\ Left(m) <= m /\ Left(m) <= SourceSize - pos
      /\ Left(m) = m \/ Left(m) = SourceSize - pos
    BY <1>3, SmallerIs DEF Left
<1>5. k \in Nat /\ k <= Left(m) /\ (~ShortReads => k = Left(m))
    BY <1>4 DEF Counts
<1>6. Len(Run(pos, k)) = k
    BY <1>3, <1>5, RunProperties
<1>7. answer.count = k /\ answer.data = Run(pos, k) /\ answer.fault = FALSE
    BY <1>2
<1>8. k <= m /\ pos + k <= SourceSize
    BY <1>3, <1>4, <1>5
<1>9. ~ShortReads => k = m \/ pos + k = SourceSize
    BY <1>3, <1>4, <1>5
<1>10. k = 0 => m = 0 \/ pos = SourceSize
    BY <1>3, <1>4 DEF Counts
<1> QED  BY <1>5, <1>6, <1>7, <1>8, <1>9, <1>10

(* Delivering the next n bytes.                                            *)
LEMMA SucceedFacts ==
    ASSUME RInv, status = "ok", NEW n \in Nat, NEW data,
           data = Run(Len(delivered), n), Succeed(n, data)
    PROVE  /\ delivered' \in Seq(Nat) /\ Len(delivered') = Len(delivered) + n
           /\ delivered' = Run(0, Len(delivered'))
           /\ processed' = Len(delivered') /\ status' = "ok"
PROOF
<1>1. Len(delivered) \in Nat /\ delivered = Run(0, Len(delivered))
    BY DEF RInv, TypeOK, DeliveredInv
<1>2. Run(0, Len(delivered)) \o Run(0 + Len(delivered), n)
      = Run(0, Len(delivered) + n)
    BY <1>1, RunConcat
<1>3. delivered' = Run(0, Len(delivered) + n)
    BY <1>1, <1>2 DEF Succeed
<1>4. delivered' \in Seq(Nat) /\ Len(delivered') = Len(delivered) + n
    BY <1>1, <1>3, RunProperties
<1> QED  BY <1>1, <1>3, <1>4 DEF Succeed, RInv, CountInv

(* Neither the source nor the client goes back.                            *)
Grows == pos <= pos' /\ Len(delivered) <= Len(delivered')

(* A call that fails leaves the client what it had.                        *)
LEMMA FailInv ==
    ASSUME RInv, NEW n \in 0 .. MaxRead, want' = n, Fail, fault' = FALSE,
           bytes' \in [1..Capacity -> Nat], length' \in 0 .. Capacity,
           offset' \in Nat, NEW k \in Nat, pos' = pos + k, pos + k <= SourceSize
    PROVE  RInv' /\ Grows
PROOF
<1>1. fault' \in BOOLEAN
    OBVIOUS
<1>2. /\ pos \in Nat /\ processed \in Nat /\ delivered \in Seq(Nat)
      /\ Len(delivered) \in Nat /\ Len(delivered) <= pos
      /\ delivered = Run(0, Len(delivered)) /\ processed = Len(delivered)
    BY DEF RInv, TypeOK, DeliveredInv, CountInv
<1>3. pos' \in 0 .. SourceSize /\ Len(delivered) <= pos'
    BY <1>2
<1>4. status' = "error" /\ processed' = processed /\ delivered' = delivered
    BY DEF Fail
<1>5. want' \in 0 .. MaxRead
    OBVIOUS
<1>6. TypeOK'
    BY <1>1, <1>2, <1>3, <1>4, <1>5 DEF TypeOK
<1>7. ReadAheadComesNext' /\ CountInv' /\ DeliveredInv'
    BY <1>2, <1>3, <1>4 DEF ReadAheadComesNext, CountInv, DeliveredInv
<1>8. Grows
    BY <1>2, <1>4 DEF Grows
<1> QED  BY <1>6, <1>7, <1>8 DEF RInv, NoFault

(* A call that succeeds has delivered the next n bytes, and the source     *)
(* stands where they and the unread part of the buffer end.                *)
LEMMA SucceedInv ==
    ASSUME RInv, status = "ok", NEW n \in 0 .. MaxRead, want' = n, fault' = FALSE,
           Succeed(n, Run(Len(delivered), n)),
           bytes' \in [1..Capacity -> Nat], length' \in 0 .. Capacity,
           offset' \in Nat, offset' <= length', pos' \in 0 .. SourceSize, pos <= pos',
           pos' = Len(delivered) + n + (length' - offset'),
           \A i \in 1 .. length' - offset' :
               bytes'[offset' + i] = Len(delivered) + n + i
    PROVE  RInv' /\ Grows
PROOF
<1>0. fault' \in BOOLEAN
    OBVIOUS
<1>1. n \in Nat /\ Len(delivered) \in Nat
    BY DEF RInv, TypeOK
<1>2. /\ delivered' \in Seq(Nat) /\ Len(delivered') = Len(delivered) + n
      /\ delivered' = Run(0, Len(delivered'))
      /\ processed' = Len(delivered') /\ status' = "ok"
    BY <1>1, SucceedFacts
<1>3. want' \in 0 .. MaxRead
    OBVIOUS
<1>4. processed' \in Nat
    BY <1>1, <1>2
<1>5. TypeOK'
    BY <1>0, <1>1, <1>2, <1>3, <1>4 DEF TypeOK
<1>6. Available' = length' - offset'
    BY DEF Available
<1>7. ReadAheadComesNext'
    BY <1>2, <1>6 DEF ReadAheadComesNext
<1>8. Len(delivered') <= pos'
    BY <1>1, <1>2
<1>9. CountInv' /\ DeliveredInv'
    BY <1>2, <1>8 DEF CountInv, DeliveredInv
<1>10. Grows
    BY <1>1, <1>2 DEF Grows
<1> QED  BY <1>5, <1>7, <1>9, <1>10 DEF RInv, NoFault

-----------------------------------------------------------------------------
(* Every call preserves the invariant.                                     *)

LEMMA ReadBufferedInv ==
    ASSUME RInv, ReadFaults = FALSE, NEW n \in 0 .. MaxRead, status = "ok",
           want' = n, ReadBuffered(n)
    PROVE  RInv' /\ Grows
PROOF
<1>0. CallBegins(n)
    BY CallFacts
<1>1. Served(n) = n
    BY <1>0 DEF CallBegins, ReadBuffered, Served, Smaller
<1>2. n \in Nat /\ Buffered(n) = Run(Len(delivered), n) /\ n <= Available
    BY <1>1, <1>0 DEF CallBegins
<1>3. offset' = offset + n /\ UNCHANGED <<bytes, length, pos, fault>>
    BY DEF ReadBuffered
<1>4. Succeed(n, Run(Len(delivered), n))
    BY <1>2 DEF ReadBuffered, Succeed
<1>5. /\ Available = length - offset /\ length \in Nat /\ offset \in Nat
      /\ Len(delivered) \in Nat /\ length <= Capacity
      /\ pos = Len(delivered) + Available
      /\ bytes \in [1..Capacity -> Nat] /\ pos \in Nat /\ pos <= SourceSize
    BY <1>0 DEF CallBegins
<1>6. ASSUME NEW i \in 1 .. length' - offset'
      PROVE  bytes'[offset' + i] = Len(delivered) + n + i
    <2>1. n + i \in 1 .. Available
        BY <1>2, <1>3, <1>5
    <2>2. bytes[offset + (n + i)] = Len(delivered) + (n + i)
        BY <2>1 DEF RInv, ReadAheadComesNext
    <2> QED  BY <1>2, <1>3, <1>5, <2>2
<1>7. /\ offset' \in Nat /\ offset' <= length' /\ length' \in 0 .. Capacity
      /\ pos' \in 0 .. SourceSize /\ pos <= pos'
      /\ pos' = Len(delivered) + n + (length' - offset')
      /\ bytes' \in [1..Capacity -> Nat]
    BY <1>2, <1>3, <1>5
<1>8. CASE fault' = FALSE
    BY <1>4, <1>6, <1>7, <1>8, SucceedInv
<1> QED  BY <1>3, <1>8 DEF RInv, NoFault

LEMMA ReadDirectInv ==
    ASSUME RInv, ReadFaults = FALSE, NEW n \in 0 .. MaxRead, status = "ok",
           want' = n, ReadDirect(n)
    PROVE  RInv' /\ Grows
PROOF
<1> DEFINE rest == n - Served(n)
<1>0. CallBegins(n)
    BY CallFacts
<1>1. rest \in Nat /\ rest > 0 /\ rest >= Capacity /\ Served(n) = Available
    BY <1>0 DEF CallBegins, ReadDirect
<1>2. PICK answer \in Answers(rest) \cup Faults :
         /\ pos' = pos + Len(answer.data)
         /\ fault' = answer.fault
         /\ IF answer.count < rest
            THEN Fail
            ELSE Succeed(n, Buffered(n) \o
                            Overlay(answer.data, [i \in 1..rest |-> Junk], rest))
    BY DEF ReadDirect
<1>3. /\ length' = 0 /\ offset' = 0 /\ bytes' = bytes
    BY DEF ReadDirect
<1>4. /\ Len(delivered) \in Nat /\ Available \in Nat /\ n = Available + rest
      /\ Buffered(n) = Run(Len(delivered), Available)
      /\ pos = Len(delivered) + Available /\ pos \in Nat
      /\ bytes \in [1..Capacity -> Nat]
    BY <1>0, <1>1 DEF CallBegins
<1> HIDE DEF rest
<1>5. PICK k \in Nat :
          /\ k <= rest /\ pos + k <= SourceSize
          /\ answer.count = k /\ answer.data = Run(pos, k)
          /\ answer.fault = FALSE
          /\ Len(answer.data) = k
          /\ ~ShortReads => k = rest \/ pos + k = SourceSize
          /\ k = 0 => rest = 0 \/ pos = SourceSize
    BY <1>1, AnswerFacts, Zenon
<1>6. pos' = pos + k /\ fault' = FALSE
    BY <1>2, <1>5
<1>7. bytes' \in [1..Capacity -> Nat] /\ length' \in 0 .. Capacity /\ offset' \in Nat
    BY <1>3, <1>4
<1>8. CASE Fail
    BY <1>5, <1>6, <1>7, <1>8, FailInv
<1>9. CASE ~ (k < rest) /\ Succeed(n, Buffered(n) \o
                      Overlay(answer.data, [i \in 1..rest |-> Junk], rest))
    <2>1. k = rest
        BY <1>1, <1>5, <1>9
    <2>2. Overlay(answer.data, [i \in 1..rest |-> Junk], rest) = Run(pos, rest)
        <3>1. \A i \in 1..rest : Run(pos, rest)[i] = pos + i
            BY <1>1, <1>4 DEF Run
        <3>2. \A i \in 1..rest : answer.data[i] = pos + i
            BY <1>5, <2>1, <3>1
        <3>3. \A i \in 1..rest : i <= Len(answer.data)
            BY <1>1, <1>5, <2>1
        <3> QED  BY <3>2, <3>3 DEF Overlay, Run
    <2>3. Buffered(n) \o Run(pos, rest) = Run(Len(delivered), n)
        <3>1. Run(Len(delivered), Available) \o Run(Len(delivered) + Available, rest)
              = Run(Len(delivered), Available + rest)
            <4> DEFINE a == Len(delivered)
                       m == Available
            <4>1. a \in Nat /\ m \in Nat /\ rest \in Nat
                BY <1>1, <1>4
            <4> HIDE DEF a, m
            <4>2. Run(a, m) \o Run(a + m, rest) = Run(a, m + rest)
                BY <4>1, RunConcat
            <4> QED  BY <4>2 DEF a, m
        <3> QED  BY <1>4, <3>1
    <2>4. Succeed(n, Run(Len(delivered), n))
        BY <1>9, <2>2, <2>3 DEF Succeed
    <2>5. /\ pos' = Len(delivered) + n + (length' - offset')
          /\ pos' \in 0 .. SourceSize /\ offset' <= length' /\ pos <= pos'
        BY <1>1, <1>3, <1>4, <1>5, <1>6, <2>1
    <2>6. \A i \in 1 .. length' - offset' :
              bytes'[offset' + i] = Len(delivered) + n + i
        BY <1>3
    <2> QED  BY <1>6, <1>7, <2>4, <2>5, <2>6, SucceedInv
<1> QED  BY <1>2, <1>5, <1>8, <1>9

LEMMA ReadRefillInv ==
    ASSUME RInv, ReadFaults = FALSE, NEW n \in 0 .. MaxRead, status = "ok",
           want' = n, ReadRefill(n)
    PROVE  RInv' /\ Grows
PROOF
<1> DEFINE rest == n - Served(n)
<1>0. CallBegins(n)
    BY CallFacts
<1>1. rest \in Nat /\ rest > 0 /\ rest < Capacity /\ Served(n) = Available
    BY <1>0 DEF CallBegins, ReadRefill
<1>2. PICK answer \in Answers(Capacity) \cup Faults :
         /\ pos' = pos + Len(answer.data)
         /\ fault' = answer.fault
         /\ bytes' = Overlay(answer.data, bytes, Capacity)
         /\ length' = answer.count
         /\ IF TooShort(answer.count, rest)
            THEN Fail /\ offset' = offset + Served(n)
            ELSE /\ Succeed(n, Buffered(n) \o SubSeq(bytes', 1, rest))
                 /\ offset' = rest
    BY DEF ReadRefill
<1>3. /\ Len(delivered) \in Nat /\ Available \in Nat /\ n = Available + rest
      /\ Buffered(n) = Run(Len(delivered), Available)
      /\ pos = Len(delivered) + Available /\ pos \in Nat
      /\ bytes \in [1..Capacity -> Nat] /\ offset + Served(n) \in Nat
    BY <1>0, <1>1 DEF CallBegins
<1> HIDE DEF rest
<1>4. PICK k \in Nat :
          /\ k <= Capacity /\ pos + k <= SourceSize
          /\ answer.count = k /\ answer.data = Run(pos, k)
          /\ answer.fault = FALSE
          /\ Len(answer.data) = k
          /\ ~ShortReads => k = Capacity \/ pos + k = SourceSize
          /\ k = 0 => Capacity = 0 \/ pos = SourceSize
    BY AnswerFacts, Zenon
<1>5. pos' = pos + k /\ fault' = FALSE /\ length' = k
    BY <1>2, <1>4
<1>6. \A i \in 1..k : answer.data[i] = pos + i
    <2>1. \A i \in 1..k : Run(pos, k)[i] = pos + i
        BY <1>3 DEF Run
    <2> QED  BY <1>4, <2>1
<1>7. bytes' = [i \in 1..Capacity |-> IF i <= k THEN pos + i ELSE bytes[i]]
    <2>1. bytes' = [i \in 1..Capacity |-> IF i <= k THEN answer.data[i] ELSE bytes[i]]
        BY <1>2, <1>4 DEF Overlay
    <2>2. \A i \in 1..Capacity : i <= k => i \in 1..k
        OBVIOUS
    <2> QED  BY <1>6, <2>1, <2>2
<1>8. bytes' \in [1..Capacity -> Nat]
    BY <1>3, <1>7
<1>9. length' \in 0 .. Capacity
    BY <1>4, <1>5
<1>10. CASE Fail /\ offset' = offset + Served(n)
    <2>1. offset' \in Nat
        BY <1>3, <1>10
    <2> QED  BY <1>4, <1>5, <1>8, <1>9, <1>10, <2>1, FailInv
<1>11. CASE /\ ~ (k < rest) /\ offset' = rest
            /\ Succeed(n, Buffered(n) \o SubSeq(bytes', 1, rest))
    <2>1. rest <= k
        BY <1>1, <1>4, <1>11
    <2>2. SubSeq(bytes', 1, rest) = Run(pos, rest)
        <3>1. \A i \in 1..rest : bytes'[i] = pos + i
            BY <1>1, <1>7, <2>1
        <3>2. SubSeq(bytes', 1, rest) = [i \in 1..rest |-> bytes'[i]]
            BY <1>1, <1>8
        <3> QED  BY <3>1, <3>2 DEF Run
    <2>3. Buffered(n) \o Run(pos, rest) = Run(Len(delivered), n)
        <3>1. Run(Len(delivered), Available) \o Run(Len(delivered) + Available, rest)
              = Run(Len(delivered), Available + rest)
            <4> DEFINE a == Len(delivered)
                       m == Available
            <4>1. a \in Nat /\ m \in Nat /\ rest \in Nat
                BY <1>1, <1>3
            <4> HIDE DEF a, m
            <4>2. Run(a, m) \o Run(a + m, rest) = Run(a, m + rest)
                BY <4>1, RunConcat
            <4> QED  BY <4>2 DEF a, m
        <3> QED  BY <1>3, <3>1
    <2>4. Succeed(n, Run(Len(delivered), n))
        BY <1>11, <2>2, <2>3 DEF Succeed
    <2>5. /\ offset' \in Nat /\ offset' <= length'
          /\ pos' \in 0 .. SourceSize /\ pos <= pos'
          /\ pos' = Len(delivered) + n + (length' - offset')
        BY <1>1, <1>3, <1>4, <1>5, <1>11, <2>1
    <2>6. ASSUME NEW i \in 1 .. length' - offset'
          PROVE  bytes'[offset' + i] = Len(delivered) + n + i
        <3>1. rest + i \in 1..Capacity /\ rest + i <= k
            BY <1>1, <1>4, <1>5, <1>11
        <3>2. bytes'[rest + i] = pos + (rest + i)
            BY <1>7, <3>1
        <3> QED  BY <1>1, <1>3, <1>11, <3>2
    <2> QED  BY <1>5, <1>8, <1>9, <2>4, <2>5, <2>6, SucceedInv
<1> QED  BY <1>2, <1>4, <1>10, <1>11 DEF TooShort

(* A failing call, when the source returns what it has.                    *)

LEMMA DirectFails ==
    ASSUME RInv, ReadFaults = FALSE, NEW n \in 0 .. MaxRead,
           ~ShortReads \/ pos' = SourceSize \/ n = 1,
           status = "ok", ReadDirect(n), status' = "error"
    PROVE  Len(delivered) + n > SourceSize
PROOF
<1> DEFINE rest == n - Served(n)
<1>0. CallBegins(n)
    BY CallFacts
<1>1. rest \in Nat /\ rest > 0 /\ Served(n) = Available
    BY <1>0 DEF CallBegins, ReadDirect
<1>2. PICK answer \in Answers(rest) \cup Faults :
          answer.count < rest /\ pos' = pos + Len(answer.data)
    BY DEF ReadDirect, Succeed
<1>3. /\ n = Available + rest /\ pos = Len(delivered) + Available
      /\ Len(delivered) \in Nat /\ Available \in Nat
    BY <1>0, <1>1 DEF CallBegins
<1> HIDE DEF rest
<1>4. PICK k \in Nat :
          /\ k <= rest /\ pos + k <= SourceSize
          /\ answer.count = k /\ answer.data = Run(pos, k)
          /\ answer.fault = FALSE
          /\ Len(answer.data) = k
          /\ ~ShortReads => k = rest \/ pos + k = SourceSize
          /\ k = 0 => rest = 0 \/ pos = SourceSize
    BY <1>1, AnswerFacts, Zenon
<1> QED  BY <1>1, <1>2, <1>3, <1>4

LEMMA RefillFails ==
    ASSUME RInv, ReadFaults = FALSE, NEW n \in 0 .. MaxRead,
           ~ShortReads \/ pos' = SourceSize \/ n = 1,
           status = "ok", ReadRefill(n), status' = "error"
    PROVE  Len(delivered) + n > SourceSize
PROOF
<1> DEFINE rest == n - Served(n)
<1>0. CallBegins(n)
    BY CallFacts
<1>1. rest \in Nat /\ rest > 0 /\ rest < Capacity /\ Served(n) = Available
    BY <1>0 DEF CallBegins, ReadRefill
<1>2. PICK answer \in Answers(Capacity) \cup Faults :
          answer.count < rest /\ pos' = pos + Len(answer.data)
    BY DEF ReadRefill, Succeed, TooShort
<1>3. /\ n = Available + rest /\ pos = Len(delivered) + Available
      /\ Len(delivered) \in Nat /\ Available \in Nat
    BY <1>0, <1>1 DEF CallBegins
<1> HIDE DEF rest
<1>4. PICK k \in Nat :
          /\ k <= Capacity /\ pos + k <= SourceSize
          /\ answer.count = k /\ answer.data = Run(pos, k)
          /\ answer.fault = FALSE
          /\ Len(answer.data) = k
          /\ ~ShortReads => k = Capacity \/ pos + k = SourceSize
          /\ k = 0 => Capacity = 0 \/ pos = SourceSize
    BY AnswerFacts, Zenon
<1> QED  BY <1>1, <1>2, <1>3, <1>4

-----------------------------------------------------------------------------
(* The theorems.                                                           *)

LEMMA StepInv ==
    ASSUME RInv, ReadFaults = FALSE, [Next]_vars
    PROVE  RInv' /\ Grows
PROOF
<1>1. ASSUME NEW n \in 0 .. MaxRead, Read(n) PROVE RInv' /\ Grows
    BY <1>1, ReadBufferedInv, ReadDirectInv, ReadRefillInv DEF Read
<1>2. ASSUME UNCHANGED <<pos, delivered>> PROVE Grows
    BY <1>2 DEF RInv, TypeOK, Grows
<1>3. CASE Free
    <2>1. RInv'
        BY <1>3 DEF Free, RInv, TypeOK, ReadAheadComesNext, CountInv,
                    DeliveredInv, NoFault
    <2> QED  BY <1>2, <1>3, <2>1 DEF Free
<1>4. CASE UNCHANGED vars
    <2>1. RInv'
        BY <1>4 DEF vars, RInv, TypeOK, ReadAheadComesNext, CountInv,
                    DeliveredInv, NoFault, Available
    <2> QED  BY <1>2, <1>4, <2>1 DEF vars
<1> QED  BY <1>1, <1>3, <1>4 DEF Next

LEMMA Invariance ==
    ASSUME ReadFaults = FALSE
    PROVE  Spec => []RInv
PROOF BY InitInv, StepInv, PTL DEF Spec

(* The unread bytes lie inside the buffer whenever a call begins.          *)
THEOREM TypeCorrect ==
    ASSUME ReadFaults = FALSE
    PROVE  Spec => []TypeOK
PROOF
<1>1. RInv => TypeOK
    BY DEF RInv
<1> QED  BY Invariance, <1>1, PTL

(* What was read ahead comes next, however the source splits its answers.  *)
THEOREM ReadAheadComesNextHolds ==
    ASSUME ReadFaults = FALSE
    PROVE  Spec => []ReadAheadComesNext
PROOF
<1>1. RInv => ReadAheadComesNext
    BY DEF RInv
<1> QED  BY Invariance, <1>1, PTL

(* The test of huf_decode's loop: the counter reaches the length of the    *)
(* source exactly when neither the source nor the buffer has a byte left.  *)
THEOREM CounterTellsEndHolds ==
    ASSUME ReadFaults = FALSE
    PROVE  Spec => []CounterTellsEnd
PROOF
<1>1. RInv => CounterTellsEnd
    <2> SUFFICES ASSUME RInv PROVE CounterTellsEnd
        OBVIOUS
    <2>1. processed = Len(delivered)
        BY DEF RInv, CountInv
    <2>2. ASSUME status = "ok"
          PROVE  processed = SourceSize <=> pos = SourceSize /\ Available = 0
        <3>1. pos = Len(delivered) + Available
            BY <2>2 DEF RInv, ReadAheadComesNext
        <3>2. /\ Len(delivered) \in Nat /\ pos \in Nat /\ pos <= SourceSize
              /\ offset \in Nat /\ length \in Nat /\ offset <= length
            BY <2>2 DEF RInv, TypeOK
        <3>3. Available \in Nat
            BY <3>2 DEF Available
        <3> QED  BY <2>1, <3>1, <3>2, <3>3
    <2> QED  BY <2>1, <2>2 DEF CounterTellsEnd
<1> QED  BY Invariance, <1>1, PTL

(* A read fails only when the source has less than it asks for.            *)
THEOREM FailsOnlyAtEndHolds ==
    ASSUME ReadFaults = FALSE
    PROVE  Spec => FailsOnlyAtEnd
PROOF
<1>1. ASSUME RInv, [Next]_vars,
             ~ShortReads \/ pos' = SourceSize \/ want' = 1,
             status = "ok", status' = "error"
      PROVE  Len(delivered) + want' > SourceSize
    <2>1. PICK n \in 0 .. MaxRead : Read(n)
        BY <1>1 DEF Next, Free, vars
    <2>2. want' = n
        BY <1>1, <2>1 DEF Read
    <2>3. ReadDirect(n) \/ ReadRefill(n)
        BY <1>1, <2>1 DEF Read, ReadBuffered, Succeed
    <2> QED  BY <1>1, <2>2, <2>3, DirectFails, RefillFails
<1>2. RInv /\ [Next]_vars =>
          [status = "ok" /\ status' = "error"
           /\ (~ShortReads \/ pos' = SourceSize \/ want' = 1)
               => Len(delivered) + want' > SourceSize]_vars
    BY <1>1
<1> QED  BY Invariance, <1>2, PTL DEF Spec, FailsOnlyAtEnd

(* The reader, whatever its capacity, whatever the reads and however the   *)
(* source splits its answers, passes the bytes of the source on in order.  *)
THEOREM ReaderImplementsPipe ==
    ASSUME ReadFaults = FALSE
    PROVE  Spec => ReaderIsPipe
PROOF
<1>1. Init => Pipe!Init
    BY DEF Init, Pipe!Init, Run
<1>2. RInv /\ RInv' /\ [Next]_vars => [Pipe!Transfer]_<<Run(0, pos), delivered>>
    <2> SUFFICES ASSUME RInv, RInv', [Next]_vars PROVE Pipe!Transfer
        OBVIOUS
    <2>1. /\ Len(delivered) \in Nat /\ pos \in Nat
          /\ delivered = Run(0, Len(delivered))
        BY DEF RInv, TypeOK, DeliveredInv
    <2>2. /\ Len(delivered') \in Nat /\ pos' \in Nat
          /\ delivered' = Run(0, Len(delivered')) /\ Len(delivered') <= pos'
        BY DEF RInv, TypeOK, DeliveredInv
    <2>3. Len(delivered) <= Len(delivered') /\ pos <= pos'
        BY StepInv DEF Grows
    <2>4. IsPrefix(Run(0, pos), Run(0, pos'))
        BY <2>1, <2>2, <2>3, RunIsPrefix
    <2>5. IsPrefix(Run(0, Len(delivered)), Run(0, Len(delivered')))
        BY <2>1, <2>2, <2>3, RunIsPrefix
    <2>6. IsPrefix(Run(0, Len(delivered')), Run(0, pos'))
        BY <2>2, RunIsPrefix
    <2>7. IsPrefix(delivered, delivered') /\ IsPrefix(delivered', Run(0, pos'))
        BY <2>1, <2>2, <2>5, <2>6
    <2> QED  BY <2>4, <2>7 DEF Pipe!Transfer, Pipe!IsPrefix, IsPrefix
<1> QED  BY Invariance, <1>1, <1>2, PTL DEF Spec, ReaderIsPipe, Pipe!Spec
=============================================================================
