------------------------- MODULE BufioWriterProofs -------------------------
(***************************************************************************)
(* Proofs about BufioWriter, for every capacity of the buffer and every    *)
(* length of the writes.                                                   *)
(***************************************************************************)
EXTENDS BufioWriter, ByteStreamProofs

USE WriterAssumption

-----------------------------------------------------------------------------
(* The inductive invariant.                                                *)

Calling == pc \in {"evict", "place", "drain", "dump", "flush"}

(* The output is the beginning of the stream, the buffer goes on where it  *)
(* ends, and together they are what was accepted.                          *)
StreamInv ==
    /\ out = Run(0, Len(out))
    /\ ~torn /\ pc # "freed" => /\ buf = Run(Len(out), Len(buf))
                                /\ accepted = Len(out) + Len(buf)

ControlInv ==
    /\ Calling => ~torn
    /\ Calling => accepted + want <= MaxBytes
    /\ pc = "dump" => buf = <<>>

WInv == TypeOK /\ StreamInv /\ ControlInv

-----------------------------------------------------------------------------
(* The two outcomes of a call of the sink with the next bytes.             *)

LEMMA OutputGrows ==
    ASSUME out = Run(0, Len(out)), Len(out) \in Nat, NEW n \in Nat
    PROVE  out \o Run(Len(out), n) = Run(0, Len(out) + n)
PROOF
<1>1. Run(0, Len(out)) \o Run(0 + Len(out), n) = Run(0, Len(out) + n)
    BY RunConcat
<1> QED  BY <1>1

LEMMA RunLen ==
    ASSUME NEW a \in Nat, NEW n \in Nat
    PROVE  Run(a, n) \in Seq(Nat) /\ Len(Run(a, n)) = n
PROOF BY RunProperties

LEMMA RunNothing ==
    ASSUME NEW a \in Nat
    PROVE  Run(a, 0) = <<>>
PROOF
<1>1. Run(a, 0) \in Seq(Nat) /\ Len(Run(a, 0)) = 0
    BY RunLen
<1> QED  BY <1>1

LEMMA SinkFailsInv ==
    ASSUME WInv, Calling, NEW n \in Nat,
           SinkFails(Run(Len(out), n))
    PROVE  WInv'
PROOF
<1> DEFINE data == Run(Len(out), n)
<1>1. /\ Len(out) \in Nat /\ Len(buf) \in Nat /\ out = Run(0, Len(out)) /\ ~torn
      /\ buf = Run(Len(out), Len(buf)) /\ accepted = Len(out) + Len(buf)
    BY DEF WInv, TypeOK, StreamInv, ControlInv, Calling
<1>2. data \in Seq(Nat) /\ Len(data) = n
    BY <1>1, RunLen
<1>3. PICK k \in 0 .. n-1 : out' = out \o SubSeq(data, 1, k) /\ torn' = (k > 0)
    BY <1>2 DEF SinkFails
<1>4. out' = Run(0, Len(out) + k)
    <2>1. k \in 0 .. n /\ k \in Nat
        OBVIOUS
    <2>2. SubSeq(data, 1, k) = Run(Len(out), k)
        BY <1>1, <2>1, RunPrefix
    <2> QED  BY <1>1, <1>3, <2>1, <2>2, OutputGrows
<1>5. out' \in Seq(Nat) /\ Len(out') = Len(out) + k
    BY <1>1, <1>4, RunLen
<1>6. /\ pc' = "idle" /\ result' = "error"
      /\ UNCHANGED <<buf, processed, want, accepted>>
    BY DEF SinkFails, Return
<1>7. TypeOK'
    BY <1>3, <1>5, <1>6 DEF WInv, TypeOK
<1>8. StreamInv'
    <2>1. out' = Run(0, Len(out'))
        BY <1>4, <1>5
    <2>2. ~torn' => Len(out') = Len(out)
        <3>1. ~torn' => ~ (k > 0)
            BY <1>3, Zenon
        <3>2. ~ (k > 0) => k = 0
            OBVIOUS
        <3> QED  BY <1>1, <1>5, <3>1, <3>2
    <2> QED  BY <1>1, <1>6, <2>1, <2>2 DEF StreamInv
<1>9. ControlInv'
    BY <1>1, <1>5, <1>6 DEF WInv, TypeOK, ControlInv, Calling
<1> QED  BY <1>7, <1>8, <1>9 DEF WInv

-----------------------------------------------------------------------------
(* Every step preserves the invariant.                                     *)

LEMMA InitInv == Init => WInv
PROOF
<1> SUFFICES ASSUME Init PROVE WInv
    OBVIOUS
<1>1. out = Run(0, 0) /\ buf = Run(0, 0) /\ Len(out) = 0 /\ Len(buf) = 0
    BY RunNothing DEF Init
<1>2. TypeOK
    <2>1. <<>> \in Seq(Nat) /\ Len(<<>>) = 0
        BY EmptySeq
    <2>2. buf \in Seq(Nat) /\ Len(buf) <= Capacity /\ out \in Seq(Nat)
        BY <1>1, <2>1 DEF Init
    <2>3. torn \in BOOLEAN
        BY DEF Init
    <2>4. processed \in Nat /\ want \in 0 .. MaxWrite /\ accepted \in 0 .. MaxBytes
        BY DEF Init
    <2>5. pc = "idle" /\ result = "ok"
        BY DEF Init
    <2> QED  BY <2>2, <2>3, <2>4, <2>5 DEF TypeOK
<1>3. StreamInv
    BY <1>1 DEF Init, StreamInv
<1>4. ControlInv
    BY <1>1 DEF Init, ControlInv, Calling
<1> QED  BY <1>2, <1>3, <1>4 DEF WInv

LEMMA ClientInv ==
    ASSUME WInv, (\E n \in 0 .. MaxWrite : Write(n)) \/ Flush
    PROVE  WInv'
PROOF
<1>1. /\ pc = "idle" /\ ~torn /\ pc' \in {"evict", "flush"}
      /\ want' \in 0 .. MaxWrite /\ accepted' + want' <= MaxBytes
      /\ UNCHANGED <<buf, processed, out, torn, result, accepted>>
    BY DEF Write, Flush, WInv, TypeOK
<1> QED  BY <1>1 DEF WInv, TypeOK, StreamInv, ControlInv, Calling

LEMMA FreeInv ==
    ASSUME WInv, Free
    PROVE  WInv'
PROOF BY DEF Free, WInv, TypeOK, StreamInv, ControlInv, Calling

LEMMA EvictInv ==
    ASSUME WInv, Evict
    PROVE  WInv'
PROOF
<1>1. /\ pc = "evict" /\ Calling /\ ~torn
      /\ Len(out) \in Nat /\ Len(buf) \in Nat /\ out = Run(0, Len(out))
      /\ buf = Run(Len(out), Len(buf)) /\ accepted = Len(out) + Len(buf)
    BY DEF Evict, Calling, WInv, TypeOK, StreamInv, ControlInv
<1>2. CASE ~Full /\ pc' = "place"
              /\ UNCHANGED <<buf, processed, out, torn, want, result, accepted>>
    BY <1>1, <1>2 DEF WInv, TypeOK, StreamInv, ControlInv, Calling
<1>3. CASE /\ SinkTakes(buf) /\ buf' = <<>> /\ pc' = "place"
           /\ processed' = processed + Len(buf)
           /\ UNCHANGED <<want, result, accepted>>
    <2>1. out' = Run(0, Len(out) + Len(buf)) /\ torn' = torn
        BY <1>1, <1>3, OutputGrows DEF SinkTakes
    <2>2. out' \in Seq(Nat) /\ Len(out') = Len(out) + Len(buf)
        BY <1>1, <2>1, RunLen
    <2>3. buf' = Run(Len(out'), 0) /\ Len(buf') = 0
        BY <1>1, <1>3, <2>2, RunNothing
    <2>4. TypeOK'
        BY <1>1, <1>3, <2>1, <2>2, <2>3 DEF WInv, TypeOK
    <2>5. StreamInv'
        BY <1>1, <1>3, <2>1, <2>2, <2>3 DEF StreamInv
    <2>6. ControlInv'
        BY <1>1, <1>3, <2>1, <2>2
           DEF WInv, TypeOK, ControlInv, Calling
    <2> QED  BY <2>4, <2>5, <2>6 DEF WInv
<1>4. CASE SinkFails(buf)
    <2>1. SinkFails(Run(Len(out), Len(buf)))
        BY <1>1, <1>4
    <2> QED  BY <1>1, <2>1, SinkFailsInv
<1> QED  BY <1>2, <1>3, <1>4 DEF Evict

LEMMA PlaceInv ==
    ASSUME WInv, Place
    PROVE  WInv'
PROOF
<1>1. /\ pc = "place" /\ Calling /\ ~torn /\ want \in Nat
      /\ Len(out) \in Nat /\ Len(buf) \in Nat /\ out = Run(0, Len(out))
      /\ buf = Run(Len(out), Len(buf)) /\ accepted = Len(out) + Len(buf)
    BY DEF Place, Calling, WInv, TypeOK, StreamInv, ControlInv
<1>2. CASE /\ Fits /\ buf' = buf \o Chunk /\ pc' = "idle" /\ result' = "ok"
           /\ processed' = processed + want /\ accepted' = accepted + want
           /\ UNCHANGED <<out, torn, want>>
    <2>1. buf' = Run(Len(out), Len(buf) + want)
        <3>1. Chunk = Run(Len(out) + Len(buf), want)
            BY <1>1 DEF Chunk
        <3>2. Run(Len(out), Len(buf)) \o Run(Len(out) + Len(buf), want)
              = Run(Len(out), Len(buf) + want)
            BY <1>1, RunConcat
        <3> QED  BY <1>1, <1>2, <3>1, <3>2
    <2>2. buf' \in Seq(Nat) /\ Len(buf') = Len(buf) + want
        BY <1>1, <2>1, RunLen
    <2>3. Len(buf') <= Capacity
        BY <1>1, <1>2, <2>2 DEF Fits
    <2>4. TypeOK'
        BY <1>1, <1>2, <2>2, <2>3 DEF WInv, TypeOK, ControlInv
    <2>5. StreamInv'
        <3>1. accepted' = Len(out') + Len(buf') /\ out' = Run(0, Len(out'))
            BY <1>1, <1>2, <2>2
        <3>2. buf' = Run(Len(out'), Len(buf'))
            BY <1>2, <2>1, <2>2
        <3> QED  BY <1>1, <1>2, <3>1, <3>2 DEF StreamInv
    <2>6. ControlInv'
        BY <1>1, <1>2 DEF WInv, TypeOK, ControlInv, Calling
    <2> QED  BY <2>4, <2>5, <2>6 DEF WInv
<1>3. CASE /\ pc' = "idle" /\ result' = "ok"
           /\ UNCHANGED <<buf, processed, out, torn, want, accepted>>
    BY <1>1, <1>3 DEF WInv, TypeOK, StreamInv, ControlInv, Calling
<1>4. CASE /\ pc' = "drain"
           /\ UNCHANGED <<buf, processed, out, torn, want, result, accepted>>
    BY <1>1, <1>4 DEF WInv, TypeOK, StreamInv, ControlInv, Calling
<1> QED  BY <1>2, <1>3, <1>4 DEF Place, Return

LEMMA DrainInv ==
    ASSUME WInv, Drain
    PROVE  WInv'
PROOF
<1>1. /\ pc \in {"drain", "flush"} /\ Calling /\ ~torn
      /\ Len(out) \in Nat /\ Len(buf) \in Nat /\ out = Run(0, Len(out))
      /\ buf = Run(Len(out), Len(buf)) /\ accepted = Len(out) + Len(buf)
    BY DEF Drain, Calling, WInv, TypeOK, StreamInv, ControlInv
<1>2. CASE /\ SinkTakes(buf) /\ buf' = <<>> /\ pc' \in {"idle", "dump"}
           /\ result' \in {result, "ok"} /\ (pc' = "dump" => pc = "drain")
           /\ UNCHANGED <<processed, want, accepted>>
    <2>1. out' = Run(0, Len(out) + Len(buf)) /\ torn' = torn
        BY <1>1, <1>2, OutputGrows DEF SinkTakes
    <2>2. out' \in Seq(Nat) /\ Len(out') = Len(out) + Len(buf)
        BY <1>1, <2>1, RunLen
    <2>3. buf' = Run(Len(out'), 0) /\ Len(buf') = 0
        BY <1>1, <1>2, <2>2, RunNothing
    <2>4. TypeOK'
        BY <1>1, <1>2, <2>1, <2>2, <2>3 DEF WInv, TypeOK
    <2>5. StreamInv'
        BY <1>1, <1>2, <2>1, <2>2, <2>3 DEF StreamInv
    <2>6. ControlInv'
        BY <1>1, <1>2, <2>1, <2>2
           DEF WInv, TypeOK, ControlInv, Calling
    <2> QED  BY <2>4, <2>5, <2>6 DEF WInv
<1>3. CASE SinkFails(buf)
    <2>1. SinkFails(Run(Len(out), Len(buf)))
        BY <1>1, <1>3
    <2> QED  BY <1>1, <2>1, SinkFailsInv
<1> QED  BY <1>2, <1>3 DEF Drain, Return

LEMMA DumpInv ==
    ASSUME WInv, Dump
    PROVE  WInv'
PROOF
<1>1. /\ pc = "dump" /\ Calling /\ ~torn /\ want \in Nat /\ buf = <<>>
      /\ Len(out) \in Nat /\ out = Run(0, Len(out)) /\ accepted = Len(out)
    BY DEF Dump, Calling, WInv, TypeOK, StreamInv, ControlInv
<1>2. Chunk = Run(Len(out), want)
    BY <1>1 DEF Chunk
<1>3. CASE /\ SinkTakes(Chunk) /\ pc' = "idle" /\ result' = "ok"
           /\ processed' = processed + want /\ accepted' = accepted + want
           /\ UNCHANGED <<buf, want>>
    <2>1. out' = Run(0, Len(out) + want) /\ torn' = torn
        BY <1>1, <1>2, <1>3, OutputGrows DEF SinkTakes
    <2>2. out' \in Seq(Nat) /\ Len(out') = Len(out) + want
        BY <1>1, <2>1, RunLen
    <2>3. buf' = Run(Len(out'), 0) /\ Len(buf') = 0
        BY <1>1, <1>3, <2>2, RunNothing
    <2>4. TypeOK'
        BY <1>1, <1>3, <2>1, <2>2, <2>3 DEF WInv, TypeOK, ControlInv
    <2>5. StreamInv'
        BY <1>1, <1>3, <2>1, <2>2, <2>3 DEF StreamInv
    <2>6. ControlInv'
        BY <1>1, <1>3, <2>1, <2>2
           DEF WInv, TypeOK, ControlInv, Calling
    <2> QED  BY <2>4, <2>5, <2>6 DEF WInv
<1>4. CASE SinkFails(Chunk)
    BY <1>1, <1>2, <1>4, SinkFailsInv
<1> QED  BY <1>3, <1>4 DEF Dump, Return
LEMMA Invariance == Spec => []WInv
PROOF
<1>1. WInv /\ [Next]_vars => WInv'
    <2> SUFFICES ASSUME WInv, [Next]_vars PROVE WInv'
        OBVIOUS
    <2>1. CASE (\E n \in 0 .. MaxWrite : Write(n)) \/ Flush
        BY <2>1, ClientInv
    <2>2. CASE Free
        BY <2>2, FreeInv
    <2>3. CASE Evict
        BY <2>3, EvictInv
    <2>4. CASE Place
        BY <2>4, PlaceInv
    <2>5. CASE Drain
        BY <2>5, DrainInv
    <2>6. CASE Dump
        BY <2>6, DumpInv
    <2>7. CASE UNCHANGED vars
        BY <2>7 DEF WInv, TypeOK, StreamInv, ControlInv,
                    Calling, vars
    <2> QED  BY <2>1, <2>2, <2>3, <2>4, <2>5, <2>6, <2>7 DEF Next
<1> QED  BY InitInv, <1>1, PTL DEF Spec

-----------------------------------------------------------------------------
(* The properties.                                                         *)

(* Nothing is ever copied past the end of the buffer, whatever the lengths *)
(* of the writes and wherever the sink fails (huf_bufio_write).            *)
THEOREM TypeCorrect == Spec => []TypeOK
PROOF BY Invariance, PTL DEF WInv

(* The bytes with the sink and in the buffer are the accepted ones, in     *)
(* order (huf_bufio_write, huf_bufio_read_writer_flush).                   *)
THEOREM NothingLostHolds == Spec => []NothingLost
PROOF
<1>1. WInv => NothingLost
    <2> SUFFICES ASSUME WInv, ~torn, pc # "freed"
                 PROVE  out \o buf = Run(0, accepted)
        BY DEF NothingLost
    <2>1. /\ out = Run(0, Len(out)) /\ buf = Run(Len(out), Len(buf))
          /\ accepted = Len(out) + Len(buf)
          /\ Len(out) \in Nat /\ Len(buf) \in Nat
        BY DEF WInv, StreamInv, TypeOK
    <2> QED  BY <2>1, OutputGrows
<1> QED  BY Invariance, <1>1, PTL

(* A successful huf_bufio_read_writer_flush leaves every accepted byte     *)
(* with the sink.                                                          *)
THEOREM FlushCompletesHolds == Spec => FlushCompletes
PROOF
<1>1. WInv /\ [Next]_vars
        => [pc = "flush" /\ pc' = "idle" /\ result' = "ok"
                => out' = Run(0, accepted)]_vars
    <2> SUFFICES ASSUME WInv, [Next]_vars, pc = "flush", pc' = "idle",
                        result' = "ok"
                 PROVE  out' = Run(0, accepted)
        OBVIOUS
    <2>1. Drain
        BY DEF Next, Write, Flush, Free, Evict, Place, Dump, vars
    <2>2. SinkTakes(buf)
        BY <2>1 DEF Drain, SinkFails, Return
    <2>3. NothingLost
        <3>1. /\ out = Run(0, Len(out)) /\ buf = Run(Len(out), Len(buf))
              /\ accepted = Len(out) + Len(buf)
              /\ Len(out) \in Nat /\ Len(buf) \in Nat
            BY DEF WInv, StreamInv, ControlInv, Calling, TypeOK
        <3> QED  BY <3>1, OutputGrows DEF NothingLost
    <2> QED  BY <2>2, <2>3 DEF NothingLost, SinkTakes, WInv, ControlInv, Calling
<1> QED  BY Invariance, <1>1, PTL DEF Spec, FlushCompletes

-----------------------------------------------------------------------------
(* The writer implements a pipe.                                           *)

LEMMA EnteredLength ==
    ASSUME WInv
    PROVE  /\ Len(out) \in Nat /\ accepted \in Nat /\ out = Run(0, Len(out))
           /\ Len(buf) \in Nat
           /\ Calling => accepted = Len(out) + Len(buf)
PROOF BY DEF WInv, TypeOK, StreamInv, ControlInv, Calling

(* A step never takes a byte back, neither on its way in nor out.          *)
LEMMA StepGrows ==
    ASSUME WInv, WInv', [Next]_vars
    PROVE  Len(out) <= Len(out') /\ accepted <= accepted'
PROOF
<1> USE EnteredLength
<1>1. ASSUME NEW data \in Seq(Nat), SinkTakes(data) \/ SinkFails(data)
      PROVE  Len(out) <= Len(out')
    <2>1. CASE SinkTakes(data)
        BY <2>1, ConcatProperties DEF SinkTakes, WInv, TypeOK
    <2>2. CASE SinkFails(data)
        <3>1. PICK k \in 0 .. Len(data)-1 : out' = out \o SubSeq(data, 1, k)
            BY <2>2 DEF SinkFails
        <3>2. SubSeq(data, 1, k) \in Seq(Nat)
            BY <1>1, SubSeqProperties
        <3> QED  BY <3>1, <3>2, ConcatProperties DEF WInv, TypeOK
    <2> QED  BY <1>1, <2>1, <2>2
<1>2. ASSUME Evict \/ Drain PROVE Len(out) <= Len(out')
    <2>1. buf \in Seq(Nat)
        BY DEF WInv, TypeOK
    <2>2. CASE SinkTakes(buf) \/ SinkFails(buf)
        BY <1>1, <2>1, <2>2
    <2>3. CASE UNCHANGED out
        BY <2>3
    <2> QED  BY <1>2, <2>2, <2>3 DEF Evict, Drain
<1>3. ASSUME Dump PROVE Len(out) <= Len(out')
    <2>1. Chunk \in Seq(Nat)
        BY RunLen DEF Chunk, WInv, TypeOK
    <2> QED  BY <1>1, <1>3, <2>1 DEF Dump
<1>4. ASSUME ~ (Evict \/ Drain \/ Dump) PROVE Len(out) <= Len(out')
    <2>1. UNCHANGED out
        BY <1>4 DEF Next, Write, Flush, Free, Place, vars
    <2> QED  BY <2>1
<1>5. accepted <= accepted'
    <2>1. want \in Nat
        BY DEF WInv, TypeOK
    <2> QED  BY <2>1 DEF Next, Write, Flush, Free, Evict, Place, Drain, Dump,
                         SinkFails, vars
<1> QED  BY <1>2, <1>3, <1>4, <1>5

(* The writer, whatever its capacity, whatever the writes and flushes and  *)
(* wherever the sink fails, passes the bytes of the stream on in order.    *)
THEOREM WriterImplementsPipe == Spec => WriterIsPipe
PROOF
<1>1. Init => Pipe!Init
    <2>1. <<>> = Run(0, 0) /\ Len(<<>>) = 0
        BY RunNothing
    <2> QED  BY <2>1 DEF Init, Pipe!Init, Entered
<1>2. WInv /\ WInv' /\ [Next]_vars => [Pipe!Transfer]_<<Entered, out>>
    <2> SUFFICES ASSUME WInv, WInv', [Next]_vars PROVE Pipe!Transfer
        OBVIOUS
    <2> DEFINE n == IF Len(out) > accepted THEN Len(out) ELSE accepted
    <2>1. /\ Len(out) \in Nat /\ accepted \in Nat /\ out = Run(0, Len(out))
        BY EnteredLength
    <2>2. /\ Len(out') \in Nat /\ accepted' \in Nat /\ out' = Run(0, Len(out'))
        BY DEF WInv, TypeOK, StreamInv
    <2>3. Len(out) <= Len(out') /\ accepted <= accepted'
        BY StepGrows
    <2>4. n \in Nat /\ n' \in Nat /\ n <= n' /\ Len(out') <= n'
        BY <2>1, <2>2, <2>3
    <2>5. Entered = Run(0, n) /\ Entered' = Run(0, n')
        BY DEF Entered
    <2> HIDE DEF n
    <2>6. IsPrefix(Run(0, n), Run(0, n'))
        BY <2>4, RunIsPrefix
    <2>7. IsPrefix(Run(0, Len(out)), Run(0, Len(out')))
        BY <2>1, <2>2, <2>3, RunIsPrefix
    <2>8. IsPrefix(Run(0, Len(out')), Run(0, n'))
        BY <2>2, <2>4, RunIsPrefix
    <2>9. IsPrefix(Entered, Entered')
        BY <2>5, <2>6
    <2>10. IsPrefix(out, out')
        BY <2>1, <2>2, <2>7
    <2>11. IsPrefix(out', Entered')
        BY <2>2, <2>5, <2>8
    <2> QED  BY <2>9, <2>10, <2>11 DEF Pipe!Transfer, Pipe!IsPrefix, IsPrefix
<1> QED  BY Invariance, <1>1, <1>2, PTL DEF Spec, WriterIsPipe, Pipe!Spec
=============================================================================
