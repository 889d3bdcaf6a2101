---------------------------- MODULE BufioWriter ----------------------------
(***************************************************************************)
(* The write side of huf_bufio_read_writer_t (src/bufio.c): huf_bufio_     *)
(* write, huf_bufio_write_uint8 and huf_bufio_read_writer_flush on top of  *)
(* a sink, the write function of a huf_read_writer_t.                      *)
(*                                                                         *)
(* A call is a few steps, each with at most one call of the sink, which    *)
(* takes all the bytes it is given or fails.  A failing sink may have      *)
(* taken some of them: write(2) may do that, memwrite never does.          *)
(***************************************************************************)
EXTENDS ByteStream

CONSTANTS
    Capacity,   \* the size of the buffer; 0: there is none
    MaxWrite,   \* bound: the longest write of the client
    MaxBytes    \* bound: the bytes the client writes in all

ASSUME WriterAssumption ==
    Capacity \in Nat /\ MaxWrite \in Nat /\ MaxBytes \in Nat

VARIABLES
    buf,        \* self->bytes up to self->length
    processed,  \* self->have_been_processed
    out,        \* the bytes the sink has taken
    torn,       \* the sink failed with a part of its bytes taken
    want,       \* the length of the write in progress
    pc,         \* where the control is
    result,     \* what the last call returned
    accepted    \* history: the bytes of the writes that succeeded

vars == <<buf, processed, out, torn, want, pc, result, accepted>>

Chunk == Run(accepted, want)    \* the bytes of the write in progress

-----------------------------------------------------------------------------
(* The client.  It may repeat a call that failed, but not after a torn     *)
(* write, for it cannot know how much went out.                            *)

Write(n) ==
    /\ pc = "idle" /\ ~torn /\ accepted + n <= MaxBytes
    /\ want' = n
    /\ pc' = "evict"
    /\ UNCHANGED <<buf, processed, out, torn, result, accepted>>

Flush ==
    /\ pc = "idle" /\ ~torn
    /\ want' = 0
    /\ pc' = "flush"
    /\ UNCHANGED <<buf, processed, out, torn, result, accepted>>

(* huf_bufio_read_writer_free does not flush.                              *)
Free ==
    /\ pc = "idle"
    /\ buf' = <<>>
    /\ pc' = "freed"
    /\ UNCHANGED <<processed, out, torn, want, result, accepted>>

-----------------------------------------------------------------------------
(* The library.                                                            *)

Return(r) == pc' = "idle" /\ result' = r

SinkTakes(data) == out' = out \o data /\ UNCHANGED torn

(* The error of the sink is the error of the call.                         *)
SinkFails(data) ==
    /\ \E k \in 0 .. Len(data)-1 : /\ out' = out \o SubSeq(data, 1, k)
                                   /\ torn' = (k > 0)
    /\ Return("error")
    /\ UNCHANGED <<buf, processed, want, accepted>>

Full == Len(buf) >= Capacity /\ buf # <<>>

(* __huf_bufio_read_writer_flush: a full buffer is emptied first.  Its     *)
(* bytes are added to have_been_processed, where they already are.         *)
Evict ==
    /\ pc = "evict"
    /\ \/ /\ ~Full
          /\ pc' = "place"
          /\ UNCHANGED <<buf, processed, out, torn, want, result, accepted>>
       \/ /\ Full
          /\ SinkTakes(buf)
          /\ buf' = <<>>
          /\ processed' = processed + Len(buf)
          /\ pc' = "place"
          /\ UNCHANGED <<want, result, accepted>>
       \/ Full /\ SinkFails(buf)

(* Mutant: the room is taken for the whole buffer.                         *)
MutantFits == Capacity # 0 /\ want <= Capacity

Fits == Capacity # 0 /\ want <= Capacity - Len(buf)

(* The write fits into the buffer, or is empty, or goes past the buffer.   *)
Place ==
    /\ pc = "place"
    /\ \/ /\ Fits
          /\ buf' = buf \o Chunk
          /\ processed' = processed + want
          /\ accepted' = accepted + want
          /\ Return("ok")
          /\ UNCHANGED <<out, torn, want>>
       \/ /\ ~Fits /\ want = 0
          /\ Return("ok")
          /\ UNCHANGED <<buf, processed, out, torn, want, accepted>>
       \/ /\ ~Fits /\ want > 0
          /\ pc' = "drain"
          /\ UNCHANGED <<buf, processed, out, torn, want, result, accepted>>

(* Mutant: the direct write does not wait for the buffer.                  *)
MutantDrain ==
    /\ pc \in {"drain", "flush"}
    /\ IF pc = "flush" THEN Return("ok") ELSE pc' = "dump" /\ UNCHANGED result
    /\ UNCHANGED <<buf, processed, out, torn, want, accepted>>

(* Mutant: the length of the buffer is not reset.                          *)
MutantDrainKeeps ==
    /\ pc \in {"drain", "flush"}
    /\ \/ /\ SinkTakes(buf)
          /\ IF pc = "flush" THEN Return("ok") ELSE pc' = "dump" /\ UNCHANGED result
          /\ UNCHANGED <<buf, processed, want, accepted>>
       \/ buf # <<>> /\ SinkFails(buf)

(* huf_bufio_read_writer_flush, called by the client or before a direct    *)
(* write.  It resets the length before it adds it to have_been_processed.  *)
Drain ==
    /\ pc \in {"drain", "flush"}
    /\ \/ /\ SinkTakes(buf)
          /\ buf' = <<>>
          /\ IF pc = "flush" THEN Return("ok") ELSE pc' = "dump" /\ UNCHANGED result
          /\ UNCHANGED <<processed, want, accepted>>
       \/ buf # <<>> /\ SinkFails(buf)

Dump ==
    /\ pc = "dump"
    /\ \/ /\ SinkTakes(Chunk)
          /\ processed' = processed + want
          /\ accepted' = accepted + want
          /\ Return("ok")
          /\ UNCHANGED <<buf, want>>
       \/ SinkFails(Chunk)

Init ==
    /\ buf = <<>> /\ processed = 0
    /\ out = <<>> /\ torn = FALSE
    /\ want = 0 /\ pc = "idle" /\ result = "ok" /\ accepted = 0

Next ==
    \/ \E n \in 0 .. MaxWrite : Write(n)
    \/ Flush
    \/ Free
    \/ Evict \/ Place \/ Drain \/ Dump

Spec == Init /\ [][Next]_vars

-----------------------------------------------------------------------------
(* Type correctness, with the bound every memcpy into the buffer relies    *)
(* on (src/bufio.c:163-167): what is buffered fits into the buffer.        *)
TypeOK ==
    /\ buf \in Seq(Nat) /\ Len(buf) <= Capacity
    /\ out \in Seq(Nat) /\ torn \in BOOLEAN
    /\ processed \in Nat /\ want \in 0 .. MaxWrite /\ accepted \in 0 .. MaxBytes
    /\ pc \in {"idle", "evict", "place", "drain", "dump", "flush", "freed"}
    /\ result \in {"ok", "error"}

(* What the sink took and what is still buffered are together the bytes    *)
(* of the writes that succeeded, in order, at every step of a call and     *)
(* after every error that leaves the sink whole: a failed call loses       *)
(* nothing and repeating it duplicates nothing (src/bufio.c:96-191).       *)
NothingLost == ~torn /\ pc # "freed" => out \o buf = Run(0, accepted)

(* A flush that succeeds leaves nothing behind: all the bytes of the       *)
(* writes that succeeded are with the sink (src/bufio.c:96-116).           *)
FlushCompletes ==
    [][pc = "flush" /\ pc' = "idle" /\ result' = "ok"
            => out' = Run(0, accepted)]_vars

(* The writer is a pipe from its clients to its sink, a torn write in the  *)
(* middle of a direct one included (src/bufio.c:149-191).                  *)
Entered == Run(0, IF Len(out) > accepted THEN Len(out) ELSE accepted)
Pipe == INSTANCE Pipe WITH sent <- Entered, received <- out
WriterIsPipe == Pipe!Spec
=============================================================================
