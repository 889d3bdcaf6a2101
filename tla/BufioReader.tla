---------------------------- MODULE BufioReader ----------------------------
(***************************************************************************)
(* The read side of huf_bufio_read_writer_t (src/bufio.c): huf_bufio_read  *)
(* and huf_bufio_read_uint8 on top of a source, the read function of a     *)
(* huf_read_writer_t.  A call reads the source at most once, so one action *)
(* is one call.  The client gives up after the first error, as huf_encode  *)
(* and huf_decode do.                                                      *)
(***************************************************************************)
EXTENDS ByteStream, Integers

CONSTANTS
    Capacity,    \* the size of the buffer; 0: there is none
    MaxRead,     \* bound: the longest read of the client
    SourceSize,  \* bound: the bytes of the source
    ShortReads,  \* the source may return less than it has (read(2), not memread)
    ReadFaults,  \* the source may fail (read(2), not memread)
    SizeMax      \* SIZE_MAX, more than any length

ASSUME ReaderAssumption ==
    /\ Capacity \in Nat /\ MaxRead \in Nat /\ SourceSize \in Nat
    /\ ShortReads \in BOOLEAN /\ ReadFaults \in BOOLEAN
    /\ SizeMax \in Nat /\ Capacity < SizeMax /\ MaxRead < SizeMax

Junk == 0    \* what memory holds that nobody wrote: no byte of the stream

VARIABLES
    bytes,      \* self->bytes
    length,     \* self->length
    offset,     \* self->offset
    processed,  \* self->have_been_processed
    pos,        \* the bytes the source has given
    status,     \* "ok", "error" after a failed call, "freed"
    want,       \* the length of the last read
    fault,      \* the last call of the source failed
    delivered   \* history: the bytes of the reads that succeeded

vars == <<bytes, length, offset, processed, pos, status, want, fault, delivered>>

Smaller(m, n) == IF m < n THEN m ELSE n

-----------------------------------------------------------------------------
(* The source.  A count and the bytes it has put into the destination.     *)

Left(n) == Smaller(n, SourceSize - pos)

Counts(n) == IF ShortReads /\ Left(n) > 0 THEN 1 .. Left(n) ELSE {Left(n)}

Answers(n) == {[count |-> k, data |-> Run(pos, k), fault |-> FALSE] : k \in Counts(n)}

(* fdread compares the result of read(2) with zero as a size_t: a failure, *)
(* -1, is passed on as a count of SIZE_MAX bytes and HUF_ERROR_SUCCESS.    *)
Faults == IF ReadFaults
          THEN {[count |-> SizeMax, data |-> <<>>, fault |-> TRUE]}
          ELSE {}

(* The n first bytes at a place that held `old`, once data is put there.   *)
Overlay(data, old, n) == [i \in 1..n |-> IF i <= Len(data) THEN data[i] ELSE old[i]]

-----------------------------------------------------------------------------
(* huf_bufio_read.                                                         *)

Available == length - offset

(* The part of a read of n bytes that the buffer can serve.                *)
Served(n)   == Smaller(Available, n)
Buffered(n) == [i \in 1 .. Served(n) |-> bytes[offset + i]]

(* A read of n bytes has put data into the destination: the counter takes  *)
(* the length that was asked for, len_copy, not what was copied.           *)
Succeed(n, data) ==
    /\ delivered' = delivered \o data
    /\ processed' = processed + n
    /\ status' = "ok"

Fail == status' = "error" /\ UNCHANGED <<delivered, processed>>

(* Mutant: the buffer is taken from its start.                             *)
MutantReadBuffered(n) ==
    /\ n <= Available
    /\ Succeed(n, [i \in 1..n |-> bytes[i]])
    /\ offset' = offset + n
    /\ UNCHANGED <<bytes, length, pos, fault>>

(* Mutant: the offset is not moved when the buffer served all.             *)
MutantReadBufferedStays(n) ==
    /\ n <= Available
    /\ Succeed(n, Buffered(n))
    /\ UNCHANGED <<bytes, length, offset, pos, fault>>

(* The buffer has it all.                                                  *)
ReadBuffered(n) ==
    /\ n <= Available
    /\ Succeed(n, Buffered(n))
    /\ offset' = offset + n
    /\ UNCHANGED <<bytes, length, pos, fault>>

(* Mutant: len, what the buffer left to read, is counted for len_copy.     *)
MutantReadDirect(n) ==
    LET rest == n - Served(n) IN
    /\ rest > 0 /\ rest >= Capacity
    /\ \E answer \in Answers(rest) \cup Faults :
         /\ pos' = pos + Len(answer.data)
         /\ fault' = answer.fault
         /\ IF answer.count < rest
            THEN Fail
            ELSE Succeed(rest, Buffered(n) \o
                               Overlay(answer.data, [i \in 1..rest |-> Junk], rest))
    /\ length' = 0 /\ offset' = 0
    /\ UNCHANGED bytes

(* The rest is at least a bufferful: it is read into the destination.      *)
ReadDirect(n) ==
    LET rest == n - Served(n) IN
    /\ rest > 0 /\ rest >= Capacity
    /\ \E answer \in Answers(rest) \cup Faults :
         /\ pos' = pos + Len(answer.data)
         /\ fault' = answer.fault
         /\ IF answer.count < rest
            THEN Fail
            ELSE Succeed(n, Buffered(n) \o
                            Overlay(answer.data, [i \in 1..rest |-> Junk], rest))
    /\ length' = 0 /\ offset' = 0
    /\ UNCHANGED bytes

(* Mutant: the buffer must be filled to the brim.                          *)
MutantTooShort(count, rest) == count < Capacity

(* Mutant: one byte short is good enough.                                  *)
MutantTooShortByOne(count, rest) == count < rest - 1

TooShort(count, rest) == count < rest

(* The rest is less than a bufferful: the buffer is filled and serves it.  *)
ReadRefill(n) ==
    LET rest == n - Served(n) IN
    /\ rest > 0 /\ rest < Capacity
    /\ \E answer \in Answers(Capacity) \cup Faults :
         /\ pos' = pos + Len(answer.data)
         /\ fault' = answer.fault
         /\ bytes' = Overlay(answer.data, bytes, Capacity)
         /\ length' = answer.count
         /\ IF TooShort(answer.count, rest)
            THEN Fail /\ offset' = offset + Served(n)
            ELSE /\ Succeed(n, Buffered(n) \o SubSeq(bytes', 1, rest))
                 /\ offset' = rest

(* After a fault of the source the length may be SIZE_MAX: the reads that  *)
(* follow run off the buffer and are not modelled.                         *)
Read(n) ==
    /\ status = "ok" /\ length <= Capacity
    /\ want' = n
    /\ ReadBuffered(n) \/ ReadDirect(n) \/ ReadRefill(n)

(* huf_bufio_read_writer_free.                                             *)
Free ==
    /\ status # "freed"
    /\ status' = "freed"
    /\ UNCHANGED <<bytes, length, offset, processed, pos, want, fault, delivered>>

Init ==
    /\ bytes = [i \in 1..Capacity |-> Junk]
    /\ length = 0 /\ offset = 0 /\ processed = 0 /\ pos = 0
    /\ status = "ok" /\ want = 0 /\ fault = FALSE /\ delivered = <<>>

Next == (\E n \in 0 .. MaxRead : Read(n)) \/ Free

Spec == Init /\ [][Next]_vars

-----------------------------------------------------------------------------
(* Type correctness, with the bounds of every memcpy out of the buffer     *)
(* (src/bufio.c:209-232): between calls the unread bytes lie inside it.    *)
TypeOK ==
    /\ bytes \in [1..Capacity -> Nat]
    /\ offset \in Nat /\ length \in 0 .. Capacity
    /\ status = "ok" => offset <= length
    /\ processed \in Nat /\ pos \in 0 .. SourceSize
    /\ status \in {"ok", "error", "freed"}
    /\ want \in 0 .. MaxRead /\ fault \in BOOLEAN
    /\ delivered \in Seq(Nat)

(* What was read ahead is exactly what comes next: the source stands where *)
(* the deliveries and the unread part of the buffer end, through any mix   *)
(* of reads from the buffer, past it and by way of it, short answers of    *)
(* the source included (src/bufio.c:209-277).                              *)
ReadAheadComesNext ==
    status = "ok" =>
        /\ pos = Len(delivered) + Available
        /\ \A i \in 1 .. Available : bytes[offset + i] = Len(delivered) + i

(* huf_decode goes on while have_been_processed is less than the length of *)
(* the stream (src/decoder.c:218).  That test tells it the truth: the      *)
(* counter is what was delivered, by reads from the buffer, past it, by    *)
(* way of it or in two parts, and it reaches the length of the source      *)
(* exactly when the source and the buffer have nothing left, whatever was  *)
(* read ahead in between (src/bufio.c:207, 283).                           *)
CounterTellsEnd ==
    /\ processed = Len(delivered)
    /\ status = "ok" =>
        (processed = SourceSize <=> pos = SourceSize /\ Available = 0)

(* A read that fails asked for more than the source and the buffer had, or *)
(* the source held back some of its bytes, which a read of one byte cannot *)
(* run into: what is buffered counts, and an answer at the end of the      *)
(* source need not fill the buffer (src/bufio.c:237-273).                  *)
FailsOnlyAtEnd ==
    [][status = "ok" /\ status' = "error"
       /\ (~ShortReads \/ pos' = SourceSize \/ want' = 1)
            => Len(delivered) + want' > SourceSize]_vars

(* The reader is a pipe from its source to its client (src/bufio.c:196).   *)
Pipe == INSTANCE Pipe WITH sent <- Run(0, pos), received <- delivered
ReaderIsPipe == Pipe!Spec

(* src/io.c:23: "if (have_read < 0) return HUF_ERROR_READ_WRITE": a source *)
(* that fails makes the read fail.                                         *)
ReadErrorsReported == fault => status # "ok"
=============================================================================
