----------------------------- MODULE MemStream -----------------------------
(***************************************************************************)
(* The memory stream of src/io.c: huf_memopen, the read and write          *)
(* functions memread and memwrite it installs, huf_memrewind and           *)
(* huf_memclose.  One action is one call.                                  *)
(***************************************************************************)
EXTENDS ByteStream, Integers

CONSTANTS
    Capacities,  \* the capacities a client opens a stream with
    MaxWrite,    \* the longest write of the client
    MaxRead,     \* bound: the longest read of the client
    MaxBytes     \* bound: the bytes written in all

ASSUME MemAssumption ==
    /\ Capacities \subseteq Nat
    /\ MaxWrite \in Nat /\ MaxRead \in Nat /\ MaxBytes \in Nat

Junk == 0    \* the zeros of calloc

VARIABLES
    cells,     \* the memory block *mem->buf
    cap,       \* mem->cap
    len,       \* mem->len
    off,       \* mem->off
    state,     \* "new", "open", "closed"
    base,      \* history: the bytes written before the last rewind
    received   \* history: the bytes read since the last rewind

vars == <<cells, cap, len, off, state, base, received>>

(* A block of the given size with the first n of `old` and then data, as   *)
(* far as it goes: past its end the bytes go nowhere in the model.         *)
Block(size, old, n, data) ==
    [i \in 1..size |-> IF i <= n THEN old[i]
                       ELSE IF i <= n + Len(data) THEN data[i - n] ELSE Junk]

Open ==
    /\ state = "new"
    /\ \E c \in Capacities :
         /\ cap' = c
         /\ cells' = [i \in 1..c |-> Junk]
    /\ len' = 0 /\ off' = 0
    /\ state' = "open"
    /\ UNCHANGED <<base, received>>

-----------------------------------------------------------------------------
(* memwrite.                                                               *)

Chunk(n) == Run(base + len, n)

(* Mutant: the comparison is turned around.                                *)
MutantGrown(n) == IF n < cap * 2 THEN n * 2 ELSE cap * 2

(* The new capacity for a write of n bytes that does not fit.              *)
Grown(n) == IF n > cap * 2 THEN n * 2 ELSE cap * 2

WriteInPlace(n) ==
    /\ cap >= len + n
    /\ cells' = [i \in 1..cap |-> IF i > len /\ i <= len + n
                                  THEN Chunk(n)[i - len] ELSE cells[i]]
    /\ len' = len + n
    /\ UNCHANGED <<cap, off, state, base, received>>

(* Mutant: what the old block held is not copied.                          *)
MutantWriteGrown(n) ==
    /\ cap < len + n
    /\ cap' = Grown(n)
    /\ cells' = [i \in 1..Grown(n) |-> IF i > len /\ i <= len + n
                                       THEN Chunk(n)[i - len] ELSE Junk]
    /\ len' = len + n
    /\ UNCHANGED <<off, state, base, received>>

WriteGrown(n) ==
    /\ cap < len + n
    /\ cap' = Grown(n)
    /\ cells' = Block(Grown(n), cells, len, Chunk(n))
    /\ len' = len + n
    /\ UNCHANGED <<off, state, base, received>>

(* The new block cannot be allocated: the stream is as it was.             *)
WriteFails(n) == cap < len + n /\ UNCHANGED vars

Write(n) ==
    /\ state = "open" /\ len <= cap /\ base + len + n <= MaxBytes
    /\ WriteInPlace(n) \/ WriteGrown(n) \/ WriteFails(n)

-----------------------------------------------------------------------------
(* Mutant: the unread bytes are counted from the capacity.                 *)
MutantRemaining == cap - off

Remaining == len - off

(* memread.                                                                *)
Read(n) ==
    LET got == IF n > Remaining THEN Remaining ELSE n IN
    /\ state = "open" /\ len <= cap
    /\ received' = received \o [i \in 1..got |-> cells[off + i]]
    /\ off' = off + got
    /\ UNCHANGED <<cells, cap, len, state, base>>

(* Mutant: the reader is not rewound.                                      *)
MutantRewind ==
    /\ state = "open"
    /\ len' = 0
    /\ base' = base + len /\ received' = <<>>
    /\ UNCHANGED <<cells, cap, off, state>>

(* huf_memrewind.                                                          *)
Rewind ==
    /\ state = "open"
    /\ len' = 0 /\ off' = 0
    /\ base' = base + len /\ received' = <<>>
    /\ UNCHANGED <<cells, cap, state>>

(* huf_memclose leaves the block to the client.                            *)
Close ==
    /\ state = "open"
    /\ state' = "closed"
    /\ UNCHANGED <<cells, cap, len, off, base, received>>

Init ==
    /\ cells = <<>> /\ cap = 0 /\ len = 0 /\ off = 0
    /\ state = "new" /\ base = 0 /\ received = <<>>

Next ==
    \/ Open
    \/ \E n \in 0 .. MaxWrite : Write(n)
    \/ \E n \in 0 .. MaxRead : Read(n)
    \/ Rewind
    \/ Close

Spec == Init /\ [][Next]_vars

-----------------------------------------------------------------------------
(* Type correctness; what was read never passes what was written, or       *)
(* mem->len - mem->off of memread wraps around (src/io.c:114).             *)
TypeOK ==
    /\ cap \in Nat /\ cells \in [1..cap -> Nat]
    /\ len \in Nat /\ off \in 0 .. len
    /\ state \in {"new", "open", "closed"}
    /\ base \in Nat /\ received \in Seq(Nat)

(* README.md:72: "the output memory buffer could be automatically scaled   *)
(* to fit all necessary encoded bytes": after every write the written      *)
(* bytes lie inside the memory block (src/io.c:79-101).  It takes no write *)
(* longer than the capacity the stream was opened with.                    *)
WithinCapacity == len <= cap

(* The block holds what was written since the last rewind, through every   *)
(* growth of it and every growth that failed (src/io.c:95-96).             *)
HoldsWritten == \A i \in 1..len : i <= cap => cells[i] = base + i

(* A memory stream is a pipe that a rewind empties: no byte of before the  *)
(* rewind comes out after it, though the block still holds it              *)
(* (src/io.c:110-128, 160-170).                                            *)
Pipe == INSTANCE Pipe WITH sent <- Run(base, len), received <- received
MemIsPipe == Pipe!RestartableSpec
=============================================================================
