---------------------------- MODULE ByteStream -----------------------------
(***************************************************************************)
(* A stream of bytes in which a byte is known by its position.  The        *)
(* buffers of src/bufio.c and src/io.c copy bytes and never look at them,  *)
(* so what they hold and pass on is the same for every content, and with   *)
(* positions for bytes a lost, repeated or displaced one shows.            *)
(***************************************************************************)
EXTENDS Naturals, Sequences

(* The n bytes of the stream that follow the first `from` ones.            *)
Run(from, n) == [i \in 1..n |-> from + i]
=============================================================================
