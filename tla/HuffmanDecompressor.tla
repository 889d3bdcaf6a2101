------------------------ MODULE HuffmanDecompressor ------------------------
(***************************************************************************)
(* HuffmanDecompressor (huffmanfile/huffmanfile.py).  Its input stream is  *)
(* never rewound: the length of the stream is that of all it was ever      *)
(* given, while huf_decode counts from zero in every call.                 *)
(***************************************************************************)
EXTENDS BlockStream

VARIABLES
    din,     \* the content of istream
    doff,    \* how far huf_decode has read it
    dout     \* the content of ostream

decompVars == <<din, doff, dout>>

(* What stands for bytes decoded from the middle of a block.               *)
Unknown == 0

Decoded(units) == IF Continuous(units) THEN Payload(units) ELSE <<Unknown>>

NewDecompressor == din' = <<>> /\ doff' = 0 /\ dout' = <<>>

-----------------------------------------------------------------------------
(* decompress(data).                                                       *)

Content(data) == din \o data
Pending(data) == SubSeq(Content(data), doff + 1, Len(Content(data)))

(* Mutant: the error of huf_decode is not noticed.                         *)
MutantCompletes(data) == TRUE

(* The loop of huf_decode ends when as many bytes as istream is long are   *)
(* processed, at the end of a block.                                       *)
Completes(data) == doff = 0 /\ Whole(Content(data))

Decompressed(data) == dout \o Decoded(Pending(data))

(* The decoded bytes are returned, ostream is rewound.                     *)
DecompressReturns(data) ==
    /\ Completes(data)
    /\ din' = Content(data) /\ doff' = Len(Content(data)) /\ dout' = <<>>

(* The stream ends before the loop does.  What was decoded stays in        *)
(* ostream.                                                                *)
DecompressShort(data) ==
    /\ ~Completes(data)
    /\ din' = Content(data) /\ doff' = Len(Content(data))
    /\ dout' = Decompressed(data)

(* istream cannot grow: the data is not taken.                             *)
DecompressRefuses(data) == data # <<>> /\ UNCHANGED decompVars

(* An allocation of huf_decode or the growth of ostream fails: the         *)
(* decoding stops somewhere, with the last byte written or not.            *)
DecompressFails(data) ==
    \E k \in 0 .. Len(Pending(data)) : \E written \in {k - 1, k} \cap Nat :
        /\ din' = Content(data) /\ doff' = doff + k
        /\ dout' = dout \o Decoded(SubSeq(Pending(data), 1, written))

DecompInit == din = <<>> /\ doff = 0 /\ dout = <<>>
=============================================================================
