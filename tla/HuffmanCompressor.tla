------------------------- MODULE HuffmanCompressor -------------------------
(***************************************************************************)
(* HuffmanCompressor (huffmanfile/huffmanfile.py): it keeps the bytes of a *)
(* block that is not full in a memory stream, and lets huf_encode compress *)
(* what full blocks there are.                                             *)
(*                                                                         *)
(* After a successful flush the object is not used again: a second flush   *)
(* returns nothing and compress raises a TypeError, neither changes it.    *)
(***************************************************************************)
EXTENDS BlockStream

VARIABLES
    cin,      \* the content of istream
    coff,     \* how far huf_encode has read it
    cout,     \* the content of ostream
    given     \* history: the bytes handed to compress

compVars == <<cin, coff, cout, given>>

(* data[i:j] in Python: a negative index counts from the end.              *)
Slice(data, i, j) ==
    LET at(k) == IF k < 0 THEN Max({Len(data) + k, 0}) ELSE Min({k, Len(data)})
    IN  SubSeq(data, at(i) + 1, at(j))

NewCompressor == cin' = <<>> /\ coff' = 0 /\ cout' = <<>> /\ UNCHANGED given

-----------------------------------------------------------------------------
(* huf_encode(length) on the given content of istream.                     *)

Unread(content) == SubSeq(content, coff + 1, Len(content))

Enough(content, length) == length <= Len(Unread(content))

(* The encoding of as many blocks as istream can serve.                    *)
Served(content, length) ==
    IF Enough(content, length) THEN length
    ELSE BlockSize * (Len(Unread(content)) \div BlockSize)
Encoded(content, length) ==
    Encoding(SubSeq(Unread(content), 1, Served(content, length)))

(* Mutant: a failed call starts again with the same data.                  *)
MutantEncodeFails(content, length) ==
    \E n \in 0 .. Len(Encoded(content, length)) :
        coff' = coff /\ cout' = cout \o SubSeq(Encoded(content, length), 1, n)

(* An allocation fails: before the first block is read, or when all        *)
(* blocks up to the one in progress are.  What was encoded stays.          *)
EncodeFails(content, length) ==
    LET units == Encoded(content, length)
        upto(n) == BlockSize * (n \div (BlockSize + 1) + 1)
    IN  \/ coff' = coff /\ cout' = cout
        \/ \E n \in 0 .. Len(units) - 1 :
              /\ cout' = cout \o SubSeq(units, 1, n)
              /\ coff' = coff + Min({upto(n), Served(content, length)})

(* istream ends before the announced length.                               *)
EncodeShort(content, length) ==
    /\ ~Enough(content, length)
    /\ cout' = cout \o Encoded(content, length)
    /\ coff' = Len(content)

-----------------------------------------------------------------------------
(* compress(data).                                                         *)

Data(n)      == Run(given, n)
NumBlocks(n) == (Len(cin) + n) \div BlockSize

(* Mutant: the bytes in istream are not counted.                           *)
MutantMaxBytes(n) == NumBlocks(n) * BlockSize

MaxBytes(n)  == NumBlocks(n) * BlockSize - Len(cin)
RemBytes(n)  == n - MaxBytes(n)
ToEncode(n)  == cin \o Slice(Data(n), 0, MaxBytes(n))
Remaining(n) == IF RemBytes(n) > 0
                THEN Slice(Data(n), MaxBytes(n), MaxBytes(n) + RemBytes(n))
                ELSE <<>>

(* There is no full block: everything is to be kept.                       *)
CompressKeeps(n) ==
    /\ NumBlocks(n) = 0
    /\ cin' = cin \o Remaining(n)
    /\ given' = given + n
    /\ UNCHANGED <<coff, cout>>

(* The full blocks are encoded and returned, both streams are rewound and  *)
(* the rest is kept.  It fits, being shorter than a block.                 *)
Compressed(n) == cout \o Encoded(ToEncode(n), NumBlocks(n) * BlockSize)

(* Mutant: rewinding forgets how far the input stream was read.            *)
MutantCompressBlocks(n) ==
    /\ NumBlocks(n) > 0
    /\ Enough(ToEncode(n), NumBlocks(n) * BlockSize)
    /\ cin' = Remaining(n)
    /\ coff' = Len(ToEncode(n)) /\ cout' = <<>>
    /\ given' = given + n

CompressBlocks(n) ==
    /\ NumBlocks(n) > 0
    /\ Enough(ToEncode(n), NumBlocks(n) * BlockSize)
    /\ cin' = Remaining(n)
    /\ coff' = 0 /\ cout' = <<>>
    /\ given' = given + n

(* istream cannot grow, or huf_encode fails.  Nothing is rewound and the   *)
(* rest is not kept.                                                       *)
CompressRaises(n) ==
    /\ NumBlocks(n) > 0
    /\ \/ NumBlocks(n) > 1 /\ UNCHANGED <<cin, coff, cout>>
       \/ /\ cin' = ToEncode(n)
          /\ \/ EncodeFails(ToEncode(n), NumBlocks(n) * BlockSize)
             \/ EncodeShort(ToEncode(n), NumBlocks(n) * BlockSize)
    /\ given' = given + n

-----------------------------------------------------------------------------
(* flush().                                                                *)

Flushed == IF cin = <<>> THEN <<>> ELSE cout \o Encoded(cin, Len(cin))

FlushReturns ==
    /\ cin = <<>> \/ Enough(cin, Len(cin))
    /\ cin' = <<>> /\ coff' = 0 /\ cout' = <<>>
    /\ UNCHANGED given

(* The streams stay as they are.                                           *)
FlushRaises ==
    /\ cin # <<>>
    /\ EncodeFails(cin, Len(cin)) \/ EncodeShort(cin, Len(cin))
    /\ UNCHANGED <<cin, given>>

CompInit == cin = <<>> /\ coff = 0 /\ cout = <<>> /\ given = 0
=============================================================================
