------------------------------ MODULE Decoder ------------------------------
(***************************************************************************)
(* huf_decode (src/decoder.c) from its call to its return, on a stream     *)
(* that a sink holds.  The reader and the writer are used as in Encoder;   *)
(* the reader's have_been_processed is the number of bytes it delivered.   *)
(***************************************************************************)
EXTENDS HuffmanCode

VARIABLES
    stream,      \* what the source holds
    processed,   \* bufio_reader->have_been_processed
    chunk,       \* config->blocksize, overwritten for every block
    treelen,     \* tree_length
    shape,       \* huffman_tree
    last,        \* last_node
    byte,        \* the byte that is being decoded
    offset,      \* bit_offset
    restored,    \* the bytes of the block that are restored
    decoded,     \* the bytes given to the writer
    dpc,         \* where the control is
    dresult,     \* what the call returned
    output       \* what the sink holds when it has returned

decVars == <<stream, processed, chunk, treelen, shape, last, byte, offset,
             restored, decoded, dpc, dresult, output>>

NoShape == [root |-> None, index |-> <<>>, left |-> <<>>, right |-> <<>>]

-----------------------------------------------------------------------------
(* The end of the call: huf_decoder_free, which flushes nothing.           *)
DReturn(result, held) ==
    /\ dpc' = "returned" /\ dresult' = result /\ output' = held
    /\ chunk' = 0 /\ treelen' = 0 /\ shape' = NoShape /\ last' = None
    /\ byte' = 0 /\ offset' = 0 /\ restored' = 0
    /\ UNCHANGED <<stream, processed, decoded>>

DReturnError(result, data) ==
    \E n \in 0 .. Len(data) : DReturn(result, SubSeq(data, 1, n))

(* A read of n bytes, and one that fails: the source has too few of them,  *)
(* or answers with a part of them though more is to come.                  *)

(* Mutant: a read that takes the last byte fails.                          *)
MutantGot(n) == processed + n < Len(stream)

Got(n)   == processed + n <= Len(stream)
Bytes(n) == SubSeq(stream, processed + 1, processed + n)

(* Mutant: the end of the source is taken for the end of the data.         *)
MutantShort(n) ==
    \/ ~Got(n) /\ DReturn("ok", decoded)
    \/ Got(n) /\ n > 1 /\ DReturnError("short", decoded)

Short(n) ==
    \/ ~Got(n) /\ DReturnError("source", decoded)
    \/ Got(n) /\ n > 1 /\ DReturnError("short", decoded)

-----------------------------------------------------------------------------
(* while (config->length > have_been_processed); the length is that of the *)
(* stream.                                                                 *)
NextBlock ==
    /\ dpc = "loop" /\ processed < Len(stream)
    /\ dpc' = "size"
    /\ UNCHANGED <<stream, processed, chunk, treelen, shape, last, byte,
                   offset, restored, decoded, dresult, output>>

FlushDecoded ==
    /\ dpc = "loop" /\ processed >= Len(stream)
    /\ \/ DReturn("ok", decoded)
       \/ decoded # <<>> /\ DReturnError("sink", decoded)

ReadSize ==
    /\ dpc = "size"
    /\ \/ /\ Got(SizeWidth)
          /\ chunk' = Unsigned(Bytes(SizeWidth))
          /\ processed' = processed + SizeWidth
          /\ dpc' = "treelength"
          /\ UNCHANGED <<stream, treelen, shape, last, byte, offset, restored,
                         decoded, dresult, output>>
       \/ Short(SizeWidth)

(* Mutant: the upper bound is not checked.                                 *)
MutantValidLength(n) == n >= 0

ValidLength(n) == n >= 0 /\ n <= HUF_BTREE_LEN

(* The allocation of tree_head may fail.                                   *)
ReadTreeLength ==
    /\ dpc = "treelength"
    /\ \/ LET n == Signed(Bytes(IntWidth)) IN
          /\ Got(IntWidth)
          /\ \/ /\ ValidLength(n)
                /\ treelen' = n
                /\ processed' = processed + IntWidth
                /\ dpc' = "tree"
                /\ UNCHANGED <<stream, chunk, shape, last, byte, offset,
                               restored, decoded, dresult, output>>
             \/ ~ValidLength(n) /\ DReturnError("overflow", decoded)
             \/ ValidLength(n) /\ DReturnError("memory", decoded)
       \/ Short(IntWidth)

(* Mutant: last_node is not renewed with the tree.                         *)
MutantReadTree ==
    /\ dpc = "tree"
    /\ \/ /\ Got(treelen * IntWidth)
          /\ processed' = processed + treelen * IntWidth
          /\ shape' = Deserialize(Elements(Bytes(treelen * IntWidth)))
          /\ restored' = 0
          /\ dpc' = "byte"
          /\ UNCHANGED <<stream, chunk, treelen, last, byte, offset, decoded,
                         dresult, output>>
       \/ Short(treelen * IntWidth)
       \/ Got(treelen * IntWidth) /\ DReturnError("memory", decoded)

(* The tree is deserialized, and the decoding starts at its root.          *)
ReadTree ==
    /\ dpc = "tree"
    /\ \/ /\ Got(treelen * IntWidth)
          /\ processed' = processed + treelen * IntWidth
          /\ shape' = Deserialize(Elements(Bytes(treelen * IntWidth)))
          /\ last' = IF last = None THEN shape'.root ELSE last
          /\ restored' = 0
          /\ dpc' = "byte"
          /\ UNCHANGED <<stream, chunk, treelen, byte, offset, decoded,
                         dresult, output>>
       \/ Short(treelen * IntWidth)
       \/ Got(treelen * IntWidth) /\ DReturnError("memory", decoded)

-----------------------------------------------------------------------------
(* __huf_decode_block.                                                     *)

ReadByte ==
    /\ dpc = "byte" /\ restored < chunk
    /\ \/ /\ Got(1)
          /\ byte' = Bytes(1)[1]
          /\ processed' = processed + 1
          /\ offset' = ByteBits
          /\ dpc' = "bit"
          /\ UNCHANGED <<stream, chunk, treelen, shape, last, restored,
                         decoded, dresult, output>>
       \/ Short(1)

Bit  == Shifted(byte, 2, offset - 1) % 2
Down == IF Bit = 1 THEN shape.right[last] ELSE shape.left[last]

IsLeaf(n) == shape.left[n] = None /\ shape.right[n] = None

(* Mutant: the filling of the last byte is decoded too.                    *)
MutantReadBit ==
    /\ dpc = "bit" /\ last # None
    /\ \/ /\ Down # None /\ ~IsLeaf(Down)
          /\ last' = Down
          /\ offset' = offset - 1
          /\ dpc' = IF offset = 1 THEN "byte" ELSE "bit"
          /\ UNCHANGED <<stream, processed, chunk, treelen, shape, byte,
                         restored, decoded, dresult, output>>
       \/ /\ Down # None /\ IsLeaf(Down)
          /\ \/ /\ decoded' = Append(decoded, shape.index[Down] % HUF_ASCII_COUNT)
                /\ restored' = restored + 1
                /\ last' = shape.root
                /\ offset' = offset - 1
                /\ dpc' = IF offset = 1 THEN "byte" ELSE "bit"
                /\ UNCHANGED <<stream, processed, chunk, treelen, shape, byte,
                               dresult, output>>
             \/ DReturnError("sink", Append(decoded, shape.index[Down] % HUF_ASCII_COUNT))
       \/ Down = None /\ DReturnError("corrupted", decoded)

(* One bit: there is no such branch, or it leads to an inner node, or to   *)
(* a leaf, whose byte is written; the bits left over are filling.          *)
ReadBit ==
    /\ dpc = "bit" /\ last # None
    /\ \/ /\ Down # None /\ ~IsLeaf(Down)
          /\ last' = Down
          /\ offset' = offset - 1
          /\ dpc' = IF offset = 1 THEN "byte" ELSE "bit"
          /\ UNCHANGED <<stream, processed, chunk, treelen, shape, byte,
                         restored, decoded, dresult, output>>
       \/ /\ Down # None /\ IsLeaf(Down)
          /\ \/ /\ decoded' = Append(decoded, shape.index[Down] % HUF_ASCII_COUNT)
                /\ restored' = restored + 1
                /\ last' = shape.root
                /\ offset' = offset - 1
                /\ dpc' = IF offset = 1 \/ restored' >= chunk THEN "byte" ELSE "bit"
                /\ UNCHANGED <<stream, processed, chunk, treelen, shape, byte,
                               dresult, output>>
             \/ DReturnError("sink", Append(decoded, shape.index[Down] % HUF_ASCII_COUNT))
       \/ Down = None /\ DReturnError("corrupted", decoded)

(* The root of an empty tree is NULL, and its branches are read all the    *)
(* same: what happens then is undefined, and the model ends.               *)
FollowNull ==
    /\ dpc = "bit" /\ last = None
    /\ dpc' = "undefined"
    /\ UNCHANGED <<stream, processed, chunk, treelen, shape, last, byte,
                   offset, restored, decoded, dresult, output>>

(* Mutant: the loop over the bytes of the block is not left.               *)
MutantEndBlock ==
    /\ dpc = "byte" /\ restored >= chunk
    /\ shape' = NoShape /\ last' = None
    /\ UNCHANGED <<stream, processed, chunk, treelen, byte, offset, restored,
                   decoded, dpc, dresult, output>>

(* huf_tree_reset, and last_node = NULL.                                   *)
EndBlock ==
    /\ dpc = "byte" /\ restored >= chunk
    /\ shape' = NoShape /\ last' = None
    /\ dpc' = "loop"
    /\ UNCHANGED <<stream, processed, chunk, treelen, byte, offset, restored,
                   decoded, dresult, output>>

DecInit ==
    /\ stream = <<>> /\ processed = 0 /\ chunk = 0 /\ treelen = 0 /\ shape = NoShape
    /\ last = None /\ byte = 0 /\ offset = 0 /\ restored = 0
    /\ decoded = <<>> /\ dpc = "idle" /\ dresult = "none" /\ output = <<>>

DecNext ==
    \/ NextBlock \/ FlushDecoded
    \/ ReadSize \/ ReadTreeLength \/ ReadTree
    \/ ReadByte \/ ReadBit \/ FollowNull \/ EndBlock
=============================================================================
