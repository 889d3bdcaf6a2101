------------------------------ MODULE Encoder ------------------------------
(***************************************************************************)
(* huf_encode (src/encoder.c) from its call to its return.                 *)
(*                                                                         *)
(* The reader and the writer are used by what BufioReader and BufioWriter  *)
(* promise: a read delivers the next bytes of the source or fails, which   *)
(* it does for an answer of the source that is short, at its end or before *)
(* it; what the sink holds is always a prefix of what was written, all of  *)
(* it after a flush.  One action is one call of them, or one bit.          *)
(***************************************************************************)
EXTENDS HuffmanCode

CONSTANTS
    Inputs,      \* bound: the contents of the source
    BlockSizes   \* bound: the block sizes of the configuration

(* Bytes in memory, and uint64_t for their number (include/huffman/        *)
(* config.h).                                                              *)
ASSUME InputsAssumption == Inputs \subseteq Seq(Symbols) /\ BlockSizes \subseteq Nat

VARIABLES
    source,      \* what the source holds
    size,        \* config->length
    blocksize,   \* config->blocksize
    left,        \* left_to_read
    need,        \* need_to_read
    buf,         \* the block that was read
    rates,       \* histogram->frequencies
    tree,        \* the tree
    mapping,     \* the code words, NoCode where there is none
    pos,         \* bytes of the block that are encoded
    index,       \* bits of the code word of the next one still to be written
    bits,        \* the bit writer
    written,     \* the bytes given to the writer
    epc,         \* where the control is
    eresult,     \* what the call returned
    encoded      \* what the sink holds when it has returned

encVars == <<source, size, blocksize, left, need, buf, rates, tree, mapping,
             pos, index, bits, written, epc, eresult, encoded>>

NoCode    == <<>>
NoMapping == [s \in Symbols |-> NoCode]

-----------------------------------------------------------------------------
(* The end of the call: huf_encoder_free, which flushes nothing.           *)
Return(result, held) ==
    /\ epc' = "returned" /\ eresult' = result /\ encoded' = held
    /\ left' = 0 /\ need' = 0 /\ buf' = <<>>
    /\ rates' = NoRates /\ tree' = NoTree /\ mapping' = NoMapping
    /\ pos' = 0 /\ index' = 0 /\ bits' = <<>> /\ written' = <<>>
    /\ UNCHANGED <<source, size, blocksize>>

(* An error leaves some prefix of what was written with the sink.          *)
ReturnError(result, data) ==
    \E n \in 0 .. Len(data) : Return(result, SubSeq(data, 1, n))

(* A call of the writer that succeeds, and one that fails, with a part of  *)
(* its bytes taken or not.                                                 *)
Put(data)     == written' = written \o data
PutFails(data) == ReturnError("sink", written \o data)

-----------------------------------------------------------------------------
(* The block size of the encoder: zero stands for the length of the data.  *)
ChunkLength == IF blocksize = 0 THEN size ELSE blocksize

(* The encoder is initialised; the block buffer may be refused.            *)
Begin ==
    /\ epc = "init"
    /\ \/ /\ left' = size
          /\ blocksize' = ChunkLength
          /\ epc' = IF size > 0 THEN "read" ELSE "flush"
          /\ UNCHANGED <<source, size, need, buf, rates, tree, mapping, pos,
                         index, bits, written, eresult, encoded>>
       \/ ReturnError("memory", written)

Consumed == size - left

(* The source has too little, or, like read(2), answers with less than was *)
(* asked for though more is to come: a block of one byte is not cut.       *)
ReadBlock ==
    LET n == IF left < blocksize THEN left ELSE blocksize IN
    /\ epc = "read"
    /\ \/ /\ Consumed + n <= Len(source)
          /\ need' = n
          /\ buf' = SubSeq(source, Consumed + 1, Consumed + n)
          /\ epc' = "count"
          /\ UNCHANGED <<source, size, blocksize, left, rates, tree, mapping,
                         pos, index, bits, written, eresult, encoded>>
       \/ /\ Consumed + n > Len(source)
          /\ ReturnError("source", written)
       \/ Consumed + n <= Len(source) /\ n > 1 /\ ReturnError("short", written)

(* huf_histogram_populate.                                                 *)
CountBlock ==
    /\ epc = "count"
    /\ rates' = Populate(rates, buf)
    /\ epc' = "merge"
    /\ UNCHANGED <<source, size, blocksize, left, need, buf, tree, mapping,
                   pos, index, bits, written, eresult, encoded>>

(* huf_tree_from_histogram, one iteration at a time.  Its allocations may  *)
(* fail.                                                                   *)
MergeRates ==
    /\ epc = "merge"
    /\ \/ LET work == Merge([tree |-> tree, rates |-> rates]) IN
          /\ tree' = work.tree
          /\ rates' = work.rates
          /\ epc' = IF tree'.root = None THEN "merge" ELSE "coding"
          /\ UNCHANGED <<source, size, blocksize, left, need, buf, mapping,
                         pos, index, bits, written, eresult, encoded>>
       \/ ReturnError("memory", written)

TreeLength == Len(Serialize(tree))

(* Mutant: the walk over the leaves ends one too early.                    *)
MutantCreateCoding ==
    /\ epc = "coding"
    /\ \/ /\ mapping' = [s \in Symbols |-> IF s \in tree.leaves \ {HUF_ASCII_COUNT-1}
                                           THEN NodeToString(tree, s)
                                           ELSE mapping[s]]
          /\ epc' = "size"
          /\ UNCHANGED <<source, size, blocksize, left, need, buf, rates, tree,
                         pos, index, bits, written, eresult, encoded>>
       \/ ReturnError("memory", written)
       \/ TreeLength > HUF_BTREE_LEN /\ ReturnError("overrun", written)

(* __huf_create_char_coding, which walks the leaves of the tree, and       *)
(* huf_tree_serialize.  A serialized tree that is longer than tree_head,   *)
(* an array of HUF_BTREE_LEN elements, is written past its end: the call   *)
(* goes on with it or ends there.                                          *)
CreateCoding ==
    /\ epc = "coding"
    /\ \/ /\ mapping' = [s \in Symbols |-> IF s \in tree.leaves
                                           THEN NodeToString(tree, s)
                                           ELSE mapping[s]]
          /\ epc' = "size"
          /\ UNCHANGED <<source, size, blocksize, left, need, buf, rates, tree,
                         pos, index, bits, written, eresult, encoded>>
       \/ ReturnError("memory", written)
       \/ TreeLength > HUF_BTREE_LEN /\ ReturnError("overrun", written)

WriteSize ==
    /\ epc = "size"
    /\ \/ /\ Put(Digits(need, SizeWidth))
          /\ epc' = "treelength"
          /\ UNCHANGED <<source, size, blocksize, left, need, buf, rates, tree,
                         mapping, pos, index, bits, eresult, encoded>>
       \/ PutFails(Digits(need, SizeWidth))

WriteTreeLength ==
    /\ epc = "treelength"
    /\ \/ /\ Put(Digits(TreeLength, IntWidth))
          /\ epc' = "tree"
          /\ UNCHANGED <<source, size, blocksize, left, need, buf, rates, tree,
                         mapping, pos, index, bits, eresult, encoded>>
       \/ PutFails(Digits(TreeLength, IntWidth))

(* Mutant: the bits of the last block stay in the bit writer.              *)
MutantWriteTree ==
    /\ epc = "tree"
    /\ \/ /\ Put(TreeBytes(Serialize(tree)))
          /\ pos' = 0
          /\ index' = Len(mapping[buf[1]])
          /\ epc' = "bits"
          /\ UNCHANGED <<source, size, blocksize, left, need, buf, rates, tree,
                         mapping, bits, eresult, encoded>>
       \/ PutFails(TreeBytes(Serialize(tree)))

(* With the tree the bit writer is reset.                                  *)
WriteTree ==
    /\ epc = "tree"
    /\ \/ /\ Put(TreeBytes(Serialize(tree)))
          /\ pos' = 0 /\ bits' = <<>>
          /\ index' = Len(mapping[buf[1]])
          /\ epc' = "bits"
          /\ UNCHANGED <<source, size, blocksize, left, need, buf, rates, tree,
                         mapping, eresult, encoded>>
       \/ PutFails(TreeBytes(Serialize(tree)))

-----------------------------------------------------------------------------
(* __huf_encode_block.                                                     *)

Code   == mapping[buf[pos + 1]]
Filled == Append(bits, Code[index])

(* The next bit of the code word, which is kept from the leaf up, and the  *)
(* byte, when that fills it.                                               *)
WriteBit ==
    /\ epc = "bits" /\ pos < need
    /\ \/ /\ IF Len(Filled) = ByteBits
             THEN Put(<<ByteOf(Filled)>>) /\ bits' = <<>>
             ELSE UNCHANGED written /\ bits' = Filled
          /\ IF index > 1
             THEN index' = index - 1 /\ UNCHANGED pos
             ELSE /\ pos' = pos + 1
                  /\ index' = IF pos + 1 < need THEN Len(mapping[buf[pos + 2]]) ELSE 0
          /\ UNCHANGED <<source, size, blocksize, left, need, buf, rates, tree,
                         mapping, epc, eresult, encoded>>
       \/ Len(Filled) = ByteBits /\ PutFails(<<ByteOf(Filled)>>)

StillToRead == left - need

(* The last, incomplete byte of the block.                                 *)
WriteRest ==
    /\ epc = "bits" /\ pos = need
    /\ \/ /\ IF bits # <<>> THEN Put(<<ByteOf(bits)>>) ELSE UNCHANGED written
          /\ left' = StillToRead
          /\ pos' = 0
          /\ epc' = IF left' > 0 THEN "reset" ELSE "flush"
          /\ UNCHANGED <<source, size, blocksize, need, buf, rates, tree,
                         mapping, index, bits, eresult, encoded>>
       \/ bits # <<>> /\ PutFails(<<ByteOf(bits)>>)

(* Between two blocks: huf_tree_reset, huf_histogram_reset and             *)
(* huf_symbol_mapping_reset.                                               *)
ResetBlock ==
    /\ epc = "reset"
    /\ tree' = NoTree /\ rates' = NoRates /\ mapping' = NoMapping
    /\ epc' = "read"
    /\ UNCHANGED <<source, size, blocksize, left, need, buf, pos, index, bits,
                   written, eresult, encoded>>

FlushEncoded ==
    /\ epc = "flush"
    /\ Return("ok", written) \/ (written # <<>> /\ PutFails(<<>>))

EncInit ==
    /\ source \in Inputs
    /\ size \in {Len(source), Len(source) + 1}
    /\ blocksize \in BlockSizes
    /\ left = 0 /\ need = 0 /\ buf = <<>>
    /\ rates = NoRates /\ tree = NoTree /\ mapping = NoMapping
    /\ pos = 0 /\ index = 0 /\ bits = <<>> /\ written = <<>>
    /\ epc = "init" /\ eresult = "none" /\ encoded = <<>>

EncNext ==
    \/ Begin \/ ReadBlock \/ CountBlock \/ MergeRates \/ CreateCoding
    \/ WriteSize \/ WriteTreeLength \/ WriteTree
    \/ WriteBit \/ WriteRest \/ ResetBlock \/ FlushEncoded
=============================================================================
