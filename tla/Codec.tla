------------------------------- MODULE Codec -------------------------------
(***************************************************************************)
(* huf_encode and then huf_decode on what the encoder left with its sink,  *)
(* be the encoder's call a success or a failure at any of its steps.  In   *)
(* between a stretch of the stream may be lost and read as zeros.          *)
(***************************************************************************)
EXTENDS Encoder, Decoder

CONSTANTS
    Damageable,  \* bound: the contents whose streams may be damaged
    Holes        \* bound: the lengths of the stretch that may be lost

ASSUME HolesAssumption == Holes \subseteq Nat

(* Every number in the stream fits the bytes it has there: the indices of  *)
(* the nodes and the lengths of the trees, up to 1025, are written as      *)
(* int16_t, and a length fits the uint64_t it is announced in              *)
(* (src/include/huffman/tree.h:26, src/encoder.c:272, config.h:14).        *)
ASSUME RangeAssumption ==
    /\ Shifted(2 * (HUF_BTREE_LEN + 1), HUF_ASCII_COUNT, IntWidth) = 0
    /\ \A data \in Inputs : Shifted(Len(data), HUF_ASCII_COUNT, SizeWidth) = 0

VARIABLE damaged    \* a stretch of the stream was lost

vars == <<encVars, decVars, damaged>>

Encode == EncNext /\ UNCHANGED <<decVars, damaged>>

(* The stream passes from the sink of the encoder to the source of the     *)
(* decoder.                                                                *)
Deliver ==
    /\ epc = "returned" /\ dpc = "idle"
    /\ \/ stream' = encoded /\ damaged' = FALSE
       \/ /\ source \in Damageable /\ eresult = "ok"
          /\ \E n \in Holes : \E i \in 0 .. Len(encoded) - n :
               stream' = [k \in 1 .. Len(encoded) |-> IF k \in i+1 .. i+n
                                                      THEN 0 ELSE encoded[k]]
          /\ damaged' = TRUE
    /\ dpc' = "loop"
    /\ UNCHANGED <<encVars, processed, chunk, treelen, shape, last, byte,
                   offset, restored, decoded, dresult, output>>

Decode == DecNext /\ UNCHANGED <<encVars, damaged>>

(* Both calls are over.                                                    *)
Over == dpc \in {"returned", "undefined"} /\ UNCHANGED vars

Init == EncInit /\ DecInit /\ damaged = FALSE

Next == Encode \/ Deliver \/ Decode \/ Over

(* A call runs to its return once it is made.                              *)
Spec == Init /\ [][Next]_vars /\ WF_vars(Encode \/ Deliver \/ Decode)

-----------------------------------------------------------------------------
(* Reference: the encoding of some data, block by block.                   *)

BlockTree(data) == FromHistogram(Populate(NoRates, data)).tree

(* The bits of the data after its first n bytes.                           *)
BitsAfter(t, data, n) ==
    LET rest[k \in 0 .. Len(data)] ==
            IF k = Len(data) THEN <<>>
            ELSE Reverse(NodeToString(t, data[k+1])) \o rest[k+1]
    IN  rest[n]

(* Bits in bytes, the last one filled up.                                  *)
Packed(word) ==
    LET n == (Len(word) + ByteBits - 1) \div ByteBits
    IN  [i \in 1..n |-> ByteOf(SubSeq(word, (i-1) * ByteBits + 1,
                                      IF i < n THEN i * ByteBits ELSE Len(word)))]

Block(data) ==
    LET t    == BlockTree(data)
        head == Serialize(t)
    IN  Digits(Len(data), SizeWidth) \o Digits(Len(head), IntWidth) \o TreeBytes(head)
        \o Packed(BitsAfter(t, data, 0))

BlockEnds == {e \in 0 .. Len(source) :
                 e = Len(source) \/ (ChunkLength # 0 /\ e % ChunkLength = 0)}
BlockStarts == {b \in BlockEnds : b < Len(source)}

(* The blocks of the data from a place on.                                 *)
EncodingFrom(data, length, place) ==
    LET from[b \in Nat] ==
            IF b >= Len(data) THEN <<>>
            ELSE LET e == IF b + length < Len(data) THEN b + length ELSE Len(data)
                 IN  Block(SubSeq(data, b + 1, e)) \o from[e]
    IN  from[place]

Encoding == EncodingFrom(source, ChunkLength, 0)

-----------------------------------------------------------------------------
(* Type correctness of the two calls.                                      *)
TypeOK ==
    /\ size \in Nat /\ blocksize \in Nat /\ left \in 0..size /\ need \in 0..size
    /\ buf \in Seq(Symbols) /\ rates \in [Slots -> Nat]
    /\ pos \in 0..need /\ index \in Nat /\ bits \in Seq({0, 1}) /\ Len(bits) < ByteBits
    /\ written \in Seq(Symbols) /\ encoded \in Seq(Symbols) /\ stream \in Seq(Symbols)
    /\ processed \in 0 .. Len(stream) /\ chunk \in Nat /\ treelen \in 0 .. HUF_BTREE_LEN
    /\ last \in 1 .. Len(shape.index) \cup {None}
    /\ byte \in Symbols /\ offset \in 0..ByteBits /\ restored \in Nat
    /\ decoded \in Seq(Symbols) /\ output \in Seq(Symbols)

(* Every byte of the block has a code word, or its mapping is NULL and     *)
(* element->length is read through it (src/encoder.c:101-106).             *)
EveryByteHasCode ==
    epc = "bits" => \A i \in 1..need : mapping[buf[i]] # NoCode

(* The bit by bit encoding, whatever its blocks, is the reference one, and *)
(* an encoder that fails leaves a prefix of it.  One that succeeds has     *)
(* encoded all the data there is: told of more it fails, after any number  *)
(* of blocks (src/encoder.c:288-380).                                      *)
EncodesBlocks ==
    epc = "returned" /\ dpc = "idle" =>
        /\ IsPrefix(encoded, Encoding)
        /\ eresult = "ok" => encoded = Encoding /\ size = Len(source)

(* A decoded stream is the data it was encoded from, as long as no block   *)
(* holds all the byte values and nothing fails on the way                  *)
(* (src/decoder.c:218-276).                                                *)
FullBlock == \E b \in BlockStarts : \E e \in BlockEnds :
    /\ b < e /\ e - b <= ChunkLength
    /\ Symbols \subseteq {source[i] : i \in b+1 .. e}

RoundTrip ==
    dpc = "returned" /\ eresult = "ok" /\ ~damaged /\ ~FullBlock
        /\ dresult \notin {"memory", "sink", "short"}
    => dresult = "ok" /\ output = source

(* The decoder never writes a byte that was not in the data, whatever cut  *)
(* the stream short.                                                       *)
DecodesPrefix == ~damaged => IsPrefix(decoded, source)

(* A stream that was cut short inside a block is not taken for a whole one *)
(* (src/decoder.c:54, 218-248).                                            *)
CutIsNoticed ==
    dresult = "ok" /\ ~damaged =>
        Len(output) \in BlockEnds /\ (output = source \/ eresult # "ok")

(* Both calls return, whatever the stream is: each turn of the decoder's   *)
(* loops consumes some of it (src/decoder.c:51, 218).  A tree without a    *)
(* root may end the decoder in the undefined step instead.                 *)
BothReturn == <>(epc = "returned" /\ dpc \in {"returned", "undefined"})

(* A tree of length zero passes the check of the length and leaves the     *)
(* root NULL.  A stream that huf_encode wrote, whole or cut short anywhere *)
(* and in any number of blocks, never brings the decoder to follow it, nor *)
(* to a branch that is missing (src/decoder.c:237, 48-71, 271).            *)
CorruptOnlyIfDamaged ==
    dpc = "undefined" \/ dresult = "corrupted" => damaged

(* However the stream is damaged, the decoder never restores more bytes of *)
(* a block than its header announces, nor decodes a bit of a byte twice    *)
(* (src/decoder.c:51-92).                                                  *)
RestoredWithinBlock ==
    /\ dpc \in {"byte", "bit"} => restored <= chunk
    /\ dpc = "bit" => restored < chunk /\ offset > 0

(* README.md:102: "After the decoding the original data will be writter to *)
(* the output".                                                            *)
AllDataRoundTrips ==
    dpc = "returned" /\ eresult = "ok" /\ ~damaged
        /\ dresult \notin {"memory", "sink", "short"}
    => output = source
=============================================================================
