---------------------------- MODULE BlockStream ----------------------------
(***************************************************************************)
(* A compressed stream as the Python package sees it: blocks, each a       *)
(* header (size, tree) and the code of its bytes.  Codec shows that        *)
(* decoding a block gives the bytes it was made of.  Here a header of n    *)
(* bytes is the number -n and the code of a byte is its position in the    *)
(* data, so that a block that is cut, lost or displaced shows.             *)
(***************************************************************************)
EXTENDS ByteStream, Integers, SequencesExt

CONSTANT BlockSize    \* the block size of the encoder

ASSUME BlockSizeAssumption == BlockSize \in Nat \ {0}

(* The bytes in a stream of blocks.                                        *)
Payload(units) ==
    LET upto[n \in 0 .. Len(units)] ==
            IF n = 0 THEN <<>>
            ELSE IF units[n] > 0 THEN Append(upto[n-1], units[n]) ELSE upto[n-1]
    IN  upto[Len(units)]

BlockCount(length) == (length + BlockSize - 1) \div BlockSize

(* What huf_encode writes for some data.                                   *)
Encoding(data) ==
    [i \in 1 .. Len(data) + BlockCount(Len(data)) |->
        LET block == (i - 1) \div (BlockSize + 1)
            place == (i - 1) % (BlockSize + 1)
            rest  == Len(data) - block * BlockSize
        IN  IF place > 0 THEN data[block * BlockSize + place]
            ELSE -Min({rest, BlockSize})]

Headers(units) == {i \in DOMAIN units : units[i] < 0}

(* Where the block of a header ends by that header.                        *)
BlockEnd(units, i) == i - units[i]

(* No block is interrupted by another one: the stream may only end early.  *)
Continuous(units) ==
    /\ units # <<>> => 1 \in Headers(units)
    /\ \A i \in Headers(units) :
          /\ \A k \in i+1 .. BlockEnd(units, i) : k \notin Headers(units)
          /\ BlockEnd(units, i) < Len(units) => BlockEnd(units, i) + 1 \in Headers(units)

(* And it does not.                                                        *)
Whole(units) ==
    /\ Continuous(units)
    /\ \A i \in Headers(units) : BlockEnd(units, i) <= Len(units)
=============================================================================
