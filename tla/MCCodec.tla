------------------------------ MODULE MCCodec ------------------------------
(***************************************************************************)
(* Codec for TLC: bytes of two bits, so that four byte values fill them.   *)
(***************************************************************************)
EXTENDS Codec

(* Two blocks, of one and of two byte values, for damaged streams.         *)
MCTwoBlocks == {<<3, 3, 0>>, <<1, 2, 2>>}

(* All the contents of up to three bytes out of two values, and some       *)
(* longer ones: skewed counts, equal counts, all the byte values, a block  *)
(* that ends inside a byte with another one after it.                      *)
MCInputs == UNION {[1..n -> {0, 3}] : n \in 0..3}
            \cup {<<0, 1, 3>>, <<1, 1, 1, 2>>, <<3, 0, 3, 0, 0>>, <<0, 1, 2, 3>>,
                  <<0, 0, 0, 1, 2>>} \cup MCTwoBlocks

(* A block with all the byte values.                                       *)
MCFullInputs == {<<0, 1, 2, 3>>}
=============================================================================
