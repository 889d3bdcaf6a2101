----------------------------- MODULE Lifecycle ------------------------------
(***************************************************************************)
(* The memory of one call of huf_encode or huf_decode: what                *)
(* huf_encoder_init or huf_decoder_init allocates, what every block of the *)
(* data adds, what is released between two blocks and by                   *)
(* huf_encoder_free or huf_decoder_free, when any allocation, read or      *)
(* write may fail.                                                         *)
(*                                                                         *)
(* A block of memory has the name of the one pointer that owns it.  The    *)
(* nodes of a tree count as one (HuffmanTree follows each of them).        *)
(***************************************************************************)
EXTENDS Integers, Sequences

CONSTANTS
    Symbols,      \* the byte values
    MaxBlocks     \* bound: the blocks of the data

ASSUME LifecycleAssumption == Symbols \subseteq Nat /\ MaxBlocks \in Nat

VARIABLES
    call,       \* the function that was called
    buffered,   \* the buffered reader or writer with a buffer of its own
    heap,       \* the allocated memory
    pointers,   \* the owning pointers that are not NULL
    lost,       \* memory whose pointer was overwritten
    misused,    \* memory was released twice
    pc,         \* where the control is
    step,       \* how far initialisation or release has come
    todo,       \* the blocks of the data still to come
    uncoded,    \* the byte values of this block without a code word
    ready,      \* history: the initialisation succeeded
    result      \* what the call returns

vars == <<call, buffered, heap, pointers, lost, misused, pc, step, todo,
          uncoded, ready, result>>

memory == <<heap, pointers, lost, misused>>

-----------------------------------------------------------------------------
One(name)  == {<<name, 0>>}
All(names) == names \X {0}

(* The order of allocation.                                                *)
Allocations ==
    IF call = "encode"
    THEN <<"self", "config", "tree", "leaves", "mapping", "symbols",
           "histogram", "frequencies", "writer", "writer bytes",
           "reader", "reader bytes", "buf">>
    ELSE <<"self", "config", "tree", "leaves", "writer", "writer bytes",
           "reader", "reader bytes">>

(* Mutant: the histogram is forgotten.                                     *)
MutantReleases ==
    IF call = "encode"
    THEN <<"tree", "writer", "reader", "mapping", "config", "self", "buf">>
    ELSE <<"tree", "writer", "reader", "config", "self">>

(* The order of release.                                                   *)
Releases ==
    IF call = "encode"
    THEN <<"tree", "writer", "reader", "histogram", "mapping", "config",
           "self", "buf">>
    ELSE <<"tree", "writer", "reader", "config", "self">>

(* What the mapping holds.                                                 *)
Elements == {"element", "coding"} \X Symbols

(* What is released with a part: the memory its members own.               *)
Inside ==
    {<<"tree", "leaves">>, <<"tree", "nodes">>,
     <<"writer", "writer bytes">>, <<"reader", "reader bytes">>,
     <<"histogram", "frequencies">>, <<"mapping", "symbols">>}

Parts(name) ==
    One(name)
    \cup {<<pair[2], 0>> : pair \in {p \in Inside : p[1] = name}}
    \cup (IF name = "mapping" THEN Elements ELSE {})

(* Its release goes through the pointer, without a look at it.             *)
Followed(name) == name \in {"tree", "writer", "reader", "histogram", "mapping"}

-----------------------------------------------------------------------------
(* calloc succeeds.  The pointers take the new memory.                     *)
Allocate(new) ==
    /\ heap' = heap \cup new
    /\ pointers' = pointers \cup new
    /\ lost' = lost \cup (new \cap heap)
    /\ UNCHANGED misused

(* free on those of the pointers that are not NULL.                        *)
Release(old) ==
    /\ heap' = heap \ (old \cap pointers)
    /\ misused' = (misused \/ ~ (old \cap pointers) \subseteq heap)
    /\ UNCHANGED lost

(* Memory is released and its pointers set to NULL.                        *)
ReleaseAndClear(old) == Release(old) /\ pointers' = pointers \ old

Fail(error) ==
    /\ pc' = "free" /\ step' = 1 /\ result' = error
    /\ UNCHANGED <<call, buffered, todo, uncoded, ready>>

Continue(place) ==
    /\ pc' = place
    /\ UNCHANGED <<call, buffered, step, ready, result>>

-----------------------------------------------------------------------------
(* huf_encoder_init and the block buffer of huf_encode; huf_decoder_init.  *)

Name == Allocations[step]
Wanted(name) ==
    /\ name = "writer bytes" => "writer" \in buffered
    /\ name = "reader bytes" => "reader" \in buffered

AfterInit == IF todo > 0 THEN "block" ELSE "flush"

Initialise ==
    /\ pc = "init"
    /\ IF Wanted(Name) THEN Allocate(One(Name)) ELSE UNCHANGED memory
    /\ IF step < Len(Allocations)
       THEN step' = step + 1 /\ UNCHANGED <<pc, ready>>
       ELSE step' = 1 /\ pc' = AfterInit /\ ready' = TRUE
    /\ UNCHANGED <<call, buffered, todo, uncoded, result>>

(* The reader and the writer of the configuration may also be NULL.        *)
InitialiseFails ==
    /\ pc = "init" /\ Wanted(Name)
    /\ \/ Fail("memory")
       \/ Name \in {"writer", "reader"} /\ Fail("invalid")
    /\ UNCHANGED memory

-----------------------------------------------------------------------------
(* A block of huf_encode.                                                  *)

(* It is read and its tree is built.  A tree that is left half way is      *)
(* taken down there.                                                       *)
BuildTree ==
    /\ call = "encode" /\ pc = "block"
    /\ \/ /\ Allocate(One("nodes"))
          /\ uncoded' \in SUBSET Symbols \ {{}}
          /\ Continue("coding") /\ UNCHANGED todo
       \/ \E error \in {"memory", "io"} : Fail(error) /\ UNCHANGED memory

(* The code word of one byte value: an element, its coding, and their      *)
(* place in the mapping.  Without coding the element is not placed, and    *)
(* nothing owns it.                                                        *)
CodeSymbol ==
    \E s \in uncoded :
        /\ call = "encode" /\ pc = "coding" /\ \A t \in uncoded : s <= t
        /\ \/ /\ Allocate({"element", "coding"} \X {s})
              /\ uncoded' = uncoded \ {s}
              /\ Continue("coding") /\ UNCHANGED todo
           \/ Fail("memory") /\ UNCHANGED memory
           \/ /\ Fail("memory")
              /\ heap' = heap \cup {<<"element", s>>}
              /\ UNCHANGED <<pointers, lost, misused>>

(* Mutant: the nodes are released and the root is kept.                    *)
MutantResetEncoder ==
    /\ Release(One("nodes") \cup Elements)
    /\ pointers' = pointers \ Elements

(* huf_tree_reset and huf_symbol_mapping_reset.                            *)
ResetEncoder == ReleaseAndClear(One("nodes") \cup Elements)

(* Tree and data are written, and all is reset for the next block.         *)
WriteBlock ==
    /\ call = "encode" /\ pc = "coding" /\ uncoded = {}
    /\ \/ /\ todo' = todo - 1
          /\ IF todo' > 0
             THEN ResetEncoder /\ Continue("block")
             ELSE UNCHANGED memory /\ Continue("flush")
          /\ UNCHANGED uncoded
       \/ Fail("io") /\ UNCHANGED memory

-----------------------------------------------------------------------------
(* A block of huf_decode.                                                  *)

(* Its sizes, and the memory for the serialized tree.                      *)
ReadSizes ==
    /\ call = "decode" /\ pc = "block"
    /\ \/ Allocate(One("tree_head")) /\ Continue("tree") /\ UNCHANGED <<todo, uncoded>>
       \/ \E error \in {"io", "overflow", "memory"} : Fail(error) /\ UNCHANGED memory

(* The tree is read and its nodes are made, none of an empty one.  Those   *)
(* made before an allocation fails hang on the root.                       *)
ReadTree ==
    /\ call = "decode" /\ pc = "tree"
    /\ \/ Fail("io") /\ UNCHANGED memory
       \/ /\ Allocate(One("nodes")) \/ UNCHANGED memory
          /\ \/ Continue("data") /\ UNCHANGED <<todo, uncoded>>
             \/ Fail("memory")

(* Mutant: the tree is released instead of reset.                          *)
MutantResetDecoder == ReleaseAndClear(All({"tree", "leaves", "nodes", "tree_head"}))

(* huf_tree_reset and free(tree_head).                                     *)
ResetDecoder == ReleaseAndClear(All({"nodes", "tree_head"}))

DecodeBlock ==
    /\ call = "decode" /\ pc = "data"
    /\ \/ /\ ResetDecoder
          /\ todo' = todo - 1
          /\ Continue(IF todo' > 0 THEN "block" ELSE "flush")
          /\ UNCHANGED uncoded
       \/ \E error \in {"io", "corrupted"} : Fail(error) /\ UNCHANGED memory

(* The root of an empty tree is NULL, and its branches are read all the    *)
(* same: what happens then is undefined, and the model ends.               *)
DecodeEmptyTree ==
    /\ call = "decode" /\ pc = "data" /\ ~ One("nodes") \subseteq pointers
    /\ pc' = "undefined"
    /\ UNCHANGED <<call, buffered, memory, step, todo, uncoded, ready, result>>

-----------------------------------------------------------------------------
(* The writer is flushed.                                                  *)
Flush ==
    /\ pc = "flush"
    /\ \E outcome \in {"ok", "io"} : Fail(outcome)
    /\ UNCHANGED memory

(* huf_encoder_free and free(buf), huf_decoder_free: one part after the    *)
(* other.                                                                  *)
Part == Releases[step]
Reachable(name) == One(name) \subseteq pointers

ReleasePart ==
    /\ pc = "free"
    /\ Followed(Part) => Reachable("self") /\ Reachable(Part)
    /\ ReleaseAndClear(Parts(Part))
    /\ IF step < Len(Releases)
       THEN step' = step + 1 /\ UNCHANGED pc
       ELSE step' = 1 /\ pc' = "returned"
    /\ UNCHANGED <<call, buffered, todo, uncoded, ready, result>>

(* A NULL pointer is followed, and the process ends.                       *)
FollowNull ==
    /\ pc = "free"
    /\ Followed(Part) /\ ~ (Reachable("self") /\ Reachable(Part))
    /\ pc' = "crashed"
    /\ UNCHANGED <<call, buffered, memory, step, todo, uncoded, ready, result>>

Over == pc \in {"returned", "crashed", "undefined"} /\ UNCHANGED vars

-----------------------------------------------------------------------------
Init ==
    /\ call \in {"encode", "decode"}
    /\ buffered \in SUBSET {"writer", "reader"}
    /\ heap = {} /\ pointers = {} /\ lost = {} /\ misused = FALSE
    /\ pc = "init" /\ step = 1 /\ ready = FALSE /\ result = "none"
    /\ todo \in 0 .. MaxBlocks /\ uncoded = {}

Encode == BuildTree \/ CodeSymbol \/ WriteBlock
Decode == ReadSizes \/ ReadTree \/ DecodeBlock \/ DecodeEmptyTree

Run ==
    \/ Initialise \/ InitialiseFails
    \/ Encode \/ Decode
    \/ Flush \/ ReleasePart \/ FollowNull

Next == Run \/ Over

(* A call runs until it returns.                                           *)
Spec == Init /\ [][Next]_vars /\ WF_vars(Run)

-----------------------------------------------------------------------------
(* No memory is released twice, whichever step fails and however far the   *)
(* call has come (src/encoder.c:208-256, 360-373, src/decoder.c:159-196,   *)
(* 266-275).                                                               *)
NoDoubleFree == ~misused

(* A call that succeeds has released everything, over all its blocks.  One *)
(* that fails leaves at most one block of memory behind: tree_head of the  *)
(* block it failed in (src/decoder.c:242-276), or an element without       *)
(* coding (src/symbol.c:32-36).                                            *)
OneLeftAtMost ==
    /\ lost = {}
    /\ pc = "returned" =>
          \/ heap = {}
          \/ result # "ok" /\ call = "decode" /\ heap = One("tree_head")
          \/ result = "memory" /\ call = "encode" /\ \E s \in Symbols : heap = {<<"element", s>>}

(* Once it is initialised, a call that fails anywhere later returns, and   *)
(* does not end by following a NULL pointer on the way out, as a call      *)
(* whose initialisation fails may (src/encoder.c:221, src/decoder.c:171).  *)
(* Only an empty tree may still end it (src/decoder.c:49-64).              *)
ReadyReturns == ready ~> pc \in {"returned", "undefined"}
=============================================================================
