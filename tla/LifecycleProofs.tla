-------------------------- MODULE LifecycleProofs ---------------------------
(***************************************************************************)
(* That a call of huf_encode or huf_decode releases nothing twice and      *)
(* leaves at most one block of memory behind, proved for all byte values   *)
(* and any number of blocks.                                               *)
(***************************************************************************)
EXTENDS Lifecycle, TLAPS

(* What a complete initialisation has allocated.                           *)
Base == {<<Allocations[i], 0>> : i \in 1 .. Len(Allocations)}

(* What the parts from the k-th on release.                                *)
Unreleased(k) == UNION {Parts(Releases[i]) : i \in k .. Len(Releases)}

(* The block whose pointer is forgotten when a block of data fails.        *)
Forgotten == IF call = "decode" /\ result # "ok" THEN One("tree_head") ELSE {}

Places == {"init", "block", "coding", "tree", "data", "flush", "free",
           "returned", "crashed", "undefined"}

Types ==
    /\ call \in {"encode", "decode"}
    /\ pc \in Places
    /\ step \in Nat
    /\ uncoded \subseteq Symbols
    /\ pc \in {"coding"} => call = "encode"
    /\ pc \in {"tree", "data"} => call = "decode"

(* What the pointers may own at each place.                                *)
Owned ==
    /\ pc = "init" => /\ step \in 1 .. Len(Allocations)
                      /\ pointers \subseteq {<<Allocations[i], 0>> : i \in 1 .. step - 1}
    /\ pc = "block" => pointers \subseteq Base
    /\ pc = "coding" => pointers \subseteq Base \cup One("nodes")
                                    \cup ({"element", "coding"} \X (Symbols \ uncoded))
    /\ pc = "tree" => pointers \subseteq Base \cup One("tree_head")
    /\ pc = "data" => pointers \subseteq Base \cup All({"tree_head", "nodes"})
    /\ pc = "flush" => pointers \subseteq Unreleased(1)
    /\ pc = "free" => /\ step \in 1 .. Len(Releases)
                      /\ pointers \subseteq Unreleased(step) \cup Forgotten
    /\ pc = "returned" => pointers \subseteq Forgotten

(* What no pointer owns: at most one element without coding.               *)
Orphans ==
    \/ heap \ pointers = {}
    \/ /\ call = "encode" /\ result = "memory"
       /\ pc \in {"free", "returned", "crashed"}
       /\ \E s \in Symbols : heap \ pointers = {<<"element", s>>}

LInv ==
    /\ Types /\ Owned /\ Orphans
    /\ pointers \subseteq heap
    /\ lost = {} /\ ~misused

-----------------------------------------------------------------------------
(* A part is released with what is inside it.                              *)
LEMMA PartsHold ==
    /\ \A name : <<name, 0>> \in Parts(name)
    /\ \A name, member : <<name, member>> \in Inside => <<member, 0>> \in Parts(name)
    /\ Elements \subseteq Parts("mapping")
  BY DEF Parts, One

(* No pointer is allocated twice by the initialisation, nor by a block.    *)
Distinct ==
    /\ Len(Allocations) \in Nat \ {0}
    /\ \A i, j \in 1 .. Len(Allocations) : i # j => Allocations[i] # Allocations[j]
    /\ \A i \in 1 .. Len(Allocations) :
         Allocations[i] \notin {"nodes", "tree_head", "element", "coding"}

(* The orders of allocation and release fit: nothing is allocated twice,   *)
(* and every pointer is released with some part.                           *)
LEMMA OrdersFit ==
    ASSUME call \in {"encode", "decode"}
    PROVE  /\ Distinct
           /\ Len(Releases) \in Nat \ {0}
           /\ Base \cup One("nodes") \subseteq Unreleased(1)
           /\ call = "encode" => Elements \subseteq Unreleased(1)
  <1>1. \A i \in 1 .. Len(Releases) : Parts(Releases[i]) \subseteq Unreleased(1)
    BY DEF Unreleased
  <1>2. /\ <<"leaves", 0>> \in Parts("tree") /\ <<"nodes", 0>> \in Parts("tree")
        /\ <<"writer bytes", 0>> \in Parts("writer")
        /\ <<"reader bytes", 0>> \in Parts("reader")
        /\ <<"frequencies", 0>> \in Parts("histogram")
        /\ <<"symbols", 0>> \in Parts("mapping")
    <2>1. /\ <<"tree", "leaves">> \in Inside /\ <<"tree", "nodes">> \in Inside
          /\ <<"writer", "writer bytes">> \in Inside
          /\ <<"reader", "reader bytes">> \in Inside
          /\ <<"histogram", "frequencies">> \in Inside
          /\ <<"mapping", "symbols">> \in Inside
      BY DEF Inside
    <2> QED BY <2>1, PartsHold
  <1>3. CASE call = "encode"
    <2>0. Len(Allocations) = 13
      BY <1>3 DEF Allocations
    <2>1. /\ Allocations[1] = "self" /\ Allocations[2] = "config"
          /\ Allocations[3] = "tree" /\ Allocations[4] = "leaves"
          /\ Allocations[5] = "mapping" /\ Allocations[6] = "symbols"
          /\ Allocations[7] = "histogram" /\ Allocations[8] = "frequencies"
          /\ Allocations[9] = "writer" /\ Allocations[10] = "writer bytes"
          /\ Allocations[11] = "reader" /\ Allocations[12] = "reader bytes"
          /\ Allocations[13] = "buf"
      BY <1>3 DEF Allocations
    <2>2. /\ Len(Releases) = 8
          /\ Releases[1] = "tree" /\ Releases[2] = "writer"
          /\ Releases[3] = "reader" /\ Releases[4] = "histogram"
          /\ Releases[5] = "mapping" /\ Releases[6] = "config"
          /\ Releases[7] = "self" /\ Releases[8] = "buf"
      BY <1>3 DEF Releases
    <2>i. \A i \in 1 .. 13 : i \in {1, 2, 3, 4, 5, 6, 7, 8, 9, 10, 11, 12, 13}
      OBVIOUS
    <2>3. Distinct
      <3>1. \A i, j \in 1 .. 13 : i # j => Allocations[i] # Allocations[j]
        <4> DEFINE early == {"self", "config", "tree", "leaves", "mapping", "symbols"}
                   late  == {"histogram", "frequencies", "writer", "writer bytes",
                             "reader", "reader bytes", "buf"}
        <4>a. \A i \in 1 .. 6 : i \in {1, 2, 3, 4, 5, 6}
          OBVIOUS
        <4>b. \A i \in 7 .. 13 : i \in {7, 8, 9, 10, 11, 12, 13}
          OBVIOUS
        <4>1. \A i, j \in 1 .. 6 : i # j => Allocations[i] # Allocations[j]
          BY <2>1, <4>a
        <4>2. \A i, j \in 7 .. 13 : i # j => Allocations[i] # Allocations[j]
          BY <2>1, <4>b
        <4>3. \A i \in 1 .. 6 : Allocations[i] \in early
          BY <2>1, <4>a
        <4>4. \A i \in 7 .. 13 : Allocations[i] \in late
          BY <2>1, <4>b
        <4>5. early \cap late = {}
          OBVIOUS
        <4>6. \A i \in 1 .. 13 : i \in 1 .. 6 \/ i \in 7 .. 13
          OBVIOUS
        <4> HIDE DEF early, late
        <4> QED BY <4>1, <4>2, <4>3, <4>4, <4>5, <4>6
      <3>2. \A i \in 1 .. 13 :
              Allocations[i] \notin {"nodes", "tree_head", "element", "coding"}
        BY <2>1, <2>i
      <3>3. Len(Allocations) \in Nat \ {0}
        BY <2>0
      <3>4. 1 .. Len(Allocations) = 1 .. 13
        BY <2>0
      <3> QED BY <3>1, <3>2, <3>3, <3>4 DEF Distinct
    <2>4. /\ Parts("tree") \subseteq Unreleased(1)
          /\ Parts("writer") \subseteq Unreleased(1)
          /\ Parts("reader") \subseteq Unreleased(1)
          /\ Parts("histogram") \subseteq Unreleased(1)
          /\ Parts("mapping") \subseteq Unreleased(1)
          /\ Parts("config") \subseteq Unreleased(1)
          /\ Parts("self") \subseteq Unreleased(1)
          /\ Parts("buf") \subseteq Unreleased(1)
      BY <2>2, <1>1
    <2>5. \A i \in 1 .. 13 : <<Allocations[i], 0>> \in Unreleased(1)
      <3> DEFINE names == {"self", "config", "tree", "leaves", "mapping", "symbols",
                           "histogram", "frequencies", "writer", "writer bytes",
                           "reader", "reader bytes", "buf"}
      <3>1. \A name \in names : <<name, 0>> \in Unreleased(1)
        BY <1>2, <2>4, PartsHold
      <3>2. \A i \in 1 .. 13 : Allocations[i] \in names
        BY <2>1, <2>i
      <3> QED BY <3>1, <3>2
    <2>6. Base \subseteq Unreleased(1)
      BY <2>0, <2>5 DEF Base
    <2>7. <<"nodes", 0>> \in Unreleased(1)
      BY <1>2, <2>4
    <2>8. Len(Releases) \in Nat \ {0}
      BY <2>2
    <2> QED BY <2>7, <2>8, <2>3, <2>4, <2>6, PartsHold DEF One
  <1>4. CASE call = "decode"
    <2>0. Len(Allocations) = 8
      BY <1>4 DEF Allocations
    <2>1. /\ Allocations[1] = "self" /\ Allocations[2] = "config"
          /\ Allocations[3] = "tree" /\ Allocations[4] = "leaves"
          /\ Allocations[5] = "writer" /\ Allocations[6] = "writer bytes"
          /\ Allocations[7] = "reader" /\ Allocations[8] = "reader bytes"
      BY <1>4 DEF Allocations
    <2>2. /\ Len(Releases) = 5
          /\ Releases[1] = "tree" /\ Releases[2] = "writer"
          /\ Releases[3] = "reader" /\ Releases[4] = "config"
          /\ Releases[5] = "self"
      BY <1>4 DEF Releases
    <2>i. \A i \in 1 .. 8 : i \in {1, 2, 3, 4, 5, 6, 7, 8}
      OBVIOUS
    <2>3. Distinct
      <3>1. \A i, j \in 1 .. 8 : i # j => Allocations[i] # Allocations[j]
        BY <2>1, <2>i
      <3>2. \A i \in 1 .. 8 :
              Allocations[i] \notin {"nodes", "tree_head", "element", "coding"}
        BY <2>1, <2>i
      <3>3. Len(Allocations) \in Nat \ {0}
        BY <2>0
      <3>4. 1 .. Len(Allocations) = 1 .. 8
        BY <2>0
      <3> QED BY <3>1, <3>2, <3>3, <3>4 DEF Distinct
    <2>4. /\ Parts("tree") \subseteq Unreleased(1)
          /\ Parts("writer") \subseteq Unreleased(1)
          /\ Parts("reader") \subseteq Unreleased(1)
          /\ Parts("config") \subseteq Unreleased(1)
          /\ Parts("self") \subseteq Unreleased(1)
      BY <2>2, <1>1
    <2>5. \A i \in 1 .. 8 : <<Allocations[i], 0>> \in Unreleased(1)
      <3> DEFINE names == {"self", "config", "tree", "leaves", "writer", "writer bytes",
                           "reader", "reader bytes"}
      <3>1. \A name \in names : <<name, 0>> \in Unreleased(1)
        BY <1>2, <2>4, PartsHold
      <3>2. \A i \in 1 .. 8 : Allocations[i] \in names
        BY <2>1, <2>i
      <3> QED BY <3>1, <3>2
    <2>6. Base \subseteq Unreleased(1)
      BY <2>0, <2>5 DEF Base
    <2>7. <<"nodes", 0>> \in Unreleased(1)
      BY <1>2, <2>4
    <2>8. Len(Releases) \in Nat \ {0}
      BY <2>2
    <2> QED BY <2>7, <2>8, <2>3, <2>4, <2>6, PartsHold, <1>4 DEF One
  <1> QED BY <1>3, <1>4

-----------------------------------------------------------------------------
(* Memory that no pointer owned yet is owned once it is allocated.         *)
LEMMA AllocateKeeps ==
    ASSUME NEW new, Allocate(new), new \cap heap = {},
           pointers \subseteq heap, heap \ pointers = {}, lost = {}, ~misused
    PROVE  /\ pointers' = pointers \cup new
           /\ pointers' \subseteq heap' /\ heap' \ pointers' = {}
           /\ lost' = {} /\ ~misused'
  BY DEF Allocate

(* To release what the pointers own leaves the rest of the memory as it is.*)
LEMMA ReleaseKeeps ==
    ASSUME NEW old, ReleaseAndClear(old),
           pointers \subseteq heap, lost = {}, ~misused
    PROVE  /\ pointers' = pointers \ old
           /\ pointers' \subseteq heap' /\ heap' \ pointers' = heap \ pointers
           /\ lost' = {} /\ ~misused'
  BY DEF ReleaseAndClear, Release

LEMMA InitLInv == Init => LInv
  BY OrdersFit DEF Distinct, Init, LInv, Types, Places, Owned, Orphans

(* The orders depend on the called function only.                          *)
LEMMA SameCall ==
    ASSUME call' = call
    PROVE  /\ Allocations' = Allocations /\ Releases' = Releases
           /\ Base' = Base /\ Unreleased(1)' = Unreleased(1)
  <1>1. Allocations' = Allocations /\ Releases' = Releases
    BY DEF Allocations, Releases
  <1> QED BY <1>1 DEF Base, Unreleased, Parts

(* An error leads to the release of everything.                            *)
LEMMA FailKeeps ==
    ASSUME LInv, NEW error, Fail(error), error # "ok", UNCHANGED memory,
           pc \in {"init", "block", "coding", "tree", "data", "flush"}
    PROVE  LInv'
  <1>1. call' = call /\ call \in {"encode", "decode"}
    BY DEF Fail, LInv, Types
  <1>2. pointers \subseteq Unreleased(1) \cup One("tree_head")
    BY <1>1, OrdersFit DEF LInv, Owned, Types, One, All, Elements, Base
  <1>3. call = "encode" => pointers \subseteq Unreleased(1)
    BY <1>1, OrdersFit DEF LInv, Owned, Types, One, Elements, Base
  <1>4. pointers' \subseteq Unreleased(step)' \cup Forgotten'
    BY <1>1, <1>2, <1>3, SameCall DEF Fail, memory, Forgotten, Unreleased
  <1>5. step' \in 1 .. Len(Releases)'
    BY <1>1, SameCall, OrdersFit DEF Fail
  <1>6. Owned'
    BY <1>4, <1>5 DEF Fail, Owned
  <1>7. Orphans'
    BY DEF LInv, Orphans, Fail, memory
  <1> QED BY <1>6, <1>7 DEF LInv, Types, Places, Fail, memory

LEMMA InitialiseKeeps ==
    ASSUME LInv, Initialise
    PROVE  LInv'
  <1>1. call' = call /\ call \in {"encode", "decode"} /\ pc = "init"
    BY DEF Initialise, LInv, Types
  <1>2. /\ step \in 1 .. Len(Allocations)
        /\ pointers \subseteq {<<Allocations[i], 0>> : i \in 1 .. step - 1}
        /\ heap \ pointers = {} /\ pointers \subseteq heap
    BY <1>1 DEF LInv, Owned, Orphans
  <1>3. Len(Allocations) \in Nat
    BY <1>1, OrdersFit DEF Distinct
  <1>4. One(Name) \cap heap = {}
    BY <1>1, <1>2, <1>3, OrdersFit DEF Distinct, One, Name
  <1>5. /\ pointers' \subseteq pointers \cup One(Name)
        /\ pointers' \subseteq heap' /\ heap' \ pointers' = {}
        /\ lost' = {} /\ ~misused'
    BY <1>4, AllocateKeeps DEF LInv, Orphans, Initialise, memory
  <1>6. pointers' \subseteq {<<Allocations[i], 0>> : i \in 1 .. step}
    BY <1>2, <1>3, <1>5 DEF One, Name
  <1>7. CASE step < Len(Allocations)
    <2>1. step' = step + 1 /\ pc' = "init"
      BY <1>7 , <1>1 DEF Initialise
    <2>2. Owned'
      BY <2>1, <1>1, <1>2, <1>3, <1>6, <1>7, SameCall DEF Owned
    <2> QED BY <2>1, <2>2, <1>1, <1>2, <1>3, <1>5
            DEF LInv, Types, Places, Orphans, Initialise
  <1>8. CASE ~ step < Len(Allocations)
    <2>1. step' = 1 /\ pc' \in {"block", "flush"}
      BY <1>8 DEF Initialise, AfterInit
    <2>2. pointers' \subseteq Base /\ Base \subseteq Unreleased(1)
      BY <1>1, <1>2, <1>3, <1>6, <1>8, OrdersFit DEF Base
    <2>3. Owned'
      BY <2>1, <2>2, <1>1, SameCall DEF Owned
    <2> QED BY <2>1, <2>3, <1>1, <1>5 DEF LInv, Types, Places, Orphans, Initialise
  <1> QED BY <1>7, <1>8

LEMMA InitialiseFailsKeeps ==
    ASSUME LInv, InitialiseFails
    PROVE  LInv'
  BY FailKeeps DEF InitialiseFails

(* Memory of a block is new, and owned.                                    *)
LEMMA BuildTreeKeeps ==
    ASSUME LInv, BuildTree
    PROVE  LInv'
  <1>1. call' = call /\ call = "encode" /\ pc = "block"
    BY DEF BuildTree, Continue, Fail
  <1>2. CASE \E error \in {"memory", "io"} : Fail(error) /\ UNCHANGED memory
    BY <1>1, <1>2, FailKeeps
  <1>3. CASE /\ Allocate(One("nodes"))
             /\ uncoded' \in SUBSET Symbols \ {{}}
             /\ Continue("coding") /\ UNCHANGED todo
    <2>1. /\ heap \ pointers = {} /\ pointers \subseteq heap /\ pointers \subseteq Base
      BY <1>1 DEF LInv, Owned, Orphans
    <2>2. One("nodes") \cap heap = {}
      BY <1>1, <2>1, OrdersFit DEF Distinct, Base, One
    <2>3. /\ pointers' = pointers \cup One("nodes")
          /\ pointers' \subseteq heap' /\ heap' \ pointers' = {}
          /\ lost' = {} /\ ~misused'
      BY <1>3, <2>1, <2>2, AllocateKeeps DEF LInv
    <2>4. Owned'
      BY <1>1, <1>3, <2>1, <2>3, SameCall DEF Owned, Continue, One
    <2> QED BY <1>1, <1>3, <2>3, <2>4 DEF LInv, Types, Places, Orphans, Continue
  <1> QED BY <1>2, <1>3 DEF BuildTree

LEMMA CodeSymbolKeeps ==
    ASSUME LInv, CodeSymbol
    PROVE  LInv'
  <1>1. call' = call /\ call = "encode" /\ pc = "coding"
    BY DEF CodeSymbol, Continue, Fail
  <1>2. PICK s \in uncoded :
           \/ /\ Allocate({"element", "coding"} \X {s})
              /\ uncoded' = uncoded \ {s}
              /\ Continue("coding") /\ UNCHANGED todo
           \/ Fail("memory") /\ UNCHANGED memory
           \/ /\ Fail("memory")
              /\ heap' = heap \cup {<<"element", s>>}
              /\ UNCHANGED <<pointers, lost, misused>>
    BY DEF CodeSymbol
  <1>3. /\ heap \ pointers = {} /\ pointers \subseteq heap
        /\ pointers \subseteq Base \cup One("nodes")
                              \cup ({"element", "coding"} \X (Symbols \ uncoded))
    BY <1>1 DEF LInv, Owned, Orphans
  <1> uncoded \subseteq Symbols
    BY DEF LInv, Types
  <1>4. ({"element", "coding"} \X {s}) \cap heap = {}
    BY <1>1, <1>2, <1>3, OrdersFit DEF Distinct, Base, One
  <1>5. CASE /\ Allocate({"element", "coding"} \X {s})
             /\ uncoded' = uncoded \ {s}
             /\ Continue("coding") /\ UNCHANGED todo
    <2>1. /\ pointers' = pointers \cup ({"element", "coding"} \X {s})
          /\ pointers' \subseteq heap' /\ heap' \ pointers' = {}
          /\ lost' = {} /\ ~misused'
      BY <1>3, <1>4, <1>5, AllocateKeeps DEF LInv
    <2>2. Owned'
      BY <1>1, <1>2, <1>3, <1>5, <2>1, SameCall DEF Owned, Continue, One
    <2> QED BY <1>1, <1>2, <1>5, <2>1, <2>2 DEF LInv, Types, Places, Orphans, Continue
  <1>6. CASE Fail("memory") /\ UNCHANGED memory
    BY <1>1, <1>6, FailKeeps
  <1>7. CASE /\ Fail("memory")
             /\ heap' = heap \cup {<<"element", s>>}
             /\ UNCHANGED <<pointers, lost, misused>>
    <2>1. pointers \subseteq Unreleased(1)
      BY <1>1, <1>3, OrdersFit DEF Elements
    <2>2. Owned'
      BY <1>1, <1>7, <2>1, SameCall, OrdersFit DEF Owned, Fail, Unreleased
    <2>3. heap' \ pointers' = {<<"element", s>>}
      BY <1>3, <1>4, <1>7
    <2>4. Orphans'
      BY <1>1, <1>2, <1>7, <2>3 DEF Orphans, Fail
    <2> QED BY <1>1, <1>7, <2>2, <2>4 DEF LInv, Types, Places, Fail
  <1> QED BY <1>2, <1>5, <1>6, <1>7

LEMMA WriteBlockKeeps ==
    ASSUME LInv, WriteBlock
    PROVE  LInv'
  <1>1. call' = call /\ call = "encode" /\ pc = "coding" /\ uncoded = {}
    BY DEF WriteBlock, Continue, Fail
  <1>2. /\ heap \ pointers = {} /\ pointers \subseteq heap
        /\ pointers \subseteq Base \cup One("nodes") \cup Elements
    BY <1>1 DEF LInv, Owned, Orphans, Elements
  <1>3. CASE Fail("io") /\ UNCHANGED memory
    BY <1>1, <1>3, FailKeeps
  <1>4. CASE ResetEncoder /\ Continue("block") /\ UNCHANGED uncoded
    <2>1. /\ pointers' = pointers \ (One("nodes") \cup Elements)
          /\ pointers' \subseteq heap' /\ heap' \ pointers' = {}
          /\ lost' = {} /\ ~misused'
      BY <1>2, <1>4, ReleaseKeeps DEF LInv, ResetEncoder
    <2>2. Owned'
      BY <1>1, <1>2, <1>4, <2>1, SameCall DEF Owned, Continue
    <2> QED BY <1>1, <1>4, <2>1, <2>2 DEF LInv, Types, Places, Orphans, Continue
  <1>5. CASE UNCHANGED memory /\ Continue("flush") /\ UNCHANGED uncoded
    <2>1. Owned'
      BY <1>1, <1>2, <1>5, SameCall, OrdersFit DEF Owned, Continue, memory
    <2> QED BY <1>1, <1>2, <1>5, <2>1 DEF LInv, Types, Places, Orphans, Continue, memory
  <1> QED BY <1>3, <1>4, <1>5 DEF WriteBlock

LEMMA ReadSizesKeeps ==
    ASSUME LInv, ReadSizes
    PROVE  LInv'
  <1>1. call' = call /\ call = "decode" /\ pc = "block"
    BY DEF ReadSizes, Continue, Fail
  <1>2. CASE \E error \in {"io", "overflow", "memory"} : Fail(error) /\ UNCHANGED memory
    BY <1>1, <1>2, FailKeeps
  <1>3. CASE /\ Allocate(One("tree_head")) /\ Continue("tree")
             /\ UNCHANGED <<todo, uncoded>>
    <2>1. heap \ pointers = {} /\ pointers \subseteq heap /\ pointers \subseteq Base
      BY <1>1 DEF LInv, Owned, Orphans
    <2>2. One("tree_head") \cap heap = {}
      BY <1>1, <2>1, OrdersFit DEF Distinct, Base, One
    <2>3. /\ pointers' = pointers \cup One("tree_head")
          /\ pointers' \subseteq heap' /\ heap' \ pointers' = {}
          /\ lost' = {} /\ ~misused'
      BY <1>3, <2>1, <2>2, AllocateKeeps DEF LInv
    <2>4. Owned'
      BY <1>1, <1>3, <2>1, <2>3, SameCall DEF Owned, Continue
    <2> QED BY <1>1, <1>3, <2>3, <2>4 DEF LInv, Types, Places, Orphans, Continue
  <1> QED BY <1>2, <1>3 DEF ReadSizes

LEMMA ReadTreeKeeps ==
    ASSUME LInv, ReadTree
    PROVE  LInv'
  <1>1. call' = call /\ call = "decode" /\ pc = "tree"
    BY DEF ReadTree, Continue, Fail
  <1>2. CASE Fail("io") /\ UNCHANGED memory
    BY <1>1, <1>2, FailKeeps
  <1>3. CASE /\ Allocate(One("nodes")) \/ UNCHANGED memory
             /\ \/ Continue("data") /\ UNCHANGED <<todo, uncoded>>
                \/ Fail("memory")
    <2>1. /\ heap \ pointers = {} /\ pointers \subseteq heap
          /\ pointers \subseteq Base \cup One("tree_head")
      BY <1>1 DEF LInv, Owned, Orphans
    <2>2. One("nodes") \cap heap = {}
      BY <1>1, <2>1, OrdersFit DEF Distinct, Base, One
    <2>3. /\ pointers' \subseteq pointers \cup One("nodes")
          /\ pointers' \subseteq heap' /\ heap' \ pointers' = {}
          /\ lost' = {} /\ ~misused'
      BY <1>3, <2>1, <2>2, AllocateKeeps DEF LInv, memory
    <2>4. CASE Continue("data") /\ UNCHANGED <<todo, uncoded>>
      <3>1. Owned'
        BY <1>1, <2>1, <2>3, <2>4, SameCall DEF Owned, Continue, One, All
      <3> QED BY <1>1, <2>3, <2>4, <3>1 DEF LInv, Types, Places, Orphans, Continue
    <2>5. CASE Fail("memory")
      <3>1. pointers' \subseteq Unreleased(1) \cup One("tree_head")
        BY <1>1, <2>1, <2>3, OrdersFit
      <3>2. pointers' \subseteq Unreleased(step)' \cup Forgotten'
        BY <1>1, <2>5, <3>1, SameCall DEF Fail, Forgotten, Unreleased
      <3>3. Owned'
        BY <1>1, <2>5, <3>2, SameCall, OrdersFit DEF Owned, Fail
      <3> QED BY <1>1, <2>3, <2>5, <3>3 DEF LInv, Types, Places, Orphans, Fail
    <2> QED BY <1>3, <2>4, <2>5
  <1> QED BY <1>2, <1>3 DEF ReadTree

LEMMA DecodeBlockKeeps ==
    ASSUME LInv, DecodeBlock
    PROVE  LInv'
  <1>1. call' = call /\ call = "decode" /\ pc = "data"
    BY DEF DecodeBlock, Continue, Fail
  <1>2. CASE \E error \in {"io", "corrupted"} : Fail(error) /\ UNCHANGED memory
    BY <1>1, <1>2, FailKeeps
  <1>3. CASE /\ ResetDecoder /\ UNCHANGED uncoded
             /\ \E place \in {"block", "flush"} : Continue(place)
    <2>1. /\ heap \ pointers = {} /\ pointers \subseteq heap
          /\ pointers \subseteq Base \cup All({"nodes", "tree_head"})
      BY <1>1 DEF LInv, Owned, Orphans
    <2>2. /\ pointers' = pointers \ All({"nodes", "tree_head"})
          /\ pointers' \subseteq heap' /\ heap' \ pointers' = {}
          /\ lost' = {} /\ ~misused'
      BY <1>3, <2>1, ReleaseKeeps DEF LInv, ResetDecoder
    <2>3. Owned'
      BY <1>1, <1>3, <2>1, <2>2, SameCall, OrdersFit DEF Owned, Continue
    <2> QED BY <1>1, <1>3, <2>2, <2>3 DEF LInv, Types, Places, Orphans, Continue
  <1> QED BY <1>2, <1>3 DEF DecodeBlock

LEMMA FlushKeeps ==
    ASSUME LInv, Flush
    PROVE  LInv'
  <1>1. PICK outcome \in {"ok", "io"} : Fail(outcome)
    BY DEF Flush
  <1>2. call' = call /\ call \in {"encode", "decode"} /\ pc = "flush" /\ UNCHANGED memory
    BY <1>1 DEF Flush, Fail, LInv, Types
  <1>3. pointers \subseteq Unreleased(1) /\ heap \ pointers = {}
    BY <1>2 DEF LInv, Owned, Orphans
  <1>4. Owned'
    BY <1>1, <1>2, <1>3, SameCall, OrdersFit DEF Owned, Fail, memory, Unreleased
  <1>5. Orphans'
    BY <1>2, <1>3 DEF Orphans, memory
  <1> QED BY <1>1, <1>2, <1>4, <1>5 DEF LInv, Types, Places, Fail, memory

(* Each part that is released leaves those behind it.                      *)
LEMMA ReleasePartKeeps ==
    ASSUME LInv, ReleasePart
    PROVE  LInv'
  <1>1. /\ call' = call /\ call \in {"encode", "decode"} /\ pc = "free"
        /\ result' = result
    BY DEF ReleasePart, LInv, Types
  <1>2. /\ step \in 1 .. Len(Releases)
        /\ pointers \subseteq Unreleased(step) \cup Forgotten
    BY <1>1 DEF LInv, Owned
  <1>3. /\ pointers' = pointers \ Parts(Part)
        /\ pointers' \subseteq heap' /\ heap' \ pointers' = heap \ pointers
        /\ lost' = {} /\ ~misused'
    BY ReleaseKeeps DEF LInv, ReleasePart
  <1>4. Len(Releases) \in Nat
    BY <1>1, OrdersFit
  <1>5. Unreleased(step) \subseteq Parts(Part) \cup Unreleased(step + 1)
    BY <1>2, <1>4 DEF Unreleased, Part
  <1>6. Orphans' /\ Types'
    BY <1>1, <1>2, <1>3 DEF LInv, Orphans, Types, Places, ReleasePart
  <1>7. CASE step < Len(Releases)
    <2>1. step' = step + 1 /\ pc' = "free"
      BY <1>1, <1>7 DEF ReleasePart
    <2>2. pointers' \subseteq Unreleased(step + 1) \cup Forgotten
      BY <1>2, <1>3, <1>5
    <2>3. Unreleased(step)' = Unreleased(step + 1) /\ Forgotten' = Forgotten
      BY <1>1, <2>1, SameCall DEF Unreleased, Forgotten, Parts
    <2>4. Owned'
      BY <1>1, <1>2, <1>4, <1>7, <2>1, <2>2, <2>3, SameCall DEF Owned
    <2> QED BY <1>3, <1>6, <2>4 DEF LInv
  <1>8. CASE ~ step < Len(Releases)
    <2>1. pc' = "returned"
      BY <1>8 DEF ReleasePart
    <2>2. Unreleased(step + 1) = {}
      BY <1>2, <1>4, <1>8 DEF Unreleased
    <2>3. pointers' \subseteq Forgotten'
      BY <1>1, <1>2, <1>3, <1>5, <2>2 DEF Forgotten
    <2>4. Owned'
      BY <2>1, <2>3 DEF Owned
    <2> QED BY <1>3, <1>6, <2>4 DEF LInv
  <1> QED BY <1>7, <1>8

(* Where the process ends, nothing has to hold any more.                   *)
LEMMA EndKeeps ==
    ASSUME LInv, FollowNull \/ DecodeEmptyTree
    PROVE  LInv'
  <1>1. call' = call /\ UNCHANGED memory /\ pc' \in {"crashed", "undefined"}
        /\ UNCHANGED <<step, uncoded, result>>
    BY DEF FollowNull, DecodeEmptyTree
  <1>2. Owned'
    BY <1>1 DEF Owned
  <1>3. Orphans'
    BY <1>1 DEF LInv, Orphans, memory, FollowNull, DecodeEmptyTree
  <1> QED BY <1>1, <1>2, <1>3 DEF LInv, Types, Places, memory

LEMMA StutterKeeps ==
    ASSUME LInv, UNCHANGED vars
    PROVE  LInv'
  <1>1. /\ UNCHANGED <<call, heap, pointers, lost, misused, pc, step, uncoded, result>>
    BY DEF vars
  <1>2. Owned'
    BY <1>1, SameCall DEF LInv, Owned, Forgotten, Unreleased
  <1> QED BY <1>1, <1>2 DEF LInv, Types, Orphans

LEMMA NextLInv == LInv /\ [Next]_vars => LInv'
  BY InitialiseKeeps, InitialiseFailsKeeps, BuildTreeKeeps, CodeSymbolKeeps,
     WriteBlockKeeps, ReadSizesKeeps, ReadTreeKeeps, DecodeBlockKeeps,
     FlushKeeps, ReleasePartKeeps, EndKeeps, StutterKeeps
     DEF Next, Run, Encode, Decode, Over

-----------------------------------------------------------------------------
(* Whatever fails, huf_encode and huf_decode release no memory twice       *)
(* (src/encoder.c:208-256, 360-387, src/decoder.c:159-196, 266-286).       *)
THEOREM NoDoubleFreeHolds == Spec => []NoDoubleFree
  <1>1. LInv => NoDoubleFree
    BY DEF LInv, NoDoubleFree
  <1> QED BY InitLInv, NextLInv, <1>1, PTL DEF Spec

(* A call that returns has left at most one block of memory behind, and    *)
(* none if it succeeded (src/encoder.c:384-385, src/decoder.c:242-284,     *)
(* src/symbol.c:24-36).                                                    *)
THEOREM OneLeftAtMostHolds == Spec => []OneLeftAtMost
  <1>1. LInv => OneLeftAtMost
    <2> SUFFICES ASSUME LInv, pc = "returned"
                 PROVE  \/ heap = {}
                        \/ result # "ok" /\ call = "decode" /\ heap = One("tree_head")
                        \/ /\ result = "memory" /\ call = "encode"
                           /\ \E s \in Symbols : heap = {<<"element", s>>}
      BY DEF LInv, OneLeftAtMost
    <2>1. pointers \subseteq Forgotten /\ pointers \subseteq heap
      BY DEF LInv, Owned
    <2>2. CASE heap \ pointers = {}
      BY <2>1, <2>2 DEF Forgotten, One
    <2>3. CASE /\ call = "encode" /\ result = "memory"
               /\ \E s \in Symbols : heap \ pointers = {<<"element", s>>}
      BY <2>1, <2>3 DEF Forgotten
    <2> QED BY <2>2, <2>3 DEF LInv, Orphans
  <1> QED BY InitLInv, NextLInv, <1>1, PTL DEF Spec
=============================================================================
