---------------------------- MODULE HuffmanCode ----------------------------
(***************************************************************************)
(* The pure part of the codec: the tree that huf_tree_from_histogram       *)
(* builds, the code words read off it, its serialized form and back        *)
(* (src/tree.c), and integers and bits as bytes of the stream.             *)
(*                                                                         *)
(* A node that the encoder made is named by its index in shadow_tree,      *)
(* which is also its node->index; a node that the decoder made is named    *)
(* by its position in the serialized tree.                                 *)
(***************************************************************************)
EXTENDS Integers, Sequences, SequencesExt, FiniteSets

CONSTANTS
    ByteBits,    \* the bits of a byte (8 in the code)
    SizeWidth,   \* sizeof(size_t)  (8 in the code)
    IntWidth     \* sizeof(int16_t) (2 in the code)

ASSUME WidthAssumption ==
    ByteBits \in Nat \ {0} /\ SizeWidth \in Nat \ {0} /\ IntWidth \in Nat \ {0}

-----------------------------------------------------------------------------
(* Numbers and their digits to a base.                                     *)

Zeros(n) == [i \in 1..n |-> 0]

(* The number with these digits, the first one on top.                     *)
Value(digits, base) ==
    LET upto[k \in 0 .. Len(digits)] ==
            IF k = 0 THEN 0 ELSE base * upto[k-1] + digits[k]
    IN  upto[Len(digits)]

(* value >> n, in digits.                                                  *)
Shifted(value, base, n) ==
    LET rest[k \in 0..n] == IF k = 0 THEN value ELSE rest[k-1] \div base
    IN  rest[n]

HUF_ASCII_COUNT == Value(<<1>> \o Zeros(ByteBits), 2)   \* 1 << 8: 256 byte values
HUF_BTREE_LEN   == 4 * HUF_ASCII_COUNT    \* 1024
HUF_LEAF_NODE   == -1                     \* a NULL pointer in a serialized tree
None            == -1                     \* NULL
Symbols         == 0 .. HUF_ASCII_COUNT-1
Slots           == 0 .. 2*HUF_ASCII_COUNT-1

-----------------------------------------------------------------------------
(* Integers in memory, least significant byte first, two's complement.     *)

Digits(value, width) ==
    [i \in 1..width |-> Shifted(value, HUF_ASCII_COUNT, i-1) % HUF_ASCII_COUNT]

Unsigned(digits) == Value(Reverse(digits), HUF_ASCII_COUNT)

(* The sign is in the last byte.                                           *)
SignedTop(top) == IF 2 * top < HUF_ASCII_COUNT THEN top ELSE top - HUF_ASCII_COUNT
Signed(digits) == LET n == Len(digits)
                  IN  Unsigned([digits EXCEPT ![n] = SignedTop(@)])

(* A byte from at most ByteBits bits, the first one on top, zeros below.   *)
ByteOf(bits) == Value(bits \o Zeros(ByteBits - Len(bits)), 2)

-----------------------------------------------------------------------------
(* The tree of a histogram.                                                *)

NoRates == [i \in Slots |-> 0]

NoTree == [root |-> None, node |-> HUF_ASCII_COUNT, leaves |-> {},
           parent |-> [n \in Slots |-> None],
           left   |-> [n \in Slots |-> None],
           right  |-> [n \in Slots |-> None]]

(* What the scan finds: the last one of the lightest.                      *)
Lightest(rates, S) ==
    CHOOSE i \in S : \A k \in S : rates[i] < rates[k] \/ (rates[i] = rates[k] /\ i >= k)

(* One iteration of the outer while: the two lightest slots below node     *)
(* become its children; a single one becomes the only child of the root.   *)
Merge(work) ==
    LET t      == work.tree
        rates  == work.rates
        node   == t.node
        active == {i \in 0 .. node-1 : rates[i] # 0}
        one    == Lightest(rates, active)
        single == active = {one}
        two    == IF single THEN one ELSE Lightest(rates, active \ {one})
        weight == rates[one] + (IF single THEN 0 ELSE rates[two])
    IN  [rates |-> [rates EXCEPT ![one] = 0, ![two] = 0, ![node] = weight],
         tree  |-> [root   |-> IF single THEN node ELSE None,
                    node   |-> node + 1,
                    leaves |-> t.leaves \cup ({one, two} \cap Symbols),
                    parent |-> [t.parent EXCEPT ![one] = node, ![two] = node],
                    left   |-> [t.left EXCEPT ![node] = one],
                    right  |-> [t.right EXCEPT ![node] = IF single THEN None ELSE two]]]

(* After n turns of the loop, which ends when there is a root: the tree,   *)
(* and the weights that are left in the histogram.                         *)
Merged(rates, n) ==
    LET step[k \in 0..n] ==
            IF k = 0 THEN [tree |-> NoTree, rates |-> rates]
            ELSE LET work == step[k-1] IN
                 IF work.tree.root = None THEN Merge(work) ELSE work
    IN  step[n]

FromHistogram(rates) == Merged(rates, HUF_ASCII_COUNT)

(* huf_histogram_populate: each byte adds one to its frequency.            *)
Populate(rates, data) ==
    [n \in Slots |-> rates[n] + Cardinality({i \in 1 .. Len(data) : data[i] = n})]

-----------------------------------------------------------------------------
(* Code words.                                                             *)

(* huf_node_to_string: the way from a node up to the root.                 *)
NodeToString(t, n) ==
    LET path[m \in Slots] ==
            IF t.parent[m] = None THEN <<>>
            ELSE <<IF t.left[t.parent[m]] = m THEN 0 ELSE 1>> \o path[t.parent[m]]
    IN  path[n]

-----------------------------------------------------------------------------
(* The serialized tree.                                                    *)

(* __huf_serialize_tree: in preorder, every NULL included.                 *)
Serialize(t) ==
    LET elements[n \in Slots \cup {None}] ==
            IF n = None THEN <<HUF_LEAF_NODE>>
            ELSE <<n>> \o elements[t.left[n]] \o elements[t.right[n]]
    IN  elements[t.root]

(* __huf_deserialize_tree: span[p] is how many elements the call for the   *)
(* branch at position p consumes; the right branch starts where the left   *)
(* one ends.  A branch that the buffer has no more elements for is NULL.   *)
Deserialize(elements) ==
    LET count == Len(elements)
        span[p \in Nat] ==
            IF p > count THEN 0
            ELSE IF elements[p] = HUF_LEAF_NODE THEN 1
            ELSE LET below == span[p + 1] IN 1 + below + span[p + 1 + below]
        Node(p) == IF p <= count /\ elements[p] # HUF_LEAF_NODE THEN p ELSE None
    IN  [root  |-> IF count = 0 THEN None ELSE Node(1),
         index |-> elements,
         left  |-> [p \in 1..count |-> Node(p + 1)],
         right |-> [p \in 1..count |-> Node(p + 1 + span[p + 1])]]

(* A tree in the stream.                                                   *)
TreeBytes(elements) ==
    [k \in 1 .. Len(elements) * IntWidth |->
        Digits(elements[((k-1) \div IntWidth) + 1], IntWidth)[((k-1) % IntWidth) + 1]]

Elements(digits) ==
    [i \in 1 .. Len(digits) \div IntWidth |->
        Signed(SubSeq(digits, (i-1) * IntWidth + 1, i * IntWidth))]
=============================================================================
