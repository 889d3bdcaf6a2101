---------------------------- MODULE HuffmanTree ----------------------------
(***************************************************************************)
(* huf_tree_from_histogram (src/tree.c) together with the part of the      *)
(* frequency histogram (src/histogram.c) it consumes in place, and the     *)
(* calls that take the tree down again (huf_tree_reset, huf_tree_free).    *)
(*                                                                         *)
(* The C function keeps its nodes in shadow_tree[2 * HUF_ASCII_COUNT] and  *)
(* their weights in histogram->frequencies, at the same positions, so a    *)
(* node is identified here by its slot in those arrays: slots below K are  *)
(* the byte values, the slots from K on are the merged nodes in the order  *)
(* they are created.  One action is one iteration of one of the loops of   *)
(* the function, or one call of the others.                                *)
(***************************************************************************)
EXTENDS Integers, FiniteSets

CONSTANTS
    ByteBits, \* the bits of a byte (8 in the code)
    K,        \* HUF_ASCII_COUNT, the number of byte values (256 in the code)
    Counts    \* the frequencies a byte value may have in one block

(* The tree of a block by its declarative definition, with which the       *)
(* encoder works.                                                          *)
Code == INSTANCE HuffmanCode WITH SizeWidth <- 1, IntWidth <- 1

ASSUME ByteAssumption == K = Code!HUF_ASCII_COUNT
ASSUME KAssumption == K \in Nat \ {0}
ASSUME CountsAssumption == Counts \subseteq Nat

None    == -1           \* NULL, and the -1 of index1 and index2
Symbols == 0 .. K-1
Slots   == 0 .. 2*K-1   \* the positions of shadow_tree and of frequencies
NoStart == 2*K          \* histogram->start = (size_t)-1: only ever compared

VARIABLES
    rates,     \* histogram->frequencies
    hstart,    \* histogram->start
    start,     \* the local copy of histogram->start
    node,      \* the slot of the next merged node
    j,         \* the loop variable of the scan
    rate1,     \* the smallest weight the scan has met (0: none)
    rate2,     \* the second smallest (0: none)
    index1,    \* the slot of rate1, or None
    index2,    \* the slot of rate2, or None
    live,      \* the slots whose node is allocated and not freed
    parent, left, right,    \* the pointers of the nodes
    leaves,    \* the symbols s with self->leaves[s] # NULL
    root,      \* self->root
    pc,        \* where the control is
    freqs      \* history: the frequencies the tree is built from

histVars == <<rates, hstart, freqs>>
scanVars == <<j, rate1, rate2, index1, index2>>
treeVars == <<live, parent, left, right, leaves, root>>
vars     == <<rates, hstart, freqs, start, node, j, rate1, rate2, index1,
              index2, live, parent, left, right, leaves, root, pc>>

-----------------------------------------------------------------------------
(* Derived state.                                                          *)

Used   == {s \in Symbols : freqs[s] # 0}    \* the byte values of the block
Active == {i \in Slots : rates[i] # 0}      \* the slots still to be merged

Closed(S) == \A n \in S : {left[n], right[n]} \ {None} \subseteq S

(* The nodes the recursion of __huf_tree_free visits, and the root that    *)
(* its callers free after it.                                              *)
Freed == IF root = None
         THEN {}
         ELSE {n \in Slots : \A S \in SUBSET Slots :
                                 root \in S /\ Closed(S) => n \in S}

-----------------------------------------------------------------------------
(* The histogram.                                                          *)

Least(S) == CHOOSE m \in S : \A i \in S : m <= i

(* huf_histogram_populate with iota = 1 on a block with these counts: it   *)
(* adds to the frequencies that are there and lowers start.                *)
Populate(counts) ==
    /\ pc = "idle"
    /\ freqs' = counts
    /\ rates' = [i \in Slots |-> IF i \in Symbols THEN rates[i] + counts[i]
                                                  ELSE rates[i]]
    /\ hstart' = Least({hstart} \cup {s \in Symbols : counts[s] # 0})
    /\ pc' = "call"
    /\ UNCHANGED <<start, node, scanVars, treeVars>>

-----------------------------------------------------------------------------
(* huf_tree_from_histogram.                                                *)

(* The prologue and the condition of the outer while: a histogram that saw *)
(* nothing still has start = (size_t)-1, and the tree is left without root.*)
Enter ==
    /\ pc = "call"
    /\ start' = hstart
    /\ node' = K
    /\ pc' = IF hstart \in Slots THEN "skip" ELSE "done"
    /\ UNCHANGED <<histVars, scanVars, treeVars>>

(* Mutant: the search forgets to advance.                                  *)
MutantSkipZero ==
    /\ pc = "skip" /\ rates[start] = 0
    /\ UNCHANGED vars

(* while (!rates[start]) start++; has no bound of its own.                 *)
SkipZero ==
    /\ pc = "skip" /\ rates[start] = 0
    /\ start' = start + 1
    /\ UNCHANGED <<histVars, node, scanVars, treeVars, pc>>

BeginScan ==
    /\ pc = "skip" /\ rates[start] # 0
    /\ j' = start
    /\ rate1' = 0 /\ rate2' = 0
    /\ index1' = None /\ index2' = None
    /\ pc' = "scan"
    /\ UNCHANGED <<histVars, start, node, treeVars>>

(* Mutant: a new smallest weight does not push the old one to second       *)
(* place.                                                                  *)
MutantInspectNoSwap(rate) ==
    \/ /\ rate # 0 /\ (rate1 = 0 \/ rate <= rate1)
       /\ rate1' = rate /\ index1' = j
       /\ UNCHANGED <<rate2, index2>>
    \/ /\ rate1 # 0 /\ rate > rate1
       /\ rate2 = 0 \/ rate <= rate2
       /\ rate2' = rate /\ index2' = j
       /\ UNCHANGED <<rate1, index1>>
    \/ /\ rate = 0 \/ (rate1 # 0 /\ rate > rate1 /\ rate2 # 0 /\ rate > rate2)
       /\ UNCHANGED <<rate1, rate2, index1, index2>>

(* Mutant: the second smallest weight is taken wherever one is met.        *)
MutantInspectAnySecond(rate) ==
    \/ /\ rate # 0 /\ rate1 = 0
       /\ rate1' = rate /\ index1' = j
       /\ UNCHANGED <<rate2, index2>>
    \/ /\ rate # 0 /\ rate1 # 0 /\ rate <= rate1
       /\ rate1' = rate  /\ index1' = j
       /\ rate2' = rate1 /\ index2' = index1
    \/ /\ rate1 # 0 /\ rate > rate1
       /\ rate2' = rate /\ index2' = j
       /\ UNCHANGED <<rate1, index1>>
    \/ rate = 0 /\ UNCHANGED <<rate1, rate2, index1, index2>>

(* Mutant: of equal weights the earlier slot stays the lightest.           *)
MutantInspectTies(rate) ==
    \/ /\ rate # 0 /\ rate1 = 0
       /\ rate1' = rate /\ index1' = j
       /\ UNCHANGED <<rate2, index2>>
    \/ /\ rate # 0 /\ rate1 # 0 /\ rate < rate1
       /\ rate1' = rate  /\ index1' = j
       /\ rate2' = rate1 /\ index2' = index1
    \/ /\ rate1 # 0 /\ rate >= rate1
       /\ rate2 = 0 \/ rate <= rate2
       /\ rate2' = rate /\ index2' = j
       /\ UNCHANGED <<rate1, index1>>
    \/ /\ rate = 0 \/ (rate1 # 0 /\ rate >= rate1 /\ rate2 # 0 /\ rate > rate2)
       /\ UNCHANGED <<rate1, rate2, index1, index2>>

(* The if chain of the scan: the first non-zero weight, a new smallest one *)
(* (which pushes the old one to second place; ties go to the later slot),  *)
(* a new second smallest one, or nothing to do.                            *)
Inspect(rate) ==
    \/ /\ rate # 0 /\ rate1 = 0
       /\ rate1' = rate /\ index1' = j
       /\ UNCHANGED <<rate2, index2>>
    \/ /\ rate # 0 /\ rate1 # 0 /\ rate <= rate1
       /\ rate1' = rate  /\ index1' = j
       /\ rate2' = rate1 /\ index2' = index1
    \/ /\ rate1 # 0 /\ rate > rate1
       /\ rate2 = 0 \/ rate <= rate2
       /\ rate2' = rate /\ index2' = j
       /\ UNCHANGED <<rate1, index1>>
    \/ /\ rate = 0 \/ (rate1 # 0 /\ rate > rate1 /\ rate2 # 0 /\ rate > rate2)
       /\ UNCHANGED <<rate1, rate2, index1, index2>>

(* Mutant: the scan is given one iteration more (j <= node).               *)
MutantScanSlot ==
    /\ pc = "scan" /\ j \in 0 .. node /\ j \in Slots
    /\ Inspect(rates[j])
    /\ j' = j + 1
    /\ UNCHANGED <<histVars, start, node, treeVars, pc>>

ScanSlot ==
    /\ pc = "scan" /\ j < node
    /\ Inspect(rates[j])
    /\ j' = j + 1
    /\ UNCHANGED <<histVars, start, node, treeVars, pc>>

Pair == {index1, index2} \ {None}

(* Mutant: the weight of the second slot of a pair is not cleared.         *)
MutantMergedRates ==
    [i \in Slots |-> IF i = index1 THEN 0
                     ELSE IF i = node THEN rate1 + rate2 ELSE rates[i]]

MergedRates ==
    [i \in Slots |-> IF i \in Pair THEN 0
                     ELSE IF i = node THEN rate1 + rate2 ELSE rates[i]]

(* Mutant: the loop goes on after the scan that found a single slot.       *)
MutantFoundOne == FALSE

(* index1 > -1 && index2 == -1                                             *)
FoundOne == index2 = None

(* One merge.  A leaf is allocated when it is first picked, the merged     *)
(* node always; when the scan found a single slot it becomes the only      *)
(* (left) child of one more node, which is the root, and the loop ends.    *)
(* The code's other exit, for a scan that found nothing, is never taken:   *)
(* start is left on a non-zero weight below node.                          *)
Merge ==
    /\ pc = "scan" /\ j = node /\ index1 # None
    /\ live' = live \cup Pair \cup {node}
    /\ leaves' = leaves \cup (Pair \cap Symbols)
    /\ parent' = [n \in Slots |-> IF n \in Pair THEN node ELSE parent[n]]
    /\ left'  = [left EXCEPT ![node] = index1]
    /\ right' = [right EXCEPT ![node] = index2]
    /\ rates' = MergedRates
    /\ node' = node + 1
    /\ root' = IF FoundOne THEN node ELSE root
    /\ pc'   = IF FoundOne THEN "done" ELSE "skip"
    /\ UNCHANGED <<hstart, freqs, start, scanVars>>

(* Mutant: the epilogue walks only the first half of the shadow tree.      *)
MutantMergeFails ==
    /\ pc = "scan" /\ j = node /\ index1 # None
    /\ live' = live \ Symbols
    /\ pc' = "failed"
    /\ UNCHANGED <<histVars, start, node, scanVars,
                   parent, left, right, leaves, root>>

(* One of the allocations of a merge fails: the epilogue frees the whole   *)
(* shadow tree, self->root was never set, self->leaves is left as it is.   *)
MergeFails ==
    /\ pc = "scan" /\ j = node /\ index1 # None
    /\ live' = {}
    /\ pc' = "failed"
    /\ UNCHANGED <<histVars, start, node, scanVars,
                   parent, left, right, leaves, root>>

-----------------------------------------------------------------------------
(* Taking the tree down.                                                   *)

NoPointers == [n \in Slots |-> None]

(* Mutant: the leaves of the last tree are left in place.                  *)
MutantResetTree ==
    /\ live' = live \ Freed
    /\ root' = None
    /\ UNCHANGED leaves

ResetTree ==
    /\ live' = live \ Freed
    /\ leaves' = {}
    /\ root' = None

ResetHistogram ==
    /\ rates' = [i \in Slots |-> 0]
    /\ hstart' = NoStart

(* The nodes that went away take their pointers with them: every later     *)
(* node is allocated zeroed.                                               *)
TakeDown ==
    /\ ResetTree
    /\ ResetHistogram
    /\ parent' = NoPointers /\ left' = NoPointers /\ right' = NoPointers
    /\ pc' = "idle"
    /\ UNCHANGED <<freqs, start, node, scanVars>>

(* What huf_encode does between two blocks: huf_tree_reset, then           *)
(* huf_histogram_reset, on the same tree and histogram.                    *)
NextBlock == pc = "done" /\ TakeDown

(* huf_encoder_free after the last block or after an error, and a new      *)
(* encoder, whose leaves and frequencies are allocated zeroed.             *)
Release == pc \in {"done", "failed"} /\ TakeDown

Init ==
    /\ rates = [i \in Slots |-> 0]
    /\ freqs = [s \in Symbols |-> 0]
    /\ hstart = NoStart /\ start = NoStart
    /\ node = K /\ j = 0
    /\ rate1 = 0 /\ rate2 = 0
    /\ index1 = None /\ index2 = None
    /\ live = {} /\ leaves = {} /\ root = None
    /\ parent = NoPointers /\ left = NoPointers /\ right = NoPointers
    /\ pc = "idle"

Build == Enter \/ SkipZero \/ BeginScan \/ ScanSlot \/ Merge \/ MergeFails

Next ==
    \/ \E counts \in [Symbols -> Counts] : Populate(counts)
    \/ Build
    \/ NextBlock
    \/ Release

(* The function runs to its return once it is called; nothing obliges a    *)
(* client to call it.                                                      *)
Spec == Init /\ [][Next]_vars /\ WF_vars(Build)

-----------------------------------------------------------------------------
(* What the function promises.                                             *)

Building == pc \in {"skip", "scan"}

(* Type correctness of the histogram, of the scan and of the tree.         *)
TypeOK ==
    /\ rates \in [Slots -> Nat] /\ freqs \in [Symbols -> Nat]
    /\ hstart \in Slots \cup {NoStart}
    /\ start \in 0 .. NoStart /\ node \in K .. 2*K /\ j \in 0 .. 2*K
    /\ rate1 \in Nat /\ rate2 \in Nat
    /\ index1 \in Slots \cup {None} /\ index2 \in Slots \cup {None}
    /\ live \subseteq Slots /\ leaves \subseteq Symbols
    /\ root \in Slots \cup {None}
    /\ parent \in [Slots -> Slots \cup {None}]
    /\ left   \in [Slots -> Slots \cup {None}]
    /\ right  \in [Slots -> Slots \cup {None}]
    /\ pc \in {"idle", "call", "skip", "scan", "done", "failed"}

(* No index of the function leaves the arrays of 2 * HUF_ASCII_COUNT       *)
(* entries: the unguarded search for a non-zero weight stops below node,   *)
(* and there is a slot left for each merged node (src/tree.c:324, 377,     *)
(* 407), however many different byte values the block has.                 *)
SlotBounds ==
    /\ pc = "skip" => \E i \in start .. node-1 : rates[i] # 0
    /\ Building => node \in Slots
    /\ pc = "scan" => j <= node

(* When a scan ends, index1 and index2 are the two lightest of all the     *)
(* slots still to be merged, or the only one (src/tree.c:329-352).         *)
PicksTwoLightest ==
    pc = "scan" /\ j = node =>
        /\ index1 \in Active
        /\ \A i \in Active : rates[index1] <= rates[i]
        /\ index2 = None => Active = {index1}
        /\ index2 # None =>
             /\ index2 \in Active \ {index1}
             /\ \A i \in Active \ {index1} : rates[index2] <= rates[i]

(* The nodes form a forest at every moment: a node hangs below the node    *)
(* its parent pointer names, on exactly one side, and that node was made   *)
(* after it, so no chain of pointers can close; the slots still to be      *)
(* merged have no parent (src/tree.c:390-404).                             *)
Forest ==
    /\ \A n \in live : parent[n] # None =>
          /\ parent[n] \in live /\ parent[n] > n
          /\ (left[parent[n]] = n) # (right[parent[n]] = n)
    /\ \A n \in live : \A c \in {left[n], right[n]} \ {None} :
          c \in live /\ parent[c] = n
    /\ Building => \A n \in live : parent[n] = None <=> n \in Active

(* The length of the code word of a byte value is the depth of its leaf.   *)
Depth(s) == LET depth[n \in Slots] == IF parent[n] = None
                                      THEN 0 ELSE 1 + depth[parent[n]]
            IN  depth[s]

(* A finished tree has one leaf per byte value of the block, and as many   *)
(* inner nodes, the single-child root included: 2 * |Used| nodes.  The     *)
(* leaves array, which the encoder walks to build its code table, names    *)
(* exactly these leaves, none of an earlier block (src/tree.c:382-388,     *)
(* 130-131).  No leaf is the root, and none is deeper than |Used|, so the  *)
(* buffer of 1024 characters that cuts a longer word without an error      *)
(* never does (src/encoder.c:48, src/tree.c:28-31).                        *)
TreeCoversBlock ==
    pc = "done" /\ Used # {} =>
        /\ node = K + Cardinality(Used)
        /\ live = Used \cup K .. node-1
        /\ leaves = Used
        /\ \A n \in live : left[n] = None <=> n \in Used
        /\ root = node - 1 /\ right[root] = None
        /\ \A s \in Used : Depth(s) \in 1 .. Cardinality(Used)

(* The weight of the first n slots of f.                                   *)
Weight(f, n) == LET upto[k \in 0..n] == IF k = 0 THEN 0 ELSE upto[k-1] + f[k-1]
             IN  upto[n]

(* Every merge keeps the weight of the block: the weights of the slots     *)
(* still to be merged always add up to the number of its bytes, and the    *)
(* root ends up with all of it (src/tree.c:396-407).                       *)
WeightConserved ==
    pc \in {"call", "skip", "scan", "done"} => Weight(rates, 2*K) = Weight(freqs, K)

-----------------------------------------------------------------------------
(* The cost of the tree.                                                   *)

Power(n) == LET pow[k \in 0..n] == IF k = 0 THEN 1 ELSE 2 * pow[k-1]
            IN  pow[n]                                     \* 2 ^ n

(* The bits of the block when l[s] of them stand for the byte value s.     *)
Bits(l) == Weight([s \in Symbols |-> IF s \in Used THEN freqs[s] * l[s] ELSE 0], K)

(* Reference: the code lengths of up to d bits that satisfy the Kraft      *)
(* inequality, which exactly the prefix codes do.                          *)
Codes(d) ==
    {l \in [Used -> 0 .. d] :
        Weight([s \in Symbols |-> IF s \in Used THEN Power(d - l[s]) ELSE 0], K)
            <= Power(d)}

(* A cheapest code needs no longer words.                                  *)
Longest == Cardinality(Used) - 1

(* The code is optimal but for the single-child root, which puts the same  *)
(* one bit in front of every code word (src/tree.c:317-414).               *)
OptimalPlusOneBit ==
    pc = "done" /\ Used # {} =>
        Bits([s \in Used |-> Depth(s)])
            = Least({Bits(l) : l \in Codes(Longest)}) + Weight(freqs, K)

(* The scan, slot by slot, arrives at the tree of the declarative          *)
(* definition, ties included, and leaves the same weights in the histogram *)
(* (src/tree.c:318-414).                                                   *)
BuildsTree ==
    pc = "done" /\ Used # {} =>
        LET work == Code!FromHistogram([i \in Slots |-> IF i \in Used THEN freqs[i] ELSE 0])
            t    == work.tree
        IN  /\ rates = work.rates /\ root = t.root /\ leaves = t.leaves
            /\ parent = t.parent /\ left = t.left /\ right = t.right

(* Taking a tree down frees every node that was allocated, each once, also *)
(* after a failed allocation in the middle of the construction: nothing    *)
(* leaks and nothing is freed twice (src/tree.c:76-94, 416-424).           *)
FreeIsExact == pc \in {"idle", "call", "done", "failed"} => Freed = live

(* A call returns: none of its loops runs forever (src/tree.c:318-414).    *)
CallReturns == pc = "call" ~> pc \in {"done", "failed"}
=============================================================================
