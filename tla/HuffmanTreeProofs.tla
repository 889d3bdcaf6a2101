------------------------- MODULE HuffmanTreeProofs -------------------------
(***************************************************************************)
(* Proofs about HuffmanTree, for every number K of byte values and every   *)
(* set of frequencies.                                                     *)
(***************************************************************************)
EXTENDS HuffmanTree, ByteStreamProofs, FiniteSetTheorems, NaturalsInduction

-----------------------------------------------------------------------------
(* Minimal and maximal elements.                                           *)

(* A set of naturals that has an element has a least one, and Least is it. *)
LEMMA LeastExists ==
    ASSUME NEW S \in SUBSET Nat, S # {}
    PROVE  /\ Least(S) \in S
           /\ \A i \in S : Least(S) <= i
PROOF
<1>1. PICK m \in S : \A i \in S : ~ (<<i, m>> \in OpToRel(<, Nat))
    BY NatLessThanWellFounded, WFMin, Zenon
<1>2. \A i \in S : m <= i
    <2>1. SUFFICES ASSUME NEW i \in S PROVE m <= i
        OBVIOUS
    <2>2. ~ (i < m)
        BY <1>1, Zenon DEF OpToRel
    <2> QED  BY <2>2
<1> QED  BY <1>2, Zenon DEF Least
-----------------------------------------------------------------------------
(* The inductive invariant.                                                *)

Merged == K .. node-1                      \* the merged nodes made so far
Picked == {s \in Used : rates[s] = 0}      \* the leaves made so far

(* While there is a tree, or part of one, and while there is none.         *)
Growing == Building \/ (pc = "done" /\ Used # {})
Bare    == pc \in {"idle", "call"} \/ (pc = "done" /\ Used = {})

(* The histogram between its reset and the call.                           *)
HistogramInv ==
    /\ pc = "idle" => hstart = NoStart /\ \A i \in Slots : rates[i] = 0
    /\ pc = "call" =>
         /\ \A i \in Slots : rates[i] = IF i \in Symbols THEN freqs[i] ELSE 0
         /\ hstart \in Used \cup {NoStart}
         /\ \A s \in Used : hstart <= s

BareInv ==
    /\ Bare => /\ live = {} /\ leaves = {} /\ root = None
               /\ \A n \in Slots : left[n] = None /\ right[n] = None
                                   /\ parent[n] = None
    /\ pc = "failed" => live = {} /\ root = None

(* The slots still to be merged lie between start and node, and every      *)
(* merge but the last one leaves one less of them.                         *)
ActiveInv ==
    /\ Building =>
         /\ Active # {}
         /\ Cardinality(Active) + node = Cardinality(Used) + K
         /\ \A i \in Active : start <= i /\ i < node
         /\ root = None
    /\ pc = "done" /\ Used # {} =>
         /\ node = Cardinality(Used) + K
         /\ Active = {node-1}
         /\ root = node-1 /\ right[root] = None

(* Which nodes there are, and how their pointers agree.                    *)
NodesInv == Growing =>
    /\ Active \cap Symbols \subseteq Used
    /\ leaves = Picked
    /\ live = Picked \cup Merged

PointersInv == Growing =>
    /\ \A n \in Slots : n \notin live => parent[n] = None
    /\ \A n \in Slots : n \notin Merged => left[n] = None /\ right[n] = None
    /\ \A n \in Merged : left[n] # None /\ left[n] # right[n]
    /\ \A n \in live : parent[n] = None <=> n \in Active
    /\ \A n \in live : parent[n] # None =>
          /\ parent[n] \in Merged /\ n < parent[n]
          /\ left[parent[n]] = n \/ right[parent[n]] = n
    /\ \A n \in Merged :
          /\ left[n] \in live /\ parent[left[n]] = n
          /\ right[n] # None => right[n] \in live /\ parent[right[n]] = n

(* index1 and index2 are the two lightest of the slots below j.            *)
ScanInv == pc = "scan" =>
    /\ start <= j /\ j <= node
    /\ index1 = None => rate1 = 0
    /\ index1 # None => index1 \in Active /\ index1 < j /\ rate1 = rates[index1]
    /\ \A i \in Active : i < j => index1 # None /\ rate1 <= rates[i]
    /\ index2 = None => rate2 = 0
    /\ index2 # None =>
         /\ index1 # None /\ index2 # index1
         /\ index2 \in Active /\ index2 < j /\ rate2 = rates[index2]
    /\ \A i \in Active \ {index1} : i < j => index2 # None /\ rate2 <= rates[i]

IInv == /\ TypeOK /\ HistogramInv /\ BareInv /\ ActiveInv
        /\ NodesInv /\ PointersInv /\ ScanInv
-----------------------------------------------------------------------------
(* Facts that hold of any state that satisfies the invariant.              *)

LEMMA FiniteSlots ==
    /\ IsFiniteSet(Active) /\ Cardinality(Active) \in Nat
    /\ IsFiniteSet(Used) /\ Cardinality(Used) \in Nat
    /\ Cardinality(Used) <= K
PROOF
<1>1. IsFiniteSet(Slots)
    BY KAssumption, FS_Interval DEF Slots
<1>2. IsFiniteSet(Symbols) /\ Cardinality(Symbols) = K
    BY KAssumption, FS_Interval DEF Symbols
<1>3. IsFiniteSet(Active)
    BY <1>1, FS_Subset DEF Active
<1>4. IsFiniteSet(Used) /\ Cardinality(Used) <= K
    BY <1>2, FS_Subset DEF Used
<1> QED  BY <1>3, <1>4, FS_CardinalityType

(* There is room for one more node as long as the construction goes on.    *)
LEMMA NodeBound ==
    ASSUME IInv, Building
    PROVE  node \in K .. 2*K-1
PROOF
<1>1. Cardinality(Active) # 0
    BY FiniteSlots, FS_EmptySet DEF IInv, ActiveInv
<1> QED  BY KAssumption, <1>1, FiniteSlots DEF IInv, TypeOK, ActiveInv

LEMMA FreedIsLive ==
    ASSUME IInv, pc \in {"idle", "call", "done", "failed"}
    PROVE  Freed = live
PROOF
<1>1. CASE pc # "done" \/ Used = {}
    BY <1>1 DEF IInv, BareInv, Bare, Freed
<1>2. CASE pc = "done" /\ Used # {}
    <2>1. /\ root = node-1 /\ root \in live /\ root # None /\ Active = {root}
          /\ node-1 \in K .. 2*K-1
        <3>1. Cardinality(Used) # 0
            BY <1>2, FiniteSlots, FS_EmptySet
        <3> QED  BY KAssumption, <1>2, <3>1, FiniteSlots
                 DEF IInv, TypeOK, ActiveInv, NodesInv, Growing, Merged, None
    <2>2. live \subseteq Slots /\ \A n \in live : n \in Nat /\ n < 2*K
        <3>1. live \subseteq Slots
            BY DEF IInv, TypeOK
        <3>2. \A n \in Slots : n \in Nat /\ n < 2*K
            BY KAssumption DEF Slots
        <3> QED  BY <3>1, <3>2
    <2>3. Closed(live)
        <3>1. SUFFICES ASSUME NEW n \in live, NEW c \in {left[n], right[n]},
                              c # None
                       PROVE  c \in live
            BY DEF Closed
        <3>2. n \in Merged
            BY <1>2, <2>2, <3>1 DEF IInv, PointersInv, Growing
        <3> QED  BY <1>2, <3>1, <3>2 DEF IInv, PointersInv, Growing
    <2>4. ASSUME NEW S \in SUBSET Slots, root \in S, Closed(S)
          PROVE  live \subseteq S
        <3> DEFINE Missing == live \ S
                   Above == {2*K - n : n \in Missing}
        <3>1. SUFFICES ASSUME Missing # {} PROVE FALSE
            OBVIOUS
        <3>2. Above \in SUBSET Nat /\ Above # {}
            <4>1. \A n \in Missing : 2*K - n \in Nat
                BY KAssumption, <2>2
            <4> QED  BY <3>1, <4>1
        <3>3. PICK n \in Missing : \A m \in Missing : m <= n
            <4>1. PICK n \in Missing : 2*K - n = Least(Above)
                BY <3>2, LeastExists
            <4>2. \A m \in Missing : 2*K - n <= 2*K - m
                BY <3>2, <4>1, LeastExists
            <4> QED  BY KAssumption, <2>2, <4>2
        <3>4. n \in live /\ n \notin S /\ n # root
            BY <2>4
        <3>5. parent[n] # None
            BY <1>2, <2>1, <3>4 DEF IInv, PointersInv, Growing
        <3>6. /\ parent[n] \in Merged /\ n < parent[n]
              /\ left[parent[n]] = n \/ right[parent[n]] = n
            BY <1>2, <3>4, <3>5 DEF IInv, PointersInv, Growing
        <3>7. parent[n] \in live
            BY <1>2, <3>6 DEF IInv, NodesInv, Growing
        <3>8. parent[n] \in S
            <4>1. n \in Int /\ parent[n] \in Int
                BY <2>2, <3>4, <3>7
            <4> QED  BY <3>3, <3>6, <3>7, <4>1
        <3>9. n # None
            BY <2>2, <3>4 DEF Slots, None
        <3> QED  BY <2>4, <3>4, <3>6, <3>8, <3>9 DEF Closed
    <2> QED  BY <2>1, <2>2, <2>3, <2>4 DEF Freed
<1> QED  BY <1>1, <1>2

-----------------------------------------------------------------------------
(* Every step preserves the invariant.                                     *)

LEMMA InitInv == Init => IInv
PROOF
<1> SUFFICES ASSUME Init PROVE IInv
    OBVIOUS
<1>1. TypeOK
    BY KAssumption DEF Init, TypeOK, Slots, Symbols, NoStart, None, NoPointers
<1>2. HistogramInv /\ BareInv
    BY DEF Init, HistogramInv, BareInv, Bare, NoPointers
<1>3. ActiveInv /\ NodesInv /\ PointersInv /\ ScanInv
    BY DEF Init, ActiveInv, NodesInv, PointersInv, ScanInv, Growing, Building
<1> QED  BY <1>1, <1>2, <1>3 DEF IInv

LEMMA PopulateInv ==
    ASSUME IInv, NEW counts \in [Symbols -> Counts], Populate(counts)
    PROVE  IInv'
PROOF
<1> DEFINE Seen == {hstart} \cup {s \in Symbols : counts[s] # 0}
<1>1. /\ pc = "idle" /\ pc' = "call" /\ freqs' = counts
      /\ hstart = NoStart /\ hstart' = Least(Seen)
      /\ \A i \in Slots : rates[i] = 0
      /\ rates' = [i \in Slots |-> IF i \in Symbols THEN rates[i] + counts[i]
                                                    ELSE rates[i]]
    BY DEF Populate, IInv, HistogramInv
<1>2. Used' = {s \in Symbols : counts[s] # 0}
    BY <1>1 DEF Used
<1>3. hstart' \in Seen /\ \A i \in Seen : hstart' <= i
    <2>1. Seen \in SUBSET Nat /\ Seen # {}
        BY KAssumption, <1>1 DEF Symbols, NoStart
    <2> HIDE DEF Seen
    <2> QED  BY <1>1, <2>1, LeastExists
<1>4. counts \in [Symbols -> Nat]
    BY CountsAssumption
<1>5. \A i \in Slots : rates'[i] = IF i \in Symbols THEN counts[i] ELSE 0
    BY <1>1, <1>4
<1>6. TypeOK'
    <2>1. rates' \in [Slots -> Nat]
        BY <1>1, <1>4
    <2>2. hstart' \in Slots \cup {NoStart}
        BY KAssumption, <1>1, <1>3 DEF Symbols, Slots
    <2> QED  BY <1>1, <1>4, <2>1, <2>2 DEF Populate, IInv, TypeOK, scanVars, treeVars
<1>7. HistogramInv'
    BY <1>1, <1>2, <1>3, <1>5 DEF HistogramInv
<1>8. BareInv'
    BY <1>1 DEF Populate, IInv, BareInv, Bare, treeVars
<1>9. ActiveInv' /\ NodesInv' /\ PointersInv' /\ ScanInv'
    BY <1>1 DEF ActiveInv, NodesInv, PointersInv, ScanInv, Growing, Building
<1> QED  BY <1>6, <1>7, <1>8, <1>9 DEF IInv
LEMMA EnterInv ==
    ASSUME IInv, Enter
    PROVE  IInv'
PROOF
<1> USE DEF histVars, scanVars, treeVars
<1>1. /\ pc = "call" /\ start' = hstart /\ node' = K
      /\ pc' = IF hstart \in Slots THEN "skip" ELSE "done"
      /\ UNCHANGED <<rates, hstart, freqs, live, parent, left, right, leaves,
                     root, j, rate1, rate2, index1, index2>>
    BY DEF Enter
<1>2. /\ \A i \in Slots : rates[i] = IF i \in Symbols THEN freqs[i] ELSE 0
      /\ hstart \in Used \cup {NoStart} /\ \A s \in Used : hstart <= s
      /\ live = {} /\ leaves = {} /\ root = None
      /\ \A n \in Slots : left[n] = None /\ right[n] = None /\ parent[n] = None
    BY <1>1 DEF IInv, HistogramInv, BareInv, Bare
<1>3. Used' = Used /\ Active' = Active /\ Active = Used /\ Used \subseteq Symbols
    BY KAssumption, <1>1, <1>2 DEF Used, Active, Symbols, Slots
<1>4. IF Used = {} THEN pc' = "done" ELSE pc' = "skip"
    <2>1. hstart = NoStart => hstart \notin Slots
        BY DEF NoStart, Slots
    <2>2. \A s \in Used : s \in Slots /\ ~ (NoStart <= s)
        BY KAssumption, <1>3 DEF NoStart, Symbols, Slots
    <2>3. CASE Used = {}
        BY <1>1, <1>2, <2>1, <2>3
    <2>4. CASE Used # {}
        <3>1. hstart # NoStart
            BY <1>2, <2>2, <2>4
        <3> QED  BY <1>1, <1>2, <2>2, <2>4, <3>1
    <2> QED  BY <2>3, <2>4
<1>5. TypeOK'
    BY KAssumption, <1>1, <1>4 DEF IInv, TypeOK, Slots, NoStart
<1>6. HistogramInv' /\ BareInv'
    BY <1>1, <1>2, <1>3, <1>4 DEF HistogramInv, BareInv, Bare
<1>7. ActiveInv'
    <2>1. \A i \in Active' : start' <= i /\ i < node'
        BY KAssumption, <1>1, <1>2, <1>3 DEF Symbols
    <2> QED  BY <1>1, <1>2, <1>3, <1>4, <2>1, FiniteSlots DEF ActiveInv, Building
<1>8. NodesInv' /\ PointersInv'
    <2>1. Picked' = {} /\ Merged' = {}
        BY KAssumption, <1>1, <1>2, <1>3 DEF Picked, Merged, Used, Symbols, Slots
    <2> QED  BY <1>1, <1>2, <1>3, <2>1 DEF NodesInv, PointersInv
<1>9. ScanInv'
    BY <1>4 DEF ScanInv
<1> QED  BY <1>5, <1>6, <1>7, <1>8, <1>9 DEF IInv

(* The steps that move only start or the variables of the scan.            *)
LEMMA FrameInv ==
    ASSUME IInv, pc = "skip" \/ pc = "scan", pc' = "skip" \/ pc' = "scan",
           UNCHANGED <<rates, hstart, freqs, node, live, parent, left, right,
                       leaves, root>>
    PROVE  /\ Active' = Active
           /\ HistogramInv' /\ BareInv' /\ NodesInv' /\ PointersInv'
           /\ (\A i \in Active : start' <= i) => ActiveInv'
PROOF
<1>1. Active' = Active /\ Used' = Used /\ Merged' = Merged /\ Picked' = Picked
    BY DEF Active, Used, Merged, Picked
<1>2. Growing /\ Growing' /\ Building /\ Building'
    BY DEF Growing, Building
<1>3. HistogramInv' /\ BareInv'
    BY DEF HistogramInv, BareInv, Bare
<1>4. NodesInv' /\ PointersInv'
    BY <1>1, <1>2 DEF IInv, NodesInv, PointersInv
<1>5. (\A i \in Active : start' <= i) => ActiveInv'
    BY <1>1, <1>2 DEF IInv, ActiveInv
<1> QED  BY <1>1, <1>3, <1>4, <1>5

LEMMA SkipZeroInv ==
    ASSUME IInv, SkipZero
    PROVE  IInv'
PROOF
<1> USE DEF histVars, scanVars, treeVars
<1>1. /\ pc = "skip" /\ pc' = "skip" /\ start' = start + 1 /\ rates[start] = 0
      /\ UNCHANGED <<rates, hstart, freqs, node, live, parent, left, right,
                     leaves, root, j, rate1, rate2, index1, index2>>
    BY DEF SkipZero
<1>2. /\ \A i \in Active : i \in Int /\ start <= i /\ i < node /\ i # start
      /\ Active # {}
    BY <1>1 DEF IInv, ActiveInv, Building, Active, Slots
<1>3. start \in Int /\ node \in Int /\ start' <= node /\ \A i \in Active : start' <= i
    BY <1>1, <1>2 DEF IInv, TypeOK
<1>4. TypeOK'
    BY KAssumption, <1>1, <1>3 DEF IInv, TypeOK, NoStart
<1>5. ScanInv'
    BY <1>1 DEF ScanInv
<1> QED  BY <1>1, <1>3, <1>4, <1>5, FrameInv DEF IInv

LEMMA BeginScanInv ==
    ASSUME IInv, BeginScan
    PROVE  IInv'
PROOF
<1> USE DEF histVars, scanVars, treeVars
<1>1. /\ pc = "skip" /\ pc' = "scan" /\ j' = start
      /\ rate1' = 0 /\ rate2' = 0 /\ index1' = None /\ index2' = None
      /\ UNCHANGED <<rates, hstart, freqs, node, live, parent, left, right,
                     leaves, root, start>>
    BY DEF BeginScan
<1>2. /\ \A i \in Active : i \in Int /\ start <= i /\ i < node
      /\ Active # {} /\ start \in Int /\ node \in Int
    BY <1>1 DEF IInv, TypeOK, ActiveInv, Building, Active, Slots
<1>3. TypeOK'
    BY <1>1 DEF IInv, TypeOK, NoStart
<1>4. ScanInv'
    BY <1>1, <1>2, FrameInv DEF ScanInv
<1> QED  BY <1>1, <1>2, <1>3, <1>4, FrameInv DEF IInv

LEMMA ScanSlotInv ==
    ASSUME IInv, ScanSlot
    PROVE  IInv'
PROOF
<1> USE DEF histVars, scanVars, treeVars
<1>1. /\ pc = "scan" /\ pc' = "scan" /\ j < node /\ j' = j + 1
      /\ Inspect(rates[j])
      /\ UNCHANGED <<rates, hstart, freqs, node, live, parent, left, right,
                     leaves, root, start>>
    BY DEF ScanSlot
<1>2. node \in K .. 2*K-1
    BY <1>1, NodeBound DEF Building
<1>3. j \in Slots /\ j \in Nat /\ rates[j] \in Nat /\ (rates[j] # 0 <=> j \in Active)
    BY KAssumption, <1>1, <1>2 DEF IInv, TypeOK, Slots, Active
<1>4. /\ \A i \in Active : i \in Int /\ start <= i /\ i < node
      /\ start \in Int /\ node \in Int
    BY <1>1 DEF IInv, TypeOK, ActiveInv, Building, Active, Slots
<1>5. TypeOK'
    <2>1. /\ rate1' \in Nat /\ rate2' \in Nat
          /\ index1' \in Slots \cup {None} /\ index2' \in Slots \cup {None}
        BY <1>1, <1>3 DEF Inspect, IInv, TypeOK
    <2> QED  BY KAssumption, <1>1, <1>2, <1>3, <2>1 DEF IInv, TypeOK
<1>6. ScanInv'
    <2>1. \A i \in Active : i < j' => i < j \/ i = j
        BY <1>1, <1>3, <1>4
    <2>2. \A i \in Active : rates[i] \in Nat /\ rates[i] # 0 /\ i # None
        BY DEF IInv, TypeOK, Active, None, Slots
    <2>3. rate1 \in Nat /\ rate2 \in Nat /\ Active' = Active
        BY <1>1, FrameInv DEF IInv, TypeOK
    <2>4. /\ start <= j
          /\ index1 = None => rate1 = 0
          /\ index1 # None => index1 \in Active /\ index1 < j /\ rate1 = rates[index1]
          /\ \A i \in Active : i < j => index1 # None /\ rate1 <= rates[i]
          /\ index2 = None => rate2 = 0
          /\ index2 # None =>
               /\ index1 # None /\ index2 # index1
               /\ index2 \in Active /\ index2 < j /\ rate2 = rates[index2]
          /\ \A i \in Active \ {index1} : i < j => index2 # None /\ rate2 <= rates[i]
        BY <1>1 DEF IInv, ScanInv
    <2>5. start' <= j' /\ j' <= node' /\ j # None
        BY <1>1, <1>3, <1>4, <2>4 DEF None
    <2>6. CASE rates[j] # 0 /\ rate1 = 0
        BY <1>1, <1>3, <1>4, <2>1, <2>2, <2>3, <2>4, <2>5, <2>6 DEF Inspect, ScanInv
    <2>7. CASE rates[j] # 0 /\ rate1 # 0 /\ rates[j] <= rate1
        BY <1>1, <1>3, <1>4, <2>1, <2>2, <2>3, <2>4, <2>5, <2>7 DEF Inspect, ScanInv
    <2>8. CASE /\ rate1 # 0 /\ rates[j] > rate1
               /\ rate2 = 0 \/ rates[j] <= rate2
        BY <1>1, <1>3, <1>4, <2>1, <2>2, <2>3, <2>4, <2>5, <2>8 DEF Inspect, ScanInv
    <2>9. CASE \/ rates[j] = 0
               \/ rate1 # 0 /\ rates[j] > rate1 /\ rate2 # 0 /\ rates[j] > rate2
        BY <1>1, <1>3, <1>4, <2>1, <2>2, <2>3, <2>4, <2>5, <2>9 DEF Inspect, ScanInv
    <2> QED  BY <1>1, <2>6, <2>7, <2>8, <2>9 DEF Inspect
<1> QED  BY <1>1, <1>4, <1>5, <1>6, FrameInv DEF IInv

LEMMA MergeFailsInv ==
    ASSUME IInv, MergeFails
    PROVE  IInv'
PROOF
<1> USE DEF histVars, scanVars, treeVars
<1>1. /\ pc = "scan" /\ pc' = "failed" /\ live' = {} /\ root' = root
    BY DEF MergeFails
<1>2. root = None
    BY <1>1 DEF IInv, ActiveInv, Building
<1>3. TypeOK'
    BY <1>1 DEF MergeFails, IInv, TypeOK
<1> QED  BY <1>1, <1>2, <1>3
         DEF IInv, HistogramInv, BareInv, Bare, ActiveInv, NodesInv,
             PointersInv, ScanInv, Growing, Building

LEMMA TakeDownInv ==
    ASSUME IInv, TakeDown, pc \in {"done", "failed"}
    PROVE  IInv'
PROOF
<1>1. /\ pc' = "idle" /\ live' = live \ Freed /\ leaves' = {} /\ root' = None
      /\ rates' = [i \in Slots |-> 0] /\ hstart' = NoStart
      /\ parent' = NoPointers /\ left' = NoPointers /\ right' = NoPointers
      /\ UNCHANGED <<freqs, start, node, j, rate1, rate2, index1, index2>>
    BY DEF TakeDown, ResetTree, ResetHistogram, scanVars
<1>2. live' = {}
    BY <1>1, FreedIsLive
<1>3. TypeOK'
    BY <1>1, <1>2 DEF IInv, TypeOK, NoPointers
<1> QED  BY <1>1, <1>2, <1>3
         DEF IInv, HistogramInv, BareInv, Bare, ActiveInv, NodesInv,
             PointersInv, ScanInv, Growing, Building, NoPointers
LEMMA MergeInv ==
    ASSUME IInv, Merge
    PROVE  IInv'
PROOF
<1> USE DEF histVars, scanVars, treeVars
<1>1. /\ pc = "scan" /\ j = node /\ index1 # None
      /\ live' = live \cup Pair \cup {node}
      /\ leaves' = leaves \cup (Pair \cap Symbols)
      /\ parent' = [n \in Slots |-> IF n \in Pair THEN node ELSE parent[n]]
      /\ left'  = [left EXCEPT ![node] = index1]
      /\ right' = [right EXCEPT ![node] = index2]
      /\ rates' = MergedRates
      /\ node' = node + 1
      /\ root' = IF index2 = None THEN node ELSE root
      /\ pc'   = IF index2 = None THEN "done" ELSE "skip"
      /\ UNCHANGED <<hstart, freqs, start, j, rate1, rate2, index1, index2>>
    BY DEF Merge, FoundOne
<1>2. /\ Building /\ Growing /\ root = None
      /\ Cardinality(Active) + node = Cardinality(Used) + K
    BY <1>1 DEF Building, Growing, IInv, ActiveInv
<1>3. node \in K .. 2*K-1 /\ node \in Slots /\ node # None /\ node \notin Symbols
    BY KAssumption, <1>2, NodeBound DEF Slots, Symbols, None
<1>4. \A i \in Active : /\ i \in Slots /\ i # None /\ i < node /\ start <= i
                        /\ rates[i] \in Nat \ {0}
    BY <1>2 DEF IInv, TypeOK, ActiveInv, Active, Slots, None
<1>5. /\ index1 \in Active /\ rate1 = rates[index1]
      /\ index2 = None => Active = {index1} /\ rate2 = 0
      /\ index2 # None => index2 \in Active /\ index2 # index1 /\ rate2 = rates[index2]
    BY <1>1, <1>4 DEF IInv, ScanInv
<1>6. /\ Pair \subseteq Active /\ index1 \in Pair /\ node \notin Active
      /\ Pair = IF index2 = None THEN {index1} ELSE {index1, index2}
    <2>1. node \notin Active
        BY <1>3, <1>4 DEF Slots
    <2> QED  BY <1>1, <1>5, <2>1 DEF Pair
<1>7. \A i \in Slots : rates'[i] = IF i \in Pair THEN 0
                                   ELSE IF i = node THEN rate1 + rate2 ELSE rates[i]
    BY <1>1 DEF MergedRates
<1>8. rate1 + rate2 \in Nat \ {0}
    BY <1>4, <1>5
<1>9. Active' = (Active \ Pair) \cup {node}
    BY <1>3, <1>6, <1>7, <1>8 DEF Active
<1>10. Used' = Used /\ Merged' = Merged \cup {node} /\ node \notin Merged
    BY <1>1, <1>3, NodeBound DEF Used, Merged
<1>11. Picked' = Picked \cup (Pair \cap Symbols)
    <2>1. Pair \cap Symbols \subseteq Used
        BY <1>2, <1>6 DEF IInv, NodesInv
    <2>2. \A s \in Used : s \in Slots /\ s # node
        BY KAssumption, <1>3 DEF Used, Symbols, Slots
    <2>3. \A s \in Used : rates'[s] = 0 <=> rates[s] = 0 \/ s \in Pair
        BY <1>6, <1>7, <2>2
    <2>4. Pair \cap Symbols = Pair \cap Used
        BY <2>1 DEF Used
    <2> QED  BY <1>10, <2>3, <2>4 DEF Picked
<1>12. TypeOK'
    <2>1. rates' \in [Slots -> Nat]
        BY <1>1, <1>8 DEF MergedRates, IInv, TypeOK
    <2>2. Pair \subseteq Slots
        BY <1>4, <1>6
    <2>3. /\ parent' \in [Slots -> Slots \cup {None}]
          /\ left' \in [Slots -> Slots \cup {None}]
          /\ right' \in [Slots -> Slots \cup {None}]
        BY <1>1, <1>3 DEF IInv, TypeOK
    <2>4. node' \in K .. 2*K /\ live' \subseteq Slots /\ leaves' \subseteq Symbols
        BY KAssumption, <1>1, <1>3, <2>2 DEF IInv, TypeOK
    <2> QED  BY <1>1, <1>3, <2>1, <2>3, <2>4 DEF IInv, TypeOK
<1>13. ActiveInv'
    <2>1. CASE index2 = None
        <3>1. Active = {index1} /\ Active' = {node}
            BY <1>5, <1>6, <1>9, <2>1
        <3>2. Cardinality(Active) = 1
            BY <3>1, FS_Singleton
        <3>3. node' = Cardinality(Used') + K /\ node'-1 = node
            BY <1>1, <1>2, <1>3, <1>10, <3>2, FiniteSlots
        <3>4. right'[node] = None
            BY <1>1, <1>3, <2>1 DEF IInv, TypeOK
        <3> QED  BY <1>1, <2>1, <3>1, <3>3, <3>4 DEF ActiveInv, Building
    <2>2. CASE index2 # None
        <3>1. Active' = ((Active \ {index1}) \ {index2}) \cup {node}
            BY <1>6, <1>9, <2>2
        <3>2. Cardinality(Active') = Cardinality(Active) - 1
            <4> DEFINE A1 == Active \ {index1}
                       A2 == A1 \ {index2}
            <4>1. IsFiniteSet(A1) /\ Cardinality(A1) = Cardinality(Active) - 1
                BY <1>5, FiniteSlots, FS_RemoveElement
            <4>2. IsFiniteSet(A2) /\ Cardinality(A2) = Cardinality(A1) - 1
                <5>1. index2 \in A1
                    BY <1>5, <2>2
                <5> HIDE DEF A1
                <5> QED  BY <4>1, <5>1, FS_RemoveElement
            <4>3. Cardinality(A2 \cup {node}) = Cardinality(A2) + 1
                <5>1. node \notin A2
                    BY <1>6
                <5> HIDE DEF A2
                <5> QED  BY <4>2, <5>1, FS_AddElement
            <4>4. Active' = A2 \cup {node}
                BY <3>1
            <4> HIDE DEF A1, A2
            <4> QED  BY <4>1, <4>2, <4>3, <4>4, FiniteSlots
        <3>3. \A i \in Active' : start' <= i /\ i < node'
            <4>1. start \in Int /\ node \in Int /\ start <= node
                BY <1>1, <1>3 DEF IInv, TypeOK, ScanInv
            <4> QED  BY <1>1, <1>4, <1>9, <4>1 DEF Slots
        <3> QED  BY <1>1, <1>2, <1>3, <1>9, <1>10, <2>2, <3>2, <3>3, FiniteSlots
                 DEF ActiveInv, Building
    <2> QED  BY <2>1, <2>2
<1>14. HistogramInv' /\ BareInv' /\ ScanInv'
    <2>1. Used # {}
        BY KAssumption, <1>2, <1>3, <1>5, FiniteSlots, FS_EmptySet
    <2> QED  BY <1>1, <1>10, <2>1 DEF HistogramInv, BareInv, Bare, ScanInv
<1>15. NodesInv'
    <2>1. Active' \cap Symbols \subseteq Used'
        BY <1>2, <1>3, <1>9, <1>10 DEF IInv, NodesInv
    <2>2. leaves' = Picked' /\ live = Picked \cup Merged
        BY <1>1, <1>2, <1>11 DEF IInv, NodesInv
    <2>3. Pair \subseteq Picked' \cup Merged
        BY KAssumption, <1>3, <1>4, <1>6, <1>11 DEF Symbols, Slots, Merged
    <2>4. live' = Picked' \cup Merged'
        BY <1>1, <1>10, <1>11, <2>2, <2>3
    <2> QED  BY <2>1, <2>2, <2>4 DEF NodesInv
<1>16. PointersInv'
    <2>1. /\ \A n \in Slots : n \notin live => parent[n] = None
          /\ \A n \in Slots : n \notin Merged => left[n] = None /\ right[n] = None
          /\ \A n \in Merged : left[n] # None /\ left[n] # right[n]
          /\ \A n \in live : parent[n] = None <=> n \in Active
          /\ \A n \in live : parent[n] # None =>
                /\ parent[n] \in Merged /\ n < parent[n]
                /\ left[parent[n]] = n \/ right[parent[n]] = n
          /\ \A n \in Merged :
                /\ left[n] \in live /\ parent[left[n]] = n
                /\ right[n] # None => right[n] \in live /\ parent[right[n]] = n
        BY <1>2 DEF IInv, PointersInv
    <2>2. live \subseteq Slots /\ Merged \subseteq Slots /\ live' \subseteq Slots
        <3>1. live \subseteq Slots /\ live' \subseteq Slots
            BY <1>12 DEF IInv, TypeOK
        <3>2. Merged \subseteq Slots
            BY KAssumption, <1>3 DEF Merged, Slots
        <3> QED  BY <3>1, <3>2
    <2>3. \A n \in Slots : parent'[n] = IF n \in Pair THEN node ELSE parent[n]
        BY <1>1
    <2>4. \A n \in Slots : /\ left'[n] = IF n = node THEN index1 ELSE left[n]
                           /\ right'[n] = IF n = node THEN index2 ELSE right[n]
        BY <1>1 DEF IInv, TypeOK
    <2>5. \A n \in Pair : n \in Slots /\ n < node /\ parent[n] = None /\ n # None
        BY <1>4, <1>6, <2>1
    <2>6. node \notin live /\ parent[node] = None
        <3>1. node \notin live
            BY <1>2, <1>3, <1>10 DEF IInv, NodesInv, Picked, Used
        <3> QED  BY <1>3, <2>1, <3>1
    <2>7. \A n \in Slots : n \notin live' => parent'[n] = None
        BY <1>1, <2>1, <2>3
    <2>8. \A n \in Slots : n \notin Merged' => left'[n] = None /\ right'[n] = None
        BY <1>10, <2>1, <2>4
    <2>9. \A n \in Merged' : left'[n] # None /\ left'[n] # right'[n]
        BY <1>3, <1>5, <1>4, <1>10, <2>1, <2>2, <2>4
    <2>10. \A n \in live' : parent'[n] = None <=> n \in Active'
        BY <1>1, <1>3, <1>6, <1>9, <2>1, <2>2, <2>3, <2>5, <2>6
    <2>11. ASSUME NEW n \in live', parent'[n] # None
           PROVE  /\ parent'[n] \in Merged' /\ n < parent'[n]
                  /\ left'[parent'[n]] = n \/ right'[parent'[n]] = n
        <3>1. CASE n \in Pair
            BY <1>3, <1>6, <1>10, <2>2, <2>3, <2>4, <2>5, <3>1
        <3>2. CASE n \notin Pair
            <4>1. n \in live /\ parent'[n] = parent[n] /\ parent[n] # None
                BY <1>1, <2>2, <2>3, <2>6, <2>11, <3>2
            <4>2. parent[n] \in Merged /\ parent[n] # node
                BY <1>10, <2>1, <4>1
            <4> QED  BY <1>10, <2>1, <2>2, <2>4, <4>1, <4>2
        <3> QED  BY <3>1, <3>2
    <2>12. ASSUME NEW n \in Merged'
           PROVE  /\ left'[n] \in live' /\ parent'[left'[n]] = n
                  /\ right'[n] # None => right'[n] \in live' /\ parent'[right'[n]] = n
        <3>1. CASE n = node
            BY <1>1, <1>3, <1>6, <2>3, <2>4, <2>5, <3>1
        <3>2. CASE n # node
            <4>1. /\ n \in Merged /\ n # None
                  /\ left'[n] = left[n] /\ right'[n] = right[n]
                <5>1. n \in Merged /\ n \in Slots
                    BY <1>10, <2>2, <3>2
                <5>2. n # None
                    BY <5>1 DEF Slots, None
                <5> QED  BY <2>4, <3>2, <5>1, <5>2
            <4>2. left[n] \notin Pair
                BY <2>1, <2>5, <4>1
            <4>3. right[n] # None => right[n] \notin Pair
                BY <2>1, <2>5, <4>1
            <4> QED  BY <1>1, <2>1, <2>2, <2>3, <4>1, <4>2, <4>3
        <3> QED  BY <3>1, <3>2
    <2> QED  BY <2>7, <2>8, <2>9, <2>10, <2>11, <2>12 DEF PointersInv
<1> QED  BY <1>12, <1>13, <1>14, <1>15, <1>16 DEF IInv

LEMMA StutterInv ==
    ASSUME IInv, UNCHANGED vars
    PROVE  IInv'
PROOF
<1> USE DEF vars
<1>1. Active' = Active /\ Used' = Used /\ Merged' = Merged /\ Picked' = Picked
    BY DEF Active, Used, Merged, Picked
<1>2. TypeOK' /\ HistogramInv' /\ BareInv'
    BY <1>1 DEF IInv, TypeOK, HistogramInv, BareInv, Bare
<1>3. ActiveInv' /\ NodesInv' /\ PointersInv' /\ ScanInv'
    BY <1>1 DEF IInv, ActiveInv, NodesInv, PointersInv, ScanInv, Growing, Building
<1> QED  BY <1>2, <1>3 DEF IInv

LEMMA Invariance == Spec => []IInv
PROOF
<1>1. IInv /\ [Next]_vars => IInv'
    <2> SUFFICES ASSUME IInv, [Next]_vars PROVE IInv'
        OBVIOUS
    <2>1. CASE \E counts \in [Symbols -> Counts] : Populate(counts)
        BY <2>1, PopulateInv
    <2>2. CASE Enter
        BY <2>2, EnterInv
    <2>3. CASE SkipZero
        BY <2>3, SkipZeroInv
    <2>4. CASE BeginScan
        BY <2>4, BeginScanInv
    <2>5. CASE ScanSlot
        BY <2>5, ScanSlotInv
    <2>6. CASE Merge
        BY <2>6, MergeInv
    <2>7. CASE MergeFails
        BY <2>7, MergeFailsInv
    <2>8. CASE NextBlock
        BY <2>8, TakeDownInv DEF NextBlock
    <2>9. CASE Release
        BY <2>9, TakeDownInv DEF Release
    <2>10. CASE UNCHANGED vars
        BY <2>10, StutterInv
    <2> QED  BY <2>1, <2>2, <2>3, <2>4, <2>5, <2>6, <2>7, <2>8, <2>9, <2>10
             DEF Next, Build
<1> QED  BY InitInv, <1>1, PTL DEF Spec

-----------------------------------------------------------------------------
(* Sums of the entries of an array.                                        *)

(* The partial sums of the first n entries of f, with which Sum computes.  *)
PartialSums(f, n, g) ==
    /\ g \in [0..n -> Nat] /\ g[0] = 0
    /\ \A k \in 1..n : g[k] = g[k-1] + f[k-1]
    /\ Weight(f, n) = g[n]

LEMMA SumRecursion ==
    ASSUME NEW n \in Nat, NEW f, \A i \in 0..n-1 : f[i] \in Nat
    PROVE  \E g : PartialSums(f, n, g)
PROOF
<1> DEFINE next == [k \in 1..n |-> [s \in Nat |-> s + f[k-1]]]
           upto == CHOOSE g : g = [k \in 0..n |-> IF k = 0 THEN 0 ELSE g[k-1] + f[k-1]]
<1>1. next \in [1..n -> [Nat -> Nat]]
    <2>1. ASSUME NEW k \in 1..n, NEW s \in Nat PROVE s + f[k-1] \in Nat
        <3>1. k-1 \in 0..n-1
            OBVIOUS
        <3> QED  BY <3>1
    <2> QED  BY <2>1
<1>2. PICK g \in [0..n -> Nat] : g[0] = 0 /\ \A k \in 1..n : g[k] = next[k][g[k-1]]
    <2> HIDE DEF next
    <2>1. 0 \in Nat
        OBVIOUS
    <2>2. Solutions(n, Nat, 0, next) # {}
        BY <1>1, <2>1, Recursion
    <2> QED  BY <2>2 DEF Solutions
<1>3. ASSUME NEW k \in 1..n PROVE g[k] = g[k-1] + f[k-1]
    <2>1. g[k-1] \in Nat
        OBVIOUS
    <2> QED  BY <1>2, <2>1
<1> HIDE DEF next
<1> DEFINE At(h, k) == IF k = 0 THEN 0 ELSE h[k-1] + f[k-1]
           Step(h)  == [k \in 0..n |-> At(h, k)]
<1>4. g = Step(g)
    <2>1. \A k \in 0..n : g[k] = At(g, k)
        <3>1. ASSUME NEW k \in 0..n PROVE k = 0 \/ k \in 1..n
            OBVIOUS
        <3> QED  BY <1>2, <1>3, <3>1
    <2>2. g = [k \in 0..n |-> g[k]]
        OBVIOUS
    <2> DEFINE F == Step(g)
    <2>3. F = [k \in 0..n |-> F[k]] /\ \A k \in 0..n : F[k] = At(g, k)
        <3> HIDE DEF At
        <3> QED  OBVIOUS
    <2> HIDE DEF F, At
    <2>4. F = g
        BY <2>1, <2>2, <2>3
    <2> QED  BY <2>4 DEF F
<1>5. upto = Step(upto)
    <2>1. upto = CHOOSE h : h = Step(h)
        OBVIOUS
    <2> HIDE DEF upto, Step
    <2> QED  BY <2>1, <1>4
<1>6. Weight(f, n) = upto[n]
    BY DEF Weight
<1> HIDE DEF upto
<1>7. \A k \in 0..n : upto[k] = IF k = 0 THEN 0 ELSE upto[k-1] + f[k-1]
    <2> DEFINE F == Step(upto)
    <2>1. \A k \in 0..n : F[k] = IF k = 0 THEN 0 ELSE upto[k-1] + f[k-1]
        OBVIOUS
    <2> HIDE DEF F
    <2>2. upto = F
        BY <1>5 DEF F
    <2> QED  BY <2>1, <2>2
<1> DEFINE T == {k \in 0..n : upto[k] = g[k]}
<1>8. 0..n \subseteq T
    <2>1. 0 \in T
        BY <1>2, <1>7
    <2>2. ASSUME NEW k \in 1..n, k-1 \in T PROVE k \in T
        BY <1>3, <1>7, <2>2
    <2> HIDE DEF T
    <2> QED  BY <2>1, <2>2, BoundedInduction
<1>9. upto[n] = g[n]
    <2>1. n \in T
        BY <1>8
    <2> QED  BY <2>1
<1> QED  BY <1>2, <1>3, <1>6, <1>9 DEF PartialSums

(* Entries past the first m that are 0 do not count.                       *)
LEMMA SumOfPrefix ==
    ASSUME NEW n \in Nat, NEW m \in 0..n, NEW f, NEW h,
           \A i \in 0..m-1 : f[i] \in Nat /\ h[i] = f[i],
           \A i \in m..n-1 : f[i] = 0
    PROVE  Weight(f, n) = Weight(h, m)
PROOF
<1>1. PICK a : PartialSums(f, n, a)
    <2>1. \A i \in 0..n-1 : f[i] \in Nat
        OBVIOUS
    <2> QED  BY <2>1, SumRecursion
<1>2. PICK b : PartialSums(h, m, b)
    <2>1. m \in Nat /\ \A i \in 0..m-1 : h[i] \in Nat
        OBVIOUS
    <2> QED  BY <2>1, SumRecursion
<1>3. /\ a \in [0..n -> Nat] /\ a[0] = 0 /\ \A k \in 1..n : a[k] = a[k-1] + f[k-1]
      /\ b \in [0..m -> Nat] /\ b[0] = 0 /\ \A k \in 1..m : b[k] = b[k-1] + h[k-1]
      /\ Weight(f, n) = a[n] /\ Weight(h, m) = b[m]
    BY <1>1, <1>2 DEF PartialSums
<1> DEFINE T == {k \in 0..n : a[k] = b[IF k <= m THEN k ELSE m]}
<1>4. 0 \in T
    BY <1>3
<1>5. ASSUME NEW k \in 1..n, k-1 \in T PROVE k \in T
    <2>1. CASE k <= m
        <3>1. k \in 1..m /\ k-1 \in 0..m-1 /\ a[k-1] = b[k-1]
            BY <1>5, <2>1
        <3> QED  BY <1>3, <2>1, <3>1
    <2>2. CASE ~ (k <= m)
        <3>1. k-1 \in m..n-1 /\ a[k-1] = b[m]
            BY <1>5, <2>2
        <3>2. f[k-1] = 0
            BY <3>1
        <3>3. a[k-1] \in Nat /\ a[k] = a[k-1] + 0
            BY <1>3, <3>2
        <3> QED  BY <2>2, <3>1, <3>3
    <2> QED  BY <2>1, <2>2
<1>6. n \in T
    <2> HIDE DEF T
    <2> QED  BY <1>4, <1>5, BoundedInduction
<1>7. a[n] = b[m]
    BY <1>6
<1> QED  BY <1>3, <1>7

(* What the sum becomes when the entry m changes.                          *)
LEMMA SumOfChange ==
    ASSUME NEW n \in Nat, NEW m \in 0..n-1, NEW f, NEW h,
           \A i \in 0..n-1 : f[i] \in Nat /\ h[i] \in Nat,
           \A i \in 0..n-1 : i # m => h[i] = f[i]
    PROVE  /\ Weight(f, n) \in Nat /\ Weight(h, n) \in Nat
           /\ Weight(h, n) + f[m] = Weight(f, n) + h[m]
PROOF
<1>1. PICK a : PartialSums(f, n, a)
    BY SumRecursion
<1>2. PICK b : PartialSums(h, n, b)
    BY SumRecursion
<1>3. /\ a \in [0..n -> Nat] /\ a[0] = 0 /\ \A k \in 1..n : a[k] = a[k-1] + f[k-1]
      /\ b \in [0..n -> Nat] /\ b[0] = 0 /\ \A k \in 1..n : b[k] = b[k-1] + h[k-1]
      /\ Weight(f, n) = a[n] /\ Weight(h, n) = b[n]
    BY <1>1, <1>2 DEF PartialSums
<1> DEFINE T == {k \in 0..n : IF k <= m THEN b[k] = a[k] ELSE b[k] + f[m] = a[k] + h[m]}
<1>4. 0 \in T
    BY <1>3
<1>5. ASSUME NEW k \in 1..n, k-1 \in T PROVE k \in T
    <2>1. /\ k-1 \in 0..n-1 /\ a[k-1] \in Nat /\ b[k-1] \in Nat
          /\ f[k-1] \in Nat /\ h[k-1] \in Nat /\ f[m] \in Nat /\ h[m] \in Nat
          /\ a[k] = a[k-1] + f[k-1] /\ b[k] = b[k-1] + h[k-1]
        BY <1>3
    <2>2. IF k-1 <= m THEN b[k-1] = a[k-1] ELSE b[k-1] + f[m] = a[k-1] + h[m]
        BY <1>5
    <2>3. k-1 # m => h[k-1] = f[k-1]
        BY <2>1
    <2>4. CASE k-1 = m
        BY <2>1, <2>2, <2>4
    <2>5. CASE k-1 # m
        BY <2>1, <2>2, <2>3, <2>5
    <2> QED  BY <2>4, <2>5
<1>6. n \in T
    <2> HIDE DEF T
    <2> QED  BY <1>4, <1>5, BoundedInduction
<1>7. b[n] + f[m] = a[n] + h[m]
    BY <1>6
<1> QED  BY <1>3, <1>7

-----------------------------------------------------------------------------
(* The weight of the block.                                                *)

(* A change of one slot, seen in the weight of all of them.                *)
LEMMA SlotChange ==
    ASSUME NEW f \in [Slots -> Nat], NEW h \in [Slots -> Nat], NEW m \in Slots,
           \A i \in Slots : i # m => h[i] = f[i]
    PROVE  /\ Weight(f, 2*K) \in Nat /\ Weight(h, 2*K) \in Nat
           /\ Weight(h, 2*K) + f[m] = Weight(f, 2*K) + h[m]
PROOF
<1>1. PICK n \in Nat : n = 2*K
    BY KAssumption
<1>2. Slots = 0 .. n-1
    BY <1>1 DEF Slots
<1>3. m \in 0 .. n-1 /\ \A i \in 0 .. n-1 : f[i] \in Nat /\ h[i] \in Nat
    BY <1>2
<1>4. \A i \in 0 .. n-1 : i # m => h[i] = f[i]
    BY <1>2
<1>5. /\ Weight(f, n) \in Nat /\ Weight(h, n) \in Nat
      /\ Weight(h, n) + f[m] = Weight(f, n) + h[m]
    BY <1>3, <1>4, SumOfChange
<1> QED  BY <1>1, <1>5

(* A merge moves the weights of its pair to the merged node.               *)
LEMMA MergeConserves ==
    ASSUME IInv, Merge
    PROVE  Weight(rates', 2*K) = Weight(rates, 2*K)
PROOF
<1>1. /\ rates' = MergedRates /\ pc = "scan" /\ j = node /\ index1 # None
    BY DEF Merge
<1>2. node \in Slots /\ node \in Nat
    BY KAssumption, <1>1, NodeBound DEF Building, Slots
<1>3. rates \in [Slots -> Nat] /\ rates[node] = 0
    BY <1>1, <1>2 DEF IInv, TypeOK, ActiveInv, Active, Building
<1>4. /\ index1 \in Active /\ index1 < node /\ rate1 = rates[index1]
      /\ index2 = None => rate2 = 0
      /\ index2 # None => /\ index2 \in Active /\ index2 < node
                          /\ index2 # index1 /\ rate2 = rates[index2]
    BY <1>1 DEF IInv, ScanInv
<1>5. Active \subseteq Slots /\ None \notin Slots /\ Slots = 0 .. 2*K-1 /\ 2*K \in Nat
    BY KAssumption DEF Active, Slots, None
<1>6. rate1 \in Nat /\ rate2 \in Nat
    BY DEF IInv, TypeOK
<1> DEFINE h1 == [rates EXCEPT ![index1] = 0]
           h2 == [h1 EXCEPT ![index2] = 0]
           h3 == [i \in Slots |-> IF i = node THEN rate1 + rate2 ELSE h2[i]]
<1>7. /\ h1 \in [Slots -> Nat] /\ h1[index1] = 0
      /\ \A i \in Slots : i # index1 => h1[i] = rates[i]
    BY <1>3, <1>4, <1>5
<1> HIDE DEF h1
<1>8. Weight(rates, 2*K) \in Nat /\ Weight(h1, 2*K) \in Nat
      /\ Weight(h1, 2*K) + rate1 = Weight(rates, 2*K)
    <2>1. index1 \in Slots
        BY <1>4, <1>5
    <2>2. /\ Weight(rates, 2*K) \in Nat /\ Weight(h1, 2*K) \in Nat
          /\ Weight(h1, 2*K) + rates[index1] = Weight(rates, 2*K) + h1[index1]
        BY <1>3, <1>7, <2>1, SlotChange
    <2> QED  BY <1>4, <1>7, <2>2
<1>9. /\ h2 \in [Slots -> Nat] /\ h2[node] = 0
      /\ \A i \in Slots : h2[i] = IF i \in Pair THEN 0 ELSE rates[i]
    <2>1. h2 \in [Slots -> Nat] /\ \A i \in Slots : h2[i] = IF i = index2 THEN 0 ELSE h1[i]
        BY <1>7
    <2>2. \A i \in Slots : i \in Pair <=> i = index1 \/ i = index2
        BY <1>5 DEF Pair
    <2> HIDE DEF h2
    <2>3. \A i \in Slots : h2[i] = IF i \in Pair THEN 0 ELSE rates[i]
        BY <1>7, <2>1, <2>2
    <2> QED  BY <1>2, <1>3, <2>1, <2>3
<1>10. Weight(h2, 2*K) \in Nat /\ Weight(h2, 2*K) + rate2 = Weight(h1, 2*K)
    <2>1. CASE index2 = None
        <3>1. h2 = h1
            BY <1>5, <1>7, <2>1
        <3> QED  BY <1>4, <1>8, <2>1, <3>1
    <2>2. CASE index2 # None
        <3>1. index2 \in Slots /\ h2[index2] = 0 /\ h1[index2] = rate2
            BY <1>4, <1>5, <1>7, <2>2
        <3>2. \A i \in Slots : i # index2 => h2[i] = h1[i]
            BY <1>7
        <3> HIDE DEF h2
        <3>3. /\ Weight(h1, 2*K) \in Nat /\ Weight(h2, 2*K) \in Nat
              /\ Weight(h2, 2*K) + h1[index2] = Weight(h1, 2*K) + h2[index2]
            BY <1>7, <1>9, <3>1, <3>2, SlotChange
        <3> QED  BY <1>6, <3>1, <3>3
    <2> QED  BY <2>1, <2>2
<1> HIDE DEF h2
<1>11. h3 \in [Slots -> Nat] /\ h3[node] = rate1 + rate2
       /\ \A i \in Slots : i # node => h3[i] = h2[i]
    BY <1>2, <1>6, <1>9
<1>12. rates' = h3
    <2>1. \A i \in Slots : MergedRates[i] = h3[i]
        <3>1. node \notin Pair
            BY <1>2, <1>3, <1>4, <1>5 DEF Pair, Active
        <3> QED  BY <1>9, <3>1 DEF MergedRates
    <2>2. MergedRates = [i \in Slots |-> MergedRates[i]]
        BY DEF MergedRates
    <2> HIDE DEF h3
    <2>3. h3 = [i \in Slots |-> h3[i]]
        BY <1>11
    <2> QED  BY <1>1, <2>1, <2>2, <2>3
<1> HIDE DEF h3
<1>13. Weight(h3, 2*K) = Weight(h2, 2*K) + (rate1 + rate2)
    <2>1. /\ Weight(h2, 2*K) \in Nat /\ Weight(h3, 2*K) \in Nat
          /\ Weight(h3, 2*K) + h2[node] = Weight(h2, 2*K) + h3[node]
        BY <1>2, <1>9, <1>11, SlotChange
    <2> QED  BY <1>6, <1>9, <1>11, <2>1
<1> QED  BY <1>6, <1>8, <1>10, <1>12, <1>13

LEMMA ConservationStep ==
    ASSUME IInv, WeightConserved, [Next]_vars
    PROVE  WeightConserved'
PROOF
<1> USE DEF WeightConserved
<1>1. ASSUME NEW counts \in [Symbols -> Counts], Populate(counts)
      PROVE  WeightConserved'
    <2>1. /\ pc = "idle" /\ freqs' = counts
          /\ rates' = [i \in Slots |-> IF i \in Symbols THEN rates[i] + counts[i]
                                                        ELSE rates[i]]
          /\ \A i \in Slots : rates[i] = 0
        BY <1>1 DEF Populate, IInv, HistogramInv
    <2>2. counts \in [Symbols -> Nat]
        BY CountsAssumption
    <2>3. PICK n \in Nat : n = 2*K /\ K \in 0..n
        BY KAssumption
    <2>4. \A i \in 0..K-1 : rates'[i] \in Nat /\ freqs'[i] = rates'[i]
        BY KAssumption, <2>1, <2>2 DEF Slots, Symbols
    <2>5. \A i \in K..n-1 : rates'[i] = 0
        BY <2>1, <2>3 DEF Slots, Symbols
    <2>6. Weight(rates', n) = Weight(freqs', K)
        BY <2>3, <2>4, <2>5, SumOfPrefix
    <2> QED  BY <2>3, <2>6
<1>2. CASE Enter \/ SkipZero \/ BeginScan \/ ScanSlot \/ UNCHANGED vars
    <2>1. UNCHANGED <<rates, freqs>>
        BY <1>2 DEF Enter, SkipZero, BeginScan, ScanSlot, histVars, vars
    <2>2. pc \in {"call", "skip", "scan", "done"} \/ pc' = pc
        BY <1>2 DEF Enter, SkipZero, BeginScan, ScanSlot, vars
    <2> QED  BY <2>1, <2>2
<1>3. CASE Merge
    <2>1. freqs' = freqs /\ pc = "scan"
        BY <1>3 DEF Merge
    <2> QED  BY <1>3, <2>1, MergeConserves
<1>4. CASE MergeFails \/ NextBlock \/ Release
    BY <1>4 DEF MergeFails, NextBlock, Release, TakeDown
<1> QED  BY <1>1, <1>2, <1>3, <1>4 DEF Next, Build

-----------------------------------------------------------------------------
(* The tree of the loop is the tree of the declarative definition.         *)

(* What the first turns of the loop leave, each from what the turn before  *)
(* it left.                                                                *)
LEMMA MergedStep ==
    ASSUME NEW weights
    PROVE  /\ Code!Merged(weights, 0) = [tree |-> Code!NoTree, rates |-> weights]
           /\ \A n \in Nat :
                 Code!Merged(weights, n+1) = IF Code!Merged(weights, n).tree.root = Code!None
                                        THEN Code!Merge(Code!Merged(weights, n))
                                        ELSE Code!Merged(weights, n)
PROOF
<1> DEFINE First     == [tree |-> Code!NoTree, rates |-> weights]
           After(w)  == IF w.tree.root = Code!None THEN Code!Merge(w) ELSE w
           At(g, k)  == IF k = 0 THEN First ELSE After(g[k-1])
           Step(g, n) == [k \in 0..n |-> At(g, k)]
           step(n)   == CHOOSE g : g = Step(g, n)
<1>1. ASSUME NEW n \in Nat PROVE Code!Merged(weights, n) = step(n)[n]
    BY DEF Code!Merged
<1> HIDE DEF First, After
<1>2. ASSUME NEW N \in Nat PROVE \E g : g = Step(g, N)
    <2> DEFINE T == {n \in 0..N : \E g : g = Step(g, n)}
    <2>1. 0 \in T
        <3> DEFINE g == [k \in 0..0 |-> First]
        <3>1. g = Step(g, 0)
            <4>1. \A k \in 0..0 : k = 0
                OBVIOUS
            <4> QED  BY <4>1
        <3> HIDE DEF g, Step
        <3> QED  BY <3>1
    <2>2. ASSUME NEW n \in 1..N, n - 1 \in T PROVE n \in T
        <3>1. PICK g : g = Step(g, n-1)
            BY <2>2
        <3>2. \A k \in 0..n-1 : g[k] = At(g, k)
            <4> HIDE DEF At
            <4> QED  BY <3>1
        <3> DEFINE h == [k \in 0..n |-> IF k = n THEN After(g[n-1]) ELSE g[k]]
        <3>3. \A k \in 0..n-1 : h[k] = g[k]
            OBVIOUS
        <3>4. h[n] = After(g[n-1]) /\ n - 1 \in 0..n-1 /\ n # 0
            OBVIOUS
        <3>5. h = [k \in 0..n |-> h[k]]
            OBVIOUS
        <3> HIDE DEF h
        <3>6. ASSUME NEW k \in 0..n PROVE h[k] = At(h, k)
            <4>1. CASE k = n
                BY <3>3, <3>4, <4>1
            <4>2. CASE k = 0
                <5>1. 0 \in 0..n-1
                    OBVIOUS
                <5> QED  BY <3>2, <3>3, <4>2, <5>1
            <4>3. CASE k # n /\ k # 0
                <5>1. k \in 0..n-1 /\ k-1 \in 0..n-1
                    BY <4>3
                <5> QED  BY <3>2, <3>3, <4>3, <5>1
            <4> QED  BY <4>1, <4>2, <4>3
        <3>7. h = Step(h, n)
            <4> HIDE DEF At
            <4> QED  BY <3>5, <3>6
        <3> QED  BY <3>7
    <2>3. N \in T
        <3> HIDE DEF T
        <3>1. 0..N \subseteq T
            BY <2>1, <2>2, BoundedInduction
        <3> QED  BY <3>1
    <2> QED  BY <2>3
<1>3. ASSUME NEW n \in Nat PROVE \A k \in 0..n : step(n)[k] = At(step(n), k)
    <2> DEFINE g == step(n)
    <2>1. g = Step(g, n)
        <3> HIDE DEF Step
        <3> QED  BY <1>2
    <2> HIDE DEF g, At
    <2>2. \A k \in 0..n : g[k] = At(g, k)
        BY <2>1
    <2> QED  BY <2>2 DEF g
<1>4. ASSUME NEW n \in Nat PROVE step(n+1)[n] = step(n)[n]
    <2> DEFINE f == step(n)
               g == step(n+1)
               T == {k \in 0..n : f[k] = g[k]}
    <2>1. (\A k \in 0..n : f[k] = At(f, k)) /\ \A k \in 0..n : g[k] = At(g, k)
        <3>1. n + 1 \in Nat /\ \A k \in 0..n : k \in 0..n+1
            OBVIOUS
        <3> HIDE DEF At, Step
        <3> QED  BY <1>3, <3>1
    <2> HIDE DEF f, g
    <2>2. 0 \in T
        BY <2>1
    <2>3. ASSUME NEW k \in 1..n, k - 1 \in T PROVE k \in T
        <3>1. k \in 0..n /\ k # 0 /\ f[k-1] = g[k-1]
            BY <2>3
        <3> QED  BY <2>1, <3>1
    <2>4. n \in T
        <3> HIDE DEF T
        <3>1. 0..n \subseteq T
            BY <2>2, <2>3, BoundedInduction
        <3> QED  BY <3>1
    <2> QED  BY <2>4 DEF f, g
<1>5. Code!Merged(weights, 0) = First
    <2>1. 0 \in Nat /\ 0 \in 0..0
        OBVIOUS
    <2> DEFINE g == step(0)
    <2>2. g[0] = At(g, 0)
        <3> HIDE DEF At, Step
        <3> QED  BY <1>3, <2>1
    <2>3. Code!Merged(weights, 0) = g[0]
        BY <1>1, <2>1
    <2> HIDE DEF g
    <2> QED  BY <2>2, <2>3
<1>6. ASSUME NEW n \in Nat PROVE Code!Merged(weights, n+1) = After(Code!Merged(weights, n))
    <2>1. n + 1 \in Nat /\ n + 1 \in 0..n+1 /\ n + 1 # 0 /\ (n + 1) - 1 = n
        OBVIOUS
    <2>2. Code!Merged(weights, n+1) = step(n+1)[n+1] /\ Code!Merged(weights, n) = step(n)[n]
        BY <1>1, <2>1
    <2>3. step(n+1)[n+1] = After(step(n+1)[n])
        <3> DEFINE g == step(n+1)
        <3>1. g[n+1] = At(g, n+1)
            <4> HIDE DEF At, Step
            <4> QED  BY <1>3, <2>1
        <3> HIDE DEF g
        <3>2. g[n+1] = After(g[n])
            BY <2>1, <3>1
        <3> QED  BY <3>2 DEF g
    <2> HIDE DEF step
    <2> QED  BY <1>4, <2>2, <2>3
<1> QED  BY <1>5, <1>6 DEF First, After

(* A later turn changes nothing once there is a root.                      *)
LEMMA MergedStays ==
    ASSUME NEW weights, NEW n \in Nat, NEW m \in 0..n,
           Code!Merged(weights, m).tree.root # Code!None
    PROVE  Code!Merged(weights, n) = Code!Merged(weights, m)
PROOF
<1> DEFINE T == {d \in 0 .. n-m : Code!Merged(weights, m + d) = Code!Merged(weights, m)}
<1>1. n - m \in Nat /\ m \in Nat /\ m + 0 = m /\ m + (n - m) = n
    OBVIOUS
<1>2. 0 \in T
    BY <1>1
<1>3. ASSUME NEW d \in 1 .. n-m, d - 1 \in T PROVE d \in T
    <2>1. m + (d-1) \in Nat /\ m + (d-1) + 1 = m + d
        OBVIOUS
    <2>2. Code!Merged(weights, m + (d-1)) = Code!Merged(weights, m)
        BY <1>3
    <2>3. Code!Merged(weights, m + (d-1) + 1) = Code!Merged(weights, m + (d-1))
        <3>1. PICK k \in Nat : k = m + (d-1)
            BY <2>1
        <3>2. Code!Merged(weights, k).tree.root # Code!None
            BY <2>2, <3>1
        <3>3. Code!Merged(weights, k + 1) = Code!Merged(weights, k)
            BY <3>2, MergedStep
        <3> QED  BY <3>1, <3>3
    <2>4. Code!Merged(weights, m + d) = Code!Merged(weights, m)
        BY <2>1, <2>2, <2>3
    <2> QED  BY <2>4
<1>4. n - m \in T
    <2> HIDE DEF T
    <2>1. 0 .. n-m \subseteq T
        BY <1>1, <1>2, <1>3, BoundedInduction
    <2> QED  BY <1>1, <2>1
<1> QED  BY <1>1, <1>4

(* Slot i is the last of the lightest slots of S.                          *)
Latest(S, i) == \A k \in S : rates[i] < rates[k] \/ (rates[i] = rates[k] /\ i >= k)

LEMMA LatestIs ==
    ASSUME TypeOK, NEW S, S \subseteq Slots, NEW i \in S, Latest(S, i)
    PROVE  Code!Lightest(rates, S) = i
PROOF
<1>1. ASSUME NEW k \in S, Latest(S, k) PROVE k = i
    <2>1. PICK a \in Nat, b \in Nat : a = rates[i] /\ b = rates[k]
        BY DEF TypeOK
    <2>2. i \in Int /\ k \in Int
        BY DEF Slots
    <2>3. (a < b \/ (a = b /\ i >= k)) /\ (b < a \/ (b = a /\ k >= i))
        BY <1>1, <2>1 DEF Latest
    <2> QED  BY <2>2, <2>3
<1>2. \A k \in S : (\A l \in S : rates[k] < rates[l] \/ (rates[k] = rates[l] /\ k >= l)) => k = i
    BY <1>1 DEF Latest
<1>3. \A l \in S : rates[i] < rates[l] \/ (rates[i] = rates[l] /\ i >= l)
    BY DEF Latest
<1> QED  BY <1>2, <1>3 DEF Code!Lightest

(* The scan prefers the later one of equal slots.                          *)
TieInv == pc = "scan" =>
    /\ index1 # None => Latest({i \in Active : i < j}, index1)
    /\ index2 # None => Latest({i \in Active \ {index1} : i < j}, index2)

(* The frequencies of the block, in the slots of the byte values.          *)
Block == [i \in Slots |-> IF i \in Used THEN freqs[i] ELSE 0]

(* After each merge there are the tree and the weights that the            *)
(* declarative definition has after as many turns.                         *)
SameInv == Growing =>
    LET work == Code!Merged(Block, node - K)
        t    == work.tree
    IN  /\ rates = work.rates /\ root = t.root /\ leaves = t.leaves /\ node = t.node
        /\ parent = t.parent /\ left = t.left /\ right = t.right

LEMMA SameConstants ==
    Code!None = None /\ Code!Slots = Slots /\ Code!Symbols = Symbols /\ Code!HUF_ASCII_COUNT = K
BY ByteAssumption DEF Code!None, None, Code!Slots, Slots, Code!Symbols, Symbols

LEMMA TieStep ==
    ASSUME IInv, TieInv, [Next]_vars
    PROVE  TieInv'
PROOF
<1> USE DEF histVars, scanVars, treeVars
<1>1. CASE ScanSlot
    <2>1. /\ pc = "scan" /\ j < node /\ j' = j + 1 /\ Inspect(rates[j])
          /\ rates' = rates /\ Active' = Active
        BY <1>1 DEF ScanSlot, Active
    <2>2. node \in K .. 2*K-1
        BY <2>1, NodeBound DEF Building
    <2>3. j \in Slots /\ j \in Nat /\ rates[j] \in Nat /\ (rates[j] # 0 <=> j \in Active)
        BY KAssumption, <2>1, <2>2 DEF IInv, TypeOK, Slots, Active
    <2>4. \A i \in Active : i \in Int /\ i # None /\ rates[i] \in Nat \ {0}
        BY DEF IInv, TypeOK, Active, Slots, None
    <2>5. /\ rate1 \in Nat /\ rate2 \in Nat
          /\ index1 = None => rate1 = 0
          /\ index1 # None => index1 \in Active /\ index1 < j /\ rate1 = rates[index1]
          /\ \A i \in Active : i < j => index1 # None /\ rate1 <= rates[i]
          /\ index2 = None => rate2 = 0
          /\ index2 # None =>
               /\ index1 # None /\ index2 # index1
               /\ index2 \in Active /\ index2 < j /\ rate2 = rates[index2]
          /\ \A i \in Active \ {index1} : i < j => index2 # None /\ rate2 <= rates[i]
        BY <2>1 DEF IInv, ScanInv, TypeOK
    <2>6. /\ index1 # None =>
               \A i \in Active : i < j =>
                  rates[index1] < rates[i] \/ (rates[index1] = rates[i] /\ index1 >= i)
          /\ index2 # None =>
               \A i \in Active \ {index1} : i < j =>
                  rates[index2] < rates[i] \/ (rates[index2] = rates[i] /\ index2 >= i)
        BY <2>1 DEF TieInv, Latest
    <2>7. \A i \in Active : i < j' => i < j \/ i = j
        BY <2>1, <2>3, <2>4
    <2>8. j # None
        BY <2>3 DEF None
    <2> DEFINE Goal == /\ index1' # None =>
                            \A i \in Active : i < j' =>
                               \/ rates[index1'] < rates[i]
                               \/ rates[index1'] = rates[i] /\ index1' >= i
                       /\ index2' # None =>
                            \A i \in Active \ {index1'} : i < j' =>
                               \/ rates[index2'] < rates[i]
                               \/ rates[index2'] = rates[i] /\ index2' >= i
    <2> SUFFICES Goal
        BY <2>1 DEF TieInv, Latest
    <2>9. CASE rates[j] # 0 /\ rate1 = 0
        <3>1. index1' = j /\ index2' = index2
            BY <2>1, <2>3, <2>5, <2>9 DEF Inspect
        <3>2. index1 = None /\ index2 = None
            BY <2>4, <2>5, <2>9
        <3>3. \A i \in Active : i < j' => i = j
            BY <2>5, <2>7, <3>2
        <3> QED  BY <2>3, <3>1, <3>2, <3>3
    <2>10. CASE rates[j] # 0 /\ rate1 # 0 /\ rates[j] <= rate1
        <3>1. index1' = j /\ index2' = index1
            BY <2>1, <2>3, <2>5, <2>10 DEF Inspect
        <3>2. ASSUME NEW i \in Active, i < j'
              PROVE  rates[j] < rates[i] \/ (rates[j] = rates[i] /\ j >= i)
            BY <2>3, <2>4, <2>5, <2>7, <2>10, <3>2
        <3>3. ASSUME NEW i \in Active \ {j}, i < j'
              PROVE  rates[index1] < rates[i] \/ (rates[index1] = rates[i] /\ index1 >= i)
            <4>1. i < j /\ index1 # None
                BY <2>5, <2>7, <3>3
            <4> QED  BY <2>6, <4>1
        <3> QED  BY <3>1, <3>2, <3>3
    <2>11. CASE /\ rate1 # 0 /\ rates[j] > rate1
                /\ rate2 = 0 \/ rates[j] <= rate2
        <3>1. index1' = index1 /\ index2' = j /\ index1 # None
            BY <2>1, <2>3, <2>5, <2>11 DEF Inspect
        <3>2. ASSUME NEW i \in Active, i < j'
              PROVE  \/ rates[index1] < rates[i]
                     \/ rates[index1] = rates[i] /\ index1 >= i
            <4>1. CASE i < j
                BY <2>6, <3>1, <4>1
            <4>2. CASE i = j
                BY <2>5, <2>11, <3>1, <4>2
            <4> QED  BY <2>7, <3>2, <4>1, <4>2
        <3>3. ASSUME NEW i \in Active \ {index1}, i < j'
              PROVE  rates[j] < rates[i] \/ (rates[j] = rates[i] /\ j >= i)
            <4>1. CASE i < j
                <5>1. index2 # None /\ rate2 <= rates[i]
                    BY <2>5, <4>1
                <5>2. rate2 # 0
                    BY <2>4, <2>5, <5>1
                <5> QED  BY <2>3, <2>4, <2>5, <2>11, <4>1, <5>1, <5>2
            <4>2. CASE i = j
                BY <2>3, <4>2
            <4> QED  BY <2>7, <3>3, <4>1, <4>2
        <3> QED  BY <3>1, <3>2, <3>3
    <2>12. CASE \/ rates[j] = 0
                \/ rate1 # 0 /\ rates[j] > rate1 /\ rate2 # 0 /\ rates[j] > rate2
        <3>1. index1' = index1 /\ index2' = index2
            BY <2>1, <2>3, <2>5, <2>12 DEF Inspect
        <3>2. ASSUME NEW i \in Active, i < j', i = j
              PROVE  rates[j] > rates[index1] /\ rates[j] > rates[index2]
            BY <2>3, <2>4, <2>5, <2>12, <3>2
        <3> QED  BY <2>4, <2>5, <2>6, <2>7, <3>1, <3>2
    <2> QED  BY <2>1, <2>3, <2>5, <2>9, <2>10, <2>11, <2>12 DEF Inspect
<1>2. CASE BeginScan
    BY <1>2 DEF BeginScan, TieInv
<1>3. CASE UNCHANGED vars
    BY <1>3 DEF vars, TieInv, Latest, Active
<1>4. CASE ~ ScanSlot /\ ~ BeginScan /\ ~ UNCHANGED vars
    <2>1. pc' # "scan"
        BY <1>4 DEF Next, Build, Populate, Enter, SkipZero, Merge, MergeFails,
                    NextBlock, Release, TakeDown
    <2> QED  BY <2>1 DEF TieInv
<1> QED  BY <1>1, <1>2, <1>3, <1>4

LEMMA SameMerge ==
    ASSUME IInv, TieInv, SameInv, Merge
    PROVE  SameInv'
PROOF
<1> DEFINE m    == node - K
           work == Code!Merged(Block, m)
           t    == work.tree
<1>1. /\ pc = "scan" /\ j = node /\ index1 # None
      /\ leaves' = leaves \cup (Pair \cap Symbols)
      /\ parent' = [n \in Slots |-> IF n \in Pair THEN node ELSE parent[n]]
      /\ left'  = [left EXCEPT ![node] = index1]
      /\ right' = [right EXCEPT ![node] = index2]
      /\ rates' = MergedRates
      /\ node' = node + 1
      /\ root' = IF index2 = None THEN node ELSE root
      /\ freqs' = freqs
    BY DEF Merge, FoundOne
<1>2. /\ Building /\ Growing /\ root = None
      /\ node \in K .. 2*K-1 /\ node \in Slots /\ node # None
    <2>1. Building
        BY <1>1 DEF Building
    <2> QED  BY KAssumption, <2>1, NodeBound DEF IInv, ActiveInv, Growing, Slots, None
<1>3. /\ rates = work.rates /\ root = t.root /\ leaves = t.leaves /\ node = t.node
      /\ parent = t.parent /\ left = t.left /\ right = t.right
    BY <1>2 DEF SameInv
<1>4. /\ TypeOK
      /\ \A i \in Active : i \in Slots /\ i # None /\ i \in Nat /\ i < node
    BY <1>2 DEF IInv, TypeOK, ActiveInv, Active, Slots, None
<1>5. /\ index1 \in Active /\ rate1 = rates[index1]
      /\ index2 = None => Active = {index1} /\ rate2 = 0
      /\ index2 # None => index2 \in Active /\ index2 # index1 /\ rate2 = rates[index2]
    BY <1>1, <1>4 DEF IInv, ScanInv
<1>6. Code!Lightest(rates, Active) = index1
    <2>1. {i \in Active : i < j} = Active
        BY <1>1, <1>4
    <2>2. Latest(Active, index1)
        BY <1>1, <2>1 DEF TieInv
    <2> QED  BY <1>4, <1>5, <2>2, LatestIs
<1>7. index2 # None => Code!Lightest(rates, Active \ {index1}) = index2
    <2>1. SUFFICES ASSUME index2 # None
                   PROVE  Code!Lightest(rates, Active \ {index1}) = index2
        OBVIOUS
    <2>2. {i \in Active \ {index1} : i < j} = Active \ {index1}
        BY <1>1, <1>4
    <2>3. Latest(Active \ {index1}, index2)
        BY <1>1, <2>1, <2>2 DEF TieInv
    <2> QED  BY <1>4, <1>5, <2>1, <2>3, LatestIs
<1>8. {i \in 0 .. node-1 : rates[i] # 0} = Active
    <2>1. \A i \in 0 .. node-1 : i \in Slots
        BY KAssumption, <1>2 DEF Slots
    <2>2. \A i \in Active : i \in 0 .. node-1 /\ rates[i] # 0
        BY <1>2, <1>4 DEF Active
    <2>3. \A i \in Slots : rates[i] # 0 => i \in Active
        BY DEF Active
    <2> QED  BY <2>1, <2>2, <2>3
<1>9. index2 = None <=> Active = {index1}
    BY <1>5
<1>10. Pair = IF index2 = None THEN {index1} ELSE {index1, index2}
    BY <1>1 DEF Pair
<1> DEFINE two    == IF index2 = None THEN index1 ELSE index2
           weight == rates[index1] + (IF index2 = None THEN 0 ELSE rates[two])
           new    == [root   |-> IF index2 = None THEN node ELSE None,
                      node   |-> node + 1,
                      leaves |-> leaves \cup ({index1, two} \cap Symbols),
                      parent |-> [parent EXCEPT ![index1] = node, ![two] = node],
                      left   |-> [left EXCEPT ![node] = index1],
                      right  |-> [right EXCEPT ![node] = IF index2 = None THEN None ELSE two]]
           newRates == [rates EXCEPT ![index1] = 0, ![two] = 0, ![node] = weight]
<1>11. Code!Merge(work) = [rates |-> newRates, tree |-> new]
    <2>1. t = work.tree
        OBVIOUS
    <2> HIDE DEF work
    <2> QED  BY <1>3, <1>6, <1>7, <1>8, <1>9, SameConstants, ZenonT(40) DEF Code!Merge
<1>12. Code!Merged(Block, m + 1) = [rates |-> newRates, tree |-> new]
    <2>1. m \in Nat
        BY KAssumption, <1>2
    <2>2. work.tree.root = Code!None
        BY <1>2, <1>3, SameConstants
    <2> HIDE DEF m, new, newRates
    <2> QED  BY <1>11, <2>1, <2>2, MergedStep
<1>13. Block' = Block /\ node' - K = m + 1
    BY KAssumption, <1>1, <1>2 DEF Block, Used
<1>14. {index1, two} = Pair
    BY <1>10
<1>15. rates' = newRates
    <2>1. rates \in [Slots -> Nat] /\ index1 \in Slots /\ two \in Slots
        BY <1>4, <1>5 DEF TypeOK
    <2>2. weight = rate1 + rate2 /\ weight \in Nat /\ node \notin {index1, two}
        <3>1. PICK a \in Nat, b \in Nat : a = rates[index1] /\ b = rates[two]
            BY <2>1
        <3>2. weight = a + IF index2 = None THEN 0 ELSE b
            BY <3>1
        <3>3. rate1 = a /\ rate2 = IF index2 = None THEN 0 ELSE b
            BY <1>5, <3>1
        <3>4. node # index1 /\ node # two
            BY <1>2, <1>4, <1>5
        <3> HIDE DEF weight, two
        <3> QED  BY <3>2, <3>3, <3>4
    <2> HIDE DEF weight, two
    <2>3. \A i \in Slots : MergedRates[i] = newRates[i]
        BY <1>2, <1>14, <2>1, <2>2 DEF MergedRates
    <2>4. MergedRates = [i \in Slots |-> MergedRates[i]]
        BY DEF MergedRates
    <2>5. newRates = [i \in Slots |-> newRates[i]]
        BY <2>1
    <2> HIDE DEF newRates
    <2> QED  BY <1>1, <2>3, <2>4, <2>5
<1>16. parent' = new.parent
    <2>1. /\ parent \in [Slots -> Slots \cup {None}]
          /\ index1 \in Slots /\ two \in Slots
        BY <1>4, <1>5 DEF TypeOK
    <2> HIDE DEF two
    <2> QED  BY <1>1, <1>14, <2>1
<1>17. /\ left' = new.left /\ right' = new.right /\ root' = new.root
       /\ node' = new.node /\ leaves' = new.leaves
    BY <1>1, <1>2, <1>14
<1> HIDE DEF new, newRates, m
<1> QED  BY <1>12, <1>13, <1>15, <1>16, <1>17 DEF SameInv

LEMMA SameStep ==
    ASSUME IInv, TieInv, SameInv, [Next]_vars
    PROVE  SameInv'
PROOF
<1> USE DEF histVars, scanVars, treeVars
<1>1. CASE Enter
    <2>1. /\ pc = "call" /\ node' = K
          /\ UNCHANGED <<rates, hstart, freqs, parent, left, right, leaves, root>>
          /\ pc' = IF hstart \in Slots THEN "skip" ELSE "done"
        BY <1>1 DEF Enter
    <2>2. rates = Block
        <3>1. \A i \in Slots : rates[i] = IF i \in Used THEN freqs[i] ELSE 0
            BY <2>1 DEF IInv, HistogramInv, Used
        <3>2. rates \in [Slots -> Nat]
            BY DEF IInv, TypeOK
        <3> QED  BY <3>1, <3>2 DEF Block
    <2>3. /\ leaves = {} /\ root = None
          /\ parent = NoPointers /\ left = NoPointers /\ right = NoPointers
        BY <2>1 DEF IInv, TypeOK, BareInv, Bare, NoPointers
    <2>4. Block' = Block /\ node' - K = 0
        BY KAssumption, <2>1 DEF Block, Used
    <2>5. Code!Merged(Block, 0) = [tree |-> Code!NoTree, rates |-> Block]
        BY MergedStep
    <2>6. Code!NoTree = [root |-> None, node |-> K, leaves |-> {},
                         parent |-> NoPointers, left |-> NoPointers, right |-> NoPointers]
        BY SameConstants, Zenon DEF Code!NoTree, NoPointers
    <2> QED  BY <2>1, <2>2, <2>3, <2>4, <2>5, <2>6 DEF SameInv
<1>2. CASE SkipZero \/ BeginScan \/ ScanSlot \/ UNCHANGED vars
    <2>1. /\ UNCHANGED <<rates, freqs, node, parent, left, right, leaves, root>>
          /\ Growing' => Growing
        BY <1>2 DEF SkipZero, BeginScan, ScanSlot, vars, Growing, Building, Used
    <2>2. Block' = Block
        BY <2>1 DEF Block, Used
    <2> QED  BY <2>1, <2>2 DEF SameInv
<1>3. CASE Merge
    BY <1>3, SameMerge
<1>4. CASE \/ \E counts \in [Symbols -> Counts] : Populate(counts)
           \/ MergeFails \/ NextBlock \/ Release
    <2>1. pc' \in {"call", "failed", "idle"}
        BY <1>4 DEF Populate, MergeFails, NextBlock, Release, TakeDown
    <2> QED  BY <2>1 DEF SameInv, Growing, Building
<1> QED  BY <1>1, <1>2, <1>3, <1>4 DEF Next, Build

-----------------------------------------------------------------------------
(* Powers of two, and sums over all the slots.                             *)

(* The powers up to the n-th, with which Power computes.                   *)
Powers(n, g) ==
    /\ g \in [0..n -> Nat \ {0}] /\ g[0] = 1
    /\ \A k \in 1..n : g[k] = 2 * g[k-1]
    /\ Power(n) = g[n]

LEMMA PowerRecursion ==
    ASSUME NEW n \in Nat
    PROVE  \E g : Powers(n, g)
PROOF
<1> DEFINE P == Nat \ {0}
           next == [k \in 1..n |-> [s \in P |-> 2 * s]]
           pow == CHOOSE g : g = [k \in 0..n |-> IF k = 0 THEN 1 ELSE 2 * g[k-1]]
<1>1. next \in [1..n -> [P -> P]]
    OBVIOUS
<1>2. PICK g \in [0..n -> P] : g[0] = 1 /\ \A k \in 1..n : g[k] = next[k][g[k-1]]
    <2>1. 1 \in P
        OBVIOUS
    <2> HIDE DEF next, P
    <2>2. Solutions(n, P, 1, next) # {}
        BY <1>1, <2>1, Recursion
    <2> QED  BY <2>2 DEF Solutions
<1>3. ASSUME NEW k \in 1..n PROVE g[k] = 2 * g[k-1]
    <2>1. g[k-1] \in P
        OBVIOUS
    <2> QED  BY <1>2, <2>1
<1> HIDE DEF next
<1> DEFINE At(h, k) == IF k = 0 THEN 1 ELSE 2 * h[k-1]
           Step(h)  == [k \in 0..n |-> At(h, k)]
<1>4. g = Step(g)
    <2>1. \A k \in 0..n : g[k] = At(g, k)
        <3>1. ASSUME NEW k \in 0..n PROVE k = 0 \/ k \in 1..n
            OBVIOUS
        <3> QED  BY <1>2, <1>3, <3>1
    <2>2. g = [k \in 0..n |-> g[k]]
        OBVIOUS
    <2> DEFINE F == Step(g)
    <2>3. F = [k \in 0..n |-> F[k]] /\ \A k \in 0..n : F[k] = At(g, k)
        <3> HIDE DEF At
        <3> QED  OBVIOUS
    <2> HIDE DEF F, At
    <2>4. F = g
        BY <2>1, <2>2, <2>3
    <2> QED  BY <2>4 DEF F
<1>5. pow = Step(pow)
    <2>1. pow = CHOOSE h : h = Step(h)
        OBVIOUS
    <2> HIDE DEF pow, Step
    <2> QED  BY <2>1, <1>4
<1>6. Power(n) = pow[n]
    BY DEF Power
<1> HIDE DEF pow
<1>7. \A k \in 0..n : pow[k] = IF k = 0 THEN 1 ELSE 2 * pow[k-1]
    <2> DEFINE F == Step(pow)
    <2>1. \A k \in 0..n : F[k] = IF k = 0 THEN 1 ELSE 2 * pow[k-1]
        OBVIOUS
    <2> HIDE DEF F
    <2>2. pow = F
        BY <1>5 DEF F
    <2> QED  BY <2>1, <2>2
<1> DEFINE T == {k \in 0..n : pow[k] = g[k]}
<1>8. 0..n \subseteq T
    <2>1. 0 \in T
        BY <1>2, <1>7
    <2>2. ASSUME NEW k \in 1..n, k-1 \in T PROVE k \in T
        <3>1. /\ pow[k] = 2 * pow[k-1] /\ pow[k-1] = g[k-1] /\ k \in 0..n
            BY <1>7, <2>2
        <3> QED  BY <1>3, <3>1
    <2> HIDE DEF T
    <2> QED  BY <2>1, <2>2, BoundedInduction
<1>9. pow[n] = g[n]
    <2>1. n \in T
        BY <1>8
    <2> QED  BY <2>1
<1> QED  BY <1>2, <1>3, <1>6, <1>9 DEF Powers

LEMMA PowerZero == Power(0) = 1
PROOF
<1>1. PICK g : Powers(0, g)
    BY PowerRecursion
<1> QED  BY <1>1 DEF Powers

LEMMA PowerPositive ==
    ASSUME NEW n \in Nat
    PROVE  Power(n) \in Nat \ {0}
PROOF
<1>1. PICK g : Powers(n, g)
    BY PowerRecursion
<1> QED  BY <1>1 DEF Powers

LEMMA PowerNext ==
    ASSUME NEW n \in Nat
    PROVE  Power(n+1) = 2 * Power(n)
PROOF
<1>1. PICK m \in Nat : m = n + 1 /\ n = m - 1 /\ m \in 1..m
    OBVIOUS
<1>2. PICK g : Powers(n, g)
    BY PowerRecursion
<1>3. PICK h : Powers(m, h)
    BY PowerRecursion
<1>4. /\ g \in [0..n -> Nat \ {0}] /\ g[0] = 1 /\ \A k \in 1..n : g[k] = 2 * g[k-1]
      /\ h \in [0..m -> Nat \ {0}] /\ h[0] = 1 /\ \A k \in 1..m : h[k] = 2 * h[k-1]
      /\ Power(n) = g[n] /\ Power(m) = h[m]
    BY <1>2, <1>3 DEF Powers
<1> DEFINE T == {k \in 0..n : h[k] = g[k]}
<1>5. 0 \in T
    BY <1>4
<1>6. ASSUME NEW k \in 1..n, k-1 \in T PROVE k \in T
    BY <1>1, <1>4, <1>6
<1>7. n \in T
    <2> HIDE DEF T
    <2> QED  BY <1>5, <1>6, BoundedInduction
<1>8. h[m] = 2 * h[n] /\ h[n] = g[n]
    BY <1>1, <1>4, <1>7
<1> QED  BY <1>1, <1>4, <1>8

LEMMA PowerSum ==
    ASSUME NEW a \in Nat, NEW b \in Nat
    PROVE  Power(a + b) = Power(a) * Power(b)
PROOF
<1> DEFINE T == {c \in 0..b : Power(a + c) = Power(a) * Power(c)}
<1>1. 0 \in T
    BY PowerZero, PowerPositive
<1>2. ASSUME NEW c \in 1..b, c-1 \in T PROVE c \in T
    <2>1. PICK d \in Nat : c = d + 1 /\ d = c - 1 /\ a + d \in Nat /\ a + c = (a + d) + 1
        OBVIOUS
    <2>2. Power(a + c) = 2 * Power(a + d) /\ Power(c) = 2 * Power(d)
        BY <2>1, PowerNext
    <2>3. Power(a + d) = Power(a) * Power(d)
        BY <1>2, <2>1
    <2>4. PICK p \in Nat, q \in Nat : p = Power(a) /\ q = Power(d)
        BY <2>1, PowerPositive
    <2>5. 2 * (p * q) = p * (2 * q)
        OBVIOUS
    <2> QED  BY <2>2, <2>3, <2>4, <2>5
<1>3. b \in T
    <2> HIDE DEF T
    <2> QED  BY <1>1, <1>2, BoundedInduction
<1> QED  BY <1>3

(* A multiple of every entry is the multiple of the sum.                   *)
Multiple(h, p, f, n) == \A i \in 0..n-1 : f[i] \in Nat /\ h[i] = p * f[i]

LEMMA SumScale ==
    ASSUME NEW n \in Nat, NEW p \in Nat, NEW f, NEW h, Multiple(h, p, f, n)
    PROVE  Weight(h, n) = p * Weight(f, n)
PROOF
<1>0. \A i \in 0..n-1 : f[i] \in Nat /\ h[i] = p * f[i]
    BY DEF Multiple
<1>1. \A i \in 0..n-1 : h[i] \in Nat
    BY <1>0
<1>2. PICK a : PartialSums(f, n, a)
    BY <1>0, SumRecursion
<1>3. PICK b : PartialSums(h, n, b)
    BY <1>1, SumRecursion
<1>4. /\ a \in [0..n -> Nat] /\ a[0] = 0 /\ \A k \in 1..n : a[k] = a[k-1] + f[k-1]
      /\ b \in [0..n -> Nat] /\ b[0] = 0 /\ \A k \in 1..n : b[k] = b[k-1] + h[k-1]
      /\ Weight(f, n) = a[n] /\ Weight(h, n) = b[n]
    BY <1>2, <1>3 DEF PartialSums
<1> DEFINE T == {k \in 0..n : b[k] = p * a[k]}
<1>5. 0 \in T
    BY <1>4
<1>6. ASSUME NEW k \in 1..n, k-1 \in T PROVE k \in T
    <2>1. /\ k-1 \in 0..n-1 /\ k-1 \in 0..n
          /\ a[k] = a[k-1] + f[k-1] /\ b[k] = b[k-1] + h[k-1]
        BY <1>4
    <2>2. PICK x \in Nat, y \in Nat : x = a[k-1] /\ y = f[k-1]
        BY <1>0, <1>4, <2>1
    <2>3. h[k-1] = p * y /\ b[k-1] = p * x
        BY <1>0, <1>6, <2>1, <2>2
    <2>4. p * x + p * y = p * (x + y)
        OBVIOUS
    <2> QED  BY <2>1, <2>2, <2>3, <2>4
<1>7. n \in T
    <2> HIDE DEF T
    <2> QED  BY <1>5, <1>6, BoundedInduction
<1> QED  BY <1>4, <1>7

(* The sum of two arrays, entry by entry, is the sum of their sums.        *)
LEMMA SumAdd ==
    ASSUME NEW n \in Nat, NEW f, NEW g, NEW h,
           \A i \in 0..n-1 : f[i] \in Nat /\ g[i] \in Nat /\ h[i] = f[i] + g[i]
    PROVE  Weight(h, n) = Weight(f, n) + Weight(g, n)
PROOF
<1>1. \A i \in 0..n-1 : h[i] \in Nat
    OBVIOUS
<1>2. PICK a : PartialSums(f, n, a)
    BY SumRecursion
<1>3. PICK b : PartialSums(g, n, b)
    BY SumRecursion
<1>4. PICK c : PartialSums(h, n, c)
    BY <1>1, SumRecursion
<1>5. /\ a \in [0..n -> Nat] /\ a[0] = 0 /\ \A k \in 1..n : a[k] = a[k-1] + f[k-1]
      /\ b \in [0..n -> Nat] /\ b[0] = 0 /\ \A k \in 1..n : b[k] = b[k-1] + g[k-1]
      /\ c \in [0..n -> Nat] /\ c[0] = 0 /\ \A k \in 1..n : c[k] = c[k-1] + h[k-1]
      /\ Weight(f, n) = a[n] /\ Weight(g, n) = b[n] /\ Weight(h, n) = c[n]
    BY <1>2, <1>3, <1>4 DEF PartialSums
<1> DEFINE T == {k \in 0..n : c[k] = a[k] + b[k]}
<1>6. 0 \in T
    BY <1>5
<1>7. ASSUME NEW k \in 1..n, k-1 \in T PROVE k \in T
    <2>1. /\ k-1 \in 0..n-1 /\ a[k-1] \in Nat /\ b[k-1] \in Nat
          /\ f[k-1] \in Nat /\ g[k-1] \in Nat /\ h[k-1] = f[k-1] + g[k-1]
          /\ a[k] = a[k-1] + f[k-1] /\ b[k] = b[k-1] + g[k-1]
          /\ c[k] = c[k-1] + h[k-1] /\ c[k-1] = a[k-1] + b[k-1]
        BY <1>5, <1>7
    <2> QED  BY <2>1
<1>8. n \in T
    <2> HIDE DEF T
    <2> QED  BY <1>6, <1>7, BoundedInduction
<1> QED  BY <1>5, <1>8

LEMMA SumOfSlots ==
    ASSUME NEW f \in [Slots -> Nat]
    PROVE  Weight(f, 2*K) \in Nat
PROOF
<1>1. 0 \in Slots
    BY KAssumption DEF Slots
<1> QED  BY <1>1, SlotChange

(* The change of two slots, and of three.                                  *)
LEMMA TwoChanges ==
    ASSUME NEW f \in [Slots -> Nat], NEW h \in [Slots -> Nat],
           NEW a \in Slots, NEW b \in Slots, a # b,
           \A i \in Slots : i \notin {a, b} => h[i] = f[i]
    PROVE  /\ Weight(f, 2*K) \in Nat /\ Weight(h, 2*K) \in Nat
           /\ Weight(h, 2*K) + f[a] + f[b] = Weight(f, 2*K) + h[a] + h[b]
PROOF
<1> DEFINE g == [f EXCEPT ![a] = h[a]]
<1>1. /\ g \in [Slots -> Nat] /\ g[a] = h[a] /\ g[b] = f[b]
      /\ \A i \in Slots : i # a => g[i] = f[i]
      /\ \A i \in Slots : i # b => h[i] = g[i]
    OBVIOUS
<1> HIDE DEF g
<1>2. /\ Weight(f, 2*K) \in Nat /\ Weight(g, 2*K) \in Nat
      /\ Weight(g, 2*K) + f[a] = Weight(f, 2*K) + g[a]
    BY <1>1, SlotChange
<1>3. /\ Weight(g, 2*K) \in Nat /\ Weight(h, 2*K) \in Nat
      /\ Weight(h, 2*K) + g[b] = Weight(g, 2*K) + h[b]
    BY <1>1, SlotChange
<1>4. f[a] \in Nat /\ f[b] \in Nat /\ h[a] \in Nat /\ h[b] \in Nat
    OBVIOUS
<1> QED  BY <1>1, <1>2, <1>3, <1>4

LEMMA ThreeChanges ==
    ASSUME NEW f \in [Slots -> Nat], NEW h \in [Slots -> Nat],
           NEW a \in Slots, NEW b \in Slots, NEW c \in Slots,
           a # b, a # c, b # c,
           \A i \in Slots : i \notin {a, b, c} => h[i] = f[i]
    PROVE  /\ Weight(f, 2*K) \in Nat /\ Weight(h, 2*K) \in Nat
           /\ Weight(h, 2*K) + f[a] + f[b] + f[c]
                  = Weight(f, 2*K) + h[a] + h[b] + h[c]
PROOF
<1> DEFINE g == [f EXCEPT ![a] = h[a]]
<1>1. /\ g \in [Slots -> Nat] /\ g[a] = h[a] /\ g[b] = f[b] /\ g[c] = f[c]
      /\ \A i \in Slots : i # a => g[i] = f[i]
      /\ \A i \in Slots : i \notin {b, c} => h[i] = g[i]
    OBVIOUS
<1> HIDE DEF g
<1>2. /\ Weight(f, 2*K) \in Nat /\ Weight(g, 2*K) \in Nat
      /\ Weight(g, 2*K) + f[a] = Weight(f, 2*K) + g[a]
    BY <1>1, SlotChange
<1>3. /\ Weight(g, 2*K) \in Nat /\ Weight(h, 2*K) \in Nat
      /\ Weight(h, 2*K) + g[b] + g[c] = Weight(g, 2*K) + h[b] + h[c]
    BY <1>1, TwoChanges
<1>4. /\ f[a] \in Nat /\ f[b] \in Nat /\ f[c] \in Nat
      /\ h[a] \in Nat /\ h[b] \in Nat /\ h[c] \in Nat
    OBVIOUS
<1> QED  BY <1>1, <1>2, <1>3, <1>4

-----------------------------------------------------------------------------
(* Code lengths of the slots of a set, and what a merge does to them.      *)

(* The share of the code space that a word of l[i] bits takes, in units of *)
(* the share of a word of d bits, and the bits that r[i] such words take.  *)
Shares(l, S, d) == [i \in Slots |-> IF i \in S THEN Power(d - l[i]) ELSE 0]
Spent(r, l)     == [i \in Slots |-> r[i] * l[i]]

Kraft(l, S, d) == Weight(Shares(l, S, d), 2*K) <= Power(d)
Cost(r, l)     == Weight(Spent(r, l), 2*K)

LEMMA SharesType ==
    ASSUME NEW d \in Nat, NEW l \in [Slots -> 0..d], NEW S
    PROVE  /\ Shares(l, S, d) \in [Slots -> Nat]
           /\ \A i \in Slots : i \in S => Shares(l, S, d)[i] = Power(d - l[i])
           /\ \A i \in Slots : i \notin S => Shares(l, S, d)[i] = 0
           /\ \A i \in Slots : d - l[i] \in Nat /\ Power(d - l[i]) \in Nat \ {0}
PROOF
<1>1. \A i \in Slots : d - l[i] \in Nat
    OBVIOUS
<1>2. \A i \in Slots : Power(d - l[i]) \in Nat \ {0}
    BY <1>1, PowerPositive
<1> QED  BY <1>1, <1>2 DEF Shares

LEMMA SpentType ==
    ASSUME NEW r \in [Slots -> Nat], NEW d \in Nat, NEW l \in [Slots -> 0..d]
    PROVE  /\ Spent(r, l) \in [Slots -> Nat]
           /\ \A i \in Slots : Spent(r, l)[i] = r[i] * l[i] /\ l[i] \in Nat /\ r[i] \in Nat
           /\ Cost(r, l) \in Nat
PROOF
<1>1. ASSUME NEW i \in Slots PROVE r[i] * l[i] \in Nat /\ l[i] \in Nat /\ r[i] \in Nat
    <2>1. PICK a \in Nat, b \in Nat : a = r[i] /\ b = l[i]
        OBVIOUS
    <2> QED  BY <2>1
<1>2. Spent(r, l) \in [Slots -> Nat]
    BY <1>1 DEF Spent
<1>3. Cost(r, l) \in Nat
    BY <1>2, SumOfSlots DEF Cost
<1> QED  BY <1>1, <1>2, <1>3 DEF Spent

(* The longest word of a code may be as short as the second longest: the   *)
(* others leave a hole, and no hole is smaller than the share of a word.   *)
LEMMA Shortened ==
    ASSUME NEW d \in Nat, NEW S \in SUBSET Slots, NEW k \in [Slots -> 0..d],
           Kraft(k, S, d), NEW p \in S, NEW q \in S, p # q,
           \A i \in S \ {p} : k[i] <= k[q], k[q] <= k[p]
    PROVE  /\ k[q] # 0
           /\ Kraft([k EXCEPT ![p] = k[q]], S, d)
PROOF
<1> DEFINE k1 == [k EXCEPT ![p] = k[q]]
           f  == Shares(k, S, d)
           f1 == Shares(k1, S, d)
           f0 == [f EXCEPT ![p] = 0]
           g  == [i \in Slots |-> IF i \in S /\ i # p THEN Power(k[q] - k[i]) ELSE 0]
           g0 == [g EXCEPT ![q] = 0]
<1>1. PICK l \in Nat, u \in Nat : l = k[q] /\ u = d - l /\ d = u + l
    OBVIOUS
<1>2. PICK P \in Nat \ {0}, Q \in Nat \ {0} : P = Power(u) /\ Q = Power(l) /\ Power(d) = P * Q
    <2>1. Power(u) \in Nat \ {0} /\ Power(l) \in Nat \ {0}
        BY PowerPositive
    <2>2. Power(u + l) = Power(u) * Power(l)
        BY PowerSum
    <2>3. Power(d) = Power(u) * Power(l)
        BY <1>1, <2>2
    <2> QED  BY <2>1, <2>3
<1>3. PICK n \in Nat : n = 2*K
    BY KAssumption
<1>4. k1 \in [Slots -> 0..d] /\ k1[p] = l /\ \A i \in Slots : i # p => k1[i] = k[i]
    BY <1>1
<1>5. /\ f \in [Slots -> Nat] /\ f1 \in [Slots -> Nat] /\ f0 \in [Slots -> Nat]
      /\ f[p] # 0 /\ f1[p] = P /\ f0[p] = 0
      /\ \A i \in Slots : i # p => f0[i] = f[i] /\ f1[i] = f0[i]
    <2> HIDE DEF k1
    <2>1. f \in [Slots -> Nat] /\ f[p] # 0
        BY SharesType
    <2>2. f1 \in [Slots -> Nat] /\ f1[p] = P
        BY <1>1, <1>2, <1>4, SharesType
    <2>3. \A i \in Slots : i # p => f1[i] = f[i]
        BY <1>4 DEF Shares
    <2> HIDE DEF f, f1
    <2> QED  BY <2>1, <2>2, <2>3
<1>6. \A i \in Slots : i \in S /\ i # p => l - k[i] \in Nat /\ Power(l - k[i]) \in Nat \ {0}
    <2>1. ASSUME NEW i \in Slots, i \in S, i # p PROVE l - k[i] \in Nat
        BY <1>1, <2>1
    <2> QED  BY <2>1, PowerPositive
<1>7. /\ g \in [Slots -> Nat] /\ g[q] = 1
      /\ g0 \in [Slots -> Nat] /\ g0[q] = 0
      /\ \A i \in Slots : i # q => g0[i] = g[i]
    <2>1. g \in [Slots -> Nat]
        BY <1>1, <1>6
    <2>2. g[q] = Power(0)
        <3>1. g[q] = Power(k[q] - k[q]) /\ k[q] - k[q] = 0
            OBVIOUS
        <3> QED  BY <3>1
    <2> HIDE DEF g
    <2> QED  BY <2>1, <2>2, PowerZero
<1>8. \A i \in Slots : f0[i] = P * g[i]
    <2>1. ASSUME NEW i \in Slots, i \in S, i # p PROVE f0[i] = P * g[i]
        <3>1. f0[i] = Power(d - k[i])
            BY <1>5, <2>1, SharesType
        <3>2. PICK v \in Nat : v = l - k[i] /\ d - k[i] = u + v
            BY <1>1, <1>6, <2>1
        <3>3. g[i] = Power(v)
            BY <1>1, <2>1, <3>2
        <3>4. Power(u + v) = Power(u) * Power(v)
            BY PowerSum
        <3> QED  BY <1>2, <3>1, <3>2, <3>3, <3>4
    <2>2. ASSUME NEW i \in Slots, i \notin S \/ i = p PROVE f0[i] = P * g[i]
        <3>1. f0[i] = 0
            BY <1>5, <2>2 DEF Shares
        <3>2. g[i] = 0
            BY <2>2
        <3> QED  BY <1>2, <3>1, <3>2
    <2> QED  BY <2>1, <2>2
<1> HIDE DEF f, f1, f0, g, g0
<1>9. PICK N \in Nat : N = Weight(g, n) /\ 1 <= N
    <2>1. /\ Weight(g, n) \in Nat /\ Weight(g0, n) \in Nat
          /\ Weight(g, n) + g0[q] = Weight(g0, n) + g[q]
        BY <1>3, <1>7, SlotChange
    <2> QED  BY <1>7, <2>1
<1>10. Weight(f0, n) = P * N
    <2>1. PICK c, t : c = g /\ t = f0
        OBVIOUS
    <2>2. Multiple(t, P, c, n)
        BY <1>3, <1>7, <1>8, <2>1 DEF Slots, Multiple
    <2>3. P \in Nat
        OBVIOUS
    <2>4. Weight(t, n) = P * Weight(c, n)
        BY <2>2, <2>3, SumScale
    <2> QED  BY <1>9, <2>1, <2>4
<1>11. /\ Weight(f, n) \in Nat /\ Weight(f0, n) \in Nat
       /\ Weight(f0, n) + f[p] = Weight(f, n) + f0[p]
    BY <1>3, <1>5, SlotChange
<1>12. Weight(f1, n) \in Nat /\ Weight(f1, n) + f0[p] = Weight(f0, n) + f1[p]
    BY <1>3, <1>5, SlotChange
<1>13. Weight(f, n) <= P * Q
    BY <1>2, <1>3 DEF Kraft, f
<1>14. P * N < P * Q
    BY <1>5, <1>10, <1>11, <1>13
<1>15. N < Q
    <2>1. CASE Q <= N
        <3>1. P * Q <= P * N
            BY <2>1, Products
        <3> QED  BY <1>14, <3>1
    <2> QED  BY <2>1
<1>16. P * N + P <= P * Q
    <2>1. P * (N + 1) <= P * Q
        BY <1>15, Products
    <2> QED  BY <2>1
<1>17. Weight(f1, n) <= Power(d)
    BY <1>2, <1>5, <1>10, <1>12, <1>16
<1>18. k[q] # 0
    BY <1>1, <1>2, <1>9, <1>15, PowerZero
<1> QED  BY <1>3, <1>17, <1>18 DEF Kraft, f1

(* To exchange two words leaves the code space as it is, and costs nothing *)
(* when the shorter one goes to the heavier slot.                          *)
Exchanged(k, a, b) == [i \in Slots |-> IF i = a THEN k[b] ELSE
                                       IF i = b THEN k[a] ELSE k[i]]

LEMMA ExchangeIsCheaper ==
    ASSUME NEW d \in Nat, NEW S \in SUBSET Slots, NEW k \in [Slots -> 0..d],
           NEW r \in [Slots -> Nat], NEW a \in S, NEW b \in S,
           r[a] <= r[b], k[a] <= k[b], Kraft(k, S, d)
    PROVE  /\ Exchanged(k, a, b) \in [Slots -> 0..d]
           /\ Kraft(Exchanged(k, a, b), S, d)
           /\ Cost(r, Exchanged(k, a, b)) <= Cost(r, k)
PROOF
<1>1. PICK h : h = Exchanged(k, a, b)
    OBVIOUS
<1>2. /\ h \in [Slots -> 0..d] /\ h[a] = k[b] /\ h[b] = k[a]
      /\ \A i \in Slots : i \notin {a, b} => h[i] = k[i]
    BY <1>1 DEF Exchanged
<1>3. CASE a = b
    <2>1. h = k
        BY <1>2, <1>3
    <2> QED  BY <1>1, <1>2, <2>1, SpentType
<1>4. CASE a # b
    <2>1. PICK f : f = Shares(k, S, d)
        OBVIOUS
    <2>2. PICK g : g = Shares(h, S, d)
        OBVIOUS
    <2>3. /\ f \in [Slots -> Nat] /\ g \in [Slots -> Nat]
          /\ \A i \in Slots : i \notin {a, b} => g[i] = f[i]
          /\ g[a] = f[b] /\ g[b] = f[a] /\ f[a] \in Nat /\ f[b] \in Nat
        <3>1. f \in [Slots -> Nat] /\ g \in [Slots -> Nat]
            BY <1>2, <2>1, <2>2, SharesType
        <3>2. \A i \in Slots : i \notin {a, b} => g[i] = f[i]
            BY <1>2, <2>1, <2>2 DEF Shares
        <3>3. g[a] = f[b] /\ g[b] = f[a]
            BY <1>2, <2>1, <2>2 DEF Shares
        <3> QED  BY <3>1, <3>2, <3>3
    <2>4. /\ Weight(f, 2*K) \in Nat /\ Weight(g, 2*K) \in Nat
          /\ Weight(g, 2*K) + f[a] + f[b] = Weight(f, 2*K) + g[a] + g[b]
        BY <1>4, <2>3, TwoChanges
    <2>5. Weight(g, 2*K) = Weight(f, 2*K)
        BY <2>3, <2>4
    <2>6. Kraft(h, S, d)
        BY <2>1, <2>2, <2>5 DEF Kraft
    <2>7. PICK s : s = Spent(r, k)
        OBVIOUS
    <2>8. PICK t : t = Spent(r, h)
        OBVIOUS
    <2>9. /\ s \in [Slots -> Nat] /\ t \in [Slots -> Nat]
          /\ \A i \in Slots : s[i] = r[i] * k[i] /\ t[i] = r[i] * h[i]
        BY <1>2, <2>7, <2>8, SpentType
    <2>10. \A i \in Slots : i \notin {a, b} => t[i] = s[i]
        BY <1>2, <2>9
    <2>11. /\ Weight(s, 2*K) \in Nat /\ Weight(t, 2*K) \in Nat
           /\ Weight(t, 2*K) + s[a] + s[b] = Weight(s, 2*K) + t[a] + t[b]
        BY <1>4, <2>9, <2>10, TwoChanges
    <2>12. PICK x \in Nat, u \in Nat : x = r[a] /\ r[b] = x + u
        <3>1. r[a] \in Nat /\ r[b] - r[a] \in Nat /\ r[b] = r[a] + (r[b] - r[a])
            OBVIOUS
        <3> QED  BY <3>1
    <2>13. PICK y \in Nat, v \in Nat : y = k[a] /\ k[b] = y + v
        <3>1. k[a] \in Nat /\ k[b] - k[a] \in Nat /\ k[b] = k[a] + (k[b] - k[a])
            OBVIOUS
        <3> QED  BY <3>1
    <2>14. /\ s[a] = x * y /\ s[b] = (x + u) * (y + v)
           /\ t[a] = x * (y + v) /\ t[b] = (x + u) * y
        BY <1>2, <2>9, <2>12, <2>13
    <2>15. PICK w \in Nat : w = u * v
        OBVIOUS
    <2>16. x * (y + v) + (x + u) * y + w = x * y + (x + u) * (y + v)
        BY <2>15
    <2>17. /\ x * y \in Nat /\ (x + u) * (y + v) \in Nat
           /\ x * (y + v) \in Nat /\ (x + u) * y \in Nat
        OBVIOUS
    <2>18. t[a] + t[b] + w = s[a] + s[b]
        BY <2>14, <2>16
    <2>19. /\ s[a] \in Nat /\ s[b] \in Nat /\ t[a] \in Nat /\ t[b] \in Nat
        BY <2>14, <2>17
    <2>20. Weight(t, 2*K) <= Weight(s, 2*K)
        BY <2>11, <2>18, <2>19
    <2> QED  BY <1>1, <1>2, <2>6, <2>7, <2>8, <2>20 DEF Cost
<1> QED  BY <1>3, <1>4

(* A merge of the two lightest slots x and y of S into z: the weights r    *)
(* become h.                                                               *)
Merging(r, h, S, x, y, z) ==
    /\ r \in [Slots -> Nat] /\ S \subseteq Slots
    /\ x \in S /\ y \in S /\ x # y
    /\ z \in Slots \ S /\ r[z] = 0
    /\ \A i \in S : r[x] <= r[i]
    /\ \A i \in S \ {x} : r[y] <= r[i]
    /\ h = [i \in Slots |-> IF i \in {x, y} THEN 0
                            ELSE IF i = z THEN r[x] + r[y] ELSE r[i]]

After(S, x, y, z) == (S \ {x, y}) \cup {z}

(* Two words of the same length are worth one that is a bit shorter.       *)
LEMMA Siblings ==
    ASSUME NEW r, NEW h, NEW S, NEW x, NEW y, NEW z, Merging(r, h, S, x, y, z),
           NEW d \in Nat, NEW k \in [Slots -> 0..d], NEW l \in [Slots -> 0..d],
           k[x] = l[z] + 1, k[y] = l[z] + 1,
           \A i \in Slots : i \notin {x, y, z} => k[i] = l[i]
    PROVE  /\ Kraft(k, S, d) <=> Kraft(l, After(S, x, y, z), d)
           /\ Cost(r, k) = Cost(h, l) + r[x] + r[y]
PROOF
<1>1. /\ r \in [Slots -> Nat] /\ S \subseteq Slots
      /\ x \in Slots /\ y \in Slots /\ z \in Slots /\ x # y /\ x # z /\ y # z
      /\ x \in S /\ y \in S /\ z \notin S /\ r[z] = 0
      /\ h = [i \in Slots |-> IF i \in {x, y} THEN 0
                              ELSE IF i = z THEN r[x] + r[y] ELSE r[i]]
    BY DEF Merging
<1>2. PICK T : T = After(S, x, y, z)
    OBVIOUS
<1>3. \A i \in Slots : i \in T <=> i = z \/ (i \in S /\ i \notin {x, y})
    BY <1>2 DEF After
<1>4. PICK a \in Nat, b \in Nat : a = r[x] /\ b = r[y]
    BY <1>1
<1>5. /\ h \in [Slots -> Nat] /\ h[x] = 0 /\ h[y] = 0 /\ h[z] = a + b
      /\ \A i \in Slots : i \notin {x, y, z} => h[i] = r[i]
    <2>1. a + b \in Nat
        OBVIOUS
    <2> QED  BY <1>1, <1>4, <2>1
<1>6. PICK m \in Nat, u \in Nat : m = l[z] /\ u = d - (m + 1) /\ d - m = u + 1
    <2>1. l[z] \in 0..d /\ k[x] \in 0..d
        BY <1>1
    <2>2. l[z] \in Nat /\ d - (l[z] + 1) \in Nat
        BY <2>1
    <2> QED  BY <2>2
<1>7. PICK f : f = Shares(k, S, d)
    OBVIOUS
<1>8. PICK g : g = Shares(l, T, d)
    OBVIOUS
<1>9. /\ f \in [Slots -> Nat] /\ g \in [Slots -> Nat]
      /\ f[x] = Power(u) /\ f[y] = Power(u) /\ f[z] = 0
      /\ g[x] = 0 /\ g[y] = 0 /\ g[z] = Power(u + 1)
    <2>1. f \in [Slots -> Nat] /\ g \in [Slots -> Nat]
        BY <1>7, <1>8, SharesType
    <2>2. f[x] = Power(u) /\ f[y] = Power(u) /\ f[z] = 0
        BY <1>1, <1>6, <1>7 DEF Shares
    <2>3. g[x] = 0 /\ g[y] = 0 /\ g[z] = Power(u + 1)
        BY <1>1, <1>3, <1>6, <1>8 DEF Shares
    <2> QED  BY <2>1, <2>2, <2>3
<1>10. \A i \in Slots : i \notin {x, y, z} => g[i] = f[i]
    BY <1>3, <1>7, <1>8 DEF Shares
<1>11. /\ Weight(f, 2*K) \in Nat /\ Weight(g, 2*K) \in Nat
       /\ Weight(g, 2*K) + f[x] + f[y] + f[z] = Weight(f, 2*K) + g[x] + g[y] + g[z]
    <2>1. x \in Slots /\ y \in Slots /\ z \in Slots /\ x # y /\ x # z /\ y # z
        BY <1>1
    <2>2. f \in [Slots -> Nat] /\ g \in [Slots -> Nat]
        BY <1>9
    <2> QED  BY <1>10, <2>1, <2>2, ThreeChanges
<1>12. Weight(g, 2*K) = Weight(f, 2*K)
    <2>1. Power(u) \in Nat /\ Power(u + 1) = 2 * Power(u)
        BY PowerPositive, PowerNext
    <2> QED  BY <1>9, <1>11, <2>1
<1>13. Kraft(k, S, d) <=> Kraft(l, T, d)
    BY <1>7, <1>8, <1>12 DEF Kraft
<1>14. PICK s : s = Spent(r, k)
    OBVIOUS
<1>15. PICK t : t = Spent(h, l)
    OBVIOUS
<1>16. /\ s \in [Slots -> Nat] /\ t \in [Slots -> Nat]
       /\ \A i \in Slots : s[i] = r[i] * k[i] /\ t[i] = h[i] * l[i]
    <2>1. r \in [Slots -> Nat] /\ h \in [Slots -> Nat]
        BY <1>1, <1>5
    <2>2. s \in [Slots -> Nat] /\ \A i \in Slots : s[i] = r[i] * k[i]
        BY <1>14, <2>1, SpentType
    <2>3. t \in [Slots -> Nat] /\ \A i \in Slots : t[i] = h[i] * l[i]
        BY <1>15, <2>1, SpentType
    <2> QED  BY <2>2, <2>3
<1>17. \A i \in Slots : i \notin {x, y, z} => t[i] = s[i]
    BY <1>5, <1>16
<1>18. /\ Weight(s, 2*K) \in Nat /\ Weight(t, 2*K) \in Nat
       /\ Weight(t, 2*K) + s[x] + s[y] + s[z] = Weight(s, 2*K) + t[x] + t[y] + t[z]
    <2>1. x \in Slots /\ y \in Slots /\ z \in Slots /\ x # y /\ x # z /\ y # z
        BY <1>1
    <2>2. s \in [Slots -> Nat] /\ t \in [Slots -> Nat]
        BY <1>16
    <2> QED  BY <1>17, <2>1, <2>2, ThreeChanges
<1>19. /\ s[x] = a * (m + 1) /\ s[y] = b * (m + 1) /\ s[z] = 0
       /\ t[x] = 0 /\ t[y] = 0 /\ t[z] = (a + b) * m
    <2>1. k[z] \in Nat /\ l[x] \in Nat /\ l[y] \in Nat
        BY <1>1
    <2> QED  BY <1>1, <1>4, <1>5, <1>6, <1>16, <2>1
<1>20. a * (m + 1) + b * (m + 1) = (a + b) * m + a + b
    OBVIOUS
<1>21. a * (m + 1) \in Nat /\ b * (m + 1) \in Nat /\ (a + b) * m \in Nat
    OBVIOUS
<1>22. Weight(s, 2*K) = Weight(t, 2*K) + a + b
    BY <1>18, <1>19, <1>20, <1>21
<1>23. Cost(r, k) = Cost(h, l) + r[x] + r[y]
    BY <1>4, <1>14, <1>15, <1>22 DEF Cost
<1> QED  BY <1>2, <1>13, <1>23

LEMMA LongestExists ==
    ASSUME NEW d \in Nat, NEW k \in [Slots -> 0..d], NEW S \in SUBSET Slots, S # {}
    PROVE  \E p \in S : \A i \in S : k[i] <= k[p]
PROOF
<1> DEFINE T == {n \in 0..d : \E i \in S : n = d - k[i]}
<1>1. T \in SUBSET Nat /\ T # {}
    <2>1. PICK i \in S : TRUE
        OBVIOUS
    <2>2. d - k[i] \in 0..d
        OBVIOUS
    <2>3. d - k[i] \in T
        BY <2>2
    <2> QED  BY <2>3
<1>2. PICK m \in T : \A n \in T : m <= n
    <2> HIDE DEF T
    <2> QED  BY <1>1, LeastNatural
<1>3. PICK p \in S : m = d - k[p]
    OBVIOUS
<1>4. ASSUME NEW i \in S PROVE k[i] <= k[p]
    <2>1. d - k[i] \in 0..d
        OBVIOUS
    <2>2. d - k[i] \in T
        BY <2>1
    <2>3. m <= d - k[i]
        BY <1>2, <2>2
    <2>4. k[i] \in 0..d /\ k[p] \in 0..d
        OBVIOUS
    <2> QED  BY <1>3, <2>3, <2>4
<1> QED  BY <1>4

(* Whatever the lengths of the words were, there are lengths for the slots *)
(* after the merge that save its weight: the two longest words may be as   *)
(* long as each other, and may be those of the two lightest slots.         *)
LEMMA MergeSaves ==
    ASSUME NEW r, NEW h, NEW S, NEW x, NEW y, NEW z, Merging(r, h, S, x, y, z),
           NEW d \in Nat, NEW k \in [Slots -> 0..d], Kraft(k, S, d)
    PROVE  \E l \in [Slots -> 0..d] :
              /\ Kraft(l, After(S, x, y, z), d)
              /\ Cost(h, l) + r[x] + r[y] <= Cost(r, k)
PROOF
<1>1. /\ r \in [Slots -> Nat] /\ S \in SUBSET Slots
      /\ x \in S /\ y \in S /\ x # y /\ z \in Slots /\ z \notin S
      /\ \A i \in S : r[x] <= r[i]
      /\ \A i \in S \ {x} : r[y] <= r[i]
    BY DEF Merging
<1>2. PICK p \in S : \A i \in S : k[i] <= k[p]
    BY <1>1, LongestExists
<1>3. PICK q \in S \ {p} : \A i \in S \ {p} : k[i] <= k[q]
    <2>1. S \ {p} \in SUBSET Slots /\ S \ {p} # {}
        BY <1>1
    <2> QED  BY <2>1, LongestExists
<1>4. PICK k1 : k1 = [k EXCEPT ![p] = k[q]]
    OBVIOUS
<1>5. k1 \in [Slots -> 0..d] /\ k1[p] = k[q] /\ \A i \in Slots : i # p => k1[i] = k[i]
    BY <1>1, <1>4
<1>6. k[q] # 0 /\ Kraft(k1, S, d)
    BY <1>1, <1>2, <1>3, <1>4, Shortened
<1>7. PICK n \in 1..d : n = k[q] /\ k1[p] = n /\ k1[q] = n
    BY <1>1, <1>3, <1>5, <1>6
<1>8. \A i \in S : k1[i] <= n
    <2>1. ASSUME NEW i \in S PROVE k1[i] <= n
        BY <1>1, <1>3, <1>5, <1>7
    <2> QED  BY <2>1
<1>9. Cost(r, k1) <= Cost(r, k)
    <2>1. PICK s : s = Spent(r, k)
        OBVIOUS
    <2>2. PICK t : t = Spent(r, k1)
        OBVIOUS
    <2>3. /\ s \in [Slots -> Nat] /\ t \in [Slots -> Nat]
          /\ \A i \in Slots : s[i] = r[i] * k[i] /\ t[i] = r[i] * k1[i]
        BY <1>1, <1>5, <2>1, <2>2, SpentType
    <2>4. \A i \in Slots : i # p => t[i] = s[i]
        BY <1>5, <2>3
    <2>5. /\ Weight(s, 2*K) \in Nat /\ Weight(t, 2*K) \in Nat
          /\ Weight(t, 2*K) + s[p] = Weight(s, 2*K) + t[p]
        BY <1>1, <2>3, <2>4, SlotChange
    <2>6. PICK a \in Nat, m \in Nat : a = r[p] /\ m = k[p] /\ n <= m
        BY <1>1, <1>2, <1>3, <1>7
    <2>7. a * n <= a * m
        BY <2>6, Products
    <2>8. t[p] <= s[p] /\ t[p] \in Nat /\ s[p] \in Nat
        BY <1>1, <1>7, <2>3, <2>6, <2>7
    <2> QED  BY <2>1, <2>2, <2>5, <2>8 DEF Cost
<1>10. PICK k2 : k2 = Exchanged(k1, x, p)
    OBVIOUS
<1>11. /\ k2 \in [Slots -> 0..d] /\ Kraft(k2, S, d) /\ Cost(r, k2) <= Cost(r, k1)
    <2>1. r[x] <= r[p] /\ k1[x] <= k1[p]
        BY <1>1, <1>7, <1>8
    <2> QED  BY <1>1, <1>5, <1>6, <1>10, <2>1, ExchangeIsCheaper
<1>12. /\ k2[x] = n /\ k2[p] = k1[x] /\ \A i \in Slots : i \notin {x, p} => k2[i] = k1[i]
       /\ \A i \in S : k2[i] <= n
    <2>1. k2[x] = n /\ k2[p] = k1[x] /\ \A i \in Slots : i \notin {x, p} => k2[i] = k1[i]
        BY <1>1, <1>7, <1>10 DEF Exchanged
    <2> QED  BY <1>1, <1>7, <1>8, <2>1
<1>13. PICK w \in S \ {x} : k2[w] = n
    <2>1. CASE q = x
        <3>1. p \in S \ {x} /\ k2[p] = n
            BY <1>7, <1>12, <2>1
        <3> QED  BY <3>1
    <2>2. CASE q # x
        <3>1. q \in S \ {x} /\ k2[q] = n
            BY <1>1, <1>7, <1>12, <2>2
        <3> QED  BY <3>1
    <2> QED  BY <2>1, <2>2
<1>14. PICK k3 : k3 = Exchanged(k2, y, w)
    OBVIOUS
<1>15. /\ k3 \in [Slots -> 0..d] /\ Kraft(k3, S, d) /\ Cost(r, k3) <= Cost(r, k2)
    <2>1. w \in S /\ r[y] <= r[w] /\ k2[y] <= k2[w]
        BY <1>1, <1>12, <1>13
    <2> QED  BY <1>1, <1>11, <1>14, <2>1, ExchangeIsCheaper
<1>16. k3[x] = n /\ k3[y] = n
    BY <1>1, <1>12, <1>13, <1>14 DEF Exchanged
<1>17. PICK l : l = [k3 EXCEPT ![z] = n - 1]
    OBVIOUS
<1>18. /\ l \in [Slots -> 0..d] /\ k3[x] = l[z] + 1 /\ k3[y] = l[z] + 1
       /\ \A i \in Slots : i \notin {x, y, z} => k3[i] = l[i]
    <2>1. n - 1 \in 0..d /\ n = (n - 1) + 1
        BY <1>7
    <2>2. l[z] = n - 1
        BY <1>1, <1>15, <1>17
    <2> QED  BY <1>1, <1>15, <1>16, <1>17, <2>1, <2>2
<1>19. /\ Kraft(k3, S, d) <=> Kraft(l, After(S, x, y, z), d)
       /\ Cost(r, k3) = Cost(h, l) + r[x] + r[y]
    BY <1>15, <1>18, Siblings
<1>20. Cost(h, l) + r[x] + r[y] <= Cost(r, k)
    <2>1. /\ Cost(r, k) \in Nat /\ Cost(r, k1) \in Nat /\ Cost(r, k2) \in Nat /\ Cost(r, k3) \in Nat
        BY <1>1, <1>5, <1>11, <1>15, SpentType
    <2> QED  BY <1>9, <1>11, <1>15, <1>19, <2>1
<1> QED  BY <1>15, <1>18, <1>19, <1>20

(* The merges so far, of weight m in all, saved m of the cost of any code  *)
(* for the byte values U with the frequencies F: what is left to pay is at *)
(* least the cost of some code for the slots S with the weights r.         *)
Saves(m, F, U, r, S, d) ==
    \A l \in [Slots -> 0..d] : Kraft(l, U, d) =>
        \E k \in [Slots -> 0..d] : Kraft(k, S, d) /\ Cost(r, k) + m <= Cost(F, l)

(* And the forest up attains it: a code for S with words of up to b bits   *)
(* gives each byte value the word of the root of its tree and the path     *)
(* down from there.                                                        *)
Follows(h, up) == \A i \in Slots : up[i] # None => h[i] = h[up[i]] + 1

Attains(m, F, U, r, S, d, up, b) ==
    \A k \in [Slots -> 0..b] : Kraft(k, S, d) =>
        \E h \in [Slots -> 0..d] :
            /\ \A i \in S : h[i] = k[i]
            /\ Follows(h, up)
            /\ Kraft(h, U, d) /\ Cost(F, h) = Cost(r, k) + m

LEMMA SavesStep ==
    ASSUME NEW r, NEW h, NEW S, NEW x, NEW y, NEW z, Merging(r, h, S, x, y, z),
           NEW d \in Nat, NEW m \in Nat, NEW F \in [Slots -> Nat], NEW U,
           Saves(m, F, U, r, S, d)
    PROVE  Saves(m + r[x] + r[y], F, U, h, After(S, x, y, z), d)
PROOF
<1>1. PICK a \in Nat, b \in Nat : a = r[x] /\ b = r[y]
    BY DEF Merging
<1>2. r \in [Slots -> Nat] /\ h \in [Slots -> Nat]
    <2>1. a + b \in Nat
        OBVIOUS
    <2> QED  BY <1>1, <2>1 DEF Merging
<1>3. SUFFICES ASSUME NEW l \in [Slots -> 0..d], Kraft(l, U, d)
               PROVE  \E k \in [Slots -> 0..d] :
                         /\ Kraft(k, After(S, x, y, z), d)
                         /\ Cost(h, k) + (m + r[x] + r[y]) <= Cost(F, l)
    BY DEF Saves
<1>4. PICK k \in [Slots -> 0..d] : Kraft(k, S, d) /\ Cost(r, k) + m <= Cost(F, l)
    BY <1>3 DEF Saves
<1>5. PICK e \in [Slots -> 0..d] :
          /\ Kraft(e, After(S, x, y, z), d)
          /\ Cost(h, e) + r[x] + r[y] <= Cost(r, k)
    BY <1>4, MergeSaves
<1>6. Cost(h, e) \in Nat /\ Cost(r, k) \in Nat /\ Cost(F, l) \in Nat
    BY <1>2, SpentType
<1>7. Cost(h, e) + (m + r[x] + r[y]) <= Cost(F, l)
    BY <1>1, <1>4, <1>5, <1>6
<1> QED  BY <1>5, <1>7

LEMMA AttainsStep ==
    ASSUME NEW r, NEW h, NEW S, NEW x, NEW y, NEW z, Merging(r, h, S, x, y, z),
           NEW d \in Nat, NEW m \in Nat, NEW F \in [Slots -> Nat],
           NEW U \in SUBSET Slots, z \notin U, F[z] = 0,
           NEW up, NEW b \in 1..d,
           up[z] = None, \A i \in Slots : up[i] \in (Slots \ {z}) \cup {None},
           NEW over, over = [i \in Slots |-> IF i \in {x, y} THEN z ELSE up[i]],
           Attains(m, F, U, r, S, d, up, b)
    PROVE  Attains(m + r[x] + r[y], F, U, h, After(S, x, y, z), d, over, b - 1)
PROOF
<1>1. /\ r \in [Slots -> Nat] /\ S \subseteq Slots
      /\ x \in Slots /\ y \in Slots /\ z \in Slots /\ x # y /\ x # z /\ y # z
      /\ x \in S /\ y \in S /\ z \notin S
    BY DEF Merging
<1>2. PICK v \in Nat, w \in Nat : v = r[x] /\ w = r[y]
    BY <1>1
<1>3. h \in [Slots -> Nat]
    <2>1. v + w \in Nat
        OBVIOUS
    <2> QED  BY <1>1, <1>2, <2>1 DEF Merging
<1>4. SUFFICES ASSUME NEW l \in [Slots -> 0..b-1], Kraft(l, After(S, x, y, z), d)
               PROVE  \E e \in [Slots -> 0..d] :
                         /\ \A i \in After(S, x, y, z) : e[i] = l[i]
                         /\ Follows(e, over)
                         /\ Kraft(e, U, d)
                         /\ Cost(F, e) = Cost(h, l) + (m + r[x] + r[y])
    BY DEF Attains
<1>5. PICK n \in 0..b-1 : n = l[z]
    BY <1>1
<1>6. PICK k : k = [i \in Slots |-> IF i \in {x, y} THEN n + 1 ELSE l[i]]
    OBVIOUS
<1>7. /\ k \in [Slots -> 0..b] /\ k \in [Slots -> 0..d] /\ l \in [Slots -> 0..d]
      /\ k[x] = l[z] + 1 /\ k[y] = l[z] + 1
      /\ \A i \in Slots : i \notin {x, y, z} => k[i] = l[i]
    <2>1. n + 1 \in 0..b /\ 0..b-1 \subseteq 0..b /\ 0..b \subseteq 0..d
        OBVIOUS
    <2>2. k \in [Slots -> 0..b]
        BY <1>6, <2>1
    <2>3. k[x] = n + 1 /\ k[y] = n + 1 /\ \A i \in Slots : i \notin {x, y, z} => k[i] = l[i]
        BY <1>1, <1>6
    <2> QED  BY <1>5, <2>1, <2>2, <2>3
<1>8. /\ Kraft(k, S, d)
      /\ Cost(r, k) = Cost(h, l) + r[x] + r[y]
    BY <1>4, <1>7, Siblings
<1>9. PICK g \in [Slots -> 0..d] :
          /\ \A i \in S : g[i] = k[i]
          /\ Follows(g, up)
          /\ Kraft(g, U, d) /\ Cost(F, g) = Cost(r, k) + m
    BY <1>7, <1>8 DEF Attains
<1>10. PICK e : e = [g EXCEPT ![z] = n]
    OBVIOUS
<1>11. /\ e \in [Slots -> 0..d] /\ e[z] = n
       /\ \A i \in Slots : i # z => e[i] = g[i]
    <2>1. n \in 0..d
        OBVIOUS
    <2> QED  BY <1>1, <1>9, <1>10, <2>1
<1>12. \A i \in After(S, x, y, z) : e[i] = l[i]
    <2>1. ASSUME NEW i \in S, i \notin {x, y} PROVE e[i] = l[i]
        BY <1>1, <1>7, <1>9, <1>11, <2>1
    <2> QED  BY <1>5, <1>11, <2>1 DEF After
<1>13. Follows(e, over)
    <2>1. SUFFICES ASSUME NEW i \in Slots, over[i] # None PROVE e[i] = e[over[i]] + 1
        BY DEF Follows
    <2>2. CASE i \in {x, y}
        <3>1. over[i] = z /\ e[i] = k[i] /\ k[i] = n + 1
            BY <1>1, <1>5, <1>7, <1>9, <1>11, <2>2
        <3> QED  BY <1>11, <3>1
    <2>3. CASE i \notin {x, y}
        <3>1. over[i] = up[i] /\ up[i] \in Slots /\ up[i] # z /\ i # z
            BY <2>1, <2>3
        <3>2. g[i] = g[up[i]] + 1
            BY <1>9, <2>1, <3>1 DEF Follows
        <3> QED  BY <1>11, <3>1, <3>2
    <2> QED  BY <2>2, <2>3
<1>14. Kraft(e, U, d)
    <2>1. \A i \in U : e[i] = g[i]
        BY <1>11
    <2>2. Shares(e, U, d) = Shares(g, U, d)
        BY <2>1 DEF Shares
    <2> QED  BY <1>9, <2>2 DEF Kraft
<1>15. Cost(F, e) = Cost(F, g)
    <2>1. \A i \in Slots : F[i] * e[i] = F[i] * g[i]
        <3>1. ASSUME NEW i \in Slots PROVE F[i] * e[i] = F[i] * g[i]
            <4>1. CASE i # z
                BY <1>11, <4>1
            <4>2. CASE i = z
                <5>1. e[z] \in Nat /\ g[z] \in Nat
                    BY <1>1, <1>9, <1>11
                <5>2. 0 * e[z] = 0 /\ 0 * g[z] = 0
                    BY <5>1
                <5> QED  BY <4>2, <5>2
            <4> QED  BY <4>1, <4>2
        <3> QED  BY <3>1
    <2>2. Spent(F, e) = Spent(F, g)
        BY <2>1 DEF Spent
    <2> QED  BY <2>2 DEF Cost
<1>16. Cost(F, e) = Cost(h, l) + (m + r[x] + r[y])
    <2>1. Cost(h, l) \in Nat /\ Cost(r, k) \in Nat
        BY <1>1, <1>3, <1>7, SpentType
    <2> QED  BY <1>2, <1>8, <1>9, <1>15, <2>1
<1> QED  BY <1>11, <1>12, <1>13, <1>14, <1>16

(* Once a single slot is left, the forest has the lengths of a cheapest    *)
(* code: none is cheaper, with words of whatever length.                   *)
Cheapest(F, U, d, h) ==
    /\ h \in [Slots -> 0..d] /\ Kraft(h, U, d)
    /\ \A n \in Nat : \A l \in [Slots -> 0..n] :
          Kraft(l, U, n) => Cost(F, h) <= Cost(F, l)

LEMMA LastMerge ==
    ASSUME NEW d \in Nat, NEW m \in Nat, NEW F \in [Slots -> Nat], NEW U,
           NEW r \in [Slots -> Nat], NEW t \in Slots, NEW up,
           \A n \in Nat : Saves(m, F, U, r, {t}, n),
           Attains(m, F, U, r, {t}, d, up, 0)
    PROVE  \E h : Cheapest(F, U, d, h) /\ h[t] = 0 /\ Follows(h, up)
PROOF
<1>1. PICK k : k = [i \in Slots |-> 0]
    OBVIOUS
<1>2. k \in [Slots -> 0..0] /\ k \in [Slots -> 0..d] /\ \A i \in Slots : k[i] = 0
    BY <1>1
<1>3. PICK z : z = [i \in Slots |-> 0]
    OBVIOUS
<1>4. z \in [Slots -> Nat] /\ (\A i \in Slots : z[i] = 0) /\ Weight(z, 2*K) = 0
    <2>1. PICK n \in Nat : n = 2*K
        BY KAssumption
    <2>2. Multiple(z, 0, z, n)
        BY <1>3, <2>1 DEF Slots, Multiple
    <2>3. 0 \in Nat
        OBVIOUS
    <2>4. Weight(z, n) = 0 * Weight(z, n)
        BY <2>2, <2>3, SumScale
    <2>5. z \in [Slots -> Nat]
        BY <1>3
    <2>6. Weight(z, 2*K) \in Nat
        BY <2>5, SumOfSlots
    <2> QED  BY <1>3, <2>1, <2>4, <2>5, <2>6
<1>5. Kraft(k, {t}, d)
    <2>1. PICK f : f = Shares(k, {t}, d)
        OBVIOUS
    <2>2. f \in [Slots -> Nat] /\ f[t] = Power(d) /\ Power(d) \in Nat
        <3>1. d - 0 = d
            OBVIOUS
        <3>2. f[t] = Power(d - 0)
            BY <1>2, <2>1 DEF Shares
        <3> QED  BY <1>2, <2>1, <3>1, <3>2, SharesType, PowerPositive
    <2>3. \A i \in Slots : i # t => f[i] = z[i]
        BY <1>4, <2>1 DEF Shares
    <2>4. /\ Weight(z, 2*K) \in Nat /\ Weight(f, 2*K) \in Nat
          /\ Weight(f, 2*K) + z[t] = Weight(z, 2*K) + f[t]
        BY <1>4, <2>2, <2>3, SlotChange
    <2>5. Weight(f, 2*K) = Power(d)
        BY <1>4, <2>2, <2>4
    <2> QED  BY <2>1, <2>2, <2>5 DEF Kraft
<1>6. Cost(r, k) = 0
    <2>1. \A i \in Slots : r[i] * k[i] = 0
        BY <1>2
    <2>2. Spent(r, k) = z
        BY <1>3, <2>1 DEF Spent
    <2> QED  BY <1>4, <2>2 DEF Cost
<1>7. PICK h \in [Slots -> 0..d] :
          /\ \A i \in {t} : h[i] = k[i]
          /\ Follows(h, up)
          /\ Kraft(h, U, d) /\ Cost(F, h) = Cost(r, k) + m
    BY <1>2, <1>5 DEF Attains
<1>8. ASSUME NEW n \in Nat, NEW l \in [Slots -> 0..n], Kraft(l, U, n)
      PROVE  Cost(F, h) <= Cost(F, l)
    <2>1. PICK e \in [Slots -> 0..n] : Cost(r, e) + m <= Cost(F, l)
        BY <1>8 DEF Saves
    <2>2. Cost(r, e) \in Nat /\ Cost(F, l) \in Nat
        BY SpentType
    <2> QED  BY <1>6, <1>7, <2>1, <2>2
<1>9. Cheapest(F, U, d, h)
    BY <1>7, <1>8 DEF Cheapest
<1>10. h[t] = 0
    BY <1>2, <1>7
<1> QED  BY <1>7, <1>9, <1>10

-----------------------------------------------------------------------------
(* The cost of the tree.                                                   *)

(* While the tree grows, its merges are those of a cheapest code; the      *)
(* depth of a leaf in the finished tree, but for the single-child root, is *)
(* the length of its word in such a code.                                  *)
Below(h, up, top) == \A i \in Slots :
    /\ up[i] = top => h[i] = 0
    /\ up[i] \notin {None, top} => h[i] = h[up[i]] + 1

CostInv ==
    /\ Building => \E m \in Nat :
         /\ \A d \in Nat : Saves(m, Block, Used, rates, Active, d)
         /\ Attains(m, Block, Used, rates, Active, Longest, parent, K + Longest - node)
    /\ pc = "done" /\ Used # {} =>
         \E h : Cheapest(Block, Used, Longest, h) /\ Below(h, parent, root)

LEMMA BlockType ==
    ASSUME TypeOK
    PROVE  /\ Block \in [Slots -> Nat] /\ Used \in SUBSET Slots
           /\ \A i \in Slots : i \notin Used => Block[i] = 0
           /\ \A i \in Slots : i \in Used => Block[i] = freqs[i]
PROOF
<1>1. Symbols \subseteq Slots
    BY KAssumption DEF Symbols, Slots
<1>2. \A i \in Used : i \in Symbols /\ freqs[i] \in Nat
    BY DEF Used, TypeOK
<1> QED  BY <1>1, <1>2 DEF Block

LEMMA LongestType ==
    ASSUME TypeOK, Used # {}
    PROVE  Longest \in Nat
PROOF
<1>1. Cardinality(Used) # 0
    BY FiniteSlots, FS_EmptySet
<1> QED  BY <1>1, FiniteSlots DEF Longest

(* Before the first merge nothing is saved, and every code is attained.    *)
LEMMA EnterCost ==
    ASSUME IInv, Enter
    PROVE  CostInv'
PROOF
<1>1. /\ pc = "call" /\ node' = K
      /\ UNCHANGED <<rates, freqs, parent>>
      /\ pc' = IF hstart \in Slots THEN "skip" ELSE "done"
    BY DEF Enter, histVars, treeVars
<1>2. /\ Used' = Used /\ Block' = Block /\ Longest' = Longest /\ Active' = Active
    BY <1>1 DEF Used, Block, Longest, Active
<1>3. \A i \in Slots : rates[i] = IF i \in Symbols THEN freqs[i] ELSE 0
    BY <1>1 DEF IInv, HistogramInv
<1>4. rates = Block /\ Active = Used
    <2>1. \A i \in Slots : rates[i] = IF i \in Used THEN freqs[i] ELSE 0
        BY <1>3 DEF Used
    <2>2. rates \in [Slots -> Nat]
        BY DEF IInv, TypeOK
    <2>3. Symbols \subseteq Slots
        BY KAssumption DEF Symbols, Slots
    <2> QED  BY <1>3, <2>1, <2>2, <2>3 DEF Block, Used, Active
<1>5. CASE hstart \in Slots
    <2>1. Used # {}
        BY <1>1, <1>5 DEF IInv, HistogramInv, NoStart, Slots
    <2>2. PICK d \in Nat : d = Longest /\ K + Longest - node' = d
        BY <1>1, <2>1, LongestType, KAssumption DEF IInv
    <2>3. Block \in [Slots -> Nat]
        BY BlockType DEF IInv
    <2>4. \A l \in [Slots -> 0..d] : Cost(Block, l) \in Nat
        BY <2>3, SpentType
    <2>5. \A n \in Nat : Saves(0, Block, Used, Block, Used, n)
        <3>1. SUFFICES ASSUME NEW n \in Nat, NEW l \in [Slots -> 0..n], Kraft(l, Used, n)
                       PROVE  Kraft(l, Used, n) /\ Cost(Block, l) + 0 <= Cost(Block, l)
            BY Zenon DEF Saves
        <3>2. Cost(Block, l) \in Nat
            BY <2>3, SpentType
        <3> QED  BY <3>1, <3>2
    <2>6. \A i \in Slots : parent[i] = None
        BY <1>1 DEF IInv, BareInv, Bare
    <2>7. Attains(0, Block, Used, Block, Used, d, parent, d)
        <3>1. SUFFICES ASSUME NEW k \in [Slots -> 0..d], Kraft(k, Used, d)
                       PROVE  /\ \A i \in Used : k[i] = k[i]
                              /\ Follows(k, parent)
                              /\ Kraft(k, Used, d)
                              /\ Cost(Block, k) = Cost(Block, k) + 0
            BY Zenon DEF Attains
        <3>2. Cost(Block, k) \in Nat
            BY <2>4
        <3>3. Follows(k, parent)
            BY <2>6 DEF Follows
        <3> QED  BY <3>1, <3>2, <3>3
    <2>8. \E m \in Nat :
             /\ \A n \in Nat : Saves(m, Block, Used, rates, Active, n)
             /\ Attains(m, Block, Used, rates, Active, Longest, parent, K + Longest - node')
        <3>1. 0 \in Nat
            OBVIOUS
        <3> QED  BY <1>4, <2>2, <2>5, <2>7, <3>1
    <2> QED  BY <1>1, <1>2, <1>5, <2>8 DEF CostInv
<1>6. CASE hstart \notin Slots
    <2>1. Used = {}
        <3>1. hstart = NoStart /\ \A s \in Used : hstart <= s
            BY <1>1, <1>6, KAssumption DEF IInv, HistogramInv, Used, Symbols, Slots
        <3>2. \A s \in Used : s \in 0..K-1
            BY DEF Used, Symbols
        <3> QED  BY <3>1, <3>2, KAssumption DEF NoStart
    <2> QED  BY <1>1, <1>2, <1>6, <2>1 DEF CostInv, Building
<1> QED  BY <1>5, <1>6

LEMMA MergeCost ==
    ASSUME IInv, CostInv, Merge
    PROVE  CostInv'
PROOF
<1>1. /\ pc = "scan" /\ j = node /\ index1 # None
      /\ parent' = [n \in Slots |-> IF n \in Pair THEN node ELSE parent[n]]
      /\ rates' = MergedRates
      /\ node' = node + 1 /\ freqs' = freqs
      /\ root' = IF index2 = None THEN node ELSE root
      /\ pc'   = IF index2 = None THEN "done" ELSE "skip"
    BY DEF Merge, FoundOne
<1>2. /\ Building /\ Growing /\ TypeOK
      /\ Cardinality(Active) + node = Cardinality(Used) + K
    BY <1>1 DEF Building, Growing, IInv, ActiveInv
<1>3. /\ node \in K .. 2*K-1 /\ node \in Slots /\ node \in Nat
      /\ node # None /\ node \notin Symbols /\ node \notin Used
    BY <1>2, NodeBound, KAssumption DEF Slots, Symbols, None, Used
<1>4. \A i \in Active : i \in Slots /\ i # None /\ i < node /\ rates[i] \in Nat \ {0}
    BY <1>2 DEF IInv, TypeOK, ActiveInv, Active, Slots, None
<1>5. /\ index1 \in Active /\ rate1 = rates[index1]
      /\ \A i \in Active : rate1 <= rates[i]
      /\ index2 = None => Active = {index1}
      /\ index2 # None => /\ index2 \in Active /\ index2 # index1
                          /\ rate2 = rates[index2]
                          /\ \A i \in Active \ {index1} : rate2 <= rates[i]
    <2>1. Active # {} /\ \A i \in Active : i < j
        BY <1>1, <1>2, <1>4 DEF IInv, ActiveInv
    <2> QED  BY <1>1, <2>1 DEF IInv, ScanInv
<1>6. /\ Used' = Used /\ Block' = Block /\ Longest' = Longest
    BY <1>1 DEF Used, Block, Longest
<1>7. Used # {}
    <2>1. Cardinality(Active) # 0
        BY <1>5, FiniteSlots, FS_EmptySet
    <2>2. Cardinality(Used) # 0
        BY <1>2, <1>3, <2>1, KAssumption, FiniteSlots
    <2> QED  BY <2>2, FS_EmptySet
<1>8. PICK d \in Nat : d = Longest /\ K + Longest - node = Cardinality(Active) - 1
                      /\ K + Longest - (node + 1) = Cardinality(Active) - 2
                      /\ Cardinality(Active) - 1 <= d
    <2>1. K \in Nat
        BY KAssumption
    <2> QED  BY <1>2, <1>3, <1>7, <2>1, LongestType, FiniteSlots DEF Longest
<1>9. PICK F : F = Block
    OBVIOUS
<1>10. /\ F \in [Slots -> Nat] /\ F[node] = 0 /\ Used \in SUBSET Slots
       /\ rates \in [Slots -> Nat] /\ rates[node] = 0 /\ Active \subseteq Slots
       /\ node \notin Active
    <2>1. F \in [Slots -> Nat] /\ F[node] = 0 /\ Used \in SUBSET Slots
        BY <1>2, <1>3, <1>9, BlockType
    <2>2. node \notin Active
        BY <1>3, <1>4
    <2> QED  BY <1>2, <1>3, <2>1, <2>2 DEF TypeOK, Active
<1>11. PICK m \in Nat :
          /\ \A e \in Nat : Saves(m, F, Used, rates, Active, e)
          /\ Attains(m, F, Used, rates, Active, d, parent, Cardinality(Active) - 1)
    BY <1>2, <1>8, <1>9 DEF CostInv
<1>12. /\ parent[node] = None
       /\ \A i \in Slots : parent[i] \in (Slots \ {node}) \cup {None}
    <2>1. node \notin live
        BY <1>2, <1>3 DEF IInv, NodesInv, Picked, Merged
    <2>2. \A i \in Slots : parent[i] \in Slots \cup {None}
        BY <1>2 DEF TypeOK
    <2>3. \A i \in Slots : parent[i] # node
        <3>1. node \notin Merged
            BY <1>3 DEF Merged
        <3> QED  BY <1>2, <1>3, <3>1 DEF IInv, PointersInv
    <2> QED  BY <1>2, <1>3, <2>1, <2>2, <2>3 DEF IInv, PointersInv
<1>13. CASE index2 # None
    <2>1. PICK x, y, z : x = index1 /\ y = index2 /\ z = node
        OBVIOUS
    <2>2. Pair = {x, y}
        BY <1>1, <1>13, <2>1 DEF Pair
    <2>3. PICK h : h = rates'
        OBVIOUS
    <2>4. h = [i \in Slots |-> IF i \in {x, y} THEN 0
                               ELSE IF i = z THEN rates[x] + rates[y] ELSE rates[i]]
        BY <1>1, <1>5, <1>13, <2>1, <2>2, <2>3 DEF MergedRates
    <2>5. /\ x \in Active /\ y \in Active /\ x # y /\ z \in Slots \ Active
          /\ \A i \in Active : rates[x] <= rates[i]
          /\ \A i \in Active \ {x} : rates[y] <= rates[i]
        BY <1>3, <1>5, <1>10, <1>13, <2>1
    <2>6. Merging(rates, h, Active, x, y, z)
        BY <1>10, <2>1, <2>4, <2>5 DEF Merging
    <2>7. Active' = After(Active, x, y, z)
        <3>1. rates[x] \in Nat \ {0} /\ rates[y] \in Nat \ {0} /\ rates[x] + rates[y] # 0
            BY <1>4, <2>5
        <3>2. \A i \in Slots : h[i] # 0 <=> i \in After(Active, x, y, z)
            BY <2>4, <2>5, <3>1 DEF After, Active
        <3>3. \A i \in After(Active, x, y, z) : i \in Slots
            BY <1>10, <2>5 DEF After
        <3>4. Active' = {i \in Slots : h[i] # 0}
            BY <2>3 DEF Active
        <3> QED  BY <3>2, <3>3, <3>4
    <2>8. PICK b \in 1..d : b = Cardinality(Active) - 1
        <3>1. Cardinality({x, y}) = 2 /\ Cardinality({x, y}) <= Cardinality(Active)
            <4>1. {x, y} \subseteq Active /\ IsFiniteSet(Active)
                BY <2>5, FiniteSlots
            <4>2. Cardinality({x, y}) = 2
                <5>1. IsFiniteSet({x}) /\ Cardinality({x}) = 1
                    BY FS_Singleton
                <5>2. Cardinality({x} \cup {y}) = Cardinality({x}) + 1
                    BY <2>5, <5>1, FS_AddElement
                <5>3. {x} \cup {y} = {x, y}
                    OBVIOUS
                <5> QED  BY <5>1, <5>2, <5>3
            <4> QED  BY <4>1, <4>2, FS_Subset
        <3> QED  BY <1>8, <3>1, FiniteSlots
    <2>9. parent' = [i \in Slots |-> IF i \in {x, y} THEN z ELSE parent[i]]
        BY <1>1, <2>1, <2>2
    <2>10. PICK n \in Nat : n = m + rates[x] + rates[y]
        BY <1>4, <2>5
    <2>11. \A e \in Nat : Saves(n, F, Used, h, After(Active, x, y, z), e)
        <3>1. ASSUME NEW e \in Nat PROVE Saves(n, F, Used, h, After(Active, x, y, z), e)
            BY <1>10, <1>11, <2>6, <2>10, SavesStep
        <3> QED  BY <3>1
    <2>12. Attains(n, F, Used, h, After(Active, x, y, z), d, parent', b - 1)
        <3>1. PICK up : up = parent
            OBVIOUS
        <3>2. PICK over : over = parent'
            OBVIOUS
        <3>3. /\ over = [i \in Slots |-> IF i \in {x, y} THEN z ELSE up[i]]
              /\ up[z] = None /\ \A i \in Slots : up[i] \in (Slots \ {z}) \cup {None}
            BY <1>12, <2>1, <2>9, <3>1, <3>2
        <3>4. Attains(m, F, Used, rates, Active, d, up, b)
            BY <1>11, <2>8, <3>1
        <3>5. F \in [Slots -> Nat] /\ F[z] = 0 /\ Used \in SUBSET Slots /\ z \notin Used
            BY <1>3, <1>10, <2>1
        <3>6. Attains(m + rates[x] + rates[y], F, Used, h, After(Active, x, y, z), d, over, b - 1)
            BY <2>6, <3>3, <3>4, <3>5, AttainsStep
        <3> QED  BY <2>10, <3>2, <3>6
    <2>13. K + Longest - node' = b - 1
        BY <1>1, <1>8, <2>8, FiniteSlots
    <2>14. pc' = "skip"
        BY <1>1, <1>13
    <2> QED  BY <1>6, <1>8, <1>9, <2>3, <2>7, <2>11, <2>12, <2>13, <2>14 DEF CostInv
<1>14. CASE index2 = None
    <2>1. PICK t \in Slots : t = index1 /\ Active = {t}
        BY <1>4, <1>5, <1>14
    <2>2. Cardinality(Active) - 1 = 0
        BY <2>1, FS_Singleton
    <2>3. PICK up : up = parent
        OBVIOUS
    <2>4. /\ \A e \in Nat : Saves(m, F, Used, rates, {t}, e)
          /\ Attains(m, F, Used, rates, {t}, d, up, 0)
        BY <1>11, <2>1, <2>2, <2>3
    <2>5. PICK h : Cheapest(F, Used, d, h) /\ h[t] = 0 /\ Follows(h, up)
        BY <1>10, <2>4, LastMerge
    <2>6. Pair = {t}
        BY <1>1, <1>14, <2>1 DEF Pair
    <2>7. Below(h, parent', node)
        <3>1. SUFFICES ASSUME NEW i \in Slots
                       PROVE  /\ parent'[i] = node => h[i] = 0
                              /\ parent'[i] \notin {None, node} => h[i] = h[parent'[i]] + 1
            BY DEF Below
        <3>2. parent'[i] = IF i = t THEN node ELSE up[i]
            BY <1>1, <2>3, <2>6
        <3>3. up[i] # node /\ (up[i] # None => h[i] = h[up[i]] + 1)
            BY <1>3, <1>12, <2>3, <2>5 DEF Follows
        <3> QED  BY <2>5, <3>2, <3>3
    <2>8. pc' = "done" /\ root' = node
        BY <1>1, <1>14
    <2> QED  BY <1>6, <1>8, <1>9, <2>5, <2>7, <2>8 DEF CostInv, Building
<1> QED  BY <1>13, <1>14

LEMMA CostStep ==
    ASSUME IInv, CostInv, [Next]_vars
    PROVE  CostInv'
PROOF
<1>1. CASE Enter
    BY <1>1, EnterCost
<1>2. CASE SkipZero \/ BeginScan \/ ScanSlot \/ UNCHANGED vars
    <2>1. /\ UNCHANGED <<rates, freqs, node, parent, root>>
          /\ (Building' => Building) /\ (pc' = "done" => pc = "done")
        BY <1>2 DEF SkipZero, BeginScan, ScanSlot, vars, histVars, treeVars, Building
    <2>2. /\ Used' = Used /\ Block' = Block /\ Longest' = Longest /\ Active' = Active
        BY <2>1 DEF Used, Block, Longest, Active
    <2> QED  BY <2>1, <2>2 DEF CostInv
<1>3. CASE Merge
    BY <1>3, MergeCost
<1>4. CASE \/ \E counts \in [Symbols -> Counts] : Populate(counts)
           \/ MergeFails \/ NextBlock \/ Release
    <2>1. pc' \in {"call", "failed", "idle"}
        BY <1>4 DEF Populate, MergeFails, NextBlock, Release, TakeDown
    <2> QED  BY <2>1 DEF CostInv, Building
<1> QED  BY <1>1, <1>2, <1>3, <1>4 DEF Next, Build

(* The depths of the nodes are the solution of their definition.           *)
LEMMA DepthIs ==
    ASSUME \A n \in Slots : parent[n] # None => parent[n] \in Slots /\ n < parent[n],
           NEW D \in [Slots -> Nat],
           \A n \in Slots : D[n] = IF parent[n] = None THEN 0 ELSE 1 + D[parent[n]]
    PROVE  \A s \in Slots : Depth(s) = D[s]
PROOF
<1> DEFINE At(f, n) == IF parent[n] = None THEN 0 ELSE 1 + f[parent[n]]
           Step(f)  == [n \in Slots |-> At(f, n)]
           depth    == CHOOSE f : f = [n \in Slots |-> IF parent[n] = None
                                                       THEN 0 ELSE 1 + f[parent[n]]]
<1>1. D = Step(D)
    <2>1. \A n \in Slots : D[n] = At(D, n)
        OBVIOUS
    <2>2. D = [n \in Slots |-> D[n]]
        OBVIOUS
    <2> HIDE DEF At
    <2> QED  BY <2>1, <2>2
<1>2. depth = Step(depth)
    <2>1. depth = CHOOSE f : f = Step(f)
        OBVIOUS
    <2> HIDE DEF depth, Step
    <2> QED  BY <1>1, <2>1
<1>3. \A s \in Slots : Depth(s) = depth[s]
    BY DEF Depth
<1> HIDE DEF depth
<1>4. \A n \in Slots : depth[n] = IF parent[n] = None THEN 0 ELSE 1 + depth[parent[n]]
    <2> DEFINE F == Step(depth)
    <2>1. \A n \in Slots : F[n] = IF parent[n] = None THEN 0 ELSE 1 + depth[parent[n]]
        OBVIOUS
    <2> HIDE DEF F
    <2>2. depth = F
        BY <1>2 DEF F
    <2> QED  BY <2>1, <2>2
<1> DEFINE T    == {n \in Slots : depth[n] = D[n]}
           rank == [n \in Slots |-> 2*K - n]
<1>5. PICK N \in Nat : N = 2*K
    BY KAssumption
<1>6. rank \in [Slots -> 0..N] /\ \A n \in Slots : rank[n] = N - n /\ n \in Nat
    BY <1>5 DEF Slots
<1>7. Inherited(Slots, rank, T)
    <2>1. SUFFICES ASSUME NEW n \in Slots, \A e \in Slots : rank[e] < rank[n] => e \in T
                   PROVE  n \in T
        BY Zenon DEF Inherited
    <2>2. CASE parent[n] = None
        BY <1>4, <2>2
    <2>3. CASE parent[n] # None
        <3>1. PICK p \in Slots : p = parent[n] /\ n < p
            BY <2>3
        <3>2. rank[p] < rank[n]
            BY <1>6, <3>1
        <3>3. depth[p] = D[p]
            BY <2>1, <3>2
        <3>4. depth[n] = 1 + depth[p] /\ D[n] = 1 + D[p]
            BY <1>4, <2>3, <3>1
        <3> QED  BY <3>3, <3>4
    <2> QED  BY <2>2, <2>3
<1>8. Slots \subseteq T
    <2> HIDE DEF T, rank
    <2> QED  BY <1>6, <1>7, RankedInduction
<1> QED  BY <1>3, <1>8

(* The bits and the Kraft sum of the byte values are those of their slots. *)
LEMMA CodeOfSlots ==
    ASSUME TypeOK, NEW d \in Nat, NEW l \in [Used -> 0..d],
           NEW e \in [Slots -> 0..d], \A s \in Used : e[s] = l[s]
    PROVE  /\ Bits(l) = Cost(Block, e)
           /\ l \in Codes(d) <=> Kraft(e, Used, d)
PROOF
<1>1. PICK n \in Nat : n = 2*K /\ K \in 0..n
    BY KAssumption
<1>2. Used \subseteq Symbols /\ Symbols = 0..K-1 /\ Symbols \subseteq Slots /\ Slots = 0..n-1
    BY <1>1 DEF Used, Symbols, Slots
<1>3. /\ Block \in [Slots -> Nat]
      /\ \A i \in Slots : i \notin Used => Block[i] = 0
      /\ \A i \in Slots : i \in Used => Block[i] = freqs[i]
    BY BlockType
<1>4. Bits(l) = Cost(Block, e)
    <2>1. PICK f : f = Spent(Block, e)
        OBVIOUS
    <2>2. PICK g : g = [s \in Symbols |-> IF s \in Used THEN freqs[s] * l[s] ELSE 0]
        OBVIOUS
    <2>3. /\ f \in [Slots -> Nat]
          /\ \A i \in Slots : f[i] = Block[i] * e[i] /\ e[i] \in Nat
        BY <1>3, <2>1, SpentType
    <2>4. \A i \in Symbols : f[i] \in Nat /\ g[i] = f[i]
        BY <1>2, <1>3, <2>2, <2>3
    <2>5. \A i \in 0..K-1 : f[i] \in Nat /\ g[i] = f[i]
        BY <1>2, <2>4
    <2>6. \A i \in K..n-1 : f[i] = 0
        <3>1. \A i \in K..n-1 : i \in Slots /\ i \notin Used
            BY <1>1, <1>2
        <3> QED  BY <1>3, <2>3, <3>1
    <2>7. Weight(f, n) = Weight(g, K)
        BY <1>1, <2>5, <2>6, SumOfPrefix
    <2> QED  BY <1>1, <2>1, <2>2, <2>7 DEF Bits, Cost
<1>5. l \in Codes(d) <=> Kraft(e, Used, d)
    <2>1. PICK f : f = Shares(e, Used, d)
        OBVIOUS
    <2>2. PICK g : g = [s \in Symbols |-> IF s \in Used THEN Power(d - l[s]) ELSE 0]
        OBVIOUS
    <2>3. f \in [Slots -> Nat]
        BY <2>1, SharesType
    <2>4. \A i \in Symbols : f[i] \in Nat /\ g[i] = f[i]
        BY <1>2, <2>1, <2>2, <2>3 DEF Shares
    <2>5. \A i \in 0..K-1 : f[i] \in Nat /\ g[i] = f[i]
        BY <1>2, <2>4
    <2>6. \A i \in K..n-1 : f[i] = 0
        <3>1. \A i \in K..n-1 : i \in Slots /\ i \notin Used
            BY <1>1, <1>2
        <3> QED  BY <2>1, <3>1 DEF Shares
    <2>7. Weight(f, n) = Weight(g, K)
        BY <1>1, <2>5, <2>6, SumOfPrefix
    <2>8. l \in Codes(d) <=> Weight(g, K) <= Power(d)
        BY <2>2 DEF Codes
    <2> QED  BY <1>1, <2>1, <2>7, <2>8 DEF Kraft
<1> QED  BY <1>4, <1>5

(* The word of a byte value is its word in a cheapest code and the bit of  *)
(* the root.                                                               *)
LEMMA WordOfLeaf ==
    ASSUME IInv, CostInv, pc = "done", Used # {}
    PROVE  \E h : /\ Cheapest(Block, Used, Longest, h)
                  /\ \A s \in Used : Depth(s) = h[s] + 1
PROOF
<1>1. PICK h : Cheapest(Block, Used, Longest, h) /\ Below(h, parent, root)
    BY DEF CostInv
<1>2. PICK d \in Nat : d = Longest
    BY LongestType DEF IInv
<1>3. /\ h \in [Slots -> 0..d]
      /\ \A i \in Slots : /\ parent[i] = root => h[i] = 0
                          /\ parent[i] \notin {None, root} => h[i] = h[parent[i]] + 1
    BY <1>1, <1>2 DEF Cheapest, Below
<1>4. /\ Growing /\ root = node-1 /\ Active = {root}
      /\ root \in Slots /\ root # None /\ root \notin Symbols
    <2>1. Growing /\ root = node-1 /\ Active = {node-1} /\ node = Cardinality(Used) + K
        BY DEF Growing, IInv, ActiveInv
    <2>2. Cardinality(Used) # 0
        BY FiniteSlots, FS_EmptySet
    <2>3. node-1 \in K..2*K-1
        BY <2>1, <2>2, KAssumption, FiniteSlots
    <2> QED  BY <2>1, <2>3, KAssumption DEF Slots, Symbols, None
<1>5. /\ \A n \in Slots : parent[n] \in Slots \cup {None}
      /\ \A n \in Slots : parent[n] # None =>
            /\ n < parent[n] /\ (parent[n] # root => parent[parent[n]] # None)
      /\ parent[root] = None
      /\ \A s \in Used : s \in Slots /\ s # root /\ parent[s] # None
    <2>1. live = Picked \cup Merged /\ live \subseteq Slots
        BY <1>4 DEF IInv, NodesInv, TypeOK
    <2>2. \A n \in Slots : parent[n] # None => n \in live
        BY <1>4 DEF IInv, PointersInv
    <2>3. \A n \in live : parent[n] = None <=> n = root
        BY <1>4 DEF IInv, PointersInv
    <2>4. \A n \in Slots : parent[n] # None => n < parent[n] /\ parent[n] \in live
        BY <1>4, <2>1, <2>2 DEF IInv, PointersInv
    <2>5. root \in live
        BY <1>4, <2>1, KAssumption DEF Merged, Symbols, IInv, TypeOK
    <2>6. \A s \in Used : s \in Slots /\ s # root /\ s \in live
        <3>1. \A s \in Used : s \in Symbols /\ s \in Slots
            BY KAssumption DEF Used, Symbols, Slots
        <3>2. \A s \in Used : rates[s] = 0
            BY <1>4, <3>1 DEF Active
        <3> QED  BY <1>4, <2>1, <3>1, <3>2 DEF Picked
    <2>7. \A n \in Slots : parent[n] \in Slots \cup {None}
        BY DEF IInv, TypeOK
    <2> QED  BY <2>2, <2>3, <2>4, <2>5, <2>6, <2>7
<1>6. PICK D : D = [n \in Slots |-> IF parent[n] = None THEN 0 ELSE h[n] + 1]
    OBVIOUS
<1>7. /\ D \in [Slots -> Nat]
      /\ \A n \in Slots : D[n] = IF parent[n] = None THEN 0 ELSE 1 + D[parent[n]]
    <2>1. \A n \in Slots : h[n] \in Nat
        BY <1>3
    <2>2. D \in [Slots -> Nat]
        BY <1>6, <2>1
    <2>3. ASSUME NEW n \in Slots, parent[n] # None PROVE D[n] = 1 + D[parent[n]]
        <3>1. PICK p \in Slots : p = parent[n]
            BY <1>5, <2>3
        <3>2. D[n] = h[n] + 1 /\ h[n] \in Nat
            BY <1>6, <2>1, <2>3
        <3>3. CASE p = root
            <4>1. D[p] = 0 /\ h[n] = 0
                BY <1>3, <1>5, <1>6, <3>1, <3>3
            <4> QED  BY <3>1, <3>2, <4>1
        <3>4. CASE p # root
            <4>1. D[p] = h[p] + 1 /\ h[n] = h[p] + 1 /\ h[p] \in Nat
                BY <1>3, <1>5, <1>6, <2>1, <2>3, <3>1, <3>4
            <4> QED  BY <3>1, <3>2, <4>1
        <3> QED  BY <3>3, <3>4
    <2>4. \A n \in Slots : parent[n] = None => D[n] = 0
        BY <1>6
    <2> QED  BY <2>2, <2>3, <2>4
<1>8. \A s \in Used : Depth(s) = h[s] + 1
    <2>1. \A s \in Slots : Depth(s) = D[s]
        BY <1>5, <1>7, DepthIs
    <2> QED  BY <1>5, <1>6, <2>1
<1> QED  BY <1>1, <1>8

(* No code is shorter than that of the tree, but for the one bit, with     *)
(* words of whatever length.                                               *)
TreeBits == Bits([s \in Used |-> Depth(s)])

NoCodeIsShorter ==
    pc = "done" /\ Used # {} =>
        \A d \in Nat : \A l \in Codes(d) : TreeBits <= Bits(l) + Weight(freqs, K)

LEMMA CostIsLeast ==
    ASSUME IInv, CostInv
    PROVE  OptimalPlusOneBit /\ NoCodeIsShorter
PROOF
<1>1. SUFFICES ASSUME pc = "done", Used # {}
               PROVE  /\ TreeBits = Least({Bits(l) : l \in Codes(Longest)}) + Weight(freqs, K)
                      /\ \A d \in Nat : \A l \in Codes(d) :
                            TreeBits <= Bits(l) + Weight(freqs, K)
    BY DEF OptimalPlusOneBit, NoCodeIsShorter, TreeBits
<1>2. PICK h : /\ Cheapest(Block, Used, Longest, h)
               /\ \A s \in Used : Depth(s) = h[s] + 1
    BY <1>1, WordOfLeaf
<1>3. PICK d \in Nat : d = Longest
    BY <1>1, LongestType DEF IInv
<1>4. /\ h \in [Slots -> 0..d] /\ Kraft(h, Used, d)
      /\ \A n \in Nat : \A l \in [Slots -> 0..n] :
            Kraft(l, Used, n) => Cost(Block, h) <= Cost(Block, l)
    BY <1>2, <1>3 DEF Cheapest
<1>5. Used \subseteq Slots
    BY KAssumption DEF Used, Symbols, Slots
<1>6. PICK c : c = [s \in Used |-> h[s]]
    OBVIOUS
<1>7. /\ c \in Codes(d) /\ Bits(c) = Cost(Block, h)
    <2>1. c \in [Used -> 0..d] /\ \A s \in Used : h[s] = c[s]
        BY <1>4, <1>5, <1>6
    <2>2. TypeOK
        BY DEF IInv
    <2> QED  BY <1>4, <2>1, <2>2, CodeOfSlots
<1>8. Block \in [Slots -> Nat]
    BY BlockType DEF IInv
<1>9. ASSUME NEW n \in Nat, NEW l \in Codes(n)
       PROVE  Bits(l) \in Nat /\ Bits(c) <= Bits(l)
    <2>1. l \in [Used -> 0..n]
        BY DEF Codes
    <2>2. PICK e : e = [i \in Slots |-> IF i \in Used THEN l[i] ELSE 0]
        OBVIOUS
    <2>3. e \in [Slots -> 0..n] /\ \A s \in Used : e[s] = l[s]
        BY <1>5, <2>1, <2>2
    <2>4. Bits(l) = Cost(Block, e) /\ Kraft(e, Used, n)
        <3>1. TypeOK
            BY DEF IInv
        <3> QED  BY <2>1, <2>3, <3>1, CodeOfSlots
    <2>5. Cost(Block, h) <= Cost(Block, e)
        BY <1>4, <2>3, <2>4
    <2>6. Cost(Block, e) \in Nat
        BY <1>8, <2>3, SpentType
    <2> QED  BY <1>7, <2>4, <2>5, <2>6
<1>10. Least({Bits(l) : l \in Codes(d)}) = Bits(c)
    <2>1. PICK S : S = {Bits(l) : l \in Codes(d)}
        OBVIOUS
    <2>2. Bits(c) \in S /\ \A i \in S : i \in Nat /\ Bits(c) <= i
        BY <1>7, <1>9, <2>1
    <2>3. S \in SUBSET Nat /\ S # {}
        BY <2>2
    <2>4. Least(S) \in S /\ \A i \in S : Least(S) <= i
        BY <2>3, LeastExists
    <2>5. PICK a \in Nat, b \in Nat : a = Least(S) /\ b = Bits(c)
        BY <2>2, <2>4
    <2>6. a <= b /\ b <= a
        BY <2>2, <2>4, <2>5
    <2> QED  BY <2>1, <2>5, <2>6
<1>11. TreeBits = Bits(c) + Weight(freqs, K) /\ Weight(freqs, K) \in Nat
    <2>1. PICK f : f = [s \in Symbols |-> IF s \in Used THEN freqs[s] * c[s] ELSE 0]
        OBVIOUS
    <2>2. PICK g : g = [s \in Symbols |-> IF s \in Used THEN freqs[s] * [t \in Used |-> Depth(t)][s] ELSE 0]
        OBVIOUS
    <2>3. ASSUME NEW s \in Symbols
          PROVE  f[s] \in Nat /\ freqs[s] \in Nat /\ g[s] = f[s] + freqs[s]
        <3>1. freqs[s] \in Nat
            BY DEF IInv, TypeOK
        <3>2. CASE s \in Used
            <4>1. PICK a \in Nat, b \in Nat : a = freqs[s] /\ b = h[s]
                BY <1>4, <1>5, <3>1, <3>2
            <4>2. c[s] = b /\ Depth(s) = b + 1
                BY <1>2, <1>6, <3>2, <4>1
            <4>3. f[s] = a * b /\ g[s] = a * (b + 1)
                BY <2>1, <2>2, <3>2, <4>1, <4>2
            <4>4. a * (b + 1) = a * b + a /\ a * b \in Nat
                OBVIOUS
            <4> QED  BY <4>1, <4>3, <4>4
        <3>3. CASE s \notin Used
            <4>1. freqs[s] = 0 /\ f[s] = 0 /\ g[s] = 0
                BY <2>1, <2>2, <3>3 DEF Used
            <4> QED  BY <4>1
        <3> QED  BY <3>2, <3>3
    <2>4. K \in Nat /\ Symbols = 0..K-1
        BY KAssumption DEF Symbols
    <2>5. Weight(g, K) = Weight(f, K) + Weight(freqs, K)
        BY <2>3, <2>4, SumAdd
    <2>6. Weight(freqs, K) \in Nat
        <3>1. PICK a : PartialSums(freqs, K, a)
            BY <2>3, <2>4, SumRecursion
        <3> QED  BY <2>4, <3>1 DEF PartialSums
    <2> QED  BY <2>1, <2>2, <2>5, <2>6 DEF Bits, TreeBits
<1>12. ASSUME NEW n \in Nat, NEW l \in Codes(n)
       PROVE  TreeBits <= Bits(l) + Weight(freqs, K)
    <2>1. Bits(c) \in Nat /\ Bits(l) \in Nat /\ Bits(c) <= Bits(l)
        BY <1>3, <1>7, <1>9
    <2> QED  BY <1>11, <2>1
<1> QED  BY <1>3, <1>10, <1>11, <1>12

-----------------------------------------------------------------------------
(* The properties, as consequences of the invariant.                       *)

(* The histogram, the scan and the tree keep their types, through every    *)
(* call and failed call of huf_tree_from_histogram.                        *)
THEOREM TypeCorrect == Spec => []TypeOK
PROOF BY Invariance, PTL DEF IInv

(* The loops of huf_tree_from_histogram never index past the 2 * K entries *)
(* of shadow_tree and frequencies, whatever the block holds.               *)
THEOREM SlotBoundsHolds == Spec => []SlotBounds
PROOF
<1>1. IInv => SlotBounds
    <2> SUFFICES ASSUME IInv PROVE SlotBounds
        OBVIOUS
    <2>1. ASSUME Building PROVE node \in Slots
        BY KAssumption, <2>1, NodeBound DEF Slots
    <2>2. ASSUME pc = "skip" PROVE \E i \in start .. node-1 : rates[i] # 0
        <3>1. PICK i \in Active : start <= i /\ i < node
            BY <2>2 DEF IInv, ActiveInv, Building
        <3>2. i \in start .. node-1
            BY <3>1 DEF IInv, TypeOK, Active, Slots
        <3> QED  BY <3>1, <3>2 DEF Active
    <2>3. pc = "scan" => j <= node
        BY DEF IInv, ScanInv
    <2> QED  BY <2>1, <2>2, <2>3 DEF SlotBounds
<1> QED  BY Invariance, <1>1, PTL

(* Each merge of huf_tree_from_histogram takes the two lightest slots.     *)
THEOREM PicksTwoLightestHolds == Spec => []PicksTwoLightest
PROOF
<1>1. IInv => PicksTwoLightest
    <2> SUFFICES ASSUME IInv, pc = "scan", j = node
                 PROVE  /\ index1 \in Active
                        /\ \A i \in Active : rates[index1] <= rates[i]
                        /\ index2 = None => Active = {index1}
                        /\ index2 # None =>
                             /\ index2 \in Active \ {index1}
                             /\ \A i \in Active \ {index1} : rates[index2] <= rates[i]
        BY DEF PicksTwoLightest
    <2>1. Active # {} /\ \A i \in Active : i < j
        BY DEF IInv, ActiveInv, Building
    <2> QED  BY <2>1 DEF IInv, ScanInv
<1> QED  BY Invariance, <1>1, PTL

(* The nodes form a forest, whose roots are the slots still to be merged.  *)
THEOREM ForestHolds == Spec => []Forest
PROOF
<1>1. IInv => Forest
    <2> SUFFICES ASSUME IInv PROVE Forest
        OBVIOUS
    <2>1. CASE Growing
        <3>1. live = Picked \cup Merged /\ live \subseteq Slots
            BY <2>1 DEF IInv, NodesInv, TypeOK
        <3>2. ASSUME NEW n \in live, parent[n] # None
              PROVE  /\ parent[n] \in live /\ parent[n] > n
                     /\ (left[parent[n]] = n) # (right[parent[n]] = n)
            BY <2>1, <3>1, <3>2 DEF IInv, PointersInv
        <3>3. ASSUME NEW n \in live, NEW c \in {left[n], right[n]}, c # None
              PROVE  c \in live /\ parent[c] = n
            BY <2>1, <3>1, <3>3 DEF IInv, PointersInv
        <3>4. \A n \in live : parent[n] = None <=> n \in Active
            BY <2>1 DEF IInv, PointersInv
        <3> QED  BY <3>2, <3>3, <3>4 DEF Forest
    <2>2. CASE ~ Growing
        <3>1. live = {} /\ ~ Building
            BY <2>2 DEF IInv, TypeOK, BareInv, Bare, Growing, Building
        <3> QED  BY <3>1 DEF Forest
    <2> QED  BY <2>1, <2>2
<1> QED  BY Invariance, <1>1, PTL

(* The tree huf_tree_from_histogram returns has a leaf for each byte value *)
(* of the block, named by self->leaves, and as many inner nodes.           *)
THEOREM TreeCoversBlockHolds == Spec => []TreeCoversBlock
PROOF
<1>1. IInv /\ CostInv => TreeCoversBlock
    <2> SUFFICES ASSUME IInv, CostInv, pc = "done", Used # {}
                 PROVE  /\ node = K + Cardinality(Used)
                        /\ live = Used \cup K .. node-1
                        /\ leaves = Used
                        /\ \A n \in live : left[n] = None <=> n \in Used
                        /\ root = node - 1 /\ right[root] = None
                        /\ \A s \in Used : Depth(s) \in 1 .. Cardinality(Used)
        BY DEF TreeCoversBlock
    <2>1. /\ Growing /\ node = Cardinality(Used) + K /\ Active = {node-1}
          /\ root = node-1 /\ right[root] = None
        BY DEF IInv, ActiveInv, Growing
    <2>2. Cardinality(Used) # 0
        BY FiniteSlots, FS_EmptySet
    <2>3. node-1 \notin Symbols
        BY KAssumption, <2>1, <2>2, FiniteSlots DEF Symbols
    <2>4. Picked = Used
        BY KAssumption, <2>1, <2>3 DEF Picked, Used, Active, Symbols, Slots
    <2>5. leaves = Used /\ live = Used \cup Merged
        BY <2>1, <2>4 DEF IInv, NodesInv
    <2>6. \A n \in Merged : n \notin Used
        BY KAssumption DEF Merged, Used, Symbols
    <2>7. \A n \in live : left[n] = None <=> n \in Used
        BY <2>1, <2>5, <2>6 DEF IInv, PointersInv, TypeOK
    <2>8. \A s \in Used : Depth(s) \in 1 .. Cardinality(Used)
        <3>1. PICK h : /\ Cheapest(Block, Used, Longest, h)
                       /\ \A s \in Used : Depth(s) = h[s] + 1
            BY WordOfLeaf
        <3>2. h \in [Slots -> 0 .. Cardinality(Used) - 1]
            BY <3>1 DEF Cheapest, Longest
        <3>3. Used \subseteq Slots
            BY KAssumption DEF Used, Symbols, Slots
        <3> QED  BY <3>1, <3>2, <3>3, FiniteSlots
    <2> QED  BY <2>1, <2>5, <2>7, <2>8, KAssumption, FiniteSlots DEF Merged
<1>2. Init => CostInv
    BY DEF Init, CostInv, Building
<1> QED  BY Invariance, CostStep, <1>1, <1>2, PTL DEF Spec

(* huf_tree_reset and huf_tree_free give back every node, each once, and a *)
(* construction that failed has given back its own.                        *)
THEOREM FreeIsExactHolds == Spec => []FreeIsExact
PROOF
<1>1. IInv => FreeIsExact
    BY FreedIsLive DEF FreeIsExact
<1> QED  BY Invariance, <1>1, PTL

(* A merge of huf_tree_from_histogram never loses or invents weight: what  *)
(* is still to be merged weighs as much as the block has bytes.            *)
THEOREM WeightIsConserved == Spec => []WeightConserved
PROOF
<1>1. Init => WeightConserved
    BY DEF Init, WeightConserved
<1> QED  BY Invariance, ConservationStep, <1>1, PTL DEF Spec

(* huf_tree_from_histogram, which looks for the two lightest slots one     *)
(* slot at a time and rewrites the histogram while it does, builds the     *)
(* tree that the encoder's model takes from FromHistogram, node for node   *)
(* and slot for slot, ties between equal frequencies included.             *)
THEOREM TreeIsBuilt == Spec => []BuildsTree
PROOF
<1>1. Init => TieInv /\ SameInv
    BY DEF Init, TieInv, SameInv, Growing, Building
<1>2. IInv /\ TieInv /\ SameInv => BuildsTree
    <2> SUFFICES ASSUME IInv, SameInv, pc = "done", Used # {}
                 PROVE  LET work == Code!FromHistogram(Block)
                            t    == work.tree
                        IN  /\ rates = work.rates /\ root = t.root /\ leaves = t.leaves
                            /\ parent = t.parent /\ left = t.left /\ right = t.right
        BY DEF BuildsTree, Block
    <2>1. /\ Growing /\ node = Cardinality(Used) + K /\ root = node - 1
        BY DEF IInv, ActiveInv, Growing
    <2>2. /\ node - K \in 0..K /\ root # None
        BY KAssumption, <2>1, FiniteSlots DEF None
    <2>3. Code!Merged(Block, node - K).tree.root # Code!None
        BY <2>1, <2>2, SameConstants DEF SameInv
    <2>4. Code!FromHistogram(Block) = Code!Merged(Block, node - K)
        <3>1. Code!FromHistogram(Block) = Code!Merged(Block, K)
            BY SameConstants DEF Code!FromHistogram
        <3> QED  BY KAssumption, <2>2, <2>3, <3>1, MergedStays
    <2> QED  BY <2>1, <2>4 DEF SameInv
<1> QED  BY Invariance, TieStep, SameStep, <1>1, <1>2, PTL DEF Spec

(* The tree of huf_tree_from_histogram is optimal for every block: no      *)
(* prefix code with words of less than |Used| bits needs fewer bits for    *)
(* it, and some needs no more, but for the one bit per byte that the       *)
(* single-child root adds.                                                 *)
THEOREM OptimalPlusOneBitHolds == Spec => []OptimalPlusOneBit
PROOF
<1>1. Init => CostInv
    BY DEF Init, CostInv, Building
<1>2. IInv /\ CostInv => OptimalPlusOneBit
    BY CostIsLeast
<1> QED  BY Invariance, CostStep, <1>1, <1>2, PTL DEF Spec

(* And no prefix code with longer words does either: the bound of the      *)
(* reference leaves no better code out.                                    *)
THEOREM NoCodeIsShorterHolds == Spec => []NoCodeIsShorter
PROOF
<1>1. Init => CostInv
    BY DEF Init, CostInv, Building
<1>2. IInv /\ CostInv => NoCodeIsShorter
    BY CostIsLeast
<1> QED  BY Invariance, CostStep, <1>1, <1>2, PTL DEF Spec
=============================================================================
