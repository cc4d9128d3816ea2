--------------------------- MODULE NoteTree_proofs ---------------------------
(***************************************************************************)
(* Theorems of NoteTree, for every tree capacity, number of trees, history *)
(* size and set of provers.                                                *)
(***************************************************************************)
EXTENDS NoteTree, FiniteSetTheorems, SequenceTheorems, TLAPS

(***************************************************************************)
(* The inductive invariant.  Roots are only installed by appends that      *)
(* start from the stored root, so everything in a tree's history is a      *)
(* prefix of its present root; what makes this inductive is that a proof   *)
(* in flight extends the root it names, and that the epoch being settled   *)
(* was checked against the tree it will be written to.                     *)
(***************************************************************************)
TreeTypes ==
    /\ currentTreeNumber \in Tree
    /\ treeRoot \in [Tree -> Root \cup {NoRoot}]
    /\ treeCount \in [Tree -> 0..Capacity]
    /\ treeRootHistory \in [Tree -> [Slot -> Root \cup {NoRoot}]]
    /\ treeRootHistoryCursor \in [Tree -> Slot]
    /\ rootLog \in [Tree -> Seq(Root)]

InLog(log, r) == \E k \in DOMAIN log : log[k] = r

HistoryGenuine ==
    \A t \in Tree : \A i \in Slot :
        treeRootHistory[t][i] # NoRoot =>
            /\ t <= currentTreeNumber
            /\ InLog(rootLog[t], treeRootHistory[t][i])
            /\ IsPrefix(treeRootHistory[t][i], treeRoot[t])

RootsInstalled == \A t \in 0..currentTreeNumber : InLog(rootLog[t], treeRoot[t])

FinalizedFull == \A t \in 0..currentTreeNumber - 1 : treeCount[t] = Capacity

TreeInv ==
    /\ TreeTypes
    /\ RootsMatchCounts
    /\ HistoryGenuine
    /\ RootsInstalled
    /\ FinalizedFull

ProofInv(p) ==
    /\ ProofShape(p)
    /\ p.kind \in Appends => TreeTransition(p)
    /\ p.kind \in {"deposit", "portal"} => ActiveRootNamed(p)
    /\ InputsUnderRoots(p)

AtTip(p) ==
    /\ p.tree = currentTreeNumber
    /\ p.countOld = treeCount[p.tree]
    /\ p.activeRoot = treeRoot[p.tree]

ProofsInv ==
    /\ \A p \in proofs : ProofInv(p)
    /\ inEpoch # NoProof => ProofInv(inEpoch) /\ AtTip(inEpoch) /\ inEpoch.kind = "transfer"

SpendTypes ==
    /\ nullifierSpent \subseteq {"note", "gift"} \X Position
    /\ timesSpent \in [Position -> Nat]

(* pos is a leaf, and kind is the kind of submission that may open it.     *)
Opened(kind, pos) ==
    /\ treeRoot[pos[1]] # NoRoot
    /\ pos[2] < Len(treeRoot[pos[1]])
    /\ OpensWith(kind, treeRoot[pos[1]][pos[2] + 1])

(* Why no note is spent twice: a settled spend has left the one nullifier  *)
(* its note can ever have, and a reverted epoch only takes back nullifiers *)
(* that were new when it spent them.                                       *)
SpendInv ==
    /\ \A pos \in Position : timesSpent[pos] <= 1
    /\ \A pos \in Position :
            timesSpent[pos] > 0 =>
                \E kind \in Spends : Opened(kind, pos) /\ Nullifier(kind, pos) \in nullifierSpent
    /\ inEpoch # NoProof =>
            /\ \A i \in DOMAIN inEpoch.inputs :
                    /\ Opened(inEpoch.kind, inEpoch.inputs[i])
                    /\ timesSpent[inEpoch.inputs[i]] = 0
                    /\ Nullifier(inEpoch.kind, inEpoch.inputs[i]) \in nullifierSpent
            /\ \A i, j \in DOMAIN inEpoch.inputs : inEpoch.inputs[i] = inEpoch.inputs[j] => i = j

(* No started tree loses or changes a leaf.                                *)
TreesGrow ==
    \A t \in Tree :
        treeRoot[t] # NoRoot =>
            treeRoot[t] \in Root /\ treeRoot'[t] \in Root /\ IsPrefix(treeRoot[t], treeRoot'[t])

IInv == TreeInv /\ ProofsInv /\ SpendTypes

-----------------------------------------------------------------------------
(* Facts about roots.                                                      *)

(* A root is a prefix of itself.                                           *)
LEMMA PrefixReflexive ==
    ASSUME NEW r \in Root PROVE IsPrefix(r, r)
BY LenProperties DEF IsPrefix, Root

(* What a tree has gone through, it has still gone through after an append.*)
LEMMA PrefixTransitive ==
    ASSUME NEW r \in Root, NEW s \in Root, NEW u \in Root,
           IsPrefix(r, s), IsPrefix(s, u)
    PROVE  IsPrefix(r, u)
BY LenProperties DEF IsPrefix, Root

(* An append extends the leaves it starts from.                            *)
LEMMA PrefixOfConcat ==
    ASSUME NEW r \in Root, NEW s \in Root
    PROVE  IsPrefix(r, r \o s)
BY LenProperties, ConcatProperties DEF IsPrefix, Root

(* A log keeps its entries when one is appended, and gains that one.       *)
LEMMA AppendKeepsLog ==
    ASSUME NEW log \in Seq(Root), NEW new \in Root
    PROVE  /\ \A r : InLog(log, r) => InLog(Append(log, new), r)
           /\ InLog(Append(log, new), new)
<1>1. /\ DOMAIN log = 1..Len(log)
      /\ Len(log) \in Nat
      /\ DOMAIN Append(log, new) = 1..(Len(log) + 1)
      /\ \A k \in 1..Len(log) : Append(log, new)[k] = log[k]
      /\ Append(log, new)[Len(log) + 1] = new
    BY LenProperties, AppendProperties
<1>2. ASSUME NEW r, InLog(log, r) PROVE InLog(Append(log, new), r)
    <2>1. PICK k \in 1..Len(log) : log[k] = r
        BY <1>1, <1>2 DEF InLog
    <2>2. k \in 1..(Len(log) + 1) /\ Append(log, new)[k] = r
        BY <1>1, <2>1
    <2>3. QED
        BY <1>1, <2>2 DEF InLog
<1>3. Len(log) + 1 \in DOMAIN Append(log, new)
    BY <1>1
<1>4. QED
    BY <1>1, <1>2, <1>3 DEF InLog

(* The batches provers choose are sequences.                               *)
LEMMA BoundedSeqIsSeq ==
    ASSUME NEW S, NEW hi, NEW s \in BoundedSeq(S, 1, hi)
    PROVE  s \in Seq(S)
<1>1. PICK n \in 1..hi : s \in [1..n -> S]
    BY DEF BoundedSeq
<1>2. QED
    BY <1>1, IsASeq

-----------------------------------------------------------------------------
(* The writes.                                                             *)

(* Writing an append that starts at the tip keeps the trees well formed.   *)
LEMMA AppendKeepsTrees ==
    ASSUME TreeInv,
           NEW p, ProofShape(p), TreeTransition(p), AtTip(p),
           UpdateTreeState(p.tree, p.rootNew, p.countNew, p.rollover)
    PROVE  TreeInv' /\ TreesGrow
<1> DEFINE cur == currentTreeNumber
           target == IF p.rollover THEN cur + 1 ELSE p.tree
           next == (treeRootHistoryCursor[target] + 1) % HistorySize
<1>a. /\ cur \in Tree
      /\ p.tree = cur
      /\ target \in Tree
      /\ MaxTree \in Nat
    BY MaxTreeAssumption DEF TreeInv, TreeTypes, AtTip, UpdateTreeState, Tree
<1>b. /\ currentTreeNumber' = IF p.rollover THEN target ELSE cur
      /\ currentTreeNumber' = target
      /\ treeRoot' = [treeRoot EXCEPT ![target] = p.rootNew]
      /\ treeCount' = [treeCount EXCEPT ![target] = p.countNew]
      /\ treeRootHistory' = [treeRootHistory EXCEPT ![target][next] = p.rootNew]
      /\ treeRootHistoryCursor' = [treeRootHistoryCursor EXCEPT ![target] = next]
      /\ rootLog' = [rootLog EXCEPT ![target] = Append(@, p.rootNew)]
    BY <1>a DEF UpdateTreeState, PushTreeRoot
<1>c. /\ p.rootNew \in Root
      /\ p.countNew \in 0..Capacity
      /\ p.countNew = Len(p.rootNew)
      /\ p.rootNew # NoRoot
    BY NoRootAssumption DEF ProofShape, TreeTransition, Root
<1>d. next \in Slot
    <2>1. treeRootHistoryCursor[target] \in Slot
        BY <1>a DEF TreeInv, TreeTypes
    <2>2. QED
        BY <2>1, HistoryAssumption DEF Slot
<1>e. TreeTypes'
    <2>1. Append(rootLog[target], p.rootNew) \in Seq(Root)
        BY <1>a, <1>c, AppendProperties DEF TreeInv, TreeTypes
    <2>2. QED
        BY <1>a, <1>b, <1>c, <1>d, <2>1 DEF TreeInv, TreeTypes
<1>f. (* the leaves of the target tree grow *)
      treeRoot[target] # NoRoot => IsPrefix(treeRoot[target], p.rootNew)
    <2>1. CASE p.rollover
        BY <1>a, <2>1 DEF TreeInv, RootsMatchCounts, Tree
    <2>2. CASE ~p.rollover
        <3>1. /\ treeRoot[target] = p.activeRoot
              /\ p.activeRoot \in Root
              /\ p.outs \in Root
              /\ p.rootNew = p.activeRoot \o p.outs
            BY <2>2, <1>a DEF AtTip, ProofShape, TreeTransition, Root
        <3>2. QED
            BY <3>1, PrefixOfConcat
    <2>3. QED
        BY <2>1, <2>2
<1>g. (* what was installed stays installed *)
      /\ \A t \in Tree : \A r : InLog(rootLog[t], r) => InLog(rootLog'[t], r)
      /\ InLog(rootLog'[target], p.rootNew)
    <2>1. rootLog[target] \in Seq(Root)
        BY <1>a DEF TreeInv, TreeTypes
    <2>2. /\ rootLog'[target] = Append(rootLog[target], p.rootNew)
          /\ \A t \in Tree \ {target} : rootLog'[t] = rootLog[t]
        BY <1>a, <1>b DEF TreeInv, TreeTypes
    <2>3. \A r : InLog(rootLog[target], r) => InLog(rootLog'[target], r)
        BY <2>1, <2>2, <1>c, AppendKeepsLog
    <2>4. InLog(rootLog'[target], p.rootNew)
        BY <2>1, <2>2, <1>c, AppendKeepsLog
    <2>5. QED
        BY <2>2, <2>3, <2>4
<1>h. RootsMatchCounts'
    <2> SUFFICES ASSUME NEW t \in Tree
                 PROVE  IF t <= target
                        THEN treeRoot'[t] # NoRoot /\ Len(treeRoot'[t]) = treeCount'[t]
                        ELSE treeRoot'[t] = NoRoot /\ treeCount'[t] = 0
        BY <1>b DEF RootsMatchCounts
    <2>1. CASE t = target
        BY <2>1, <1>a, <1>b, <1>c DEF TreeInv, TreeTypes, Tree
    <2>2. CASE t # target
        <3>1. treeRoot'[t] = treeRoot[t] /\ treeCount'[t] = treeCount[t]
            BY <2>2, <1>a, <1>b DEF TreeInv, TreeTypes
        <3>2. (t <= target) <=> (t <= cur)
            BY <2>2, <1>a DEF Tree
        <3>3. QED
            BY <3>1, <3>2 DEF TreeInv, RootsMatchCounts
    <2>3. QED
        BY <2>1, <2>2
<1>i. FinalizedFull'
    <2> SUFFICES ASSUME NEW t \in 0..(target - 1)
                 PROVE  treeCount'[t] = Capacity
        BY <1>b DEF FinalizedFull
    <2>1. t \in Tree /\ t # target /\ treeCount'[t] = treeCount[t]
        BY SMTT(30), <1>a, <1>b DEF TreeInv, TreeTypes, Tree
    <2>2. CASE t \in 0..(cur - 1)
        BY <2>1, <2>2 DEF TreeInv, FinalizedFull
    <2>3. CASE t = cur
        <3>1. p.rollover
            BY <2>1, <2>3, <1>a
        <3>2. QED
            BY <2>1, <2>3, <3>1, <1>a DEF AtTip, TreeTransition
    <2>4. QED
        BY <2>2, <2>3, <1>a DEF Tree
<1>j. RootsInstalled'
    <2> SUFFICES ASSUME NEW t \in 0..target
                 PROVE  InLog(rootLog'[t], treeRoot'[t])
        BY <1>b DEF RootsInstalled
    <2>1. CASE t = target
        <3>1. treeRoot'[t] = p.rootNew
            BY <2>1, <1>a, <1>b DEF TreeInv, TreeTypes
        <3>2. QED
            BY <3>1, <2>1, <1>g
    <2>2. CASE t # target
        <3>1. t \in Tree /\ t \in 0..cur /\ treeRoot'[t] = treeRoot[t]
            BY SMTT(30), <2>2, <1>a, <1>b DEF TreeInv, TreeTypes, Tree
        <3>2. InLog(rootLog[t], treeRoot[t])
            BY <3>1 DEF TreeInv, RootsInstalled
        <3>3. QED
            BY <3>1, <3>2, <1>g
    <2>3. QED
        BY <2>1, <2>2
<1>k. HistoryGenuine'
    <2> SUFFICES ASSUME NEW t \in Tree, NEW i \in Slot, treeRootHistory'[t][i] # NoRoot
                 PROVE  /\ t <= target
                        /\ InLog(rootLog'[t], treeRootHistory'[t][i])
                        /\ IsPrefix(treeRootHistory'[t][i], treeRoot'[t])
        BY <1>b DEF HistoryGenuine, IsPrefix
    <2>1. CASE t = target /\ i = next
        <3>1. treeRootHistory'[t][i] = p.rootNew /\ treeRoot'[t] = p.rootNew
            BY <2>1, <1>a, <1>b, <1>d DEF TreeInv, TreeTypes
        <3>2. t <= target
            BY <2>1, <1>a DEF Tree
        <3>3. InLog(rootLog'[t], treeRootHistory'[t][i])
            BY <3>1, <2>1, <1>g
        <3>4. IsPrefix(treeRootHistory'[t][i], treeRoot'[t])
            BY <3>1, <1>c, PrefixReflexive
        <3>5. QED
            BY <3>2, <3>3, <3>4
    <2>2. CASE ~(t = target /\ i = next)
        <3>1. treeRootHistory'[t][i] = treeRootHistory[t][i]
            BY <2>2, <1>a, <1>b, <1>d DEF TreeInv, TreeTypes
        <3>2. /\ treeRootHistory[t][i] # NoRoot
              /\ t <= cur
              /\ InLog(rootLog[t], treeRootHistory[t][i])
              /\ IsPrefix(treeRootHistory[t][i], treeRoot[t])
            BY <3>1 DEF TreeInv, HistoryGenuine
        <3>3. treeRootHistory[t][i] \in Root
            BY <3>2 DEF TreeInv, TreeTypes
        <3>4. treeRoot[t] \in Root /\ treeRoot[t] # NoRoot
            BY <3>2 DEF TreeInv, TreeTypes, RootsMatchCounts
        <3>5. IsPrefix(treeRootHistory[t][i], treeRoot'[t])
            <4>1. CASE t = target
                <5>1. treeRoot'[t] = p.rootNew
                    BY <4>1, <1>a, <1>b DEF TreeInv, TreeTypes
                <5>2. IsPrefix(treeRoot[t], p.rootNew)
                    BY <4>1, <1>f, <3>4
                <5>3. QED
                    BY <5>1, <5>2, <3>2, <3>3, <3>4, <1>c, PrefixTransitive
            <4>2. CASE t # target
                <5>1. treeRoot'[t] = treeRoot[t]
                    BY <4>2, <1>a, <1>b DEF TreeInv, TreeTypes
                <5>2. QED
                    BY <5>1, <3>2
            <4>3. QED
                BY <4>1, <4>2
        <3>6. t <= target
            BY <3>2, <1>a DEF Tree
        <3>7. InLog(rootLog'[t], treeRootHistory'[t][i])
            BY <3>1, <3>2, <1>g
        <3>8. QED
            BY <3>1, <3>5, <3>6, <3>7
    <2>3. QED
        BY <2>1, <2>2
<1>l. TreesGrow
    <2> SUFFICES ASSUME NEW t \in Tree, treeRoot[t] # NoRoot
                 PROVE  treeRoot[t] \in Root /\ treeRoot'[t] \in Root /\ IsPrefix(treeRoot[t], treeRoot'[t])
        BY DEF TreesGrow
    <2>1. treeRoot[t] \in Root
        BY DEF TreeInv, TreeTypes
    <2>2. CASE t = target
        BY <2>1, <2>2, <1>a, <1>b, <1>c, <1>f DEF TreeInv, TreeTypes
    <2>3. CASE t # target
        <3>1. treeRoot'[t] = treeRoot[t]
            BY <2>3, <1>a, <1>b DEF TreeInv, TreeTypes
        <3>2. QED
            BY <2>1, <3>1, PrefixReflexive
    <2>4. QED
        BY <2>2, <2>3
<1>m. QED
    BY <1>e, <1>h, <1>i, <1>j, <1>k, <1>l DEF TreeInv

(* Steps that leave the trees alone.                                       *)
LEMMA UnchangedTrees == ASSUME TreeInv, UNCHANGED treeVars PROVE TreeInv'
BY DEF treeVars, TreeInv, TreeTypes, RootsMatchCounts, HistoryGenuine, RootsInstalled,
       FinalizedFull

(* An epoch being settled stays at the tip while nothing is appended.      *)
LEMMA UnchangedTip ==
    ASSUME ProofsInv, UNCHANGED <<treeVars, inEpoch>>
    PROVE  /\ \A p : AtTip(p)' <=> AtTip(p)
           /\ inEpoch' # NoProof =>
                ProofInv(inEpoch') /\ AtTip(inEpoch)' /\ inEpoch'.kind = "transfer"
BY DEF treeVars, ProofsInv, AtTip

-----------------------------------------------------------------------------
(* Init and the provers.                                                   *)

(* The pool starts with one empty tree, whose empty root is known.         *)
LEMMA InitEstablishes == Init => IInv
<1> SUFFICES ASSUME Init PROVE IInv
    OBVIOUS
<1>1. EmptyRoot \in Root /\ Len(EmptyRoot) = 0 /\ EmptyRoot # NoRoot /\ 0 \in Tree
    <2>1. <<>> \in Seq(Commitment) /\ Len(<<>>) = 0
        OBVIOUS
    <2>2. EmptyRoot \in Root /\ Len(EmptyRoot) = 0
        BY <2>1 DEF EmptyRoot, Root
    <2>3. EmptyRoot # NoRoot
        BY <2>2, NoRootAssumption DEF Root
    <2>4. 0 \in Tree
        BY MaxTreeAssumption DEF Tree
    <2>5. QED
        BY <2>2, <2>3, <2>4
<1>2. 0 \in 0..Capacity /\ 0 \in Slot
    BY CapacityAssumption, HistoryAssumption DEF Slot
<1>3. <<EmptyRoot>> \in Seq(Root) /\ <<>> \in Seq(Root) /\ InLog(<<EmptyRoot>>, EmptyRoot)
    BY <1>1 DEF InLog
<1>4. TreeTypes
    BY <1>1, <1>2, <1>3 DEF Init, TreeTypes
<1>5. RootsMatchCounts
    BY <1>1 DEF Init, RootsMatchCounts, Tree
<1>6. HistoryGenuine
    BY <1>1, <1>3, PrefixReflexive DEF Init, HistoryGenuine
<1>7. RootsInstalled /\ FinalizedFull
    BY <1>1, <1>3 DEF Init, RootsInstalled, FinalizedFull
<1>8. ProofsInv /\ SpendTypes
    BY DEF Init, ProofsInv, SpendTypes
<1>9. QED
    BY <1>4, <1>5, <1>6, <1>7, <1>8 DEF IInv, TreeInv

(* The roots a prover may name are roots of at most Capacity leaves.       *)
LEMMA NamedRootsAreRoots ==
    ASSUME TreeInv, NEW u \in RootsToName
    PROVE  u \in Tree \X Root /\ Len(u[2]) \in 0..Capacity
<1>1. CASE u \in Tree \X {<<c>> : c \in Commitment}
    <2>1. PICK t \in Tree, c \in Commitment : u = <<t, <<c>>>>
        BY <1>1
    <2>2. <<c>> \in Root /\ Len(<<c>>) = 1
        BY DEF Root
    <2>3. QED
        BY <2>1, <2>2, CapacityAssumption
<1>2. CASE u \in Tree \X KnownRoots /\ IsKnownTreeRoot(u[1], u[2])
    <2>1. /\ u = <<u[1], u[2]>>
          /\ u[1] \in Tree
          /\ u[2] \in KnownRoots
          /\ u[2] # NoRoot
        BY <1>2 DEF IsKnownTreeRoot
    <2>2. CASE \E t \in Tree : u[2] = treeRoot[t]
        <3>1. PICK t \in Tree : u[2] = treeRoot[t]
            BY <2>2
        <3>2. u[2] \in Root
            BY <3>1, <2>1 DEF TreeInv, TreeTypes
        <3>3. Len(u[2]) = treeCount[t]
            BY <3>1, <2>1 DEF TreeInv, RootsMatchCounts
        <3>4. QED
            BY <2>1, <3>2, <3>3 DEF TreeInv, TreeTypes
    <2>3. CASE \E t \in Tree : \E i \in Slot : u[2] = treeRootHistory[t][i]
        <3>1. PICK t \in Tree, i \in Slot : u[2] = treeRootHistory[t][i]
            BY <2>3
        <3>2. u[2] \in Root
            BY <3>1, <2>1 DEF TreeInv, TreeTypes
        <3>3. t <= currentTreeNumber /\ IsPrefix(u[2], treeRoot[t])
            BY <3>1, <2>1 DEF TreeInv, HistoryGenuine
        <3>4. Len(treeRoot[t]) = treeCount[t] /\ treeCount[t] \in 0..Capacity
            BY <3>3 DEF TreeInv, TreeTypes, RootsMatchCounts
        <3>5. Len(u[2]) \in Nat /\ Len(u[2]) <= treeCount[t]
            BY <3>2, <3>3, <3>4, LenProperties DEF Root, IsPrefix
        <3>6. QED
            BY <2>1, <3>2, <3>4, <3>5, CapacityAssumption
    <2>4. QED
        BY <2>1, <2>2, <2>3 DEF KnownRoots
<1>3. QED
    BY <1>1, <1>2 DEF RootsToName

(* A prepared append carries the tree as it is and a transition from it.   *)
LEMMA NewProofIsSound ==
    ASSUME TreeInv,
           NEW kind \in Appends, NEW used \in SUBSET RootsToName,
           NEW ins \in Seq(Position), NEW outs \in Seq(Commitment),
           CircuitAccepts(NewProof(kind, used, ins, outs))
    PROVE  ProofInv(NewProof(kind, used, ins, outs))
<1> DEFINE p == NewProof(kind, used, ins, outs)
           t == currentTreeNumber
<1>1. t \in Tree /\ treeRoot[t] \in Root /\ treeCount[t] \in 0..Capacity
    <2>1. t \in Tree /\ t <= t
        BY MaxTreeAssumption DEF TreeInv, TreeTypes, Tree
    <2>2. treeRoot[t] # NoRoot
        BY <2>1 DEF TreeInv, RootsMatchCounts
    <2>3. QED
        BY <2>1, <2>2 DEF TreeInv, TreeTypes
<1>2. outs \in Root /\ treeRoot[t] \o outs \in Root
    BY <1>1, ConcatProperties DEF Root
<1>3. p.rootNew \in Root
    BY <1>2 DEF NewProof
<1>4. /\ p.kind = kind /\ p.tree = t /\ p.countOld = treeCount[t] /\ p.activeRoot = treeRoot[t]
      /\ p.usedRoots = used /\ p.inputs = ins /\ p.outs = outs
      /\ p.rollover \in BOOLEAN
      /\ p.countNew = Len(p.rootNew)
    BY DEF NewProof
<1>5. /\ TreeTransition(p)
      /\ p.kind \in {"deposit", "portal"} => ActiveRootNamed(p)
      /\ InputsUnderRoots(p)
    BY <1>4 DEF CircuitAccepts
<1>6. p.countNew \in 0..Capacity
    BY <1>3, <1>4, <1>5, LenProperties, CapacityAssumption DEF TreeTransition, Root
<1>7. used \subseteq Tree \X Root
    BY NamedRootsAreRoots
<1>8. p.kind \in AllKinds
    BY <1>4 DEF AllKinds, Appends
<1> HIDE DEF p
<1>9. ProofShape(p)
    BY <1>1, <1>3, <1>4, <1>6, <1>7, <1>8 DEF ProofShape
<1>10. ProofInv(p)
    BY <1>5, <1>9 DEF ProofInv
<1>11. QED
    BY <1>10 DEF p

(* A public exit carries a root and a count of the tree's range.           *)
LEMMA ExitProofIsSound ==
    ASSUME TreeInv,
           NEW used \in SUBSET RootsToName, NEW u \in used, NEW pos \in Position,
           NEW count \in {Len(u[2]), Capacity},
           CircuitAccepts(ExitProof(used, pos, u[2], count))
    PROVE  ProofInv(ExitProof(used, pos, u[2], count))
<1>1. used \subseteq Tree \X Root /\ u[2] \in Root /\ Len(u[2]) \in 0..Capacity
    BY NamedRootsAreRoots
<1>2. count \in 0..Capacity
    BY <1>1, CapacityAssumption
<1>3. <<pos>> \in Seq(Position) /\ <<>> \in Seq(Commitment)
    OBVIOUS
<1>4. currentTreeNumber \in Tree
    BY DEF TreeInv, TreeTypes
<1>5. ProofShape(ExitProof(used, pos, u[2], count))
    BY <1>1, <1>2, <1>3, <1>4 DEF ExitProof, ProofShape, AllKinds
<1>6. InputsUnderRoots(ExitProof(used, pos, u[2], count))
    BY DEF CircuitAccepts
<1>7. ExitProof(used, pos, u[2], count).kind = "exit"
    BY DEF ExitProof
<1>8. QED
    BY <1>5, <1>6, <1>7 DEF ProofInv, Appends

(* Preparing a proof adds a sound one.                                     *)
LEMMA ProveKeeps == ASSUME IInv, NEW kind \in Kinds, Prove(kind) PROVE IInv'
<1>1. PICK used \in {U \in SUBSET RootsToName : RootCountOk(U)} :
        \/ /\ kind \in {"transfer", "gift"}
           /\ \E ins \in BoundedSeq(Position, 1, MaxInputs), outs \in BoundedSeq(Commitment, 1, MaxBatch) :
                    AddProof(NewProof(kind, used, ins, outs))
        \/ /\ kind = "deposit"
           /\ \E outs \in BoundedSeq(Commitment, 1, MaxBatch) :
                    AddProof(NewProof(kind, used, <<>>, outs))
        \/ /\ kind = "portal"
           /\ \E outs \in BoundedSeq(Commitment \ GiftNote, 1, MaxBatch) :
                    AddProof(NewProof(kind, used, <<>>, outs))
        \/ /\ kind = "exit"
           /\ \E u \in used, pos \in Position :
                /\ u[1] = currentTreeNumber
                /\ \E count \in {Len(u[2]), Capacity} :
                        AddProof(ExitProof(used, pos, u[2], count))
    BY DEF Prove
<1>2. \E p : ProofInv(p) /\ AddProof(p)
    <2>1. CASE kind \in {"transfer", "gift"}
        <3>1. PICK ins \in BoundedSeq(Position, 1, MaxInputs), outs \in BoundedSeq(Commitment, 1, MaxBatch) :
                    AddProof(NewProof(kind, used, ins, outs))
            BY <1>1, <2>1
        <3>2. ins \in Seq(Position) /\ outs \in Seq(Commitment)
            BY BoundedSeqIsSeq
        <3>3. ProofInv(NewProof(kind, used, ins, outs))
            BY <3>1, <3>2, <2>1, NewProofIsSound DEF AddProof, IInv, Appends
        <3>4. QED
            BY <3>1, <3>3
    <2>2. CASE kind \in {"deposit", "portal"}
        <3>1. BoundedSeq(Commitment \ GiftNote, 1, MaxBatch) \subseteq BoundedSeq(Commitment, 1, MaxBatch)
            BY DEF BoundedSeq
        <3>2. PICK outs \in BoundedSeq(Commitment, 1, MaxBatch) :
                    AddProof(NewProof(kind, used, <<>>, outs))
            BY <1>1, <2>2, <3>1
        <3>3. outs \in Seq(Commitment) /\ <<>> \in Seq(Position)
            BY BoundedSeqIsSeq
        <3>4. ProofInv(NewProof(kind, used, <<>>, outs))
            BY <3>2, <3>3, <2>2, NewProofIsSound DEF AddProof, IInv, Appends
        <3>5. QED
            BY <3>2, <3>4
    <2>3. CASE kind = "exit"
        <3>1. PICK u \in used, pos \in Position : \E count \in {Len(u[2]), Capacity} :
                    AddProof(ExitProof(used, pos, u[2], count))
            BY <1>1, <2>3
        <3>2. PICK count \in {Len(u[2]), Capacity} : AddProof(ExitProof(used, pos, u[2], count))
            BY <3>1
        <3>3. ProofInv(ExitProof(used, pos, u[2], count))
            BY <3>2, ExitProofIsSound DEF IInv, AddProof
        <3>4. QED
            BY <3>2, <3>3
    <2>4. QED
        BY <1>1, <2>1, <2>2, <2>3
<1>3. PICK p : ProofInv(p) /\ AddProof(p)
    BY <1>2
<1>4. TreeInv' /\ SpendTypes'
    BY <1>3, UnchangedTrees DEF AddProof, IInv, SpendTypes, spendVars
<1>5. \A q \in proofs' : ProofInv(q)
    BY <1>3 DEF AddProof, IInv, ProofsInv
<1>6. UNCHANGED <<treeVars, inEpoch>>
    BY <1>3 DEF AddProof
<1>7. QED
    BY <1>4, <1>5, <1>6, UnchangedTip DEF IInv, ProofsInv

-----------------------------------------------------------------------------
(* The pool's entry points.                                                *)

(* The times a submission names a note are a number.                       *)
LEMMA InputCountType ==
    ASSUME NEW p, ProofShape(p)
    PROVE  \A pos \in Position : Cardinality({i \in DOMAIN p.inputs : p.inputs[i] = pos}) \in Nat
<1>1. DOMAIN p.inputs = 1..Len(p.inputs) /\ Len(p.inputs) \in Nat
    BY LenProperties DEF ProofShape
<1>2. IsFiniteSet(DOMAIN p.inputs)
    BY <1>1, FS_Interval
<1>3. QED
    BY <1>2, FS_Subset, FS_CardinalityType

(* Spending keeps the records of spent notes well typed.                   *)
LEMMA SpendKeepsTypes ==
    ASSUME SpendTypes, NEW p, ProofShape(p)
    PROVE  /\ MarkSpent(p) => nullifierSpent' \subseteq {"note", "gift"} \X Position
           /\ CountSpends(p) => timesSpent' \in [Position -> Nat]
<1>1. NullifiersOf(p) \subseteq {"note", "gift"} \X Position
    <2>1. \A i \in DOMAIN p.inputs : p.inputs[i] \in Position
        BY DEF ProofShape
    <2>2. QED
        BY <2>1 DEF NullifiersOf, Nullifier, DomainOf
<1>2. \A pos \in Position : Cardinality({i \in DOMAIN p.inputs : p.inputs[i] = pos}) \in Nat
    BY InputCountType
<1>3. MarkSpent(p) => nullifierSpent' \subseteq {"note", "gift"} \X Position
    BY <1>1 DEF SpendTypes, MarkSpent
<1>4. ASSUME CountSpends(p) PROVE timesSpent' \in [Position -> Nat]
    <2>1. \A pos \in Position :
            timesSpent[pos] + Cardinality({i \in DOMAIN p.inputs : p.inputs[i] = pos}) \in Nat
        BY <1>2 DEF SpendTypes
    <2>2. QED
        BY <1>4, <2>1 DEF CountSpends
<1>5. QED
    BY <1>3, <1>4

(* An append of a sound proof at the tip keeps the invariant; the pool is  *)
(* not in the middle of an epoch afterwards.                               *)
LEMMA AppendKeeps ==
    ASSUME IInv,
           NEW p, ProofInv(p), AtTip(p), p.kind \in Appends,
           UpdateTreeState(p.tree, p.rootNew, p.countNew, p.rollover),
           inEpoch' = NoProof, proofs' = proofs, SpendTypes'
    PROVE  IInv'
<1>1. TreeInv'
    BY AppendKeepsTrees DEF IInv, ProofInv
<1>2. ProofsInv'
    BY DEF IInv, ProofsInv
<1>3. QED
    BY <1>1, <1>2 DEF IInv

(* The pair of the active tree is the root the deposit circuit appends to. *)
LEMMA DepositAtTip ==
    ASSUME NEW p, ProofInv(p), p.kind \in {"deposit", "portal"}, ValidateTreeState(p),
           <<p.tree, treeRoot[p.tree]>> \in p.usedRoots
    PROVE  AtTip(p)
<1>1. ActiveRootNamed(p)
    BY DEF ProofInv
<1>2. <<p.tree, treeRoot[p.tree]>> \in {u \in p.usedRoots : u[1] = p.tree}
    OBVIOUS
<1>3. <<p.tree, treeRoot[p.tree]>> = <<p.tree, p.activeRoot>>
    BY <1>1, <1>2 DEF ActiveRootNamed
<1>4. QED
    BY <1>3 DEF ValidateTreeState, AtTip

(* What every entry point leaves of a sound proof.                         *)
LEMMA SubmitKeeps ==
    ASSUME IInv, NEW p \in proofs, Submit(p)
    PROVE  IInv'
<1>1. ProofInv(p) /\ ProofShape(p)
    BY DEF IInv, ProofsInv, ProofInv
<1>2. CASE SubmitEpoch(p)
    <2>1. AtTip(p)
        BY <1>2 DEF SubmitEpoch, ValidateTreeState, AtTip
    <2>2. TreeInv' /\ AtTip(p)'
        BY <1>2, <2>1, UnchangedTrees DEF SubmitEpoch, IInv, AtTip, treeVars
    <2>3. ProofsInv'
        BY <1>1, <1>2, <2>2 DEF SubmitEpoch, IInv, ProofsInv, AtTip
    <2>4. SpendTypes'
        BY <1>1, <1>2, SpendKeepsTypes DEF SubmitEpoch, IInv, SpendTypes
    <2>5. QED
        BY <2>2, <2>3, <2>4 DEF IInv
<1>3. CASE SubmitDepositEpoch(p) \/ SubmitPortalDepositEpoch(p)
    <2>1. /\ NonReentrant
          /\ p.kind \in {"deposit", "portal"}
          /\ ValidateTreeState(p)
          /\ <<p.tree, treeRoot[p.tree]>> \in p.usedRoots
          /\ UpdateTreeState(p.tree, p.rootNew, p.countNew, p.rollover)
          /\ UNCHANGED <<spendVars, inEpoch, proofs, exits>>
        BY <1>3 DEF SubmitDepositEpoch, SubmitPortalDepositEpoch
    <2>2. AtTip(p)
        BY <1>1, <2>1, DepositAtTip
    <2>3. SpendTypes'
        BY <2>1 DEF IInv, SpendTypes, spendVars
    <2>4. inEpoch' = NoProof /\ p.kind \in Appends /\ proofs' = proofs
        BY <2>1 DEF NonReentrant, Appends
    <2>5. QED
        BY <1>1, <2>1, <2>2, <2>3, <2>4, AppendKeeps
<1>4. CASE SubmitGiftClaimEpoch(p)
    <2>1. /\ AtTip(p)
          /\ UpdateTreeState(p.tree, p.rootNew, p.countNew, p.rollover)
          /\ inEpoch' = NoProof
          /\ proofs' = proofs
          /\ p.kind \in Appends
        BY <1>4 DEF SubmitGiftClaimEpoch, ValidateTreeState, AtTip, NonReentrant, Appends
    <2>2. SpendTypes'
        BY <1>1, <1>4, SpendKeepsTypes DEF SubmitGiftClaimEpoch, IInv, SpendTypes
    <2>3. QED
        BY <1>1, <2>1, <2>2, AppendKeeps
<1>5. CASE PublicGiftExit(p)
    <2>1. TreeInv' /\ UNCHANGED <<treeVars, inEpoch, proofs>>
        BY <1>5, UnchangedTrees DEF PublicGiftExit, IInv
    <2>2. ProofsInv'
        BY <2>1, UnchangedTip DEF IInv, ProofsInv
    <2>3. SpendTypes'
        BY <1>1, <1>5, SpendKeepsTypes DEF PublicGiftExit, IInv, SpendTypes
    <2>4. QED
        BY <2>1, <2>2, <2>3 DEF IInv
<1>6. QED
    BY <1>2, <1>3, <1>4, <1>5 DEF Submit

(* Dropping a proof, finishing an epoch and reverting it.                  *)
LEMMA DiscardKeeps == ASSUME IInv, NEW p \in proofs, Discard(p) PROVE IInv'
<1>1. UNCHANGED <<treeVars, inEpoch>> /\ proofs' \subseteq proofs
    BY DEF Discard
<1>2. TreeInv' /\ ProofsInv'
    BY <1>1, UnchangedTrees, UnchangedTip DEF IInv, ProofsInv
<1>3. QED
    BY <1>2 DEF Discard, IInv, SpendTypes, spendVars

(* The second half of a transfer epoch appends to the tree it was proved
   for, which is still at the tip. *)
LEMMA SettleKeeps == ASSUME IInv, SettleEpoch PROVE IInv'
<1>1. /\ ProofInv(inEpoch) /\ AtTip(inEpoch) /\ inEpoch.kind \in Appends
      /\ ProofShape(inEpoch)
    BY DEF SettleEpoch, IInv, ProofsInv, ProofInv, Appends
<1>2. SpendTypes'
    BY <1>1, SpendKeepsTypes DEF SettleEpoch, IInv, SpendTypes
<1>3. PICK p : p = inEpoch
    OBVIOUS
<1>4. /\ ProofInv(p) /\ AtTip(p) /\ p.kind \in Appends
      /\ UpdateTreeState(p.tree, p.rootNew, p.countNew, p.rollover)
    BY <1>1, <1>3 DEF SettleEpoch
<1>5. inEpoch' = NoProof /\ proofs' = proofs
    BY DEF SettleEpoch
<1>6. QED
    BY <1>2, <1>4, <1>5, AppendKeeps

(* An epoch that is undone leaves the trees as they were. *)
LEMMA RevertKeeps == ASSUME IInv, RevertEpoch PROVE IInv'
<1>1. TreeInv'
    BY UnchangedTrees DEF RevertEpoch, IInv
<1>2. ProofsInv' /\ SpendTypes'
    BY DEF RevertEpoch, IInv, ProofsInv, SpendTypes
<1>3. QED
    BY <1>1, <1>2 DEF IInv

-----------------------------------------------------------------------------
(* The theorems.                                                           *)

(* The invariant holds in every reachable state.                           *)
THEOREM InductiveInvariant == Spec => []IInv
<1>1. Init => IInv
    BY InitEstablishes
<1>2. IInv /\ [Next]_vars => IInv'
    <2> SUFFICES ASSUME IInv, [Next]_vars PROVE IInv'
        OBVIOUS
    <2>1. CASE UNCHANGED vars
        <3>1. UNCHANGED <<treeVars, inEpoch>> /\ UNCHANGED spendVars /\ proofs' = proofs
            BY <2>1 DEF vars
        <3>2. TreeInv' /\ ProofsInv' /\ SpendTypes'
            BY <3>1, UnchangedTrees, UnchangedTip DEF IInv, ProofsInv, SpendTypes, spendVars
        <3>3. QED
            BY <3>2 DEF IInv
    <2>2. CASE Next
        BY <2>2, ProveKeeps, SubmitKeeps, DiscardKeeps, SettleKeeps, RevertKeeps DEF Next
    <2>3. QED
        BY <2>1, <2>2
<1>3. QED
    BY <1>1, <1>2, PTL DEF Spec

(* Types of the storage and of the proofs in flight.                       *)
THEOREM TypeCorrect == Spec => []TypeOK
<1>1. IInv => TypeOK
    BY DEF IInv, TreeInv, TreeTypes, ProofsInv, ProofInv, SpendTypes, TypeOK
<1>2. QED
    BY <1>1, InductiveInvariant, PTL

(* The leaf count a relay must present belongs to the stored root.         *)
THEOREM CountsMatch == Spec => []RootsMatchCounts
<1>1. IInv => RootsMatchCounts
    BY DEF IInv, TreeInv
<1>2. QED
    BY <1>1, InductiveInvariant, PTL

(* Every root the pool accepts is a prefix of today's tree.                *)
LEMMA InvKnownRootsAreGenuine == TreeInv => KnownRootsAreGenuine
<1> SUFFICES ASSUME TreeInv, NEW t \in Tree, NEW r \in KnownRoots, IsKnownTreeRoot(t, r)
             PROVE  /\ t <= currentTreeNumber
                    /\ InLog(rootLog[t], r)
                    /\ IsPrefix(r, treeRoot[t])
    BY DEF KnownRootsAreGenuine, InLog
<1>1. CASE treeRoot[t] = r
    <2>1. t <= currentTreeNumber /\ r \in Root
        BY <1>1 DEF TreeInv, TreeTypes, RootsMatchCounts, IsKnownTreeRoot
    <2>2. InLog(rootLog[t], r)
        BY <1>1, <2>1 DEF TreeInv, TreeTypes, RootsInstalled, Tree
    <2>3. QED
        BY <1>1, <2>1, <2>2, PrefixReflexive
<1>2. CASE \E i \in Slot : treeRootHistory[t][i] = r
    BY <1>2 DEF TreeInv, HistoryGenuine, IsKnownTreeRoot
<1>3. QED
    BY <1>1, <1>2 DEF IsKnownTreeRoot

(* A known root was installed in its tree and the tree still extends it.   *)
THEOREM KnownRootsGenuine == Spec => []KnownRootsAreGenuine
<1>1. IInv => KnownRootsAreGenuine
    BY InvKnownRootsAreGenuine DEF IInv
<1>2. QED
    BY <1>1, InductiveInvariant, PTL

(* A finalized tree is full and is known by its final root alone.          *)
THEOREM FinalizedSealed == Spec => []FinalizedTreesSealed
<1>1. IInv => FinalizedTreesSealed
    <2> SUFFICES ASSUME TreeInv, NEW t \in 0..currentTreeNumber - 1
                 PROVE  /\ treeCount[t] = Capacity
                        /\ \A r \in KnownRoots : IsKnownTreeRoot(t, r) => Len(r) = Capacity
        BY DEF IInv, FinalizedTreesSealed
    <2>1. treeCount[t] = Capacity
        BY DEF TreeInv, FinalizedFull
    <2>2. t \in Tree /\ ~(t >= currentTreeNumber) /\ t <= currentTreeNumber
        BY MaxTreeAssumption DEF TreeInv, TreeTypes, Tree
    <2>3. Len(treeRoot[t]) = Capacity
        BY <2>1, <2>2 DEF TreeInv, RootsMatchCounts
    <2>4. QED
        BY <2>1, <2>2, <2>3 DEF IsKnownTreeRoot
<1>2. QED
    BY <1>1, InductiveInvariant, PTL

-----------------------------------------------------------------------------
(* No note is spent twice.                                                 *)

(* A prefix agrees on its leaves.                                          *)
LEMMA PrefixLeaf ==
    ASSUME NEW r \in Root, NEW s \in Root, IsPrefix(r, s), NEW i \in Nat, i < Len(r)
    PROVE  i < Len(s) /\ s[i + 1] = r[i + 1]
<1>1. Len(r) \in Nat /\ Len(s) \in Nat
    BY LenProperties DEF Root
<1>2. QED
    BY <1>1 DEF IsPrefix

(* A leaf stays the same leaf while the trees grow.                        *)
LEMMA OpenedPersists ==
    ASSUME TreesGrow, NEW kind, NEW pos \in Position, Opened(kind, pos)
    PROVE  Opened(kind, pos)'
<1> DEFINE r == treeRoot[pos[1]]
           s == treeRoot'[pos[1]]
<1>1. pos[1] \in Tree /\ pos[2] \in Nat
    BY DEF Position
<1>2. r \in Root /\ s \in Root /\ IsPrefix(r, s) /\ r # NoRoot /\ pos[2] < Len(r)
    BY <1>1 DEF TreesGrow, Opened
<1>3. pos[2] < Len(s) /\ s[pos[2] + 1] = r[pos[2] + 1]
    BY <1>1, <1>2, PrefixLeaf
<1>4. s # NoRoot
    BY <1>2, NoRootAssumption DEF Root
<1>5. QED
    BY <1>3, <1>4 DEF Opened

(* A leaf has one nullifier.                                               *)
LEMMA OneNullifier ==
    ASSUME NEW k1 \in Spends, NEW k2 \in Spends, NEW pos, Opened(k1, pos), Opened(k2, pos)
    PROVE  Nullifier(k1, pos) = Nullifier(k2, pos)
BY DEF Opened, OpensWith, Nullifier, DomainOf

(* The kind of a proof with inputs is one of those that spend.             *)
LEMMA InputsAreLeaves ==
    ASSUME TreeInv, NEW p, ProofInv(p), AllRootsKnown(p.usedRoots)
    PROVE  \A i \in DOMAIN p.inputs : p.inputs[i] \in Position /\ Opened(p.kind, p.inputs[i])
<1> SUFFICES ASSUME NEW i \in DOMAIN p.inputs
             PROVE  p.inputs[i] \in Position /\ Opened(p.kind, p.inputs[i])
    OBVIOUS
<1> DEFINE pos == p.inputs[i]
<1>1. pos \in Position /\ pos[1] \in Tree /\ pos[2] \in Nat
    BY DEF ProofInv, ProofShape, Position
<1>2. PICK u \in p.usedRoots :
        /\ u[1] = pos[1]
        /\ pos[2] < Len(u[2])
        /\ OpensWith(p.kind, u[2][pos[2] + 1])
    BY DEF ProofInv, InputsUnderRoots
<1>3. u[1] \in Tree /\ u[2] \in Root /\ IsKnownTreeRoot(u[1], u[2])
    BY <1>2 DEF ProofInv, ProofShape, AllRootsKnown
<1>4. u[2] \in KnownRoots
    BY <1>3 DEF IsKnownTreeRoot, KnownRoots
<1>5. u[1] <= currentTreeNumber /\ IsPrefix(u[2], treeRoot[u[1]])
    BY <1>3, <1>4, InvKnownRootsAreGenuine DEF KnownRootsAreGenuine
<1>6. treeRoot[u[1]] # NoRoot /\ treeRoot[u[1]] \in Root
    BY <1>3, <1>5 DEF TreeInv, TreeTypes, RootsMatchCounts
<1>7. pos[2] < Len(treeRoot[u[1]]) /\ treeRoot[u[1]][pos[2] + 1] = u[2][pos[2] + 1]
    BY <1>1, <1>2, <1>3, <1>5, <1>6, PrefixLeaf
<1>8. QED
    BY <1>1, <1>2, <1>6, <1>7 DEF Opened

(* Inputs whose nullifiers are new belong to notes never spent.            *)
LEMMA FreshInputs ==
    ASSUME TreeInv, SpendTypes, SpendInv, NEW p, ProofInv(p), p.kind \in Spends,
           AllRootsKnown(p.usedRoots), CanSpend(p)
    PROVE  \A i \in DOMAIN p.inputs : timesSpent[p.inputs[i]] = 0
<1> SUFFICES ASSUME NEW i \in DOMAIN p.inputs, timesSpent[p.inputs[i]] # 0
             PROVE  FALSE
    OBVIOUS
<1> DEFINE pos == p.inputs[i]
<1>1. pos \in Position /\ Opened(p.kind, pos)
    BY InputsAreLeaves
<1>2. timesSpent[pos] \in Nat
    BY <1>1 DEF SpendTypes
<1>3. PICK kind \in Spends : Opened(kind, pos) /\ Nullifier(kind, pos) \in nullifierSpent
    BY <1>1, <1>2 DEF SpendInv
<1>4. Nullifier(kind, pos) = Nullifier(p.kind, pos)
    BY <1>1, <1>3, OneNullifier
<1>5. QED
    BY <1>3, <1>4 DEF CanSpend

(* Settling spends of fresh leaves keeps every note spent at most once.    *)
LEMMA SettledSpends ==
    ASSUME SpendTypes, SpendInv, TreesGrow,
           NEW p, p.kind \in Spends,
           \A i \in DOMAIN p.inputs :
                /\ p.inputs[i] \in Position
                /\ Opened(p.kind, p.inputs[i])
                /\ timesSpent[p.inputs[i]] = 0
                /\ Nullifier(p.kind, p.inputs[i]) \in nullifierSpent',
           \A i, j \in DOMAIN p.inputs : p.inputs[i] = p.inputs[j] => i = j,
           nullifierSpent \subseteq nullifierSpent',
           CountSpends(p),
           inEpoch' = NoProof
    PROVE  SpendInv'
<1>1. ASSUME NEW pos \in Position
      PROVE  /\ timesSpent'[pos] <= 1
             /\ timesSpent'[pos] > 0 =>
                    \E kind \in Spends :
                        Opened(kind, pos)' /\ Nullifier(kind, pos) \in nullifierSpent'
    <2> DEFINE same == {i \in DOMAIN p.inputs : p.inputs[i] = pos}
    <2>1. timesSpent'[pos] = timesSpent[pos] + Cardinality(same)
        BY DEF CountSpends
    <2>2. timesSpent[pos] \in Nat /\ timesSpent[pos] <= 1
        BY DEF SpendTypes, SpendInv
    <2>3. CASE \E i \in DOMAIN p.inputs : p.inputs[i] = pos
        <3>1. PICK i \in DOMAIN p.inputs : p.inputs[i] = pos
            BY <2>3
        <3>2. Cardinality(same) = 1
            <4>1. same = {i}
                BY <3>1
            <4>2. QED
                BY <4>1, FS_Singleton
        <3>3. Opened(p.kind, pos)' /\ Nullifier(p.kind, pos) \in nullifierSpent'
            BY <3>1, OpenedPersists
        <3>4. timesSpent[pos] = 0
            BY <3>1
        <3>5. QED
            BY <2>1, <3>2, <3>3, <3>4
    <2>4. CASE ~ \E i \in DOMAIN p.inputs : p.inputs[i] = pos
        <3>0. Cardinality(same) = 0
            <4>1. same = {}
                BY <2>4
            <4>2. QED
                BY <4>1, FS_EmptySet
        <3>1. timesSpent'[pos] = timesSpent[pos]
            BY <2>1, <2>2, <3>0
        <3>2. ASSUME timesSpent[pos] > 0
              PROVE  \E kind \in Spends :
                        Opened(kind, pos)' /\ Nullifier(kind, pos) \in nullifierSpent'
            <4>1. PICK kind \in Spends : Opened(kind, pos) /\ Nullifier(kind, pos) \in nullifierSpent
                BY <3>2 DEF SpendInv
            <4>2. Opened(kind, pos)'
                BY <4>1, OpenedPersists
            <4>3. QED
                BY <4>1, <4>2
        <3>3. QED
            BY <2>2, <3>1, <3>2
    <2>5. QED
        BY <2>3, <2>4
<1>2. QED
    BY <1>1 DEF SpendInv, Nullifier

(* Steps that neither settle nor revert spends.                            *)
LEMMA SpendInvKept ==
    ASSUME SpendInv, SpendTypes, UNCHANGED <<treeVars, spendVars, inEpoch>>
    PROVE  SpendInv'
<1>1. \A kind, pos : Opened(kind, pos)' <=> Opened(kind, pos)
    BY DEF Opened, treeVars
<1>2. QED
    BY <1>1 DEF SpendInv, Nullifier, treeVars, spendVars, Opened

(* Nothing is lost from trees that are left alone.                         *)
LEMMA UnchangedGrow == ASSUME TreeInv, UNCHANGED treeVars PROVE TreesGrow
<1> SUFFICES ASSUME NEW t \in Tree, treeRoot[t] # NoRoot
             PROVE  /\ treeRoot[t] \in Root /\ treeRoot'[t] \in Root
                    /\ IsPrefix(treeRoot[t], treeRoot'[t])
    BY DEF TreesGrow
<1>1. treeRoot[t] \in Root /\ treeRoot'[t] = treeRoot[t]
    BY DEF TreeInv, TreeTypes, treeVars
<1>2. QED
    BY <1>1, PrefixReflexive

(* Entering a transfer epoch, which marks its inputs as spent.             *)
LEMMA EpochKeepsSpends ==
    ASSUME IInv, SpendInv, NEW p \in proofs, SubmitEpoch(p)
    PROVE  SpendInv'
<1>1. ProofInv(p) /\ p.kind \in Spends
    BY DEF SubmitEpoch, IInv, ProofsInv, Spends
<1>2. /\ AllRootsKnown(p.usedRoots)
      /\ CanSpend(p)
      /\ nullifierSpent' = nullifierSpent \cup NullifiersOf(p)
      /\ inEpoch' = p
      /\ timesSpent' = timesSpent
      /\ treeRoot' = treeRoot
    BY DEF SubmitEpoch, ValidateKnownRoots, MarkSpent, treeVars
<1>3. \A i \in DOMAIN p.inputs : Opened(p.kind, p.inputs[i]) /\ timesSpent[p.inputs[i]] = 0
    BY <1>1, <1>2, InputsAreLeaves, FreshInputs DEF IInv
<1>4. \A i \in DOMAIN p.inputs : Nullifier(p.kind, p.inputs[i]) \in nullifierSpent'
    BY <1>2 DEF NullifiersOf
<1>5. \A kind, pos : Opened(kind, pos)' <=> Opened(kind, pos)
    BY <1>2 DEF Opened
<1>6. \A i, j \in DOMAIN p.inputs : p.inputs[i] = p.inputs[j] => i = j
    BY <1>2 DEF CanSpend
<1>7. /\ \A pos \in Position : timesSpent'[pos] <= 1
      /\ \A pos \in Position :
            timesSpent'[pos] > 0 =>
                \E kind \in Spends : Opened(kind, pos)' /\ Nullifier(kind, pos) \in nullifierSpent'
    BY <1>2, <1>5 DEF SpendInv
<1>8. \A i \in DOMAIN p.inputs :
        /\ Opened(p.kind, p.inputs[i])'
        /\ timesSpent'[p.inputs[i]] = 0
    BY <1>2, <1>3, <1>5
<1>9. QED
    BY <1>2, <1>4, <1>6, <1>7, <1>8 DEF SpendInv, Nullifier, Opened

(* Settling one, after which its spends count.                             *)
LEMMA SettleKeepsSpends ==
    ASSUME IInv, SpendInv, SettleEpoch
    PROVE  SpendInv'
<1>1. PICK p : p = inEpoch
    OBVIOUS
<1>2. /\ ProofInv(p) /\ AtTip(p) /\ p.kind = "transfer" /\ ProofShape(p)
      /\ UpdateTreeState(p.tree, p.rootNew, p.countNew, p.rollover)
      /\ CountSpends(p)
      /\ inEpoch' = NoProof
      /\ nullifierSpent' = nullifierSpent
    BY <1>1 DEF SettleEpoch, IInv, ProofsInv, ProofInv
<1>3. p.kind \in Spends /\ p.kind \in Appends
    BY <1>2 DEF Spends, Appends
<1>4. TreesGrow
    BY <1>2, <1>3, AppendKeepsTrees DEF IInv, ProofInv
<1>5. \A i \in DOMAIN p.inputs :
        /\ p.inputs[i] \in Position
        /\ Opened(p.kind, p.inputs[i])
        /\ timesSpent[p.inputs[i]] = 0
        /\ Nullifier(p.kind, p.inputs[i]) \in nullifierSpent'
    <2>1. \A i \in DOMAIN p.inputs : p.inputs[i] \in Position
        BY <1>2 DEF ProofShape
    <2>2. QED
        BY <2>1, <1>1, <1>2 DEF SettleEpoch, SpendInv
<1>6. \A i, j \in DOMAIN p.inputs : p.inputs[i] = p.inputs[j] => i = j
    BY <1>1 DEF SettleEpoch, SpendInv
<1>7. QED
    BY <1>2, <1>3, <1>4, <1>5, <1>6, SettledSpends DEF IInv

(* Reverting one takes back exactly what it had marked.                    *)
LEMMA RevertKeepsSpends ==
    ASSUME IInv, SpendInv, RevertEpoch
    PROVE  SpendInv'
<1>1. /\ inEpoch # NoProof
      /\ nullifierSpent' = nullifierSpent \ NullifiersOf(inEpoch)
      /\ inEpoch' = NoProof
      /\ timesSpent' = timesSpent
      /\ treeRoot' = treeRoot
    BY DEF RevertEpoch, treeVars
<1>2. \A kind, pos : Opened(kind, pos)' <=> Opened(kind, pos)
    BY <1>1 DEF Opened
<1>3. ASSUME NEW pos \in Position, timesSpent[pos] > 0, NEW kind \in Spends,
             Nullifier(kind, pos) \in nullifierSpent
      PROVE  Nullifier(kind, pos) \in nullifierSpent'
    <2>1. \A i \in DOMAIN inEpoch.inputs : inEpoch.inputs[i] # pos
        BY <1>1, <1>3 DEF SpendInv
    <2>2. Nullifier(kind, pos) \notin NullifiersOf(inEpoch)
        BY <2>1 DEF NullifiersOf, Nullifier
    <2>3. QED
        BY <1>1, <1>3, <2>2
<1>4. ASSUME NEW pos \in Position, timesSpent'[pos] > 0
      PROVE  \E kind \in Spends : Opened(kind, pos)' /\ Nullifier(kind, pos) \in nullifierSpent'
    <2>1. PICK kind \in Spends : Opened(kind, pos) /\ Nullifier(kind, pos) \in nullifierSpent
        BY <1>1, <1>4 DEF SpendInv
    <2>2. QED
        BY <1>1, <1>2, <1>3, <1>4, <2>1
<1>5. \A pos \in Position : timesSpent'[pos] <= 1
    BY <1>1 DEF SpendInv
<1>6. QED
    BY <1>1, <1>4, <1>5 DEF SpendInv, Nullifier

(* A gift claim or a public exit, which spends and settles at once.        *)
LEMMA GiftKeepsSpends ==
    ASSUME IInv, SpendInv, NEW p \in proofs, SubmitGiftClaimEpoch(p) \/ PublicGiftExit(p)
    PROVE  SpendInv'
<1>1. ProofInv(p) /\ p.kind \in Spends
    BY DEF SubmitGiftClaimEpoch, PublicGiftExit, IInv, ProofsInv, Spends
<1>2. /\ AllRootsKnown(p.usedRoots)
      /\ CanSpend(p)
      /\ nullifierSpent' = nullifierSpent \cup NullifiersOf(p)
      /\ CountSpends(p)
      /\ inEpoch' = NoProof
    BY DEF SubmitGiftClaimEpoch, PublicGiftExit, ValidateKnownRoots, MarkSpent, NonReentrant
<1>3. TreesGrow
    <2>1. CASE SubmitGiftClaimEpoch(p)
        <3>1. AtTip(p) /\ UpdateTreeState(p.tree, p.rootNew, p.countNew, p.rollover)
            BY <2>1 DEF SubmitGiftClaimEpoch, ValidateTreeState, AtTip
        <3>2. ProofShape(p) /\ TreeTransition(p)
            BY <1>1, <2>1 DEF SubmitGiftClaimEpoch, ProofInv, Appends
        <3>3. QED
            BY <3>1, <3>2, AppendKeepsTrees DEF IInv
    <2>2. CASE PublicGiftExit(p)
        BY <2>2, UnchangedGrow DEF PublicGiftExit, IInv
    <2>3. QED
        BY <2>1, <2>2
<1>4. \A i \in DOMAIN p.inputs :
        /\ p.inputs[i] \in Position
        /\ Opened(p.kind, p.inputs[i])
        /\ timesSpent[p.inputs[i]] = 0
    BY <1>1, <1>2, InputsAreLeaves, FreshInputs DEF IInv
<1>5. \A i \in DOMAIN p.inputs : Nullifier(p.kind, p.inputs[i]) \in nullifierSpent'
    BY <1>2 DEF NullifiersOf
<1>6. \A i, j \in DOMAIN p.inputs : p.inputs[i] = p.inputs[j] => i = j
    BY <1>2 DEF CanSpend
<1>7. QED
    BY <1>1, <1>2, <1>3, <1>4, <1>5, <1>6, SettledSpends DEF IInv

(* Deposit epochs lose no leaf.                                            *)
LEMMA DepositGrows ==
    ASSUME IInv, NEW p \in proofs, SubmitDepositEpoch(p) \/ SubmitPortalDepositEpoch(p)
    PROVE  TreesGrow
<1>1. /\ p.kind \in {"deposit", "portal"}
      /\ ValidateTreeState(p)
      /\ <<p.tree, treeRoot[p.tree]>> \in p.usedRoots
      /\ UpdateTreeState(p.tree, p.rootNew, p.countNew, p.rollover)
    BY DEF SubmitDepositEpoch, SubmitPortalDepositEpoch
<1>2. ProofInv(p) /\ ProofShape(p) /\ TreeTransition(p)
    BY <1>1 DEF IInv, ProofsInv, ProofInv, Appends
<1>3. AtTip(p)
    BY <1>1, <1>2, DepositAtTip
<1>4. QED
    BY <1>1, <1>2, <1>3, AppendKeepsTrees DEF IInv

(* A deposit epoch, which only appends.                                    *)
LEMMA DepositKeepsSpends ==
    ASSUME IInv, SpendInv, NEW p \in proofs, SubmitDepositEpoch(p) \/ SubmitPortalDepositEpoch(p)
    PROVE  SpendInv'
<1>1. /\ UNCHANGED <<nullifierSpent, timesSpent, inEpoch>>
      /\ inEpoch = NoProof
    BY DEF SubmitDepositEpoch, SubmitPortalDepositEpoch, spendVars, NonReentrant
<1>2. TreesGrow
    BY DepositGrows
<1>3. ASSUME NEW pos \in Position, timesSpent'[pos] > 0
      PROVE  \E kind \in Spends : Opened(kind, pos)' /\ Nullifier(kind, pos) \in nullifierSpent'
    <2>1. PICK kind \in Spends : Opened(kind, pos) /\ Nullifier(kind, pos) \in nullifierSpent
        BY <1>1, <1>3 DEF SpendInv
    <2>2. QED
        BY <1>1, <1>2, <2>1, OpenedPersists
<1>4. \A pos \in Position : timesSpent'[pos] <= 1
    BY <1>1 DEF SpendInv
<1>5. QED
    BY <1>1, <1>3, <1>4 DEF SpendInv, Nullifier

(* The spend records are as SpendInv says in every reachable state.        *)
THEOREM SpendInvariant == Spec => []SpendInv
<1>1. Init => SpendInv
    BY DEF Init, SpendInv
<1>2. IInv /\ SpendInv /\ [Next]_vars => SpendInv'
    <2> SUFFICES ASSUME IInv, SpendInv, [Next]_vars PROVE SpendInv'
        OBVIOUS
    <2>1. CASE UNCHANGED vars
        BY <2>1, SpendInvKept DEF vars, IInv
    <2>2. CASE \E kind \in Kinds : Prove(kind)
        <3>1. UNCHANGED <<treeVars, spendVars, inEpoch>>
            BY <2>2 DEF Prove, AddProof
        <3>2. QED
            BY <3>1, SpendInvKept DEF IInv
    <2>3. CASE \E p \in proofs : Submit(p)
        BY <2>3, EpochKeepsSpends, GiftKeepsSpends, DepositKeepsSpends DEF Submit
    <2>4. CASE \E p \in proofs : Discard(p)
        BY <2>4, SpendInvKept DEF Discard, IInv
    <2>5. CASE SettleEpoch \/ RevertEpoch
        BY <2>5, SettleKeepsSpends, RevertKeepsSpends
    <2>6. QED
        BY <2>1, <2>2, <2>3, <2>4, <2>5 DEF Next
<1>3. QED
    BY <1>1, <1>2, InductiveInvariant, PTL DEF Spec

(* A note is spent at most once.                                           *)
THEOREM NoNoteSpentTwice == Spec => []NoDoubleSpend
<1>1. SpendInv => NoDoubleSpend
    BY DEF SpendInv, NoDoubleSpend
<1>2. QED
    BY <1>1, SpendInvariant, PTL

-----------------------------------------------------------------------------
(* What the recorded nullifiers stand for.                                 *)

(* A nullifier on record is that of a leaf of its kind, spent or about to  *)
(* be by the epoch that is being settled.                                  *)
InFlight(pos) == inEpoch # NoProof /\ \E i \in DOMAIN inEpoch.inputs : inEpoch.inputs[i] = pos

MarksInv ==
    \A d \in {"note", "gift"}, pos \in Position :
        <<d, pos>> \in nullifierSpent =>
            /\ \E kind \in Spends : DomainOf(kind) = d /\ Opened(kind, pos)
            /\ timesSpent[pos] > 0 \/ InFlight(pos)

ProofsAreProofs == NoProof \notin proofs

(* What a prover prepares is not the mark of an idle pool.                 *)
LEMMA NewProofIsOne ==
    ASSUME NEW kind, NEW used, NEW ins, NEW outs, ProofShape(NewProof(kind, used, ins, outs))
    PROVE  NewProof(kind, used, ins, outs) # NoProof
<1> DEFINE t == currentTreeNumber
           full == treeCount[t] = Capacity
           new == IF full THEN outs ELSE treeRoot[t] \o outs
           p == [kind |-> kind, tree |-> t, countOld |-> treeCount[t],
                 activeRoot |-> treeRoot[t], usedRoots |-> used, inputs |-> ins,
                 outs |-> outs, rootNew |-> new, countNew |-> Len(new), rollover |-> full]
<1>1. p = NewProof(kind, used, ins, outs)
    BY DEF NewProof
<1>2. ProofShape(p)
    BY <1>1
<1>3. /\ kind \in AllKinds /\ t \in Tree
      /\ treeCount[t] \in 0..Capacity /\ Len(new) \in 0..Capacity
      /\ treeRoot[t] \in Root /\ new \in Root
      /\ used \in SUBSET (Tree \X Root)
      /\ ins \in Seq(Position) /\ outs \in Seq(Commitment) /\ full \in BOOLEAN
    BY <1>2 DEF ProofShape
<1>4. treeCount[t] \in Nat /\ Len(new) \in Nat
    BY <1>3, CapacityAssumption
<1> HIDE DEF t, full, new
<1>5. p \in [kind : AllKinds, tree : Tree, countOld : Nat, activeRoot : Root,
             usedRoots : SUBSET (Tree \X Root), inputs : Seq(Position),
             outs : Seq(Commitment), rootNew : Root, countNew : Nat, rollover : BOOLEAN]
    BY <1>3, <1>4
<1>6. QED
    BY <1>1, <1>5, NoProofAssumption

(* Nor is the proof of a public exit.                                      *)
LEMMA ExitProofIsOne ==
    ASSUME NEW used, NEW pos, NEW r, NEW count, ProofShape(ExitProof(used, pos, r, count))
    PROVE  ExitProof(used, pos, r, count) # NoProof
<1> DEFINE t == currentTreeNumber
           full == count = Capacity
           p == [kind |-> "exit", tree |-> t, countOld |-> count,
                 activeRoot |-> r, usedRoots |-> used, inputs |-> <<pos>>, outs |-> <<>>,
                 rootNew |-> r, countNew |-> count, rollover |-> full]
<1>1. p = ExitProof(used, pos, r, count)
    BY DEF ExitProof
<1>2. ProofShape(p)
    BY <1>1
<1>3. /\ t \in Tree /\ count \in 0..Capacity /\ r \in Root
      /\ used \in SUBSET (Tree \X Root)
      /\ <<pos>> \in Seq(Position) /\ full \in BOOLEAN
    BY <1>2 DEF ProofShape
<1>4. count \in Nat /\ "exit" \in AllKinds /\ <<>> \in Seq(Commitment)
    BY <1>3, CapacityAssumption DEF AllKinds
<1> HIDE DEF t, full
<1>5. p \in [kind : AllKinds, tree : Tree, countOld : Nat, activeRoot : Root,
             usedRoots : SUBSET (Tree \X Root), inputs : Seq(Position),
             outs : Seq(Commitment), rootNew : Root, countNew : Nat, rollover : BOOLEAN]
    BY <1>3, <1>4
<1>6. QED
    BY <1>1, <1>5, NoProofAssumption

(* So the mark of an idle pool is never submitted as a proof.              *)
LEMMA ProofsStayProofs ==
    ASSUME IInv, ProofsAreProofs, [Next]_vars
    PROVE  ProofsAreProofs'
<1>1. CASE \E kind \in Kinds : Prove(kind)
    <2>1. PICK kind \in Kinds : Prove(kind)
        BY <1>1
    <2>2. PICK p : /\ AddProof(p)
                   /\ \/ \E used, ins, outs : p = NewProof(kind, used, ins, outs)
                      \/ \E used, pos, r, count : p = ExitProof(used, pos, r, count)
        BY <2>1 DEF Prove
    <2>3. IInv'
        BY <2>1, ProveKeeps
    <2>4. p \in proofs' /\ proofs' = proofs \cup {p}
        BY <2>2 DEF AddProof
    <2>5. ProofShape(p)
        BY <2>3, <2>4 DEF IInv, ProofsInv, ProofInv
    <2>6. p # NoProof
        BY <2>2, <2>5, NewProofIsOne, ExitProofIsOne
    <2>7. QED
        BY <2>4, <2>6 DEF ProofsAreProofs
<1>2. CASE proofs' \subseteq proofs
    BY <1>2 DEF ProofsAreProofs
<1>3. (\E kind \in Kinds : Prove(kind)) \/ proofs' \subseteq proofs
    BY DEF Next, vars, Discard, Submit, SubmitEpoch, SubmitDepositEpoch, SubmitPortalDepositEpoch,
           SubmitGiftClaimEpoch, PublicGiftExit, SettleEpoch, RevertEpoch
<1>4. QED
    BY <1>1, <1>2, <1>3

(* Settling makes every note that was in flight a spent one.               *)
LEMMA CountedSpends ==
    ASSUME SpendTypes, NEW p, CountSpends(p),
           \A i, j \in DOMAIN p.inputs : p.inputs[i] = p.inputs[j] => i = j,
           NEW pos \in Position,
           timesSpent[pos] > 0 \/ \E i \in DOMAIN p.inputs : p.inputs[i] = pos
    PROVE  timesSpent'[pos] > 0
<1> DEFINE same == {i \in DOMAIN p.inputs : p.inputs[i] = pos}
<1>1. timesSpent'[pos] = timesSpent[pos] + Cardinality(same) /\ timesSpent[pos] \in Nat
    BY DEF CountSpends, SpendTypes
<1>2. CASE \E i \in DOMAIN p.inputs : p.inputs[i] = pos
    <2>1. PICK i \in DOMAIN p.inputs : p.inputs[i] = pos
        BY <1>2
    <2>2. same = {i}
        BY <2>1
    <2>3. Cardinality(same) = 1
        BY <2>2, FS_Singleton
    <2>4. QED
        BY <1>1, <2>3
<1>3. CASE ~ \E i \in DOMAIN p.inputs : p.inputs[i] = pos
    <2>1. same = {}
        BY <1>3
    <2>2. Cardinality(same) = 0
        BY <2>1, FS_EmptySet
    <2>3. QED
        BY <1>1, <1>3, <2>2
<1>4. QED
    BY <1>2, <1>3

(* Every nullifier a submission marks is that of a leaf it opened.         *)
LEMMA MarkedLeaves ==
    ASSUME IInv, MarksInv, TreesGrow,
           NEW p, ProofInv(p), p.kind \in Spends, AllRootsKnown(p.usedRoots), MarkSpent(p),
           NEW d \in {"note", "gift"}, NEW pos \in Position, <<d, pos>> \in nullifierSpent'
    PROVE  /\ \E kind \in Spends : DomainOf(kind) = d /\ Opened(kind, pos)'
           /\ \/ <<d, pos>> \in nullifierSpent
              \/ \E i \in DOMAIN p.inputs : p.inputs[i] = pos
<1>1. CASE <<d, pos>> \in nullifierSpent
    <2>1. PICK kind \in Spends : DomainOf(kind) = d /\ Opened(kind, pos)
        BY <1>1 DEF MarksInv
    <2>2. QED
        BY <1>1, <2>1, OpenedPersists
<1>2. CASE <<d, pos>> \in NullifiersOf(p)
    <2>1. PICK i \in DOMAIN p.inputs : <<d, pos>> = <<DomainOf(p.kind), p.inputs[i]>>
        BY <1>2 DEF NullifiersOf, Nullifier
    <2>2. d = DomainOf(p.kind) /\ pos = p.inputs[i]
        BY <2>1
    <2>3. Opened(p.kind, pos)
        BY <2>2, InputsAreLeaves DEF IInv
    <2>4. QED
        BY <2>2, <2>3, OpenedPersists
<1>3. QED
    BY <1>1, <1>2 DEF MarkSpent

(* An epoch marks its inputs before it settles.                            *)
LEMMA EpochKeepsMarks ==
    ASSUME IInv, MarksInv, ProofsAreProofs, NEW p \in proofs, SubmitEpoch(p)
    PROVE  MarksInv'
<1>1. ProofInv(p) /\ p.kind \in Spends /\ p # NoProof
    BY DEF SubmitEpoch, IInv, ProofsInv, Spends, ProofsAreProofs
<1>2. /\ AllRootsKnown(p.usedRoots) /\ MarkSpent(p)
      /\ inEpoch = NoProof /\ inEpoch' = p
      /\ timesSpent' = timesSpent
      /\ UNCHANGED treeVars
    BY DEF SubmitEpoch, ValidateKnownRoots, NonReentrant
<1>3. TreesGrow
    BY <1>2, UnchangedGrow DEF IInv
<1> SUFFICES ASSUME NEW d \in {"note", "gift"}, NEW pos \in Position, <<d, pos>> \in nullifierSpent'
             PROVE  /\ \E kind \in Spends : DomainOf(kind) = d /\ Opened(kind, pos)'
                    /\ timesSpent'[pos] > 0 \/ InFlight(pos)'
    BY DEF MarksInv
<1>4. /\ \E kind \in Spends : DomainOf(kind) = d /\ Opened(kind, pos)'
      /\ <<d, pos>> \in nullifierSpent \/ \E i \in DOMAIN p.inputs : p.inputs[i] = pos
    BY <1>1, <1>2, <1>3, MarkedLeaves
<1>5. CASE <<d, pos>> \in nullifierSpent
    BY <1>2, <1>4, <1>5 DEF MarksInv, InFlight
<1>6. CASE \E i \in DOMAIN p.inputs : p.inputs[i] = pos
    BY <1>1, <1>2, <1>4, <1>6 DEF InFlight
<1>7. QED
    BY <1>4, <1>5, <1>6

(* Gift claims and public exits mark and settle at once.                   *)
LEMMA GiftKeepsMarks ==
    ASSUME IInv, MarksInv, NEW p \in proofs, SubmitGiftClaimEpoch(p) \/ PublicGiftExit(p)
    PROVE  MarksInv'
<1>1. ProofInv(p) /\ p.kind \in Spends
    BY DEF SubmitGiftClaimEpoch, PublicGiftExit, IInv, ProofsInv, Spends
<1>2. /\ AllRootsKnown(p.usedRoots) /\ MarkSpent(p) /\ CountSpends(p) /\ CanSpend(p)
      /\ inEpoch = NoProof
    BY DEF SubmitGiftClaimEpoch, PublicGiftExit, ValidateKnownRoots, NonReentrant
<1>3. TreesGrow
    <2>1. CASE SubmitGiftClaimEpoch(p)
        <3>1. AtTip(p) /\ UpdateTreeState(p.tree, p.rootNew, p.countNew, p.rollover)
            BY <2>1 DEF SubmitGiftClaimEpoch, ValidateTreeState, AtTip
        <3>2. ProofShape(p) /\ TreeTransition(p)
            BY <1>1, <2>1 DEF SubmitGiftClaimEpoch, ProofInv, Appends
        <3>3. QED
            BY <3>1, <3>2, AppendKeepsTrees DEF IInv
    <2>2. CASE PublicGiftExit(p)
        BY <2>2, UnchangedGrow DEF PublicGiftExit, IInv
    <2>3. QED
        BY <2>1, <2>2
<1> SUFFICES ASSUME NEW d \in {"note", "gift"}, NEW pos \in Position, <<d, pos>> \in nullifierSpent'
             PROVE  /\ \E kind \in Spends : DomainOf(kind) = d /\ Opened(kind, pos)'
                    /\ timesSpent'[pos] > 0
    BY DEF MarksInv
<1>4. /\ \E kind \in Spends : DomainOf(kind) = d /\ Opened(kind, pos)'
      /\ <<d, pos>> \in nullifierSpent \/ \E i \in DOMAIN p.inputs : p.inputs[i] = pos
    BY <1>1, <1>2, <1>3, MarkedLeaves
<1>5. timesSpent[pos] > 0 \/ \E i \in DOMAIN p.inputs : p.inputs[i] = pos
    BY <1>2, <1>4 DEF MarksInv, InFlight
<1>6. \A i, j \in DOMAIN p.inputs : p.inputs[i] = p.inputs[j] => i = j
    BY <1>2 DEF CanSpend
<1>7. timesSpent'[pos] > 0
    BY <1>2, <1>5, <1>6, CountedSpends DEF IInv
<1>8. QED
    BY <1>4, <1>7

(* Deposits mark nothing.                                                  *)
LEMMA DepositKeepsMarks ==
    ASSUME IInv, MarksInv, NEW p \in proofs, SubmitDepositEpoch(p) \/ SubmitPortalDepositEpoch(p)
    PROVE  MarksInv'
<1>1. UNCHANGED <<nullifierSpent, timesSpent, inEpoch>>
    BY DEF SubmitDepositEpoch, SubmitPortalDepositEpoch, spendVars
<1>2. \A kind : \A pos \in Position : Opened(kind, pos) => Opened(kind, pos)'
    BY DepositGrows, OpenedPersists
<1>3. QED
    BY <1>1, <1>2 DEF MarksInv, InFlight

(* What was in flight is spent once the epoch settles.                     *)
LEMMA SettleKeepsMarks ==
    ASSUME IInv, SpendInv, MarksInv, SettleEpoch
    PROVE  MarksInv'
<1>1. PICK p : p = inEpoch
    OBVIOUS
<1>2. /\ ProofInv(p) /\ AtTip(p) /\ p.kind = "transfer" /\ ProofShape(p)
      /\ UpdateTreeState(p.tree, p.rootNew, p.countNew, p.rollover)
      /\ CountSpends(p)
      /\ nullifierSpent' = nullifierSpent
      /\ \A i, j \in DOMAIN p.inputs : p.inputs[i] = p.inputs[j] => i = j
    BY <1>1 DEF SettleEpoch, IInv, ProofsInv, ProofInv, SpendInv
<1>3. TreesGrow
    BY <1>2, AppendKeepsTrees DEF IInv, ProofInv, Appends
<1> SUFFICES ASSUME NEW d \in {"note", "gift"}, NEW pos \in Position, <<d, pos>> \in nullifierSpent
             PROVE  /\ \E kind \in Spends : DomainOf(kind) = d /\ Opened(kind, pos)'
                    /\ timesSpent'[pos] > 0
    BY <1>2 DEF MarksInv
<1>4. PICK kind \in Spends : DomainOf(kind) = d /\ Opened(kind, pos)
    BY DEF MarksInv
<1>5. Opened(kind, pos)'
    BY <1>3, <1>4, OpenedPersists
<1>6. timesSpent[pos] > 0 \/ \E i \in DOMAIN p.inputs : p.inputs[i] = pos
    BY <1>1 DEF MarksInv, InFlight
<1>7. timesSpent'[pos] > 0
    BY <1>2, <1>6, CountedSpends DEF IInv
<1>8. QED
    BY <1>4, <1>5, <1>7

(* The reverted epoch's own marks go, and the rest were spends all along.  *)
LEMMA RevertKeepsMarks ==
    ASSUME IInv, SpendInv, MarksInv, RevertEpoch
    PROVE  MarksInv'
<1>1. /\ inEpoch # NoProof
      /\ nullifierSpent' = nullifierSpent \ NullifiersOf(inEpoch)
      /\ timesSpent' = timesSpent
      /\ treeRoot' = treeRoot
    BY DEF RevertEpoch, treeVars
<1>2. inEpoch.kind \in Spends
    BY <1>1 DEF IInv, ProofsInv, Spends
<1> SUFFICES ASSUME NEW d \in {"note", "gift"}, NEW pos \in Position, <<d, pos>> \in nullifierSpent'
             PROVE  /\ \E kind \in Spends : DomainOf(kind) = d /\ Opened(kind, pos)'
                    /\ timesSpent'[pos] > 0
    BY DEF MarksInv
<1>3. PICK kind \in Spends : DomainOf(kind) = d /\ Opened(kind, pos)
    BY <1>1 DEF MarksInv
<1>4. Opened(kind, pos)'
    BY <1>1, <1>3 DEF Opened
<1>5. timesSpent[pos] > 0
    <2>1. SUFFICES ASSUME NEW i \in DOMAIN inEpoch.inputs, inEpoch.inputs[i] = pos PROVE FALSE
        BY <1>1 DEF MarksInv, InFlight
    <2>2. Opened(inEpoch.kind, pos)
        BY <1>1, <2>1 DEF SpendInv
    <2>3. Nullifier(inEpoch.kind, pos) = Nullifier(kind, pos)
        BY <1>2, <1>3, <2>2, OneNullifier
    <2>4. <<d, pos>> = Nullifier(kind, pos)
        BY <1>3 DEF Nullifier
    <2>5. QED
        BY <1>1, <2>1, <2>3, <2>4 DEF NullifiersOf
<1>6. QED
    BY <1>1, <1>3, <1>4, <1>5

(* The two records together say what SpentNotesExist says.                 *)
LEMMA MarksAreSpends == ASSUME SpendInv, MarksInv PROVE SpentNotesExist
<1> SUFFICES ASSUME NEW pos \in Position
             PROVE  LET tree == IF treeRoot[pos[1]] = NoRoot THEN EmptyRoot ELSE treeRoot[pos[1]]
                    IN  /\ timesSpent[pos] > 0 => pos[2] < Len(tree)
                        /\ NonReentrant =>
                                \A d \in {"note", "gift"} :
                                    <<d, pos>> \in nullifierSpent <=>
                                        /\ timesSpent[pos] > 0
                                        /\ d = IF tree[pos[2] + 1] \in GiftNote THEN "gift" ELSE "note"
    BY DEF SpentNotesExist
<1> DEFINE tree == IF treeRoot[pos[1]] = NoRoot THEN EmptyRoot ELSE treeRoot[pos[1]]
           domain == IF tree[pos[2] + 1] \in GiftNote THEN "gift" ELSE "note"
<1>1. ASSUME NEW kind, Opened(kind, pos)
      PROVE  pos[2] < Len(tree) /\ DomainOf(kind) = domain
    BY <1>1 DEF Opened, OpensWith, DomainOf
<1>2. ASSUME timesSpent[pos] > 0
      PROVE  pos[2] < Len(tree) /\ <<domain, pos>> \in nullifierSpent
    <2>1. PICK kind \in Spends : Opened(kind, pos) /\ Nullifier(kind, pos) \in nullifierSpent
        BY <1>2 DEF SpendInv
    <2>2. pos[2] < Len(tree) /\ DomainOf(kind) = domain
        BY <1>1, <2>1
    <2>3. QED
        BY <2>1, <2>2 DEF Nullifier
<1>3. ASSUME NonReentrant, NEW d \in {"note", "gift"}, <<d, pos>> \in nullifierSpent
      PROVE  timesSpent[pos] > 0 /\ d = domain
    <2>1. PICK kind \in Spends : DomainOf(kind) = d /\ Opened(kind, pos)
        BY <1>3 DEF MarksInv
    <2>2. d = domain
        BY <1>1, <2>1
    <2>3. timesSpent[pos] > 0
        BY <1>3 DEF MarksInv, InFlight, NonReentrant
    <2>4. QED
        BY <2>2, <2>3
<1> HIDE DEF tree, domain
<1>4. /\ timesSpent[pos] > 0 => pos[2] < Len(tree)
      /\ NonReentrant =>
            \A d \in {"note", "gift"} :
                <<d, pos>> \in nullifierSpent <=> timesSpent[pos] > 0 /\ d = domain
    BY <1>2, <1>3
<1>5. QED
    BY <1>4 DEF tree, domain

(* Only leaves are spent, with the circuit of their kind, and between      *)
(* transactions the recorded nullifiers are those of the settled spends.   *)
THEOREM SpentNotesAreLeaves == Spec => []SpentNotesExist
<1>1. Init => MarksInv /\ ProofsAreProofs
    BY DEF Init, MarksInv, ProofsAreProofs
<1>2. IInv /\ ProofsAreProofs /\ [Next]_vars => ProofsAreProofs'
    BY ProofsStayProofs
<1>3. IInv /\ SpendInv /\ ProofsAreProofs /\ MarksInv /\ [Next]_vars => MarksInv'
    <2> SUFFICES ASSUME IInv, SpendInv, ProofsAreProofs, MarksInv, [Next]_vars PROVE MarksInv'
        OBVIOUS
    <2>1. CASE UNCHANGED <<treeVars, spendVars, inEpoch>>
        <3>1. /\ nullifierSpent' = nullifierSpent /\ timesSpent' = timesSpent
              /\ inEpoch' = inEpoch /\ treeRoot' = treeRoot
            BY <2>1 DEF treeVars, spendVars
        <3>2. QED
            BY <3>1 DEF MarksInv, InFlight, Opened
    <2>2. CASE \E p \in proofs : Submit(p)
        BY <2>2, EpochKeepsMarks, GiftKeepsMarks, DepositKeepsMarks DEF Submit
    <2>3. CASE SettleEpoch \/ RevertEpoch
        BY <2>3, SettleKeepsMarks, RevertKeepsMarks
    <2>4. \/ UNCHANGED <<treeVars, spendVars, inEpoch>>
          \/ \E p \in proofs : Submit(p)
          \/ SettleEpoch \/ RevertEpoch
        BY DEF Next, vars, Prove, AddProof, Discard
    <2>5. QED
        BY <2>1, <2>2, <2>3, <2>4
<1>4. SpendInv /\ MarksInv => SpentNotesExist
    BY MarksAreSpends
<1>5. QED
    BY <1>1, <1>2, <1>3, <1>4, InductiveInvariant, SpendInvariant, PTL DEF Spec

-----------------------------------------------------------------------------
(* Public exits.                                                           *)

(* The circuit ties root and count short of the full tip; the pool's own   *)
(* comparison does at the full tip, and a log never loses a root.          *)
ExitProofsTied == \A p \in proofs : p.kind = "exit" => ExitTransition(p)

ExitsLogged ==
    \A e \in exits :
        /\ e.tree \in Tree /\ e.root \in Root
        /\ Len(e.root) = e.count
        /\ InLog(rootLog[e.tree], e.root)

ExitsInv == ExitProofsTied /\ ExitsLogged

(* The trees are written by appends of sound proofs and by nothing else.   *)
LEMMA OnlyAppendsWrite ==
    ASSUME IInv, [Next]_vars
    PROVE  \/ UNCHANGED treeVars
           \/ \E p : ProofInv(p) /\ UpdateTreeState(p.tree, p.rootNew, p.countNew, p.rollover)
<1>1. CASE UNCHANGED vars \/ RevertEpoch \/ (\E kind \in Kinds : Prove(kind))
           \/ (\E p \in proofs : Discard(p) \/ SubmitEpoch(p) \/ PublicGiftExit(p))
    <2>1. UNCHANGED treeVars
        <3>1. CASE UNCHANGED vars
            BY <3>1 DEF vars, treeVars
        <3>2. CASE RevertEpoch
            BY <3>2 DEF RevertEpoch
        <3>3. CASE \E kind \in Kinds : Prove(kind)
            BY <3>3 DEF Prove, AddProof
        <3>4. CASE \E p \in proofs : Discard(p) \/ SubmitEpoch(p) \/ PublicGiftExit(p)
            BY <3>4 DEF Discard, SubmitEpoch, PublicGiftExit
        <3>5. QED
            BY <1>1, <3>1, <3>2, <3>3, <3>4
    <2>2. QED
        BY <2>1
<1>2. CASE \E p \in proofs : SubmitDepositEpoch(p) \/ SubmitPortalDepositEpoch(p)
                               \/ SubmitGiftClaimEpoch(p)
    BY <1>2 DEF SubmitDepositEpoch, SubmitPortalDepositEpoch, SubmitGiftClaimEpoch, IInv, ProofsInv
<1>3. CASE SettleEpoch
    BY <1>3 DEF SettleEpoch, IInv, ProofsInv
<1>4. QED
    BY <1>1, <1>2, <1>3 DEF Next, Submit

(* Logs of installed roots only grow.                                      *)
LEMMA LogsGrow ==
    ASSUME IInv, [Next]_vars
    PROVE  \A t \in Tree : \A r : InLog(rootLog[t], r) => InLog(rootLog'[t], r)
<1>1. CASE UNCHANGED treeVars
    BY <1>1 DEF treeVars
<1>2. CASE \E p : ProofInv(p) /\ UpdateTreeState(p.tree, p.rootNew, p.countNew, p.rollover)
    <2>1. PICK p : ProofInv(p) /\ UpdateTreeState(p.tree, p.rootNew, p.countNew, p.rollover)
        BY <1>2
    <2>2. PICK target : rootLog' = [rootLog EXCEPT ![target] = Append(@, p.rootNew)]
        BY <2>1 DEF UpdateTreeState
    <2>3. rootLog \in [Tree -> Seq(Root)] /\ p.rootNew \in Root
        BY <2>1 DEF IInv, TreeInv, TreeTypes, ProofInv, ProofShape
    <2>4. ASSUME NEW t \in Tree, NEW r, InLog(rootLog[t], r) PROVE InLog(rootLog'[t], r)
        <3>1. CASE t = target
            <4>1. rootLog'[t] = Append(rootLog[t], p.rootNew) /\ rootLog[t] \in Seq(Root)
                BY <2>2, <2>3, <3>1
            <4>2. InLog(Append(rootLog[t], p.rootNew), r)
                BY <2>3, <2>4, <4>1, AppendKeepsLog
            <4>3. QED
                BY <4>1, <4>2
        <3>2. CASE t # target
            BY <2>2, <2>3, <2>4, <3>2
        <3>3. QED
            BY <3>1, <3>2
    <2>5. QED
        BY <2>4
<1>3. QED
    BY <1>1, <1>2, OnlyAppendsWrite

(* Only exits can be taken with proofs of exits, which the circuit ties.   *)
LEMMA ExitProofsKept ==
    ASSUME ExitProofsTied, [Next]_vars
    PROVE  ExitProofsTied'
<1>1. CASE \E kind \in Kinds : Prove(kind)
    <2>1. PICK p : AddProof(p)
        BY <1>1 DEF Prove
    <2>2. p.kind = "exit" => ExitTransition(p)
        BY <2>1 DEF AddProof, CircuitAccepts
    <2>3. QED
        BY <2>1, <2>2 DEF AddProof, ExitProofsTied
<1>2. CASE proofs' \subseteq proofs
    BY <1>2 DEF ExitProofsTied
<1>3. (\E kind \in Kinds : Prove(kind)) \/ proofs' \subseteq proofs
    BY DEF Next, vars, Discard, Submit, SubmitEpoch, SubmitDepositEpoch, SubmitPortalDepositEpoch,
           SubmitGiftClaimEpoch, PublicGiftExit, SettleEpoch, RevertEpoch
<1>4. QED
    BY <1>1, <1>2, <1>3

(* The root and the count of an exit that is accepted belong together.     *)
LEMMA ExitAccepted ==
    ASSUME IInv, ExitProofsTied, NEW p \in proofs, PublicGiftExit(p)
    PROVE  /\ p.tree \in Tree /\ p.activeRoot \in Root
           /\ Len(p.activeRoot) = p.countOld
           /\ InLog(rootLog[p.tree], p.activeRoot)
<1>1. ProofShape(p) /\ ExitTransition(p) /\ p.tree = currentTreeNumber
    BY DEF IInv, ProofsInv, ProofInv, ExitProofsTied, PublicGiftExit
<1>2. p.tree \in Tree /\ p.activeRoot \in Root /\ p.countOld \in 0..Capacity
    BY <1>1 DEF ProofShape
<1>3. Len(p.activeRoot) = p.countOld
    <2>1. CASE p.countOld < Capacity
        BY <1>1, <2>1 DEF ExitTransition
    <2>2. CASE p.countOld = Capacity
        <3>1. treeCount[p.tree] = Capacity /\ p.activeRoot = treeRoot[p.tree]
            BY <2>2 DEF PublicGiftExit
        <3>2. p.tree <= currentTreeNumber
            BY <1>1, <1>2, MaxTreeAssumption DEF Tree
        <3>3. Len(treeRoot[p.tree]) = treeCount[p.tree]
            BY <1>2, <3>2 DEF IInv, TreeInv, RootsMatchCounts
        <3>4. QED
            BY <2>2, <3>1, <3>3
    <2>3. QED
        BY <1>2, <2>1, <2>2, CapacityAssumption
<1>4. IsKnownTreeRoot(p.tree, p.activeRoot)
    <2>1. <<p.tree, p.activeRoot>> \in p.usedRoots /\ AllRootsKnown(p.usedRoots)
        BY DEF PublicGiftExit, ValidateKnownRoots
    <2>2. QED
        BY <2>1 DEF AllRootsKnown
<1>5. p.activeRoot \in KnownRoots
    BY <1>2, <1>4 DEF IsKnownTreeRoot, KnownRoots
<1>6. InLog(rootLog[p.tree], p.activeRoot)
    BY <1>2, <1>4, <1>5, InvKnownRootsAreGenuine DEF IInv, KnownRootsAreGenuine, InLog
<1>7. QED
    BY <1>2, <1>3, <1>6

(* The tip of the last exit stays one its tree went through.               *)
LEMMA ExitsKept ==
    ASSUME IInv, ExitsInv, [Next]_vars
    PROVE  ExitsLogged'
<1>1. CASE exits' = exits
    BY <1>1, LogsGrow DEF ExitsInv, ExitsLogged
<1>2. CASE \E p \in proofs : PublicGiftExit(p)
    <2>1. PICK p \in proofs : PublicGiftExit(p)
        BY <1>2
    <2>2. exits' = {[tree |-> p.tree, root |-> p.activeRoot, count |-> p.countOld]}
          /\ rootLog' = rootLog
        BY <2>1 DEF PublicGiftExit, treeVars
    <2>3. QED
        BY <2>1, <2>2, ExitAccepted DEF ExitsInv, ExitsLogged
<1>3. exits' = exits \/ \E p \in proofs : PublicGiftExit(p)
    BY ZenonT(30) DEF Next, vars, Prove, AddProof, Discard, Submit, SubmitEpoch, SubmitDepositEpoch,
           SubmitPortalDepositEpoch, SubmitGiftClaimEpoch, SettleEpoch, RevertEpoch
<1>4. QED
    BY <1>1, <1>2, <1>3

(* A public exit is accepted only with a root and a leaf count the tree    *)
(* really went through, the full tip included, where the circuit does not  *)
(* tie the two.                                                            *)
THEOREM ExitsGenuine == Spec => []ExitsProvenAtGenuineTips
<1>1. Init => ExitsInv
    BY DEF Init, ExitsInv, ExitProofsTied, ExitsLogged
<1>2. IInv /\ ExitsInv /\ [Next]_vars => ExitsInv'
    BY ExitProofsKept, ExitsKept DEF ExitsInv
<1>3. ExitsInv => ExitsProvenAtGenuineTips
    BY DEF ExitsInv, ExitsLogged, ExitsProvenAtGenuineTips, InLog
<1>4. QED
    BY <1>1, <1>2, <1>3, InductiveInvariant, PTL DEF Spec

-----------------------------------------------------------------------------
(***************************************************************************)
(* The ring buffer.  Counting back from the cursor, round the ring, its    *)
(* slots hold the last roots of the log, as far as both go back.           *)
(***************************************************************************)
Back(cursor, j) == IF j <= cursor THEN cursor - j ELSE cursor - j + HistorySize

RingInv ==
    \A t \in Tree : \A j \in Slot :
        j < Len(rootLog[t]) =>
            treeRootHistory[t][Back(treeRootHistoryCursor[t], j)] = rootLog[t][Len(rootLog[t]) - j]

(* The cursor moves on by one, round the ring.                             *)
LEMMA CursorAdvances ==
    ASSUME NEW c \in Slot
    PROVE  /\ (c + 1) % HistorySize = IF c + 1 = HistorySize THEN 0 ELSE c + 1
           /\ (c + 1) % HistorySize \in Slot
<1>1. CASE c + 1 = HistorySize
    BY <1>1, HistoryAssumption DEF Slot
<1>2. CASE c + 1 # HistorySize
    BY <1>2, HistoryAssumption DEF Slot
<1>3. QED
    BY <1>1, <1>2, HistoryAssumption DEF Slot

(* After the cursor has moved on, the slot it points to is the one the     *)
(* oldest root had, and the others are one step further back.              *)
LEMMA BackAfterAdvance ==
    ASSUME NEW c \in Slot, NEW j \in Slot
    PROVE  LET next == (c + 1) % HistorySize
           IN  /\ Back(c, j) \in Slot
               /\ Back(next, 0) = next
               /\ j # 0 => /\ j - 1 \in Slot
                           /\ Back(next, j) = Back(c, j - 1)
                           /\ Back(next, j) # next
<1>1. (c + 1) % HistorySize = IF c + 1 = HistorySize THEN 0 ELSE c + 1
    BY CursorAdvances
<1>2. c \in Nat /\ c < HistorySize /\ j \in Nat /\ j < HistorySize /\ HistorySize \in Nat
    BY HistoryAssumption DEF Slot
<1>3. CASE c + 1 = HistorySize
    BY <1>1, <1>2, <1>3 DEF Back, Slot
<1>4. CASE c + 1 # HistorySize
    BY <1>1, <1>2, <1>4 DEF Back, Slot
<1>5. QED
    BY <1>3, <1>4

(* An append writes over the oldest root and keeps the others.             *)
LEMMA AppendKeepsRing ==
    ASSUME TreeTypes, RingInv, NEW p, p.rootNew \in Root,
           UpdateTreeState(p.tree, p.rootNew, p.countNew, p.rollover)
    PROVE  RingInv'
<1>1. PICK target :
        /\ rootLog' = [rootLog EXCEPT ![target] = Append(@, p.rootNew)]
        /\ PushTreeRoot(target, p.rootNew)
    BY DEF UpdateTreeState
<1> SUFFICES ASSUME NEW t \in Tree, NEW j \in Slot, j < Len(rootLog'[t])
             PROVE  treeRootHistory'[t][Back(treeRootHistoryCursor'[t], j)]
                        = rootLog'[t][Len(rootLog'[t]) - j]
    BY DEF RingInv
<1> DEFINE c == treeRootHistoryCursor[t]
           next == (c + 1) % HistorySize
           log == rootLog[t]
<1>2. CASE t # target
    <2>1. rootLog'[t] = log /\ treeRootHistory'[t] = treeRootHistory[t]
          /\ treeRootHistoryCursor'[t] = c
        BY <1>1, <1>2 DEF TreeTypes, PushTreeRoot
    <2>2. QED
        BY <2>1 DEF RingInv
<1>3. CASE t = target
    <2>1. /\ rootLog'[t] = Append(log, p.rootNew)
          /\ treeRootHistory'[t] = [treeRootHistory[t] EXCEPT ![next] = p.rootNew]
          /\ treeRootHistoryCursor'[t] = next
        BY <1>1, <1>3 DEF TreeTypes, PushTreeRoot
    <2>2. /\ c \in Slot /\ log \in Seq(Root) /\ treeRootHistory[t] \in [Slot -> Root \cup {NoRoot}]
        BY DEF TreeTypes
    <2>3. /\ Len(log) \in Nat /\ Len(rootLog'[t]) = Len(log) + 1
          /\ \A k \in 1..Len(log) : rootLog'[t][k] = log[k]
          /\ rootLog'[t][Len(log) + 1] = p.rootNew
        BY <2>1, <2>2, LenProperties, AppendProperties
    <2>4. next \in Slot
        BY <2>2, CursorAdvances
    <2>5. /\ Back(next, 0) = next
          /\ j # 0 => /\ j - 1 \in Slot
                      /\ Back(next, j) = Back(c, j - 1)
                      /\ Back(next, j) # next
                      /\ Back(c, j - 1) \in Slot
        BY <2>2, BackAfterAdvance
    <2> HIDE DEF c, next, log
    <2>6. CASE j = 0
        <3>1. treeRootHistory'[t][next] = p.rootNew
            BY <2>1, <2>2, <2>4
        <3>2. QED
            BY <2>1, <2>3, <2>5, <2>6, <3>1
    <2>7. CASE j # 0
        <3>1. treeRootHistory'[t][Back(next, j)] = treeRootHistory[t][Back(c, j - 1)]
            BY <2>1, <2>2, <2>5, <2>7
        <3>2. j \in Nat /\ j < Len(log) + 1
            BY <2>3 DEF Slot
        <3>3. j - 1 \in Slot /\ j - 1 < Len(log)
            BY <2>3, <2>5, <2>7, <3>2
        <3>4. treeRootHistory[t][Back(c, j - 1)] = log[Len(log) - (j - 1)]
            BY <3>3 DEF RingInv, c, log
        <3>5. Len(log) - (j - 1) = Len(log) + 1 - j /\ Len(log) + 1 - j \in 1..Len(log)
            BY <2>3, <2>7, <3>2
        <3>6. rootLog'[t][Len(log) + 1 - j] = log[Len(log) + 1 - j]
            BY <2>3, <3>5
        <3>7. Len(rootLog'[t]) - j = Len(log) + 1 - j
            BY <2>3, <3>2
        <3>8. rootLog'[t][Len(rootLog'[t]) - j] = log[Len(log) - (j - 1)]
            BY <3>5, <3>6, <3>7, Zenon
        <3>9. QED
            BY <2>1, <3>1, <3>4, <3>8
    <2>8. QED
        BY <2>6, <2>7
<1>4. QED
    BY <1>2, <1>3

(* The ring holds the end of the log, whatever was appended and whenever   *)
(* the pool moved on to another tree.                                      *)
THEOREM RingInvariant == Spec => []RingInv
<1>1. Init => RingInv
    <2> SUFFICES ASSUME Init, NEW t \in Tree, NEW j \in Slot, j < Len(rootLog[t])
                 PROVE  treeRootHistory[t][Back(treeRootHistoryCursor[t], j)]
                            = rootLog[t][Len(rootLog[t]) - j]
        BY DEF RingInv
    <2>1. /\ t = 0 /\ j = 0 /\ 0 \in Slot
          /\ rootLog[t] = <<EmptyRoot>> /\ treeRootHistoryCursor[t] = 0
          /\ treeRootHistory[t][0] = EmptyRoot
        BY HistoryAssumption DEF Init, Slot
    <2>2. QED
        BY <2>1 DEF Back
<1>2. IInv /\ RingInv /\ [Next]_vars => RingInv'
    <2> SUFFICES ASSUME IInv, RingInv, [Next]_vars PROVE RingInv'
        OBVIOUS
    <2>1. CASE UNCHANGED treeVars
        BY <2>1 DEF RingInv, treeVars
    <2>2. CASE \E p : ProofInv(p) /\ UpdateTreeState(p.tree, p.rootNew, p.countNew, p.rollover)
        BY <2>2, AppendKeepsRing DEF IInv, TreeInv, ProofInv, ProofShape
    <2>3. QED
        BY <2>1, <2>2, OnlyAppendsWrite
<1>3. QED
    BY <1>1, <1>2, InductiveInvariant, PTL DEF Spec

(* A proof made against the active tree stays valid until HistorySize      *)
(* appends by others have come in between (isKnownTreeRoot).               *)
THEOREM RecentRootsKnown == Spec => []RecentRootsStayKnown
<1>1. IInv /\ RingInv => RecentRootsStayKnown
    <2> DEFINE c == currentTreeNumber
               log == rootLog[c]
    <2> SUFFICES ASSUME IInv, RingInv, NEW k \in DOMAIN log, k > Len(log) - HistorySize
                 PROVE  IsKnownTreeRoot(c, log[k])
        BY DEF RecentRootsStayKnown
    <2>1. c \in Tree /\ log \in Seq(Root) /\ treeRootHistoryCursor[c] \in Slot
        BY DEF IInv, TreeInv, TreeTypes
    <2>2. Len(log) \in Nat /\ k \in 1..Len(log) /\ log[k] \in Root
        BY <2>1, LenProperties, ElementOfSeq
    <2>0. c = currentTreeNumber /\ c >= c
        BY <2>1, MaxTreeAssumption DEF Tree
    <2> HIDE DEF log, c
    <2>3. Len(log) - k \in Slot /\ Len(log) - k < Len(log) /\ Len(log) - (Len(log) - k) = k
        BY <2>2, HistoryAssumption DEF Slot
    <2>4. treeRootHistory[c][Back(treeRootHistoryCursor[c], Len(log) - k)] = log[k]
        BY <2>1, <2>3 DEF RingInv, log
    <2>5. Back(treeRootHistoryCursor[c], Len(log) - k) \in Slot
        BY <2>1, <2>3, BackAfterAdvance
    <2>6. log[k] # NoRoot
        BY <2>2, NoRootAssumption DEF Root
    <2>7. \E i \in Slot : treeRootHistory[c][i] = log[k]
        BY <2>4, <2>5
    <2>8. c >= currentTreeNumber
        BY <2>0, Zenon
    <2>9. QED
        BY <2>6, <2>7, <2>8, Zenon DEF IsKnownTreeRoot
<1>2. QED
    BY <1>1, InductiveInvariant, RingInvariant, PTL

-----------------------------------------------------------------------------
(* The trees implement the append-only note log.                           *)

LogOf(root) == [t \in Tree |-> IF root[t] = NoRoot THEN <<>> ELSE root[t]]
SpentOf(times) == {pos \in Position : times[pos] > 0}

(* Steps that leave the trees and the spends alone stutter.                *)
LEMMA StutterLog ==
    ASSUME treeRoot' = treeRoot, currentTreeNumber' = currentTreeNumber, timesSpent' = timesSpent
    PROVE  UNCHANGED Log!logVars
BY DEF Log!logVars

(* Trees that are left alone are extended by nothing.                      *)
LEMMA IdleExtends ==
    ASSUME TreeInv, UNCHANGED treeVars
    PROVE  Log!Extend
<1> DEFINE t0 == currentTreeNumber
<1>1. /\ t0 \in Tree /\ treeRoot[t0] # NoRoot /\ treeRoot[t0] \in Root
      /\ Len(treeRoot[t0]) = treeCount[t0] /\ treeCount[t0] \in 0..Capacity
    BY DEF TreeInv, TreeTypes, RootsMatchCounts, Tree
<1>2. LogOf(treeRoot)[t0] = treeRoot[t0] /\ LogOf(treeRoot') = LogOf(treeRoot)
    BY <1>1 DEF LogOf, treeVars
<1>3. Log!StartsWith(treeRoot[t0], treeRoot[t0])
    BY <1>1, CapacityAssumption DEF Log!StartsWith
<1>4. Len(treeRoot[t0]) <= Capacity
    BY <1>1, CapacityAssumption
<1>5. QED
    BY <1>1, <1>2, <1>3, <1>4 DEF Log!Extend, LogOf, treeVars

(* An append at the tip extends the open tree or opens the next one.       *)
LEMMA AppendRefines ==
    ASSUME TreeInv,
           NEW p, ProofShape(p), TreeTransition(p), AtTip(p),
           UpdateTreeState(p.tree, p.rootNew, p.countNew, p.rollover)
    PROVE  Log!Extend \/ Log!OpenNext
<1> DEFINE cur == currentTreeNumber
           target == IF p.rollover THEN cur + 1 ELSE cur
           old == LogOf(treeRoot)
           new == LogOf(treeRoot')
<1>1. /\ cur \in Tree /\ target \in Tree /\ target # cur <=> p.rollover
      /\ currentTreeNumber' = target
      /\ treeRoot' = [treeRoot EXCEPT ![target] = p.rootNew]
    BY MaxTreeAssumption DEF TreeInv, TreeTypes, AtTip, UpdateTreeState, Tree
<1>2. /\ p.rootNew \in Root /\ p.rootNew # NoRoot /\ Len(p.rootNew) = p.countNew
      /\ p.countNew <= Capacity
    BY NoRootAssumption DEF ProofShape, TreeTransition, Root
<1>3. /\ treeRoot[cur] # NoRoot /\ treeRoot[cur] \in Root
      /\ Len(treeRoot[cur]) = treeCount[cur]
    BY <1>1 DEF TreeInv, TreeTypes, RootsMatchCounts, Tree
<1>4. /\ new[target] = p.rootNew
      /\ \A t \in Tree \ {target} : new[t] = old[t]
      /\ old[cur] = treeRoot[cur]
    BY <1>1, <1>2, <1>3 DEF TreeInv, TreeTypes, LogOf
<1>5. CASE p.rollover
    <2>1. target = cur + 1 /\ old[target] = <<>>
        BY <1>1, <1>5 DEF TreeInv, RootsMatchCounts, LogOf, Tree
    <2>2. Len(old[cur]) = Capacity
        BY <1>3, <1>4, <1>5 DEF TreeTransition, AtTip
    <2>3. Log!OpenNext
        <3>1. /\ cur + 1 \in Tree /\ currentTreeNumber' = cur + 1
              /\ new[cur + 1] = p.rootNew /\ Len(p.rootNew) <= Capacity
            BY <1>1, <1>2, <1>4, <2>1
        <3>2. /\ Len(old[cur]) = Capacity /\ old[cur + 1] = <<>>
              /\ \A t \in Tree \ {cur + 1} : new[t] = old[t]
            BY <1>4, <2>1, <2>2
        <3> HIDE DEF new, old
        <3>3. QED
            BY <3>1, <3>2 DEF Log!OpenNext, Log!LogTree, Tree, new, old, LogOf
    <2>4. QED
        BY <2>3
<1>6. CASE ~p.rollover
    <2>1. target = cur
        BY <1>6
    <2>2. IsPrefix(treeRoot[cur], p.rootNew)
        BY <1>3, <1>6, PrefixOfConcat DEF TreeTransition, AtTip, ProofShape, Root
    <2>3. Log!StartsWith(new[cur], old[cur])
        BY <1>4, <2>1, <2>2 DEF IsPrefix, Log!StartsWith
    <2>4. Log!Extend
        BY <1>1, <1>2, <1>4, <2>1, <2>3 DEF Log!Extend, Log!LogTree, LogOf, Tree
    <2>5. QED
        BY <2>4
<1>7. QED
    BY <1>5, <1>6

(* Nothing spent: the log's spends are as they were.                       *)
LEMMA NothingSpent == ASSUME timesSpent' = timesSpent PROVE Log!Spend
BY DEF Log!Spend

(* Only leaves are spent, and for good.                                    *)
LEMMA SpendRefines ==
    ASSUME SpendTypes, NEW p, ProofShape(p), CountSpends(p),
           \A i \in DOMAIN p.inputs : Opened(p.kind, p.inputs[i])
    PROVE  Log!Spend
<1>1. \A pos \in Position :
        Cardinality({i \in DOMAIN p.inputs : p.inputs[i] = pos}) \in Nat
    BY InputCountType
<1>2. SpentOf(timesSpent) \subseteq SpentOf(timesSpent')
    BY <1>1 DEF SpentOf, CountSpends, SpendTypes
<1>3. ASSUME NEW pos \in SpentOf(timesSpent') \ SpentOf(timesSpent)
      PROVE  pos[1] \in Tree /\ pos[2] < Len(LogOf(treeRoot)[pos[1]])
    <2>1. pos \in Position /\ pos[1] \in Tree /\ timesSpent[pos] = 0 /\ timesSpent'[pos] > 0
        BY <1>3 DEF SpentOf, SpendTypes, Position
    <2> DEFINE same == {i \in DOMAIN p.inputs : p.inputs[i] = pos}
    <2>2. timesSpent'[pos] = timesSpent[pos] + Cardinality(same)
        BY <2>1 DEF CountSpends
    <2>3. same # {}
        BY <2>1, <2>2, FS_EmptySet
    <2>4. Opened(p.kind, pos)
        BY <2>3
    <2>5. QED
        BY <2>1, <2>4 DEF Opened, LogOf
<1>4. QED
    BY <1>2, <1>3 DEF Log!Spend, Log!LogTree, LogOf, SpentOf, Tree

(* Every submission is a step of the log.                                  *)
LEMMA SubmitRefines ==
    ASSUME IInv, NEW p \in proofs, Submit(p)
    PROVE  [Log!LogNext]_(Log!logVars)
<1>1. ProofInv(p) /\ ProofShape(p)
    BY DEF IInv, ProofsInv, ProofInv
<1>2. CASE SubmitEpoch(p)
    BY <1>2, StutterLog DEF SubmitEpoch, treeVars
<1>3. CASE SubmitDepositEpoch(p) \/ SubmitPortalDepositEpoch(p)
    <2>1. /\ p.kind \in {"deposit", "portal"}
          /\ ValidateTreeState(p)
          /\ <<p.tree, treeRoot[p.tree]>> \in p.usedRoots
          /\ UpdateTreeState(p.tree, p.rootNew, p.countNew, p.rollover)
          /\ timesSpent' = timesSpent
        BY <1>3 DEF SubmitDepositEpoch, SubmitPortalDepositEpoch, spendVars
    <2>2. AtTip(p) /\ TreeTransition(p)
        BY <1>1, <2>1, DepositAtTip DEF ProofInv, Appends
    <2>3. Log!Extend \/ Log!OpenNext
        BY <1>1, <2>1, <2>2, AppendRefines DEF IInv
    <2>4. QED
        BY <2>1, <2>3, NothingSpent DEF Log!LogNext
<1>4. CASE SubmitGiftClaimEpoch(p)
    <2>1. /\ p.kind = "gift" /\ AtTip(p) /\ CountSpends(p) /\ AllRootsKnown(p.usedRoots)
          /\ UpdateTreeState(p.tree, p.rootNew, p.countNew, p.rollover)
        BY <1>4 DEF SubmitGiftClaimEpoch, ValidateTreeState, ValidateKnownRoots, AtTip
    <2>2. Log!Extend \/ Log!OpenNext
        BY <1>1, <2>1, AppendRefines DEF IInv, ProofInv, Appends
    <2>3. Log!Spend
        BY <1>1, <2>1, InputsAreLeaves, SpendRefines DEF IInv
    <2>4. QED
        BY <2>2, <2>3 DEF Log!LogNext
<1>5. CASE PublicGiftExit(p)
    <2>1. CountSpends(p) /\ AllRootsKnown(p.usedRoots) /\ UNCHANGED treeVars
        BY <1>5 DEF PublicGiftExit, ValidateKnownRoots
    <2>2. Log!Extend
        BY <2>1, IdleExtends DEF IInv
    <2>3. Log!Spend
        BY <1>1, <2>1, InputsAreLeaves, SpendRefines DEF IInv
    <2>4. QED
        BY <2>2, <2>3 DEF Log!LogNext
<1>6. QED
    BY <1>2, <1>3, <1>4, <1>5 DEF Submit

(* So is the settlement of an epoch.                                       *)
LEMMA SettleRefines ==
    ASSUME IInv, SpendInv, SettleEpoch
    PROVE  Log!LogNext
<1>1. PICK p : p = inEpoch
    OBVIOUS
<1>2. /\ ProofInv(p) /\ AtTip(p) /\ p.kind = "transfer" /\ ProofShape(p)
      /\ UpdateTreeState(p.tree, p.rootNew, p.countNew, p.rollover)
      /\ CountSpends(p)
    BY <1>1 DEF SettleEpoch, IInv, ProofsInv, ProofInv
<1>3. Log!Extend \/ Log!OpenNext
    BY <1>2, AppendRefines DEF IInv, ProofInv, Appends
<1>4. \A i \in DOMAIN p.inputs : Opened(p.kind, p.inputs[i])
    BY <1>1 DEF SettleEpoch, SpendInv
<1>5. Log!Spend
    BY <1>2, <1>4, SpendRefines DEF IInv
<1>6. QED
    BY <1>3, <1>5 DEF Log!LogNext

(* The pool starts as an empty log with tree 0 open.                       *)
LEMMA InitRefines == Init => Log!LogInit
<1>1. ASSUME Init PROVE LogOf(treeRoot) = [t \in Tree |-> <<>>]
    BY <1>1 DEF Init, LogOf, EmptyRoot
<1>2. ASSUME Init PROVE SpentOf(timesSpent) = {}
    BY <1>2 DEF Init, SpentOf
<1>3. QED
    BY <1>1, <1>2 DEF Init, Log!LogInit, Log!LogTree, LogOf, SpentOf, Tree

(* The trees as stored implement the append-only note log.                 *)
THEOREM NoteLogImplemented == Spec => ImplementsNoteLog
<1>1. Init => Log!LogInit
    BY InitRefines
<1>2. IInv /\ SpendInv /\ [Next]_vars => [Log!LogNext]_(Log!logVars)
    <2> SUFFICES ASSUME IInv, SpendInv, [Next]_vars PROVE [Log!LogNext]_(Log!logVars)
        OBVIOUS
    <2>1. CASE UNCHANGED vars
        BY <2>1, StutterLog DEF vars, treeVars, spendVars
    <2>2. CASE \E kind \in Kinds : Prove(kind)
        <3>1. UNCHANGED <<treeVars, spendVars>>
            BY <2>2 DEF Prove, AddProof
        <3>2. QED
            BY <3>1, StutterLog DEF treeVars, spendVars
    <2>3. CASE \E p \in proofs : Submit(p)
        BY <2>3, SubmitRefines
    <2>4. CASE (\E p \in proofs : Discard(p)) \/ RevertEpoch
        BY <2>4, StutterLog DEF Discard, RevertEpoch, treeVars, spendVars
    <2>5. CASE SettleEpoch
        BY <2>5, SettleRefines
    <2>6. QED
        BY <2>1, <2>2, <2>3, <2>4, <2>5 DEF Next
<1>3. QED
    BY <1>1, <1>2, InductiveInvariant, SpendInvariant, PTL DEF Spec, ImplementsNoteLog, Log!LogSpec
=============================================================================
