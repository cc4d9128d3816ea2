--------------------------- MODULE FrontierAppend ---------------------------
(***************************************************************************)
(* How the circuits append to a note tree.  The pool stores only a root    *)
(* and a count; a proof brings the frontier (the left siblings along the   *)
(* next leaf's path) as a private witness, binds it to the stored root and *)
(* computes the next root from it.  The epoch, deposit and portal circuits *)
(* append all leaves of a proof level by level (frontier_batch.go), the    *)
(* gift circuit one by one (helpers.go).                                   *)
(*                                                                         *)
(* Poseidon is modelled by the pair of its inputs (collision free), field  *)
(* zero by Zero.  Every assertion of a circuit is a conjunct of the action *)
(* that stands for its proof: a witness that violates one has no proof.    *)
(***************************************************************************)
EXTENDS Naturals, Sequences, FiniteSets, SequencesExt

CONSTANTS
    Depth,          (* NoteDepth, MerkleDepth: levels of a note tree.      *)
    Commitment,     (* Note commitments.                                   *)
    Zero,           (* Zero of the field: an empty leaf, padding.          *)
    Junk,           (* A value a prover may put where nothing is checked.  *)
    SumTag,         (* Tag of the sum of two values that are not zero.     *)
    OutputSlots,    (* Per transfer of a proof, its output slots.          *)
    FeeSlots,       (* MaxFeeTokens.                                       *)
    DepositSlots,   (* MaxSlots of the deposit and portal circuits.        *)
    GiftSlots       (* MaxGiftClaims.                                      *)

VARIABLES
    root,           (* treeRoot of the active tree.                        *)
    count,          (* treeCount of the active tree.                       *)
    leaves          (* Ghost: commitments of the active tree, in order.    *)

treeVars == <<root, count, leaves>>

ASSUME DepthAssumption == Depth \in Nat \ {0}
ASSUME SlotsAssumption ==
    /\ OutputSlots \in Seq(Nat \ {0})
    /\ {FeeSlots, DepositSlots, GiftSlots} \subseteq Nat \ {0}

-----------------------------------------------------------------------------
(* The field and the hash.                                                 *)

(* Of 2^n the provers know nothing, of this everything.                    *)
Pow2[n \in Nat] == IF n = 0 THEN 1 ELSE 2 * Pow2[n - 1]

Capacity == Pow2[Depth]
Level == 0..Depth-1

Poseidon2T4(l, r) == <<l, r>>

Add(v, w) ==
    IF v = Zero THEN w ELSE IF w = Zero THEN v ELSE <<SumTag, v, w>>

Mul(flag, v) == IF flag THEN v ELSE Zero

Bit(n, l) == (n \div Pow2[l]) % 2 = 1

(* The width in which every value of 0..n fits.                            *)
bitsFor(n) == CHOOSE w \in 0..n : Pow2[w] > n /\ \A v \in 0..w-1 : Pow2[v] <= n

(* api.ToBinary(n, width) asserts that n has that width.                   *)
HasWidth(n, width) == n < Pow2[width]

Zeros[l \in 0..Depth] == IF l = 0 THEN Zero ELSE Poseidon2T4(Zeros[l-1], Zeros[l-1])

-----------------------------------------------------------------------------
(* A tree by frontier and count.                                           *)

(* Mutant: the count of a full tree is decomposed as it is.                *)
CountAsIs(n) == n

SafeCount(n) == IF n = Capacity THEN 0 ELSE n

(* current, before each level.                                             *)
RootUpTo(frontier, n) ==
    LET current[l \in 0..Depth] ==
            IF l = 0 THEN Zero
            ELSE IF Bit(n, l-1) THEN Poseidon2T4(frontier[l-1], current[l-1])
                                ELSE Poseidon2T4(current[l-1], Zeros[l-1])
    IN  current

RootComputable(n) == HasWidth(SafeCount(n), Depth)

computeRootFromFrontier(frontier, n) == RootUpTo(frontier, SafeCount(n))[Depth]

(* The carry before each level; it merges as long as all bits are set.     *)
AllSet(n, l) == \A k \in 0..l-1 : Bit(n, k)

Carry(frontier, n, leaf) ==
    LET carry[l \in 0..Depth] ==
            IF l = 0 THEN leaf
            ELSE IF AllSet(n, l) THEN Poseidon2T4(frontier[l-1], carry[l-1])
                                 ELSE carry[l-1]
    IN  carry

(* Below the first level whose bit is clear everything merges into the     *)
(* carry, which is stored there; the levels above it keep what they had.   *)
appendFrontier(frontier, n, leaf) ==
    LET safe == SafeCount(n)
        carry == Carry(frontier, safe, leaf)
    IN  [frontier |-> [l \in Level |->
                         IF AllSet(safe, l) THEN Mul(~Bit(safe, l), carry[l])
                                            ELSE frontier[l]],
         count |-> n + 1,
         finalCarry |-> carry[Depth]]

-----------------------------------------------------------------------------
(* Packed lists.  ok says whether the assertions made on the way hold.     *)

Masked(vals, active) == [i \in DOMAIN vals |-> Mul(active[i], vals[i])]

CountOf(active) == Cardinality({i \in DOMAIN active : active[i]})

newPrefixPackedList(vals, active) ==
    [vals |-> Masked(vals, active),
     count |-> CountOf(active),
     ok |-> \A i \in 2..Len(active) : active[i] => active[i-1]]

(* The barrel shifter: one conditional move per bit of amount.             *)
ShiftRight(cur, amount, width) ==
    LET shifted[t \in 0..width] ==
            IF t = 0 THEN cur
            ELSE [j \in DOMAIN cur |->
                     IF ~Bit(amount, t-1) THEN shifted[t-1][j]
                     ELSE IF j > Pow2[t-1] THEN shifted[t-1][j - Pow2[t-1]] ELSE Zero]
    IN  shifted[width]

mergePackedPair(a, b) ==
    LET width == bitsFor(Len(a.vals))
        window == [j \in 1..Len(a.vals) + Len(b.vals) |->
                      IF j \in DOMAIN b.vals THEN b.vals[j] ELSE Zero]
        shifted == ShiftRight(window, a.count, width)
    IN  [vals |-> [j \in DOMAIN window |->
                      IF j \in DOMAIN a.vals THEN Add(a.vals[j], shifted[j]) ELSE shifted[j]],
         count |-> a.count + b.count,
         ok |-> a.ok /\ b.ok /\ HasWidth(a.count, width)]

(* Pairs are merged in rounds; an odd list at the end waits for the next.  *)
MergePairs(lists) ==
    [i \in 1..(Len(lists) + 1) \div 2 |->
        IF 2*i <= Len(lists) THEN mergePackedPair(lists[2*i-1], lists[2*i])
                             ELSE lists[2*i-1]]

(* There are more rounds here than needed; they leave one list as it is.   *)
mergePackedLists(lists) ==
    LET round[r \in 0..Len(lists)] == IF r = 0 THEN lists ELSE MergePairs(round[r-1])
    IN  round[Len(lists)][1]

-----------------------------------------------------------------------------
(* The batched append.                                                     *)

thermometerFromCount(n, slots) == [i \in 1..slots |-> i <= n]

(* The run of new nodes at a level starts with the peak, if there is one.  *)
PrependPeak(run, frontier, n, l) ==
    [vals |-> IF Bit(n, l) THEN <<frontier[l]>> \o run.vals ELSE Append(run.vals, Zero),
     flags |-> IF Bit(n, l) THEN <<TRUE>> \o run.flags ELSE Append(run.flags, FALSE)]

IsLast(flags, i) == flags[i] /\ (i < Len(flags) => ~flags[i + 1])

LastInRun(run) ==
    LET sum[i \in 0..Len(run.vals)] ==
            IF i = 0 THEN Zero ELSE Add(sum[i-1], Mul(IsLast(run.flags, i), run.vals[i]))
    IN  sum[Len(run.vals)]

(* Mutant: a parent is live if its left child is.                          *)
LiveByLeftChild(flags, i) == flags[2*i-1]

ParentIsLive(flags, i) == flags[2*i]

(* The run at each level, and the next frontier as far as it is known.     *)
NextLevel(s, frontier, n, nextCount, l) ==
    LET run == PrependPeak(s, frontier, n, l)
        parents == 1..Len(run.vals) \div 2
    IN  [vals |-> [i \in parents |-> Poseidon2T4(run.vals[2*i-1], run.vals[2*i])],
         flags |-> [i \in parents |-> ParentIsLive(run.flags, i)],
         next |-> [s.next EXCEPT ![l] = Mul(Bit(nextCount, l), LastInRun(run))]]

Reduce(frontier, n, batch) ==
    LET level[l \in 0..Depth] ==
            IF l = 0
            THEN [vals |-> batch.vals,
                  flags |-> thermometerFromCount(batch.count, Len(batch.vals)),
                  next |-> [k \in Level |-> Zero]]
            ELSE NextLevel(level[l-1], frontier, n, n + batch.count, l-1)
    IN  level[Depth]

BatchFits(n, batch) == n + batch.count <= Capacity

appendFrontierBatch(frontier, n, batch) ==
    LET s == Reduce(frontier, n, batch)
    IN  [frontier |-> s.next,
         count |-> n + batch.count,
         finalCarry |-> Mul(s.flags[1], s.vals[1])]

(* The assertions of appendFrontierBatch and of the merges before it.      *)
BatchAccepted(n, batch) ==
    /\ batch.ok
    /\ HasWidth(n, Depth)
    /\ BatchFits(n, batch)
    /\ HasWidth(n + batch.count, Depth + 1)
    /\ HasWidth(batch.count, bitsFor(Len(batch.vals)))

-----------------------------------------------------------------------------
(* What a proof starts from and leaves behind.                             *)

Rollover == count = Capacity

StartFrontier(frontier) == IF Rollover THEN [l \in Level |-> Zero] ELSE frontier
StartCount == IF Rollover THEN 0 ELSE count

BoundToRoot(frontier) ==
    /\ RootComputable(count)
    /\ ~Rollover => computeRootFromFrontier(frontier, count) = root

(* assertFinalState.                                                       *)
RootNew(s) ==
    IF s.count = Capacity THEN s.finalCarry ELSE computeRootFromFrontier(s.frontier, s.count)

FinalStateOk(s) == s.count <= Capacity /\ RootComputable(s.count)

SettleTree(s, new) ==
    /\ FinalStateOk(s)
    /\ root' = RootNew(s)
    /\ count' = s.count
    /\ leaves' = (IF Rollover THEN <<>> ELSE leaves) \o new

(* The true left siblings, nodes of the reference tree below.              *)
Nodes(s) ==
    LET layer[l \in 0..Depth] ==
            [i \in Nat |-> IF l = 0
                           THEN IF i + 1 \in DOMAIN s THEN s[i + 1] ELSE Zero
                           ELSE Poseidon2T4(layer[l-1][2*i], layer[l-1][2*i + 1])]
    IN  layer

Node(s, l, i) == Nodes(s)[l][i]

MerkleRoot(s) == Node(s, Depth, 0)

TrueFrontier == [l \in Level |-> Node(leaves, l, (SafeCount(count) \div Pow2[l]) - 1)]

(* The witnesses tried: at each level the true sibling, where there is     *)
(* one, nothing, or junk.                                                  *)
Witness ==
    {f \in [Level -> {Zero, Junk} \cup {TrueFrontier[l] : l \in {k \in Level : Bit(count, k)}}] :
        BoundToRoot(f)}

-----------------------------------------------------------------------------
(* The proofs.                                                             *)

UpTo(n) == UNION {[1..k -> Commitment] : k \in 0..n}

(* Outputs beyond the active ones are asserted to be zero.                 *)
Padded(s, n) == [i \in 1..n |-> IF i \in DOMAIN s THEN s[i] ELSE Zero]
ActiveUpTo(k, n) == [i \in 1..n |-> i <= k]

(* A transfer slot: its active outputs, and whether output zero is the     *)
(* marker of a withdrawal, which is no note.                               *)
TransferSlot(t) ==
    {x \in [outputs : UpTo(OutputSlots[t]), isWithdrawal : BOOLEAN] :
        x.isWithdrawal => x.outputs # <<>>}

ShiftLeft(s, last) == Append(Tail(s), last)

treeLeavesForTransfer(x, n) ==
    LET vals == Padded(x.outputs, n)
        active == ActiveUpTo(Len(x.outputs), n)
    IN  IF x.isWithdrawal
        THEN newPrefixPackedList(ShiftLeft(vals, Zero), ShiftLeft(active, FALSE))
        ELSE newPrefixPackedList(vals, active)

(* The notes a transfer mints.                                             *)
MintedBy(x) == IF x.isWithdrawal THEN Tail(x.outputs) ELSE x.outputs

Transfers == DOMAIN OutputSlots
EpochBatch ==
    [transfers : {x \in [Transfers -> UNION {TransferSlot(t) : t \in Transfers}] :
                     \A t \in Transfers : x[t] \in TransferSlot(t)},
     fees : UpTo(FeeSlots) \ {<<>>}]

PendingLeaves(b) ==
    mergePackedLists(
        Append([t \in Transfers |-> treeLeavesForTransfer(b.transfers[t], OutputSlots[t])],
               newPrefixPackedList(Padded(b.fees, FeeSlots), ActiveUpTo(Len(b.fees), FeeSlots))))

(* Transfer outputs by slot, then the fee notes.                           *)
MintedByEpoch(b) == FlattenSeq([t \in Transfers |-> MintedBy(b.transfers[t])]) \o b.fees

EpochCircuit(f, b) ==
    LET batch == PendingLeaves(b)
    IN  /\ BatchAccepted(StartCount, batch)
        /\ SettleTree(appendFrontierBatch(StartFrontier(f), StartCount, batch), MintedByEpoch(b))

DepositBatch == UpTo(DepositSlots) \ {<<>>}

DepositLeaves(b) ==
    newPrefixPackedList(Padded(b, DepositSlots), ActiveUpTo(Len(b), DepositSlots))

(* The deposit and the portal circuit append alike.                        *)
DepositEpochCircuit(f, b) ==
    /\ BatchAccepted(StartCount, DepositLeaves(b))
    /\ SettleTree(appendFrontierBatch(StartFrontier(f), StartCount, DepositLeaves(b)), b)

(* A gift claim mints its commitment, or names in the same public column   *)
(* the authorization leaf of a payout, which is no note.                   *)
Claim == [commitment : Commitment, mint : BOOLEAN]
GiftBatch == UNION {[1..k -> Claim] : k \in 1..GiftSlots}

SelectMinted(append, s, next) == IF append THEN next ELSE s

AppendMints(s, claims) ==
    LET after[i \in 0..Len(claims)] ==
            IF i = 0 THEN s
            ELSE SelectMinted(claims[i].mint, after[i-1],
                              appendFrontier(after[i-1].frontier, after[i-1].count,
                                             claims[i].commitment))
    IN  after[Len(claims)]

MintedByGifts(b) ==
    LET minted[i \in 0..Len(b)] ==
            IF i = 0 THEN <<>>
            ELSE IF b[i].mint THEN Append(minted[i-1], b[i].commitment) ELSE minted[i-1]
    IN  minted[Len(b)]

GiftClaimCircuit(f, b) ==
    SettleTree(AppendMints([frontier |-> StartFrontier(f), count |-> StartCount, finalCarry |-> Zero], b),
           MintedByGifts(b))

-----------------------------------------------------------------------------
TreeInit == root = Zeros[Depth] /\ count = 0 /\ leaves = <<>>

ProveEpoch == \E f \in Witness, b \in EpochBatch : EpochCircuit(f, b)
ProveDeposits == \E f \in Witness, b \in DepositBatch : DepositEpochCircuit(f, b)
ProveGifts == \E f \in Witness, b \in GiftBatch : GiftClaimCircuit(f, b)

TreeNext == ProveEpoch \/ ProveDeposits \/ ProveGifts

TreeSpec == TreeInit /\ [][TreeNext]_treeVars

-----------------------------------------------------------------------------

(* Whatever witness a prover brings, and through whichever circuit, the    *)
(* stored root is the Merkle root of the notes minted so far, in order,    *)
(* with empty leaves after them: no proof drops, reorders, repeats or      *)
(* invents a leaf (frontier_batch.go appendFrontierBatch, helpers.go       *)
(* appendFrontier and computeRootFromFrontier, the circuits'               *)
(* assertFinalState).                                                      *)
RootCommitsToLeaves == root = MerkleRoot(leaves) /\ count = Len(leaves)

(* frontier_batch.go promises of appendFrontierBatch that it is equivalent *)
(* to calling appendFrontier once per live leaf: the same count, the same  *)
(* carry when the tree is full, the same frontier at the levels that are   *)
(* read, and the same root.                                                *)
BatchEqualsSequential ==
    \A f \in Witness, b \in DepositBatch :
        LET start == StartFrontier(f)
            claims == [i \in DOMAIN b |-> [commitment |-> b[i], mint |-> TRUE]]
            one == AppendMints([frontier |-> start, count |-> StartCount, finalCarry |-> Zero], claims)
            all == appendFrontierBatch(start, StartCount, DepositLeaves(b))
        IN  StartCount + Len(b) <= Capacity =>
               /\ all.count = one.count
               /\ RootNew(all) = RootNew(one)
               /\ \A l \in Level : Bit(SafeCount(one.count), l) => all.frontier[l] = one.frontier[l]
               /\ all.finalCarry = Mul(one.count = Capacity, one.finalCarry)

(* The two together: every circuit moves the tree by exactly the leaves it *)
(* mints, whichever of the two appends it uses.                            *)
AppendsExact == RootCommitsToLeaves /\ BatchEqualsSequential

(* No assertion stands in the way of a batch that fits: whoever knows the  *)
(* leaves finds a witness, also when the tree becomes exactly full or      *)
(* rolls over.                                                             *)
FittingBatchesAreProvable ==
    /\ Witness # {}
    /\ \A b \in EpochBatch :
         LET batch == PendingLeaves(b)
         IN  StartCount + Len(MintedByEpoch(b)) <= Capacity =>
                /\ BatchAccepted(StartCount, batch)
                /\ RootComputable(StartCount + batch.count)
=============================================================================
