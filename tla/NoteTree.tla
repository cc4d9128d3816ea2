------------------------------ MODULE NoteTree ------------------------------
(***************************************************************************)
(* The note trees of the shielded pool and everything that appends to them *)
(* or spends from them: transfer epochs, deposit epochs, portal deposit    *)
(* epochs, gift claim epochs and public gift exits, as relays prepare them *)
(* against one state of the chain and land them on a later one.            *)
(*                                                                         *)
(* A Merkle root is modelled by the sequence of leaves it commits to (the  *)
(* hash is collision free), so "r is a root of an earlier state of tree t" *)
(* is a fact about sequences.  A Groth16 proof is modelled by its public   *)
(* inputs: proofs only ever holds inputs that satisfy the circuit, and the *)
(* verifier accepts a submission iff the inputs the pool hands to it are   *)
(* those of the proof.  Everything handed from the calldata agrees with    *)
(* the proof (a mismatch reverts); what the pool reads from its own        *)
(* storage is compared explicitly.                                         *)
(***************************************************************************)
EXTENDS Naturals, Sequences, FiniteSets

CONSTANTS
    Commitment,     (* Note commitments the circuits may append.           *)
    GiftNote,       (* Those that only the gift circuit opens.             *)
    Capacity,       (* 2^merkleDepth, the leaves of one tree.              *)
    MaxTree,        (* MAX_NOTE_TREE_NUMBER.                               *)
    HistorySize,    (* ROOT_HISTORY_SIZE.                                  *)
    MaxRoots,       (* MAX_NOTE_ROOTS_PER_PROOF.                           *)
    MaxBatch,       (* Most leaves one epoch appends.                      *)
    MaxInputs,      (* Most notes one submission spends.                   *)
    MaxProofs,      (* Proofs alive at a time (a bound of the model).      *)
    Kinds,          (* The submissions exercised, a subset of AllKinds.    *)
    NoRoot,         (* Storage zero: the root of a tree not started.       *)
    NoProof         (* No epoch is being settled.                          *)

VARIABLES
    currentTreeNumber,      (* The tree that receives new leaves.          *)
    treeRoot,               (* treeRoot[t]: latest root of tree t.         *)
    treeCount,              (* treeCount[t]: leaves of tree t.             *)
    treeRootHistory,        (* Per tree, the ring buffer of recent roots.  *)
    treeRootHistoryCursor,  (* Per tree, the slot written last.            *)
    nullifierSpent,         (* The nullifiers recorded as spent.           *)
    inEpoch,                (* The transfer epoch whose withdrawals are    *)
                            (* being paid out: the pool is entered.        *)
    proofs,                 (* Proofs prepared and not discarded.          *)
    rootLog,                (* Ghost: every root installed in tree t.      *)
    timesSpent,             (* Ghost: settled spends of each position.     *)
    exits                   (* Ghost: the tip of the last gift exit.       *)

treeVars == <<currentTreeNumber, treeRoot, treeCount, treeRootHistory,
              treeRootHistoryCursor, rootLog>>
spendVars == <<nullifierSpent, timesSpent>>
vars == <<treeVars, spendVars, inEpoch, proofs, exits>>

AllKinds == {"transfer", "deposit", "portal", "gift", "exit"}

ASSUME CapacityAssumption == Capacity \in Nat \ {0}
ASSUME MaxTreeAssumption == MaxTree \in Nat
ASSUME HistoryAssumption == HistorySize \in Nat \ {0}
ASSUME KindsAssumption == Kinds \subseteq AllKinds
ASSUME NoRootAssumption == NoRoot \notin Seq(Commitment)

-----------------------------------------------------------------------------
(* Data.                                                                   *)

Tree == 0..MaxTree
Root == Seq(Commitment)
Slot == 0..HistorySize-1
Position == Tree \X (0..Capacity-1)

EmptyRoot == <<>>

ASSUME NoProofAssumption ==
    NoProof \notin [kind : AllKinds, tree : Tree, countOld : Nat, activeRoot : Root,
                    usedRoots : SUBSET (Tree \X Root), inputs : Seq(Position),
                    outs : Seq(Commitment), rootNew : Root, countNew : Nat, rollover : BOOLEAN]

(* r is the root of a state the leaves s have gone through.                *)
IsPrefix(r, s) ==
    /\ Len(r) <= Len(s)
    /\ \A i \in 1..Len(r) : r[i] = s[i]

(* The gift circuit opens gift notes, the epoch circuit all other notes,   *)
(* and each derives its nullifiers in a domain of its own, from the tree   *)
(* number and the leaf index.                                              *)
DomainOf(kind) == IF kind = "transfer" THEN "note" ELSE "gift"
OpensWith(kind, c) == (c \in GiftNote) <=> (DomainOf(kind) = "gift")
Nullifier(kind, pos) == <<DomainOf(kind), pos>>
NullifiersOf(p) == {Nullifier(p.kind, p.inputs[i]) : i \in DOMAIN p.inputs}

Spends == {"transfer", "gift", "exit"}
Appends == {"transfer", "deposit", "portal", "gift"}

-----------------------------------------------------------------------------
(* The pool's checks.                                                      *)

(* Mutant: the history of finalized trees is searched as well.             *)
IsKnownTreeRootOfAnyAge(t, r) ==
    /\ r # NoRoot
    /\ treeRoot[t] = r \/ \E i \in Slot : treeRootHistory[t][i] = r

IsKnownTreeRoot(t, r) ==
    /\ r # NoRoot
    /\ \/ treeRoot[t] = r
       \/ /\ t >= currentTreeNumber
          /\ \E i \in Slot : treeRootHistory[t][i] = r

(* Mutant: a named root only has to be set.                                *)
AllRootsSet(used) == \A u \in used : u[2] # NoRoot

AllRootsKnown(used) == \A u \in used : IsKnownTreeRoot(u[1], u[2])

RootCountOk(used) == used # {} /\ Cardinality(used) <= MaxRoots

(* used is the set of (tree number, root) pairs: the code rejects repeated *)
(* pairs.                                                                  *)
ValidateKnownRoots(used, allowDuplicateTreeNumbers) ==
    /\ RootCountOk(used)
    /\ AllRootsKnown(used)
    /\ \/ allowDuplicateTreeNumbers
       \/ /\ \A u, v \in used : u[1] = v[1] => u = v
          /\ \E u \in used : u[1] = currentTreeNumber

ValidateTreeState(p) ==
    /\ p.tree = currentTreeNumber
    /\ p.countOld = treeCount[p.tree]

RequireTreeCapacity(countOld, countNew, outputs, rollover) ==
    LET expected == IF rollover THEN outputs ELSE countOld + outputs
    IN  /\ rollover => countOld = Capacity
        /\ ~rollover => countOld < Capacity
        /\ countNew = expected
        /\ expected <= Capacity

(* Mutant: nullifiers are compared within a submission only.               *)
CanSpendAgain(p) ==
    \A i, j \in DOMAIN p.inputs : p.inputs[i] = p.inputs[j] => i = j

(* The nullifiers are spent one after the other, so a note named twice in  *)
(* one submission is rejected like one that was spent before.              *)
CanSpend(p) ==
    /\ \A i \in DOMAIN p.inputs : Nullifier(p.kind, p.inputs[i]) \notin nullifierSpent
    /\ \A i, j \in DOMAIN p.inputs : p.inputs[i] = p.inputs[j] => i = j

(* Mutant: the entry points have no reentrancy guard.                      *)
Unguarded == TRUE

(* No entry point can be entered while another one runs.                   *)
NonReentrant == inEpoch = NoProof

-----------------------------------------------------------------------------
(* The pool's writes.                                                      *)

(* Mutant: the root is written before the cursor advances.                 *)
PushTreeRootAtCursor(t, rootNew) ==
    LET next == (treeRootHistoryCursor[t] + 1) % HistorySize
    IN  /\ treeRootHistory' = [treeRootHistory EXCEPT ![t][treeRootHistoryCursor[t]] = rootNew]
        /\ treeRootHistoryCursor' = [treeRootHistoryCursor EXCEPT ![t] = next]

PushTreeRoot(t, rootNew) ==
    LET next == (treeRootHistoryCursor[t] + 1) % HistorySize
    IN  /\ treeRootHistory' = [treeRootHistory EXCEPT ![t][next] = rootNew]
        /\ treeRootHistoryCursor' = [treeRootHistoryCursor EXCEPT ![t] = next]

UpdateTreeState(activeTree, rootNew, countNew, rollover) ==
    LET target == IF rollover THEN currentTreeNumber + 1 ELSE activeTree
    IN  /\ target <= MaxTree
        /\ currentTreeNumber' = IF rollover THEN target ELSE currentTreeNumber
        /\ treeRoot' = [treeRoot EXCEPT ![target] = rootNew]
        /\ treeCount' = [treeCount EXCEPT ![target] = countNew]
        /\ PushTreeRoot(target, rootNew)
        /\ rootLog' = [rootLog EXCEPT ![target] = Append(@, rootNew)]

MarkSpent(p) == nullifierSpent' = nullifierSpent \cup NullifiersOf(p)

(* The ghost counts a spend once its transaction has settled.              *)
CountSpends(p) ==
    timesSpent' =
        [pos \in Position |->
            timesSpent[pos] + Cardinality({i \in DOMAIN p.inputs : p.inputs[i] = pos})]

-----------------------------------------------------------------------------
(* The circuits: what the public inputs of a proof satisfy.                *)

(* Every spent note is a leaf under one of the roots the proof names.      *)
InputsUnderRoots(p) ==
    \A i \in DOMAIN p.inputs :
        \E u \in p.usedRoots :
            /\ u[1] = p.inputs[i][1]
            /\ p.inputs[i][2] < Len(u[2])
            /\ OpensWith(p.kind, u[2][p.inputs[i][2] + 1])

(* The new root commits to the old leaves followed by the outputs; after a *)
(* rollover, to the outputs alone.  Without a rollover the old root is the *)
(* one of exactly countOld leaves; with one, nothing ties the two.         *)
TreeTransition(p) ==
    /\ p.rollover <=> p.countOld = Capacity
    /\ ~p.rollover => Len(p.activeRoot) = p.countOld
    /\ p.countNew <= Capacity
    /\ p.rootNew = IF p.rollover THEN p.outs ELSE p.activeRoot \o p.outs
    /\ p.countNew = Len(p.rootNew)

(* The deposit and portal circuits take the old root from the single pair  *)
(* of the active tree.                                                     *)
ActiveRootNamed(p) ==
    {u \in p.usedRoots : u[1] = p.tree} = {<<p.tree, p.activeRoot>>}

(* A public exit appends nothing.  Its full-tip form reuses the rollover   *)
(* branch, which leaves the old root unbound.                              *)
ExitTransition(p) ==
    /\ p.countOld < Capacity => Len(p.activeRoot) = p.countOld
    /\ p.outs = <<>>

CircuitAccepts(p) ==
    /\ InputsUnderRoots(p)
    /\ p.kind \in Spends <=> p.inputs # <<>>
    /\ p.kind \in Appends => p.outs # <<>> /\ TreeTransition(p)
    /\ p.kind \in {"deposit", "portal"} => ActiveRootNamed(p)
    /\ p.kind = "exit" => ExitTransition(p) /\ Len(p.inputs) = 1

-----------------------------------------------------------------------------
(* The provers.  A proof is prepared against the present state and stays   *)
(* usable, by any relay and more than once, until everyone has dropped it. *)
(* Anyone can compute the root of a tree of their own making: the roots a  *)
(* prover may name are the known ones and those of invented one-leaf trees.*)

KnownRoots == {treeRoot[t] : t \in Tree} \cup
              UNION {{treeRootHistory[t][i] : i \in Slot} : t \in Tree}
RootsToName ==
    {u \in Tree \X KnownRoots : IsKnownTreeRoot(u[1], u[2])}
        \cup Tree \X {<<c>> : c \in Commitment}

BoundedSeq(S, lo, hi) == UNION {[1..n -> S] : n \in lo..hi}

NewProof(kind, used, ins, outs) ==
    LET t == currentTreeNumber
        full == treeCount[t] = Capacity
        new == IF full THEN outs ELSE treeRoot[t] \o outs
    IN  [kind |-> kind, tree |-> t, countOld |-> treeCount[t],
         activeRoot |-> treeRoot[t], usedRoots |-> used, inputs |-> ins,
         outs |-> outs, rootNew |-> new, countNew |-> Len(new), rollover |-> full]

(* A gift exit may be proven at an older tip of the active tree, and may   *)
(* claim the full-tip form.                                                *)
ExitProof(used, pos, r, count) ==
    [kind |-> "exit", tree |-> currentTreeNumber, countOld |-> count,
     activeRoot |-> r, usedRoots |-> used, inputs |-> <<pos>>, outs |-> <<>>,
     rootNew |-> r, countNew |-> count, rollover |-> count = Capacity]

AddProof(p) ==
    /\ CircuitAccepts(p)
    /\ proofs' = proofs \cup {p}
    /\ UNCHANGED <<treeVars, spendVars, inEpoch, exits>>

Prove(kind) ==
    /\ Cardinality(proofs) < MaxProofs
    /\ \E used \in {U \in SUBSET RootsToName : RootCountOk(U)} :
        \/ /\ kind \in {"transfer", "gift"}
           /\ \E ins \in BoundedSeq(Position, 1, MaxInputs), outs \in BoundedSeq(Commitment, 1, MaxBatch) :
                    AddProof(NewProof(kind, used, ins, outs))
        \/ /\ kind = "deposit"
           /\ \E outs \in BoundedSeq(Commitment, 1, MaxBatch) :
                    AddProof(NewProof(kind, used, <<>>, outs))
        \/ /\ kind = "portal"          \* the circuit derives the notes' keys
           /\ \E outs \in BoundedSeq(Commitment \ GiftNote, 1, MaxBatch) :
                    AddProof(NewProof(kind, used, <<>>, outs))
        \/ /\ kind = "exit"
           /\ \E u \in used, pos \in Position :
                /\ u[1] = currentTreeNumber
                /\ \E count \in {Len(u[2]), Capacity} :
                        AddProof(ExitProof(used, pos, u[2], count))

Discard(p) ==
    /\ proofs' = proofs \ {p}
    /\ UNCHANGED <<treeVars, spendVars, inEpoch, exits>>

-----------------------------------------------------------------------------
(* The pool's entry points.                                                *)

(* Mutant: the old root comes with the proof and the leaf count is trusted.*)
SubmitEpochAnyTip(p) ==
    /\ NonReentrant
    /\ p.kind = "transfer"
    /\ p.tree = currentTreeNumber
    /\ ValidateKnownRoots(p.usedRoots, TRUE)
    /\ RequireTreeCapacity(p.countOld, p.countNew, Len(p.outs), p.rollover)
    /\ CanSpend(p)
    /\ MarkSpent(p)
    /\ inEpoch' = p
    /\ UNCHANGED <<treeVars, timesSpent, proofs, exits>>

(* submitEpoch up to the payout of its withdrawals: everything is checked  *)
(* and the nullifiers are spent; the tree is written after the payouts.    *)
SubmitEpoch(p) ==
    /\ NonReentrant
    /\ p.kind = "transfer"
    /\ ValidateTreeState(p)
    /\ ValidateKnownRoots(p.usedRoots, TRUE)
    /\ RequireTreeCapacity(p.countOld, p.countNew, Len(p.outs), p.rollover)
    /\ p.activeRoot = treeRoot[p.tree]     \* handed to the verifier from storage
    /\ CanSpend(p)
    /\ MarkSpent(p)
    /\ inEpoch' = p
    /\ UNCHANGED <<treeVars, timesSpent, proofs, exits>>

(* submitEpoch from there on.                                              *)
SettleEpoch ==
    /\ inEpoch # NoProof
    /\ UpdateTreeState(inEpoch.tree, inEpoch.rootNew, inEpoch.countNew, inEpoch.rollover)
    /\ CountSpends(inEpoch)
    /\ inEpoch' = NoProof
    /\ UNCHANGED <<nullifierSpent, proofs, exits>>

(* A payout fails, or there is no tree left: the transaction reverts and   *)
(* the nullifiers it spent are unspent again.                              *)
RevertEpoch ==
    /\ inEpoch # NoProof
    /\ nullifierSpent' = nullifierSpent \ NullifiersOf(inEpoch)
    /\ inEpoch' = NoProof
    /\ UNCHANGED <<treeVars, timesSpent, proofs, exits>>

SubmitDepositEpoch(p) ==
    /\ NonReentrant
    /\ p.kind = "deposit"
    /\ ValidateTreeState(p)
    /\ ValidateKnownRoots(p.usedRoots, FALSE)
    /\ <<p.tree, treeRoot[p.tree]>> \in p.usedRoots
    /\ RequireTreeCapacity(p.countOld, p.countNew, Len(p.outs), p.rollover)
    /\ UpdateTreeState(p.tree, p.rootNew, p.countNew, p.rollover)
    /\ UNCHANGED <<spendVars, inEpoch, proofs, exits>>

(* The same checks; the wrapper advances the tree number and the library   *)
(* writes tree p.tree + 1 when the epoch rolls over.                       *)
SubmitPortalDepositEpoch(p) ==
    /\ NonReentrant
    /\ p.kind = "portal"
    /\ ValidateTreeState(p)
    /\ ValidateKnownRoots(p.usedRoots, FALSE)
    /\ <<p.tree, treeRoot[p.tree]>> \in p.usedRoots
    /\ RequireTreeCapacity(p.countOld, p.countNew, Len(p.outs), p.rollover)
    /\ UpdateTreeState(p.tree, p.rootNew, p.countNew, p.rollover)
    /\ UNCHANGED <<spendVars, inEpoch, proofs, exits>>

SubmitGiftClaimEpoch(p) ==
    /\ NonReentrant
    /\ p.kind = "gift"
    /\ ValidateTreeState(p)
    /\ ValidateKnownRoots(p.usedRoots, TRUE)
    /\ RequireTreeCapacity(p.countOld, p.countNew, Len(p.outs), p.rollover)
    /\ Len(p.outs) = Len(p.inputs)         \* one note per claim
    /\ p.activeRoot = treeRoot[p.tree]
    /\ CanSpend(p)
    /\ MarkSpent(p)
    /\ CountSpends(p)
    /\ UpdateTreeState(p.tree, p.rootNew, p.countNew, p.rollover)
    /\ UNCHANGED <<inEpoch, proofs, exits>>

(* Mutant: the full-tip form is taken at its word.                         *)
PublicGiftExitAnyTip(p) ==
    /\ NonReentrant
    /\ p.kind = "exit"
    /\ p.tree = currentTreeNumber
    /\ ValidateKnownRoots(p.usedRoots, FALSE)
    /\ <<p.tree, p.activeRoot>> \in p.usedRoots
    /\ p.countOld <= Capacity
    /\ CanSpend(p)
    /\ MarkSpent(p)
    /\ CountSpends(p)
    /\ exits' = {[tree |-> p.tree, root |-> p.activeRoot, count |-> p.countOld]}
    /\ UNCHANGED <<treeVars, inEpoch, proofs>>

(* The exit names the live tree but may carry one of its older tips; the   *)
(* full-tip form is admitted only for the live full tip.                   *)
PublicGiftExit(p) ==
    /\ NonReentrant
    /\ p.kind = "exit"
    /\ p.tree = currentTreeNumber
    /\ ValidateKnownRoots(p.usedRoots, FALSE)
    /\ <<p.tree, p.activeRoot>> \in p.usedRoots
    /\ p.countOld <= Capacity
    /\ p.countOld = Capacity =>
            treeCount[p.tree] = Capacity /\ p.activeRoot = treeRoot[p.tree]
    /\ CanSpend(p)
    /\ MarkSpent(p)
    /\ CountSpends(p)
    /\ exits' = {[tree |-> p.tree, root |-> p.activeRoot, count |-> p.countOld]}
    /\ UNCHANGED <<treeVars, inEpoch, proofs>>

-----------------------------------------------------------------------------
(* The specification.                                                      *)

Init ==
    /\ currentTreeNumber = 0
    /\ treeRoot = [t \in Tree |-> IF t = 0 THEN EmptyRoot ELSE NoRoot]
    /\ treeCount = [t \in Tree |-> 0]
    /\ treeRootHistory =
            [t \in Tree |-> [i \in Slot |-> IF t = 0 /\ i = 0 THEN EmptyRoot ELSE NoRoot]]
    /\ treeRootHistoryCursor = [t \in Tree |-> 0]
    /\ rootLog = [t \in Tree |-> IF t = 0 THEN <<EmptyRoot>> ELSE <<>>]
    /\ nullifierSpent = {}
    /\ timesSpent = [pos \in Position |-> 0]
    /\ inEpoch = NoProof
    /\ proofs = {}
    /\ exits = {}

Submit(p) ==
    \/ SubmitEpoch(p)
    \/ SubmitDepositEpoch(p)
    \/ SubmitPortalDepositEpoch(p)
    \/ SubmitGiftClaimEpoch(p)
    \/ PublicGiftExit(p)

Next ==
    \/ \E kind \in Kinds : Prove(kind)
    \/ \E p \in proofs : Submit(p) \/ Discard(p)
    \/ SettleEpoch
    \/ RevertEpoch

Spec == Init /\ [][Next]_vars

-----------------------------------------------------------------------------
(* Properties.                                                             *)

ProofShape(p) ==
    /\ p.kind \in AllKinds
    /\ p.tree \in Tree
    /\ p.countOld \in 0..Capacity /\ p.countNew \in 0..Capacity
    /\ p.activeRoot \in Root /\ p.rootNew \in Root
    /\ p.usedRoots \subseteq Tree \X Root
    /\ p.inputs \in Seq(Position) /\ p.outs \in Seq(Commitment)
    /\ p.rollover \in BOOLEAN

(* Types of the storage and of the proofs in flight.                       *)
TypeOK ==
    /\ currentTreeNumber \in Tree
    /\ treeRoot \in [Tree -> Root \cup {NoRoot}]
    /\ treeCount \in [Tree -> 0..Capacity]
    /\ treeRootHistory \in [Tree -> [Slot -> Root \cup {NoRoot}]]
    /\ treeRootHistoryCursor \in [Tree -> Slot]
    /\ nullifierSpent \subseteq {"note", "gift"} \X Position
    /\ \A p \in proofs : ProofShape(p)
    /\ inEpoch = NoProof \/ ProofShape(inEpoch)
    /\ rootLog \in [Tree -> Seq(Root)]
    /\ timesSpent \in [Position -> Nat]

(* The count a relay must present always belongs to the stored root: every *)
(* started tree has a root of exactly treeCount leaves, no other tree has  *)
(* any (PrivacyBoost._updateTreeState and its copies in LibPortal/LibGift).*)
RootsMatchCounts ==
    \A t \in Tree :
        IF t <= currentTreeNumber
        THEN treeRoot[t] # NoRoot /\ Len(treeRoot[t]) = treeCount[t]
        ELSE treeRoot[t] = NoRoot /\ treeCount[t] = 0

(* A root that isKnownTreeRoot accepts for a tree was installed in that    *)
(* tree, and the tree still holds all of its leaves where they were: a     *)
(* membership proof against a known root proves a leaf of today's tree.    *)
KnownRootsAreGenuine ==
    \A t \in Tree : \A r \in KnownRoots :
        IsKnownTreeRoot(t, r) =>
            /\ t <= currentTreeNumber
            /\ \E k \in DOMAIN rootLog[t] : rootLog[t][k] = r
            /\ IsPrefix(r, treeRoot[t])

(* A proof survives HistorySize - 1 appends by others: the last            *)
(* HistorySize roots of the active tree are all known (LibPoolShared's     *)
(* ring buffer), its very first root included as long as it is recent.     *)
RecentRootsStayKnown ==
    LET log == rootLog[currentTreeNumber]
    IN  \A k \in DOMAIN log :
            k > Len(log) - HistorySize => IsKnownTreeRoot(currentTreeNumber, log[k])

(* A tree is left only when it is full, and then nothing but its final     *)
(* root can be proven against.                                             *)
FinalizedTreesSealed ==
    \A t \in 0..currentTreeNumber - 1 :
        /\ treeCount[t] = Capacity
        /\ \A r \in KnownRoots : IsKnownTreeRoot(t, r) => Len(r) = Capacity

(* A note is spent at most once, whichever root of its tree's past it is   *)
(* proven under, in one submission or in several, by a relayed epoch, a    *)
(* gift claim or a public exit.                                            *)
NoDoubleSpend == \A pos \in Position : timesSpent[pos] <= 1

(* Only notes that are in the trees are ever spent, with the circuit of    *)
(* their kind, and between transactions the recorded nullifiers are those  *)
(* of the settled spends: a reverted epoch leaves none behind.             *)
SpentNotesExist ==
    \A pos \in Position :
        LET tree == IF treeRoot[pos[1]] = NoRoot THEN EmptyRoot ELSE treeRoot[pos[1]]
        IN  /\ timesSpent[pos] > 0 => pos[2] < Len(tree)
            /\ NonReentrant =>
                    \A d \in {"note", "gift"} :
                        <<d, pos>> \in nullifierSpent <=>
                            /\ timesSpent[pos] > 0
                            /\ d = IF tree[pos[2] + 1] \in GiftNote THEN "gift" ELSE "note"

(* The (root, leaf count) pair behind an accepted public exit is one the   *)
(* tree really went through, although the circuit's full-tip form does not *)
(* tie the two (PrivacyBoost.publicGiftExit).                              *)
ExitsProvenAtGenuineTips ==
    \A e \in exits :
        Len(e.root) = e.count /\ \E k \in DOMAIN rootLog[e.tree] : rootLog[e.tree][k] = e.root

(* The trees as the pool stores them implement the append-only note log:   *)
(* no accepted leaf is ever lost, moved or changed by a stale or replayed  *)
(* proof, a rollover, or an epoch that settles after external calls.       *)
Log == INSTANCE NoteLog WITH
    log   <- [t \in Tree |-> IF treeRoot[t] = NoRoot THEN <<>> ELSE treeRoot[t]],
    open  <- currentTreeNumber,
    spent <- {pos \in Position : timesSpent[pos] > 0}

ImplementsNoteLog == Log!LogSpec
=============================================================================
