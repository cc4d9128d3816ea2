-------------------------------- MODULE Gifts --------------------------------
(***************************************************************************)
(* Gifts: notes that a wallet, or whoever knows a secret, may claim and    *)
(* that their sender may take back after a deadline.  A gift is settled    *)
(* privately, minted into a new note by a batch a relay submits, or        *)
(* publicly, paid out to an address by anyone who has a proof.  What the   *)
(* gift circuit asserts of a slot is Proves; the trees of notes, with the  *)
(* membership of gifts and the appending of mints, are in NoteTree.        *)
(*                                                                         *)
(* Whoever settles a gift signs a digest, of the note that is minted or of *)
(* the payout, with a key the AuthRegistry holds, or has it approved       *)
(* there; the registry appears here as the leaves it holds and those that  *)
(* roots it still accepts hold.  Keys may leak.  Time counts in blocks.    *)
(***************************************************************************)
EXTENDS Naturals, Sequences, FiniteSets, FiniteSetsExt

CONSTANTS
    Gift,           (* Notes of gifts, by their place in the trees.        *)
    Account,        (* Accounts of AuthRegistry, each of one wallet.       *)
    Key,            (* Authorization keys.                                 *)
    Holder,         (* The account each key is of.                         *)
    Bearer,         (* The recipient of a gift for who knows its secret.   *)
    Terms,          (* What gifts may be funded with.                      *)
    Signable,       (* The digests people sign or approve.                 *)
    Expiries,       (* Of keys and approvals; 0 is "never" for a key.      *)
    Approvers,      (* Accounts that approve digests.                      *)
    Lost,           (* Keys that may leak, and be removed.                 *)
    FeeRates,       (* Values of withdrawFeeBps.                           *)
    Treasuries,     (* Whether there may be a treasury, and may be none.   *)
    BasisPoints,    (* BASIS_POINTS.                                       *)
    MaxStaleness,   (* maxEpochAuthStalenessBlocks.                        *)
    MaxProofAge,    (* MAX_PROOF_AGE.                                      *)
    MaxBatch,       (* maxBatchSize.                                       *)
    MaxBlock,       (* Last block (a bound).                               *)
    None            (* No terms, no leaf, no outcome.                      *)

VARIABLES
    gifts,          (* The terms of the gifts that were funded.            *)
    nullifierSpent, (* Gifts whose nullifier is spent.                     *)
    live,           (* The leaves AuthRegistry holds.                      *)
    removed,        (* The block each other leaf was last removed in, or 0.*)
    signed,         (* Digests, with the key that signed them.             *)
    leaked,         (* Keys that are known to thieves.                     *)
    withdrawFeeBps,
    treasurySet,    (* There is a treasury.                                *)
    block,
    paidOut,        (* What has left the pool for each gift.               *)
    agreed,         (* Digests, with the account that wanted them.         *)
    settlements,    (* How often each gift was settled ...                 *)
    outcome         (* ... and how.                                        *)

registryVars == <<live, removed>>
signingVars == <<signed, leaked, agreed>>
configVars == <<withdrawFeeBps, treasurySet>>
settlementVars == <<nullifierSpent, paidOut, settlements, outcome>>
vars == <<gifts, registryVars, signingVars, configVars, settlementVars, block>>

ASSUME HolderAssumption == Holder \in [Key -> Account] /\ Bearer \notin Account
ASSUME ApproversAssumption == Approvers \subseteq Account
ASSUME TermsAssumption ==
    Terms \subseteq [recipient : Account \cup {Bearer}, sender : Account,
                     refundAfter : Nat, amount : Nat]
ASSUME FeesAssumption ==
    /\ BasisPoints \in Nat \ {0}
    /\ FeeRates \subseteq 0..BasisPoints
    /\ Treasuries \subseteq BOOLEAN
ASSUME TimesAssumption == MaxStaleness \in Nat /\ MaxProofAge \in Nat /\ Expiries \subseteq Nat

-----------------------------------------------------------------------------
(* Digests and leaves.  Destinations and notes are the signer's choice;    *)
(* of a mint the circuit knows whose account its note is for.              *)

MintDigest == [mode : {"mint"}, gift : Gift, to : Account]
ExitDigest == [mode : {"exit"}, gift : Gift, amount : Nat, minNetAmount : Nat]

ASSUME SignableAssumption == Signable \subseteq MintDigest \cup ExitDigest

KeyLeaf == [key : Key, expiry : Expiries]
ApprovalLeaf == [account : Approvers, digest : Signable, expiry : Expiries \ {0}]
Leaf == KeyLeaf \cup ApprovalLeaf

IsKeyLeaf(leaf) == leaf \in KeyLeaf
AccountOf(leaf) == IF IsKeyLeaf(leaf) THEN Holder[leaf.key] ELSE leaf.account

(* Held by a root of the registry that is no older than an epoch may use.  *)
RecentlyLive(leaf) ==
    \/ leaf \in live
    \/ MaxStaleness # 0 /\ removed[leaf] # 0 /\ block - removed[leaf] <= MaxStaleness

-----------------------------------------------------------------------------
(* The circuit.  A slot is the leaf, None for the bearer of a secret, and  *)
(* the digest of the settlement.                                           *)

(* Mutant: signatures of keys without expiry are refused.                  *)
UnexpiredNow(leaf, provingTimestamp) == leaf.expiry >= provingTimestamp

Unexpired(leaf, provingTimestamp) == leaf.expiry = 0 \/ leaf.expiry >= provingTimestamp

SignedFor(leaf, digest) == <<leaf.key, digest>> \in signed

MintsTo(digest, account) == digest.mode = "mint" => digest.to = account

ClaimBranch(leaf, digest) ==
    /\ IsKeyLeaf(leaf)
    /\ AccountOf(leaf) = gifts[digest.gift].recipient
    /\ SignedFor(leaf, digest)
    /\ MintsTo(digest, AccountOf(leaf))

(* A secret authorizes payouts only.                                       *)
SecretBranch(digest) ==
    /\ gifts[digest.gift].recipient = Bearer
    /\ digest.mode = "exit"

DeadlinePassed(terms, currentBlock) == currentBlock >= terms.refundAfter

RefundBranch(leaf, digest, currentBlock) ==
    /\ DeadlinePassed(gifts[digest.gift], currentBlock)
    /\ AccountOf(leaf) = gifts[digest.gift].sender
    /\ IF IsKeyLeaf(leaf) THEN SignedFor(leaf, digest) ELSE leaf.digest = digest
    /\ MintsTo(digest, AccountOf(leaf))

(* What is paid is what the gift holds; a mint does not tell.              *)
ConservesValue(digest) == digest.mode = "exit" => digest.amount = gifts[digest.gift].amount

Proves(slot, currentBlock, provingTimestamp) ==
    /\ gifts[slot.digest.gift] # None
    /\ ConservesValue(slot.digest)
    /\ IF slot.leaf = None
       THEN SecretBranch(slot.digest)
       ELSE /\ Unexpired(slot.leaf, provingTimestamp)
            /\ \/ ClaimBranch(slot.leaf, slot.digest)
               \/ RefundBranch(slot.leaf, slot.digest, currentBlock)

Slots(mode, leaves) ==
    [leaf : leaves, digest : {d \in Signable : d.mode = mode}]

-----------------------------------------------------------------------------
(* The contract.                                                           *)

(* The attested time may be a little behind, the attested block a lot.     *)
ProvingTimes == {t \in 0..block : block - t <= MaxProofAge}

(* For how long a leaf has been gone, and who wanted the settlement.       *)
Age(leaf) == IF leaf = None \/ leaf \in live THEN 0 ELSE block - removed[leaf]
Wanted(slot) == slot.leaf = None \/ <<AccountOf(slot.leaf), slot.digest>> \in agreed
Stolen(slot) == slot.leaf # None /\ IsKeyLeaf(slot.leaf) /\ slot.leaf.key \in leaked

Outcome(slot) ==
    [leaf |-> slot.leaf, digest |-> slot.digest, block |-> block, age |-> Age(slot.leaf),
     wanted |-> Wanted(slot), stolen |-> Stolen(slot)]

(* Mutant: nullifiers are compared with those of earlier batches only.     *)
UnspentBefore(slots) == \A i \in DOMAIN slots : slots[i].digest.gift \notin nullifierSpent

Unspent(slots) ==
    /\ \A i \in DOMAIN slots : slots[i].digest.gift \notin nullifierSpent
    /\ \A i, j \in DOMAIN slots : slots[i].digest.gift = slots[j].digest.gift => i = j

Settle(slots) ==
    /\ nullifierSpent' = nullifierSpent \cup {slots[i].digest.gift : i \in DOMAIN slots}
    /\ settlements' = [g \in Gift |->
            settlements[g] + Cardinality({i \in DOMAIN slots : slots[i].digest.gift = g})]
    /\ outcome' = [g \in Gift |->
            IF \E i \in DOMAIN slots : slots[i].digest.gift = g
            THEN Outcome(slots[CHOOSE i \in DOMAIN slots : slots[i].digest.gift = g])
            ELSE outcome[g]]

(* By a relay: the slots of a batch are proved at once.                    *)
SubmitGiftClaimEpoch(slots, currentBlock, provingTimestamp) ==
    /\ \A i \in DOMAIN slots : RecentlyLive(slots[i].leaf)
    /\ \A i \in DOMAIN slots : Proves(slots[i], currentBlock, provingTimestamp)
    /\ Unspent(slots)
    /\ Settle(slots)
    /\ UNCHANGED <<gifts, registryVars, signingVars, configVars, block, paidOut>>

Fee(amount) == (amount * withdrawFeeBps) \div BasisPoints

(* Mutant: the leaf may be one of a recent root, as in epochs.             *)
HeldByRecentRoot(leaf) == leaf # None => RecentlyLive(leaf)

(* The leaf a payout rests on is in the registry now.                      *)
HeldByRegistry(leaf) == leaf # None => leaf \in live

(* Mutant: the floor is compared with the amount before the fee.           *)
GrossQuoteMet(digest) == digest.amount >= digest.minNetAmount

QuoteMet(digest) == digest.amount - Fee(digest.amount) >= digest.minNetAmount

PublicGiftExit(slot, currentBlock, provingTimestamp) ==
    LET digest == slot.digest
        net == digest.amount - Fee(digest.amount)
        fee == IF treasurySet THEN Fee(digest.amount) ELSE 0
    IN  /\ HeldByRegistry(slot.leaf)
        /\ QuoteMet(digest)
        /\ Unspent(<<slot>>)
        /\ Proves(slot, currentBlock, provingTimestamp)
        /\ Settle(<<slot>>)
        /\ paidOut' = [paidOut EXCEPT ![digest.gift] =
                [net |-> @.net + net, fee |-> @.fee + fee]]
        /\ UNCHANGED <<gifts, registryVars, signingVars, configVars, block>>

(* Mutant: a fee may be set when nobody is there to receive it.            *)
FeeMayBeSet(bps) == TRUE

FeeHasReceiver(bps) == bps > 0 => treasurySet

SetFees(bps) ==
    /\ bps # withdrawFeeBps
    /\ FeeHasReceiver(bps)
    /\ withdrawFeeBps' = bps
    /\ UNCHANGED <<gifts, registryVars, signingVars, settlementVars, block, treasurySet>>

SetTreasury(isSet) ==
    /\ isSet # treasurySet
    /\ ~isSet => withdrawFeeBps = 0
    /\ treasurySet' = isSet
    /\ UNCHANGED <<gifts, registryVars, signingVars, settlementVars, block, withdrawFeeBps>>

-----------------------------------------------------------------------------
(* Senders, the registry, signers and thieves.                             *)

(* A transfer leaves the note of a gift in the tree.                       *)
Fund(g, terms) ==
    /\ gifts[g] = None
    /\ gifts' = [gifts EXCEPT ![g] = terms]
    /\ UNCHANGED <<registryVars, signingVars, configVars, settlementVars, block>>

(* Approving a digest is wanting it.                                       *)
AddLeaf(leaf) ==
    /\ leaf \notin live
    /\ IF IsKeyLeaf(leaf)
       THEN (leaf.expiry = 0 \/ block <= leaf.expiry) /\ agreed' = agreed
       ELSE block < leaf.expiry /\ agreed' = agreed \cup {<<leaf.account, leaf.digest>>}
    /\ live' = live \cup {leaf}
    /\ UNCHANGED <<gifts, removed, signed, leaked, configVars, settlementVars, block>>

(* A key is revoked or rotated away, an approval revoked.                  *)
RemoveLeaf(leaf) ==
    /\ leaf \in live
    /\ IsKeyLeaf(leaf) => leaf.key \in Lost
    /\ live' = live \ {leaf}
    /\ removed' = [removed EXCEPT ![leaf] = block]
    /\ UNCHANGED <<gifts, signingVars, configVars, settlementVars, block>>

Sign(key, digest) ==
    /\ signed' = signed \cup {<<key, digest>>}
    /\ agreed' = agreed \cup {<<Holder[key], digest>>}
    /\ UNCHANGED <<gifts, registryVars, leaked, configVars, settlementVars, block>>

Leak(key) ==
    /\ key \in Lost \ leaked
    /\ leaked' = leaked \cup {key}
    /\ UNCHANGED <<gifts, registryVars, signed, agreed, configVars, settlementVars, block>>

Forge(key, digest) ==
    /\ key \in leaked
    /\ signed' = signed \cup {<<key, digest>>}
    /\ UNCHANGED <<gifts, registryVars, leaked, agreed, configVars, settlementVars, block>>

NextBlock ==
    /\ block < MaxBlock
    /\ block' = block + 1
    /\ UNCHANGED <<gifts, registryVars, signingVars, configVars, settlementVars>>

-----------------------------------------------------------------------------
(* The specification.                                                      *)

Init ==
    /\ gifts = [g \in Gift |-> None]
    /\ nullifierSpent = {}
    /\ live = {}
    /\ removed = [leaf \in Leaf |-> 0]
    /\ signed = {}
    /\ leaked = {}
    /\ withdrawFeeBps = 0
    /\ treasurySet = FALSE
    /\ block = 1
    /\ paidOut = [g \in Gift |-> [net |-> 0, fee |-> 0]]
    /\ agreed = {}
    /\ settlements = [g \in Gift |-> 0]
    /\ outcome = [g \in Gift |-> None]

SettleOne ==
    \E currentBlock \in 0..block, provingTimestamp \in ProvingTimes :
        \/ \E k \in 1..MaxBatch : \E slots \in [1..k -> Slots("mint", Leaf)] :
                SubmitGiftClaimEpoch(slots, currentBlock, provingTimestamp)
        \/ \E slot \in Slots("exit", Leaf \cup {None}) :
                PublicGiftExit(slot, currentBlock, provingTimestamp)

Configure ==
    \/ \E bps \in FeeRates : SetFees(bps)
    \/ \E isSet \in Treasuries : SetTreasury(isSet)

Others ==
    \/ \E g \in Gift, terms \in Terms : Fund(g, terms)
    \/ \E leaf \in Leaf : AddLeaf(leaf) \/ RemoveLeaf(leaf)
    \/ \E key \in Key : Leak(key) \/ \E digest \in Signable : Sign(key, digest) \/ Forge(key, digest)
    \/ NextBlock

Next == SettleOne \/ Configure \/ Others

Spec == Init /\ [][Next]_vars

(* A sender keeps trying to take a gift back, on its own: it has a key     *)
(* registered, signs a payout that accepts any fee, and submits it.        *)
TakeBack(g) ==
    /\ gifts[g] # None /\ g \notin nullifierSpent
    /\ \/ \E key \in Key :
            /\ Holder[key] = gifts[g].sender
            /\ \/ AddLeaf([key |-> key, expiry |-> 0])
               \/ \E digest \in Signable :
                    /\ digest.mode = "exit" /\ digest.gift = g /\ digest.minNetAmount = 0
                    /\ \/ <<key, digest>> \notin signed /\ Sign(key, digest)
                       \/ PublicGiftExit([leaf |-> [key |-> key, expiry |-> 0], digest |-> digest],
                                         block, block)

FairSpec ==
    /\ Spec
    /\ WF_vars(NextBlock)
    /\ \A g \in Gift : WF_vars(TakeBack(g))

-----------------------------------------------------------------------------
(* Properties.                                                             *)

(* Types, and that fees, while there are any, have a receiver (code: the   *)
(* storage of PrivacyBoost, and the checks of setFees and setTreasury).    *)
TypeOK ==
    /\ gifts \in [Gift -> Terms \cup {None}]
    /\ nullifierSpent \subseteq Gift
    /\ live \subseteq Leaf
    /\ removed \in [Leaf -> Nat]
    /\ signed \subseteq Key \X Signable
    /\ leaked \subseteq Key
    /\ agreed \subseteq Account \X Signable
    /\ withdrawFeeBps \in FeeRates \cup {0}
    /\ treasurySet \in BOOLEAN
    /\ withdrawFeeBps > 0 => treasurySet
    /\ block \in Nat
    /\ settlements \in [Gift -> Nat]
    /\ paidOut \in [Gift -> [net : Nat, fee : Nat]]

(* A gift is settled at most once, be it claimed or taken back, in the     *)
(* slots of one batch, in batches, or by payouts anyone may submit         *)
(* (submitGiftClaimEpoch and publicGiftExit share one set of nullifiers).  *)
SettledOnce == \A g \in Gift : settlements[g] <= 1

(* Whose a gift is to settle when s settles it.                            *)
Owners(g, s) ==
    {gifts[g].recipient} \cup {a \in {gifts[g].sender} : s.block >= gifts[g].refundAfter}

WithAuthority(g, s) ==
    \/ /\ s.leaf = None
       /\ Bearer \in Owners(g, s)
       /\ s.digest.mode = "exit"
    \/ /\ s.leaf # None
       /\ AccountOf(s.leaf) \in Owners(g, s)
       /\ s.wanted \/ s.stolen
       /\ s.digest.mode = "mint" => s.digest.to \in Owners(g, s)
       /\ s.age <= IF s.digest.mode = "mint" THEN MaxStaleness ELSE 0
       /\ s.leaf.expiry # 0 => s.block <= s.leaf.expiry + MaxProofAge

(* A gift ends only by the hand of its recipient or, from the deadline on, *)
(* of its sender, to whom alone a mint goes: they wanted what was done, or *)
(* the key that signed for it had leaked.  A key that is removed is of no  *)
(* use for payouts from then on, and for mints after MaxStaleness blocks;  *)
(* one that expires, after MAX_PROOF_AGE (processClaim with publicGiftExit *)
(* and submitGiftClaimEpoch).                                              *)
SettledWithAuthority ==
    \A g \in nullifierSpent : WithAuthority(g, outcome[g])

(* Whatever becomes of fees and treasury between the signing of a payout   *)
(* and its submission: the destination gets no less than was signed for,   *)
(* with the fee the whole gift leaves the pool, and nothing else leaves it *)
(* for a gift (LibGift.publicGiftExit).                                    *)
PaidExactly ==
    \A g \in Gift :
        IF g \in nullifierSpent /\ outcome[g].digest.mode = "exit"
        THEN /\ paidOut[g].net >= outcome[g].digest.minNetAmount
             /\ paidOut[g].net + paidOut[g].fee = gifts[g].amount
        ELSE paidOut[g] = [net |-> 0, fee |-> 0]

(* No gift is lost: without any relay and without its recipient, a sender  *)
(* who keeps one key gets it back (or its recipient was first).            *)
EveryGiftEnds == \A g \in Gift : gifts[g] # None ~> g \in nullifierSpent
=============================================================================
