--------------------------- MODULE Circuits_proofs ---------------------------
(***************************************************************************)
(* Proofs about three models that share no state: Gifts, for every set of  *)
(* gifts, accounts and keys and every value of deadlines, amounts, fees    *)
(* and windows; the sponge all circuits hash with, for inputs of every     *)
(* length, every field and every permutation; and the appends of the       *)
(* circuits, for trees of every depth and batches of every shape.          *)
(***************************************************************************)
EXTENDS Gifts, Poseidon2Sponge, FrontierAppend, Sums, FiniteSetTheorems, SequenceTheorems, TLAPS

(* Settled gifts were funded, and are those whose nullifier is spent.      *)
SettlementsMatchNullifiers ==
    \A g \in Gift :
        /\ settlements[g] = IF g \in nullifierSpent THEN 1 ELSE 0
        /\ g \in nullifierSpent => gifts[g] # None

(* Whoever holds a key signs what it wants, unless the key leaked ...      *)
SignedAsAgreed ==
    \A key \in Key, digest \in Signable :
        <<key, digest>> \in signed => <<Holder[key], digest>> \in agreed \/ key \in leaked

(* ... and approvals are wanted, those that are removed too.               *)
ApprovedAsAgreed ==
    \A leaf \in Leaf :
        ~IsKeyLeaf(leaf) /\ (leaf \in live \/ removed[leaf] # 0) =>
            <<leaf.account, leaf.digest>> \in agreed

IInv ==
    /\ TypeOK
    /\ SettlementsMatchNullifiers
    /\ SignedAsAgreed
    /\ ApprovedAsAgreed
    /\ SettledWithAuthority
    /\ PaidExactly

-----------------------------------------------------------------------------
(* Facts about the operators of Gifts.                                     *)

(* A fee is no more than what it is taken of.                              *)
LEMMA FeeBound ==
    ASSUME TypeOK, NEW a \in Nat
    PROVE  Fee(a) \in 0..a
<1>1. withdrawFeeBps \in 0..BasisPoints /\ BasisPoints \in Nat \ {0}
  BY FeesAssumption DEF TypeOK
<1> DEFINE q == Fee(a)
<1>2. q \in Int /\ BasisPoints * q <= a * withdrawFeeBps
        /\ a * withdrawFeeBps < BasisPoints * q + BasisPoints
  BY <1>1, Z3 DEF Fee
<1>3. 0 <= a * withdrawFeeBps /\ a * withdrawFeeBps <= a * BasisPoints
  BY <1>1, Z3
<1> HIDE DEF q
<1>4. q >= 0
  <2>1. SUFFICES ASSUME q <= -1 PROVE FALSE
    BY <1>2
  <2>2. BasisPoints * q <= -BasisPoints
    BY <1>1, <1>2, <2>1, Z3
  <2> QED BY <1>1, <1>2, <1>3, <2>2, Z3
<1>5. q <= a
  <2>1. SUFFICES ASSUME q >= a + 1 PROVE FALSE
    BY <1>2
  <2>2. BasisPoints * q >= BasisPoints * a + BasisPoints
    BY <1>1, <1>2, <2>1, Z3
  <2> QED BY <1>1, <1>2, <1>3, <2>2, Z3
<1> QED BY <1>2, <1>4, <1>5 DEF q

(* What a slot holds.                                                      *)
LEMMA SlotTypes ==
    ASSUME NEW proven, NEW mode, NEW slot \in Slots(mode, proven)
    PROVE  /\ slot.leaf \in proven
           /\ slot.digest \in Signable
           /\ slot.digest.mode = mode
           /\ slot.digest.gift \in Gift
BY SignableAssumption DEF Slots, MintDigest, ExitDigest

(* Leaves expire at times, and are of accounts.                            *)
LEMMA LeafTypes ==
    ASSUME NEW leaf \in Leaf
    PROVE  /\ leaf.expiry \in Nat
           /\ IsKeyLeaf(leaf) => leaf.key \in Key /\ AccountOf(leaf) = Holder[leaf.key]
           /\ ~IsKeyLeaf(leaf) => leaf.digest \in Signable /\ AccountOf(leaf) = leaf.account
BY TimesAssumption DEF Leaf, KeyLeaf, ApprovalLeaf, IsKeyLeaf, AccountOf

(* Settling marks each gift of the slots once, and no other gift.          *)
LEMMA SettleMarks ==
    ASSUME NEW slots, NEW g \in Gift, settlements \in [Gift -> Nat],
           Unspent(slots), Settle(slots)
    PROVE  \/ /\ g \notin nullifierSpent /\ g \in nullifierSpent'
              /\ settlements'[g] = settlements[g] + 1
              /\ \E i \in DOMAIN slots :
                    slots[i].digest.gift = g /\ outcome'[g] = Outcome(slots[i])
           \/ /\ \A i \in DOMAIN slots : slots[i].digest.gift # g
              /\ g \in nullifierSpent' <=> g \in nullifierSpent
              /\ settlements'[g] = settlements[g]
              /\ outcome'[g] = outcome[g]
<1> DEFINE I == {i \in DOMAIN slots : slots[i].digest.gift = g}
<1>1. settlements'[g] = settlements[g] + Cardinality(I)
  BY DEF Settle
<1>2. CASE I = {}
  <2>1. Cardinality(I) = 0
    BY <1>2, FS_EmptySet
  <2> QED BY <1>1, <1>2, <2>1 DEF Settle
<1>3. CASE I # {}
  <2>1. PICK j \in DOMAIN slots : slots[j].digest.gift = g
    BY <1>3
  <2>2. I = {j}
    BY <2>1 DEF Unspent
  <2>3. Cardinality(I) = 1
    BY <2>2, FS_Singleton
  <2>4. outcome'[g] = Outcome(slots[j])
    <3>1. (CHOOSE i \in DOMAIN slots : slots[i].digest.gift = g) = j
      BY <2>1 DEF Unspent
    <3> QED BY <2>1, <3>1 DEF Settle
  <2> QED BY <1>1, <2>1, <2>3, <2>4 DEF Settle, Unspent
<1> QED BY <1>2, <1>3

(* What the circuit proves of a slot, with a leaf that is held or was held *)
(* recently, is the authority to settle the gift.                          *)
LEMMA ProvenIsAuthorized ==
    ASSUME IInv, NEW mode \in {"mint", "exit"}, NEW slot \in Slots(mode, Leaf \cup {None}),
           NEW currentBlock \in 0..block, NEW provingTimestamp \in ProvingTimes,
           Proves(slot, currentBlock, provingTimestamp),
           slot.leaf # None => \/ slot.leaf \in live
                               \/ mode = "mint" /\ RecentlyLive(slot.leaf)
    PROVE  WithAuthority(slot.digest.gift, Outcome(slot))
<1> DEFINE g == slot.digest.gift
           s == Outcome(slot)
<1>1. slot.leaf \in Leaf \cup {None} /\ slot.digest \in Signable
        /\ slot.digest.mode = mode /\ g \in Gift
  BY SlotTypes
<1>2. /\ gifts[g] # None
      /\ gifts[g].refundAfter \in Nat
      /\ block \in Nat
  BY <1>1, TermsAssumption DEF IInv, TypeOK, Proves
<1>3. /\ s.leaf = slot.leaf /\ s.digest = slot.digest /\ s.block = block
      /\ s.age = Age(slot.leaf) /\ s.wanted = Wanted(slot) /\ s.stolen = Stolen(slot)
  BY DEF Outcome
<1>4. CASE slot.leaf = None
  BY <1>1, <1>3, <1>4 DEF Proves, SecretBranch, WithAuthority, Owners
<1>5. CASE slot.leaf # None
  <2>1. slot.leaf \in Leaf
    BY <1>1, <1>5
  <2>2. \/ ClaimBranch(slot.leaf, slot.digest)
        \/ RefundBranch(slot.leaf, slot.digest, currentBlock)
    BY <1>5 DEF Proves
  <2>3. AccountOf(slot.leaf) \in Owners(g, s)
    <3>1. currentBlock \in Nat /\ currentBlock <= block
      BY <1>2
    <3> QED BY <1>2, <1>3, <2>2, <3>1 DEF ClaimBranch, RefundBranch, DeadlinePassed, Owners
  <2>4. slot.digest.mode = "mint" => slot.digest.to \in Owners(g, s)
    BY <2>2, <2>3 DEF ClaimBranch, RefundBranch, MintsTo
  <2>5. s.wanted \/ s.stolen
    <3>1. CASE IsKeyLeaf(slot.leaf)
      BY <1>1, <1>3, <1>5, <2>1, <2>2, <3>1, LeafTypes
         DEF ClaimBranch, RefundBranch, SignedFor, IInv, SignedAsAgreed, Wanted, Stolen
    <3>2. CASE ~IsKeyLeaf(slot.leaf)
      <4>1. slot.leaf.digest = slot.digest
        BY <2>2, <3>2 DEF ClaimBranch, RefundBranch
      <4>2. slot.leaf \in live \/ removed[slot.leaf] # 0
        BY <1>5 DEF RecentlyLive
      <4> QED BY <1>3, <2>1, <3>2, <4>1, <4>2, LeafTypes DEF IInv, ApprovedAsAgreed, Wanted
    <3> QED BY <3>1, <3>2
  <2>6. s.age <= IF slot.digest.mode = "mint" THEN MaxStaleness ELSE 0
    BY <1>1, <1>3, <1>5, TimesAssumption DEF Age, RecentlyLive
  <2>7. slot.leaf.expiry # 0 => s.block <= slot.leaf.expiry + MaxProofAge
    <3>1. provingTimestamp \in Nat /\ block - provingTimestamp <= MaxProofAge
      BY <1>2 DEF ProvingTimes
    <3>2. slot.leaf.expiry = 0 \/ slot.leaf.expiry >= provingTimestamp
      BY <1>5 DEF Proves, Unexpired
    <3> QED BY <1>2, <1>3, <2>1, <3>1, <3>2, LeafTypes, TimesAssumption
  <2> QED BY <1>3, <1>5, <2>3, <2>4, <2>5, <2>6, <2>7 DEF WithAuthority
<1> QED BY <1>4, <1>5

(* A payout that meets its floor pays the gift, but for the fee.           *)
LEMMA PayoutIsExact ==
    ASSUME IInv, NEW slot \in Slots("exit", Leaf \cup {None}),
           ConservesValue(slot.digest), gifts[slot.digest.gift] # None,
           QuoteMet(slot.digest),
           NEW net, net = slot.digest.amount - Fee(slot.digest.amount),
           NEW fee, fee = IF treasurySet THEN Fee(slot.digest.amount) ELSE 0
    PROVE  /\ net \in Nat /\ fee \in Nat
           /\ net >= slot.digest.minNetAmount
           /\ net + fee = gifts[slot.digest.gift].amount
<1>1. slot.digest.mode = "exit" /\ slot.digest.gift \in Gift
  BY SlotTypes
<1>2. slot.digest.amount = gifts[slot.digest.gift].amount /\ slot.digest.amount \in Nat
  BY <1>1, TermsAssumption DEF ConservesValue, IInv, TypeOK
<1>3. Fee(slot.digest.amount) \in 0..slot.digest.amount
  BY <1>2, FeeBound DEF IInv
<1>4. ~treasurySet => Fee(slot.digest.amount) = 0
  <2>1. ~treasurySet => withdrawFeeBps = 0
    BY FeesAssumption DEF IInv, TypeOK
  <2>2. slot.digest.amount * 0 = 0 /\ 0 \div BasisPoints = 0
    BY <1>2, FeesAssumption
  <2> QED BY <2>1, <2>2 DEF Fee
<1> QED BY <1>2, <1>3, <1>4 DEF QuoteMet

-----------------------------------------------------------------------------
(* The invariant.                                                          *)

LEMMA InitInvariant == Init => IInv
<1> SUFFICES ASSUME Init PROVE IInv
  OBVIOUS
<1>1. TypeOK
  <2>1. /\ gifts \in [Gift -> Terms \cup {None}]
        /\ removed \in [Leaf -> Nat]
        /\ settlements \in [Gift -> Nat]
        /\ paidOut \in [Gift -> [net : Nat, fee : Nat]]
    BY DEF Init
  <2>2. treasurySet \in BOOLEAN
    BY Zenon DEF Init
  <2>4. withdrawFeeBps > 0 => treasurySet
    <3>1. ~(withdrawFeeBps > 0)
      BY DEF Init
    <3> QED BY <3>1
  <2>3. /\ nullifierSpent \subseteq Gift /\ live \subseteq Leaf
        /\ signed \subseteq Key \X Signable /\ leaked \subseteq Key
        /\ agreed \subseteq Account \X Signable
        /\ withdrawFeeBps \in FeeRates \cup {0} /\ block \in Nat
    BY DEF Init
  <2> QED BY <2>1, <2>2, <2>3, <2>4, Zenon DEF TypeOK
<1>2. SettlementsMatchNullifiers /\ SettledWithAuthority /\ PaidExactly
  BY DEF Init, SettlementsMatchNullifiers, SettledWithAuthority, PaidExactly
<1>3. SignedAsAgreed /\ ApprovedAsAgreed
  BY DEF Init, SignedAsAgreed, ApprovedAsAgreed
<1> QED BY <1>1, <1>2, <1>3 DEF IInv

(* Batches of mints.                                                       *)
LEMMA SubmitKeeps ==
    ASSUME IInv, NEW k \in 1..MaxBatch, NEW slots \in [1..k -> Slots("mint", Leaf)],
           NEW currentBlock \in 0..block, NEW provingTimestamp \in ProvingTimes,
           SubmitGiftClaimEpoch(slots, currentBlock, provingTimestamp)
    PROVE  IInv'
<1>1. UNCHANGED <<gifts, live, removed, signed, leaked, agreed, withdrawFeeBps,
                  treasurySet, block, paidOut>>
  BY DEF SubmitGiftClaimEpoch, registryVars, signingVars, configVars
<1>2. \A i \in DOMAIN slots :
        /\ slots[i].digest.gift \in Gift
        /\ gifts[slots[i].digest.gift] # None
        /\ slots[i].digest.mode = "mint"
        /\ WithAuthority(slots[i].digest.gift, Outcome(slots[i]))
  <2> SUFFICES ASSUME NEW i \in DOMAIN slots
               PROVE  /\ slots[i].digest.gift \in Gift
                      /\ gifts[slots[i].digest.gift] # None
                      /\ slots[i].digest.mode = "mint"
                      /\ WithAuthority(slots[i].digest.gift, Outcome(slots[i]))
    OBVIOUS
  <2>1. slots[i] \in Slots("mint", Leaf) /\ slots[i] \in Slots("mint", Leaf \cup {None})
    BY DEF Slots
  <2>2. Proves(slots[i], currentBlock, provingTimestamp) /\ RecentlyLive(slots[i].leaf)
    BY DEF SubmitGiftClaimEpoch
  <2>3. WithAuthority(slots[i].digest.gift, Outcome(slots[i]))
    BY <2>1, <2>2, ProvenIsAuthorized
  <2> QED BY <2>1, <2>2, <2>3, SlotTypes DEF Proves
<1>3. ASSUME NEW g \in Gift
      PROVE  \/ /\ g \notin nullifierSpent /\ g \in nullifierSpent'
                /\ settlements'[g] = settlements[g] + 1
                /\ \E i \in DOMAIN slots :
                      slots[i].digest.gift = g /\ outcome'[g] = Outcome(slots[i])
             \/ /\ \A i \in DOMAIN slots : slots[i].digest.gift # g
                /\ g \in nullifierSpent' <=> g \in nullifierSpent
                /\ settlements'[g] = settlements[g]
                /\ outcome'[g] = outcome[g]
  BY SettleMarks DEF SubmitGiftClaimEpoch, IInv, TypeOK
<1>4. TypeOK'
  <2>1. nullifierSpent' \subseteq Gift
    BY <1>2 DEF SubmitGiftClaimEpoch, Settle, IInv, TypeOK
  <2>2. settlements' \in [Gift -> Nat]
    <3>1. settlements' = [g \in Gift |-> settlements'[g]]
      BY Zenon DEF SubmitGiftClaimEpoch, Settle
    <3>2. ASSUME NEW g \in Gift PROVE settlements'[g] \in Nat
      <4>1. settlements[g] \in Nat
        BY DEF IInv, TypeOK
      <4>2. settlements'[g] = settlements[g] + 1 \/ settlements'[g] = settlements[g]
        BY <1>3
      <4> QED BY <4>1, <4>2
    <3> QED BY <3>1, <3>2
  <2> QED BY <1>1, <2>1, <2>2 DEF IInv, TypeOK
<1>5. SettlementsMatchNullifiers'
  BY <1>1, <1>2, <1>3 DEF IInv, SettlementsMatchNullifiers
<1>6. SignedAsAgreed' /\ ApprovedAsAgreed'
  BY <1>1 DEF IInv, SignedAsAgreed, ApprovedAsAgreed
<1>7. SettledWithAuthority'
  <2> SUFFICES ASSUME NEW g \in nullifierSpent' PROVE WithAuthority(g, outcome[g])'
    BY DEF SettledWithAuthority
  <2>1. g \in Gift
    BY <1>4 DEF TypeOK
  <2>2. CASE outcome'[g] = outcome[g] /\ g \in nullifierSpent
    <3>1. WithAuthority(g, outcome[g])
      BY <2>2 DEF IInv, SettledWithAuthority
    <3> QED BY <1>1, <2>2, <3>1 DEF WithAuthority, Owners
  <2>3. CASE \E i \in DOMAIN slots : slots[i].digest.gift = g /\ outcome'[g] = Outcome(slots[i])
    <3>1. PICK i \in DOMAIN slots : slots[i].digest.gift = g /\ outcome'[g] = Outcome(slots[i])
      BY <2>3
    <3>2. WithAuthority(g, Outcome(slots[i]))
      BY <1>2, <3>1
    <3> QED BY <1>1, <3>1, <3>2 DEF WithAuthority, Owners
  <2> QED BY <1>3, <2>1, <2>2, <2>3
<1>8. PaidExactly'
  <2> SUFFICES ASSUME NEW g \in Gift
               PROVE  IF g \in nullifierSpent' /\ outcome'[g].digest.mode = "exit"
                      THEN /\ paidOut'[g].net >= outcome'[g].digest.minNetAmount
                           /\ paidOut'[g].net + paidOut'[g].fee = gifts'[g].amount
                      ELSE paidOut'[g] = [net |-> 0, fee |-> 0]
    BY DEF PaidExactly
  <2>1. CASE g \notin nullifierSpent /\ g \in nullifierSpent'
    <3>1. PICK i \in DOMAIN slots : outcome'[g] = Outcome(slots[i])
      BY <1>3, <2>1
    <3>2. outcome'[g].digest = slots[i].digest
      BY <3>1 DEF Outcome
    <3>3. outcome'[g].digest.mode = "mint"
      BY <1>2, <3>2
    <3>4. paidOut[g] = [net |-> 0, fee |-> 0]
      BY <2>1 DEF IInv, PaidExactly
    <3> QED BY <1>1, <3>3, <3>4
  <2>2. CASE outcome'[g] = outcome[g] /\ (g \in nullifierSpent' <=> g \in nullifierSpent)
    BY <1>1, <2>2 DEF IInv, PaidExactly
  <2> QED BY <1>3, <2>1, <2>2
<1> QED BY <1>4, <1>5, <1>6, <1>7, <1>8 DEF IInv

(* Payouts.                                                                *)
LEMMA ExitKeeps ==
    ASSUME IInv, NEW slot \in Slots("exit", Leaf \cup {None}),
           NEW currentBlock \in 0..block, NEW provingTimestamp \in ProvingTimes,
           PublicGiftExit(slot, currentBlock, provingTimestamp)
    PROVE  IInv'
<1> DEFINE e == slot.digest.gift
           net == slot.digest.amount - Fee(slot.digest.amount)
           fee == IF treasurySet THEN Fee(slot.digest.amount) ELSE 0
           slots == <<slot>>
<1>1. /\ UNCHANGED <<gifts, live, removed, signed, leaked, agreed, withdrawFeeBps,
                     treasurySet, block>>
      /\ paidOut' = [paidOut EXCEPT ![e] = [net |-> @.net + net, fee |-> @.fee + fee]]
      /\ Proves(slot, currentBlock, provingTimestamp)
      /\ QuoteMet(slot.digest)
      /\ Unspent(slots) /\ Settle(slots)
      /\ slot.leaf # None => slot.leaf \in live
  BY DEF PublicGiftExit, HeldByRegistry, registryVars, signingVars, configVars
<1>2. e \in Gift /\ gifts[e] # None /\ slot.digest.mode = "exit"
  BY <1>1, SlotTypes DEF Proves
<1>3. WithAuthority(e, Outcome(slot))
  BY <1>1, ProvenIsAuthorized
<1>4. /\ net \in Nat /\ fee \in Nat
      /\ net >= slot.digest.minNetAmount
      /\ net + fee = gifts[e].amount
  BY <1>1, <1>2, PayoutIsExact DEF Proves
<1> HIDE DEF net, fee
<1>5. ASSUME NEW g \in Gift
      PROVE  \/ /\ g = e /\ g \notin nullifierSpent /\ g \in nullifierSpent'
                /\ settlements'[g] = settlements[g] + 1
                /\ outcome'[g] = Outcome(slot)
             \/ /\ g # e
                /\ g \in nullifierSpent' <=> g \in nullifierSpent
                /\ settlements'[g] = settlements[g]
                /\ outcome'[g] = outcome[g]
  <2>1. DOMAIN slots = {1} /\ slots[1] = slot
    OBVIOUS
  <2> HIDE DEF slots
  <2>2. settlements \in [Gift -> Nat]
    BY DEF IInv, TypeOK
  <2> QED BY <1>1, <2>1, <2>2, SettleMarks
<1>6. paidOut[e] = [net |-> 0, fee |-> 0]
  BY <1>2, <1>5 DEF IInv, SettlementsMatchNullifiers, PaidExactly
<1>7. paidOut'[e] = [net |-> net, fee |-> fee]
  BY <1>1, <1>2, <1>4, <1>6 DEF IInv, TypeOK
<1>8. TypeOK'
  <2>1. nullifierSpent' \subseteq Gift
    BY <1>1, <1>2 DEF Settle, IInv, TypeOK
  <2>2. settlements' \in [Gift -> Nat]
    BY SMTT(30), <1>1, <1>5 DEF Settle, IInv, TypeOK
  <2>3. paidOut' \in [Gift -> [net : Nat, fee : Nat]]
    BY <1>1, <1>4, <1>7 DEF IInv, TypeOK
  <2> QED BY <1>1, <2>1, <2>2, <2>3 DEF IInv, TypeOK
<1>9. SettlementsMatchNullifiers'
  BY <1>1, <1>2, <1>5 DEF IInv, SettlementsMatchNullifiers
<1>10. SignedAsAgreed' /\ ApprovedAsAgreed'
  BY <1>1 DEF IInv, SignedAsAgreed, ApprovedAsAgreed
<1>11. SettledWithAuthority'
  <2> SUFFICES ASSUME NEW g \in nullifierSpent' PROVE WithAuthority(g, outcome[g])'
    BY DEF SettledWithAuthority
  <2>1. g \in Gift
    BY <1>8 DEF TypeOK
  <2>2. CASE outcome'[g] = outcome[g] /\ g \in nullifierSpent
    <3>1. WithAuthority(g, outcome[g])
      BY SMTT(30), <2>2 DEF IInv, SettledWithAuthority
    <3> QED BY <1>1, <2>2, <3>1 DEF WithAuthority, Owners
  <2>3. CASE outcome'[g] = Outcome(slot) /\ g = e
    BY <1>1, <1>3, <2>3 DEF WithAuthority, Owners
  <2> QED BY <1>5, <2>1, <2>2, <2>3
<1>12. PaidExactly'
  <2> SUFFICES ASSUME NEW g \in Gift
               PROVE  IF g \in nullifierSpent' /\ outcome'[g].digest.mode = "exit"
                      THEN /\ paidOut'[g].net >= outcome'[g].digest.minNetAmount
                           /\ paidOut'[g].net + paidOut'[g].fee = gifts'[g].amount
                      ELSE paidOut'[g] = [net |-> 0, fee |-> 0]
    BY DEF PaidExactly
  <2>1. CASE g = e
    <3>1. outcome'[e].digest = slot.digest
      BY <1>5, <2>1 DEF Outcome
    <3>2. e \in nullifierSpent'
      BY <1>5, <2>1
    <3> QED BY <1>1, <1>2, <1>4, <1>7, <2>1, <3>1, <3>2
  <2>2. CASE g # e
    BY <1>1, <1>5, <2>2 DEF IInv, PaidExactly, TypeOK
  <2> QED BY <2>1, <2>2
<1> QED BY <1>8, <1>9, <1>10, <1>11, <1>12 DEF IInv

(* A gift that is funded was not settled.                                  *)
LEMMA FundKeeps ==
    ASSUME IInv, NEW f \in Gift, NEW terms \in Terms, Fund(f, terms)
    PROVE  IInv'
<1>1. /\ gifts[f] = None /\ gifts' = [gifts EXCEPT ![f] = terms]
      /\ UNCHANGED <<nullifierSpent, live, removed, signed, leaked, agreed,
                     withdrawFeeBps, treasurySet, block, paidOut, settlements, outcome>>
  BY DEF Fund, registryVars, signingVars, configVars, settlementVars
<1>2. f \notin nullifierSpent
  BY <1>1 DEF IInv, SettlementsMatchNullifiers
<1>3. TypeOK' /\ SignedAsAgreed' /\ ApprovedAsAgreed'
  BY <1>1 DEF IInv, TypeOK, SignedAsAgreed, ApprovedAsAgreed
<1>4. \A g \in nullifierSpent : g \in Gift /\ gifts'[g] = gifts[g]
  BY <1>1, <1>2 DEF IInv, TypeOK
<1>5. SettlementsMatchNullifiers'
  BY <1>1, <1>4 DEF IInv, SettlementsMatchNullifiers
<1>6. SettledWithAuthority'
  BY <1>1, <1>4 DEF IInv, SettledWithAuthority, WithAuthority, Owners
<1>7. PaidExactly'
  BY <1>1, <1>4 DEF IInv, PaidExactly
<1> QED BY <1>3, <1>5, <1>6, <1>7 DEF IInv

(* Steps that leave the gifts and their settlement alone.                  *)
LEMMA SettlementsStay ==
    ASSUME IInv, UNCHANGED <<gifts, nullifierSpent, paidOut, settlements, outcome>>
    PROVE  SettlementsMatchNullifiers' /\ SettledWithAuthority' /\ PaidExactly'
<1>1. SettlementsMatchNullifiers' /\ PaidExactly'
  BY DEF IInv, SettlementsMatchNullifiers, PaidExactly
<1>2. SettledWithAuthority'
  BY DEF IInv, SettledWithAuthority, WithAuthority, Owners
<1> QED BY <1>1, <1>2

(* Registering or removing a leaf settles nothing; only the block of the
   removal is new. *)
LEMMA RegistryKeeps ==
    ASSUME IInv, NEW leaf \in Leaf, AddLeaf(leaf) \/ RemoveLeaf(leaf)
    PROVE  IInv'
<1>1. UNCHANGED <<gifts, nullifierSpent, paidOut, settlements, outcome, signed, leaked,
                  withdrawFeeBps, treasurySet, block>>
  BY DEF AddLeaf, RemoveLeaf, signingVars, configVars, settlementVars
<1>2. SettlementsMatchNullifiers' /\ SettledWithAuthority' /\ PaidExactly'
  BY <1>1, SettlementsStay
<1>3. CASE AddLeaf(leaf)
  <2>1. /\ removed' = removed /\ live' = live \cup {leaf}
        /\ \/ IsKeyLeaf(leaf) /\ agreed' = agreed
           \/ ~IsKeyLeaf(leaf) /\ agreed' = agreed \cup {<<leaf.account, leaf.digest>>}
    <3>1. CASE IsKeyLeaf(leaf)
      BY <1>3, <3>1 DEF AddLeaf
    <3>2. CASE ~IsKeyLeaf(leaf)
      BY <1>3, <3>2 DEF AddLeaf
    <3> QED BY <3>1, <3>2
  <2>2. ~IsKeyLeaf(leaf) => leaf.account \in Account /\ leaf.digest \in Signable
    BY ApproversAssumption DEF Leaf, IsKeyLeaf, ApprovalLeaf
  <2>3. TypeOK'
    <3>1. live' \subseteq Leaf /\ removed' \in [Leaf -> Nat] /\ agreed' \subseteq Account \X Signable
      BY <2>1, <2>2 DEF IInv, TypeOK
    <3> QED BY <1>1, <3>1 DEF IInv, TypeOK
  <2>4. SignedAsAgreed' /\ ApprovedAsAgreed'
    BY <1>1, <2>1 DEF IInv, SignedAsAgreed, ApprovedAsAgreed
  <2> QED BY <1>2, <2>3, <2>4 DEF IInv
<1>4. CASE RemoveLeaf(leaf)
  <2>1. /\ agreed' = agreed /\ leaf \in live /\ live' = live \ {leaf}
        /\ removed' = [removed EXCEPT ![leaf] = block]
    BY <1>4 DEF RemoveLeaf, signingVars
  <2>2. TypeOK'
    <3>1. live' \subseteq Leaf /\ removed' \in [Leaf -> Nat]
      BY <2>1 DEF IInv, TypeOK
    <3> QED BY <1>1, <2>1, <3>1 DEF IInv, TypeOK
  <2>3. SignedAsAgreed'
    BY <1>1, <2>1 DEF IInv, SignedAsAgreed
  <2>4. ApprovedAsAgreed'
    BY <2>1 DEF IInv, TypeOK, ApprovedAsAgreed
  <2> QED BY <1>2, <2>2, <2>3, <2>4 DEF IInv
<1> QED BY <1>3, <1>4

(* Signatures come from their owners, or from keys that leaked before. *)
LEMMA SigningKeeps ==
    ASSUME IInv, NEW key \in Key,
           Leak(key) \/ \E digest \in Signable : Sign(key, digest) \/ Forge(key, digest)
    PROVE  IInv'
<1>1. UNCHANGED <<gifts, nullifierSpent, paidOut, settlements, outcome, live, removed,
                  withdrawFeeBps, treasurySet, block>>
  BY DEF Leak, Sign, Forge, registryVars, configVars, settlementVars
<1>2. SettlementsMatchNullifiers' /\ SettledWithAuthority' /\ PaidExactly'
  BY <1>1, SettlementsStay
<1>3. Holder[key] \in Account
  BY HolderAssumption
<1>4. CASE Leak(key)
  <2>1. signed' = signed /\ agreed' = agreed /\ leaked' = leaked \cup {key}
    BY <1>4 DEF Leak
  <2>2. TypeOK'
    BY <1>1, <2>1 DEF IInv, TypeOK
  <2>3. SignedAsAgreed' /\ ApprovedAsAgreed'
    BY <1>1, <2>1 DEF IInv, SignedAsAgreed, ApprovedAsAgreed
  <2> QED BY <1>2, <2>2, <2>3 DEF IInv
<1>5. ASSUME NEW digest \in Signable, Sign(key, digest) PROVE IInv'
  <2>1. /\ signed' = signed \cup {<<key, digest>>} /\ leaked' = leaked
        /\ agreed' = agreed \cup {<<Holder[key], digest>>}
    BY <1>5 DEF Sign
  <2>2. TypeOK'
    <3>1. signed' \subseteq Key \X Signable /\ agreed' \subseteq Account \X Signable
      BY <1>3, <2>1 DEF IInv, TypeOK
    <3> QED BY <1>1, <2>1, <3>1 DEF IInv, TypeOK
  <2>3. SignedAsAgreed' /\ ApprovedAsAgreed'
    BY <1>1, <2>1 DEF IInv, SignedAsAgreed, ApprovedAsAgreed
  <2> QED BY <1>2, <2>2, <2>3 DEF IInv
<1>6. ASSUME NEW digest \in Signable, Forge(key, digest) PROVE IInv'
  <2>1. /\ signed' = signed \cup {<<key, digest>>} /\ leaked' = leaked /\ agreed' = agreed
        /\ key \in leaked
    BY <1>6 DEF Forge
  <2>2. TypeOK'
    <3>1. signed' \subseteq Key \X Signable
      BY <2>1 DEF IInv, TypeOK
    <3> QED BY <1>1, <2>1, <3>1 DEF IInv, TypeOK
  <2>3. SignedAsAgreed' /\ ApprovedAsAgreed'
    BY <1>1, <2>1 DEF IInv, SignedAsAgreed, ApprovedAsAgreed
  <2> QED BY <1>2, <2>2, <2>3 DEF IInv
<1> QED BY <1>4, <1>5, <1>6

(* Fees and treasury, and time.                                            *)
LEMMA ConfigureKeeps ==
    ASSUME IInv, Configure \/ NextBlock
    PROVE  IInv'
<1>1. UNCHANGED <<gifts, nullifierSpent, paidOut, settlements, outcome, live, removed,
                  signed, leaked, agreed>>
  BY DEF Configure, SetFees, SetTreasury, NextBlock, registryVars, signingVars, settlementVars
<1>2. SettlementsMatchNullifiers' /\ SettledWithAuthority' /\ PaidExactly'
  BY <1>1, SettlementsStay
<1>3. SignedAsAgreed' /\ ApprovedAsAgreed'
  BY <1>1 DEF IInv, SignedAsAgreed, ApprovedAsAgreed
<1>4. /\ withdrawFeeBps' \in FeeRates \cup {0}
      /\ treasurySet' \in BOOLEAN
      /\ withdrawFeeBps' > 0 => treasurySet'
      /\ block' \in Nat
  <2>1. CASE \E bps \in FeeRates : SetFees(bps)
    BY <2>1 DEF SetFees, FeeHasReceiver, IInv, TypeOK
  <2>2. CASE \E isSet \in Treasuries : SetTreasury(isSet)
    <3>1. PICK isSet \in Treasuries : SetTreasury(isSet)
      BY <2>2
    <3>2. isSet \in BOOLEAN
      BY FeesAssumption
    <3>3. ~isSet => ~(withdrawFeeBps > 0)
      BY <3>1 DEF SetTreasury
    <3>4. withdrawFeeBps' = withdrawFeeBps /\ block' = block /\ treasurySet' = isSet
      BY <3>1, Zenon DEF SetTreasury
    <3>5. withdrawFeeBps \in FeeRates \cup {0} /\ block \in Nat
      BY DEF IInv, TypeOK
    <3> QED BY <3>2, <3>3, <3>4, <3>5, Zenon
  <2>3. CASE NextBlock
    BY <2>3 DEF NextBlock, configVars, IInv, TypeOK
  <2> QED BY <2>1, <2>2, <2>3 DEF Configure
<1>5. TypeOK'
  <2>1. /\ gifts' \in [Gift -> Terms \cup {None}]
        /\ nullifierSpent' \subseteq Gift
        /\ live' \subseteq Leaf
        /\ removed' \in [Leaf -> Nat]
        /\ signed' \subseteq Key \X Signable
        /\ leaked' \subseteq Key
        /\ agreed' \subseteq Account \X Signable
        /\ settlements' \in [Gift -> Nat]
        /\ paidOut' \in [Gift -> [net : Nat, fee : Nat]]
    BY <1>1 DEF IInv, TypeOK
  <2> QED BY <1>4, <2>1, Zenon DEF TypeOK
<1> QED BY <1>2, <1>3, <1>5 DEF IInv

(* A step of nothing keeps the invariant. *)
LEMMA StutterKeeps == IInv /\ UNCHANGED vars => IInv'
<1> SUFFICES ASSUME IInv, UNCHANGED vars PROVE IInv'
  OBVIOUS
<1>1. UNCHANGED <<gifts, nullifierSpent, paidOut, settlements, outcome, live, removed,
                  signed, leaked, agreed, withdrawFeeBps, treasurySet, block>>
  BY DEF vars, registryVars, signingVars, configVars, settlementVars
<1>2. SettlementsMatchNullifiers' /\ SettledWithAuthority' /\ PaidExactly'
  BY <1>1, SettlementsStay
<1>3. TypeOK' /\ SignedAsAgreed' /\ ApprovedAsAgreed'
  BY <1>1 DEF IInv, TypeOK, SignedAsAgreed, ApprovedAsAgreed
<1> QED BY <1>2, <1>3 DEF IInv

(* The inductive invariant of gifts: what the four theorems below are
   read off from. *)
THEOREM Invariance == Spec => []IInv
<1>1. ASSUME IInv, Next PROVE IInv'
  <2>1. CASE SettleOne
    BY <1>1, <2>1, SubmitKeeps, ExitKeeps DEF SettleOne
  <2>2. CASE Configure \/ NextBlock
    BY <1>1, <2>2, ConfigureKeeps
  <2>3. CASE \E g \in Gift, terms \in Terms : Fund(g, terms)
    BY <1>1, <2>3, FundKeeps
  <2>4. CASE \E leaf \in Leaf : AddLeaf(leaf) \/ RemoveLeaf(leaf)
    BY <1>1, <2>4, RegistryKeeps
  <2>5. CASE \E key \in Key :
                Leak(key) \/ \E digest \in Signable : Sign(key, digest) \/ Forge(key, digest)
    BY <1>1, <2>5, SigningKeeps
  <2> QED BY <1>1, <2>1, <2>2, <2>3, <2>4, <2>5 DEF Next, Others
<1>2. IInv /\ [Next]_vars => IInv'
  BY <1>1, StutterKeeps
<1> QED BY InitInvariant, <1>2, PTL DEF Spec

-----------------------------------------------------------------------------
(* The properties.                                                         *)

(* Fees have a receiver, and the state its types (PrivacyBoost).           *)
THEOREM TypesKept == Spec => []TypeOK
BY Invariance, PTL DEF IInv

(* A gift is settled at most once, however claims, refunds and payouts     *)
(* race (the nullifiers of submitGiftClaimEpoch and publicGiftExit).       *)
THEOREM GiftsSettledOnce == Spec => []SettledOnce
<1>1. IInv => SettledOnce
  BY DEF IInv, SettlementsMatchNullifiers, SettledOnce
<1> QED BY Invariance, <1>1, PTL

(* Only its recipient, or its sender from the deadline on, settles a gift, *)
(* with a key or an approval that was theirs recently, or now for payouts. *)
THEOREM GiftsSettledWithAuthority == Spec => []SettledWithAuthority
BY Invariance, PTL DEF IInv

(* A payout pays exactly the gift, at the floor that was signed or above.  *)
THEOREM GiftsPaidExactly == Spec => []PaidExactly
BY Invariance, PTL DEF IInv

-----------------------------------------------------------------------------
(* The sponge.                                                             *)

IsState(s) == s = [k \in Lane |-> s[k]]

SpongeTypeOK ==
    /\ circuitInput \in Seq(Element) /\ inputs \in Seq(Element)
    /\ absorbed \in Nat
    /\ IsState(circuit)
    /\ IsState(state)
    /\ cache \in Seq(Element)
    /\ squeezeMode \in BOOLEAN

(* What the native sponge has in its cache once n elements are absorbed.    *)
Filled(n) == IF n = 0 THEN 0 ELSE ((n - 1) % Rate) + 1

(* The last block that was looked at is whole, or the input is over.       *)
BlockEnds == absorbed > 0 /\ (absorbed % Rate = 0 \/ absorbed = Len(circuitInput))

(* While the same list is absorbed, the circuit is ahead by the cache, and *)
(* by a permutation where a block has just ended.                          *)
AheadByCache ==
    circuitInput = inputs =>
        IF squeezeMode THEN circuit[0] = state[0]
        ELSE /\ absorbed <= Len(inputs)
             /\ Len(cache) = Filled(absorbed)
             /\ circuit = IF BlockEnds THEN Permute(Added(state, cache))
                          ELSE Added(state, cache)

NothingYet == absorbed = 0 /\ ~squeezeMode => state = newSponge(Len(inputs)) /\ cache = <<>>

SpongeInv == SpongeTypeOK /\ AheadByCache /\ NothingYet

-----------------------------------------------------------------------------
(* What lies in the rate is a lane. *)
LEMMA InLane == ASSUME NEW n \in Nat, n < Rate PROVE n \in Lane
  BY DEF Lane, Rate

(* The place in its block of the n-th element, and of the one after it.    *)
LEMMA Places ==
    ASSUME NEW n \in Nat
    PROVE  /\ Filled(n) = Rate => n % Rate = 0
           /\ Filled(n) # Rate => n % Rate = Filled(n) /\ Filled(n) < Rate
           /\ Filled(n) = Rate <=> n > 0 /\ n % Rate = 0
           /\ Filled(n + 1) = (n % Rate) + 1
           /\ (n + 1) % Rate = 0 <=> n % Rate = Rate - 1
  BY DEF Filled, Rate

(* What is absorbed is added to its own lane, once.                        *)
LEMMA AddedAppend ==
    ASSUME NEW s, IsState(s), NEW c \in Seq(Element), NEW e \in Element, Len(c) < Rate
    PROVE  Added(s, Append(c, e)) = [Added(s, c) EXCEPT ![Len(c)] = Plus(@, e)]
<1>0. Len(c) \in Nat /\ Len(Append(c, e)) = Len(c) + 1
  OBVIOUS
<1>1. Len(c) \in Lane /\ Len(Append(c, e)) = Len(c) + 1 /\ Len(c) \in Nat
  BY <1>0, InLane
<1> DEFINE l == Added(s, Append(c, e))
           r == [Added(s, c) EXCEPT ![Len(c)] = Plus(@, e)]
<1>2. ASSUME NEW k \in Lane PROVE l[k] = r[k]
  <2>1. CASE k < Len(c)
    <3>1. Append(c, e)[k + 1] = c[k + 1]
      BY <2>1, <1>1 DEF Lane, Rate
    <3> QED BY <2>1, <3>1, <1>1 DEF Added, Lane, Rate
  <2>2. CASE k = Len(c)
    <3>1. Append(c, e)[k + 1] = e
      BY <2>2, <1>1
    <3>2. l[k] = Plus(s[k], e)
      BY <2>2, <3>1, <1>1 DEF Added, Lane, Rate
    <3>3. Added(s, c)[k] = s[k]
      BY <2>2 DEF Added, Lane, Rate
    <3>4. r[k] = Plus(s[k], e)
      BY <2>2, <3>3, <1>1 DEF Added
    <3> QED BY <3>2, <3>4
  <2>3. CASE k > Len(c)
    BY <2>3, <1>1 DEF Added, Lane, Rate
  <2> QED BY <2>1, <2>2, <2>3, <1>1 DEF Lane, Rate
<1>3. l = [k \in Lane |-> l[k]] /\ r = [k \in Lane |-> r[k]]
  BY DEF Added
<1> QED BY <1>2, <1>3

(* An empty cache adds nothing to the state. *)
LEMMA AddedNothing ==
    ASSUME NEW s, IsState(s)
    PROVE  Added(s, <<>>) = s
<1>1. Added(s, <<>>) = [k \in Lane |-> s[k]]
  BY DEF Added, Lane, Rate
<1> QED BY <1>1 DEF IsState

(* A cache of one element adds it to the first lane. *)
LEMMA AddedOne ==
    ASSUME NEW s, IsState(s), NEW e \in Element
    PROVE  Added(s, <<e>>) = [s EXCEPT ![0] = Plus(@, e)]
<1>1. \A c \in Seq(Element) : Len(c) < Rate =>
            Added(s, Append(c, e)) = [Added(s, c) EXCEPT ![Len(c)] = Plus(@, e)]
  BY AddedAppend
<1>2. <<>> \in Seq(Element) /\ Len(<<>>) < Rate
  BY DEF Rate
<1>3. Added(s, Append(<<>>, e)) = [Added(s, <<>>) EXCEPT ![Len(<<>>)] = Plus(@, e)]
  BY <1>1, <1>2, Zenon
<1>4. Append(<<>>, e) = <<e>> /\ Len(<<>>) = 0
  OBVIOUS
<1> QED BY <1>3, <1>4, AddedNothing

-----------------------------------------------------------------------------
(* New sponges are equal, and nothing is cached. *)
LEMMA SpongeInvInit == SpongeInit => SpongeInv
<1> SUFFICES ASSUME SpongeInit PROVE SpongeInv
  OBVIOUS
<1>1. circuitInput \in Seq(Element) /\ inputs \in Seq(Element)
  BY LengthAssumption DEF SpongeInit, Lists
<1>2. IsState(circuit) /\ IsState(state)
  BY DEF SpongeInit, InitialLanes, newSponge, IsState
<1>5. SpongeTypeOK
  <2>1. absorbed \in Nat /\ cache \in Seq(Element) /\ squeezeMode \in BOOLEAN
    <3>1. absorbed = 0 /\ cache = <<>> /\ squeezeMode = FALSE
      BY DEF SpongeInit
    <3>2. 0 \in Nat /\ <<>> \in Seq(Element)
      OBVIOUS
    <3> QED BY <3>1, <3>2, Zenon
  <2> QED BY <1>1, <1>2, <2>1 DEF SpongeTypeOK
<1>3. ASSUME circuitInput = inputs PROVE circuit = Added(state, cache)
  <2>1. circuit = state
    BY <1>3 DEF SpongeInit, InitialLanes, newSponge
  <2> QED BY <2>1, <1>2, AddedNothing DEF SpongeInit
<1>4. ~BlockEnds
  BY DEF SpongeInit, BlockEnds
<1>6. NothingYet
  BY DEF SpongeInit, NothingYet
<1>7. absorbed = 0 /\ cache = <<>> /\ ~squeezeMode
  BY DEF SpongeInit
<1>8. Len(cache) = Filled(absorbed) /\ (circuitInput = inputs => absorbed <= Len(inputs))
  BY <1>1, <1>7 DEF Filled
<1> QED BY <1>3, <1>4, <1>5, <1>6, <1>7, <1>8 DEF SpongeInv, AheadByCache

(* Absorbing keeps lanes and lists what they are. *)
LEMMA AbsorbTypeOK == SpongeTypeOK /\ Absorb => SpongeTypeOK'
<1> SUFFICES ASSUME SpongeTypeOK, Absorb PROVE SpongeTypeOK'
  OBVIOUS
<1>1. IsState(circuit')
  BY DEF SpongeTypeOK, Absorb, CircuitAbsorb, Permute, IsState
<1>2. IsState(state') /\ cache' \in Seq(Element)
  <2>1. CASE absorbed < Len(inputs)
    <3>1. inputs[absorbed + 1] \in Element
      BY <2>1 DEF SpongeTypeOK
    <3>2. IsState(Permute(Added(state, cache)))
      BY DEF Permute, IsState
    <3>3. absorb(inputs[absorbed + 1]) /\ IsState(state) /\ cache \in Seq(Element)
      BY <2>1 DEF SpongeTypeOK, Absorb
    <3>4. CASE Len(cache) = Rate
      <4>1. state' = Permute(Added(state, cache)) /\ cache' = <<inputs[absorbed + 1]>>
        BY <3>3, <3>4 DEF absorb, performDuplex
      <4>2. <<inputs[absorbed + 1]>> \in Seq(Element)
        BY <3>1
      <4> QED BY <3>2, <4>1, <4>2
    <3>5. CASE Len(cache) # Rate
      <4>1. state' = state /\ cache' = Append(cache, inputs[absorbed + 1])
        BY <3>3, <3>5 DEF absorb
      <4> QED BY <3>1, <3>3, <4>1
    <3> QED BY <3>4, <3>5
  <2>2. CASE ~(absorbed < Len(inputs))
    BY <2>2 DEF SpongeTypeOK, Absorb
  <2> QED BY <2>1, <2>2
<1> QED BY <1>1, <1>2 DEF SpongeTypeOK, Absorb

(* The native sponge is always behind by its cache, before and after.      *)
LEMMA AbsorbAhead == SpongeInv /\ Absorb => AheadByCache'
<1> SUFFICES ASSUME SpongeInv, Absorb, circuitInput = inputs PROVE AheadByCache'
  BY DEF AheadByCache, Absorb
<1> DEFINE e == inputs[absorbed + 1]
<1>1. absorbed \in Nat /\ absorbed < Len(inputs) /\ Len(inputs) \in Nat /\ absorbed' = absorbed + 1
  BY DEF SpongeInv, SpongeTypeOK, Absorb
<1>2. e \in Element
  BY <1>1 DEF SpongeInv, SpongeTypeOK
<1>3. absorb(e) /\ CircuitAbsorb(absorbed) /\ ~squeezeMode
  BY <1>1 DEF Absorb, absorb
<1>4. /\ Len(cache) = Filled(absorbed)
      /\ circuit = IF BlockEnds THEN Permute(Added(state, cache)) ELSE Added(state, cache)
  BY <1>3 DEF SpongeInv, AheadByCache
<1>5. BlockEnds <=> Len(cache) = Rate
  <2>1. Filled(absorbed) = Rate <=> absorbed > 0 /\ absorbed % Rate = 0
    BY <1>1, Places
  <2>2. absorbed # Len(circuitInput)
    BY <1>1
  <2> QED BY <1>4, <2>1, <2>2 DEF BlockEnds
<1>6. BlockEnds' <=> absorbed % Rate = Rate - 1 \/ absorbed = Len(inputs) - 1
  <2>1. BlockEnds' <=> absorbed + 1 > 0 /\ ((absorbed + 1) % Rate = 0 \/ absorbed + 1 = Len(inputs))
    BY <1>1 DEF BlockEnds, Absorb
  <2>2. (absorbed + 1) % Rate = 0 <=> absorbed % Rate = Rate - 1
    BY <1>1, Places
  <2>3. absorbed + 1 > 0 /\ (absorbed + 1 = Len(inputs) <=> absorbed = Len(inputs) - 1)
    BY <1>1
  <2> QED BY <2>1, <2>2, <2>3
<1>7. /\ Len(cache') = (absorbed % Rate) + 1
      /\ Added(state', cache') = [circuit EXCEPT ![absorbed % Rate] = Plus(@, e)]
  <2>1. CASE Len(cache) = Rate
    <3>1. absorbed % Rate = 0
      BY <1>1, <1>4, <2>1, Places
    <3>2. state' = circuit /\ cache' = <<e>>
      BY <1>3, <1>4, <1>5, <2>1 DEF absorb, performDuplex
    <3>3. Added(circuit, <<e>>) = [circuit EXCEPT ![0] = Plus(@, e)]
      BY <1>2, AddedOne DEF SpongeInv, SpongeTypeOK
    <3>4. Len(<<e>>) = 0 + 1
      OBVIOUS
    <3> QED BY <3>1, <3>2, <3>3, <3>4, Zenon
  <2>2. CASE Len(cache) # Rate
    <3>1. absorbed % Rate = Len(cache) /\ Len(cache) < Rate
      BY <1>1, <1>4, <2>2, Places
    <3>2. state' = state /\ cache' = Append(cache, e) /\ circuit = Added(state, cache)
      BY <1>3, <1>4, <1>5, <2>2 DEF absorb
    <3>3. Added(state, Append(cache, e)) = [Added(state, cache) EXCEPT ![Len(cache)] = Plus(@, e)]
      BY <1>2, <3>1, AddedAppend DEF SpongeInv, SpongeTypeOK
    <3>4. Len(Append(cache, e)) = Len(cache) + 1
      BY <1>2 DEF SpongeInv, SpongeTypeOK
    <3> QED BY <3>1, <3>2, <3>3, <3>4, Zenon
  <2> QED BY <2>1, <2>2
<1>8. circuit' = IF BlockEnds' THEN Permute(Added(state', cache')) ELSE Added(state', cache')
  <2>1. circuit' =
            IF absorbed % Rate = Rate - 1 \/ absorbed = Len(inputs) - 1
            THEN Permute([circuit EXCEPT ![absorbed % Rate] = Plus(@, e)])
            ELSE [circuit EXCEPT ![absorbed % Rate] = Plus(@, e)]
    BY <1>3 DEF CircuitAbsorb
  <2> QED BY <1>6, <1>7, <2>1, Zenon
<1>9. absorbed' <= Len(inputs') /\ Len(cache') = Filled(absorbed') /\ ~squeezeMode'
  <2>1. Filled(absorbed') = (absorbed % Rate) + 1 /\ absorbed' <= Len(inputs)
    BY <1>1, Places
  <2>2. inputs' = inputs /\ squeezeMode' = squeezeMode
    BY DEF Absorb
  <2> QED BY <1>3, <1>7, <2>1, <2>2
<1> QED BY <1>8, <1>9 DEF AheadByCache

(* The last permutation of the cached sponge is that which the circuit has
   already done. *)
LEMMA SqueezeKeeps == SpongeInv /\ Squeeze => SpongeInv'
<1> SUFFICES ASSUME SpongeInv, Squeeze PROVE SpongeInv'
  OBVIOUS
<1>1. SpongeTypeOK'
  <2>1. IsState(state') /\ IsState(circuit')
    BY DEF SpongeInv, SpongeTypeOK, Squeeze, performDuplex, CircuitResult, Permute, IsState
  <2> QED BY <2>1 DEF SpongeInv, SpongeTypeOK, Squeeze, performDuplex
<1>2. ASSUME circuitInput = inputs PROVE circuit'[0] = state'[0]
  <2>1. /\ absorbed = Len(inputs) /\ absorbed \in Nat
        /\ Len(cache) = Filled(absorbed)
        /\ circuit = IF BlockEnds THEN Permute(Added(state, cache)) ELSE Added(state, cache)
    BY <1>2 DEF SpongeInv, AheadByCache, SpongeTypeOK, Squeeze
  <2>2. CASE circuitInput # <<>>
    <3>1. BlockEnds
      BY <1>2, <2>1, <2>2 DEF BlockEnds, SpongeInv, SpongeTypeOK
    <3> QED BY <2>1, <2>2, <3>1 DEF Squeeze, performDuplex, CircuitResult
  <2>3. CASE circuitInput = <<>>
    <3>1. state' = Permute(Added(state, cache)) /\ circuit' = Permute([k \in Lane |-> ZeroElement])
      BY <2>3 DEF Squeeze, performDuplex, CircuitResult
    <3>2. state = newSponge(0) /\ cache = <<>>
      <4>1. Len(inputs) = 0
        BY <1>2, <2>3
      <4> QED BY <2>1, <4>1 DEF SpongeInv, NothingYet, Squeeze
    <3>3. newSponge(0) = [k \in Lane |-> ZeroElement]
      BY NoIV DEF newSponge
    <3>4. Added(state, cache) = state
      BY <3>2, AddedNothing DEF SpongeInv, SpongeTypeOK
    <3> HIDE DEF Permute
    <3> QED BY <3>1, <3>2, <3>3, <3>4
  <2> QED BY <2>2, <2>3
<1> QED BY <1>1, <1>2 DEF SpongeInv, AheadByCache, NothingYet, Squeeze

(* Every step keeps the native sponge behind by its cache. *)
LEMMA SpongeInvKept == SpongeInv /\ [SpongeNext]_spongeVars => SpongeInv'
<1> SUFFICES ASSUME SpongeInv, [SpongeNext]_spongeVars PROVE SpongeInv'
  OBVIOUS
<1>1. CASE Absorb
  <2>1. absorbed' # 0
    BY <1>1 DEF SpongeInv, SpongeTypeOK, Absorb
  <2> QED BY <1>1, <2>1, AbsorbTypeOK, AbsorbAhead DEF SpongeInv, NothingYet
<1>2. CASE Squeeze
  BY <1>2, SqueezeKeeps
<1>3. CASE UNCHANGED spongeVars
  BY <1>3 DEF SpongeInv, SpongeTypeOK, AheadByCache, NothingYet, BlockEnds, spongeVars
<1> QED BY <1>1, <1>2, <1>3 DEF SpongeNext

-----------------------------------------------------------------------------
(* Whatever the field and the permutation, a sponge that caches and one    *)
(* that adds in place make the same hash of the same list, of any length.  *)
THEOREM SameHash == SpongeSpec => []SpongesAgree
<1>1. SpongeInv => SpongesAgree
  BY DEF SpongeInv, AheadByCache, SpongesAgree
<1> QED BY SpongeInvInit, SpongeInvKept, <1>1, PTL DEF SpongeSpec

-----------------------------------------------------------------------------
(* What was permuted: a state for each block, made of the one before it.   *)

IsSequence(h) == \E S : h \in Seq(S)

StateBefore(list, h, i) == IF i = 1 THEN newSponge(Len(list)) ELSE Permute(h[i - 1])

(* The i-th block is added, as far as the first n elements go.             *)
WithBlock(s, list, i, n) ==
    [k \in Lane |-> IF k # Rate /\ Rate * (i - 1) + k < n
                    THEN Plus(s[k], list[Rate * (i - 1) + k + 1]) ELSE s[k]]

IsChain(list, h) ==
    \A i \in 1..Len(h) : h[i] = WithBlock(StateBefore(list, h, i), list, i, Len(list))

LEMMA SequenceAppend ==
    ASSUME NEW h, IsSequence(h), NEW x
    PROVE  /\ IsSequence(Append(h, x))
           /\ Len(h) \in Nat /\ Len(Append(h, x)) = Len(h) + 1
           /\ Append(h, x)[Len(h) + 1] = x
           /\ \A i \in 1..Len(h) : Append(h, x)[i] = h[i]
<1>1. PICK S : h \in Seq(S)
  BY DEF IsSequence
<1>2. PICK W : W = S \cup {x}
  OBVIOUS
<1>3. h \in Seq(W) /\ x \in W
  BY <1>1, <1>2
<1>4. Append(h, x) \in Seq(W)
  BY <1>3
<1> QED BY <1>3, <1>4 DEF IsSequence

(* Where nothing of the block is left, nothing is added.                   *)
LEMMA NoBlock ==
    ASSUME NEW s, IsState(s), NEW list, NEW i \in Nat, NEW n \in Nat, n <= Rate * (i - 1)
    PROVE  WithBlock(s, list, i, n) = s
<1>1. \A k \in Lane : ~(Rate * (i - 1) + k < n)
  BY DEF Lane, Rate
<1>2. WithBlock(s, list, i, n) = [k \in Lane |-> s[k]]
  BY <1>1 DEF WithBlock
<1> QED BY <1>2 DEF IsState

(* A block is whole once it is full or the list is over.                   *)
LEMMA WholeBlock ==
    ASSUME NEW s, NEW list, NEW i \in Nat, NEW n \in Nat, NEW m \in Nat, n <= m,
           n = m \/ Rate * i <= n
    PROVE  WithBlock(s, list, i, n) = WithBlock(s, list, i, m)
<1>1. \A k \in Lane : k # Rate => (Rate * (i - 1) + k < n <=> Rate * (i - 1) + k < m)
  BY DEF Lane, Rate
<1> QED BY <1>1 DEF WithBlock

(* The next element goes to its own lane.                                  *)
LEMMA NextOfBlock ==
    ASSUME NEW s, NEW list, NEW i \in Nat, NEW n \in Nat,
           Rate * (i - 1) <= n, n < Rate * i,
           NEW c, c = n - Rate * (i - 1), NEW x, x = WithBlock(s, list, i, n)
    PROVE  WithBlock(s, list, i, n + 1) = [x EXCEPT ![c] = Plus(x[c], list[n + 1])]
<1>1. c \in Lane /\ c # Rate
  BY DEF Lane, Rate
<1> DEFINE l == WithBlock(s, list, i, n + 1)
           r == [x EXCEPT ![c] = Plus(x[c], list[n + 1])]
<1>2. ASSUME NEW k \in Lane PROVE l[k] = r[k]
  <2>1. CASE k = c
    <3>1. Rate * (i - 1) + k = n /\ k # Rate
      BY <1>1, <2>1 DEF Lane, Rate
    <3>2. l[k] = Plus(s[k], list[n + 1])
      BY <3>1 DEF WithBlock
    <3>3. x[k] = s[k]
      BY <3>1 DEF WithBlock
    <3>4. r[k] = Plus(x[k], list[n + 1])
      BY <2>1 DEF WithBlock
    <3> QED BY <3>2, <3>3, <3>4
  <2>2. CASE k # c
    <3>1. Rate * (i - 1) + k < n + 1 <=> Rate * (i - 1) + k < n
      BY <1>1, <2>2 DEF Lane, Rate
    <3>2. r[k] = x[k]
      BY <2>2 DEF WithBlock
    <3> QED BY <3>1, <3>2 DEF WithBlock
  <2> QED BY <2>1, <2>2
<1>3. l = [k \in Lane |-> l[k]] /\ r = [k \in Lane |-> r[k]]
  BY DEF WithBlock
<1> QED BY <1>2, <1>3

(* A chain grows by the state that its next block makes.                   *)
LEMMA ChainAppend ==
    ASSUME NEW list, NEW h, IsSequence(h), IsChain(list, h), NEW x,
           x = WithBlock(StateBefore(list, h, Len(h) + 1), list, Len(h) + 1, Len(list))
    PROVE  /\ IsSequence(Append(h, x)) /\ IsChain(list, Append(h, x))
           /\ Len(h) \in Nat /\ Len(Append(h, x)) = Len(h) + 1
           /\ Append(h, x)[Len(h) + 1] = x
           /\ StateBefore(list, Append(h, x), Len(h) + 2) = Permute(x)
<1>1. PICK g : g = Append(h, x)
  OBVIOUS
<1>2. /\ IsSequence(g) /\ Len(h) \in Nat /\ Len(g) = Len(h) + 1 /\ g[Len(h) + 1] = x
      /\ \A i \in 1..Len(h) : g[i] = h[i]
  BY <1>1, SequenceAppend
<1>3. \A i \in 1..Len(h) + 1 : StateBefore(list, g, i) = StateBefore(list, h, i)
  <2>1. ASSUME NEW i \in 1..Len(h) + 1, i # 1 PROVE g[i - 1] = h[i - 1]
    BY <1>2, <2>1
  <2> QED BY <2>1 DEF StateBefore
<1>4. ASSUME NEW i \in 1..Len(g) PROVE g[i] = WithBlock(StateBefore(list, g, i), list, i, Len(list))
  <2>0. StateBefore(list, g, i) = StateBefore(list, h, i)
    BY <1>2, <1>3
  <2>1. CASE i = Len(h) + 1
    BY <1>2, <2>0, <2>1
  <2>2. CASE i # Len(h) + 1
    <3>1. i \in 1..Len(h) /\ g[i] = h[i]
      BY <1>2, <2>2
    <3> QED BY <2>0, <3>1 DEF IsChain
  <2> QED BY <2>1, <2>2
<1>5. StateBefore(list, g, Len(h) + 2) = Permute(x)
  <2>1. Len(h) + 2 # 1 /\ g[Len(h) + 2 - 1] = x
    BY <1>2
  <2> QED BY <2>1 DEF StateBefore
<1> QED BY <1>1, <1>2, <1>4, <1>5 DEF IsChain

(* What the circuit, and what the native sponge, has permuted is the chain  *)
(* of its list; how far it is, and what it holds of the next block.        *)
Looked(list) == IF absorbed < Len(list) THEN absorbed ELSE Len(list)

CircuitHistory ==
    /\ IsSequence(circuitPermuted) /\ IsChain(circuitInput, circuitPermuted)
    /\ IF squeezeMode
       THEN /\ Len(circuitPermuted) > 0 /\ Len(circuitInput) <= Rate * Len(circuitPermuted)
            /\ circuit = Permute(circuitPermuted[Len(circuitPermuted)])
       ELSE /\ circuit = WithBlock(StateBefore(circuitInput, circuitPermuted, Len(circuitPermuted) + 1),
                                   circuitInput, Len(circuitPermuted) + 1, Looked(circuitInput))
            /\ Rate * Len(circuitPermuted) < Looked(circuitInput) + Rate
            /\ IF absorbed < Len(circuitInput)
               THEN Rate * Len(circuitPermuted) <= absorbed /\ absorbed < Rate * (Len(circuitPermuted) + 1)
               ELSE Len(circuitInput) <= Rate * Len(circuitPermuted)

NativeHistory ==
    /\ IsSequence(permuted) /\ IsChain(inputs, permuted)
    /\ IF squeezeMode
       THEN /\ Len(permuted) > 0 /\ Len(inputs) <= Rate * Len(permuted)
            /\ state = Permute(permuted[Len(permuted)])
       ELSE /\ state = StateBefore(inputs, permuted, Len(permuted) + 1)
            /\ Len(cache) <= Rate /\ Rate * Len(permuted) + Len(cache) = Looked(inputs)
            /\ \A k \in 1..Len(cache) : cache[k] = inputs[Rate * Len(permuted) + k]

Bounded ==
    /\ Len(circuitInput) <= MaxLength /\ Len(inputs) <= MaxLength
    /\ squeezeMode => absorbed >= Len(circuitInput) /\ absorbed >= Len(inputs)

HistoryInv == SpongeInv /\ Bounded /\ CircuitHistory /\ NativeHistory

(* Sponges start with empty histories. *)
LEMMA HistoryInit == SpongeInit => Bounded /\ CircuitHistory /\ NativeHistory
<1> SUFFICES ASSUME SpongeInit PROVE Bounded /\ CircuitHistory /\ NativeHistory
  OBVIOUS
<1>0. SpongeTypeOK
  BY SpongeInvInit DEF SpongeInv
<1>1. Bounded
  BY LengthAssumption DEF SpongeInit, Lists, Bounded
<1>2. ASSUME NEW list \in Seq(Element)
      PROVE  /\ Len(<<>>) = 0 /\ IsSequence(<<>>) /\ IsChain(list, <<>>)
             /\ StateBefore(list, <<>>, 1) = newSponge(Len(list))
             /\ Looked(list) = 0 /\ Len(list) \in Nat
  <2>1. Len(<<>>) = 0 /\ <<>> \in Seq({}) /\ Len(list) \in Nat /\ absorbed = 0
    BY <1>2 DEF SpongeInit
  <2>2. Looked(list) = 0
    BY <2>1 DEF Looked
  <2> QED BY <2>1, <2>2 DEF IsSequence, IsChain, StateBefore
<1>3. circuitInput \in Seq(Element) /\ inputs \in Seq(Element) /\ IsState(circuit)
  BY <1>0 DEF SpongeTypeOK
<1>4. CircuitHistory
  <2>1. circuitPermuted = <<>> /\ absorbed = 0 /\ ~squeezeMode /\ circuit = newSponge(Len(circuitInput))
    BY DEF SpongeInit, InitialLanes, newSponge
  <2>2. PICK n : n = Len(circuitInput)
    OBVIOUS
  <2>3. n \in Nat /\ Len(circuitPermuted) = 0 /\ Looked(circuitInput) = 0
    BY <1>2, <1>3, <2>1, <2>2
  <2>4. circuit = WithBlock(circuit, circuitInput, 1, 0)
    <3>1. 0 <= Rate * (1 - 1) /\ 0 \in Nat /\ 1 \in Nat
      BY DEF Rate
    <3> QED BY <1>3, <3>1, NoBlock
  <2>5. circuit = WithBlock(StateBefore(circuitInput, circuitPermuted, 1), circuitInput, 1, 0)
    BY <1>2, <1>3, <2>1, <2>4
  <2>6. Rate * 0 = 0 /\ 0 + 1 = 1 /\ 0 < 0 + Rate /\ (0 < n => 0 <= 0 /\ 0 < Rate * (0 + 1)) /\ (~(0 < n) => n <= 0)
    BY <2>3 DEF Rate
  <2> QED BY <1>2, <1>3, <2>1, <2>2, <2>3, <2>5, <2>6 DEF CircuitHistory
<1>5. NativeHistory
  <2>1. permuted = <<>> /\ cache = <<>> /\ ~squeezeMode /\ state = newSponge(Len(inputs))
    BY DEF SpongeInit
  <2>2. Len(permuted) = 0 /\ Len(cache) = 0 /\ Looked(inputs) = 0
    BY <1>2, <1>3, <2>1
  <2>3. Rate * 0 = 0 /\ 0 + 1 = 1 /\ 0 + 0 = 0 /\ 0 <= Rate
    BY DEF Rate
  <2> QED BY <1>2, <1>3, <2>1, <2>2, <2>3 DEF NativeHistory
<1> QED BY <1>1, <1>4, <1>5

(* The circuit absorbs the next element of its list, if there is one.      *)
LEMMA CircuitHistoryAbsorbs == HistoryInv /\ Absorb => CircuitHistory'
<1> SUFFICES ASSUME HistoryInv, Absorb PROVE CircuitHistory'
  OBVIOUS
<1>0. /\ circuitInput' = circuitInput /\ squeezeMode' = squeezeMode /\ absorbed' = absorbed + 1
      /\ absorbed \in Nat /\ circuitInput \in Seq(Element) /\ Len(circuitInput) \in Nat
      /\ IsState(circuit)
  BY DEF HistoryInv, SpongeInv, SpongeTypeOK, Absorb
<1>1. ~squeezeMode
  <2>1. Len(inputs) \in Nat
    BY DEF HistoryInv, SpongeInv, SpongeTypeOK
  <2> QED BY <1>0, <2>1 DEF HistoryInv, Bounded, Absorb
<1>2. PICK l : l = Len(circuitPermuted)
  OBVIOUS
<1>3. PICK s : s = StateBefore(circuitInput, circuitPermuted, l + 1)
  OBVIOUS
<1>4. /\ IsSequence(circuitPermuted) /\ IsChain(circuitInput, circuitPermuted)
      /\ l \in Nat
      /\ circuit = WithBlock(s, circuitInput, l + 1, Looked(circuitInput))
      /\ Rate * l < Looked(circuitInput) + Rate
      /\ IF absorbed < Len(circuitInput)
         THEN Rate * l <= absorbed /\ absorbed < Rate * (l + 1)
         ELSE Len(circuitInput) <= Rate * l
  <2>1. IsSequence(circuitPermuted)
    BY DEF HistoryInv, CircuitHistory
  <2>2. l \in Nat
    BY <1>2, <2>1 DEF IsSequence
  <2> QED BY <1>1, <1>2, <1>3, <2>1, <2>2 DEF HistoryInv, CircuitHistory
<1>5. CASE ~(absorbed < Len(circuitInput))
  <2>1. UNCHANGED <<circuit, circuitPermuted>>
    BY <1>5 DEF Absorb
  <2>2. Looked(circuitInput)' = Looked(circuitInput)
    BY <1>0, <1>5 DEF Looked
  <2>3. ~(absorbed' < Len(circuitInput'))
    BY <1>0, <1>5
  <2> QED BY <1>0, <1>1, <1>2, <1>3, <1>4, <1>5, <2>1, <2>2, <2>3 DEF CircuitHistory
<1>6. CASE absorbed < Len(circuitInput)
  <2>0. Looked(circuitInput) = absorbed /\ Looked(circuitInput)' = absorbed + 1
    BY <1>0, <1>6 DEF Looked
  <2>1. absorbed % Rate = absorbed - Rate * (l + 1 - 1)
    BY <1>0, <1>4, <1>6 DEF Rate
  <2>2. PICK x : x = [circuit EXCEPT ![absorbed % Rate] = Plus(@, circuitInput[absorbed + 1])]
    OBVIOUS
  <2>3. x = WithBlock(s, circuitInput, l + 1, absorbed + 1)
    <3>1. PICK i \in Nat : i = l + 1
      BY <1>4
    <3>2. PICK j \in Nat : j = absorbed
      BY <1>0
    <3>3. Rate * (i - 1) <= j /\ j < Rate * i
      BY <1>4, <1>6, <3>1, <3>2 DEF Rate
    <3>4. PICK c : c = j - Rate * (i - 1)
      OBVIOUS
    <3>5. circuit = WithBlock(s, circuitInput, i, j) /\ c = absorbed % Rate
      BY <1>4, <2>0, <2>1, <3>1, <3>2, <3>4
    <3>6. WithBlock(s, circuitInput, i, j + 1) = [circuit EXCEPT ![c] = Plus(circuit[c], circuitInput[j + 1])]
      BY <3>3, <3>4, <3>5, NextOfBlock
    <3> QED BY <2>2, <3>1, <3>2, <3>5, <3>6
  <2>4. IF absorbed % Rate = Rate - 1 \/ absorbed = Len(circuitInput) - 1
        THEN circuit' = Permute(x) /\ circuitPermuted' = Append(circuitPermuted, x)
        ELSE circuit' = x /\ circuitPermuted' = circuitPermuted
    BY <1>6, <2>2 DEF Absorb, CircuitAbsorb
  <2>5. CASE absorbed % Rate = Rate - 1 \/ absorbed = Len(circuitInput) - 1
    <3>1. x = WithBlock(s, circuitInput, l + 1, Len(circuitInput))
      <4>1. l + 1 \in Nat /\ absorbed + 1 \in Nat /\ absorbed + 1 <= Len(circuitInput)
        BY <1>0, <1>4, <1>6
      <4>2. absorbed + 1 = Len(circuitInput) \/ Rate * (l + 1) <= absorbed + 1
        BY <1>0, <1>4, <2>1, <2>5 DEF Rate
      <4>3. WithBlock(s, circuitInput, l + 1, absorbed + 1) = WithBlock(s, circuitInput, l + 1, Len(circuitInput))
        BY ONLY <1>0, <4>1, <4>2, WholeBlock
      <4> QED BY <2>3, <4>3
    <3>2. /\ IsSequence(circuitPermuted') /\ IsChain(circuitInput, circuitPermuted')
          /\ Len(circuitPermuted') = l + 1
          /\ StateBefore(circuitInput, circuitPermuted', l + 2) = Permute(x)
      <4>1. x = WithBlock(StateBefore(circuitInput, circuitPermuted, Len(circuitPermuted) + 1),
                          circuitInput, Len(circuitPermuted) + 1, Len(circuitInput))
        BY <1>2, <1>3, <3>1
      <4>2. circuitPermuted' = Append(circuitPermuted, x)
        BY <2>4, <2>5
      <4> QED BY <1>2, <1>4, <4>1, <4>2, ChainAppend
    <3>3. circuit' = WithBlock(Permute(x), circuitInput, l + 2, absorbed + 1)
      <4>1. IsState(Permute(x)) /\ l + 2 \in Nat /\ absorbed + 1 \in Nat
        BY <1>0, <1>4 DEF IsState, Permute
      <4>2. absorbed + 1 <= Rate * (l + 2 - 1)
        BY <1>0, <1>4, <1>6 DEF Rate
      <4>3. WithBlock(Permute(x), circuitInput, l + 2, absorbed + 1) = Permute(x)
        <5>1. PICK y : y = Permute(x)
          OBVIOUS
        <5>2. IsState(y)
          BY <4>1, <5>1
        <5>3. PICK i \in Nat : i = l + 2
          BY <4>1
        <5>4. PICK j \in Nat : j = absorbed + 1
          BY <4>1
        <5>5. WithBlock(y, circuitInput, i, j) = y
          <6>1. j <= Rate * (i - 1)
            BY <1>0, <1>4, <1>6, <5>3, <5>4 DEF Rate
          <6> QED BY <5>2, <6>1, NoBlock, Zenon
        <5> QED BY <5>1, <5>3, <5>4, <5>5, Zenon
      <4> QED BY <2>4, <2>5, <4>3
    <3>4. l + 1 + 1 = l + 2 /\ Rate * (l + 1) < absorbed + 1 + Rate
      BY <1>0, <1>4, <1>6 DEF Rate
    <3>5. IF absorbed + 1 < Len(circuitInput)
          THEN Rate * (l + 1) <= absorbed + 1 /\ absorbed + 1 < Rate * (l + 2)
          ELSE Len(circuitInput) <= Rate * (l + 1)
      BY <1>0, <1>4, <1>6, <2>1, <2>5 DEF Rate
    <3>6. circuit' = WithBlock(StateBefore(circuitInput, circuitPermuted', l + 2), circuitInput, l + 2, absorbed + 1)
      BY <3>2, <3>3
    <3> HIDE DEF WithBlock, StateBefore, IsChain, IsSequence
    <3> QED BY <1>0, <1>1, <2>0, <3>2, <3>4, <3>5, <3>6 DEF CircuitHistory
  <2>6. CASE ~(absorbed % Rate = Rate - 1 \/ absorbed = Len(circuitInput) - 1)
    <3>1. circuit' = x /\ circuitPermuted' = circuitPermuted
      BY <2>4, <2>6
    <3>2. /\ Rate * l < absorbed + 1 + Rate
          /\ absorbed + 1 < Len(circuitInput)
          /\ Rate * l <= absorbed + 1 /\ absorbed + 1 < Rate * (l + 1)
      BY <1>0, <1>4, <1>6, <2>1, <2>6 DEF Rate
    <3> QED BY <1>0, <1>1, <1>2, <1>3, <1>4, <2>0, <2>3, <3>1, <3>2 DEF CircuitHistory
  <2> QED BY <2>5, <2>6
<1> QED BY <1>5, <1>6

(* The native sponge permutes the block before, if it is full.             *)
LEMMA DuplexPermutesBlock ==
    ASSUME HistoryInv, ~squeezeMode, performDuplex,
           Looked(inputs) = Len(inputs) \/ Len(cache) = Rate
    PROVE  /\ IsSequence(permuted') /\ IsChain(inputs, permuted')
           /\ Len(permuted) \in Nat /\ Len(permuted') = Len(permuted) + 1
           /\ state' = Permute(permuted'[Len(permuted')])
           /\ state' = StateBefore(inputs, permuted', Len(permuted') + 1)
<1>1. PICK l : l = Len(permuted)
  OBVIOUS
<1>2. /\ IsSequence(permuted) /\ IsChain(inputs, permuted) /\ l \in Nat
      /\ state = StateBefore(inputs, permuted, l + 1)
      /\ Len(cache) <= Rate /\ Rate * l + Len(cache) = Looked(inputs)
      /\ \A k \in 1..Len(cache) : cache[k] = inputs[Rate * l + k]
      /\ IsState(state) /\ Len(inputs) \in Nat /\ Len(cache) \in Nat
  <2>1. IsSequence(permuted)
    BY DEF HistoryInv, NativeHistory
  <2>2. l \in Nat
    BY <1>1, <2>1 DEF IsSequence
  <2>3. IsState(state) /\ Len(inputs) \in Nat /\ Len(cache) \in Nat
    BY DEF HistoryInv, SpongeInv, SpongeTypeOK
  <2> QED BY <1>1, <2>1, <2>2, <2>3 DEF HistoryInv, NativeHistory
<1>3. Looked(inputs) \in Nat /\ Looked(inputs) <= Len(inputs)
  BY <1>2 DEF HistoryInv, SpongeInv, SpongeTypeOK, Looked
<1>4. PICK x : x = Added(state, cache)
  OBVIOUS
<1>i. PICK i \in Nat : i = l + 1
  BY <1>2
<1>n. PICK n \in Nat : n = Looked(inputs)
  BY <1>3
<1>5. i = l + 1 /\ n = Looked(inputs)
  BY <1>i, <1>n
<1>6. x = WithBlock(state, inputs, i, Len(inputs))
  <2>1. ASSUME NEW k \in Lane
        PROVE  /\ k < Len(cache) <=> k # Rate /\ Rate * (i - 1) + k < n
               /\ k < Len(cache) => cache[k + 1] = inputs[Rate * (i - 1) + k + 1]
    <3>1. k < Len(cache) <=> k # Rate /\ Rate * (i - 1) + k < n
      BY <1>2, <1>5 DEF Lane, Rate
    <3>2. ASSUME k < Len(cache) PROVE cache[k + 1] = inputs[Rate * (i - 1) + k + 1]
      <4>1. k + 1 \in 1..Len(cache) /\ Rate * l + (k + 1) = Rate * (i - 1) + k + 1
        BY <1>2, <1>5, <3>2 DEF Lane, Rate
      <4> QED BY <1>2, <4>1
    <3> QED BY <3>1, <3>2
  <2>2. ASSUME NEW k \in Lane PROVE x[k] = WithBlock(state, inputs, i, n)[k]
    <3>1. CASE k < Len(cache)
      <4>1. x[k] = Plus(state[k], cache[k + 1])
        BY <1>4, <3>1 DEF Added
      <4>2. WithBlock(state, inputs, i, n)[k] = Plus(state[k], inputs[Rate * (i - 1) + k + 1])
        <5>1. k # Rate /\ Rate * (i - 1) + k < n
          BY <2>1, <3>1
        <5> QED BY <5>1 DEF WithBlock
      <4>3. cache[k + 1] = inputs[Rate * (i - 1) + k + 1]
        BY <2>1, <3>1
      <4> QED BY <4>1, <4>2, <4>3, Zenon
    <3>2. CASE ~(k < Len(cache))
      <4>1. x[k] = state[k]
        BY <1>4, <3>2 DEF Added
      <4>2. WithBlock(state, inputs, i, n)[k] = state[k]
        <5>1. ~(k # Rate /\ Rate * (i - 1) + k < n)
          BY <2>1, <3>2
        <5> QED BY <5>1 DEF WithBlock
      <4> QED BY <4>1, <4>2
    <3> QED BY <3>1, <3>2
  <2>3. /\ x = [k \in Lane |-> x[k]]
        /\ WithBlock(state, inputs, i, n) = [k \in Lane |-> WithBlock(state, inputs, i, n)[k]]
    BY <1>4 DEF Added, WithBlock
  <2>4. n = Len(inputs) \/ Rate * i <= n
    <3>1. CASE Looked(inputs) = Len(inputs)
      BY <1>5, <3>1
    <3>2. CASE Len(cache) = Rate
      <4>1. n = Rate * l + Rate
        BY <1>2, <1>5, <3>2
      <4> QED BY <1>2, <1>5, <4>1 DEF Rate
    <3> QED BY <3>1, <3>2
  <2>5. WithBlock(state, inputs, i, n) = WithBlock(state, inputs, i, Len(inputs))
    BY <1>2, <1>3, <1>5, <2>4, WholeBlock
  <2> QED BY <2>2, <2>3, <2>5
<1>7. permuted' = Append(permuted, x) /\ state' = Permute(x)
  BY <1>4 DEF performDuplex
<1>8. x = WithBlock(StateBefore(inputs, permuted, Len(permuted) + 1), inputs, Len(permuted) + 1, Len(inputs))
  BY <1>1, <1>2, <1>5, <1>6
<1>9. /\ IsSequence(permuted') /\ IsChain(inputs, permuted')
      /\ Len(permuted) \in Nat /\ Len(permuted') = Len(permuted) + 1
      /\ permuted'[Len(permuted) + 1] = x
      /\ StateBefore(inputs, permuted', Len(permuted) + 2) = Permute(x)
  BY <1>2, <1>7, <1>8, ChainAppend
<1>10. Len(permuted') + 1 = Len(permuted) + 2
  BY <1>9
<1> QED BY <1>7, <1>9, <1>10

(* The native sponge absorbs the next element of its list, if there is one. *)
LEMMA NativeHistoryAbsorbs == HistoryInv /\ Absorb => NativeHistory'
<1> SUFFICES ASSUME HistoryInv, Absorb PROVE NativeHistory'
  OBVIOUS
<1>0. /\ inputs' = inputs /\ squeezeMode' = squeezeMode /\ absorbed' = absorbed + 1
      /\ absorbed \in Nat /\ inputs \in Seq(Element) /\ Len(inputs) \in Nat
      /\ cache \in Seq(Element) /\ Len(cache) \in Nat /\ Len(circuitInput) \in Nat
  BY DEF HistoryInv, SpongeInv, SpongeTypeOK, Absorb
<1>1. ~squeezeMode
  BY <1>0 DEF HistoryInv, Bounded, Absorb
<1>2. PICK l : l = Len(permuted)
  OBVIOUS
<1>3. /\ IsSequence(permuted) /\ IsChain(inputs, permuted) /\ l \in Nat
      /\ state = StateBefore(inputs, permuted, l + 1)
      /\ Len(cache) <= Rate /\ Rate * l + Len(cache) = Looked(inputs)
      /\ \A k \in 1..Len(cache) : cache[k] = inputs[Rate * l + k]
  <2>1. IsSequence(permuted)
    BY DEF HistoryInv, NativeHistory
  <2>2. l \in Nat
    BY <1>2, <2>1 DEF IsSequence
  <2> QED BY <1>1, <1>2, <2>1, <2>2 DEF HistoryInv, NativeHistory
<1>4. CASE ~(absorbed < Len(inputs))
  <2>1. UNCHANGED <<state, cache, permuted>>
    BY <1>4 DEF Absorb
  <2>2. Looked(inputs)' = Looked(inputs)
    BY <1>0, <1>4 DEF Looked
  <2> QED BY <1>0, <1>1, <1>2, <1>3, <2>1, <2>2 DEF NativeHistory
<1>5. CASE absorbed < Len(inputs)
  <2>0. Looked(inputs) = absorbed /\ Looked(inputs)' = absorbed + 1
    BY <1>0, <1>5 DEF Looked
  <2>1. PICK e \in Element : e = inputs[absorbed + 1]
    BY <1>0, <1>5
  <2>2. absorb(e)
    BY <1>5, <2>1 DEF Absorb
  <2>3. CASE Len(cache) = Rate
    <3>1. performDuplex /\ cache' = <<e>>
      BY <2>2, <2>3 DEF absorb
    <3>2. /\ IsSequence(permuted') /\ IsChain(inputs, permuted')
          /\ Len(permuted') = l + 1
          /\ state' = StateBefore(inputs, permuted', Len(permuted') + 1)
      BY <1>1, <1>2, <2>3, <3>1, DuplexPermutesBlock
    <3>3. Len(cache') = 1 /\ cache'[1] = e
      BY <3>1
    <3>4. 1 <= Rate /\ Rate * (l + 1) + 1 = absorbed + 1 /\ Rate * (l + 1) \in Nat
      BY <1>0, <1>3, <2>0, <2>3 DEF Rate
    <3>5. \A k \in 1..Len(cache') : cache'[k] = inputs[Rate * Len(permuted') + k]
      BY <2>1, <3>2, <3>3, <3>4
    <3> QED BY <1>0, <1>1, <2>0, <3>2, <3>3, <3>4, <3>5 DEF NativeHistory
  <2>4. CASE Len(cache) # Rate
    <3>1. state' = state /\ permuted' = permuted /\ cache' = Append(cache, e)
      BY <2>2, <2>4 DEF absorb
    <3>2. Len(cache') = Len(cache) + 1 /\ cache'[Len(cache) + 1] = e
          /\ \A k \in 1..Len(cache) : cache'[k] = cache[k]
      BY <1>0, <3>1
    <3>3. Len(cache') <= Rate /\ Rate * l + Len(cache') = absorbed + 1
      <4>1. PICK c \in Nat : c = Len(cache)
        BY <1>0
      <4>2. c <= Rate /\ c # Rate /\ Rate * l + c = absorbed /\ Len(cache') = c + 1
        BY <1>3, <2>0, <2>4, <3>2, <4>1
      <4> QED BY <1>0, <1>3, <4>2 DEF Rate
    <3>4. ASSUME NEW k \in 1..Len(cache') PROVE cache'[k] = inputs[Rate * l + k]
      <4>1. CASE k = Len(cache) + 1
        <5>1. Rate * l + k = absorbed + 1
          BY <3>2, <3>3, <4>1
        <5> QED BY <2>1, <3>2, <4>1, <5>1
      <4>2. CASE k # Len(cache) + 1
        <5>1. k \in 1..Len(cache)
          BY <1>0, <3>2, <4>2
        <5> QED BY <1>3, <3>2, <5>1
      <4> QED BY <4>1, <4>2
    <3> QED BY <1>0, <1>1, <1>2, <1>3, <2>0, <3>1, <3>3, <3>4 DEF NativeHistory
  <2> QED BY <2>3, <2>4
<1> QED BY <1>4, <1>5

(* At the end both chains are whole.                                       *)
LEMMA HistorySqueezes == HistoryInv /\ Squeeze => CircuitHistory' /\ NativeHistory'
<1> SUFFICES ASSUME HistoryInv, Squeeze PROVE CircuitHistory' /\ NativeHistory'
  OBVIOUS
<1>0. /\ circuitInput' = circuitInput /\ inputs' = inputs /\ squeezeMode' /\ ~squeezeMode
      /\ absorbed \in Nat /\ circuitInput \in Seq(Element) /\ inputs \in Seq(Element)
      /\ Len(circuitInput) \in Nat /\ Len(inputs) \in Nat /\ Len(cache) \in Nat
      /\ ~(absorbed < Len(circuitInput)) /\ ~(absorbed < Len(inputs))
  BY DEF HistoryInv, SpongeInv, SpongeTypeOK, Squeeze
<1>1. Looked(circuitInput) = Len(circuitInput) /\ Looked(inputs) = Len(inputs)
  BY <1>0 DEF Looked
<1>2. NativeHistory'
  <2>1. /\ IsSequence(permuted') /\ IsChain(inputs, permuted')
        /\ Len(permuted) \in Nat /\ Len(permuted') = Len(permuted) + 1
        /\ state' = Permute(permuted'[Len(permuted')])
    <3>1. performDuplex
      BY DEF Squeeze
    <3> QED BY <1>0, <1>1, <3>1, DuplexPermutesBlock
  <2>2. Len(cache) <= Rate /\ Rate * Len(permuted) + Len(cache) = Len(inputs)
    BY <1>0, <1>1 DEF HistoryInv, NativeHistory
  <2>3. Len(permuted') > 0 /\ Len(inputs) <= Rate * Len(permuted')
    BY <1>0, <2>1, <2>2 DEF Rate
  <2> QED BY <1>0, <2>1, <2>3 DEF NativeHistory
<1>3. CircuitHistory'
  <2>1. PICK l : l = Len(circuitPermuted)
    OBVIOUS
  <2>2. IsSequence(circuitPermuted) /\ IsChain(circuitInput, circuitPermuted)
    BY DEF HistoryInv, CircuitHistory
  <2>3. l \in Nat
    BY <2>1, <2>2 DEF IsSequence
  <2>4. /\ circuit = WithBlock(StateBefore(circuitInput, circuitPermuted, l + 1),
                               circuitInput, l + 1, Len(circuitInput))
        /\ Rate * l < Len(circuitInput) + Rate /\ Len(circuitInput) <= Rate * l
    BY <1>0, <1>1, <2>1 DEF HistoryInv, CircuitHistory
  <2>5. CASE circuitInput # <<>>
    <3>1. Len(circuitInput) > 0 /\ circuit' = circuit /\ circuitPermuted' = circuitPermuted
      BY <1>0, <2>5 DEF Squeeze, CircuitResult
    <3>2. l > 0 /\ l + 1 # 1 /\ l + 1 - 1 = l
      BY <1>0, <2>3, <2>4, <3>1 DEF Rate
    <3>3. StateBefore(circuitInput, circuitPermuted, l + 1) = Permute(circuitPermuted[l])
      <4>1. PICK i \in Nat : i = l + 1 /\ i # 1 /\ i - 1 = l
        BY <2>3, <3>2
      <4>2. StateBefore(circuitInput, circuitPermuted, i) = Permute(circuitPermuted[i - 1])
        BY <4>1 DEF StateBefore
      <4> QED BY <4>1, <4>2
    <3>4. circuit = Permute(circuitPermuted[l])
      <4>1. PICK y : y = Permute(circuitPermuted[l])
        OBVIOUS
      <4>2. IsState(y)
        BY <4>1 DEF IsState, Permute
      <4>3. PICK i \in Nat : i = l + 1
        BY <2>3
      <4>4. Len(circuitInput) <= Rate * (i - 1)
        BY <1>0, <2>3, <2>4, <4>3 DEF Rate
      <4>5. WithBlock(y, circuitInput, i, Len(circuitInput)) = y
        BY <1>0, <4>2, <4>4, NoBlock
      <4> QED BY <2>4, <3>3, <4>1, <4>3, <4>5
    <3> QED BY <1>0, <2>1, <2>2, <2>4, <3>1, <3>2, <3>4 DEF CircuitHistory
  <2>6. CASE circuitInput = <<>>
    <3>1. PICK x : x = [k \in Lane |-> ZeroElement]
      OBVIOUS
    <3>2. circuit' = Permute(x) /\ circuitPermuted' = Append(circuitPermuted, x)
      BY <2>6, <3>1 DEF Squeeze, CircuitResult
    <3>3. Len(circuitInput) = 0
      BY <2>6
    <3>4. l = 0
      BY <2>3, <2>4, <3>3 DEF Rate
    <3>5. StateBefore(circuitInput, circuitPermuted, 1) = x
      BY <3>1, <3>3, NoIV DEF StateBefore, newSponge
    <3>6. WithBlock(x, circuitInput, 1, 0) = x
      <4>1. 0 <= Rate * (1 - 1) /\ 0 \in Nat /\ 1 \in Nat
        BY DEF Rate
      <4>2. IsState(x)
        BY <3>1 DEF IsState
      <4> QED BY <4>1, <4>2, NoBlock
    <3>7. x = WithBlock(StateBefore(circuitInput, circuitPermuted, Len(circuitPermuted) + 1),
                        circuitInput, Len(circuitPermuted) + 1, Len(circuitInput))
      BY <2>1, <3>3, <3>4, <3>5, <3>6
    <3>8. /\ IsSequence(circuitPermuted') /\ IsChain(circuitInput, circuitPermuted')
          /\ Len(circuitPermuted') = 1 /\ circuitPermuted'[1] = x
      <4>1. /\ IsSequence(circuitPermuted') /\ IsChain(circuitInput, circuitPermuted')
            /\ Len(circuitPermuted') = Len(circuitPermuted) + 1
            /\ circuitPermuted'[Len(circuitPermuted) + 1] = x
        BY <2>2, <3>2, <3>7, ChainAppend
      <4>2. Len(circuitPermuted) + 1 = 1
        BY <2>1, <3>4
      <4> QED BY <4>1, <4>2
    <3>9. 1 > 0 /\ 0 <= Rate * 1
      BY DEF Rate
    <3> QED BY <1>0, <3>2, <3>3, <3>8, <3>9 DEF CircuitHistory
  <2> QED BY <2>5, <2>6
<1> QED BY <1>2, <1>3

(* Both histories are chains, of two lists within the bound.               *)
LEMMA HistoryKept == SpongeSpec => []HistoryInv
<1>1. SpongeInit => HistoryInv
  BY SpongeInvInit, HistoryInit DEF HistoryInv
<1>2. HistoryInv /\ [SpongeNext]_spongeVars => HistoryInv'
  <2> SUFFICES ASSUME HistoryInv, [SpongeNext]_spongeVars PROVE HistoryInv'
    OBVIOUS
  <2>1. SpongeInv'
    BY SpongeInvKept DEF HistoryInv
  <2>2. absorbed \in Nat /\ Len(circuitInput) \in Nat /\ Len(inputs) \in Nat
    BY DEF HistoryInv, SpongeInv, SpongeTypeOK
  <2>3. CASE Absorb
    <3>1. Bounded'
      BY <2>2, <2>3 DEF HistoryInv, Bounded, Absorb
    <3> QED BY <2>1, <2>3, <3>1, CircuitHistoryAbsorbs, NativeHistoryAbsorbs DEF HistoryInv
  <2>4. CASE Squeeze
    <3>1. Bounded'
      BY <2>2, <2>4 DEF HistoryInv, Bounded, Squeeze
    <3> QED BY <2>1, <2>4, <3>1, HistorySqueezes DEF HistoryInv
  <2>5. CASE UNCHANGED spongeVars
    BY <2>1, <2>5 DEF HistoryInv, Bounded, CircuitHistory, NativeHistory, Looked, spongeVars
  <2> QED BY <2>3, <2>4, <2>5 DEF SpongeNext
<1> QED BY <1>1, <1>2, PTL DEF SpongeSpec

(* The capacity is not absorbed into: it is the length of the list, then   *)
(* what the permutation leaves there.                                      *)
LEMMA CapacityOfChain ==
    ASSUME NEW list, NEW h, IsSequence(h), IsChain(list, h), NEW i \in 1..Len(h)
    PROVE  h[i][Rate] = IF i = 1 THEN IV(Len(list)) ELSE PermuteLane(h[i - 1], Rate)
<1>1. PICK s : s = StateBefore(list, h, i)
  OBVIOUS
<1>2. Rate \in Lane
  BY DEF Lane, Rate
<1>3. h[i] = WithBlock(s, list, i, Len(list))
  BY <1>1 DEF IsChain
<1>4. h[i][Rate] = s[Rate]
  BY <1>2, <1>3 DEF WithBlock
<1>5. s[Rate] = IF i = 1 THEN IV(Len(list)) ELSE PermuteLane(h[i - 1], Rate)
  BY <1>1, <1>2 DEF StateBefore, newSponge, Permute
<1> QED BY <1>4, <1>5

(* Before equal states, capacities were equal.                             *)
LEMMA CapacityBefore ==
    ASSUME NEW list, NEW a, IsSequence(a), IsChain(list, a), NEW i \in 1..Len(a), i # 1,
           NEW other, NEW b, IsSequence(b), IsChain(other, b), NEW j \in 1..Len(b), j # 1,
           a[i] = b[j]
    PROVE  PermuteLane(a[i - 1], Rate) = PermuteLane(b[j - 1], Rate)
<1>1. a[i][Rate] = PermuteLane(a[i - 1], Rate)
  BY CapacityOfChain
<1>2. b[j][Rate] = PermuteLane(b[j - 1], Rate)
  BY CapacityOfChain
<1> QED BY <1>1, <1>2

(* Chains of p and q states that end in one state, and whose capacities    *)
(* never collide.                                                          *)
Meet(list, a, p, other, b, q) ==
    /\ IsSequence(a) /\ IsChain(list, a) /\ p = Len(a) /\ p > 0
    /\ IsSequence(b) /\ IsChain(other, b) /\ q = Len(b) /\ q > 0
    /\ a[p] = b[q]
    /\ \A x \in 1..p, y \in 1..q : PermuteLane(a[x], Rate) = PermuteLane(b[y], Rate) => a[x] = b[y]

SameFromTheEnd(a, p, b, q) == \A i \in 1..p, j \in 1..q : p - i = q - j => a[i] = b[j]

(* They went through the same states from the end backwards.               *)
LEMMA SameBackwards ==
    ASSUME NEW list, NEW a, NEW p \in Nat, NEW other, NEW b, NEW q \in Nat,
           Meet(list, a, p, other, b, q)
    PROVE  SameFromTheEnd(a, p, b, q)
<1>0. /\ IsSequence(a) /\ IsChain(list, a) /\ p = Len(a)
      /\ IsSequence(b) /\ IsChain(other, b) /\ q = Len(b)
      /\ a[p] = b[q]
      /\ \A x \in 1..p, y \in 1..q : PermuteLane(a[x], Rate) = PermuteLane(b[y], Rate) => a[x] = b[y]
  BY DEF Meet
<1> DEFINE Good == {m \in Nat : \A i \in 1..p, j \in 1..q : p - i = m /\ q - j = m => a[i] = b[j]}
<1>1. 0 \in Good
  <2>1. \A i \in 1..p, j \in 1..q : p - i = 0 /\ q - j = 0 => i = p /\ j = q
    OBVIOUS
  <2> QED BY <1>0, <2>1
<1>2. ASSUME NEW m \in Nat, m \in Good PROVE m + 1 \in Good
  <2>1. ASSUME NEW i \in 1..p, NEW j \in 1..q, p - i = m + 1, q - j = m + 1 PROVE a[i] = b[j]
    <3>1. PICK x \in 1..p, y \in 1..q : x = i + 1 /\ y = j + 1
      <4>1. i + 1 \in 1..p /\ j + 1 \in 1..q
        BY <2>1
      <4> QED BY <4>1
    <3>2. p - x = m /\ q - y = m /\ x # 1 /\ y # 1 /\ x - 1 = i /\ y - 1 = j
      BY <2>1, <3>1
    <3>3. a[x] = b[y]
      BY <1>2, <3>2
    <3>4. PermuteLane(a[i], Rate) = PermuteLane(b[j], Rate)
      <4> HIDE DEF Good
      <4>1. PermuteLane(a[x - 1], Rate) = PermuteLane(b[y - 1], Rate)
        <5>1. x \in 1..Len(a) /\ y \in 1..Len(b)
          BY <1>0, <3>1
        <5> QED BY SMTT(30), <1>0, <3>2, <3>3, <5>1, CapacityBefore
      <4> QED BY <3>2, <4>1
    <3> QED BY <1>0, <2>1, <3>4
  <2> QED BY <2>1
<1>3. ASSUME NEW i \in 1..p, NEW j \in 1..q, p - i = q - j PROVE a[i] = b[j]
  <2>1. PICK m \in Nat : m = p - i
    <3>1. p - i \in Nat
      BY <1>3
    <3> QED BY <3>1
  <2> HIDE DEF Good
  <2>2. m \in Good
    BY <1>1, <1>2, NatSetInduction
  <2> USE DEF Good
  <2> QED BY <1>3, <2>1, <2>2
<1> QED BY <1>3 DEF SameFromTheEnd

(* If no capacity becomes that of a new sponge, they are equally long.     *)
LEMMA NotLonger ==
    ASSUME NEW list, NEW a, NEW p \in Nat, NEW other, NEW b, NEW q \in Nat,
           Meet(list, a, p, other, b, q),
           \A y \in 1..q : PermuteLane(b[y], Rate) # IV(Len(list))
    PROVE  ~(p < q)
<1> SUFFICES ASSUME p < q PROVE FALSE
  OBVIOUS
<1>0. IsSequence(a) /\ IsChain(list, a) /\ p = Len(a) /\ IsSequence(b) /\ IsChain(other, b) /\ q = Len(b) /\ p > 0
  BY DEF Meet
<1>1. PICK j \in 1..q : p - 1 = q - j /\ j # 1 /\ j - 1 \in 1..q
  <2>1. q - p + 1 \in 1..q /\ q - p + 1 # 1 /\ q - p + 1 - 1 \in 1..q /\ p - 1 = q - (q - p + 1)
    BY <1>0
  <2>2. PICK j : j = q - p + 1
    OBVIOUS
  <2>3. j \in 1..q /\ p - 1 = q - j /\ j # 1 /\ j - 1 \in 1..q
    BY <2>1, <2>2
  <2> QED BY <2>3
<1>2. 1 \in 1..p
  BY <1>0
<1>3. SameFromTheEnd(a, p, b, q)
  BY SameBackwards
<1>4. a[1] = b[j]
  BY <1>1, <1>2, <1>3 DEF SameFromTheEnd
<1>5. a[1][Rate] = IV(Len(list))
  BY <1>0, <1>2, CapacityOfChain
<1>6. b[j][Rate] = PermuteLane(b[j - 1], Rate)
  BY <1>0, <1>1, CapacityOfChain
<1> QED BY <1>1, <1>4, <1>5, <1>6

(* Sums that are equal are sums of equal elements: the field's addition.   *)
Cancels == \A lane : \A d, e \in Element : Plus(lane, d) = Plus(lane, e) => d = e

(* Equal chains are of equal elements.                                     *)
LEMMA SameElements ==
    ASSUME Cancels,
           NEW list \in Seq(Element), NEW other \in Seq(Element), Len(list) = Len(other),
           NEW a, IsChain(list, a), NEW b, IsChain(other, b),
           NEW p \in Nat, p = Len(a), p = Len(b), Len(list) <= Rate * p,
           \A i \in 1..p : a[i] = b[i]
    PROVE  list = other
<1>1. ASSUME NEW x \in 1..Len(list) PROVE list[x] = other[x]
  <2>1. PICK i \in 1..p, k \in Lane : k # Rate /\ Rate * (i - 1) + k + 1 = x
    <3>1. PICK r \in Nat, i \in Nat : x - 1 = 3 * i + r /\ r < 3
      <4>1. PICK n \in Nat : n = x - 1
        BY <1>1
      <4>2. n = 3 * (n \div 3) + (n % 3) /\ n \div 3 \in Nat /\ n % 3 \in Nat /\ n % 3 < 3
        OBVIOUS
      <4> QED BY <4>1, <4>2
    <3>2. i + 1 \in 1..p /\ r \in Lane /\ r # Rate /\ Rate * (i + 1 - 1) + r + 1 = x
      BY <1>1, <3>1 DEF Lane, Rate
    <3> QED BY <3>2
  <2>2. PICK s : s = StateBefore(list, a, i)
    OBVIOUS
  <2>3. s = StateBefore(other, b, i)
    <3>1. CASE i = 1
      BY <2>2, <3>1 DEF StateBefore
    <3>2. CASE i # 1
      <4>1. i - 1 \in 1..p
        BY <2>1, <3>2
      <4>2. a[i - 1] = b[i - 1]
        BY <4>1
      <4> QED BY <2>2, <3>2, <4>2 DEF StateBefore
    <3> QED BY <3>1, <3>2
  <2>4. a[i] = WithBlock(s, list, i, Len(list)) /\ b[i] = WithBlock(s, other, i, Len(list))
    BY <2>1, <2>2, <2>3 DEF IsChain
  <2>5. Rate * (i - 1) + k < Len(list)
    BY <1>1, <2>1 DEF Lane, Rate
  <2>6. a[i][k] = Plus(s[k], list[x]) /\ b[i][k] = Plus(s[k], other[x])
    BY <2>1, <2>4, <2>5 DEF WithBlock
  <2>7. Plus(s[k], list[x]) = Plus(s[k], other[x])
    BY <2>1, <2>6
  <2>8. list[x] \in Element /\ other[x] \in Element
    BY <1>1
  <2> QED BY <2>7, <2>8 DEF Cancels
<1> QED BY <1>1

-----------------------------------------------------------------------------
(* Whatever the field and the permutation: two lists of any length, of     *)
(* elements zero or not, have one hash only if the permutation collided    *)
(* while they were hashed.  No padding, no length and no moment of a       *)
(* permutation makes a collision of its own (Poseidon2T4, HashT4Sponge).   *)
THEOREM HashOfOneList == ASSUME Cancels PROVE SpongeSpec => []HashesDistinct
<1>1. HistoryInv => HashesDistinct
  <2> SUFFICES ASSUME HistoryInv, squeezeMode, circuit[0] = state[0], ~Collided
               PROVE  circuitInput = inputs
    BY DEF HashesDistinct
  <2>1. PICK a : a = circuitPermuted
    OBVIOUS
  <2>2. PICK b : b = permuted
    OBVIOUS
  <2>3. PICK list \in Seq(Element), other \in Seq(Element) : list = circuitInput /\ other = inputs
    BY DEF HistoryInv, SpongeInv, SpongeTypeOK
  <2>4. IsSequence(a) /\ IsChain(list, a) /\ IsSequence(b) /\ IsChain(other, b)
    BY <2>1, <2>2, <2>3 DEF HistoryInv, CircuitHistory, NativeHistory
  <2>5. PICK p \in Nat, q \in Nat : p = Len(a) /\ q = Len(b)
    BY <2>4 DEF IsSequence
  <2>6. /\ p > 0 /\ q > 0 /\ Len(list) <= Rate * p
        /\ circuit = Permute(a[p]) /\ state = Permute(b[q])
    BY <2>1, <2>2, <2>3, <2>5 DEF HistoryInv, CircuitHistory, NativeHistory
  <2>7. /\ \A i \in 1..p, j \in 1..q : PermuteLane(a[i], Rate) = PermuteLane(b[j], Rate) => a[i] = b[j]
        /\ \A i \in 1..p, j \in 1..q : PermuteLane(a[i], 0) = PermuteLane(b[j], 0) => a[i] = b[j]
        /\ \A j \in 1..q : PermuteLane(b[j], Rate) # IV(Len(list))
        /\ \A i \in 1..p : PermuteLane(a[i], Rate) # IV(Len(other))
    <3>1. (\A i \in 1..p : a[i] \in Permuted) /\ (\A j \in 1..q : b[j] \in Permuted)
      BY <2>1, <2>2, <2>5 DEF Permuted
    <3> QED BY <2>3, <3>1 DEF Collided
  <2>8. a[p] = b[q]
    <3>1. 0 \in Lane /\ p \in 1..p /\ q \in 1..q
      BY <2>6 DEF Lane, Rate
    <3>2. circuit[0] = PermuteLane(a[p], 0) /\ state[0] = PermuteLane(b[q], 0)
      BY <2>6, <3>1 DEF Permute
    <3> QED BY <2>7, <3>1, <3>2
  <2>9. p = q
    <3>1. Meet(list, a, p, other, b, q) /\ Meet(other, b, q, list, a, p)
      BY <2>4, <2>5, <2>6, <2>7, <2>8 DEF Meet
    <3>2. ~(p < q) /\ ~(q < p)
      BY <2>7, <3>1, NotLonger
    <3> QED BY <3>2
  <2>10. ASSUME NEW i \in 1..p PROVE a[i] = b[i]
    <3>1. Meet(list, a, p, other, b, q)
      BY <2>4, <2>5, <2>6, <2>7, <2>8 DEF Meet
    <3>2. SameFromTheEnd(a, p, b, q)
      BY <3>1, SameBackwards
    <3>3. i \in 1..q /\ p - i = q - i
      BY <2>9, <2>10
    <3> QED BY <2>10, <3>2, <3>3 DEF SameFromTheEnd
  <2>11. Len(list) = Len(other)
    <3>1. 1 \in 1..p
      BY <2>6
    <3>2. a[1][Rate] = IV(Len(list)) /\ b[1][Rate] = IV(Len(other))
      BY <2>4, <2>5, <2>9, <3>1, CapacityOfChain
    <3>3. IV(Len(list)) = IV(Len(other))
      BY <2>10, <3>1, <3>2
    <3>4. Len(list) \in 0..MaxLength /\ Len(other) \in 0..MaxLength
      BY <2>3, LengthAssumption DEF HistoryInv, Bounded
    <3> QED BY <3>3, <3>4, LengthsTold
  <2>12. list = other
    BY <2>4, <2>5, <2>6, <2>9, <2>10, <2>11, SameElements
  <2> QED BY <2>3, <2>12
<1> QED BY HistoryKept, <1>1, PTL

-----------------------------------------------------------------------------
(* The appends: numbers in binary.                                         *)

(* The first n + 1 values of a recursion are there, for every n.           *)
IsPow2(n, f) == f = [i \in 0..n |-> IF i = 0 THEN 1 ELSE 2 * f[i - 1]]

LEMMA Pow2Exists == ASSUME NEW n \in Nat PROVE \E f : IsPow2(n, f)
<1> DEFINE Good == {m \in Nat : \E f : IsPow2(m, f)}
<1>1. 0 \in Good
    <2>1. IsPow2(0, [i \in 0..0 |-> 1])
        BY DEF IsPow2
    <2> QED BY <2>1
<1>2. ASSUME NEW m \in Nat, m \in Good PROVE m + 1 \in Good
    <2>1. PICK f : f = [i \in 0..m |-> IF i = 0 THEN 1 ELSE 2 * f[i - 1]]
        BY <1>2 DEF IsPow2
    <2>2. PICK g : g = [i \in 0..m + 1 |-> IF i = m + 1 THEN 2 * f[m] ELSE f[i]]
        OBVIOUS
    <2>3. \A i \in 0..m + 1 : g[i] = IF i = 0 THEN 1 ELSE 2 * g[i - 1]
        BY <2>1, <2>2
    <2>4. IsPow2(m + 1, g)
        BY <2>2, <2>3 DEF IsPow2
    <2> QED BY <2>4
<1> HIDE DEF Good
<1>3. n \in Good
    BY <1>1, <1>2, NatSetInduction
<1> QED BY <1>3 DEF Good

LEMMA Pow2Unique ==
    ASSUME NEW n \in Nat, NEW m \in Nat, NEW f, IsPow2(n, f), NEW g, IsPow2(m, g), NEW l \in Nat,
           l <= n, l <= m
    PROVE  f[l] = g[l]
<1> DEFINE Good == {i \in Nat : i <= n /\ i <= m => f[i] = g[i]}
<1>1. 0 \in Good
    BY DEF IsPow2
<1>2. ASSUME NEW i \in Nat, i \in Good PROVE i + 1 \in Good
    <2> SUFFICES ASSUME i + 1 <= n, i + 1 <= m PROVE f[i + 1] = g[i + 1]
        OBVIOUS
    <2>1. f[i + 1] = 2 * f[i] /\ g[i + 1] = 2 * g[i]
        BY DEF IsPow2
    <2> QED BY <1>2, <2>1
<1> HIDE DEF Good
<1>3. l \in Good
    BY <1>1, <1>2, NatSetInduction
<1> QED BY <1>3 DEF Good

LEMMA Pow2Is == Pow2 = [n \in Nat |-> IF n = 0 THEN 1 ELSE 2 * Pow2[n - 1]]
<1> DEFINE prefix(n) == CHOOSE f : IsPow2(n, f)
<1>1. PICK p : p = [n \in Nat |-> prefix(n)[n]]
    OBVIOUS
<1>2. \A n \in Nat : IsPow2(n, prefix(n))
    BY Pow2Exists
<1> HIDE DEF prefix
<1>3. ASSUME NEW n \in Nat PROVE p[n] = IF n = 0 THEN 1 ELSE 2 * p[n - 1]
    <2>1. PICK f : f = prefix(n) /\ IsPow2(n, f)
        BY <1>2
    <2>2. f[n] = IF n = 0 THEN 1 ELSE 2 * f[n - 1]
        BY <2>1 DEF IsPow2
    <2>3. CASE n # 0
        <3>1. PICK m \in Nat : m = n - 1
            BY <2>3
        <3>2. PICK g : g = prefix(m) /\ IsPow2(m, g)
            BY <1>2
        <3>3. f[m] = g[m]
            BY <2>1, <3>1, <3>2, Pow2Unique
        <3> QED BY <1>1, <2>1, <2>2, <2>3, <3>1, <3>2, <3>3
    <2> QED BY <1>1, <2>1, <2>2, <2>3
<1>4. p = [n \in Nat |-> IF n = 0 THEN 1 ELSE 2 * p[n - 1]]
    BY <1>1, <1>3
<1> QED BY <1>4 DEF Pow2

LEMMA Pow2Step ==
    /\ Pow2[0] = 1
    /\ \A n \in Nat : Pow2[n] \in Nat \ {0} /\ Pow2[n + 1] = 2 * Pow2[n]
<1>1. Pow2[0] = 1 /\ \A n \in Nat : Pow2[n + 1] = 2 * Pow2[n]
    <2>1. \A n \in Nat : Pow2[n] = IF n = 0 THEN 1 ELSE 2 * Pow2[n - 1]
        BY Pow2Is
    <2> QED BY <2>1
<1> DEFINE Good == {n \in Nat : Pow2[n] \in Nat \ {0}}
<1>2. 0 \in Good
    BY <1>1
<1>3. ASSUME NEW n \in Nat, n \in Good PROVE n + 1 \in Good
    BY <1>1, <1>3
<1> HIDE DEF Good
<1>4. \A n \in Nat : n \in Good
    BY <1>2, <1>3, NatSetInduction
<1> QED BY <1>1, <1>4 DEF Good

(* Every number is less than its power of two.                             *)
LEMMA Pow2Grows ==
    /\ \A n \in Nat : n < Pow2[n]
    /\ \A n, m \in Nat : m <= n => Pow2[m] <= Pow2[n]
<1>1. \A n \in Nat : n < Pow2[n]
    <2> DEFINE Good == {n \in Nat : n < Pow2[n]}
    <2>1. 0 \in Good
        BY Pow2Step
    <2>2. ASSUME NEW n \in Nat, n \in Good PROVE n + 1 \in Good
        <3>1. Pow2[n] \in Nat /\ Pow2[n + 1] = 2 * Pow2[n]
            BY Pow2Step
        <3> QED BY <2>2, <3>1
    <2> HIDE DEF Good
    <2>3. \A n \in Nat : n \in Good
        BY <2>1, <2>2, NatSetInduction
    <2> QED BY <2>3 DEF Good
<1>2. ASSUME NEW m \in Nat PROVE \A n \in Nat : m <= n => Pow2[m] <= Pow2[n]
    <2> DEFINE Good == {n \in Nat : m <= n => Pow2[m] <= Pow2[n]}
    <2>1. 0 \in Good
        BY Pow2Step
    <2>2. ASSUME NEW n \in Nat, n \in Good PROVE n + 1 \in Good
        <3>1. Pow2[n] \in Nat /\ Pow2[m] \in Nat /\ Pow2[n + 1] = 2 * Pow2[n]
            BY Pow2Step
        <3>2. CASE m = n + 1
            BY <3>1, <3>2
        <3>3. CASE m # n + 1
            BY <2>2, <3>1, <3>3
        <3> QED BY <3>2, <3>3
    <2> HIDE DEF Good
    <2>3. \A n \in Nat : n \in Good
        BY <2>1, <2>2, NatSetInduction
    <2> QED BY <2>3 DEF Good
<1> QED BY <1>1, <1>2

(* bitsFor is a width.                                                     *)
LEMMA WidthFits ==
    ASSUME NEW n \in Nat
    PROVE  bitsFor(n) \in Nat /\ n < Pow2[bitsFor(n)]
<1> DEFINE Wide == {w \in 0..n : n < Pow2[w]}
           Good == {k \in Nat : k < n => Pow2[k] <= n}
<1>1. ASSUME ~\E w \in 0..n : Pow2[w] > n /\ \A v \in 0..w-1 : Pow2[v] <= n
      PROVE  FALSE
    <2> DEFINE Narrow == {k \in Nat : \A v \in 0..k : v <= n => Pow2[v] <= n}
    <2>1. 0 \in Narrow
        BY <1>1, Pow2Step
    <2>2. ASSUME NEW k \in Nat, k \in Narrow PROVE k + 1 \in Narrow
        <3>1. Pow2[k + 1] \in Nat
            BY Pow2Step
        <3>2. k + 1 <= n => Pow2[k + 1] <= n
            BY <1>1, <2>2, <3>1
        <3> QED BY <2>2, <3>2
    <2> HIDE DEF Narrow
    <2>3. n \in Narrow
        BY <2>1, <2>2, NatSetInduction
    <2>4. Pow2[n] <= n
        BY <2>3 DEF Narrow
    <2> QED BY <2>4, Pow2Grows, Pow2Step
<1> QED BY <1>1 DEF bitsFor

(* What a quotient is.                                                     *)
LEMMA QuotientIs ==
    ASSUME NEW n \in Nat, NEW p \in Nat \ {0}, NEW q \in Nat, p * q <= n, n < p * q + p
    PROVE  n \div p = q
BY Z3

LEMMA QuotientBounds ==
    ASSUME NEW n \in Nat, NEW p \in Nat \ {0}
    PROVE  /\ n \div p \in Nat
           /\ p * (n \div p) <= n
           /\ n < p * (n \div p) + p
BY Z3

LEMMA QuotientLess ==
    ASSUME NEW n \in Nat, NEW p \in Nat \ {0}, NEW q \in Nat
    PROVE  /\ n < p * q <=> n \div p < q
           /\ p * q <= n <=> q <= n \div p
BY Z3

(* Every bit halves a number.                                              *)
LEMMA Halving ==
    ASSUME NEW n \in Nat, NEW l \in Nat
    PROVE  /\ n \div Pow2[0] = n
           /\ n \div Pow2[l] \in Nat /\ n \div Pow2[l + 1] \in Nat
           /\ n \div Pow2[l + 1] = (n \div Pow2[l]) \div 2
           /\ n \div Pow2[l] = 2 * (n \div Pow2[l + 1]) + (IF Bit(n, l) THEN 1 ELSE 0)
<1>1. PICK p \in Nat \ {0} : p = Pow2[l] /\ 2 * p = Pow2[l + 1]
    BY Pow2Step
<1>2. (n \div p) \div 2 = n \div (2 * p)
    BY Z3
<1>3. n \div p \in Nat
    BY QuotientBounds
<1>4. PICK q \in Nat : q = n \div p
    BY <1>3
<1>5. q = 2 * (q \div 2) + (IF q % 2 = 1 THEN 1 ELSE 0)
    OBVIOUS
<1>6. n \div 1 = n
    OBVIOUS
<1>7. q \div 2 \in Nat
    OBVIOUS
<1> QED BY <1>1, <1>2, <1>4, <1>5, <1>6, <1>7, Pow2Step DEF Bit

LEMMA Halves ==
    ASSUME NEW n \in Nat, NEW l \in Nat
    PROVE  \E q, r \in Nat : /\ q = n \div Pow2[l] /\ r = n \div Pow2[l + 1]
                             /\ q = IF Bit(n, l) THEN 2*r + 1 ELSE 2*r
<1>1. PICK q, r : q = n \div Pow2[l] /\ r = n \div Pow2[l + 1]
    OBVIOUS
<1>2. q \in Nat /\ r \in Nat /\ q = 2*r + (IF Bit(n, l) THEN 1 ELSE 0)
    BY <1>1, Halving, Zenon
<1>3. q = IF Bit(n, l) THEN 2*r + 1 ELSE 2*r
    BY <1>2
<1> QED BY <1>1, <1>2, <1>3

(* One more: the carry runs through the bits that are set.                 *)
LEMMA CountUp ==
    ASSUME NEW n \in Nat
    PROVE  \A l \in Nat : (n + 1) \div Pow2[l] = (n \div Pow2[l]) + (IF AllSet(n, l) THEN 1 ELSE 0)
<1> DEFINE Good == {l \in Nat : (n + 1) \div Pow2[l] = (n \div Pow2[l]) + (IF AllSet(n, l) THEN 1 ELSE 0)}
<1>1. 0 \in Good
    <2>1. AllSet(n, 0)
        BY DEF AllSet
    <2> QED BY <2>1, Halving
<1>2. ASSUME NEW l \in Nat, l \in Good PROVE l + 1 \in Good
    <2>0. n + 1 \in Nat
        OBVIOUS
    <2>1. PICK q \in Nat, r \in Nat : q = n \div Pow2[l] /\ r = (n + 1) \div Pow2[l]
        BY <2>0, Halving
    <2>2. n \div Pow2[l + 1] = q \div 2 /\ (n + 1) \div Pow2[l + 1] = r \div 2
        BY <2>0, <2>1, Halving
    <2>3. r = q + (IF AllSet(n, l) THEN 1 ELSE 0)
        BY <1>2, <2>1
    <2>4. AllSet(n, l + 1) <=> AllSet(n, l) /\ q % 2 = 1
        <3>1. 0..(l + 1) - 1 = (0..l - 1) \cup {l}
            OBVIOUS
        <3> QED BY <2>1, <3>1 DEF AllSet, Bit
    <2>5. r \div 2 = (q \div 2) + (IF AllSet(n, l) /\ q % 2 = 1 THEN 1 ELSE 0)
        BY <2>1, <2>3
    <2> QED BY <2>2, <2>4, <2>5
<1> HIDE DEF Good
<1>3. \A l \in Nat : l \in Good
    BY <1>1, <1>2, NatSetInduction
<1> QED BY <1>3 DEF Good

(* Below the capacity there is nothing left at the top.                    *)
LEMMA TopIsZero ==
    /\ Depth \in Nat /\ Depth > 0 /\ Capacity \in Nat \ {0}
    /\ \A n \in Nat : n < Capacity <=> n \div Pow2[Depth] = 0
    /\ Capacity \div Pow2[Depth] = 1
<1>1. Depth \in Nat /\ Depth > 0
    BY DepthAssumption
<1>2. PICK p \in Nat \ {0} : p = Pow2[Depth]
    BY <1>1, Pow2Step
<1>3. \A n \in Nat : n < p <=> n \div p = 0
    <2> SUFFICES ASSUME NEW n \in Nat PROVE n < p <=> n \div p = 0
        OBVIOUS
    <2>1. n < p * 1 <=> n \div p < 1
        BY <1>2, QuotientLess
    <2> QED BY <2>1, QuotientBounds
<1>4. p \div p = 1
    BY Z3
<1> QED BY <1>1, <1>2, <1>3, <1>4 DEF Capacity

-----------------------------------------------------------------------------
(* Trees.                                                                  *)

IsZeros(n, f) == f = [l \in 0..n |-> IF l = 0 THEN Zero ELSE Poseidon2T4(f[l-1], f[l-1])]

LEMMA ZerosAre ==
    /\ Zeros[0] = Zero
    /\ \A l \in Nat : l < Depth => Zeros[l + 1] = Poseidon2T4(Zeros[l], Zeros[l])
<1> DEFINE Good == {m \in Nat : \E f : IsZeros(m, f)}
<1>1. 0 \in Good
    <2>1. IsZeros(0, [i \in 0..0 |-> Zero])
        BY DEF IsZeros
    <2> QED BY <2>1
<1>2. ASSUME NEW m \in Nat, m \in Good PROVE m + 1 \in Good
    <2>1. PICK f : f = [l \in 0..m |-> IF l = 0 THEN Zero ELSE Poseidon2T4(f[l-1], f[l-1])]
        BY <1>2 DEF IsZeros
    <2>2. PICK g : g = [l \in 0..m + 1 |-> IF l = m + 1 THEN Poseidon2T4(f[m], f[m]) ELSE f[l]]
        OBVIOUS
    <2>3. \A l \in 0..m + 1 : g[l] = IF l = 0 THEN Zero ELSE Poseidon2T4(g[l-1], g[l-1])
        BY <2>1, <2>2
    <2>4. IsZeros(m + 1, g)
        BY <2>2, <2>3 DEF IsZeros
    <2> QED BY <2>4
<1> HIDE DEF Good
<1>3. Depth \in Good
    BY <1>1, <1>2, NatSetInduction, TopIsZero
<1>4. Zeros = [l \in 0..Depth |-> IF l = 0 THEN Zero ELSE Poseidon2T4(Zeros[l-1], Zeros[l-1])]
    BY <1>3 DEF Good, IsZeros, Zeros
<1> HIDE DEF Good
<1>5. \A l \in 0..Depth : Zeros[l] = IF l = 0 THEN Zero ELSE Poseidon2T4(Zeros[l-1], Zeros[l-1])
    BY <1>4
<1> QED BY <1>5, TopIsZero

LeafAt(s, i) == IF i + 1 \in DOMAIN s THEN s[i + 1] ELSE Zero

IsNodes(n, f, s) ==
    f = [l \in 0..n |-> [i \in Nat |-> IF l = 0 THEN LeafAt(s, i)
                                       ELSE Poseidon2T4(f[l-1][2*i], f[l-1][2*i + 1])]]

LEMMA NodeIs ==
    ASSUME NEW s
    PROVE  /\ \A i \in Nat : Node(s, 0, i) = LeafAt(s, i)
           /\ \A l, i \in Nat : l < Depth =>
                Node(s, l + 1, i) = Poseidon2T4(Node(s, l, 2*i), Node(s, l, 2*i + 1))
<1> DEFINE Good == {m \in Nat : \E f : IsNodes(m, f, s)}
<1>1. 0 \in Good
    <2>1. IsNodes(0, [l \in 0..0 |-> [i \in Nat |-> LeafAt(s, i)]], s)
        BY DEF IsNodes
    <2> QED BY <2>1
<1>2. ASSUME NEW m \in Nat, m \in Good PROVE m + 1 \in Good
    <2>1. PICK f : IsNodes(m, f, s)
        BY <1>2
    <2>2. PICK g : g = [l \in 0..m + 1 |->
                          IF l = m + 1 THEN [i \in Nat |-> Poseidon2T4(f[m][2*i], f[m][2*i + 1])]
                                       ELSE f[l]]
        OBVIOUS
    <2>3. ASSUME NEW l \in 0..m + 1
          PROVE  g[l] = [i \in Nat |-> IF l = 0 THEN LeafAt(s, i)
                                       ELSE Poseidon2T4(g[l-1][2*i], g[l-1][2*i + 1])]
        <3>1. CASE l = m + 1
            BY <2>2, <3>1
        <3>2. CASE l # m + 1
            <4>1. l \in 0..m
                BY <3>2
            <4>2. f[l] = [i \in Nat |-> IF l = 0 THEN LeafAt(s, i)
                                        ELSE Poseidon2T4(f[l-1][2*i], f[l-1][2*i + 1])]
                BY <2>1, <4>1 DEF IsNodes
            <4>3. g[l] = f[l] /\ (l # 0 => g[l-1] = f[l-1])
                BY <2>2, <4>1
            <4> QED BY <4>2, <4>3
        <3> QED BY <3>1, <3>2
    <2>4. IsNodes(m + 1, g, s)
        BY ZenonT(30), <2>2, <2>3 DEF IsNodes
    <2> QED BY <2>4
<1> HIDE DEF Good
<1>3. Depth \in Good
    BY <1>1, <1>2, NatSetInduction, TopIsZero
<1>4. IsNodes(Depth, Nodes(s), s)
    BY ZenonT(30), <1>3 DEF Good, IsNodes, Nodes, LeafAt
<1>5. PICK f : f = Nodes(s)
    OBVIOUS
<1>6. \A l \in 0..Depth :
        f[l] = [i \in Nat |-> IF l = 0 THEN LeafAt(s, i)
                              ELSE Poseidon2T4(f[l-1][2*i], f[l-1][2*i + 1])]
    BY <1>4, <1>5 DEF IsNodes
<1>7. \A i \in Nat : f[0][i] = LeafAt(s, i)
    <2>1. f[0] = [i \in Nat |-> LeafAt(s, i)]
        BY <1>6, TopIsZero
    <2> QED BY <2>1
<1>8. ASSUME NEW l \in Nat, NEW i \in Nat, l < Depth
      PROVE  f[l + 1][i] = Poseidon2T4(f[l][2*i], f[l][2*i + 1])
    <2>1. l + 1 \in 0..Depth /\ l + 1 # 0 /\ (l + 1) - 1 = l
        BY <1>8, TopIsZero
    <2>2. f[l + 1] = [j \in Nat |-> Poseidon2T4(f[l][2*j], f[l][2*j + 1])]
        BY <1>6, <2>1
    <2> QED BY <2>2
<1> QED BY <1>5, <1>7, <1>8 DEF Node

(* Full subtrees do not change when leaves are added ...                   *)
LEMMA NodeKept ==
    ASSUME NEW s, NEW n \in Nat, Len(s) = n, DOMAIN s = 1..n,
           NEW t, DOMAIN s \subseteq DOMAIN t, \A i \in 1..n : t[i] = s[i]
    PROVE  \A l, i \in Nat : l <= Depth /\ i < n \div Pow2[l] => Node(t, l, i) = Node(s, l, i)
<1> DEFINE Good == {l \in Nat : l <= Depth =>
                        \A i \in Nat : i < n \div Pow2[l] => Node(t, l, i) = Node(s, l, i)}
<1>1. 0 \in Good
    <2> SUFFICES ASSUME NEW i \in Nat, i < n \div Pow2[0] PROVE Node(t, 0, i) = Node(s, 0, i)
        OBVIOUS
    <2>1. i < n
        BY Halving
    <2>2. i + 1 \in 1..n
        BY <2>1
    <2>3. LeafAt(t, i) = LeafAt(s, i)
        BY <2>2 DEF LeafAt
    <2> QED BY <2>3, NodeIs
<1>2. ASSUME NEW l \in Nat, l \in Good PROVE l + 1 \in Good
    <2> SUFFICES ASSUME l + 1 <= Depth, NEW i \in Nat, i < n \div Pow2[l + 1]
                 PROVE  Node(t, l + 1, i) = Node(s, l + 1, i)
        OBVIOUS
    <2>1. PICK q, r \in Nat : q = n \div Pow2[l] /\ r = n \div Pow2[l + 1] 
                              /\ q = IF Bit(n, l) THEN 2*r + 1 ELSE 2*r
        BY Halves
    <2>2. 2*i < q /\ 2*i + 1 < q /\ 2*i \in Nat /\ 2*i + 1 \in Nat
        BY <2>1
    <2>3. l < Depth /\ l <= Depth
        BY TopIsZero
    <2>4. Node(t, l, 2*i) = Node(s, l, 2*i) /\ Node(t, l, 2*i + 1) = Node(s, l, 2*i + 1)
        BY <1>2, <2>1, <2>2, <2>3
    <2>5. \A u : Node(u, l + 1, i) = Poseidon2T4(Node(u, l, 2*i), Node(u, l, 2*i + 1))
        BY <2>3, NodeIs
    <2> QED BY <2>4, <2>5
<1> HIDE DEF Good
<1>3. \A l \in Nat : l \in Good
    BY <1>1, <1>2, NatSetInduction
<1> QED BY <1>3 DEF Good

(* ... and those beyond the last leaf are empty.                           *)
LEMMA NodeEmpty ==
    ASSUME NEW s, NEW n \in Nat, DOMAIN s = 1..n
    PROVE  \A l, i \in Nat : l <= Depth /\ (n = 0 \/ n \div Pow2[l] < i) => Node(s, l, i) = Zeros[l]
<1> DEFINE Good == {l \in Nat : l <= Depth =>
                        \A i \in Nat : n = 0 \/ n \div Pow2[l] < i => Node(s, l, i) = Zeros[l]}
<1>1. 0 \in Good
    <2> SUFFICES ASSUME NEW i \in Nat, n = 0 \/ n \div Pow2[0] < i PROVE Node(s, 0, i) = Zeros[0]
        OBVIOUS
    <2>1. i + 1 \notin 1..n
        BY Halving
    <2>2. LeafAt(s, i) = Zero
        BY <2>1 DEF LeafAt
    <2> QED BY <2>2, NodeIs, ZerosAre
<1>2. ASSUME NEW l \in Nat, l \in Good PROVE l + 1 \in Good
    <2> SUFFICES ASSUME l + 1 <= Depth, NEW i \in Nat, n = 0 \/ n \div Pow2[l + 1] < i
                 PROVE  Node(s, l + 1, i) = Zeros[l + 1]
        OBVIOUS
    <2>1. PICK q, r \in Nat : q = n \div Pow2[l] /\ r = n \div Pow2[l + 1] 
                              /\ q = IF Bit(n, l) THEN 2*r + 1 ELSE 2*r
        BY Halves
    <2>2. /\ n = 0 \/ (q < 2*i /\ q < 2*i + 1)
          /\ 2*i \in Nat /\ 2*i + 1 \in Nat
        BY <2>1
    <2>3. l < Depth /\ l <= Depth
        BY TopIsZero
    <2>4. Node(s, l, 2*i) = Zeros[l] /\ Node(s, l, 2*i + 1) = Zeros[l]
        BY <1>2, <2>1, <2>2, <2>3
    <2> QED BY <2>3, <2>4, NodeIs, ZerosAre
<1> HIDE DEF Good
<1>3. \A l \in Nat : l \in Good
    BY <1>1, <1>2, NatSetInduction
<1> QED BY <1>3 DEF Good

-----------------------------------------------------------------------------
(* Roots and frontiers.                                                    *)

IsCurrent(m, f, frontier, n) ==
    f = [l \in 0..m |->
            IF l = 0 THEN Zero
            ELSE IF Bit(n, l-1) THEN Poseidon2T4(frontier[l-1], f[l-1])
                                ELSE Poseidon2T4(f[l-1], Zeros[l-1])]

LEMMA RootUpToIs ==
    ASSUME NEW frontier, NEW n
    PROVE  /\ RootUpTo(frontier, n)[0] = Zero
           /\ \A l \in Nat : l < Depth =>
                RootUpTo(frontier, n)[l + 1] =
                    IF Bit(n, l) THEN Poseidon2T4(frontier[l], RootUpTo(frontier, n)[l])
                                 ELSE Poseidon2T4(RootUpTo(frontier, n)[l], Zeros[l])
<1> DEFINE Good == {m \in Nat : \E f : IsCurrent(m, f, frontier, n)}
<1>1. 0 \in Good
    <2>1. IsCurrent(0, [l \in 0..0 |-> Zero], frontier, n)
        BY DEF IsCurrent
    <2> QED BY <2>1
<1>2. ASSUME NEW m \in Nat, m \in Good PROVE m + 1 \in Good
    <2>1. PICK f : f = [l \in 0..m |->
                          IF l = 0 THEN Zero
                          ELSE IF Bit(n, l-1) THEN Poseidon2T4(frontier[l-1], f[l-1])
                                              ELSE Poseidon2T4(f[l-1], Zeros[l-1])]
        BY <1>2 DEF IsCurrent
    <2>2. PICK g : g = [l \in 0..m + 1 |->
                          IF l = m + 1
                          THEN IF Bit(n, m) THEN Poseidon2T4(frontier[m], f[m])
                                            ELSE Poseidon2T4(f[m], Zeros[m])
                          ELSE f[l]]
        OBVIOUS
    <2>3. \A l \in 0..m + 1 : g[l] =
            IF l = 0 THEN Zero
            ELSE IF Bit(n, l-1) THEN Poseidon2T4(frontier[l-1], g[l-1])
                                ELSE Poseidon2T4(g[l-1], Zeros[l-1])
        BY <2>1, <2>2
    <2>4. IsCurrent(m + 1, g, frontier, n)
        BY <2>2, <2>3 DEF IsCurrent
    <2> QED BY <2>4
<1> HIDE DEF Good
<1>3. Depth \in Good
    BY <1>1, <1>2, NatSetInduction, TopIsZero
<1>4. IsCurrent(Depth, RootUpTo(frontier, n), frontier, n)
    BY <1>3 DEF Good, IsCurrent, RootUpTo
<1>5. PICK f : f = RootUpTo(frontier, n)
    OBVIOUS
<1>6. \A l \in 0..Depth : f[l] =
        IF l = 0 THEN Zero
        ELSE IF Bit(n, l-1) THEN Poseidon2T4(frontier[l-1], f[l-1])
                            ELSE Poseidon2T4(f[l-1], Zeros[l-1])
    BY <1>4, <1>5 DEF IsCurrent
<1> QED BY <1>5, <1>6, TopIsZero

IsCarry(m, f, frontier, n, leaf) ==
    f = [l \in 0..m |->
            IF l = 0 THEN leaf
            ELSE IF AllSet(n, l) THEN Poseidon2T4(frontier[l-1], f[l-1]) ELSE f[l-1]]

LEMMA CarryIs ==
    ASSUME NEW frontier, NEW n, NEW leaf
    PROVE  /\ Carry(frontier, n, leaf)[0] = leaf
           /\ \A l \in Nat : l < Depth =>
                Carry(frontier, n, leaf)[l + 1] =
                    IF AllSet(n, l + 1) THEN Poseidon2T4(frontier[l], Carry(frontier, n, leaf)[l])
                                        ELSE Carry(frontier, n, leaf)[l]
<1> DEFINE Good == {m \in Nat : \E f : IsCarry(m, f, frontier, n, leaf)}
<1>1. 0 \in Good
    <2>1. IsCarry(0, [l \in 0..0 |-> leaf], frontier, n, leaf)
        BY DEF IsCarry
    <2> QED BY <2>1
<1>2. ASSUME NEW m \in Nat, m \in Good PROVE m + 1 \in Good
    <2>1. PICK f : f = [l \in 0..m |->
                          IF l = 0 THEN leaf
                          ELSE IF AllSet(n, l) THEN Poseidon2T4(frontier[l-1], f[l-1]) ELSE f[l-1]]
        BY <1>2 DEF IsCarry
    <2>2. PICK g : g = [l \in 0..m + 1 |->
                          IF l = m + 1
                          THEN IF AllSet(n, l) THEN Poseidon2T4(frontier[m], f[m]) ELSE f[m]
                          ELSE f[l]]
        OBVIOUS
    <2>3. \A l \in 0..m + 1 : g[l] =
            IF l = 0 THEN leaf
            ELSE IF AllSet(n, l) THEN Poseidon2T4(frontier[l-1], g[l-1]) ELSE g[l-1]
        BY <2>1, <2>2
    <2>4. IsCarry(m + 1, g, frontier, n, leaf)
        BY <2>2, <2>3 DEF IsCarry
    <2> QED BY <2>4
<1> HIDE DEF Good
<1>3. Depth \in Good
    BY <1>1, <1>2, NatSetInduction, TopIsZero
<1>4. IsCarry(Depth, Carry(frontier, n, leaf), frontier, n, leaf)
    BY <1>3 DEF Good, IsCarry, Carry
<1>5. PICK f : f = Carry(frontier, n, leaf)
    OBVIOUS
<1>6. \A l \in 0..Depth : f[l] =
        IF l = 0 THEN leaf
        ELSE IF AllSet(n, l) THEN Poseidon2T4(frontier[l-1], f[l-1]) ELSE f[l-1]
    BY <1>4, <1>5 DEF IsCarry
<1> QED BY <1>5, <1>6, TopIsZero

(* The frontier of a list: the left siblings of the path to the next leaf. *)
FrontierOf(f, s) ==
    \A l \in Level : Bit(Len(s), l) => f[l] = Node(s, l, (Len(s) \div Pow2[l]) - 1)

(* It gives the root ...                                                   *)
LEMMA RootOfFrontier ==
    ASSUME NEW s \in Seq(Commitment), Len(s) < Capacity, NEW f, FrontierOf(f, s)
    PROVE  computeRootFromFrontier(f, Len(s)) = MerkleRoot(s)
<1> DEFINE n == Len(s)
           Good == {l \in Nat : l <= Depth =>
                        RootUpTo(f, n)[l] = Node(s, l, n \div Pow2[l])}
<1>1. n \in Nat /\ DOMAIN s = 1..n /\ SafeCount(n) = n
    BY DEF SafeCount
<1> HIDE DEF n
<1>2. 0 \in Good
    <2>1. Node(s, 0, n) = Zero
        <3>1. n + 1 \notin 1..n
            BY <1>1
        <3> QED BY <1>1, <3>1, NodeIs DEF LeafAt
    <2> QED BY <1>1, <2>1, RootUpToIs, Halving
<1>3. ASSUME NEW l \in Nat, l \in Good PROVE l + 1 \in Good
    <2> SUFFICES ASSUME l + 1 <= Depth
                 PROVE  RootUpTo(f, n)[l + 1] = Node(s, l + 1, n \div Pow2[l + 1])
        OBVIOUS
    <2>1. PICK q, r \in Nat : /\ q = n \div Pow2[l] /\ r = n \div Pow2[l + 1]
                              /\ q = IF Bit(n, l) THEN 2*r + 1 ELSE 2*r
        BY <1>1, Halves
    <2>2. l < Depth /\ l <= Depth /\ l \in Level
        BY TopIsZero DEF Level
    <2>3. RootUpTo(f, n)[l] = Node(s, l, q)
        BY <1>3, <2>1, <2>2
    <2>4. Node(s, l + 1, r) = Poseidon2T4(Node(s, l, 2*r), Node(s, l, 2*r + 1))
        BY <2>2, NodeIs
    <2>5. CASE Bit(n, l)
        <3>1. f[l] = Node(s, l, q - 1)
            BY <2>1, <2>2, <2>5 DEF FrontierOf, n
        <3>2. q = 2*r + 1 /\ q - 1 = 2*r
            BY <2>1, <2>5
        <3>3. RootUpTo(f, n)[l + 1] = Poseidon2T4(f[l], RootUpTo(f, n)[l])
            BY <2>2, <2>5, RootUpToIs
        <3> QED BY <2>1, <2>3, <2>4, <3>1, <3>2, <3>3
    <2>6. CASE ~Bit(n, l)
        <3>1. q = 2*r /\ q < 2*r + 1 /\ 2*r + 1 \in Nat
            BY <2>1, <2>6
        <3>2. Node(s, l, 2*r + 1) = Zeros[l]
            BY <1>1, <2>1, <2>2, <3>1, NodeEmpty
        <3>3. RootUpTo(f, n)[l + 1] = Poseidon2T4(RootUpTo(f, n)[l], Zeros[l])
            BY <2>2, <2>6, RootUpToIs
        <3> QED BY <2>1, <2>3, <2>4, <3>1, <3>2, <3>3
    <2> QED BY <2>5, <2>6
<1> HIDE DEF Good
<1>4. Depth \in Good
    BY <1>2, <1>3, NatSetInduction, TopIsZero
<1>5. n \div Pow2[Depth] = 0
    BY <1>1, TopIsZero DEF n
<1>6. RootUpTo(f, n)[Depth] = Node(s, Depth, 0)
    BY <1>4, <1>5, TopIsZero DEF Good
<1> QED BY <1>1, <1>6 DEF n, computeRootFromFrontier, MerkleRoot

(* ... and nothing else does.                                              *)
LEMMA FrontierOfRoot ==
    ASSUME NEW s \in Seq(Commitment), Len(s) < Capacity,
           NEW f, computeRootFromFrontier(f, Len(s)) = MerkleRoot(s)
    PROVE  FrontierOf(f, s)
<1> DEFINE n == Len(s)
           Same(l) == RootUpTo(f, n)[l] = Node(s, l, n \div Pow2[l])
           Good == {d \in Nat : d <= Depth => Same(Depth - d)}
<1>1. n \in Nat /\ DOMAIN s = 1..n /\ SafeCount(n) = n
    BY DEF SafeCount
<1>2. n \div Pow2[Depth] = 0
    BY <1>1, TopIsZero
<1>3. Same(Depth)
    BY <1>1, <1>2 DEF computeRootFromFrontier, MerkleRoot
<1> HIDE DEF n
<1>4. ASSUME NEW l \in Level, Same(l + 1)
      PROVE  Same(l) /\ (Bit(n, l) => f[l] = Node(s, l, (n \div Pow2[l]) - 1))
    <2>1. l \in Nat /\ l < Depth
        BY TopIsZero DEF Level
    <2>2. PICK q, r \in Nat : /\ q = n \div Pow2[l] /\ r = n \div Pow2[l + 1]
                              /\ q = IF Bit(n, l) THEN 2*r + 1 ELSE 2*r
        BY <1>1, <2>1, Halves
    <2>3. RootUpTo(f, n)[l + 1] = Poseidon2T4(Node(s, l, 2*r), Node(s, l, 2*r + 1))
        BY <1>4, <2>1, <2>2, NodeIs
    <2>4. CASE Bit(n, l)
        <3>1. q = 2*r + 1 /\ q - 1 = 2*r
            BY <2>2, <2>4
        <3>2. RootUpTo(f, n)[l + 1] = Poseidon2T4(f[l], RootUpTo(f, n)[l])
            BY <2>1, <2>4, RootUpToIs
        <3>3. f[l] = Node(s, l, 2*r) /\ RootUpTo(f, n)[l] = Node(s, l, 2*r + 1)
            BY <2>3, <3>2 DEF Poseidon2T4
        <3> QED BY <2>2, <3>1, <3>3
    <2>5. CASE ~Bit(n, l)
        <3>1. RootUpTo(f, n)[l + 1] = Poseidon2T4(RootUpTo(f, n)[l], Zeros[l])
            BY <2>1, <2>5, RootUpToIs
        <3>2. RootUpTo(f, n)[l] = Node(s, l, 2*r)
            BY <2>3, <3>1 DEF Poseidon2T4
        <3> QED BY <2>2, <2>5, <3>2
    <2> QED BY <2>4, <2>5
<1> HIDE DEF Same
<1>5. 0 \in Good
    BY <1>3, TopIsZero
<1>6. ASSUME NEW d \in Nat, d \in Good PROVE d + 1 \in Good
    <2> SUFFICES ASSUME d + 1 <= Depth PROVE Same(Depth - (d + 1))
        OBVIOUS
    <2>1. Depth - (d + 1) \in Level /\ (Depth - (d + 1)) + 1 = Depth - d
        BY TopIsZero DEF Level
    <2> QED BY <1>4, <1>6, <2>1, TopIsZero
<1> HIDE DEF Good
<1>7. \A d \in Nat : d \in Good
    BY <1>5, <1>6, NatSetInduction
<1>8. \A l \in Level : Same(l + 1)
    <2> SUFFICES ASSUME NEW l \in Level PROVE Same(l + 1)
        OBVIOUS
    <2>1. Depth - (l + 1) \in Nat /\ Depth - (Depth - (l + 1)) = l + 1 /\ Depth - (l + 1) <= Depth
        BY TopIsZero DEF Level
    <2> QED BY <1>7, <2>1 DEF Good
<1> QED BY <1>4, <1>8 DEF FrontierOf, n

(* One more leaf (helpers.go appendFrontier): its frontier is that of the  *)
(* longer list, and when the tree is full the carry is its root.           *)
LEMMA AppendOne ==
    ASSUME NEW s \in Seq(Commitment), Len(s) < Capacity, NEW f, FrontierOf(f, s),
           NEW x \in Commitment
    PROVE  LET r == appendFrontier(f, Len(s), x)
               t == Append(s, x)
           IN  /\ r.count = Len(t)
               /\ Len(t) < Capacity => FrontierOf(r.frontier, t)
               /\ Len(t) = Capacity => r.finalCarry = MerkleRoot(t)
<1> DEFINE n == Len(s)
           t == Append(s, x)
           carry == Carry(f, n, x)
           next == [l \in Level |-> IF AllSet(n, l) THEN Mul(~Bit(n, l), carry[l]) ELSE f[l]]
           Good == {l \in Nat : l <= Depth /\ AllSet(n, l) =>
                        carry[l] = Node(t, l, n \div Pow2[l])}
<1>1. /\ n \in Nat /\ DOMAIN s = 1..n /\ SafeCount(n) = n
      /\ Len(t) = n + 1 /\ DOMAIN t = 1..n + 1 /\ t[n + 1] = x
      /\ \A i \in 1..n : t[i] = s[i]
    BY DEF SafeCount
<1>2. appendFrontier(f, n, x) = [frontier |-> next, count |-> n + 1, finalCarry |-> carry[Depth]]
    BY <1>1 DEF appendFrontier
<1> HIDE DEF n, t, carry
<1>3. \A l, i \in Nat : l <= Depth /\ i < n \div Pow2[l] => Node(t, l, i) = Node(s, l, i)
    <2>1. DOMAIN s \subseteq DOMAIN t
        BY <1>1
    <2> QED BY <1>1, <2>1, NodeKept DEF n
<1>4. 0 \in Good
    <2>1. carry[0] = x
        BY CarryIs DEF carry
    <2>2. n + 1 \in DOMAIN t
        BY <1>1
    <2>3. LeafAt(t, n) = x
        BY <1>1, <2>2 DEF LeafAt
    <2> QED BY <1>1, <2>1, <2>3, NodeIs, Halving
<1>5. ASSUME NEW l \in Nat, l \in Good PROVE l + 1 \in Good
    <2> SUFFICES ASSUME l + 1 <= Depth, AllSet(n, l + 1)
                 PROVE  carry[l + 1] = Node(t, l + 1, n \div Pow2[l + 1])
        OBVIOUS
    <2>1. AllSet(n, l) /\ Bit(n, l)
        BY DEF AllSet
    <2>2. PICK q, r \in Nat : /\ q = n \div Pow2[l] /\ r = n \div Pow2[l + 1]
                              /\ q = IF Bit(n, l) THEN 2*r + 1 ELSE 2*r
        BY <1>1, Halves
    <2>3. q = 2*r + 1 /\ q - 1 = 2*r /\ 2*r < q /\ 2*r \in Nat
        BY <2>1, <2>2
    <2>4. l < Depth /\ l <= Depth /\ l \in Level
        BY TopIsZero DEF Level
    <2>5. f[l] = Node(s, l, 2*r)
        BY <2>1, <2>2, <2>3, <2>4 DEF FrontierOf, n
    <2>6. Node(t, l, 2*r) = Node(s, l, 2*r)
        BY <1>3, <2>2, <2>3, <2>4
    <2>7. carry[l] = Node(t, l, 2*r + 1)
        BY <1>5, <2>1, <2>2, <2>3, <2>4
    <2>8. carry[l + 1] = Poseidon2T4(f[l], carry[l])
        BY <2>4, CarryIs DEF carry
    <2>9. Node(t, l + 1, r) = Poseidon2T4(Node(t, l, 2*r), Node(t, l, 2*r + 1))
        BY <2>4, NodeIs
    <2> QED BY <2>2, <2>5, <2>6, <2>7, <2>8, <2>9
<1> HIDE DEF Good
<1>6. \A l \in Nat : l \in Good
    BY <1>4, <1>5, NatSetInduction
<1>7. FrontierOf(next, t)
    <2> SUFFICES ASSUME NEW l \in Level, Bit(n + 1, l)
                 PROVE  next[l] = Node(t, l, ((n + 1) \div Pow2[l]) - 1)
        BY <1>1 DEF FrontierOf
    <2>1. l \in Nat /\ l <= Depth
        BY TopIsZero DEF Level
    <2>2. PICK q \in Nat : q = n \div Pow2[l]
        BY <1>1, <2>1, Halving
    <2>3. (n + 1) \div Pow2[l] = q + (IF AllSet(n, l) THEN 1 ELSE 0)
        BY <1>1, <2>1, <2>2, CountUp
    <2>4. CASE AllSet(n, l)
        <3>1. (n + 1) \div Pow2[l] = q + 1 /\ (q + 1) - 1 = q
            BY <2>3, <2>4
        <3>2. ~Bit(n, l)
            BY <2>2, <3>1 DEF Bit
        <3>3. next[l] = carry[l]
            BY <2>4, <3>2 DEF Mul
        <3>4. carry[l] = Node(t, l, q)
            BY <1>6, <2>1, <2>2, <2>4 DEF Good
        <3> QED BY <3>1, <3>3, <3>4
    <2>5. CASE ~AllSet(n, l)
        <3>1. (n + 1) \div Pow2[l] = q
            BY <2>3, <2>5
        <3>2. Bit(n, l)
            BY <2>2, <3>1 DEF Bit
        <3>3. q - 1 \in Nat /\ q - 1 < q
            BY <2>2, <3>2 DEF Bit
        <3>4. f[l] = Node(s, l, q - 1)
            BY <2>2, <3>2 DEF FrontierOf, n
        <3>5. Node(t, l, q - 1) = Node(s, l, q - 1)
            BY <1>3, <2>1, <2>2, <3>3
        <3>6. next[l] = f[l]
            BY <2>5
        <3> QED BY <3>1, <3>4, <3>5, <3>6
    <2> QED BY <2>4, <2>5
<1>8. ASSUME n + 1 = Capacity PROVE carry[Depth] = MerkleRoot(t)
    <2>1. n \div Pow2[Depth] = 0 /\ (n + 1) \div Pow2[Depth] = 1
        BY <1>1, <1>8, TopIsZero DEF n
    <2>2. AllSet(n, Depth)
        BY <1>1, <2>1, CountUp, TopIsZero
    <2>3. carry[Depth] = Node(t, Depth, 0)
        BY <1>6, <2>1, <2>2, TopIsZero DEF Good
    <2> QED BY <2>3 DEF MerkleRoot
<1> HIDE DEF next
<1> QED BY <1>1, <1>2, <1>7, <1>8 DEF n, t

(* What is known of a state of a proof that has appended up to t.          *)
Reached(r, t) ==
    /\ r.count = Len(t)
    /\ Len(t) < Capacity => FrontierOf(r.frontier, t)
    /\ Len(t) = Capacity => r.finalCarry = MerkleRoot(t)

LEMMA ReachedRoot ==
    ASSUME NEW t \in Seq(Commitment), Len(t) <= Capacity, NEW r, Reached(r, t)
    PROVE  RootNew(r) = MerkleRoot(t)
<1>1. Len(t) \in Nat /\ Capacity \in Nat
    BY TopIsZero
<1>2. CASE Len(t) = Capacity
    BY <1>2 DEF Reached, RootNew
<1>3. CASE Len(t) < Capacity
    BY <1>1, <1>3, RootOfFrontier DEF Reached, RootNew
<1> QED BY <1>1, <1>2, <1>3

-----------------------------------------------------------------------------
(* Leaf by leaf.                                                           *)

NextAfter(r, claim) ==
    SelectMinted(claim.mint, r, appendFrontier(r.frontier, r.count, claim.commitment))

IsAfter(m, f, s, claims) == f = [i \in 0..m |-> IF i = 0 THEN s ELSE NextAfter(f[i-1], claims[i])]

LEMMA AppendMintsIs ==
    ASSUME NEW s, NEW claims, Len(claims) \in Nat
    PROVE  \E f : /\ f[0] = s
                  /\ \A i \in Nat : i < Len(claims) => f[i + 1] = NextAfter(f[i], claims[i + 1])
                  /\ AppendMints(s, claims) = f[Len(claims)]
<1> DEFINE Good == {m \in Nat : \E f : IsAfter(m, f, s, claims)}
<1>1. 0 \in Good
    <2>1. IsAfter(0, [i \in 0..0 |-> s], s, claims)
        BY DEF IsAfter
    <2> QED BY <2>1
<1>2. ASSUME NEW m \in Nat, m \in Good PROVE m + 1 \in Good
    <2>1. PICK f : f = [i \in 0..m |-> IF i = 0 THEN s ELSE NextAfter(f[i-1], claims[i])]
        BY <1>2 DEF IsAfter
    <2>2. PICK g : g = [i \in 0..m + 1 |-> IF i = m + 1 THEN NextAfter(f[m], claims[i]) ELSE f[i]]
        OBVIOUS
    <2>3. \A i \in 0..m + 1 : g[i] = IF i = 0 THEN s ELSE NextAfter(g[i-1], claims[i])
        BY <2>1, <2>2
    <2>4. IsAfter(m + 1, g, s, claims)
        BY <2>2, <2>3 DEF IsAfter
    <2> QED BY <2>4
<1> HIDE DEF Good
<1>3. Len(claims) \in Good
    BY <1>1, <1>2, NatSetInduction
<1>4. PICK f : f = CHOOSE h : IsAfter(Len(claims), h, s, claims)
    OBVIOUS
<1>5. IsAfter(Len(claims), f, s, claims)
    BY <1>3, <1>4 DEF Good
<1>6. AppendMints(s, claims) = f[Len(claims)]
    BY <1>4 DEF AppendMints, IsAfter, NextAfter
<1>7. \A i \in 0..Len(claims) : f[i] = IF i = 0 THEN s ELSE NextAfter(f[i-1], claims[i])
    BY <1>5 DEF IsAfter
<1> QED BY <1>6, <1>7

NextMinted(m, claim) == IF claim.mint THEN Append(m, claim.commitment) ELSE m

IsMinted(m, f, b) == f = [i \in 0..m |-> IF i = 0 THEN <<>> ELSE NextMinted(f[i-1], b[i])]

LEMMA MintedByGiftsIs ==
    ASSUME NEW b, Len(b) \in Nat
    PROVE  \E f : /\ f[0] = <<>>
                  /\ \A i \in Nat : i < Len(b) => f[i + 1] = NextMinted(f[i], b[i + 1])
                  /\ MintedByGifts(b) = f[Len(b)]
<1> DEFINE Good == {m \in Nat : \E f : IsMinted(m, f, b)}
<1>1. 0 \in Good
    <2>1. IsMinted(0, [i \in 0..0 |-> <<>>], b)
        BY DEF IsMinted
    <2> QED BY <2>1
<1>2. ASSUME NEW m \in Nat, m \in Good PROVE m + 1 \in Good
    <2>1. PICK f : f = [i \in 0..m |-> IF i = 0 THEN <<>> ELSE NextMinted(f[i-1], b[i])]
        BY <1>2 DEF IsMinted
    <2>2. PICK g : g = [i \in 0..m + 1 |-> IF i = m + 1 THEN NextMinted(f[m], b[i]) ELSE f[i]]
        OBVIOUS
    <2>3. \A i \in 0..m + 1 : g[i] = IF i = 0 THEN <<>> ELSE NextMinted(g[i-1], b[i])
        BY <2>1, <2>2
    <2>4. IsMinted(m + 1, g, b)
        BY <2>2, <2>3 DEF IsMinted
    <2> QED BY <2>4
<1> HIDE DEF Good
<1>3. Len(b) \in Good
    BY <1>1, <1>2, NatSetInduction
<1>4. PICK f : f = CHOOSE h : IsMinted(Len(b), h, b)
    OBVIOUS
<1>5. IsMinted(Len(b), f, b)
    BY <1>3, <1>4 DEF Good
<1>6. MintedByGifts(b) = f[Len(b)]
    BY <1>4 DEF MintedByGifts, IsMinted, NextMinted
<1>7. \A i \in 0..Len(b) : f[i] = IF i = 0 THEN <<>> ELSE NextMinted(f[i-1], b[i])
    BY <1>5 DEF IsMinted
<1> QED BY <1>6, <1>7

(* The claims of a batch, one after the other (gift_claim_circuit.go       *)
(* assertAndAppendMint): the state stays that of the leaves minted so far, *)
(* payouts in between or not, until there are more than a tree holds.      *)
LEMMA AppendAll ==
    ASSUME NEW s \in Seq(Commitment), Len(s) < Capacity, NEW f, FrontierOf(f, s),
           NEW b \in Seq(Claim)
    PROVE  /\ MintedByGifts(b) \in Seq(Commitment)
           /\ LET r == AppendMints([frontier |-> f, count |-> Len(s), finalCarry |-> Zero], b)
              IN  Reached(r, s \o MintedByGifts(b))
<1> DEFINE start == [frontier |-> f, count |-> Len(s), finalCarry |-> Zero]
<1>1. Len(b) \in Nat
    OBVIOUS
<1>2. PICK after : /\ after[0] = start
                   /\ \A i \in Nat : i < Len(b) => after[i + 1] = NextAfter(after[i], b[i + 1])
                   /\ AppendMints(start, b) = after[Len(b)]
    BY <1>1, AppendMintsIs
<1>3. PICK minted : /\ minted[0] = <<>>
                    /\ \A i \in Nat : i < Len(b) => minted[i + 1] = NextMinted(minted[i], b[i + 1])
                    /\ MintedByGifts(b) = minted[Len(b)]
    BY <1>1, MintedByGiftsIs
<1> DEFINE Good == {i \in Nat : i <= Len(b) =>
                        /\ minted[i] \in Seq(Commitment)
                        /\ Reached(after[i], s \o minted[i])}
<1>4. 0 \in Good
    <2>1. s \o <<>> = s /\ <<>> \in Seq(Commitment)
        OBVIOUS
    <2>2. Reached(start, s)
        BY DEF Reached
    <2> QED BY <1>2, <1>3, <2>1, <2>2
<1>5. ASSUME NEW i \in Nat, i \in Good PROVE i + 1 \in Good
    <2> SUFFICES ASSUME i + 1 <= Len(b)
                 PROVE  /\ minted[i + 1] \in Seq(Commitment)
                        /\ Reached(after[i + 1], s \o minted[i + 1])
        OBVIOUS
    <2>0. PICK r : r = after[i]
        OBVIOUS
    <2>1. PICK m \in Seq(Commitment) : m = minted[i] /\ r = after[i] /\ Reached(r, s \o m)
        BY <1>5, <2>0
    <2>2. PICK claim \in Claim : claim = b[i + 1]
        BY <1>1
    <2>3. claim.commitment \in Commitment /\ claim.mint \in BOOLEAN
        BY DEF Claim
    <2>4. CASE ~claim.mint
        <3>1. minted[i + 1] = m
            BY <1>1, <1>3, <2>1, <2>2, <2>4 DEF NextMinted
        <3>2. after[i + 1] = r
            BY <1>1, <1>2, <2>1, <2>2, <2>4 DEF NextAfter, SelectMinted
        <3> QED BY <2>1, <3>1, <3>2
    <2>5. CASE claim.mint
        <3>1. PICK x \in Commitment : x = claim.commitment
            BY <2>3
        <3>2. minted[i + 1] = Append(m, x)
            <4>1. minted[i + 1] = NextMinted(m, claim)
                BY <1>1, <1>3, <2>1, <2>2
            <4> QED BY <2>5, <3>1, <4>1 DEF NextMinted
        <3>3. after[i + 1] = appendFrontier(r.frontier, r.count, x)
            BY <1>1, <1>2, <2>1, <2>2, <2>5, <3>1 DEF NextAfter, SelectMinted
        <3>4. PICK t \in Seq(Commitment) : t = s \o m
            BY ConcatProperties
        <3>5. s \o Append(m, x) = Append(t, x) /\ Append(m, x) \in Seq(Commitment)
            BY <3>4
        <3>6. r.count = Len(t)
            BY <2>1, <3>4 DEF Reached
        <3>7. Reached(appendFrontier(r.frontier, Len(t), x), Append(t, x))
            <4>1. CASE Len(t) < Capacity
                <5>1. FrontierOf(r.frontier, t)
                    BY <2>1, <3>4, <4>1 DEF Reached
                <5> QED BY <4>1, <5>1, AppendOne DEF Reached
            <4>2. CASE ~(Len(t) < Capacity)
                <5>1. Len(Append(t, x)) = Len(t) + 1 /\ Len(t) \in Nat /\ Capacity \in Nat
                    BY TopIsZero
                <5>2. appendFrontier(r.frontier, Len(t), x).count = Len(t) + 1
                    BY DEF appendFrontier
                <5> QED BY <4>2, <5>1, <5>2 DEF Reached
            <4> QED BY <4>1, <4>2
        <3> QED BY <3>2, <3>3, <3>5, <3>6, <3>7
    <2> QED BY <2>3, <2>4, <2>5
<1> HIDE DEF Good, start
<1>6. Len(b) \in Good
    BY <1>1, <1>4, <1>5, NatSetInduction
<1>7. minted[Len(b)] \in Seq(Commitment) /\ Reached(after[Len(b)], s \o minted[Len(b)])
    BY <1>1, <1>6 DEF Good
<1> QED BY <1>2, <1>3, <1>7 DEF start

(* A batch without payouts mints its commitments.                          *)
LEMMA AllMinted ==
    ASSUME NEW b \in Seq(Commitment)
    PROVE  LET claims == [i \in DOMAIN b |-> [commitment |-> b[i], mint |-> TRUE]]
           IN  claims \in Seq(Claim) /\ MintedByGifts(claims) = b
<1> DEFINE claims == [i \in DOMAIN b |-> [commitment |-> b[i], mint |-> TRUE]]
<1>1. /\ claims \in Seq(Claim) /\ Len(claims) = Len(b) /\ Len(b) \in Nat
      /\ \A i \in 1..Len(b) : claims[i].mint = TRUE /\ claims[i].commitment = b[i]
    <2>1. Len(b) \in Nat /\ DOMAIN b = 1..Len(b) /\ \A i \in 1..Len(b) : b[i] \in Commitment
        OBVIOUS
    <2>2. \A i \in DOMAIN b : [commitment |-> b[i], mint |-> TRUE] \in Claim
        BY <2>1 DEF Claim
    <2>3. claims \in [1..Len(b) -> Claim]
        BY <2>1, <2>2
    <2>4. \A i \in 1..Len(b) : claims[i] = [commitment |-> b[i], mint |-> TRUE]
        BY <2>1
    <2> HIDE DEF claims
    <2>5. ASSUME NEW i \in 1..Len(b) PROVE claims[i].mint = TRUE /\ claims[i].commitment = b[i]
        <3>1. PICK c : c = claims[i] /\ c = [commitment |-> b[i], mint |-> TRUE]
            BY <2>4
        <3>2. c.mint = TRUE /\ c.commitment = b[i]
            BY <3>1
        <3> QED BY <3>1, <3>2
    <2>6. claims \in Seq(Claim) /\ Len(claims) = Len(b)
        BY <2>1, <2>3
    <2> QED BY <2>1, <2>5, <2>6
<1> HIDE DEF claims
<1>2. PICK minted : /\ minted[0] = <<>>
                    /\ \A i \in Nat : i < Len(b) => minted[i + 1] = NextMinted(minted[i], claims[i + 1])
                    /\ MintedByGifts(claims) = minted[Len(b)]
    BY <1>1, MintedByGiftsIs
<1> DEFINE Good == {i \in Nat : i <= Len(b) =>
                        /\ minted[i] \in Seq(Commitment) /\ Len(minted[i]) = i
                        /\ \A j \in 1..i : minted[i][j] = b[j]}
<1>3. 0 \in Good
    <2>1. minted[0] \in Seq(Commitment) /\ Len(minted[0]) = 0
        BY <1>2, EmptySeq
    <2> QED BY <2>1
<1>4. ASSUME NEW i \in Nat, i \in Good PROVE i + 1 \in Good
    <2> SUFFICES ASSUME i + 1 <= Len(b)
                 PROVE  /\ minted[i + 1] \in Seq(Commitment) /\ Len(minted[i + 1]) = i + 1
                        /\ \A j \in 1..i + 1 : minted[i + 1][j] = b[j]
        OBVIOUS
    <2>1. PICK m \in Seq(Commitment) : m = minted[i] /\ Len(m) = i /\ \A j \in 1..i : m[j] = b[j]
        BY <1>1, <1>4
    <2>2. i + 1 \in 1..Len(b) /\ i < Len(b)
        BY <1>1
    <2>3. b[i + 1] \in Commitment
        BY <2>2
    <2>4. PICK c : c = claims[i + 1] /\ c.mint = TRUE /\ c.commitment = b[i + 1]
        BY <1>1, <2>2
    <2>5. minted[i + 1] = NextMinted(m, c)
        BY <1>2, <2>1, <2>2, <2>4
    <2>6. minted[i + 1] = Append(m, b[i + 1])
        BY <2>4, <2>5 DEF NextMinted
    <2> QED BY <2>1, <2>3, <2>6
<1> HIDE DEF Good
<1>5. Len(b) \in Good
    BY <1>1, <1>3, <1>4, NatSetInduction
<1>6. minted[Len(b)] = b
    <2>1. PICK m \in Seq(Commitment) : m = minted[Len(b)] /\ Len(m) = Len(b) /\ \A j \in 1..Len(b) : m[j] = b[j]
        BY <1>1, <1>5 DEF Good
    <2> QED BY <2>1
<1> QED BY <1>1, <1>2, <1>6 DEF claims

-----------------------------------------------------------------------------
(* Packed lists.                                                           *)

Slot == Commitment \cup {Zero}

(* p holds b, and then zeros.                                              *)
Packs(p, b) ==
    /\ p.vals \in Seq(Slot) /\ Len(p.vals) > 0
    /\ Len(b) <= Len(p.vals)
    /\ \A i \in 1..Len(p.vals) : p.vals[i] = IF i <= Len(b) THEN b[i] ELSE Zero
    /\ p.count = Len(b)
    /\ p.ok

(* A prefix of active slots.                                               *)
LEMMA PrefixPacks ==
    ASSUME NEW n \in Nat \ {0}, NEW b \in Seq(Commitment), Len(b) <= n,
           NEW vals, vals \in Seq(Slot), Len(vals) = n, \A i \in 1..Len(b) : vals[i] = b[i]
    PROVE  Packs(newPrefixPackedList(vals, [i \in 1..n |-> i <= Len(b)]), b)
<1> DEFINE k == Len(b)
           active == [i \in 1..n |-> i <= k]
<1>1. k \in Nat /\ k <= n /\ \A i \in 1..k : b[i] \in Commitment
    OBVIOUS
<1> HIDE DEF k
<1>2. Len(active) = n /\ DOMAIN active = 1..n /\ \A i \in 1..n : active[i] <=> i <= k
    <2>1. Len(active) = n /\ DOMAIN active = 1..n
        OBVIOUS
    <2>2. \A i \in 1..n : active[i] <=> i <= k
        BY Zenon
    <2> QED BY <2>1, <2>2
<1> HIDE DEF active
<1>3. CountOf(active) = k
    <2>1. {i \in DOMAIN active : active[i]} = 1..k
        BY <1>1, <1>2
    <2>2. Cardinality(1..k) = k
        BY <1>1, FS_Interval
    <2> QED BY <2>1, <2>2 DEF CountOf
<1>4. \A i \in 2..Len(active) : active[i] => active[i-1]
    BY <1>1, <1>2
<1> DEFINE masked == Masked(vals, active)
<1>5. DOMAIN vals = 1..n /\ \A i \in 1..n : vals[i] \in Slot
    OBVIOUS
<1>6. masked = [i \in 1..n |-> Mul(active[i], vals[i])]
    BY <1>5 DEF Masked
<1>7. ASSUME NEW i \in 1..n PROVE Mul(active[i], vals[i]) = IF i <= k THEN b[i] ELSE Zero
    BY <1>1, <1>2 DEF Mul, k
<1>8. masked = [i \in 1..n |-> IF i <= k THEN b[i] ELSE Zero]
    BY <1>6, <1>7
<1>9. \A i \in 1..n : (IF i <= k THEN b[i] ELSE Zero) \in Slot
    BY <1>1 DEF Slot
<1> HIDE DEF masked
<1>10. masked \in Seq(Slot) /\ Len(masked) = n /\ \A i \in 1..n : masked[i] = IF i <= k THEN b[i] ELSE Zero
    BY <1>8, <1>9
<1>11. newPrefixPackedList(vals, active) = [vals |-> masked, count |-> k, ok |-> TRUE]
    BY <1>3, <1>4 DEF newPrefixPackedList, masked
<1>12. PICK p : p = newPrefixPackedList(vals, active) /\ p.vals = masked /\ p.count = k /\ p.ok = TRUE
    BY <1>11
<1>13. Packs(p, b)
    BY SMTT(30), <1>1, <1>10, <1>12 DEF Packs, k
<1> QED BY <1>12, <1>13 DEF active, k

LEMMA PaddedPacks ==
    ASSUME NEW n \in Nat \ {0}, NEW b \in Seq(Commitment), Len(b) <= n
    PROVE  Packs(newPrefixPackedList(Padded(b, n), ActiveUpTo(Len(b), n)), b)
<1>1. DOMAIN b = 1..Len(b) /\ Len(b) \in Nat /\ \A i \in 1..Len(b) : b[i] \in Commitment
    OBVIOUS
<1>2. \A i \in 1..n : (IF i \in DOMAIN b THEN b[i] ELSE Zero) \in Slot
    BY <1>1 DEF Slot
<1>3. PICK vals : vals = Padded(b, n)
    OBVIOUS
<1>4. vals = [i \in 1..n |-> IF i \in DOMAIN b THEN b[i] ELSE Zero]
    BY <1>3 DEF Padded
<1>5. vals \in Seq(Slot) /\ Len(vals) = n /\ \A i \in 1..Len(b) : vals[i] = b[i]
    BY <1>1, <1>2, <1>4
<1> QED BY <1>3, <1>5, PrefixPacks DEF ActiveUpTo

(* The marker of a withdrawal is shifted out.                              *)
LEMMA TransferPacks ==
    ASSUME NEW n \in Nat \ {0}, NEW x, x.outputs \in Seq(Commitment), Len(x.outputs) <= n,
           x.isWithdrawal => x.outputs # <<>>
    PROVE  /\ MintedBy(x) \in Seq(Commitment) /\ Len(MintedBy(x)) <= n
           /\ Packs(treeLeavesForTransfer(x, n), MintedBy(x))
<1>1. PICK o \in Seq(Commitment) : o = x.outputs
    OBVIOUS
<1>2. CASE ~x.isWithdrawal
    BY <1>1, <1>2, PaddedPacks DEF MintedBy, treeLeavesForTransfer
<1>3. CASE x.isWithdrawal
    <2>1. PICK b \in Seq(Commitment) : b = Tail(o)
        BY <1>1, <1>3, HeadTailProperties
    <2>2. Len(o) \in Nat \ {0} /\ Len(b) = Len(o) - 1 /\ \A i \in 1..Len(b) : b[i] = o[i + 1]
        BY <1>1, <1>3, <2>1
    <2>3. DOMAIN o = 1..Len(o) /\ \A i \in 1..Len(o) : o[i] \in Commitment
        OBVIOUS
    <2>4. PICK padded : padded = Padded(o, n)
        OBVIOUS
    <2>5. padded \in Seq(Slot) /\ Len(padded) = n /\ \A i \in 1..Len(o) : padded[i] = o[i]
        <3>1. \A i \in 1..n : (IF i \in DOMAIN o THEN o[i] ELSE Zero) \in Slot
            BY <2>3 DEF Slot
        <3>2. padded = [i \in 1..n |-> IF i \in DOMAIN o THEN o[i] ELSE Zero]
            BY <2>4 DEF Padded
        <3> QED BY <1>1, <2>3, <3>1, <3>2
    <2>6. PICK vals : vals = ShiftLeft(padded, Zero)
        OBVIOUS
    <2>7. vals \in Seq(Slot) /\ Len(vals) = n /\ \A i \in 1..Len(b) : vals[i] = b[i]
        <3>1. Zero \in Slot /\ padded # <<>>
            BY <2>5 DEF Slot
        <3>2. PICK rest : rest = Tail(padded)
            OBVIOUS
        <3>9. rest \in Seq(Slot) /\ Len(rest) = n - 1 /\ \A i \in 1..n - 1 : rest[i] = padded[i + 1]
            BY <2>5, <3>1, <3>2, HeadTailProperties
        <3>3. vals = Append(rest, Zero)
            BY <2>6, <3>2 DEF ShiftLeft
        <3>10. vals \in Seq(Slot) /\ Len(vals) = n /\ \A i \in 1..n - 1 : vals[i] = rest[i]
            BY <3>1, <3>3, <3>9, AppendProperties
        <3>4. \A i \in 1..n - 1 : vals[i] = padded[i + 1]
            BY <3>9, <3>10
        <3>5. \A i \in 1..Len(b) : i \in 1..n - 1 /\ i + 1 \in 1..Len(o)
            BY <1>1, <2>2
        <3>6. \A i \in 1..Len(b) : vals[i] = b[i]
            BY <2>2, <2>5, <3>4, <3>5
        <3> QED BY <3>6, <3>10
    <2>8. ShiftLeft(ActiveUpTo(Len(o), n), FALSE) = [i \in 1..n |-> i <= Len(b)]
        <3>1. PICK active : active = ActiveUpTo(Len(o), n)
            OBVIOUS
        <3>2. active \in Seq(BOOLEAN) /\ Len(active) = n /\ \A i \in 1..n : active[i] = (i <= Len(o))
            BY <3>1 DEF ActiveUpTo
        <3>3. active # <<>>
            BY <3>2
        <3>4. PICK rest \in Seq(BOOLEAN) : /\ rest = Tail(active) /\ Len(rest) = n - 1
                                           /\ \A i \in 1..n - 1 : rest[i] = active[i + 1]
            BY ZenonT(30), <3>2, <3>3, HeadTailProperties
        <3>5. PICK flags : flags = Append(rest, FALSE)
            OBVIOUS
        <3>6. flags \in Seq(BOOLEAN) /\ Len(flags) = n /\ flags[n] = FALSE
              /\ \A i \in 1..n - 1 : flags[i] = rest[i]
            <4>1. PICK no : no = FALSE
                OBVIOUS
            <4>2. no \in BOOLEAN /\ flags = Append(rest, no)
                BY <3>5, <4>1
            <4>3. flags \in Seq(BOOLEAN) /\ Len(flags) = Len(rest) + 1 /\ flags[Len(rest) + 1] = no
                  /\ \A i \in 1..Len(rest) : flags[i] = rest[i]
                BY <3>4, <4>2, AppendProperties
            <4>4. Len(rest) + 1 = n /\ Len(rest) = n - 1
                BY <3>4
            <4> QED BY <4>1, <4>3, <4>4
        <3>7. ASSUME NEW i \in 1..n PROVE flags[i] = (i <= Len(b))
            <4>1. CASE i = n
                BY <1>1, <2>2, <3>6, <4>1
            <4>2. CASE i # n
                <5>1. i \in 1..n - 1 /\ i + 1 \in 1..n
                    BY <4>2
                <5>2. flags[i] = (i + 1 <= Len(o))
                    BY <3>2, <3>4, <3>6, <5>1
                <5> QED BY <2>2, <5>2
            <4> QED BY <4>1, <4>2
        <3>8. flags = [i \in 1..n |-> i <= Len(b)]
            BY <3>6, <3>7
        <3> QED BY <3>1, <3>4, <3>5, <3>8 DEF ShiftLeft
    <2>9. Len(b) <= n
        BY <1>1, <2>2
    <2>10. Packs(newPrefixPackedList(vals, [i \in 1..n |-> i <= Len(b)]), b)
        BY <2>7, <2>9, PrefixPacks
    <2>11. MintedBy(x) = b
        BY <1>1, <1>3, <2>1 DEF MintedBy
    <2>12. treeLeavesForTransfer(x, n) = newPrefixPackedList(vals, [i \in 1..n |-> i <= Len(b)])
        BY <1>1, <1>3, <2>4, <2>6, <2>8 DEF treeLeavesForTransfer
    <2> QED BY <2>9, <2>10, <2>11, <2>12
<1> QED BY <1>2, <1>3

(* The barrel shifter: what its first bits move by, t of them, is the rest *)
(* of amount by 2^t.                                                       *)
Moved(before, cur, amount, t) ==
    [j \in DOMAIN cur |-> IF ~Bit(amount, t) THEN before[j]
                          ELSE IF j > Pow2[t] THEN before[j - Pow2[t]] ELSE Zero]

IsShifted(m, f, cur, amount) ==
    f = [t \in 0..m |-> IF t = 0 THEN cur ELSE Moved(f[t-1], cur, amount, t-1)]

LEMMA ShiftRightIs ==
    ASSUME NEW cur, NEW amount, NEW width \in Nat
    PROVE  \E f : /\ f[0] = cur
                  /\ \A t \in Nat : t < width => f[t + 1] = Moved(f[t], cur, amount, t)
                  /\ ShiftRight(cur, amount, width) = f[width]
<1> DEFINE Good == {m \in Nat : \E f : IsShifted(m, f, cur, amount)}
<1>1. 0 \in Good
    <2>1. IsShifted(0, [t \in 0..0 |-> cur], cur, amount)
        BY DEF IsShifted
    <2> QED BY <2>1
<1>2. ASSUME NEW m \in Nat, m \in Good PROVE m + 1 \in Good
    <2>1. PICK f : f = [t \in 0..m |-> IF t = 0 THEN cur ELSE Moved(f[t-1], cur, amount, t-1)]
        BY <1>2 DEF IsShifted
    <2>2. PICK g : g = [t \in 0..m + 1 |-> IF t = m + 1 THEN Moved(f[m], cur, amount, m) ELSE f[t]]
        OBVIOUS
    <2>3. \A t \in 0..m + 1 : g[t] = IF t = 0 THEN cur ELSE Moved(g[t-1], cur, amount, t-1)
        BY <2>1, <2>2
    <2>4. IsShifted(m + 1, g, cur, amount)
        BY <2>2, <2>3 DEF IsShifted
    <2> QED BY <2>4
<1> HIDE DEF Good
<1>3. width \in Good
    BY <1>1, <1>2, NatSetInduction
<1>4. PICK f : f = CHOOSE h : IsShifted(width, h, cur, amount)
    OBVIOUS
<1>5. IsShifted(width, f, cur, amount)
    BY <1>3, <1>4 DEF Good
<1>6. ShiftRight(cur, amount, width) = f[width]
    BY <1>4 DEF ShiftRight, IsShifted, Moved
<1>7. \A t \in 0..width : f[t] = IF t = 0 THEN cur ELSE Moved(f[t-1], cur, amount, t-1)
    BY <1>5 DEF IsShifted
<1> QED BY <1>6, <1>7

LEMMA LowBits ==
    ASSUME NEW amount \in Nat, NEW width \in Nat, HasWidth(amount, width)
    PROVE  \E low \in [Nat -> Nat] :
             /\ low[0] = 0 /\ low[width] = amount
             /\ \A t \in Nat : low[t + 1] = IF Bit(amount, t) THEN low[t] + Pow2[t] ELSE low[t]
<1>1. PICK low : low = [t \in Nat |-> amount - Pow2[t] * (amount \div Pow2[t])]
    OBVIOUS
<1>2. ASSUME NEW t \in Nat PROVE low[t] \in Nat
    <2>1. PICK p \in Nat \ {0} : p = Pow2[t]
        BY Pow2Step
    <2>2. PICK q \in Nat : q = amount \div p /\ p * q <= amount
        BY QuotientBounds
    <2>3. p * q \in Nat
        BY Z3
    <2>4. low[t] = amount - p * q
        BY <1>1, <2>1, <2>2
    <2> QED BY <2>2, <2>3, <2>4
<1>3. low[0] = 0
    <2>1. low[0] = amount - Pow2[0] * (amount \div Pow2[0])
        BY <1>1
    <2>2. Pow2[0] = 1 /\ amount \div Pow2[0] = amount
        BY Halving, Pow2Step
    <2> QED BY <2>1, <2>2
<1>4. low[width] = amount
    <2>1. PICK p \in Nat \ {0} : p = Pow2[width] /\ amount < p
        BY Pow2Step DEF HasWidth
    <2>2. amount \div p = 0
        BY <2>1, QuotientIs
    <2> QED BY <1>1, <2>1, <2>2
<1>5. ASSUME NEW t \in Nat PROVE low[t + 1] = IF Bit(amount, t) THEN low[t] + Pow2[t] ELSE low[t]
    <2>1. PICK p \in Nat \ {0} : p = Pow2[t] /\ 2 * p = Pow2[t + 1]
        BY Pow2Step
    <2>2. PICK q, r \in Nat : /\ q = amount \div Pow2[t] /\ r = amount \div Pow2[t + 1]
                              /\ q = IF Bit(amount, t) THEN 2*r + 1 ELSE 2*r
        BY Halves
    <2>3. PICK u \in Nat : u = p * r
        BY Z3
    <2>4. (2 * p) * r = 2 * u /\ p * (2*r) = 2 * u /\ p * (2*r + 1) = 2 * u + p
        BY <2>3, Z3
    <2>5. low[t + 1] = amount - (2 * p) * r /\ low[t] = amount - p * q
        BY <1>1, <2>1, <2>2
    <2>6. CASE Bit(amount, t)
        <3>1. q = 2*r + 1
            BY <2>2, <2>6
        <3>2. low[t] = amount - (2 * u + p) /\ low[t + 1] = amount - 2 * u
            BY <2>4, <2>5, <3>1
        <3> QED BY <2>1, <2>3, <2>6, <3>2
    <2>7. CASE ~Bit(amount, t)
        <3>1. q = 2*r
            BY <2>2, <2>7
        <3> QED BY <2>4, <2>5, <2>7, <3>1
    <2> QED BY <2>6, <2>7
<1>6. low \in [Nat -> Nat]
    BY <1>1, <1>2
<1> QED BY <1>3, <1>4, <1>5, <1>6

LEMMA ShiftsRight ==
    ASSUME NEW n \in Nat, NEW cur, DOMAIN cur = 1..n,
           NEW amount \in Nat, NEW width \in Nat, HasWidth(amount, width)
    PROVE  \A j \in 1..n : ShiftRight(cur, amount, width)[j] =
                              IF j > amount THEN cur[j - amount] ELSE Zero
<1>1. PICK low \in [Nat -> Nat] :
             /\ low[0] = 0 /\ low[width] = amount
             /\ \A t \in Nat : low[t + 1] = IF Bit(amount, t) THEN low[t] + Pow2[t] ELSE low[t]
    BY ZenonT(30), LowBits
<1>2. PICK f : /\ f[0] = cur
               /\ \A t \in Nat : t < width => f[t + 1] = Moved(f[t], cur, amount, t)
               /\ ShiftRight(cur, amount, width) = f[width]
    BY ONLY width \in Nat, ShiftRightIs
<1> DEFINE Good == {t \in Nat : t <= width =>
                        \A j \in 1..n : f[t][j] = IF j > low[t] THEN cur[j - low[t]] ELSE Zero}
<1>3. 0 \in Good
    <2>1. ASSUME NEW j \in 1..n PROVE f[0][j] = IF j > 0 THEN cur[j - 0] ELSE Zero
        <3>1. f[0][j] = cur[j] /\ j - 0 = j /\ j > 0
            BY <1>2
        <3> QED BY <3>1
    <2> QED BY <1>1, <2>1
<1>4. ASSUME NEW t \in Nat, t \in Good PROVE t + 1 \in Good
    <2> SUFFICES ASSUME t + 1 <= width, NEW j \in 1..n
                 PROVE  f[t + 1][j] = IF j > low[t + 1] THEN cur[j - low[t + 1]] ELSE Zero
        OBVIOUS
    <2>1. PICK p \in Nat \ {0} : p = Pow2[t]
        BY Pow2Step
    <2>2. PICK a \in Nat : a = low[t]
        BY <1>1
    <2>3. \A k \in 1..n : f[t][k] = IF k > a THEN cur[k - a] ELSE Zero
        <3>1. t <= width
            BY DEF HasWidth
        <3> QED BY <1>4, <2>2, <3>1
    <2>4. f[t + 1][j] = IF ~Bit(amount, t) THEN f[t][j]
                        ELSE IF j > p THEN f[t][j - p] ELSE Zero
        <3>1. t < width
            OBVIOUS
        <3>2. PICK g : g = Moved(f[t], cur, amount, t) /\ f[t + 1] = g
            BY <1>2, <3>1
        <3>3. g = [i \in 1..n |-> IF ~Bit(amount, t) THEN f[t][i]
                                  ELSE IF i > Pow2[t] THEN f[t][i - Pow2[t]] ELSE Zero]
            BY <3>2 DEF Moved
        <3>4. g[j] = IF ~Bit(amount, t) THEN f[t][j]
                     ELSE IF j > Pow2[t] THEN f[t][j - Pow2[t]] ELSE Zero
            BY <3>3
        <3> QED BY <2>1, <3>2, <3>4
    <2>5. low[t + 1] = IF Bit(amount, t) THEN a + p ELSE a
        BY <1>1, <2>1, <2>2
    <2>6. CASE ~Bit(amount, t)
        BY <2>3, <2>4, <2>5, <2>6
    <2>7. CASE Bit(amount, t)
        <3>1. low[t + 1] = a + p
            BY <2>5, <2>7
        <3>2. CASE j > p
            <4>1. f[t + 1][j] = f[t][j - p]
                BY <2>4, <2>7, <3>2
            <4>0. j - p \in 1..n
                BY <3>2
            <4>2. f[t][j - p] = IF j - p > a THEN cur[(j - p) - a] ELSE Zero
                BY <2>3, <4>0
            <4>3. (j - p) - a = j - (a + p) /\ (j - p > a <=> j > a + p)
                OBVIOUS
            <4> QED BY <3>1, <4>1, <4>2, <4>3
        <3>3. CASE ~(j > p)
            BY <2>4, <2>7, <3>1, <3>3
        <3> QED BY <3>2, <3>3
    <2> QED BY <2>6, <2>7
<1> HIDE DEF Good
<1>5. width \in Good
    BY <1>3, <1>4, NatSetInduction
<1>6. \A j \in 1..n : f[width][j] = IF j > low[width] THEN cur[j - low[width]] ELSE Zero
    <2>1. width <= width
        OBVIOUS
    <2> QED BY ONLY <1>5, <2>1 DEF Good
<1> QED BY <1>1, <1>2, <1>6

(* The two lists of a merge, one behind the other.                         *)
LEMMA MergePacks ==
    ASSUME NEW p, NEW b \in Seq(Commitment), Packs(p, b),
           NEW q, NEW c \in Seq(Commitment), Packs(q, c)
    PROVE  Packs(mergePackedPair(p, q), b \o c)
<1>1. PICK k \in Nat, m \in Nat : k = Len(p.vals) /\ m = Len(q.vals)
    BY DEF Packs
<1>2. PICK x \in Nat, y \in Nat : x = Len(b) /\ y = Len(c)
    OBVIOUS
<1>3. /\ x <= k /\ y <= m /\ 0 < k /\ 0 < m /\ p.count = x /\ q.count = y /\ p.ok /\ q.ok
      /\ \A i \in 1..k : p.vals[i] = IF i <= x THEN b[i] ELSE Zero
      /\ \A i \in 1..m : q.vals[i] = IF i <= y THEN c[i] ELSE Zero
    BY <1>1, <1>2 DEF Packs
<1>4. DOMAIN p.vals = 1..k /\ DOMAIN q.vals = 1..m
    BY <1>1 DEF Packs
<1>5. \A i \in 1..x : b[i] \in Commitment
    BY <1>2
<1>6. \A i \in 1..y : c[i] \in Commitment
    BY <1>2
<1>7. PICK width \in Nat : width = bitsFor(k) /\ HasWidth(x, width)
    <2>1. PICK w \in Nat : w = bitsFor(k) /\ k < Pow2[w]
        BY WidthFits
    <2>2. PICK z \in Nat : z = Pow2[w]
        BY Pow2Step
    <2>3. x < Pow2[w]
        BY <1>3, <2>1, <2>2
    <2> QED BY <2>1, <2>3 DEF HasWidth
<1>8. PICK window : window = [j \in 1..k + m |-> IF j \in 1..m THEN q.vals[j] ELSE Zero]
    OBVIOUS
<1>9. PICK shifted : shifted = ShiftRight(window, x, width)
    OBVIOUS
<1>10. \A j \in 1..k + m : shifted[j] = IF j > x THEN window[j - x] ELSE Zero
    BY SMTT(30), <1>7, <1>8, <1>9, ShiftsRight
<1>11. PICK vals : vals = [j \in 1..k + m |-> IF j \in 1..k THEN Add(p.vals[j], shifted[j]) ELSE shifted[j]]
    OBVIOUS
<1>12. mergePackedPair(p, q) = [vals |-> vals, count |-> x + y, ok |-> p.ok /\ q.ok /\ HasWidth(x, width)]
    <2>1. DOMAIN window = 1..k + m
        BY <1>8
    <2> QED BY <1>1, <1>3, <1>4, <1>7, <1>8, <1>9, <1>11, <2>1 DEF mergePackedPair
<1>13. PICK r : r = mergePackedPair(p, q)
    OBVIOUS
<1>14. r.vals = vals /\ r.count = x + y /\ r.ok
    <2>1. r.vals = vals /\ r.count = x + y /\ r.ok = (p.ok /\ q.ok /\ HasWidth(x, width))
        BY <1>12, <1>13
    <2> QED BY <1>3, <1>7, <2>1
<1>15. PICK d \in Seq(Commitment) : d = b \o c
    BY ConcatProperties
<1>16. Len(d) = x + y /\ \A i \in 1..x + y : d[i] = IF i <= x THEN b[i] ELSE c[i - x]
    BY <1>2, <1>15, ConcatProperties
<1>17. ASSUME NEW j \in 1..k + m PROVE vals[j] = IF j <= x + y THEN d[j] ELSE Zero
    <2>1. CASE j <= x
        <3>1. shifted[j] = Zero /\ p.vals[j] = b[j] /\ j \in 1..k /\ d[j] = b[j]
            BY <1>3, <1>10, <1>16, <2>1
        <3> QED BY <1>11, <2>1, <3>1 DEF Add
    <2>2. CASE ~(j <= x)
        <3>1. shifted[j] = window[j - x] /\ j - x \in 1..k + m
            BY <1>10, <2>2
        <3>2. window[j - x] = IF j - x <= y THEN c[j - x] ELSE Zero
            BY <1>3, <1>8, <3>1
        <3>3. j \in 1..k => p.vals[j] = Zero
            BY <1>3, <2>2
        <3>4. vals[j] = shifted[j]
            BY <1>11, <3>3 DEF Add
        <3>5. j <= x + y => d[j] = c[j - x]
            BY <1>16, <2>2
        <3> QED BY <3>1, <3>2, <3>4, <3>5
    <2> QED BY <2>1, <2>2
<1>18. vals \in Seq(Slot) /\ Len(vals) = k + m
    <2>1. ASSUME NEW j \in 1..k + m PROVE vals[j] \in Slot
        <3>1. j <= x + y => d[j] \in Commitment
            BY <1>16
        <3> QED BY <1>17, <3>1 DEF Slot
    <2>2. vals \in [1..k + m -> Slot]
        BY <1>11, <2>1
    <2> QED BY <2>2
<1>19. Packs(r, d)
    <2>1. r.vals \in Seq(Slot) /\ Len(r.vals) = k + m /\ k + m > 0
        BY <1>3, <1>14, <1>18
    <2>2. Len(d) <= k + m /\ r.count = Len(d) /\ r.ok
        BY <1>3, <1>14, <1>16
    <2>3. \A i \in 1..k + m : r.vals[i] = IF i <= Len(d) THEN d[i] ELSE Zero
        BY <1>14, <1>16, <1>17
    <2> QED BY <2>1, <2>2, <2>3 DEF Packs
<1> QED BY <1>13, <1>15, <1>19

(* The rounds of merges.                                                   *)
IsRound(m, f, lists) == f = [r \in 0..m |-> IF r = 0 THEN lists ELSE MergePairs(f[r-1])]

LEMMA RoundsAre ==
    ASSUME NEW lists, Len(lists) \in Nat
    PROVE  \E f : /\ f[0] = lists
                  /\ \A r \in Nat : r < Len(lists) => f[r + 1] = MergePairs(f[r])
                  /\ mergePackedLists(lists) = f[Len(lists)][1]
<1> DEFINE Good == {m \in Nat : \E f : IsRound(m, f, lists)}
<1>1. 0 \in Good
    <2>1. IsRound(0, [r \in 0..0 |-> lists], lists)
        BY DEF IsRound
    <2> QED BY <2>1
<1>2. ASSUME NEW m \in Nat, m \in Good PROVE m + 1 \in Good
    <2>1. PICK f : f = [r \in 0..m |-> IF r = 0 THEN lists ELSE MergePairs(f[r-1])]
        BY <1>2 DEF IsRound
    <2>2. PICK g : g = [r \in 0..m + 1 |-> IF r = m + 1 THEN MergePairs(f[m]) ELSE f[r]]
        OBVIOUS
    <2>3. \A r \in 0..m + 1 : g[r] = IF r = 0 THEN lists ELSE MergePairs(g[r-1])
        BY <2>1, <2>2
    <2>4. IsRound(m + 1, g, lists)
        BY <2>2, <2>3 DEF IsRound
    <2> QED BY <2>4
<1> HIDE DEF Good
<1>3. Len(lists) \in Good
    BY <1>1, <1>2, NatSetInduction
<1>4. PICK f : f = CHOOSE h : IsRound(Len(lists), h, lists)
    OBVIOUS
<1>5. IsRound(Len(lists), f, lists)
    BY <1>3, <1>4 DEF Good
<1>6. mergePackedLists(lists) = f[Len(lists)][1]
    BY <1>4 DEF mergePackedLists, IsRound
<1>7. \A r \in 0..Len(lists) : f[r] = IF r = 0 THEN lists ELSE MergePairs(f[r-1])
    BY <1>5 DEF IsRound
<1> QED BY <1>6, <1>7

(* m lists pack the parts of a whole, in their order: upTo[i] is what the  *)
(* first i of them hold together.                                          *)
PackParts(lists, m, upTo, whole) ==
    /\ m \in Nat \ {0} /\ Len(lists) = m
    /\ upTo \in [0..m -> Seq(Commitment)] /\ upTo[0] = <<>> /\ upTo[m] = whole
    /\ \A i \in 1..m : \E b \in Seq(Commitment) :
          Packs(lists[i], b) /\ upTo[i] = upTo[i - 1] \o b

LEMMA LenOf ==
    ASSUME NEW n \in Nat, NEW f, f = [i \in 1..n |-> f[i]]
    PROVE  Len(f) = n /\ DOMAIN f = 1..n
<1>1. PICK S : S = {f[i] : i \in 1..n}
    OBVIOUS
<1>2. f \in [1..n -> S]
    BY <1>1
<1> QED BY <1>2

LEMMA RoundPacks ==
    ASSUME NEW lists, NEW m, NEW upTo, NEW whole, PackParts(lists, m, upTo, whole)
    PROVE  \E k, g : PackParts(MergePairs(lists), k, g, whole) /\ k = (m + 1) \div 2
<1>1. /\ m \in Nat \ {0} /\ Len(lists) = m
      /\ upTo \in [0..m -> Seq(Commitment)] /\ upTo[0] = <<>> /\ upTo[m] = whole
    BY DEF PackParts
<1>2. PICK k \in Nat \ {0} : k = (m + 1) \div 2 /\ m <= 2*k /\ 2*k <= m + 1
    BY <1>1
<1>3. PICK g : g = [i \in 0..k |-> IF 2*i <= m THEN upTo[2*i] ELSE upTo[2*i - 1]]
    OBVIOUS
<1>4. PICK merged : merged = [i \in 1..k |-> IF 2*i <= m THEN mergePackedPair(lists[2*i-1], lists[2*i])
                                             ELSE lists[2*i-1]]
    OBVIOUS
<1>5. MergePairs(lists) = merged
    BY <1>1, <1>2, <1>4 DEF MergePairs
<1>6. Len(merged) = k
    BY <1>4, LenOf
<1>7. ASSUME NEW i \in 0..k PROVE g[i] \in Seq(Commitment)
    <2>1. 2*i <= m => 2*i \in 0..m
        BY <1>1, <1>2
    <2>2. ~(2*i <= m) => 2*i - 1 \in 0..m
        BY <1>1, <1>2
    <2> QED BY <1>1, <1>3, <2>1, <2>2
<1>8. g \in [0..k -> Seq(Commitment)]
    BY <1>3, <1>7
<1>9. g[0] = <<>>
    BY <1>1, <1>2, <1>3
<1>10. g[k] = whole
    <2>0. g[k] = IF 2*k <= m THEN upTo[2*k] ELSE upTo[2*k - 1]
        <3>1. k \in 0..k
            BY <1>2
        <3> QED BY <1>3, <3>1
    <2>1. CASE 2*k <= m
        <3>1. 2*k = m
            BY <1>1, <1>2, <2>1
        <3> QED BY <1>1, <2>0, <2>1, <3>1
    <2>2. CASE ~(2*k <= m)
        <3>1. 2*k - 1 = m
            BY <1>1, <1>2, <2>2
        <3> QED BY <1>1, <2>0, <2>2, <3>1
    <2> QED BY <2>1, <2>2
<1>11. ASSUME NEW i \in 1..k
       PROVE  \E b \in Seq(Commitment) : Packs(merged[i], b) /\ g[i] = g[i - 1] \o b
    <2>1. i \in Nat /\ 2*i - 1 \in 1..m /\ 2*(i - 1) \in 0..m /\ 2*(i - 1) <= m /\ i - 1 \in 0..k
        BY <1>1, <1>2
    <2>2. PICK b \in Seq(Commitment) :
            Packs(lists[2*i-1], b) /\ upTo[2*i-1] = upTo[(2*i-1) - 1] \o b
        BY <2>1 DEF PackParts
    <2>3. PICK u \in Seq(Commitment) : u = upTo[(2*i-1) - 1] /\ g[i - 1] = u
        <3>1. (2*i-1) - 1 = 2*(i - 1)
            BY <2>1
        <3> QED BY <1>1, <1>3, <2>1, <3>1
    <2>4. CASE 2*i <= m
        <3>1. 2*i \in 1..m
            BY <2>1, <2>4
        <3>2. PICK c \in Seq(Commitment) : Packs(lists[2*i], c) /\ upTo[2*i] = upTo[2*i - 1] \o c
            BY <3>1 DEF PackParts
        <3>3. merged[i] = mergePackedPair(lists[2*i-1], lists[2*i])
            BY <1>4, <2>4
        <3>4. Packs(merged[i], b \o c)
            BY <2>2, <3>2, <3>3, MergePacks
        <3>5. g[i] = upTo[2*i]
            BY <1>3, <2>1, <2>4
        <3>6. (u \o b) \o c = u \o (b \o c) /\ b \o c \in Seq(Commitment)
            BY SMTT(30), ConcatAssociative, ConcatProperties
        <3>7. g[i] = g[i - 1] \o (b \o c)
            BY <2>2, <2>3, <3>2, <3>5, <3>6
        <3> QED BY <3>4, <3>6, <3>7
    <2>5. CASE ~(2*i <= m)
        <3>1. merged[i] = lists[2*i-1]
            BY <1>4, <2>5
        <3>2. g[i] = upTo[2*i-1]
            BY <1>3, <2>1, <2>5
        <3> QED BY <2>2, <2>3, <3>1, <3>2
    <2> QED BY <2>4, <2>5
<1>12. PackParts(merged, k, g, whole)
    BY <1>2, <1>6, <1>8, <1>9, <1>10, <1>11 DEF PackParts
<1> QED BY <1>2, <1>5, <1>12

(* All lists become one (frontier_batch.go mergePackedLists).              *)
LEMMA ListsPack ==
    ASSUME NEW lists, NEW m, NEW upTo, NEW whole, PackParts(lists, m, upTo, whole)
    PROVE  Packs(mergePackedLists(lists), whole) /\ whole \in Seq(Commitment)
<1>1. m \in Nat \ {0} /\ Len(lists) = m
    BY DEF PackParts
<1>2. PICK f : /\ f[0] = lists
               /\ \A r \in Nat : r < m => f[r + 1] = MergePairs(f[r])
               /\ mergePackedLists(lists) = f[m][1]
    BY <1>1, RoundsAre
<1> DEFINE Good == {r \in Nat : r <= m =>
                        \E k, g : PackParts(f[r], k, g, whole) /\ (k = 1 \/ k <= m - r)}
<1>3. 0 \in Good
    <2>1. PackParts(f[0], m, upTo, whole) /\ m <= m - 0
        BY <1>1, <1>2
    <2> QED BY <2>1
<1>4. ASSUME NEW r \in Nat, r \in Good PROVE r + 1 \in Good
    <2> SUFFICES ASSUME r + 1 <= m
                 PROVE  \E k, g : PackParts(f[r + 1], k, g, whole) /\ (k = 1 \/ k <= m - (r + 1))
        OBVIOUS
    <2>1. r <= m /\ r < m
        BY <1>1
    <2>2. PICK k, g : PackParts(f[r], k, g, whole) /\ (k = 1 \/ k <= m - r)
        BY <1>4, <2>1
    <2>3. k \in Nat \ {0}
        BY <2>2 DEF PackParts
    <2>4. f[r + 1] = MergePairs(f[r])
        BY <1>2, <2>1
    <2>5. PICK j, h : PackParts(MergePairs(f[r]), j, h, whole) /\ j = (k + 1) \div 2
        BY <2>2, RoundPacks
    <2>6. j = 1 \/ j <= m - (r + 1)
        BY <1>1, <2>2, <2>3, <2>5
    <2> QED BY <2>4, <2>5, <2>6
<1> HIDE DEF Good
<1>5. m \in Good
    BY <1>1, <1>3, <1>4, NatSetInduction
<1>6. PICK k, g : PackParts(f[m], k, g, whole) /\ (k = 1 \/ k <= m - m)
    BY <1>1, <1>5 DEF Good
<1>7. k = 1
    BY <1>1, <1>6 DEF PackParts
<1>8. PICK b \in Seq(Commitment) : Packs(f[m][1], b) /\ g[1] = g[0] \o b
    <2>1. 1 \in 1..k /\ 1 - 1 = 0
        BY <1>7
    <2> QED BY <1>6, <2>1 DEF PackParts
<1>9. g[0] = <<>> /\ g[1] = whole
    BY <1>6, <1>7 DEF PackParts
<1>10. whole = b
    <2>1. <<>> \o b = b
        BY ConcatEmptySeq
    <2> QED BY <1>8, <1>9, <2>1
<1> QED BY <1>2, <1>8, <1>10

-----------------------------------------------------------------------------
(* A batch, level by level.                                                *)

LevelZero(batch) ==
    [vals |-> batch.vals,
     flags |-> thermometerFromCount(batch.count, Len(batch.vals)),
     next |-> [k \in Level |-> Zero]]

IsLevel(m, f, frontier, n, batch) ==
    f = [l \in 0..m |-> IF l = 0 THEN LevelZero(batch)
                        ELSE NextLevel(f[l-1], frontier, n, n + batch.count, l-1)]

LEMMA LevelsAre ==
    ASSUME NEW frontier, NEW n, NEW batch
    PROVE  \E f : /\ f[0] = LevelZero(batch)
                  /\ \A l \in Nat : l < Depth =>
                        f[l + 1] = NextLevel(f[l], frontier, n, n + batch.count, l)
                  /\ Reduce(frontier, n, batch) = f[Depth]
<1> DEFINE Good == {m \in Nat : \E f : IsLevel(m, f, frontier, n, batch)}
<1>1. 0 \in Good
    <2>1. IsLevel(0, [l \in 0..0 |-> LevelZero(batch)], frontier, n, batch)
        BY DEF IsLevel
    <2> QED BY <2>1
<1>2. ASSUME NEW m \in Nat, m \in Good PROVE m + 1 \in Good
    <2>1. PICK f : f = [l \in 0..m |-> IF l = 0 THEN LevelZero(batch)
                                       ELSE NextLevel(f[l-1], frontier, n, n + batch.count, l-1)]
        BY <1>2 DEF IsLevel
    <2>2. PICK g : g = [l \in 0..m + 1 |->
                          IF l = m + 1 THEN NextLevel(f[m], frontier, n, n + batch.count, m) ELSE f[l]]
        OBVIOUS
    <2>3. \A l \in 0..m + 1 : g[l] = IF l = 0 THEN LevelZero(batch)
                                     ELSE NextLevel(g[l-1], frontier, n, n + batch.count, l-1)
        BY <2>1, <2>2
    <2>4. IsLevel(m + 1, g, frontier, n, batch)
        BY <2>2, <2>3 DEF IsLevel
    <2> QED BY <2>4
<1> HIDE DEF Good
<1>3. Depth \in Good
    BY <1>1, <1>2, NatSetInduction, TopIsZero
<1>4. PICK f : f = CHOOSE h : IsLevel(Depth, h, frontier, n, batch)
    OBVIOUS
<1>5. IsLevel(Depth, f, frontier, n, batch)
    BY <1>3, <1>4 DEF Good
<1>6. Reduce(frontier, n, batch) = f[Depth]
    BY <1>4 DEF Reduce, IsLevel, LevelZero
<1>7. \A l \in 0..Depth : f[l] = IF l = 0 THEN LevelZero(batch)
                                 ELSE NextLevel(f[l-1], frontier, n, n + batch.count, l-1)
    BY <1>5 DEF IsLevel
<1> QED BY <1>6, <1>7, TopIsZero

IsLastSum(m, f, run) ==
    f = [i \in 0..m |-> IF i = 0 THEN Zero
                        ELSE Add(f[i-1], Mul(IsLast(run.flags, i), run.vals[i]))]

(* Where one flag is the last, its value is the sum.                       *)
LEMMA LastIs ==
    ASSUME NEW run, Len(run.vals) \in Nat, NEW k \in 1..Len(run.vals),
           \A i \in 1..Len(run.vals) : IsLast(run.flags, i) <=> i = k
    PROVE  LastInRun(run) = run.vals[k]
<1> DEFINE Good == {m \in Nat : \E f : IsLastSum(m, f, run)}
<1>1. 0 \in Good
    <2>1. IsLastSum(0, [i \in 0..0 |-> Zero], run)
        BY DEF IsLastSum
    <2> QED BY <2>1
<1>2. ASSUME NEW m \in Nat, m \in Good PROVE m + 1 \in Good
    <2>1. PICK f : f = [i \in 0..m |-> IF i = 0 THEN Zero
                                       ELSE Add(f[i-1], Mul(IsLast(run.flags, i), run.vals[i]))]
        BY <1>2 DEF IsLastSum
    <2>2. PICK g : g = [i \in 0..m + 1 |->
                          IF i = m + 1 THEN Add(f[m], Mul(IsLast(run.flags, i), run.vals[i])) ELSE f[i]]
        OBVIOUS
    <2>3. \A i \in 0..m + 1 : g[i] = IF i = 0 THEN Zero
                                     ELSE Add(g[i-1], Mul(IsLast(run.flags, i), run.vals[i]))
        BY <2>1, <2>2
    <2>4. IsLastSum(m + 1, g, run)
        BY <2>2, <2>3 DEF IsLastSum
    <2> QED BY <2>4
<1> HIDE DEF Good
<1>3. Len(run.vals) \in Good
    BY <1>1, <1>2, NatSetInduction
<1>4. PICK f : f = CHOOSE h : IsLastSum(Len(run.vals), h, run)
    OBVIOUS
<1>5. IsLastSum(Len(run.vals), f, run)
    BY <1>3, <1>4 DEF Good
<1>6. LastInRun(run) = f[Len(run.vals)]
    BY <1>4 DEF LastInRun, IsLastSum
<1>7. \A i \in 0..Len(run.vals) : f[i] = IF i = 0 THEN Zero
                                         ELSE Add(f[i-1], Mul(IsLast(run.flags, i), run.vals[i]))
    BY <1>5 DEF IsLastSum
<1> DEFINE Summed == {i \in Nat : i <= Len(run.vals) => f[i] = IF i < k THEN Zero ELSE run.vals[k]}
<1>8. 0 \in Summed
    BY <1>7
<1>9. ASSUME NEW i \in Nat, i \in Summed PROVE i + 1 \in Summed
    <2> SUFFICES ASSUME i + 1 <= Len(run.vals)
                 PROVE  f[i + 1] = IF i + 1 < k THEN Zero ELSE run.vals[k]
        OBVIOUS
    <2>1. f[i] = IF i < k THEN Zero ELSE run.vals[k]
        BY <1>9
    <2>2. f[i + 1] = Add(f[i], Mul(IsLast(run.flags, i + 1), run.vals[i + 1]))
        BY <1>7
    <2>3. IsLast(run.flags, i + 1) <=> i + 1 = k
        OBVIOUS
    <2>4. CASE i + 1 = k
        <3>1. f[i] = Zero /\ Mul(IsLast(run.flags, i + 1), run.vals[i + 1]) = run.vals[k]
            BY <2>1, <2>3, <2>4 DEF Mul
        <3> QED BY <2>2, <2>4, <3>1 DEF Add
    <2>5. CASE i + 1 # k
        <3>1. Mul(IsLast(run.flags, i + 1), run.vals[i + 1]) = Zero
            BY <2>3, <2>5 DEF Mul
        <3>2. f[i + 1] = f[i]
            BY <2>2, <3>1 DEF Add
        <3> QED BY <2>1, <2>5, <3>2
    <2> QED BY <2>4, <2>5
<1> HIDE DEF Summed
<1>10. Len(run.vals) \in Summed
    BY <1>8, <1>9, NatSetInduction
<1> QED BY <1>6, <1>10 DEF Summed

(* A run at level l: the nodes of t from number a on, as far as they are   *)
(* full, that is, below number e.                                          *)
RunIs(run, m, a, e, l, t) ==
    /\ m \in Nat /\ a \in Nat /\ e \in Nat /\ a <= e /\ e <= a + m
    /\ run.vals = [j \in 1..m |-> run.vals[j]]
    /\ run.flags = [j \in 1..m |-> a + j - 1 < e]
    /\ \A j \in 1..m : a + j - 1 < e => run.vals[j] = Node(t, l, a + j - 1)

LEMMA Prepend ==
    ASSUME NEW S, NEW x \in S, NEW s \in Seq(S), NEW r, r = <<x>> \o s
    PROVE  /\ r \in Seq(S) /\ Len(r) = Len(s) + 1 /\ r[1] = x
           /\ \A j \in 2..Len(s) + 1 : r[j] = s[j - 1]
<1>1. PICK p : p = <<x>>
    OBVIOUS
<1>2. p \in Seq(S) /\ Len(p) = 1 /\ p[1] = x
    BY <1>1
<1>3. r = p \o s
    BY <1>1
<1>4. /\ r \in Seq(S) /\ Len(r) = Len(p) + Len(s)
      /\ \A i \in 1..Len(p) + Len(s) : r[i] = IF i <= Len(p) THEN p[i] ELSE s[i - Len(p)]
    BY ONLY <1>2, <1>3, s \in Seq(S), ConcatProperties
<1>5. Len(s) \in Nat
    OBVIOUS
<1> QED BY <1>2, <1>4, <1>5

(* With the peak, if there is one, it starts on an even number.            *)
LEMMA PeakRun ==
    ASSUME NEW s, NEW m, NEW a, NEW e, NEW l, NEW t, RunIs(s, m, a, e, l, t),
           NEW frontier, NEW n, NEW half \in Nat,
           a = IF Bit(n, l) THEN 2*half + 1 ELSE 2*half,
           Bit(n, l) => frontier[l] = Node(t, l, 2*half)
    PROVE  RunIs(PrependPeak(s, frontier, n, l), m + 1, 2*half, e, l, t)
<1>1. /\ m \in Nat /\ a \in Nat /\ e \in Nat /\ a <= e /\ e <= a + m
      /\ s.vals = [j \in 1..m |-> s.vals[j]]
      /\ s.flags = [j \in 1..m |-> a + j - 1 < e]
      /\ \A j \in 1..m : a + j - 1 < e => s.vals[j] = Node(t, l, a + j - 1)
    BY DEF RunIs
<1>2. PICK run : run = PrependPeak(s, frontier, n, l)
    OBVIOUS
<1>3. PICK S : S = {s.vals[j] : j \in 1..m} \cup {Zero, frontier[l]}
    OBVIOUS
<1>4. s.vals \in Seq(S) /\ Len(s.vals) = m
    <2>1. PICK v : v = s.vals
        OBVIOUS
    <2>2. v \in [1..m -> S]
        BY <1>1, <1>3, <2>1
    <2> QED BY <1>1, <2>1, <2>2
<1>5. s.flags \in Seq(BOOLEAN) /\ Len(s.flags) = m /\ \A j \in 1..m : s.flags[j] = (a + j - 1 < e)
    <2>1. PICK v : v = s.flags
        OBVIOUS
    <2>2. v \in [1..m -> BOOLEAN] /\ \A j \in 1..m : v[j] = (a + j - 1 < e)
        BY <1>1, <2>1
    <2> QED BY <1>1, <2>1, <2>2
<1>6. CASE Bit(n, l)
    <2>1. a = 2*half + 1
        BY <1>6
    <2>2. run.vals = <<frontier[l]>> \o s.vals
        BY <1>2, <1>6 DEF PrependPeak
    <2>3. run.flags = <<TRUE>> \o s.flags
        BY <1>2, <1>6 DEF PrependPeak
    <2>4. /\ run.vals \in Seq(S) /\ Len(run.vals) = m + 1
          /\ \A j \in 1..m + 1 : run.vals[j] = IF j = 1 THEN frontier[l] ELSE s.vals[j - 1]
        <3>1. frontier[l] \in S
            BY <1>3
        <3>2. /\ run.vals \in Seq(S) /\ Len(run.vals) = Len(s.vals) + 1 /\ run.vals[1] = frontier[l]
              /\ \A j \in 2..Len(s.vals) + 1 : run.vals[j] = s.vals[j - 1]
            BY ONLY <1>4, <2>2, <3>1, Prepend
        <3> QED BY <1>1, <1>4, <3>2
    <2>5. /\ run.flags \in Seq(BOOLEAN) /\ Len(run.flags) = m + 1 /\ run.flags[1]
          /\ \A j \in 2..m + 1 : run.flags[j] = s.flags[j - 1]
        <3>1. PICK yes : yes = TRUE
            OBVIOUS
        <3>2. yes \in BOOLEAN /\ run.flags = <<yes>> \o s.flags
            BY <2>3, <3>1
        <3>3. /\ run.flags \in Seq(BOOLEAN) /\ Len(run.flags) = Len(s.flags) + 1
              /\ run.flags[1] = yes
              /\ \A j \in 2..Len(s.flags) + 1 : run.flags[j] = s.flags[j - 1]
            BY ONLY <1>5, <3>2, Prepend
        <3>4. run.flags[1]
            BY ONLY <3>1, <3>3
        <3> QED BY <1>5, <3>3, <3>4
    <2>6. ASSUME NEW j \in 1..m + 1 PROVE run.flags[j] = (2*half + j - 1 < e)
        <3>1. CASE j = 1
            <4>1. 2*half + j - 1 < e
                BY <1>1, <2>1, <3>1
            <4>2. run.flags[j] \in BOOLEAN
                BY <1>1, <2>5
            <4> QED BY <2>5, <3>1, <4>1, <4>2
        <3>2. CASE j # 1
            <4>1. j - 1 \in 1..m /\ j \in 2..m + 1 /\ (a + (j - 1) - 1 < e <=> 2*half + j - 1 < e)
                BY <1>1, <2>1, <3>2
            <4>2. run.flags[j] = (a + (j - 1) - 1 < e)
                BY <1>5, <2>5, <4>1
            <4> QED BY <4>1, <4>2
        <3> QED BY <3>1, <3>2
    <2>7. ASSUME NEW j \in 1..m + 1, 2*half + j - 1 < e
          PROVE  run.vals[j] = Node(t, l, 2*half + j - 1)
        <3>1. CASE j = 1
            <4>1. 2*half + j - 1 = 2*half
                BY <3>1
            <4> QED BY <1>6, <2>4, <3>1, <4>1
        <3>2. CASE j # 1
            <4>1. j - 1 \in 1..m /\ a + (j - 1) - 1 = 2*half + j - 1
                BY <1>1, <2>1, <3>2
            <4>2. s.vals[j - 1] = Node(t, l, 2*half + j - 1)
                BY <1>1, <2>7, <4>1
            <4> QED BY <2>4, <3>2, <4>2
        <3> QED BY <3>1, <3>2
    <2>8. run.vals = [j \in 1..m + 1 |-> run.vals[j]]
        BY <2>4
    <2>9. run.flags = [j \in 1..m + 1 |-> 2*half + j - 1 < e]
        BY <2>5, <2>6
    <2>10. 2*half \in Nat /\ 2*half <= e /\ e <= 2*half + (m + 1) /\ m + 1 \in Nat
        BY <1>1, <2>1
    <2>11. RunIs(run, m + 1, 2*half, e, l, t)
        BY <1>1, <2>7, <2>8, <2>9, <2>10 DEF RunIs
    <2> QED BY <1>2, <2>11
<1>7. CASE ~Bit(n, l)
    <2>1. a = 2*half
        BY <1>7
    <2>2. run.vals = Append(s.vals, Zero)
        BY <1>2, <1>7 DEF PrependPeak
    <2>3. run.flags = Append(s.flags, FALSE)
        BY <1>2, <1>7 DEF PrependPeak
    <2>4. /\ run.vals \in Seq(S) /\ Len(run.vals) = m + 1
          /\ \A j \in 1..m : run.vals[j] = s.vals[j]
        <3>1. Zero \in S
            BY <1>3
        <3> QED BY <1>4, <2>2, <3>1, AppendProperties
    <2>5. PICK no : no = FALSE
        OBVIOUS
    <2>6. /\ run.flags \in Seq(BOOLEAN) /\ Len(run.flags) = m + 1 /\ run.flags[m + 1] = no
          /\ \A j \in 1..m : run.flags[j] = s.flags[j]
        <3>1. no \in BOOLEAN /\ run.flags = Append(s.flags, no)
            BY <2>3, <2>5
        <3> QED BY <1>5, <3>1, AppendProperties
    <2>7. ASSUME NEW j \in 1..m + 1 PROVE run.flags[j] = (2*half + j - 1 < e)
        <3>1. CASE j = m + 1
            <4>1. ~(2*half + j - 1 < e)
                BY <1>1, <2>1, <3>1
            <4> QED BY <2>5, <2>6, <3>1, <4>1
        <3>2. CASE j # m + 1
            <4>1. j \in 1..m
                BY <1>1, <3>2
            <4> QED BY <1>5, <2>1, <2>6, <4>1
        <3> QED BY <3>1, <3>2
    <2>8. ASSUME NEW j \in 1..m + 1, 2*half + j - 1 < e
          PROVE  run.vals[j] = Node(t, l, 2*half + j - 1)
        <3>1. j \in 1..m
            BY <1>1, <2>1, <2>8
        <3> QED BY <1>1, <2>1, <2>4, <2>8, <3>1
    <2>9. run.vals = [j \in 1..m + 1 |-> run.vals[j]]
        BY <2>4
    <2>10. run.flags = [j \in 1..m + 1 |-> 2*half + j - 1 < e]
        BY <2>6, <2>7
    <2>11. 2*half \in Nat /\ 2*half <= e /\ e <= 2*half + (m + 1) /\ m + 1 \in Nat
        BY <1>1, <2>1
    <2>12. RunIs(run, m + 1, 2*half, e, l, t)
        BY <1>1, <2>8, <2>9, <2>10, <2>11 DEF RunIs
    <2> QED BY <1>2, <2>12
<1> QED BY <1>6, <1>7

(* One level up the run has the parents: a parent is live if its right     *)
(* child is full.                                                          *)
LEMMA NextRun ==
    ASSUME NEW run, NEW m \in Nat, NEW half \in Nat, NEW e \in Nat, NEW l \in Nat, l < Depth, NEW t,
           RunIs(run, m + 1, 2*half, e, l, t), NEW up,
           up.vals = [i \in 1..Len(run.vals) \div 2 |-> Poseidon2T4(run.vals[2*i-1], run.vals[2*i])],
           up.flags = [i \in 1..Len(run.vals) \div 2 |-> ParentIsLive(run.flags, i)]
    PROVE  RunIs(up, (m + 1) \div 2, half, e \div 2, l + 1, t)
<1>1. /\ 2*half <= e /\ e <= 2*half + (m + 1)
      /\ run.vals = [j \in 1..m + 1 |-> run.vals[j]]
      /\ run.flags = [j \in 1..m + 1 |-> 2*half + j - 1 < e]
      /\ \A j \in 1..m + 1 : 2*half + j - 1 < e => run.vals[j] = Node(t, l, 2*half + j - 1)
    BY DEF RunIs
<1>2. Len(run.vals) = m + 1
    BY <1>1, LenOf
<1>3. PICK k \in Nat, d \in Nat : k = (m + 1) \div 2 /\ d = e \div 2
    <2>1. (m + 1) \div 2 \in Nat /\ e \div 2 \in Nat
        OBVIOUS
    <2> QED BY <2>1
<1>4. half <= d /\ d <= half + k
    BY <1>1, <1>3
<1>5. ASSUME NEW i \in 1..k
      PROVE  /\ 2*i - 1 \in 1..m + 1 /\ 2*i \in 1..m + 1
             /\ half + i - 1 \in Nat
             /\ 2*half + 2*i - 1 < e <=> half + i - 1 < d
             /\ 2*half + (2*i - 1) - 1 = 2*(half + i - 1)
             /\ 2*half + 2*i - 1 = 2*(half + i - 1) + 1
             /\ 2*half + 2*i - 1 < e => 2*half + (2*i - 1) - 1 < e
    BY <1>3
<1>6. up.vals = [i \in 1..k |-> up.vals[i]]
    BY <1>2, <1>3
<1>7. up.flags = [i \in 1..k |-> half + i - 1 < d]
    <2>1. ASSUME NEW i \in 1..k PROVE ParentIsLive(run.flags, i) = (half + i - 1 < d)
        <3>1. run.flags[2*i] = (2*half + 2*i - 1 < e)
            BY <1>1, <1>5
        <3> QED BY <1>5, <3>1 DEF ParentIsLive
    <2> QED BY <1>2, <1>3, <2>1
<1>8. ASSUME NEW i \in 1..k, half + i - 1 < d
      PROVE  up.vals[i] = Node(t, l + 1, half + i - 1)
    <2>1. up.vals[i] = Poseidon2T4(run.vals[2*i-1], run.vals[2*i])
        BY <1>2, <1>3
    <2>2. run.vals[2*i-1] = Node(t, l, 2*(half + i - 1)) /\ run.vals[2*i] = Node(t, l, 2*(half + i - 1) + 1)
        BY <1>1, <1>5, <1>8
    <2>3. Node(t, l + 1, half + i - 1) = Poseidon2T4(Node(t, l, 2*(half + i - 1)), Node(t, l, 2*(half + i - 1) + 1))
        BY <1>5, NodeIs
    <2> QED BY <2>1, <2>2, <2>3
<1> QED BY <1>3, <1>4, <1>6, <1>7, <1>8 DEF RunIs

(* The last live node of a run is the left sibling of the new path.        *)
LEMMA LastOfRun ==
    ASSUME NEW run, NEW m \in Nat, NEW half \in Nat, NEW e \in Nat, e % 2 = 1, NEW l, NEW t,
           RunIs(run, m, 2*half, e, l, t)
    PROVE  LastInRun(run) = Node(t, l, e - 1)
<1>1. /\ 2*half <= e /\ e <= 2*half + m
      /\ run.vals = [j \in 1..m |-> run.vals[j]]
      /\ run.flags = [j \in 1..m |-> 2*half + j - 1 < e]
      /\ \A j \in 1..m : 2*half + j - 1 < e => run.vals[j] = Node(t, l, 2*half + j - 1)
    BY DEF RunIs
<1>2. Len(run.vals) = m
    BY <1>1, LenOf
<1>3. run.flags = [j \in 1..m |-> run.flags[j]]
    BY <1>1
<1>4. Len(run.flags) = m
    BY <1>3, LenOf
<1>5. PICK k \in 1..m : k = e - 2*half
    BY <1>1
<1>6. \A j \in 1..m : run.flags[j] <=> j <= k
    <2>1. ASSUME NEW j \in 1..m PROVE run.flags[j] <=> j <= k
        <3>1. run.flags[j] = (2*half + j - 1 < e)
            BY <1>1
        <3>2. 2*half + j - 1 < e <=> j <= k
            BY <1>5
        <3> QED BY <3>1, <3>2
    <2> QED BY <2>1
<1>7. \A i \in 1..m : IsLast(run.flags, i) <=> i = k
    BY <1>4, <1>6 DEF IsLast
<1>8. LastInRun(run) = run.vals[k]
    BY <1>2, <1>7, LastIs
<1>9. 2*half + k - 1 = e - 1 /\ 2*half + k - 1 < e
    BY <1>5
<1> QED BY <1>1, <1>8, <1>9

(* All leaves of a packed list at once (frontier_batch.go                  *)
(* appendFrontierBatch): the state is that of the longer list.             *)
LEMMA BatchAppend ==
    ASSUME NEW s \in Seq(Commitment), Len(s) < Capacity, NEW frontier, FrontierOf(frontier, s),
           NEW b \in Seq(Commitment), NEW p, Packs(p, b), Len(s) + Len(b) <= Capacity
    PROVE  LET r == appendFrontierBatch(frontier, Len(s), p)
               t == s \o b
           IN  /\ Reached(r, t)
               /\ r.finalCarry = Mul(Len(t) = Capacity, MerkleRoot(t))
<1>1. PICK n \in Nat, c \in Nat, N \in Nat : n = Len(s) /\ c = Len(b) /\ N = n + c
    OBVIOUS
<1>2. PICK t \in Seq(Commitment) : t = s \o b
    BY ConcatProperties
<1>3. /\ Len(t) = N /\ DOMAIN t = 1..N /\ DOMAIN s = 1..n
      /\ \A i \in 1..n : t[i] = s[i]
      /\ \A i \in 1..c : t[n + i] = b[i]
    <2>1. /\ Len(t) = Len(s) + Len(b)
          /\ \A i \in 1..Len(s) + Len(b) : t[i] = IF i <= Len(s) THEN s[i] ELSE b[i - Len(s)]
        BY <1>2, ConcatProperties
    <2>2. DOMAIN t = 1..Len(t) /\ DOMAIN s = 1..Len(s)
        OBVIOUS
    <2>3. Len(t) = N /\ \A i \in 1..N : t[i] = IF i <= n THEN s[i] ELSE b[i - n]
        BY <1>1, <2>1
    <2>4. \A i \in 1..n : t[i] = s[i]
        BY <1>1, <2>3
    <2>5. ASSUME NEW i \in 1..c PROVE t[n + i] = b[i]
        <3>1. n + i \in 1..N /\ ~(n + i <= n) /\ (n + i) - n = i
            BY <1>1
        <3> QED BY <2>3, <3>1
    <2> QED BY <1>1, <2>2, <2>3, <2>4, <2>5
<1>4. \A l, i \in Nat : l <= Depth /\ i < n \div Pow2[l] => Node(t, l, i) = Node(s, l, i)
    <2>1. Len(s) = n /\ DOMAIN s = 1..n /\ DOMAIN s \subseteq DOMAIN t /\ \A i \in 1..n : t[i] = s[i]
        BY <1>1, <1>3
    <2> QED BY SMTT(30), <2>1, NodeKept
<1>5. PICK m0 \in Nat \ {0} : m0 = Len(p.vals)
    BY SMTT(30) DEF Packs
<1>6. /\ c <= m0 /\ p.count = c
      /\ \A i \in 1..m0 : p.vals[i] = IF i <= c THEN b[i] ELSE Zero
      /\ p.vals = [j \in 1..m0 |-> p.vals[j]]
    <2>1. PICK v \in Seq(Slot) : v = p.vals
        BY DEF Packs
    <2>2. v = [j \in 1..Len(v) |-> v[j]]
        OBVIOUS
    <2> QED BY <1>1, <1>5, <2>1, <2>2 DEF Packs
<1>7. PICK f : /\ f[0] = LevelZero(p)
               /\ \A l \in Nat : l < Depth => f[l + 1] = NextLevel(f[l], frontier, n, n + p.count, l)
               /\ Reduce(frontier, n, p) = f[Depth]
    BY SMTT(30), LevelsAre
<1> DEFINE Known(next, l) ==
               /\ next = [k \in Level |-> next[k]]
               /\ \A k \in Level : k < l /\ Bit(N, k) => next[k] = Node(t, k, (N \div Pow2[k]) - 1)
           Good == {l \in Nat : l <= Depth =>
                       /\ \E m \in Nat \ {0} : RunIs(f[l], m, n \div Pow2[l], N \div Pow2[l], l, t)
                       /\ Known(f[l].next, l)}
<1>8. 0 \in Good
    <2>1. PICK g : g = f[0] /\ g = LevelZero(p)
        BY <1>7
    <2>2. g.vals = p.vals /\ g.flags = thermometerFromCount(p.count, Len(p.vals)) /\ g.next = [k \in Level |-> Zero]
        BY <2>1 DEF LevelZero
    <2>3. g.flags = [j \in 1..m0 |-> n + j - 1 < N]
        <3>1. ASSUME NEW j \in 1..m0 PROVE (j <= c) = (n + j - 1 < N)
            <4>1. j <= c <=> n + j - 1 < N
                BY <1>1
            <4> QED BY <4>1
        <3>2. g.flags = [j \in 1..m0 |-> j <= c]
            BY <1>5, <1>6, <2>2 DEF thermometerFromCount
        <3> QED BY <3>1, <3>2
    <2>4. ASSUME NEW j \in 1..m0, n + j - 1 < N PROVE g.vals[j] = Node(t, 0, n + j - 1)
        <3>1. j \in 1..c /\ n + j - 1 \in Nat /\ (n + j - 1) + 1 = n + j /\ n + j \in 1..N
            BY <1>1, <2>4
        <3>2. g.vals[j] = b[j] /\ t[n + j] = b[j]
            BY <1>3, <1>6, <2>2, <3>1
        <3>3. Node(t, 0, n + j - 1) = t[n + j]
            BY SMTT(30), <1>3, <3>1, NodeIs DEF LeafAt
        <3> QED BY <3>2, <3>3
    <2>5. n <= N /\ N <= n + m0
        BY <1>1, <1>6
    <2>6. g.vals = [j \in 1..m0 |-> g.vals[j]]
        BY <1>6, <2>2
    <2>7. RunIs(g, m0, n, N, 0, t)
        BY <2>3, <2>4, <2>5, <2>6 DEF RunIs
    <2>8. Known(g.next, 0)
        BY <2>2 DEF Level
    <2>9. n \div Pow2[0] = n /\ N \div Pow2[0] = N
        BY Halving
    <2> QED BY <2>1, <2>7, <2>8, <2>9
<1>9. ASSUME NEW l \in Nat, l \in Good PROVE l + 1 \in Good
    <2> SUFFICES ASSUME l + 1 <= Depth
                 PROVE  /\ \E m \in Nat \ {0} : RunIs(f[l + 1], m, n \div Pow2[l + 1], N \div Pow2[l + 1], l + 1, t)
                        /\ Known(f[l + 1].next, l + 1)
        OBVIOUS
    <2>1. l < Depth /\ l <= Depth /\ l \in Level
        BY TopIsZero DEF Level
    <2>a. PICK g : g = f[l]
        OBVIOUS
    <2>2. PICK m \in Nat \ {0}, a \in Nat, e \in Nat, half \in Nat, d \in Nat :
              /\ a = n \div Pow2[l] /\ e = N \div Pow2[l]
              /\ half = n \div Pow2[l + 1] /\ d = N \div Pow2[l + 1]
              /\ RunIs(g, m, a, e, l, t)
        <3>1. PICK m \in Nat \ {0} : RunIs(g, m, n \div Pow2[l], N \div Pow2[l], l, t)
            BY <1>9, <2>1, <2>a
        <3>2. /\ n \div Pow2[l] \in Nat /\ N \div Pow2[l] \in Nat
              /\ n \div Pow2[l + 1] \in Nat /\ N \div Pow2[l + 1] \in Nat
            BY Halving
        <3> QED BY <3>1, <3>2
    <2>3. Known(g.next, l)
        BY <1>9, <2>1, <2>a
    <2>4. a = IF Bit(n, l) THEN 2*half + 1 ELSE 2*half
        <3>1. a = 2 * half + (IF Bit(n, l) THEN 1 ELSE 0)
            BY <2>2, Halving
        <3> QED BY <3>1
    <2>5. d = e \div 2 /\ (Bit(N, l) <=> e % 2 = 1)
        BY <2>2, Halving DEF Bit
    <2>6. ASSUME Bit(n, l) PROVE frontier[l] = Node(t, l, 2*half)
        <3>1. frontier[l] = Node(s, l, a - 1)
            BY <1>1, <2>1, <2>2, <2>6 DEF FrontierOf
        <3>2. a - 1 = 2*half /\ 2*half \in Nat /\ 2*half < a
            BY <2>4, <2>6
        <3>3. Node(t, l, 2*half) = Node(s, l, 2*half)
            BY <1>4, <2>1, <2>2, <3>2
        <3> QED BY <3>1, <3>2, <3>3
    <2>7. PICK run : run = PrependPeak(g, frontier, n, l)
        OBVIOUS
    <2>8. RunIs(run, m + 1, 2*half, e, l, t)
        BY <2>2, <2>4, <2>6, <2>7, PeakRun
    <2>9. PICK up : up = f[l + 1] /\ up = NextLevel(g, frontier, n, N, l)
        BY <1>1, <1>6, <1>7, <2>1, <2>a
    <2>10. /\ up.vals = [i \in 1..Len(run.vals) \div 2 |-> Poseidon2T4(run.vals[2*i-1], run.vals[2*i])]
           /\ up.flags = [i \in 1..Len(run.vals) \div 2 |-> ParentIsLive(run.flags, i)]
           /\ up.next = [g.next EXCEPT ![l] = Mul(Bit(N, l), LastInRun(run))]
        BY <2>7, <2>9 DEF NextLevel
    <2>11. RunIs(up, (m + 1) \div 2, half, d, l + 1, t)
        BY <2>1, <2>5, <2>8, <2>10, NextRun
    <2>12. (m + 1) \div 2 \in Nat \ {0}
        OBVIOUS
    <2>13. Known(up.next, l + 1)
        <3>1. PICK next : next = g.next
            OBVIOUS
        <3>2. next = [k \in Level |-> next[k]]
            BY <2>3, <3>1
        <3>3. up.next = [k \in Level |-> IF k = l THEN Mul(Bit(N, l), LastInRun(run)) ELSE next[k]]
            BY <2>10, <3>1, <3>2
        <3>4. up.next = [k \in Level |-> up.next[k]]
            BY <3>3
        <3>5. ASSUME NEW k \in Level, k < l + 1, Bit(N, k)
              PROVE  up.next[k] = Node(t, k, (N \div Pow2[k]) - 1)
            <4>1. CASE k = l
                <5>1. LastInRun(run) = Node(t, l, e - 1)
                    BY SMTT(30), <2>5, <2>8, <3>5, <4>1, LastOfRun
                <5>2. up.next[k] = Mul(Bit(N, l), LastInRun(run))
                    BY <3>3, <4>1
                <5> QED BY <2>2, <3>5, <4>1, <5>1, <5>2 DEF Mul
            <4>2. CASE k # l
                <5>1. k < l
                    BY <3>5, <4>2 DEF Level
                <5>2. up.next[k] = next[k]
                    BY <3>3, <4>2
                <5> QED BY <2>3, <3>1, <3>5, <5>1, <5>2
            <4> QED BY <4>1, <4>2
        <3> QED BY <3>4, <3>5
    <2> HIDE DEF Known
    <2> QED BY <2>2, <2>9, <2>11, <2>12, <2>13
<1> HIDE DEF Good, Known
<1>10. Depth \in Good
    BY <1>8, <1>9, NatSetInduction, TopIsZero
<1>a. PICK top : top = f[Depth]
    OBVIOUS
<1>11. PICK m \in Nat \ {0} :
           /\ RunIs(top, m, n \div Pow2[Depth], N \div Pow2[Depth], Depth, t)
           /\ Known(top.next, Depth)
    BY <1>10, <1>a, TopIsZero DEF Good
<1>12. n \div Pow2[Depth] = 0 /\ N \div Pow2[Depth] = IF N = Capacity THEN 1 ELSE 0
    BY <1>1, TopIsZero
<1>13. 1 \in 1..m
    OBVIOUS
<1>14. top.flags[1] <=> N = Capacity
    <2>1. top.flags[1] = (0 + 1 - 1 < IF N = Capacity THEN 1 ELSE 0)
        <3>1. top.flags = [j \in 1..m |-> 0 + j - 1 < IF N = Capacity THEN 1 ELSE 0]
            BY <1>11, <1>12 DEF RunIs
        <3> QED BY <1>13, <3>1
    <2>2. 0 + 1 - 1 < (IF N = Capacity THEN 1 ELSE 0) <=> N = Capacity
        OBVIOUS
    <2> QED BY <2>1, <2>2
<1>15. ASSUME N = Capacity PROVE top.vals[1] = MerkleRoot(t)
    <2>1. top.vals[1] = Node(t, Depth, 0 + 1 - 1)
        <3>1. \A j \in 1..m : 0 + j - 1 < 1 => top.vals[j] = Node(t, Depth, 0 + j - 1)
            BY <1>11, <1>12, <1>15 DEF RunIs
        <3> QED BY <1>13, <3>1
    <2> QED BY <2>1 DEF MerkleRoot
<1>16. PICK r : /\ r = appendFrontierBatch(frontier, n, p)
                /\ r.frontier = top.next /\ r.count = N
                /\ r.finalCarry = Mul(top.flags[1], top.vals[1])
    <2>1. PICK r : r = [frontier |-> top.next, count |-> N, finalCarry |-> Mul(top.flags[1], top.vals[1])]
        OBVIOUS
    <2>2. r = appendFrontierBatch(frontier, n, p)
        BY <1>1, <1>6, <1>7, <1>a, <2>1 DEF appendFrontierBatch
    <2>3. r.frontier = top.next /\ r.count = N /\ r.finalCarry = Mul(top.flags[1], top.vals[1])
        BY <2>1
    <2> QED BY <2>2, <2>3
<1>17. r.finalCarry = Mul(N = Capacity, MerkleRoot(t))
    BY <1>14, <1>15, <1>16 DEF Mul
<1>18. FrontierOf(r.frontier, t)
    <2>1. \A k \in Level : k < Depth
        BY TopIsZero DEF Level
    <2> QED BY <1>3, <1>11, <1>16, <2>1 DEF FrontierOf, Known
<1>19. Reached(r, t)
    BY <1>3, <1>16, <1>17, <1>18 DEF Reached, Mul
<1> QED BY <1>1, <1>2, <1>3, <1>16, <1>17, <1>19

-----------------------------------------------------------------------------
(* The leaves of an epoch.                                                 *)

LEMMA UpToIs ==
    ASSUME NEW n \in Nat, NEW s
    PROVE  s \in UpTo(n) <=> s \in Seq(Commitment) /\ Len(s) <= n
<1>1. ASSUME s \in UpTo(n) PROVE s \in Seq(Commitment) /\ Len(s) <= n
    <2>1. PICK k \in 0..n : s \in [1..k -> Commitment]
        BY SMTT(30), <1>1 DEF UpTo
    <2> QED BY <2>1
<1>2. ASSUME s \in Seq(Commitment), Len(s) <= n PROVE s \in UpTo(n)
    <2>1. Len(s) \in 0..n /\ s \in [1..Len(s) -> Commitment]
        BY <1>2
    <2> QED BY <2>1 DEF UpTo
<1> QED BY <1>1, <1>2

(* Lists one behind the other, and what the first i of them hold.          *)
LEMMA FlattenIs ==
    ASSUME NEW n \in Nat, NEW lists, lists \in [1..n -> Seq(Commitment)]
    PROVE  \E upTo \in [0..n -> Seq(Commitment)] :
              /\ upTo[0] = <<>> /\ upTo[n] = FlattenSeq(lists)
              /\ \A i \in 1..n : upTo[i] = upTo[i - 1] \o lists[i]
<1>1. Len(lists) = n
    OBVIOUS
<1>2. PICK f : f = CHOOSE h : Joins(n, h, lists)
    OBVIOUS
<1>3. Joins(n, f, lists)
    BY <1>2, JoinsExists
<1>4. \A i \in 1..n : f[i] = IF i = 1 THEN lists[i] ELSE f[i - 1] \o lists[i]
    BY <1>3 DEF Joins
<1>5. PICK upTo : upTo = [i \in 0..n |-> IF i = 0 THEN <<>> ELSE f[i]]
    OBVIOUS
<1>6. upTo[0] = <<>> /\ \A i \in 1..n : upTo[i] = f[i]
    BY <1>5
<1>7. ASSUME NEW i \in 1..n PROVE upTo[i] = upTo[i - 1] \o lists[i]
    <2>1. CASE i = 1
        <3>1. PICK s \in Seq(Commitment) : s = lists[i]
            OBVIOUS
        <3>2. <<>> \o s = s
            BY ConcatEmptySeq
        <3>3. upTo[i] = s
            BY <1>4, <1>6, <2>1, <3>1
        <3>4. i - 1 = 0
            BY <2>1
        <3>5. upTo[i - 1] = <<>>
            BY <1>6, <3>4
        <3> QED BY <3>1, <3>2, <3>3, <3>5
    <2>2. CASE i # 1
        <3>1. i - 1 \in 1..n
            BY <2>2
        <3> QED BY <1>4, <1>6, <2>2, <3>1
    <2> QED BY <2>1, <2>2
<1> DEFINE Good == {i \in Nat : i <= n => upTo[i] \in Seq(Commitment)}
<1>8. 0 \in Good
    BY <1>6, EmptySeq
<1>9. ASSUME NEW i \in Nat, i \in Good PROVE i + 1 \in Good
    <2> SUFFICES ASSUME i + 1 <= n PROVE upTo[i + 1] \in Seq(Commitment)
        OBVIOUS
    <2>1. i + 1 \in 1..n /\ (i + 1) - 1 = i /\ i <= n
        OBVIOUS
    <2>2. PICK s \in Seq(Commitment), t \in Seq(Commitment) : s = upTo[i] /\ t = lists[i + 1]
        BY <1>9, <2>1
    <2>3. upTo[i + 1] = s \o t
        BY <1>7, <2>1, <2>2
    <2> QED BY <2>3, ConcatProperties
<1> HIDE DEF Good
<1>10. \A i \in 0..n : upTo[i] \in Seq(Commitment)
    <2>1. \A i \in Nat : i \in Good
        BY <1>8, <1>9, NatSetInduction
    <2>2. ASSUME NEW i \in 0..n PROVE upTo[i] \in Seq(Commitment)
        <3>1. i \in Nat /\ i <= n
            OBVIOUS
        <3> QED BY <2>1, <3>1 DEF Good
    <2> QED BY <2>2
<1>11. upTo \in [0..n -> Seq(Commitment)]
    BY <1>5, <1>10
<1>12. upTo[n] = FlattenSeq(lists)
    <2>1. CASE n = 0
        <3>1. FlattenSeq(lists) = lists
            BY <1>1, <2>1 DEF FlattenSeq
        <3>2. lists = <<>>
            BY <2>1
        <3> QED BY <1>6, <2>1, <3>1, <3>2
    <2>2. CASE n # 0
        <3>1. FlattenSeq(lists) = f[n]
            BY <1>1, <1>2, <2>2 DEF FlattenSeq, Joins
        <3> QED BY <1>6, <2>2, <3>1
    <2> QED BY <2>1, <2>2
<1> QED BY <1>6, <1>7, <1>11, <1>12

(* The merged list holds the outputs of the transfers, slot by slot, and   *)
(* then the fee notes (epoch_circuit.go).                                  *)
LEMMA EpochPacks ==
    ASSUME NEW b \in EpochBatch
    PROVE  /\ MintedByEpoch(b) \in Seq(Commitment)
           /\ Packs(PendingLeaves(b), MintedByEpoch(b))
<1>1. PICK T \in Nat : T = Len(OutputSlots) /\ Transfers = 1..T
    BY SlotsAssumption DEF Transfers
<1>2. \A i \in 1..T : OutputSlots[i] \in Nat \ {0}
    BY <1>1, SlotsAssumption
<1>3. PICK transfers, fees :
          /\ transfers = b.transfers /\ fees = b.fees
          /\ \A i \in 1..T : transfers[i] \in TransferSlot(i)
          /\ fees \in UpTo(FeeSlots)
    BY <1>1 DEF EpochBatch
<1>4. FeeSlots \in Nat \ {0} /\ fees \in Seq(Commitment) /\ Len(fees) <= FeeSlots
    BY <1>3, SlotsAssumption, UpToIs
<1>5. ASSUME NEW i \in 1..T
      PROVE  /\ MintedBy(transfers[i]) \in Seq(Commitment)
             /\ Packs(treeLeavesForTransfer(transfers[i], OutputSlots[i]), MintedBy(transfers[i]))
    <2>0. PICK x : x = transfers[i]
        OBVIOUS
    <2>1. PICK n \in Nat \ {0} : x = transfers[i] /\ n = OutputSlots[i]
        BY <1>2, <2>0
    <2>2. x.outputs \in UpTo(n) /\ (x.isWithdrawal => x.outputs # <<>>)
        BY <1>3, <2>1 DEF TransferSlot
    <2>3. x.outputs \in Seq(Commitment) /\ Len(x.outputs) <= n
        BY <2>2, UpToIs
    <2> QED BY <2>1, <2>2, <2>3, TransferPacks
<1>6. PICK parts : parts = [i \in 1..T |-> MintedBy(transfers[i])]
    OBVIOUS
<1>7. parts \in [1..T -> Seq(Commitment)]
    BY <1>5, <1>6
<1>8. PICK upTo \in [0..T -> Seq(Commitment)] :
          /\ upTo[0] = <<>> /\ upTo[T] = FlattenSeq(parts)
          /\ \A i \in 1..T : upTo[i] = upTo[i - 1] \o parts[i]
    BY <1>7, FlattenIs
<1>9. PICK whole \in Seq(Commitment) : whole = upTo[T] \o fees
    <2>1. PICK w \in Seq(Commitment) : w = upTo[T]
        OBVIOUS
    <2> QED BY <1>4, <2>1, ConcatProperties
<1>10. MintedByEpoch(b) = whole
    BY <1>1, <1>3, <1>6, <1>8, <1>9 DEF MintedByEpoch
<1>11. PICK own : own = [i \in 1..T |-> treeLeavesForTransfer(transfers[i], OutputSlots[i])]
    OBVIOUS
<1>12. PICK last : last = newPrefixPackedList(Padded(fees, FeeSlots), ActiveUpTo(Len(fees), FeeSlots))
    OBVIOUS
<1>13. PICK lists : lists = Append(own, last) /\ PendingLeaves(b) = mergePackedLists(lists)
    BY <1>1, <1>3, <1>11, <1>12 DEF PendingLeaves
<1>14. Len(lists) = T + 1 /\ lists[T + 1] = last /\ \A i \in 1..T : lists[i] = own[i]
    <2>1. PICK S : S = {own[i] : i \in 1..T} \cup {last}
        OBVIOUS
    <2>2. own \in Seq(S) /\ Len(own) = T /\ last \in S
        BY <1>11, <2>1
    <2> QED BY ONLY <1>13, <2>2, AppendProperties
<1>15. PICK g : g = [i \in 0..T + 1 |-> IF i = T + 1 THEN whole ELSE upTo[i]]
    OBVIOUS
<1>16. g \in [0..T + 1 -> Seq(Commitment)] /\ g[0] = <<>> /\ g[T + 1] = whole /\ \A i \in 0..T : g[i] = upTo[i]
    BY <1>8, <1>15
<1>17. ASSUME NEW i \in 1..T + 1
       PROVE  \E c \in Seq(Commitment) : Packs(lists[i], c) /\ g[i] = g[i - 1] \o c
    <2>1. CASE i = T + 1
        <3>1. Packs(last, fees)
            BY <1>4, <1>12, PaddedPacks
        <3>2. g[i] = g[i - 1] \o fees
            <4>1. i - 1 = T /\ T \in 0..T
                BY <2>1
            <4> QED BY <1>9, <1>16, <2>1, <4>1
        <3> QED BY <1>4, <1>14, <2>1, <3>1, <3>2
    <2>2. CASE i # T + 1
        <3>1. i \in 1..T /\ i - 1 \in 0..T /\ i \in 0..T
            BY <2>2
        <3>2. PICK c \in Seq(Commitment) : c = MintedBy(transfers[i]) /\ c = parts[i]
            BY <1>5, <1>6, <3>1
        <3>3. Packs(lists[i], c)
            BY <1>5, <1>11, <1>14, <3>1, <3>2
        <3>4. g[i] = g[i - 1] \o c
            BY <1>8, <1>16, <3>1, <3>2
        <3> QED BY <3>3, <3>4
    <2> QED BY <2>1, <2>2
<1>18. PackParts(lists, T + 1, g, whole)
    <2>1. T + 1 \in Nat \ {0}
        OBVIOUS
    <2> QED BY <1>14, <1>16, <1>17, <2>1 DEF PackParts
<1>19. Packs(mergePackedLists(lists), whole)
    BY <1>18, ListsPack
<1> QED BY <1>9, <1>10, <1>13, <1>19

-----------------------------------------------------------------------------
(* The tree.                                                               *)

(* The tree holds no more leaves than it can, and its root is theirs.      *)
TreeInvariant ==
    /\ leaves \in Seq(Commitment) /\ Len(leaves) <= Capacity
    /\ count = Len(leaves)
    /\ root = MerkleRoot(leaves)

LEMMA NoBits == \A l \in Level : ~Bit(0, l)
<1>1. ASSUME NEW l \in Nat PROVE ~Bit(0, l)
    <2>1. Pow2[l] \in Nat \ {0}
        BY Pow2Step
    <2>2. 0 \div Pow2[l] = 0
        BY <2>1, QuotientIs
    <2> QED BY <2>2 DEF Bit
<1> QED BY <1>1 DEF Level

(* A proof starts from the tree as it is, or from an empty one; whatever   *)
(* witness it brings, it brings the frontier.                              *)
Base == IF Rollover THEN <<>> ELSE leaves

LEMMA StartIsTree ==
    ASSUME TreeInvariant, NEW f \in Witness
    PROVE  /\ Base \in Seq(Commitment) /\ Len(Base) < Capacity
           /\ StartCount = Len(Base)
           /\ FrontierOf(StartFrontier(f), Base)
<1>1. Capacity \in Nat \ {0}
    BY TopIsZero
<1>2. CASE Rollover
    <2>1. Base = <<>> /\ StartCount = 0
        BY <1>2 DEF Base, StartCount
    <2>2. Len(Base) = 0 /\ Base \in Seq(Commitment)
        BY <2>1, EmptySeq
    <2> QED BY <1>1, <2>1, <2>2, NoBits DEF FrontierOf
<1>3. CASE ~Rollover
    <2>1. Base = leaves /\ StartCount = count /\ StartFrontier(f) = f
        BY <1>3 DEF Base, StartCount, StartFrontier
    <2>2. Len(leaves) < Capacity
        BY <1>1, <1>3 DEF TreeInvariant, Rollover
    <2>3. computeRootFromFrontier(f, Len(leaves)) = MerkleRoot(leaves)
        BY <1>3 DEF TreeInvariant, Witness, BoundToRoot
    <2> QED BY <2>1, <2>2, <2>3, FrontierOfRoot DEF TreeInvariant
<1> QED BY <1>2, <1>3

LEMMA TreeStarts == ASSUME TreeInit PROVE TreeInvariant
<1>1. leaves = <<>> /\ Len(leaves) = 0 /\ leaves \in Seq(Commitment)
    BY EmptySeq DEF TreeInit
<1>2. MerkleRoot(leaves) = Zeros[Depth]
    <2>1. DOMAIN leaves = 1..0
        BY <1>1
    <2>2. Depth \in Nat /\ Depth <= Depth
        BY TopIsZero
    <2> QED BY <2>1, <2>2, NodeEmpty DEF MerkleRoot
<1> QED BY <1>1, <1>2, TopIsZero DEF TreeInit, TreeInvariant

(* A proof that has appended new ends with the tree that holds it.         *)
LEMMA SettleKeeps ==
    ASSUME NEW new, NEW s, Base \o new \in Seq(Commitment), Reached(s, Base \o new),
           SettleTree(s, new)
    PROVE  TreeInvariant'
<1>1. PICK t \in Seq(Commitment) : t = Base \o new
    OBVIOUS
<1>2. leaves' = t /\ count' = s.count /\ root' = RootNew(s) /\ s.count <= Capacity
    BY <1>1 DEF SettleTree, FinalStateOk, Base
<1>3. Reached(s, t)
    BY <1>1
<1>4. s.count = Len(t)
    BY <1>3 DEF Reached
<1>5. RootNew(s) = MerkleRoot(t)
    BY <1>2, <1>3, <1>4, ReachedRoot
<1>6. MerkleRoot(leaves)' = MerkleRoot(leaves')
    BY DEF MerkleRoot, Node, Nodes
<1> QED BY <1>2, <1>4, <1>5, <1>6 DEF TreeInvariant

LEMMA BatchKeeps ==
    ASSUME TreeInvariant, NEW f \in Witness, NEW b \in Seq(Commitment), NEW p, Packs(p, b),
           BatchAccepted(StartCount, p),
           SettleTree(appendFrontierBatch(StartFrontier(f), StartCount, p), b)
    PROVE  TreeInvariant'
<1>1. PICK s \in Seq(Commitment) : s = Base /\ Len(s) < Capacity /\ StartCount = Len(s)
                                   /\ FrontierOf(StartFrontier(f), s)
    BY StartIsTree
<1>2. Len(s) + Len(b) <= Capacity
    BY <1>1 DEF BatchAccepted, BatchFits, Packs
<1>3. PICK r : r = appendFrontierBatch(StartFrontier(f), StartCount, p)
    OBVIOUS
<1>4. Reached(r, s \o b)
    BY <1>1, <1>2, <1>3, BatchAppend
<1>5. s \o b \in Seq(Commitment)
    BY ConcatProperties
<1> QED BY <1>1, <1>3, <1>4, <1>5, SettleKeeps

(* The leaves of a deposit or a portal proof.                              *)
LEMMA DepositPacks ==
    ASSUME NEW b \in DepositBatch
    PROVE  b \in Seq(Commitment) /\ Len(b) <= DepositSlots /\ Packs(DepositLeaves(b), b)
<1>1. DepositSlots \in Nat \ {0} /\ b \in Seq(Commitment) /\ Len(b) <= DepositSlots
    BY SlotsAssumption, UpToIs DEF DepositBatch
<1> QED BY <1>1, PaddedPacks DEF DepositLeaves

LEMMA TreeKept == TreeInvariant /\ [TreeNext]_treeVars => TreeInvariant'
<1> SUFFICES ASSUME TreeInvariant, [TreeNext]_treeVars PROVE TreeInvariant'
    OBVIOUS
<1>1. CASE ProveEpoch
    <2>1. PICK f \in Witness, b \in EpochBatch : EpochCircuit(f, b)
        BY <1>1 DEF ProveEpoch
    <2>2. MintedByEpoch(b) \in Seq(Commitment) /\ Packs(PendingLeaves(b), MintedByEpoch(b))
        BY EpochPacks
    <2> QED BY <2>1, <2>2, BatchKeeps DEF EpochCircuit
<1>2. CASE ProveDeposits
    <2>1. PICK f \in Witness, b \in DepositBatch : DepositEpochCircuit(f, b)
        BY <1>2 DEF ProveDeposits
    <2>2. b \in Seq(Commitment) /\ Packs(DepositLeaves(b), b)
        BY DepositPacks
    <2> QED BY <2>1, <2>2, BatchKeeps DEF DepositEpochCircuit
<1>3. CASE ProveGifts
    <2>1. PICK f \in Witness, b \in GiftBatch : GiftClaimCircuit(f, b)
        BY <1>3 DEF ProveGifts
    <2>2. b \in Seq(Claim)
        <3>1. PICK k \in 1..GiftSlots : b \in [1..k -> Claim]
            BY DEF GiftBatch
        <3>2. k \in Nat
            BY SlotsAssumption
        <3> QED BY <3>1, <3>2
    <2>3. PICK s \in Seq(Commitment) : s = Base /\ Len(s) < Capacity /\ StartCount = Len(s)
                                       /\ FrontierOf(StartFrontier(f), s)
        BY StartIsTree
    <2>4. PICK g : g = StartFrontier(f)
        OBVIOUS
    <2>5. PICK m \in Seq(Commitment) : m = MintedByGifts(b)
        BY <2>2, <2>3, <2>4, AppendAll
    <2>6. PICK r : r = AppendMints([frontier |-> g, count |-> Len(s), finalCarry |-> Zero], b)
        OBVIOUS
    <2>7. Reached(r, s \o m)
        BY <2>2, <2>3, <2>4, <2>5, <2>6, AppendAll
    <2>8. s \o m \in Seq(Commitment)
        BY ConcatProperties
    <2>9. SettleTree(r, m)
        BY <2>1, <2>3, <2>4, <2>5, <2>6 DEF GiftClaimCircuit
    <2> QED BY <2>3, <2>7, <2>8, <2>9, SettleKeeps
<1>4. CASE UNCHANGED treeVars
    <2>1. MerkleRoot(leaves)' = MerkleRoot(leaves')
        BY DEF MerkleRoot, Node, Nodes
    <2> QED BY <1>4, <2>1 DEF TreeInvariant, treeVars
<1> QED BY <1>1, <1>2, <1>3, <1>4 DEF TreeNext

(* In such a state the two appends agree.                                  *)
LEMMA AppendsAgree == ASSUME TreeInvariant PROVE BatchEqualsSequential
<1> SUFFICES ASSUME NEW f \in Witness, NEW b \in DepositBatch, StartCount + Len(b) <= Capacity
             PROVE  LET start == StartFrontier(f)
                        claims == [i \in DOMAIN b |-> [commitment |-> b[i], mint |-> TRUE]]
                        one == AppendMints([frontier |-> start, count |-> StartCount,
                                            finalCarry |-> Zero], claims)
                        all == appendFrontierBatch(start, StartCount, DepositLeaves(b))
                    IN  /\ all.count = one.count
                        /\ RootNew(all) = RootNew(one)
                        /\ \A l \in Level : Bit(SafeCount(one.count), l) =>
                              all.frontier[l] = one.frontier[l]
                        /\ all.finalCarry = Mul(one.count = Capacity, one.finalCarry)
    BY DEF BatchEqualsSequential
<1>1. PICK s \in Seq(Commitment), n \in Nat : s = Base /\ n = Len(s) /\ n < Capacity /\ StartCount = n
    BY StartIsTree
<1>2. PICK start : start = StartFrontier(f) /\ FrontierOf(start, s)
    BY <1>1, StartIsTree
<1>3. b \in Seq(Commitment) /\ Packs(DepositLeaves(b), b)
    BY DepositPacks
<1>4. PICK claims \in Seq(Claim) :
          /\ claims = [i \in DOMAIN b |-> [commitment |-> b[i], mint |-> TRUE]]
          /\ MintedByGifts(claims) = b
    BY <1>3, AllMinted
<1>5. PICK t \in Seq(Commitment) : t = s \o b
    BY <1>3, ConcatProperties
<1>6. Len(t) \in Nat /\ Len(t) <= Capacity
    BY <1>1, <1>3, <1>5
<1>7. PICK one : one = AppendMints([frontier |-> start, count |-> n, finalCarry |-> Zero], claims)
    OBVIOUS
<1>8. Reached(one, t)
    BY <1>1, <1>2, <1>4, <1>5, <1>7, AppendAll
<1>9. PICK all : all = appendFrontierBatch(start, n, DepositLeaves(b))
    OBVIOUS
<1>10. Reached(all, t) /\ all.finalCarry = Mul(Len(t) = Capacity, MerkleRoot(t))
    BY <1>1, <1>2, <1>3, <1>5, <1>9, BatchAppend
<1>11. all.count = Len(t) /\ one.count = Len(t)
    BY <1>8, <1>10 DEF Reached
<1>12. RootNew(all) = RootNew(one)
    BY <1>6, <1>8, <1>10, ReachedRoot
<1>13. ASSUME NEW l \in Level, Bit(SafeCount(Len(t)), l)
       PROVE  all.frontier[l] = one.frontier[l]
    <2>1. CASE Len(t) = Capacity
        BY <1>13, <2>1, NoBits DEF SafeCount
    <2>2. CASE Len(t) # Capacity
        <3>1. Len(t) < Capacity
            BY <1>6, <2>2, TopIsZero
        <3> QED BY <1>8, <1>10, <1>13, <2>2, <3>1 DEF Reached, FrontierOf, SafeCount
    <2> QED BY <2>1, <2>2
<1>14. all.finalCarry = Mul(Len(t) = Capacity, one.finalCarry)
    BY <1>8, <1>10 DEF Reached, Mul
<1> QED BY <1>1, <1>2, <1>4, <1>7, <1>9, <1>11, <1>12, <1>13, <1>14

LEMMA TreeInvariantHolds == TreeSpec => []TreeInvariant
<1>1. TreeInit => TreeInvariant
    BY TreeStarts
<1> QED BY <1>1, TreeKept, PTL DEF TreeSpec

(* Every proof moves the tree by exactly the leaves it mints, whatever     *)
(* witness the prover brings and however full the tree is: the root that   *)
(* is stored is the Merkle root of the notes minted so far, and the        *)
(* batched append of the epoch, deposit and portal circuits agrees with    *)
(* the leaf by leaf append of the gift circuit.                            *)
THEOREM AppendsAreExact == TreeSpec => []AppendsExact
<1>1. TreeInvariant => AppendsExact
    BY AppendsAgree DEF AppendsExact, RootCommitsToLeaves, TreeInvariant
<1> QED BY <1>1, TreeInvariantHolds, PTL

(* Whoever knows the leaves has the witness.                               *)
LEMMA WitnessExists == ASSUME TreeInvariant PROVE Witness # {}
<1> DEFINE true == [l \in Level |-> IF Bit(count, l) THEN TrueFrontier[l] ELSE Zero]
<1>1. count \in Nat /\ count <= Capacity /\ Capacity \in Nat \ {0}
    BY TopIsZero DEF TreeInvariant
<1>2. true \in [Level -> {Zero, Junk} \cup {TrueFrontier[l] : l \in {k \in Level : Bit(count, k)}}]
    OBVIOUS
<1>3. RootComputable(count)
    BY <1>1 DEF RootComputable, HasWidth, SafeCount, Capacity
<1>4. ASSUME ~Rollover PROVE computeRootFromFrontier(true, count) = root
    <2>1. count < Capacity /\ SafeCount(count) = count
        BY <1>1, <1>4 DEF Rollover, SafeCount
    <2>2. \A l \in Level : TrueFrontier[l] = Node(leaves, l, (count \div Pow2[l]) - 1)
        BY <2>1 DEF TrueFrontier
    <2>3. PICK f : f = true
        OBVIOUS
    <2>4. FrontierOf(f, leaves)
        BY <2>2, <2>3 DEF FrontierOf, TreeInvariant
    <2>5. computeRootFromFrontier(f, Len(leaves)) = MerkleRoot(leaves)
        BY <2>1, <2>4, RootOfFrontier DEF TreeInvariant
    <2> QED BY <2>3, <2>5 DEF TreeInvariant
<1>5. true \in Witness
    <2> HIDE DEF true
    <2> QED BY <1>2, <1>3, <1>4 DEF Witness, BoundToRoot
<1> QED BY <1>5

LEMMA BatchProvable ==
    ASSUME NEW n \in Nat, n < Capacity, NEW b \in Seq(Commitment), NEW p, Packs(p, b),
           n + Len(b) <= Capacity
    PROVE  BatchAccepted(n, p) /\ RootComputable(n + p.count)
<1>1. PICK c \in Nat, k \in Nat : c = Len(b) /\ p.count = c /\ k = Len(p.vals) /\ c <= k /\ p.ok
    BY DEF Packs
<1>2. Capacity = Pow2[Depth] /\ Capacity \in Nat \ {0} /\ Pow2[Depth + 1] = 2 * Capacity
    BY TopIsZero, Pow2Step DEF Capacity
<1>3. c < Pow2[bitsFor(k)]
    <2>1. bitsFor(k) \in Nat /\ k < Pow2[bitsFor(k)]
        BY WidthFits
    <2>2. Pow2[bitsFor(k)] \in Nat
        BY <2>1, Pow2Step
    <2> QED BY <1>1, <2>1, <2>2
<1>4. n + c <= Capacity
    BY <1>1
<1>5. n < Pow2[Depth] /\ n + c < Pow2[Depth + 1]
    BY <1>2, <1>4
<1>6. SafeCount(n + c) < Pow2[Depth]
    BY <1>2, <1>4 DEF SafeCount
<1>7. BatchAccepted(n, p)
    BY <1>1, <1>3, <1>4, <1>5 DEF BatchAccepted, BatchFits, HasWidth
<1> QED BY <1>1, <1>6, <1>7 DEF RootComputable, HasWidth

(* No honest epoch that fits is stuck, whatever the tree holds: a witness  *)
(* exists and every assertion on the way of its batch is met.              *)
THEOREM FittingBatchesHaveProofs == TreeSpec => []FittingBatchesAreProvable
<1>1. ASSUME TreeInvariant PROVE FittingBatchesAreProvable
    <2>1. Witness # {}
        BY <1>1, WitnessExists
    <2>2. ASSUME NEW b \in EpochBatch, StartCount + Len(MintedByEpoch(b)) <= Capacity
          PROVE  /\ BatchAccepted(StartCount, PendingLeaves(b))
                 /\ RootComputable(StartCount + PendingLeaves(b).count)
        <3>1. MintedByEpoch(b) \in Seq(Commitment) /\ Packs(PendingLeaves(b), MintedByEpoch(b))
            BY EpochPacks
        <3>2. StartCount \in Nat /\ StartCount < Capacity
            BY <1>1, <2>1, StartIsTree
        <3> QED BY <2>2, <3>1, <3>2, BatchProvable
    <2> QED BY <2>1, <2>2 DEF FittingBatchesAreProvable
<1> QED BY <1>1, TreeInvariantHolds, PTL
=============================================================================
