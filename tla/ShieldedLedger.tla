--------------------------- MODULE ShieldedLedger ---------------------------
(***************************************************************************)
(* The pool as a ledger of notes, with the circuits' relations at work:    *)
(* what an epoch, a deposit epoch, a portal epoch and a forced withdrawal  *)
(* may do is whatever there are witnesses for, whoever makes the proof.    *)
(* Relays see nullifying keys and openings of everybody's notes, choose    *)
(* inputs, outputs, fees, tree numbers and fee buckets at will, and lack   *)
(* only the signatures and approvals of honest accounts.                   *)
(*                                                                         *)
(* Proofs are made against the present trees.  That roots of the past are  *)
(* prefixes of them is the subject of NoteTree; keys and approvals that    *)
(* are revoked, of AuthRegistry; the delay, the fees and the cancellation  *)
(* of a forced withdrawal, of ForcedWithdrawal.                            *)
(***************************************************************************)
EXTENDS TransferCircuit, DepositCircuits, FiniteSetsExt

CONSTANTS
    Account, Token,
    Honest,         (* Accounts whose keys are not in foreign hands.       *)
    NullifyingKey,  (* NullifyingKey[a]: the key a derives its MPK from.   *)
    Randomness,     (* Randomness of notes, ground and portal ones too.    *)
    KeyLeaves,      (* Leaves of registered keys.                          *)
    OutputLists,    (* Lists of [npk, value] a sender may name as outputs. *)
    FeeTokenLists,  (* Fee tokens an operator may choose.                  *)
    FeeKeys,        (* Note keys an operator may name for its fees.        *)
    Shown,          (* Shown[a][e]: what owners of a who approve until e   *)
                    (* may be shown, true or not.                          *)
    LegacyTree,     (* Leaves of tree 0, which is full.                    *)
    Requests,       (* Deposit requests on record, well-formed or not.     *)
    Sweeps,         (* Portal sweeps on record.                            *)
    Recipient,      (* Where withdrawals go.                               *)
    TreeCapacity,   (* 2^NoteDepth.                                        *)
    MaxTree,        (* Last tree (a bound).                                *)
    MaxTransfers,   (* Transfers of an epoch.                              *)
    MaxDeposits,    (* Requests or sweeps of an epoch.                     *)
    MaxConsents,    (* Signatures and approvals given (a bound).           *)
    MaxForced,      (* Forced withdrawals outstanding (a bound).           *)
    Expiries,       (* Expiries of approvals.                              *)
    MaxProofAge,    (* MAX_PROOF_AGE.                                      *)
    MaxTime         (* Last time (a bound).                                *)

VARIABLES
    trees,          (* trees[k]: leaves of tree k, the last one active.    *)
    nullifierSpent,
    pendingRequests, pendingSweeps,
    forced,         (* Forced withdrawals requested and not executed.      *)
    signatures,     (* [key, digest] made by honest accounts.              *)
    approvals,      (* Approval leaves, see verifyAuth.                    *)
    now,
    paid            (* Ghost: paid[to][t], tokens withdrawn.               *)

vars == <<trees, nullifierSpent, pendingRequests, pendingSweeps, forced, signatures,
          approvals, now, paid>>

ASSUME LegacyAssumption ==
    /\ LegacyTree \in Seq(ToSet(LegacyTree)) /\ Len(LegacyTree) = TreeCapacity
    /\ \A i \in DOMAIN LegacyTree : LegacyTree[i].value \in Nat
ASSUME BoundsAssumption ==
    /\ {MaxInputs, MaxOutputs, MaxTree, MaxTransfers, MaxDeposits, MaxProofAge} \subseteq Nat
    /\ Expiries \subseteq Nat
ASSUME KeysAssumption ==
    /\ Honest \subseteq Account
    /\ \A l \in KeyLeaves : l.kind = "key" /\ l.account \in Account /\ l.expiry \in Nat
    /\ \A l, m \in KeyLeaves : l.key = m.key => (l.account \in Honest <=> m.account \in Honest)
ASSUME OutputsAssumption ==
    \A list \in OutputLists :
        list \in Seq(ToSet(list)) /\ \A j \in DOMAIN list : list[j].value \in Field
ASSUME FeeTokensAssumption == \A list \in FeeTokenLists : list \in Seq(ToSet(list))
ASSUME RequestsAssumption ==
    /\ IsFiniteSet(Requests)
    /\ \A r \in Requests :
        /\ r.commitments \in Seq(ToSet(r.commitments)) /\ r.total \in Nat
        /\ Len(r.commitments) * MaxAmount < Modulus
ASSUME SweepsAssumption ==
    /\ IsFiniteSet(Sweeps)
    /\ \A d \in Sweeps : d.amount \in Nat
    /\ \A d, e \in Sweeps : d.portal = e.portal /\ d.counter = e.counter => d = e
ASSUME RecipientsAssumption == IsFiniteSet(Recipient)
ASSUME ModulusLarge ==
    /\ Modulus > (MaxOutputs + 1) * MaxAmount /\ Modulus > MaxInputs * MaxAmount
    /\ Modulus > MaxTransfers * MaxAmount

(* Who makes a note makes it for somebody: of a key that may be spent at   *)
(* all, some account knows the opening.  A portal is bound to an account,  *)
(* and nobody has ground its randomness (spendable_npk.go).                *)
IsKeyOf(npk, a) == \E r \in Randomness : npk = NPK(MPK(a, NullifyingKey[a]), r)

KeysNamed ==
    FeeKeys \cup {leaf.npk : leaf \in ToSet(LegacyTree)}
    \cup (UNION {{out.npk : out \in ToSet(list)} : list \in OutputLists})
    \cup (UNION {{c.npk : c \in ToSet(r.commitments)} : r \in Requests})

ASSUME OwnersAssumption ==
    /\ \A npk \in KeysNamed : IsSpendable(npk) => \E a \in Account : IsKeyOf(npk, a)
    /\ \A d \in Sweeps :
        /\ d.recipientBindH[1] \in {MPK(a, NullifyingKey[a]) : a \in Account}
        /\ noteRnd(d.recipientBindH[2], d.portal, d.counter) \in Randomness \ {Ground.rnd}

TreeNumber == 0..MaxTree

Init ==
    /\ trees = [k \in TreeNumber |-> IF k = 0 THEN LegacyTree ELSE <<>>]
    /\ nullifierSpent = {}
    /\ pendingRequests = Requests
    /\ pendingSweeps = Sweeps
    /\ forced = {} /\ signatures = {} /\ approvals = {}
    /\ now = 0
    /\ paid = [to \in Recipient |-> [t \in Token |-> 0]]

-----------------------------------------------------------------------------
(* Trees.                                                                  *)

Used == {k \in TreeNumber : trees[k] # <<>>}
Active == Max(Used)

knownRoots == {<<Root(trees[k]), k>> : k \in Used}

(* _requireTreeCapacity and _updateTreeState.                              *)
AppendLeaves(new) ==
    LET rollover == Len(trees[Active]) = TreeCapacity
        k == IF rollover THEN Active + 1 ELSE Active
    IN  /\ k \in TreeNumber
        /\ Len(trees[k]) + Len(new) <= TreeCapacity
        /\ trees' = [trees EXCEPT ![k] = @ \o new]

-----------------------------------------------------------------------------
(* What there are witnesses for.                                           *)

Lists(S, n) == UNION {[1..k -> S] : k \in 1..n}

(* Each leaf, opened with its own value, under every number that a proof   *)
(* can name and every opening.                                             *)
Inputs ==
    LET known == knownRoots
        Numbers(k) == {n \in Used : RootWithTreeNumber(Root(trees[k]), n, known)}
    IN  UNION {{[leaves |-> trees[k], index |-> i, value |-> trees[k][i].value, treeNumber |-> n, rnd |-> r] :
                    i \in DOMAIN trees[k], n \in Numbers(k), r \in Randomness} : k \in Used}

(* A withdrawal names its payout in output zero; the contract demands that *)
(* it is this withdrawal and not of nothing.                               *)
MatchesWithdrawal(s) ==
    isWithdrawal(s) =>
        /\ s.payout[3] # 0
        /\ Outs(s)[1] = Marker(s.payout[1], s.payout[2], s.payout[3])

PayoutsOf(t, outputs) ==
    {<<>>} \cup {<<to, t, outputs[1].value>> : to \in Recipient}

SlotsWith(a, key, t, inputs) ==
    {s \in UNION {{[account |-> a, nk |-> key, token |-> t, inputs |-> inputs, outputs |-> outputs,
                    fee |-> BalancingFee(inputs, outputs), payout |-> payout] :
                       payout \in PayoutsOf(t, outputs)} : outputs \in OutputLists} :
        MatchesWithdrawal(s)}

(* Lists of what an account can open with a key, whoever's it is, the same *)
(* note more than once too; the order is of no consequence.                *)
InputLists(inputs, a, key, t) ==
    {list \in Lists({input \in inputs : /\ input.leaves[input.index].token = t
                                        /\ InputNote(a, key, t, input, knownRoots)}, MaxInputs) :
        \A i, j \in DOMAIN list :
            i < j => list[i].treeNumber * TreeCapacity + list[i].index
                        <= list[j].treeNumber * TreeCapacity + list[j].index}

(* Slots before outputs, sums and authorization are looked at.             *)
SlotsOf(accounts) ==
    LET all == Inputs
    IN  UNION {UNION {SlotsWith(a, key, t, inputs) : inputs \in InputLists(all, a, key, t)} :
                a \in accounts, key \in {NullifyingKey[b] : b \in Account}, t \in Token}

ForcedWithdrawalsOf(a) ==
    UNION {{[account |-> a, nk |-> NullifyingKey[a], token |-> t, inputs |-> inputs,
             payout |-> <<to, t, FieldSum(ValuesOf(inputs))>>] :
                inputs \in InputLists(Inputs, a, NullifyingKey[a], t), to \in Recipient} :
        t \in Token}

-----------------------------------------------------------------------------
(* Consent.  Honest accounts sign, or approve on the strength of what they *)
(* are shown, what they like; whoever proposes may show them anything.     *)

authLeaves == KeyLeaves \cup approvals

MayConsent(a) == a \in Honest /\ Cardinality(signatures) + Cardinality(approvals) < MaxConsents

HasKey(a) == \E leaf \in KeyLeaves : leaf.account = a

DigestsOf(a) ==
    {Digest(s) : s \in {s \in SlotsOf({a}) : Transfer(s, knownRoots)}}
    \cup {ForcedDigest(f, IF HasKey(a) THEN "key" ELSE "approval") : f \in ForcedWithdrawalsOf(a)}

Sign(leaf) ==
    /\ MayConsent(leaf.account)
    /\ \E digest \in DigestsOf(leaf.account) :
            signatures' = signatures \cup {[key |-> leaf.key, digest |-> digest]}
    /\ UNCHANGED <<trees, nullifierSpent, pendingRequests, pendingSweeps, forced, approvals, now, paid>>

Approve(a, expiry) ==
    /\ MayConsent(a) /\ ~HasKey(a)
    /\ now < expiry
    /\ \E digest \in DigestsOf(a), shown \in Shown[a][expiry] :
            approvals' = approvals \cup
                {[kind |-> "approval", account |-> a, expiry |-> expiry,
                  batch |-> {[digest |-> digest, blinding |-> shown]}]}
    /\ UNCHANGED <<trees, nullifierSpent, pendingRequests, pendingSweeps, forced, signatures, now, paid>>

(* Foreign hands sign whatever is to be proved.                            *)
SignaturesFor(digests) ==
    signatures \cup [key : {leaf.key : leaf \in {l \in KeyLeaves : l.account \notin Honest}},
                     digest : digests]

-----------------------------------------------------------------------------
(* The pool.                                                               *)

Unspent(nullifiers) == IsInjective(nullifiers) /\ ToSet(nullifiers) \cap nullifierSpent = {}

Pay(slots) ==
    paid' = [to \in Recipient |-> [t \in Token |->
                paid[to][t] + SumFunction([j \in DOMAIN slots |->
                    IF isWithdrawal(slots[j]) /\ slots[j].payout[1] = to /\ slots[j].payout[2] = t
                    THEN slots[j].payout[3] ELSE 0])]]

(* _validateProvingTimestamp.                                              *)
ProvingTimes == {time \in 0..now : now - time <= MaxProofAge}

SubmitEpoch(provingTime) ==
    /\ provingTime \in ProvingTimes
    /\ LET provable == {s \in SlotsOf(Account) :
                            /\ verifyAuth(s, authLeaves, provingTime, SignaturesFor({Digest(s)}))
                            /\ Unspent(Nullifiers(s))
                            /\ Transfer(s, knownRoots)}
       IN  \E slots \in Lists(provable, MaxTransfers) :
              LET nullifiers == FlattenSeq([t \in DOMAIN slots |-> Nullifiers(slots[t])])
              IN  /\ Unspent(nullifiers)
                  /\ nullifierSpent' = nullifierSpent \cup ToSet(nullifiers)
                  /\ Pay(slots)
                  /\ \E feeTokens \in FeeTokenLists, feeNPK \in FeeKeys :
                        /\ EpochCircuit(slots, feeTokens, feeNPK, knownRoots, authLeaves, provingTime,
                                        SignaturesFor({Digest(slots[t]) : t \in DOMAIN slots}))
                        /\ AppendLeaves(pendingLeaves(slots, feeTokens, feeNPK))
    /\ UNCHANGED <<pendingRequests, pendingSweeps, forced, signatures, approvals, now>>

(* Batches of requests for which there is a proof.  The contract takes     *)
(* totals, counts and the hash of the commitments from its records.        *)
CommitmentsOut(deposits) == FlattenSeq([r \in DOMAIN deposits |-> deposits[r].commitments])

DepositBatches ==
    {deposits \in Lists(Requests, MaxDeposits) :
        \E tokens \in [DOMAIN deposits -> Token] :
            DepositEpochCircuit(deposits,
                [r \in DOMAIN deposits |-> deposits[r].total],
                [r \in DOMAIN deposits |-> Len(deposits[r].commitments)],
                CommitmentsOut(deposits),
                [r \in DOMAIN deposits |-> [depositor |-> deposits[r].depositor,
                                            token |-> tokens[r], nonce |-> deposits[r].nonce]])}

SubmitDepositEpoch(deposits) ==
    /\ IsInjective(deposits) /\ ToSet(deposits) \subseteq pendingRequests
    /\ AppendLeaves(CommitmentsOut(deposits))
    /\ pendingRequests' = pendingRequests \ ToSet(deposits)
    /\ UNCHANGED <<nullifierSpent, pendingSweeps, forced, signatures, approvals, now, paid>>

(* The same for sweeps, each batch with the notes that are minted for it.  *)
PortalDepositBatches ==
    UNION {{[deposits |-> deposits,
             commitmentsOut |-> [i \in DOMAIN deposits |->
                                    PortalNote(deposits[i], w[i].recipientMPK, w[i].blind)]] :
                w \in {w \in [DOMAIN deposits -> [recipientMPK : {d.recipientBindH[1] : d \in Sweeps},
                                                  blind : {d.recipientBindH[2] : d \in Sweeps}]] :
                        processDeposits(deposits,
                            [i \in DOMAIN deposits |->
                                PortalNote(deposits[i], w[i].recipientMPK, w[i].blind)], w)}} :
            deposits \in Lists(Sweeps, MaxDeposits)}

SubmitPortalDepositEpoch(batch) ==
    /\ IsInjective(batch.deposits) /\ ToSet(batch.deposits) \subseteq pendingSweeps
    /\ AppendLeaves(batch.commitmentsOut)
    /\ pendingSweeps' = pendingSweeps \ ToSet(batch.deposits)
    /\ UNCHANGED <<nullifierSpent, pendingRequests, forced, signatures, approvals, now, paid>>

(* The leaf is in the registry at the time of the request.                 *)
RequestForcedWithdrawal(leaf) ==
    /\ Cardinality(forced) < MaxForced
    /\ leaf.expiry = 0 \/ now <= leaf.expiry
    /\ \E f \in ForcedWithdrawalsOf(leaf.account) :
        LET digest == ForcedDigest(f, leaf.kind)
        IN  /\ ForcedCircuit(f, knownRoots, leaf, SignaturesFor({digest}))
            /\ Unspent(digest.nullifiers)
            /\ IsInjective(digest.commitments)
            /\ \A g \in forced : ToSet(g.digest.commitments) \cap ToSet(digest.commitments) = {}
            /\ forced' = forced \cup {[digest |-> digest, at |-> now]}
    /\ UNCHANGED <<trees, nullifierSpent, pendingRequests, pendingSweeps, signatures, approvals,
                   now, paid>>

ExecuteForcedWithdrawal(request) ==
    LET payout == request.digest.payout
        nullifiers == ToSet(request.digest.nullifiers)
    IN  /\ nullifiers \cap nullifierSpent = {}
        /\ nullifierSpent' = nullifierSpent \cup nullifiers
        /\ paid' = [paid EXCEPT ![payout[1]][payout[2]] = @ + payout[3]]
        /\ forced' = forced \ {request}
        /\ UNCHANGED <<trees, pendingRequests, pendingSweeps, signatures, approvals, now>>

Tick ==
    /\ now < MaxTime
    /\ now' = now + 1
    /\ UNCHANGED <<trees, nullifierSpent, pendingRequests, pendingSweeps, forced, signatures,
                   approvals, paid>>

Next ==
    \/ \E leaf \in KeyLeaves : Sign(leaf)
    \/ \E a \in Account, expiry \in Expiries : Approve(a, expiry)
    \/ \E time \in ProvingTimes : SubmitEpoch(time)
    \/ \E deposits \in DepositBatches : SubmitDepositEpoch(deposits)
    \/ \E batch \in PortalDepositBatches : SubmitPortalDepositEpoch(batch)
    \/ \E leaf \in authLeaves : RequestForcedWithdrawal(leaf)
    \/ \E request \in forced : ExecuteForcedWithdrawal(request)
    \/ Tick

Spec == Init /\ [][Next]_vars

-----------------------------------------------------------------------------
(* Properties.                                                             *)

Positions == {p \in TreeNumber \X (1..TreeCapacity) : p[2] \in DOMAIN trees[p[1]]}

LeafAt(p) == trees[p[1]][p[2]]

OwnedBy(leaf, a) == IsSpendable(leaf.npk) /\ IsKeyOf(leaf.npk, a)

(* Notes somebody can spend.                                               *)
Live ==
    {p \in Positions : \E a \in Account :
        /\ OwnedBy(LeafAt(p), a)
        /\ Nullifier(p[1], NullifyingKey[a], p[2]) \notin nullifierSpent}

NoteValue(t) == SumFunction([p \in {p \in Live : LeafAt(p).token = t} |-> LeafAt(p).value])

Requested(R, t) == SumFunction([r \in {r \in R : r.token = t} |-> r.total])
Swept(S, t) == SumFunction([d \in {d \in S : d.token = t} |-> d.amount])

Held(t) ==
    NoteValue(t) + Requested(pendingRequests, t) + Swept(pendingSweeps, t)
    + SumFunction([to \in Recipient |-> paid[to][t]])

LegacyValue(t) ==
    SumFunction([i \in {i \in DOMAIN LegacyTree :
                        LegacyTree[i].token = t /\ IsSpendable(LegacyTree[i].npk)} |->
                 LegacyTree[i].value])

(* Of each token there is always what there was: in notes somebody can     *)
(* spend, in deposits not credited yet, and paid out.  No choice of        *)
(* openings, tree numbers, values that wrap, tokens, fees, buckets or      *)
(* cursors makes a proof that mints, loses or converts value.              *)
ValueConserved ==
    \A t \in Token : Held(t) = LegacyValue(t) + Requested(Requests, t) + Swept(Sweeps, t)

NewlySpent == nullifierSpent' \ nullifierSpent

NewLeaves == UNION {{trees'[k][i] : i \in DOMAIN trees'[k] \ DOMAIN trees[k]} : k \in TreeNumber}

(* All of what a digest stands for happens in this step.                   *)
CarriedOut(digest) ==
    /\ ToSet(digest.nullifiers) \subseteq NewlySpent
    /\ IF digest.payout = <<>> THEN ToSet(digest.outs) \subseteq NewLeaves
       ELSE LET to == digest.payout[1]
                t == digest.payout[2]
            IN  /\ digest.outs # <<>> => ToSet(Tail(digest.outs)) \subseteq NewLeaves
                /\ paid'[to][t] >= paid[to][t] + digest.payout[3]

InForce(digest, expiry) ==
    \/ expiry = 0
    \/ IF digest.kind = "forced"
       THEN \E request \in forced : request.digest = digest /\ request.at <= expiry
       ELSE now <= expiry + MaxProofAge

Consents(a) ==
    (UNION {{[digest |-> g.digest, expiry |-> leaf.expiry] : g \in {g \in signatures : g.key = leaf.key}} :
                leaf \in {l \in KeyLeaves : l.account = a}})
    \cup (UNION {{[digest |-> m.digest, expiry |-> leaf.expiry] : m \in leaf.batch} :
                leaf \in {l \in approvals : l.account = a}})

(* Notes of an account that are spent: leaves for its keys, whoever made   *)
(* them.  Others may have notes under its nullifying key.                  *)
SpentOf(a) ==
    NewlySpent \cap
        {Nullifier(p[1], NullifyingKey[a], p[2]) : p \in {p \in Positions : OwnedBy(LeafAt(p), a)}}

(* A note of an honest account is spent only by carrying out, in the same  *)
(* step, in full and before it lapses, something its owner consented to:   *)
(* the same notes, the same outputs, the same payout, nothing in part and  *)
(* nothing besides.                                                        *)
SpentAsSigned ==
    [][\A a \in Honest : \A n \in SpentOf(a) :
            \E c \in Consents(a) :
                /\ n \in ToSet(c.digest.nullifiers)
                /\ CarriedOut(c.digest)
                /\ InForce(c.digest, c.expiry)]_vars

(* The fee as the notes have it.                                           *)
ActualFee(digest) ==
    SumFunction([n \in ToSet(digest.nullifiers) |-> trees[n[1]][n[3]].value])
        - SumFunction(ValuesOf(digest.outs))

TrulyShown(digest, shown) ==
    /\ \A n \in ToSet(digest.nullifiers) :
            /\ trees[n[1]][n[3]].token = shown.token
            /\ trees[n[1]][n[3]].npk[1] = shown.mpk
    /\ ActualFee(digest) = shown.fee

(* Owners who approve see a token, a fee and the key that change goes to.  *)
(* What they see is what they pay: no proposal that shows anything else    *)
(* can ever be used, although the digest they sign contains none of it.    *)
ShownIsPaid ==
    [][\A a \in Honest : ~HasKey(a) => \A n \in SpentOf(a) :
            \E leaf \in approvals : \E m \in leaf.batch :
                /\ leaf.account = a /\ n \in ToSet(m.digest.nullifiers)
                /\ CarriedOut(m.digest)
                /\ m.digest.kind = "forced" \/ TrulyShown(m.digest, m.blinding)]_vars

(* Every leaf that is added can be spent by somebody: no marker of a       *)
(* payout, no fee and no deposit for a key in the reserved range gets in.  *)
NewLeavesOpen ==
    \A p \in Positions : p[1] # 0 => \E a \in Account : OwnedBy(LeafAt(p), a)

(* Each sweep that was credited has a note of its own, of the net amount,  *)
(* for the account its portal was bound to, also when two portals share    *)
(* all of owner, blind, counter, token and amount.                         *)
NotesFor(d) ==
    {p \in Positions : LeafAt(p) = PortalNote(d, d.recipientBindH[1], d.recipientBindH[2])}

PortalNotesDistinct ==
    \A d, e \in Sweeps \ pendingSweeps :
        NotesFor(d) # {} /\ (d # e => NotesFor(d) \cap NotesFor(e) = {})
=============================================================================
