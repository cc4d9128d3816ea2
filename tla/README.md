# Privacy Boost protocol: verification project

TLA+ modules, TLC configurations and TLAPS proofs for the contracts under
`contracts/src` and the circuits under `frontend`. `PROJECT.json` lists the
components, the runs, the map from definitions to lines of source, the findings,
the hazards and the theorems.

Run a model with `tlc -config <X>.cfg <Module>` and the proofs with
`tlapm <Module>_proofs.tla`, in this directory.

## 1. The system

A shielded pool: ERC-20 value enters by deposits, moves as private notes, and leaves
by withdrawals, gateways, forced withdrawals and gifts. Users hold notes, relays
prepare proofs off chain against one state of the chain and submit them to a later
one, and contracts keep what the proofs are checked against.

| Component | State it keeps | Operations | What makes it hard | What makes it correct |
|---|---|---|---|---|
| Note trees (`PrivacyBoost`, `LibEpoch`, `LibPoolShared`) | current tree, root and count of each tree, a ring of recent roots, spent nullifiers | transfer, deposit, portal and gift epochs, public gift exit | proofs for old states; external calls between checks and writes; exactly full trees | the trees are one append-only log; every root accepted is genuine; a note is spent once |
| Deposits (`LibDeposit`, `LibGateway`) | pending requests, processed flags, nonces, the pool's tokens | request, cancel, credit, redeposit, rescue | credit races with cancellation and rescue; odd tokens; requests that no proof opens | each request is settled once; the pool holds what it owes; nobody is stuck |
| Portals (`LibPortal`, `PortalDelegate`) | sweeps pending, counters, claimable fees, rates | sweep, credit, return, claim a fee | code of the portal's owner runs inside the sweep; payments of fees may fail | each sweep ends once, at the terms it was made on |
| Forced withdrawals (`LibForced`) | requests, reservations of commitments | request, execute, cancel, prune | a delay in which notes, keys, fee, treasury and code change | no double spend, exact reservations, and an end for every request |
| AuthRegistry | accounts, keys, approvals, leaf slots, trees and root anchors | register, rotate, revoke, approve | orders carried late or twice; roots that come back | roots accepted are recent; orders work once; revocation is final |
| Circuit appends (`frontier_batch.go`, `helpers.go` and the four circuits that mint) | witness frontier, count, carry | batch append, rollover, final root | freedom of the witness; full trees; odd alignments | the new root is the Merkle root of all notes in order |
| Gateway settlement (`LibGateway`, `ExternalCallGateway`) | routes, policies, pause, allowances, redeposits | settle the slots of an epoch, sweep, configure | foreign code between approval and check; gas; pairing of slots | exact input out, all output credited, no allowance left, gas kept for the rest |
| Gifts (`LibGift`, `gift_claim_circuit.go`) | spent gift nullifiers, payouts | batch of mints, public payout | claim against refund; keys leaked, expired, removed; fee changes | settled once, by whom it belongs to, for exactly what it holds |
| Relations of the circuits (`epoch_circuit.go`, `deposit_epoch_circuit.go`, `deposit_portal_circuit.go`, `forced_withdraw_circuit.go`, `spendable_npk.go`, `helpers.go`) | none; what they relate is notes, trees, consent and public inputs | what a transfer, a deposit request, a sweep and a forced withdrawal may become | whoever proves chooses all witnesses; sums in a field; markers that look like notes; consent that is collected apart from its use | value is conserved; a note is spent as its owner consented, and as shown; every leaf can be spent |
| Hash sponges (`poseidon2t4.go` of `frontend` and `prover/hash`) | lanes, cache | absorb, squeeze | two programs that permute at different moments | they agree, and no two inputs share a hash by padding |
| TokenRegistry, configuration, digests, verifiers | see section 7 | | | |

How they interact. All epochs share the trees of `PrivacyBoost` and its nullifiers.
`submitEpoch` spends, pays withdrawals, runs gateways and only then writes the tree.
A gateway that fails, or trades, leaves a request in the deposits' storage. Payouts
go through one pool of tokens, which deposits, sweeps and redeposits fill. Epochs, forced
withdrawals and gifts read `AuthRegistry`: epochs through recent roots, forced
withdrawals and public gift exits through the leaf as it is now. Nearly all entry points are
`nonReentrant`, so calls made while the pool is entered cannot change it through another entry
point; the models use this, and keep the state in between visible where foreign code
may look at it.

## 2. Modules

| Module | Models | Checked by | Proved in |
|---|---|---|---|
| `NoteLog` | abstract: an append-only log of notes with permanent spends | implemented by `NoteTree` | `NoteTree_proofs` |
| `NoteTree` | trees, ring, nullifiers, proofs in flight | `MCNoteTree`, 1 run | `NoteTree_proofs` |
| `Escrow` | abstract: money requested, credited or given back, per token | implemented by `Deposits` and by `Portals` | `Deposits_proofs`, `Portals_proofs` |
| `Deposits` | requests of depositors and of gateways | 1 run | `Deposits_proofs` |
| `ForcedWithdrawal` | two-step exits against epochs | `MCForcedWithdrawal`, 2 runs | `Owners_proofs` |
| `AuthRegistry` | accounts, keys, approvals, trees of leaves | `MCAuthRegistry`, 1 run | `Owners_proofs` |
| `FrontierAppend` | appends of the circuits | `MCFrontierAppend`, 1 run | `Circuits_proofs` |
| `Portals` | sweeps, delegates, keepers' fees | 1 run | `Portals_proofs` |
| `GatewaySettlement` | the slots of an epoch, the executor, foreign gateways | `MCGatewaySettlement`, 1 run | `GatewaySettlement_proofs` |
| `Gifts` | who may settle a gift, and for what | `MCGifts`, 2 runs | `Circuits_proofs` |
| `NoteRelations` | keys, notes, nullifiers and spent inputs, shared by the circuits | with `ShieldedLedger` | |
| `TransferCircuit` | relations of a transfer epoch and of a forced withdrawal | with `ShieldedLedger` | |
| `DepositCircuits` | relations of deposit and portal epochs | with `ShieldedLedger` | |
| `ShieldedLedger` | the pool with those relations for its verifiers | `MCShieldedLedger`, 1 run | `ShieldedLedger_proofs` |
| `Poseidon2Sponge` | the sponge of the circuits beside that of the provers | `MCPoseidon2Sponge`, 1 run | `Circuits_proofs` |
| `Sums` | nothing: sums over finite sets and induction, for the proofs | | itself |

`Circuits_proofs` is about three modules that share no state, `Gifts`, `Poseidon2Sponge` and `FrontierAppend`, parts of the circuits;
`Owners_proofs` likewise about `AuthRegistry` and `ForcedWithdrawal`, what owners may do whatever operators and relays do.

How state and actions correspond to the code:

- **NoteTree.** Storage variables have their Solidity names. A root is the sequence of
  leaves it commits to (collision freedom), so "this root was in the tree" is a prefix
  relation. `Prove(kind)` makes a proof for any root and count that were genuine at
  some time; `Submit(p)` is the handler (`submitEpoch`, `submitDepositEpoch`,
  `submitPortalDepositEpoch`, `submitGiftClaimEpoch`, `publicGiftExit`), with all
  its checks. A transfer epoch stops half way (`inEpoch`), where withdrawals and
  gateways are called, and `SettleEpoch` writes the tree or `RevertEpoch` undoes all.
  Proofs stay in `proofs` after use, so replays are behaviours.
- **Deposits.** One action per entry point; `Process` is a deposit epoch over a
  sequence of requests that may name one twice. A token may deliver less than the
  amount; a commitment may be one that no proof opens. `Redeposit` records what a
  settlement leaves. `shielded` is the value of unspent notes, which a withdrawal lowers.
- **ForcedWithdrawal.** A note is its nullifier; commitments are given by `CommitmentOf`, and two
  notes may share one. `Configure` covers fee, treasury, the immutable bound on inputs
  (an upgrade) and the life of authorizations. `Finish(key)` is what an owner, or
  anybody, can do to end a request.
- **AuthRegistry.** Nodes of the trees are stored and rehashed as in `_updateLeaf`, a node
  being the sequence of leaves below it (`Width[level]` of them); `anchors` are the superseded blocks.
  `lastSeen` remembers when a root was last the root, which is what acceptance is
  compared with. Orders carry the nonce they were signed with and may be handed in at any time.
- **FrontierAppend.** Each step is a proof of one of the circuits. The batch append is a function over levels with
  the flags, shift and carry of `appendFrontierBatch`; the sequential one is
  `appendFrontier`. The witness is any frontier the circuit admits. Powers of two are a function (`Pow2`), as the provers know
  nothing of `^`.
- **Portals.** `Sweep(e, t, cap)` gives the outcomes of the call to the portal: those of
  `PortalDelegate` while the portal runs it, and any push, binding and answer while it runs something else.
- **GatewaySettlement.** An epoch advances in steps: `Loop` is the pool's frame
  (`processGatewayWithdrawals`), `Frame` the isolated self call with the executor
  inside, `Foreigners` what targets and unknown gateways do meanwhile. `call` holds the
  frame with the balances to fall back to when it reverts. Gas is a number
  that every frame and its reserves are taken from.
- **Gifts.** A gift is named by its place in the trees, which is what its nullifier is made of. `Proves(slot, currentBlock,
  provingTimestamp)` is the gift circuit's branch logic for one slot. `live` and `removed` are the leaves
  of `AuthRegistry` and when each was last removed, which is all a recent root, or
  `isCurrentAuthLeafAt`, tells. `Sign`, `Leak` and `Forge` produce signatures at any
  time before they are used; `agreed` remembers what the account itself wanted.
- **ShieldedLedger** composes the four circuits with the handlers that call their verifiers. `NoteRelations`, `TransferCircuit`
  and `DepositCircuits` are operators only, one for each function of the Go code, with its name; a slot, a request or a
  sweep is the record of its witnesses. `SubmitEpoch`, `SubmitDepositEpoch`, `SubmitPortalDepositEpoch` and
  `RequestForcedWithdrawal` take any witness for which the relation holds: `Inputs` opens every leaf with every randomness
  and under every tree number, `SlotsOf` mixes anybody's account with anybody's nullifying key. Amounts are
  elements of a field with eleven members, so ten is minus one. `Sign` and `Approve` are all that honest
  accounts do; `Shown` is what the proposer of an approval displays, true or not.
- **Poseidon2Sponge.** Both sponges absorb the same position in one step, each its own list: `circuit` permutes when a
  block is full or the list ends (`i%3 == 2 || i == n-1`), `state` with its `cache` when the next element finds it full, and
  once more in `Squeeze` (`performDuplex`). The permutation and the field are operators given as constants.

## 3. Properties

The hazard each property is aimed at is in `PROJECT.json`. `NoteTree` and `Gifts` also state a type
invariant, `TypeOK`, which their proofs rest on; the proofs of the other modules carry the types they need
in their inductive invariants.

- `NoteTree`: `KnownRootsAreGenuine` (whatever the pool accepts was installed and is a
  prefix of what the tree holds now); `RecentRootsStayKnown` (the ring keeps the promised window); `FinalizedTreesSealed`;
  `NoDoubleSpend`; `SpentNotesExist`; `ExitsProvenAtGenuineTips`; `ImplementsNoteLog` (refinement).
- `Deposits`: `SettledOnce`; `FundsCovered`; `ImplementsEscrow` (refinement); `NobodyIsStuck` (liveness); proved, in no run: `OneWayOut` (of a ripe request exactly
  one may take it back, and the pool can pay it) and `WayOutStays` (action property).
- `ForcedWithdrawal`: `SpentOnce`; `BindingsExact`; `PoolKeepsTheRest`; `PaidAsSigned` (action property);
  `EveryRequestEnds` (liveness); `RequestsReachable` (a pending request is found by its own lists, is its account's, and is payable; proved, in no run).
- `AuthRegistry`: `LeavesExact` (`RootsCommitToLeaves`, `LeavesBelongToLiveHolders` and `ApprovalOnlyHoldsNoKeys`); `AcceptedRootsAreRecent` (if and
  only if younger than the window); `OrdersTakeEffectOnce` and `RevokedForever` (action properties).
- `FrontierAppend`: `AppendsExact` (`RootCommitsToLeaves` and `BatchEqualsSequential`); `FittingBatchesAreProvable`.
- `Portals`: `ImplementsEscrow` (refinement); `SweepsExact` (`SweepsCovered` and `CreditedAsSwept`); `EverySweepEnds` (liveness);
  proved, in no run: `SweepEndsOnce`, `CountersDistinct`, `ClaimsPayable`.
- `GatewaySettlement`: `FundsKept` (`PoolBacked`, `ItemsBalance` and `StashKept`); `SettledAsSigned`; `NeverShortOfGas`.
- `Gifts`: `SettledOnce`; `SettledWithAuthority`; `PaidExactly`; `EveryGiftEnds` (liveness).
- `ShieldedLedger`: `ValueConserved` (of each token there is what there was, in notes somebody can spend, in deposits
  and paid out); `NewLeavesOpen` (every leaf that is added can be spent); `PortalNotesDistinct` (each sweep that was credited has a note,
  and distinct sweeps have distinct ones); `SpentAsSigned` (a note of an honest account
  is spent only by carrying out in full, and in time, something its owner consented to; action property); `ShownIsPaid` (who approved
  was shown the token, fee and change that the spend then had; action property).
- `Poseidon2Sponge`: `SpongesAgree`; `HashesDistinct` (equal hashes of two lists show a collision of the permutation, among the states
  it was given; the histories `circuitPermuted` and `permuted` hold these).

## 4. Runs

| Run | Question | Bounds, and why they are enough |
|---|---|---|
| `notes` | Do competing relays with stale, replayed and invented proofs keep the log, spend once, and only what exists? | Trees of 2 leaves, 2 trees, a ring of 2 and 2 proofs in flight of all five kinds: a proof can lose the race, the ring wraps, a tree fills up and rolls over, the last tree runs out, an exit claims the full tip, two kinds of proof are made for one note. Roots of invented trees may be named. 2.2 million states. Submissions of several inputs, repeated ones too, are in `ledger`, and in the proof of `NoDoubleSpend`. |
| `deposits` | Is each request settled once, are funds covered, and is nobody stuck? | 1 depositor and 1 gateway, 2 tokens, 2 requests each, epochs of 2, a delay of 2: a second life of equal contents, epochs that repeat or reuse a request, tokens that deliver less. |
| `forced` | Do requests and epochs exclude each other, and does every request end? | 3 notes, two with one commitment; input bound 1 or 2; a fee of 10 %: conflicts by note and by commitment, a bound lowered under a pending request. |
| `auth_registry` | Are roots, leaves and orders in step? | 2 keys and 3 batches of one account, 3 orders, trees of 4 leaves, 3 blocks with windows 0 and 1: there-and-back rotations and revocations inside and outside the window, a leaf for each of five holders and hence the step to a second tree. Keys are symmetric, batches too. |
| `frontier_append` | Is the new root the Merkle root of all notes? | Depth 3 and all sequences of 2 commitments, with batches up to 3: every alignment of batch and frontier, exactly full trees and rollover; the two commitments are symmetric. |
| `portals` | Do sweeps end once, whole, at their terms, and always; is that an escrow? | 2 keepers, 2 sweeps of the wrapped native token, batches of 2, rates of zero and one half, two floors: two fees to one keeper or two, fees that fail, rates that change between sweep and credit. With a delay of one block and two blocks, an equal sweep may follow a return. A portal that keeps one unit of native currency as reserve and wraps one more reaches the cap. 414 thousand states. |
| `gateway` | Is the pool backed through the executor and through a gateway nobody knows; are slots paired, expired and fed with gas right? | Amount 1, one target that pulls, pays, donates or burns, balances up to 2, up to 2 withdrawals: a plain payout before or behind a slot that is settled, a slot of each gateway in one epoch, so that both are executed, or one burns its gas and falls back; slots that pair with the wrong withdrawal, are out of order, ill-formed or too many, or expire after the first of two blocks. Gas from just enough to ample, with something to be left for the tree write. Two slots of one gateway, and longer epochs, are in the proofs only. 1.7 million states. |
| `gift_authority` | Who may settle a gift? | 1 gift with its deadline in block 2 of 3, a key that expires in block 2, window 1: each of "in time", "at the edge" and "too late" occurs for deadline, expiry and removal. |
| `gift_settlement` | Once, exactly, and in the end? | 2 gifts, batches of 2, rates of a quarter and one half, payouts of the right and of a wrong amount, floors above and below the net; deadlines in blocks 1 and 2. |
| `ledger` | Can any proof mint, lose or convert value, or spend other than as its owner consented? | 2 tokens, 2 honest accounts, one with a key and one that approves, and one that relays and proves everything; a field of 11 elements with amounts of 2 bits, so that minus one exists and honest sums do not wrap; trees of 4 leaves, a full one and the one it rolls over to; 2 inputs, 2 outputs, 2 transfers, 2 requests; openings by random and by ground keys; notes, payouts and fees of an address; requests that are well-formed and ones worth less, more or something else; one consent, which expires at time 1 of 0..2, one forced withdrawal outstanding. 52 thousand states, each with every witness. |
| `sponge` | Do the two sponges agree, and does padding make collisions? | 2 elements, one of them zero, and all pairs of lists up to 7: no input, one block, exactly two, and one more; lanes are terms, so the permutation has no collisions of its own, and equal hashes would violate the property. |
| `forced_cancel` | Expected violation, see section 6 | Those of `forced`. |

The bounds by name: `MaxTree`, `MaxProofs`, `MaxBatch`, `MaxInputs`, `MaxNonce`, `MaxAmount`, `MaxBlock`,
`MaxSweeps`, `MaxBalance`, `MaxStash`, `MaxConsents`, `MaxForced`, `MaxTime`, `MaxTransfers`, `MaxDeposits`, `MaxLength`, and the sets of what people may do (`Kinds`, `Expiries`, `FeeRates`, `Lost`,
`Signable`, `Approvers`, `Batches`, `Policies`, `SpareGas`, `OutputLists`, `FeeTokenLists`, `FeeKeys`, `Shown`). They appear in guards only, or as the sets that
quantifiers range over. `MaxTree` is the code's own limit (`MAX_NOTE_TREE_NUMBER`, `MAX_AUTH_TREE_NUMBER`), made small.

Most runs switch the deadlock check off, because a bounded model stops when its
bounds are used up, and a pool with full trees stops too. `TreeCapacity` and the full `LegacyTree` of the ledger stand for a tree that was
filled before, which is the only way to have notes of several trees within few steps.

**Fairness.** Only the liveness properties rest on fairness. `deposits`, `forced`, `portals` and `gift_settlement`
assume that blocks are mined (`WF(Mine)`, `WF(NextBlock)`) and that one party keeps
trying what it may do alone: a depositor takes back a request, an owner ends a forced
request, anybody returns a sweep, a sender takes a gift back. A transaction that
is enabled and is sent again and again is included in the end; the contracts need nobody else for
these, which is what the runs show. No fairness is assumed of relays, operators,
recipients, gateways or portals.

## 5. Proofs

For every value of the constants, under the assumptions named in the modules (`...Assumption`), which say what the
code fixes (a batch has room for one request, rates are below the whole, a commitment is not the mark of an empty
slot) or what is true of any deployment (times and amounts are natural numbers, sweepers and leaves are finitely many).

**Sums and recursion.** The models add up with the folds of the community modules and write trees with recursive functions.
`Sums` proves what their proofs need of both: a fold over a finite set is a sum that does not depend on the order (`TotalRemove`), that splits
(`TotalUnion`), survives renaming (`TotalRenamed`) and regrouping (`TotalByKind`); and that a recursive function on
numbers exists and unfolds. The induction is over a *set* of good subsets or numbers (`SubsetInduction`, `NatSetInduction`,
from the well-foundedness of finite subsets), as theorems that take a predicate cannot be used.

- **NoteTree.** `IInv` has three parts: what the ring, counts and roots are to the log of each tree (`TreeInv`),
  that proofs in flight were made for roots that were genuine (`ProofsInv`), and types. `InductiveInvariant` gives
  `TypeCorrect`, `CountsMatch`, `KnownRootsGenuine` and `FinalizedSealed`. The invariants alone are
  not inductive: a proof in flight could name any root. `SpendInv` adds how nullifiers and ghost counts belong together,
  in the middle of an epoch too, where its inputs are marked but not yet counted; from it `NoNoteSpentTwice`. `NoteLogImplemented`
  proves the refinement: `Init` maps to `Init`, and each step to an append with spends, a spend, or a stutter.
  `ExitsInv` adds that proofs of exits satisfy the exit's circuit and that logs only grow; from it `ExitsGenuine`. `MarksInv` is the
  converse of `SpendInv`: a nullifier on record is that of a leaf of its kind, settled or in the epoch being settled; it needs that the
  mark of an idle pool is no proof (`NoProofAssumption`, `ProofsAreProofs`). Both together give `SpentNotesAreLeaves`. `RingInv` reads the ring backwards from the
  cursor: it is the end of the log of roots. Only an append writes it (`OnlyAppendsWrite`), and it moves the cursor by one, round the ring. From it
  `RecentRootsKnown`.
- **Deposits.** `DepositInv`: every request ever made carries a nonce that its depositor has passed, and what is
  pending and unprocessed has not been settled. From it `EachRequestSettledOnce`. `FundsInv` adds types and coverage. Each step is
  shown to be a step of `Escrow` (`StepImplementsEscrow`), which gives the refinement `EscrowImplemented`; and the steps of an escrow keep coverage
  (`EscrowKeepsFunds`), which gives `FundsAreCovered`. The step that takes work is an epoch: its requests share one flat list of commitments,
  which the contract cuts into slices and the circuit adds up (`EpochCreditsAmounts`). `WayInv` adds that a record has a rescue commitment exactly if a
  gateway made it, and that the notes are worth no less than nothing. So each ripe request has exactly one who may take it back, and the pool, being covered, can
  pay any single one of them: `WayOutOpen`. As nothing writes the record of a request that is held, `WayOutStaysOpen`. Together they are the part of `NobodyIsStuck`
  that does not need fairness.
- **ForcedWithdrawal.** `ForcedInv`: reservations and pending requests name each other, and counts of spends follow
  the nullifiers. From it `NotesSpentOnce` and `ReservationsExact`. `FundsInv` adds `AmountsExact`, that every pending request is
  worth the notes it names, and that the pool holds the value of the notes nobody spent: what `PoolKeepsTheRest` says of the counts is not
  inductive without it, since a request is paid by the amount in its record. From it `PoolKeptTheRest` and `RecipientsPaidAsSigned`.
  `RequestsOwned` says that a request keeps the lists its key is made of, a note for each commitment, all of its account; with `ForcedInv` and `FundsInv` it gives
  `RequestsAreReachable`: no request is locked in by another, and what it asks for is in the pool until one of its own notes is spent.
- **AuthRegistry.** `Inv`: nonces of orders carried out are passed; revoked keys are registered; only owned accounts that
  are not approval-only hold keys. From it `NoReplay`, `RevocationIsFinal`, `ApprovalOnlyAccounts`.
  `LeavesInv` says of every stored node, not of the roots alone, that it commits to the leaves below it, that slots from the count on are
  empty, and that holders and slots name each other. The step is `_updateLeaf`: `PathIsRewritten` unfolds the recursion of `AuthPath` by induction
  over the levels (`Width` doubles from one to the next), so that the new nodes commit to the new leaves; nodes off the path
  have no changed leaf below them. Appends and rewrites follow (`AppendKeepsTrees`, `RewriteKeepsTrees`), and what registration, rotation,
  revocation and approval do to the holders (`StepLeaves`). From it `LeavesAreExact`. `RootsInv`: a root ever seen is the present one, or its anchor is the block it was last
  seen in. From both `RecentRootsAccepted`. They rest on a leaf of a holder not being the empty leaf (`NoLeafAssumption`).
- **Portals.** `IInv`: counters only advance, and what is not flagged has not ended. From it
  `EachSweepEndsOnce` and `PortalCountersDistinct`. `MoneyInv` adds that records are those remembered when the sweep was made, and the
  books by token and by keeper, with what is escrowed, credited, paid and claimable. A credit pays fees keeper by keeper and token by token, some of which fail; that they
  are the fees of the batch is `TotalByKind`. From it `SweepsAreExact`. `PayInv` adds that no amount, fee or debt is negative and
  that a fee is at most the sweep it is taken of (`SweepFeeBound`, a division with remainder). Then each step is one of `Escrow` (`StepImplementsEscrow`): a credited batch takes
  its records out of escrow and may pay fees out of what it credits (`SubmitCredits`), a refused payment stays owed, a claim spends what is owed
  (`ClaimSpends`), a return gives back whole (`CancelGivesBack`). A new sweep is one the escrow has not seen, as the counter of its portal has advanced
  (`RequestIsFresh`). From it `SweepsImplementEscrow` and, as the pool is never a token short, `EveryClaimPayable`.
- **Gifts.** `IInv`: settlements follow the nullifiers; a signature is by one who wanted it or with a key
  that leaked; an approval, removed or not, was wanted. The last two are what `SettledWithAuthority`
  needs and does not say. `FeeBound` is the arithmetic of the fee, `SettleMarks` that a batch
  marks each of its gifts once, `ProvenIsAuthorized` that the circuit's branches and the contract's
  check of the leaf together are authority. From it `TypesKept`, `GiftsSettledOnce`,
  `GiftsSettledWithAuthority`, `GiftsPaidExactly`.
- **GatewaySettlement.** `EpochInv` says where an epoch stands. `GasKept`: what is left of the gas is more than what is set aside for the
  withdrawals and slots to come, and a frame leaves that and the reserves of its own slot. `AllEndedAsSigned`: how every withdrawal before the next
  has ended, and that every slot before the cursor was used by one of them; `CalledInTime`, that no target is called past the expiry. The two properties speak of the end of
  an epoch and of gas at one place, and neither is inductive. From it `GasNeverShort` and `SlotsSettledAsSigned`. `MoneyInv` adds the books: `AtRest` between epochs,
  `Ground` between two withdrawals, and in a frame `Ground` for the state to fall back to with `FrameMoney`, which says per stage what the executor and foreign code
  may have moved by then: nothing before the approval, the input at most while the target runs, and nothing more once
  it has returned. Each way a withdrawal may end keeps the epoch even, token by token (`MovesOn`), whether it is paid out (`PlainGround`), falls back (`FallbackGround`) or is
  executed (`ExecutedGround`). From it `FundsAreKept`. The attempt corrected the model: `ItemsBalance` was an equality for every token, which holds of the two tokens of the run, but
  a gateway may give a token that is neither the input nor the output of its slot, and the pool then has more than it recorded; the equality is now claimed of the tokens that are
  `Traded`, and an inequality of the others. It also made explicit that no epoch is a record of its own kind (`NoneAssumption`).
- **Poseidon2Sponge.** `AheadByCache`: while both sponges absorb the same list, the state of the circuit is that of the native one with
  its cache added, and permuted if the block is full or the list ends. `SpongesAgree` speaks of the end only and is not
  inductive. From it `SameHash`, for any elements, any addition and any permutation, and lists of any length.
  `HashesDistinct` is proved as a reduction. The history of each sponge is a *chain* (`HistoryInv`): its first state is the first block added to the initial lanes, each further
  one a block added to the permutation of the one before (`CircuitHistoryAbsorbs`, `NativeHistoryAbsorbs`, `HistorySqueezes`), whichever moment the sponge permutes at. Absorbing never
  touches the capacity (`CapacityOfChain`). Now let two lists have one hash and the permutation not collide: the last states are equal, as they agree in the lane that is squeezed, hence
  so are those before, as they agree in the capacity, and so on backwards (`SameBackwards`). One chain cannot end before the other, since a capacity would be one that lists start with
  (`NotLonger`). Chains of equal length start with the capacities of their lists, so the lists are of equal length (`LengthsTold`, an assumption: the field is far larger than
  any length times 2^64), and element by element the same (`SameElements`), given that the field's addition cancels (`Cancels`, the hypothesis of `HashOfOneList`). The attempt changed the model: the property said that
  hashes of different lists differ, which no permutation of finitely many elements satisfies; it now says what equal hashes give away.
- **FrontierAppend.** `TreeInvariant` is `RootCommitsToLeaves` with types; what makes it inductive is that a witness that passes the binding to the stored root
  *is* the frontier at every level that is read (`FrontierOfRoot`, for any function on levels, not only those the run tries), and that both appends lead from the frontier of a list to
  that of the longer list. The sequential one is `AppendOne`: the carry runs through the bits that are set, as the count does
  (`CountUp`). For the batched one `RunIs` says what the run at each level holds: the nodes of the new tree from the first that changes on, live
  as far as they are full; the peak makes it start on an even number (`PeakRun`), folding gives that of the next level (`NextRun`), and the one
  flag that steps down marks the next left sibling (`LastOfRun`): `BatchAppend`. Before that the lists of an epoch are merged by shifting one behind the other
  (`ShiftsRight`, `MergePacks`) in rounds that keep their order (`ListsPack`), so that what is appended are the notes of the epoch (`EpochPacks`). From it `AppendsAreExact` and
  `FittingBatchesHaveProofs`, for trees of every depth and any number and size of slots.
- **ShieldedLedger.** `ConsentInv`: types, and that every forced withdrawal outstanding is of notes of one account (`NoteOf`), which consented
  to it, if it is honest, while its consent was in force. The second part is what `SpentAsSigned` needs when a forced withdrawal is executed and does not
  say: the signature may be gone from the registry by then. Under the relations of the circuits a leaf is a note of one account only, whoever opens it with whichever
  randomness (`NoteHasOneOwner`), so who authorized the slot that spends it (`OwnerAuthorized`) is its owner; and an epoch carries out the digests of its slots, all of
  each (`EpochCarriesOut`, from `EpochNullifiers`, `EpochLeaves` and `EpochPays`, which take apart the lists the circuit flattens). From it `SpentAsOwnersSigned`. `FieldSumIsTotal`: sums of no more
  amounts than a transfer has do not wrap, given `ModulusLarge`; so the fee that balances a transfer in the field is what its notes
  are worth less what its outputs are worth (`FeeIsActual`), and `PaidAsOwnersWereShown`. `SweepsCredited`, with the note key showing the portal and the counter, ground keys too (`RandomnessShows`), gives `SweepsHaveNotes`.
  The attempt corrected the model: `SpentAsSigned` counted every nullifier under an account's nullifying key as a note of it, though relays know these keys and may make notes of their own
  under them; and `PortalNotesDistinct` asked for exactly one note per sweep, while anybody may mint an equal commitment. Both happened to hold within the bounds of the run.

  `ValueInv` is what conservation needs. `LeavesOpen`: every leaf but those of the legacy tree that nobody can spend has an owner, from which `LeavesStayOpen`;
  `SpentInTrees`: a nullifier on record is of a leaf that is there, so that what is minted is not spent already; `ForcedExact`: a forced withdrawal outstanding names
  each of its notes once and pays their sum. The value in notes is one sum over `Live`, the notes with an owner and no nullifier of his on record; a note has one such nullifier (`OneNullifier`), so a
  list of nullifiers without repetition takes away exactly its notes (`LiveMoves`, `NotesMove`), and `BalancedStep` reduces conservation to one equation per kind of step.
  A transfer spends what it keeps, pays and costs (`SlotBalances`); the fees of an epoch are what its buckets mint (`FeesAddUp`), its withdrawals what is paid (`PayoutsAddUp`), and the lists that
  the contract and the circuit flatten count for what their parts do (`SumOverFlattened`): `EpochBalances`. Of deposits, the cursors of `processCommitments` are followed commitment by
  commitment: a request is left behind only when its notes are of its token and add up to its total without wrapping (`CursorInv`, `CursorsMove`), and as the walk ends behind the last request, all
  are (`WalkCredits`). Portal notes are worth the sweep each (`PortalBalances`). From it `ValueIsConserved`. It rests on two things that the constants of the run had without
  saying: whoever names a note key that can be spent names one of an account (`OwnersAssumption`; a note for nobody is lost, not conserved), and the field exceeds the fees of a whole epoch, not those of one transfer only (`ModulusLarge`).

Only model-checked is liveness (`NobodyIsStuck`, `EveryRequestEnds`, `EverySweepEnds`, `EveryGiftEnds`), which needs fairness and ENABLED.

## 6. Findings

`forced_cancel` shows where code and documents disagree: owners cancel forced requests at once, and anyone prunes
once a note is spent, while the documents ask for the delay (`CancelledWhenRipe`).

Three smaller disagreements were met while modelling and are in no run:

- `_completeRescue` flags a redeposit as processed *and* deletes its record (`LibGateway.sol:434`);
  `12-security-model-invariants.md:145` says that only `cancelDeposit` deletes records.
- `_settle` waives the fee of a forced withdrawal when there is no treasury (`LibForced.sol:443-446`), and the recipient gets all of it;
  `04-on-chain-contracts.md:297` always deducts it, and `12-security-model-invariants.md:159-162` says that the fee then stays in the contract.
  `PoolKeepsTheRest` states what the code does: nothing stays.
- The tree numbered `MAX_AUTH_TREE_NUMBER` is used (`AuthRegistry.sol:655`); the comment of the constant
  (line 86) excludes it.

Besides, `docs/specs/privacy-boost-protocol/05-authorization-system.md` (340-420) describes snapshot rounds and a
ring of 64 authorization roots. The code has anchors with superseded blocks instead; the modules follow the code.
The documents do not mention portals and gateways at all.

## 7. Abstractions, and what is not modelled

Common to the modules: hashes and commitments are collision free; a proof that verifies was
made from a witness (soundness of Groth16), and says what the constraints of its circuit say; a signature is a pair of key and message; time is counted in blocks.

- *NoteTree*: who may submit is not modelled, any relay may. Values of notes are left to the other modules.
- *Deposits*: nobody transfers tokens to the pool outside its entry points (such tokens would be a surplus).
- *ForcedWithdrawal*: one token. Requests of the previous version without bound keys (legacy) are not modelled.
- *AuthRegistry*: a key is its X coordinate, as in the code's maps. Relays and the operator are not
  modelled: the owner may always call. The migration `hydrateAuthRootAnchorsFromRoots` is not modelled.
- *FrontierAppend*: the frontier witness holds, per level, the true sibling, the zero hash or junk;
  padding is zero as the circuits assert.
- *Portals*: the tokens that are swept do not refuse returns to the portal.
- *GatewaySettlement*: call data have one size; each part of a step stays within its reserve, and
  what a frame costs is less than its reserve; configuration changes between transactions. Donations to the pool between epochs are left out,
  those during a call are not.
- *ShieldedLedger*: proofs are made against the present trees, and name no roots they do not use (older roots are prefixes of
  these, see NoteTree). Slots have no padding. Lists of inputs are taken in the order of the trees, as order makes
  no difference. Withdrawals are plain payouts: gateways and their intents are in GatewaySettlement; the delay, fee and
  cancellation of forced withdrawals are in ForcedWithdrawal. Note keys that are named and can be spent are those of accounts; `Ground` is the one randomness somebody searched for, and no
  portal is bound to it. The salt of display blindings, viewing keys and ciphertexts are left out of digests.
- *Poseidon2Sponge*: the permutation and the field are constants. That the files spell out the same rounds is compared by
  their test vectors; the unrolled contract version has no sponge state.
- *Gifts*: one token; an account is registered by the wallet that owns it; membership of the gift in the trees, and the new
  root of a batch, are in `NoteTree`.

Not modelled, with the reasons in `PROJECT.json`: TokenRegistry (a counter), ownership, initializers and proxies, digests, public inputs and zero
hashes (pure encodings), the rounds of Poseidon, EdDSA and the pairing (field arithmetic), the bit-comparison gadgets of
`helpers.go` (they stand for `<=` and `=`), interfaces, test networks, build files, tests and test vectors.

## 8. Plan

Done, in this order: NoteTree with NoteLog; Deposits with Escrow; ForcedWithdrawal; AuthRegistry; FrontierAppend;
Portals; GatewaySettlement; Gifts; the relations of the circuits with ShieldedLedger; Poseidon2Sponge; proofs of all safety and
action properties of all of them, of both implementations of `Escrow` and that of `NoteLog`.

Left open:

1. `Pool`: Deposits, Portals, ForcedWithdrawal, GatewaySettlement and Gifts over one balance per token, with an abstract
   `Vault`: the pool owes no more than it holds, whichever way it is left.
2. TokenRegistry and configuration with `Pool`; legacy forced requests; the migration of root anchors.
