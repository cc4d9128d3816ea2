-------------------------- MODULE TransferCircuit ---------------------------
(***************************************************************************)
(* The relation an epoch proof establishes between the transfers of a      *)
(* batch, what authorizes them, the notes they spend and the leaves they   *)
(* add (epoch_circuit.go), and the relation of a forced withdrawal         *)
(* (forced_withdraw_circuit.go).  A slot is the record of its witnesses    *)
(* and of what is public about it:                                         *)
(*   account, nk, token      SpenderAccountId, NullifyingKey,              *)
(*                           TransferTokenID                               *)
(*   inputs                  notes spent, as in NoteRelations              *)
(*   outputs                 [npk, value] of the new notes                 *)
(*   fee                     FeePerTransfer                                *)
(*   payout                  <<to, token, amount>> of a withdrawal, which  *)
(*                           sets the slot's bit of the mask, or <<>>      *)
(* Padding of unused slots is not represented, as sequences have a length. *)
(***************************************************************************)
EXTENDS NoteRelations

CONSTANTS
    MaxInputs,      (* MaxInputsPerTransfer.                               *)
    MaxOutputs      (* MaxOutputsPerTransfer.                              *)

isWithdrawal(s) == s.payout # <<>>

Outs(s) == [j \in DOMAIN s.outputs |->
                Commitment(s.outputs[j].npk, s.token, s.outputs[j].value)]

Nullifiers(s) == NullifiersOf(s.nk, s.inputs)

(* What the contract computes and the owner authorizes: never token, fee   *)
(* or account in the clear (LibDigest.computeTransferDigest,               *)
(* computeWithdrawalDigest).                                               *)
Digest(s) ==
    [kind |-> IF isWithdrawal(s) THEN "withdrawal" ELSE "transfer",
     nullifiers |-> Nullifiers(s), outs |-> Outs(s), payout |-> s.payout]

-----------------------------------------------------------------------------
(* Authorization (verifyAuth).  An auth leaf is a key with its account and *)
(* expiry, or a batch of digests the owners of an account approved, each   *)
(* with a blinding that binds what they were shown.                        *)

displayBlinding(s, expiry) ==
    [account |-> s.account, expiry |-> expiry, token |-> s.token, fee |-> s.fee,
     mpk |-> MPK(s.account, s.nk)]

(* Mutant: the blinding may be any number.                                 *)
ApprovedBlindly(s, leaf, provingTime) ==
    /\ leaf.kind = "approval" /\ leaf.account = s.account
    /\ \E member \in leaf.batch : member.digest = Digest(s)
    /\ leaf.expiry # 0 /\ provingTime <= leaf.expiry

Approved(s, leaf, provingTime) ==
    /\ leaf.kind = "approval" /\ leaf.account = s.account
    /\ [digest |-> Digest(s), blinding |-> displayBlinding(s, leaf.expiry)] \in leaf.batch
    /\ leaf.expiry # 0 /\ provingTime <= leaf.expiry

(* Mutant: the key leaf is hashed without the account.                     *)
SignedByAnyone(s, leaf, provingTime, signatures) ==
    /\ leaf.kind = "key"
    /\ [key |-> leaf.key, digest |-> Digest(s)] \in signatures
    /\ leaf.expiry = 0 \/ provingTime <= leaf.expiry

Signed(s, leaf, provingTime, signatures) ==
    /\ leaf.kind = "key" /\ leaf.account = s.account
    /\ [key |-> leaf.key, digest |-> Digest(s)] \in signatures
    /\ leaf.expiry = 0 \/ provingTime <= leaf.expiry

verifyAuth(s, authLeaves, provingTime, signatures) ==
    \E leaf \in authLeaves :
        Signed(s, leaf, provingTime, signatures) \/ Approved(s, leaf, provingTime)

-----------------------------------------------------------------------------
(* One transfer (processTransfers).                                        *)

(* Output zero of a withdrawal is no note: its key is an address.          *)
OutputNotes(s) ==
    \A j \in DOMAIN s.outputs :
        /\ IsAmount(s.outputs[j].value)
        /\ ~(j = 1 /\ isWithdrawal(s)) => IsSpendable(s.outputs[j].npk)

(* Mutant: the marker stays in.                                            *)
WithMarker(s) == Outs(s)

treeLeavesForTransfer(s) == IF isWithdrawal(s) THEN Tail(Outs(s)) ELSE Outs(s)

(* The fee that balances a transfer, in the field.                         *)
BalancingFee(inputs, outputs) ==
    (FieldSum(ValuesOf(inputs)) + Modulus - FieldSum(ValuesOf(outputs))) % Modulus

applyFee(s) ==
    LET inputSum == FieldSum(ValuesOf(s.inputs))
        outputSum == FieldSum(ValuesOf(s.outputs))
    IN  /\ IsAmount(inputSum) /\ IsAmount(outputSum)
        /\ IsAmount(s.fee) /\ IsAmount(Plus(outputSum, s.fee))
        /\ inputSum = Plus(outputSum, s.fee)

Transfer(s, knownRoots) ==
    /\ Len(s.inputs) \in 1..MaxInputs /\ Len(s.outputs) \in 1..MaxOutputs
    /\ \A i \in DOMAIN s.inputs :
            InputNote(s.account, s.nk, s.token, s.inputs[i], knownRoots)
    /\ OutputNotes(s)
    /\ applyFee(s)

-----------------------------------------------------------------------------
(* Fees (validateFeeTokenInputs, processFeeCommitments).                   *)

FeeValue(slots, token) ==
    FieldSum([t \in DOMAIN slots |-> IF slots[t].token = token THEN slots[t].fee ELSE 0])

feeCommitments(slots, feeTokens, feeNPK) ==
    [j \in DOMAIN feeTokens |->
        Commitment(feeNPK, feeTokens[j], FeeValue(slots, feeTokens[j]))]

(* Each transfer pays into exactly one bucket.                             *)
FeesRouted(slots, feeTokens) ==
    /\ feeTokens # <<>>
    /\ IsInjective(feeTokens)
    /\ \A t \in DOMAIN slots : slots[t].token \in ToSet(feeTokens)
    /\ \A j \in DOMAIN feeTokens : IsAmount(FeeValue(slots, feeTokens[j]))

pendingLeaves(slots, feeTokens, feeNPK) ==
    FlattenSeq([t \in DOMAIN slots |-> treeLeavesForTransfer(slots[t])])
        \o feeCommitments(slots, feeTokens, feeNPK)

EpochCircuit(slots, feeTokens, feeNPK, knownRoots, authLeaves, provingTime, signatures) ==
    /\ FeesRouted(slots, feeTokens)
    /\ IsSpendable(feeNPK)
    /\ \A t \in DOMAIN slots :
        /\ Transfer(slots[t], knownRoots)
        /\ verifyAuth(slots[t], authLeaves, provingTime, signatures)

-----------------------------------------------------------------------------
(* Forced withdrawal: f has the fields account, nk, token and inputs of a  *)
(* slot, and payout <<to, token, amount>>.  Nothing is minted.             *)

(* LibDigest.computeForcedWithdrawalDigest; its fee is in ForcedWithdrawal. *)
ForcedDigest(f, mode) ==
    [kind |-> "forced", mode |-> mode, account |-> f.account,
     nullifiers |-> NullifiersOf(f.nk, f.inputs), commitments |-> CommitmentsOf(f.inputs),
     outs |-> <<>>, payout |-> f.payout]

(* An approval counts only if it is the only one of its batch.             *)
ForcedAuthorized(f, leaf, signatures) ==
    LET digest == ForcedDigest(f, leaf.kind)
    IN  /\ leaf.account = f.account
        /\ \/ leaf.kind = "key" /\ [key |-> leaf.key, digest |-> digest] \in signatures
           \/ /\ leaf.kind = "approval" /\ leaf.expiry # 0
              /\ \E blinding \in {m.blinding : m \in leaf.batch} :
                    leaf.batch = {[digest |-> digest, blinding |-> blinding]}

ForcedCircuit(f, knownRoots, leaf, signatures) ==
    /\ Len(f.inputs) \in 1..MaxInputs
    /\ ForcedAuthorized(f, leaf, signatures)
    /\ \A i \in DOMAIN f.inputs :
            InputNote(f.account, f.nk, f.token, f.inputs[i], knownRoots)
    /\ f.payout[2] = f.token
    /\ IsAmount(f.payout[3])
    /\ f.payout[3] = FieldSum(ValuesOf(f.inputs))
=============================================================================
