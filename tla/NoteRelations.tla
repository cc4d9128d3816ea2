--------------------------- MODULE NoteRelations ----------------------------
(***************************************************************************)
(* What the circuits that spend or mint notes have in common: the field,   *)
(* keys and note commitments, and the relation between a note that is      *)
(* spent, its place in a tree and its nullifier, which the epoch circuit   *)
(* (assertInputNotes, assertNullifier) and the forced withdrawal circuit   *)
(* (processInputs) each spell out.                                         *)
(*                                                                         *)
(* A hash is the tuple or record of what is hashed, so collision free; the *)
(* root of a tree is the sequence of its leaves.  Values are elements of a *)
(* field, which is small but larger than any honest sum, like the real     *)
(* one: sums that wrap are the reason for the range checks.                *)
(***************************************************************************)
EXTENDS Integers, Sequences, SequencesExt

CONSTANTS
    Modulus,        (* The field is 0..Modulus-1.                          *)
    MaxAmount,      (* 2^AmountBits - 1.                                   *)
    Address,        (* Addresses, which are small numbers of the field.    *)
    Ground          (* [mpk, rnd, address]: randomness somebody searched   *)
                    (* for until the note key was an address.              *)

ASSUME ModulusAssumption == {Modulus, MaxAmount} \subseteq Nat /\ MaxAmount < Modulus
ASSUME GroundAssumption == Ground.address \in Address

Field == 0..Modulus-1

Plus(v, w) == (v + w) % Modulus

FieldSum(values) == FoldSeq(Plus, 0, values)

ValuesOf(notes) == [i \in DOMAIN notes |-> notes[i].value]

(* AssertIsNBits(v, AmountBits).                                           *)
IsAmount(v) == v \in 0..MaxAmount

-----------------------------------------------------------------------------
(* Keys and notes.                                                         *)

MPK(account, nullifyingKey) == <<account, nullifyingKey>>

(* A number below 2^ReservedNPKBits, where addresses lie.                  *)
Reserved(address) == <<address>>

NPK(mpk, rnd) ==
    IF mpk = Ground.mpk /\ rnd = Ground.rnd THEN Reserved(Ground.address) ELSE <<mpk, rnd>>

IsSpendable(npk) == \A a \in Address : npk # Reserved(a)

Commitment(npk, token, value) == [npk |-> npk, token |-> token, value |-> value]

(* The marker of a public payout (LibDigest.computeWithdrawalCommitment).  *)
Marker(to, token, amount) == Commitment(Reserved(to), token, amount)

Nullifier(treeNumber, nullifyingKey, index) == <<treeNumber, nullifyingKey, index>>

-----------------------------------------------------------------------------
(* A note that is spent: the prover knows leaves of a tree, an index and   *)
(* an opening of the leaf there, and names the number of the tree.         *)

Root(leaves) == leaves

(* Mutant: any of the known roots will do, whatever tree it belongs to.    *)
RootKnown(root, treeNumber, knownRoots) ==
    \E known \in knownRoots : known[1] = root

RootWithTreeNumber(root, treeNumber, knownRoots) == <<root, treeNumber>> \in knownRoots

InputNote(account, nullifyingKey, token, input, knownRoots) ==
    LET npk == NPK(MPK(account, nullifyingKey), input.rnd)
    IN  /\ input.leaves[input.index] = Commitment(npk, token, input.value)
        /\ IsAmount(input.value)
        /\ IsSpendable(npk)
        /\ RootWithTreeNumber(Root(input.leaves), input.treeNumber, knownRoots)

NullifiersOf(nullifyingKey, inputs) ==
    [i \in DOMAIN inputs |-> Nullifier(inputs[i].treeNumber, nullifyingKey, inputs[i].index)]

CommitmentsOf(inputs) == [i \in DOMAIN inputs |-> inputs[i].leaves[inputs[i].index]]
=============================================================================
