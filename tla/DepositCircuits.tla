-------------------------- MODULE DepositCircuits ---------------------------
(***************************************************************************)
(* The relations of the two proofs that turn deposits into notes: the      *)
(* epoch of deposit requests (deposit_epoch_circuit.go), which walks one   *)
(* list of commitments with cursors into lists of requests, and the epoch  *)
(* of portal deposits (deposit_portal_circuit.go), which derives each note *)
(* from what the portal registered.                                        *)
(***************************************************************************)
EXTENDS NoteRelations

SelectByIndex(values, index) == IF index \in DOMAIN values THEN values[index] ELSE 0

RequestId(depositor, token, total, nonce, commitments) ==
    [depositor |-> depositor, token |-> token, total |-> total, nonce |-> nonce,
     commitments |-> commitments]

(* The request ids, totals, counts and commitments are public, the         *)
(* contract has taken them from its records.                               *)
assertTotalCommitmentCount(counts, commitmentsOut) ==
    /\ \A r \in DOMAIN counts : counts[r] # 0
    /\ FoldSeq(+, 0, counts) = Len(commitmentsOut)

(* The cursors: the request, the sum of its notes so far, the chain of     *)
(* its commitments and how many there were.  Running states that violated  *)
(* an assertion are not ok.                                                *)
FirstRequest == [request |-> 1, sum |-> 0, hash |-> <<>>, index |-> 0, ok |-> TRUE]

NextRequest(s) == [s EXCEPT !.request = @ + 1, !.sum = 0, !.hash = <<>>, !.index = 0]

Opens(commitment, token) ==
    /\ commitment.value # 0 /\ IsAmount(commitment.value)
    /\ IsSpendable(commitment.npk)
    /\ commitment = Commitment(commitment.npk, token, commitment.value)

(* One commitment.  w holds the witnesses of the requests: depositors,     *)
(* tokens and nonces.                                                      *)
TakeCommitment(ids, totals, counts, w, c, s) ==
    LET r == s.request
        read == [s EXCEPT !.sum = Plus(@, c.value), !.hash = Append(@, c), !.index = @ + 1]
        complete == read.index = SelectByIndex(counts, r)
        asRecorded ==
            /\ read.sum = SelectByIndex(totals, r)
            /\ RequestId(w[r].depositor, w[r].token, SelectByIndex(totals, r), w[r].nonce, read.hash)
                    = SelectByIndex(ids, r)
        checked == [read EXCEPT !.ok = @ /\ Opens(c, w[r].token) /\ (complete => asRecorded)]
    IN  IF complete THEN NextRequest(checked) ELSE checked

processCommitments(ids, totals, counts, commitmentsOut, w) ==
    LET walk[i \in 0..Len(commitmentsOut)] ==
            IF i = 0 THEN FirstRequest
            ELSE TakeCommitment(ids, totals, counts, w, commitmentsOut[i], walk[i - 1])
        end == walk[Len(commitmentsOut)]
    IN  end.ok /\ end.request = Len(ids) + 1

DepositEpochCircuit(ids, totals, counts, commitmentsOut, w) ==
    /\ ids # <<>> /\ commitmentsOut # <<>>
    /\ assertTotalCommitmentCount(counts, commitmentsOut)
    /\ processCommitments(ids, totals, counts, commitmentsOut, w)

-----------------------------------------------------------------------------
(* Portals.  d is the public part of a deposit: the portal, its counter,   *)
(* the recipientBindH the portal registered, token and net amount.         *)

recipientBindH(recipientMPK, blind) == <<recipientMPK, blind>>

(* Mutant: the portal is not part of the randomness.                       *)
noteRndOfBlind(blind, portal, counter) == <<blind, "any portal", counter>>

noteRnd(blind, portal, counter) == <<blind, portal, counter>>

PortalNote(d, recipientMPK, blind) ==
    Commitment(NPK(recipientMPK, noteRnd(blind, d.portal, d.counter)), d.token, d.amount)

(* w[i] are the witnesses recipientMPK and blind.                          *)
processDeposits(deposits, commitmentsOut, w) ==
    \A i \in DOMAIN deposits :
        /\ deposits[i].amount # 0 /\ IsAmount(deposits[i].amount)
        /\ recipientBindH(w[i].recipientMPK, w[i].blind) = deposits[i].recipientBindH
        /\ commitmentsOut[i] = PortalNote(deposits[i], w[i].recipientMPK, w[i].blind)
=============================================================================
