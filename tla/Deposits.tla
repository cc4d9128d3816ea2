------------------------------ MODULE Deposits ------------------------------
(***************************************************************************)
(* The life of a pending deposit: requested by a depositor or recorded by  *)
(* a gateway settlement, then credited by a deposit epoch, cancelled by    *)
(* its depositor or rescued by the authority of a gateway redeposit, and   *)
(* the tokens and note value that move with it.                            *)
(*                                                                         *)
(* The append of the credited notes to the trees is NoteTree's subject;    *)
(* here the notes are counted by their value.  Every action is one         *)
(* transaction: the entry points share the pool's reentrancy guard.        *)
(***************************************************************************)
EXTENDS Naturals, Sequences, FiniteSets, SequencesExt, FiniteSetsExt

CONSTANTS
    Account,        (* Depositors, who can call the pool.                  *)
    Gateway,        (* Addresses with the Sync route, which cannot.        *)
    Token,          (* Registered ERC-20 tokens.                           *)
    MaxAmount,      (* type(uint96).max.                                   *)
    MaxBatchSize,   (* maxBatchSize.                                       *)
    CancelDelay,    (* cancelDelay, in blocks.                             *)
    MaxNonce,       (* type(uint32).max: nonces are checked increments.    *)
    RescueCommitment,   (* Commitments to a rescue authority.              *)
    NoRescue        (* bytes32(0).                                         *)

VARIABLES
    pendingDeposits,    (* The recorded requests.                          *)
    processedDeposits,  (* Requests with the processed flag.               *)
    depositNonces,      (* Per address, the nonce of its next request.     *)
    balance,            (* The pool's token balances.                      *)
    shielded,           (* Per token, the value of the unspent notes.      *)
    settled             (* Ghost: of every request made, how many times it *)
                        (* was credited or paid back.                      *)

vars == <<pendingDeposits, processedDeposits, depositNonces, balance, shielded, settled>>

ASSUME AccountAssumption == Account \cap Gateway = {}
ASSUME DelayAssumption == CancelDelay \in Nat
ASSUME NonceAssumption == MaxNonce \in Nat
ASSUME BatchAssumption == MaxBatchSize \in Nat \ {0}
ASSUME AmountAssumption == MaxAmount \in Nat \ {0}
ASSUME RescueAssumption == NoRescue \notin RescueCommitment

-----------------------------------------------------------------------------
(* Data.                                                                   *)

(* A note commitment opens to a token and a value; the hash is collision   *)
(* free, so a commitment is what it opens to.                              *)
Note == [token : Token, value : 1..MaxAmount]

(* What fits in one request or one epoch.                                  *)
Batch(S) == BoundedSeq(S, MaxBatchSize) \ {<<>>}

(* The request id is a digest of these.                                    *)
RequestId ==
    [depositor : Account \cup Gateway, token : Token, amount : 1..MaxAmount,
     nonce : 0..MaxNonce - 1, commitments : Batch(Note)]

ComputeRequestId(depositor, token, amount, nonce, commitments) ==
    [depositor |-> depositor, token |-> token, amount |-> amount, nonce |-> nonce,
     commitments |-> commitments]

Pending == DOMAIN pendingDeposits
Held == Pending \ processedDeposits

SumValues(notes) == MapThenSumSet(LAMBDA i : notes[i].value, DOMAIN notes)

ValueIn(notes, t) ==
    MapThenSumSet(LAMBDA i : notes[i].value, {i \in DOMAIN notes : notes[i].token = t})

AmountIn(requests, t) ==
    MapThenSumSet(LAMBDA id : id.amount, {id \in requests : id.token = t})

-----------------------------------------------------------------------------
(* Records.  The age of a request is the number of blocks since            *)
(* requestBlock, counted up to the delay.                                  *)

(* Mutant: a gateway redeposit is recorded without its rescue commitment.  *)
RecordWithoutRescue(id, rescue) ==
    /\ id \notin Pending
    /\ pendingDeposits' =
            [d \in Pending \cup {id} |->
                IF d = id THEN [age |-> 0, rescueCommitment |-> NoRescue] ELSE pendingDeposits[d]]
    /\ depositNonces' = [depositNonces EXCEPT ![id.depositor] = @ + 1]
    /\ settled' = [d \in DOMAIN settled \cup {id} |->
                        IF d \in DOMAIN settled THEN settled[d] ELSE 0]

Record(id, rescue) ==
    /\ id \notin Pending                   \* DepositAlreadyExists
    /\ pendingDeposits' =
            [d \in Pending \cup {id} |->
                IF d = id THEN [age |-> 0, rescueCommitment |-> rescue] ELSE pendingDeposits[d]]
    /\ depositNonces' = [depositNonces EXCEPT ![id.depositor] = @ + 1]
    /\ settled' = [d \in DOMAIN settled \cup {id} |->
                        IF d \in DOMAIN settled THEN settled[d] ELSE 0]

DeleteRecord(id) == pendingDeposits' = [d \in Pending \ {id} |-> pendingDeposits[d]]

Times(id, deposits) == Cardinality({r \in DOMAIN deposits : deposits[r] = id})

CountSettled(deposits) ==
    settled' = [d \in DOMAIN settled |-> settled[d] + Times(d, deposits)]

Ripe(id) == pendingDeposits[id].age >= CancelDelay

-----------------------------------------------------------------------------
(* Depositors.                                                             *)

(* Mutant: what arrives is not measured.                                   *)
FullAmountReceivedUnmeasured(amount, received) == TRUE

(* Tokens that take a fee on transfer deliver less than was asked for.     *)
FullAmountReceived(amount, received) == received = amount

RequestDeposit(a, token, amount, commitments, received) ==
    LET id == ComputeRequestId(a, token, amount, depositNonces[a], commitments)
    IN  /\ depositNonces[a] < MaxNonce
        /\ FullAmountReceived(amount, received)
        /\ Record(id, NoRescue)
        /\ balance' = [balance EXCEPT ![token] = @ + received]
        /\ UNCHANGED <<processedDeposits, shielded>>

(* The depositor calls, so a record made by a gateway is out of reach.     *)
MayCancel(id) ==
    /\ id.depositor \in Account            \* msg.sender is the depositor
    /\ id \notin processedDeposits
    /\ Ripe(id)
    /\ pendingDeposits[id].rescueCommitment = NoRescue

(* The deleted record is all that remains of the request.                  *)
CancelDeposit(id) ==
    /\ MayCancel(id)
    /\ DeleteRecord(id)
    /\ balance' = [balance EXCEPT ![id.token] = @ - id.amount]
    /\ CountSettled(<<id>>)
    /\ UNCHANGED <<processedDeposits, depositNonces, shielded>>

(* The authority behind the rescue commitment calls, or has signed.        *)
MayRescue(id) ==
    /\ id \notin processedDeposits
    /\ pendingDeposits[id].rescueCommitment # NoRescue
    /\ Ripe(id)

RescueGatewayDeposit(id) ==
    /\ MayRescue(id)
    /\ processedDeposits' = processedDeposits \cup {id}
    /\ DeleteRecord(id)
    /\ balance' = [balance EXCEPT ![id.token] = @ - id.amount]
    /\ CountSettled(<<id>>)
    /\ UNCHANGED <<depositNonces, shielded>>

-----------------------------------------------------------------------------
(* Deposit epochs.                                                         *)

(* The outputs are cut into one slice per request, in order and without a  *)
(* rest, and each slice hashes to what the request committed to.           *)
OutputsMatch(deposits, outputs) ==
    outputs = FlattenSeq([r \in DOMAIN deposits |-> deposits[r].commitments])

(* The deposit circuit: the commitments of a request open to its token and *)
(* to values that sum to its amount.                                       *)
DepositCircuit(deposits) ==
    \A r \in DOMAIN deposits :
        /\ \A i \in DOMAIN deposits[r].commitments :
                deposits[r].commitments[i].token = deposits[r].token
        /\ SumValues(deposits[r].commitments) = deposits[r].amount

(* Mutant: all requests are checked before the first one is flagged.       *)
CanProcessEach(deposits) == \A r \in DOMAIN deposits : deposits[r] \in Held

(* Mutant: the flag of an earlier epoch is not looked at.                  *)
CanProcessAgain(deposits) ==
    /\ \A r \in DOMAIN deposits : deposits[r] \in Pending
    /\ \A r, s \in DOMAIN deposits : deposits[r] = deposits[s] => r = s

(* The requests are flagged one after the other, so one that is named      *)
(* twice is rejected like one that was processed before.                   *)
CanProcess(deposits) ==
    /\ \A r \in DOMAIN deposits : deposits[r] \in Held
    /\ \A r, s \in DOMAIN deposits : deposits[r] = deposits[s] => r = s

SubmitDepositEpoch(deposits, outputs) ==
    /\ CanProcess(deposits)
    /\ OutputsMatch(deposits, outputs)
    /\ DepositCircuit(deposits)
    /\ processedDeposits' = processedDeposits \cup ToSet(deposits)
    /\ shielded' = [t \in Token |-> shielded[t] + ValueIn(outputs, t)]
    /\ CountSettled(deposits)
    /\ UNCHANGED <<pendingDeposits, depositNonces, balance>>

-----------------------------------------------------------------------------
(* Withdrawals of a transfer epoch.  The circuit spends notes of at least  *)
(* the withdrawn value.                                                    *)

Withdraw(token, amount) ==
    /\ amount <= shielded[token]
    /\ shielded' = [shielded EXCEPT ![token] = @ - amount]
    /\ balance' = [balance EXCEPT ![token] = @ - amount]
    /\ UNCHANGED <<pendingDeposits, processedDeposits, depositNonces, settled>>

GatewayNote(token, value) == <<[token |-> token, value |-> value]>>

InputConsumed(amount, pulled) == pulled = amount

(* A withdrawal to a gateway whose call succeeds: it pulls its allowance,  *)
(* or a part of it, and the pool measures what it gets in return.          *)
SettleGatewayExecuted(g, tokenIn, amount, pulled, tokenOut, delta, rescue) ==
    LET id == ComputeRequestId(g, tokenOut, delta, depositNonces[g], GatewayNote(tokenOut, delta))
    IN  /\ amount <= shielded[tokenIn]
        /\ tokenOut # tokenIn
        /\ InputConsumed(amount, pulled)
        /\ depositNonces[g] < MaxNonce
        /\ Record(id, rescue)
        /\ balance' = [balance EXCEPT ![tokenIn] = @ - pulled, ![tokenOut] = @ + delta]
        /\ shielded' = [shielded EXCEPT ![tokenIn] = @ - amount]
        /\ UNCHANGED processedDeposits

(* The call reverts, has expired or runs out of gas: the input is recorded *)
(* as a deposit under the fallback receipt.                                *)
SettleGatewayFallback(g, tokenIn, amount, rescue) ==
    LET id == ComputeRequestId(g, tokenIn, amount, depositNonces[g], GatewayNote(tokenIn, amount))
    IN  /\ amount <= shielded[tokenIn]
        /\ depositNonces[g] < MaxNonce
        /\ Record(id, rescue)
        /\ shielded' = [shielded EXCEPT ![tokenIn] = @ - amount]
        /\ UNCHANGED <<processedDeposits, balance>>

-----------------------------------------------------------------------------
(* The specification.                                                      *)

Init ==
    /\ pendingDeposits = <<>>
    /\ processedDeposits = {}
    /\ depositNonces = [a \in Account \cup Gateway |-> 0]
    /\ balance = [t \in Token |-> 0]
    /\ shielded = [t \in Token |-> 0]
    /\ settled = <<>>

(* A block is mined.                                                       *)
Mine ==
    /\ \E id \in Held : ~Ripe(id)
    /\ pendingDeposits' =
            [id \in Pending |->
                IF Ripe(id) THEN pendingDeposits[id] ELSE [pendingDeposits[id] EXCEPT !.age = @ + 1]]
    /\ UNCHANGED <<processedDeposits, depositNonces, balance, shielded, settled>>

Request ==
    \E a \in Account, token \in Token, amount \in 1..MaxAmount :
        \E commitments \in Batch(Note), received \in 0..amount :
            RequestDeposit(a, token, amount, commitments, received)

Process ==
    \E deposits \in Batch(Pending) :
        \E outputs \in Batch(Note) :
            SubmitDepositEpoch(deposits, outputs)

Spend ==
    \E token \in Token, amount \in 1..MaxAmount :
        \/ Withdraw(token, amount)
        \/ \E g \in Gateway, rescue \in RescueCommitment :
            \/ \E tokenOut \in Token, delta \in 1..MaxAmount, pulled \in 0..amount :
                    SettleGatewayExecuted(g, token, amount, pulled, tokenOut, delta, rescue)
            \/ SettleGatewayFallback(g, token, amount, rescue)

Next ==
    \/ Request
    \/ \E id \in Pending : CancelDeposit(id) \/ RescueGatewayDeposit(id)
    \/ Process
    \/ Spend
    \/ Mine

Spec == Init /\ [][Next]_vars

(* The chain goes on, and whoever can take a deposit back does so in the   *)
(* end.  Nothing is assumed of the relays that run deposit epochs.         *)
TakeBack(a, n) ==
    \E id \in Pending :
        /\ id.depositor = a /\ id.nonce = n
        /\ CancelDeposit(id) \/ RescueGatewayDeposit(id)

Fairness ==
    /\ WF_vars(Mine)
    /\ \A a \in Account \cup Gateway, n \in 0..MaxNonce - 1 : WF_vars(TakeBack(a, n))

FairSpec == Spec /\ Fairness

-----------------------------------------------------------------------------
(* Properties.                                                             *)

(* A request is credited or paid back at most once, and one that is not    *)
(* held any more has been: however cancellations, rescues and epochs with  *)
(* old or repeated request lists race, and also for a depositor who asks   *)
(* for the very same deposit again.                                        *)
SettledOnce ==
    \A id \in DOMAIN settled : settled[id] = IF id \in Held THEN 0 ELSE 1

(* The tokens in the pool are exactly the unspent notes and the requests   *)
(* that are still held: no path mints notes that nothing backs, pays twice *)
(* or strands value, through a gateway and back included.                  *)
FundsCovered ==
    \A t \in Token :
        balance[t] = shielded[t] + AmountIn(Held, t)

(* Of every request that is ripe there is one who may take it back, and    *)
(* only one: the depositor of a deposit, the rescue authority of what a    *)
(* gateway left.  And the pool never lacks the tokens, whatever it has     *)
(* paid to others (cancelDeposit, rescueGatewayDeposit).                   *)
OneWayOut ==
    \A id \in Held :
        /\ Ripe(id) => (MayCancel(id) <=> ~MayRescue(id))
        /\ id.amount <= balance[id.token]

(* That stays so until the request is settled: no later request, epoch or  *)
(* gateway makes it wait anew.                                             *)
WayOutStays == [][\A id \in Held \cap Held' : Ripe(id) => Ripe(id)']_vars

(* A depositor or a rescue authority never depends on a relay to get the   *)
(* money back: every request leaves the escrow in the end.                 *)
NobodyIsStuck ==
    \A a \in Account \cup Gateway, n \in 0..MaxNonce - 1 :
        (\E id \in Held : id.depositor = a /\ id.nonce = n)
            ~> ~(\E id \in Held : id.depositor = a /\ id.nonce = n)

(* The records, flags, balances and notes together implement the escrow.   *)
Vault == INSTANCE Escrow WITH
    Deposit <- RequestId,
    held    <- Held,
    settled <- DOMAIN settled \ Held,
    owed    <- shielded,
    vault   <- balance

ImplementsEscrow == Vault!EscrowSpec
=============================================================================
