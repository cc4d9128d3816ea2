------------------------- MODULE GatewaySettlement --------------------------
(***************************************************************************)
(* The withdrawals of a transfer epoch (LibGateway).  A withdrawal to an   *)
(* address with the Sync route is not paid out: the pool lets that gateway *)
(* pull the amount, has it make the call its slot asks for, measures what  *)
(* comes back and records it as a new deposit of the user; if the call     *)
(* fails, the input is recorded instead.  One gateway is the contract of   *)
(* this repository, ExternalCallGateway, which calls a target it does not  *)
(* trust; the route manager may approve any other.                         *)
(*                                                                         *)
(* An epoch is one transaction.  Its steps are actions here, because       *)
(* gateways and targets run between them; a revert restores the state the  *)
(* transaction, or the isolated frame of a slot, began with.  The pool's   *)
(* entry points are guarded against reentry, so that only tokens move      *)
(* while foreign code runs.                                                *)
(***************************************************************************)
EXTENDS Integers, Sequences, FiniteSets, FiniteSetsExt

CONSTANTS
    User,           (* Any address without a route that is paid.           *)
    Executor,       (* The ExternalCallGateway.                            *)
    Foreign,        (* Other gateways, of unknown code.                    *)
    Pool,           (* PrivacyBoost.                                       *)
    Token,          (* Registered ERC-20 tokens.                           *)
    Target,         (* Contracts, with the function called.                *)
    Policies,       (* The token pairs a call policy may admit.            *)
    Batches,        (* What relays submit: withdrawals and their slots.    *)
    FinalReserve,   (* EPOCH_FINALIZATION_GAS_RESERVE.                     *)
    PlainReserve,   (* PLAIN_WITHDRAWAL_GAS_RESERVE.                       *)
    PostReserve,    (* GATEWAY_POST_EXECUTION_GAS_RESERVE.                 *)
    SelfReserve,    (* _gatewaySelfCallGasReserve, call data of one size.  *)
    SpareGas,       (* The gas epochs are given above the floor.           *)
    MaxAmount,      (* type(uint96).max.                                   *)
    MaxBalance,     (* Largest balance of the pool (a bound).              *)
    MaxStash,       (* Largest balance the gateway is sent (a bound).      *)
    MaxNonce,       (* Redeposits of a gateway (a bound).                  *)
    MaxBlock,       (* Last block (a bound).                               *)
    None            (* No epoch, no call.                                  *)

VARIABLES
    gatewayRoute,   (* The addresses with the Sync route.                  *)
    callPolicies,   (* Per target, the token pairs its calls may have.     *)
    paused,         (* Of the ExternalCallGateway.                         *)
    balance,        (* balance[t][h], tokens of the pool and the gateway.  *)
    allowance,      (* allowance[t][h], what h lets its callee pull.       *)
    notes,          (* notes[t], the value of the unspent notes.           *)
    pendingDeposits,    (* Redeposits not yet credited or rescued.         *)
    depositNonces,
    block,
    epoch,          (* The epoch that is being settled.                    *)
    call            (* The isolated frame of its current slot.             *)

Gateway == {Executor} \cup Foreign
Holder == {Pool, Executor}

ledger == <<balance, allowance, notes, pendingDeposits, depositNonces>>
config == <<gatewayRoute, callPolicies, paused>>
vars == <<ledger, config, block, epoch, call>>

Withdrawal == [to : Gateway \cup {User}, token : Token, amount : 1..MaxAmount]

(* withdrawalIndex counts from one here.  receipt is the token and the     *)
(* least amount of the output; the fallback receipt names the input.       *)
GatewaySlot == [index : Nat, target : Target, outputToken : Token,
                minOutputAmount : 0..MaxAmount, expiryBlock : Nat]

ASSUME GatewaysAssumption == Executor \notin Foreign /\ User \notin Gateway /\ Pool # Executor
ASSUME ReservesAssumption ==
    /\ FinalReserve \in Nat /\ PlainReserve \in Nat
    /\ PostReserve \in Nat \ {0} /\ SelfReserve \in Nat \ {0}
    /\ SpareGas \subseteq Nat
ASSUME BatchesAssumption ==
    \A b \in Batches : b.withdrawals \in Seq(Withdrawal) /\ b.slots \in Seq(GatewaySlot)
ASSUME BoundsAssumption == MaxAmount \in Nat /\ MaxBalance \in Nat /\ MaxNonce \in Nat
ASSUME PoliciesAssumption == Policies \subseteq SUBSET (Token \X Token)

(* The states of the pool, of an epoch and of a frame, and no epoch.       *)
Deposit == [gateway : Gateway, nonce : Nat, token : Token, amount : Nat]

LedgerState ==
    [balance : [Token -> [Holder -> Int]], allowance : [Token -> [Holder -> Int]],
     notes : [Token -> Int], pendingDeposits : SUBSET Deposit, depositNonces : [Gateway -> Nat]]

EpochState ==
    [withdrawals : Seq(Withdrawal), slots : Seq(GatewaySlot), next : Nat, cursor : Nat,
     outcomes : Seq([slot : Nat, token : Token, amount : Int, executed : BOOLEAN]),
     simulated : BOOLEAN, remaining : Int, gas : Int, before : LedgerState]

CallState ==
    [stage : {"opened", "approved", "target", "returned"}, granted : Int, gas : Int,
     before : LedgerState]

ASSUME NoneAssumption == None \notin EpochState /\ None \notin CallState

-----------------------------------------------------------------------------
(* Transactions and frames.                                                *)

Snapshot == [balance |-> balance, allowance |-> allowance, notes |-> notes,
             pendingDeposits |-> pendingDeposits, depositNonces |-> depositNonces]

RestoreTo(s) ==
    /\ balance' = s.balance
    /\ allowance' = s.allowance
    /\ notes' = s.notes
    /\ pendingDeposits' = s.pendingDeposits
    /\ depositNonces' = s.depositNonces

Idle == epoch = None
InSlot == call # None
Settling == ~Idle /\ ~InSlot /\ epoch.next <= Len(epoch.withdrawals)

Withdrawn == epoch.withdrawals[epoch.next]
Slot == epoch.slots[epoch.cursor]
Routed == Withdrawn.to \in gatewayRoute

HasSlot == epoch.cursor <= Len(epoch.slots) /\ Slot.index = epoch.next

Revert ==
    /\ RestoreTo(epoch.before)
    /\ epoch' = None /\ call' = None
    /\ UNCHANGED <<config, block>>

-----------------------------------------------------------------------------
(* Gas.  Only epochs with slots carry a budget: what is left at any point  *)
(* has to be more than what the rest of the epoch was granted.             *)

Budgeted == epoch.slots # <<>>

(* Mutant: nothing is set aside for the plain withdrawals.                 *)
BudgetOfSlots(withdrawals, slots) ==
    FinalReserve + Len(slots) * (PostReserve + SelfReserve)

Budget(withdrawals, slots) ==
    FinalReserve + (Len(withdrawals) - Len(slots)) * PlainReserve
                 + Len(slots) * (PostReserve + SelfReserve)

(* Mutant: only the reserves of the slot itself are kept back.             *)
IsolatedGasOfSlot == epoch.gas - (PostReserve + SelfReserve)

(* What the isolated frame gets; the rest stays with the epoch.            *)
IsolatedGas == epoch.gas - epoch.remaining

(* What is left of the gas of the epoch after the frame, whose overhead    *)
(* is below its reserve.                                                   *)
GasAfterFrame(kept, overhead) == epoch.gas - call.granted + kept - overhead

Overhead == 0..SelfReserve-1

-----------------------------------------------------------------------------
(* Records.                                                                *)

Record(g, token, amount) ==
    /\ depositNonces[g] < MaxNonce
    /\ depositNonces' = [depositNonces EXCEPT ![g] = @ + 1]
    /\ pendingDeposits' = pendingDeposits \cup
            {[gateway |-> g, nonce |-> depositNonces[g], token |-> token, amount |-> amount]}

(* The slot is settled: the epoch goes on with the next withdrawal.        *)
SlotSettled(outcome, gasLeft) ==
    /\ epoch' = [epoch EXCEPT
            !.next = @ + 1, !.cursor = @ + 1, !.gas = gasLeft,
            !.outcomes = Append(@, outcome)]
    /\ call' = None
    /\ UNCHANGED <<config, block>>

(* The slot of a withdrawal, what was recorded for it, and how it ended.   *)
Outcome(slot, token, amount, executed) ==
    [slot |-> slot, token |-> token, amount |-> amount, executed |-> executed]

(* The input becomes a deposit again.                                      *)
SettleFallback(gasLeft) ==
    /\ Record(Withdrawn.to, Withdrawn.token, Withdrawn.amount)
    /\ SlotSettled(Outcome(epoch.cursor, Withdrawn.token, Withdrawn.amount, FALSE), gasLeft)

-----------------------------------------------------------------------------
(* The loop over the withdrawals.                                          *)

StrictlyAscending(slots) ==
    \A i \in DOMAIN slots : i > 1 => slots[i].index > slots[i-1].index

TotalOf(withdrawals, t) ==
    MapThenSumSet(LAMBDA i : withdrawals[i].amount,
                  {i \in DOMAIN withdrawals : withdrawals[i].token = t})

Open(b, spare, simulated) ==
    /\ Idle
    /\ StrictlyAscending(b.slots)
    /\ Len(b.slots) <= Len(b.withdrawals)
    /\ epoch' = [withdrawals |-> b.withdrawals, slots |-> b.slots,
                 next |-> 1, cursor |-> 1, outcomes |-> <<>>, simulated |-> simulated,
                 remaining |-> Budget(b.withdrawals, b.slots),
                 gas |-> Budget(b.withdrawals, b.slots) + spare, before |-> Snapshot]
    /\ UNCHANGED <<balance, allowance, pendingDeposits, depositNonces, config, block, call>>

(* The proof spends notes of the values withdrawn.                         *)
SubmitEpoch(b, spare) ==
    /\ Open(b, spare, FALSE)
    /\ \A t \in Token : TotalOf(b.withdrawals, t) <= notes[t]
    /\ notes' = [t \in Token |-> notes[t] - TotalOf(b.withdrawals, t)]

(* A relay rehearses withdrawals, whether or not notes stand behind them.  *)
SimulateGatewayWithdrawals(b, spare) ==
    /\ Open(b, spare, TRUE)
    /\ UNCHANGED notes

(* No route, no slot: the tokens are sent, to the gateway's own account if *)
(* its route was removed.                                                  *)
PayPlain(cost) ==
    /\ Settling
    /\ ~Routed /\ ~HasSlot
    /\ Budgeted => epoch.gas > epoch.remaining
    /\ Withdrawn.amount <= balance[Withdrawn.token][Pool]
    /\ Withdrawn.to = Executor => balance[Withdrawn.token][Executor] < MaxStash
    /\ balance' = [balance EXCEPT ![Withdrawn.token] =
            [h \in Holder |-> IF h = Pool THEN @[h] - Withdrawn.amount
                              ELSE IF h = Withdrawn.to THEN @[h] + Withdrawn.amount
                              ELSE @[h]]]
    /\ epoch' = [epoch EXCEPT
            !.next = @ + 1,
            !.remaining = IF Budgeted THEN @ - PlainReserve ELSE @,
            !.gas = IF Budgeted THEN @ - cost ELSE @,
            !.outcomes = Append(@, Outcome(0, Withdrawn.token, 0, FALSE))]
    /\ UNCHANGED <<allowance, notes, pendingDeposits, depositNonces, config, block, call>>

(* The nonce is a checked uint32.  A slot leaves exactly one record however *)
(* its frame ends, or reverts: with no nonce left all that happens in the  *)
(* frame is undone, which is told here before it is entered.               *)
NonceLeft == depositNonces[Withdrawn.to] < MaxNonce

(* The fallback shape of the slot is checked, then its frame is entered.   *)
OpenSlot ==
    /\ Settling
    /\ Routed /\ HasSlot
    /\ Slot.expiryBlock # 0
    /\ epoch.gas > epoch.remaining
    /\ NonceLeft
    /\ call' = [stage |-> "opened", granted |-> IsolatedGas, gas |-> IsolatedGas,
                before |-> Snapshot]
    /\ epoch' = [epoch EXCEPT !.remaining = @ - (PostReserve + SelfReserve)]
    /\ UNCHANGED <<ledger, config, block>>

(* Mutant: the cursor is not compared with the number of slots.            *)
AllSlotsUsedUnchecked == TRUE

AllSlotsUsed == epoch.cursor = Len(epoch.slots) + 1

Finishing == ~Idle /\ ~InSlot /\ epoch.next > Len(epoch.withdrawals) /\ AllSlotsUsed

FinishEpoch ==
    /\ Finishing
    /\ Budgeted => epoch.gas > FinalReserve
    /\ ~epoch.simulated
    /\ epoch' = None
    /\ UNCHANGED <<ledger, config, block, call>>

(* The outcomes of a simulation are handed out as revert data.             *)
FinishSimulation ==
    /\ Finishing
    /\ Budgeted => epoch.gas > FinalReserve
    /\ epoch.simulated
    /\ Revert

RevertMispaired ==
    /\ \/ Settling /\ Routed # HasSlot
       \/ ~Idle /\ ~InSlot /\ epoch.next > Len(epoch.withdrawals) /\ ~AllSlotsUsed
    /\ Revert

RevertUnfunded ==
    /\ Settling /\ ~Routed /\ ~HasSlot
    /\ Withdrawn.amount > balance[Withdrawn.token][Pool]
    /\ Revert

RevertNonce ==
    /\ Settling
    /\ Routed /\ HasSlot
    /\ ~NonceLeft
    /\ Revert

ShortInLoop ==
    /\ Settling \/ Finishing
    /\ Budgeted
    /\ \/ Settling /\ Routed = HasSlot /\ epoch.gas <= epoch.remaining
       \/ Finishing /\ epoch.gas <= FinalReserve

-----------------------------------------------------------------------------
(* The isolated frame of a slot.                                           *)

Stage(s) == InSlot /\ call.stage = s
EnoughForRecovery == call.gas > PostReserve
Expired == block > Slot.expiryBlock

PrimaryShape == Slot.outputToken # Withdrawn.token /\ Slot.minOutputAmount # 0

SettleExpired(overhead, cost) ==
    /\ Stage("opened")
    /\ Expired
    /\ EnoughForRecovery
    /\ SettleFallback(GasAfterFrame(call.gas - cost, overhead))
    /\ UNCHANGED <<balance, allowance, notes>>

ApproveGateway ==
    /\ Stage("opened")
    /\ ~Expired
    /\ PrimaryShape
    /\ EnoughForRecovery
    /\ allowance' = [allowance EXCEPT ![Withdrawn.token][Pool] = Withdrawn.amount]
    /\ call' = [call EXCEPT !.stage = "approved"]
    /\ UNCHANGED <<balance, notes, pendingDeposits, depositNonces, config, block, epoch>>

CallAllowed ==
    /\ ~paused
    /\ <<Withdrawn.token, Slot.outputToken>> \in callPolicies[Slot.target]
    /\ Withdrawn.amount <= balance[Withdrawn.token][Pool]

(* executeGatewayCall pulls the input and lets the target pull it in turn. *)
ExecutorCalls ==
    /\ Stage("approved")
    /\ Withdrawn.to = Executor
    /\ CallAllowed
    /\ balance' = [balance EXCEPT ![Withdrawn.token][Pool] = @ - Withdrawn.amount,
                                  ![Withdrawn.token][Executor] = @ + Withdrawn.amount]
    /\ allowance' = [allowance EXCEPT ![Withdrawn.token][Pool] = @ - Withdrawn.amount,
                                      ![Withdrawn.token][Executor] = Withdrawn.amount]
    /\ call' = [call EXCEPT !.stage = "target"]
    /\ UNCHANGED <<notes, pendingDeposits, depositNonces, config, block, epoch>>

ForeignCalls ==
    /\ Stage("approved")
    /\ Withdrawn.to \in Foreign
    /\ call' = [call EXCEPT !.stage = "target"]
    /\ UNCHANGED <<ledger, config, block, epoch>>

(* Unknown code at work, or an allowance used when no epoch is settled.    *)
SpendAllowance(t, h, amount) ==
    /\ Idle \/ Stage("target")
    /\ amount <= allowance[t][h]
    /\ amount <= balance[t][h]
    /\ balance' = [balance EXCEPT ![t][h] = @ - amount]
    /\ allowance' = [allowance EXCEPT ![t][h] = @ - amount]
    /\ UNCHANGED <<notes, pendingDeposits, depositNonces, config, block, epoch, call>>

(* Tokens sent to the gateway, or while a target is at work to the pool.   *)
PayIn(t, h) ==
    /\ (Idle /\ h = Executor) \/ Stage("target")
    /\ balance[t][h] < IF h = Pool THEN MaxBalance ELSE MaxStash
    /\ balance' = [balance EXCEPT ![t][h] = @ + 1]
    /\ UNCHANGED <<allowance, notes, pendingDeposits, depositNonces, config, block, epoch, call>>

(* The gateway is called with all but the reserve.                         *)
BurnGas(left) ==
    /\ Stage("target")
    /\ PostReserve <= left /\ left < call.gas
    /\ call' = [call EXCEPT !.gas = left]
    /\ UNCHANGED <<ledger, config, block, epoch>>

InputUntouched ==
    balance[Withdrawn.token][Executor] = call.before.balance[Withdrawn.token][Executor]

(* Mutant: all there is of the output is forwarded.                        *)
OutputWithStash == balance[Slot.outputToken][Executor]

OutputAtExecutor ==
    balance[Slot.outputToken][Executor] - call.before.balance[Slot.outputToken][Executor]

(* The call of the target came back; what it left is sent to the pool.     *)
ExecutorReturns ==
    /\ Stage("target")
    /\ Withdrawn.to = Executor
    /\ InputUntouched
    /\ OutputAtExecutor >= Slot.minOutputAmount
    /\ balance' = [balance EXCEPT ![Slot.outputToken][Executor] = @ - OutputAtExecutor,
                                  ![Slot.outputToken][Pool] = @ + OutputAtExecutor]
    /\ allowance' = [allowance EXCEPT ![Withdrawn.token][Executor] = 0]
    /\ call' = [call EXCEPT !.stage = "returned"]
    /\ UNCHANGED <<notes, pendingDeposits, depositNonces, config, block, epoch>>

ForeignReturns ==
    /\ Stage("target")
    /\ Withdrawn.to \in Foreign
    /\ call' = [call EXCEPT !.stage = "returned"]
    /\ UNCHANGED <<ledger, config, block, epoch>>

InputConsumed ==
    balance[Withdrawn.token][Pool] + Withdrawn.amount
        = call.before.balance[Withdrawn.token][Pool]

OutputDelta == balance[Slot.outputToken][Pool] - call.before.balance[Slot.outputToken][Pool]

OutputInRange == OutputDelta >= Slot.minOutputAmount /\ OutputDelta <= MaxAmount

ResetApproval == allowance' = [allowance EXCEPT ![Withdrawn.token][Pool] = 0]

SettleExecuted(overhead, cost) ==
    /\ Stage("returned")
    /\ EnoughForRecovery
    /\ InputConsumed
    /\ OutputInRange
    /\ ResetApproval
    /\ Record(Withdrawn.to, Slot.outputToken, OutputDelta)
    /\ SlotSettled(Outcome(epoch.cursor, Slot.outputToken, OutputDelta, TRUE),
                   GasAfterFrame(call.gas - cost, overhead))
    /\ UNCHANGED <<balance, notes>>

(* The gateway reverts, which undoes what it and its target did; then the  *)
(* approval is reset.                                                      *)
UndoGatewayCall ==
    /\ balance' = call.before.balance
    /\ allowance' = [call.before.allowance EXCEPT ![Withdrawn.token][Pool] = 0]

SettleFailed(overhead, cost) ==
    /\ \/ Stage("approved") /\ Withdrawn.to = Executor /\ ~CallAllowed
       \/ Stage("target")
    /\ EnoughForRecovery
    /\ UndoGatewayCall
    /\ SettleFallback(GasAfterFrame(call.gas - cost, overhead))
    /\ UNCHANGED notes

(* The frame is left without the gas to end its slot and is undone as a    *)
(* whole; the epoch records the fallback itself.                           *)
Starved ==
    /\ \/ Stage("opened") /\ (Expired \/ PrimaryShape)
       \/ Stage("target")
       \/ Stage("returned")
    /\ ~EnoughForRecovery

RecoveryFunded(kept, overhead) == GasAfterFrame(kept, overhead) > epoch.remaining + PostReserve

SettleStarved(kept, overhead, cost) ==
    /\ Starved
    /\ RecoveryFunded(kept, overhead)
    /\ balance' = call.before.balance
    /\ allowance' = call.before.allowance
    /\ SettleFallback(GasAfterFrame(kept, overhead) - cost)
    /\ UNCHANGED notes

ShortInRecovery ==
    Starved /\ \E kept \in 0..PostReserve, overhead \in Overhead : ~RecoveryFunded(kept, overhead)

RevertShort == (ShortInLoop \/ ShortInRecovery) /\ Revert

RevertShape ==
    /\ \/ Settling /\ Routed /\ HasSlot /\ Slot.expiryBlock = 0
       \/ Stage("opened") /\ ~Expired /\ ~PrimaryShape
    /\ Revert

RevertDelta ==
    /\ Stage("returned")
    /\ EnoughForRecovery
    /\ ~InputConsumed \/ ~OutputInRange
    /\ Revert

-----------------------------------------------------------------------------
(* Between epochs.                                                         *)

(* A user's own deposit, credited.                                         *)
Shield(t) ==
    /\ Idle
    /\ balance[t][Pool] < MaxBalance
    /\ balance' = [balance EXCEPT ![t][Pool] = @ + 1]
    /\ notes' = [notes EXCEPT ![t] = @ + 1]
    /\ UNCHANGED <<allowance, pendingDeposits, depositNonces, config, block, epoch, call>>

(* A deposit epoch turns a redeposit into notes.                           *)
Credit(d) ==
    /\ Idle
    /\ pendingDeposits' = pendingDeposits \ {d}
    /\ notes' = [notes EXCEPT ![d.token] = @ + d.amount]
    /\ UNCHANGED <<balance, allowance, depositNonces, config, block, epoch, call>>

RescueGatewayDeposit(d) ==
    /\ Idle
    /\ d.amount <= balance[d.token][Pool]
    /\ pendingDeposits' = pendingDeposits \ {d}
    /\ balance' = [balance EXCEPT ![d.token][Pool] = @ - d.amount]
    /\ UNCHANGED <<allowance, notes, depositNonces, config, block, epoch, call>>

SetGatewayRoute(g) ==
    /\ Idle
    /\ gatewayRoute' = (gatewayRoute \ {g}) \cup ({g} \ gatewayRoute)
    /\ UNCHANGED <<ledger, callPolicies, paused, block, epoch, call>>

(* By the owner; the guardian may remove policies too.                     *)
SetCallPolicy(x, policy) ==
    /\ Idle
    /\ callPolicies[x] # policy
    /\ callPolicies' = [callPolicies EXCEPT ![x] = policy]
    /\ UNCHANGED <<ledger, gatewayRoute, paused, block, epoch, call>>

SetPaused ==
    /\ Idle
    /\ paused' = ~paused
    /\ UNCHANGED <<ledger, gatewayRoute, callPolicies, block, epoch, call>>

SweepToPool(t) ==
    /\ Idle
    /\ paused
    /\ balance[t][Executor] # 0
    /\ balance[t][Pool] + balance[t][Executor] <= MaxBalance
    /\ balance' = [balance EXCEPT ![t][Pool] = @ + balance[t][Executor], ![t][Executor] = 0]
    /\ UNCHANGED <<allowance, notes, pendingDeposits, depositNonces, config, block, epoch, call>>

Mine ==
    /\ Idle
    /\ block < MaxBlock
    /\ block' = block + 1
    /\ UNCHANGED <<ledger, config, epoch, call>>

-----------------------------------------------------------------------------
(* The specification.                                                      *)

Init ==
    /\ gatewayRoute = {}
    /\ callPolicies = [x \in Target |-> {}]
    /\ paused = FALSE
    /\ balance = [t \in Token |-> [h \in Holder |-> 0]]
    /\ allowance = [t \in Token |-> [h \in Holder |-> 0]]
    /\ notes = [t \in Token |-> 0]
    /\ pendingDeposits = {}
    /\ depositNonces = [g \in Gateway |-> 0]
    /\ block = 1
    /\ epoch = None
    /\ call = None

Begin ==
    \E b \in Batches, spare \in SpareGas :
        SubmitEpoch(b, spare) \/ SimulateGatewayWithdrawals(b, spare)

Loop ==
    \/ \E cost \in 0..PlainReserve : PayPlain(cost)
    \/ OpenSlot
    \/ FinishEpoch \/ FinishSimulation
    \/ RevertMispaired \/ RevertUnfunded \/ RevertNonce

SettleSlot ==
    \E overhead \in Overhead, cost \in 0..PostReserve :
        \/ SettleExpired(overhead, cost)
        \/ SettleExecuted(overhead, cost)
        \/ SettleFailed(overhead, cost)
        \/ \E kept \in 0..PostReserve : SettleStarved(kept, overhead, cost)

Frame ==
    \/ ApproveGateway
    \/ ExecutorCalls \/ ForeignCalls
    \/ ExecutorReturns \/ ForeignReturns
    \/ SettleSlot
    \/ RevertShort \/ RevertShape \/ RevertDelta

Foreigners ==
    \/ \E t \in Token, h \in Holder :
            PayIn(t, h) \/ \E amount \in 1..MaxAmount : SpendAllowance(t, h, amount)
    \/ InSlot /\ \E left \in PostReserve..call.gas : BurnGas(left)

Between ==
    \/ \E t \in Token : Shield(t) \/ SweepToPool(t)
    \/ \E d \in pendingDeposits : Credit(d) \/ RescueGatewayDeposit(d)
    \/ \E g \in Gateway : SetGatewayRoute(g)
    \/ \E x \in Target, policy \in Policies : SetCallPolicy(x, policy)
    \/ SetPaused
    \/ Mine

Next == Begin \/ Loop \/ Frame \/ Foreigners \/ Between

Spec == Init /\ [][Next]_vars

-----------------------------------------------------------------------------
(* Properties.                                                             *)

SumOfDeposits(deposits, t) ==
    MapThenSumSet(LAMBDA d : d.amount, {d \in deposits : d.token = t})

(* Whatever gateways, targets and holders of allowances do, and whether an *)
(* epoch settles, reverts or is only simulated: between transactions the   *)
(* pool has the tokens for all notes and for all redeposits it recorded.   *)
PoolBacked ==
    Idle => \A t \in Token :
        balance[t][Pool] >= notes[t] + SumOfDeposits(pendingDeposits, t)

(* Token t was the input or the output of each gateway call so far.        *)
Traded(t) ==
    \A k \in DOMAIN epoch.outcomes : epoch.outcomes[k].executed =>
        t \in {epoch.withdrawals[k].token, epoch.outcomes[k].token}

(* Each withdrawal that has been dealt with moves exactly its amount: the  *)
(* pool has what it had, less the amounts withdrawn so far, plus what it   *)
(* recorded for the users, so no slot is paid from what belongs to others. *)
(* Nothing a gateway returns is left without an owner, except what it was  *)
(* not asked for: a token that is neither the input nor the output.        *)
ItemsBalance ==
    ~Idle /\ ~InSlot => \A t \in Token :
        LET left == balance[t][Pool]
                        + TotalOf(SubSeq(epoch.withdrawals, 1, epoch.next - 1), t)
            owed == epoch.before.balance[t][Pool]
                        + SumOfDeposits(pendingDeposits \ epoch.before.pendingDeposits, t)
        IN  left >= owed /\ (Traded(t) => left = owed)

(* What was left at the ExternalCallGateway is not the prize of the next   *)
(* call: no slot ends with less of any token there than it began with.     *)
StashKept ==
    ~Idle /\ ~InSlot => \A t \in Token :
        balance[t][Executor] >= epoch.before.balance[t][Executor]

(* The three together: nobody's tokens pay for somebody else's slot, at    *)
(* the pool or at the executor, at any point of a settlement.              *)
FundsKept == PoolBacked /\ ItemsBalance /\ StashKept

(* An epoch that settles has used each of its slots for the withdrawal it  *)
(* was signed for, has paid all the others out, has called no gateway past *)
(* the expiry of its slot and has recorded no less than the signed minimum *)
(* or, where the call failed, the input.                                   *)
SettledAsSigned ==
    Finishing =>
    LET used == {k \in DOMAIN epoch.outcomes : epoch.outcomes[k].slot # 0}
    IN  /\ Len(epoch.outcomes) = Len(epoch.withdrawals)
        /\ {epoch.outcomes[k].slot : k \in used} = DOMAIN epoch.slots
        /\ \A k \in DOMAIN epoch.outcomes :
                k \in used <=> epoch.withdrawals[k].to \in gatewayRoute
        /\ \A k \in used :
                LET out == epoch.outcomes[k]
                    slot == epoch.slots[out.slot]
                IN  /\ slot.index = k
                    /\ \/ /\ out.executed
                          /\ block <= slot.expiryBlock
                          /\ out.token = slot.outputToken
                          /\ out.amount >= slot.minOutputAmount
                       \/ /\ ~out.executed
                          /\ out.token = epoch.withdrawals[k].token
                          /\ out.amount = epoch.withdrawals[k].amount


(* Once an epoch with slots has passed the check of its gas, nothing that  *)
(* gateways burn makes it fail for the lack of gas.                        *)
NeverShortOfGas ==
    ~Idle /\ (InSlot \/ epoch.next > 1) => ~ShortInLoop /\ ~ShortInRecovery
=============================================================================
