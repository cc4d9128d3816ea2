----------------------- MODULE GatewaySettlement_proofs -----------------------
(***************************************************************************)
(* Proofs about GatewaySettlement, for every set of gateways, tokens,      *)
(* targets and batches, and all reserves of gas.                           *)
(*                                                                         *)
(* EpochInv says where an epoch is: what is set aside of its gas, and what *)
(* has become of the withdrawals before the next.  MoneyInv says what the  *)
(* pool and the executor hold, at each stage of the frame of a slot.       *)
(***************************************************************************)
EXTENDS GatewaySettlement, Sums

(* The state is of its kind.                                               *)
Typed ==
    /\ Snapshot \in LedgerState
    /\ gatewayRoute \subseteq Gateway
    /\ block \in Nat
    /\ ~Idle => epoch \in EpochState
    /\ InSlot => ~Idle /\ call \in CallState

(* What the withdrawals that are left, and the slots, were granted.        *)
PlainsLeft ==
    (Len(epoch.withdrawals) - Len(epoch.slots)) - (epoch.next - epoch.cursor)

SlotsLeft == Len(epoch.slots) - (epoch.cursor - 1)

SlotReserve == PostReserve + SelfReserve

Reserved == FinalReserve + PlainsLeft * PlainReserve + SlotsLeft * SlotReserve

Placed ==
    /\ epoch.next >= 1 /\ epoch.next <= Len(epoch.withdrawals) + 1
    /\ epoch.cursor >= 1 /\ epoch.cursor <= Len(epoch.slots) + 1
    /\ Len(epoch.outcomes) = epoch.next - 1
    /\ InSlot => epoch.next <= Len(epoch.withdrawals) /\ Routed /\ HasSlot

(* Outside of a frame there is more gas than what is set aside; a frame    *)
(* leaves what is, and the reserves of its own slot.                       *)
GasKept ==
    /\ Budgeted => epoch.remaining = IF InSlot THEN Reserved - SlotReserve ELSE Reserved
    /\ Budgeted /\ ~InSlot /\ epoch.next > 1 => epoch.gas > epoch.remaining
    /\ InSlot => epoch.gas - call.granted = epoch.remaining + SlotReserve

(* How the k-th withdrawal ended.                                          *)
Executed(k) ==
    LET out == epoch.outcomes[k]
        slot == epoch.slots[out.slot]
    IN  /\ out.executed
        /\ block <= slot.expiryBlock
        /\ out.token = slot.outputToken
        /\ out.amount >= slot.minOutputAmount

FellBack(k) ==
    LET out == epoch.outcomes[k]
    IN  /\ ~out.executed
        /\ out.token = epoch.withdrawals[k].token
        /\ out.amount = epoch.withdrawals[k].amount

EndedAsSigned(k) ==
    LET out == epoch.outcomes[k]
    IN  /\ out.slot < epoch.cursor
        /\ out.slot # 0 <=> epoch.withdrawals[k].to \in gatewayRoute
        /\ out.slot # 0 => epoch.slots[out.slot].index = k /\ (Executed(k) \/ FellBack(k))
        /\ out.slot = 0 => ~out.executed

AllEndedAsSigned ==
    /\ \A k \in 1..epoch.next - 1 : EndedAsSigned(k)
    /\ \A j \in 1..epoch.cursor - 1 : \E k \in 1..epoch.next - 1 : epoch.outcomes[k].slot = j

(* A gateway is called only for a slot that is in time and in shape.       *)
CalledInTime == InSlot /\ call.stage # "opened" => ~Expired /\ PrimaryShape

EpochInv ==
    /\ Typed
    /\ ~Idle => Placed /\ GasKept /\ AllEndedAsSigned /\ CalledInTime

-----------------------------------------------------------------------------
(* The steps of an epoch.                                                  *)

OutcomeState == [slot : Nat, token : Token, amount : Int, executed : BOOLEAN]

(* How a slot that is settled leaves the epoch.                            *)
Settled(outcome, gasLeft) ==
    /\ InSlot
    /\ SlotSettled(outcome, gasLeft)
    /\ outcome \in OutcomeState /\ gasLeft \in Int
    /\ gasLeft > epoch.remaining
    /\ outcome.slot = epoch.cursor
    /\ \/ /\ outcome.executed
          /\ call.stage = "returned"
          /\ outcome.token = Slot.outputToken
          /\ outcome.amount >= Slot.minOutputAmount
       \/ /\ ~outcome.executed
          /\ outcome.token = Withdrawn.token
          /\ outcome.amount = Withdrawn.amount

(* The frame goes on.                                                      *)
FrameMoves(stage, gasLeft) ==
    /\ InSlot
    /\ stage \in {"approved", "target", "returned"} \/ stage = call.stage
    /\ call.stage = "opened" => stage = "opened" \/ (~Expired /\ PrimaryShape)
    /\ gasLeft \in Int
    /\ call' = [call EXCEPT !.stage = stage, !.gas = gasLeft]
    /\ UNCHANGED <<config, block, epoch>>

(* The state of the pool, piece by piece.                                  *)
LEMMA LedgerPieces ==
    Snapshot \in LedgerState <=>
        /\ balance \in [Token -> [Holder -> Int]]
        /\ allowance \in [Token -> [Holder -> Int]]
        /\ notes \in [Token -> Int]
        /\ pendingDeposits \in SUBSET Deposit
        /\ depositNonces \in [Gateway -> Nat]
BY DEF Snapshot, LedgerState

(* What restores an earlier state restores one of the right kind.          *)
LEMMA RestoredTyped ==
    ASSUME NEW s \in LedgerState, RestoreTo(s)
    PROVE  Snapshot' \in LedgerState
BY DEF RestoreTo, Snapshot, LedgerState

(* The next withdrawal and its slot.                                       *)
LEMMA CurrentTyped ==
    ASSUME Typed, ~Idle, epoch.next >= 1, epoch.next <= Len(epoch.withdrawals)
    PROVE  /\ Withdrawn \in Withdrawal
           /\ Withdrawn.token \in Token /\ Withdrawn.amount \in Nat \ {0}
           /\ epoch.cursor >= 1 /\ HasSlot => 
                /\ Slot \in GatewaySlot /\ Slot.outputToken \in Token
                /\ Slot.minOutputAmount \in Nat /\ Slot.expiryBlock \in Nat
<1>1. /\ epoch.withdrawals \in Seq(Withdrawal) /\ epoch.slots \in Seq(GatewaySlot)
      /\ epoch.next \in Nat /\ epoch.cursor \in Nat
    BY DEF Typed, EpochState
<1>2. Withdrawn \in Withdrawal
    BY <1>1 DEF Withdrawn
<1>3. ASSUME epoch.cursor >= 1, HasSlot PROVE Slot \in GatewaySlot
    BY <1>1, <1>3 DEF HasSlot, Slot
<1> QED BY <1>2, <1>3, BoundsAssumption DEF Withdrawal, GatewaySlot

(* The budget of an epoch is what its withdrawals and slots are granted.   *)
LEMMA ReservedAtFirst ==
    ASSUME Typed, NEW b \in Batches, NEW spare \in SpareGas, NEW simulated \in BOOLEAN,
           Open(b, spare, simulated)
    PROVE  /\ epoch' \in EpochState /\ epoch' # None
           /\ Placed' /\ GasKept' /\ AllEndedAsSigned' /\ CalledInTime'
<1>1. /\ b.withdrawals \in Seq(Withdrawal) /\ b.slots \in Seq(GatewaySlot) /\ spare \in Nat
    BY BatchesAssumption, ReservesAssumption
<1>2. /\ epoch' = [withdrawals |-> b.withdrawals, slots |-> b.slots,
                   next |-> 1, cursor |-> 1, outcomes |-> <<>>, simulated |-> simulated,
                   remaining |-> Budget(b.withdrawals, b.slots),
                   gas |-> Budget(b.withdrawals, b.slots) + spare, before |-> Snapshot]
      /\ ~InSlot /\ ~InSlot'
    BY DEF Open, Typed, InSlot
<1>3. Len(b.withdrawals) \in Nat /\ Len(b.slots) \in Nat
    BY <1>1
<1>4. Budget(b.withdrawals, b.slots) \in Int
    BY <1>3, ReservesAssumption DEF Budget
<1>5. epoch' \in EpochState
    BY <1>1, <1>2, <1>4 DEF EpochState, Typed
<1>6. epoch' # None
    BY <1>5, NoneAssumption
<1>7. Placed'
    BY <1>1, <1>2, <1>3 DEF Placed
<1>8. Reserved' = Budget(b.withdrawals, b.slots)
    BY <1>2, <1>3, ReservesAssumption DEF Reserved, PlainsLeft, SlotsLeft, SlotReserve, Budget
<1>9. GasKept'
    BY <1>2, <1>8 DEF GasKept
<1>10. AllEndedAsSigned' /\ CalledInTime'
    BY <1>2 DEF AllEndedAsSigned, CalledInTime
<1> QED BY <1>5, <1>6, <1>7, <1>9, <1>10

(* A plain withdrawal uses no more than was set aside for one.             *)
LEMMA PlainKeeps ==
    ASSUME EpochInv, NEW cost \in 0..PlainReserve, PayPlain(cost)
    PROVE  /\ epoch' \in EpochState /\ epoch' # None
           /\ Placed' /\ GasKept' /\ AllEndedAsSigned' /\ CalledInTime'
<1> DEFINE o == Outcome(0, Withdrawn.token, 0, FALSE)
<1>1. /\ ~Idle /\ ~InSlot /\ epoch.next <= Len(epoch.withdrawals) /\ ~Routed
      /\ epoch \in EpochState /\ Placed /\ GasKept /\ AllEndedAsSigned
    BY DEF PayPlain, Settling, EpochInv, Typed
<1>2. PICK rest, gasLeft :
            /\ epoch' = [epoch EXCEPT !.next = epoch.next + 1, !.remaining = rest, !.gas = gasLeft,
                                      !.outcomes = Append(epoch.outcomes, o)]
            /\ rest = IF Budgeted THEN epoch.remaining - PlainReserve ELSE epoch.remaining
            /\ gasLeft = IF Budgeted THEN epoch.gas - cost ELSE epoch.gas
    BY <1>1 DEF PayPlain
<1>3. /\ epoch.withdrawals \in Seq(Withdrawal) /\ epoch.slots \in Seq(GatewaySlot)
      /\ epoch.next \in Nat /\ epoch.cursor \in Nat /\ epoch.remaining \in Int /\ epoch.gas \in Int
      /\ epoch.outcomes \in Seq(OutcomeState)
    BY <1>1 DEF EpochState, OutcomeState
<1>4. o \in OutcomeState /\ rest \in Int /\ gasLeft \in Int
    <2>1. Withdrawn.token \in Token
        BY <1>1, CurrentTyped DEF EpochInv, Placed
    <2>2. o \in OutcomeState
        BY <2>1 DEF OutcomeState, Outcome
    <2>3. rest \in Int /\ gasLeft \in Int
        BY <1>2, <1>3, ReservesAssumption
    <2> QED BY <2>2, <2>3
<1> HIDE DEF o
<1>5. epoch' \in EpochState
    <2>1. Append(epoch.outcomes, o) \in Seq(OutcomeState) /\ epoch.next + 1 \in Nat
        BY <1>3, <1>4
    <2> QED BY <1>1, <1>2, <1>4, <2>1 DEF EpochState, OutcomeState
<1>6. epoch' # None
    BY <1>5, NoneAssumption
<1>7. /\ epoch'.withdrawals = epoch.withdrawals /\ epoch'.slots = epoch.slots
      /\ epoch'.next = epoch.next + 1 /\ epoch'.cursor = epoch.cursor
      /\ epoch'.remaining = rest /\ epoch'.gas = gasLeft
      /\ epoch'.outcomes = Append(epoch.outcomes, o)
    BY <1>1, <1>2 DEF EpochState
<1>8. ~InSlot' /\ block' = block /\ gatewayRoute' = gatewayRoute
    BY <1>1 DEF PayPlain, InSlot, config
<1>9. Len(epoch.withdrawals) \in Nat /\ Len(epoch.slots) \in Nat
    BY <1>3
<1>10. Placed'
    <2>1. Len(Append(epoch.outcomes, o)) = Len(epoch.outcomes) + 1
        BY <1>3, <1>4
    <2> QED BY SMTT(30), <1>1, <1>3, <1>7, <1>8, <1>9, <2>1 DEF Placed
<1>11. Reserved' = Reserved - PlainReserve
    <2>1. PlainsLeft' = PlainsLeft - 1 /\ SlotsLeft' = SlotsLeft
          /\ PlainsLeft \in Int /\ SlotsLeft \in Int
        <3>1. PICK w, s, n, c : /\ w = Len(epoch.withdrawals) /\ s = Len(epoch.slots)
                                /\ n = epoch.next /\ c = epoch.cursor
            OBVIOUS
        <3>2. w \in Int /\ s \in Int /\ n \in Int /\ c \in Int
            BY <1>3, <1>9, <3>1
        <3>3. PlainsLeft = (w - s) - (n - c) /\ SlotsLeft = s - (c - 1)
            BY <3>1 DEF PlainsLeft, SlotsLeft
        <3>4. PlainsLeft' = (w - s) - ((n + 1) - c) /\ SlotsLeft' = s - (c - 1)
            BY <1>7, <3>1 DEF PlainsLeft, SlotsLeft
        <3> QED BY <3>2, <3>3, <3>4
    <2>2. (PlainsLeft - 1) * PlainReserve = PlainsLeft * PlainReserve - PlainReserve
        BY <2>1, ReservesAssumption
    <2>3. SlotsLeft * SlotReserve \in Int /\ PlainsLeft * PlainReserve \in Int
        BY <2>1, ReservesAssumption DEF SlotReserve
    <2>4. SlotReserve' = SlotReserve
        BY DEF SlotReserve
    <2> QED BY <2>1, <2>2, <2>3, <2>4, ReservesAssumption DEF Reserved
<1>12. GasKept'
    <2>1. Budgeted' = Budgeted
        BY <1>7 DEF Budgeted
    <2>2. ASSUME Budgeted PROVE rest = Reserved' /\ gasLeft > rest
        <3>1. epoch.remaining = Reserved /\ epoch.gas > epoch.remaining
            BY <1>1, <2>2 DEF GasKept, PayPlain
        <3> QED BY <1>2, <1>3, <1>11, <2>2, <3>1, ReservesAssumption
    <2> QED BY <1>7, <1>8, <2>1, <2>2 DEF GasKept
<1>13. AllEndedAsSigned'
    <2>1. /\ \A k \in 1..epoch.next - 1 : epoch'.outcomes[k] = epoch.outcomes[k]
          /\ epoch'.outcomes[epoch.next] = o
        <3>1. Len(epoch.outcomes) = epoch.next - 1
            BY <1>1 DEF Placed
        <3> QED BY SMTT(30), <1>3, <1>4, <1>7, <3>1
    <2>2. ASSUME NEW k \in 1..epoch.next - 1 PROVE EndedAsSigned(k)'
        BY ZenonT(30), <1>1, <1>7, <1>8, <2>1 DEF AllEndedAsSigned, EndedAsSigned, Executed, FellBack
    <2> PICK last : last = epoch.next
        OBVIOUS
    <2>3. EndedAsSigned(last)'
        <3>1. o.slot = 0 /\ o.executed = FALSE
            BY DEF Outcome, o
        <3>2. epoch.withdrawals[epoch.next].to \notin gatewayRoute /\ 0 < epoch.cursor
            BY <1>1, <1>3 DEF Routed, Withdrawn, Placed
        <3> QED BY <1>7, <1>8, <2>1, <3>1, <3>2 DEF EndedAsSigned
    <2>4. \A k \in 1..epoch.next : k \in 1..epoch.next - 1 \/ k = epoch.next
        BY <1>3
    <2>5. \A k \in 1..epoch'.next - 1 : EndedAsSigned(k)'
        BY <1>3, <1>7, <2>2, <2>3, <2>4
    <2>6. ASSUME NEW j \in 1..epoch.cursor - 1
          PROVE  \E k \in 1..epoch'.next - 1 : epoch'.outcomes[k].slot = j
        <3>1. PICK k \in 1..epoch.next - 1 : epoch.outcomes[k].slot = j
            BY <1>1 DEF AllEndedAsSigned
        <3>2. k \in 1..epoch'.next - 1
            BY <1>3, <1>7
        <3> QED BY <2>1, <3>1, <3>2
    <2> QED BY <1>7, <2>5, <2>6 DEF AllEndedAsSigned
<1>14. CalledInTime'
    BY <1>8 DEF CalledInTime
<1> QED BY <1>5, <1>6, <1>10, <1>12, <1>13, <1>14

(* The frame of a slot gets what is not set aside.                         *)
LEMMA OpenKeeps ==
    ASSUME EpochInv, OpenSlot
    PROVE  /\ epoch' \in EpochState /\ epoch' # None /\ call' \in CallState
           /\ Placed' /\ GasKept' /\ AllEndedAsSigned' /\ CalledInTime'
<1>1. /\ ~Idle /\ ~InSlot /\ epoch.next <= Len(epoch.withdrawals) /\ Routed /\ HasSlot
      /\ epoch \in EpochState /\ Snapshot \in LedgerState
      /\ Placed /\ GasKept /\ AllEndedAsSigned
    BY DEF OpenSlot, Settling, EpochInv, Typed
<1>2. PICK rest, snapshot :
            /\ epoch' = [epoch EXCEPT !.remaining = rest]
            /\ rest = epoch.remaining - SlotReserve
            /\ snapshot = Snapshot
    BY <1>1 DEF OpenSlot, SlotReserve
<1>3. /\ epoch.remaining \in Int /\ epoch.gas \in Int /\ SlotReserve \in Int
    BY <1>1, ReservesAssumption DEF EpochState, SlotReserve
<1>4. epoch' \in EpochState
    <2>1. rest \in Int
        BY <1>2, <1>3
    <2> QED BY <1>1, <1>2, <2>1 DEF EpochState
<1>5. epoch' # None
    BY <1>4, NoneAssumption
<1>6. /\ epoch'.withdrawals = epoch.withdrawals /\ epoch'.slots = epoch.slots
      /\ epoch'.next = epoch.next /\ epoch'.cursor = epoch.cursor
      /\ epoch'.remaining = rest /\ epoch'.gas = epoch.gas
      /\ epoch'.outcomes = epoch.outcomes
    BY <1>1, <1>2 DEF EpochState
<1>7. /\ call' = [stage |-> "opened", granted |-> epoch.gas - epoch.remaining,
                  gas |-> epoch.gas - epoch.remaining, before |-> snapshot]
      /\ block' = block /\ gatewayRoute' = gatewayRoute
    BY <1>2 DEF OpenSlot, IsolatedGas, config
<1>8. call' \in CallState
    BY <1>1, <1>2, <1>3, <1>7 DEF CallState
<1>9. InSlot'
    BY <1>8, NoneAssumption DEF InSlot
<1>10. Placed'
    BY <1>1, <1>6, <1>7 DEF Placed, Routed, HasSlot, Withdrawn, Slot
<1>11. GasKept'
    <2>1. Reserved' = Reserved /\ SlotReserve' = SlotReserve /\ Budgeted' = Budgeted
        BY <1>6 DEF Reserved, PlainsLeft, SlotsLeft, SlotReserve, Budgeted
    <2>2. Budgeted => epoch.remaining = Reserved
        BY <1>1 DEF GasKept
    <2>3. epoch'.gas - call'.granted = rest + SlotReserve
        BY SMTT(30), <1>2, <1>3, <1>6, <1>7
    <2> QED BY <1>2, <1>6, <1>9, <2>1, <2>2, <2>3 DEF GasKept
<1>12. AllEndedAsSigned'
    BY <1>1, <1>6, <1>7 DEF AllEndedAsSigned, EndedAsSigned, Executed, FellBack
<1>13. CalledInTime'
    BY <1>7 DEF CalledInTime
<1> QED BY <1>4, <1>5, <1>8, <1>10, <1>11, <1>12, <1>13

(* A slot that is settled is settled as it was signed, and leaves what is  *)
(* set aside for the rest.                                                 *)
LEMMA SettledKeeps ==
    ASSUME EpochInv, NEW o, NEW gasLeft, Settled(o, gasLeft)
    PROVE  /\ epoch' \in EpochState /\ epoch' # None
           /\ Placed' /\ GasKept' /\ AllEndedAsSigned' /\ CalledInTime'
<1>1. /\ ~Idle /\ InSlot /\ epoch.next <= Len(epoch.withdrawals) /\ Routed /\ HasSlot
      /\ epoch \in EpochState
      /\ Placed /\ GasKept /\ AllEndedAsSigned /\ CalledInTime
    BY DEF Settled, EpochInv, Typed, Placed
<1>2. epoch' = [epoch EXCEPT !.next = epoch.next + 1, !.cursor = epoch.cursor + 1,
                             !.gas = gasLeft, !.outcomes = Append(epoch.outcomes, o)]
    BY <1>1 DEF Settled, SlotSettled
<1>3. /\ epoch.withdrawals \in Seq(Withdrawal) /\ epoch.slots \in Seq(GatewaySlot)
      /\ epoch.next \in Nat /\ epoch.cursor \in Nat /\ epoch.remaining \in Int /\ epoch.gas \in Int
      /\ epoch.outcomes \in Seq(OutcomeState)
    BY <1>1 DEF EpochState, OutcomeState
<1>4. o \in OutcomeState /\ gasLeft \in Int
    BY DEF Settled
<1>5. epoch' \in EpochState
    <2>1. Append(epoch.outcomes, o) \in Seq(OutcomeState) /\ epoch.next + 1 \in Nat
          /\ epoch.cursor + 1 \in Nat
        BY <1>3, <1>4
    <2> QED BY <1>1, <1>2, <1>4, <2>1 DEF EpochState, OutcomeState
<1>6. epoch' # None
    BY <1>5, NoneAssumption
<1>7. /\ epoch'.withdrawals = epoch.withdrawals /\ epoch'.slots = epoch.slots
      /\ epoch'.next = epoch.next + 1 /\ epoch'.cursor = epoch.cursor + 1
      /\ epoch'.remaining = epoch.remaining /\ epoch'.gas = gasLeft
      /\ epoch'.outcomes = Append(epoch.outcomes, o)
    BY <1>1, <1>2 DEF EpochState
<1>8. ~InSlot' /\ block' = block /\ gatewayRoute' = gatewayRoute
    BY DEF Settled, SlotSettled, InSlot, config
<1>9. Len(epoch.withdrawals) \in Nat /\ Len(epoch.slots) \in Nat
    BY <1>3
<1>10. Placed'
    <2>1. Len(Append(epoch.outcomes, o)) = Len(epoch.outcomes) + 1
        BY <1>3, <1>4
    <2>2. epoch.cursor <= Len(epoch.slots)
        BY <1>1 DEF HasSlot
    <2>3. Len(epoch'.outcomes) = epoch'.next - 1
        BY <1>1, <1>3, <1>7, <2>1 DEF Placed
    <2>4. epoch'.next >= 1 /\ epoch'.next <= Len(epoch'.withdrawals) + 1
        BY <1>1, <1>3, <1>7, <1>9
    <2>5. epoch'.cursor >= 1 /\ epoch'.cursor <= Len(epoch'.slots) + 1
        BY <1>3, <1>7, <1>9, <2>2
    <2> QED BY <1>8, <2>3, <2>4, <2>5 DEF Placed
<1>11. Reserved' = Reserved - SlotReserve
    <2>1. PlainsLeft' = PlainsLeft /\ SlotsLeft' = SlotsLeft - 1
          /\ PlainsLeft \in Int /\ SlotsLeft \in Int
        <3>1. PICK w, s, n, c : /\ w = Len(epoch.withdrawals) /\ s = Len(epoch.slots)
                                /\ n = epoch.next /\ c = epoch.cursor
            OBVIOUS
        <3>2. w \in Int /\ s \in Int /\ n \in Int /\ c \in Int
            BY <1>3, <1>9, <3>1
        <3>3. PlainsLeft = (w - s) - (n - c) /\ SlotsLeft = s - (c - 1)
            BY <3>1 DEF PlainsLeft, SlotsLeft
        <3>4. PlainsLeft' = (w - s) - ((n + 1) - (c + 1)) /\ SlotsLeft' = s - ((c + 1) - 1)
            BY <1>7, <3>1 DEF PlainsLeft, SlotsLeft
        <3> QED BY <3>2, <3>3, <3>4
    <2>2. SlotReserve \in Int
        BY ReservesAssumption DEF SlotReserve
    <2>3. (SlotsLeft - 1) * SlotReserve = SlotsLeft * SlotReserve - SlotReserve
        BY <2>1, <2>2
    <2>4. SlotsLeft * SlotReserve \in Int /\ PlainsLeft * PlainReserve \in Int
        BY <2>1, <2>2, ReservesAssumption
    <2>5. SlotReserve' = SlotReserve
        BY DEF SlotReserve
    <2> QED BY <2>1, <2>2, <2>3, <2>4, <2>5, ReservesAssumption DEF Reserved
<1>12. GasKept'
    <2>1. Budgeted' = Budgeted
        BY <1>7 DEF Budgeted
    <2>2. Budgeted => epoch.remaining = Reserved'
        BY <1>1, <1>11 DEF GasKept
    <2>3. gasLeft > epoch.remaining
        BY DEF Settled
    <2> QED BY <1>7, <1>8, <2>1, <2>2, <2>3 DEF GasKept
<1>13. AllEndedAsSigned'
    <2>1. /\ \A k \in 1..epoch.next - 1 : epoch'.outcomes[k] = epoch.outcomes[k]
          /\ epoch'.outcomes[epoch.next] = o
        <3>1. Len(epoch.outcomes) = epoch.next - 1
            BY <1>1 DEF Placed
        <3> QED BY SMTT(30), <1>3, <1>4, <1>7, <3>1
    <2>2. ASSUME NEW k \in 1..epoch.next - 1 PROVE EndedAsSigned(k)'
        <3>1. EndedAsSigned(k) /\ epoch.outcomes[k] \in OutcomeState
            BY <1>1, <1>3 DEF AllEndedAsSigned, Placed
        <3>2. epoch.outcomes[k].slot \in Nat
            BY <3>1 DEF OutcomeState
        <3>3. (Executed(k)' <=> Executed(k)) /\ (FellBack(k)' <=> FellBack(k))
            BY <1>7, <1>8, <2>1 DEF Executed, FellBack
        <3>4. epoch.outcomes[k].slot < epoch'.cursor
            BY <1>3, <1>7, <3>1, <3>2 DEF EndedAsSigned
        <3> QED BY <1>7, <1>8, <2>1, <3>1, <3>3, <3>4 DEF EndedAsSigned
    <2> PICK last : last = epoch.next
        OBVIOUS
    <2>3. EndedAsSigned(last)'
        <3>1. o.slot = epoch.cursor /\ epoch.cursor # 0 /\ epoch.cursor < epoch.cursor + 1
            BY <1>1, <1>3 DEF Settled, Placed
        <3>2. epoch.withdrawals[last].to \in gatewayRoute /\ epoch.slots[o.slot].index = last
            BY <1>1, <3>1 DEF Routed, Withdrawn, HasSlot, Slot
        <3>3. Executed(last)' \/ FellBack(last)'
            <4>1. CASE o.executed
                <5>1. /\ call.stage = "returned" /\ o.token = Slot.outputToken
                      /\ o.amount >= Slot.minOutputAmount
                    BY <4>1 DEF Settled
                <5>2. block <= Slot.expiryBlock
                    <6>1. ~Expired
                        BY <1>1, <5>1 DEF CalledInTime
                    <6>2. block \in Nat /\ Slot.expiryBlock \in Nat
                        BY <1>1, CurrentTyped DEF EpochInv, Typed, Placed
                    <6> QED BY <6>1, <6>2 DEF Expired
                <5> QED BY <1>7, <1>8, <2>1, <3>1, <4>1, <5>1, <5>2 DEF Executed, Slot
            <4>2. CASE ~o.executed
                BY <1>7, <2>1, <4>2 DEF Settled, FellBack, Withdrawn
            <4> QED BY <4>1, <4>2
        <3> QED BY <1>7, <1>8, <2>1, <3>1, <3>2, <3>3 DEF EndedAsSigned
    <2>4. \A k \in 1..epoch.next : k \in 1..epoch.next - 1 \/ k = last
        BY <1>3
    <2>5. \A k \in 1..epoch'.next - 1 : EndedAsSigned(k)'
        BY <1>3, <1>7, <2>2, <2>3, <2>4
    <2>6. ASSUME NEW j \in 1..epoch'.cursor - 1
          PROVE  \E k \in 1..epoch'.next - 1 : epoch'.outcomes[k].slot = j
        <3>1. CASE j = epoch.cursor
            <4>1. epoch.next \in 1..epoch'.next - 1
                BY <1>1, <1>3, <1>7 DEF Placed
            <4>2. epoch'.outcomes[epoch.next].slot = j
                BY <2>1, <3>1 DEF Settled
            <4> QED BY <4>1, <4>2
        <3>2. CASE j # epoch.cursor
            <4>1. j \in 1..epoch.cursor - 1
                BY <1>3, <1>7, <3>2
            <4>2. PICK k \in 1..epoch.next - 1 : epoch.outcomes[k].slot = j
                BY <1>1, <4>1 DEF AllEndedAsSigned
            <4>3. k \in 1..epoch'.next - 1
                BY <1>3, <1>7
            <4> QED BY <2>1, <4>2, <4>3
        <3> QED BY <3>1, <3>2
    <2> QED BY <2>5, <2>6 DEF AllEndedAsSigned
<1>14. CalledInTime'
    BY <1>8 DEF CalledInTime
<1> QED BY <1>5, <1>6, <1>10, <1>12, <1>13, <1>14

(* A frame that goes on takes nothing of what is set aside.                *)
LEMMA FrameKeeps ==
    ASSUME EpochInv, NEW stage, NEW gasLeft, FrameMoves(stage, gasLeft)
    PROVE  /\ call' \in CallState
           /\ Placed' /\ GasKept' /\ AllEndedAsSigned' /\ CalledInTime'
<1>1. /\ ~Idle /\ InSlot /\ call \in CallState
      /\ Placed /\ GasKept /\ AllEndedAsSigned /\ CalledInTime
    BY DEF FrameMoves, EpochInv, Typed
<1>2. /\ call' = [call EXCEPT !.stage = stage, !.gas = gasLeft] /\ gasLeft \in Int
      /\ epoch' = epoch /\ block' = block /\ gatewayRoute' = gatewayRoute
    BY DEF FrameMoves, config
<1>3. stage \in {"opened", "approved", "target", "returned"}
    BY <1>1 DEF FrameMoves, CallState
<1>4. call' \in CallState
    BY <1>1, <1>2, <1>3 DEF CallState
<1>5. call'.stage = stage /\ call'.granted = call.granted
    BY <1>1, <1>2 DEF CallState
<1>6. InSlot'
    BY <1>4, NoneAssumption DEF InSlot
<1>7. Placed'
    BY <1>1, <1>2 DEF Placed, Routed, HasSlot, Withdrawn, Slot
<1>8. GasKept'
    <2>1. Reserved' = Reserved /\ SlotReserve' = SlotReserve /\ Budgeted' = Budgeted
        BY <1>2 DEF Reserved, PlainsLeft, SlotsLeft, SlotReserve, Budgeted
    <2> QED BY <1>1, <1>2, <1>5, <1>6, <2>1 DEF GasKept
<1>9. AllEndedAsSigned'
    BY <1>1, <1>2 DEF AllEndedAsSigned, EndedAsSigned, Executed, FellBack
<1>10. CalledInTime'
    <2>1. Expired' = Expired /\ PrimaryShape' = PrimaryShape
        BY <1>2 DEF Expired, PrimaryShape, Slot, Withdrawn
    <2>2. stage # "opened" => ~Expired /\ PrimaryShape
        BY <1>1 DEF FrameMoves, CalledInTime
    <2> QED BY <1>5, <2>1, <2>2 DEF CalledInTime
<1> QED BY <1>4, <1>7, <1>8, <1>9, <1>10

-----------------------------------------------------------------------------
(* What each step is to the epoch.                                         *)

(* The frame leaves the reserves of its slot, less what it cost to enter.  *)
LEMMA GasLeft ==
    ASSUME EpochInv, InSlot, NEW overhead \in Overhead, NEW kept \in Int
    PROVE  /\ GasAfterFrame(kept, overhead) \in Int
           /\ GasAfterFrame(kept, overhead) > epoch.remaining + PostReserve + kept
<1>1. /\ epoch.gas \in Int /\ epoch.remaining \in Int /\ call.granted \in Int
      /\ epoch.gas - call.granted = epoch.remaining + PostReserve + SelfReserve
    <2>1. epoch \in EpochState /\ call \in CallState /\ GasKept
        BY DEF EpochInv, Typed
    <2> QED BY <2>1, ReservesAssumption DEF EpochState, CallState, GasKept, SlotReserve
<1>2. overhead \in Int /\ overhead < SelfReserve /\ PostReserve \in Int /\ SelfReserve \in Int
    BY ReservesAssumption DEF Overhead
<1> QED BY <1>1, <1>2 DEF GasAfterFrame

(* A frame that ends its slot does so with its own gas.                    *)
LEMMA EndedWithGas ==
    ASSUME EpochInv, InSlot, EnoughForRecovery, NEW overhead \in Overhead, NEW cost \in 0..PostReserve
    PROVE  /\ GasAfterFrame(call.gas - cost, overhead) \in Int
           /\ GasAfterFrame(call.gas - cost, overhead) > epoch.remaining
<1>1. call.gas \in Int /\ epoch.remaining \in Int /\ PostReserve \in Int
    BY ReservesAssumption DEF EpochInv, Typed, CallState, EpochState
<1>2. call.gas - cost \in Int /\ call.gas - cost > 0
    BY <1>1 DEF EnoughForRecovery
<1>3. PICK left : left = GasAfterFrame(call.gas - cost, overhead)
    OBVIOUS
<1>4. left \in Int /\ left > epoch.remaining + PostReserve + (call.gas - cost)
    BY <1>2, <1>3, GasLeft
<1> QED BY <1>1, <1>2, <1>3, <1>4, ReservesAssumption

(* A slot in its frame.                                                    *)
LEMMA SlotInFrame ==
    ASSUME EpochInv, InSlot
    PROVE  /\ ~Idle /\ epoch \in EpochState /\ call \in CallState
           /\ Withdrawn.token \in Token /\ Withdrawn.amount \in Nat \ {0} /\ Withdrawn.to \in Gateway
           /\ epoch.cursor \in Nat \ {0}
           /\ Slot.outputToken \in Token /\ Slot.minOutputAmount \in Nat /\ Slot.expiryBlock \in Nat
           /\ HasSlot /\ Routed /\ Budgeted
<1>1. ~Idle /\ epoch \in EpochState /\ call \in CallState /\ Placed
    BY DEF EpochInv, Typed
<1>2. /\ epoch.next >= 1 /\ epoch.next <= Len(epoch.withdrawals)
      /\ epoch.cursor >= 1 /\ HasSlot /\ Routed
    BY <1>1 DEF Placed
<1>3. Withdrawn.to \in Gateway
    BY <1>2 DEF Routed, EpochInv, Typed
<1>4. epoch.cursor \in Nat \ {0}
    BY <1>1, <1>2 DEF EpochState
<1>5. Budgeted
    <2>1. Len(<<>>) = 0
        OBVIOUS
    <2> QED BY <1>2, <1>4, <2>1 DEF HasSlot, Budgeted
<1> QED BY <1>1, <1>2, <1>3, <1>4, <1>5, CurrentTyped DEF EpochInv

(* The fallback settles.                                                   *)
LEMMA FallbackSettles ==
    ASSUME EpochInv, InSlot, NEW gasLeft \in Int, gasLeft > epoch.remaining, SettleFallback(gasLeft)
    PROVE  Settled(Outcome(epoch.cursor, Withdrawn.token, Withdrawn.amount, FALSE), gasLeft)
<1>1. Outcome(epoch.cursor, Withdrawn.token, Withdrawn.amount, FALSE) \in OutcomeState
    BY SlotInFrame DEF Outcome, OutcomeState
<1>2. SlotSettled(Outcome(epoch.cursor, Withdrawn.token, Withdrawn.amount, FALSE), gasLeft)
    BY DEF SettleFallback
<1>3. PICK o : o = Outcome(epoch.cursor, Withdrawn.token, Withdrawn.amount, FALSE)
    OBVIOUS
<1>4. o.slot = epoch.cursor /\ o.token = Withdrawn.token /\ o.amount = Withdrawn.amount
      /\ o.executed = FALSE
    BY <1>3 DEF Outcome
<1>5. Settled(o, gasLeft)
    BY <1>1, <1>2, <1>3, <1>4 DEF Settled
<1> QED BY <1>3, <1>5

(* What came back is a number.                                             *)
LEMMA DeltaTyped ==
    ASSUME EpochInv, InSlot
    PROVE  OutputDelta \in Int /\ (OutputInRange => OutputDelta \in Nat)
<1>1. Pool \in Holder
    BY DEF Holder
<1>2. balance[Slot.outputToken][Pool] \in Int /\ call.before.balance[Slot.outputToken][Pool] \in Int
    BY <1>1, SlotInFrame, LedgerPieces DEF EpochInv, Typed, CallState, LedgerState
<1>3. OutputDelta \in Int
    BY <1>2 DEF OutputDelta
<1> QED BY <1>3, SlotInFrame DEF OutputInRange

(* All four ways to settle a slot do.                                      *)
LEMMA SettleSlotSettles ==
    ASSUME EpochInv, SettleSlot
    PROVE  \E o, gasLeft : Settled(o, gasLeft)
<1> PICK overhead \in Overhead, cost \in 0..PostReserve :
        \/ SettleExpired(overhead, cost)
        \/ SettleExecuted(overhead, cost)
        \/ SettleFailed(overhead, cost)
        \/ \E kept \in 0..PostReserve : SettleStarved(kept, overhead, cost)
    BY DEF SettleSlot
<1> PICK left : left = GasAfterFrame(call.gas - cost, overhead)
    OBVIOUS
<1>1. CASE SettleExpired(overhead, cost)
    <2>1. InSlot /\ EnoughForRecovery /\ SettleFallback(left)
        BY <1>1 DEF SettleExpired, Stage
    <2> QED BY <2>1, EndedWithGas, FallbackSettles
<1>2. CASE SettleExecuted(overhead, cost)
    <2> PICK delta : delta = OutputDelta
        OBVIOUS
    <2> PICK o : o = Outcome(epoch.cursor, Slot.outputToken, delta, TRUE)
        OBVIOUS
    <2>1. /\ InSlot /\ call.stage = "returned" /\ EnoughForRecovery /\ OutputInRange
          /\ SlotSettled(o, left)
        BY <1>2 DEF SettleExecuted, Stage
    <2>2. delta \in Int /\ delta >= Slot.minOutputAmount
        BY <2>1, DeltaTyped DEF OutputInRange
    <2>3. o \in OutcomeState
        BY <2>1, <2>2, SlotInFrame DEF Outcome, OutcomeState
    <2>4. left \in Int /\ left > epoch.remaining
        BY <2>1, EndedWithGas
    <2>5. o.slot = epoch.cursor /\ o.token = Slot.outputToken /\ o.amount = delta /\ o.executed = TRUE
        BY DEF Outcome
    <2>6. Settled(o, left)
        BY <2>1, <2>2, <2>3, <2>4, <2>5 DEF Settled
    <2> QED BY <2>6
<1>3. CASE SettleFailed(overhead, cost)
    <2>1. InSlot /\ EnoughForRecovery /\ SettleFallback(left)
        BY <1>3 DEF SettleFailed, Stage
    <2> QED BY <2>1, EndedWithGas, FallbackSettles
<1>4. CASE \E kept \in 0..PostReserve : SettleStarved(kept, overhead, cost)
    <2> PICK kept \in 0..PostReserve : SettleStarved(kept, overhead, cost)
        BY <1>4
    <2> PICK rest : rest = GasAfterFrame(kept, overhead)
        OBVIOUS
    <2>1. InSlot /\ RecoveryFunded(kept, overhead) /\ SettleFallback(rest - cost)
        BY DEF SettleStarved, Starved, Stage
    <2>2. rest \in Int
        BY <2>1, GasLeft
    <2>3. epoch.remaining \in Int
        BY <2>1, SlotInFrame DEF EpochState
    <2>4. rest - cost \in Int /\ rest - cost > epoch.remaining
        BY <2>1, <2>2, <2>3, ReservesAssumption DEF RecoveryFunded
    <2> QED BY <2>1, <2>4, FallbackSettles
<1> QED BY <1>1, <1>2, <1>3, <1>4

(* Each step begins an epoch, ends one, deals with a withdrawal, opens a   *)
(* frame, goes on in it, or leaves both as they are.                       *)
LEMMA EpochSteps ==
    ASSUME EpochInv, [Next]_vars
    PROVE  \/ UNCHANGED <<epoch, call>> /\ (Idle \/ UNCHANGED <<gatewayRoute, block>>)
           \/ \E b \in Batches, spare \in SpareGas, simulated \in BOOLEAN : Open(b, spare, simulated)
           \/ \E cost \in 0..PlainReserve : PayPlain(cost)
           \/ OpenSlot
           \/ \E o, gasLeft : Settled(o, gasLeft)
           \/ \E stage, gasLeft : FrameMoves(stage, gasLeft)
           \/ epoch' = None /\ call' = None
<1>1. CASE Begin
    <2>1. PICK b \in Batches, spare \in SpareGas :
                SubmitEpoch(b, spare) \/ SimulateGatewayWithdrawals(b, spare)
        BY <1>1 DEF Begin
    <2>2. Open(b, spare, FALSE) \/ Open(b, spare, TRUE)
        BY <2>1 DEF SubmitEpoch, SimulateGatewayWithdrawals
    <2> QED BY <2>2
<1>2. CASE Loop
    <2>1. CASE FinishEpoch
        BY <2>1 DEF FinishEpoch, Finishing, InSlot
    <2>2. CASE FinishSimulation \/ RevertMispaired \/ RevertUnfunded \/ RevertNonce
        BY <2>2 DEF FinishSimulation, RevertMispaired, RevertUnfunded, RevertNonce, Revert
    <2> QED BY <1>2, <2>1, <2>2 DEF Loop
<1>3. CASE Frame
    <2>1. ASSUME NEW stage \in {"approved", "target", "returned"}, InSlot,
                 call' = [call EXCEPT !.stage = stage], UNCHANGED <<config, block, epoch>>,
                 call.stage = "opened" => ~Expired /\ PrimaryShape
          PROVE  FrameMoves(stage, call.gas)
        <3>1. call \in CallState
            BY <2>1, SlotInFrame
        <3> QED BY <2>1, <3>1 DEF FrameMoves, CallState
    <2>2. CASE ApproveGateway
        BY <2>1, <2>2 DEF ApproveGateway, Stage
    <2>3. CASE ExecutorCalls \/ ForeignCalls
        BY <2>1, <2>3 DEF ExecutorCalls, ForeignCalls, Stage
    <2>4. CASE ExecutorReturns \/ ForeignReturns
        BY <2>1, <2>4 DEF ExecutorReturns, ForeignReturns, Stage
    <2>5. CASE SettleSlot
        BY <2>5, SettleSlotSettles
    <2>6. CASE RevertShort \/ RevertShape \/ RevertDelta
        BY <2>6 DEF RevertShort, RevertShape, RevertDelta, Revert
    <2> QED BY <1>3, <2>2, <2>3, <2>4, <2>5, <2>6 DEF Frame
<1>4. CASE Foreigners
    <2>1. ASSUME NEW left \in PostReserve..call.gas, InSlot, BurnGas(left)
          PROVE  \E stage, gasLeft : FrameMoves(stage, gasLeft)
        <3>1. call \in CallState /\ call.stage = "target"
            BY <2>1, SlotInFrame DEF BurnGas, Stage
        <3>2. left \in Int
            OBVIOUS
        <3>3. FrameMoves("target", left)
            BY <2>1, <3>1, <3>2 DEF FrameMoves, BurnGas, CallState
        <3> QED BY <3>3
    <2>2. ASSUME NEW t \in Token, NEW h \in Holder,
                 PayIn(t, h) \/ \E amount \in 1..MaxAmount : SpendAllowance(t, h, amount)
          PROVE  UNCHANGED <<epoch, call, gatewayRoute, block>>
        BY <2>2 DEF PayIn, SpendAllowance, config
    <2> QED BY <1>4, <2>1, <2>2 DEF Foreigners
<1>5. CASE Between
    BY <1>5 DEF Between, Shield, SweepToPool, Credit, RescueGatewayDeposit, SetGatewayRoute,
                SetCallPolicy, SetPaused, Mine
<1>6. CASE UNCHANGED vars
    BY <1>6 DEF vars, config
<1> QED BY <1>1, <1>2, <1>3, <1>4, <1>5, <1>6 DEF Next

-----------------------------------------------------------------------------
(* Types.                                                                  *)

(* A token's balance is changed by numbers.                                *)
LEMMA HoldersTyped == Pool \in Holder /\ Executor \in Holder
BY DEF Holder

LEMMA RecordTyped ==
    ASSUME Typed, NEW g \in Gateway, NEW t \in Token, NEW amount \in Nat, Record(g, t, amount)
    PROVE  /\ pendingDeposits' \in SUBSET Deposit
           /\ depositNonces' \in [Gateway -> Nat]
<1>1. pendingDeposits \in SUBSET Deposit /\ depositNonces \in [Gateway -> Nat]
    BY LedgerPieces DEF Typed
<1>2. [gateway |-> g, nonce |-> depositNonces[g], token |-> t, amount |-> amount] \in Deposit
    BY <1>1 DEF Deposit
<1> QED BY <1>1, <1>2 DEF Record

(* A settled slot records the input or the output.                         *)
LEMMA SettleSlotTyped ==
    ASSUME EpochInv, SettleSlot
    PROVE  Snapshot' \in LedgerState
<1> PICK overhead \in Overhead, cost \in 0..PostReserve :
        \/ SettleExpired(overhead, cost)
        \/ SettleExecuted(overhead, cost)
        \/ SettleFailed(overhead, cost)
        \/ \E kept \in 0..PostReserve : SettleStarved(kept, overhead, cost)
    BY DEF SettleSlot
<1>1. InSlot
    BY DEF SettleExpired, SettleExecuted, SettleFailed, SettleStarved, Starved, Stage
<1>2. /\ Typed /\ Withdrawn.to \in Gateway /\ Withdrawn.token \in Token /\ Withdrawn.amount \in Nat
      /\ Slot.outputToken \in Token
      /\ balance \in [Token -> [Holder -> Int]] /\ allowance \in [Token -> [Holder -> Int]]
      /\ notes \in [Token -> Int] /\ call.before \in LedgerState
    BY <1>1, SlotInFrame, LedgerPieces DEF EpochInv, Typed, CallState
<1>3. \A gasLeft : SettleFallback(gasLeft) =>
            pendingDeposits' \in SUBSET Deposit /\ depositNonces' \in [Gateway -> Nat]
    BY <1>2, RecordTyped DEF SettleFallback
<1>4. call.before.balance \in [Token -> [Holder -> Int]]
      /\ call.before.allowance \in [Token -> [Holder -> Int]]
    BY <1>2 DEF LedgerState
<1>5. CASE SettleExpired(overhead, cost)
    BY <1>2, <1>3, <1>5, LedgerPieces DEF SettleExpired, Snapshot, LedgerState
<1>6. CASE SettleExecuted(overhead, cost)
    <2>1. OutputDelta \in Nat
        BY <1>1, <1>6, DeltaTyped DEF SettleExecuted
    <2>2. pendingDeposits' \in SUBSET Deposit /\ depositNonces' \in [Gateway -> Nat]
        BY <1>2, <1>6, <2>1, RecordTyped DEF SettleExecuted
    <2>3. allowance' \in [Token -> [Holder -> Int]]
        BY <1>2, <1>6, HoldersTyped DEF SettleExecuted, ResetApproval
    <2> QED BY <1>2, <1>6, <2>2, <2>3 DEF SettleExecuted, Snapshot, LedgerState
<1>7. CASE SettleFailed(overhead, cost)
    <2>1. allowance' \in [Token -> [Holder -> Int]]
        BY <1>2, <1>4, <1>7, HoldersTyped DEF SettleFailed, UndoGatewayCall
    <2> QED BY <1>2, <1>3, <1>4, <1>7, <2>1 DEF SettleFailed, UndoGatewayCall, Snapshot, LedgerState
<1>8. CASE \E kept \in 0..PostReserve : SettleStarved(kept, overhead, cost)
    BY <1>2, <1>3, <1>4, <1>8 DEF SettleStarved, Snapshot, LedgerState
<1> QED BY <1>5, <1>6, <1>7, <1>8

(* What foreign code and executor do are transfers and allowances.         *)
LEMMA FrameTyped ==
    ASSUME EpochInv, Frame \/ Foreigners
    PROVE  Snapshot' \in LedgerState
<1> USE HoldersTyped
<1>1. /\ Typed
      /\ balance \in [Token -> [Holder -> Int]] /\ allowance \in [Token -> [Holder -> Int]]
      /\ notes \in [Token -> Int]
      /\ pendingDeposits \in SUBSET Deposit /\ depositNonces \in [Gateway -> Nat]
    BY LedgerPieces DEF EpochInv, Typed
<1>2. ASSUME UNCHANGED <<notes, pendingDeposits, depositNonces>>,
             balance' \in [Token -> [Holder -> Int]], allowance' \in [Token -> [Holder -> Int]]
      PROVE  Snapshot' \in LedgerState
    BY <1>1, <1>2 DEF Snapshot, LedgerState
<1>3. CASE ApproveGateway
    <2>1. Withdrawn.token \in Token /\ Withdrawn.amount \in Int
        BY <1>3, SlotInFrame DEF ApproveGateway, Stage
    <2>2. allowance' \in [Token -> [Holder -> Int]]
        BY <1>1, <1>3, <2>1 DEF ApproveGateway
    <2> QED BY <1>1, <1>2, <1>3, <2>2 DEF ApproveGateway
<1>4. CASE ExecutorCalls
    <2> PICK t, a : t = Withdrawn.token /\ a = Withdrawn.amount
        OBVIOUS
    <2>1. t \in Token /\ a \in Int
        BY <1>4, SlotInFrame DEF ExecutorCalls, Stage
    <2>2. balance' \in [Token -> [Holder -> Int]]
        BY <1>1, <1>4, <2>1 DEF ExecutorCalls
    <2>3. allowance' \in [Token -> [Holder -> Int]]
        <3>1. PICK mid : mid = [allowance EXCEPT ![t][Pool] = @ - a]
            OBVIOUS
        <3>2. mid \in [Token -> [Holder -> Int]]
            BY <1>1, <2>1, <3>1
        <3>3. allowance' = [mid EXCEPT ![t][Executor] = a]
            BY <1>4, <3>1 DEF ExecutorCalls
        <3> QED BY <2>1, <3>2, <3>3
    <2> QED BY <1>2, <1>4, <2>2, <2>3 DEF ExecutorCalls
<1>5. CASE ForeignCalls \/ ForeignReturns
    BY <1>1, <1>2, <1>5 DEF ForeignCalls, ForeignReturns, ledger
<1>6. CASE ExecutorReturns
    <2> PICK t, out, a : t = Withdrawn.token /\ out = Slot.outputToken /\ a = OutputAtExecutor
        OBVIOUS
    <2>1. t \in Token /\ out \in Token /\ call.before \in LedgerState
        BY <1>6, SlotInFrame DEF ExecutorReturns, Stage, CallState
    <2>2. a \in Int
        BY <1>1, <2>1 DEF OutputAtExecutor, LedgerState
    <2>3. balance' \in [Token -> [Holder -> Int]]
        BY SMTT(30), <1>1, <1>6, <2>1, <2>2 DEF ExecutorReturns
    <2>4. allowance' \in [Token -> [Holder -> Int]]
        <3>1. allowance' = [allowance EXCEPT ![t][Executor] = 0]
            BY <1>6 DEF ExecutorReturns
        <3> QED BY <1>1, <2>1, <3>1
    <2> QED BY <1>2, <1>6, <2>3, <2>4 DEF ExecutorReturns
<1>7. CASE SettleSlot
    BY <1>7, SettleSlotTyped
<1>8. CASE RevertShort \/ RevertShape \/ RevertDelta
    <2>1. RestoreTo(epoch.before)
        BY <1>8 DEF RevertShort, RevertShape, RevertDelta, Revert
    <2>2. epoch.before \in LedgerState
        <3>1. ~Idle
            BY <1>8, SlotInFrame
            DEF RevertShort, ShortInLoop, Settling, Finishing, ShortInRecovery, Starved, RevertShape,
                RevertDelta, Stage
        <3> QED BY <1>1, <3>1 DEF Typed, EpochState
    <2> QED BY <2>1, <2>2, RestoredTyped
<1>9. ASSUME NEW t \in Token, NEW h \in Holder, PayIn(t, h)
      PROVE  Snapshot' \in LedgerState
    BY <1>1, <1>2, <1>9 DEF PayIn
<1>10. ASSUME NEW t \in Token, NEW h \in Holder, NEW amount \in 1..MaxAmount,
                 SpendAllowance(t, h, amount)
       PROVE  Snapshot' \in LedgerState
    <2>1. amount \in Int
        OBVIOUS
    <2>2. balance' \in [Token -> [Holder -> Int]]
        BY <1>1, <1>10, <2>1 DEF SpendAllowance
    <2>3. allowance' \in [Token -> [Holder -> Int]]
        BY <1>1, <1>10, <2>1 DEF SpendAllowance
    <2> QED BY <1>2, <1>10, <2>2, <2>3 DEF SpendAllowance
<1>11. ASSUME NEW left, BurnGas(left)
       PROVE  Snapshot' \in LedgerState
    BY <1>1, <1>2, <1>11 DEF BurnGas, ledger
<1> QED BY <1>3, <1>4, <1>5, <1>6, <1>7, <1>8, <1>9, <1>10, <1>11 DEF Frame, Foreigners

(* A sum over the withdrawals is a number.                                 *)
Amounts(withdrawals) == [i \in DOMAIN withdrawals |-> withdrawals[i].amount]

Of(withdrawals, t) == {i \in DOMAIN withdrawals : withdrawals[i].token = t}

LEMMA AmountsAddUp ==
    ASSUME NEW withdrawals, NEW S \in SUBSET DOMAIN withdrawals, IsFiniteSet(S)
    PROVE  MapThenSumSet(LAMBDA i : withdrawals[i].amount, S) = Total(Amounts(withdrawals), S)
<1> DEFINE body(g) == [T \in SUBSET S |->
                            IF T = {} THEN 0
                            ELSE LET x == CHOOSE x \in T : TRUE IN withdrawals[x].amount + g[T \ {x}]]
           iter == CHOOSE g : g = body(g)
<1>1. MapThenSumSet(LAMBDA i : withdrawals[i].amount, S) = iter[S]
    BY DEF MapThenSumSet, MapThenFoldSet
<1>2. ASSUME NEW g PROVE IsSum(g, Amounts(withdrawals), S) <=> g = body(g)
    <2>1. ASSUME NEW T \in SUBSET S, T # {}
          PROVE  Amounts(withdrawals)[OneOf(T)] = withdrawals[OneOf(T)].amount
        BY <2>1, OneOfIsElement DEF Amounts
    <2> QED BY <2>1 DEF IsSum, OneOf
<1>3. IsSum(iter, Amounts(withdrawals), S)
    <2>1. SumOfSubsets(Amounts(withdrawals), S) = body(SumOfSubsets(Amounts(withdrawals), S))
        BY <1>2, SumExists
    <2>2. iter = body(iter)
        <3> HIDE DEF body
        <3> QED BY <2>1
    <2> HIDE DEF body, iter
    <2> QED BY <1>2, <2>2
<1>4. iter[S] = Total(Amounts(withdrawals), S)
    <2> HIDE DEF iter
    <2> QED BY <1>3, SumExists, SumUnique DEF Total
<1> QED BY <1>1, <1>4

LEMMA TotalOfWithdrawals ==
    ASSUME NEW withdrawals \in Seq(Withdrawal), NEW t
    PROVE  /\ IsFiniteSet(Of(withdrawals, t))
           /\ TotalOf(withdrawals, t) = Total(Amounts(withdrawals), Of(withdrawals, t))
           /\ TotalOf(withdrawals, t) \in Int
           /\ \A i \in DOMAIN withdrawals :
                    Amounts(withdrawals)[i] = withdrawals[i].amount /\ withdrawals[i].amount \in Int
<1>1. IsFiniteSet(DOMAIN withdrawals)
    <2>1. DOMAIN withdrawals = 1..Len(withdrawals) /\ Len(withdrawals) \in Nat
        OBVIOUS
    <2> QED BY <2>1, FS_Interval
<1>2. IsFiniteSet(Of(withdrawals, t)) /\ Of(withdrawals, t) \in SUBSET DOMAIN withdrawals
    BY <1>1, FS_Subset DEF Of
<1>3. TotalOf(withdrawals, t) = Total(Amounts(withdrawals), Of(withdrawals, t))
    BY <1>2, AmountsAddUp DEF TotalOf, Of
<1>4. \A i \in DOMAIN withdrawals :
            Amounts(withdrawals)[i] = withdrawals[i].amount /\ withdrawals[i].amount \in Int
    <2> SUFFICES ASSUME NEW i \in DOMAIN withdrawals
                 PROVE  Amounts(withdrawals)[i] = withdrawals[i].amount /\ withdrawals[i].amount \in Int
        OBVIOUS
    <2>1. withdrawals[i] \in Withdrawal
        OBVIOUS
    <2>2. withdrawals[i].amount \in Int
        BY <2>1, BoundsAssumption DEF Withdrawal
    <2> QED BY <2>2 DEF Amounts
<1>5. Total(Amounts(withdrawals), Of(withdrawals, t)) \in Int
    BY <1>2, <1>4, TotalInt
<1> QED BY <1>2, <1>3, <1>4, <1>5

(* Other steps of the pool, and of its users.                              *)
LEMMA OthersTyped ==
    ASSUME EpochInv, Begin \/ Loop \/ Between \/ UNCHANGED vars
    PROVE  Snapshot' \in LedgerState
<1> USE HoldersTyped
<1>1. /\ Typed
      /\ balance \in [Token -> [Holder -> Int]] /\ allowance \in [Token -> [Holder -> Int]]
      /\ notes \in [Token -> Int]
      /\ pendingDeposits \in SUBSET Deposit /\ depositNonces \in [Gateway -> Nat]
    BY LedgerPieces DEF EpochInv, Typed
<1>2. ASSUME UNCHANGED <<allowance, depositNonces>>, pendingDeposits' \in SUBSET Deposit,
             balance' \in [Token -> [Holder -> Int]], notes' \in [Token -> Int]
      PROVE  Snapshot' \in LedgerState
    BY <1>1, <1>2 DEF Snapshot, LedgerState
<1>3. CASE Begin
    <2> PICK b \in Batches, spare \in SpareGas :
            SubmitEpoch(b, spare) \/ SimulateGatewayWithdrawals(b, spare)
        BY <1>3 DEF Begin
    <2>1. UNCHANGED <<balance, allowance, pendingDeposits, depositNonces>>
        BY DEF SubmitEpoch, SimulateGatewayWithdrawals, Open
    <2>2. notes' \in [Token -> Int]
        <3>1. \A t \in Token : TotalOf(b.withdrawals, t) \in Int
            BY BatchesAssumption, TotalOfWithdrawals
        <3>2. CASE SubmitEpoch(b, spare)
            BY <1>1, <3>1, <3>2 DEF SubmitEpoch
        <3>3. CASE SimulateGatewayWithdrawals(b, spare)
            BY <1>1, <3>3 DEF SimulateGatewayWithdrawals
        <3> QED BY <3>2, <3>3
    <2> QED BY <1>1, <1>2, <2>1, <2>2
<1>4. CASE \E cost \in 0..PlainReserve : PayPlain(cost)
    <2>1. /\ UNCHANGED <<allowance, notes, pendingDeposits, depositNonces>>
          /\ Settling
          /\ balance' = [balance EXCEPT ![Withdrawn.token] =
                    [h \in Holder |-> IF h = Pool THEN @[h] - Withdrawn.amount
                              ELSE IF h = Withdrawn.to THEN @[h] + Withdrawn.amount
                              ELSE @[h]]]
        BY <1>4 DEF PayPlain
    <2>2. Withdrawn.token \in Token /\ Withdrawn.amount \in Int
        BY <1>1, <2>1, CurrentTyped DEF Settling, EpochInv, Placed
    <2> PICK t, a, to : t = Withdrawn.token /\ a = Withdrawn.amount /\ to = Withdrawn.to
        OBVIOUS
    <2>3. balance' \in [Token -> [Holder -> Int]]
        BY <1>1, <2>1, <2>2
    <2> QED BY <1>1, <1>2, <2>1, <2>3
<1>5. CASE OpenSlot \/ FinishEpoch
    BY <1>1, <1>2, <1>5 DEF OpenSlot, FinishEpoch, ledger
<1>6. CASE FinishSimulation \/ RevertMispaired \/ RevertUnfunded \/ RevertNonce
    <2>1. RestoreTo(epoch.before) /\ ~Idle
        BY <1>6 DEF FinishSimulation, RevertMispaired, RevertUnfunded, RevertNonce, Revert, Finishing,
                    Settling
    <2>2. epoch.before \in LedgerState
        BY <1>1, <2>1 DEF Typed, EpochState
    <2> QED BY <2>1, <2>2, RestoredTyped
<1>7. ASSUME NEW t \in Token, Shield(t) \/ SweepToPool(t)
      PROVE  Snapshot' \in LedgerState
    <2>1. balance[t][Executor] \in Int
        BY <1>1
    <2>2. CASE Shield(t)
        BY <1>1, <1>2, <2>2 DEF Shield
    <2>3. CASE SweepToPool(t)
        BY <1>1, <1>2, <2>1, <2>3 DEF SweepToPool
    <2> QED BY <1>7, <2>2, <2>3
<1>8. ASSUME NEW d \in pendingDeposits, Credit(d) \/ RescueGatewayDeposit(d)
      PROVE  Snapshot' \in LedgerState
    <2>1. d.token \in Token /\ d.amount \in Int
        BY <1>1 DEF Deposit
    <2>2. CASE Credit(d)
        BY <1>1, <1>2, <2>1, <2>2 DEF Credit
    <2>3. CASE RescueGatewayDeposit(d)
        <3>1. balance' \in [Token -> [Holder -> Int]]
            BY <1>1, <2>1, <2>3 DEF RescueGatewayDeposit
        <3> QED BY <1>1, <1>2, <2>3, <3>1 DEF RescueGatewayDeposit
    <2> QED BY <1>8, <2>2, <2>3
<1>9. ASSUME UNCHANGED ledger
      PROVE  Snapshot' \in LedgerState
    BY <1>1, <1>2, <1>9 DEF ledger
<1>10. CASE Between
    BY <1>7, <1>8, <1>9, <1>10 DEF Between, SetGatewayRoute, SetCallPolicy, SetPaused, Mine
<1>11. CASE UNCHANGED vars
    BY <1>9, <1>11 DEF vars
<1> QED BY <1>3, <1>4, <1>5, <1>6, <1>10, <1>11 DEF Loop

-----------------------------------------------------------------------------
(* Where an epoch is.                                                      *)

LEMMA EpochInvInit == Init => EpochInv
<1> SUFFICES ASSUME Init PROVE EpochInv
    OBVIOUS
<1>1. Snapshot \in LedgerState
    BY LedgerPieces DEF Init
<1> QED BY <1>1 DEF Init, EpochInv, Typed, Idle, InSlot

(* An epoch keeps its plan, whatever the code it calls does.               *)
LEMMA EpochInvNext == EpochInv /\ [Next]_vars => EpochInv'
<1> SUFFICES ASSUME EpochInv, [Next]_vars PROVE EpochInv'
    OBVIOUS
<1>1. Snapshot' \in LedgerState
    BY FrameTyped, OthersTyped DEF Next
<1>2. gatewayRoute' \subseteq Gateway
    <2>1. UNCHANGED gatewayRoute \/ \E g \in Gateway : SetGatewayRoute(g)
        BY ZenonT(30) DEF Next, Begin, SubmitEpoch, SimulateGatewayWithdrawals, Open, Loop, PayPlain, OpenSlot,
               FinishEpoch, FinishSimulation, RevertMispaired, RevertUnfunded, RevertNonce, Revert,
               Frame, ApproveGateway, ExecutorCalls, ForeignCalls, ExecutorReturns, ForeignReturns,
               SettleSlot, SettleExpired, SettleExecuted, SettleFailed, SettleStarved, SettleFallback,
               SlotSettled, RevertShort, RevertShape, RevertDelta, Foreigners, PayIn, SpendAllowance,
               BurnGas, Between, Shield, SweepToPool, Credit, RescueGatewayDeposit, SetCallPolicy,
               SetPaused, Mine, vars, config
    <2>2. gatewayRoute \subseteq Gateway
        BY DEF EpochInv, Typed
    <2> QED BY SMTT(30), <2>1, <2>2 DEF SetGatewayRoute
<1>3. block' \in Nat
    <2>1. UNCHANGED block \/ Mine
        BY ZenonT(30) DEF Next, Begin, SubmitEpoch, SimulateGatewayWithdrawals, Open, Loop, PayPlain, OpenSlot,
               FinishEpoch, FinishSimulation, RevertMispaired, RevertUnfunded, RevertNonce, Revert,
               Frame, ApproveGateway, ExecutorCalls, ForeignCalls, ExecutorReturns, ForeignReturns,
               SettleSlot, SettleExpired, SettleExecuted, SettleFailed, SettleStarved, SettleFallback,
               SlotSettled, RevertShort, RevertShape, RevertDelta, Foreigners, PayIn, SpendAllowance,
               BurnGas, Between, Shield, SweepToPool, Credit, RescueGatewayDeposit, SetCallPolicy,
               SetPaused, SetGatewayRoute, vars
    <2>2. block \in Nat
        BY DEF EpochInv, Typed
    <2> QED BY <2>1, <2>2 DEF Mine
<1> DEFINE OfEpoch == /\ ~Idle => epoch \in EpochState
                      /\ InSlot => ~Idle /\ call \in CallState
                      /\ ~Idle => Placed /\ GasKept /\ AllEndedAsSigned /\ CalledInTime
<1>4. OfEpoch
    BY DEF EpochInv, Typed
<1>5. ASSUME UNCHANGED <<epoch, call>> /\ (Idle \/ UNCHANGED <<gatewayRoute, block>>)
      PROVE  OfEpoch'
    <2>1. CASE Idle
        BY <1>4, <1>5, <2>1 DEF Idle, InSlot
    <2>2. CASE UNCHANGED <<gatewayRoute, block>>
        BY ZenonT(30), <1>4, <1>5, <2>2
        DEF Idle, InSlot, Placed, Routed, HasSlot, Slot, Withdrawn, GasKept, Budgeted, Reserved,
            PlainsLeft, SlotsLeft, SlotReserve, AllEndedAsSigned, EndedAsSigned, Executed, FellBack,
            CalledInTime, Expired, PrimaryShape
    <2> QED BY <1>5, <2>1, <2>2
<1>6. ASSUME \E b \in Batches, spare \in SpareGas, simulated \in BOOLEAN : Open(b, spare, simulated)
      PROVE  OfEpoch'
    <2>1. Typed /\ ~InSlot'
        BY <1>4, <1>6 DEF EpochInv, Open, InSlot
    <2> QED BY <1>6, <2>1, ReservedAtFirst DEF Idle
<1>7. ASSUME \E cost \in 0..PlainReserve : PayPlain(cost)
      PROVE  OfEpoch'
    <2>1. ~InSlot'
        BY <1>7 DEF PayPlain, Settling, InSlot
    <2> QED BY <1>7, <2>1, PlainKeeps DEF Idle
<1>8. ASSUME OpenSlot
      PROVE  OfEpoch'
    BY <1>8, OpenKeeps DEF Idle
<1>9. ASSUME \E o, gasLeft : Settled(o, gasLeft)
      PROVE  OfEpoch'
    <2>1. ~InSlot'
        BY <1>9 DEF Settled, SlotSettled, InSlot
    <2> QED BY <1>9, <2>1, SettledKeeps DEF Idle
<1>10. ASSUME \E stage, gasLeft : FrameMoves(stage, gasLeft)
      PROVE  OfEpoch'
    <2>1. epoch' = epoch /\ InSlot
        BY <1>10 DEF FrameMoves
    <2> QED BY <1>4, <1>10, <2>1, FrameKeeps DEF Idle
<1>11. ASSUME epoch' = None /\ call' = None
      PROVE  OfEpoch'
    BY <1>11 DEF Idle, InSlot
<1>12. OfEpoch'
    BY <1>5, <1>6, <1>7, <1>8, <1>9, <1>10, <1>11, EpochSteps
<1> QED BY <1>1, <1>2, <1>3, <1>12 DEF EpochInv, Typed

(* What is set aside, what was dealt with, and that calls are in time, of  *)
(* every epoch (processGatewayWithdrawals and the frame of its slots).     *)
THEOREM EpochInvariant == Spec => []EpochInv
BY EpochInvInit, EpochInvNext, PTL DEF Spec

(* An epoch that has passed its first check of gas never runs short,       *)
(* however much its gateways burn (_gatewaySelfCallGasReserve and the      *)
(* reserves of LibGateway), for all reserves and batches.                  *)
THEOREM GasNeverShort == Spec => []NeverShortOfGas
<1>1. EpochInv => NeverShortOfGas
    <2> SUFFICES ASSUME EpochInv, ~Idle, InSlot \/ epoch.next > 1
                 PROVE  ~ShortInLoop /\ ~ShortInRecovery
        BY DEF NeverShortOfGas
    <2>1. epoch \in EpochState /\ Placed /\ GasKept
        BY DEF EpochInv, Typed
    <2>2. /\ epoch.next \in Nat /\ epoch.cursor \in Nat /\ epoch.remaining \in Int /\ epoch.gas \in Int
          /\ Len(epoch.withdrawals) \in Nat /\ Len(epoch.slots) \in Nat
        BY <2>1 DEF EpochState
    <2>3. ~ShortInLoop
        <3> SUFFICES ASSUME ShortInLoop PROVE FALSE
            OBVIOUS
        <3>1. ~InSlot /\ epoch.gas > epoch.remaining /\ epoch.remaining = Reserved
            BY <2>1 DEF ShortInLoop, Settling, Finishing, GasKept
        <3>2. CASE Settling /\ epoch.gas <= epoch.remaining
            BY <2>2, <3>1, <3>2
        <3>3. CASE Finishing /\ epoch.gas <= FinalReserve
            <4>1. epoch.next = Len(epoch.withdrawals) + 1 /\ epoch.cursor = Len(epoch.slots) + 1
                BY <2>1, <2>2, <3>3 DEF Finishing, AllSlotsUsed, Placed
            <4>2. PlainsLeft = 0 /\ SlotsLeft = 0
                BY <2>2, <4>1 DEF PlainsLeft, SlotsLeft
            <4>3. Reserved = FinalReserve
                BY <4>2, ReservesAssumption DEF Reserved, SlotReserve
            <4> QED BY <2>2, <3>1, <3>3, <4>3, ReservesAssumption
        <3> QED BY <3>2, <3>3 DEF ShortInLoop
    <2>4. ~ShortInRecovery
        <3> SUFFICES ASSUME InSlot, NEW kept \in 0..PostReserve, NEW overhead \in Overhead
                     PROVE  RecoveryFunded(kept, overhead)
            BY DEF ShortInRecovery, Starved, Stage
        <3>1. PICK left : left = GasAfterFrame(kept, overhead)
            OBVIOUS
        <3>2. kept \in Int /\ kept >= 0 /\ PostReserve \in Int
            BY ReservesAssumption
        <3>3. left \in Int /\ left > epoch.remaining + PostReserve + kept
            BY <3>1, <3>2, GasLeft
        <3>4. left > epoch.remaining + PostReserve
            BY <2>2, <3>2, <3>3
        <3> QED BY <3>1, <3>4 DEF RecoveryFunded
    <2> QED BY <2>3, <2>4
<1> QED BY <1>1, EpochInvariant, PTL

(* What settles was signed: every slot is used, for its own withdrawal, in *)
(* time and for no less than its minimum, or else its input is recorded    *)
(* (_processSlots and executeGatewaySlot), for batches of every length.    *)
THEOREM SlotsSettledAsSigned == Spec => []SettledAsSigned
<1>1. EpochInv => SettledAsSigned
    <2> SUFFICES ASSUME EpochInv, Finishing PROVE SettledAsSigned
        BY DEF SettledAsSigned
    <2>1. /\ epoch \in EpochState /\ Placed /\ AllEndedAsSigned
        BY DEF EpochInv, Typed, Finishing
    <2>2. /\ epoch.next \in Nat /\ epoch.cursor \in Nat
          /\ epoch.withdrawals \in Seq(Withdrawal) /\ epoch.slots \in Seq(GatewaySlot)
          /\ epoch.outcomes \in Seq(OutcomeState)
        BY <2>1 DEF EpochState, OutcomeState
    <2>3. Len(epoch.withdrawals) \in Nat /\ Len(epoch.slots) \in Nat
        BY <2>2
    <2>4. epoch.next = Len(epoch.withdrawals) + 1 /\ epoch.cursor = Len(epoch.slots) + 1
        BY <2>1, <2>2, <2>3 DEF Finishing, AllSlotsUsed, Placed
    <2>5. Len(epoch.outcomes) = Len(epoch.withdrawals)
        BY <2>1, <2>3, <2>4 DEF Placed
    <2>6. /\ DOMAIN epoch.outcomes = 1..epoch.next - 1
          /\ DOMAIN epoch.slots = 1..epoch.cursor - 1
        BY <2>2, <2>3, <2>4, <2>5
    <2> DEFINE used == {k \in DOMAIN epoch.outcomes : epoch.outcomes[k].slot # 0}
    <2>7. ASSUME NEW k \in DOMAIN epoch.outcomes
          PROVE  EndedAsSigned(k) /\ epoch.outcomes[k].slot \in Nat
        <3>1. epoch.outcomes[k] \in OutcomeState
            BY <2>2
        <3> QED BY <2>1, <2>6, <3>1 DEF AllEndedAsSigned, OutcomeState
    <2>8. {epoch.outcomes[k].slot : k \in used} = DOMAIN epoch.slots
        <3>1. \A k \in used : epoch.outcomes[k].slot \in 1..epoch.cursor - 1
            BY <2>2, <2>7 DEF EndedAsSigned
        <3>2. ASSUME NEW j \in 1..epoch.cursor - 1
              PROVE  \E k \in used : epoch.outcomes[k].slot = j
            <4>1. PICK k \in 1..epoch.next - 1 : epoch.outcomes[k].slot = j
                BY <2>1 DEF AllEndedAsSigned
            <4> QED BY <2>6, <4>1
        <3> QED BY <2>6, <3>1, <3>2
    <2>9. \A k \in DOMAIN epoch.outcomes : k \in used <=> epoch.withdrawals[k].to \in gatewayRoute
        BY <2>7 DEF EndedAsSigned
    <2>10. ASSUME NEW k \in used
           PROVE  LET out == epoch.outcomes[k]
                      slot == epoch.slots[out.slot]
                  IN  /\ slot.index = k
                      /\ \/ /\ out.executed
                            /\ block <= slot.expiryBlock
                            /\ out.token = slot.outputToken
                            /\ out.amount >= slot.minOutputAmount
                         \/ /\ ~out.executed
                            /\ out.token = epoch.withdrawals[k].token
                            /\ out.amount = epoch.withdrawals[k].amount
        BY <2>7 DEF EndedAsSigned, Executed, FellBack
    <2> QED BY <2>5, <2>8, <2>9, <2>10 DEF SettledAsSigned
<1> QED BY <1>1, EpochInvariant, PTL

-----------------------------------------------------------------------------
(* Money.                                                                  *)

AmountOf == [d \in Deposit |-> d.amount]

InToken(D, t) == {d \in D : d.token = t}

(* A state in which every redeposit has a nonce that its gateway has       *)
(* passed, no allowance is open, and the pool has what it owes.            *)
Sane(s) ==
    /\ s \in LedgerState
    /\ IsFiniteSet(s.pendingDeposits)
    /\ \A d \in s.pendingDeposits : d.nonce < s.depositNonces[d.gateway]

Closed(s) == \A t \in Token, h \in Holder : s.allowance[t][h] = 0

AtRest(s) ==
    /\ Sane(s) /\ Closed(s)
    /\ \A t \in Token :
            /\ s.balance[t][Pool] >= s.notes[t] + SumOfDeposits(s.pendingDeposits, t)
            /\ s.balance[t][Executor] >= 0

(* A state between two withdrawals of an epoch.                            *)
Gone(t) == TotalOf(SubSeq(epoch.withdrawals, 1, epoch.next - 1), t)

Recorded(s, t) == SumOfDeposits(s.pendingDeposits \ epoch.before.pendingDeposits, t)

Even(s, t) ==
    LET left == s.balance[t][Pool] + Gone(t)
        owed == epoch.before.balance[t][Pool] + Recorded(s, t)
    IN  left >= owed /\ (Traded(t) => left = owed)

SpentNotes(t) == IF epoch.simulated THEN 0 ELSE TotalOf(epoch.withdrawals, t)

Ground(s) ==
    /\ Sane(s) /\ Closed(s)
    /\ epoch.before.pendingDeposits \subseteq s.pendingDeposits
    /\ \A t \in Token :
            /\ s.notes[t] = epoch.before.notes[t] - SpentNotes(t)
            /\ s.balance[t][Executor] >= epoch.before.balance[t][Executor]
            /\ Even(s, t)

(* What the frame of a slot has moved.  The pool can only lose the input,  *)
(* and the executor only what it was lent of it.                           *)
SameRecords ==
    /\ notes = call.before.notes
    /\ pendingDeposits = call.before.pendingDeposits
    /\ depositNonces = call.before.depositNonces

NothingLent == \A t \in Token, h \in Holder : allowance[t][h] = 0

InputLent ==
    \A t \in Token, h \in Holder :
        allowance[t][h] = IF t = Withdrawn.token /\ h = Pool THEN Withdrawn.amount ELSE 0

OnlyInputLeaves ==
    \A t \in Token : t # Withdrawn.token =>
        allowance[t][Pool] = 0 /\ balance[t][Pool] >= call.before.balance[t][Pool]

StashUntouched(t) ==
    allowance[t][Executor] = 0 /\ balance[t][Executor] >= call.before.balance[t][Executor]

FrameMoney ==
    /\ SameRecords
    /\ call.stage \in {"opened", "approved"} => balance = call.before.balance
    /\ call.stage = "opened" => NothingLent
    /\ call.stage = "approved" => InputLent
    /\ call.stage \in {"target", "returned"} => OnlyInputLeaves
    /\ call.stage = "target" =>
            \A t \in Token : t # Withdrawn.token \/ Withdrawn.to # Executor => StashUntouched(t)
    /\ call.stage = "returned" => \A t \in Token : StashUntouched(t)

(* The pool between two epochs, in an epoch between two withdrawals, and   *)
(* in the frame of a slot.                                                 *)
AtRestNow == Idle /\ ~InSlot /\ \A s : s = Snapshot => AtRest(s)

BeforeAtRest == ~Idle /\ \A s : s = epoch.before => AtRest(s)

GroundNow == ~InSlot /\ \A s : s = Snapshot => Ground(s)

GroundBefore == InSlot /\ FrameMoney /\ \A s : s = call.before => Ground(s)

OfMoney == AtRestNow \/ (BeforeAtRest /\ (GroundNow \/ GroundBefore))

MoneyInv == EpochInv /\ OfMoney

(* The fold of the community modules is the sum.                           *)
LEMMA DepositsAddUp ==
    ASSUME NEW S \in SUBSET Deposit, IsFiniteSet(S)
    PROVE  MapThenSumSet(LAMBDA d : d.amount, S) = Total(AmountOf, S)
<1> DEFINE body(g) == [T \in SUBSET S |->
                            IF T = {} THEN 0
                            ELSE LET x == CHOOSE x \in T : TRUE IN x.amount + g[T \ {x}]]
           iter == CHOOSE g : g = body(g)
<1>1. MapThenSumSet(LAMBDA d : d.amount, S) = iter[S]
    BY DEF MapThenSumSet, MapThenFoldSet
<1>2. ASSUME NEW g PROVE IsSum(g, AmountOf, S) <=> g = body(g)
    <2>1. ASSUME NEW T \in SUBSET S, T # {} PROVE AmountOf[OneOf(T)] = OneOf(T).amount
        BY <2>1, OneOfIsElement DEF AmountOf
    <2> QED BY <2>1 DEF IsSum, OneOf
<1>3. IsSum(iter, AmountOf, S)
    <2>1. SumOfSubsets(AmountOf, S) = body(SumOfSubsets(AmountOf, S))
        BY <1>2, SumExists
    <2>2. iter = body(iter)
        <3> HIDE DEF body
        <3> QED BY <2>1
    <2> HIDE DEF body, iter
    <2> QED BY <1>2, <2>2
<1>4. iter[S] = Total(AmountOf, S)
    <2> HIDE DEF iter
    <2> QED BY <1>3, SumExists, SumUnique DEF Total
<1> QED BY <1>1, <1>4

(* What is owed of a token is a sum, of numbers.                           *)
LEMMA OwedIsTotal ==
    ASSUME NEW D \in SUBSET Deposit, IsFiniteSet(D), NEW t
    PROVE  /\ IsFiniteSet(InToken(D, t))
           /\ SumOfDeposits(D, t) = Total(AmountOf, InToken(D, t))
           /\ SumOfDeposits(D, t) \in Int
           /\ \A d \in D : AmountOf[d] = d.amount /\ d.amount \in Int
<1>1. IsFiniteSet(InToken(D, t)) /\ InToken(D, t) \in SUBSET Deposit
    BY FS_Subset DEF InToken
<1>2. SumOfDeposits(D, t) = Total(AmountOf, InToken(D, t))
    BY <1>1, DepositsAddUp DEF SumOfDeposits, InToken
<1>3. \A d \in Deposit : AmountOf[d] = d.amount /\ d.amount \in Int
    BY DEF AmountOf, Deposit
<1>4. Total(AmountOf, InToken(D, t)) \in Int
    BY <1>1, <1>3, TotalInt
<1> QED BY <1>1, <1>2, <1>3, <1>4

LEMMA NothingOwed == ASSUME NEW t PROVE SumOfDeposits({}, t) = 0
<1>1. IsFiniteSet({}) /\ InToken({}, t) = {}
    BY FS_EmptySet DEF InToken
<1> QED BY <1>1, OwedIsTotal, TotalEmpty

(* What a deposit is worth in a token.                                     *)
Worth(d, t) == IF d.token = t THEN d.amount ELSE 0

(* One more.                                                               *)
LEMMA OneMoreOwed ==
    ASSUME NEW D \in SUBSET Deposit, IsFiniteSet(D), NEW d \in Deposit, d \notin D, NEW t
    PROVE  /\ IsFiniteSet(D \cup {d})
           /\ SumOfDeposits(D \cup {d}, t)
                = SumOfDeposits(D, t) + Worth(d, t)
<1>1. IsFiniteSet(D \cup {d}) /\ D \cup {d} \in SUBSET Deposit
    BY FS_AddElement
<1>2. /\ IsFiniteSet(InToken(D, t))
      /\ SumOfDeposits(D, t) = Total(AmountOf, InToken(D, t)) /\ SumOfDeposits(D, t) \in Int
      /\ SumOfDeposits(D \cup {d}, t) = Total(AmountOf, InToken(D \cup {d}, t))
      /\ \A x \in D \cup {d} : AmountOf[x] = x.amount /\ x.amount \in Int
    BY <1>1, OwedIsTotal
<1>3. CASE d.token = t
    <2>1. InToken(D \cup {d}, t) = InToken(D, t) \cup {d} /\ d \notin InToken(D, t)
        BY <1>3 DEF InToken
    <2>2. \A x \in InToken(D, t) : AmountOf[x] \in Int
        BY <1>2 DEF InToken
    <2>3. Total(AmountOf, InToken(D, t) \cup {d}) = Total(AmountOf, InToken(D, t)) + AmountOf[d]
        BY <1>2, <2>1, <2>2, TotalAdd
    <2> QED BY <1>1, <1>2, <1>3, <2>1, <2>3 DEF Worth
<1>4. CASE d.token # t
    <2>1. InToken(D \cup {d}, t) = InToken(D, t)
        BY <1>4 DEF InToken
    <2> QED BY <1>1, <1>2, <1>4, <2>1 DEF Worth
<1> QED BY <1>3, <1>4

(* One less.                                                               *)
LEMMA OneLessOwed ==
    ASSUME NEW D \in SUBSET Deposit, IsFiniteSet(D), NEW d \in D, NEW t
    PROVE  /\ IsFiniteSet(D \ {d})
           /\ SumOfDeposits(D \ {d}, t)
                = SumOfDeposits(D, t) - Worth(d, t)
<1>0. PICK R : R = D \ {d}
    OBVIOUS
<1>1. R \in SUBSET Deposit /\ IsFiniteSet(R) /\ d \notin R /\ D = R \cup {d} /\ d \in Deposit
    BY <1>0, FS_Subset
<1>2. SumOfDeposits(R \cup {d}, t) = SumOfDeposits(R, t) + Worth(d, t)
    BY <1>1, OneMoreOwed
<1>3. SumOfDeposits(R, t) \in Int /\ Worth(d, t) \in Int
    BY <1>1, OwedIsTotal DEF Deposit, Worth
<1>4. SumOfDeposits(D, t) = SumOfDeposits(R, t) + Worth(d, t)
    BY <1>1, <1>2
<1>5. SumOfDeposits(R, t) = SumOfDeposits(D, t) - Worth(d, t)
    BY <1>3, <1>4
<1> QED BY <1>0, <1>1, <1>5

(* What was there and what is new are all there is.                        *)
LEMMA OldAndNewOwed ==
    ASSUME NEW D \in SUBSET Deposit, IsFiniteSet(D), NEW E \in SUBSET D, NEW t
    PROVE  SumOfDeposits(D, t) = SumOfDeposits(E, t) + SumOfDeposits(D \ E, t)
<1> PICK R : R = D \ E
    OBVIOUS
<1>1. /\ E \in SUBSET Deposit /\ R \in SUBSET Deposit /\ IsFiniteSet(E) /\ IsFiniteSet(R)
    BY FS_Subset
<1>2. /\ IsFiniteSet(InToken(E, t)) /\ IsFiniteSet(InToken(R, t))
      /\ SumOfDeposits(E, t) = Total(AmountOf, InToken(E, t))
      /\ SumOfDeposits(R, t) = Total(AmountOf, InToken(R, t))
      /\ SumOfDeposits(D, t) = Total(AmountOf, InToken(D, t))
      /\ \A d \in D : AmountOf[d] \in Int
    BY <1>1, OwedIsTotal
<1>3. /\ InToken(D, t) = InToken(E, t) \cup InToken(R, t)
      /\ InToken(E, t) \cap InToken(R, t) = {}
      /\ \A d \in InToken(E, t) \cup InToken(R, t) : AmountOf[d] \in Int
    BY <1>2 DEF InToken
<1>4. Total(AmountOf, InToken(E, t) \cup InToken(R, t))
        = Total(AmountOf, InToken(E, t)) + Total(AmountOf, InToken(R, t))
    BY <1>2, <1>3, TotalUnion
<1> QED BY <1>2, <1>3, <1>4

(* The withdrawals before the next, and the next.                          *)
LEMMA OneMoreGone ==
    ASSUME NEW w \in Seq(Withdrawal), NEW n \in Nat, n >= 1, n <= Len(w), NEW t
    PROVE  /\ TotalOf(SubSeq(w, 1, n - 1), t) \in Int
           /\ TotalOf(SubSeq(w, 1, n), t)
                = TotalOf(SubSeq(w, 1, n - 1), t) + IF w[n].token = t THEN w[n].amount ELSE 0
<1> PICK u, v : u = SubSeq(w, 1, n - 1) /\ v = SubSeq(w, 1, n)
    OBVIOUS
<1>1. /\ u \in Seq(Withdrawal) /\ v \in Seq(Withdrawal)
      /\ Len(u) = n - 1 /\ Len(v) = n
      /\ \A i \in 1..n-1 : u[i] = w[i]
      /\ \A i \in 1..n : v[i] = w[i]
    OBVIOUS
<1>2. DOMAIN u = 1..n-1 /\ DOMAIN v = 1..n
    BY <1>1
<1>3. /\ IsFiniteSet(Of(u, t)) /\ IsFiniteSet(Of(v, t))
      /\ TotalOf(u, t) = Total(Amounts(u), Of(u, t)) /\ TotalOf(u, t) \in Int
      /\ TotalOf(v, t) = Total(Amounts(v), Of(v, t))
      /\ \A i \in DOMAIN u : Amounts(u)[i] = u[i].amount /\ u[i].amount \in Int
      /\ \A i \in DOMAIN v : Amounts(v)[i] = v[i].amount /\ v[i].amount \in Int
    BY <1>1, TotalOfWithdrawals
<1>4. Total(Amounts(v), Of(u, t)) = Total(Amounts(u), Of(u, t))
    <2>1. ASSUME NEW i \in Of(u, t) PROVE Amounts(v)[i] = Amounts(u)[i]
        <3>1. i \in DOMAIN u /\ i \in 1..n-1 /\ i \in 1..n
            BY <1>2 DEF Of
        <3> QED BY <1>1, <1>2, <1>3, <3>1
    <2> QED BY <1>3, <2>1, TotalSame
<1>5. CASE w[n].token = t
    <2>1. Of(v, t) = Of(u, t) \cup {n} /\ n \notin Of(u, t)
        <3>1. n \in 1..n /\ n \notin 1..n-1 /\ 1..n = (1..n-1) \cup {n}
            OBVIOUS
        <3>2. \A i \in 1..n-1 : v[i] = u[i]
            BY <1>1
        <3> QED BY <1>1, <1>2, <1>5, <3>1, <3>2 DEF Of
    <2>2. Amounts(v)[n] = w[n].amount /\ Amounts(v)[n] \in Int
        <3>1. n \in 1..n
            OBVIOUS
        <3> QED BY <1>1, <1>2, <1>3, <3>1
    <2>3. ASSUME NEW i \in Of(u, t) PROVE Amounts(v)[i] \in Int
        <3>1. i \in 1..n-1 /\ i \in 1..n
            BY <1>2 DEF Of
        <3> QED BY <1>2, <1>3, <3>1
    <2>4. Total(Amounts(v), Of(u, t) \cup {n}) = Total(Amounts(v), Of(u, t)) + Amounts(v)[n]
        BY SMTT(30), <1>3, <2>1, <2>2, <2>3, TotalAdd
    <2> QED BY <1>3, <1>4, <1>5, <2>1, <2>2, <2>4
<1>6. CASE w[n].token # t
    <2>1. Of(v, t) = Of(u, t)
        <3>1. n \in 1..n /\ n \notin 1..n-1 /\ 1..n = (1..n-1) \cup {n}
            OBVIOUS
        <3>2. \A i \in 1..n-1 : v[i] = u[i]
            BY <1>1
        <3> QED BY <1>1, <1>2, <1>6, <3>1, <3>2 DEF Of
    <2> QED BY <1>3, <1>4, <1>6, <2>1
<1> QED BY <1>5, <1>6

(* At first none, in the end all.                                          *)
LEMMA NoneGone ==
    ASSUME NEW w \in Seq(Withdrawal), NEW t
    PROVE  TotalOf(SubSeq(w, 1, 0), t) = 0 /\ SubSeq(w, 1, Len(w)) = w
<1>1. SubSeq(w, 1, 0) = <<>> /\ <<>> \in Seq(Withdrawal) /\ Of(<<>>, t) = {}
    BY DEF Of
<1>2. TotalOf(<<>>, t) = Total(Amounts(<<>>), {})
    BY <1>1, TotalOfWithdrawals
<1>3. SubSeq(w, 1, Len(w)) = w
    OBVIOUS
<1> QED BY <1>1, <1>2, <1>3, TotalEmpty


LEMMA OneOwed ==
    ASSUME NEW d \in Deposit, NEW t
    PROVE  SumOfDeposits({d}, t) = Worth(d, t) /\ Worth(d, t) \in Int
<1>1. IsFiniteSet({}) /\ Worth(d, t) \in Int /\ {} \cup {d} = {d}
    BY FS_EmptySet DEF Deposit, Worth
<1>2. SumOfDeposits({} \cup {d}, t) = SumOfDeposits({}, t) + Worth(d, t)
    BY <1>1, OneMoreOwed
<1> QED BY <1>1, <1>2, NothingOwed

-----------------------------------------------------------------------------
(* From one withdrawal to the next.                                        *)

(* The epoch, as far as money goes, but for how far it is.                 *)
SamePlan ==
    /\ epoch'.withdrawals = epoch.withdrawals
    /\ epoch'.simulated = epoch.simulated
    /\ epoch'.before = epoch.before

(* The epoch deals with its next withdrawal.                               *)
DealtWith(o) ==
    /\ SamePlan
    /\ epoch'.next = epoch.next + 1
    /\ epoch'.outcomes = Append(epoch.outcomes, o)

(* State r is s after the next withdrawal ended with outcome o and records *)
(* D: what the pool has lost is the amount, what it has won is recorded.   *)
SettlesItem(s, r, D, o) ==
    /\ Sane(r) /\ Closed(r)
    /\ r.pendingDeposits = s.pendingDeposits \cup D
    /\ r.notes = s.notes
    /\ \A t \in Token :
            LET left == r.balance[t][Pool]
                            + IF Withdrawn.token = t THEN Withdrawn.amount ELSE 0
                owed == s.balance[t][Pool] + SumOfDeposits(D, t)
            IN  /\ r.balance[t][Executor] >= s.balance[t][Executor]
                /\ left >= owed
                /\ (o.executed => t \in {Withdrawn.token, o.token}) => left = owed

(* A state stays where it is in its epoch.                                 *)
LEMMA GroundStays ==
    ASSUME NEW s, Ground(s), SamePlan, epoch'.next = epoch.next, epoch'.outcomes = epoch.outcomes
    PROVE  Ground(s)'
<1>1. \A t : Gone(t)' = Gone(t) /\ Recorded(s, t)' = Recorded(s, t)
    BY DEF SamePlan, Gone, Recorded
<1>2. \A t : Traded(t)' <=> Traded(t)
    BY DEF SamePlan, Traded
<1>3. \A t : SpentNotes(t)' = SpentNotes(t)
    BY DEF SamePlan, SpentNotes
<1>4. \A t : Even(s, t)' <=> Even(s, t)
    BY <1>1, <1>2 DEF SamePlan, Even
<1> QED BY <1>3, <1>4 DEF SamePlan, Ground, Sane, Closed

(* Two balances that are even add up to one that is.                       *)
LEMMA EvenAdds ==
    ASSUME NEW S \in Int, NEW R \in Int, NEW B \in Int,
           NEW G \in Int, NEW P \in Int, NEW Q \in Int, NEW W \in Int
    PROVE  /\ S + G >= B + Q /\ R + P >= S + W => R + (G + P) >= B + (Q + W)
           /\ S + G = B + Q /\ R + P = S + W => R + (G + P) = B + (Q + W)
OBVIOUS

(* Each withdrawal keeps the epoch even, token by token.                   *)
LEMMA MovesOn ==
    ASSUME EpochInv, ~Idle, epoch.next <= Len(epoch.withdrawals),
           NEW s, NEW r, NEW o, NEW D \in SUBSET Deposit,
           D = {} \/ \E d \in Deposit : D = {d} /\ d \notin s.pendingDeposits,
           Ground(s), SettlesItem(s, r, D, o), DealtWith(o)
    PROVE  Ground(r)'
<1>1. /\ epoch \in EpochState /\ Placed
    BY DEF EpochInv, Typed
<1>2. /\ epoch.withdrawals \in Seq(Withdrawal) /\ epoch.next \in Nat /\ epoch.next >= 1
      /\ epoch.before \in LedgerState
      /\ epoch.outcomes \in Seq(OutcomeState) /\ Len(epoch.outcomes) = epoch.next - 1
    BY <1>1 DEF EpochState, OutcomeState, Placed
<1>3. /\ s \in LedgerState /\ IsFiniteSet(s.pendingDeposits) /\ s.pendingDeposits \in SUBSET Deposit
      /\ epoch.before.pendingDeposits \subseteq s.pendingDeposits
      /\ r \in LedgerState
    BY DEF Ground, Sane, SettlesItem, LedgerState
<1>0. PICK paid : paid = [t \in Token |-> IF Withdrawn.token = t THEN Withdrawn.amount ELSE 0]
    OBVIOUS
<1>4. Withdrawn.amount \in Int
    BY <1>1, <1>2, CurrentTyped DEF EpochInv
<1>5. ASSUME NEW t \in Token
      PROVE  Gone(t) \in Int /\ Gone(t)' = Gone(t) + paid[t]
    <2> PICK n : n = epoch.next
        OBVIOUS
    <2>1. n \in Nat /\ n >= 1 /\ n <= Len(epoch.withdrawals)
        BY <1>2
    <2> PICK w : w = epoch.withdrawals
        OBVIOUS
    <2>2. /\ TotalOf(SubSeq(w, 1, n - 1), t) \in Int
          /\ TotalOf(SubSeq(w, 1, n), t)
                = TotalOf(SubSeq(w, 1, n - 1), t) + IF w[n].token = t THEN w[n].amount ELSE 0
        BY <1>2, <2>1, OneMoreGone
    <2>3. epoch'.next - 1 = n /\ epoch'.withdrawals = w
        BY <2>1 DEF DealtWith, SamePlan
    <2>4. Gone(t)' = TotalOf(SubSeq(w, 1, n), t)
        BY <2>3 DEF Gone
    <2> QED BY <1>0, <2>2, <2>4 DEF Gone, Withdrawn
<1>6. ASSUME NEW t \in Token
      PROVE  /\ Recorded(s, t) \in Int /\ SumOfDeposits(D, t) \in Int
             /\ Recorded(r, t)' = Recorded(s, t) + SumOfDeposits(D, t)
    <2>0. PICK old, new : /\ old = s.pendingDeposits \ epoch.before.pendingDeposits
                        /\ new = r.pendingDeposits \ epoch.before.pendingDeposits
        OBVIOUS
    <2>1. old \in SUBSET Deposit /\ IsFiniteSet(old)
        BY <1>3, <2>0, FS_Subset
    <2>2. Recorded(s, t) = SumOfDeposits(old, t) /\ Recorded(r, t)' = SumOfDeposits(new, t)
        BY <2>0 DEF Recorded, DealtWith, SamePlan
    <2>3. SumOfDeposits(old, t) \in Int
        BY <2>1, OwedIsTotal
    <2>4. CASE D = {}
        <3>1. new = old
            BY <2>0, <2>4 DEF SettlesItem
        <3> QED BY <2>2, <2>3, <2>4, <3>1, NothingOwed
    <2>5. ASSUME NEW d \in Deposit, D = {d}, d \notin s.pendingDeposits
          PROVE  /\ SumOfDeposits(D, t) \in Int
                 /\ SumOfDeposits(new, t) = SumOfDeposits(old, t) + SumOfDeposits(D, t)
        <3>1. new = old \cup {d} /\ d \notin old
            BY <1>3, <2>0, <2>5 DEF SettlesItem
        <3>2. SumOfDeposits(old \cup {d}, t) = SumOfDeposits(old, t) + Worth(d, t)
            BY <2>1, <3>1, OneMoreOwed
        <3>3. SumOfDeposits({d}, t) = Worth(d, t) /\ Worth(d, t) \in Int
            BY OneOwed
        <3> QED BY <2>5, <3>1, <3>2, <3>3
    <2> QED BY <2>2, <2>3, <2>4, <2>5
<1>7. ASSUME NEW t \in Token, Traded(t)'
      PROVE  Traded(t) /\ (o.executed => t \in {Withdrawn.token, o.token})
    <2> PICK outcomes : outcomes = epoch'.outcomes
        OBVIOUS
    <2> PICK n : n = epoch.next
        OBVIOUS
    <2>1. /\ DOMAIN epoch.outcomes = 1..n-1 /\ n \in Nat /\ n >= 1
        BY <1>2
    <2>2. /\ DOMAIN outcomes = 1..n /\ outcomes[n] = o
          /\ \A k \in 1..n-1 : outcomes[k] = epoch.outcomes[k]
        BY <1>2, <2>1 DEF DealtWith
    <2>3. \A k \in 1..n : outcomes[k].executed => t \in {epoch.withdrawals[k].token, outcomes[k].token}
        BY <1>7, <2>2 DEF Traded, DealtWith, SamePlan
    <2>4. \A k \in 1..n-1 : k \in 1..n
        BY <2>1
    <2>5. n \in 1..n
        BY <2>1
    <2>6. Traded(t)
        BY <2>1, <2>2, <2>3, <2>4 DEF Traded
    <2> QED BY <2>2, <2>3, <2>5, <2>6 DEF Withdrawn
<1>8. ASSUME NEW t \in Token
      PROVE  /\ r.balance[t][Executor] >= epoch.before.balance[t][Executor]
             /\ Even(r, t)'
    <2>0. PICK S, R, B, SE, RE, BE :
            /\ S = s.balance[t][Pool] /\ R = r.balance[t][Pool] /\ B = epoch.before.balance[t][Pool]
            /\ SE = s.balance[t][Executor] /\ RE = r.balance[t][Executor]
            /\ BE = epoch.before.balance[t][Executor]
        OBVIOUS
    <2>1. S \in Int /\ R \in Int /\ B \in Int /\ SE \in Int /\ RE \in Int /\ BE \in Int
        BY <1>2, <1>3, <2>0, HoldersTyped DEF LedgerState
    <2>2. SE >= BE /\ S + Gone(t) >= B + Recorded(s, t)
          /\ (Traded(t) => S + Gone(t) = B + Recorded(s, t))
        BY <2>0 DEF Ground, Even
    <2>3. /\ RE >= SE
          /\ R + paid[t] >= S + SumOfDeposits(D, t)
          /\ (o.executed => t \in {Withdrawn.token, o.token}) => R + paid[t] = S + SumOfDeposits(D, t)
        BY <1>0, <2>0 DEF SettlesItem
    <2>4. paid[t] \in Int
        BY <1>0, <1>4
    <2>5. R + (Gone(t) + paid[t]) >= B + (Recorded(s, t) + SumOfDeposits(D, t))
        BY SMTT(30), <1>5, <1>6, <2>1, <2>2, <2>3, <2>4, EvenAdds
    <2>6. Traded(t)' => R + (Gone(t) + paid[t]) = B + (Recorded(s, t) + SumOfDeposits(D, t))
        <3> SUFFICES ASSUME Traded(t)'
                     PROVE  R + (Gone(t) + paid[t]) = B + (Recorded(s, t) + SumOfDeposits(D, t))
            OBVIOUS
        <3>1. S + Gone(t) = B + Recorded(s, t) /\ R + paid[t] = S + SumOfDeposits(D, t)
            BY <1>7, <2>2, <2>3
        <3>2. /\ Gone(t) \in Int /\ paid[t] \in Int
              /\ Recorded(s, t) \in Int /\ SumOfDeposits(D, t) \in Int
            BY <1>5, <1>6, <2>4
        <3>3. PICK G, P, Q, W : /\ G = Gone(t) /\ P = paid[t]
                                /\ Q = Recorded(s, t) /\ W = SumOfDeposits(D, t)
            OBVIOUS
        <3>4. S \in Int /\ R \in Int /\ B \in Int
              /\ G \in Int /\ P \in Int /\ Q \in Int /\ W \in Int
            BY <2>1, <3>2, <3>3
        <3>5. S + G = B + Q /\ R + P = S + W
            BY <3>1, <3>3
        <3>6. R + (G + P) = B + (Q + W)
            BY <3>4, <3>5
        <3> QED BY <3>3, <3>6
    <2>7. R + Gone(t)' >= B + Recorded(r, t)' /\ (Traded(t)' => R + Gone(t)' = B + Recorded(r, t)')
        BY <1>5, <1>6, <2>5, <2>6
    <2>8. Even(r, t)'
        BY <2>0, <2>7 DEF Even, DealtWith, SamePlan
    <2> QED BY <2>0, <2>1, <2>2, <2>3, <2>8
<1>9. /\ epoch'.before = epoch.before
      /\ epoch.before.pendingDeposits \subseteq r.pendingDeposits
      /\ \A t \in Token : SpentNotes(t)' = SpentNotes(t) /\ r.notes[t] = s.notes[t]
    BY <1>3 DEF SettlesItem, DealtWith, SamePlan, SpentNotes
<1>10. \A t \in Token : r.notes[t] = epoch.before.notes[t] - SpentNotes(t)
    BY <1>9 DEF Ground
<1>11. Sane(r)' /\ Closed(r)'
    BY DEF SettlesItem, Sane, Closed
<1> QED BY <1>8, <1>9, <1>10, <1>11 DEF Ground

(* A plain payment is its withdrawal and nothing else.                     *)
LEMMA PlainGround ==
    ASSUME EpochInv, NEW s, s = Snapshot, Ground(s), NEW r, r = Snapshot',
           NEW cost \in 0..PlainReserve, PayPlain(cost)
    PROVE  Ground(r)'
<1>0. PICK o, rest, gasLeft :
        /\ o = Outcome(0, Withdrawn.token, 0, FALSE)
        /\ epoch' = [epoch EXCEPT !.next = epoch.next + 1, !.remaining = rest, !.gas = gasLeft,
                                  !.outcomes = Append(epoch.outcomes, o)]
    BY DEF PayPlain
<1>1. /\ ~Idle /\ epoch.next <= Len(epoch.withdrawals) /\ epoch \in EpochState /\ Placed
    BY DEF PayPlain, Settling, EpochInv, Typed
<1>2. DealtWith(o)
    BY <1>0, <1>1 DEF DealtWith, SamePlan, EpochState
<1>3. Withdrawn.token \in Token /\ Withdrawn.amount \in Nat
    BY <1>1, CurrentTyped DEF EpochInv, Placed
<1>4. /\ s.balance = balance /\ s.allowance = allowance /\ s.notes = notes
      /\ s.pendingDeposits = pendingDeposits /\ s.depositNonces = depositNonces
      /\ r.balance = balance' /\ r.allowance = allowance /\ r.notes = notes
      /\ r.pendingDeposits = pendingDeposits /\ r.depositNonces = depositNonces
    BY DEF Snapshot, PayPlain
<1>5. r \in LedgerState
    <2>1. Loop
        BY DEF Loop
    <2> QED BY <2>1, OthersTyped
<1>6. Sane(r) /\ Closed(r)
    BY <1>4, <1>5 DEF Ground, Sane, Closed
<1>7. ASSUME NEW t \in Token
      PROVE  /\ r.balance[t][Executor] >= s.balance[t][Executor]
             /\ r.balance[t][Pool] + (IF Withdrawn.token = t THEN Withdrawn.amount ELSE 0)
                    = s.balance[t][Pool]
    <2>1. balance \in [Token -> [Holder -> Int]]
        BY LedgerPieces DEF EpochInv, Typed
    <2>2. CASE t # Withdrawn.token
        <3>1. balance'[t] = balance[t]
            BY <1>3, <2>1, <2>2 DEF PayPlain
        <3>2. balance[t][Pool] \in Int /\ balance[t][Executor] \in Int
            BY <2>1, HoldersTyped
        <3> QED BY <1>4, <2>2, <3>1, <3>2
    <2>3. CASE t = Withdrawn.token
        <3>1. balance[t][Pool] \in Int /\ balance[t][Executor] \in Int
            BY <2>1, HoldersTyped
        <3>2. balance'[t] = [h \in Holder |-> IF h = Pool THEN balance[t][h] - Withdrawn.amount
                              ELSE IF h = Withdrawn.to THEN balance[t][h] + Withdrawn.amount
                              ELSE balance[t][h]]
            BY <2>1, <2>3 DEF PayPlain
        <3>3. /\ balance'[t][Pool] = balance[t][Pool] - Withdrawn.amount
              /\ \/ balance'[t][Executor] = balance[t][Executor] + Withdrawn.amount
                 \/ balance'[t][Executor] = balance[t][Executor]
            BY <3>2, HoldersTyped, GatewaysAssumption
        <3> QED BY <1>3, <1>4, <2>3, <3>1, <3>3
    <2> QED BY <2>2, <2>3
<1>8. ASSUME NEW t \in Token
      PROVE  /\ s.balance[t][Pool] + SumOfDeposits({}, t) = s.balance[t][Pool]
             /\ s.balance[t][Pool] \in Int
    <2>1. s.balance[t][Pool] \in Int
        BY HoldersTyped DEF Ground, Sane, LedgerState
    <2> QED BY <2>1, NothingOwed
<1>9. SettlesItem(s, r, {}, o)
    <2>1. s.pendingDeposits \cup {} = s.pendingDeposits
        OBVIOUS
    <2>2. ASSUME NEW t \in Token
          PROVE  /\ r.balance[t][Pool] + (IF Withdrawn.token = t THEN Withdrawn.amount ELSE 0)
                        = s.balance[t][Pool] + SumOfDeposits({}, t)
                 /\ s.balance[t][Pool] + SumOfDeposits({}, t) \in Int
        BY <1>7, <1>8
    <2> QED BY <1>4, <1>6, <1>7, <2>1, <2>2 DEF SettlesItem
<1> QED BY <1>1, <1>2, <1>9, MovesOn

(* A record with a nonce that was not used.                                *)
LEMMA RecordFresh ==
    ASSUME Typed, NEW s, Sane(s), s.pendingDeposits = pendingDeposits, s.depositNonces = depositNonces,
           NEW g \in Gateway, NEW t \in Token, NEW amount \in Nat, Record(g, t, amount)
    PROVE  \E d \in Deposit :
                /\ d \notin s.pendingDeposits /\ d.token = t /\ d.amount = amount
                /\ pendingDeposits' = s.pendingDeposits \cup {d}
                /\ IsFiniteSet(pendingDeposits')
                /\ \A e \in pendingDeposits' : e.nonce < depositNonces'[e.gateway]
<1>0. PICK d : d = [gateway |-> g, nonce |-> depositNonces[g], token |-> t, amount |-> amount]
    OBVIOUS
<1>1. /\ depositNonces \in [Gateway -> Nat] /\ pendingDeposits \in SUBSET Deposit
    BY LedgerPieces DEF Typed
<1>2. /\ d \in Deposit /\ d.gateway = g /\ d.nonce = depositNonces[g] /\ d.token = t /\ d.amount = amount
    BY <1>0, <1>1 DEF Deposit
<1>3. /\ pendingDeposits' = pendingDeposits \cup {d}
      /\ depositNonces' = [depositNonces EXCEPT ![g] = depositNonces[g] + 1]
    BY <1>0 DEF Record
<1>4. d \notin pendingDeposits
    BY <1>1, <1>2 DEF Sane
<1>5. IsFiniteSet(pendingDeposits')
    BY <1>3, FS_AddElement DEF Sane
<1>6. ASSUME NEW e \in pendingDeposits'
      PROVE  e.nonce < depositNonces'[e.gateway]
    <2>1. CASE e = d
        BY <1>1, <1>2, <1>3, <2>1
    <2>2. CASE e # d
        <3>1. e \in pendingDeposits
            BY <1>3, <2>2
        <3>2. e.gateway \in Gateway /\ e.nonce \in Nat /\ e.nonce < depositNonces[e.gateway]
            BY <1>1, <3>1 DEF Sane, Deposit
        <3> QED BY <1>1, <1>3, <3>2
    <2> QED BY <2>1, <2>2
<1> QED BY <1>2, <1>3, <1>4, <1>5, <1>6

(* A slot that falls back gives the input to its user.                     *)
LEMMA FallbackGround ==
    ASSUME EpochInv, InSlot, FrameMoney, NEW s, s = call.before, Ground(s), NEW r, r = Snapshot',
           NEW gasLeft \in Int, SettleFallback(gasLeft), r \in LedgerState,
           balance' = s.balance, notes' = notes, Closed(r)
    PROVE  Ground(r)'
<1>1. /\ ~Idle /\ epoch \in EpochState /\ Placed
      /\ epoch.next <= Len(epoch.withdrawals)
      /\ Withdrawn.token \in Token /\ Withdrawn.amount \in Nat /\ Withdrawn.to \in Gateway
    BY SlotInFrame DEF EpochInv, Typed, Placed
<1>2. /\ s.notes = notes /\ s.pendingDeposits = pendingDeposits /\ s.depositNonces = depositNonces
      /\ r.balance = s.balance /\ r.notes = notes
      /\ r.pendingDeposits = pendingDeposits' /\ r.depositNonces = depositNonces'
    BY DEF FrameMoney, SameRecords, Snapshot
<1>3. Record(Withdrawn.to, Withdrawn.token, Withdrawn.amount)
    BY DEF SettleFallback
<1>4. PICK d \in Deposit :
                /\ d \notin s.pendingDeposits /\ d.token = Withdrawn.token /\ d.amount = Withdrawn.amount
                /\ pendingDeposits' = s.pendingDeposits \cup {d}
                /\ IsFiniteSet(pendingDeposits')
                /\ \A e \in pendingDeposits' : e.nonce < depositNonces'[e.gateway]
    BY <1>1, <1>2, <1>3, RecordFresh DEF EpochInv, Ground
<1>5. Sane(r)
    BY <1>2, <1>4 DEF Sane
<1>6. PICK o : o = Outcome(epoch.cursor, Withdrawn.token, Withdrawn.amount, FALSE)
    OBVIOUS
<1>7. DealtWith(o)
    BY <1>1, <1>6 DEF SettleFallback, SlotSettled, DealtWith, SamePlan, EpochState
<1>8. ASSUME NEW t \in Token
      PROVE  /\ r.balance[t][Executor] >= s.balance[t][Executor]
             /\ r.balance[t][Pool] + (IF Withdrawn.token = t THEN Withdrawn.amount ELSE 0)
                    = s.balance[t][Pool] + SumOfDeposits({d}, t)
             /\ s.balance[t][Pool] + SumOfDeposits({d}, t) \in Int
    <2>1. s.balance[t][Pool] \in Int /\ s.balance[t][Executor] \in Int
        BY HoldersTyped DEF Ground, Sane, LedgerState
    <2>2. SumOfDeposits({d}, t) = IF Withdrawn.token = t THEN Withdrawn.amount ELSE 0
        BY <1>4, OneOwed DEF Worth
    <2> QED BY <1>1, <1>2, <2>1, <2>2
<1>9. SettlesItem(s, r, {d}, o)
    <2>1. /\ r.pendingDeposits = s.pendingDeposits \cup {d} /\ r.notes = s.notes
        BY <1>2, <1>4
    <2>2. ASSUME NEW t \in Token
          PROVE  LET left == r.balance[t][Pool]
                                + IF Withdrawn.token = t THEN Withdrawn.amount ELSE 0
                     owed == s.balance[t][Pool] + SumOfDeposits({d}, t)
                 IN  /\ r.balance[t][Executor] >= s.balance[t][Executor]
                     /\ left >= owed
                     /\ (o.executed => t \in {Withdrawn.token, o.token}) => left = owed
        <3>1. PICK left, owed :
                    /\ left = r.balance[t][Pool] + (IF Withdrawn.token = t THEN Withdrawn.amount ELSE 0)
                    /\ owed = s.balance[t][Pool] + SumOfDeposits({d}, t)
            OBVIOUS
        <3>2. left = owed /\ owed \in Int
            BY <1>8, <3>1
        <3>3. left >= owed
            BY <3>2
        <3> QED BY <1>8, <3>1, <3>2, <3>3
    <2> QED BY <1>5, <2>1, <2>2 DEF SettlesItem
<1> QED BY <1>1, <1>4, <1>7, <1>9, MovesOn

(* A slot that is executed gives what came back to its user.               *)
LEMMA ExecutedGround ==
    ASSUME EpochInv, InSlot, FrameMoney, NEW s, s = call.before, Ground(s), NEW r, r = Snapshot',
           r \in LedgerState,
           NEW overhead \in Overhead, NEW cost \in 0..PostReserve, SettleExecuted(overhead, cost)
    PROVE  Ground(r)'
<1>1. /\ ~Idle /\ epoch \in EpochState /\ Placed
      /\ epoch.next <= Len(epoch.withdrawals)
      /\ Withdrawn.token \in Token /\ Withdrawn.amount \in Nat /\ Withdrawn.to \in Gateway
      /\ Slot.outputToken \in Token /\ Slot.outputToken # Withdrawn.token
      /\ call.stage = "returned"
    BY SlotInFrame DEF EpochInv, Typed, Placed, CalledInTime, PrimaryShape, SettleExecuted, Stage
<1>2. /\ s.notes = notes /\ s.pendingDeposits = pendingDeposits /\ s.depositNonces = depositNonces
      /\ r.balance = balance /\ r.notes = notes /\ r.allowance = allowance'
      /\ r.pendingDeposits = pendingDeposits' /\ r.depositNonces = depositNonces'
    BY DEF FrameMoney, SameRecords, Snapshot, SettleExecuted
<1>3. PICK delta, out : delta = OutputDelta /\ out = Slot.outputToken
    OBVIOUS
<1>4. delta \in Nat
    BY <1>3, DeltaTyped DEF SettleExecuted
<1>5. Record(Withdrawn.to, out, delta)
    BY <1>3 DEF SettleExecuted
<1>6. out \in Token /\ out # Withdrawn.token
    BY <1>1, <1>3
<1>7. PICK d \in Deposit :
                /\ d \notin s.pendingDeposits /\ d.token = out /\ d.amount = delta
                /\ pendingDeposits' = s.pendingDeposits \cup {d}
                /\ IsFiniteSet(pendingDeposits')
                /\ \A e \in pendingDeposits' : e.nonce < depositNonces'[e.gateway]
    BY <1>1, <1>2, <1>4, <1>5, <1>6, RecordFresh DEF EpochInv, Ground
<1>8. Sane(r)
    BY <1>2, <1>7 DEF Sane
<1>9. PICK o : o = Outcome(epoch.cursor, out, delta, TRUE)
    OBVIOUS
<1>10. DealtWith(o) /\ o.executed /\ o.token = out
    BY <1>1, <1>3, <1>9 DEF SettleExecuted, SlotSettled, DealtWith, SamePlan, EpochState, Outcome
<1>11. /\ balance \in [Token -> [Holder -> Int]] /\ allowance \in [Token -> [Holder -> Int]]
       /\ s \in LedgerState
    BY LedgerPieces DEF EpochInv, Typed, Ground, Sane
<1>12. /\ \A t \in Token : StashUntouched(t)
       /\ \A t \in Token : t # Withdrawn.token =>
                allowance[t][Pool] = 0 /\ balance[t][Pool] >= s.balance[t][Pool]
    BY <1>1 DEF FrameMoney, OnlyInputLeaves
<1>13. Closed(r)
    <2> SUFFICES ASSUME NEW t \in Token, NEW h \in Holder PROVE allowance'[t][h] = 0
        BY <1>2 DEF Closed
    <2>1. allowance' = [allowance EXCEPT ![Withdrawn.token][Pool] = 0]
        BY DEF SettleExecuted, ResetApproval
    <2>2. allowance[t][Executor] = 0 /\ (t # Withdrawn.token => allowance[t][Pool] = 0)
        BY <1>12 DEF StashUntouched
    <2> QED BY <1>1, <1>11, <2>1, <2>2, GatewaysAssumption DEF Holder
<1>14. ASSUME NEW t \in Token
       PROVE  LET left == r.balance[t][Pool]
                            + IF Withdrawn.token = t THEN Withdrawn.amount ELSE 0
                  owed == s.balance[t][Pool] + SumOfDeposits({d}, t)
              IN  /\ r.balance[t][Executor] >= s.balance[t][Executor]
                  /\ left >= owed
                  /\ (o.executed => t \in {Withdrawn.token, o.token}) => left = owed
    <2>1. PICK now, then, amount :
                now = balance[t][Pool] /\ then = s.balance[t][Pool] /\ amount = Withdrawn.amount
        OBVIOUS
    <2>2. now \in Int /\ then \in Int /\ amount \in Int
        <3>1. s.balance \in [Token -> [Holder -> Int]]
            BY <1>11 DEF LedgerState
        <3>2. balance[t][Pool] \in Int /\ s.balance[t][Pool] \in Int
            BY <1>11, <3>1, HoldersTyped
        <3> QED BY <1>1, <2>1, <3>2
    <2>3. r.balance[t][Executor] >= s.balance[t][Executor]
        BY <1>2, <1>12 DEF StashUntouched
    <2>4. SumOfDeposits({d}, t) = IF out = t THEN delta ELSE 0
        BY <1>7, OneOwed DEF Worth
    <2>5. r.balance[t][Pool] = now
        BY <1>2, <2>1
    <2>6. CASE t = Withdrawn.token
        <3>1. now + amount = then
            BY <2>1, <2>6 DEF SettleExecuted, InputConsumed
        <3>2. SumOfDeposits({d}, t) = 0 /\ then + 0 = then /\ then >= then
            BY <1>6, <2>2, <2>4, <2>6
        <3> QED BY <2>1, <2>3, <2>5, <2>6, <3>1, <3>2
    <2>7. CASE t = out
        <3>1. delta = now - then
            BY <1>3, <2>1, <2>7 DEF OutputDelta
        <3>2. now + 0 = then + delta /\ now + 0 >= then + delta
            BY <2>2, <3>1
        <3> QED BY <1>6, <2>1, <2>3, <2>4, <2>5, <2>7, <3>2
    <2>8. CASE t # Withdrawn.token /\ t # out
        <3>1. now >= then
            BY <1>12, <2>1, <2>8
        <3>2. now + 0 >= then + 0
            BY <2>2, <3>1
        <3> QED BY <1>10, <2>1, <2>3, <2>4, <2>5, <2>8, <3>2
    <2> QED BY <2>6, <2>7, <2>8
<1>15. SettlesItem(s, r, {d}, o)
    BY <1>2, <1>7, <1>8, <1>13, <1>14 DEF SettlesItem
<1> QED BY <1>1, <1>7, <1>10, <1>15, MovesOn

(* However a slot is settled, the epoch is even after it.                  *)
LEMMA SettleGround ==
    ASSUME EpochInv, InSlot, FrameMoney, NEW s, s = call.before, Ground(s), NEW r, r = Snapshot',
           SettleSlot
    PROVE  Ground(r)'
<1>1. PICK overhead \in Overhead, cost \in 0..PostReserve :
        \/ SettleExpired(overhead, cost)
        \/ SettleExecuted(overhead, cost)
        \/ SettleFailed(overhead, cost)
        \/ \E kept \in 0..PostReserve : SettleStarved(kept, overhead, cost)
    BY DEF SettleSlot
<1>2. r \in LedgerState /\ r.allowance = allowance'
    BY SettleSlotTyped DEF Snapshot
<1>3. s \in LedgerState /\ Closed(s) /\ Withdrawn.token \in Token
    BY SlotInFrame DEF Ground, Sane
<1>4. CASE SettleExpired(overhead, cost)
    <2>1. PICK left : left = GasAfterFrame(call.gas - cost, overhead)
        OBVIOUS
    <2>2. /\ SettleFallback(left) /\ EnoughForRecovery /\ call.stage = "opened"
          /\ balance' = balance /\ allowance' = allowance /\ notes' = notes
        BY <1>4, <2>1 DEF SettleExpired, Stage
    <2>3. left \in Int
        BY <2>1, <2>2, EndedWithGas
    <2>4. balance' = s.balance /\ Closed(r)
        BY <1>2, <2>2 DEF FrameMoney, NothingLent, Closed
    <2> QED BY <1>2, <2>2, <2>3, <2>4, FallbackGround
<1>5. CASE SettleExecuted(overhead, cost)
    BY <1>2, <1>5, ExecutedGround
<1>6. CASE SettleFailed(overhead, cost)
    <2>1. PICK left : left = GasAfterFrame(call.gas - cost, overhead)
        OBVIOUS
    <2>2. /\ SettleFallback(left) /\ EnoughForRecovery
          /\ balance' = s.balance /\ allowance' = [s.allowance EXCEPT ![Withdrawn.token][Pool] = 0]
          /\ notes' = notes
        BY <1>6, <2>1 DEF SettleFailed, UndoGatewayCall
    <2>3. left \in Int
        BY <2>1, <2>2, EndedWithGas
    <2>4. Closed(r)
        BY <1>2, <1>3, <2>2, HoldersTyped DEF Closed, LedgerState
    <2> QED BY <1>2, <2>2, <2>3, <2>4, FallbackGround
<1>7. CASE \E kept \in 0..PostReserve : SettleStarved(kept, overhead, cost)
    <2>1. PICK kept \in 0..PostReserve : SettleStarved(kept, overhead, cost)
        BY <1>7
    <2>2. PICK rest : rest = GasAfterFrame(kept, overhead)
        OBVIOUS
    <2>3. /\ SettleFallback(rest - cost)
          /\ balance' = s.balance /\ allowance' = s.allowance /\ notes' = notes
        BY <2>1, <2>2 DEF SettleStarved
    <2>4. rest \in Int
        BY <2>2, GasLeft
    <2>5. rest - cost \in Int
        BY <2>4, ReservesAssumption
    <2>6. Closed(r)
        BY <1>2, <1>3, <2>3 DEF Closed
    <2> QED BY <1>2, <2>3, <2>5, <2>6, FallbackGround
<1> QED BY <1>1, <1>4, <1>5, <1>6, <1>7

-----------------------------------------------------------------------------
(* Within the frame of a slot.                                             *)

(* What was there when the frame was entered.                              *)
LEMMA FrameTypes ==
    ASSUME EpochInv, InSlot
    PROVE  /\ balance \in [Token -> [Holder -> Int]] /\ allowance \in [Token -> [Holder -> Int]]
           /\ call.before.balance \in [Token -> [Holder -> Int]]
           /\ Withdrawn.token \in Token /\ Withdrawn.amount \in Nat
           /\ Slot.outputToken \in Token /\ Slot.minOutputAmount \in Nat
<1>1. call.before \in LedgerState
    BY SlotInFrame DEF CallState
<1> QED BY <1>1, SlotInFrame, LedgerPieces DEF EpochInv, Typed, LedgerState

(* The frame moves on and records nothing.                                 *)
StageMoves(stage) ==
    /\ UNCHANGED <<epoch, notes, pendingDeposits, depositNonces>>
    /\ InSlot' /\ call'.before = call.before /\ call'.stage = stage

LEMMA StageMoved ==
    ASSUME EpochInv, NEW stage, NEW gasLeft, FrameMoves(stage, gasLeft),
           UNCHANGED <<notes, pendingDeposits, depositNonces>>
    PROVE  StageMoves(stage)
<1>1. call \in CallState
    BY SlotInFrame DEF FrameMoves
<1>2. call'.before = call.before /\ call'.stage = stage
    BY <1>1 DEF FrameMoves, CallState
<1>3. InSlot'
    BY FrameKeeps, NoneAssumption DEF InSlot
<1> QED BY <1>2, <1>3 DEF StageMoves, FrameMoves

(* The gateway may take the input of its slot.                             *)
LEMMA ApproveMoney ==
    ASSUME EpochInv, InSlot, FrameMoney, ApproveGateway, StageMoves("approved")
    PROVE  FrameMoney'
<1>1. /\ balance = call.before.balance /\ NothingLent /\ SameRecords
    BY DEF ApproveGateway, Stage, FrameMoney
<1>2. /\ call'.stage = "approved" /\ call'.before = call.before /\ balance' = balance
      /\ epoch' = epoch
    BY DEF StageMoves, ApproveGateway
<1>3. SameRecords'
    BY <1>1 DEF StageMoves, SameRecords
<1>4. InputLent'
    <2>1. Withdrawn' = Withdrawn
        BY <1>2 DEF Withdrawn
    <2>2. ASSUME NEW t \in Token, NEW h \in Holder
          PROVE  allowance'[t][h] = IF t = Withdrawn.token /\ h = Pool THEN Withdrawn.amount ELSE 0
        BY <1>1, FrameTypes DEF ApproveGateway, NothingLent
    <2> QED BY <2>1, <2>2 DEF InputLent
<1> QED BY <1>1, <1>2, <1>3, <1>4 DEF FrameMoney

(* While a target is at work.                                              *)
LEMMA CallsMoney ==
    ASSUME EpochInv, InSlot, FrameMoney, ExecutorCalls \/ ForeignCalls, StageMoves("target")
    PROVE  FrameMoney'
<1>1. /\ balance = call.before.balance /\ InputLent /\ SameRecords
    BY DEF ExecutorCalls, ForeignCalls, Stage, FrameMoney
<1>2. /\ call'.stage = "target" /\ call'.before = call.before
      /\ Withdrawn' = Withdrawn
    BY DEF StageMoves, Withdrawn
<1>3. SameRecords'
    BY <1>1 DEF StageMoves, SameRecords
<1>4. ASSUME NEW t \in Token
      PROVE  /\ t # Withdrawn.token =>
                    /\ allowance'[t] = allowance[t] /\ balance'[t] = balance[t]
             /\ Withdrawn.to # Executor =>
                    /\ allowance'[t] = allowance[t] /\ balance'[t] = balance[t]
    <2>1. CASE ForeignCalls
        BY <2>1 DEF ForeignCalls, ledger
    <2>2. CASE ExecutorCalls
        <3>1. Withdrawn.to = Executor
            BY <2>2 DEF ExecutorCalls
        <3>2. ASSUME t # Withdrawn.token
              PROVE  allowance'[t] = allowance[t] /\ balance'[t] = balance[t]
            <4>0. PICK s, a : s = Withdrawn.token /\ a = Withdrawn.amount
                OBVIOUS
            <4>1. /\ allowance' = [allowance EXCEPT ![s][Pool] = @ - a, ![s][Executor] = a]
                  /\ balance' = [balance EXCEPT ![s][Pool] = @ - a, ![s][Executor] = @ + a]
                BY <2>2, <4>0 DEF ExecutorCalls
            <4>2. s \in Token /\ t # s
                BY <3>2, <4>0, FrameTypes
            <4>3. allowance'[t] = allowance[t]
                BY <4>1, <4>2, FrameTypes
            <4>4. balance'[t] = balance[t]
                BY <4>1, <4>2, FrameTypes
            <4> QED BY <4>3, <4>4
        <3> QED BY <3>1, <3>2
    <2> QED BY <2>1, <2>2
<1>5. ASSUME NEW t \in Token
      PROVE  /\ t # Withdrawn.token => allowance[t][Pool] = 0
             /\ allowance[t][Executor] = 0
             /\ balance[t][Pool] >= call.before.balance[t][Pool]
             /\ balance[t][Executor] >= call.before.balance[t][Executor]
    <2>1. balance[t][Pool] \in Int /\ balance[t][Executor] \in Int
        BY FrameTypes, HoldersTyped
    <2> QED BY <1>1, <2>1, HoldersTyped, GatewaysAssumption DEF InputLent
<1>6. OnlyInputLeaves'
    BY <1>2, <1>4, <1>5 DEF OnlyInputLeaves
<1>7. ASSUME NEW t \in Token, t # Withdrawn.token \/ Withdrawn.to # Executor
      PROVE  StashUntouched(t)'
    BY <1>2, <1>4, <1>5, <1>7 DEF StashUntouched
<1> QED BY <1>2, <1>3, <1>6, <1>7 DEF FrameMoney

(* What is left is sent to the pool, and the input was used up.            *)
LEMMA ReturnsMoney ==
    ASSUME EpochInv, InSlot, FrameMoney, ExecutorReturns \/ ForeignReturns, StageMoves("returned")
    PROVE  FrameMoney'
<1>1. /\ SameRecords /\ OnlyInputLeaves
      /\ \A t \in Token : t # Withdrawn.token \/ Withdrawn.to # Executor => StashUntouched(t)
    BY DEF ExecutorReturns, ForeignReturns, Stage, FrameMoney
<1>2. /\ call'.stage = "returned" /\ call'.before = call.before
      /\ Withdrawn' = Withdrawn
    BY DEF StageMoves, Withdrawn
<1>3. SameRecords'
    BY <1>1 DEF StageMoves, SameRecords
<1>4. CASE ForeignReturns
    <2>1. balance' = balance /\ allowance' = allowance /\ Withdrawn.to # Executor
        BY <1>4, GatewaysAssumption DEF ForeignReturns, ledger
    <2>2. OnlyInputLeaves'
        BY <1>1, <1>2, <2>1 DEF OnlyInputLeaves
    <2>3. \A t \in Token : StashUntouched(t)'
        BY <1>1, <1>2, <2>1 DEF StashUntouched
    <2> QED BY <1>2, <1>3, <2>2, <2>3 DEF FrameMoney
<1>5. CASE ExecutorReturns
    <2>0. PICK in, out, a, then :
                /\ in = Withdrawn.token /\ out = Slot.outputToken /\ a = OutputAtExecutor
                /\ then = call.before.balance
        OBVIOUS
    <2>1. /\ in \in Token /\ out \in Token /\ out # in
          /\ then \in [Token -> [Holder -> Int]] /\ Slot.minOutputAmount \in Nat
        BY <1>5, <2>0, FrameTypes DEF EpochInv, CalledInTime, PrimaryShape, ExecutorReturns, Stage, Typed
    <2>2. a = balance[out][Executor] - then[out][Executor] /\ a >= Slot.minOutputAmount
          /\ balance[in][Executor] = then[in][Executor]
        BY <1>5, <2>0 DEF OutputAtExecutor, ExecutorReturns, InputUntouched
    <2>3. balance[out][Executor] \in Int /\ then[out][Executor] \in Int
        BY <2>1, FrameTypes, HoldersTyped
    <2>4. a \in Int /\ a >= 0 /\ balance[out][Executor] - a = then[out][Executor]
        BY <2>1, <2>2, <2>3
    <2>5. /\ balance' = [balance EXCEPT ![out][Executor] = @ - a, ![out][Pool] = @ + a]
          /\ allowance' = [allowance EXCEPT ![in][Executor] = 0]
        BY <1>5, <2>0 DEF ExecutorReturns
    <2>6. ASSUME NEW t \in Token
          PROVE  /\ allowance'[t][Pool] = allowance[t][Pool]
                 /\ allowance'[t][Executor] = IF t = in THEN 0 ELSE allowance[t][Executor]
        BY <2>1, <2>5, FrameTypes, HoldersTyped, GatewaysAssumption
    <2>7. ASSUME NEW t \in Token
          PROVE  /\ balance'[t][Executor] = IF t = out THEN then[t][Executor] ELSE balance[t][Executor]
                 /\ balance'[t][Pool] = IF t = out THEN balance[t][Pool] + a ELSE balance[t][Pool]
        <3>1. /\ t # out => balance'[t] = balance[t]
              /\ balance'[out][Executor] = balance[out][Executor] - a
              /\ balance'[out][Pool] = balance[out][Pool] + a
            BY <2>1, <2>4, <2>5, FrameTypes, HoldersTyped, GatewaysAssumption
        <3> QED BY <2>1, <2>4, <3>1
    <2>8. OnlyInputLeaves'
        <3> SUFFICES ASSUME NEW t \in Token, t # in
                     PROVE  allowance'[t][Pool] = 0 /\ balance'[t][Pool] >= then[t][Pool]
            BY <1>2, <2>0 DEF OnlyInputLeaves
        <3>1. allowance[t][Pool] = 0 /\ balance[t][Pool] >= then[t][Pool]
            BY <1>1, <2>0 DEF OnlyInputLeaves
        <3>2. balance[t][Pool] \in Int /\ then[t][Pool] \in Int
            BY <2>1, FrameTypes, HoldersTyped
        <3>3. balance[t][Pool] + a >= then[t][Pool]
            BY <2>4, <3>1, <3>2
        <3> QED BY <2>6, <2>7, <3>1, <3>3
    <2>9. ASSUME NEW t \in Token PROVE StashUntouched(t)'
        <3>1. balance[t][Executor] \in Int /\ then[t][Executor] \in Int
            BY <2>1, FrameTypes, HoldersTyped
        <3>2. t # in => allowance[t][Executor] = 0 /\ balance[t][Executor] >= then[t][Executor]
            BY <1>1, <2>0 DEF StashUntouched
        <3>3. allowance'[t][Executor] = 0
            BY <2>6, <3>2
        <3>4. balance'[t][Executor] >= then[t][Executor]
            BY <2>2, <2>7, <3>1, <3>2
        <3> QED BY <1>2, <2>0, <3>3, <3>4 DEF StashUntouched
    <2> QED BY <1>2, <1>3, <2>8, <2>9 DEF FrameMoney
<1> QED BY <1>4, <1>5

(* Gas is no money.                                                        *)
LEMMA BurnMoney ==
    ASSUME EpochInv, InSlot, FrameMoney, NEW left, BurnGas(left), StageMoves("target")
    PROVE  FrameMoney'
<1>1. /\ SameRecords /\ OnlyInputLeaves
      /\ \A t \in Token : t # Withdrawn.token \/ Withdrawn.to # Executor => StashUntouched(t)
    BY DEF BurnGas, Stage, FrameMoney
<1>2. /\ call'.stage = "target" /\ call'.before = call.before
      /\ Withdrawn' = Withdrawn /\ balance' = balance /\ allowance' = allowance
    BY DEF StageMoves, Withdrawn, BurnGas, ledger
<1> QED BY <1>1, <1>2 DEF StageMoves, FrameMoney, SameRecords, OnlyInputLeaves, StashUntouched

(* Foreign code takes what it may take, and no more.                       *)
LEMMA ForeignMoney ==
    ASSUME EpochInv, InSlot, FrameMoney, NEW t \in Token, NEW h \in Holder,
           PayIn(t, h) \/ \E amount \in 1..MaxAmount : SpendAllowance(t, h, amount)
    PROVE  FrameMoney'
<1>1. /\ ~Idle /\ call.stage = "target"
    BY SlotInFrame DEF PayIn, SpendAllowance, Stage
<1>2. /\ SameRecords /\ OnlyInputLeaves
      /\ \A u \in Token : u # Withdrawn.token \/ Withdrawn.to # Executor => StashUntouched(u)
    BY <1>1 DEF FrameMoney
<1>3. /\ call' = call /\ Withdrawn' = Withdrawn /\ SameRecords'
    BY <1>2 DEF PayIn, SpendAllowance, Withdrawn, SameRecords
<1>4. /\ balance \in [Token -> [Holder -> Int]] /\ allowance \in [Token -> [Holder -> Int]]
    BY FrameTypes
<1>5. CASE PayIn(t, h)
    <2>1. /\ balance' = [balance EXCEPT ![t][h] = @ + 1] /\ allowance' = allowance
        BY <1>5 DEF PayIn
    <2>2. \A u \in Token, k \in Holder :
            balance'[u][k] = balance[u][k] \/ balance'[u][k] = balance[u][k] + 1
        BY <1>4, <2>1
    <2>3. ASSUME NEW u \in Token, NEW k \in Holder, NEW then \in Int, balance[u][k] >= then
          PROVE  balance'[u][k] >= then
        <3>1. balance[u][k] \in Int
            BY <1>4
        <3> QED BY <2>2, <2>3, <3>1
    <2>4. \A u \in Token, k \in Holder : call.before.balance[u][k] \in Int
        BY FrameTypes
    <2>5. OnlyInputLeaves'
        BY <1>2, <1>3, <2>1, <2>3, <2>4, HoldersTyped DEF OnlyInputLeaves
    <2>6. \A u \in Token : u # Withdrawn.token \/ Withdrawn.to # Executor => StashUntouched(u)'
        BY <1>2, <1>3, <2>1, <2>3, <2>4, HoldersTyped DEF StashUntouched
    <2> QED BY <1>1, <1>3, <2>5, <2>6 DEF FrameMoney
<1>6. ASSUME NEW amount \in 1..MaxAmount, SpendAllowance(t, h, amount)
      PROVE  FrameMoney'
    <2>1. /\ balance' = [balance EXCEPT ![t][h] = @ - amount]
          /\ allowance' = [allowance EXCEPT ![t][h] = @ - amount]
          /\ amount <= allowance[t][h]
        BY <1>6 DEF SpendAllowance
    <2>2. allowance[t][h] # 0
        BY <1>4, <2>1, BoundsAssumption
    <2>3. h = Pool => t = Withdrawn.token
        BY <1>2, <2>2 DEF OnlyInputLeaves
    <2>4. h = Executor => t = Withdrawn.token /\ Withdrawn.to = Executor
        BY <1>2, <2>2 DEF StashUntouched
    <2>5. \A u \in Token, k \in Holder : u # t \/ k # h =>
                balance'[u][k] = balance[u][k] /\ allowance'[u][k] = allowance[u][k]
        BY <1>4, <2>1
    <2>6. OnlyInputLeaves'
        BY <1>2, <1>3, <2>3, <2>4, <2>5, HoldersTyped DEF OnlyInputLeaves, Holder
    <2>7. \A u \in Token : u # Withdrawn.token \/ Withdrawn.to # Executor => StashUntouched(u)'
        BY <1>2, <1>3, <2>3, <2>4, <2>5, HoldersTyped, GatewaysAssumption DEF StashUntouched, Holder
    <2> QED BY <1>1, <1>3, <2>6, <2>7 DEF FrameMoney
<1> QED BY <1>5, <1>6

-----------------------------------------------------------------------------
(* How an epoch begins and ends, and what happens between epochs.          *)

(* An epoch begins with the state before it, less the notes that are spent. *)
LEMMA BeginMoney ==
    ASSUME EpochInv, NEW s, s = Snapshot, AtRest(s), NEW r, r = Snapshot', Begin
    PROVE  epoch'.before = s /\ Ground(r)'
<1>1. PICK b \in Batches, spare \in SpareGas, simulated \in BOOLEAN :
            /\ Open(b, spare, simulated)
            /\ notes' = [t \in Token |-> notes[t] - IF simulated THEN 0 ELSE TotalOf(b.withdrawals, t)]
    <2>1. PICK b \in Batches, spare \in SpareGas :
                SubmitEpoch(b, spare) \/ SimulateGatewayWithdrawals(b, spare)
        BY DEF Begin
    <2>2. CASE SubmitEpoch(b, spare)
        <3>1. /\ Open(b, spare, FALSE)
              /\ notes' = [t \in Token |-> notes[t] - IF FALSE THEN 0 ELSE TotalOf(b.withdrawals, t)]
            BY <2>2 DEF SubmitEpoch
        <3> QED BY <3>1
    <2>3. CASE SimulateGatewayWithdrawals(b, spare)
        <3>1. notes \in [Token -> Int]
            BY LedgerPieces DEF EpochInv, Typed
        <3>2. /\ Open(b, spare, TRUE)
              /\ notes' = [t \in Token |-> notes[t] - IF TRUE THEN 0 ELSE TotalOf(b.withdrawals, t)]
            <4>1. \A t \in Token : notes[t] - 0 = notes[t]
                BY <3>1
            <4>2. notes = [t \in Token |-> notes[t] - 0]
                BY <3>1, <4>1
            <4> QED BY <2>3, <4>2 DEF SimulateGatewayWithdrawals
        <3> QED BY <3>2
    <2> QED BY <2>1, <2>2, <2>3
<1>2. /\ epoch'.withdrawals = b.withdrawals /\ epoch'.next = 1 /\ epoch'.outcomes = <<>>
      /\ epoch'.simulated = simulated /\ epoch'.before = s
    BY <1>1 DEF Open
<1>3. /\ s.balance = balance /\ s.allowance = allowance /\ s.notes = notes
      /\ s.pendingDeposits = pendingDeposits /\ s.depositNonces = depositNonces
      /\ r.balance = balance /\ r.allowance = allowance /\ r.notes = notes'
      /\ r.pendingDeposits = pendingDeposits /\ r.depositNonces = depositNonces
    BY <1>1 DEF Open, Snapshot
<1>4. r \in LedgerState
    BY OthersTyped
<1>5. Sane(r) /\ Closed(r)
    BY <1>3, <1>4 DEF AtRest, Sane, Closed
<1>6. b.withdrawals \in Seq(Withdrawal)
    BY BatchesAssumption
<1>7. ASSUME NEW t \in Token
      PROVE  /\ r.notes[t] = s.notes[t] - SpentNotes(t)'
             /\ r.balance[t][Executor] >= s.balance[t][Executor]
             /\ Even(r, t)'
    <2>1. r.notes[t] = s.notes[t] - SpentNotes(t)'
        BY <1>1, <1>2, <1>3 DEF SpentNotes
    <2>2. Gone(t)' = 0
        <3>1. Gone(t)' = TotalOf(SubSeq(b.withdrawals, 1, 1 - 1), t)
            BY <1>2 DEF Gone
        <3>2. TotalOf(SubSeq(b.withdrawals, 1, 0), t) = 0
            BY <1>6, NoneGone
        <3> QED BY <3>1, <3>2
    <2>3. Recorded(r, t)' = 0
        <3>1. r.pendingDeposits \ s.pendingDeposits = {}
            BY <1>3
        <3> QED BY <1>2, <3>1, NothingOwed DEF Recorded
    <2>4. r.balance[t] = s.balance[t] /\ s.balance[t][Pool] \in Int /\ s.balance[t][Executor] \in Int
        BY <1>3, HoldersTyped DEF AtRest, Sane, LedgerState
    <2>5. Even(r, t)'
        BY <1>2, <2>2, <2>3, <2>4 DEF Even
    <2> QED BY <2>1, <2>4, <2>5
<1>8. epoch'.before.pendingDeposits \subseteq r.pendingDeposits
    BY <1>2, <1>3
<1>9. Sane(r)' /\ Closed(r)'
    BY <1>5 DEF Sane, Closed
<1> QED BY <1>2, <1>7, <1>8, <1>9 DEF Ground

(* An epoch that ends leaves the pool with what it owes: what was paid out *)
(* is no longer owed to notes, what was recorded came in.                  *)
LEMMA FinishMoney ==
    ASSUME EpochInv, ~Idle, AtRest(epoch.before), NEW s, s = Snapshot, Ground(s), FinishEpoch
    PROVE  AtRest(s)
<1>1. /\ epoch \in EpochState /\ Placed /\ ~epoch.simulated
      /\ epoch.next > Len(epoch.withdrawals)
    BY DEF EpochInv, Typed, FinishEpoch, Finishing
<1>2. /\ epoch.withdrawals \in Seq(Withdrawal) /\ epoch.before \in LedgerState
      /\ epoch.next \in Nat
    BY <1>1 DEF EpochState
<1>3. epoch.next - 1 = Len(epoch.withdrawals)
    <2>1. Len(epoch.withdrawals) \in Nat
        BY <1>2
    <2> QED BY <1>1, <1>2, <2>1 DEF Placed
<1>4. SubSeq(epoch.withdrawals, 1, epoch.next - 1) = epoch.withdrawals
    BY <1>2, <1>3, NoneGone
<1>5. /\ s \in LedgerState /\ IsFiniteSet(s.pendingDeposits) /\ s.pendingDeposits \in SUBSET Deposit
      /\ epoch.before.pendingDeposits \in SUBSET s.pendingDeposits
    BY DEF Ground, Sane, LedgerState
<1>6. ASSUME NEW t \in Token
      PROVE  /\ s.balance[t][Pool] >= s.notes[t] + SumOfDeposits(s.pendingDeposits, t)
             /\ s.balance[t][Executor] >= 0
    <2>0. PICK B, BB, N, BN, P, BP, R, T, X, BX :
                /\ B = s.balance[t][Pool] /\ BB = epoch.before.balance[t][Pool]
                /\ N = s.notes[t] /\ BN = epoch.before.notes[t]
                /\ P = SumOfDeposits(s.pendingDeposits, t)
                /\ BP = SumOfDeposits(epoch.before.pendingDeposits, t)
                /\ R = Recorded(s, t) /\ T = TotalOf(epoch.withdrawals, t)
                /\ X = s.balance[t][Executor] /\ BX = epoch.before.balance[t][Executor]
        OBVIOUS
    <2>1. B \in Int /\ BB \in Int /\ N \in Int /\ BN \in Int /\ X \in Int /\ BX \in Int
        BY <1>2, <1>5, <2>0, HoldersTyped DEF LedgerState
    <2>2. P = BP + R
        BY <1>5, <2>0, OldAndNewOwed DEF Recorded
    <2>3. BP \in Int /\ R \in Int
        <3>1. /\ IsFiniteSet(epoch.before.pendingDeposits)
              /\ IsFiniteSet(s.pendingDeposits \ epoch.before.pendingDeposits)
            BY <1>5, FS_Subset
        <3> QED BY <1>5, <2>0, <3>1, OwedIsTotal DEF Recorded
    <2>4. T \in Int
        BY <1>2, <2>0, TotalOfWithdrawals
    <2>5. BB >= BN + BP /\ BX >= 0
        BY <2>0 DEF AtRest
    <2>6. B + T >= BB + R
        BY <1>4, <2>0 DEF Ground, Even, Gone
    <2>7. N = BN - T /\ X >= BX
        BY <1>1, <2>0 DEF Ground, SpentNotes
    <2>8. B >= N + P /\ X >= 0
        BY <2>1, <2>2, <2>3, <2>4, <2>5, <2>6, <2>7
    <2> QED BY <2>0, <2>8
<1> QED BY <1>6 DEF AtRest, Ground

(* Between epochs the pool is given and gives what it then owes or owed.   *)
LEMMA BetweenMoney ==
    ASSUME EpochInv, Idle, NEW s, s = Snapshot, AtRest(s), NEW r, r = Snapshot',
           Between \/ UNCHANGED ledger
               \/ \E t \in Token, h \in Holder :
                    PayIn(t, h) \/ \E amount \in 1..MaxAmount : SpendAllowance(t, h, amount)
    PROVE  AtRest(r)
<1>1. /\ s.balance = balance /\ s.allowance = allowance /\ s.notes = notes
      /\ s.pendingDeposits = pendingDeposits /\ s.depositNonces = depositNonces
      /\ r.balance = balance' /\ r.allowance = allowance' /\ r.notes = notes'
      /\ r.pendingDeposits = pendingDeposits' /\ r.depositNonces = depositNonces'
    BY DEF Snapshot
<1>2. /\ balance \in [Token -> [Holder -> Int]] /\ notes \in [Token -> Int]
      /\ pendingDeposits \in SUBSET Deposit /\ IsFiniteSet(pendingDeposits)
      /\ s \in LedgerState
    BY <1>1, LedgerPieces DEF EpochInv, Typed, AtRest, Sane
<1>3. ASSUME NEW t \in Token
      PROVE  /\ SumOfDeposits(pendingDeposits, t) \in Int
             /\ balance[t][Pool] \in Int /\ balance[t][Executor] \in Int /\ notes[t] \in Int
             /\ balance[t][Pool] >= notes[t] + SumOfDeposits(pendingDeposits, t)
             /\ balance[t][Executor] >= 0
    BY <1>1, <1>2, OwedIsTotal, HoldersTyped DEF AtRest
<1>4. CASE UNCHANGED ledger
    BY <1>1, <1>4 DEF ledger, Snapshot
<1>5. ASSUME UNCHANGED <<allowance, depositNonces>>, pendingDeposits' \subseteq pendingDeposits,
             r \in LedgerState,
             \A t \in Token :
                /\ balance'[t][Pool] >= notes'[t] + SumOfDeposits(pendingDeposits', t)
                /\ balance'[t][Executor] >= 0
      PROVE  AtRest(r)
    <2>1. IsFiniteSet(pendingDeposits')
        BY <1>2, <1>5, FS_Subset
    <2> QED BY <1>1, <1>5, <2>1 DEF AtRest, Sane, Closed
<1>6. ASSUME NEW t \in Token, NEW h \in Holder, PayIn(t, h)
      PROVE  AtRest(r)
    <2>1. /\ h = Executor /\ balance' = [balance EXCEPT ![t][h] = @ + 1]
          /\ UNCHANGED <<allowance, notes, pendingDeposits, depositNonces>>
        BY <1>6 DEF PayIn, Stage, EpochInv, Typed
    <2>2. ASSUME NEW u \in Token
          PROVE  /\ balance'[u][Pool] = balance[u][Pool]
                 /\ balance'[u][Executor] >= 0
        BY <1>2, <1>3, <2>1, HoldersTyped, GatewaysAssumption
    <2>3. r \in LedgerState
        BY <1>6, FrameTyped DEF Foreigners
    <2> QED BY <1>3, <1>5, <2>1, <2>2, <2>3
<1>7. ASSUME NEW t \in Token, NEW h \in Holder, NEW amount \in 1..MaxAmount, SpendAllowance(t, h, amount)
      PROVE  FALSE
    <2>1. allowance[t][h] = 0 /\ amount <= allowance[t][h]
        BY <1>1, <1>7 DEF AtRest, Closed, SpendAllowance
    <2> QED BY <2>1, BoundsAssumption
<1>8. ASSUME Between, NEW t \in Token, Shield(t)
      PROVE  AtRest(r)
    <2>1. /\ balance' = [balance EXCEPT ![t][Pool] = @ + 1] /\ notes' = [notes EXCEPT ![t] = @ + 1]
          /\ UNCHANGED <<allowance, pendingDeposits, depositNonces>>
        BY <1>8 DEF Shield
    <2>2. ASSUME NEW u \in Token
          PROVE  /\ balance'[u][Pool] >= notes'[u] + SumOfDeposits(pendingDeposits', u)
                 /\ balance'[u][Executor] >= 0
        <3>1. balance'[u][Executor] = balance[u][Executor]
            BY <1>2, <2>1, HoldersTyped, GatewaysAssumption
        <3>2. CASE u = t
            <4>1. balance'[u][Pool] = balance[u][Pool] + 1 /\ notes'[u] = notes[u] + 1
                BY <1>2, <2>1, <3>2, HoldersTyped
            <4> QED BY <1>3, <2>1, <3>1, <4>1
        <3>3. CASE u # t
            <4>1. balance'[u] = balance[u] /\ notes'[u] = notes[u]
                BY <1>2, <2>1, <3>3
            <4> QED BY <1>3, <2>1, <3>1, <4>1
        <3> QED BY <3>2, <3>3
    <2>3. r \in LedgerState
        BY <1>8, OthersTyped
    <2> QED BY <1>5, <2>1, <2>2, <2>3
<1>9. ASSUME Between, NEW t \in Token, SweepToPool(t)
      PROVE  AtRest(r)
    <2>0. PICK a : a = balance[t][Executor]
        OBVIOUS
    <2>1. /\ balance' = [balance EXCEPT ![t][Pool] = @ + a, ![t][Executor] = 0]
          /\ UNCHANGED <<allowance, notes, pendingDeposits, depositNonces>>
        BY <1>9, <2>0 DEF SweepToPool
    <2>2. a \in Int /\ a >= 0
        BY <1>3, <2>0
    <2>3. ASSUME NEW u \in Token
          PROVE  /\ u # t => balance'[u] = balance[u]
                 /\ u = t => balance'[u][Pool] = balance[u][Pool] + a /\ balance'[u][Executor] = 0
        BY <1>2, <2>1, <2>2, HoldersTyped, GatewaysAssumption
    <2>4. ASSUME NEW u \in Token
          PROVE  /\ balance'[u][Pool] >= notes'[u] + SumOfDeposits(pendingDeposits', u)
                 /\ balance'[u][Executor] >= 0
        <3>1. CASE u = t
            <4>1. balance[u][Pool] + a >= notes[u] + SumOfDeposits(pendingDeposits, u)
                BY <1>3, <2>2
            <4>2. balance'[u][Pool] = balance[u][Pool] + a /\ balance'[u][Executor] = 0
                BY <2>3, <3>1
            <4>3. notes' = notes /\ pendingDeposits' = pendingDeposits
                BY <2>1
            <4> QED BY <4>1, <4>2, <4>3
        <3>2. CASE u # t
            BY <1>3, <2>1, <2>3, <3>2
        <3> QED BY <3>1, <3>2
    <2>5. r \in LedgerState
        BY <1>9, OthersTyped
    <2> QED BY <1>5, <2>1, <2>4, <2>5
<1>10. ASSUME Between, NEW d \in pendingDeposits, Credit(d) \/ RescueGatewayDeposit(d)
       PROVE  AtRest(r)
    <2>1. d.token \in Token /\ d.amount \in Nat /\ d \in Deposit
        BY <1>2 DEF Deposit
    <2>2. pendingDeposits' = pendingDeposits \ {d} /\ UNCHANGED <<allowance, depositNonces>>
        BY <1>10 DEF Credit, RescueGatewayDeposit
    <2>3. ASSUME NEW u \in Token
          PROVE  /\ balance'[u][Executor] = balance[u][Executor]
                 /\ balance'[u][Pool] - notes'[u] = balance[u][Pool] - notes[u] - Worth(d, u)
                 /\ balance'[u][Pool] \in Int /\ notes'[u] \in Int
        <3>1. CASE Credit(d)
            <4>1. balance' = balance /\ notes' = [notes EXCEPT ![d.token] = @ + d.amount]
                BY <3>1 DEF Credit
            <4>2. notes'[u] = IF d.token = u THEN notes[u] + d.amount ELSE notes[u]
                BY <1>2, <4>1
            <4> QED BY <1>3, <2>1, <4>1, <4>2 DEF Worth
        <3>2. CASE RescueGatewayDeposit(d)
            <4>1. notes' = notes /\ balance' = [balance EXCEPT ![d.token][Pool] = @ - d.amount]
                BY <3>2 DEF RescueGatewayDeposit
            <4>2. /\ balance'[u][Pool] =
                        IF d.token = u THEN balance[u][Pool] - d.amount ELSE balance[u][Pool]
                  /\ balance'[u][Executor] = balance[u][Executor]
                BY <1>2, <4>1, HoldersTyped, GatewaysAssumption
            <4> QED BY <1>3, <2>1, <4>1, <4>2 DEF Worth
        <3> QED BY <1>10, <3>1, <3>2
    <2>4. ASSUME NEW u \in Token
          PROVE  /\ balance'[u][Pool] >= notes'[u] + SumOfDeposits(pendingDeposits', u)
                 /\ balance'[u][Executor] >= 0
        <3>0. PICK B, N, C, O, P, W :
                    /\ B = balance[u][Pool] /\ N = notes[u] /\ C = balance'[u][Pool] /\ O = notes'[u]
                    /\ P = SumOfDeposits(pendingDeposits, u) /\ W = Worth(d, u)
            OBVIOUS
        <3>1. SumOfDeposits(pendingDeposits', u) = P - W
            BY <1>2, <2>2, <3>0, OneLessOwed
        <3>2. W \in Int
            BY <2>1, <3>0 DEF Worth
        <3>3. /\ B \in Int /\ N \in Int /\ C \in Int /\ O \in Int /\ P \in Int
              /\ B >= N + P /\ C - O = B - N - W
            BY <1>3, <2>3, <3>0
        <3>4. C >= O + (P - W)
            BY <3>2, <3>3
        <3> QED BY <1>3, <2>3, <3>0, <3>1, <3>4
    <2>5. r \in LedgerState
        BY <1>10, OthersTyped
    <2> QED BY <1>5, <2>2, <2>4, <2>5
<1>11. CASE Between
    <2>1. ASSUME SetPaused \/ Mine \/ (\E g \in Gateway : SetGatewayRoute(g))
                    \/ \E x \in Target, policy \in Policies : SetCallPolicy(x, policy)
          PROVE  UNCHANGED ledger
        BY <2>1 DEF SetPaused, Mine, SetGatewayRoute, SetCallPolicy
    <2> QED BY <1>4, <1>8, <1>9, <1>10, <1>11, <2>1 DEF Between
<1> QED BY <1>4, <1>6, <1>7, <1>11

-----------------------------------------------------------------------------
(* Where the money is.                                                     *)

LEMMA MoneyInvInit == Init => MoneyInv
<1> SUFFICES ASSUME Init PROVE MoneyInv
    OBVIOUS
<1>1. EpochInv /\ Idle /\ ~InSlot
    BY EpochInvInit DEF Init, Idle, InSlot
<1>2. PICK s : s = Snapshot
    OBVIOUS
<1>3. /\ s.balance = [t \in Token |-> [h \in Holder |-> 0]]
      /\ s.allowance = [t \in Token |-> [h \in Holder |-> 0]]
      /\ s.notes = [t \in Token |-> 0] /\ s.pendingDeposits = {}
    BY <1>2 DEF Init, Snapshot
<1>4. Sane(s)
    <2>1. s \in LedgerState
        BY <1>1, <1>2 DEF EpochInv, Typed
    <2> QED BY <1>3, <2>1, FS_EmptySet DEF Sane
<1>5. Closed(s)
    BY <1>3 DEF Closed
<1>6. ASSUME NEW t \in Token
      PROVE  /\ s.balance[t][Pool] >= s.notes[t] + SumOfDeposits(s.pendingDeposits, t)
             /\ s.balance[t][Executor] >= 0
    <2>1. SumOfDeposits(s.pendingDeposits, t) = 0
        BY <1>3, NothingOwed
    <2>2. s.balance[t][Pool] = 0 /\ s.balance[t][Executor] = 0 /\ s.notes[t] = 0
        BY <1>3, HoldersTyped
    <2> QED BY <2>1, <2>2
<1>7. AtRest(s)
    BY <1>4, <1>5, <1>6 DEF AtRest
<1> QED BY <1>1, <1>2, <1>7 DEF MoneyInv, OfMoney, AtRestNow

(* What stays as it is, stays as it was.                                   *)
LEMMA MoneyStays ==
    ASSUME MoneyInv, UNCHANGED <<ledger, epoch, call>>
    PROVE  OfMoney'
<1>1. Snapshot' = Snapshot /\ (Idle' <=> Idle) /\ (InSlot' <=> InSlot)
    BY DEF ledger, Snapshot, Idle, InSlot
<1>2. \A s : Ground(s) => Ground(s)'
    BY GroundStays DEF SamePlan
<1>3. \A s : AtRest(s)' <=> AtRest(s)
    BY DEF AtRest, Sane, Closed
<1>4. AtRestNow => AtRestNow'
    BY <1>1, <1>3 DEF AtRestNow
<1>5. BeforeAtRest => BeforeAtRest'
    BY <1>1, <1>3 DEF BeforeAtRest
<1>6. GroundNow => GroundNow'
    BY <1>1, <1>2 DEF GroundNow
<1>7. GroundBefore => GroundBefore'
    <2> SUFFICES ASSUME GroundBefore PROVE GroundBefore'
        OBVIOUS
    <2>1. FrameMoney'
        BY DEF GroundBefore, FrameMoney, SameRecords, NothingLent, InputLent, OnlyInputLeaves,
               StashUntouched, Withdrawn, ledger
    <2> QED BY <1>1, <1>2, <2>1 DEF GroundBefore
<1> QED BY <1>4, <1>5, <1>6, <1>7 DEF MoneyInv, OfMoney

(* The state before an epoch stays what it was.                            *)
LEMMA BeforeStays ==
    ASSUME BeforeAtRest, ~Idle', epoch'.before = epoch.before
    PROVE  BeforeAtRest'
BY DEF BeforeAtRest, AtRest, Sane, Closed

(* A revert restores the state before the epoch.                           *)
LEMMA RevertMoney ==
    ASSUME BeforeAtRest, EpochInv, Revert
    PROVE  AtRestNow'
<1>1. PICK s : s = epoch.before
    OBVIOUS
<1>2. AtRest(s) /\ s \in LedgerState
    BY <1>1 DEF BeforeAtRest, AtRest, Sane
<1>3. Snapshot' = s
    <2>1. /\ balance' = s.balance /\ allowance' = s.allowance /\ notes' = s.notes
          /\ pendingDeposits' = s.pendingDeposits /\ depositNonces' = s.depositNonces
        BY <1>1 DEF Revert, RestoreTo
    <2>2. Snapshot' = [balance |-> s.balance, allowance |-> s.allowance, notes |-> s.notes,
                       pendingDeposits |-> s.pendingDeposits, depositNonces |-> s.depositNonces]
        BY <2>1 DEF Snapshot
    <2> QED BY <1>2, <2>2 DEF LedgerState
<1>4. AtRest(s)'
    BY <1>2 DEF AtRest, Sane, Closed
<1>5. Idle' /\ ~InSlot'
    BY DEF Revert, Idle, InSlot
<1> QED BY <1>3, <1>4, <1>5 DEF AtRestNow

(* A step within the frame of a slot.                                      *)
LEMMA FrameStaysGround ==
    ASSUME EpochInv, BeforeAtRest, GroundBefore, NEW stage, StageMoves(stage), FrameMoney'
    PROVE  OfMoney'
<1>1. /\ epoch' = epoch /\ InSlot' /\ call'.before = call.before
    BY DEF StageMoves
<1>2. \A s : Ground(s) => Ground(s)'
    BY <1>1, GroundStays DEF SamePlan
<1>3. BeforeAtRest'
    BY <1>1, BeforeStays DEF BeforeAtRest, Idle
<1>4. GroundBefore'
    BY <1>1, <1>2 DEF GroundBefore
<1> QED BY <1>3, <1>4 DEF OfMoney

(* A withdrawal is dealt with.                                             *)
LEMMA GroundFollows ==
    ASSUME BeforeAtRest, ~Idle', epoch'.before = epoch.before, ~InSlot',
           NEW r, r = Snapshot', Ground(r)'
    PROVE  OfMoney'
<1>1. BeforeAtRest'
    BY BeforeStays
<1>2. GroundNow'
    BY DEF GroundNow
<1> QED BY <1>1, <1>2 DEF OfMoney

(* Every step of the loop.                                                 *)
LEMMA LoopMoney ==
    ASSUME MoneyInv, Loop
    PROVE  OfMoney'
<1>1. EpochInv /\ ~Idle /\ ~InSlot
    BY ZenonT(30) DEF MoneyInv, Loop, PayPlain, Settling, OpenSlot, FinishEpoch, FinishSimulation, Finishing,
           RevertMispaired, RevertUnfunded, RevertNonce
<1>2. BeforeAtRest /\ GroundNow /\ epoch \in EpochState
    BY <1>1 DEF MoneyInv, OfMoney, AtRestNow, GroundBefore, EpochInv, Typed
<1>3. PICK s, r : s = Snapshot /\ r = Snapshot'
    OBVIOUS
<1>4. Ground(s)
    BY <1>2, <1>3 DEF GroundNow
<1>5. ASSUME NEW cost \in 0..PlainReserve, PayPlain(cost)
      PROVE  OfMoney'
    <2>1. Ground(r)'
        BY <1>1, <1>3, <1>4, <1>5, PlainGround
    <2>2. ~Idle'
        BY <1>1, <1>5, PlainKeeps DEF Idle
    <2>3. epoch'.before = epoch.before
        BY <1>2, <1>5 DEF PayPlain, EpochState
    <2>4. ~InSlot'
        BY <1>1, <1>5 DEF PayPlain, InSlot
    <2> QED BY <1>2, <1>3, <2>1, <2>2, <2>3, <2>4, GroundFollows
<1>6. CASE OpenSlot
    <2>1. ~Idle' /\ InSlot'
        <3>1. epoch' # None /\ call' \in CallState
            BY <1>1, <1>6, OpenKeeps
        <3> QED BY <3>1, NoneAssumption DEF Idle, InSlot
    <2>2. /\ SamePlan /\ epoch'.next = epoch.next /\ epoch'.outcomes = epoch.outcomes
          /\ epoch'.before = epoch.before
        BY <1>2, <1>6 DEF OpenSlot, SamePlan, EpochState
    <2>3. /\ call'.stage = "opened" /\ call'.before = s
          /\ balance' = balance /\ allowance' = allowance /\ notes' = notes
          /\ pendingDeposits' = pendingDeposits /\ depositNonces' = depositNonces
        BY <1>3, <1>6 DEF OpenSlot, ledger
    <2>4. Ground(s)'
        BY <1>4, <2>2, GroundStays
    <2>5. FrameMoney'
        <3>1. /\ s.balance = balance /\ s.allowance = allowance /\ s.notes = notes
              /\ s.pendingDeposits = pendingDeposits /\ s.depositNonces = depositNonces
            BY <1>3 DEF Snapshot
        <3>2. NothingLent'
            BY <1>4, <2>3, <3>1 DEF NothingLent, Ground, Closed
        <3> QED BY <2>3, <3>1, <3>2 DEF FrameMoney, SameRecords
    <2>6. GroundBefore'
        BY <2>1, <2>3, <2>4, <2>5 DEF GroundBefore
    <2> QED BY <1>2, <2>1, <2>2, <2>6, BeforeStays DEF OfMoney
<1>7. CASE FinishEpoch
    <2>1. AtRest(s)
        BY <1>1, <1>2, <1>3, <1>4, <1>7, FinishMoney DEF BeforeAtRest
    <2>2. Idle' /\ ~InSlot' /\ Snapshot' = s
        BY <1>1, <1>3, <1>7 DEF FinishEpoch, Idle, InSlot, ledger, Snapshot
    <2>3. AtRest(s)'
        BY <2>1 DEF AtRest, Sane, Closed
    <2> QED BY <2>2, <2>3 DEF AtRestNow, OfMoney
<1>8. CASE FinishSimulation \/ RevertMispaired \/ RevertUnfunded \/ RevertNonce
    <2>1. Revert
        BY <1>8 DEF FinishSimulation, RevertMispaired, RevertUnfunded, RevertNonce
    <2> QED BY <1>1, <1>2, <2>1, RevertMoney DEF OfMoney
<1> QED BY SMTT(30), <1>5, <1>6, <1>7, <1>8 DEF Loop

(* Every step of a frame, and of the code that runs in it.                 *)
LEMMA FrameKeepsMoney ==
    ASSUME MoneyInv, InSlot, Frame \/ Foreigners
    PROVE  OfMoney'
<1>1. /\ EpochInv /\ ~Idle /\ call \in CallState /\ epoch \in EpochState
      /\ BeforeAtRest /\ GroundBefore /\ FrameMoney
    BY SlotInFrame DEF MoneyInv, OfMoney, AtRestNow, GroundNow, GroundBefore
<1>2. ASSUME NEW stage \in {"approved", "target", "returned"},
             call' = [call EXCEPT !.stage = stage], UNCHANGED <<config, block, epoch>>,
             call.stage = "opened" => ~Expired /\ PrimaryShape,
             UNCHANGED <<notes, pendingDeposits, depositNonces>>
      PROVE  StageMoves(stage)
    <2>1. FrameMoves(stage, call.gas)
        BY <1>1, <1>2 DEF FrameMoves, CallState
    <2> QED BY <1>1, <1>2, <2>1, StageMoved
<1>3. CASE ApproveGateway
    <2>1. StageMoves("approved")
        BY <1>2, <1>3 DEF ApproveGateway, Stage
    <2>2. FrameMoney'
        BY <1>1, <1>3, <2>1, ApproveMoney
    <2> QED BY <1>1, <2>1, <2>2, FrameStaysGround
<1>4. CASE ExecutorCalls \/ ForeignCalls
    <2>1. StageMoves("target")
        BY <1>2, <1>4 DEF ExecutorCalls, ForeignCalls, Stage, ledger
    <2>2. FrameMoney'
        BY <1>1, <1>4, <2>1, CallsMoney
    <2> QED BY <1>1, <2>1, <2>2, FrameStaysGround
<1>5. CASE ExecutorReturns \/ ForeignReturns
    <2>1. StageMoves("returned")
        BY <1>2, <1>5 DEF ExecutorReturns, ForeignReturns, Stage, ledger
    <2>2. FrameMoney'
        BY <1>1, <1>5, <2>1, ReturnsMoney
    <2> QED BY <1>1, <2>1, <2>2, FrameStaysGround
<1>6. CASE SettleSlot
    <2>1. PICK s, r : s = call.before /\ r = Snapshot'
        OBVIOUS
    <2>2. Ground(s)
        BY <1>1, <2>1 DEF GroundBefore
    <2>3. Ground(r)'
        BY <1>1, <1>6, <2>1, <2>2, SettleGround
    <2>4. PICK o, gasLeft : Settled(o, gasLeft)
        BY <1>1, <1>6, SettleSlotSettles
    <2>5. ~Idle'
        BY <1>1, <2>4, SettledKeeps DEF Idle
    <2>6. epoch'.before = epoch.before /\ ~InSlot'
        BY <1>1, <2>4 DEF Settled, SlotSettled, EpochState, InSlot
    <2> QED BY <1>1, <2>1, <2>3, <2>5, <2>6, GroundFollows
<1>7. CASE RevertShort \/ RevertShape \/ RevertDelta
    <2>1. Revert
        BY <1>7 DEF RevertShort, RevertShape, RevertDelta
    <2> QED BY <1>1, <2>1, RevertMoney DEF OfMoney
<1>8. ASSUME NEW t \in Token, NEW h \in Holder,
             PayIn(t, h) \/ \E amount \in 1..MaxAmount : SpendAllowance(t, h, amount)
      PROVE  OfMoney'
    <2>1. FrameMoney'
        BY <1>1, <1>8, ForeignMoney
    <2>2. PICK stage : stage = call.stage
        OBVIOUS
    <2>3. StageMoves(stage)
        BY <1>8, <2>2 DEF StageMoves, PayIn, SpendAllowance, InSlot
    <2> QED BY <1>1, <2>1, <2>3, FrameStaysGround
<1>9. ASSUME NEW left \in PostReserve..call.gas, BurnGas(left)
      PROVE  OfMoney'
    <2>1. FrameMoves("target", left)
        <3>1. left \in Int
            OBVIOUS
        <3>2. call.stage = "target"
            BY <1>9 DEF BurnGas, Stage
        <3>3. call' = [call EXCEPT !.stage = "target", !.gas = left]
            BY <1>1, <1>9, <3>2 DEF BurnGas, CallState
        <3> QED BY <1>9, <3>1, <3>2, <3>3 DEF FrameMoves, BurnGas
    <2>2. StageMoves("target")
        BY <1>1, <1>9, <2>1, StageMoved DEF BurnGas, ledger
    <2>3. FrameMoney'
        BY <1>1, <1>9, <2>2, BurnMoney
    <2> QED BY <1>1, <2>2, <2>3, FrameStaysGround
<1> QED BY <1>3, <1>4, <1>5, <1>6, <1>7, <1>8, <1>9 DEF Frame, Foreigners

(* No step takes what belongs to somebody else.                            *)
LEMMA MoneyInvNext == MoneyInv /\ [Next]_vars => MoneyInv'
<1> SUFFICES ASSUME MoneyInv, [Next]_vars PROVE MoneyInv'
    OBVIOUS
<1>1. EpochInv /\ EpochInv'
    BY EpochInvNext DEF MoneyInv
<1>2. PICK s, r : s = Snapshot /\ r = Snapshot'
    OBVIOUS
<1>3. ASSUME Idle PROVE AtRestNow /\ ~InSlot /\ AtRest(s)
    BY <1>2, <1>3 DEF MoneyInv, OfMoney, BeforeAtRest, AtRestNow
<1>4. ASSUME Idle, UNCHANGED <<epoch, call>>, AtRest(r)
      PROVE  OfMoney'
    <2>1. Idle' /\ ~InSlot'
        BY <1>3, <1>4 DEF Idle, InSlot
    <2>2. AtRest(r)'
        BY <1>4 DEF AtRest, Sane, Closed
    <2> QED BY <1>2, <2>1, <2>2 DEF AtRestNow, OfMoney
<1>5. CASE Begin
    <2>1. Idle
        BY <1>5 DEF Begin, SubmitEpoch, SimulateGatewayWithdrawals, Open
    <2>2. epoch'.before = s /\ Ground(r)'
        BY <1>1, <1>2, <1>3, <1>5, <2>1, BeginMoney
    <2>3. ~Idle' /\ ~InSlot'
        <3>1. PICK b \in Batches, spare \in SpareGas, simulated \in BOOLEAN :
                    Open(b, spare, simulated)
            BY <1>5 DEF Begin, SubmitEpoch, SimulateGatewayWithdrawals
        <3>2. epoch' # None
            BY <1>1, <3>1, ReservedAtFirst DEF EpochInv
        <3> QED BY <1>3, <2>1, <3>1, <3>2 DEF Open, Idle, InSlot
    <2>4. BeforeAtRest'
        <3>1. AtRest(s)'
            BY <1>3, <2>1 DEF AtRest, Sane, Closed
        <3> QED BY <2>2, <2>3, <3>1 DEF BeforeAtRest
    <2>5. GroundNow'
        BY <1>2, <2>2, <2>3 DEF GroundNow
    <2> QED BY <1>1, <2>4, <2>5 DEF MoneyInv, OfMoney
<1>6. CASE Loop
    BY <1>1, <1>6, LoopMoney DEF MoneyInv
<1>7. CASE Frame
    <2>1. CASE InSlot
        BY <1>1, <1>7, <2>1, FrameKeepsMoney DEF MoneyInv
    <2>2. CASE ~InSlot
        <3>1. Revert /\ ~Idle
            BY <1>7, <2>2
            DEF Frame, ApproveGateway, ExecutorCalls, ForeignCalls, ExecutorReturns, ForeignReturns,
                SettleSlot, SettleExpired, SettleExecuted, SettleFailed, SettleStarved, Starved, Stage,
                RevertShort, ShortInLoop, ShortInRecovery, Settling, Finishing, RevertShape, RevertDelta
        <3>2. BeforeAtRest
            BY <3>1 DEF MoneyInv, OfMoney, AtRestNow
        <3> QED BY <1>1, <3>1, <3>2, RevertMoney DEF MoneyInv, OfMoney
    <2> QED BY <2>1, <2>2
<1>8. CASE Foreigners
    <2>1. CASE InSlot
        BY <1>1, <1>8, <2>1, FrameKeepsMoney DEF MoneyInv
    <2>2. CASE ~InSlot
        <3>1. PICK t \in Token, h \in Holder :
                    PayIn(t, h) \/ \E amount \in 1..MaxAmount : SpendAllowance(t, h, amount)
            BY <1>8, <2>2 DEF Foreigners
        <3>2. Idle /\ UNCHANGED <<epoch, call>>
            BY <2>2, <3>1 DEF PayIn, SpendAllowance, Stage
        <3>3. AtRest(r)
            BY <1>1, <1>2, <1>3, <3>1, <3>2, BetweenMoney
        <3> QED BY <1>1, <1>4, <3>2, <3>3 DEF MoneyInv
    <2> QED BY <2>1, <2>2
<1>9. CASE Between
    <2>1. Idle /\ UNCHANGED <<epoch, call>>
        BY <1>9 DEF Between, Shield, SweepToPool, Credit, RescueGatewayDeposit, SetGatewayRoute,
                    SetCallPolicy, SetPaused, Mine
    <2>2. AtRest(r)
        BY <1>1, <1>2, <1>3, <1>9, <2>1, BetweenMoney
    <2> QED BY <1>1, <1>4, <2>1, <2>2 DEF MoneyInv
<1>10. CASE UNCHANGED vars
    BY <1>1, <1>10, MoneyStays DEF MoneyInv, vars
<1> QED BY <1>5, <1>6, <1>7, <1>8, <1>9, <1>10 DEF Next

(* What pool and executor hold at every point of every settlement.         *)
THEOREM MoneyInvariant == Spec => []MoneyInv
BY MoneyInvInit, MoneyInvNext, PTL DEF Spec

(* Whatever gateways and targets do, the pool can pay what it owes between *)
(* epochs, a slot is settled with no token but its own, and what lies at   *)
(* the executor stays there (LibGateway, ExternalCallGateway), for all     *)
(* tokens, gateways, policies and batches.                                 *)
THEOREM FundsAreKept == Spec => []FundsKept
<1>1. MoneyInv => FundsKept
    <2> SUFFICES ASSUME MoneyInv PROVE FundsKept
        OBVIOUS
    <2>1. PoolBacked
        <3> SUFFICES ASSUME Idle, NEW t \in Token
                     PROVE  balance[t][Pool] >= notes[t] + SumOfDeposits(pendingDeposits, t)
            BY DEF PoolBacked
        <3>1. PICK s : s = Snapshot
            OBVIOUS
        <3>2. AtRest(s)
            BY <3>1 DEF MoneyInv, OfMoney, BeforeAtRest, AtRestNow
        <3>3. s.balance = balance /\ s.notes = notes /\ s.pendingDeposits = pendingDeposits
            BY <3>1 DEF Snapshot
        <3> QED BY <3>2, <3>3 DEF AtRest
    <2>2. ASSUME ~Idle, ~InSlot, NEW t \in Token
          PROVE  /\ balance[t][Executor] >= epoch.before.balance[t][Executor]
                 /\ LET left == balance[t][Pool]
                                  + TotalOf(SubSeq(epoch.withdrawals, 1, epoch.next - 1), t)
                        owed == epoch.before.balance[t][Pool]
                                  + SumOfDeposits(pendingDeposits \ epoch.before.pendingDeposits, t)
                    IN  left >= owed /\ (Traded(t) => left = owed)
        <3>1. PICK s : s = Snapshot
            OBVIOUS
        <3>2. Ground(s)
            BY <2>2, <3>1 DEF MoneyInv, OfMoney, AtRestNow, GroundNow, GroundBefore
        <3>3. s.balance = balance /\ s.pendingDeposits = pendingDeposits
            BY <3>1 DEF Snapshot
        <3> QED BY <3>2, <3>3 DEF Ground, Even, Gone, Recorded
    <2>3. ItemsBalance
        BY <2>2 DEF ItemsBalance
    <2>4. StashKept
        BY <2>2 DEF StashKept
    <2> QED BY <2>1, <2>3, <2>4 DEF FundsKept
<1> QED BY <1>1, MoneyInvariant, PTL

=============================================================================
