------------------------------ MODULE Portals -------------------------------
(***************************************************************************)
(* Portal deposits.  A portal is an account of a user that runs the code   *)
(* of PortalDelegate; anyone may make the pool sweep what rests there into *)
(* escrow (LibPortal).  A sweep ends when a relay credits it, net of the   *)
(* fee of whoever swept, or when anyone has it returned to the portal      *)
(* after cancelDelay.  The portal belongs to its owner, who may put other  *)
(* code on the account at any time: the pool cannot trust what it answers  *)
(* or how much it hands over.                                              *)
(*                                                                         *)
(* Tokens reach the pool by sweeps only, notes are not spent here, and the *)
(* tree write of an epoch is the subject of NoteTree.                      *)
(***************************************************************************)
EXTENDS Naturals, FiniteSetsExt

CONSTANTS
    Portal,         (* Accounts used as portals.                           *)
    Sweeper,        (* Those who call the pool: keepers, owners.           *)
    Token,          (* Registered ERC-20 tokens.                           *)
    WrappedNative,  (* One of them, the wrapped native token.              *)
    Binding,        (* recipientBindH values in the field.                 *)
    NoBinding,      (* Zero: the account is not initialized.               *)
    OutOfField,     (* A word that is no field element.                    *)
    MaxAmount,      (* type(uint96).max.                                   *)
    GasReserve,     (* NATIVE_GAS_RESERVE.                                 *)
    BasisPoints,    (* BASIS_POINTS.                                       *)
    FeeRates,       (* The rates the owner of the pool chooses among.      *)
    DustLimits,     (* The values of portalMinSweep it chooses among.      *)
    CancelDelay,    (* cancelDelay, in blocks.                             *)
    MaxBalance,     (* Most that arrivals build up, of a token and of what *)
                    (* can be wrapped (a bound).                           *)
    MaxSweeps,      (* Sweeps of one portal (a bound).                     *)
    MaxBatch,       (* Most entries of an epoch, maxBatchSize.             *)
    MaxBlock        (* Last block (a bound).                               *)

VARIABLES
    binding,        (* binding[e]: storage of PortalDelegate at e.         *)
    isPortal,       (* The accounts that run PortalDelegate now.           *)
    balance,        (* balance[e][t]: tokens resting at e.                 *)
    native,         (* native[e]: native balance of e.                     *)
    portalCounter, portalPendingDeposits, processedPortalDeposits,
    claimable,      (* claimablePortalSweepFees[s][t].                     *)
    portalSweepFeeBps, portalMinSweep,
    vault,          (* vault[t]: the pool's balance of t.                  *)
    block,
    swept,          (* Ghost: [id, sweeper, fee] as of each sweep.         *)
    shielded,       (* Ghost: shielded[t], the value credited as notes.    *)
    paid,           (* Ghost: paid[s][t], fees received by s.              *)
    ended           (* Ghost: ended[id], times id was credited or returned.*)

accountVars == <<binding, isPortal, balance, native>>
poolVars == <<portalCounter, portalPendingDeposits, processedPortalDeposits, claimable>>
configVars == <<portalSweepFeeBps, portalMinSweep>>
ghostVars == <<swept, shielded, paid, ended>>
vars == <<accountVars, poolVars, configVars, vault, block, ghostVars>>

ASSUME RatesAssumption == BasisPoints \in Nat \ {0} /\ FeeRates \subseteq 0..BasisPoints-1
ASSUME AmountsAssumption == MaxAmount \in Nat /\ GasReserve \in Nat
ASSUME SweepersAssumption == IsFiniteSet(Sweeper)
ASSUME BoundsAssumption == MaxSweeps \in Nat
ASSUME NativeAssumption == WrappedNative \in Token
ASSUME BindingAssumption == NoBinding \notin Binding /\ OutOfField \notin Binding

-----------------------------------------------------------------------------
(* A sweep is identified by the hash of these.                             *)
ComputePortalDepositId(e, t, amount, counter, h) ==
    [portal |-> e, token |-> t, amount |-> amount, counter |-> counter, recipientBindH |-> h]

(* The record of id: what the hash does not cover.                         *)
RecordOf(id) == CHOOSE r \in portalPendingDeposits : r.id = id
Exists(id) == \E r \in portalPendingDeposits : r.id = id

Word == Binding \cup {NoBinding, OutOfField}

Smaller(a, b) == IF a < b THEN a ELSE b

FeeAt(rate, amount) == (amount * rate) \div BasisPoints

(* Mutant: the fee is taken at the rate of the day.                        *)
FeeNow(r) == FeeAt(portalSweepFeeBps, r.id.amount)

FeeOf(r) == FeeAt(r.sweepFeeBps, r.id.amount)

(* Of some records: what they hold in escrow of token t, what is credited  *)
(* of it, and what s gets for them.                                        *)
AmountIn(R, t) == MapThenSumSet(LAMBDA r : r.id.amount, {r \in R : r.id.token = t})
NetIn(R, t) == MapThenSumSet(LAMBDA r : r.id.amount - FeeOf(r), {r \in R : r.id.token = t})
FeesOf(R, s, t) == MapThenSumSet(FeeOf, {r \in R : r.sweeper = s /\ r.id.token = t})

(* What a table of the sweepers says of token t.                           *)
OfSweepers(table, t) == MapThenSumSet(LAMBDA s : table[s][t], Sweeper)

-----------------------------------------------------------------------------
(* The accounts.                                                           *)

(* What may be wrapped of the native balance.                              *)
Wrappable(e) == IF native[e] > GasReserve THEN native[e] - GasReserve ELSE 0

(* Anyone sends tokens, or native currency, to a portal.                   *)
Arrive(e, t) ==
    /\ balance[e][t] < MaxBalance
    /\ balance' = [balance EXCEPT ![e][t] = @ + 1]
    /\ UNCHANGED <<binding, isPortal, native, poolVars, configVars, vault, block, ghostVars>>

ArriveNative(e) ==
    /\ Wrappable(e) < MaxBalance
    /\ native' = [native EXCEPT ![e] = @ + 1]
    /\ UNCHANGED <<binding, isPortal, balance, poolVars, configVars, vault, block, ghostVars>>

(* By the account itself or with its signature.                            *)
InitializePortal(e, h) ==
    /\ e \in isPortal
    /\ binding[e] = NoBinding
    /\ binding' = [binding EXCEPT ![e] = h]
    /\ UNCHANGED <<isPortal, balance, native, poolVars, configVars, vault, block, ghostVars>>

(* Under EIP-7702 the owner installs PortalDelegate or other code.         *)
Redelegate(e) ==
    /\ isPortal' = (isPortal \ {e}) \cup ({e} \ isPortal)
    /\ UNCHANGED <<binding, balance, native, poolVars, configVars, vault, block, ghostVars>>

Withdraw(e, t, a) ==
    /\ e \in isPortal
    /\ a <= balance[e][t]
    /\ balance' = [balance EXCEPT ![e][t] = @ - a]
    /\ UNCHANGED <<binding, isPortal, native, poolVars, configVars, vault, block, ghostVars>>

(* Other code may write to the slot of the binding.                        *)
OtherCode(e) ==
    /\ e \notin isPortal
    /\ \E h \in Word : h # binding[e] /\ binding' = [binding EXCEPT ![e] = h]
    /\ UNCHANGED <<isPortal, balance, native, poolVars, configVars, vault, block, ghostVars>>

(* What sweep wraps on the way.                                            *)
WrapAmount(e, t, cap) ==
    IF t = WrappedNative /\ balance[e][t] < cap
    THEN Smaller(Wrappable(e), cap - balance[e][t])
    ELSE 0

(* Sweep: PortalDelegate hands over what there is up to cap, other code    *)
(* what it likes.                                                          *)
Sweep(e, t, cap) ==
    IF e \in isPortal
    THEN {[wrapped |-> WrapAmount(e, t, cap),
           pushed |-> Smaller(balance[e][t] + WrapAmount(e, t, cap), cap)]}
    ELSE [wrapped : {0}, pushed : 0..balance[e][t]]

(* portalBinding likewise.                                                 *)
PortalBinding(e) == IF e \in isPortal THEN {binding[e]} ELSE Word

-----------------------------------------------------------------------------
(* The pool.                                                               *)

IsRegistered(h) == h # NoBinding /\ h # OutOfField

(* Mutant: the counter does not advance.  Equal sweeps in escrow are told  *)
(* apart by their records, equal ones after a return no more.              *)
SameCounter(e) == portalCounter[e]

NextCounter(e) == portalCounter[e] + 1

RequestPortalDeposit(s, e, t) ==
    /\ portalCounter[e] < MaxSweeps
    /\ block + CancelDelay <= MaxBlock      (* So that the delay can end.    *)
    /\ \E h \in PortalBinding(e), w \in Sweep(e, t, MaxAmount) :
        LET id == ComputePortalDepositId(e, t, w.pushed, portalCounter[e], h)
        IN  /\ IsRegistered(h)
            /\ w.pushed > 0
            /\ w.pushed >= portalMinSweep[t]
            /\ w.pushed <= MaxAmount
            /\ ~Exists(id)
            /\ native' = [native EXCEPT ![e] = @ - w.wrapped]
            /\ balance' = [balance EXCEPT ![e][t] = @ + w.wrapped - w.pushed]
            /\ vault' = [vault EXCEPT ![t] = @ + w.pushed]
            /\ portalCounter' = [portalCounter EXCEPT ![e] = NextCounter(e)]
            /\ portalPendingDeposits' = portalPendingDeposits \cup
                  {[id |-> id, sweepFeeBps |-> portalSweepFeeBps, requestBlock |-> block, sweeper |-> s]}
            /\ swept' = swept \cup
                  {[id |-> id, sweeper |-> s, fee |-> FeeAt(portalSweepFeeBps, w.pushed)]}
            /\ ended' = [i \in DOMAIN ended \cup {id} |-> IF i \in DOMAIN ended THEN ended[i] ELSE 0]
    /\ UNCHANGED <<binding, isPortal, processedPortalDeposits, claimable, configVars,
                   block, shielded, paid>>

(* Mutant: whether the sweep was credited is not looked at.                *)
StillThere(id) == Exists(id)

Open(id) == Exists(id) /\ id \notin processedPortalDeposits

(* Mutant: the binding is read again before funds go back.                 *)
RipeIfRegistered(r) ==
    block >= r.requestBlock + CancelDelay /\ IsRegistered(binding[r.id.portal])

Ripe(r) == block >= r.requestBlock + CancelDelay

(* By anyone.  The portal gets back what was swept, the fee included.      *)
CancelPortalDeposit(id) ==
    /\ Open(id)
    /\ Ripe(RecordOf(id))
    /\ processedPortalDeposits' = processedPortalDeposits \cup {id}
    /\ portalPendingDeposits' = portalPendingDeposits \ {RecordOf(id)}
    /\ vault' = [vault EXCEPT ![id.token] = @ - id.amount]
    /\ balance' = [balance EXCEPT ![id.portal][id.token] = @ + id.amount]
    /\ ended' = [ended EXCEPT ![id] = @ + 1]
    /\ UNCHANGED <<binding, isPortal, native, portalCounter, claimable, configVars, block,
                   swept, shielded, paid>>

Deferred(s, t, fee) == claimable[s][t] + fee

(* Each id once, else the second one reverts.  A token may refuse to pay   *)
(* some of the sweepers: their fees are deferred.  The circuit takes every *)
(* amount and binding from the records and refuses an amount of zero.      *)
SubmitPortalDepositEpoch(ids) ==
    LET R == {RecordOf(id) : id \in ids}
    IN  /\ \A id \in ids : Open(id)
        /\ \A r \in R : r.id.amount - FeeOf(r) > 0
        /\ processedPortalDeposits' = processedPortalDeposits \cup ids
        /\ \E refused \in SUBSET {p \in Sweeper \X Token : FeesOf(R, p[1], p[2]) > 0} :
            LET pushed == [s \in Sweeper |-> [t \in Token |->
                                IF <<s, t>> \in refused THEN 0 ELSE FeesOf(R, s, t)]]
            IN  /\ claimable' = [s \in Sweeper |-> [t \in Token |->
                                    IF <<s, t>> \in refused THEN Deferred(s, t, FeesOf(R, s, t))
                                                            ELSE claimable[s][t]]]
                /\ paid' = [s \in Sweeper |-> [t \in Token |-> paid[s][t] + pushed[s][t]]]
                /\ vault' = [t \in Token |-> vault[t] - OfSweepers(pushed, t)]
        /\ shielded' = [t \in Token |-> shielded[t] + NetIn(R, t)]
        /\ ended' = [id \in DOMAIN ended |-> ended[id] + (IF id \in ids THEN 1 ELSE 0)]
        /\ UNCHANGED <<accountVars, portalCounter, portalPendingDeposits, configVars, block, swept>>

ClaimPortalSweepFee(s, t) ==
    /\ claimable[s][t] > 0
    /\ claimable' = [claimable EXCEPT ![s][t] = 0]
    /\ vault' = [vault EXCEPT ![t] = @ - claimable[s][t]]
    /\ paid' = [paid EXCEPT ![s][t] = @ + claimable[s][t]]
    /\ UNCHANGED <<accountVars, portalCounter, portalPendingDeposits, processedPortalDeposits,
                   configVars, block, swept, shielded, ended>>

SetPortalSweepFeeBps(rate) ==
    /\ rate # portalSweepFeeBps
    /\ portalSweepFeeBps' = rate
    /\ UNCHANGED <<accountVars, poolVars, portalMinSweep, vault, block, ghostVars>>

SetPortalMinSweep(t, m) ==
    /\ m # portalMinSweep[t]
    /\ portalMinSweep' = [portalMinSweep EXCEPT ![t] = m]
    /\ UNCHANGED <<accountVars, poolVars, portalSweepFeeBps, vault, block, ghostVars>>

NextBlock ==
    /\ block < MaxBlock
    /\ block' = block + 1
    /\ UNCHANGED <<accountVars, poolVars, configVars, vault, ghostVars>>

-----------------------------------------------------------------------------
Init ==
    /\ binding = [e \in Portal |-> NoBinding]
    /\ isPortal = Portal
    /\ balance = [e \in Portal |-> [t \in Token |-> 0]]
    /\ native = [e \in Portal |-> 0]
    /\ portalCounter = [e \in Portal |-> 0]
    /\ portalPendingDeposits = {}
    /\ processedPortalDeposits = {}
    /\ claimable = [s \in Sweeper |-> [t \in Token |-> 0]]
    /\ portalSweepFeeBps = 0
    /\ portalMinSweep = [t \in Token |-> 0]
    /\ vault = [t \in Token |-> 0]
    /\ block = 0
    /\ swept = {}
    /\ shielded = [t \in Token |-> 0]
    /\ paid = [s \in Sweeper |-> [t \in Token |-> 0]]
    /\ ended = [id \in {} |-> 0]

Batches == {ids \in SUBSET {r.id : r \in portalPendingDeposits} :
                ids # {} /\ Cardinality(ids) <= MaxBatch}

Next ==
    \/ \E e \in Portal, t \in Token : Arrive(e, t)
    \/ \E e \in Portal : ArriveNative(e)
    \/ \E e \in Portal, h \in Binding : InitializePortal(e, h)
    \/ \E e \in Portal : Redelegate(e)
    \/ \E e \in Portal : OtherCode(e)
    \/ \E e \in Portal, t \in Token, a \in 1..MaxBalance : Withdraw(e, t, a)
    \/ \E s \in Sweeper, e \in Portal, t \in Token : RequestPortalDeposit(s, e, t)
    \/ \E r \in portalPendingDeposits : CancelPortalDeposit(r.id)
    \/ \E ids \in Batches : SubmitPortalDepositEpoch(ids)
    \/ \E s \in Sweeper, t \in Token : ClaimPortalSweepFee(s, t)
    \/ \E rate \in FeeRates : SetPortalSweepFeeBps(rate)
    \/ \E t \in Token, m \in DustLimits : SetPortalMinSweep(t, m)
    \/ NextBlock

Spec == Init /\ [][Next]_vars

(* Sweep n of portal e.  Reclaiming is open to all: somebody does it.      *)
Pending(e, n) == {r \in portalPendingDeposits : r.id.portal = e /\ r.id.counter = n}
Reclaim(e, n) == \E r \in Pending(e, n) : CancelPortalDeposit(r.id)

FairSpec ==
    /\ Spec
    /\ WF_vars(NextBlock)
    /\ \A e \in Portal, n \in 0..MaxSweeps-1 : WF_vars(Reclaim(e, n))

-----------------------------------------------------------------------------

(* A sweep is credited or given back, never both and never twice           *)
(* (cancelPortalDeposit, submitPortalDepositEpoch).                        *)
SweepEndsOnce == \A id \in DOMAIN ended : ended[id] <= 1

Escrowed == {r \in portalPendingDeposits : r.id \notin processedPortalDeposits}

(* What the pool holds is what it owes: the sweeps in escrow in full, the  *)
(* notes it credited and the fees it could not pay, whatever portals       *)
(* answer, whoever is refused by a token, and however the rates change.    *)
SweepsCovered ==
    \A t \in Token :
        vault[t] = AmountIn(Escrowed, t) + shielded[t] + OfSweepers(claimable, t)

Credited == {w \in swept : ended[w.id] > 0 /\ Exists(w.id)}

NetSwept(W, t) == MapThenSumSet(LAMBDA w : w.id.amount - w.fee, {w \in W : w.id.token = t})
FeesSwept(W, s, t) == MapThenSumSet(LAMBDA w : w.fee, {w \in W : w.sweeper = s /\ w.id.token = t})

(* What a sweep is credited, and what its sweeper earns, was settled when  *)
(* it was swept: later rates, other sweepers in the batch and failing      *)
(* payments change neither (submitPortalDepositEpoch, _accrueFee,          *)
(* claimPortalSweepFee).                                                   *)
CreditedAsSwept ==
    \A t \in Token :
        /\ shielded[t] = NetSwept(Credited, t)
        /\ \A s \in Sweeper : paid[s][t] + claimable[s][t] = FeesSwept(Credited, s, t)

(* The two together: no order of rate changes, credits, cancellations and  *)
(* refused payments leaves the pool a token short or a keeper unpaid.      *)
SweepsExact == SweepsCovered /\ CreditedAsSwept

(* Two sweeps of a portal never share a counter, so no two notes of it     *)
(* have the same randomness and hence the same nullifier.                  *)
CountersDistinct ==
    \A v, w \in swept :
        v.id.portal = w.id.portal /\ v.id.counter = w.id.counter => v = w

(* Everybody can be paid, whoever was paid before: a portal whose sweep is *)
(* still in escrow, in full, and a sweeper the fees of a token             *)
(* (cancelPortalDeposit, claimPortalSweepFee).                             *)
ClaimsPayable ==
    /\ \A r \in Escrowed : Open(r.id) /\ RecordOf(r.id) = r /\ r.id.amount <= vault[r.id.token]
    /\ \A s \in Sweeper, t \in Token : claimable[s][t] <= vault[t]

(* Sweeps, credits with their fees, refused payments, claims and returns   *)
(* together implement the escrow.                                          *)
SweepId ==
    [portal : Portal, token : Token, amount : 1..MaxAmount, counter : 0..MaxSweeps-1,
     recipientBindH : Binding]

Vault == INSTANCE Escrow WITH
    Deposit <- SweepId,
    held    <- {r.id : r \in Escrowed},
    settled <- {id \in DOMAIN ended : ended[id] > 0},
    owed    <- [t \in Token |-> shielded[t] + OfSweepers(claimable, t)]

ImplementsEscrow == Vault!EscrowSpec

(* Nobody needs a relay to get a sweep back: none stays in escrow for good *)
(* (cancelPortalDeposit).                                                  *)
EverySweepEnds ==
    \A e \in Portal, n \in 0..MaxSweeps-1 :
        []<>(\A r \in Pending(e, n) : r.id \in processedPortalDeposits)
=============================================================================
