-------------------------- MODULE ForcedWithdrawal --------------------------
(***************************************************************************)
(* The way out that needs no relay: an account proves that it owns some    *)
(* notes and reserves their commitments with a request; after a delay      *)
(* anyone executes it, its owner cancels it, or, if an epoch has spent one *)
(* of the notes in the meantime, anyone prunes it.                         *)
(*                                                                         *)
(* The notes are of one token.  The digest an account signs names the      *)
(* notes, the recipient and the fee rate; a recipient is not told apart    *)
(* from another.  Every action is one transaction.                         *)
(***************************************************************************)
EXTENDS Integers, Sequences, SequencesExt, FiniteSetsExt

CONSTANTS
    AccountId,      (* Accounts; an account is also its owner as a caller. *)
    Note,           (* Notes in the trees, by position.                    *)
    Commitment,     (* Their commitments.                                  *)
    CommitmentOf,   (* The commitment at a position: equal notes share it. *)
    AccountOf,      (* The account whose notes have a commitment.          *)
    ValueOf,        (* Their value.                                        *)
    InputBounds,    (* The values maxForcedInputs takes with upgrades.     *)
    FeeRates,       (* Withdrawal fee rates, in basis points.              *)
    Delay,          (* forcedWithdrawalDelay, in blocks.                   *)
    NoRequest       (* 0 in commitmentToRequestKey.                        *)

VARIABLES
    nullifierSpent,             (* A note is its nullifier: both are fixed *)
                                (* by its position and its owner's key.    *)
    commitmentToRequestKey,     (* The request that reserves a commitment. *)
    forcedWithdrawalRequests,   (* The pending requests.                   *)
    maxForcedInputs,            (* Immutable, changes with an upgrade.     *)
    withdrawFeeBps,             (* The present fee rate.                   *)
    treasurySet,                (* Whether there is a treasury.            *)
    liveAuth,                   (* Accounts with a live authorization.     *)
    balance,                    (* The pool's tokens.                      *)
    received,                   (* Ghost: what recipients of forced        *)
                                (* withdrawals got.                        *)
    timesSpent                  (* Ghost: how often a note was spent.      *)

configVars == <<maxForcedInputs, withdrawFeeBps, treasurySet, liveAuth>>
requestVars == <<commitmentToRequestKey, forcedWithdrawalRequests>>
fundVars == <<nullifierSpent, balance, received, timesSpent>>
forcedVars == <<configVars, requestVars, fundVars>>

ASSUME NotesAssumption ==
    /\ CommitmentOf \in [Note -> Commitment]
    /\ AccountOf \in [Commitment -> AccountId]
    /\ ValueOf \in [Commitment -> Nat \ {0}]
ASSUME FiniteAssumption == IsFiniteSet(Note)    \* a tree has finitely many leaves
ASSUME RatesAssumption == FeeRates \subseteq Nat
ASSUME DelayAssumption == Delay \in Nat
ASSUME BoundsAssumption == InputBounds \subseteq Nat \ {0}

BASIS_POINTS == 10000

-----------------------------------------------------------------------------
(* Data.                                                                   *)

MaxInputs == Max(InputBounds)

(* What a caller can pass.                                                 *)
Nullifiers == BoundedSeq(Note, MaxInputs)
InputCommitments == BoundedSeq(Commitment, MaxInputs)

(* The key of a request is a digest of its nullifiers and commitments,     *)
(* which are also what the record keeps of them.                           *)
RequestKey(nullifiers, commitments) == [nullifiers |-> nullifiers, commitments |-> commitments]

(* The value of some notes.                                                *)
Value(notes) == MapThenSumSet(LAMBDA n : ValueOf[CommitmentOf[n]], notes)

Amounts == {Value(notes) : notes \in SUBSET Note}

Requested == DOMAIN forcedWithdrawalRequests

NoDuplicates(s) == \A i, j \in DOMAIN s : s[i] = s[j] => i = j

ASSUME NoRequestAssumption ==
    \A nullifiers \in Nullifiers, commitments \in InputCommitments :
        NoRequest # RequestKey(nullifiers, commitments)

Times(n, nullifiers) == Cardinality({i \in DOMAIN nullifiers : nullifiers[i] = n})

Fee(amount, bps) == (amount * bps) \div BASIS_POINTS

(* The forced withdrawal circuit: the inputs are notes of the account, the *)
(* commitments are theirs, and the amount is their value.                  *)
ForcedWithdrawCircuit(account, nullifiers, commitments, amount) ==
    /\ commitments = [i \in DOMAIN nullifiers |-> CommitmentOf[nullifiers[i]]]
    /\ \A i \in DOMAIN commitments : AccountOf[commitments[i]] = account
    /\ amount = MapThenSumSet(LAMBDA i : ValueOf[commitments[i]], DOMAIN commitments)

-----------------------------------------------------------------------------
(* Requests.                                                               *)

(* Mutant: a commitment another request has reserved is not refused.       *)
ValidateFreshUnreserved(nullifiers, commitments) ==
    /\ ToSet(nullifiers) \cap nullifierSpent = {}
    /\ NoDuplicates(nullifiers)
    /\ NoDuplicates(commitments)

ValidateFreshRequest(nullifiers, commitments) ==
    /\ ToSet(nullifiers) \cap nullifierSpent = {}
    /\ \A c \in ToSet(commitments) : commitmentToRequestKey[c] = NoRequest
    /\ NoDuplicates(nullifiers)
    /\ NoDuplicates(commitments)

(* The fee rate is part of the signed digest, so it is the present one.    *)
RequestForcedWithdrawal(account, nullifiers, commitments, amount) ==
    LET key == RequestKey(nullifiers, commitments)
    IN  /\ Len(nullifiers) \in 1..maxForcedInputs
        /\ ValidateFreshRequest(nullifiers, commitments)
        /\ account \in liveAuth
        /\ ForcedWithdrawCircuit(account, nullifiers, commitments, amount)
        /\ forcedWithdrawalRequests' =
                [k \in Requested \cup {key} |->
                    IF k = key
                    THEN [age |-> 0, amount |-> amount, withdrawFeeBps |-> withdrawFeeBps,
                          account |-> account]
                    ELSE forcedWithdrawalRequests[k]]
        /\ commitmentToRequestKey' =
                [c \in Commitment |->
                    IF c \in ToSet(commitments) THEN key ELSE commitmentToRequestKey[c]]
        /\ UNCHANGED <<configVars, fundVars>>

(* The first commitment leads to the request, which must have been made    *)
(* with these very inputs.                                                 *)
LoadedRequest(key, nullifiers, commitments) ==
    /\ commitments # <<>>
    /\ Len(nullifiers) = Len(commitments)
    /\ commitmentToRequestKey[commitments[1]] = key
    /\ key \in Requested
    /\ key = RequestKey(nullifiers, commitments)
    /\ \A c \in ToSet(commitments) : commitmentToRequestKey[c] = key

ClearRequest(key) ==
    /\ commitmentToRequestKey' =
            [c \in Commitment |->
                IF c \in ToSet(key.commitments) THEN NoRequest ELSE commitmentToRequestKey[c]]
    /\ forcedWithdrawalRequests' = [k \in Requested \ {key} |-> forcedWithdrawalRequests[k]]

-----------------------------------------------------------------------------
(* Execution.                                                              *)

Ripe(key) == forcedWithdrawalRequests[key].age >= Delay

(* Mutant: that the notes are unspent was checked with the request.        *)
AsRequested(nullifiers) == TRUE

RequireUnspent(nullifiers) == ToSet(nullifiers) \cap nullifierSpent = {}

(* Mutant: the fee rate of the day.                                        *)
FeeOfTheDay(request) == IF treasurySet THEN Fee(request.amount, withdrawFeeBps) ELSE 0

(* Without a treasury the fee is waived.                                   *)
FeeAmount(request) == IF treasurySet THEN Fee(request.amount, request.withdrawFeeBps) ELSE 0

(* Mutant: a fee nobody is paid is kept back.                              *)
SettleKeepingFee(key, nullifiers) ==
    LET request == forcedWithdrawalRequests[key]
        fee == Fee(request.amount, request.withdrawFeeBps)
        payout == request.amount - fee
    IN  /\ nullifierSpent' = nullifierSpent \cup ToSet(nullifiers)
        /\ timesSpent' = [n \in Note |-> timesSpent[n] + Times(n, nullifiers)]
        /\ balance' = balance - payout - (IF treasurySet THEN fee ELSE 0)
        /\ received' = received + payout
        /\ ClearRequest(key)

Settle(key, nullifiers) ==
    LET request == forcedWithdrawalRequests[key]
        payout == request.amount - FeeAmount(request)
    IN  /\ nullifierSpent' = nullifierSpent \cup ToSet(nullifiers)
        /\ timesSpent' = [n \in Note |-> timesSpent[n] + Times(n, nullifiers)]
        /\ balance' = balance - payout - FeeAmount(request)
        /\ received' = received + payout
        /\ ClearRequest(key)

(* Anyone executes.  The authorization was checked when the request was    *)
(* made and is not looked at again.                                        *)
ExecuteForcedWithdrawal(key, nullifiers, commitments) ==
    /\ LoadedRequest(key, nullifiers, commitments)
    /\ Len(nullifiers) <= maxForcedInputs
    /\ Ripe(key)
    /\ RequireUnspent(nullifiers)
    /\ Settle(key, nullifiers)
    /\ UNCHANGED configVars

-----------------------------------------------------------------------------
(* Cancellation.                                                           *)

(* Mutant: requests with more inputs than an upgrade still allows stay.    *)
CancelWithinBound(caller, key, nullifiers, commitments) ==
    /\ LoadedRequest(key, nullifiers, commitments)
    /\ Len(nullifiers) <= maxForcedInputs
    /\ \/ caller = forcedWithdrawalRequests[key].account
       \/ ToSet(nullifiers) \cap nullifierSpent # {}
    /\ ClearRequest(key)
    /\ UNCHANGED <<configVars, fundVars>>

(* The owner cancels at any time; anyone prunes a request that can not be  *)
(* executed any more.                                                      *)
CancelForcedWithdrawal(caller, key, nullifiers, commitments) ==
    /\ LoadedRequest(key, nullifiers, commitments)
    /\ \/ caller = forcedWithdrawalRequests[key].account
       \/ ToSet(nullifiers) \cap nullifierSpent # {}
    /\ ClearRequest(key)
    /\ UNCHANGED <<configVars, fundVars>>

-----------------------------------------------------------------------------
(* What goes on around a request.                                          *)

(* A transfer epoch spends a note, here into a withdrawal.                 *)
SubmitEpoch(n) ==
    /\ n \notin nullifierSpent
    /\ nullifierSpent' = nullifierSpent \cup {n}
    /\ timesSpent' = [timesSpent EXCEPT ![n] = @ + 1]
    /\ balance' = balance - ValueOf[CommitmentOf[n]]
    /\ UNCHANGED <<configVars, requestVars, received>>

SetFees(bps) ==
    /\ bps > 0 => treasurySet              \* TreasuryNotSet
    /\ withdrawFeeBps' = bps
    /\ UNCHANGED <<maxForcedInputs, treasurySet, liveAuth, requestVars, fundVars>>

SetTreasury(set) ==
    /\ ~set => withdrawFeeBps = 0          \* TreasuryNotSet
    /\ treasurySet' = set
    /\ UNCHANGED <<maxForcedInputs, withdrawFeeBps, liveAuth, requestVars, fundVars>>

(* The implementation behind the proxy is replaced.                        *)
Upgrade(bound) ==
    /\ maxForcedInputs' = bound
    /\ UNCHANGED <<withdrawFeeBps, treasurySet, liveAuth, requestVars, fundVars>>

(* Keys and approvals are registered and revoked in the AuthRegistry.      *)
ChangeAuth(live) ==
    /\ liveAuth' = live
    /\ UNCHANGED <<maxForcedInputs, withdrawFeeBps, treasurySet, requestVars, fundVars>>

Mine ==
    /\ \E key \in Requested : ~Ripe(key)
    /\ forcedWithdrawalRequests' =
            [key \in Requested |->
                IF Ripe(key) THEN forcedWithdrawalRequests[key]
                ELSE [forcedWithdrawalRequests[key] EXCEPT !.age = @ + 1]]
    /\ UNCHANGED <<commitmentToRequestKey, configVars, fundVars>>

-----------------------------------------------------------------------------
(* The specification.                                                      *)

ForcedInit ==
    /\ nullifierSpent = {}
    /\ commitmentToRequestKey = [c \in Commitment |-> NoRequest]
    /\ forcedWithdrawalRequests = <<>>
    /\ maxForcedInputs = MaxInputs
    /\ withdrawFeeBps \in FeeRates
    /\ treasurySet = TRUE
    /\ liveAuth = AccountId
    /\ timesSpent = [n \in Note |-> 0]
    /\ balance = Value(Note)
    /\ received = 0

Request ==
    \E nullifiers \in Nullifiers, commitments \in InputCommitments, account \in AccountId :
        \E amount \in Amounts :
            RequestForcedWithdrawal(account, nullifiers, commitments, amount)

Execute ==
    \E nullifiers \in Nullifiers, commitments \in InputCommitments, key \in Requested :
        ExecuteForcedWithdrawal(key, nullifiers, commitments)

Cancel ==
    \E nullifiers \in Nullifiers, commitments \in InputCommitments, key \in Requested :
        \E caller \in AccountId : CancelForcedWithdrawal(caller, key, nullifiers, commitments)

Configure ==
    \/ \E bps \in FeeRates : SetFees(bps)
    \/ \E set \in BOOLEAN : SetTreasury(set)
    \/ \E bound \in InputBounds : Upgrade(bound)
    \/ \E live \in SUBSET AccountId : ChangeAuth(live)

ForcedNext ==
    \/ Request
    \/ Execute
    \/ Cancel
    \/ \E n \in Note : SubmitEpoch(n)
    \/ Configure
    \/ Mine

ForcedSpec == ForcedInit /\ [][ForcedNext]_forcedVars

(* The chain goes on, and once it can be done somebody executes a request, *)
(* prunes it, or, when it has become too large to execute, its owner       *)
(* cancels it.                                                             *)
Finish(key) ==
    LET request == forcedWithdrawalRequests[key]
    IN  /\ key \in Requested
        /\ \/ ExecuteForcedWithdrawal(key, key.nullifiers, key.commitments)
           \/ \E caller \in AccountId :
                /\ \/ caller # request.account
                   \/ Len(key.nullifiers) > maxForcedInputs
                /\ CancelForcedWithdrawal(caller, key, key.nullifiers, key.commitments)

RequestKeys ==
    {[nullifiers |-> nullifiers, commitments |-> [i \in DOMAIN nullifiers |-> CommitmentOf[nullifiers[i]]]] :
        nullifiers \in {s \in Nullifiers : s # <<>> /\ NoDuplicates(s)}}

Fairness ==
    /\ WF_forcedVars(Mine)
    /\ \A key \in RequestKeys : WF_forcedVars(Finish(key))

FairSpec == ForcedSpec /\ Fairness

-----------------------------------------------------------------------------
(* Properties.                                                             *)

(* A commitment is reserved exactly while a pending request names it, and  *)
(* by one request only: no cancellation, pruning or execution leaves a     *)
(* note behind that can never be withdrawn again, or frees one that        *)
(* another request still holds.                                            *)
BindingsExact ==
    \A c \in Commitment :
        /\ \A key \in Requested :
                commitmentToRequestKey[c] = key <=> c \in ToSet(key.commitments)
        /\ commitmentToRequestKey[c] \in Requested \cup {NoRequest}

(* An epoch and a forced withdrawal never both spend a note, in whatever   *)
(* order the request, the epoch, the execution and further requests come,  *)
(* and also when two notes share a commitment.                             *)
SpentOnce == \A n \in Note : timesSpent[n] <= 1

(* What left the pool is exactly the value of the notes that were spent:   *)
(* fees are paid or waived, never kept back, and no note pays twice.       *)
PoolKeepsTheRest == balance = Value({n \in Note : timesSpent[n] = 0})

(* Every pending request can still be acted on: its own lists lead back to *)
(* it, whatever other requests came and went; it holds notes of the        *)
(* account that may cancel it and of no other; and as long as none of them *)
(* is spent the pool can pay it, whoever was paid before.                  *)
RequestsReachable ==
    \A key \in Requested :
        LET request == forcedWithdrawalRequests[key]
        IN  /\ LoadedRequest(key, key.nullifiers, key.commitments)
            /\ \A c \in ToSet(key.commitments) : AccountOf[c] = request.account
            /\ RequireUnspent(key.nullifiers) => request.amount <= balance

(* A recipient gets at least what the account signed for, whatever the     *)
(* owner does to the fees while the request waits.                         *)
PaidAsSigned ==
    [][\A key \in Requested \ Requested' :
            received' # received =>
                LET request == forcedWithdrawalRequests[key]
                IN  received' - received >= request.amount - Fee(request.amount, request.withdrawFeeBps)]_forcedVars

(* No request reserves its notes for ever: neither a revoked authorization *)
(* nor an upgrade to fewer inputs nor a competing epoch can keep one       *)
(* pending.                                                                *)
EveryRequestEnds == \A key \in RequestKeys : key \in Requested ~> key \notin Requested

(* The documented cancellation (docs/specs, 12-security-model-invariants): *)
(* it waits for the same delay as the execution.                           *)
CancelledWhenRipe == [][\A key \in Requested : key \notin Requested' => Ripe(key)]_forcedVars
=============================================================================
