--------------------------- MODULE Portals_proofs ---------------------------
(***************************************************************************)
(* Proofs about Portals, for every set of portals, sweepers and tokens and *)
(* every value of the amounts, rates and delays.                           *)
(***************************************************************************)
EXTENDS Portals, Sums, FiniteSetTheorems, TLAPS

(* A sweep is remembered with a counter its portal has passed.             *)
SweptBefore ==
    /\ DOMAIN ended = {w.id : w \in swept}
    /\ \A w \in swept : w.id.portal \in Portal /\ w.id.counter \in Nat
    /\ \A w \in swept : w.id.counter < portalCounter[w.id.portal]

(* Records belong to sweeps, and what is not processed has not ended.      *)
NotEndedBefore ==
    /\ \A r \in portalPendingDeposits : r.id \in DOMAIN ended
    /\ \A id \in DOMAIN ended :
          ended[id] \in {0, 1} /\ (id \notin processedPortalDeposits => ended[id] = 0)

IInv ==
    /\ portalCounter \in [Portal -> Nat]
    /\ SweptBefore
    /\ NotEndedBefore
    /\ CountersDistinct

(* Steps that leave the sweeps alone.                                      *)
IUnchanged ==
    UNCHANGED <<portalCounter, portalPendingDeposits, processedPortalDeposits, swept, ended>>

(* At first nothing was swept.                                             *)
LEMMA InitInvariant == Init => IInv
BY DEF Init, IInv, SweptBefore, NotEndedBefore, CountersDistinct

(* And so keep the invariant.                                              *)
LEMMA UnchangedKeeps == IInv /\ IUnchanged => IInv'
BY DEF IInv, IUnchanged, SweptBefore, NotEndedBefore, CountersDistinct

(* A new sweep takes the counter of its portal, which no earlier one has.  *)
LEMMA RequestKeeps ==
    ASSUME NEW s \in Sweeper, NEW e \in Portal, NEW t \in Token,
           IInv, RequestPortalDeposit(s, e, t)
    PROVE  IInv'
<1>1. PICK h \in PortalBinding(e), w \in Sweep(e, t, MaxAmount) :
        LET id == [portal |-> e, token |-> t, amount |-> w.pushed,
                   counter |-> portalCounter[e], recipientBindH |-> h]
        IN  /\ portalCounter' = [portalCounter EXCEPT ![e] = NextCounter(e)]
            /\ portalPendingDeposits' = portalPendingDeposits \cup
                  {[id |-> id, sweepFeeBps |-> portalSweepFeeBps, requestBlock |-> block, sweeper |-> s]}
            /\ swept' = swept \cup
                  {[id |-> id, sweeper |-> s, fee |-> FeeAt(portalSweepFeeBps, w.pushed)]}
            /\ ended' = [i \in DOMAIN ended \cup {id} |-> IF i \in DOMAIN ended THEN ended[i] ELSE 0]
  BY DEF RequestPortalDeposit, ComputePortalDepositId
<1> DEFINE id == [portal |-> e, token |-> t, amount |-> w.pushed,
                  counter |-> portalCounter[e], recipientBindH |-> h]
           new == [id |-> id, sweeper |-> s, fee |-> FeeAt(portalSweepFeeBps, w.pushed)]
<1>2. /\ portalCounter' = [portalCounter EXCEPT ![e] = portalCounter[e] + 1]
      /\ swept' = swept \cup {new}
      /\ ended' = [i \in DOMAIN ended \cup {id} |-> IF i \in DOMAIN ended THEN ended[i] ELSE 0]
      /\ \A r \in portalPendingDeposits' : r \in portalPendingDeposits \/ r.id = id
  BY <1>1 DEF NextCounter
<1>3. processedPortalDeposits' = processedPortalDeposits
  BY DEF RequestPortalDeposit, ComputePortalDepositId
<1>4. /\ portalCounter \in [Portal -> Nat]
      /\ portalCounter'[e] = portalCounter[e] + 1
      /\ \A f \in Portal : f # e => portalCounter'[f] = portalCounter[f]
      /\ portalCounter' \in [Portal -> Nat]
  BY <1>2 DEF IInv
<1>5. new.id = id /\ id.portal = e /\ id.counter = portalCounter[e] /\ portalCounter[e] \in Nat
  BY <1>4
<1> HIDE DEF id, new
<1>6. \A v \in swept : v.id.portal = e => v.id.counter < portalCounter[e]
  BY DEF IInv, SweptBefore
<1>7. SweptBefore'
  <2>1. DOMAIN ended' = {v.id : v \in swept'}
    BY <1>2, <1>5 DEF IInv, SweptBefore
  <2>2. \A v \in swept' : /\ v.id.portal \in Portal /\ v.id.counter \in Nat
                          /\ v.id.counter < portalCounter'[v.id.portal]
    <3> SUFFICES ASSUME NEW v \in swept'
                 PROVE  /\ v.id.portal \in Portal /\ v.id.counter \in Nat
                        /\ v.id.counter < portalCounter'[v.id.portal]
      OBVIOUS
    <3>1. CASE v = new
      BY <3>1, <1>4, <1>5
    <3>2. CASE v \in swept
      BY <3>2, <1>4 DEF IInv, SweptBefore
    <3> QED BY <3>1, <3>2, <1>2
  <2> QED BY <2>1, <2>2 DEF SweptBefore
<1>8. NotEndedBefore'
  <2>1. \A r \in portalPendingDeposits' : r.id \in DOMAIN ended'
    BY <1>2 DEF IInv, NotEndedBefore
  <2>2. \A i \in DOMAIN ended' : /\ ended'[i] \in {0, 1}
                                 /\ i \notin processedPortalDeposits' => ended'[i] = 0
    BY <1>2, <1>3 DEF IInv, NotEndedBefore
  <2> QED BY <2>1, <2>2 DEF NotEndedBefore
<1>9. CountersDistinct'
  <2> SUFFICES ASSUME NEW u \in swept', NEW v \in swept',
                      u.id.portal = v.id.portal, u.id.counter = v.id.counter
               PROVE  u = v
    BY DEF CountersDistinct
  <2>1. \A x \in swept : ~(x.id.portal = new.id.portal /\ x.id.counter = new.id.counter)
    <3> SUFFICES ASSUME NEW x \in swept, x.id.portal = e, x.id.counter = portalCounter[e]
                 PROVE  FALSE
      BY <1>5
    <3> QED BY <1>5, <1>6
  <2> QED BY <1>2, <2>1 DEF IInv, CountersDistinct
<1> QED BY <1>4, <1>7, <1>8, <1>9 DEF IInv

(* Taking a sweep back.                                                    *)
LEMMA CancelKeeps ==
    ASSUME NEW r \in portalPendingDeposits, IInv, CancelPortalDeposit(r.id)
    PROVE  IInv'
<1>1. /\ r.id \notin processedPortalDeposits
      /\ processedPortalDeposits' = processedPortalDeposits \cup {r.id}
      /\ portalPendingDeposits' \subseteq portalPendingDeposits
      /\ ended' = [ended EXCEPT ![r.id] = @ + 1]
      /\ UNCHANGED <<portalCounter, swept>>
  BY DEF CancelPortalDeposit, Open
<1>2. r.id \in DOMAIN ended /\ ended[r.id] = 0
  BY <1>1 DEF IInv, NotEndedBefore
<1>3. DOMAIN ended' = DOMAIN ended /\ ended'[r.id] = 1
      /\ \A i \in DOMAIN ended : i # r.id => ended'[i] = ended[i]
  BY <1>1, <1>2
<1>4. SweptBefore' /\ CountersDistinct'
  BY <1>1, <1>3 DEF IInv, SweptBefore, CountersDistinct
<1>5. NotEndedBefore'
  BY <1>1, <1>3 DEF IInv, NotEndedBefore
<1> QED BY <1>1, <1>4, <1>5 DEF IInv

(* Crediting a set of sweeps.                                              *)
LEMMA SubmitKeeps ==
    ASSUME NEW ids \in Batches, IInv, SubmitPortalDepositEpoch(ids)
    PROVE  IInv'
<1>1. /\ \A id \in ids : id \notin processedPortalDeposits
      /\ processedPortalDeposits' = processedPortalDeposits \cup ids
      /\ ended' = [id \in DOMAIN ended |-> ended[id] + (IF id \in ids THEN 1 ELSE 0)]
      /\ UNCHANGED <<portalCounter, portalPendingDeposits, swept>>
  BY DEF SubmitPortalDepositEpoch, Open
<1>2. \A id \in DOMAIN ended :
        ended'[id] = IF id \in ids THEN 1 ELSE ended[id]
  BY <1>1 DEF IInv, NotEndedBefore
<1>3. DOMAIN ended' = DOMAIN ended
  BY <1>1
<1>4. SweptBefore' /\ CountersDistinct'
  BY <1>1, <1>3 DEF IInv, SweptBefore, CountersDistinct
<1>5. NotEndedBefore'
  BY <1>1, <1>2, <1>3 DEF IInv, NotEndedBefore
<1> QED BY <1>1, <1>4, <1>5 DEF IInv

(* Every step keeps it.                                                    *)
LEMMA NextInvariant == IInv /\ [Next]_vars => IInv'
<1> SUFFICES ASSUME IInv, [Next]_vars PROVE IInv'
  OBVIOUS
<1> USE UnchangedKeeps
<1>1. CASE \E e \in Portal, t \in Token : Arrive(e, t)
  BY <1>1 DEF Arrive, IUnchanged, poolVars, ghostVars
<1>2. CASE \E e \in Portal : ArriveNative(e)
  BY <1>2 DEF ArriveNative, IUnchanged, poolVars, ghostVars
<1>3. CASE \E e \in Portal, h \in Binding : InitializePortal(e, h)
  BY <1>3 DEF InitializePortal, IUnchanged, poolVars, ghostVars
<1>4. CASE \E e \in Portal : Redelegate(e)
  BY <1>4 DEF Redelegate, IUnchanged, poolVars, ghostVars
<1>5. CASE \E e \in Portal : OtherCode(e)
  BY <1>5 DEF OtherCode, IUnchanged, poolVars, ghostVars
<1>6. CASE \E e \in Portal, t \in Token, a \in 1..MaxBalance : Withdraw(e, t, a)
  BY <1>6 DEF Withdraw, IUnchanged, poolVars, ghostVars
<1>7. CASE \E s \in Sweeper, e \in Portal, t \in Token : RequestPortalDeposit(s, e, t)
  BY <1>7, RequestKeeps
<1>8. CASE \E r \in portalPendingDeposits : CancelPortalDeposit(r.id)
  BY <1>8, CancelKeeps
<1>9. CASE \E ids \in Batches : SubmitPortalDepositEpoch(ids)
  BY <1>9, SubmitKeeps
<1>10. CASE \E s \in Sweeper, t \in Token : ClaimPortalSweepFee(s, t)
  BY <1>10 DEF ClaimPortalSweepFee, IUnchanged
<1>11. CASE \E rate \in FeeRates : SetPortalSweepFeeBps(rate)
  BY <1>11 DEF SetPortalSweepFeeBps, IUnchanged, poolVars, ghostVars
<1>12. CASE \E t \in Token, m \in DustLimits : SetPortalMinSweep(t, m)
  BY <1>12 DEF SetPortalMinSweep, IUnchanged, poolVars, ghostVars
<1>13. CASE NextBlock
  BY <1>13 DEF NextBlock, IUnchanged, poolVars, ghostVars
<1>14. CASE UNCHANGED vars
  BY <1>14 DEF vars, IUnchanged, poolVars, ghostVars
<1> QED
  BY <1>1, <1>2, <1>3, <1>4, <1>5, <1>6, <1>7, <1>8, <1>9, <1>10, <1>11, <1>12, <1>13, <1>14
  DEF Next

(* The inductive invariant: counters only move on, and whatever is not     *)
(* flagged as processed has not ended.                                     *)
THEOREM PortalInvariant == Spec => []IInv
<1>1. Init => IInv
  BY InitInvariant
<1>2. IInv /\ [Next]_vars => IInv'
  BY NextInvariant
<1> QED BY <1>1, <1>2, PTL DEF Spec

(* A sweep is credited or returned at most once (cancelPortalDeposit,      *)
(* submitPortalDepositEpoch).                                              *)
THEOREM EachSweepEndsOnce == Spec => []SweepEndsOnce
<1>1. IInv => SweepEndsOnce
  BY DEF IInv, NotEndedBefore, SweepEndsOnce
<1> QED BY <1>1, PortalInvariant, PTL

(* No two sweeps of a portal have the same counter (requestPortalDeposit), *)
(* whatever code the portal runs.                                          *)
THEOREM PortalCountersDistinct == Spec => []CountersDistinct
<1>1. IInv => CountersDistinct
  BY DEF IInv
<1> QED BY <1>1, PortalInvariant, PTL

-----------------------------------------------------------------------------
(***************************************************************************)
(* The inductive invariant of the money.  Records are finite in number,    *)
(* each is remembered among the sweeps with the fee it was taken at, and   *)
(* the records of credited sweeps stay: what they were credited and left   *)
(* in fees is what the pool has handed out or owes.                        *)
(***************************************************************************)
Sound(R) ==
    /\ IsFiniteSet(R)
    /\ \A r \in R : /\ r.id.token \in Token /\ r.sweeper \in Sweeper
                    /\ r.id.amount \in Int /\ FeeOf(r) \in Int

Memo(r) == [id |-> r.id, sweeper |-> r.sweeper, fee |-> FeeOf(r)]

Settled == {r \in portalPendingDeposits : r.id \in processedPortalDeposits}

MoneyTyped ==
    /\ balance \in [Portal -> [Token -> Int]] /\ native \in [Portal -> Int]
    /\ claimable \in [Sweeper -> [Token -> Int]] /\ paid \in [Sweeper -> [Token -> Int]]
    /\ vault \in [Token -> Int] /\ shielded \in [Token -> Int]
    /\ portalSweepFeeBps \in Nat

RecordsRemembered ==
    /\ Sound(portalPendingDeposits)
    /\ \A r \in portalPendingDeposits : Memo(r) \in swept
    /\ \A r, q \in portalPendingDeposits : r.id = q.id => r = q
    /\ \A id \in processedPortalDeposits : id \in DOMAIN ended /\ ended[id] = 1

MoneySettled ==
    \A t \in Token :
        /\ vault[t] = AmountIn(Escrowed, t) + shielded[t] + OfSweepers(claimable, t)
        /\ shielded[t] = NetIn(Settled, t)
        /\ \A s \in Sweeper : paid[s][t] + claimable[s][t] = FeesOf(Settled, s, t)

MoneyInv == IInv /\ MoneyTyped /\ RecordsRemembered /\ MoneySettled

-----------------------------------------------------------------------------
(* The folds of the community modules are sums: of what records hold,      *)
LEMMA AmountInIsTotal ==
    ASSUME NEW R, IsFiniteSet(R), NEW t, NEW f, \A r \in R : f[r] = r.id.amount
    PROVE  AmountIn(R, t) = Total(f, {r \in R : r.id.token = t})
<1> DEFINE S == {r \in R : r.id.token = t}
           body(g) == [T \in SUBSET S |->
                            IF T = {} THEN 0
                            ELSE LET x == CHOOSE x \in T : TRUE
                                 IN (x.id.amount) + g[T \ {x}]]
           iter == CHOOSE g : g = body(g)
<1>1. AmountIn(R, t) = iter[S]
  BY DEF AmountIn, MapThenSumSet, MapThenFoldSet
<1>2. ASSUME NEW g PROVE IsSum(g, f, S) <=> g = body(g)
  <2>1. ASSUME NEW T \in SUBSET S, T # {} PROVE f[OneOf(T)] = OneOf(T).id.amount
    BY <2>1, OneOfIsElement
  <2> QED BY <2>1 DEF IsSum, OneOf
<1>3. IsFiniteSet(S)
  BY FS_Subset
<1>4. SumOfSubsets(f, S) = body(SumOfSubsets(f, S))
  <2> HIDE DEF S, body
  <2> QED BY <1>2, <1>3, SumExists
<1>5. iter = body(iter)
  <2> HIDE DEF body
  <2> QED BY <1>4
<1> HIDE DEF S, body, iter
<1>6. iter[S] = Total(f, S)
  <2>1. IsSum(iter, f, S)
    BY <1>2, <1>5
  <2> QED BY <1>3, <2>1, SumExists, SumUnique DEF Total
<1> QED BY <1>1, <1>6 DEF S

(* of what they credit,                                                    *)
LEMMA NetInIsTotal ==
    ASSUME NEW R, IsFiniteSet(R), NEW t, NEW f, \A r \in R : f[r] = r.id.amount - FeeOf(r)
    PROVE  NetIn(R, t) = Total(f, {r \in R : r.id.token = t})
<1> DEFINE S == {r \in R : r.id.token = t}
           body(g) == [T \in SUBSET S |->
                            IF T = {} THEN 0
                            ELSE LET x == CHOOSE x \in T : TRUE
                                 IN (x.id.amount - FeeOf(x)) + g[T \ {x}]]
           iter == CHOOSE g : g = body(g)
<1>1. NetIn(R, t) = iter[S]
  BY DEF NetIn, MapThenSumSet, MapThenFoldSet
<1>2. ASSUME NEW g PROVE IsSum(g, f, S) <=> g = body(g)
  <2>1. ASSUME NEW T \in SUBSET S, T # {} PROVE f[OneOf(T)] = OneOf(T).id.amount - FeeOf(OneOf(T))
    BY <2>1, OneOfIsElement
  <2> QED BY SMTT(30), <2>1 DEF IsSum, OneOf
<1>3. IsFiniteSet(S)
  BY FS_Subset
<1>4. SumOfSubsets(f, S) = body(SumOfSubsets(f, S))
  <2> HIDE DEF S, body
  <2> QED BY <1>2, <1>3, SumExists
<1>5. iter = body(iter)
  <2> HIDE DEF body
  <2> QED BY <1>4
<1> HIDE DEF S, body, iter
<1>6. iter[S] = Total(f, S)
  <2>1. IsSum(iter, f, S)
    BY <1>2, <1>5
  <2> QED BY <1>3, <2>1, SumExists, SumUnique DEF Total
<1> QED BY <1>1, <1>6 DEF S

(* of the fees they leave,                                                 *)
LEMMA FeesOfIsTotal ==
    ASSUME NEW R, IsFiniteSet(R), NEW s, NEW t, NEW f, \A r \in R : f[r] = FeeOf(r)
    PROVE  FeesOf(R, s, t) = Total(f, {r \in R : r.sweeper = s /\ r.id.token = t})
<1> DEFINE S == {r \in R : r.sweeper = s /\ r.id.token = t}
           body(g) == [T \in SUBSET S |->
                            IF T = {} THEN 0
                            ELSE LET x == CHOOSE x \in T : TRUE
                                 IN (FeeOf(x)) + g[T \ {x}]]
           iter == CHOOSE g : g = body(g)
<1>1. FeesOf(R, s, t) = iter[S]
  BY DEF FeesOf, MapThenSumSet, MapThenFoldSet
<1>2. ASSUME NEW g PROVE IsSum(g, f, S) <=> g = body(g)
  <2>1. ASSUME NEW T \in SUBSET S, T # {} PROVE f[OneOf(T)] = FeeOf(OneOf(T))
    BY <2>1, OneOfIsElement
  <2> QED BY ZenonT(30), <2>1 DEF IsSum, OneOf
<1>3. IsFiniteSet(S)
  BY FS_Subset
<1>4. SumOfSubsets(f, S) = body(SumOfSubsets(f, S))
  <2> HIDE DEF S, body
  <2> QED BY <1>2, <1>3, SumExists
<1>5. iter = body(iter)
  <2> HIDE DEF body
  <2> QED BY <1>4
<1> HIDE DEF S, body, iter
<1>6. iter[S] = Total(f, S)
  <2>1. IsSum(iter, f, S)
    BY <1>2, <1>5
  <2> QED BY <1>3, <2>1, SumExists, SumUnique DEF Total
<1> QED BY <1>1, <1>6 DEF S

(* of what a table says of the sweepers,                                   *)
LEMMA OfSweepersIsTotal ==
    ASSUME NEW table, NEW t, NEW f, \A s \in Sweeper : f[s] = table[s][t]
    PROVE  OfSweepers(table, t) = Total(f, Sweeper)
<1> DEFINE S == Sweeper
           body(g) == [T \in SUBSET S |->
                            IF T = {} THEN 0
                            ELSE LET x == CHOOSE x \in T : TRUE
                                 IN (table[x][t]) + g[T \ {x}]]
           iter == CHOOSE g : g = body(g)
<1>1. OfSweepers(table, t) = iter[S]
  BY DEF OfSweepers, MapThenSumSet, MapThenFoldSet
<1>2. ASSUME NEW g PROVE IsSum(g, f, S) <=> g = body(g)
  <2>1. ASSUME NEW T \in SUBSET S, T # {} PROVE f[OneOf(T)] = table[OneOf(T)][t]
    BY <2>1, OneOfIsElement
  <2> QED BY <2>1 DEF IsSum, OneOf
<1>3. IsFiniteSet(S)
  BY SweepersAssumption
<1>4. SumOfSubsets(f, S) = body(SumOfSubsets(f, S))
  <2> HIDE DEF S, body
  <2> QED BY <1>2, <1>3, SumExists
<1>5. iter = body(iter)
  <2> HIDE DEF body
  <2> QED BY <1>4
<1> HIDE DEF S, body, iter
<1>6. iter[S] = Total(f, S)
  <2>1. IsSum(iter, f, S)
    BY <1>2, <1>5
  <2> QED BY <1>3, <2>1, SumExists, SumUnique DEF Total
<1> QED BY <1>1, <1>6 DEF S

(* and of what sweeps were promised.                                       *)
LEMMA NetSweptIsTotal ==
    ASSUME NEW W, IsFiniteSet(W), NEW t, NEW f, \A w \in W : f[w] = w.id.amount - w.fee
    PROVE  NetSwept(W, t) = Total(f, {w \in W : w.id.token = t})
<1> DEFINE S == {w \in W : w.id.token = t}
           body(g) == [T \in SUBSET S |->
                            IF T = {} THEN 0
                            ELSE LET x == CHOOSE x \in T : TRUE
                                 IN (x.id.amount - x.fee) + g[T \ {x}]]
           iter == CHOOSE g : g = body(g)
<1>1. NetSwept(W, t) = iter[S]
  BY DEF NetSwept, MapThenSumSet, MapThenFoldSet
<1>2. ASSUME NEW g PROVE IsSum(g, f, S) <=> g = body(g)
  <2>1. ASSUME NEW T \in SUBSET S, T # {} PROVE f[OneOf(T)] = OneOf(T).id.amount - OneOf(T).fee
    BY <2>1, OneOfIsElement
  <2> QED BY <2>1 DEF IsSum, OneOf
<1>3. IsFiniteSet(S)
  BY FS_Subset
<1>4. SumOfSubsets(f, S) = body(SumOfSubsets(f, S))
  <2> HIDE DEF S, body
  <2> QED BY <1>2, <1>3, SumExists
<1>5. iter = body(iter)
  <2> HIDE DEF body
  <2> QED BY <1>4
<1> HIDE DEF S, body, iter
<1>6. iter[S] = Total(f, S)
  <2>1. IsSum(iter, f, S)
    BY <1>2, <1>5
  <2> QED BY <1>3, <2>1, SumExists, SumUnique DEF Total
<1> QED BY <1>1, <1>6 DEF S

(* So are the fees they were to leave.                                     *)
LEMMA FeesSweptIsTotal ==
    ASSUME NEW W, IsFiniteSet(W), NEW s, NEW t, NEW f, \A w \in W : f[w] = w.fee
    PROVE  FeesSwept(W, s, t) = Total(f, {w \in W : w.sweeper = s /\ w.id.token = t})
<1> DEFINE S == {w \in W : w.sweeper = s /\ w.id.token = t}
           body(g) == [T \in SUBSET S |->
                            IF T = {} THEN 0
                            ELSE LET x == CHOOSE x \in T : TRUE
                                 IN (x.fee) + g[T \ {x}]]
           iter == CHOOSE g : g = body(g)
<1>1. FeesSwept(W, s, t) = iter[S]
  BY DEF FeesSwept, MapThenSumSet, MapThenFoldSet
<1>2. ASSUME NEW g PROVE IsSum(g, f, S) <=> g = body(g)
  <2>1. ASSUME NEW T \in SUBSET S, T # {} PROVE f[OneOf(T)] = OneOf(T).fee
    BY <2>1, OneOfIsElement
  <2> QED BY <2>1 DEF IsSum, OneOf
<1>3. IsFiniteSet(S)
  BY FS_Subset
<1>4. SumOfSubsets(f, S) = body(SumOfSubsets(f, S))
  <2> HIDE DEF S, body
  <2> QED BY <1>2, <1>3, SumExists
<1>5. iter = body(iter)
  <2> HIDE DEF body
  <2> QED BY <1>4
<1> HIDE DEF S, body, iter
<1>6. iter[S] = Total(f, S)
  <2>1. IsSum(iter, f, S)
    BY <1>2, <1>5
  <2> QED BY <1>3, <2>1, SumExists, SumUnique DEF Total
<1> QED BY <1>1, <1>6 DEF S

-----------------------------------------------------------------------------
(* Records that come together bring along what they hold,                  *)
LEMMA AmountsJoin ==
    ASSUME NEW S, Sound(S), NEW R, Sound(R), S \cap R = {}, NEW t
    PROVE  /\ AmountIn(S, t) \in Int /\ AmountIn(R, t) \in Int
           /\ AmountIn(S \cup R, t) = AmountIn(S, t) + AmountIn(R, t)
<1> DEFINE U == S \cup R
           Of(V) == {r \in V : r.id.token = t}
           value == [r \in U |-> r.id.amount]
<1>1. IsFiniteSet(S) /\ IsFiniteSet(R) /\ IsFiniteSet(U)
  BY FS_Union DEF Sound
<1>2. /\ IsFiniteSet(Of(S)) /\ IsFiniteSet(Of(R)) /\ Of(S) \subseteq U /\ Of(R) \subseteq U
      /\ Of(S) \cap Of(R) = {} /\ Of(U) = Of(S) \cup Of(R)
  BY <1>1, FS_Subset
<1>3. \A r \in U : value[r] \in Int
  BY DEF Sound
<1>4. /\ AmountIn(S, t) = Total(value, Of(S)) /\ AmountIn(R, t) = Total(value, Of(R))
      /\ AmountIn(U, t) = Total(value, Of(U))
  BY <1>1, AmountInIsTotal
<1> HIDE DEF U, Of, value
<1>5. Total(value, Of(S)) \in Int /\ Total(value, Of(R)) \in Int
  BY <1>2, <1>3, TotalInt
<1>6. Total(value, Of(S) \cup Of(R)) = Total(value, Of(S)) + Total(value, Of(R))
  BY <1>2, <1>3, TotalUnion
<1>7. Total(value, Of(U)) = Total(value, Of(S)) + Total(value, Of(R))
  BY <1>2, <1>6, Zenon
<1> QED BY <1>4, <1>5, <1>7 DEF U

(* what is credited of them,                                               *)
LEMMA NetsJoin ==
    ASSUME NEW S, Sound(S), NEW R, Sound(R), S \cap R = {}, NEW t
    PROVE  /\ NetIn(S, t) \in Int /\ NetIn(R, t) \in Int
           /\ NetIn(S \cup R, t) = NetIn(S, t) + NetIn(R, t)
<1> DEFINE U == S \cup R
           Of(V) == {r \in V : r.id.token = t}
           value == [r \in U |-> r.id.amount - FeeOf(r)]
<1>1. IsFiniteSet(S) /\ IsFiniteSet(R) /\ IsFiniteSet(U)
  BY FS_Union DEF Sound
<1>2. /\ IsFiniteSet(Of(S)) /\ IsFiniteSet(Of(R)) /\ Of(S) \subseteq U /\ Of(R) \subseteq U
      /\ Of(S) \cap Of(R) = {} /\ Of(U) = Of(S) \cup Of(R)
  BY <1>1, FS_Subset
<1>3. \A r \in U : value[r] \in Int
  BY DEF Sound
<1>4. /\ NetIn(S, t) = Total(value, Of(S)) /\ NetIn(R, t) = Total(value, Of(R))
      /\ NetIn(U, t) = Total(value, Of(U))
  BY <1>1, NetInIsTotal
<1> HIDE DEF U, Of, value
<1>5. Total(value, Of(S)) \in Int /\ Total(value, Of(R)) \in Int
  BY <1>2, <1>3, TotalInt
<1>6. Total(value, Of(S) \cup Of(R)) = Total(value, Of(S)) + Total(value, Of(R))
  BY <1>2, <1>3, TotalUnion
<1>7. Total(value, Of(U)) = Total(value, Of(S)) + Total(value, Of(R))
  BY <1>2, <1>6, Zenon
<1> QED BY <1>4, <1>5, <1>7 DEF U

(* and the fees they leave.                                                *)
LEMMA FeesJoin ==
    ASSUME NEW S, Sound(S), NEW R, Sound(R), S \cap R = {}, NEW s, NEW t
    PROVE  /\ FeesOf(S, s, t) \in Int /\ FeesOf(R, s, t) \in Int
           /\ FeesOf(S \cup R, s, t) = FeesOf(S, s, t) + FeesOf(R, s, t)
<1> DEFINE U == S \cup R
           Of(V) == {r \in V : r.sweeper = s /\ r.id.token = t}
           value == [r \in U |-> FeeOf(r)]
<1>1. IsFiniteSet(S) /\ IsFiniteSet(R) /\ IsFiniteSet(U)
  BY FS_Union DEF Sound
<1>2. /\ IsFiniteSet(Of(S)) /\ IsFiniteSet(Of(R)) /\ Of(S) \subseteq U /\ Of(R) \subseteq U
      /\ Of(S) \cap Of(R) = {} /\ Of(U) = Of(S) \cup Of(R)
  BY <1>1, FS_Subset
<1>3. \A r \in U : value[r] \in Int
  BY DEF Sound
<1>4. /\ FeesOf(S, s, t) = Total(value, Of(S)) /\ FeesOf(R, s, t) = Total(value, Of(R))
      /\ FeesOf(U, s, t) = Total(value, Of(U))
  BY <1>1, FeesOfIsTotal
<1> HIDE DEF U, Of, value
<1>5. Total(value, Of(S)) \in Int /\ Total(value, Of(R)) \in Int
  BY <1>2, <1>3, TotalInt
<1>6. Total(value, Of(S) \cup Of(R)) = Total(value, Of(S)) + Total(value, Of(R))
  BY <1>2, <1>3, TotalUnion
<1>7. Total(value, Of(U)) = Total(value, Of(S)) + Total(value, Of(R))
  BY <1>2, <1>6, Zenon
<1> QED BY <1>4, <1>5, <1>7 DEF U

(* What goes takes its amount away.                                        *)
LEMMA AmountWithout ==
    ASSUME NEW S, Sound(S), NEW R \in SUBSET S, NEW t
    PROVE  /\ AmountIn(S, t) \in Int /\ AmountIn(R, t) \in Int
           /\ AmountIn(S \ R, t) = AmountIn(S, t) - AmountIn(R, t)
<1> DEFINE rest == S \ R
<1>1. Sound(R) /\ Sound(rest)
  BY FS_Subset DEF Sound
<1>2. rest \cap R = {} /\ rest \cup R = S
  OBVIOUS
<1> HIDE DEF rest
<1>3. /\ AmountIn(rest, t) \in Int /\ AmountIn(R, t) \in Int
      /\ AmountIn(rest \cup R, t) = AmountIn(rest, t) + AmountIn(R, t)
  BY <1>1, <1>2, AmountsJoin
<1>4. AmountIn(S, t) = AmountIn(rest, t) + AmountIn(R, t)
  BY <1>2, <1>3, Zenon
<1> QED BY <1>3, <1>4 DEF rest

(* One record holds its amount, in its token.                              *)
LEMMA AmountOfOne ==
    ASSUME NEW r, r.id.amount \in Int, NEW t
    PROVE  AmountIn({r}, t) = IF r.id.token = t THEN r.id.amount ELSE 0
<1> DEFINE f == [x \in {r} |-> r.id.amount]
           Of == {x \in {r} : x.id.token = t}
<1>1. IsFiniteSet({r}) /\ f[r] = r.id.amount
  BY FS_Singleton
<1>2. \A x \in {r} : f[x] = x.id.amount
  OBVIOUS
<1>3. AmountIn({r}, t) = Total(f, Of)
  BY <1>1, <1>2, AmountInIsTotal
<1>4. CASE r.id.token = t
  <2>1. Of = {r} /\ {r} \ {r} = {}
    BY <1>4
  <2> HIDE DEF f, Of
  <2>2. Total(f, {r}) = f[r] + Total(f, {r} \ {r})
    BY <1>1, TotalRemove
  <2>3. Total(f, {r}) = f[r] + Total(f, {})
    BY <2>1, <2>2, Zenon
  <2>4. Total(f, {r}) = f[r]
    BY <1>1, <2>3, TotalEmpty
  <2>5. Total(f, Of) = r.id.amount
    BY <1>1, <2>1, <2>4, Zenon
  <2> QED BY <1>3, <1>4, <2>5
<1>5. CASE r.id.token # t
  <2>1. Of = {}
    BY <1>5
  <2> HIDE DEF f, Of
  <2>2. Total(f, Of) = 0
    BY <2>1, TotalEmpty, Zenon
  <2> QED BY <1>3, <1>5, <2>2
<1> QED BY <1>4, <1>5

(* No records, no sums.                                                    *)
LEMMA SumsOfNone ==
    ASSUME NEW t
    PROVE  /\ AmountIn({}, t) = 0 /\ NetIn({}, t) = 0
           /\ \A s : FeesOf({}, s, t) = 0
<1> DEFINE f == [x \in {} |-> 0]
<1>1. /\ {r \in {} : r.id.token = t} = {}
      /\ \A s : {r \in {} : r.sweeper = s /\ r.id.token = t} = {}
  OBVIOUS
<1>2. /\ AmountIn({}, t) = Total(f, {r \in {} : r.id.token = t})
      /\ NetIn({}, t) = Total(f, {r \in {} : r.id.token = t})
  BY FS_EmptySet, AmountInIsTotal, NetInIsTotal
<1>3. \A s : FeesOf({}, s, t) = Total(f, {r \in {} : r.sweeper = s /\ r.id.token = t})
  BY FS_EmptySet, FeesOfIsTotal
<1> QED BY <1>1, <1>2, <1>3, TotalEmpty, Zenon

(* The fees of the sweepers together are what is held and not credited.    *)
LEMMA FeesTogether ==
    ASSUME NEW R, Sound(R), NEW t \in Token,
           NEW table, \A s \in Sweeper : table[s][t] = FeesOf(R, s, t)
    PROVE  OfSweepers(table, t) = AmountIn(R, t) - NetIn(R, t)
<1> DEFINE Of == {r \in R : r.id.token = t}
           amount == [r \in R |-> r.id.amount]
           fee == [r \in R |-> FeeOf(r)]
           net == [r \in R |-> r.id.amount - FeeOf(r)]
           kind == [r \in R |-> r.sweeper]
           part == [s \in Sweeper |-> {r \in Of : kind[r] = s}]
           fees == [s \in Sweeper |-> table[s][t]]
<1>1. IsFiniteSet(R) /\ IsFiniteSet(Of) /\ IsFiniteSet(Sweeper)
  BY FS_Subset, SweepersAssumption DEF Sound
<1>2. \A r \in Of : /\ kind[r] \in Sweeper /\ amount[r] \in Int /\ fee[r] \in Int /\ net[r] \in Int
                    /\ amount[r] = net[r] + fee[r]
  BY DEF Sound
<1>3. ASSUME NEW s \in Sweeper
      PROVE  /\ part[s] \subseteq Of /\ fees[s] = Total(fee, part[s])
             /\ \A r \in Of : r \in part[s] <=> kind[r] = s
  <2>1. fees[s] = Total(fee, {r \in R : r.sweeper = s /\ r.id.token = t})
    BY <1>1, FeesOfIsTotal
  <2>2. {r \in R : r.sweeper = s /\ r.id.token = t} = part[s]
    OBVIOUS
  <2>3. fees[s] = Total(fee, part[s])
    BY <2>1, <2>2, Zenon
  <2> QED BY <2>3
<1>4. /\ AmountIn(R, t) = Total(amount, Of) /\ NetIn(R, t) = Total(net, Of)
      /\ OfSweepers(table, t) = Total(fees, Sweeper)
  BY <1>1, AmountInIsTotal, NetInIsTotal, OfSweepersIsTotal
<1> HIDE DEF Of, amount, fee, net, kind, part, fees
<1>5. Total(fees, Sweeper) = Total(fee, Of)
  <2>1. \A r \in Of : kind[r] \in Sweeper /\ fee[r] \in Int
    BY <1>2
  <2>2. \A s \in Sweeper : part[s] \subseteq Of /\ fees[s] = Total(fee, part[s])
    BY <1>3
  <2>3. \A s \in Sweeper, r \in Of : r \in part[s] <=> kind[r] = s
    BY <1>3
  <2> QED BY ONLY <1>1, <2>1, <2>2, <2>3, TotalByKind, SMTT(30)
<1>6. Total(amount, Of) = Total(net, Of) + Total(fee, Of)
  BY <1>1, <1>2, TotalPlus
<1>7. Total(fee, Of) \in Int /\ Total(net, Of) \in Int
  BY <1>1, <1>2, TotalInt
<1> QED BY <1>4, <1>5, <1>6, <1>7

(* Tables add up sweeper by sweeper.                                       *)
LEMMA TablesAddUp ==
    ASSUME NEW t, NEW A, NEW B, NEW C,
           \A s \in Sweeper : /\ A[s][t] \in Int /\ B[s][t] \in Int
                              /\ C[s][t] = A[s][t] + B[s][t]
    PROVE  /\ OfSweepers(A, t) \in Int /\ OfSweepers(B, t) \in Int
           /\ OfSweepers(C, t) = OfSweepers(A, t) + OfSweepers(B, t)
<1> DEFINE Column(table) == [s \in Sweeper |-> table[s][t]]
<1>1. /\ OfSweepers(A, t) = Total(Column(A), Sweeper)
      /\ OfSweepers(B, t) = Total(Column(B), Sweeper)
      /\ OfSweepers(C, t) = Total(Column(C), Sweeper)
  BY OfSweepersIsTotal
<1>2. \A s \in Sweeper : /\ Column(A)[s] \in Int /\ Column(B)[s] \in Int
                         /\ Column(C)[s] = Column(A)[s] + Column(B)[s]
  OBVIOUS
<1> HIDE DEF Column
<1>3. /\ Total(Column(A), Sweeper) \in Int /\ Total(Column(B), Sweeper) \in Int
      /\ Total(Column(C), Sweeper) = Total(Column(A), Sweeper) + Total(Column(B), Sweeper)
  BY <1>2, SweepersAssumption, TotalInt, TotalPlus
<1> QED BY <1>1, <1>3

(* One sweeper's entry is cleared.                                         *)
LEMMA TableCleared ==
    ASSUME NEW t, NEW A, NEW C, NEW s \in Sweeper,
           \A x \in Sweeper : A[x][t] \in Int,
           \A x \in Sweeper : C[x][t] = IF x = s THEN 0 ELSE A[x][t]
    PROVE  OfSweepers(A, t) \in Int /\ OfSweepers(C, t) = OfSweepers(A, t) - A[s][t]
<1> DEFINE Column(table) == [x \in Sweeper |-> table[x][t]]
<1>1. OfSweepers(A, t) = Total(Column(A), Sweeper) /\ OfSweepers(C, t) = Total(Column(C), Sweeper)
  BY OfSweepersIsTotal
<1>2. /\ \A x \in Sweeper : Column(A)[x] \in Int /\ Column(C)[x] \in Int
      /\ \A x \in Sweeper : x # s => Column(C)[x] = Column(A)[x]
      /\ Column(C)[s] = 0 /\ Column(A)[s] = A[s][t]
  OBVIOUS
<1> HIDE DEF Column
<1>3. /\ Total(Column(A), Sweeper) \in Int
      /\ Total(Column(C), Sweeper) = Total(Column(A), Sweeper) - Column(A)[s] + Column(C)[s]
  BY <1>2, SweepersAssumption, TotalInt, TotalChange
<1> QED BY <1>1, <1>2, <1>3

(* Of two tables alike sweeper by sweeper.                                 *)
LEMMA TablesSame ==
    ASSUME NEW t, NEW A, NEW C, \A s \in Sweeper : C[s][t] = A[s][t]
    PROVE  OfSweepers(C, t) = OfSweepers(A, t)
<1> DEFINE Column(table) == [s \in Sweeper |-> table[s][t]]
<1>1. OfSweepers(A, t) = Total(Column(A), Sweeper) /\ OfSweepers(C, t) = Total(Column(C), Sweeper)
  BY OfSweepersIsTotal
<1>2. \A s \in Sweeper : Column(C)[s] = Column(A)[s]
  OBVIOUS
<1> HIDE DEF Column
<1> QED BY <1>1, <1>2, SweepersAssumption, TotalSame

-----------------------------------------------------------------------------
(* What a table of numbers says of the sweepers is a number.               *)
LEMMA IntOfSweepers ==
    ASSUME NEW t, NEW A, \A s \in Sweeper : A[s][t] \in Int
    PROVE  OfSweepers(A, t) \in Int
<1> DEFINE column == [s \in Sweeper |-> A[s][t]]
<1>1. OfSweepers(A, t) = Total(column, Sweeper)
  BY OfSweepersIsTotal
<1>2. \A s \in Sweeper : column[s] \in Int
  OBVIOUS
<1> HIDE DEF column
<1> QED BY <1>1, <1>2, SweepersAssumption, TotalInt

(* At first there is nothing.                                              *)
LEMMA InitMoney == Init => MoneyInv
<1> SUFFICES ASSUME Init PROVE MoneyInv
  OBVIOUS
<1>1. IInv
  BY InitInvariant
<1>2. MoneyTyped
  BY DEF Init, MoneyTyped
<1>3. RecordsRemembered
  BY FS_EmptySet DEF Init, RecordsRemembered, Sound
<1>4. MoneySettled
  <2> SUFFICES ASSUME NEW t \in Token
               PROVE  /\ vault[t] = AmountIn(Escrowed, t) + shielded[t] + OfSweepers(claimable, t)
                      /\ shielded[t] = NetIn(Settled, t)
                      /\ \A s \in Sweeper : paid[s][t] + claimable[s][t] = FeesOf(Settled, s, t)
    BY DEF MoneySettled
  <2>1. Escrowed = {} /\ Settled = {}
    BY DEF Init, Escrowed, Settled
  <2>2. AmountIn(Escrowed, t) = 0 /\ NetIn(Settled, t) = 0
        /\ \A s \in Sweeper : FeesOf(Settled, s, t) = 0
    BY <2>1, SumsOfNone, Zenon
  <2>3. OfSweepers(claimable, t) = 0
    <3>1. \A s \in Sweeper : /\ claimable[s][t] \in Int
                             /\ claimable[s][t] = claimable[s][t] + claimable[s][t]
      BY DEF Init
    <3>2. /\ OfSweepers(claimable, t) \in Int
          /\ OfSweepers(claimable, t) = OfSweepers(claimable, t) + OfSweepers(claimable, t)
      BY <3>1, TablesAddUp, Zenon
    <3> QED BY SMTT(30), <3>2
  <2> QED BY <2>2, <2>3 DEF Init
<1> QED BY <1>1, <1>2, <1>3, <1>4 DEF MoneyInv

(* Steps that leave the pool's books alone.                                *)
LEMMA MoneyStays ==
    ASSUME RecordsRemembered, MoneySettled,
           UNCHANGED <<portalPendingDeposits, processedPortalDeposits, claimable, vault,
                       swept, shielded, paid, ended>>
    PROVE  RecordsRemembered' /\ MoneySettled'
<1>1. RecordsRemembered'
  BY DEF RecordsRemembered
<1>2. Escrowed' = Escrowed /\ Settled' = Settled
  BY DEF Escrowed, Settled
<1>3. MoneySettled'
  BY <1>2, Zenon DEF MoneySettled
<1> QED BY <1>1, <1>3

(* Numbers stay numbers.                                                   *)
LEMMA FeesAreNumbers ==
    ASSUME NEW rate \in Nat, NEW amount \in Int
    PROVE  FeeAt(rate, amount) \in Int
<1>1. amount * rate \in Int
  OBVIOUS
<1> DEFINE product == amount * rate
<1>2. ASSUME NEW p \in Int PROVE p \div BasisPoints \in Int
  BY RatesAssumption
<1> QED BY <1>1, <1>2 DEF FeeAt

(* What a portal hands over is a number.                                   *)
LEMMA SweptNumbers ==
    ASSUME MoneyTyped, NEW e \in Portal, NEW t \in Token, NEW w \in Sweep(e, t, MaxAmount)
    PROVE  w.wrapped \in Int /\ w.pushed \in Int
<1>1. balance[e][t] \in Int /\ native[e] \in Int
  BY DEF MoneyTyped
<1>2. WrapAmount(e, t, MaxAmount) \in Int
  BY <1>1, AmountsAssumption DEF WrapAmount, Wrappable, Smaller
<1>3. CASE e \in isPortal
  <2>1. /\ w.wrapped = WrapAmount(e, t, MaxAmount)
        /\ w.pushed = Smaller(balance[e][t] + WrapAmount(e, t, MaxAmount), MaxAmount)
    BY <1>3 DEF Sweep
  <2> QED BY <1>1, <1>2, <2>1, AmountsAssumption DEF Smaller
<1>4. CASE e \notin isPortal
  <2>1. w.wrapped \in {0} /\ w.pushed \in 0..balance[e][t]
    BY <1>4 DEF Sweep
  <2> QED BY <1>1, <2>1
<1> QED BY <1>3, <1>4

(* What a sweep brings is held in escrow, at the rate of the moment.       *)
LEMMA RequestMoney ==
    ASSUME NEW s \in Sweeper, NEW e \in Portal, NEW t \in Token,
           MoneyInv, RequestPortalDeposit(s, e, t)
    PROVE  MoneyTyped' /\ RecordsRemembered' /\ MoneySettled'
<1> USE DEF MoneyInv
<1>1. PICK h \in PortalBinding(e), w \in Sweep(e, t, MaxAmount) :
        LET id == ComputePortalDepositId(e, t, w.pushed, portalCounter[e], h)
        IN  /\ native' = [native EXCEPT ![e] = @ - w.wrapped]
            /\ balance' = [balance EXCEPT ![e][t] = @ + w.wrapped - w.pushed]
            /\ vault' = [vault EXCEPT ![t] = @ + w.pushed]
            /\ portalPendingDeposits' = portalPendingDeposits \cup
                  {[id |-> id, sweepFeeBps |-> portalSweepFeeBps, requestBlock |-> block, sweeper |-> s]}
            /\ swept' = swept \cup
                  {[id |-> id, sweeper |-> s, fee |-> FeeAt(portalSweepFeeBps, w.pushed)]}
            /\ ended' = [i \in DOMAIN ended \cup {id} |-> IF i \in DOMAIN ended THEN ended[i] ELSE 0]
  BY DEF RequestPortalDeposit
<1> DEFINE id == ComputePortalDepositId(e, t, w.pushed, portalCounter[e], h)
           new == [id |-> id, sweepFeeBps |-> portalSweepFeeBps, requestBlock |-> block, sweeper |-> s]
<1>2. /\ UNCHANGED <<processedPortalDeposits, claimable, portalSweepFeeBps, shielded, paid>>
      /\ portalPendingDeposits' = portalPendingDeposits \cup {new}
      /\ swept' = swept \cup {[id |-> id, sweeper |-> s, fee |-> FeeAt(portalSweepFeeBps, w.pushed)]}
      /\ ended' = [i \in DOMAIN ended \cup {id} |-> IF i \in DOMAIN ended THEN ended[i] ELSE 0]
      /\ vault' = [vault EXCEPT ![t] = @ + w.pushed]
  BY <1>1 DEF RequestPortalDeposit, configVars
<1>3. w.wrapped \in Int /\ w.pushed \in Int
  BY SweptNumbers
<1>4. MoneyTyped'
  BY <1>1, <1>2, <1>3 DEF MoneyTyped
<1>5. /\ new.id = id /\ new.id.token = t /\ new.id.amount = w.pushed /\ new.sweeper = s
      /\ id.portal = e /\ id.counter = portalCounter[e]
      /\ FeeOf(new) = FeeAt(portalSweepFeeBps, w.pushed)
  BY DEF ComputePortalDepositId, FeeOf
<1>6. FeeOf(new) \in Int
  BY <1>3, <1>5, FeesAreNumbers DEF MoneyTyped
<1> HIDE DEF id, new
<1>7. id \notin DOMAIN ended
  <2> SUFFICES ASSUME NEW v \in swept, v.id = id PROVE FALSE
    BY DEF IInv, SweptBefore
  <2>1. v.id.counter < portalCounter[e] /\ v.id.counter \in Nat
    BY <1>5 DEF IInv, SweptBefore
  <2> QED BY <1>5, <2>1
<1>8. id \notin processedPortalDeposits /\ \A r \in portalPendingDeposits : r.id # id
  BY <1>7 DEF IInv, NotEndedBefore, RecordsRemembered
<1>9. Sound({new})
  BY <1>3, <1>5, <1>6, FS_Singleton DEF Sound
<1>10. RecordsRemembered'
  <2>1. Sound(portalPendingDeposits')
    <3>1. IsFiniteSet(portalPendingDeposits')
      BY <1>2, FS_AddElement DEF RecordsRemembered, Sound
    <3> QED BY <1>2, <1>9, <3>1 DEF RecordsRemembered, Sound
  <2>2. \A r \in portalPendingDeposits' : Memo(r) \in swept'
    BY <1>2, <1>5 DEF RecordsRemembered, Memo
  <2>3. \A r, q \in portalPendingDeposits' : r.id = q.id => r = q
    BY <1>2, <1>5, <1>8 DEF RecordsRemembered
  <2>4. \A i \in processedPortalDeposits' : i \in DOMAIN ended' /\ ended'[i] = 1
    BY <1>2 DEF RecordsRemembered
  <2> QED BY <2>1, <2>2, <2>3, <2>4 DEF RecordsRemembered
<1>11. Settled' = Settled /\ Escrowed' = Escrowed \cup {new} /\ Escrowed \cap {new} = {}
  BY <1>2, <1>5, <1>8 DEF Settled, Escrowed
<1>12. Sound(Escrowed)
  BY FS_Subset DEF RecordsRemembered, Sound, Escrowed
<1>13. ASSUME NEW u \in Token
       PROVE  vault'[u] = AmountIn(Escrowed', u) + shielded'[u] + OfSweepers(claimable', u)
  <2>1. /\ AmountIn(Escrowed, u) \in Int
        /\ AmountIn(Escrowed \cup {new}, u) = AmountIn(Escrowed, u) + AmountIn({new}, u)
    BY <1>9, <1>11, <1>12, AmountsJoin
  <2>2. AmountIn(Escrowed', u) = AmountIn(Escrowed, u) + AmountIn({new}, u)
    BY <1>11, <2>1, Zenon
  <2>3. AmountIn({new}, u) = IF t = u THEN w.pushed ELSE 0
    BY <1>3, <1>5, AmountOfOne
  <2>4. OfSweepers(claimable', u) = OfSweepers(claimable, u) /\ OfSweepers(claimable, u) \in Int
    <3>1. \A x \in Sweeper : claimable[x][u] \in Int
      BY DEF MoneyTyped
    <3>2. OfSweepers(claimable, u) \in Int
      BY <3>1, IntOfSweepers
    <3> QED BY <1>2, <3>2, Zenon
  <2>5. vault'[u] = vault[u] + (IF t = u THEN w.pushed ELSE 0) /\ vault[u] \in Int /\ shielded[u] \in Int
    BY <1>2, <1>3 DEF MoneyTyped
  <2>6. vault[u] = AmountIn(Escrowed, u) + shielded[u] + OfSweepers(claimable, u)
    BY DEF MoneySettled
  <2> HIDE DEF MoneyInv
  <2> QED BY <1>2, <1>3, <2>1, <2>2, <2>3, <2>4, <2>5, <2>6
<1>14. MoneySettled'
  <2>1. \A u \in Token : /\ shielded'[u] = NetIn(Settled', u)
                         /\ \A x \in Sweeper : paid'[x][u] + claimable'[x][u] = FeesOf(Settled', x, u)
    BY <1>2, <1>11, Zenon DEF MoneySettled
  <2> QED BY <1>13, <2>1 DEF MoneySettled
<1> QED BY <1>4, <1>10, <1>14

(* What goes back leaves escrow, whole.                                    *)
LEMMA CancelMoney ==
    ASSUME NEW r \in portalPendingDeposits, MoneyInv, CancelPortalDeposit(r.id)
    PROVE  MoneyTyped' /\ RecordsRemembered' /\ MoneySettled'
<1> USE DEF MoneyInv
<1>1. RecordOf(r.id) = r
  BY DEF RecordsRemembered, RecordOf
<1>2. /\ r.id \notin processedPortalDeposits
      /\ processedPortalDeposits' = processedPortalDeposits \cup {r.id}
      /\ portalPendingDeposits' = portalPendingDeposits \ {r}
      /\ vault' = [vault EXCEPT ![r.id.token] = @ - r.id.amount]
      /\ balance' = [balance EXCEPT ![r.id.portal][r.id.token] = @ + r.id.amount]
      /\ ended' = [ended EXCEPT ![r.id] = @ + 1]
      /\ UNCHANGED <<native, claimable, portalSweepFeeBps, swept, shielded, paid>>
  BY <1>1 DEF CancelPortalDeposit, Open, configVars
<1>3. r.id.token \in Token /\ r.id.amount \in Int /\ r.id.portal \in Portal
  BY DEF RecordsRemembered, Sound, IInv, SweptBefore, NotEndedBefore
<1>4. MoneyTyped'
  <2>1. vault' \in [Token -> Int]
    BY <1>2, <1>3 DEF MoneyTyped
  <2>2. balance' \in [Portal -> [Token -> Int]]
    BY <1>2, <1>3 DEF MoneyTyped
  <2> QED BY <1>2, <2>1, <2>2 DEF MoneyTyped
<1>5. r.id \in DOMAIN ended /\ ended[r.id] = 0
  BY <1>2 DEF IInv, NotEndedBefore
<1>6. RecordsRemembered'
  <2>1. Sound(portalPendingDeposits')
    BY <1>2, FS_Subset DEF RecordsRemembered, Sound
  <2>2. \A i \in processedPortalDeposits' : i \in DOMAIN ended' /\ ended'[i] = 1
    BY <1>2, <1>5 DEF RecordsRemembered
  <2> QED BY <1>2, <2>1, <2>2 DEF RecordsRemembered
<1>7. /\ Settled' = Settled /\ Escrowed' = Escrowed \ {r} /\ {r} \in SUBSET Escrowed
  BY <1>2 DEF Settled, Escrowed, RecordsRemembered
<1>8. Sound(Escrowed)
  BY FS_Subset DEF RecordsRemembered, Sound, Escrowed
<1>9. ASSUME NEW u \in Token
      PROVE  vault'[u] = AmountIn(Escrowed', u) + shielded'[u] + OfSweepers(claimable', u)
  <2>1. /\ AmountIn(Escrowed, u) \in Int
        /\ AmountIn(Escrowed \ {r}, u) = AmountIn(Escrowed, u) - AmountIn({r}, u)
    BY <1>7, <1>8, AmountWithout
  <2>2. AmountIn(Escrowed', u) = AmountIn(Escrowed, u) - AmountIn({r}, u)
    BY <1>7, <2>1, Zenon
  <2>3. AmountIn({r}, u) = IF r.id.token = u THEN r.id.amount ELSE 0
    BY <1>3, AmountOfOne
  <2>4. OfSweepers(claimable, u) \in Int
    BY IntOfSweepers DEF MoneyTyped
  <2>5. OfSweepers(claimable', u) = OfSweepers(claimable, u)
    BY <1>2, Zenon
  <2>6. /\ vault'[u] = vault[u] - (IF r.id.token = u THEN r.id.amount ELSE 0)
        /\ vault[u] \in Int /\ shielded[u] \in Int
    BY <1>2, <1>3 DEF MoneyTyped
  <2>7. vault[u] = AmountIn(Escrowed, u) + shielded[u] + OfSweepers(claimable, u)
    BY DEF MoneySettled
  <2> HIDE DEF MoneyInv
  <2> QED BY <1>2, <1>3, <2>1, <2>2, <2>3, <2>4, <2>5, <2>6, <2>7
<1>10. MoneySettled'
  <2>1. \A u \in Token : /\ shielded'[u] = NetIn(Settled', u)
                         /\ \A x \in Sweeper : paid'[x][u] + claimable'[x][u] = FeesOf(Settled', x, u)
    BY <1>2, <1>7, Zenon DEF MoneySettled
  <2> QED BY <1>9, <2>1 DEF MoneySettled
<1> QED BY <1>4, <1>6, <1>10

(* An epoch moves sweeps out of escrow: the net amounts become notes, the  *)
(* fees are paid or, where the token refuses, deferred.                    *)
LEMMA SubmitMoney ==
    ASSUME NEW ids \in Batches, MoneyInv, SubmitPortalDepositEpoch(ids)
    PROVE  MoneyTyped' /\ RecordsRemembered' /\ MoneySettled'
<1> USE DEF MoneyInv
<1> DEFINE R == {RecordOf(id) : id \in ids}
<1>1. \A id \in ids : Exists(id) /\ id \notin processedPortalDeposits
  BY DEF SubmitPortalDepositEpoch, Open
<1>2. \A id \in ids : RecordOf(id) \in portalPendingDeposits /\ RecordOf(id).id = id
  BY <1>1 DEF RecordOf, Exists
<1>3. R = {r \in portalPendingDeposits : r.id \in ids}
  BY <1>2 DEF RecordsRemembered
<1>4. PICK refused \in SUBSET {p \in Sweeper \X Token : FeesOf(R, p[1], p[2]) > 0} :
        LET pushed == [s \in Sweeper |-> [t \in Token |->
                            IF <<s, t>> \in refused THEN 0 ELSE FeesOf(R, s, t)]]
        IN  /\ claimable' = [s \in Sweeper |-> [t \in Token |->
                                IF <<s, t>> \in refused THEN Deferred(s, t, FeesOf(R, s, t))
                                                        ELSE claimable[s][t]]]
            /\ paid' = [s \in Sweeper |-> [t \in Token |-> paid[s][t] + pushed[s][t]]]
            /\ vault' = [t \in Token |-> vault[t] - OfSweepers(pushed, t)]
  BY DEF SubmitPortalDepositEpoch
<1>5. /\ processedPortalDeposits' = processedPortalDeposits \cup ids
      /\ shielded' = [t \in Token |-> shielded[t] + NetIn(R, t)]
      /\ ended' = [id \in DOMAIN ended |-> ended[id] + (IF id \in ids THEN 1 ELSE 0)]
      /\ UNCHANGED <<balance, native, portalPendingDeposits, portalSweepFeeBps, swept>>
  BY DEF SubmitPortalDepositEpoch, accountVars, configVars
<1> DEFINE fees == [s \in Sweeper |-> [t \in Token |-> FeesOf(R, s, t)]]
           pushed == [s \in Sweeper |-> [t \in Token |->
                            IF <<s, t>> \in refused THEN 0 ELSE FeesOf(R, s, t)]]
<1>6. R \in SUBSET Escrowed /\ Sound(portalPendingDeposits)
  BY <1>1, <1>3 DEF Escrowed, RecordsRemembered
<1>7. /\ Escrowed' = Escrowed \ R /\ Settled' = Settled \cup R /\ Settled \cap R = {}
  BY <1>1, <1>3, <1>5 DEF Escrowed, Settled
<1>8. Sound(Escrowed) /\ Sound(Settled) /\ Sound(R)
  BY <1>3, <1>6, FS_Subset DEF Sound, Escrowed, Settled
<1> HIDE DEF R
<1>9. ASSUME NEW t \in Token
      PROVE  /\ AmountIn(Escrowed, t) \in Int /\ AmountIn(R, t) \in Int
             /\ NetIn(Settled, t) \in Int /\ NetIn(R, t) \in Int
             /\ AmountIn(Escrowed', t) = AmountIn(Escrowed, t) - AmountIn(R, t)
             /\ NetIn(Settled', t) = NetIn(Settled, t) + NetIn(R, t)
             /\ \A s \in Sweeper : /\ FeesOf(Settled, s, t) \in Int /\ FeesOf(R, s, t) \in Int
                                   /\ FeesOf(Settled', s, t) = FeesOf(Settled, s, t) + FeesOf(R, s, t)
  <2>1. /\ AmountIn(Escrowed, t) \in Int /\ AmountIn(R, t) \in Int
        /\ AmountIn(Escrowed \ R, t) = AmountIn(Escrowed, t) - AmountIn(R, t)
    BY <1>6, <1>8, AmountWithout
  <2>2. /\ NetIn(Settled, t) \in Int /\ NetIn(R, t) \in Int
        /\ NetIn(Settled \cup R, t) = NetIn(Settled, t) + NetIn(R, t)
    BY <1>7, <1>8, NetsJoin
  <2>3. \A s : /\ FeesOf(Settled, s, t) \in Int /\ FeesOf(R, s, t) \in Int
               /\ FeesOf(Settled \cup R, s, t) = FeesOf(Settled, s, t) + FeesOf(R, s, t)
    BY <1>7, <1>8, FeesJoin
  <2> QED BY <1>7, <2>1, <2>2, <2>3, Zenon
<1>10. \A s \in Sweeper, t \in Token :
        /\ fees[s][t] = FeesOf(R, s, t) /\ fees[s][t] \in Int
        /\ pushed[s][t] \in Int /\ claimable[s][t] \in Int /\ paid[s][t] \in Int
        /\ claimable'[s][t] = claimable[s][t] + fees[s][t] - pushed[s][t]
        /\ paid'[s][t] = paid[s][t] + pushed[s][t]
  <2> SUFFICES ASSUME NEW s \in Sweeper, NEW t \in Token
               PROVE  /\ fees[s][t] = FeesOf(R, s, t) /\ fees[s][t] \in Int
                      /\ pushed[s][t] \in Int /\ claimable[s][t] \in Int /\ paid[s][t] \in Int
                      /\ claimable'[s][t] = claimable[s][t] + fees[s][t] - pushed[s][t]
                      /\ paid'[s][t] = paid[s][t] + pushed[s][t]
    OBVIOUS
  <2>1. FeesOf(R, s, t) \in Int /\ claimable[s][t] \in Int /\ paid[s][t] \in Int
    BY <1>9 DEF MoneyTyped
  <2> QED BY <1>4, <2>1 DEF Deferred
<1>11. /\ claimable' \in [Sweeper -> [Token -> Int]] /\ paid' \in [Sweeper -> [Token -> Int]]
  <2>1. \A s \in Sweeper, t \in Token : claimable'[s][t] \in Int /\ paid'[s][t] \in Int
    <3> HIDE DEF fees, pushed
    <3> QED BY <1>10
  <2> QED BY <1>4, <2>1
<1>12. \A t \in Token : vault'[t] = vault[t] - OfSweepers(pushed, t) /\ OfSweepers(pushed, t) \in Int
  <2>1. \A t \in Token : OfSweepers(pushed, t) \in Int
    <3> HIDE DEF pushed
    <3> QED BY <1>10, IntOfSweepers
  <2> QED BY <1>4, <2>1
<1>13. MoneyTyped'
  <2>1. vault' \in [Token -> Int]
    <3>1. vault' = [t \in Token |-> vault'[t]]
      BY <1>4
    <3> HIDE DEF pushed
    <3>2. \A t \in Token : vault'[t] \in Int
      BY <1>12 DEF MoneyTyped
    <3> QED BY <3>1, <3>2
  <2>2. shielded' \in [Token -> Int]
    BY <1>5, <1>9 DEF MoneyTyped
  <2> QED BY <1>5, <1>11, <2>1, <2>2 DEF MoneyTyped
<1>14. RecordsRemembered'
  <2>1. \A id \in ids : id \in DOMAIN ended /\ ended[id] = 0
    BY <1>1, <1>2 DEF IInv, NotEndedBefore
  <2>2. \A i \in processedPortalDeposits' : i \in DOMAIN ended' /\ ended'[i] = 1
    BY <1>1, <1>5, <2>1 DEF RecordsRemembered
  <2> QED BY <1>5, <2>2 DEF RecordsRemembered
<1> HIDE DEF fees, pushed
<1>15. ASSUME NEW t \in Token
       PROVE  vault'[t] = AmountIn(Escrowed', t) + shielded'[t] + OfSweepers(claimable', t)
  <2> DEFINE after == claimable'
             sum == [s \in Sweeper |-> [u \in Token |-> claimable[s][u] + fees[s][u]]]
  <2>1. \A s \in Sweeper : /\ claimable[s][t] \in Int /\ fees[s][t] \in Int
                           /\ pushed[s][t] \in Int /\ after[s][t] \in Int
                           /\ sum[s][t] = claimable[s][t] + fees[s][t]
                           /\ sum[s][t] = after[s][t] + pushed[s][t]
    <3> SUFFICES ASSUME NEW s \in Sweeper
                 PROVE  /\ claimable[s][t] \in Int /\ fees[s][t] \in Int
                        /\ pushed[s][t] \in Int /\ after[s][t] \in Int
                        /\ sum[s][t] = claimable[s][t] + fees[s][t]
                        /\ sum[s][t] = after[s][t] + pushed[s][t]
      OBVIOUS
    <3> QED BY <1>10
  <2> HIDE DEF after, sum
  <2>2. /\ OfSweepers(claimable, t) \in Int /\ OfSweepers(fees, t) \in Int
        /\ OfSweepers(sum, t) = OfSweepers(claimable, t) + OfSweepers(fees, t)
    BY <2>1, TablesAddUp
  <2>3. /\ OfSweepers(after, t) \in Int /\ OfSweepers(pushed, t) \in Int
        /\ OfSweepers(sum, t) = OfSweepers(after, t) + OfSweepers(pushed, t)
    BY <2>1, TablesAddUp
  <2>4. OfSweepers(fees, t) = AmountIn(R, t) - NetIn(R, t)
    BY <1>8, <1>10, FeesTogether
  <2>5. vault[t] = AmountIn(Escrowed, t) + shielded[t] + OfSweepers(claimable, t)
    BY DEF MoneySettled
  <2>6. shielded'[t] = shielded[t] + NetIn(R, t) /\ shielded[t] \in Int /\ vault[t] \in Int
    BY <1>5 DEF MoneyTyped
  <2>7. vault'[t] = AmountIn(Escrowed', t) + shielded'[t] + OfSweepers(after, t)
    <3> HIDE DEF MoneyInv
    <3> QED BY <1>9, <1>12, <2>2, <2>3, <2>4, <2>5, <2>6
  <2> QED BY <2>7 DEF after
<1>16. MoneySettled'
  <2>1. ASSUME NEW t \in Token PROVE shielded'[t] = NetIn(Settled', t)
    BY <1>5, <1>9 DEF MoneySettled
  <2>2. ASSUME NEW t \in Token, NEW s \in Sweeper
        PROVE  paid'[s][t] + claimable'[s][t] = FeesOf(Settled', s, t)
    <3>1. paid[s][t] + claimable[s][t] = FeesOf(Settled, s, t)
      BY DEF MoneySettled
    <3> HIDE DEF MoneyInv
    <3> QED BY <1>9, <1>10, <3>1
  <2> QED BY <1>15, <2>1, <2>2 DEF MoneySettled
<1> QED BY <1>13, <1>14, <1>16

(* A claim moves what is owed to a sweeper to what it was paid.            *)
LEMMA ClaimMoney ==
    ASSUME NEW s \in Sweeper, NEW t \in Token, MoneyInv, ClaimPortalSweepFee(s, t)
    PROVE  MoneyTyped' /\ RecordsRemembered' /\ MoneySettled'
<1> USE DEF MoneyInv
<1>1. /\ claimable' = [claimable EXCEPT ![s][t] = 0]
      /\ vault' = [vault EXCEPT ![t] = @ - claimable[s][t]]
      /\ paid' = [paid EXCEPT ![s][t] = @ + claimable[s][t]]
      /\ UNCHANGED <<balance, native, portalPendingDeposits, processedPortalDeposits,
                     portalSweepFeeBps, swept, shielded, ended>>
  BY DEF ClaimPortalSweepFee, accountVars, configVars
<1>2. MoneyTyped'
  BY <1>1 DEF MoneyTyped
<1>3. RecordsRemembered'
  BY <1>1 DEF RecordsRemembered
<1>4. Escrowed' = Escrowed /\ Settled' = Settled
  BY <1>1 DEF Escrowed, Settled
<1>5. Sound(Escrowed)
  BY FS_Subset DEF RecordsRemembered, Sound, Escrowed
<1>6. ASSUME NEW u \in Token
      PROVE  vault'[u] = AmountIn(Escrowed', u) + shielded'[u] + OfSweepers(claimable', u)
  <2>1. AmountIn(Escrowed, u) \in Int
    BY <1>5, AmountWithout
  <2>2. \A x \in Sweeper : /\ claimable[x][u] \in Int
                           /\ claimable'[x][u] = IF x = s /\ u = t THEN 0 ELSE claimable[x][u]
    BY <1>1 DEF MoneyTyped
  <2>3. /\ OfSweepers(claimable, u) \in Int
        /\ OfSweepers(claimable', u) =
                OfSweepers(claimable, u) - (IF u = t THEN claimable[s][t] ELSE 0)
    <3>1. OfSweepers(claimable, u) \in Int
      BY <2>2, IntOfSweepers
    <3> DEFINE after == claimable'
    <3>2. \A x \in Sweeper : after[x][u] = IF x = s /\ u = t THEN 0 ELSE claimable[x][u]
      BY <2>2
    <3> HIDE DEF after
    <3>3. CASE u = t
      <4>1. \A x \in Sweeper : claimable[x][t] \in Int
        BY <2>2, <3>3
      <4>2. \A x \in Sweeper : after[x][t] = IF x = s THEN 0 ELSE claimable[x][t]
        BY <3>2, <3>3
      <4>3. OfSweepers(after, t) = OfSweepers(claimable, t) - claimable[s][t]
        BY <4>1, <4>2, TableCleared
      <4> QED BY <3>1, <3>3, <4>3 DEF after
    <3>4. CASE u # t
      <4>1. \A x \in Sweeper : after[x][u] = claimable[x][u]
        BY <3>2, <3>4
      <4>2. OfSweepers(after, u) = OfSweepers(claimable, u)
        BY <4>1, TablesSame
      <4> QED BY <3>1, <3>4, <4>2 DEF after
    <3> QED BY <3>3, <3>4
  <2>4. /\ vault'[u] = vault[u] - (IF u = t THEN claimable[s][t] ELSE 0)
        /\ vault[u] \in Int /\ shielded[u] \in Int /\ claimable[s][t] \in Int
    BY <1>1 DEF MoneyTyped
  <2>5. vault[u] = AmountIn(Escrowed, u) + shielded[u] + OfSweepers(claimable, u)
    BY DEF MoneySettled
  <2>6. AmountIn(Escrowed', u) = AmountIn(Escrowed, u)
    BY <1>4, Zenon
  <2> HIDE DEF MoneyInv
  <2> QED BY <1>1, <2>1, <2>3, <2>4, <2>5, <2>6
<1>7. ASSUME NEW u \in Token
      PROVE  /\ shielded'[u] = NetIn(Settled', u)
             /\ \A x \in Sweeper : paid'[x][u] + claimable'[x][u] = FeesOf(Settled', x, u)
  <2>1. NetIn(Settled', u) = NetIn(Settled, u) /\ \A x : FeesOf(Settled', x, u) = FeesOf(Settled, x, u)
    BY <1>4, Zenon
  <2>2. \A x \in Sweeper : paid'[x][u] + claimable'[x][u] = paid[x][u] + claimable[x][u]
    BY <1>1 DEF MoneyTyped
  <2> QED BY <1>1, <2>1, <2>2 DEF MoneySettled
<1> QED BY <1>2, <1>3, <1>6, <1>7 DEF MoneySettled

(* Every step keeps the books.                                             *)
LEMMA NextMoney == MoneyInv /\ [Next]_vars => MoneyInv'
<1> SUFFICES ASSUME MoneyInv, [Next]_vars PROVE MoneyInv'
  OBVIOUS
<1> USE DEF MoneyInv
<1>0. IInv'
  BY NextInvariant
<1> SUFFICES MoneyTyped' /\ RecordsRemembered' /\ MoneySettled'
  BY <1>0
<1>1. CASE \E e \in Portal, t \in Token : Arrive(e, t)
  <2>1. MoneyTyped'
    BY <1>1 DEF Arrive, MoneyTyped, poolVars, configVars, ghostVars
  <2> QED BY <1>1, <2>1, MoneyStays DEF Arrive, poolVars, ghostVars
<1>2. CASE \E e \in Portal : ArriveNative(e)
  <2>1. MoneyTyped'
    BY <1>2 DEF ArriveNative, MoneyTyped, poolVars, configVars, ghostVars
  <2> QED BY <1>2, <2>1, MoneyStays DEF ArriveNative, poolVars, ghostVars
<1>3. CASE \E e \in Portal, h \in Binding : InitializePortal(e, h)
  <2>1. MoneyTyped'
    BY <1>3 DEF InitializePortal, MoneyTyped, poolVars, configVars, ghostVars
  <2> QED BY <1>3, <2>1, MoneyStays DEF InitializePortal, poolVars, ghostVars
<1>4. CASE \E e \in Portal : Redelegate(e)
  <2>1. MoneyTyped'
    BY <1>4 DEF Redelegate, MoneyTyped, poolVars, configVars, ghostVars
  <2> QED BY <1>4, <2>1, MoneyStays DEF Redelegate, poolVars, ghostVars
<1>5. CASE \E e \in Portal : OtherCode(e)
  <2>1. MoneyTyped'
    BY <1>5 DEF OtherCode, MoneyTyped, poolVars, configVars, ghostVars
  <2> QED BY <1>5, <2>1, MoneyStays DEF OtherCode, poolVars, ghostVars
<1>6. CASE \E e \in Portal, t \in Token, a \in 1..MaxBalance : Withdraw(e, t, a)
  <2>1. MoneyTyped'
    BY <1>6 DEF Withdraw, MoneyTyped, poolVars, configVars, ghostVars
  <2> QED BY <1>6, <2>1, MoneyStays DEF Withdraw, poolVars, ghostVars
<1>7. CASE \E s \in Sweeper, e \in Portal, t \in Token : RequestPortalDeposit(s, e, t)
  BY <1>7, RequestMoney
<1>8. CASE \E r \in portalPendingDeposits : CancelPortalDeposit(r.id)
  BY <1>8, CancelMoney
<1>9. CASE \E ids \in Batches : SubmitPortalDepositEpoch(ids)
  BY <1>9, SubmitMoney
<1>10. CASE \E s \in Sweeper, t \in Token : ClaimPortalSweepFee(s, t)
  BY <1>10, ClaimMoney
<1>11. CASE \E rate \in FeeRates : SetPortalSweepFeeBps(rate)
  <2>1. MoneyTyped'
    BY <1>11, RatesAssumption
    DEF SetPortalSweepFeeBps, MoneyTyped, accountVars, poolVars, configVars, ghostVars
  <2> QED BY <1>11, <2>1, MoneyStays DEF SetPortalSweepFeeBps, poolVars, ghostVars
<1>12. CASE \E t \in Token, m \in DustLimits : SetPortalMinSweep(t, m)
  <2>1. MoneyTyped'
    BY <1>12 DEF SetPortalMinSweep, MoneyTyped, accountVars, poolVars, configVars, ghostVars
  <2> QED BY <1>12, <2>1, MoneyStays DEF SetPortalMinSweep, poolVars, ghostVars
<1>13. CASE NextBlock
  <2>1. MoneyTyped'
    BY <1>13 DEF NextBlock, MoneyTyped, accountVars, poolVars, configVars, ghostVars
  <2> QED BY <1>13, <2>1, MoneyStays DEF NextBlock, poolVars, ghostVars
<1>14. CASE UNCHANGED vars
  <2>1. MoneyTyped'
    BY <1>14 DEF vars, MoneyTyped, accountVars, poolVars, configVars, ghostVars
  <2> QED BY <1>14, <2>1, MoneyStays DEF vars, poolVars, ghostVars
<1> QED
  BY <1>1, <1>2, <1>3, <1>4, <1>5, <1>6, <1>7, <1>8, <1>9, <1>10, <1>11, <1>12, <1>13, <1>14
  DEF Next

(* The books balance through every order of sweeps, credits, returns,      *)
(* refused payments, claims and changes of rate.                           *)
THEOREM MoneyInvariant == Spec => []MoneyInv
<1>1. Init => MoneyInv
  BY InitMoney
<1>2. MoneyInv /\ [Next]_vars => MoneyInv'
  BY NextMoney
<1> QED BY <1>1, <1>2, PTL DEF Spec

(* The sweeps credited are those whose records stay and are settled, and   *)
(* what was promised for them is what their records say.                   *)
LEMMA PromisesKept ==
    ASSUME MoneyInv
    PROVE  \A t \in Token :
               /\ NetSwept(Credited, t) = NetIn(Settled, t)
               /\ \A s \in Sweeper : FeesSwept(Credited, s, t) = FeesOf(Settled, s, t)
<1> USE DEF MoneyInv
<1> DEFINE memo == [r \in Settled |-> Memo(r)]
           net == [r \in Settled |-> r.id.amount - FeeOf(r)]
           fee == [r \in Settled |-> FeeOf(r)]
           netW == [w \in Credited |-> w.id.amount - w.fee]
           feeW == [w \in Credited |-> w.fee]
<1>1. \A r \in Settled :
        /\ memo[r] \in Credited /\ memo[r].id = r.id /\ memo[r].sweeper = r.sweeper
        /\ memo[r].fee = FeeOf(r)
  <2> SUFFICES ASSUME NEW r \in Settled
               PROVE  Memo(r) \in Credited
    BY DEF Memo
  <2>1. Memo(r) \in swept /\ Memo(r).id = r.id /\ ended[r.id] = 1 /\ r \in portalPendingDeposits
    BY DEF RecordsRemembered, Settled, Memo
  <2> QED BY <2>1 DEF Credited, Exists
<1>2. \A w \in Credited : \E r \in Settled : w = memo[r]
  <2> SUFFICES ASSUME NEW w \in Credited PROVE \E r \in Settled : w = memo[r]
    OBVIOUS
  <2>1. PICK r \in portalPendingDeposits : r.id = w.id
    BY DEF Credited, Exists
  <2>2. w \in swept /\ ended[w.id] > 0 /\ w.id \in DOMAIN ended
    BY <2>1 DEF Credited, IInv, NotEndedBefore
  <2>3. r.id \in processedPortalDeposits
    BY <2>1, <2>2 DEF IInv, NotEndedBefore
  <2>4. Memo(r) \in swept /\ Memo(r).id = w.id
    BY <2>1 DEF RecordsRemembered, Memo
  <2>5. Memo(r) = w
    BY <2>2, <2>4 DEF IInv, CountersDistinct
  <2> QED BY <2>1, <2>3, <2>5 DEF Settled
<1>3. \A r, q \in Settled : memo[r] = memo[q] => r = q
  <2> SUFFICES ASSUME NEW r \in Settled, NEW q \in Settled, memo[r] = memo[q] PROVE r = q
    OBVIOUS
  <2>1. r.id = q.id
    BY <1>1
  <2> QED BY <2>1 DEF RecordsRemembered, Settled
<1>4. \A r \in Settled : /\ netW[memo[r]] = net[r] /\ net[r] \in Int
                         /\ feeW[memo[r]] = fee[r] /\ fee[r] \in Int
  <2> SUFFICES ASSUME NEW r \in Settled
               PROVE  /\ netW[memo[r]] = net[r] /\ net[r] \in Int
                      /\ feeW[memo[r]] = fee[r] /\ fee[r] \in Int
    OBVIOUS
  <2>1. r.id.amount \in Int /\ FeeOf(r) \in Int
    BY DEF RecordsRemembered, Sound, Settled
  <2> HIDE DEF memo
  <2> QED BY <1>1, <2>1
<1>5. IsFiniteSet(Settled)
  BY FS_Subset DEF RecordsRemembered, Sound, Settled
<1> HIDE DEF memo, net, fee
<1>6. IsFiniteSet(Credited)
  <2>1. \A r \in Settled : netW[memo[r]] = net[r] /\ net[r] \in Int
    BY <1>4
  <2> HIDE DEF netW
  <2>3. /\ IsFiniteSet({memo[r] : r \in Settled})
        /\ Total(netW, {memo[r] : r \in Settled}) = Total(net, Settled)
    BY <1>3, <1>5, <2>1, TotalRenamed
  <2>2. {memo[r] : r \in Settled} = Credited
    BY <1>1, <1>2
  <2> QED BY <2>2, <2>3, Zenon
<1>7. \A r \in Settled : net[r] = r.id.amount - FeeOf(r) /\ fee[r] = FeeOf(r)
  BY DEF net, fee
<1>8. ASSUME NEW t \in Token
      PROVE  NetSwept(Credited, t) = NetIn(Settled, t)
  <2> DEFINE R == {r \in Settled : r.id.token = t}
             W == {w \in Credited : w.id.token = t}
  <2>1. NetSwept(Credited, t) = Total(netW, W) /\ NetIn(Settled, t) = Total(net, R)
    BY <1>5, <1>6, <1>7, NetSweptIsTotal, NetInIsTotal
  <2>2. W = {memo[r] : r \in R}
    BY <1>1, <1>2
  <2>3. IsFiniteSet(R) /\ R \subseteq Settled
    BY <1>5, FS_Subset
  <2> HIDE DEF R, W, netW
  <2>4. /\ \A r \in R : netW[memo[r]] = net[r] /\ net[r] \in Int
        /\ \A r, q \in R : memo[r] = memo[q] => r = q
    BY <1>3, <1>4, <2>3
  <2>5. Total(netW, {memo[r] : r \in R}) = Total(net, R)
    BY <2>3, <2>4, TotalRenamed
  <2> QED BY <2>1, <2>2, <2>5, Zenon
<1>9. ASSUME NEW t \in Token, NEW s \in Sweeper
      PROVE  FeesSwept(Credited, s, t) = FeesOf(Settled, s, t)
  <2> DEFINE R == {r \in Settled : r.sweeper = s /\ r.id.token = t}
             W == {w \in Credited : w.sweeper = s /\ w.id.token = t}
  <2>1. FeesSwept(Credited, s, t) = Total(feeW, W) /\ FeesOf(Settled, s, t) = Total(fee, R)
    BY <1>5, <1>6, <1>7, FeesSweptIsTotal, FeesOfIsTotal
  <2>2. W = {memo[r] : r \in R}
    BY <1>1, <1>2
  <2>3. IsFiniteSet(R) /\ R \subseteq Settled
    BY <1>5, FS_Subset
  <2> HIDE DEF R, W, feeW
  <2>4. /\ \A r \in R : feeW[memo[r]] = fee[r] /\ fee[r] \in Int
        /\ \A r, q \in R : memo[r] = memo[q] => r = q
    BY <1>3, <1>4, <2>3
  <2>5. Total(feeW, {memo[r] : r \in R}) = Total(fee, R)
    BY <2>3, <2>4, TotalRenamed
  <2> QED BY <2>1, <2>2, <2>5, Zenon
<1> QED BY <1>8, <1>9

(* The pool is never a token short, no sweep is credited more or less than *)
(* was settled when it was swept, and no sweeper loses a fee               *)
(* (submitPortalDepositEpoch, _accrueFee, claimPortalSweepFee).            *)
THEOREM SweepsAreExact == Spec => []SweepsExact
<1>1. MoneyInv => SweepsExact
  <2> SUFFICES ASSUME MoneyInv PROVE SweepsExact
    OBVIOUS
  <2>1. SweepsCovered
    BY DEF MoneyInv, MoneySettled, SweepsCovered
  <2>2. CreditedAsSwept
    BY PromisesKept, Zenon DEF MoneyInv, MoneySettled, CreditedAsSwept
  <2> QED BY <2>1, <2>2 DEF SweepsExact
<1> QED BY <1>1, MoneyInvariant, PTL

-----------------------------------------------------------------------------
(***************************************************************************)
(* Who is owed can be paid.  No amount, fee or debt is negative, so what   *)
(* the pool holds covers each part of what it owes, and its steps are      *)
(* those of an escrow.                                                     *)
(***************************************************************************)
Worth(R) ==
    /\ Sound(R)
    /\ \A r \in R : r.id \in SweepId /\ FeeOf(r) \in 0..r.id.amount

NothingNegative ==
    /\ binding \in [Portal -> Word]
    /\ portalSweepFeeBps \in 0..BasisPoints-1
    /\ \A r \in portalPendingDeposits : r.id \in SweepId /\ FeeOf(r) \in 0..r.id.amount
    /\ \A s \in Sweeper, t \in Token : claimable[s][t] >= 0

PayInv == MoneyInv /\ NothingNegative

(* A fee is no more than what it is taken of.                              *)
LEMMA SweepFeeBound ==
    ASSUME NEW rate \in 0..BasisPoints-1, NEW amount \in Nat
    PROVE  FeeAt(rate, amount) \in 0..amount
<1>1. BasisPoints \in Nat \ {0} /\ rate \in Nat /\ rate <= BasisPoints
  BY RatesAssumption
<1> DEFINE q == FeeAt(rate, amount)
<1>2. /\ q \in Int /\ BasisPoints * q <= amount * rate
      /\ amount * rate < BasisPoints * q + BasisPoints
  BY <1>1, Z3 DEF FeeAt
<1>3. 0 <= amount * rate /\ amount * rate <= amount * BasisPoints
  BY <1>1, Z3
<1> HIDE DEF q
<1>4. q >= 0
  <2>1. SUFFICES ASSUME q <= -1 PROVE FALSE
    BY <1>2
  <2>2. BasisPoints * q <= -BasisPoints
    BY <1>1, <1>2, <2>1, Z3
  <2> QED BY <1>1, <1>2, <1>3, <2>2, Z3
<1>5. q <= amount
  <2>1. SUFFICES ASSUME q >= amount + 1 PROVE FALSE
    BY <1>2
  <2>2. BasisPoints * q >= BasisPoints * amount + BasisPoints
    BY <1>1, <1>2, <2>1, Z3
  <2> QED BY <1>1, <1>2, <1>3, <2>2, Z3
<1> QED BY <1>2, <1>4, <1>5 DEF q

(* Sums of what records hold, are credited and leave in fees.              *)
LEMMA SumsNotNegative ==
    ASSUME NEW R, Worth(R), NEW t
    PROVE  AmountIn(R, t) \in Nat /\ NetIn(R, t) \in Nat /\ \A s : FeesOf(R, s, t) \in Nat
<1> DEFINE amount == [r \in R |-> r.id.amount]
           net == [r \in R |-> r.id.amount - FeeOf(r)]
           fee == [r \in R |-> FeeOf(r)]
           Of == {r \in R : r.id.token = t}
           By(s) == {r \in R : r.sweeper = s /\ r.id.token = t}
<1>1. IsFiniteSet(R) /\ IsFiniteSet(Of) /\ \A s : IsFiniteSet(By(s))
  BY FS_Subset DEF Worth, Sound
<1>2. ASSUME NEW r \in R PROVE amount[r] \in Nat /\ net[r] \in Nat /\ fee[r] \in Nat
  <2>1. r.id.amount \in Int /\ FeeOf(r) \in 0..r.id.amount
    BY DEF Worth, Sound
  <2> QED BY <2>1
<1>3. /\ AmountIn(R, t) = Total(amount, Of) /\ NetIn(R, t) = Total(net, Of)
      /\ \A s : FeesOf(R, s, t) = Total(fee, By(s))
  BY <1>1, AmountInIsTotal, NetInIsTotal, FeesOfIsTotal
<1>4. Of \subseteq R /\ \A s : By(s) \subseteq R
  OBVIOUS
<1> HIDE DEF amount, net, fee, Of, By
<1>5. Total(amount, Of) \in Nat /\ Total(net, Of) \in Nat
  BY <1>1, <1>2, <1>4, TotalNat
<1>6. ASSUME NEW s PROVE Total(fee, By(s)) \in Nat
  BY <1>1, <1>2, <1>4, TotalNat
<1> QED BY <1>3, <1>5, <1>6

(* No record holds more than all of them.                                  *)
LEMMA OneOfMany ==
    ASSUME NEW R, Worth(R), NEW r \in R
    PROVE  r.id.amount <= AmountIn(R, r.id.token)
<1> DEFINE rest == R \ {r}
<1>1. {r} \in SUBSET R /\ r.id.amount \in Int /\ Sound(R)
  BY DEF Worth, Sound
<1>2. Worth(rest)
  BY FS_Subset DEF Worth, Sound
<1>3. AmountIn({r}, r.id.token) = r.id.amount
  BY <1>1, AmountOfOne
<1>4. AmountIn(R, r.id.token) \in Int /\ AmountIn(rest, r.id.token) = AmountIn(R, r.id.token) - r.id.amount
  BY <1>1, <1>3, AmountWithout
<1>5. AmountIn(rest, r.id.token) \in Nat
  BY <1>2, SumsNotNegative
<1> QED BY <1>1, <1>4, <1>5

(* A table without a negative entry adds up to no less than any of them.   *)
LEMMA OneSweeperOfMany ==
    ASSUME NEW t, NEW A, \A s \in Sweeper : A[s][t] \in Nat
    PROVE  OfSweepers(A, t) \in Nat /\ \A s \in Sweeper : A[s][t] <= OfSweepers(A, t)
<1>1. ASSUME NEW B, \A s \in Sweeper : B[s][t] \in Nat
      PROVE  OfSweepers(B, t) \in Nat
  <2> DEFINE column == [s \in Sweeper |-> B[s][t]]
  <2>1. OfSweepers(B, t) = Total(column, Sweeper)
    BY OfSweepersIsTotal
  <2>2. \A s \in Sweeper : column[s] \in Nat
    BY <1>1
  <2> HIDE DEF column
  <2> QED BY <2>1, <2>2, SweepersAssumption, TotalNat
<1>2. ASSUME NEW s \in Sweeper PROVE A[s][t] <= OfSweepers(A, t)
  <2> DEFINE C == [x \in Sweeper |-> [u \in {t} |-> IF x = s THEN 0 ELSE A[x][t]]]
  <2>1. \A x \in Sweeper : C[x][t] \in Nat /\ C[x][t] = IF x = s THEN 0 ELSE A[x][t]
    OBVIOUS
  <2>2. \A x \in Sweeper : A[x][t] \in Int
    OBVIOUS
  <2> HIDE DEF C
  <2>3. OfSweepers(C, t) \in Nat
    BY <1>1, <2>1
  <2>4. OfSweepers(A, t) \in Int /\ OfSweepers(C, t) = OfSweepers(A, t) - A[s][t]
    BY <2>1, <2>2, TableCleared
  <2> QED BY <2>2, <2>3, <2>4
<1> QED BY <1>1, <1>2

(* What is in escrow and what is settled is part of the records.           *)
LEMMA RecordsWorth ==
    ASSUME PayInv
    PROVE  Worth(portalPendingDeposits) /\ Worth(Escrowed) /\ Worth(Settled)
BY FS_Subset DEF PayInv, MoneyInv, RecordsRemembered, NothingNegative, Worth, Sound, Escrowed, Settled

(* A sweep is recorded.                                                    *)
NewSweep(id, s, t) ==
    /\ id.token = t
    /\ id \notin DOMAIN ended
    /\ portalPendingDeposits' = portalPendingDeposits \cup
          {[id |-> id, sweepFeeBps |-> portalSweepFeeBps, requestBlock |-> block, sweeper |-> s]}
    /\ vault' = [vault EXCEPT ![t] = @ + id.amount]
    /\ ended' = [i \in DOMAIN ended \cup {id} |-> IF i \in DOMAIN ended THEN ended[i] ELSE 0]

(* What a portal hands over is positive, the binding is in the field, and  *)
(* the sweep is one that was never made.                                   *)
LEMMA RequestIsFresh ==
    ASSUME NEW s \in Sweeper, NEW e \in Portal, NEW t \in Token,
           PayInv, RequestPortalDeposit(s, e, t)
    PROVE  \E id \in SweepId : NewSweep(id, s, t)
<1> USE DEF PayInv, MoneyInv
<1>1. PICK h \in PortalBinding(e), w \in Sweep(e, t, MaxAmount) :
        LET id == ComputePortalDepositId(e, t, w.pushed, portalCounter[e], h)
        IN  /\ IsRegistered(h)
            /\ w.pushed > 0
            /\ w.pushed <= MaxAmount
            /\ vault' = [vault EXCEPT ![t] = @ + w.pushed]
            /\ portalPendingDeposits' = portalPendingDeposits \cup
                  {[id |-> id, sweepFeeBps |-> portalSweepFeeBps, requestBlock |-> block, sweeper |-> s]}
            /\ ended' = [i \in DOMAIN ended \cup {id} |-> IF i \in DOMAIN ended THEN ended[i] ELSE 0]
  BY DEF RequestPortalDeposit
<1> DEFINE id == ComputePortalDepositId(e, t, w.pushed, portalCounter[e], h)
<1>2. w.pushed \in 1..MaxAmount
  <2>1. w.pushed \in Int
    BY SweptNumbers
  <2> QED BY <1>1, <2>1
<1>3. h \in Binding
  <2>1. h \in Word
    BY DEF PortalBinding, NothingNegative
  <2> QED BY <1>1, <2>1 DEF Word, IsRegistered
<1>4. portalCounter[e] \in 0..MaxSweeps-1
  <2>1. portalCounter[e] \in Nat /\ portalCounter[e] < MaxSweeps
    BY DEF IInv, RequestPortalDeposit
  <2> QED BY <2>1, BoundsAssumption
<1>5. /\ id \in SweepId /\ id.portal = e /\ id.token = t /\ id.amount = w.pushed
      /\ id.counter = portalCounter[e]
  BY <1>2, <1>3, <1>4 DEF ComputePortalDepositId, SweepId
<1> HIDE DEF id
<1>6. id \notin DOMAIN ended
  <2> SUFFICES ASSUME NEW v \in swept, v.id = id PROVE FALSE
    BY DEF IInv, SweptBefore
  <2>1. v.id.counter < portalCounter[e] /\ v.id.counter \in Nat
    BY <1>5 DEF IInv, SweptBefore
  <2> QED BY <1>5, <2>1
<1>7. /\ vault' = [vault EXCEPT ![t] = @ + id.amount]
      /\ portalPendingDeposits' = portalPendingDeposits \cup
            {[id |-> id, sweepFeeBps |-> portalSweepFeeBps, requestBlock |-> block, sweeper |-> s]}
      /\ ended' = [i \in DOMAIN ended \cup {id} |-> IF i \in DOMAIN ended THEN ended[i] ELSE 0]
  BY <1>1, <1>5 DEF id
<1>8. PICK d : d = id
  OBVIOUS
<1>9. d \in SweepId /\ NewSweep(d, s, t)
  BY <1>5, <1>6, <1>7, <1>8 DEF NewSweep
<1> QED BY <1>9

(* A sweep is taken at a rate below all of it.                             *)
LEMMA RequestNotNegative ==
    ASSUME NEW s \in Sweeper, NEW e \in Portal, NEW t \in Token,
           PayInv, RequestPortalDeposit(s, e, t)
    PROVE  NothingNegative'
<1>1. PICK id \in SweepId : NewSweep(id, s, t)
  BY RequestIsFresh
<1> DEFINE new == [id |-> id, sweepFeeBps |-> portalSweepFeeBps, requestBlock |-> block, sweeper |-> s]
<1>2. new.id = id /\ FeeOf(new) = FeeAt(portalSweepFeeBps, id.amount) /\ id.amount \in Nat
  BY DEF FeeOf, SweepId
<1>3. portalSweepFeeBps \in 0..BasisPoints-1
  BY DEF PayInv, NothingNegative
<1>4. FeeAt(portalSweepFeeBps, id.amount) \in 0..id.amount
  BY <1>2, <1>3, SweepFeeBound
<1>5. portalPendingDeposits' = portalPendingDeposits \cup {new}
  BY <1>1 DEF NewSweep
<1> HIDE DEF new
<1>6. UNCHANGED <<binding, portalSweepFeeBps, claimable>>
  BY DEF RequestPortalDeposit, configVars
<1> QED BY <1>2, <1>4, <1>5, <1>6 DEF PayInv, NothingNegative

(* What is deferred adds to what is owed.                                  *)
LEMMA SubmitNotNegative ==
    ASSUME NEW ids \in Batches, PayInv, SubmitPortalDepositEpoch(ids)
    PROVE  NothingNegative'
<1> DEFINE R == {RecordOf(id) : id \in ids}
<1>1. R \subseteq portalPendingDeposits
  <2>1. \A id \in ids : RecordOf(id) \in portalPendingDeposits
    BY DEF SubmitPortalDepositEpoch, Open, RecordOf, Exists
  <2> QED BY <2>1
<1>2. Worth(R)
  <2> HIDE DEF R
  <2> QED BY <1>1, RecordsWorth, FS_Subset DEF Worth, Sound
<1>3. PICK refused : claimable' = [s \in Sweeper |-> [t \in Token |->
                                IF <<s, t>> \in refused THEN Deferred(s, t, FeesOf(R, s, t))
                                                        ELSE claimable[s][t]]]
  BY DEF SubmitPortalDepositEpoch
<1> HIDE DEF R
<1>4. ASSUME NEW s \in Sweeper, NEW t \in Token PROVE claimable'[s][t] >= 0
  <2>1. FeesOf(R, s, t) \in Nat
    BY <1>2, SumsNotNegative
  <2>2. claimable[s][t] \in Int /\ claimable[s][t] >= 0
    BY DEF PayInv, MoneyInv, MoneyTyped, NothingNegative
  <2>3. \/ claimable'[s][t] = claimable[s][t] + FeesOf(R, s, t)
        \/ claimable'[s][t] = claimable[s][t]
    BY <1>3 DEF Deferred
  <2> QED BY <2>1, <2>2, <2>3
<1>5. UNCHANGED <<binding, portalSweepFeeBps, portalPendingDeposits>>
  BY DEF SubmitPortalDepositEpoch, accountVars, configVars
<1> QED BY <1>4, <1>5 DEF PayInv, NothingNegative

(* Steps that leave records, rates, bindings and debts alone.              *)
LEMMA StaysNotNegative ==
    ASSUME NothingNegative,
           UNCHANGED <<binding, portalSweepFeeBps, portalPendingDeposits, claimable>>
    PROVE  NothingNegative'
BY DEF NothingNegative

(* Every step keeps it.                                                    *)
LEMMA NextPays == PayInv /\ [Next]_vars => PayInv'
<1> SUFFICES ASSUME PayInv, [Next]_vars PROVE PayInv'
  OBVIOUS
<1> SUFFICES NothingNegative'
  BY NextMoney DEF PayInv
<1> USE DEF PayInv, poolVars, configVars
<1>1. CASE \E e \in Portal, t \in Token : Arrive(e, t)
  BY <1>1, StaysNotNegative DEF Arrive
<1>2. CASE \E e \in Portal : ArriveNative(e)
  BY <1>2, StaysNotNegative DEF ArriveNative
<1>3. CASE \E e \in Portal, h \in Binding : InitializePortal(e, h)
  <2>1. binding' \in [Portal -> Word]
    BY <1>3 DEF InitializePortal, NothingNegative, Word
  <2>2. UNCHANGED <<portalSweepFeeBps, portalPendingDeposits, claimable>>
    BY <1>3 DEF InitializePortal
  <2> QED BY <2>1, <2>2 DEF NothingNegative
<1>4. CASE \E e \in Portal : Redelegate(e)
  BY <1>4, StaysNotNegative DEF Redelegate
<1>5. CASE \E e \in Portal : OtherCode(e)
  <2>1. binding' \in [Portal -> Word]
    BY <1>5 DEF OtherCode, NothingNegative
  <2>2. UNCHANGED <<portalSweepFeeBps, portalPendingDeposits, claimable>>
    BY <1>5 DEF OtherCode
  <2> QED BY <2>1, <2>2 DEF NothingNegative
<1>6. CASE \E e \in Portal, t \in Token, a \in 1..MaxBalance : Withdraw(e, t, a)
  BY <1>6, StaysNotNegative DEF Withdraw
<1>7. CASE \E s \in Sweeper, e \in Portal, t \in Token : RequestPortalDeposit(s, e, t)
  BY <1>7, RequestNotNegative
<1>8. CASE \E r \in portalPendingDeposits : CancelPortalDeposit(r.id)
  <2>1. /\ portalPendingDeposits' \subseteq portalPendingDeposits
        /\ UNCHANGED <<binding, portalSweepFeeBps, claimable>>
    BY <1>8 DEF CancelPortalDeposit
  <2> QED BY <2>1 DEF NothingNegative
<1>9. CASE \E ids \in Batches : SubmitPortalDepositEpoch(ids)
  BY <1>9, SubmitNotNegative
<1>10. CASE \E s \in Sweeper, t \in Token : ClaimPortalSweepFee(s, t)
  <2>1. /\ UNCHANGED <<binding, portalSweepFeeBps, portalPendingDeposits>>
        /\ \E s \in Sweeper, t \in Token : claimable' = [claimable EXCEPT ![s][t] = 0]
    BY <1>10 DEF ClaimPortalSweepFee, accountVars
  <2>2. claimable \in [Sweeper -> [Token -> Int]]
    BY DEF MoneyInv, MoneyTyped
  <2>3. \A s \in Sweeper, t \in Token : claimable'[s][t] = 0 \/ claimable'[s][t] = claimable[s][t]
    BY <2>1, <2>2
  <2>4. \A s \in Sweeper, t \in Token : claimable'[s][t] >= 0
    BY <2>3 DEF NothingNegative
  <2> QED BY <2>1, <2>4 DEF NothingNegative
<1>11. CASE \E rate \in FeeRates : SetPortalSweepFeeBps(rate)
  <2>1. portalSweepFeeBps' \in 0..BasisPoints-1
    BY <1>11, RatesAssumption DEF SetPortalSweepFeeBps
  <2>2. UNCHANGED <<binding, portalPendingDeposits, claimable>>
    BY <1>11 DEF SetPortalSweepFeeBps, accountVars
  <2> QED BY <2>1, <2>2 DEF NothingNegative
<1>12. CASE \E t \in Token, m \in DustLimits : SetPortalMinSweep(t, m)
  BY <1>12, StaysNotNegative DEF SetPortalMinSweep, accountVars
<1>13. CASE NextBlock
  BY <1>13, StaysNotNegative DEF NextBlock, accountVars
<1>14. CASE UNCHANGED vars
  BY <1>14, StaysNotNegative DEF vars, accountVars
<1> QED
  BY <1>1, <1>2, <1>3, <1>4, <1>5, <1>6, <1>7, <1>8, <1>9, <1>10, <1>11, <1>12, <1>13, <1>14
  DEF Next

(* The books balance, and nothing in them is negative.                     *)
LEMMA InitPays == Init => PayInv
<1> SUFFICES ASSUME Init PROVE NothingNegative
  BY InitMoney DEF PayInv
<1>1. 0 \in 0..BasisPoints-1
  BY RatesAssumption
<1> QED BY <1>1 DEF Init, NothingNegative, Word

(* So it stays through every order of sweeps, credits, returns, refused    *)
(* payments, claims and changes of rate.                                   *)
THEOREM PayInvariant == Spec => []PayInv
<1>1. PayInv /\ [Next]_vars => PayInv'
  BY NextPays
<1> QED BY InitPays, <1>1, PTL DEF Spec

-----------------------------------------------------------------------------
(* The state of the escrow, in terms of Portals.                           *)
HeldIds == {r.id : r \in Escrowed}
EndedIds == {id \in DOMAIN ended : ended[id] > 0}
Owing == [t \in Token |-> shielded[t] + OfSweepers(claimable, t)]

(* The escrow adds up sweeps as the pool adds up their records.            *)
LEMMA EscrowValue ==
    ASSUME NEW R, Sound(R), \A r, q \in R : r.id = q.id => r = q, NEW t
    PROVE  Vault!Value({r.id : r \in R}, t) = AmountIn(R, t)
<1> DEFINE ids == {r.id : r \in R}
           S == {d \in ids : d.token = t}
           Of == {r \in R : r.id.token = t}
           f == [d \in ids |-> d.amount]
           g == [r \in R |-> r.id.amount]
           name == [r \in R |-> r.id]
           body(h) == [T \in SUBSET S |->
                            IF T = {} THEN 0
                            ELSE LET x == CHOOSE x \in T : TRUE
                                 IN (x.amount) + h[T \ {x}]]
           iter == CHOOSE h : h = body(h)
<1>1. Vault!Value(ids, t) = iter[S]
  BY DEF Vault!Value, Vault!MapThenSumSet, Vault!MapThenFoldSet
<1>2. ASSUME NEW h PROVE IsSum(h, f, S) <=> h = body(h)
  <2>1. ASSUME NEW T \in SUBSET S, T # {} PROVE f[OneOf(T)] = OneOf(T).amount
    BY <2>1, OneOfIsElement
  <2> QED BY <2>1 DEF IsSum, OneOf
<1>3. IsFiniteSet(Of) /\ Of \subseteq R
  BY FS_Subset DEF Sound
<1>4. S = {name[r] : r \in Of}
  OBVIOUS
<1>5. /\ \A r \in Of : f[name[r]] = g[r] /\ g[r] \in Int
      /\ \A r, q \in Of : name[r] = name[q] => r = q
  BY DEF Sound
<1>6. AmountIn(R, t) = Total(g, Of)
  BY AmountInIsTotal DEF Sound
<1> HIDE DEF f, g, name, Of
<1>7. IsFiniteSet({name[r] : r \in Of}) /\ Total(f, {name[r] : r \in Of}) = Total(g, Of)
  BY <1>3, <1>5, TotalRenamed
<1>8. IsFiniteSet(S) /\ Total(f, S) = Total(g, Of)
  BY <1>4, <1>7, Zenon
<1>9. SumOfSubsets(f, S) = body(SumOfSubsets(f, S))
  <2> HIDE DEF S, body
  <2> QED BY <1>2, <1>8, SumExists
<1>10. iter = body(iter)
  <2> HIDE DEF body
  <2> QED BY <1>9
<1> HIDE DEF S, body, iter
<1>11. iter[S] = Total(f, S)
  <2>1. IsSum(iter, f, S)
    BY <1>2, <1>10
  <2> QED BY <1>8, <2>1, SumExists, SumUnique DEF Total
<1> QED BY <1>1, <1>6, <1>8, <1>11 DEF ids

OwingRests ==
    \A t \in Token : /\ vault[t] \in Int /\ AmountIn(Escrowed, t) \in Int /\ Owing[t] \in Int
                     /\ Owing[t] = vault[t] - AmountIn(Escrowed, t)

(* What is owed is what the pool holds beyond the escrow.                  *)
LEMMA OwingIsRest == MoneyInv => OwingRests
<1> SUFFICES ASSUME MoneyInv, NEW t \in Token
             PROVE  /\ vault[t] \in Int /\ AmountIn(Escrowed, t) \in Int /\ Owing[t] \in Int
                    /\ Owing[t] = vault[t] - AmountIn(Escrowed, t)
  BY DEF OwingRests
<1>1. Sound(Escrowed)
  BY FS_Subset DEF MoneyInv, RecordsRemembered, Sound, Escrowed
<1>2. AmountIn(Escrowed, t) \in Int
  BY <1>1, AmountWithout
<1>3. OfSweepers(claimable, t) \in Int /\ vault[t] \in Int /\ shielded[t] \in Int
  BY IntOfSweepers DEF MoneyInv, MoneyTyped
<1>4. vault[t] = AmountIn(Escrowed, t) + shielded[t] + OfSweepers(claimable, t)
  BY DEF MoneyInv, MoneySettled
<1>5. Owing[t] = shielded[t] + OfSweepers(claimable, t)
  BY DEF Owing
<1> QED BY <1>2, <1>3, <1>4, <1>5

(* A sweep opens a deposit,                                                *)
LEMMA RequestOpens ==
    ASSUME NEW s \in Sweeper, NEW e \in Portal, NEW t \in Token,
           PayInv, RequestPortalDeposit(s, e, t)
    PROVE  \E d \in SweepId : Vault!Open(d)
<1>0. PICK id \in SweepId : NewSweep(id, s, t)
  BY RequestIsFresh
<1>1. /\ id.token = t
      /\ id \notin DOMAIN ended
      /\ portalPendingDeposits' = portalPendingDeposits \cup
            {[id |-> id, sweepFeeBps |-> portalSweepFeeBps, requestBlock |-> block, sweeper |-> s]}
      /\ vault' = [vault EXCEPT ![t] = @ + id.amount]
      /\ ended' = [i \in DOMAIN ended \cup {id} |-> IF i \in DOMAIN ended THEN ended[i] ELSE 0]
  BY <1>0 DEF NewSweep
<1> DEFINE new == [id |-> id, sweepFeeBps |-> portalSweepFeeBps, requestBlock |-> block, sweeper |-> s]
<1>2. UNCHANGED <<processedPortalDeposits, claimable, shielded>>
  BY DEF RequestPortalDeposit
<1>3. /\ \A r \in portalPendingDeposits : r.id \in DOMAIN ended
      /\ id \notin processedPortalDeposits
  BY <1>1 DEF PayInv, MoneyInv, IInv, NotEndedBefore, RecordsRemembered
<1>4. new.id = id /\ portalPendingDeposits' = portalPendingDeposits \cup {new}
  BY <1>1
<1> HIDE DEF new
<1>5. id \notin HeldIds \cup EndedIds
  BY <1>1, <1>3 DEF HeldIds, EndedIds, Escrowed
<1>6. Escrowed' = Escrowed \cup {new}
  BY <1>2, <1>3, <1>4 DEF Escrowed
<1>7. HeldIds' = HeldIds \cup {id}
  BY <1>4, <1>6 DEF HeldIds
<1>8. EndedIds' = EndedIds
  BY <1>1 DEF EndedIds
<1>9. Owing' = Owing
  BY <1>2 DEF Owing
<1>10. Vault!Open(id)
  BY <1>1, <1>5, <1>7, <1>8, <1>9 DEF Vault!Open, Vault!Fresh, HeldIds, EndedIds, Owing
<1> QED BY <1>10

(* a return gives one back,                                                *)
LEMMA CancelGivesBack ==
    ASSUME NEW r \in portalPendingDeposits, PayInv, CancelPortalDeposit(r.id)
    PROVE  r.id \in HeldIds /\ Vault!GiveBack(r.id)
<1> USE DEF PayInv, MoneyInv
<1>1. RecordOf(r.id) = r
  BY DEF RecordsRemembered, RecordOf
<1>2. /\ r.id \notin processedPortalDeposits
      /\ processedPortalDeposits' = processedPortalDeposits \cup {r.id}
      /\ portalPendingDeposits' = portalPendingDeposits \ {r}
      /\ vault' = [vault EXCEPT ![r.id.token] = @ - r.id.amount]
      /\ ended' = [ended EXCEPT ![r.id] = @ + 1]
      /\ UNCHANGED <<claimable, shielded>>
  BY <1>1 DEF CancelPortalDeposit, Open
<1>3. Escrowed' = Escrowed \ {r} /\ r \in Escrowed
  BY <1>2 DEF Escrowed, RecordsRemembered
<1>4. HeldIds' = HeldIds \ {r.id} /\ r.id \in HeldIds
  <2>1. \A q \in Escrowed : q.id = r.id => q = r
    BY DEF RecordsRemembered, Escrowed
  <2> QED BY <1>3, <2>1 DEF HeldIds
<1>5. EndedIds' = EndedIds \cup {r.id}
  <2>1. r.id \in DOMAIN ended /\ ended[r.id] = 0
    BY <1>2 DEF IInv, NotEndedBefore
  <2>2. /\ DOMAIN ended' = DOMAIN ended /\ ended'[r.id] = 1
        /\ \A i \in DOMAIN ended : i # r.id => ended'[i] = ended[i]
    BY <1>2, <2>1
  <2> QED BY <2>1, <2>2 DEF EndedIds
<1>6. Owing' = Owing
  BY <1>2 DEF Owing
<1> QED BY <1>2, <1>4, <1>5, <1>6 DEF Vault!GiveBack, HeldIds, EndedIds, Owing

(* an epoch credits some, fees paid out of them,                           *)
LEMMA SubmitCredits ==
    ASSUME NEW ids \in Batches, PayInv, MoneyInv', SubmitPortalDepositEpoch(ids)
    PROVE  /\ ids \in (SUBSET HeldIds) \ {{}}
           /\ \E fees \in Vault!Fees(ids) : Vault!Credit(ids, fees)
<1>r. OwingRests /\ OwingRests'
  BY OwingIsRest, PTL DEF PayInv
<1> USE DEF PayInv, MoneyInv
<1> DEFINE R == {RecordOf(id) : id \in ids}
<1>1. \A id \in ids : Exists(id) /\ id \notin processedPortalDeposits
  BY DEF SubmitPortalDepositEpoch, Open
<1>2. \A id \in ids : RecordOf(id) \in portalPendingDeposits /\ RecordOf(id).id = id
  BY <1>1 DEF RecordOf, Exists
<1>3. R = {r \in portalPendingDeposits : r.id \in ids} /\ ids = {r.id : r \in R}
  BY <1>2 DEF RecordsRemembered
<1>4. /\ processedPortalDeposits' = processedPortalDeposits \cup ids
      /\ ended' = [id \in DOMAIN ended |-> ended[id] + (IF id \in ids THEN 1 ELSE 0)]
      /\ portalPendingDeposits' = portalPendingDeposits
  BY DEF SubmitPortalDepositEpoch
<1>5. PICK refused \in SUBSET {p \in Sweeper \X Token : FeesOf(R, p[1], p[2]) > 0} :
        LET pushed == [s \in Sweeper |-> [t \in Token |->
                            IF <<s, t>> \in refused THEN 0 ELSE FeesOf(R, s, t)]]
        IN  vault' = [t \in Token |-> vault[t] - OfSweepers(pushed, t)]
  BY DEF SubmitPortalDepositEpoch
<1> DEFINE all == [s \in Sweeper |-> [u \in Token |-> FeesOf(R, s, u)]]
           pushed == [s \in Sweeper |-> [u \in Token |->
                            IF <<s, u>> \in refused THEN 0 ELSE FeesOf(R, s, u)]]
           kept == [s \in Sweeper |-> [u \in Token |->
                            IF <<s, u>> \in refused THEN FeesOf(R, s, u) ELSE 0]]
           given == [t \in Token |-> OfSweepers(pushed, t)]
<1>f. PICK fees : fees = given
  OBVIOUS
<1>6. R \in SUBSET Escrowed /\ Escrowed' = Escrowed \ R
  BY <1>1, <1>3, <1>4 DEF Escrowed
<1>7. Worth(Escrowed) /\ Worth(R)
  <2>1. Worth(Escrowed)
    BY RecordsWorth
  <2> HIDE DEF R
  <2> QED BY <1>6, <2>1, FS_Subset DEF Worth, Sound
<1>8. \A r, q \in R : r.id = q.id => r = q
  BY <1>3 DEF RecordsRemembered
<1> HIDE DEF R
<1>9. ASSUME NEW t \in Token
      PROVE  /\ Vault!Value(ids, t) = AmountIn(R, t) /\ AmountIn(R, t) \in Nat
             /\ AmountIn(Escrowed', t) = AmountIn(Escrowed, t) - AmountIn(R, t)
             /\ fees[t] \in 0..Vault!Value(ids, t)
  <2>1. Sound(R) /\ Sound(Escrowed)
    BY <1>7 DEF Worth
  <2>2. Vault!Value(ids, t) = AmountIn(R, t)
    BY <1>3, <1>8, <2>1, EscrowValue, Zenon
  <2>3. AmountIn(R, t) \in Nat /\ NetIn(R, t) \in Nat
    BY <1>7, SumsNotNegative
  <2>4. AmountIn(Escrowed \ R, t) = AmountIn(Escrowed, t) - AmountIn(R, t)
    BY <1>6, <2>1, AmountWithout
  <2>5. \A s \in Sweeper : FeesOf(R, s, t) \in Nat
    BY <1>7, SumsNotNegative
  <2>6. \A s \in Sweeper : /\ pushed[s][t] \in Nat /\ kept[s][t] \in Nat
                           /\ all[s][t] = pushed[s][t] + kept[s][t]
                           /\ all[s][t] = FeesOf(R, s, t)
    BY <2>5
  <2> HIDE DEF all, pushed, kept
  <2>7. OfSweepers(all, t) = OfSweepers(pushed, t) + OfSweepers(kept, t)
    <3>1. \A s \in Sweeper : /\ pushed[s][t] \in Int /\ kept[s][t] \in Int
                             /\ all[s][t] = pushed[s][t] + kept[s][t]
      BY <2>6
    <3> QED BY <3>1, TablesAddUp
  <2>8. OfSweepers(pushed, t) \in Nat /\ OfSweepers(kept, t) \in Nat
    BY <2>6, OneSweeperOfMany
  <2>9. OfSweepers(all, t) = AmountIn(R, t) - NetIn(R, t)
    BY <2>1, <2>6, FeesTogether
  <2>10. OfSweepers(pushed, t) \in 0..AmountIn(R, t)
    BY <2>3, <2>7, <2>8, <2>9
  <2>11. fees[t] = OfSweepers(pushed, t)
    BY <1>f
  <2> QED BY <1>6, <2>2, <2>3, <2>4, <2>10, <2>11, Zenon
<1>10. vault' = [t \in Token |-> vault[t] - fees[t]] /\ fees = [t \in Token |-> fees[t]]
  BY <1>5, <1>f
<1> HIDE DEF given
<1>11. fees \in Vault!Fees(ids)
  <2>1. \A t \in Token : fees[t] \in 0..Vault!Value(ids, t) /\ fees[t] <= Vault!Value(ids, t)
    <3>1. \A t \in Token : fees[t] \in 0..Vault!Value(ids, t)
      BY <1>9
    <3>2. \A t \in Token : Vault!Value(ids, t) \in Nat
      BY <1>9
    <3> QED BY <3>1, <3>2
  <2> QED BY <1>10, <2>1 DEF Vault!Fees
<1>12. Owing' = [t \in Token |-> Owing[t] + Vault!Value(ids, t) - fees[t]]
  <2>1. ASSUME NEW t \in Token PROVE Owing'[t] = Owing[t] + Vault!Value(ids, t) - fees[t]
    <3>1. /\ vault[t] \in Int /\ AmountIn(Escrowed, t) \in Int /\ Owing[t] \in Int
          /\ Owing[t] = vault[t] - AmountIn(Escrowed, t)
      BY <1>r DEF OwingRests
    <3>2. Owing'[t] = vault'[t] - AmountIn(Escrowed', t)
      BY <1>r DEF OwingRests
    <3>3. /\ Vault!Value(ids, t) = AmountIn(R, t) /\ AmountIn(R, t) \in Nat
          /\ AmountIn(Escrowed', t) = AmountIn(Escrowed, t) - AmountIn(R, t)
          /\ fees[t] \in 0..Vault!Value(ids, t)
      BY <1>9
    <3>4. vault'[t] = vault[t] - fees[t]
      BY <1>10
    <3>5. fees[t] \in Int
      BY <3>3
    <3> HIDE DEF PayInv, MoneyInv
    <3> QED BY <3>1, <3>2, <3>3, <3>4, <3>5
  <2>2. Owing' = [t \in Token |-> Owing'[t]]
    BY DEF Owing
  <2> QED BY <2>1, <2>2, Zenon
<1>13. ids \in (SUBSET HeldIds) \ {{}}
  <2>1. ids # {}
    BY DEF Batches
  <2> QED BY <1>3, <1>6, <2>1 DEF HeldIds
<1>14. HeldIds' = HeldIds \ ids
  <2>1. \A r \in Escrowed : r \in R <=> r.id \in ids
    BY <1>3 DEF Escrowed
  <2> QED BY <1>6, <2>1 DEF HeldIds
<1>15. EndedIds' = EndedIds \cup ids
  <2>1. \A id \in ids : id \in DOMAIN ended /\ ended[id] = 0
    BY <1>1, <1>2 DEF IInv, NotEndedBefore
  <2>2. \A id \in DOMAIN ended : ended'[id] = IF id \in ids THEN 1 ELSE ended[id]
    BY <1>4, <2>1 DEF IInv, NotEndedBefore
  <2>3. DOMAIN ended' = DOMAIN ended
    BY <1>4
  <2> QED BY <2>1, <2>2, <2>3 DEF EndedIds
<1>16. Vault!Credit(ids, fees)
  BY <1>10, <1>12, <1>14, <1>15 DEF Vault!Credit, HeldIds, EndedIds, Owing
<1> QED BY <1>11, <1>13, <1>16

(* and a claim spends what is owed.                                        *)
LEMMA ClaimSpends ==
    ASSUME NEW s \in Sweeper, NEW t \in Token, PayInv, MoneyInv', ClaimPortalSweepFee(s, t)
    PROVE  \E v \in 1..Owing[t] : Vault!Spend(t, v)
<1>r. OwingRests /\ OwingRests'
  BY OwingIsRest, PTL DEF PayInv
<1> USE DEF PayInv, MoneyInv
<1>1. /\ claimable[s][t] > 0
      /\ vault' = [vault EXCEPT ![t] = @ - claimable[s][t]]
      /\ UNCHANGED <<portalPendingDeposits, processedPortalDeposits, ended>>
  BY DEF ClaimPortalSweepFee
<1>2. HeldIds' = HeldIds /\ EndedIds' = EndedIds /\ Escrowed' = Escrowed
  BY <1>1 DEF HeldIds, EndedIds, Escrowed
<1>3. claimable[s][t] \in Int
  BY DEF MoneyTyped
<1>4. \A x \in Sweeper : claimable[x][t] \in Nat
  BY DEF MoneyTyped, NothingNegative
<1>5. OfSweepers(claimable, t) \in Nat /\ claimable[s][t] <= OfSweepers(claimable, t)
  BY <1>4, OneSweeperOfMany
<1>6. shielded[t] \in Nat
  <2>1. shielded[t] = NetIn(Settled, t)
    BY DEF MoneySettled
  <2> QED BY <2>1, RecordsWorth, SumsNotNegative
<1>7. claimable[s][t] \in 1..Owing[t]
  <2>1. Owing[t] = shielded[t] + OfSweepers(claimable, t)
    BY DEF Owing
  <2> HIDE DEF PayInv, MoneyInv
  <2> QED BY <1>1, <1>3, <1>5, <1>6, <2>1
<1>8. Owing' = [Owing EXCEPT ![t] = @ - claimable[s][t]]
  <2>1. ASSUME NEW u \in Token
        PROVE  Owing'[u] = IF u = t THEN Owing[u] - claimable[s][t] ELSE Owing[u]
    <3>1. /\ vault[u] \in Int /\ AmountIn(Escrowed, u) \in Int /\ Owing[u] \in Int
          /\ Owing[u] = vault[u] - AmountIn(Escrowed, u)
      BY <1>r DEF OwingRests
    <3>2. Owing'[u] = vault'[u] - AmountIn(Escrowed', u)
      BY <1>r DEF OwingRests
    <3>3. AmountIn(Escrowed', u) = AmountIn(Escrowed, u)
      BY <1>2, Zenon
    <3>4. vault'[u] = IF u = t THEN vault[u] - claimable[s][t] ELSE vault[u]
      BY <1>1 DEF MoneyTyped
    <3> HIDE DEF PayInv, MoneyInv
    <3> QED BY <1>3, <3>1, <3>2, <3>3, <3>4
  <2>2. Owing' = [u \in Token |-> Owing'[u]] /\ Owing = [u \in Token |-> Owing[u]]
    BY DEF Owing
  <2> HIDE DEF PayInv, MoneyInv
  <2>3. DOMAIN Owing = Token
    BY <2>2
  <2> QED BY <2>1, <2>2, <2>3
<1>9. PICK v : v = claimable[s][t]
  OBVIOUS
<1>10. Vault!Spend(t, v)
  BY <1>1, <1>2, <1>8, <1>9 DEF Vault!Spend, HeldIds, EndedIds, Owing
<1>11. v \in 1..Owing[t]
  BY <1>7, <1>9
<1> QED BY <1>10, <1>11

(* Steps that leave the pool alone.                                        *)
LEMMA PoolRests ==
    ASSUME UNCHANGED <<portalPendingDeposits, processedPortalDeposits, claimable, vault, shielded, ended>>
    PROVE  UNCHANGED Vault!escrowVars
BY DEF Vault!escrowVars, Escrowed

(* Every step is one of the escrow, or leaves it alone.                    *)
LEMMA StepImplementsEscrow ==
    ASSUME PayInv, MoneyInv', [Next]_vars
    PROVE  [Vault!EscrowNext]_(Vault!escrowVars)
<1> USE DEF poolVars, ghostVars
<1>1. CASE \E e \in Portal, t \in Token : Arrive(e, t)
  BY <1>1, PoolRests DEF Arrive
<1>2. CASE \E e \in Portal : ArriveNative(e)
  BY <1>2, PoolRests DEF ArriveNative
<1>3. CASE \E e \in Portal, h \in Binding : InitializePortal(e, h)
  BY <1>3, PoolRests DEF InitializePortal
<1>4. CASE \E e \in Portal : Redelegate(e)
  BY <1>4, PoolRests DEF Redelegate
<1>5. CASE \E e \in Portal : OtherCode(e)
  BY <1>5, PoolRests DEF OtherCode
<1>6. CASE \E e \in Portal, t \in Token, a \in 1..MaxBalance : Withdraw(e, t, a)
  BY <1>6, PoolRests DEF Withdraw
<1>7. CASE \E s \in Sweeper, e \in Portal, t \in Token : RequestPortalDeposit(s, e, t)
  BY <1>7, RequestOpens DEF Vault!EscrowNext
<1>8. CASE \E r \in portalPendingDeposits : CancelPortalDeposit(r.id)
  <2>1. \E d \in HeldIds : Vault!GiveBack(d)
    BY <1>8, CancelGivesBack
  <2> QED BY <2>1 DEF HeldIds, Vault!EscrowNext
<1>9. CASE \E ids \in Batches : SubmitPortalDepositEpoch(ids)
  <2>1. \E D \in (SUBSET HeldIds) \ {{}} : \E fees \in Vault!Fees(D) : Vault!Credit(D, fees)
    BY <1>9, SubmitCredits
  <2> QED BY <2>1 DEF HeldIds, Vault!EscrowNext
<1>10. CASE \E s \in Sweeper, t \in Token : ClaimPortalSweepFee(s, t)
  <2>1. \E t \in Token : \E v \in 1..Owing[t] : Vault!Spend(t, v)
    BY <1>10, ClaimSpends
  <2> QED BY <2>1 DEF Owing, Vault!EscrowNext
<1>11. CASE \E rate \in FeeRates : SetPortalSweepFeeBps(rate)
  BY <1>11, PoolRests DEF SetPortalSweepFeeBps
<1>12. CASE \E t \in Token, m \in DustLimits : SetPortalMinSweep(t, m)
  BY <1>12, PoolRests DEF SetPortalMinSweep
<1>13. CASE NextBlock
  BY <1>13, PoolRests DEF NextBlock
<1>14. CASE UNCHANGED vars
  BY <1>14, PoolRests DEF vars
<1> QED
  BY <1>1, <1>2, <1>3, <1>4, <1>5, <1>6, <1>7, <1>8, <1>9, <1>10, <1>11, <1>12, <1>13, <1>14
  DEF Next

(* At first the escrow is empty.                                           *)
LEMMA InitImplementsEscrow == Init => Vault!EscrowInit
<1> SUFFICES ASSUME Init PROVE Vault!EscrowInit
  OBVIOUS
<1>1. HeldIds = {} /\ EndedIds = {}
  BY DEF Init, HeldIds, EndedIds, Escrowed
<1>2. Owing = [t \in Token |-> 0]
  <2>1. ASSUME NEW t \in Token PROVE Owing[t] = 0
    <3>1. Owing[t] = vault[t] - AmountIn(Escrowed, t)
      BY InitMoney, OwingIsRest DEF OwingRests
    <3>2. AmountIn(Escrowed, t) = 0
      <4>1. Escrowed = {}
        BY DEF Init, Escrowed
      <4> QED BY <4>1, SumsOfNone, Zenon
    <3> QED BY <3>1, <3>2 DEF Init
  <2>2. Owing = [t \in Token |-> Owing[t]]
    BY DEF Owing
  <2> QED BY <2>1, <2>2, Zenon
<1> QED BY <1>1, <1>2 DEF Init, Vault!EscrowInit, HeldIds, EndedIds, Owing

(* Sweeps, credits with the fees paid or deferred out of them, returns and *)
(* claims are steps of an escrow: what was swept is credited or given back *)
(* once and in full, and nothing else is paid but what is owed.            *)
THEOREM SweepsImplementEscrow == Spec => ImplementsEscrow
<1>1. PayInv /\ PayInv' /\ [Next]_vars => [Vault!EscrowNext]_(Vault!escrowVars)
  BY StepImplementsEscrow DEF PayInv
<1> QED BY <1>1, InitImplementsEscrow, PayInvariant, PTL DEF Spec, ImplementsEscrow, Vault!EscrowSpec

(* Whoever is owed can be paid whatever was paid before: a portal what of  *)
(* it is in escrow (cancelPortalDeposit), a sweeper the fees it was not    *)
(* paid (claimPortalSweepFee).                                             *)
THEOREM EveryClaimPayable == Spec => []ClaimsPayable
<1>1. PayInv => ClaimsPayable
  <2> SUFFICES ASSUME PayInv PROVE ClaimsPayable
    OBVIOUS
  <2>1. ASSUME NEW t \in Token
        PROVE  /\ vault[t] = AmountIn(Escrowed, t) + shielded[t] + OfSweepers(claimable, t)
               /\ AmountIn(Escrowed, t) \in Nat /\ shielded[t] \in Nat
               /\ OfSweepers(claimable, t) \in Nat
               /\ \A s \in Sweeper : claimable[s][t] \in Int /\ claimable[s][t] <= OfSweepers(claimable, t)
    <3>1. AmountIn(Escrowed, t) \in Nat /\ NetIn(Settled, t) \in Nat
      BY RecordsWorth, SumsNotNegative
    <3>2. \A s \in Sweeper : claimable[s][t] \in Nat
      BY DEF PayInv, MoneyInv, MoneyTyped, NothingNegative
    <3>3. OfSweepers(claimable, t) \in Nat /\ \A s \in Sweeper : claimable[s][t] <= OfSweepers(claimable, t)
      BY <3>2, OneSweeperOfMany
    <3>4. /\ vault[t] = AmountIn(Escrowed, t) + shielded[t] + OfSweepers(claimable, t)
          /\ shielded[t] = NetIn(Settled, t)
      BY DEF PayInv, MoneyInv, MoneySettled
    <3> QED BY <3>1, <3>2, <3>3, <3>4
  <2>2. ASSUME NEW r \in Escrowed
        PROVE  Open(r.id) /\ RecordOf(r.id) = r /\ r.id.amount <= vault[r.id.token]
    <3>1. Open(r.id) /\ RecordOf(r.id) = r
      BY DEF PayInv, MoneyInv, RecordsRemembered, Escrowed, Open, Exists, RecordOf
    <3>2. r.id.token \in Token /\ r.id.amount \in Int
      BY RecordsWorth DEF Worth, Sound
    <3>3. r.id.amount <= AmountIn(Escrowed, r.id.token)
      BY RecordsWorth, OneOfMany
    <3>4. r.id.amount <= vault[r.id.token]
      BY <2>1, <3>2, <3>3
    <3> QED BY <3>1, <3>4
  <2>3. \A s \in Sweeper, t \in Token : claimable[s][t] <= vault[t]
    BY <2>1
  <2> QED BY <2>2, <2>3 DEF ClaimsPayable
<1> QED BY <1>1, PayInvariant, PTL
=============================================================================
