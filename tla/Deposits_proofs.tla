--------------------------- MODULE Deposits_proofs ---------------------------
(***************************************************************************)
(* Theorems of Deposits, for every set of accounts, gateways and tokens    *)
(* and every bound.                                                        *)
(***************************************************************************)
EXTENDS Deposits, Sums, FiniteSetTheorems, TLAPS

(***************************************************************************)
(* The inductive invariant.  Deleting a record forgets that its request    *)
(* was settled; what keeps the same request from being made, and settled,  *)
(* once more is that every request ever made carries a nonce its depositor *)
(* has already passed.                                                     *)
(***************************************************************************)
NoncesPassed ==
    /\ depositNonces \in [Account \cup Gateway -> Nat]
    /\ \A id \in DOMAIN settled :
            /\ id.depositor \in Account \cup Gateway
            /\ id.nonce \in Nat
            /\ id.nonce < depositNonces[id.depositor]

RequestsCounted == Pending \cup processedDeposits \subseteq DOMAIN settled

DepositInv == NoncesPassed /\ RequestsCounted /\ SettledOnce

-----------------------------------------------------------------------------
(* How often an epoch settles a request.                                   *)

(* A list without repetitions names each of its requests once.             *)
LEMMA TimesOnce ==
    ASSUME NEW deposits, NEW d,
           \A r, s \in DOMAIN deposits : deposits[r] = deposits[s] => r = s
    PROVE  Times(d, deposits) = IF d \in ToSet(deposits) THEN 1 ELSE 0
<1>1. CASE d \in ToSet(deposits)
    <2>1. PICK r \in DOMAIN deposits : deposits[r] = d
        BY <1>1 DEF ToSet
    <2>2. {s \in DOMAIN deposits : deposits[s] = d} = {r}
        BY <2>1
    <2> QED BY <1>1, <2>2, FS_Singleton DEF Times
<1>2. CASE d \notin ToSet(deposits)
    <2>1. {s \in DOMAIN deposits : deposits[s] = d} = {}
        BY <1>2 DEF ToSet
    <2> QED BY <1>2, <2>1, FS_EmptySet DEF Times
<1> QED BY <1>1, <1>2

(* A cancellation or a rescue settles its request and no other.            *)
LEMMA TimesSingle ==
    ASSUME NEW id, NEW d
    PROVE  Times(d, <<id>>) = IF d = id THEN 1 ELSE 0
<1>1. DOMAIN <<id>> = {1} /\ <<id>>[1] = id
    OBVIOUS
<1>2. ToSet(<<id>>) = {id}
    BY <1>1 DEF ToSet
<1> QED BY <1>1, <1>2, TimesOnce

-----------------------------------------------------------------------------
(* What the steps preserve.                                                *)

(* A recorded request is new: its nonce is the next of its depositor.      *)
LEMMA RecordInv ==
    ASSUME DepositInv,
           NEW id, NEW rescue,
           id.depositor \in Account \cup Gateway,
           id.nonce = depositNonces[id.depositor],
           Record(id, rescue),
           processedDeposits' = processedDeposits
    PROVE  DepositInv'
<1>1. id \notin DOMAIN settled
    BY DEF DepositInv, NoncesPassed
<1>2. id \notin Pending \cup processedDeposits
    BY <1>1 DEF DepositInv, RequestsCounted
<1>3. /\ DOMAIN settled' = DOMAIN settled \cup {id}
      /\ settled'[id] = 0
      /\ \A d \in DOMAIN settled : settled'[d] = settled[d]
    BY <1>1 DEF Record
<1>4. Pending' = Pending \cup {id}
    BY DEF Record, Pending
<1>5. NoncesPassed'
    <2>1. depositNonces' = [depositNonces EXCEPT ![id.depositor] = @ + 1]
        BY DEF Record
    <2>2. depositNonces' \in [Account \cup Gateway -> Nat]
        BY <2>1 DEF DepositInv, NoncesPassed
    <2>3. \A a \in Account \cup Gateway : depositNonces[a] <= depositNonces'[a]
        BY <2>1 DEF DepositInv, NoncesPassed
    <2>4. id.nonce \in Nat /\ id.nonce < depositNonces'[id.depositor]
        BY <2>1 DEF DepositInv, NoncesPassed
    <2>5. ASSUME NEW d \in DOMAIN settled
          PROVE  d.depositor \in Account \cup Gateway /\ d.nonce \in Nat
                    /\ d.nonce < depositNonces'[d.depositor]
        <3>1. d.nonce < depositNonces[d.depositor]
            BY <2>5 DEF DepositInv, NoncesPassed
        <3> QED BY <2>2, <2>3, <2>5, <3>1 DEF DepositInv, NoncesPassed
    <2> QED BY <1>3, <2>2, <2>4, <2>5 DEF NoncesPassed
<1>6. RequestsCounted'
    BY <1>3, <1>4 DEF DepositInv, RequestsCounted
<1>7. SettledOnce'
    BY <1>1, <1>2, <1>3, <1>4 DEF DepositInv, SettledOnce, Held
<1> QED BY <1>5, <1>6, <1>7 DEF DepositInv

(* Requests that were held and are held no more have been counted.         *)
LEMMA SettleInv ==
    ASSUME DepositInv,
           NEW deposits,
           \A r, s \in DOMAIN deposits : deposits[r] = deposits[s] => r = s,
           ToSet(deposits) \subseteq Held,
           Held' = Held \ ToSet(deposits),
           RequestsCounted',
           CountSettled(deposits),
           depositNonces' = depositNonces
    PROVE  DepositInv'
<1>1. /\ DOMAIN settled' = DOMAIN settled
      /\ \A d \in DOMAIN settled :
            settled'[d] = settled[d] + IF d \in ToSet(deposits) THEN 1 ELSE 0
    <2>1. \A d \in DOMAIN settled : Times(d, deposits) = IF d \in ToSet(deposits) THEN 1 ELSE 0
        BY TimesOnce
    <2> QED BY <2>1 DEF CountSettled
<1>2. NoncesPassed'
    BY <1>1 DEF DepositInv, NoncesPassed
<1>3. SettledOnce'
    BY <1>1 DEF DepositInv, SettledOnce
<1> QED BY <1>2, <1>3 DEF DepositInv

(* A request is taken back by deleting its record.                         *)
LEMMA TakeBackInv ==
    ASSUME DepositInv,
           NEW id \in Held,
           DeleteRecord(id),
           processedDeposits' = processedDeposits \/ processedDeposits' = processedDeposits \cup {id},
           CountSettled(<<id>>),
           depositNonces' = depositNonces
    PROVE  DepositInv'
<1>1. DOMAIN <<id>> = {1} /\ <<id>>[1] = id
    OBVIOUS
<1>2. ToSet(<<id>>) = {id}
    BY <1>1 DEF ToSet
<1>3. Pending' = Pending \ {id}
    BY DEF DeleteRecord, Pending
<1>4. Held' = Held \ ToSet(<<id>>)
    BY <1>2, <1>3 DEF Held
<1>5. DOMAIN settled' = DOMAIN settled
    BY DEF CountSettled
<1>6. RequestsCounted'
    BY <1>3, <1>5 DEF DepositInv, RequestsCounted, Held
<1> QED BY <1>1, <1>2, <1>4, <1>6, SettleInv

-----------------------------------------------------------------------------
(* The invariant is inductive.                                             *)

LEMMA DepositInvInit == Init => DepositInv
<1> SUFFICES ASSUME Init PROVE DepositInv
    OBVIOUS
<1>1. DOMAIN settled = {} /\ Pending = {}
    BY DEF Init, Pending
<1> QED BY <1>1 DEF Init, DepositInv, NoncesPassed, RequestsCounted, SettledOnce

(* Whatever a depositor, an epoch, a gateway or a rescuer does keeps the
   nonces ahead of the requests. *)
LEMMA DepositInvNext == DepositInv /\ [Next]_vars => DepositInv'
<1> SUFFICES ASSUME DepositInv, [Next]_vars
             PROVE  DepositInv'
    OBVIOUS
<1>1. CASE Request
    <2>1. PICK a \in Account, token \in Token, amount \in 1..MaxAmount :
               \E commitments \in Batch(Note), received \in 0..amount :
                    RequestDeposit(a, token, amount, commitments, received)
        BY <1>1 DEF Request
    <2>2. PICK commitments \in Batch(Note), received \in 0..amount :
               RequestDeposit(a, token, amount, commitments, received)
        BY <2>1
    <2> DEFINE id == ComputeRequestId(a, token, amount, depositNonces[a], commitments)
    <2>3. id.depositor = a /\ id.nonce = depositNonces[a]
        BY DEF ComputeRequestId
    <2>4. Record(id, NoRescue) /\ processedDeposits' = processedDeposits
        BY <2>2 DEF RequestDeposit
    <2> HIDE DEF id
    <2> QED BY <2>3, <2>4, RecordInv
<1>2. ASSUME NEW id \in Pending, CancelDeposit(id)
      PROVE  DepositInv'
    <2>1. id \in Held
        BY <1>2 DEF CancelDeposit, MayCancel, Held
    <2> QED BY <1>2, <2>1, TakeBackInv DEF CancelDeposit
<1>3. ASSUME NEW id \in Pending, RescueGatewayDeposit(id)
      PROVE  DepositInv'
    <2>1. id \in Held
        BY <1>3 DEF RescueGatewayDeposit, MayRescue, Held
    <2> QED BY <1>3, <2>1, TakeBackInv DEF RescueGatewayDeposit
<1>4. CASE Process
    <2>1. PICK deposits \in Batch(Pending) :
               \E outputs \in Batch(Note) : SubmitDepositEpoch(deposits, outputs)
        BY <1>4 DEF Process
    <2>2. /\ CanProcess(deposits)
          /\ processedDeposits' = processedDeposits \cup ToSet(deposits)
          /\ CountSettled(deposits)
          /\ pendingDeposits' = pendingDeposits
          /\ depositNonces' = depositNonces
        BY <2>1 DEF SubmitDepositEpoch
    <2>3. ToSet(deposits) \subseteq Held
        BY <2>2 DEF CanProcess, ToSet
    <2>4. Held' = Held \ ToSet(deposits)
        BY <2>2 DEF Held, Pending
    <2>5. RequestsCounted'
        BY <2>2, <2>3 DEF DepositInv, RequestsCounted, Held, Pending, CountSettled
    <2> QED BY <2>2, <2>3, <2>4, <2>5, SettleInv DEF CanProcess
<1>5. ASSUME NEW token \in Token, NEW amount \in 1..MaxAmount, Withdraw(token, amount)
      PROVE  DepositInv'
    BY <1>5 DEF Withdraw, DepositInv, NoncesPassed, RequestsCounted, SettledOnce, Held, Pending
<1>6. ASSUME NEW g \in Gateway, NEW tokenIn, NEW amount, NEW pulled, NEW tokenOut, NEW delta, NEW rescue,
             SettleGatewayExecuted(g, tokenIn, amount, pulled, tokenOut, delta, rescue)
      PROVE  DepositInv'
    <2> DEFINE id == ComputeRequestId(g, tokenOut, delta, depositNonces[g], GatewayNote(tokenOut, delta))
    <2>1. id.depositor = g /\ id.nonce = depositNonces[g]
        BY DEF ComputeRequestId
    <2>2. Record(id, rescue) /\ processedDeposits' = processedDeposits
        BY <1>6 DEF SettleGatewayExecuted
    <2> HIDE DEF id
    <2> QED BY <2>1, <2>2, RecordInv
<1>7. ASSUME NEW g \in Gateway, NEW tokenIn, NEW amount, NEW rescue,
             SettleGatewayFallback(g, tokenIn, amount, rescue)
      PROVE  DepositInv'
    <2> DEFINE id == ComputeRequestId(g, tokenIn, amount, depositNonces[g], GatewayNote(tokenIn, amount))
    <2>1. id.depositor = g /\ id.nonce = depositNonces[g]
        BY DEF ComputeRequestId
    <2>2. Record(id, rescue) /\ processedDeposits' = processedDeposits
        BY <1>7 DEF SettleGatewayFallback
    <2> HIDE DEF id
    <2> QED BY <2>1, <2>2, RecordInv
<1>8. CASE Mine
    <2>1. Pending' = Pending
        BY <1>8 DEF Mine, Pending
    <2> QED BY <1>8, <2>1 DEF Mine, DepositInv, NoncesPassed, RequestsCounted, SettledOnce, Held
<1>9. CASE UNCHANGED vars
    BY <1>9 DEF vars, DepositInv, NoncesPassed, RequestsCounted, SettledOnce, Held, Pending
<1>10. CASE Spend
    BY <1>5, <1>6, <1>7, <1>10 DEF Spend
<1> QED BY <1>1, <1>2, <1>3, <1>4, <1>8, <1>9, <1>10 DEF Next

-----------------------------------------------------------------------------
(* The theorems.                                                           *)

(* Requests are counted under nonces their depositors have passed, however *)
(* requests, epochs, cancellations and rescues follow each other.          *)
THEOREM DepositInvariant == Spec => []DepositInv
BY DepositInvInit, DepositInvNext, PTL DEF Spec

(* A request is credited or paid back at most once (the processed flag and *)
(* the deletion of its record, LibDeposit and LibGateway), and exactly the *)
(* requests that are not held any more have been.                          *)
THEOREM EachRequestSettledOnce == Spec => []SettledOnce
<1>1. DepositInv => SettledOnce
    BY DEF DepositInv
<1> QED BY <1>1, DepositInvariant, PTL
-----------------------------------------------------------------------------
(* Money.  Amounts of requests and values of notes as functions to add up. *)

Amount == [id \in RequestId |-> id.amount]

Values(notes) == [i \in DOMAIN notes |-> notes[i].value]

Places(notes, t) == {i \in DOMAIN notes : notes[i].token = t}

InToken(D, t) == {id \in D : id.token = t}

(* The amounts are numbers.                                                *)
LEMMA AmountsAreNumbers == ASSUME NEW id \in RequestId PROVE Amount[id] = id.amount /\ id.amount \in Int
BY AmountAssumption DEF Amount, RequestId

(* The fold of the community modules is the sum.                           *)
LEMMA AmountsAddUp ==
    ASSUME NEW S \in SUBSET RequestId, IsFiniteSet(S)
    PROVE  MapThenSumSet(LAMBDA id : id.amount, S) = Total(Amount, S)
<1> DEFINE body(g) == [T \in SUBSET S |->
                            IF T = {} THEN 0
                            ELSE LET x == CHOOSE x \in T : TRUE IN x.amount + g[T \ {x}]]
           iter == CHOOSE g : g = body(g)
<1>1. MapThenSumSet(LAMBDA id : id.amount, S) = iter[S]
    BY DEF MapThenSumSet, MapThenFoldSet
<1>2. ASSUME NEW g PROVE IsSum(g, Amount, S) <=> g = body(g)
    <2>1. ASSUME NEW T \in SUBSET S, T # {} PROVE Amount[OneOf(T)] = OneOf(T).amount
        BY <2>1, OneOfIsElement DEF Amount
    <2> QED BY <2>1 DEF IsSum, OneOf
<1>3. IsSum(iter, Amount, S)
    <2>1. SumOfSubsets(Amount, S) = body(SumOfSubsets(Amount, S))
        BY <1>2, SumExists
    <2>2. iter = body(iter)
        <3> HIDE DEF body
        <3> QED BY <2>1
    <2> HIDE DEF body, iter
    <2> QED BY <1>2, <2>2
<1>4. iter[S] = Total(Amount, S)
    <2> HIDE DEF iter
    <2> QED BY <1>3, SumExists, SumUnique DEF Total
<1> QED BY <1>1, <1>4

(* And so it is for the notes of a list.                                   *)
LEMMA ValuesAddUp ==
    ASSUME NEW notes, NEW S \in SUBSET DOMAIN notes, IsFiniteSet(S)
    PROVE  MapThenSumSet(LAMBDA i : notes[i].value, S) = Total(Values(notes), S)
<1> DEFINE body(g) == [T \in SUBSET S |->
                            IF T = {} THEN 0
                            ELSE LET x == CHOOSE x \in T : TRUE IN notes[x].value + g[T \ {x}]]
           iter == CHOOSE g : g = body(g)
<1>1. MapThenSumSet(LAMBDA i : notes[i].value, S) = iter[S]
    BY DEF MapThenSumSet, MapThenFoldSet
<1>2. ASSUME NEW g PROVE IsSum(g, Values(notes), S) <=> g = body(g)
    <2>1. ASSUME NEW T \in SUBSET S, T # {} PROVE Values(notes)[OneOf(T)] = notes[OneOf(T)].value
        BY <2>1, OneOfIsElement DEF Values
    <2> QED BY <2>1 DEF IsSum, OneOf
<1>3. IsSum(iter, Values(notes), S)
    <2>1. SumOfSubsets(Values(notes), S) = body(SumOfSubsets(Values(notes), S))
        BY <1>2, SumExists
    <2>2. iter = body(iter)
        <3> HIDE DEF body
        <3> QED BY <2>1
    <2> HIDE DEF body, iter
    <2> QED BY <1>2, <2>2
<1>4. iter[S] = Total(Values(notes), S)
    <2> HIDE DEF iter
    <2> QED BY <1>3, SumExists, SumUnique DEF Total
<1> QED BY <1>1, <1>4

(* What a list holds of a token is a sum over places, of numbers.          *)
LEMMA ValueInPlaces ==
    ASSUME NEW notes \in Seq(Note), NEW t
    PROVE  /\ IsFiniteSet(Places(notes, t))
           /\ ValueIn(notes, t) = Total(Values(notes), Places(notes, t))
           /\ \A i \in DOMAIN notes : Values(notes)[i] = notes[i].value /\ notes[i].value \in Int
<1>1. IsFiniteSet(DOMAIN notes)
    <2>1. DOMAIN notes = 1..Len(notes) /\ Len(notes) \in Nat
        OBVIOUS
    <2> QED BY <2>1, FS_Interval
<1>2. IsFiniteSet(Places(notes, t)) /\ Places(notes, t) \in SUBSET DOMAIN notes
    BY <1>1, FS_Subset DEF Places
<1>3. ValueIn(notes, t) = Total(Values(notes), Places(notes, t))
    BY <1>2, ValuesAddUp DEF ValueIn, Places
<1>4. \A i \in DOMAIN notes : Values(notes)[i] = notes[i].value /\ notes[i].value \in Int
    <2> SUFFICES ASSUME NEW i \in DOMAIN notes PROVE Values(notes)[i] = notes[i].value /\ notes[i].value \in Int
        OBVIOUS
    <2>1. notes[i] \in Note
        OBVIOUS
    <2>2. notes[i].value \in Int
        BY <2>1, AmountAssumption DEF Note
    <2> QED BY <2>2 DEF Values
<1> QED BY <1>2, <1>3, <1>4

(* Two lists, one behind the other.                                        *)
LEMMA ConcatValue ==
    ASSUME NEW notes \in Seq(Note), NEW more \in Seq(Note), NEW t
    PROVE  ValueIn(notes \o more, t) = ValueIn(notes, t) + ValueIn(more, t)
<1> DEFINE both == notes \o more
           shift == [i \in DOMAIN more |-> Len(notes) + i]
           A == Places(notes, t)
           B == Places(more, t)
           C == {shift[i] : i \in B}
<1>1. /\ both \in Seq(Note)
      /\ Len(both) = Len(notes) + Len(more)
      /\ \A i \in DOMAIN notes : i \in DOMAIN both /\ both[i] = notes[i]
      /\ \A i \in DOMAIN more : shift[i] \in DOMAIN both /\ both[shift[i]] = more[i]
    OBVIOUS
<1>2. Places(both, t) = A \cup C
    <2>1. \A j \in DOMAIN both : j \in DOMAIN notes \/ \E i \in DOMAIN more : j = shift[i]
        <3> SUFFICES ASSUME NEW j \in DOMAIN both, j \notin DOMAIN notes
                     PROVE  \E i \in DOMAIN more : j = shift[i]
            OBVIOUS
        <3>1. j - Len(notes) \in DOMAIN more /\ j = shift[j - Len(notes)]
            BY <1>1
        <3> QED BY <3>1
    <2> HIDE DEF both, shift
    <2> QED BY <1>1, <2>1 DEF Places
<1>3. A \cap C = {}
    BY DEF Places
<1>4. /\ IsFiniteSet(A) /\ IsFiniteSet(B)
      /\ ValueIn(both, t) = Total(Values(both), Places(both, t))
      /\ ValueIn(notes, t) = Total(Values(notes), A)
      /\ ValueIn(more, t) = Total(Values(more), B)
      /\ \A i \in DOMAIN both : Values(both)[i] = both[i].value /\ both[i].value \in Int
      /\ \A i \in DOMAIN notes : Values(notes)[i] = notes[i].value
      /\ \A i \in DOMAIN more : Values(more)[i] = more[i].value
    BY <1>1, ValueInPlaces
<1>5. A \subseteq DOMAIN notes /\ B \subseteq DOMAIN more
    BY DEF Places
<1>6. Total(Values(both), A) = Total(Values(notes), A)
    <2>1. \A i \in A : Values(both)[i] = Values(notes)[i]
        BY <1>1, <1>4, <1>5
    <2> QED BY <1>4, <2>1, TotalSame
<1>7. IsFiniteSet(C) /\ Total(Values(both), C) = Total(Values(more), B)
    <2>1. \A i \in B : Values(both)[shift[i]] = Values(more)[i] /\ Values(more)[i] \in Int
        <3> HIDE DEF both, shift
        <3> QED BY <1>1, <1>4, <1>5
    <2>2. \A i, j \in B : shift[i] = shift[j] => i = j
        BY <1>5
    <2> DEFINE f == Values(both)
               g == Values(more)
    <2>3. IsFiniteSet({shift[i] : i \in B}) /\ Total(f, {shift[i] : i \in B}) = Total(g, B)
        <3> HIDE DEF both, shift, B, f, g
        <3>1. IsFiniteSet(B)
            BY <1>4
        <3>2. \A i \in B : f[shift[i]] = g[i] /\ g[i] \in Int
            BY <2>1 DEF f, g
        <3> QED BY <2>2, <3>1, <3>2, TotalRenamed
    <2> QED BY <2>3
<1>8. Total(Values(both), A \cup C) = Total(Values(both), A) + Total(Values(both), C)
    <2>1. \A i \in A \cup C : Values(both)[i] \in Int
        <3> HIDE DEF both, shift
        <3> QED BY <1>1, <1>4, <1>5
    <2> HIDE DEF both, A, C
    <2> QED BY <1>3, <1>4, <1>7, <2>1, TotalUnion
<1> HIDE DEF both, A, B, C
<1>9. ValueIn(both, t) = Total(Values(both), A) + Total(Values(both), C)
    BY <1>2, <1>4, <1>8, Zenon
<1>10. ValueIn(both, t) = ValueIn(notes, t) + ValueIn(more, t)
    BY <1>4, <1>6, <1>7, <1>9, Zenon
<1> QED BY <1>10 DEF both

(* FlattenSeq puts the lists one behind the other.                         *)
LEMMA Flattened ==
    ASSUME NEW seqs \in Seq(Seq(Note)), seqs # <<>>
    PROVE  \E f \in [1..Len(seqs) -> Seq(Note)] :
                /\ FlattenSeq(seqs) = f[Len(seqs)]
                /\ f[1] = seqs[1]
                /\ \A i \in 2..Len(seqs) : f[i] = f[i - 1] \o seqs[i]
<1> DEFINE flatten == CHOOSE f : Joins(Len(seqs), f, seqs)
<1>1. Len(seqs) \in Nat /\ Len(seqs) # 0 /\ 1 \in 1..Len(seqs)
    OBVIOUS
<1>4. flatten = [i \in 1..Len(seqs) |-> IF i = 1 THEN seqs[i] ELSE flatten[i - 1] \o seqs[i]]
    <2>1. Joins(Len(seqs), flatten, seqs)
        <3>1. PICK n \in Nat : n = Len(seqs)
            BY <1>1
        <3> QED BY <3>1, JoinsExists
    <2> HIDE DEF flatten
    <2> QED BY <2>1 DEF Joins
<1>5. FlattenSeq(seqs) = flatten[Len(seqs)]
    BY <1>1 DEF FlattenSeq, Joins
<1> HIDE DEF flatten
<1>6. /\ flatten = [i \in 1..Len(seqs) |-> flatten[i]]
      /\ flatten[1] = seqs[1]
      /\ \A i \in 2..Len(seqs) : flatten[i] = flatten[i - 1] \o seqs[i]
    <2>1. flatten[1] = seqs[1]
        BY <1>1, <1>4
    <2>2. ASSUME NEW i \in 2..Len(seqs) PROVE flatten[i] = flatten[i - 1] \o seqs[i]
        <3>1. i \in 1..Len(seqs) /\ i # 1
            BY <1>1
        <3> QED BY <1>4, <3>1
    <2>3. flatten = [i \in 1..Len(seqs) |-> flatten[i]]
        BY <1>4
    <2> QED BY <2>1, <2>2, <2>3
<1>7. \A i \in 1..Len(seqs) : flatten[i] \in Seq(Note)
    <2> DEFINE Typed == {n \in Nat : n \in 1..Len(seqs) => flatten[n] \in Seq(Note)}
    <2>1. 0 \in Typed
        OBVIOUS
    <2>2. ASSUME NEW n \in Nat, n \in Typed PROVE n + 1 \in Typed
        <3> SUFFICES ASSUME n + 1 \in 1..Len(seqs) PROVE flatten[n + 1] \in Seq(Note)
            OBVIOUS
        <3>0. seqs[n + 1] \in Seq(Note)
            OBVIOUS
        <3>1. CASE n = 0
            BY <1>6, <3>0, <3>1
        <3>2. CASE n # 0
            <4>1. n \in 1..Len(seqs) /\ n + 1 \in 2..Len(seqs) /\ (n + 1) - 1 = n
                BY <1>1, <3>2
            <4>2. flatten[n] \in Seq(Note) /\ flatten[n + 1] = flatten[n] \o seqs[n + 1]
                BY <1>6, <2>2, <4>1
            <4> QED BY <3>0, <4>2
        <3> QED BY <3>1, <3>2
    <2> HIDE DEF Typed
    <2>3. \A n \in Nat : n \in Typed
        BY <2>1, <2>2, NatSetInduction
    <2> QED BY <1>1, <2>3 DEF Typed
<1>8. flatten \in [1..Len(seqs) -> Seq(Note)]
    BY <1>6, <1>7
<1> QED BY <1>5, <1>6, <1>8

(* Batches are lists.                                                      *)
LEMMA BatchesAreLists == ASSUME NEW S, NEW b \in Batch(S) PROVE b \in Seq(S) /\ b # <<>>
BY BatchAssumption DEF Batch, BoundedSeq, SeqOf

(* The notes of one request are worth its amount in its token, and nothing *)
(* in any other.                                                           *)
LEMMA RequestValue ==
    ASSUME NEW notes \in Seq(Note), NEW token, NEW t,
           \A i \in DOMAIN notes : notes[i].token = token
    PROVE  ValueIn(notes, t) = IF token = t THEN SumValues(notes) ELSE 0
<1>1. CASE token = t
    <2>1. {i \in DOMAIN notes : notes[i].token = t} = DOMAIN notes
        BY <1>1
    <2> QED BY <1>1, <2>1 DEF ValueIn, SumValues
<1>2. CASE token # t
    <2>1. Places(notes, t) = {}
        BY <1>2 DEF Places
    <2>2. ValueIn(notes, t) = Total(Values(notes), Places(notes, t))
        BY ValueInPlaces
    <2>3. ValueIn(notes, t) = 0
        BY <2>1, <2>2, TotalEmpty, Zenon
    <2> QED BY <1>2, <2>3
<1> QED BY <1>1, <1>2

(* One request more.                                                       *)
LEMMA OneMore ==
    ASSUME NEW D \in SUBSET RequestId, IsFiniteSet(D), NEW id \in RequestId, id \notin D, NEW t
    PROVE  Total(Amount, InToken(D \cup {id}, t))
                = Total(Amount, InToken(D, t)) + IF id.token = t THEN id.amount ELSE 0
<1>1. IsFiniteSet(InToken(D, t)) /\ InToken(D, t) \subseteq D
    BY FS_Subset DEF InToken
<1>2. \A d \in InToken(D, t) : Amount[d] \in Int
    BY <1>1, AmountsAreNumbers
<1>3. CASE id.token = t
    <2>1. InToken(D \cup {id}, t) = InToken(D, t) \cup {id} /\ id \notin InToken(D, t)
        BY <1>3 DEF InToken
    <2>2. Total(Amount, InToken(D, t) \cup {id}) = Total(Amount, InToken(D, t)) + Amount[id]
        BY <1>1, <1>2, <2>1, AmountsAreNumbers, TotalAdd
    <2>3. Total(Amount, InToken(D \cup {id}, t)) = Total(Amount, InToken(D, t)) + id.amount
        BY <2>1, <2>2, AmountsAreNumbers, Zenon
    <2> QED BY <1>3, <2>3
<1>4. CASE id.token # t
    <2>1. InToken(D \cup {id}, t) = InToken(D, t)
        BY <1>4 DEF InToken
    <2>2. Total(Amount, InToken(D, t)) \in Int
        BY <1>1, <1>2, TotalInt
    <2>3. Total(Amount, InToken(D \cup {id}, t)) = Total(Amount, InToken(D, t))
        BY <2>1, Zenon
    <2> QED BY <1>4, <2>2, <2>3
<1> QED BY <1>3, <1>4

(* The circuit and the slices of the contract together: an epoch credits,  *)
(* of each token, exactly what its requests are for.                       *)
THEOREM EpochCreditsAmounts ==
    ASSUME NEW deposits \in Seq(RequestId), deposits # <<>>,
           \A r, s \in DOMAIN deposits : deposits[r] = deposits[s] => r = s,
           DepositCircuit(deposits),
           NEW outputs, OutputsMatch(deposits, outputs), NEW t
    PROVE  ValueIn(outputs, t) = Total(Amount, InToken(ToSet(deposits), t))
<1> DEFINE seqs == [r \in DOMAIN deposits |-> deposits[r].commitments]
           N == Len(deposits)
           First(n) == {deposits[r] : r \in 1..n}
           Owed(n) == Total(Amount, InToken(First(n), t))
<1>1. /\ N \in Nat /\ N # 0 /\ DOMAIN deposits = 1..N
      /\ \A r \in 1..N : deposits[r] \in RequestId /\ deposits[r].commitments \in Seq(Note)
    <2>1. ASSUME NEW r \in 1..N PROVE deposits[r].commitments \in Seq(Note)
        <3>1. deposits[r] \in RequestId
            OBVIOUS
        <3>2. deposits[r].commitments \in Batch(Note)
            BY <3>1 DEF RequestId
        <3> QED BY <3>2, BatchesAreLists
    <2> QED BY <2>1
<1>2. seqs \in Seq(Seq(Note)) /\ Len(seqs) = N /\ seqs # <<>>
    BY <1>1
<1>3. PICK f \in [1..N -> Seq(Note)] :
                /\ outputs = f[N]
                /\ f[1] = seqs[1]
                /\ \A i \in 2..N : f[i] = f[i - 1] \o seqs[i]
    <2> HIDE DEF seqs, N
    <2>1. PICK f \in [1..Len(seqs) -> Seq(Note)] :
                /\ FlattenSeq(seqs) = f[Len(seqs)]
                /\ f[1] = seqs[1]
                /\ \A i \in 2..Len(seqs) : f[i] = f[i - 1] \o seqs[i]
        BY <1>2, Flattened, Zenon
    <2>2. outputs = FlattenSeq(seqs)
        BY DEF OutputsMatch, seqs
    <2> QED BY <1>2, <2>1, <2>2
<1>4. ASSUME NEW n \in Nat, n + 1 \in 1..N
      PROVE  /\ First(n) \in SUBSET RequestId /\ IsFiniteSet(First(n))
             /\ Owed(n) \in Int
             /\ Owed(n + 1) = Owed(n) + ValueIn(seqs[n + 1], t)
    <2> DEFINE id == deposits[n + 1]
    <2>1. id \in RequestId /\ id.commitments \in Seq(Note)
        BY <1>1, <1>4
    <2>2. First(n) \in SUBSET RequestId /\ id \notin First(n)
        <3>1. \A r \in 1..n : r \in 1..N /\ r # n + 1
            BY <1>1, <1>4
        <3>2. \A r \in 1..n : deposits[r] \in RequestId /\ deposits[r] # id
            BY <1>1, <1>4, <3>1
        <3> QED BY <3>2
    <2>3. IsFiniteSet(First(n))
        <3>1. IsFiniteSet(1..n)
            BY FS_Interval
        <3> DEFINE name == [r \in 1..n |-> deposits[r]]
        <3>2. name \in Surjection(1..n, First(n))
            BY DEF Surjection
        <3> HIDE DEF name, First
        <3> QED BY <3>1, <3>2, FS_Surjection
    <2>4. First(n + 1) = First(n) \cup {id}
        <3>1. 1..n + 1 = 1..n \cup {n + 1}
            OBVIOUS
        <3> QED BY <3>1
    <2>5. ValueIn(seqs[n + 1], t) = IF id.token = t THEN id.amount ELSE 0
        <3>1. n + 1 \in DOMAIN deposits
            BY <1>1, <1>4
        <3>2. /\ \A i \in DOMAIN id.commitments : id.commitments[i].token = id.token
              /\ SumValues(id.commitments) = id.amount
            BY <3>1 DEF DepositCircuit
        <3>3. ValueIn(id.commitments, t) = IF id.token = t THEN SumValues(id.commitments) ELSE 0
            <4> HIDE DEF id
            <4> QED BY <2>1, <3>2, RequestValue
        <3>4. seqs[n + 1] = id.commitments
            BY <3>1
        <3> HIDE DEF id, seqs
        <3> QED BY <3>2, <3>3, <3>4
    <2>6. Total(Amount, InToken(First(n) \cup {id}, t)) = Owed(n) + IF id.token = t THEN id.amount ELSE 0
        <3> HIDE DEF id, First
        <3> QED BY <2>1, <2>2, <2>3, OneMore
    <2>7. Owed(n + 1) = Owed(n) + ValueIn(seqs[n + 1], t)
        <3> HIDE DEF id, First, seqs
        <3> QED BY <2>4, <2>5, <2>6, Zenon
    <2>8. Owed(n) \in Int
        <3> HIDE DEF First
        <3>1. IsFiniteSet(InToken(First(n), t)) /\ \A d \in InToken(First(n), t) : d \in RequestId
            BY <2>2, <2>3, FS_Subset DEF InToken
        <3> QED BY <3>1, AmountsAreNumbers, TotalInt
    <2> QED BY <2>2, <2>3, <2>7, <2>8
<1>5. Owed(0) = 0
    <2>1. InToken(First(0), t) = {}
        BY DEF InToken
    <2> QED BY <2>1, TotalEmpty, Zenon
<1> HIDE DEF seqs, N, First, Owed
<1>6. \A n \in 1..N : seqs[n] \in Seq(Note) /\ ValueIn(seqs[n], t) \in Int
    <2> SUFFICES ASSUME NEW n \in 1..N PROVE seqs[n] \in Seq(Note) /\ ValueIn(seqs[n], t) \in Int
        OBVIOUS
    <2>1. seqs[n] \in Seq(Note)
        BY <1>2
    <2>2. \A i \in Places(seqs[n], t) : Values(seqs[n])[i] \in Int
        BY <2>1, ValueInPlaces DEF Places
    <2> QED BY <2>1, <2>2, ValueInPlaces, TotalInt
<1>7. \A n \in 1..N : ValueIn(f[n], t) = Owed(n)
    <2> DEFINE Good == {n \in Nat : n \in 1..N => ValueIn(f[n], t) = Owed(n)}
    <2>1. 0 \in Good
        OBVIOUS
    <2>2. ASSUME NEW n \in Nat, n \in Good PROVE n + 1 \in Good
        <3> SUFFICES ASSUME n + 1 \in 1..N PROVE ValueIn(f[n + 1], t) = Owed(n + 1)
            OBVIOUS
        <3>1. Owed(n + 1) = Owed(n) + ValueIn(seqs[n + 1], t)
            BY <1>4
        <3>2. CASE n = 0
            BY <1>3, <1>5, <1>6, <3>1, <3>2
        <3>3. CASE n # 0
            <4>1. n \in 1..N /\ n + 1 \in 2..N /\ (n + 1) - 1 = n
                BY <1>1, <3>3
            <4>2. f[n + 1] = f[n] \o seqs[n + 1] /\ f[n] \in Seq(Note) /\ ValueIn(f[n], t) = Owed(n)
                BY <1>3, <2>2, <4>1
            <4>3. ValueIn(f[n] \o seqs[n + 1], t) = ValueIn(f[n], t) + ValueIn(seqs[n + 1], t)
                BY <1>6, <4>2, ConcatValue
            <4> QED BY <3>1, <4>2, <4>3, Zenon
        <3> QED BY <3>2, <3>3
    <2> HIDE DEF Good
    <2>3. \A n \in Nat : n \in Good
        BY <2>1, <2>2, NatSetInduction
    <2> QED BY <1>1, <2>3 DEF Good
<1>8. ValueIn(outputs, t) = Owed(N)
    BY <1>1, <1>3, <1>7
<1>9. First(N) = ToSet(deposits)
    BY <1>1 DEF First, ToSet
<1> QED BY <1>8, <1>9, Zenon DEF Owed

-----------------------------------------------------------------------------
(* The funds.  The records are requests, finitely many of them, and their  *)
(* amounts are what the pool holds beside the notes.                       *)

Owed(t) == Total(Amount, InToken(Held, t))

MoneyTyped ==
    /\ balance \in [Token -> Int]
    /\ shielded \in [Token -> Int]
    /\ Pending \subseteq RequestId
    /\ IsFiniteSet(Pending)

FundsInv ==
    /\ DepositInv
    /\ MoneyTyped
    /\ FundsCovered

(* What is owed for some of the requests is a number.                      *)
LEMMA OwedIsNumber ==
    ASSUME NEW D \in SUBSET RequestId, IsFiniteSet(D), NEW t
    PROVE  IsFiniteSet(InToken(D, t)) /\ Total(Amount, InToken(D, t)) \in Int
<1>1. IsFiniteSet(InToken(D, t)) /\ \A d \in InToken(D, t) : Amount[d] \in Int
    BY FS_Subset, AmountsAreNumbers DEF InToken
<1> QED BY <1>1, TotalInt

(* And not less than nothing.                                              *)
LEMMA OwedIsNotNegative ==
    ASSUME NEW D \in SUBSET RequestId, IsFiniteSet(D), NEW t
    PROVE  Total(Amount, InToken(D, t)) >= 0
<1>1. IsFiniteSet(InToken(D, t)) /\ \A d \in InToken(D, t) : Amount[d] \in Nat
    <2>1. \A d \in RequestId : Amount[d] \in Nat
        BY AmountAssumption DEF Amount, RequestId
    <2> QED BY <2>1, FS_Subset DEF InToken
<1> QED BY <1>1, TotalNat

(* The sum that FundsCovered speaks of.                                    *)
LEMMA AmountIsOwed ==
    ASSUME NEW D \in SUBSET RequestId, IsFiniteSet(D), NEW t
    PROVE  AmountIn(D, t) = Total(Amount, InToken(D, t))
<1>1. IsFiniteSet(InToken(D, t)) /\ InToken(D, t) \in SUBSET RequestId
    BY FS_Subset DEF InToken
<1>2. MapThenSumSet(LAMBDA id : id.amount, InToken(D, t)) = Total(Amount, InToken(D, t))
    BY <1>1, AmountsAddUp
<1> QED BY <1>2 DEF AmountIn, InToken

(* What is held is finite and a set of requests, and owed in full.         *)
LEMMA HeldIsOwed ==
    ASSUME MoneyTyped, NEW t
    PROVE  /\ Held \in SUBSET RequestId /\ IsFiniteSet(Held)
           /\ Owed(t) \in Int /\ AmountIn(Held, t) = Owed(t)
<1>1. Held \in SUBSET RequestId /\ IsFiniteSet(Held)
    BY FS_Subset DEF MoneyTyped, Held
<1> QED BY <1>1, OwedIsNumber, AmountIsOwed DEF Owed

(* Balances, notes and requests move together, or not at all.              *)
LEMMA FundsMove ==
    ASSUME MoneyTyped, FundsCovered, MoneyTyped',
           \A t \in Token : balance'[t] - shielded'[t] - Owed(t)' = balance[t] - shielded[t] - Owed(t)
    PROVE  FundsCovered'
<1> SUFFICES ASSUME NEW t \in Token
             PROVE  balance'[t] = shielded'[t] + AmountIn(Held', t)
    BY DEF FundsCovered
<1>1. Owed(t) \in Int /\ balance[t] = shielded[t] + Owed(t)
    BY HeldIsOwed DEF FundsCovered
<1>2. Held' \in SUBSET RequestId /\ IsFiniteSet(Held')
    BY FS_Subset DEF MoneyTyped, Held
<1>3. Owed(t)' \in Int /\ AmountIn(Held', t) = Owed(t)'
    BY <1>2, OwedIsNumber, AmountIsOwed DEF Owed
<1>4. balance[t] \in Int /\ shielded[t] \in Int /\ balance'[t] \in Int /\ shielded'[t] \in Int
    BY DEF MoneyTyped
<1> QED BY <1>1, <1>3, <1>4

(* One request is owed its amount.                                         *)
LEMMA SingleAmount ==
    ASSUME NEW id \in RequestId, NEW t
    PROVE  Total(Amount, InToken({id}, t)) = IF id.token = t THEN id.amount ELSE 0
<1>1. Total(Amount, InToken({} \cup {id}, t))
            = Total(Amount, InToken({}, t)) + IF id.token = t THEN id.amount ELSE 0
    BY OneMore, FS_EmptySet
<1>2. InToken({}, t) = {} /\ {} \cup {id} = {id}
    BY DEF InToken
<1>3. Total(Amount, InToken({}, t)) = 0
    BY <1>2, TotalEmpty, Zenon
<1>4. Total(Amount, InToken({id}, t)) = 0 + IF id.token = t THEN id.amount ELSE 0
    BY <1>1, <1>2, <1>3, Zenon
<1> QED BY <1>4, AmountsAreNumbers

(* Requests that are settled are not owed any more.                        *)
LEMMA SettledIsNotOwed ==
    ASSUME MoneyTyped, NEW D \in SUBSET Held, Held' = Held \ D
    PROVE  \A t : /\ Total(Amount, InToken(D, t)) \in Int
                  /\ Owed(t)' = Owed(t) - Total(Amount, InToken(D, t))
<1> SUFFICES ASSUME NEW t
             PROVE  /\ Total(Amount, InToken(D, t)) \in Int
                    /\ Owed(t)' = Owed(t) - Total(Amount, InToken(D, t))
    OBVIOUS
<1>1. Held \in SUBSET RequestId /\ IsFiniteSet(Held)
    BY HeldIsOwed
<1>2. /\ D \in SUBSET RequestId /\ IsFiniteSet(D)
      /\ Held \ D \in SUBSET RequestId /\ IsFiniteSet(Held \ D)
    BY <1>1, FS_Subset
<1>3. /\ IsFiniteSet(InToken(D, t)) /\ Total(Amount, InToken(D, t)) \in Int
      /\ IsFiniteSet(InToken(Held \ D, t)) /\ Total(Amount, InToken(Held \ D, t)) \in Int
    BY <1>2, OwedIsNumber
<1>4. /\ InToken(Held, t) = InToken(Held \ D, t) \cup InToken(D, t)
      /\ InToken(Held \ D, t) \cap InToken(D, t) = {}
      /\ \A d \in InToken(Held \ D, t) \cup InToken(D, t) : Amount[d] \in Int
    BY <1>1, AmountsAreNumbers DEF InToken
<1>5. Total(Amount, InToken(Held \ D, t) \cup InToken(D, t))
            = Total(Amount, InToken(Held \ D, t)) + Total(Amount, InToken(D, t))
    BY <1>3, <1>4, TotalUnion
<1>6. Owed(t) = Total(Amount, InToken(Held \ D, t)) + Total(Amount, InToken(D, t))
    BY <1>4, <1>5, Zenon DEF Owed
<1>7. Owed(t)' = Total(Amount, InToken(Held \ D, t))
    BY Zenon DEF Owed
<1> QED BY <1>3, <1>6, <1>7

(* The escrow adds up in the same way.                                     *)
LEMMA EscrowValue == ASSUME NEW D, NEW t PROVE Vault!Value(D, t) = AmountIn(D, t)
BY DEF Vault!Value, Vault!MapThenSumSet, Vault!MapThenFoldSet, AmountIn, MapThenSumSet, MapThenFoldSet

(* The escrow itself keeps its funds covered.                              *)
LEMMA EscrowKeepsFunds ==
    ASSUME MoneyTyped, FundsCovered, MoneyTyped',
           [Vault!EscrowNext]_(Vault!escrowVars)
    PROVE  FundsCovered'
<1>0. Held \in SUBSET RequestId /\ IsFiniteSet(Held) /\ \A t : Owed(t) \in Int
    BY HeldIsOwed
<1>t. \A t \in Token : balance[t] \in Int /\ shielded[t] \in Int
    BY DEF MoneyTyped
<1>a. \A id \in RequestId : id.amount \in Int
    BY AmountsAreNumbers
<1>m. ASSUME NEW id \in RequestId, id \notin Held, Held' = Held \cup {id}
      PROVE  \A t : Owed(t)' = Owed(t) + IF id.token = t THEN id.amount ELSE 0
    <2> SUFFICES ASSUME NEW t PROVE Owed(t)' = Owed(t) + IF id.token = t THEN id.amount ELSE 0
        OBVIOUS
    <2>1. Total(Amount, InToken(Held \cup {id}, t))
                = Total(Amount, InToken(Held, t)) + IF id.token = t THEN id.amount ELSE 0
        BY <1>0, <1>m, OneMore
    <2> QED BY <1>m, <2>1, Zenon DEF Owed
<1>1. CASE \E d \in RequestId : Vault!Open(d)
    <2>1. PICK d \in RequestId : Vault!Open(d)
        BY <1>1
    <2>2. /\ d \notin Held /\ Held' = Held \cup {d}
          /\ balance' = [balance EXCEPT ![d.token] = @ + d.amount]
          /\ shielded' = shielded
        BY <2>1 DEF Vault!Open, Vault!Fresh
    <2>3. \A t \in Token : balance'[t] = balance[t] + IF d.token = t THEN d.amount ELSE 0
        BY <1>t, <2>2 DEF MoneyTyped
    <2>4. \A t : Owed(t)' = Owed(t) + IF d.token = t THEN d.amount ELSE 0
        BY <1>m, <2>2
    <2>5. \A t \in Token : balance'[t] - shielded'[t] - Owed(t)' = balance[t] - shielded[t] - Owed(t)
        BY <1>0, <1>t, <1>a, <2>2, <2>3, <2>4
    <2> QED BY <2>5, FundsMove
<1>2. CASE \E D \in (SUBSET Held) \ {{}} : \E paid \in Vault!Fees(D) : Vault!Credit(D, paid)
    <2>d. PICK D \in SUBSET Held : \E paid \in Vault!Fees(D) : Vault!Credit(D, paid)
        BY <1>2
    <2>1. PICK paid \in Vault!Fees(D) : Vault!Credit(D, paid)
        BY <2>d
    <2>2. /\ Held' = Held \ D
          /\ \A t \in Token : /\ shielded'[t] = shielded[t] + Vault!Value(D, t) - paid[t]
                             /\ balance'[t] = balance[t] - paid[t]
        BY <2>1 DEF Vault!Credit
    <2>3. \A t : Vault!Value(D, t) = Total(Amount, InToken(D, t))
        <3>1. D \in SUBSET RequestId /\ IsFiniteSet(D)
            BY <1>0, FS_Subset
        <3> QED BY <3>1, AmountIsOwed, EscrowValue
    <2>4. \A t : Total(Amount, InToken(D, t)) \in Int /\ Owed(t)' = Owed(t) - Total(Amount, InToken(D, t))
        BY <2>2, SettledIsNotOwed
    <2>n. \A t \in Token : paid[t] \in Int
        BY <2>3, <2>4 DEF Vault!Fees
    <2>5. \A t \in Token : balance'[t] - shielded'[t] - Owed(t)' = balance[t] - shielded[t] - Owed(t)
        BY <1>0, <1>t, <2>2, <2>3, <2>4, <2>n
    <2> QED BY <2>5, FundsMove
<1>3. CASE \E d \in Held : Vault!GiveBack(d)
    <2>1. PICK d \in Held : Vault!GiveBack(d)
        BY <1>3
    <2>2. /\ Held' = Held \ {d}
          /\ balance' = [balance EXCEPT ![d.token] = @ - d.amount]
          /\ shielded' = shielded
        BY <2>1 DEF Vault!GiveBack
    <2>3. d \in RequestId
        BY <1>0
    <2>4. \A t \in Token : balance'[t] = balance[t] - IF d.token = t THEN d.amount ELSE 0
        BY <1>t, <2>2, <1>a, <2>3 DEF MoneyTyped
    <2>5. \A t : Owed(t)' = Owed(t) - IF d.token = t THEN d.amount ELSE 0
        <3>1. \A t : Owed(t)' = Owed(t) - Total(Amount, InToken({d}, t))
            BY <2>2, SettledIsNotOwed
        <3> QED BY <2>3, <3>1, SingleAmount
    <2>6. \A t \in Token : balance'[t] - shielded'[t] - Owed(t)' = balance[t] - shielded[t] - Owed(t)
        BY <1>0, <1>t, <1>a, <2>2, <2>3, <2>4, <2>5
    <2> QED BY <2>6, FundsMove
<1>4. CASE \E t \in Token : \E v \in 1..shielded[t] : Vault!Spend(t, v)
    <2>1. PICK u \in Token : \E v \in 1..shielded[u] : Vault!Spend(u, v)
        BY <1>4
    <2>p. PICK v \in 1..shielded[u] : Vault!Spend(u, v)
        BY <2>1
    <2>2. /\ Held' = Held
          /\ balance' = [balance EXCEPT ![u] = @ - v]
          /\ shielded' = [shielded EXCEPT ![u] = @ - v]
        BY <2>p DEF Vault!Spend
    <2>3. \A t : Owed(t)' = Owed(t)
        BY <2>2, Zenon DEF Owed
    <2>4. v \in Int
        BY <1>t
    <2>5. \A t \in Token : balance'[t] - shielded'[t] = balance[t] - shielded[t]
        BY <1>t, <2>2, <2>4 DEF MoneyTyped
    <2>6. \A t \in Token : balance'[t] - shielded'[t] - Owed(t)' = balance[t] - shielded[t] - Owed(t)
        BY <2>3, <2>5
    <2> QED BY <2>6, FundsMove
<1>5. CASE \E d \in RequestId, t \in Token : \E v \in 1..shielded[t] : Vault!Redeposit(d, t, v)
    <2>1. PICK d \in RequestId, u \in Token : \E v \in 1..shielded[u] : Vault!Redeposit(d, u, v)
        BY <1>5
    <2>p. PICK v \in 1..shielded[u] : Vault!Redeposit(d, u, v)
        BY <2>1
    <2>2. /\ d \notin Held /\ Held' = Held \cup {d}
          /\ balance' = [t \in Token |->
                            (IF t = u THEN balance[t] - v ELSE balance[t])
                                + (IF t = d.token THEN d.amount ELSE 0)]
          /\ shielded' = [shielded EXCEPT ![u] = @ - v]
        BY <2>p DEF Vault!Redeposit, Vault!Fresh
    <2>3. \A t : Owed(t)' = Owed(t) + IF d.token = t THEN d.amount ELSE 0
        BY <1>m, <2>2
    <2>4. v \in Int
        BY <1>t
    <2>5. \A t \in Token : balance'[t] - shielded'[t]
                                = balance[t] - shielded[t] + IF d.token = t THEN d.amount ELSE 0
        BY <1>t, <1>a, <2>2, <2>4 DEF MoneyTyped
    <2>6. \A t \in Token : balance'[t] \in Int /\ shielded'[t] \in Int
        BY DEF MoneyTyped
    <2>7. \A t \in Token : balance'[t] - shielded'[t] - Owed(t)' = balance[t] - shielded[t] - Owed(t)
        BY <1>0, <1>t, <1>a, <2>3, <2>5, <2>6
    <2> QED BY <2>7, FundsMove
<1>6. CASE UNCHANGED Vault!escrowVars
    <2>1. Held' = Held /\ balance' = balance /\ shielded' = shielded
        BY <1>6 DEF Vault!escrowVars
    <2>2. \A t : Owed(t)' = Owed(t)
        BY <2>1, Zenon DEF Owed
    <2> QED BY <2>1, <2>2, FundsMove
<1> QED BY <1>1, <1>2, <1>3, <1>4, <1>5, <1>6 DEF Vault!EscrowNext

-----------------------------------------------------------------------------
(* The steps implement those of the escrow.                                *)

(* A gateway's deposit is one note.                                        *)
LEMMA GatewayNoteIsBatch ==
    ASSUME NEW token \in Token, NEW value \in 1..MaxAmount
    PROVE  GatewayNote(token, value) \in Batch(Note)
<1>1. [token |-> token, value |-> value] \in Note
    BY DEF Note
<1>2. GatewayNote(token, value) \in [1..1 -> Note] /\ GatewayNote(token, value) # <<>>
    BY <1>1 DEF GatewayNote
<1>3. 1 \in 0..MaxBatchSize
    BY BatchAssumption
<1> QED BY <1>2, <1>3 DEF Batch, BoundedSeq, SeqOf

(* What is asked for is a request.                                         *)
LEMMA RequestIdTyped ==
    ASSUME FundsInv, NEW a \in Account \cup Gateway, depositNonces[a] < MaxNonce,
           NEW token \in Token, NEW amount \in 1..MaxAmount, NEW commitments \in Batch(Note)
    PROVE  LET id == ComputeRequestId(a, token, amount, depositNonces[a], commitments)
           IN  id \in RequestId /\ id.depositor = a /\ id.nonce = depositNonces[a]
                    /\ id.token = token /\ id.amount = amount
<1>1. depositNonces[a] \in 0..MaxNonce - 1
    BY NonceAssumption DEF FundsInv, DepositInv, NoncesPassed
<1> QED BY <1>1 DEF RequestId, ComputeRequestId

(* A record is a new request that is held from now on.                     *)
LEMMA RecordHolds ==
    ASSUME FundsInv,
           NEW id \in RequestId, NEW rescue,
           id.depositor \in Account \cup Gateway,
           id.nonce = depositNonces[id.depositor],
           Record(id, rescue),
           processedDeposits' = processedDeposits
    PROVE  /\ id \notin Held \cup (DOMAIN settled \ Held)
           /\ Held' = Held \cup {id}
           /\ (DOMAIN settled \ Held)' = DOMAIN settled \ Held
           /\ Pending' \subseteq RequestId /\ IsFiniteSet(Pending')
<1>1. id \notin DOMAIN settled
    BY DEF FundsInv, DepositInv, NoncesPassed
<1>2. Pending \cup processedDeposits \subseteq DOMAIN settled
    BY DEF FundsInv, DepositInv, RequestsCounted
<1>3. Pending' = Pending \cup {id}
    BY DEF Record, Pending
<1>4. Held' = Held \cup {id}
    BY <1>1, <1>2, <1>3 DEF Held
<1>5. DOMAIN settled' = DOMAIN settled \cup {id}
    BY DEF Record
<1>6. (DOMAIN settled \ Held)' = DOMAIN settled \ Held
    BY <1>1, <1>4, <1>5
<1>7. Pending' \subseteq RequestId /\ IsFiniteSet(Pending')
    BY <1>3, FS_AddElement DEF FundsInv, MoneyTyped
<1> QED BY <1>1, <1>2, <1>4, <1>6, <1>7 DEF Held

(* Requests that are settled leave, and are settled.                       *)
LEMMA SettledLeave ==
    ASSUME FundsInv, NEW D \in SUBSET Held, Held' = Held \ D, DOMAIN settled' = DOMAIN settled
    PROVE  (DOMAIN settled \ Held)' = (DOMAIN settled \ Held) \cup D
<1>1. Held \subseteq DOMAIN settled
    BY DEF FundsInv, DepositInv, RequestsCounted, Held
<1> QED BY <1>1

(* A request that is taken back is given back.                             *)
LEMMA TakeBackGivesBack ==
    ASSUME FundsInv,
           NEW id \in Held,
           DeleteRecord(id),
           processedDeposits' = processedDeposits \/ processedDeposits' = processedDeposits \cup {id},
           CountSettled(<<id>>),
           balance' = [balance EXCEPT ![id.token] = @ - id.amount],
           shielded' = shielded
    PROVE  Vault!GiveBack(id) /\ MoneyTyped'
<1>1. Pending' = Pending \ {id}
    BY DEF DeleteRecord, Pending
<1>2. Held' = Held \ {id}
    BY <1>1 DEF Held
<1>3. DOMAIN settled' = DOMAIN settled
    BY DEF CountSettled
<1>4. (DOMAIN settled \ Held)' = (DOMAIN settled \ Held) \cup {id}
    BY <1>2, <1>3, SettledLeave
<1>5. Vault!GiveBack(id)
    BY <1>2, <1>4 DEF Vault!GiveBack
<1>6. Pending' \subseteq RequestId /\ IsFiniteSet(Pending')
    BY <1>1, FS_Subset DEF FundsInv, MoneyTyped
<1>7. id.amount \in Int /\ id.token \in Token
    <2>1. id \in RequestId
        BY DEF FundsInv, MoneyTyped, Held
    <2>2. id.token \in Token
        BY <2>1 DEF RequestId
    <2> QED BY <2>1, <2>2, AmountsAreNumbers
<1>8. balance' \in [Token -> Int] /\ shielded' \in [Token -> Int]
    <2>1. balance \in [Token -> Int] /\ shielded \in [Token -> Int]
        BY DEF FundsInv, MoneyTyped
    <2>2. balance[id.token] - id.amount \in Int
        BY <1>7, <2>1
    <2> QED BY <1>7, <2>1, <2>2
<1> QED BY <1>5, <1>6, <1>8 DEF MoneyTyped

(* The steps, one by one.                                                  *)
LEMMA StepImplementsEscrow ==
    ASSUME FundsInv, [Next]_vars
    PROVE  [Vault!EscrowNext]_(Vault!escrowVars) /\ MoneyTyped'
<1>t. /\ balance \in [Token -> Int] /\ shielded \in [Token -> Int]
      /\ Pending \subseteq RequestId /\ IsFiniteSet(Pending)
    BY DEF FundsInv, MoneyTyped
<1>a. 1..MaxAmount \subseteq Int
    OBVIOUS
<1>1. CASE Request
    <2>1. PICK a \in Account, token \in Token, amount \in 1..MaxAmount :
               \E commitments \in Batch(Note), received \in 0..amount :
                    RequestDeposit(a, token, amount, commitments, received)
        BY <1>1 DEF Request
    <2>2. PICK commitments \in Batch(Note), received \in 0..amount :
               RequestDeposit(a, token, amount, commitments, received)
        BY <2>1
    <2> DEFINE id == ComputeRequestId(a, token, amount, depositNonces[a], commitments)
    <2>3. /\ depositNonces[a] < MaxNonce
          /\ Record(id, NoRescue)
          /\ balance' = [balance EXCEPT ![token] = @ + amount]
          /\ processedDeposits' = processedDeposits
          /\ shielded' = shielded
        BY <2>2 DEF RequestDeposit, FullAmountReceived
    <2>4. /\ id \in RequestId /\ id.depositor = a /\ id.nonce = depositNonces[a]
          /\ id.token = token /\ id.amount = amount
        BY <2>3, RequestIdTyped
    <2> HIDE DEF id
    <2>5. /\ id \notin Held \cup (DOMAIN settled \ Held)
          /\ Held' = Held \cup {id}
          /\ (DOMAIN settled \ Held)' = DOMAIN settled \ Held
          /\ Pending' \subseteq RequestId /\ IsFiniteSet(Pending')
        BY <2>3, <2>4, RecordHolds
    <2>6. Vault!Open(id)
        BY <2>3, <2>4, <2>5 DEF Vault!Open, Vault!Fresh
    <2>7. MoneyTyped'
        BY <1>t, <1>a, <2>3, <2>5 DEF MoneyTyped
    <2> QED BY <2>4, <2>6, <2>7 DEF Vault!EscrowNext
<1>2. ASSUME NEW id \in Pending, CancelDeposit(id)
      PROVE  [Vault!EscrowNext]_(Vault!escrowVars) /\ MoneyTyped'
    <2>1. id \in Held
        BY <1>2 DEF CancelDeposit, MayCancel, Held
    <2>2. Vault!GiveBack(id) /\ MoneyTyped'
        BY <1>2, <2>1, TakeBackGivesBack DEF CancelDeposit
    <2> QED BY <2>1, <2>2 DEF Vault!EscrowNext
<1>3. ASSUME NEW id \in Pending, RescueGatewayDeposit(id)
      PROVE  [Vault!EscrowNext]_(Vault!escrowVars) /\ MoneyTyped'
    <2>1. id \in Held
        BY <1>3 DEF RescueGatewayDeposit, MayRescue, Held
    <2>2. Vault!GiveBack(id) /\ MoneyTyped'
        BY <1>3, <2>1, TakeBackGivesBack DEF RescueGatewayDeposit
    <2> QED BY <2>1, <2>2 DEF Vault!EscrowNext
<1>4. CASE Process
    <2>1. PICK deposits \in Batch(Pending), outputs \in Batch(Note) : SubmitDepositEpoch(deposits, outputs)
        BY <1>4 DEF Process
    <2> DEFINE D == ToSet(deposits)
    <2>2. /\ CanProcess(deposits) /\ OutputsMatch(deposits, outputs) /\ DepositCircuit(deposits)
          /\ processedDeposits' = processedDeposits \cup D
          /\ shielded' = [t \in Token |-> shielded[t] + ValueIn(outputs, t)]
          /\ CountSettled(deposits)
          /\ pendingDeposits' = pendingDeposits
          /\ balance' = balance
        BY <2>1 DEF SubmitDepositEpoch
    <2>3. deposits \in Seq(Pending) /\ deposits \in Seq(RequestId) /\ deposits # <<>>
        <3>1. deposits \in Seq(Pending) /\ deposits # <<>>
            BY BatchesAreLists
        <3> QED BY <1>t, <3>1
    <2>4. D \in SUBSET Held /\ D # {}
        <3>1. D \in SUBSET Held
            BY <2>2 DEF CanProcess, ToSet
        <3>2. 1 \in DOMAIN deposits
            BY <2>3
        <3> QED BY <3>1, <3>2 DEF ToSet
    <2>5. Held' = Held \ D
        BY <2>2 DEF Held, Pending
    <2>6. (DOMAIN settled \ Held)' = (DOMAIN settled \ Held) \cup D
        <3>1. DOMAIN settled' = DOMAIN settled
            BY <2>2 DEF CountSettled
        <3> HIDE DEF D
        <3> QED BY <2>4, <2>5, <3>1, SettledLeave
    <2>7. ASSUME NEW t PROVE ValueIn(outputs, t) = Total(Amount, InToken(D, t))
        BY <2>2, <2>3, EpochCreditsAmounts DEF CanProcess
    <2> HIDE DEF D
    <2>8. D \in SUBSET RequestId /\ IsFiniteSet(D)
        <3>1. Held \in SUBSET RequestId /\ IsFiniteSet(Held)
            BY HeldIsOwed DEF FundsInv
        <3> QED BY <2>4, <3>1, FS_Subset
    <2>9. \A t : Vault!Value(D, t) = Total(Amount, InToken(D, t)) /\ Total(Amount, InToken(D, t)) \in Int
        BY <2>8, AmountIsOwed, OwedIsNumber, EscrowValue
    <2>10. shielded' = [t \in Token |-> shielded[t] + Vault!Value(D, t)]
        BY <2>2, <2>7, <2>9
    <2> DEFINE none == [t \in Token |-> 0]
    <2>n. none \in Vault!Fees(D)
        <3>1. \A t \in Token : Vault!Value(D, t) \in Nat
            BY <2>8, <2>9, OwedIsNotNegative
        <3>2. \A t \in Token : none[t] = 0 /\ 0 \in 0..Vault!Value(D, t)
            BY <3>1
        <3> QED BY <3>1, <3>2 DEF Vault!Fees
    <2>11. Vault!Credit(D, none)
        <3>1. shielded' = [t \in Token |-> shielded[t] + Vault!Value(D, t) - none[t]]
            BY <1>t, <2>9, <2>10
        <3>2. balance' = [t \in Token |-> balance[t] - none[t]]
            BY <1>t, <2>2
        <3> HIDE DEF none
        <3> QED BY <2>4, <2>5, <2>6, <3>1, <3>2 DEF Vault!Credit
    <2>12. MoneyTyped'
        <3>1. Pending' = Pending
            BY <2>2 DEF Pending
        <3>2. shielded' \in [Token -> Int]
            BY <1>t, <2>9, <2>10
        <3> QED BY <1>t, <2>2, <3>1, <3>2 DEF MoneyTyped
    <2> HIDE DEF none
    <2> QED BY <2>4, <2>n, <2>11, <2>12 DEF Vault!EscrowNext
<1>5. ASSUME NEW token \in Token, NEW amount \in 1..MaxAmount, Withdraw(token, amount)
      PROVE  [Vault!EscrowNext]_(Vault!escrowVars) /\ MoneyTyped'
    <2>1. Held' = Held /\ Pending' = Pending
        BY <1>5 DEF Withdraw, Held, Pending
    <2>2. Vault!Spend(token, amount)
        BY <1>5, <2>1 DEF Withdraw, Vault!Spend
    <2>3. MoneyTyped'
        BY <1>5, <1>t, <1>a, <2>1 DEF Withdraw, MoneyTyped
    <2>4. amount \in 1..shielded[token]
        BY <1>5, <1>t DEF Withdraw
    <2> QED BY <2>2, <2>3, <2>4 DEF Vault!EscrowNext
<1>6. ASSUME NEW g \in Gateway, NEW tokenIn \in Token, NEW amount \in 1..MaxAmount, NEW pulled,
             NEW tokenOut \in Token, NEW delta \in 1..MaxAmount, NEW rescue,
             SettleGatewayExecuted(g, tokenIn, amount, pulled, tokenOut, delta, rescue)
      PROVE  [Vault!EscrowNext]_(Vault!escrowVars) /\ MoneyTyped'
    <2> DEFINE id == ComputeRequestId(g, tokenOut, delta, depositNonces[g], GatewayNote(tokenOut, delta))
    <2>1. /\ amount <= shielded[tokenIn]
          /\ tokenOut # tokenIn
          /\ depositNonces[g] < MaxNonce
          /\ Record(id, rescue)
          /\ balance' = [balance EXCEPT ![tokenIn] = @ - amount, ![tokenOut] = @ + delta]
          /\ shielded' = [shielded EXCEPT ![tokenIn] = @ - amount]
          /\ processedDeposits' = processedDeposits
        BY <1>6 DEF SettleGatewayExecuted, InputConsumed
    <2>2. /\ id \in RequestId /\ id.depositor = g /\ id.nonce = depositNonces[g]
          /\ id.token = tokenOut /\ id.amount = delta
        BY <2>1, GatewayNoteIsBatch, RequestIdTyped
    <2> HIDE DEF id
    <2>3. /\ id \notin Held \cup (DOMAIN settled \ Held)
          /\ Held' = Held \cup {id}
          /\ (DOMAIN settled \ Held)' = DOMAIN settled \ Held
          /\ Pending' \subseteq RequestId /\ IsFiniteSet(Pending')
        BY <2>1, <2>2, RecordHolds
    <2>4. balance' = [u \in Token |->
                        (IF u = tokenIn THEN balance[u] - amount ELSE balance[u])
                            + (IF u = id.token THEN id.amount ELSE 0)]
        <3>1. balance' \in [Token -> Int] /\ amount \in Int /\ delta \in Int
            BY <1>t, <1>a, <2>1
        <3>2. ASSUME NEW u \in Token
              PROVE  balance'[u] = (IF u = tokenIn THEN balance[u] - amount ELSE balance[u])
                                        + (IF u = id.token THEN id.amount ELSE 0)
            <4>1. balance[u] \in Int
                BY <1>t
            <4>2. CASE u = tokenIn
                BY <1>t, <2>1, <2>2, <3>1, <4>1, <4>2
            <4>3. CASE u = tokenOut
                BY <1>t, <2>1, <2>2, <3>1, <4>1, <4>3
            <4>4. CASE u # tokenIn /\ u # tokenOut
                BY <1>t, <2>1, <2>2, <3>1, <4>1, <4>4
            <4> QED BY <4>2, <4>3, <4>4
        <3> QED BY <3>1, <3>2
    <2>5. Vault!Redeposit(id, tokenIn, amount)
        BY <2>1, <2>3, <2>4 DEF Vault!Redeposit, Vault!Fresh
    <2>6. MoneyTyped'
        BY <1>t, <1>a, <2>1, <2>3 DEF MoneyTyped
    <2>7. amount \in 1..shielded[tokenIn]
        BY <1>t, <2>1
    <2> QED BY <2>2, <2>5, <2>6, <2>7 DEF Vault!EscrowNext
<1>7. ASSUME NEW g \in Gateway, NEW tokenIn \in Token, NEW amount \in 1..MaxAmount, NEW rescue,
             SettleGatewayFallback(g, tokenIn, amount, rescue)
      PROVE  [Vault!EscrowNext]_(Vault!escrowVars) /\ MoneyTyped'
    <2> DEFINE id == ComputeRequestId(g, tokenIn, amount, depositNonces[g], GatewayNote(tokenIn, amount))
    <2>1. /\ amount <= shielded[tokenIn]
          /\ depositNonces[g] < MaxNonce
          /\ Record(id, rescue)
          /\ shielded' = [shielded EXCEPT ![tokenIn] = @ - amount]
          /\ processedDeposits' = processedDeposits
          /\ balance' = balance
        BY <1>7 DEF SettleGatewayFallback
    <2>2. /\ id \in RequestId /\ id.depositor = g /\ id.nonce = depositNonces[g]
          /\ id.token = tokenIn /\ id.amount = amount
        BY <2>1, GatewayNoteIsBatch, RequestIdTyped
    <2> HIDE DEF id
    <2>3. /\ id \notin Held \cup (DOMAIN settled \ Held)
          /\ Held' = Held \cup {id}
          /\ (DOMAIN settled \ Held)' = DOMAIN settled \ Held
          /\ Pending' \subseteq RequestId /\ IsFiniteSet(Pending')
        BY <2>1, <2>2, RecordHolds
    <2>4. balance' = [u \in Token |->
                        (IF u = tokenIn THEN balance[u] - amount ELSE balance[u])
                            + (IF u = id.token THEN id.amount ELSE 0)]
        BY <1>t, <1>a, <2>1, <2>2
    <2>5. Vault!Redeposit(id, tokenIn, amount)
        BY <2>1, <2>3, <2>4 DEF Vault!Redeposit, Vault!Fresh
    <2>6. MoneyTyped'
        BY <1>t, <1>a, <2>1, <2>3 DEF MoneyTyped
    <2>7. amount \in 1..shielded[tokenIn]
        BY <1>t, <2>1
    <2> QED BY <2>2, <2>5, <2>6, <2>7 DEF Vault!EscrowNext
<1>8. CASE Mine
    <2>1. Pending' = Pending
        BY <1>8 DEF Mine, Pending
    <2>2. UNCHANGED Vault!escrowVars
        BY <1>8, <2>1 DEF Mine, Held, Vault!escrowVars
    <2> QED BY <1>8, <1>t, <2>1, <2>2 DEF Mine, MoneyTyped
<1>9. CASE UNCHANGED vars
    <2>1. Pending' = Pending /\ Held' = Held
        BY <1>9 DEF vars, Pending, Held
    <2>2. UNCHANGED Vault!escrowVars
        BY <1>9, <2>1 DEF vars, Vault!escrowVars
    <2> QED BY <1>9, <1>t, <2>1, <2>2 DEF vars, MoneyTyped
<1>10. CASE Spend
    BY <1>5, <1>6, <1>7, <1>10 DEF Spend
<1> QED BY <1>1, <1>2, <1>3, <1>4, <1>8, <1>9, <1>10 DEF Next

(* The invariant is inductive: the escrow's own steps keep funds covered.  *)
LEMMA FundsInvInit == Init => FundsInv
<1> SUFFICES ASSUME Init PROVE FundsInv
    OBVIOUS
<1>1. Pending = {} /\ Held = {}
    BY DEF Init, Pending, Held
<1>2. MoneyTyped
    BY <1>1, FS_EmptySet DEF Init, MoneyTyped
<1>3. ASSUME NEW t \in Token PROVE Owed(t) = 0
    <2>1. InToken(Held, t) = {}
        BY <1>1 DEF InToken
    <2> QED BY <2>1, TotalEmpty, Zenon DEF Owed
<1>4. FundsCovered
    <2>1. \A t \in Token : AmountIn(Held, t) = 0
        BY <1>2, <1>3, HeldIsOwed
    <2> QED BY <2>1 DEF Init, FundsCovered
<1> QED BY <1>2, <1>4, DepositInvInit DEF FundsInv

(* Coverage is kept because each step moves the money as the escrow does,
   and what it moves is what the pending requests change by. *)
LEMMA FundsInvNext == FundsInv /\ [Next]_vars => FundsInv'
<1> SUFFICES ASSUME FundsInv, [Next]_vars PROVE FundsInv'
    OBVIOUS
<1>1. DepositInv'
    BY DepositInvNext DEF FundsInv
<1>2. [Vault!EscrowNext]_(Vault!escrowVars) /\ MoneyTyped'
    BY StepImplementsEscrow
<1>3. FundsCovered'
    BY <1>2, EscrowKeepsFunds DEF FundsInv
<1> QED BY <1>1, <1>2, <1>3 DEF FundsInv

(* The inductive invariant of the money: types, and what DepositInv says.  *)
THEOREM FundsInvariant == Spec => []FundsInv
BY FundsInvInit, FundsInvNext, PTL DEF Spec

(* The tokens in the pool are exactly the unspent notes and the requests   *)
(* that are still held (LibDeposit, LibGateway), for every set of tokens   *)
(* and accounts, all batch sizes and amounts.                              *)
THEOREM FundsAreCovered == Spec => []FundsCovered
<1>1. FundsInv => FundsCovered
    BY DEF FundsInv
<1> QED BY <1>1, FundsInvariant, PTL

(* Requests, epochs, cancellations, rescues, withdrawals and gateways are  *)
(* steps of an escrow: what is requested is credited or given back, once   *)
(* and in full, and nothing else is paid but notes that are spent.         *)
THEOREM EscrowImplemented == Spec => ImplementsEscrow
<1>1. Init => Vault!EscrowInit
    <2>1. Init => Held = {} /\ DOMAIN settled = {}
        BY DEF Init, Held, Pending
    <2> QED BY <2>1 DEF Init, Vault!EscrowInit
<1>2. FundsInv /\ [Next]_vars => [Vault!EscrowNext]_(Vault!escrowVars)
    BY StepImplementsEscrow
<1> QED BY <1>1, <1>2, FundsInvariant, PTL DEF Spec, ImplementsEscrow, Vault!EscrowSpec
-----------------------------------------------------------------------------
(* The way out.                                                            *)

(***************************************************************************)
(* Whose request it is can be told from its record: a deposit has no       *)
(* rescue commitment, and what a gateway left has one.  The notes are      *)
(* never worth less than nothing, so that the pool holds enough for every  *)
(* request, and not only for all of them together.                         *)
(***************************************************************************)
RescueTies ==
    \A id \in Pending : id.depositor \in Account <=> pendingDeposits[id].rescueCommitment = NoRescue

NotesAreWorth == \A t \in Token : shielded[t] >= 0

WayInv == FundsInv /\ RescueTies /\ NotesAreWorth

(* A record ties its request to the one who can take it back.              *)
LEMMA RecordTies ==
    ASSUME RescueTies, NEW id, NEW rescue, Record(id, rescue),
           id.depositor \in Account <=> rescue = NoRescue
    PROVE  RescueTies'
<1>1. Pending' = Pending \cup {id}
    BY DEF Record, Pending
<1>2. /\ pendingDeposits'[id].rescueCommitment = rescue
      /\ \A d \in Pending : d # id => pendingDeposits'[d] = pendingDeposits[d]
    BY <1>1 DEF Record
<1> QED BY <1>1, <1>2 DEF RescueTies

(* Records that go leave the others as they are.                           *)
LEMMA DeletionKeepsTies ==
    ASSUME RescueTies, NEW id, DeleteRecord(id)
    PROVE  RescueTies'
<1>1. Pending' = Pending \ {id} /\ \A d \in Pending' : pendingDeposits'[d] = pendingDeposits[d]
    BY DEF DeleteRecord, Pending
<1> QED BY <1>1 DEF RescueTies

(* The escrow never gives out more than the notes are worth.               *)
LEMMA NotesStayWorth ==
    ASSUME FundsInv, NotesAreWorth, [Vault!EscrowNext]_(Vault!escrowVars)
    PROVE  NotesAreWorth'
<1>t. shielded \in [Token -> Int]
    BY DEF FundsInv, MoneyTyped
<1>1. CASE \E d \in RequestId : Vault!Open(d)
    BY <1>1 DEF Vault!Open, NotesAreWorth
<1>2. CASE \E D \in (SUBSET Held) \ {{}} : \E paid \in Vault!Fees(D) : Vault!Credit(D, paid)
    <2>1. PICK D \in SUBSET Held : \E paid \in Vault!Fees(D) : Vault!Credit(D, paid)
        BY <1>2
    <2>2. PICK paid \in Vault!Fees(D) : Vault!Credit(D, paid)
        BY <2>1
    <2>3. D \in SUBSET RequestId /\ IsFiniteSet(D)
        <3>1. Held \in SUBSET RequestId /\ IsFiniteSet(Held)
            BY HeldIsOwed DEF FundsInv
        <3> QED BY <2>1, <3>1, FS_Subset
    <2>4. \A t : Vault!Value(D, t) \in Int
        BY <2>3, AmountIsOwed, OwedIsNumber, EscrowValue
    <2>5. \A t \in Token : paid[t] \in Int /\ paid[t] <= Vault!Value(D, t)
        BY <2>4 DEF Vault!Fees
    <2>6. \A t \in Token : shielded'[t] = shielded[t] + Vault!Value(D, t) - paid[t]
        BY <2>2 DEF Vault!Credit
    <2> QED BY <1>t, <2>4, <2>5, <2>6 DEF NotesAreWorth
<1>3. CASE \E d \in Held : Vault!GiveBack(d)
    BY <1>3 DEF Vault!GiveBack, NotesAreWorth
<1>4. CASE \E t \in Token : \E v \in 1..shielded[t] : Vault!Spend(t, v)
    <2>1. PICK u \in Token : \E v \in 1..shielded[u] : Vault!Spend(u, v)
        BY <1>4
    <2>2. PICK v \in 1..shielded[u] : shielded' = [shielded EXCEPT ![u] = @ - v]
        BY <2>1 DEF Vault!Spend
    <2> QED BY <1>t, <2>2 DEF NotesAreWorth
<1>5. CASE \E d \in RequestId, t \in Token : \E v \in 1..shielded[t] : Vault!Redeposit(d, t, v)
    <2>1. PICK d \in RequestId, u \in Token : \E v \in 1..shielded[u] : Vault!Redeposit(d, u, v)
        BY <1>5
    <2>2. PICK v \in 1..shielded[u] : shielded' = [shielded EXCEPT ![u] = @ - v]
        BY <2>1 DEF Vault!Redeposit
    <2> QED BY <1>t, <2>2 DEF NotesAreWorth
<1>6. CASE UNCHANGED Vault!escrowVars
    BY <1>6 DEF Vault!escrowVars, NotesAreWorth
<1> QED BY <1>1, <1>2, <1>3, <1>4, <1>5, <1>6 DEF Vault!EscrowNext

(* What the steps do to the records.                                       *)
LEMMA TiesKept ==
    ASSUME RescueTies, [Next]_vars
    PROVE  RescueTies'
<1>1. CASE Request
    <2>1. PICK a \in Account, token \in Token, amount \in 1..MaxAmount :
               \E commitments \in Batch(Note), received \in 0..amount :
                    RequestDeposit(a, token, amount, commitments, received)
        BY <1>1 DEF Request
    <2>2. PICK commitments \in Batch(Note), received \in 0..amount :
               RequestDeposit(a, token, amount, commitments, received)
        BY <2>1
    <2> DEFINE id == ComputeRequestId(a, token, amount, depositNonces[a], commitments)
    <2>3. id.depositor = a
        BY DEF ComputeRequestId
    <2>4. Record(id, NoRescue)
        BY <2>2 DEF RequestDeposit
    <2> HIDE DEF id
    <2> QED BY <2>3, <2>4, RecordTies
<1>2. ASSUME NEW id \in Pending, CancelDeposit(id) \/ RescueGatewayDeposit(id)
      PROVE  RescueTies'
    BY <1>2, DeletionKeepsTies DEF CancelDeposit, RescueGatewayDeposit
<1>3. CASE Process
    <2>1. pendingDeposits' = pendingDeposits
        BY <1>3 DEF Process, SubmitDepositEpoch
    <2> QED BY <2>1 DEF RescueTies, Pending
<1>4. ASSUME NEW token \in Token, NEW amount \in 1..MaxAmount, Withdraw(token, amount)
      PROVE  RescueTies'
    BY <1>4 DEF Withdraw, RescueTies, Pending
<1>5. ASSUME NEW g \in Gateway, NEW tokenIn, NEW amount, NEW pulled, NEW tokenOut, NEW delta,
             NEW rescue \in RescueCommitment,
             SettleGatewayExecuted(g, tokenIn, amount, pulled, tokenOut, delta, rescue)
      PROVE  RescueTies'
    <2> DEFINE id == ComputeRequestId(g, tokenOut, delta, depositNonces[g], GatewayNote(tokenOut, delta))
    <2>1. id.depositor = g
        BY DEF ComputeRequestId
    <2>2. Record(id, rescue)
        BY <1>5 DEF SettleGatewayExecuted
    <2> HIDE DEF id
    <2> QED BY <2>1, <2>2, RecordTies, AccountAssumption, RescueAssumption
<1>6. ASSUME NEW g \in Gateway, NEW tokenIn, NEW amount, NEW rescue \in RescueCommitment,
             SettleGatewayFallback(g, tokenIn, amount, rescue)
      PROVE  RescueTies'
    <2> DEFINE id == ComputeRequestId(g, tokenIn, amount, depositNonces[g], GatewayNote(tokenIn, amount))
    <2>1. id.depositor = g
        BY DEF ComputeRequestId
    <2>2. Record(id, rescue)
        BY <1>6 DEF SettleGatewayFallback
    <2> HIDE DEF id
    <2> QED BY <2>1, <2>2, RecordTies, AccountAssumption, RescueAssumption
<1>7. CASE Mine
    <2>1. /\ Pending' = Pending
          /\ \A id \in Pending :
                pendingDeposits'[id].rescueCommitment = pendingDeposits[id].rescueCommitment
        BY <1>7 DEF Mine, Pending
    <2> QED BY <2>1 DEF RescueTies
<1>8. CASE UNCHANGED vars
    BY <1>8 DEF vars, RescueTies, Pending
<1>9. CASE Spend
    BY <1>4, <1>5, <1>6, <1>9 DEF Spend
<1> QED BY <1>1, <1>2, <1>3, <1>7, <1>8, <1>9 DEF Next

(* Both hold from the beginning on.                                        *)
LEMMA WayInvariant == Spec => []WayInv
<1>1. Init => RescueTies /\ NotesAreWorth
    BY DEF Init, RescueTies, Pending, NotesAreWorth
<1>2. WayInv /\ [Next]_vars => RescueTies' /\ NotesAreWorth'
    <2> SUFFICES ASSUME WayInv, [Next]_vars PROVE RescueTies' /\ NotesAreWorth'
        OBVIOUS
    <2>1. RescueTies'
        BY TiesKept DEF WayInv
    <2>2. [Vault!EscrowNext]_(Vault!escrowVars)
        BY StepImplementsEscrow DEF WayInv
    <2> QED BY <2>1, <2>2, NotesStayWorth DEF WayInv
<1>3. WayInv <=> FundsInv /\ RescueTies /\ NotesAreWorth
    BY DEF WayInv
<1> QED BY <1>1, <1>2, <1>3, FundsInvInit, FundsInvNext, PTL DEF Spec

(* One request is worth no more than all that are held.                    *)
LEMMA OneOfMany ==
    ASSUME MoneyTyped, NEW id \in Held
    PROVE  id.amount \in Int /\ id.amount <= AmountIn(Held, id.token)
<1> DEFINE S == InToken(Held, id.token)
<1>1. Held \in SUBSET RequestId /\ IsFiniteSet(Held) /\ AmountIn(Held, id.token) = Total(Amount, S)
    BY HeldIsOwed DEF Owed
<1>2. IsFiniteSet(S) /\ id \in S /\ S \ {id} = InToken(Held \ {id}, id.token)
    BY <1>1, FS_Subset DEF InToken
<1>3. \A d \in S : Amount[d] \in Int
    BY <1>1, AmountsAreNumbers DEF InToken
<1>4. Held \ {id} \in SUBSET RequestId /\ IsFiniteSet(Held \ {id})
    BY <1>1, FS_Subset
<1>5. Total(Amount, InToken(Held \ {id}, id.token)) >= 0
      /\ Total(Amount, InToken(Held \ {id}, id.token)) \in Int
    BY <1>4, OwedIsNotNegative, OwedIsNumber
<1>6. Amount[id] = id.amount /\ id.amount \in Int
    BY <1>1, AmountsAreNumbers
<1> HIDE DEF S
<1>7. Total(Amount, S) = Amount[id] + Total(Amount, S \ {id})
    BY <1>2, <1>3, TotalRemove
<1> QED BY <1>1, <1>2, <1>5, <1>6, <1>7

(* Of every request that is ripe there is exactly one who may take it back *)
(* (cancelDeposit for the depositor, rescueGatewayDeposit for the rescue   *)
(* authority), and the pool can pay it, whatever was paid before.          *)
THEOREM WayOutOpen == Spec => []OneWayOut
<1>1. WayInv => OneWayOut
    <2> SUFFICES ASSUME WayInv, NEW id \in Held
                 PROVE  /\ Ripe(id) => (MayCancel(id) <=> ~MayRescue(id))
                        /\ id.amount <= balance[id.token]
        BY DEF OneWayOut
    <2>1. Ripe(id) => (MayCancel(id) <=> ~MayRescue(id))
        BY DEF WayInv, RescueTies, MayCancel, MayRescue, Held
    <2>2. id.amount <= balance[id.token]
        <3>1. id.amount \in Int /\ id.amount <= AmountIn(Held, id.token)
            BY OneOfMany DEF WayInv, FundsInv
        <3>2. id.token \in Token
            BY DEF WayInv, FundsInv, MoneyTyped, Held, RequestId
        <3>3. AmountIn(Held, id.token) \in Int
            BY HeldIsOwed DEF WayInv, FundsInv
        <3>4. shielded[id.token] \in Int /\ shielded[id.token] >= 0
            BY <3>2 DEF WayInv, FundsInv, MoneyTyped, NotesAreWorth
        <3>5. balance[id.token] = shielded[id.token] + AmountIn(Held, id.token)
            BY <3>2 DEF WayInv, FundsInv, FundsCovered
        <3> QED BY <3>1, <3>3, <3>4, <3>5
    <2> QED BY <2>1, <2>2
<1> QED BY <1>1, WayInvariant, PTL

(* A request that is ripe stays so until it is settled: nothing writes its *)
(* record, and no request is made twice.                                   *)
THEOREM WayOutStaysOpen == Spec => WayOutStays
<1>1. FundsInv /\ [Next]_vars => [\A id \in Held \cap Held' : Ripe(id) => Ripe(id)']_vars
    <2> SUFFICES ASSUME FundsInv, [Next]_vars, NEW id \in Held, id \in Held', Ripe(id)
                 PROVE  pendingDeposits'[id] = pendingDeposits[id]
        BY DEF Ripe
    <2>0. id \in Pending /\ id \in Pending'
        BY DEF Held
    <2>1. ASSUME NEW d, NEW rescue, Record(d, rescue) PROVE pendingDeposits'[id] = pendingDeposits[id]
        BY <2>0, <2>1 DEF Record
    <2>2. ASSUME NEW d, DeleteRecord(d) PROVE pendingDeposits'[id] = pendingDeposits[id]
        BY <2>0, <2>2 DEF DeleteRecord, Pending
    <2>3. CASE Request
        BY <2>1, <2>3 DEF Request, RequestDeposit
    <2>4. CASE \E d \in Pending : CancelDeposit(d) \/ RescueGatewayDeposit(d)
        BY <2>2, <2>4 DEF CancelDeposit, RescueGatewayDeposit
    <2>5. CASE Process
        BY <2>5 DEF Process, SubmitDepositEpoch
    <2>6. CASE Spend
        BY <2>1, <2>6 DEF Spend, Withdraw, SettleGatewayExecuted, SettleGatewayFallback
    <2>7. CASE Mine
        BY <2>0, <2>7 DEF Mine
    <2>8. CASE UNCHANGED vars
        BY <2>8 DEF vars
    <2> QED BY <2>3, <2>4, <2>5, <2>6, <2>7, <2>8 DEF Next
<1> QED BY <1>1, FundsInvariant, PTL DEF Spec, WayOutStays
=============================================================================
