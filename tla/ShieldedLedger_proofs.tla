----------------------- MODULE ShieldedLedger_proofs -----------------------
(***************************************************************************)
(* Proofs about ShieldedLedger: for every field, set of accounts, keys,    *)
(* outputs, requests and sweeps, and all bounds, what is spent is what its *)
(* owner consented to, sweeps have notes of their own, and of each token   *)
(* there is always what there was.                                         *)
(***************************************************************************)
EXTENDS ShieldedLedger, Sums

(* A sequence, of whatever.                                                *)
IsList(s) == s \in Seq(ToSet(s))

(* The nullifier n is one of a note of the account, which is in the tree.  *)
NoteOf(account, n) ==
    /\ \E tree \in TreeNumber, key \in {NullifyingKey[b] : b \in Account} :
            \E i \in DOMAIN trees[tree] : n = Nullifier(tree, key, i)
    /\ \E r \in Randomness : trees[n[1]][n[3]].npk = NPK(MPK(account, n[2]), r)
    /\ IsSpendable(trees[n[1]][n[3]].npk)

Typed ==
    /\ DOMAIN trees = TreeNumber /\ trees = [k \in TreeNumber |-> trees[k]]
    /\ \A k \in TreeNumber : IsList(trees[k]) /\ Len(trees[k]) <= TreeCapacity
    /\ paid \in [Recipient -> [Token -> Nat]]
    /\ now \in Nat
    /\ \A leaf \in approvals :
            leaf.kind = "approval" /\ leaf.account \in Account /\ leaf.expiry \in Nat

(* What was consented to for a forced withdrawal when it was requested.    *)
Consented(request) ==
    \E c \in Consents(request.digest.account) :
        c.digest = request.digest /\ (c.expiry = 0 \/ request.at <= c.expiry)

(* A forced withdrawal outstanding is of notes of one account, which       *)
(* consented to it while its consent was in force.                         *)
AsConsented(request) ==
    /\ request.digest.kind = "forced" /\ request.digest.outs = <<>>
    /\ \E to \in Recipient, t \in Token, amount \in Nat : request.digest.payout = <<to, t, amount>>
    /\ \A n \in ToSet(request.digest.nullifiers) : NoteOf(request.digest.account, n)
    /\ request.digest.account \in Honest => Consented(request)

ForcedAsConsented == \A request \in forced : AsConsented(request)

ConsentInv == Typed /\ ForcedAsConsented

-----------------------------------------------------------------------------
(* Sequences.                                                              *)

LEMMA Lengths ==
    ASSUME NEW s, IsList(s)
    PROVE  Len(s) \in Nat /\ DOMAIN s = 1..Len(s)
BY DEF IsList

LEMMA ListOf ==
    ASSUME NEW S, NEW s \in Seq(S)
    PROVE  IsList(s) /\ ToSet(s) \subseteq S
BY DEF IsList, ToSet

LEMMA Made ==
    ASSUME NEW n \in Nat, NEW f, DOMAIN f = 1..n, f = [i \in 1..n |-> f[i]]
    PROVE  IsList(f) /\ Len(f) = n
BY DEF IsList, ToSet

(* One list behind another.                                                *)
LEMMA Joined ==
    ASSUME NEW s, IsList(s), NEW t, IsList(t)
    PROVE  /\ IsList(s \o t) /\ Len(s \o t) = Len(s) + Len(t)
           /\ ToSet(s \o t) = ToSet(s) \cup ToSet(t)
           /\ \A i \in DOMAIN s : i \in DOMAIN (s \o t) /\ (s \o t)[i] = s[i]
           /\ \A j \in DOMAIN t :
                /\ Len(s) + j \in DOMAIN (s \o t) /\ Len(s) + j \notin DOMAIN s
                /\ (s \o t)[Len(s) + j] = t[j]
<1> DEFINE S == ToSet(s) \cup ToSet(t)
<1>1. s \in Seq(S) /\ t \in Seq(S)
    BY DEF IsList
<1>2. /\ s \o t \in Seq(S)
      /\ Len(s \o t) = Len(s) + Len(t)
      /\ \A i \in 1..Len(s) + Len(t) :
            (s \o t)[i] = IF i <= Len(s) THEN s[i] ELSE t[i - Len(s)]
    BY <1>1
<1>3. /\ Len(s) \in Nat /\ DOMAIN s = 1..Len(s)
      /\ Len(t) \in Nat /\ DOMAIN t = 1..Len(t)
      /\ DOMAIN (s \o t) = 1..Len(s) + Len(t)
    BY <1>1, <1>2
<1>4. \A i \in DOMAIN s : i \in DOMAIN (s \o t) /\ (s \o t)[i] = s[i]
    BY <1>2, <1>3
<1>5. ASSUME NEW j \in DOMAIN t
      PROVE  /\ Len(s) + j \in DOMAIN (s \o t) /\ Len(s) + j \notin DOMAIN s
             /\ (s \o t)[Len(s) + j] = t[j]
    <2>1. Len(s) + j \in 1..Len(s) + Len(t) /\ ~(Len(s) + j <= Len(s)) /\ (Len(s) + j) - Len(s) = j
        BY <1>3
    <2> QED BY <1>2, <1>3, <2>1
<1>6. ToSet(s \o t) \subseteq S
    BY <1>2 DEF ToSet
<1>7. S \subseteq ToSet(s \o t)
    BY <1>4, <1>5 DEF ToSet
<1>8. IsList(s \o t)
    BY <1>2, ListOf
<1> QED BY <1>2, <1>4, <1>5, <1>6, <1>7, <1>8

(* What is in a list of lists is in one of them.                           *)
LEMMA Flattened ==
    ASSUME NEW n \in Nat, n # 0, NEW seqs, DOMAIN seqs = 1..n, seqs = [i \in 1..n |-> seqs[i]],
           \A i \in 1..n : IsList(seqs[i])
    PROVE  IsList(FlattenSeq(seqs)) /\ ToSet(FlattenSeq(seqs)) = UNION {ToSet(seqs[i]) : i \in 1..n}
<1> DEFINE flatten == CHOOSE f : Joins(n, f, seqs)
           Of(m) == UNION {ToSet(seqs[i]) : i \in 1..m}
           Good == {m \in Nat : m \in 1..n => IsList(flatten[m]) /\ ToSet(flatten[m]) = Of(m)}
<1>1. Len(seqs) = n
    BY Made
<1>2. FlattenSeq(seqs) = flatten[n]
    BY <1>1 DEF FlattenSeq, Joins
<1>3. Joins(n, flatten, seqs)
    BY JoinsExists
<1> HIDE DEF flatten
<1>4. \A m \in 1..n : flatten[m] = IF m = 1 THEN seqs[m] ELSE flatten[m - 1] \o seqs[m]
    BY <1>3 DEF Joins
<1>5. 0 \in Good
    OBVIOUS
<1>6. ASSUME NEW m \in Nat, m \in Good PROVE m + 1 \in Good
    <2> SUFFICES ASSUME m + 1 \in 1..n
                 PROVE  IsList(flatten[m + 1]) /\ ToSet(flatten[m + 1]) = Of(m + 1)
        OBVIOUS
    <2>1. CASE m = 0
        <3>1. flatten[m + 1] = seqs[1] /\ 1 \in 1..n
            BY <1>4, <2>1
        <3>2. Of(1) = ToSet(seqs[1])
            OBVIOUS
        <3> QED BY <2>1, <3>1, <3>2
    <2>2. CASE m # 0
        <3>1. m \in 1..n /\ (m + 1) - 1 = m /\ m + 1 # 1
            BY <2>2
        <3>2. flatten[m + 1] = flatten[m] \o seqs[m + 1]
            BY <1>4, <3>1
        <3>3. IsList(flatten[m]) /\ ToSet(flatten[m]) = Of(m) /\ IsList(seqs[m + 1])
            BY <1>6, <3>1
        <3>4. IsList(flatten[m + 1]) /\ ToSet(flatten[m + 1]) = Of(m) \cup ToSet(seqs[m + 1])
            <4>1. /\ IsList(flatten[m] \o seqs[m + 1])
                  /\ ToSet(flatten[m] \o seqs[m + 1]) = ToSet(flatten[m]) \cup ToSet(seqs[m + 1])
                BY <3>3, Joined
            <4> HIDE DEF Of
            <4> QED BY <3>2, <3>3, <4>1
        <3>5. 1..m + 1 = 1..m \cup {m + 1}
            OBVIOUS
        <3>6. Of(m + 1) = Of(m) \cup ToSet(seqs[m + 1])
            BY <3>5
        <3> QED BY <3>4, <3>6
    <2> QED BY <2>1, <2>2
<1> HIDE DEF Good
<1>7. \A m \in Nat : m \in Good
    BY <1>5, <1>6, NatSetInduction
<1>8. n \in Good /\ n \in 1..n
    BY <1>7
<1> QED BY <1>2, <1>8 DEF Good

-----------------------------------------------------------------------------
(* Keys, notes and proofs.                                                 *)

(* A note that can be spent has one owner.                                 *)
LEMMA OneOwner ==
    ASSUME NEW a, NEW k, NEW r, NEW b, NEW l, NEW q,
           NPK(MPK(a, k), r) = NPK(MPK(b, l), q), IsSpendable(NPK(MPK(a, k), r))
    PROVE  a = b /\ k = l
BY GroundAssumption DEF NPK, MPK, IsSpendable, Reserved

LEMMA NoteHasOneOwner ==
    ASSUME NEW a, NEW n, n \in SpentOf(a), NEW b, NoteOf(b, n)
    PROVE  a = b
<1>1. PICK p \in Positions : n = Nullifier(p[1], NullifyingKey[a], p[2]) /\ OwnedBy(LeafAt(p), a)
    BY DEF SpentOf
<1>2. n[1] = p[1] /\ n[2] = NullifyingKey[a] /\ n[3] = p[2]
    BY <1>1 DEF Nullifier
<1>3. PICK r : LeafAt(p).npk = NPK(MPK(a, NullifyingKey[a]), r)
    BY <1>1 DEF OwnedBy, IsKeyOf
<1>4. PICK q : LeafAt(p).npk = NPK(MPK(b, n[2]), q)
    BY <1>2 DEF NoteOf, LeafAt
<1>5. IsSpendable(LeafAt(p).npk)
    BY <1>1 DEF OwnedBy
<1> QED BY <1>3, <1>4, <1>5, OneOwner

(* An input, opened as the circuits demand, is a note in the tree that it  *)
(* names.                                                                  *)
LEMMA InputIsNote ==
    ASSUME NEW a, NEW b \in Account, NEW t, NEW input \in Inputs,
           InputNote(a, NullifyingKey[b], t, input, knownRoots)
    PROVE  /\ NoteOf(a, Nullifier(input.treeNumber, NullifyingKey[b], input.index))
           /\ input.leaves = trees[input.treeNumber]
           /\ input.treeNumber \in TreeNumber /\ input.index \in DOMAIN trees[input.treeNumber]
<1> DEFINE key == NullifyingKey[b]
           n == Nullifier(input.treeNumber, key, input.index)
<1>1. PICK k \in Used, r \in Randomness :
        \E i \in DOMAIN trees[k], m \in Used :
            input = [leaves |-> trees[k], index |-> i, value |-> trees[k][i].value,
                     treeNumber |-> m, rnd |-> r]
    BY DEF Inputs
<1>2. <<input.leaves, input.treeNumber>> \in knownRoots
    BY DEF InputNote, RootWithTreeNumber, Root
<1>3. input.treeNumber \in TreeNumber /\ input.leaves = trees[input.treeNumber]
    BY <1>2 DEF knownRoots, Root, Used
<1>4. input.index \in DOMAIN trees[input.treeNumber] /\ input.rnd \in Randomness
    BY <1>1, <1>3
<1>5. /\ trees[input.treeNumber][input.index].npk = NPK(MPK(a, key), input.rnd)
      /\ IsSpendable(NPK(MPK(a, key), input.rnd))
    BY <1>3 DEF InputNote, Commitment
<1>6. n[1] = input.treeNumber /\ n[2] = key /\ n[3] = input.index
    BY DEF Nullifier
<1>7. NoteOf(a, n)
    BY <1>3, <1>4, <1>5, <1>6 DEF NoteOf
<1> QED BY <1>3, <1>4, <1>7

(* Inputs come in lists of notes of one account.                           *)
IsInputList(inputs, a, key, t) ==
    /\ IsList(inputs)
    /\ \A i \in DOMAIN inputs : inputs[i] \in Inputs /\ InputNote(a, key, t, inputs[i], knownRoots)

LEMMA InputListsAre ==
    ASSUME NEW a, NEW key, NEW t, NEW inputs \in InputLists(Inputs, a, key, t)
    PROVE  IsInputList(inputs, a, key, t)
<1> DEFINE S == {input \in Inputs : /\ input.leaves[input.index].token = t
                                    /\ InputNote(a, key, t, input, knownRoots)}
<1>1. PICK k \in 1..MaxInputs : inputs \in [1..k -> S]
    <2>1. inputs \in Lists(S, MaxInputs)
        BY DEF InputLists
    <2> HIDE DEF S
    <2> QED BY <2>1 DEF Lists
<1>2. k \in Nat
    BY BoundsAssumption
<1>3. IsList(inputs)
    <2> HIDE DEF S
    <2> QED BY <1>1, <1>2, Made
<1> QED BY <1>1, <1>3 DEF IsInputList

(* What is nullified by inputs are notes.                                  *)
LEMMA NullifiersAreNotes ==
    ASSUME NEW a, NEW b \in Account, NEW t, NEW inputs, IsInputList(inputs, a, NullifyingKey[b], t)
    PROVE  /\ IsList(NullifiersOf(NullifyingKey[b], inputs))
           /\ DOMAIN NullifiersOf(NullifyingKey[b], inputs) = DOMAIN inputs
           /\ \A n \in ToSet(NullifiersOf(NullifyingKey[b], inputs)) : NoteOf(a, n)
<1> DEFINE ns == NullifiersOf(NullifyingKey[b], inputs)
<1>1. DOMAIN inputs = 1..Len(inputs) /\ Len(inputs) \in Nat
    BY Lengths DEF IsInputList
<1>2. ns = [i \in 1..Len(inputs) |-> ns[i]] /\ DOMAIN ns = 1..Len(inputs)
    BY <1>1 DEF NullifiersOf
<1>3. IsList(ns)
    BY <1>1, <1>2, Made
<1>4. ASSUME NEW i \in DOMAIN inputs PROVE NoteOf(a, ns[i])
    <2>1. ns[i] = Nullifier(inputs[i].treeNumber, NullifyingKey[b], inputs[i].index)
        BY DEF NullifiersOf
    <2>2. inputs[i] \in Inputs /\ InputNote(a, NullifyingKey[b], t, inputs[i], knownRoots)
        BY DEF IsInputList
    <2> QED BY <2>1, <2>2, InputIsNote
<1> QED BY <1>1, <1>2, <1>3, <1>4 DEF ToSet

(* A slot is one of an account and a nullifying key; a withdrawal is paid  *)
(* out in output zero.                                                     *)
LEMMA SlotsAre ==
    ASSUME NEW A, NEW s \in SlotsOf(A), Len(s.outputs) # 0
    PROVE  /\ s.account \in A
           /\ \E b \in Account : s.nk = NullifyingKey[b]
           /\ IsInputList(s.inputs, s.account, s.nk, s.token)
           /\ s.token \in Token
           /\ s.outputs \in OutputLists
           /\ isWithdrawal(s) =>
                \E to \in Recipient, amount \in Nat :
                    s.payout = <<to, s.token, amount>> /\ s.outputs[1].value = amount
<1>1. PICK a \in A, key \in {NullifyingKey[b] : b \in Account}, t \in Token :
        \E inputs \in InputLists(Inputs, a, key, t) : s \in SlotsWith(a, key, t, inputs)
    BY DEF SlotsOf
<1>2. PICK inputs \in InputLists(Inputs, a, key, t) : s \in SlotsWith(a, key, t, inputs)
    BY <1>1
<1>3. PICK outputs \in OutputLists : \E payout \in PayoutsOf(t, outputs) :
            s = [account |-> a, nk |-> key, token |-> t, inputs |-> inputs, outputs |-> outputs,
                fee |-> BalancingFee(inputs, outputs), payout |-> payout]
    BY <1>2 DEF SlotsWith
<1>4. PICK payout \in PayoutsOf(t, outputs) :
        s = [account |-> a, nk |-> key, token |-> t, inputs |-> inputs, outputs |-> outputs,
             fee |-> BalancingFee(inputs, outputs), payout |-> payout]
    BY <1>3
<1>5. IsInputList(inputs, a, key, t)
    BY <1>2, InputListsAre
<1>6. ASSUME isWithdrawal(s)
      PROVE  \E to \in Recipient, amount \in Nat :
                    s.payout = <<to, s.token, amount>> /\ s.outputs[1].value = amount
    <2>1. PICK to \in Recipient : payout = <<to, t, outputs[1].value>>
        BY <1>6, <1>4 DEF isWithdrawal, PayoutsOf
    <2>2. outputs[1].value \in Nat
        <3>1. outputs \in Seq(ToSet(outputs)) /\ \A j \in DOMAIN outputs : outputs[j].value \in Field
            BY OutputsAssumption
        <3>2. 1 \in DOMAIN outputs
            BY <1>4, <3>1
        <3> QED BY <3>1, <3>2 DEF Field
    <2> QED BY <1>4, <2>1, <2>2
<1> QED BY <1>4, <1>5, <1>6

-----------------------------------------------------------------------------
(* Steps.                                                                  *)

(* Trees only grow, and so does what was consented to.                     *)
TreesGrow ==
    \A k \in TreeNumber : \A i \in DOMAIN trees[k] :
        i \in DOMAIN trees'[k] /\ trees'[k][i] = trees[k][i]

LEMMA AppendGrows ==
    ASSUME Typed, NEW new, IsList(new), AppendLeaves(new)
    PROVE  /\ DOMAIN trees' = TreeNumber /\ trees' = [k \in TreeNumber |-> trees'[k]]
           /\ \A k \in TreeNumber : IsList(trees'[k]) /\ Len(trees'[k]) <= TreeCapacity
           /\ TreesGrow
           /\ ToSet(new) \subseteq NewLeaves
<1>1. PICK k \in TreeNumber :
        Len(trees[k]) + Len(new) <= TreeCapacity /\ trees' = [trees EXCEPT ![k] = trees[k] \o new]
    BY DEF AppendLeaves
<1>2. DOMAIN trees' = TreeNumber /\ trees' = [m \in TreeNumber |-> trees'[m]]
    BY <1>1 DEF Typed
<1>3. trees'[k] = trees[k] \o new
    BY <1>1 DEF Typed
<1>4. \A m \in TreeNumber : m # k => trees'[m] = trees[m]
    BY <1>1 DEF Typed
<1>5. IsList(trees[k])
    BY DEF Typed
<1>6. /\ IsList(trees'[k]) /\ Len(trees'[k]) <= TreeCapacity
      /\ \A i \in DOMAIN trees[k] : i \in DOMAIN trees'[k] /\ trees'[k][i] = trees[k][i]
      /\ \A j \in DOMAIN new :
            /\ Len(trees[k]) + j \in DOMAIN trees'[k] /\ Len(trees[k]) + j \notin DOMAIN trees[k]
            /\ trees'[k][Len(trees[k]) + j] = new[j]
    <2>1. PICK old : old = trees[k]
        OBVIOUS
    <2>2. /\ IsList(old \o new) /\ Len(old \o new) = Len(old) + Len(new)
          /\ \A i \in DOMAIN old : i \in DOMAIN (old \o new) /\ (old \o new)[i] = old[i]
          /\ \A j \in DOMAIN new :
                /\ Len(old) + j \in DOMAIN (old \o new) /\ Len(old) + j \notin DOMAIN old
                /\ (old \o new)[Len(old) + j] = new[j]
        <3>1. IsList(old)
            BY <1>5, <2>1
        <3> QED BY <3>1, Joined
    <2> QED BY <1>1, <1>3, <2>1, <2>2
<1>7. TreesGrow
    BY <1>4, <1>6 DEF TreesGrow
<1>8. \A m \in TreeNumber : IsList(trees'[m]) /\ Len(trees'[m]) <= TreeCapacity
    BY <1>4, <1>6 DEF Typed
<1>9. ToSet(new) \subseteq NewLeaves
    BY <1>6 DEF NewLeaves, ToSet
<1> QED BY <1>2, <1>7, <1>8, <1>9

LEMMA NotesStay ==
    ASSUME TreesGrow, NEW a, NEW n, NoteOf(a, n)
    PROVE  NoteOf(a, n)'
<1>1. PICK tree \in TreeNumber, b \in Account :
        \E i \in DOMAIN trees[tree] : n = Nullifier(tree, NullifyingKey[b], i)
    BY DEF NoteOf
<1>2. PICK i \in DOMAIN trees[tree] : n = Nullifier(tree, NullifyingKey[b], i)
    BY <1>1
<1>3. n[1] = tree /\ n[3] = i
    BY <1>2 DEF Nullifier
<1>4. i \in DOMAIN trees'[tree] /\ trees'[tree][i] = trees[tree][i]
    BY DEF TreesGrow
<1>5. \E i_1 \in DOMAIN trees'[tree] : n = Nullifier(tree, NullifyingKey[b], i_1)
    BY <1>2, <1>4
<1> QED BY <1>3, <1>4, <1>5 DEF NoteOf

LEMMA ConsentsStay ==
    ASSUME signatures \subseteq signatures', approvals \subseteq approvals', NEW a
    PROVE  Consents(a) \subseteq Consents(a)'
<1> DEFINE ByKey(S) ==
            UNION {{[digest |-> g.digest, expiry |-> leaf.expiry] : g \in {g \in S : g.key = leaf.key}} :
                        leaf \in {l \in KeyLeaves : l.account = a}}
           ByApproval(S) ==
            UNION {{[digest |-> m.digest, expiry |-> leaf.expiry] : m \in leaf.batch} :
                        leaf \in {l \in S : l.account = a}}
<1>1. ByKey(signatures) \subseteq ByKey(signatures')
    OBVIOUS
<1>2. ByApproval(approvals) \subseteq ByApproval(approvals')
    OBVIOUS
<1>3. Consents(a) = ByKey(signatures) \cup ByApproval(approvals)
    BY DEF Consents
<1>4. Consents(a)' = ByKey(signatures') \cup ByApproval(approvals')
    BY DEF Consents
<1> QED
    <2> HIDE DEF ByKey, ByApproval
    <2> QED BY <1>1, <1>2, <1>3, <1>4

(* Requests that were consented to stay so.                                *)
LEMMA RequestsStay ==
    ASSUME TreesGrow, signatures \subseteq signatures', approvals \subseteq approvals',
           NEW request, AsConsented(request)
    PROVE  AsConsented(request)'
<1>1. \A n \in ToSet(request.digest.nullifiers) : NoteOf(request.digest.account, n)'
    <2>1. PICK a : a = request.digest.account
        OBVIOUS
    <2>2. \A n \in ToSet(request.digest.nullifiers) : NoteOf(a, n)'
        BY <2>1, NotesStay DEF AsConsented
    <2> QED BY <2>1, <2>2
<1>2. request.digest.account \in Honest => Consented(request)'
    BY ConsentsStay DEF AsConsented, Consented
<1> QED BY <1>1, <1>2 DEF AsConsented

-----------------------------------------------------------------------------
(* An epoch.                                                               *)

(* The sums of the model, over functions and sequences.                    *)
LEMMA SumIsTotal ==
    ASSUME NEW f, NEW S, S = DOMAIN f, IsFiniteSet(S)
    PROVE  SumFunction(f) = Total(f, S) /\ FoldSeq(+, 0, f) = Total(f, S)
<1> DEFINE body(g) == [T \in SUBSET S |->
                            IF T = {} THEN 0 ELSE LET x == CHOOSE x \in T : TRUE IN f[x] + g[T \ {x}]]
           iter == CHOOSE g : g = body(g)
<1>1. FoldSeq(+, 0, f) = iter[S] /\ SumFunction(f) = iter[S]
    BY DEF FoldSeq, FoldFunction, FoldFunctionOnSet, MapThenFoldSet, SumFunction, SumFunctionOnSet
<1>2. ASSUME NEW g PROVE IsSum(g, f, S) <=> g = body(g)
    BY DEF IsSum, OneOf
<1>3. IsSum(iter, f, S)
    <2>1. SumOfSubsets(f, S) = body(SumOfSubsets(f, S))
        BY <1>2, SumExists
    <2>2. iter = body(iter)
        <3> HIDE DEF body
        <3> QED BY <2>1
    <2> HIDE DEF body, iter
    <2> QED BY <1>2, <2>2
<1>4. iter[S] = Total(f, S)
    <2> HIDE DEF iter
    <2> QED BY <1>3, SumExists, SumUnique DEF Total
<1> QED BY <1>1, <1>4

(* What the handler and the circuit have checked.                          *)
IsEpoch(slots, feeTokens, feeNPK, provingTime) ==
    /\ IsList(slots) /\ slots # <<>> /\ Len(slots) <= MaxTransfers
    /\ \A j \in DOMAIN slots :
            /\ slots[j] \in SlotsOf(Account)
            /\ verifyAuth(slots[j], authLeaves, provingTime, SignaturesFor({Digest(slots[j])}))
            /\ Transfer(slots[j], knownRoots)
            /\ IsInjective(Nullifiers(slots[j]))
    /\ FeesRouted(slots, feeTokens)
    /\ feeTokens \in FeeTokenLists /\ feeNPK \in FeeKeys /\ IsSpendable(feeNPK)
    /\ provingTime \in ProvingTimes

NullifiersOfAll(slots) == FlattenSeq([t \in DOMAIN slots |-> Nullifiers(slots[t])])

EpochWrites(slots, feeTokens, feeNPK) ==
    /\ Unspent(NullifiersOfAll(slots))
    /\ nullifierSpent' = nullifierSpent \cup ToSet(NullifiersOfAll(slots))
    /\ Pay(slots)
    /\ AppendLeaves(pendingLeaves(slots, feeTokens, feeNPK))

LEMMA EpochIs ==
    ASSUME NEW provingTime, SubmitEpoch(provingTime)
    PROVE  \E slots, feeTokens, feeNPK :
                IsEpoch(slots, feeTokens, feeNPK, provingTime) /\ EpochWrites(slots, feeTokens, feeNPK)
<1> DEFINE provable == {s \in SlotsOf(Account) :
                            /\ verifyAuth(s, authLeaves, provingTime, SignaturesFor({Digest(s)}))
                            /\ Unspent(Nullifiers(s))
                            /\ Transfer(s, knownRoots)}
<1>1. PICK slots \in Lists(provable, MaxTransfers), feeTokens \in FeeTokenLists, feeNPK \in FeeKeys :
        /\ Unspent(NullifiersOfAll(slots))
        /\ nullifierSpent' = nullifierSpent \cup ToSet(NullifiersOfAll(slots))
        /\ Pay(slots)
        /\ EpochCircuit(slots, feeTokens, feeNPK, knownRoots, authLeaves, provingTime,
                        SignaturesFor({Digest(slots[t]) : t \in DOMAIN slots}))
        /\ AppendLeaves(pendingLeaves(slots, feeTokens, feeNPK))
    BY DEF SubmitEpoch, NullifiersOfAll
<1>2. provingTime \in ProvingTimes
    BY DEF SubmitEpoch
<1>3. FeesRouted(slots, feeTokens) /\ IsSpendable(feeNPK)
    BY <1>1 DEF EpochCircuit
<1>4. PICK n \in 1..MaxTransfers : slots \in [1..n -> provable]
    <2> HIDE DEF provable
    <2> QED BY <1>1 DEF Lists
<1>5. IsList(slots) /\ slots # <<>> /\ Len(slots) <= MaxTransfers
    <2>1. n \in Nat /\ n # 0 /\ n <= MaxTransfers
        BY BoundsAssumption
    <2>2. IsList(slots) /\ Len(slots) = n
        <3> HIDE DEF provable
        <3> QED BY <1>4, <2>1, Made
    <2> QED BY <2>1, <2>2
<1>6. \A j \in DOMAIN slots : slots[j] \in provable
    <2> HIDE DEF provable
    <2> QED BY <1>4
<1>7. IsEpoch(slots, feeTokens, feeNPK, provingTime)
    BY <1>1, <1>2, <1>3, <1>5, <1>6 DEF IsEpoch, Unspent
<1> QED BY <1>1, <1>7 DEF EpochWrites

(* A transfer of an epoch.                                                 *)
LEMMA TransferIs ==
    ASSUME NEW slots, NEW feeTokens, NEW feeNPK, NEW provingTime,
           IsEpoch(slots, feeTokens, feeNPK, provingTime), NEW s \in ToSet(slots)
    PROVE  /\ s.account \in Account /\ s.token \in Token
           /\ IsList(Nullifiers(s))
           /\ \A n \in ToSet(Nullifiers(s)) : NoteOf(s.account, n)
           /\ IsList(Outs(s)) /\ Outs(s) # <<>> /\ DOMAIN Outs(s) = DOMAIN s.outputs
           /\ isWithdrawal(s) =>
                \E to \in Recipient, amount \in Nat :
                    s.payout = <<to, s.token, amount>> /\ s.outputs[1].value = amount
           /\ verifyAuth(s, authLeaves, provingTime, SignaturesFor({Digest(s)}))
           /\ Transfer(s, knownRoots) /\ s \in SlotsOf(Account)
<1>1. /\ s \in SlotsOf(Account)
      /\ verifyAuth(s, authLeaves, provingTime, SignaturesFor({Digest(s)}))
      /\ Transfer(s, knownRoots)
    BY DEF IsEpoch, ToSet
<1>2. Len(s.outputs) # 0
    BY <1>1, BoundsAssumption DEF Transfer
<1>3. /\ s.account \in Account /\ s.token \in Token
      /\ IsInputList(s.inputs, s.account, s.nk, s.token)
      /\ s.outputs \in OutputLists
      /\ isWithdrawal(s) =>
            \E to \in Recipient, amount \in Nat :
                s.payout = <<to, s.token, amount>> /\ s.outputs[1].value = amount
    BY <1>1, <1>2, SlotsAre
<1>4. PICK b \in Account : s.nk = NullifyingKey[b]
    BY <1>1, <1>2, SlotsAre
<1>5. IsList(Nullifiers(s)) /\ \A n \in ToSet(Nullifiers(s)) : NoteOf(s.account, n)
    BY <1>3, <1>4, NullifiersAreNotes DEF Nullifiers
<1>6. IsList(Outs(s)) /\ Outs(s) # <<>> /\ DOMAIN Outs(s) = DOMAIN s.outputs
    <2>1. s.outputs \in Seq(ToSet(s.outputs))
        BY <1>3, OutputsAssumption
    <2>2. Len(s.outputs) \in Nat /\ DOMAIN s.outputs = 1..Len(s.outputs)
        BY <2>1
    <2>3. DOMAIN Outs(s) = 1..Len(s.outputs) /\ Outs(s) = [j \in 1..Len(s.outputs) |-> Outs(s)[j]]
        BY <2>2 DEF Outs
    <2>4. IsList(Outs(s)) /\ Len(Outs(s)) = Len(s.outputs)
        BY <2>2, <2>3, Made
    <2> QED BY <1>2, <2>2, <2>3, <2>4
<1> QED BY <1>1, <1>3, <1>5, <1>6

LEMMA SlotsAreListed ==
    ASSUME NEW slots, NEW feeTokens, NEW feeNPK, NEW provingTime,
           IsEpoch(slots, feeTokens, feeNPK, provingTime)
    PROVE  /\ Len(slots) \in Nat /\ Len(slots) # 0 /\ DOMAIN slots = 1..Len(slots)
           /\ \A j \in DOMAIN slots : slots[j] \in ToSet(slots)
<1>1. IsList(slots) /\ slots # <<>>
    BY DEF IsEpoch
<1>2. Len(slots) # 0
    BY <1>1 DEF IsList
<1> QED BY <1>1, <1>2, Lengths DEF ToSet

LEMMA EpochNullifiers ==
    ASSUME NEW slots, NEW feeTokens, NEW feeNPK, NEW provingTime,
           IsEpoch(slots, feeTokens, feeNPK, provingTime)
    PROVE  /\ IsList(NullifiersOfAll(slots))
           /\ ToSet(NullifiersOfAll(slots)) = UNION {ToSet(Nullifiers(s)) : s \in ToSet(slots)}
<1> DEFINE n == Len(slots)
           lists == [t \in DOMAIN slots |-> Nullifiers(slots[t])]
<1>1. n \in Nat /\ n # 0 /\ DOMAIN slots = 1..n /\ \A j \in DOMAIN slots : slots[j] \in ToSet(slots)
    BY SlotsAreListed
<1>2. DOMAIN lists = 1..n /\ lists = [i \in 1..n |-> lists[i]]
    BY <1>1
<1>3. \A i \in 1..n : lists[i] = Nullifiers(slots[i]) /\ IsList(lists[i])
    BY <1>1, TransferIs
<1>4. IsList(FlattenSeq(lists)) /\ ToSet(FlattenSeq(lists)) = UNION {ToSet(lists[i]) : i \in 1..n}
    <2> HIDE DEF lists, n
    <2> QED BY <1>1, <1>2, <1>3, Flattened
<1>5. UNION {ToSet(lists[i]) : i \in 1..n} = UNION {ToSet(Nullifiers(s)) : s \in ToSet(slots)}
    <2>1. ToSet(slots) = {slots[i] : i \in 1..n}
        BY <1>1 DEF ToSet
    <2> HIDE DEF lists, n
    <2> QED BY <1>3, <2>1
<1> QED BY <1>4, <1>5 DEF NullifiersOfAll

(* The leaves of a slot: its outputs, but for the marker of a withdrawal.  *)
LEMMA LeavesOfSlot ==
    ASSUME NEW s, IsList(Outs(s)), Outs(s) # <<>>
    PROVE  /\ IsList(treeLeavesForTransfer(s))
           /\ isWithdrawal(s) => treeLeavesForTransfer(s) = Tail(Outs(s))
           /\ ~isWithdrawal(s) => treeLeavesForTransfer(s) = Outs(s)
<1>1. IsList(Tail(Outs(s)))
    <2>1. Outs(s) \in Seq(ToSet(Outs(s)))
        BY DEF IsList
    <2>2. Tail(Outs(s)) \in Seq(ToSet(Outs(s)))
        BY <2>1
    <2> QED BY <2>2, ListOf
<1> QED BY <1>1 DEF treeLeavesForTransfer

LEMMA EpochLeaves ==
    ASSUME NEW slots, NEW feeTokens, NEW feeNPK, NEW provingTime,
           IsEpoch(slots, feeTokens, feeNPK, provingTime)
    PROVE  /\ IsList(pendingLeaves(slots, feeTokens, feeNPK))
           /\ \A s \in ToSet(slots) :
                ToSet(treeLeavesForTransfer(s)) \subseteq ToSet(pendingLeaves(slots, feeTokens, feeNPK))
<1> DEFINE n == Len(slots)
           lists == [t \in DOMAIN slots |-> treeLeavesForTransfer(slots[t])]
           fees == feeCommitments(slots, feeTokens, feeNPK)
<1>1. n \in Nat /\ n # 0 /\ DOMAIN slots = 1..n /\ \A j \in DOMAIN slots : slots[j] \in ToSet(slots)
    BY SlotsAreListed
<1>2. DOMAIN lists = 1..n /\ lists = [i \in 1..n |-> lists[i]]
    BY <1>1
<1>3. \A i \in 1..n : lists[i] = treeLeavesForTransfer(slots[i]) /\ IsList(lists[i])
    BY <1>1, TransferIs, LeavesOfSlot
<1>4. IsList(FlattenSeq(lists)) /\ ToSet(FlattenSeq(lists)) = UNION {ToSet(lists[i]) : i \in 1..n}
    <2> HIDE DEF lists, n
    <2> QED BY <1>1, <1>2, <1>3, Flattened
<1>5. IsList(fees)
    <2>1. IsList(feeTokens)
        BY FeeTokensAssumption DEF IsEpoch, IsList
    <2>2. Len(feeTokens) \in Nat /\ DOMAIN feeTokens = 1..Len(feeTokens)
        BY <2>1, Lengths
    <2>3. DOMAIN fees = 1..Len(feeTokens) /\ fees = [j \in 1..Len(feeTokens) |-> fees[j]]
        BY <2>2 DEF feeCommitments
    <2> HIDE DEF fees
    <2> QED BY <2>2, <2>3, Made
<1>6. pendingLeaves(slots, feeTokens, feeNPK) = FlattenSeq(lists) \o fees
    BY DEF pendingLeaves
<1>7. /\ IsList(pendingLeaves(slots, feeTokens, feeNPK))
      /\ ToSet(FlattenSeq(lists)) \subseteq ToSet(pendingLeaves(slots, feeTokens, feeNPK))
    <2> HIDE DEF lists, fees
    <2>1. IsList(FlattenSeq(lists) \o fees)
        BY <1>4, <1>5, Joined
    <2>2. ToSet(FlattenSeq(lists) \o fees) = ToSet(FlattenSeq(lists)) \cup ToSet(fees)
        BY <1>4, <1>5, Joined
    <2> QED BY <1>6, <2>1, <2>2
<1>8. ASSUME NEW s \in ToSet(slots)
      PROVE  ToSet(treeLeavesForTransfer(s)) \subseteq ToSet(FlattenSeq(lists))
    <2>1. PICK i \in 1..n : s = slots[i]
        BY <1>1 DEF ToSet
    <2>2. ToSet(lists[i]) \subseteq ToSet(FlattenSeq(lists)) /\ lists[i] = treeLeavesForTransfer(slots[i])
        <3> HIDE DEF lists, n
        <3> QED BY <1>3, <1>4
    <2> HIDE DEF lists
    <2> QED BY <2>1, <2>2
<1> HIDE DEF lists
<1> QED BY <1>7, <1>8

(* Every withdrawal is paid, and nothing is taken back.                    *)
LEMMA EpochPays ==
    ASSUME Typed, NEW slots, NEW feeTokens, NEW feeNPK, NEW provingTime,
           IsEpoch(slots, feeTokens, feeNPK, provingTime), Pay(slots)
    PROVE  /\ paid' \in [Recipient -> [Token -> Nat]]
           /\ \A s \in ToSet(slots) : isWithdrawal(s) =>
                paid'[s.payout[1]][s.payout[2]] >= paid[s.payout[1]][s.payout[2]] + s.payout[3]
<1> DEFINE part(to, t) == [j \in DOMAIN slots |->
                            IF isWithdrawal(slots[j]) /\ slots[j].payout[1] = to /\ slots[j].payout[2] = t
                            THEN slots[j].payout[3] ELSE 0]
           n == Len(slots)
<1>1. n \in Nat /\ n # 0 /\ DOMAIN slots = 1..n /\ \A j \in DOMAIN slots : slots[j] \in ToSet(slots)
    BY SlotsAreListed
<1>2. IsFiniteSet(1..n)
    BY <1>1, FS_Interval
<1>3. ASSUME NEW j \in 1..n, isWithdrawal(slots[j])
      PROVE  \E to \in Recipient, t \in Token, amount \in Nat :
                slots[j].payout = <<to, t, amount>>
    <2>1. slots[j] \in ToSet(slots)
        BY <1>1
    <2>2. PICK to \in Recipient, amount \in Nat : slots[j].payout = <<to, slots[j].token, amount>>
        BY <1>3, <2>1, TransferIs
    <2>3. slots[j].token \in Token
        BY <2>1, TransferIs
    <2> QED BY <2>2, <2>3
<1>4. ASSUME NEW to \in Recipient, NEW t \in Token
      PROVE  /\ \A j \in 1..n : part(to, t)[j] \in Nat
             /\ Total(part(to, t), 1..n) \in Nat
             /\ paid'[to][t] = paid[to][t] + Total(part(to, t), 1..n)
    <2>1. ASSUME NEW j \in 1..n PROVE part(to, t)[j] \in Nat
        <3>1. CASE isWithdrawal(slots[j])
            BY <1>1, <1>3, <3>1
        <3>2. CASE ~isWithdrawal(slots[j])
            BY <1>1, <3>2
        <3> QED BY <3>1, <3>2
    <2>2. DOMAIN part(to, t) = 1..n
        BY <1>1
    <2>3. paid'[to][t] = paid[to][t] + SumFunction(part(to, t))
        BY DEF Pay
    <2> HIDE DEF part, n
    <2>4. SumFunction(part(to, t)) = Total(part(to, t), 1..n)
        BY <1>2, <2>2, SumIsTotal
    <2>5. Total(part(to, t), 1..n) \in Nat
        BY <1>2, <2>1, TotalNat
    <2> QED BY <2>1, <2>3, <2>4, <2>5
<1>5. paid' \in [Recipient -> [Token -> Nat]]
    <2>1. ASSUME NEW to \in Recipient, NEW t \in Token PROVE paid'[to][t] \in Nat
        <3>1. paid[to][t] \in Nat
            BY DEF Typed
        <3>2. Total(part(to, t), 1..n) \in Nat /\ paid'[to][t] = paid[to][t] + Total(part(to, t), 1..n)
            BY <1>4
        <3> HIDE DEF part, n
        <3> QED BY <3>1, <3>2
    <2>2. paid' = [to \in Recipient |-> [t \in Token |-> paid'[to][t]]]
        BY DEF Pay
    <2> QED BY <2>1, <2>2
<1>6. ASSUME NEW j \in 1..n, isWithdrawal(slots[j])
      PROVE  paid'[slots[j].payout[1]][slots[j].payout[2]]
                >= paid[slots[j].payout[1]][slots[j].payout[2]] + slots[j].payout[3]
    <2>1. PICK to \in Recipient, t \in Token, amount \in Nat :
                slots[j].payout = <<to, t, amount>>
        BY <1>3, <1>6
    <2>2. part(to, t)[j] = amount
        BY <1>1, <1>6, <2>1
    <2>3. Total(part(to, t), 1..n) >= amount
        <3> HIDE DEF part
        <3>1. \A i \in 1..n : part(to, t)[i] \in Int
            BY <1>4
        <3>2. Total(part(to, t), 1..n) = part(to, t)[j] + Total(part(to, t), (1..n) \ {j})
            BY <1>2, <3>1, TotalRemove
        <3>3. IsFiniteSet((1..n) \ {j})
            BY <1>2, FS_Subset
        <3>4. \A i \in (1..n) \ {j} : part(to, t)[i] \in Nat
            BY <1>4
        <3>5. Total(part(to, t), (1..n) \ {j}) \in Nat
            BY <3>3, <3>4, TotalNat
        <3> QED BY <2>2, <3>2, <3>5
    <2>4. paid[to][t] \in Nat
        BY DEF Typed
    <2> HIDE DEF part
    <2> QED BY <1>4, <2>1, <2>3, <2>4
<1>7. \A s \in ToSet(slots) : \E j \in 1..n : s = slots[j]
    BY <1>1 DEF ToSet
<1> QED BY <1>5, <1>6, <1>7

(* Nobody but the owner authorizes a transfer of an honest account, and an *)
(* approval of it was of this transfer, token, fee and change.             *)
LEMMA OwnerAuthorized ==
    ASSUME Typed, NEW slots, NEW feeTokens, NEW feeNPK, NEW provingTime,
           IsEpoch(slots, feeTokens, feeNPK, provingTime),
           NEW s \in ToSet(slots), s.account \in Honest
    PROVE  /\ \E c \in Consents(s.account) :
                c.digest = Digest(s) /\ (c.expiry = 0 \/ now <= c.expiry + MaxProofAge)
           /\ ~HasKey(s.account) =>
                \E leaf \in approvals : leaf.account = s.account /\
                    [digest |-> Digest(s), blinding |-> displayBlinding(s, leaf.expiry)] \in leaf.batch
<1>1. provingTime \in ProvingTimes
    BY DEF IsEpoch
<1>2. provingTime \in Int /\ now \in Int /\ now - provingTime <= MaxProofAge /\ MaxProofAge \in Int
    BY <1>1, BoundsAssumption DEF ProvingTimes, Typed
<1>3. PICK leaf \in authLeaves :
        \/ Signed(s, leaf, provingTime, SignaturesFor({Digest(s)}))
        \/ Approved(s, leaf, provingTime)
    BY TransferIs DEF verifyAuth
<1>4. PICK c : c = [digest |-> Digest(s), expiry |-> leaf.expiry]
    OBVIOUS
<1>5. CASE Signed(s, leaf, provingTime, SignaturesFor({Digest(s)}))
    <2>1. leaf \in KeyLeaves /\ leaf.account = s.account
        BY <1>5 DEF Signed, authLeaves, Typed
    <2>2. [key |-> leaf.key, digest |-> Digest(s)] \in signatures
        <3>1. ~\E m \in KeyLeaves : m.account \notin Honest /\ m.key = leaf.key
            BY <2>1, KeysAssumption
        <3>2. PICK key, digest : key = leaf.key /\ digest = Digest(s)
            OBVIOUS
        <3>3. [key |-> key, digest |-> digest] \in SignaturesFor({digest})
            BY <1>5, <3>2 DEF Signed
        <3> QED BY <3>1, <3>2, <3>3 DEF SignaturesFor
    <2>3. c \in Consents(s.account)
        <3>1. PICK g \in signatures : g = [key |-> leaf.key, digest |-> Digest(s)]
            BY <2>2
        <3>2. g.key = leaf.key /\ g.digest = Digest(s)
            BY <3>1
        <3> QED BY <1>4, <2>1, <3>2 DEF Consents
    <2>4. leaf.expiry = 0 \/ provingTime <= leaf.expiry
        BY <1>5 DEF Signed
    <2>5. leaf.expiry \in Nat
        BY <2>1, KeysAssumption
    <2>6. HasKey(s.account)
        BY <2>1 DEF HasKey
    <2> QED BY <1>2, <1>4, <2>3, <2>4, <2>5, <2>6
<1>6. CASE Approved(s, leaf, provingTime)
    <2>1. leaf \in approvals /\ leaf.account = s.account
        BY <1>6, KeysAssumption DEF Approved, authLeaves
    <2>2. PICK m \in leaf.batch : m = [digest |-> Digest(s), blinding |-> displayBlinding(s, leaf.expiry)]
        BY <1>6 DEF Approved
    <2>3. c \in Consents(s.account)
        <3>1. m.digest = Digest(s)
            BY <2>2
        <3> QED BY <1>4, <2>1, <3>1 DEF Consents
    <2>4. leaf.expiry \in Nat
        BY <2>1 DEF Typed
    <2>5. provingTime <= leaf.expiry
        BY <1>6 DEF Approved
    <2> QED BY <1>2, <1>4, <2>1, <2>2, <2>3, <2>4, <2>5
<1> QED BY <1>3, <1>5, <1>6

(* A transfer of an epoch is carried out in full.                          *)
LEMMA EpochCarriesOut ==
    ASSUME Typed, NEW slots, NEW feeTokens, NEW feeNPK, NEW provingTime,
           IsEpoch(slots, feeTokens, feeNPK, provingTime), EpochWrites(slots, feeTokens, feeNPK),
           NEW s \in ToSet(slots)
    PROVE  CarriedOut(Digest(s))
<1>1. PICK leaves : leaves = pendingLeaves(slots, feeTokens, feeNPK)
    OBVIOUS
<1>2. ToSet(leaves) \subseteq NewLeaves
    <2>1. IsList(leaves) /\ AppendLeaves(leaves)
        BY <1>1, EpochLeaves DEF EpochWrites
    <2> QED BY <2>1, AppendGrows
<1>3. ToSet(treeLeavesForTransfer(s)) \subseteq NewLeaves
    BY <1>1, <1>2, EpochLeaves
<1>4. IsList(Outs(s)) /\ Outs(s) # <<>>
    BY TransferIs
<1>5. ToSet(Nullifiers(s)) \subseteq NewlySpent
    <2>1. ToSet(Nullifiers(s)) \subseteq ToSet(NullifiersOfAll(slots))
        BY EpochNullifiers
    <2> QED BY <2>1 DEF EpochWrites, Unspent, NewlySpent
<1>6. CASE isWithdrawal(s)
    <2>1. ToSet(Tail(Outs(s))) \subseteq NewLeaves
        BY <1>3, <1>4, <1>6, LeavesOfSlot
    <2>2. paid'[s.payout[1]][s.payout[2]] >= paid[s.payout[1]][s.payout[2]] + s.payout[3]
        BY <1>6, EpochPays DEF EpochWrites
    <2> QED BY <1>5, <1>6, <2>1, <2>2 DEF CarriedOut, Digest, isWithdrawal
<1>7. CASE ~isWithdrawal(s)
    <2>1. ToSet(Outs(s)) \subseteq NewLeaves
        BY <1>3, <1>4, <1>7, LeavesOfSlot
    <2> QED BY <1>5, <1>7, <2>1 DEF CarriedOut, Digest, isWithdrawal
<1> QED BY <1>6, <1>7

(* A note that an epoch spends is one of a transfer of its owner.          *)
LEMMA SpentByTransfer ==
    ASSUME NEW slots, NEW feeTokens, NEW feeNPK, NEW provingTime,
           IsEpoch(slots, feeTokens, feeNPK, provingTime), EpochWrites(slots, feeTokens, feeNPK),
           NEW a, NEW n \in SpentOf(a)
    PROVE  \E s \in ToSet(slots) : s.account = a /\ n \in ToSet(Nullifiers(s))
<1>1. n \in ToSet(NullifiersOfAll(slots))
    BY DEF SpentOf, NewlySpent, EpochWrites
<1>2. PICK s \in ToSet(slots) : n \in ToSet(Nullifiers(s))
    BY <1>1, EpochNullifiers
<1>3. NoteOf(s.account, n)
    BY <1>2, TransferIs
<1>4. s.account = a
    <2>1. PICK b : b = s.account
        OBVIOUS
    <2> QED BY <1>3, <2>1, NoteHasOneOwner
<1> QED BY <1>2, <1>4

-----------------------------------------------------------------------------
(* Forced withdrawals.                                                     *)

LEMMA ForcedWithdrawalsAre ==
    ASSUME NEW a \in Account, NEW f \in ForcedWithdrawalsOf(a)
    PROVE  /\ f.account = a /\ f.nk = NullifyingKey[a]
           /\ IsInputList(f.inputs, f.account, f.nk, f.token)
           /\ \A n \in ToSet(NullifiersOf(f.nk, f.inputs)) : NoteOf(a, n)
           /\ \E to \in Recipient, t \in Token : f.payout = <<to, t, FieldSum(ValuesOf(f.inputs))>>
<1>1. PICK t \in Token, inputs \in UNION {InputLists(Inputs, a, NullifyingKey[a], u) : u \in Token}, to \in Recipient :
        /\ inputs \in InputLists(Inputs, a, NullifyingKey[a], t)
        /\ f = [account |-> a, nk |-> NullifyingKey[a], token |-> t, inputs |-> inputs,
                payout |-> <<to, t, FieldSum(ValuesOf(inputs))>>]
    BY DEF ForcedWithdrawalsOf
<1>2. IsInputList(inputs, a, NullifyingKey[a], t)
    BY <1>1, InputListsAre
<1>3. \A n \in ToSet(NullifiersOf(NullifyingKey[a], inputs)) : NoteOf(a, n)
    BY <1>2, NullifiersAreNotes
<1> QED BY <1>1, <1>2, <1>3

(* A request is accepted only with the consent of the owner of its notes.  *)
LEMMA RequestIsConsented ==
    ASSUME Typed, NEW leaf \in authLeaves, leaf.account \in Account, RequestForcedWithdrawal(leaf),
           NEW request \in forced' \ forced
    PROVE  AsConsented(request)
<1>1. leaf.expiry = 0 \/ now <= leaf.expiry
    BY DEF RequestForcedWithdrawal
<1>2. PICK f, digest :
        /\ f \in ForcedWithdrawalsOf(leaf.account)
        /\ digest = ForcedDigest(f, leaf.kind)
        /\ ForcedCircuit(f, knownRoots, leaf, SignaturesFor({digest}))
        /\ request = [digest |-> digest, at |-> now]
    BY DEF RequestForcedWithdrawal
<1>3. /\ f.account = leaf.account
      /\ \A n \in ToSet(NullifiersOf(f.nk, f.inputs)) : NoteOf(leaf.account, n)
    BY <1>2, ForcedWithdrawalsAre
<1>4. PICK to \in Recipient, t \in Token : f.payout = <<to, t, FieldSum(ValuesOf(f.inputs))>>
    BY <1>2, ForcedWithdrawalsAre
<1>5. f.payout[3] \in Nat
    BY <1>2, ModulusAssumption DEF ForcedCircuit, IsAmount
<1>6. /\ request.digest = digest /\ request.at = now
      /\ digest.kind = "forced" /\ digest.outs = <<>> /\ digest.account = leaf.account
      /\ digest.payout = f.payout /\ digest.nullifiers = NullifiersOf(f.nk, f.inputs)
    BY <1>2, <1>3 DEF ForcedDigest
<1>7. \E o \in Recipient, u \in Token, amount \in Nat : request.digest.payout = <<o, u, amount>>
    BY <1>4, <1>5, <1>6
<1>8. PICK c : c = [digest |-> digest, expiry |-> leaf.expiry]
    OBVIOUS
<1>9. ForcedAuthorized(f, leaf, SignaturesFor({digest}))
    BY <1>2 DEF ForcedCircuit
<1>10. ASSUME leaf.account \in Honest
       PROVE  c \in Consents(leaf.account)
    <2>1. CASE leaf.kind = "key" /\ [key |-> leaf.key, digest |-> digest] \in SignaturesFor({digest})
        <3>1. leaf \in KeyLeaves
            BY <2>1 DEF authLeaves, Typed
        <3>2. ~\E m \in KeyLeaves : m.account \notin Honest /\ m.key = leaf.key
            BY <1>10, <3>1, KeysAssumption
        <3>3. [key |-> leaf.key, digest |-> digest] \in signatures
            BY <2>1, <3>2 DEF SignaturesFor
        <3>4. PICK g \in signatures : g = [key |-> leaf.key, digest |-> digest]
            BY <3>3
        <3>5. g.key = leaf.key /\ g.digest = digest
            BY <3>4
        <3> QED BY <1>8, <3>1, <3>5 DEF Consents
    <2>2. CASE /\ leaf.kind = "approval"
               /\ \E blinding \in {m.blinding : m \in leaf.batch} :
                    leaf.batch = {[digest |-> digest, blinding |-> blinding]}
        <3>1. leaf \in approvals
            BY <2>2, KeysAssumption DEF authLeaves
        <3>2. PICK m \in leaf.batch : m.digest = digest
            BY <2>2
        <3> QED BY <1>8, <3>1, <3>2 DEF Consents
    <2> QED BY <1>2, <1>9, <2>1, <2>2 DEF ForcedAuthorized
<1>11. request.digest.account \in Honest => Consented(request)
    BY <1>1, <1>6, <1>8, <1>10 DEF Consented
<1>12. \A n \in ToSet(request.digest.nullifiers) : NoteOf(request.digest.account, n)
    BY <1>3, <1>6
<1> QED BY <1>6, <1>7, <1>11, <1>12 DEF AsConsented

-----------------------------------------------------------------------------
(* The invariant.                                                          *)

(* What a step leaves behind: trees and consents that have only grown, and *)
(* no forced withdrawal that was not consented to.                         *)
Kept ==
    /\ Typed' /\ TreesGrow
    /\ signatures \subseteq signatures' /\ approvals \subseteq approvals'
    /\ \A request \in forced' : request \in forced \/ AsConsented(request)

LEMMA TreesAsTheyWere == ASSUME UNCHANGED trees PROVE TreesGrow
BY DEF TreesGrow

LEMMA ListsAre ==
    ASSUME NEW S, NEW n \in Nat, NEW s \in Lists(S, n)
    PROVE  IsList(s) /\ Len(s) \in Nat /\ Len(s) # 0 /\ DOMAIN s = 1..Len(s) /\ ToSet(s) \subseteq S
<1>1. PICK k \in 1..n : s \in [1..k -> S]
    BY DEF Lists
<1>2. IsList(s) /\ Len(s) = k
    BY <1>1, Made
<1> QED BY <1>1, <1>2 DEF ToSet

(* Deposit requests are credited with notes that they name.                *)
LEMMA DepositLeaves ==
    ASSUME NEW deposits \in DepositBatches
    PROVE  /\ IsList(CommitmentsOut(deposits))
           /\ ToSet(CommitmentsOut(deposits)) = UNION {ToSet(deposits[i].commitments) : i \in DOMAIN deposits}
<1> DEFINE n == Len(deposits)
           lists == [r \in DOMAIN deposits |-> deposits[r].commitments]
<1>1. MaxDeposits \in Nat /\ deposits \in Lists(Requests, MaxDeposits)
    BY BoundsAssumption DEF DepositBatches
<1>2. n \in Nat /\ n # 0 /\ DOMAIN deposits = 1..n /\ \A r \in 1..n : deposits[r] \in Requests
    BY <1>1, ListsAre DEF ToSet
<1>3. DOMAIN lists = 1..n /\ lists = [i \in 1..n |-> lists[i]]
    BY <1>2
<1>4. \A i \in 1..n : lists[i] = deposits[i].commitments
    BY <1>2
<1>5. \A i \in 1..n : IsList(lists[i])
    <2> HIDE DEF lists, n
    <2> QED BY <1>2, <1>4, RequestsAssumption DEF IsList
<1>6. IsList(FlattenSeq(lists)) /\ ToSet(FlattenSeq(lists)) = UNION {ToSet(lists[i]) : i \in 1..n}
    <2> HIDE DEF lists, n
    <2> QED BY <1>2, <1>3, <1>5, Flattened
<1>7. UNION {ToSet(lists[i]) : i \in 1..n} = UNION {ToSet(deposits[i].commitments) : i \in DOMAIN deposits}
    <2> HIDE DEF lists, n
    <2> QED BY <1>2, <1>4
<1> QED BY <1>6, <1>7 DEF CommitmentsOut

(* A batch of sweeps comes with the note of each.                          *)
LEMMA PortalLeaves ==
    ASSUME NEW batch \in PortalDepositBatches
    PROVE  /\ IsList(batch.commitmentsOut) /\ IsList(batch.deposits)
           /\ ToSet(batch.deposits) \subseteq Sweeps
           /\ DOMAIN batch.commitmentsOut = DOMAIN batch.deposits
           /\ \A i \in DOMAIN batch.deposits :
                batch.commitmentsOut[i] = PortalNote(batch.deposits[i],
                    batch.deposits[i].recipientBindH[1], batch.deposits[i].recipientBindH[2])
           /\ \A d \in ToSet(batch.deposits) :
                PortalNote(d, d.recipientBindH[1], d.recipientBindH[2]) \in ToSet(batch.commitmentsOut)
<1> DEFINE Notes(deposits, w) ==
            [i \in DOMAIN deposits |-> PortalNote(deposits[i], w[i].recipientMPK, w[i].blind)]
           Witnesses(deposits) ==
            {w \in [DOMAIN deposits -> [recipientMPK : {d.recipientBindH[1] : d \in Sweeps},
                                        blind : {d.recipientBindH[2] : d \in Sweeps}]] :
                processDeposits(deposits, Notes(deposits, w), w)}
           Batches(deposits) ==
            {[deposits |-> deposits, commitmentsOut |-> Notes(deposits, w)] : w \in Witnesses(deposits)}
<1>0. PICK deposits \in Lists(Sweeps, MaxDeposits) : batch \in Batches(deposits)
    BY DEF PortalDepositBatches
<1>1. PICK w \in Witnesses(deposits) :
        batch = [deposits |-> deposits, commitmentsOut |-> Notes(deposits, w)]
    BY <1>0
<1> DEFINE n == Len(deposits)
           notes == Notes(deposits, w)
<1>2. MaxDeposits \in Nat
    BY BoundsAssumption
<1>3. /\ n \in Nat /\ n # 0 /\ DOMAIN deposits = 1..n /\ ToSet(deposits) \subseteq Sweeps
      /\ IsList(deposits)
    BY <1>2, ListsAre
<1>4. IsList(notes)
    <2>1. DOMAIN notes = 1..n /\ notes = [i \in 1..n |-> notes[i]]
        BY <1>3
    <2> HIDE DEF notes, n
    <2> QED BY <1>3, <2>1, Made
<1>5. ASSUME NEW i \in DOMAIN deposits
      PROVE  notes[i] = PortalNote(deposits[i], deposits[i].recipientBindH[1], deposits[i].recipientBindH[2])
    BY <1>1 DEF processDeposits, recipientBindH
<1>6. batch.deposits = deposits /\ batch.commitmentsOut = notes
    BY <1>1
<1> HIDE DEF notes
<1>7. DOMAIN notes = DOMAIN deposits
    BY DEF notes
<1> QED BY <1>3, <1>4, <1>5, <1>6, <1>7 DEF ToSet

LEMMA SubmitEpochKeeps ==
    ASSUME Typed, NEW provingTime, SubmitEpoch(provingTime)
    PROVE  Kept
<1>1. PICK slots, feeTokens, feeNPK :
        IsEpoch(slots, feeTokens, feeNPK, provingTime) /\ EpochWrites(slots, feeTokens, feeNPK)
    BY EpochIs
<1>2. PICK leaves : leaves = pendingLeaves(slots, feeTokens, feeNPK)
    OBVIOUS
<1>3. IsList(leaves) /\ AppendLeaves(leaves)
    BY <1>1, <1>2, EpochLeaves DEF EpochWrites
<1>4. /\ DOMAIN trees' = TreeNumber /\ trees' = [k \in TreeNumber |-> trees'[k]]
      /\ \A k \in TreeNumber : IsList(trees'[k]) /\ Len(trees'[k]) <= TreeCapacity
      /\ TreesGrow
    BY <1>3, AppendGrows
<1>5. paid' \in [Recipient -> [Token -> Nat]]
    BY <1>1, EpochPays DEF EpochWrites
<1>6. UNCHANGED <<forced, signatures, approvals, now>>
    BY DEF SubmitEpoch
<1> QED BY <1>4, <1>5, <1>6 DEF Kept, Typed

LEMMA SubmitDepositEpochKeeps ==
    ASSUME Typed, NEW deposits \in DepositBatches, SubmitDepositEpoch(deposits)
    PROVE  Kept
<1>1. PICK leaves : leaves = CommitmentsOut(deposits)
    OBVIOUS
<1>2. IsList(leaves) /\ AppendLeaves(leaves)
    BY <1>1, DepositLeaves DEF SubmitDepositEpoch
<1>3. /\ DOMAIN trees' = TreeNumber /\ trees' = [k \in TreeNumber |-> trees'[k]]
      /\ \A k \in TreeNumber : IsList(trees'[k]) /\ Len(trees'[k]) <= TreeCapacity
      /\ TreesGrow
    BY <1>2, AppendGrows
<1>4. UNCHANGED <<forced, signatures, approvals, now, paid>>
    BY DEF SubmitDepositEpoch
<1> QED BY <1>3, <1>4 DEF Kept, Typed

LEMMA SubmitPortalDepositEpochKeeps ==
    ASSUME Typed, NEW batch \in PortalDepositBatches, SubmitPortalDepositEpoch(batch)
    PROVE  Kept
<1>1. PICK leaves : leaves = batch.commitmentsOut
    OBVIOUS
<1>2. IsList(leaves) /\ AppendLeaves(leaves)
    BY <1>1, PortalLeaves DEF SubmitPortalDepositEpoch
<1>3. /\ DOMAIN trees' = TreeNumber /\ trees' = [k \in TreeNumber |-> trees'[k]]
      /\ \A k \in TreeNumber : IsList(trees'[k]) /\ Len(trees'[k]) <= TreeCapacity
      /\ TreesGrow
    BY <1>2, AppendGrows
<1>4. UNCHANGED <<forced, signatures, approvals, now, paid>>
    BY DEF SubmitPortalDepositEpoch
<1> QED BY <1>3, <1>4 DEF Kept, Typed

LEMMA ExecuteKeeps ==
    ASSUME ConsentInv, NEW request \in forced, ExecuteForcedWithdrawal(request)
    PROVE  /\ Kept
           /\ \E to \in Recipient, t \in Token, amount \in Nat :
                /\ request.digest.payout = <<to, t, amount>>
                /\ paid'[to][t] = paid[to][t] + amount
<1>1. PICK to \in Recipient, t \in Token, amount \in Nat : request.digest.payout = <<to, t, amount>>
    BY DEF ConsentInv, ForcedAsConsented, AsConsented
<1>2. paid' = [paid EXCEPT ![to][t] = @ + amount]
    BY <1>1 DEF ExecuteForcedWithdrawal
<1>3. paid \in [Recipient -> [Token -> Nat]]
    BY DEF ConsentInv, Typed
<1>4. paid' \in [Recipient -> [Token -> Nat]] /\ paid'[to][t] = paid[to][t] + amount
    BY <1>2, <1>3
<1>5. UNCHANGED <<trees, signatures, approvals, now>> /\ forced' = forced \ {request}
    BY DEF ExecuteForcedWithdrawal
<1>6. Kept
    BY <1>4, <1>5, TreesAsTheyWere DEF Kept, ConsentInv, Typed
<1> QED BY <1>1, <1>4, <1>6

LEMMA StepKeeps ==
    ASSUME ConsentInv, [Next]_vars
    PROVE  Kept
<1> USE DEF ConsentInv
<1>1. ASSUME NEW leaf \in KeyLeaves, Sign(leaf) PROVE Kept
    BY <1>1, TreesAsTheyWere DEF Sign, Kept, Typed
<1>2. ASSUME NEW a \in Account, NEW expiry \in Expiries, Approve(a, expiry) PROVE Kept
    <2>1. PICK digest, shown :
            approvals' = approvals \cup
                {[kind |-> "approval", account |-> a, expiry |-> expiry,
                  batch |-> {[digest |-> digest, blinding |-> shown]}]}
        BY <1>2 DEF Approve
    <2>2. \A leaf \in approvals' :
            leaf.kind = "approval" /\ leaf.account \in Account /\ leaf.expiry \in Nat
        BY <2>1, BoundsAssumption DEF Typed
    <2>3. UNCHANGED <<trees, forced, signatures, now, paid>>
        BY <1>2 DEF Approve
    <2> QED BY <2>1, <2>2, <2>3, TreesAsTheyWere DEF Kept, Typed
<1>3. ASSUME NEW time \in ProvingTimes, SubmitEpoch(time) PROVE Kept
    BY <1>3, SubmitEpochKeeps
<1>4. ASSUME NEW deposits \in DepositBatches, SubmitDepositEpoch(deposits) PROVE Kept
    BY <1>4, SubmitDepositEpochKeeps
<1>5. ASSUME NEW batch \in PortalDepositBatches, SubmitPortalDepositEpoch(batch) PROVE Kept
    BY <1>5, SubmitPortalDepositEpochKeeps
<1>6. ASSUME NEW leaf \in authLeaves, RequestForcedWithdrawal(leaf) PROVE Kept
    <2>1. leaf.account \in Account
        BY KeysAssumption DEF authLeaves, Typed
    <2>2. \A request \in forced' : request \in forced \/ AsConsented(request)
        BY <1>6, <2>1, RequestIsConsented
    <2>3. UNCHANGED <<trees, signatures, approvals, now, paid>>
        BY <1>6 DEF RequestForcedWithdrawal
    <2> QED BY <2>2, <2>3, TreesAsTheyWere DEF Kept, Typed
<1>7. ASSUME NEW request \in forced, ExecuteForcedWithdrawal(request) PROVE Kept
    BY <1>7, ExecuteKeeps
<1>8. CASE Tick
    BY <1>8, TreesAsTheyWere DEF Tick, Kept, Typed
<1>9. CASE UNCHANGED vars
    BY <1>9, TreesAsTheyWere DEF vars, Kept, Typed
<1> QED BY <1>1, <1>2, <1>3, <1>4, <1>5, <1>6, <1>7, <1>8, <1>9 DEF Next

(* Whatever is outstanding was consented to by the owner of its notes.     *)
THEOREM ConsentInvariant == Spec => []ConsentInv
<1>1. Init => ConsentInv
    <2> SUFFICES ASSUME Init PROVE ConsentInv
        OBVIOUS
    <2>1. /\ IsList(LegacyTree) /\ Len(LegacyTree) <= TreeCapacity
          /\ IsList(<<>>) /\ Len(<<>>) <= TreeCapacity
        BY LegacyAssumption DEF IsList, ToSet
    <2>2. DOMAIN trees = TreeNumber /\ trees = [k \in TreeNumber |-> trees[k]]
        BY DEF Init
    <2>3. \A k \in TreeNumber : IsList(trees[k]) /\ Len(trees[k]) <= TreeCapacity
        BY <2>1 DEF Init
    <2>4. paid \in [Recipient -> [Token -> Nat]] /\ now \in Nat
        BY DEF Init
    <2> QED BY <2>2, <2>3, <2>4 DEF Init, ConsentInv, Typed, ForcedAsConsented
<1>2. ConsentInv /\ [Next]_vars => ConsentInv'
    <2> SUFFICES ASSUME ConsentInv, [Next]_vars PROVE ConsentInv'
        OBVIOUS
    <2>1. Kept
        BY StepKeeps
    <2>2. ASSUME NEW request \in forced' PROVE AsConsented(request)'
        <3>1. AsConsented(request)
            BY <2>1 DEF Kept, ConsentInv, ForcedAsConsented
        <3> QED BY <2>1, <3>1, RequestsStay DEF Kept
    <2> QED BY <2>1, <2>2 DEF ConsentInv, ForcedAsConsented, Kept
<1> QED BY <1>1, <1>2, PTL DEF Spec

-----------------------------------------------------------------------------
(* What is spent.                                                          *)

(* Notes are spent by transfers and by forced withdrawals, and by nothing  *)
(* else.                                                                   *)
LEMMA SpendersAre ==
    ASSUME [Next]_vars, NEW a, NEW n \in SpentOf(a)
    PROVE  \/ \E time \in ProvingTimes : SubmitEpoch(time)
           \/ \E request \in forced : ExecuteForcedWithdrawal(request)
<1>1. nullifierSpent' # nullifierSpent
    BY DEF SpentOf, NewlySpent
<1>2. /\ \A leaf \in KeyLeaves : ~Sign(leaf)
      /\ \A b \in Account, expiry \in Expiries : ~Approve(b, expiry)
      /\ \A deposits \in DepositBatches : ~SubmitDepositEpoch(deposits)
      /\ \A batch \in PortalDepositBatches : ~SubmitPortalDepositEpoch(batch)
      /\ \A leaf \in authLeaves : ~RequestForcedWithdrawal(leaf)
      /\ ~Tick /\ ~UNCHANGED vars
    BY <1>1 DEF Sign, Approve, SubmitDepositEpoch, SubmitPortalDepositEpoch,
                RequestForcedWithdrawal, Tick, vars
<1> QED BY <1>2 DEF Next

(* A forced withdrawal that is executed is one that the owner of the notes *)
(* asked for, and it is paid.                                              *)
LEMMA SpentByRequest ==
    ASSUME ConsentInv, NEW request \in forced, ExecuteForcedWithdrawal(request),
           NEW a \in Honest, NEW n \in SpentOf(a)
    PROVE  /\ n \in ToSet(request.digest.nullifiers) /\ request.digest.kind = "forced"
           /\ CarriedOut(request.digest)
           /\ \E c \in Consents(a) :
                c.digest = request.digest /\ (c.expiry = 0 \/ request.at <= c.expiry)
<1>1. AsConsented(request)
    BY DEF ConsentInv, ForcedAsConsented
<1>2. /\ ToSet(request.digest.nullifiers) \subseteq NewlySpent
      /\ n \in ToSet(request.digest.nullifiers)
    BY DEF ExecuteForcedWithdrawal, NewlySpent, SpentOf
<1>3. request.digest.account = a
    <2>1. PICK b : b = request.digest.account
        OBVIOUS
    <2>2. NoteOf(b, n)
        BY <1>1, <1>2, <2>1 DEF AsConsented
    <2> QED BY <2>1, <2>2, NoteHasOneOwner
<1>4. CarriedOut(request.digest)
    <2>1. PICK to \in Recipient, t \in Token, amount \in Nat :
            /\ request.digest.payout = <<to, t, amount>>
            /\ paid'[to][t] = paid[to][t] + amount
        BY ExecuteKeeps
    <2>2. paid[to][t] \in Nat
        BY DEF ConsentInv, Typed
    <2>3. request.digest.outs = <<>>
        BY <1>1 DEF AsConsented
    <2>4. paid'[to][t] >= paid[to][t] + amount
        BY <2>1, <2>2
    <2> QED BY <1>2, <2>1, <2>3, <2>4 DEF CarriedOut
<1>5. Consented(request)
    BY <1>1, <1>3 DEF AsConsented
<1> QED BY <1>1, <1>2, <1>3, <1>4, <1>5 DEF Consented, AsConsented

(* What SpentAsSigned says of a step.                                      *)
SpentAsConsented ==
    \A a \in Honest : \A n \in SpentOf(a) :
            \E c \in Consents(a) :
                /\ n \in ToSet(c.digest.nullifiers)
                /\ CarriedOut(c.digest)
                /\ InForce(c.digest, c.expiry)

(* A note of an honest account is spent only by carrying out, in the same  *)
(* step, in full and before it lapses, something its owner consented to    *)
(* (EpochCircuit.verifyAuth and processTransfers, ForcedCircuit, and the   *)
(* digests the contract computes for them).                                *)
THEOREM SpentAsOwnersSigned == Spec => SpentAsSigned
<1>1. ConsentInv /\ [Next]_vars => SpentAsConsented
    <2> SUFFICES ASSUME ConsentInv, [Next]_vars, NEW a \in Honest, NEW n \in SpentOf(a)
                 PROVE  \E c \in Consents(a) :
                            /\ n \in ToSet(c.digest.nullifiers)
                            /\ CarriedOut(c.digest) /\ InForce(c.digest, c.expiry)
        BY DEF SpentAsConsented
    <2>1. ASSUME NEW time \in ProvingTimes, SubmitEpoch(time)
          PROVE  \E c \in Consents(a) :
                    /\ n \in ToSet(c.digest.nullifiers)
                    /\ CarriedOut(c.digest) /\ InForce(c.digest, c.expiry)
        <3>1. PICK slots, feeTokens, feeNPK :
                IsEpoch(slots, feeTokens, feeNPK, time) /\ EpochWrites(slots, feeTokens, feeNPK)
            BY <2>1, EpochIs
        <3>2. PICK s \in ToSet(slots) : s.account = a /\ n \in ToSet(Nullifiers(s))
            BY <3>1, SpentByTransfer
        <3>3. PICK c \in Consents(a) :
                c.digest = Digest(s) /\ (c.expiry = 0 \/ now <= c.expiry + MaxProofAge)
            BY <3>1, <3>2, OwnerAuthorized DEF ConsentInv
        <3>4. CarriedOut(c.digest)
            BY <3>1, <3>3, EpochCarriesOut DEF ConsentInv
        <3>5. c.digest.nullifiers = Nullifiers(s) /\ c.digest.kind # "forced"
            BY <3>3 DEF Digest
        <3> QED BY <3>2, <3>3, <3>4, <3>5 DEF InForce
    <2>2. ASSUME NEW request \in forced, ExecuteForcedWithdrawal(request)
          PROVE  \E c \in Consents(a) :
                    /\ n \in ToSet(c.digest.nullifiers)
                    /\ CarriedOut(c.digest) /\ InForce(c.digest, c.expiry)
        <3>1. PICK c \in Consents(a) :
                c.digest = request.digest /\ (c.expiry = 0 \/ request.at <= c.expiry)
            BY <2>2, SpentByRequest
        <3> QED BY <2>2, <3>1, SpentByRequest DEF InForce
    <2> QED BY <2>1, <2>2, SpendersAre
<1> QED BY <1>1, ConsentInvariant, PTL DEF Spec, SpentAsSigned, SpentAsConsented

-----------------------------------------------------------------------------
(* Sweeps.                                                                 *)

(* The randomness of a note can be told from its key.                      *)
LEMMA RandomnessShows ==
    ASSUME NEW m, NEW k, NEW b, NEW p, NEW i, NEW c, NEW q, NEW j,
           NPK(m, noteRnd(b, p, i)) = NPK(k, noteRnd(c, q, j))
    PROVE  p = q /\ i = j
BY DEF NPK, Reserved, noteRnd

SweepsCredited == \A d \in Sweeps \ pendingSweeps : NotesFor(d) # {}

(* The note of a sweep stays where it is.                                  *)
LEMMA NotesForStay ==
    ASSUME TreesGrow, NEW d, NotesFor(d) # {}
    PROVE  NotesFor(d)' # {}
<1>1. PICK p \in Positions : LeafAt(p) = PortalNote(d, d.recipientBindH[1], d.recipientBindH[2])
    BY DEF NotesFor
<1>2. p[1] \in TreeNumber /\ p[2] \in DOMAIN trees[p[1]]
    BY <1>1 DEF Positions
<1>3. p[2] \in DOMAIN trees'[p[1]] /\ trees'[p[1]][p[2]] = trees[p[1]][p[2]]
    BY <1>2 DEF TreesGrow
<1>4. p \in Positions' /\ LeafAt(p)' = LeafAt(p)
    BY <1>1, <1>3 DEF Positions, LeafAt
<1> QED BY <1>1, <1>4 DEF NotesFor

LEMMA SweepsStayCredited ==
    ASSUME ConsentInv, SweepsCredited, [Next]_vars
    PROVE  SweepsCredited'
<1>1. Kept
    BY StepKeeps
<1> SUFFICES ASSUME NEW d \in Sweeps, d \notin pendingSweeps' PROVE NotesFor(d)' # {}
    BY DEF SweepsCredited
<1>2. CASE d \notin pendingSweeps
    BY <1>1, <1>2, NotesForStay DEF Kept, SweepsCredited
<1>3. CASE d \in pendingSweeps
    <2>1. pendingSweeps' # pendingSweeps
        BY SMTT(30), <1>3
    <2>2. PICK batch \in PortalDepositBatches : SubmitPortalDepositEpoch(batch)
        BY <2>1 DEF Next, vars, Sign, Approve, SubmitEpoch, SubmitDepositEpoch,
                    RequestForcedWithdrawal, ExecuteForcedWithdrawal, Tick
    <2>3. d \in ToSet(batch.deposits)
        BY <1>3, <2>2 DEF SubmitPortalDepositEpoch
    <2>4. PICK leaves, note : /\ leaves = batch.commitmentsOut
                              /\ note = PortalNote(d, d.recipientBindH[1], d.recipientBindH[2])
        OBVIOUS
    <2>5. IsList(leaves) /\ AppendLeaves(leaves) /\ note \in ToSet(leaves)
        BY <2>2, <2>3, <2>4, PortalLeaves DEF SubmitPortalDepositEpoch
    <2>6. note \in NewLeaves
        BY <2>5, AppendGrows DEF ConsentInv
    <2>7. PICK k \in TreeNumber : \E i \in DOMAIN trees'[k] : trees'[k][i] = note
        BY <2>6 DEF NewLeaves
    <2>8. PICK i \in DOMAIN trees'[k] : trees'[k][i] = note
        BY <2>7
    <2>9. <<k, i>> \in Positions' /\ LeafAt(<<k, i>>)' = note
        <3>1. Typed'
            BY <1>1 DEF Kept
        <3>2. Len(trees'[k]) \in Nat /\ DOMAIN trees'[k] = 1..Len(trees'[k]) /\ Len(trees'[k]) <= TreeCapacity
            BY <3>1, Lengths DEF Typed
        <3>3. i \in 1..TreeCapacity
            BY <3>2, LegacyAssumption
        <3> QED BY <2>8, <3>3 DEF Positions, LeafAt
    <2> QED BY <2>4, <2>9 DEF NotesFor
<1> QED BY <1>2, <1>3

(* Each sweep that was credited has a note, and sweeps of different        *)
(* portals, or of one portal at different times, never share one           *)
(* (PortalDepositCircuit.processDeposits, noteRnd).                        *)
THEOREM SweepsHaveNotes == Spec => []PortalNotesDistinct
<1>1. Init => SweepsCredited
    BY DEF Init, SweepsCredited
<1>2. ConsentInv /\ SweepsCredited /\ [Next]_vars => SweepsCredited'
    BY SweepsStayCredited
<1>3. SweepsCredited => PortalNotesDistinct
    <2> SUFFICES ASSUME NEW d \in Sweeps, NEW e \in Sweeps, d # e,
                        NEW p \in NotesFor(d) \cap NotesFor(e)
                 PROVE  FALSE
        BY DEF SweepsCredited, PortalNotesDistinct
    <2>1. PortalNote(d, d.recipientBindH[1], d.recipientBindH[2])
            = PortalNote(e, e.recipientBindH[1], e.recipientBindH[2])
        BY DEF NotesFor
    <2>2. d.portal = e.portal /\ d.counter = e.counter
        BY <2>1, RandomnessShows DEF PortalNote, Commitment
    <2> QED BY <2>2, SweepsAssumption
<1> QED BY <1>1, <1>2, <1>3, ConsentInvariant, PTL DEF Spec

-----------------------------------------------------------------------------
(* Fees.                                                                   *)

(* A sum of n numbers up to m is at most n times m.                        *)
LEMMA TotalBounded ==
    ASSUME NEW f, NEW S, IsFiniteSet(S), NEW m \in Nat, \A x \in S : f[x] \in 0..m
    PROVE  Total(f, S) \in Nat /\ Total(f, S) <= Cardinality(S) * m
<1> DEFINE Good == {T \in SUBSET S : Total(f, T) \in Nat /\ Total(f, T) <= Cardinality(T) * m}
<1>1. ASSUME NEW T \in SUBSET S, \A U \in SUBSET T : U # T => U \in Good
      PROVE  T \in Good
    <2>1. CASE T = {}
        <3>1. Total(f, T) = 0 /\ Cardinality(T) = 0
            BY <2>1, TotalEmpty, FS_EmptySet
        <3> QED BY <3>1
    <2>2. CASE T # {}
        <3> DEFINE x == OneOf(T)
                   U == T \ {x}
        <3>1. x \in T /\ IsFiniteSet(T)
            BY <2>2, OneOfIsElement, FS_Subset
        <3>2. U \in Good
            BY <1>1, <3>1
        <3>3. Total(f, T) = f[x] + Total(f, U) /\ f[x] \in 0..m
            BY <2>2, <3>1, TotalStep
        <3>4. Cardinality(U) = Cardinality(T) - 1 /\ Cardinality(T) \in Nat /\ Cardinality(U) \in Nat
            BY <3>1, FS_RemoveElement, FS_CardinalityType, FS_Subset
        <3> HIDE DEF x, U
        <3>5. PICK c \in Nat, d \in Nat, total \in Nat :
                c = Cardinality(T) /\ d = Cardinality(U) /\ total = Total(f, U)
            BY <3>2, <3>4
        <3>6. c = d + 1 /\ total <= d * m
            BY <3>2, <3>4, <3>5
        <3>7. c * m = d * m + m /\ d * m \in Nat /\ c * m \in Nat
            BY <3>6
        <3>8. Total(f, T) \in Nat /\ Total(f, T) <= c * m
            BY <3>3, <3>5, <3>6, <3>7
        <3> QED BY <3>5, <3>8
    <2> QED BY <2>1, <2>2
<1> HIDE DEF Good
<1>2. S \in Good
    BY <1>1, SubsetInduction
<1> QED BY <1>2 DEF Good

(* Sums of few amounts do not wrap.                                        *)
LEMMA FieldSumIsTotal ==
    ASSUME NEW f, NEW n \in Nat, DOMAIN f = 1..n, \A i \in 1..n : IsAmount(f[i]),
           n * MaxAmount < Modulus
    PROVE  /\ FieldSum(f) = Total(f, 1..n) /\ FieldSum(f) \in Nat
           /\ FieldSum(f) <= n * MaxAmount
<1> DEFINE S == 1..n
           body(g) == [T \in SUBSET S |->
                            IF T = {} THEN 0
                            ELSE LET x == CHOOSE x \in T : TRUE IN Plus(f[x], g[T \ {x}])]
           iter == CHOOSE g : g = body(g)
<1>1. FieldSum(f) = iter[S]
    BY DEF FieldSum, FoldSeq, FoldFunction, FoldFunctionOnSet, MapThenFoldSet
<1>2. /\ IsFiniteSet(S) /\ Cardinality(S) = n
      /\ MaxAmount \in Nat /\ Modulus \in Nat /\ \A i \in S : f[i] \in 0..MaxAmount
    BY FS_Interval, ModulusAssumption DEF IsAmount
<1>3. ASSUME NEW T \in SUBSET S
      PROVE  Total(f, T) \in 0..Modulus - 1 /\ Total(f, T) <= n * MaxAmount
    <2>1. IsFiniteSet(T) /\ Cardinality(T) \in Nat /\ Cardinality(T) <= n
        <3>1. IsFiniteSet(T) /\ Cardinality(T) <= Cardinality(S)
            BY <1>2, FS_Subset
        <3> QED BY <1>2, <3>1, FS_CardinalityType
    <2>2. Total(f, T) \in Nat /\ Total(f, T) <= Cardinality(T) * MaxAmount
        BY <1>2, <2>1, TotalBounded
    <2>3. PICK c \in Nat, d \in Nat : c = Cardinality(T) /\ n = c + d
        <3>1. n - Cardinality(T) \in Nat /\ n = Cardinality(T) + (n - Cardinality(T))
            BY <2>1
        <3> QED BY <2>1, <3>1
    <2>4. n * MaxAmount = c * MaxAmount + d * MaxAmount /\ d * MaxAmount \in Nat /\ c * MaxAmount \in Nat
        BY SMTT(30), <1>2, <2>3
    <2> QED BY SMTT(30), <1>2, <2>2, <2>3, <2>4
<1>4. ASSUME NEW T \in SUBSET S, T # {}
      PROVE  Total(f, T) = Plus(f[OneOf(T)], Total(f, T \ {OneOf(T)}))
    <2>1. IsFiniteSet(T) /\ OneOf(T) \in S /\ T \ {OneOf(T)} \in SUBSET S
        BY <1>2, <1>4, FS_Subset, OneOfIsElement
    <2>2. Total(f, T) = f[OneOf(T)] + Total(f, T \ {OneOf(T)})
        BY <1>4, <2>1, TotalStep
    <2>3. PICK v \in Nat : v = Total(f, T)
        BY <1>3
    <2>4. v \in 0..Modulus - 1
        BY <1>3, <2>3
    <2>5. v % Modulus = v
        BY <1>2, <2>4
    <2> QED BY <2>2, <2>3, <2>5 DEF Plus
<1> DEFINE g0 == [T \in SUBSET S |-> Total(f, T)]
<1>5. g0 = body(g0)
    <2>1. ASSUME NEW T \in SUBSET S
          PROVE  Total(f, T) = IF T = {} THEN 0 ELSE Plus(f[OneOf(T)], g0[T \ {OneOf(T)}])
        <3>1. CASE T = {}
            BY <3>1, TotalEmpty
        <3>2. CASE T # {}
            BY <1>4, <3>2
        <3> QED BY <3>1, <3>2
    <2> QED BY <2>1 DEF OneOf
<1>6. iter = body(iter)
    <2> HIDE DEF body, g0
    <2> QED BY <1>5
<1>7. \A T \in SUBSET S : iter[T] = IF T = {} THEN 0 ELSE Plus(f[OneOf(T)], iter[T \ {OneOf(T)}])
    <2> HIDE DEF iter
    <2> QED BY <1>6 DEF OneOf
<1> DEFINE Good == {T \in SUBSET S : iter[T] = Total(f, T)}
<1> HIDE DEF iter, S
<1>8. ASSUME NEW T \in SUBSET S, \A U \in SUBSET T : U # T => U \in Good
      PROVE  T \in Good
    <2>1. CASE T = {}
        BY <1>7, <2>1, TotalEmpty
    <2>2. CASE T # {}
        <3>1. T \ {OneOf(T)} \in Good
            BY <1>8, <2>2, OneOfIsElement
        <3> QED BY <1>4, <1>7, <2>2, <3>1
    <2> QED BY <2>1, <2>2
<1>9. S \in Good
    <2> HIDE DEF Good
    <2> QED BY <1>2, <1>8, SubsetInduction
<1> QED BY <1>1, <1>3, <1>9 DEF S

-----------------------------------------------------------------------------
(* What owners who approve are shown.                                      *)

NoteValueAt(n) == trees[n[1]][n[3]].value

ValuesAt(S) == [n \in S |-> NoteValueAt(n)]

(* Notes may be counted by the inputs that they are.                       *)
LEMMA SpentValuesAddUp ==
    ASSUME NEW ns, NEW k \in Nat, DOMAIN ns = 1..k, IsInjective(ns),
           NEW values, \A i \in 1..k : NoteValueAt(ns[i]) = values[i] /\ values[i] \in Int
    PROVE  SumFunction(ValuesAt(ToSet(ns))) = Total(values, 1..k)
<1> DEFINE S == 1..k
           f == ValuesAt(ToSet(ns))
<1>1. ToSet(ns) = {ns[i] : i \in S}
    BY DEF ToSet
<1>2. IsFiniteSet(S)
    BY FS_Interval
<1>3. \A i \in S : f[ns[i]] = values[i] /\ values[i] \in Int
    BY <1>1 DEF ValuesAt
<1>4. \A i, j \in S : ns[i] = ns[j] => i = j
    BY DEF IsInjective
<1>5. DOMAIN f = ToSet(ns)
    BY DEF ValuesAt
<1> HIDE DEF S, f
<1>6. IsFiniteSet({ns[i] : i \in S}) /\ Total(f, {ns[i] : i \in S}) = Total(values, S)
    <2>1. PICK g : g = f
        OBVIOUS
    <2>2. \A i \in S : g[ns[i]] = values[i] /\ values[i] \in Int
        BY <1>3, <2>1
    <2>3. Total(g, {ns[i] : i \in S}) = Total(values, S)
        BY <1>2, <1>4, <2>2, TotalRenamed
    <2>4. IsFiniteSet({ns[i] : i \in S})
        BY <1>2, FiniteImage
    <2> QED BY <2>1, <2>3, <2>4
<1>7. SumFunction(f) = Total(f, ToSet(ns))
    BY <1>1, <1>5, <1>6, SumIsTotal
<1> QED BY <1>1, <1>6, <1>7 DEF S, f

(* The notes a transfer spends are of its token and of its owner's key,    *)
(* and of the values it opens them with.                                   *)
LEMMA InputsAsOpened ==
    ASSUME NEW s, IsInputList(s.inputs, s.account, s.nk, s.token), NEW b \in Account, s.nk = NullifyingKey[b],
           NEW i \in DOMAIN s.inputs
    PROVE  LET n == Nullifiers(s)[i]
           IN  /\ trees[n[1]][n[3]].token = s.token
               /\ trees[n[1]][n[3]].npk[1] = MPK(s.account, s.nk)
               /\ trees[n[1]][n[3]].value = s.inputs[i].value
               /\ IsAmount(s.inputs[i].value)
<1> DEFINE input == s.inputs[i]
           n == Nullifiers(s)[i]
<1>1. input \in Inputs /\ InputNote(s.account, s.nk, s.token, input, knownRoots)
    BY DEF IsInputList
<1>2. n = Nullifier(input.treeNumber, s.nk, input.index)
    BY DEF Nullifiers, NullifiersOf
<1>3. n[1] = input.treeNumber /\ n[3] = input.index
    BY <1>2 DEF Nullifier
<1>4. input.leaves = trees[input.treeNumber]
    BY <1>1, InputIsNote
<1>5. PICK leaf : leaf = trees[n[1]][n[3]]
    OBVIOUS
<1>6. leaf = Commitment(NPK(MPK(s.account, s.nk), input.rnd), s.token, input.value)
    BY <1>1, <1>3, <1>4, <1>5 DEF InputNote
<1>7. IsSpendable(NPK(MPK(s.account, s.nk), input.rnd)) /\ IsAmount(input.value)
    BY <1>1 DEF InputNote
<1>8. NPK(MPK(s.account, s.nk), input.rnd) = <<MPK(s.account, s.nk), input.rnd>>
    BY <1>7, GroundAssumption DEF NPK, IsSpendable
<1>9. leaf.token = s.token /\ leaf.value = input.value /\ leaf.npk[1] = MPK(s.account, s.nk)
    BY SMTT(30), <1>6, <1>8 DEF Commitment
<1> QED BY <1>5, <1>7, <1>9

(* The sums of a transfer do not wrap: it spends notes worth its outputs   *)
(* and its fee.                                                            *)
LEMMA TransferBalances ==
    ASSUME NEW slots, NEW feeTokens, NEW feeNPK, NEW provingTime,
           IsEpoch(slots, feeTokens, feeNPK, provingTime), NEW s \in ToSet(slots)
    PROVE  /\ Len(s.inputs) \in Nat /\ DOMAIN s.inputs = 1..Len(s.inputs)
           /\ DOMAIN Nullifiers(s) = 1..Len(s.inputs) /\ IsInjective(Nullifiers(s))
           /\ \A i \in 1..Len(s.inputs) :
                /\ trees[Nullifiers(s)[i][1]][Nullifiers(s)[i][3]].token = s.token
                /\ trees[Nullifiers(s)[i][1]][Nullifiers(s)[i][3]].npk[1] = MPK(s.account, s.nk)
                /\ trees[Nullifiers(s)[i][1]][Nullifiers(s)[i][3]].value = s.inputs[i].value
                /\ s.inputs[i].value \in Nat
           /\ Len(s.outputs) \in Nat \ {0} /\ DOMAIN s.outputs = 1..Len(s.outputs)
           /\ \A j \in 1..Len(s.outputs) : s.outputs[j].value \in Nat
           /\ FieldSum(ValuesOf(s.inputs)) = Total(ValuesOf(s.inputs), 1..Len(s.inputs))
           /\ FieldSum(ValuesOf(s.outputs)) = Total(ValuesOf(s.outputs), 1..Len(s.outputs))
           /\ FieldSum(ValuesOf(s.outputs)) \in Nat
           /\ s.fee \in 0..MaxAmount
           /\ FieldSum(ValuesOf(s.inputs)) = FieldSum(ValuesOf(s.outputs)) + s.fee
<1> DEFINE ns == Nullifiers(s)
           k == Len(s.inputs)
           m == Len(s.outputs)
<1>1. /\ s \in SlotsOf(Account) /\ Transfer(s, knownRoots) /\ IsInjective(ns)
      /\ DOMAIN Outs(s) = DOMAIN s.outputs
    BY TransferIs DEF IsEpoch, ToSet
<1>2. /\ k \in 1..MaxInputs /\ m \in 1..MaxOutputs /\ OutputNotes(s) /\ applyFee(s)
      /\ MaxInputs \in Nat /\ MaxOutputs \in Nat /\ MaxAmount \in Nat /\ Modulus \in Nat
    BY <1>1, BoundsAssumption, ModulusAssumption DEF Transfer
<1>3. IsInputList(s.inputs, s.account, s.nk, s.token) /\ s.outputs \in OutputLists
    BY <1>1, <1>2, SlotsAre
<1>4. PICK b \in Account : s.nk = NullifyingKey[b]
    BY <1>1, <1>2, SlotsAre
<1>5. /\ DOMAIN s.inputs = 1..k /\ DOMAIN ns = 1..k
      /\ DOMAIN s.outputs = 1..m
    <2>1. DOMAIN s.inputs = 1..k
        BY <1>3, Lengths DEF IsInputList
    <2>2. DOMAIN ns = 1..k
        BY <2>1 DEF Nullifiers, NullifiersOf
    <2>3. s.outputs \in Seq(ToSet(s.outputs))
        BY SMTT(30), <1>3, OutputsAssumption
    <2> QED BY <2>1, <2>2, <2>3
<1>6. ASSUME NEW i \in 1..k
      PROVE  /\ trees[ns[i][1]][ns[i][3]].token = s.token
             /\ trees[ns[i][1]][ns[i][3]].npk[1] = MPK(s.account, s.nk)
             /\ trees[ns[i][1]][ns[i][3]].value = s.inputs[i].value
             /\ IsAmount(s.inputs[i].value)
    BY <1>3, <1>4, <1>5, InputsAsOpened
<1> DEFINE ins == ValuesOf(s.inputs)
           outs == ValuesOf(s.outputs)
<1>7. /\ DOMAIN ins = 1..k /\ \A i \in 1..k : ins[i] = s.inputs[i].value /\ IsAmount(ins[i])
      /\ DOMAIN outs = 1..m /\ \A j \in 1..m : IsAmount(outs[j])
    BY <1>2, <1>5, <1>6 DEF ValuesOf, OutputNotes
<1>8. /\ FieldSum(ins) = Total(ins, 1..k)
      /\ FieldSum(outs) = Total(outs, 1..m)
      /\ FieldSum(ins) \in Nat /\ FieldSum(outs) \in Nat /\ FieldSum(outs) + MaxAmount < Modulus
    <2> HIDE DEF ins, outs, k, m
    <2>1. PICK x \in Nat : MaxInputs = k + x
        <3>1. MaxInputs - k \in Nat /\ MaxInputs = k + (MaxInputs - k)
            BY <1>2
        <3> QED BY <3>1
    <2>2. PICK y \in Nat : MaxOutputs = m + y
        <3>1. MaxOutputs - m \in Nat /\ MaxOutputs = m + (MaxOutputs - m)
            BY <1>2
        <3> QED BY <3>1
    <2>3. k \in Nat /\ m \in Nat
        BY <1>2
    <2>4. /\ MaxInputs * MaxAmount = k * MaxAmount + x * MaxAmount
          /\ k * MaxAmount \in Nat /\ x * MaxAmount \in Nat
        BY <1>2, <2>1, <2>3
    <2>5. /\ (MaxOutputs + 1) * MaxAmount = m * MaxAmount + y * MaxAmount + MaxAmount
          /\ m * MaxAmount \in Nat /\ y * MaxAmount \in Nat
        BY <1>2, <2>2, <2>3
    <2>6. k * MaxAmount < Modulus /\ m * MaxAmount + MaxAmount < Modulus
        BY <1>2, <2>4, <2>5, ModulusLarge
    <2>7. FieldSum(ins) = Total(ins, 1..k) /\ FieldSum(ins) \in Nat
        BY <1>7, <2>3, <2>6, FieldSumIsTotal
    <2>8. m * MaxAmount < Modulus
        BY <1>2, <2>5, <2>6
    <2>9. /\ FieldSum(outs) = Total(outs, 1..m) /\ FieldSum(outs) \in Nat
          /\ FieldSum(outs) <= m * MaxAmount
        BY <1>7, <2>3, <2>8, FieldSumIsTotal
    <2> QED BY <1>2, <2>5, <2>6, <2>7, <2>9
<1>9. FieldSum(ins) = FieldSum(outs) + s.fee /\ s.fee \in 0..MaxAmount
    <2>1. FieldSum(ins) = Plus(FieldSum(outs), s.fee) /\ s.fee \in 0..MaxAmount
        BY <1>2 DEF applyFee, IsAmount
    <2>2. PICK v \in Nat : v = FieldSum(outs) + s.fee /\ v < Modulus
        BY <1>2, <1>8, <2>1
    <2>3. v % Modulus = v
        BY <1>2, <2>2
    <2> QED BY <1>2, <2>1, <2>2, <2>3 DEF Plus
<1>10. /\ \A i \in 1..k : s.inputs[i].value \in Nat
       /\ \A j \in 1..m : s.outputs[j].value \in Nat
    BY <1>2, <1>6 DEF IsAmount, OutputNotes
<1>11. k \in Nat /\ m \in Nat \ {0}
    BY <1>2
<1> HIDE DEF ins, outs, ns
<1> QED BY <1>1, <1>5, <1>6, <1>8, <1>9, <1>10, <1>11 DEF ins, outs, ns

(* A transfer costs what its fee says, in notes: nothing wraps.            *)
THEOREM FeeIsActual ==
    ASSUME NEW slots, NEW feeTokens, NEW feeNPK, NEW provingTime,
           IsEpoch(slots, feeTokens, feeNPK, provingTime), NEW s \in ToSet(slots)
    PROVE  /\ \A n \in ToSet(Nullifiers(s)) :
                /\ trees[n[1]][n[3]].token = s.token
                /\ trees[n[1]][n[3]].npk[1] = MPK(s.account, s.nk)
           /\ ActualFee(Digest(s)) = s.fee
<1> DEFINE ns == Nullifiers(s)
           k == Len(s.inputs)
           m == Len(s.outputs)
           ins == ValuesOf(s.inputs)
           outs == ValuesOf(s.outputs)
<1>1. /\ k \in Nat /\ DOMAIN s.inputs = 1..k /\ DOMAIN ns = 1..k /\ IsInjective(ns)
      /\ \A i \in 1..k :
            /\ trees[ns[i][1]][ns[i][3]].token = s.token
            /\ trees[ns[i][1]][ns[i][3]].npk[1] = MPK(s.account, s.nk)
            /\ NoteValueAt(ns[i]) = s.inputs[i].value /\ s.inputs[i].value \in Nat
    BY TransferBalances DEF NoteValueAt
<1>2. /\ m \in Nat /\ DOMAIN s.outputs = 1..m /\ DOMAIN Outs(s) = 1..m
      /\ FieldSum(ins) = Total(ins, 1..k) /\ FieldSum(outs) = Total(outs, 1..m)
      /\ FieldSum(outs) \in Nat /\ s.fee \in 0..MaxAmount /\ FieldSum(ins) = FieldSum(outs) + s.fee
    BY TransferBalances, TransferIs
<1>3. SumFunction(ValuesAt(ToSet(ns))) = FieldSum(ins)
    <2>1. \A i \in 1..k : NoteValueAt(ns[i]) = ins[i] /\ ins[i] \in Int
        BY <1>1 DEF ValuesOf
    <2> HIDE DEF ins, ns, k
    <2> QED BY SMTT(30), <1>1, <1>2, <2>1, SpentValuesAddUp
<1>4. SumFunction(ValuesOf(Outs(s))) = FieldSum(outs)
    <2>1. ValuesOf(Outs(s)) = outs
        BY <1>2 DEF ValuesOf, Outs, Commitment
    <2>2. DOMAIN outs = 1..m
        BY <1>2 DEF ValuesOf
    <2> HIDE DEF outs, m
    <2>3. IsFiniteSet(1..m)
        BY <1>2, FS_Interval
    <2> QED BY <1>2, <2>1, <2>2, <2>3, SumIsTotal
<1>5. ActualFee(Digest(s)) = FieldSum(ins) - FieldSum(outs)
    <2>1. Digest(s).nullifiers = ns /\ Digest(s).outs = Outs(s)
        BY DEF Digest
    <2> HIDE DEF outs, ins, ns
    <2> QED BY <1>3, <1>4, <2>1 DEF ActualFee, ValuesAt, NoteValueAt
<1>6. ActualFee(Digest(s)) = s.fee
    <2>1. s.fee \in Int
        BY <1>2, ModulusAssumption
    <2> HIDE DEF outs, ins
    <2> QED BY <1>2, <1>5, <2>1
<1>7. ToSet(ns) = {ns[i] : i \in 1..k}
    BY <1>1 DEF ToSet
<1> QED BY <1>1, <1>6, <1>7

(* What ShownIsPaid says of a step.                                        *)
PaidAsShown ==
    \A a \in Honest : ~HasKey(a) => \A n \in SpentOf(a) :
            \E leaf \in approvals : \E m \in leaf.batch :
                /\ leaf.account = a /\ n \in ToSet(m.digest.nullifiers)
                /\ CarriedOut(m.digest)
                /\ m.digest.kind = "forced" \/ TrulyShown(m.digest, m.blinding)

(* What owners who approve are shown is what they pay: in the token, with  *)
(* the fee and to the key they saw, although none of it is in the digest   *)
(* (verifyAuth with displayBlinding, applyFee).                            *)
THEOREM PaidAsOwnersWereShown == Spec => ShownIsPaid
<1>1. ConsentInv /\ [Next]_vars => PaidAsShown
    <2> SUFFICES ASSUME ConsentInv, [Next]_vars, NEW a \in Honest, ~HasKey(a), NEW n \in SpentOf(a)
                 PROVE  \E leaf \in approvals : \E m \in leaf.batch :
                            /\ leaf.account = a /\ n \in ToSet(m.digest.nullifiers)
                            /\ CarriedOut(m.digest)
                            /\ m.digest.kind = "forced" \/ TrulyShown(m.digest, m.blinding)
        BY DEF PaidAsShown
    <2>1. ASSUME NEW time \in ProvingTimes, SubmitEpoch(time)
          PROVE  \E leaf \in approvals : \E m \in leaf.batch :
                    /\ leaf.account = a /\ n \in ToSet(m.digest.nullifiers)
                    /\ CarriedOut(m.digest)
                    /\ m.digest.kind = "forced" \/ TrulyShown(m.digest, m.blinding)
        <3>1. PICK slots, feeTokens, feeNPK :
                IsEpoch(slots, feeTokens, feeNPK, time) /\ EpochWrites(slots, feeTokens, feeNPK)
            BY <2>1, EpochIs
        <3>2. PICK s \in ToSet(slots) : s.account = a /\ n \in ToSet(Nullifiers(s))
            BY <3>1, SpentByTransfer
        <3>3. PICK leaf \in approvals :
                /\ leaf.account = s.account
                /\ [digest |-> Digest(s), blinding |-> displayBlinding(s, leaf.expiry)] \in leaf.batch
            BY <3>1, <3>2, OwnerAuthorized DEF ConsentInv
        <3>4. PICK m \in leaf.batch :
                m = [digest |-> Digest(s), blinding |-> displayBlinding(s, leaf.expiry)]
            BY <3>3
        <3>5. CarriedOut(Digest(s))
            BY <3>1, <3>2, EpochCarriesOut DEF ConsentInv
        <3>6. /\ \A i \in ToSet(Nullifiers(s)) :
                    /\ trees[i[1]][i[3]].token = s.token
                    /\ trees[i[1]][i[3]].npk[1] = MPK(s.account, s.nk)
              /\ ActualFee(Digest(s)) = s.fee
            BY <3>1, <3>2, FeeIsActual
        <3>7. /\ m.digest = Digest(s) /\ m.digest.nullifiers = Nullifiers(s)
              /\ m.blinding.token = s.token /\ m.blinding.fee = s.fee
              /\ m.blinding.mpk = MPK(s.account, s.nk)
            BY <3>4 DEF Digest, displayBlinding
        <3>8. TrulyShown(m.digest, m.blinding)
            BY <3>6, <3>7 DEF TrulyShown
        <3> QED BY <3>2, <3>3, <3>5, <3>7, <3>8
    <2>2. ASSUME NEW request \in forced, ExecuteForcedWithdrawal(request)
          PROVE  \E leaf \in approvals : \E m \in leaf.batch :
                    /\ leaf.account = a /\ n \in ToSet(m.digest.nullifiers)
                    /\ CarriedOut(m.digest)
                    /\ m.digest.kind = "forced" \/ TrulyShown(m.digest, m.blinding)
        <3>1. PICK c \in Consents(a) : c.digest = request.digest
            BY <2>2, SpentByRequest
        <3>2. PICK leaf \in approvals : leaf.account = a /\ \E m \in leaf.batch : c.digest = m.digest
            BY <3>1 DEF Consents, HasKey
        <3>3. PICK m \in leaf.batch : m.digest = request.digest
            BY <3>1, <3>2
        <3> QED BY <2>2, <3>2, <3>3, SpentByRequest
    <2> QED BY <2>1, <2>2, SpendersAre
<1> QED BY <1>1, ConsentInvariant, PTL DEF Spec, ShownIsPaid, PaidAsShown

-----------------------------------------------------------------------------
(* Sums over lists.                                                        *)

(* What the members of a list count for, one by one.                       *)
SumOver(g, s) == Total([i \in DOMAIN s |-> g[s[i]]], DOMAIN s)

(* What is at the places of a list is in it.                                *)
LEMMA ListDomain ==
    ASSUME NEW s, IsList(s)
    PROVE  IsFiniteSet(DOMAIN s) /\ \A i \in DOMAIN s : s[i] \in ToSet(s)
<1>1. Len(s) \in Nat /\ DOMAIN s = 1..Len(s)
    BY Lengths
<1>2. IsFiniteSet(1..Len(s))
    BY <1>1, FS_Interval
<1> QED BY <1>1, <1>2 DEF ToSet

(* Members that count for integers count for one together.                  *)
LEMMA SumOverInt ==
    ASSUME NEW g, NEW s, IsList(s), \A x \in ToSet(s) : g[x] \in Int
    PROVE  SumOver(g, s) \in Int
<1> DEFINE f == [i \in DOMAIN s |-> g[s[i]]]
<1>1. \A i \in DOMAIN s : f[i] \in Int
    BY ListDomain
<1> HIDE DEF f
<1>2. Total(f, DOMAIN s) \in Int
    BY <1>1, ListDomain, TotalInt
<1> QED BY <1>2 DEF SumOver, f

(* An empty list counts for nothing.                                        *)
LEMMA SumOverEmpty == ASSUME NEW g PROVE SumOver(g, <<>>) = 0
<1>1. DOMAIN <<>> = {}
    OBVIOUS
<1> QED BY <1>1, TotalEmpty DEF SumOver

(* One list behind the other counts for both.                              *)
LEMMA SumOverJoined ==
    ASSUME NEW s, IsList(s), NEW u, IsList(u), NEW g,
           \A x \in ToSet(s) \cup ToSet(u) : g[x] \in Int
    PROVE  SumOver(g, s \o u) = SumOver(g, s) + SumOver(g, u)
<1> DEFINE a == Len(s)
           both == s \o u
           f == [i \in DOMAIN both |-> g[both[i]]]
           first == [i \in DOMAIN s |-> g[s[i]]]
           last == [i \in DOMAIN u |-> g[u[i]]]
           h == [j \in DOMAIN u |-> a + j]
           Behind == {h[j] : j \in DOMAIN u}
<1>1. /\ a \in Nat /\ DOMAIN s = 1..a /\ Len(u) \in Nat /\ DOMAIN u = 1..Len(u)
      /\ DOMAIN both = 1..a + Len(u)
    <2>1. IsList(both) /\ Len(both) = Len(s) + Len(u)
        BY Joined
    <2>2. DOMAIN both = 1..Len(both)
        <3> HIDE DEF both
        <3> QED BY <2>1, Lengths
    <2> QED BY <2>1, <2>2, Lengths
<1>2. /\ \A i \in DOMAIN s : i \in DOMAIN both /\ both[i] = s[i]
      /\ \A j \in DOMAIN u : a + j \in DOMAIN both /\ a + j \notin DOMAIN s /\ both[a + j] = u[j]
    BY Joined
<1>3. DOMAIN both = DOMAIN s \cup Behind /\ DOMAIN s \cap Behind = {}
    <2>1. ASSUME NEW i \in DOMAIN both, i \notin DOMAIN s PROVE i \in Behind
        <3>1. i - a \in DOMAIN u /\ a + (i - a) = i
            <4> HIDE DEF both, a
            <4> QED BY <1>1, <2>1
        <3> HIDE DEF a
        <3> QED BY <3>1
    <2> HIDE DEF both, a
    <2> QED BY <1>2, <2>1
<1>4. IsFiniteSet(DOMAIN s) /\ IsFiniteSet(DOMAIN u)
    BY ListDomain
<1>5. \A i \in DOMAIN s : f[i] = first[i] /\ f[i] \in Int
    <2> HIDE DEF both, a
    <2> QED BY <1>2, ListDomain
<1>6. \A j \in DOMAIN u : f[h[j]] = last[j] /\ last[j] \in Int
    <2> HIDE DEF both, a
    <2> QED BY <1>2, ListDomain
<1>7. \A j, k \in DOMAIN u : h[j] = h[k] => j = k
    <2> HIDE DEF both
    <2> QED BY <1>1
<1>8. SumOver(g, both) = Total(f, DOMAIN both) /\ SumOver(g, s) = Total(first, DOMAIN s)
      /\ SumOver(g, u) = Total(last, DOMAIN u)
    BY DEF SumOver
<1> HIDE DEF f, first, last, h, both, a
<1>9. IsFiniteSet(Behind)
    BY <1>4, FiniteImage
<1>10. Total(f, Behind) = Total(last, DOMAIN u)
    BY <1>4, <1>6, <1>7, TotalRenamed
<1>11. Total(f, DOMAIN s) = Total(first, DOMAIN s)
    BY <1>4, <1>5, TotalSame
<1>12. \A i \in DOMAIN s \cup Behind : f[i] \in Int
    BY <1>5, <1>6
<1> HIDE DEF Behind
<1>13. Total(f, DOMAIN s \cup Behind) = Total(f, DOMAIN s) + Total(f, Behind)
    BY <1>3, <1>4, <1>9, <1>12, TotalUnion
<1> QED BY <1>3, <1>8, <1>10, <1>11, <1>13 DEF both

(* A list of lists counts for what they do.                                *)
LEMMA SumOverFlattened ==
    ASSUME NEW n \in Nat, n # 0, NEW seqs, DOMAIN seqs = 1..n, seqs = [i \in 1..n |-> seqs[i]],
           \A i \in 1..n : IsList(seqs[i]),
           NEW g, \A i \in 1..n : \A x \in ToSet(seqs[i]) : g[x] \in Int,
           NEW sums, \A i \in 1..n : sums[i] = SumOver(g, seqs[i])
    PROVE  SumOver(g, FlattenSeq(seqs)) = Total(sums, 1..n)
<1> DEFINE flatten == CHOOSE f : Joins(n, f, seqs)
           Good == {m \in Nat : m \in 1..n =>
                        /\ IsList(flatten[m]) /\ \A x \in ToSet(flatten[m]) : g[x] \in Int
                        /\ SumOver(g, flatten[m]) = Total(sums, 1..m)}
<1>1. Len(seqs) = n
    BY Made
<1>2. FlattenSeq(seqs) = flatten[n]
    BY <1>1 DEF FlattenSeq, Joins
<1>3. Joins(n, flatten, seqs)
    BY JoinsExists
<1> HIDE DEF flatten
<1>4. \A m \in 1..n : flatten[m] = IF m = 1 THEN seqs[m] ELSE flatten[m - 1] \o seqs[m]
    BY <1>3 DEF Joins
<1>5. 0 \in Good
    OBVIOUS
<1>6. ASSUME NEW m \in Nat, m \in Good PROVE m + 1 \in Good
    <2> SUFFICES ASSUME m + 1 \in 1..n
                 PROVE  /\ IsList(flatten[m + 1]) /\ \A x \in ToSet(flatten[m + 1]) : g[x] \in Int
                        /\ SumOver(g, flatten[m + 1]) = Total(sums, 1..m + 1)
        OBVIOUS
    <2>1. sums[m + 1] = SumOver(g, seqs[m + 1]) /\ sums[m + 1] \in Int /\ IsList(seqs[m + 1])
        BY SumOverInt
    <2>2. Total(sums, 1..m + 1) = Total(sums, 1..m) + sums[m + 1]
        <3>0. IsFiniteSet(1..m)
            <4> HIDE DEF Good
            <4>1. 1 \in Int /\ m \in Int
                OBVIOUS
            <4> QED BY ONLY <4>1, FS_Interval
        <3>1. m + 1 \notin 1..m /\ 1..m + 1 = 1..m \cup {m + 1}
            OBVIOUS
        <3>2. \A i \in 1..m : sums[i] \in Int
            <4>1. \A i \in 1..m : i \in 1..n
                OBVIOUS
            <4> QED BY <4>1, SumOverInt
        <3>3. Total(sums, 1..m \cup {m + 1}) = Total(sums, 1..m) + sums[m + 1]
            BY <2>1, <3>0, <3>1, <3>2, TotalAdd
        <3> QED BY <3>1, <3>3
    <2>3. CASE m = 0
        <3>1. flatten[m + 1] = seqs[m + 1]
            BY <1>4, <2>3
        <3>2. Total(sums, 1..m) = 0
            <4>1. 1..m = {}
                BY <2>3
            <4> QED BY <4>1, TotalEmpty
        <3> QED BY <2>1, <2>2, <3>1, <3>2
    <2>4. CASE m # 0
        <3>1. m \in 1..n /\ (m + 1) - 1 = m /\ m + 1 # 1
            BY <2>4
        <3>2. flatten[m + 1] = flatten[m] \o seqs[m + 1]
            BY <1>4, <3>1
        <3>3. /\ IsList(flatten[m]) /\ \A x \in ToSet(flatten[m]) : g[x] \in Int
              /\ SumOver(g, flatten[m]) = Total(sums, 1..m)
            BY <1>6, <3>1
        <3>4. PICK old, new : old = flatten[m] /\ new = seqs[m + 1]
            OBVIOUS
        <3>5. /\ IsList(old \o new) /\ ToSet(old \o new) = ToSet(old) \cup ToSet(new)
              /\ SumOver(g, old \o new) = SumOver(g, old) + SumOver(g, new)
            <4>1. IsList(old) /\ IsList(new) /\ \A x \in ToSet(old) \cup ToSet(new) : g[x] \in Int
                BY <2>1, <3>3, <3>4
            <4> QED BY <4>1, Joined, SumOverJoined
        <3>6. \A x \in ToSet(old) \cup ToSet(new) : g[x] \in Int
            BY <3>3, <3>4
        <3> QED BY <2>1, <2>2, <3>2, <3>3, <3>4, <3>5, <3>6
    <2> QED BY <2>3, <2>4
<1> HIDE DEF Good
<1>7. \A m \in Nat : m \in Good
    BY <1>5, <1>6, NatSetInduction
<1>8. n \in Good /\ n \in 1..n
    BY <1>7
<1> QED BY <1>2, <1>8 DEF Good

(* A list without repetition is a set.                                     *)
LEMMA SumOverInjective ==
    ASSUME NEW g, NEW s, IsList(s), IsInjective(s), \A x \in ToSet(s) : g[x] \in Int
    PROVE  IsFiniteSet(ToSet(s)) /\ Total(g, ToSet(s)) = SumOver(g, s)
<1> DEFINE f == [i \in DOMAIN s |-> g[s[i]]]
<1>1. ToSet(s) = {s[i] : i \in DOMAIN s}
    BY DEF ToSet
<1>2. IsFiniteSet(DOMAIN s) /\ \A i \in DOMAIN s : g[s[i]] = f[i] /\ f[i] \in Int
    BY ListDomain
<1>3. \A i, j \in DOMAIN s : s[i] = s[j] => i = j
    BY DEF IsInjective
<1>4. SumOver(g, s) = Total(f, DOMAIN s)
    BY DEF SumOver
<1> HIDE DEF f
<1>5. Total(g, {s[i] : i \in DOMAIN s}) = Total(f, DOMAIN s)
    BY <1>2, <1>3, TotalRenamed
<1>6. IsFiniteSet({s[i] : i \in DOMAIN s})
    BY <1>2, FiniteImage
<1> QED BY <1>1, <1>4, <1>5, <1>6

-----------------------------------------------------------------------------
(* What leaves, notes, requests and sweeps are worth in a token.           *)

LeafWorth(t, S) == [leaf \in S |-> IF leaf.token = t THEN leaf.value ELSE 0]

NoteWorth(t) == [p \in Positions |-> IF LeafAt(p).token = t THEN LeafAt(p).value ELSE 0]

SpentWorth(t, S) == [n \in S |-> IF trees[n[1]][n[3]].token = t THEN NoteValueAt(n) ELSE 0]

RequestWorth(t, S) == [r \in S |-> IF r.token = t THEN r.total ELSE 0]

SweepWorth(t, S) == [d \in S |-> IF d.token = t THEN d.amount ELSE 0]

(* Leaves that were added have owners, and so have those that were there   *)
(* at first, unless nobody can ever spend them.                            *)
LeavesOpen ==
    \A p \in Positions :
        /\ LeafAt(p).value \in Nat
        /\ p[1] # 0 \/ IsSpendable(LeafAt(p).npk) => \E a \in Account : OwnedBy(LeafAt(p), a)

SpentInTrees ==
    \A n \in nullifierSpent : \E p \in Positions : n[1] = p[1] /\ n[3] = p[2]

(* The nullifier is the one its owner would use.                           *)
OwnNote(n) ==
    \E p \in Positions, a \in Account :
        OwnedBy(LeafAt(p), a) /\ n = Nullifier(p[1], NullifyingKey[a], p[2])

(* There are finitely many places, in trees of the model.                   *)
LEMMA PositionsFinite ==
    /\ IsFiniteSet(Positions) /\ IsFiniteSet(Live) /\ Live \subseteq Positions
    /\ \A p \in Positions : p[1] \in TreeNumber /\ p[2] \in DOMAIN trees[p[1]] /\ p = <<p[1], p[2]>>
<1>1. TreeCapacity \in Nat /\ MaxTree \in Nat
    BY LegacyAssumption, BoundsAssumption
<1>2. IsFiniteSet(0..MaxTree) /\ IsFiniteSet(1..TreeCapacity)
    BY <1>1, FS_Interval
<1>3. IsFiniteSet((0..MaxTree) \X (1..TreeCapacity))
    BY <1>2, FS_Product
<1>4. Positions \subseteq (0..MaxTree) \X (1..TreeCapacity) /\ Live \subseteq Positions
    BY DEF Positions, TreeNumber, Live
<1>5. IsFiniteSet(Positions)
    BY <1>3, <1>4, FS_Subset
<1>6. IsFiniteSet(Live)
    BY <1>4, <1>5, FS_Subset
<1>7. \A p \in Positions : p[1] \in TreeNumber /\ p[2] \in DOMAIN trees[p[1]] /\ p = <<p[1], p[2]>>
    BY DEF Positions
<1> QED BY <1>4, <1>5, <1>6, <1>7

NoteValuesAddUp ==
    \A t : /\ NoteValue(t) = Total(NoteWorth(t), Live)
           /\ \A p \in Positions : NoteWorth(t)[p] \in Int

(* The sum of the model over notes of one token is one over all notes.      *)
LEMMA NoteValueIs == LeavesOpen => NoteValuesAddUp
<1> SUFFICES ASSUME LeavesOpen, NEW t
             PROVE  /\ NoteValue(t) = Total(NoteWorth(t), Live)
                    /\ \A p \in Positions : NoteWorth(t)[p] \in Int
    BY DEF NoteValuesAddUp
<1> DEFINE S == {p \in Live : LeafAt(p).token = t}
           f == [p \in S |-> LeafAt(p).value]
           g == NoteWorth(t)
<1>1. \A p \in Positions : g[p] \in Int /\ g[p] = IF LeafAt(p).token = t THEN LeafAt(p).value ELSE 0
    BY DEF NoteWorth, LeavesOpen
<1>2. NoteValue(t) = SumFunction(f) /\ DOMAIN f = S
    BY DEF NoteValue
<1>3. S \in SUBSET Live /\ IsFiniteSet(Live) /\ IsFiniteSet(S) /\ Live \subseteq Positions
    BY PositionsFinite, FS_Subset
<1>4. /\ \A p \in S : f[p] \in Int
      /\ \A p \in Live : g[p] = IF p \in S THEN f[p] ELSE 0
    BY <1>1, <1>3
<1> HIDE DEF f, g, S
<1>5. SumFunction(f) = Total(f, S)
    BY <1>2, <1>3, SumIsTotal
<1>6. Total(f, S) = Total(g, Live)
    BY <1>3, <1>4, TotalFiltered
<1> QED BY <1>1, <1>2, <1>5, <1>6 DEF g

(* Things go and others come.                                              *)
LEMMA TotalMoved ==
    ASSUME NEW S, IsFiniteSet(S), NEW R \in SUBSET S, NEW N, IsFiniteSet(N), S \cap N = {},
           NEW f, NEW g, \A x \in S : f[x] \in Int /\ g[x] = f[x], \A x \in N : g[x] \in Int
    PROVE  Total(g, (S \ R) \cup N) = Total(f, S) - Total(f, R) + Total(g, N)
<1> DEFINE Q == S \ R
<1>1. /\ IsFiniteSet(R) /\ Total(f, R) \in Int
      /\ IsFiniteSet(Q) /\ Total(f, Q) \in Int /\ Total(f, Q) = Total(f, S) - Total(f, R)
    BY TotalWithout
<1>2. Total(g, Q) = Total(f, Q)
    BY <1>1, TotalSame
<1>3. (\A x \in Q \cup N : g[x] \in Int) /\ Q \cap N = {}
    OBVIOUS
<1> HIDE DEF Q
<1>4. Total(g, Q \cup N) = Total(g, Q) + Total(g, N)
    BY <1>1, <1>3, TotalUnion
<1>5. Total(g, Q \cup N) = Total(f, S) - Total(f, R) + Total(g, N)
    BY <1>1, <1>2, <1>4
<1> QED BY <1>5 DEF Q
-----------------------------------------------------------------------------
(* What an append and spending do to the notes that somebody can spend.    *)

Appended(new) == AppendLeaves(new) \/ (new = <<>> /\ UNCHANGED trees)

(* Where new leaves go: behind those of one tree.                          *)
LEMMA NewPositions ==
    ASSUME Typed, Typed', NEW new, IsList(new), Appended(new)
    PROVE  \E k \in TreeNumber, len \in Nat :
                /\ Positions' = Positions \cup {<<k, len + j>> : j \in DOMAIN new}
                /\ \A j \in DOMAIN new :
                        <<k, len + j>> \notin Positions /\ LeafAt(<<k, len + j>>)' = new[j]
                /\ \A p \in Positions : LeafAt(p)' = LeafAt(p)
<1>1. CASE new = <<>> /\ UNCHANGED trees
    <2>1. 0 \in TreeNumber /\ 0 \in Nat
        BY BoundsAssumption DEF TreeNumber
    <2>2. DOMAIN new = {} /\ Positions' = Positions /\ \A p \in Positions : LeafAt(p)' = LeafAt(p)
        BY <1>1 DEF Positions, LeafAt
    <2>3. Positions' = Positions \cup {<<0, 0 + j>> : j \in DOMAIN new}
        BY <2>2
    <2> QED BY <2>1, <2>2, <2>3
<1>2. CASE AppendLeaves(new)
    <2> USE <1>2
    <2>1. PICK k \in TreeNumber : trees' = [trees EXCEPT ![k] = trees[k] \o new]
        BY DEF AppendLeaves
    <2>2. PICK old, len, grown : old = trees[k] /\ len = Len(old) /\ grown = old \o new
        OBVIOUS
    <2>3. IsList(old) /\ len \in Nat /\ DOMAIN old = 1..len /\ Len(new) \in Nat /\ DOMAIN new = 1..Len(new)
        BY <2>2, Lengths DEF Typed
    <2>4. /\ IsList(grown) /\ Len(grown) = len + Len(new)
          /\ \A i \in DOMAIN old : grown[i] = old[i]
          /\ \A j \in DOMAIN new : grown[len + j] = new[j]
        BY SMTT(30), <2>2, <2>3, Joined
    <2>5. DOMAIN grown = 1..len + Len(new)
        BY <2>4, Lengths
    <2>6. trees'[k] = grown /\ \A m \in TreeNumber : m # k => trees'[m] = trees[m]
        BY <2>1, <2>2 DEF Typed
    <2>7. len + Len(new) <= TreeCapacity /\ TreeCapacity \in Nat
        BY <2>4, <2>6, LegacyAssumption DEF Typed
    <2>8. ASSUME NEW p \in Positions
          PROVE  p \in Positions' /\ LeafAt(p)' = LeafAt(p)
        <3>1. p \in TreeNumber \X (1..TreeCapacity) /\ p[1] \in TreeNumber /\ p[2] \in DOMAIN trees[p[1]]
            BY DEF Positions
        <3>2. p[2] \in DOMAIN trees'[p[1]] /\ trees'[p[1]][p[2]] = trees[p[1]][p[2]]
            <4>1. CASE p[1] = k
                <5>1. p[2] \in 1..len /\ p[2] \in 1..len + Len(new)
                    BY <2>2, <2>3, <3>1, <4>1
                <5> QED BY <2>2, <2>3, <2>4, <2>5, <2>6, <4>1, <5>1
            <4>2. CASE p[1] # k
                BY <2>6, <3>1, <4>2
            <4> QED BY <4>1, <4>2
        <3> QED BY <3>1, <3>2 DEF Positions, LeafAt
    <2>9. ASSUME NEW j \in DOMAIN new
          PROVE  /\ <<k, len + j>> \in Positions' /\ <<k, len + j>> \notin Positions
                 /\ LeafAt(<<k, len + j>>)' = new[j]
        <3>1. len + j \in 1..len + Len(new) /\ len + j \in 1..TreeCapacity /\ len + j \notin 1..len
            BY <2>3, <2>7
        <3>2. len + j \in DOMAIN trees'[k] /\ len + j \notin DOMAIN trees[k] /\ trees'[k][len + j] = new[j]
            BY <2>2, <2>3, <2>4, <2>5, <2>6, <3>1
        <3> QED BY <3>1, <3>2 DEF Positions, LeafAt
    <2>10. ASSUME NEW p \in Positions', p \notin Positions
           PROVE  p \in {<<k, len + j>> : j \in DOMAIN new}
        <3>1. /\ p \in TreeNumber \X (1..TreeCapacity) /\ p[1] \in TreeNumber
              /\ p[2] \in DOMAIN trees'[p[1]] /\ p[2] \notin DOMAIN trees[p[1]]
            BY <2>10 DEF Positions
        <3>2. p[1] = k
            BY <2>6, <3>1
        <3>3. p[2] \in 1..len + Len(new) /\ p[2] \notin 1..len
            BY <2>2, <2>3, <2>5, <2>6, <3>1, <3>2
        <3>4. PICK j \in DOMAIN new : p[2] = len + j
            <4>1. p[2] - len \in DOMAIN new /\ p[2] = len + (p[2] - len)
                BY <2>3, <3>3
            <4> QED BY <4>1
        <3>5. p = <<k, len + j>>
            BY <3>1, <3>2, <3>4
        <3> QED BY <3>5
    <2>11. Positions' = Positions \cup {<<k, len + j>> : j \in DOMAIN new}
        BY SMTT(30), <2>8, <2>9, <2>10
    <2> QED BY <2>3, <2>8, <2>9, <2>11
<1> QED BY <1>1, <1>2 DEF Appended

Spends(ns) ==
    /\ IsList(ns) /\ IsInjective(ns)
    /\ \A n \in ToSet(ns) : OwnNote(n) /\ n \notin nullifierSpent
    /\ nullifierSpent' = nullifierSpent \cup ToSet(ns)

Mints(new) ==
    /\ IsList(new) /\ Appended(new)
    /\ \A leaf \in ToSet(new) : leaf.value \in Nat /\ \E a \in Account : OwnedBy(leaf, a)

SpentPositions(ns) == {<<ns[i][1], ns[i][3]>> : i \in DOMAIN ns}

(* Where the note of a nullifier is.                                       *)
LEMMA OwnNoteIs ==
    ASSUME NEW n, OwnNote(n)
    PROVE  /\ <<n[1], n[3]>> \in Positions
           /\ LeafAt(<<n[1], n[3]>>) = trees[n[1]][n[3]]
           /\ \E a \in Account :
                OwnedBy(LeafAt(<<n[1], n[3]>>), a) /\ n = Nullifier(n[1], NullifyingKey[a], n[3])
<1>1. PICK p \in Positions, a \in Account :
        OwnedBy(LeafAt(p), a) /\ n = Nullifier(p[1], NullifyingKey[a], p[2])
    BY DEF OwnNote
<1>2. n[1] = p[1] /\ n[3] = p[2]
    BY <1>1 DEF Nullifier
<1>3. p = <<p[1], p[2]>>
    BY PositionsFinite
<1>4. p = <<n[1], n[3]>>
    BY <1>2, <1>3
<1>5. n = Nullifier(n[1], NullifyingKey[a], n[3])
    BY <1>1, <1>2
<1> QED BY ZenonT(30), <1>1, <1>4, <1>5 DEF LeafAt

(* A note has one nullifier that its owner would use.                      *)
LEMMA OneNullifier ==
    ASSUME NEW n, OwnNote(n), NEW a \in Account, OwnedBy(trees[n[1]][n[3]], a)
    PROVE  n = Nullifier(n[1], NullifyingKey[a], n[3])
<1>1. PICK leaf : leaf = trees[n[1]][n[3]]
    OBVIOUS
<1>2. PICK b \in Account : OwnedBy(leaf, b) /\ n = Nullifier(n[1], NullifyingKey[b], n[3])
    BY <1>1, OwnNoteIs
<1>3. PICK r, q : leaf.npk = NPK(MPK(a, NullifyingKey[a]), r) /\ leaf.npk = NPK(MPK(b, NullifyingKey[b]), q)
    BY <1>1, <1>2 DEF OwnedBy, IsKeyOf
<1>4. IsSpendable(leaf.npk)
    BY <1>2 DEF OwnedBy
<1>5. a = b
    BY <1>3, <1>4, OneOwner
<1> QED BY <1>2, <1>5

(* Notes that are spent can no longer be, and new ones can.                 *)
LEMMA LiveMoves ==
    ASSUME Typed, Typed', SpentInTrees, NEW ns, Spends(ns), NEW new, Mints(new)
    PROVE  \E N : /\ Live' = (Live \ SpentPositions(ns)) \cup N
                  /\ SpentPositions(ns) \subseteq Live
                  /\ N \cap Positions = {}
                  /\ \A p \in Positions : LeafAt(p)' = LeafAt(p)
                  /\ \E h : /\ N = {h[j] : j \in DOMAIN new}
                            /\ \A j \in DOMAIN new : h[j] \in Positions' /\ LeafAt(h[j])' = new[j]
                            /\ \A i, j \in DOMAIN new : h[i] = h[j] => i = j
                  /\ Positions' = Positions \cup N
<1>1. PICK k \in TreeNumber, len \in Nat :
        /\ Positions' = Positions \cup {<<k, len + j>> : j \in DOMAIN new}
        /\ \A j \in DOMAIN new :
                <<k, len + j>> \notin Positions /\ LeafAt(<<k, len + j>>)' = new[j]
        /\ \A p \in Positions : LeafAt(p)' = LeafAt(p)
    BY NewPositions DEF Mints
<1> DEFINE N == {<<k, len + j>> : j \in DOMAIN new}
           h == [j \in DOMAIN new |-> <<k, len + j>>]
           S == SpentPositions(ns)
<1>2. DOMAIN new = 1..Len(new) /\ Len(new) \in Nat
    BY Lengths DEF Mints
<1>3. /\ N = {h[j] : j \in DOMAIN new}
      /\ \A j \in DOMAIN new : h[j] \in Positions' /\ LeafAt(h[j])' = new[j]
      /\ \A i, j \in DOMAIN new : h[i] = h[j] => i = j
    <2>1. \A j \in DOMAIN new : h[j] = <<k, len + j>>
        OBVIOUS
    <2>2. \A i, j \in DOMAIN new : h[i] = h[j] => i = j
        BY <1>2
    <2>3. \A j \in DOMAIN new : <<k, len + j>> \in Positions' /\ LeafAt(<<k, len + j>>)' = new[j]
        BY <1>1
    <2> QED BY <2>1, <2>2, <2>3
<1>4. Positions' = Positions \cup N /\ N \cap Positions = {}
    BY <1>1
<1>5. S \subseteq Live
    <2> SUFFICES ASSUME NEW i \in DOMAIN ns PROVE <<ns[i][1], ns[i][3]>> \in Live
        BY DEF SpentPositions
    <2>1. PICK n : n = ns[i]
        OBVIOUS
    <2>2. OwnNote(n) /\ n \notin nullifierSpent
        BY <2>1 DEF Spends, ToSet
    <2>3. PICK p : p = <<n[1], n[3]>>
        OBVIOUS
    <2>4. PICK a \in Account : OwnedBy(LeafAt(p), a) /\ n = Nullifier(n[1], NullifyingKey[a], n[3])
        BY <2>2, <2>3, OwnNoteIs
    <2>5. p \in Positions
        BY <2>2, <2>3, OwnNoteIs
    <2>6. Nullifier(p[1], NullifyingKey[a], p[2]) \notin nullifierSpent
        BY <2>2, <2>3, <2>4
    <2>7. p \in Live
        BY <2>4, <2>5, <2>6 DEF Live
    <2> QED BY <2>1, <2>3, <2>7
<1>6. nullifierSpent' = nullifierSpent \cup ToSet(ns)
    BY DEF Spends
<1>7. ASSUME NEW p \in Positions PROVE p \in Live' <=> p \in Live /\ p \notin S
    <2>0. p \in Positions' /\ LeafAt(p)' = LeafAt(p) /\ p = <<p[1], p[2]>>
        BY <1>1, PositionsFinite
    <2>1. ASSUME p \in Live' PROVE p \in Live /\ p \notin S
        <3>1. PICK a \in Account : /\ OwnedBy(LeafAt(p), a)
                                   /\ Nullifier(p[1], NullifyingKey[a], p[2]) \notin nullifierSpent'
            BY <2>0, <2>1 DEF Live, OwnedBy
        <3>2. p \in Live
            BY <1>6, <3>1 DEF Live
        <3>3. ASSUME NEW i \in DOMAIN ns, p = <<ns[i][1], ns[i][3]>> PROVE FALSE
            <4>1. PICK n : n = ns[i]
                OBVIOUS
            <4>2. OwnNote(n) /\ n \in ToSet(ns) /\ p[1] = n[1] /\ p[2] = n[3]
                BY <3>3, <4>1 DEF Spends, ToSet
            <4>3. OwnedBy(trees[n[1]][n[3]], a)
                BY <3>1, <4>2 DEF LeafAt
            <4>4. n = Nullifier(p[1], NullifyingKey[a], p[2])
                BY <4>2, <4>3, OneNullifier
            <4> QED BY <1>6, <3>1, <4>2, <4>4
        <3> QED BY <3>2, <3>3 DEF SpentPositions
    <2>2. ASSUME p \in Live, p \notin S PROVE p \in Live'
        <3>1. PICK a \in Account : /\ OwnedBy(LeafAt(p), a)
                                   /\ Nullifier(p[1], NullifyingKey[a], p[2]) \notin nullifierSpent
            BY <2>2 DEF Live
        <3>2. PICK n : n = Nullifier(p[1], NullifyingKey[a], p[2])
            OBVIOUS
        <3>3. n[1] = p[1] /\ n[3] = p[2]
            BY <3>2 DEF Nullifier
        <3>4. n \notin ToSet(ns)
            <4> SUFFICES ASSUME NEW i \in DOMAIN ns, n = ns[i] PROVE FALSE
                BY DEF ToSet
            <4> QED BY <2>0, <2>2, <3>3 DEF SpentPositions
        <3> QED BY <1>6, <2>0, <3>1, <3>2, <3>4 DEF Live, OwnedBy
    <2> QED BY <2>1, <2>2
<1>8. ASSUME NEW j \in DOMAIN new PROVE <<k, len + j>> \in Live'
    <2>1. PICK p : p = <<k, len + j>>
        OBVIOUS
    <2>2. p \in Positions' /\ p \notin Positions /\ LeafAt(p)' = new[j] /\ p[1] = k /\ p[2] = len + j
        BY <1>1, <2>1
    <2>3. PICK a \in Account : OwnedBy(new[j], a)
        BY DEF Mints, ToSet
    <2>4. PICK n : n = Nullifier(p[1], NullifyingKey[a], p[2])
        OBVIOUS
    <2>5. n[1] = p[1] /\ n[3] = p[2]
        BY <2>4 DEF Nullifier
    <2>6. n \notin nullifierSpent
        <3> SUFFICES ASSUME n \in nullifierSpent PROVE FALSE
            OBVIOUS
        <3>1. PICK q \in Positions : n[1] = q[1] /\ n[3] = q[2]
            BY DEF SpentInTrees
        <3>2. q = <<k, len + j>>
            BY <2>2, <2>5, <3>1, PositionsFinite
        <3> QED BY <2>1, <2>2, <3>2
    <2>7. n \notin ToSet(ns)
        <3> SUFFICES ASSUME n \in ToSet(ns) PROVE FALSE
            OBVIOUS
        <3>1. <<n[1], n[3]>> \in Positions
            BY OwnNoteIs DEF Spends
        <3> QED BY <2>1, <2>2, <2>5, <3>1
    <2>8. p \in Live'
        BY <1>6, <2>2, <2>3, <2>4, <2>6, <2>7 DEF Live, OwnedBy
    <2> QED BY <2>1, <2>8
<1>9. Live' = (Live \ S) \cup N
    <2>1. Live' \subseteq Positions' /\ Live \subseteq Positions
        BY DEF Live
    <2>2. N \subseteq Live'
        BY <1>8
    <2> HIDE DEF N, S
    <2> QED BY <1>4, <1>7, <2>1, <2>2
<1> HIDE DEF N, h
<1> QED BY <1>1, <1>3, <1>4, <1>5, <1>9

(* What notes are worth, before and after.                                 *)
LEMMA NotesMove ==
    ASSUME Typed, Typed', LeavesOpen, SpentInTrees, NEW ns, Spends(ns), NEW new, Mints(new), NEW t
    PROVE  /\ NoteValue(t) \in Int
           /\ SumOver(SpentWorth(t, ToSet(ns)), ns) \in Int
           /\ SumOver(LeafWorth(t, ToSet(new)), new) \in Int
           /\ NoteValue(t)' = NoteValue(t) - SumOver(SpentWorth(t, ToSet(ns)), ns)
                                + SumOver(LeafWorth(t, ToSet(new)), new)
           /\ LeavesOpen' /\ SpentInTrees'
<1>1. PICK N : /\ Live' = (Live \ SpentPositions(ns)) \cup N
               /\ SpentPositions(ns) \subseteq Live
               /\ N \cap Positions = {}
               /\ \A p \in Positions : LeafAt(p)' = LeafAt(p)
               /\ \E h : /\ N = {h[j] : j \in DOMAIN new}
                         /\ \A j \in DOMAIN new : h[j] \in Positions' /\ LeafAt(h[j])' = new[j]
                         /\ \A i, j \in DOMAIN new : h[i] = h[j] => i = j
               /\ Positions' = Positions \cup N
    BY LiveMoves
<1>2. PICK h : /\ N = {h[j] : j \in DOMAIN new}
               /\ \A j \in DOMAIN new : h[j] \in Positions' /\ LeafAt(h[j])' = new[j]
               /\ \A i, j \in DOMAIN new : h[i] = h[j] => i = j
    BY <1>1
<1>3. IsList(ns) /\ IsInjective(ns) /\ IsList(new)
    BY DEF Spends, Mints
<1>4. IsFiniteSet(DOMAIN ns) /\ IsFiniteSet(DOMAIN new) /\ \A j \in DOMAIN new : new[j] \in ToSet(new)
    BY <1>3, ListDomain
<1>5. LeavesOpen'
    <2> SUFFICES ASSUME NEW p \in Positions'
                 PROVE  /\ LeafAt(p)'.value \in Nat
                        /\ p[1] # 0 \/ IsSpendable(LeafAt(p)'.npk) => \E a \in Account : OwnedBy(LeafAt(p)', a)
        BY DEF LeavesOpen, OwnedBy
    <2>1. CASE p \in Positions
        BY <1>1, <2>1 DEF LeavesOpen
    <2>2. CASE p \notin Positions
        <3>1. PICK j \in DOMAIN new : p = h[j]
            BY <1>1, <1>2, <2>2
        <3>2. LeafAt(p)' \in ToSet(new)
            BY <1>2, <1>4, <3>1
        <3> QED BY <3>2 DEF Mints
    <2> QED BY <2>1, <2>2
<1>6. SpentInTrees'
    <2> SUFFICES ASSUME NEW n \in nullifierSpent' PROVE \E p \in Positions : n[1] = p[1] /\ n[3] = p[2]
        BY <1>1 DEF SpentInTrees
    <2>1. CASE n \in nullifierSpent
        BY <2>1 DEF SpentInTrees
    <2>2. CASE n \in ToSet(ns)
        <3>1. <<n[1], n[3]>> \in Positions
            BY <2>2, OwnNoteIs DEF Spends
        <3> QED BY <3>1
    <2> QED BY <2>1, <2>2 DEF Spends
<1>7. PICK f, g, live, live2, S : /\ f = NoteWorth(t) /\ g = NoteWorth(t)' /\ live = Live /\ live2 = Live'
                                  /\ S = SpentPositions(ns)
    OBVIOUS
<1>8. NoteValue(t) = Total(f, live) /\ \A p \in Positions : f[p] \in Int
    BY <1>7, NoteValueIs DEF NoteValuesAddUp
<1>9. NoteValue(t)' = Total(g, live2)
    <2>1. NoteValuesAddUp'
        BY <1>5, NoteValueIs, PTL
    <2> QED BY <1>7, <2>1 DEF NoteValuesAddUp
<1>10. /\ IsFiniteSet(live) /\ live \subseteq Positions /\ S \in SUBSET live
       /\ live2 = (live \ S) \cup N /\ live \cap N = {}
    BY <1>1, <1>7, PositionsFinite
<1>11. \A p \in live : f[p] \in Int /\ g[p] = f[p]
    <2> SUFFICES ASSUME NEW p \in live PROVE g[p] = f[p]
        BY <1>8, <1>10
    <2>1. p \in Positions /\ p \in Positions' /\ LeafAt(p)' = LeafAt(p)
        BY <1>1, <1>10
    <2> QED BY <1>7, <2>1 DEF NoteWorth
<1> DEFINE spent == SpentWorth(t, ToSet(ns))
           minted == LeafWorth(t, ToSet(new))
           fs == [i \in DOMAIN ns |-> spent[ns[i]]]
           fn == [j \in DOMAIN new |-> minted[new[j]]]
           at == [i \in DOMAIN ns |-> <<ns[i][1], ns[i][3]>>]
<1>12. \A i \in DOMAIN ns : f[at[i]] = fs[i] /\ fs[i] \in Int
    <2> SUFFICES ASSUME NEW i \in DOMAIN ns PROVE f[at[i]] = spent[ns[i]] /\ f[at[i]] \in Int
        OBVIOUS
    <2>1. PICK n : n = ns[i]
        OBVIOUS
    <2>2. n \in ToSet(ns) /\ OwnNote(n)
        BY <2>1 DEF Spends, ToSet
    <2>3. PICK p : p = <<n[1], n[3]>>
        OBVIOUS
    <2>4. p \in Positions /\ LeafAt(p) = trees[n[1]][n[3]]
        BY <2>2, <2>3, OwnNoteIs
    <2>5. f[p] = spent[n]
        BY <1>7, <2>2, <2>4 DEF NoteWorth, SpentWorth, NoteValueAt
    <2> QED BY <1>8, <2>1, <2>3, <2>4, <2>5
<1>13. \A i, j \in DOMAIN ns : at[i] = at[j] => i = j
    <2> SUFFICES ASSUME NEW i \in DOMAIN ns, NEW j \in DOMAIN ns,
                        ns[i][1] = ns[j][1], ns[i][3] = ns[j][3]
                 PROVE  i = j
        OBVIOUS
    <2>1. PICK m, n : m = ns[i] /\ n = ns[j]
        OBVIOUS
    <2>2. OwnNote(m) /\ OwnNote(n) /\ m[1] = n[1] /\ m[3] = n[3]
        BY <2>1 DEF Spends, ToSet
    <2>3. PICK a \in Account :
            OwnedBy(LeafAt(<<m[1], m[3]>>), a) /\ m = Nullifier(m[1], NullifyingKey[a], m[3])
        BY <2>2, OwnNoteIs
    <2>4. LeafAt(<<m[1], m[3]>>) = trees[n[1]][n[3]]
        BY <2>2, OwnNoteIs
    <2>5. n = Nullifier(n[1], NullifyingKey[a], n[3])
        BY <2>2, <2>3, <2>4, OneNullifier
    <2>6. m = n
        BY <2>2, <2>3, <2>5
    <2> QED BY <1>3, <2>1, <2>6 DEF IsInjective
<1>14. S = {at[i] : i \in DOMAIN ns}
    BY <1>7 DEF SpentPositions
<1>15. \A j \in DOMAIN new : g[h[j]] = fn[j] /\ fn[j] \in Int
    <2> SUFFICES ASSUME NEW j \in DOMAIN new PROVE g[h[j]] = minted[new[j]] /\ minted[new[j]] \in Int
        OBVIOUS
    <2>1. PICK p : p = h[j]
        OBVIOUS
    <2>2. p \in Positions' /\ LeafAt(p)' = new[j]
        BY <1>2, <2>1
    <2>3. g[p] = IF new[j].token = t THEN new[j].value ELSE 0
        BY <1>7, <2>2 DEF NoteWorth
    <2>4. new[j] \in ToSet(new) /\ new[j].value \in Nat
        BY <1>4 DEF Mints
    <2>5. minted[new[j]] = IF new[j].token = t THEN new[j].value ELSE 0
        BY <2>4 DEF LeafWorth
    <2> QED BY <2>1, <2>3, <2>4, <2>5
<1>16. SumOver(spent, ns) = Total(fs, DOMAIN ns) /\ SumOver(minted, new) = Total(fn, DOMAIN new)
    BY DEF SumOver
<1> HIDE DEF spent, minted, fs, fn, at
<1>17. Total(f, S) = Total(fs, DOMAIN ns)
    BY <1>4, <1>12, <1>13, <1>14, TotalRenamed
<1>18. Total(g, N) = Total(fn, DOMAIN new)
    BY <1>2, <1>4, <1>15, TotalRenamed
<1>19. IsFiniteSet(N)
    BY <1>2, <1>4, FiniteImage
<1>20. \A p \in N : g[p] \in Int
    BY <1>2, <1>15
<1>21. Total(g, (live \ S) \cup N) = Total(f, live) - Total(f, S) + Total(g, N)
    BY <1>10, <1>11, <1>19, <1>20, TotalMoved
<1>22. Total(f, live) \in Int /\ Total(fs, DOMAIN ns) \in Int /\ Total(fn, DOMAIN new) \in Int
    <2>1. \A i \in DOMAIN ns : fs[i] \in Int
        BY <1>12
    <2>2. \A j \in DOMAIN new : fn[j] \in Int
        BY <1>15
    <2> QED BY <1>4, <1>10, <1>11, <2>1, <2>2, TotalInt
<1>23. NoteValue(t)' = NoteValue(t) - SumOver(spent, ns) + SumOver(minted, new)
    BY <1>8, <1>9, <1>10, <1>16, <1>17, <1>18, <1>21
<1> QED BY <1>5, <1>6, <1>8, <1>16, <1>22, <1>23 DEF spent, minted
-----------------------------------------------------------------------------
(* Requests and sweeps that are outstanding, and what has been paid.       *)

(* What is outstanding in requests, as one sum.                             *)
LEMMA RequestedIs ==
    ASSUME NEW R \in SUBSET Requests, NEW t
    PROVE  /\ IsFiniteSet(R) /\ \A r \in R : RequestWorth(t, Requests)[r] \in Int
           /\ Requested(R, t) = Total(RequestWorth(t, Requests), R) /\ Requested(R, t) \in Int
<1> DEFINE S == {r \in R : r.token = t}
           f == [r \in S |-> r.total]
           g == RequestWorth(t, Requests)
<1>1. IsFiniteSet(R) /\ IsFiniteSet(S) /\ S \in SUBSET R
    BY RequestsAssumption, FS_Subset
<1>2. /\ \A r \in S : f[r] \in Int
      /\ \A r \in R : g[r] = IF r \in S THEN f[r] ELSE 0
      /\ \A r \in R : g[r] \in Int
    BY RequestsAssumption DEF RequestWorth
<1>3. Requested(R, t) = SumFunction(f) /\ DOMAIN f = S
    BY DEF Requested
<1> HIDE DEF f, g, S
<1>4. SumFunction(f) = Total(f, S)
    BY <1>1, <1>3, SumIsTotal
<1>5. Total(f, S) = Total(g, R)
    BY <1>1, <1>2, TotalFiltered
<1>6. Total(g, R) \in Int
    BY <1>1, <1>2, TotalInt
<1> QED BY <1>1, <1>2, <1>3, <1>4, <1>5, <1>6 DEF g

(* What is outstanding in sweeps, as one sum.                               *)
LEMMA SweptIs ==
    ASSUME NEW R \in SUBSET Sweeps, NEW t
    PROVE  /\ IsFiniteSet(R) /\ \A d \in R : SweepWorth(t, Sweeps)[d] \in Int
           /\ Swept(R, t) = Total(SweepWorth(t, Sweeps), R) /\ Swept(R, t) \in Int
<1> DEFINE S == {d \in R : d.token = t}
           f == [d \in S |-> d.amount]
           g == SweepWorth(t, Sweeps)
<1>1. IsFiniteSet(R) /\ IsFiniteSet(S) /\ S \in SUBSET R
    BY SweepsAssumption, FS_Subset
<1>2. /\ \A d \in S : f[d] \in Int
      /\ \A d \in R : g[d] = IF d \in S THEN f[d] ELSE 0
      /\ \A d \in R : g[d] \in Int
    BY SweepsAssumption DEF SweepWorth
<1>3. Swept(R, t) = SumFunction(f) /\ DOMAIN f = S
    BY DEF Swept
<1> HIDE DEF f, g, S
<1>4. SumFunction(f) = Total(f, S)
    BY <1>1, <1>3, SumIsTotal
<1>5. Total(f, S) = Total(g, R)
    BY <1>1, <1>2, TotalFiltered
<1>6. Total(g, R) \in Int
    BY <1>1, <1>2, TotalInt
<1> QED BY <1>1, <1>2, <1>3, <1>4, <1>5, <1>6 DEF g

(* What is credited is no longer outstanding.                              *)
LEMMA RequestedLess ==
    ASSUME NEW R \in SUBSET Requests, NEW s, IsList(s), IsInjective(s), ToSet(s) \subseteq R, NEW t
    PROVE  /\ Requested(R \ ToSet(s), t) = Requested(R, t) - SumOver(RequestWorth(t, Requests), s)
           /\ SumOver(RequestWorth(t, Requests), s) \in Int
<1> DEFINE g == RequestWorth(t, Requests)
           T == ToSet(s)
<1>1. /\ IsFiniteSet(R) /\ (\A r \in R : g[r] \in Int)
      /\ Requested(R, t) = Total(g, R) /\ Requested(R \ T, t) = Total(g, R \ T)
    BY RequestedIs
<1>2. \A r \in ToSet(s) : g[r] \in Int
    BY <1>1
<1> HIDE DEF g
<1>3. Total(g, R \ T) = Total(g, R) - Total(g, T) /\ Total(g, T) \in Int
    BY <1>1, TotalWithout
<1>4. Total(g, T) = SumOver(g, s)
    BY <1>2, SumOverInjective
<1> QED BY <1>1, <1>3, <1>4 DEF g

(* What is credited of sweeps is no longer outstanding.                     *)
LEMMA SweptLess ==
    ASSUME NEW R \in SUBSET Sweeps, NEW s, IsList(s), IsInjective(s), ToSet(s) \subseteq R, NEW t
    PROVE  /\ Swept(R \ ToSet(s), t) = Swept(R, t) - SumOver(SweepWorth(t, Sweeps), s)
           /\ SumOver(SweepWorth(t, Sweeps), s) \in Int
<1> DEFINE g == SweepWorth(t, Sweeps)
           T == ToSet(s)
<1>1. /\ IsFiniteSet(R) /\ (\A r \in R : g[r] \in Int)
      /\ Swept(R, t) = Total(g, R) /\ Swept(R \ T, t) = Total(g, R \ T)
    BY SweptIs
<1>2. \A r \in ToSet(s) : g[r] \in Int
    BY <1>1
<1> HIDE DEF g
<1>3. Total(g, R \ T) = Total(g, R) - Total(g, T) /\ Total(g, T) \in Int
    BY <1>1, TotalWithout
<1>4. Total(g, T) = SumOver(g, s)
    BY <1>2, SumOverInjective
<1> QED BY <1>1, <1>3, <1>4 DEF g

PaidIn(p, t) == [to \in Recipient |-> p[to][t]]

PaidOut(p, t) == SumFunction(PaidIn(p, t))

(* What has been paid of a token, as one sum.                               *)
LEMMA PaidOutIs ==
    ASSUME NEW p \in [Recipient -> [Token -> Nat]], NEW t \in Token
    PROVE  /\ PaidOut(p, t) = Total(PaidIn(p, t), Recipient) /\ PaidOut(p, t) \in Int
           /\ \A to \in Recipient : PaidIn(p, t)[to] = p[to][t] /\ p[to][t] \in Int
<1>1. DOMAIN PaidIn(p, t) = Recipient
    BY DEF PaidIn
<1>2. \A to \in Recipient : PaidIn(p, t)[to] = p[to][t] /\ p[to][t] \in Int
    BY DEF PaidIn
<1>3. PICK f : f = PaidIn(p, t)
    OBVIOUS
<1>4. SumFunction(f) = Total(f, Recipient)
    BY <1>1, <1>3, RecipientsAssumption, SumIsTotal
<1>5. Total(f, Recipient) \in Int
    BY <1>2, <1>3, RecipientsAssumption, TotalInt
<1> QED BY <1>2, <1>3, <1>4, <1>5 DEF PaidOut
-----------------------------------------------------------------------------
(* What a transfer moves.                                                  *)

(* What members count for by their places.                                 *)
LEMMA SumOverPlaces ==
    ASSUME NEW s, IsList(s), NEW g, NEW f, \A i \in DOMAIN s : g[s[i]] = f[i]
    PROVE  SumOver(g, s) = Total(f, DOMAIN s)
<1> DEFINE h == [i \in DOMAIN s |-> g[s[i]]]
<1>1. \A i \in DOMAIN s : h[i] = f[i]
    OBVIOUS
<1>2. SumOver(g, s) = Total(h, DOMAIN s)
    BY DEF SumOver
<1> HIDE DEF h
<1> QED BY <1>1, <1>2, ListDomain, TotalSame

(* Members that count for nothing count for nothing together.               *)
LEMMA SumOverZero ==
    ASSUME NEW s, IsList(s), NEW g, \A x \in ToSet(s) : g[x] = 0
    PROVE  SumOver(g, s) = 0
<1> DEFINE h == [i \in DOMAIN s |-> 0]
<1>1. \A i \in DOMAIN s : g[s[i]] = h[i] /\ h[i] = 0
    BY ListDomain
<1> HIDE DEF h
<1>2. SumOver(g, s) = Total(h, DOMAIN s)
    BY <1>1, SumOverPlaces
<1> QED BY <1>1, <1>2, ListDomain, TotalZero

(* A list but for its first member.                                        *)
LEMMA SumOverTail ==
    ASSUME NEW s, IsList(s), s # <<>>, NEW g, NEW f, \A i \in DOMAIN s : f[i] \in Int,
           \A i \in DOMAIN s : i # 1 => g[s[i]] = f[i]
    PROVE  Total(f, DOMAIN s) = f[1] + SumOver(g, Tail(s))
<1> DEFINE n == Len(s)
           u == Tail(s)
           h == [i \in DOMAIN u |-> i + 1]
           k == [i \in DOMAIN u |-> g[u[i]]]
<1>1. n \in Nat /\ n # 0 /\ DOMAIN s = 1..n
    BY DEF IsList
<1>2. DOMAIN u = 1..n - 1 /\ \A i \in 1..n - 1 : u[i] = s[i + 1]
    <2>1. s \in Seq(ToSet(s))
        BY DEF IsList
    <2> QED BY <2>1
<1>3. IsFiniteSet(1..n) /\ IsFiniteSet(1..n - 1) /\ 1 \in 1..n /\ IsFiniteSet((1..n) \ {1})
    <2>1. IsFiniteSet(1..n) /\ IsFiniteSet(1..n - 1)
        <3>1. 1 \in Int /\ n \in Int /\ n - 1 \in Int
            BY <1>1
        <3> QED BY ONLY <3>1, FS_Interval
    <2>2. 1 \in 1..n
        BY <1>1
    <2>3. IsFiniteSet((1..n) \ {1})
        BY <2>1, FS_Subset
    <2> QED BY <2>1, <2>2, <2>3
<1>4. SumOver(g, u) = Total(k, DOMAIN u)
    BY DEF SumOver
<1>5. \A i \in 1..n - 1 : f[h[i]] = k[i] /\ k[i] \in Int
    <2> SUFFICES ASSUME NEW i \in 1..n - 1 PROVE f[i + 1] = g[u[i]] /\ f[i + 1] \in Int
        BY <1>2
    <2>1. i + 1 \in 1..n /\ i + 1 # 1
        BY <1>1
    <2> HIDE DEF n, u
    <2> QED BY <1>1, <1>2, <2>1
<1>6. \A i, j \in 1..n - 1 : h[i] = h[j] => i = j
    BY <1>2
<1>7. {h[i] : i \in 1..n - 1} = (1..n) \ {1}
    <2>1. \A i \in 1..n - 1 : h[i] \in (1..n) \ {1}
        BY <1>1, <1>2
    <2>2. ASSUME NEW j \in (1..n) \ {1} PROVE \E i \in 1..n - 1 : h[i] = j
        <3>1. j - 1 \in 1..n - 1 /\ (j - 1) + 1 = j
            BY <1>1
        <3>2. h[j - 1] = j
            BY <1>2, <3>1
        <3> QED BY <3>1, <3>2
    <2> HIDE DEF h, n
    <2> QED BY <2>1, <2>2
<1> HIDE DEF h, k, n, u
<1>8. Total(f, {h[i] : i \in 1..n - 1}) = Total(k, 1..n - 1)
    <2>1. PICK D : D = 1..n - 1
        OBVIOUS
    <2>2. /\ IsFiniteSet(D) /\ \A i \in D : f[h[i]] = k[i] /\ k[i] \in Int
          /\ \A i, j \in D : h[i] = h[j] => i = j
        BY <1>3, <1>5, <1>6, <2>1
    <2>3. Total(f, {h[i] : i \in D}) = Total(k, D)
        BY <2>2, TotalRenamed
    <2> QED BY <2>1, <2>3
<1>9. Total(f, 1..n) = f[1] + Total(f, (1..n) \ {1})
    BY <1>1, <1>3, TotalRemove
<1> QED BY <1>1, <1>2, <1>4, <1>7, <1>8, <1>9 DEF u

(* A note of an account is spent with the nullifier its owner would use:   *)
(* another key does not open it.                                           *)
LEMMA OwnNoteOf ==
    ASSUME Typed, LeavesOpen, NEW a, NEW n, NoteOf(a, n)
    PROVE  OwnNote(n)
<1>1. PICK tree \in TreeNumber, b \in Account :
        \E i \in DOMAIN trees[tree] : n = Nullifier(tree, NullifyingKey[b], i)
    BY DEF NoteOf
<1>2. PICK i \in DOMAIN trees[tree] : n = Nullifier(tree, NullifyingKey[b], i)
    BY <1>1
<1>3. n[1] = tree /\ n[2] = NullifyingKey[b] /\ n[3] = i
    BY <1>2 DEF Nullifier
<1>4. PICK p : p = <<tree, i>>
    OBVIOUS
<1>5. p \in Positions /\ LeafAt(p) = trees[n[1]][n[3]] /\ p[1] = n[1] /\ p[2] = n[3]
    <2>1. /\ Len(trees[tree]) \in Nat /\ DOMAIN trees[tree] = 1..Len(trees[tree])
          /\ Len(trees[tree]) <= TreeCapacity
        BY Lengths DEF Typed
    <2>2. i \in 1..TreeCapacity
        BY <2>1, LegacyAssumption
    <2> QED BY <1>2, <1>3, <1>4, <2>2 DEF Positions, LeafAt
<1>6. PICK r \in Randomness : LeafAt(p).npk = NPK(MPK(a, NullifyingKey[b]), r)
    BY <1>3, <1>5 DEF NoteOf
<1>7. IsSpendable(LeafAt(p).npk)
    BY <1>5 DEF NoteOf
<1>8. PICK c \in Account : OwnedBy(LeafAt(p), c)
    BY <1>5, <1>7 DEF LeavesOpen
<1>9. PICK q \in Randomness : LeafAt(p).npk = NPK(MPK(c, NullifyingKey[c]), q)
    BY <1>8 DEF OwnedBy, IsKeyOf
<1>10. NullifyingKey[b] = NullifyingKey[c]
    BY <1>6, <1>7, <1>9, OneOwner
<1> QED BY <1>2, <1>3, <1>5, <1>8, <1>10 DEF OwnNote

(* What a withdrawal pays, and what a transfer costs.                      *)
PayoutWorth(s, t) == IF isWithdrawal(s) /\ s.payout[2] = t THEN s.payout[3] ELSE 0
FeeWorth(s, t) == IF s.token = t THEN s.fee ELSE 0

(* What a transfer spends is what it keeps in notes, pays out and costs.   *)
LEMMA SlotBalances ==
    ASSUME NEW slots, NEW feeTokens, NEW feeNPK, NEW provingTime,
           IsEpoch(slots, feeTokens, feeNPK, provingTime), NEW s \in ToSet(slots), NEW t,
           NEW g, \A n \in ToSet(Nullifiers(s)) :
                    g[n] = IF trees[n[1]][n[3]].token = t THEN NoteValueAt(n) ELSE 0,
           NEW m, \A leaf \in ToSet(treeLeavesForTransfer(s)) :
                    m[leaf] = IF leaf.token = t THEN leaf.value ELSE 0
    PROVE  /\ SumOver(g, Nullifiers(s)) = SumOver(m, treeLeavesForTransfer(s)) + PayoutWorth(s, t) + FeeWorth(s, t)
           /\ SumOver(g, Nullifiers(s)) \in Int /\ SumOver(m, treeLeavesForTransfer(s)) \in Int
           /\ PayoutWorth(s, t) \in Nat /\ FeeWorth(s, t) \in Nat
<1> DEFINE ns == Nullifiers(s)
           k == Len(s.inputs)
           l == Len(s.outputs)
           ins == ValuesOf(s.inputs)
           outs == ValuesOf(s.outputs)
           leaves == treeLeavesForTransfer(s)
<1>1. /\ k \in Nat /\ DOMAIN s.inputs = 1..k /\ DOMAIN ns = 1..k
      /\ \A i \in 1..k :
            /\ trees[ns[i][1]][ns[i][3]].token = s.token
            /\ NoteValueAt(ns[i]) = s.inputs[i].value /\ s.inputs[i].value \in Nat
    BY TransferBalances DEF NoteValueAt
<1>2. /\ l \in Nat \ {0} /\ DOMAIN s.outputs = 1..l /\ \A j \in 1..l : s.outputs[j].value \in Nat
      /\ FieldSum(ins) = Total(ins, 1..k) /\ FieldSum(outs) = Total(outs, 1..l)
      /\ FieldSum(outs) \in Nat /\ s.fee \in 0..MaxAmount /\ FieldSum(ins) = FieldSum(outs) + s.fee
    BY TransferBalances
<1>3. /\ IsList(ns) /\ IsList(Outs(s)) /\ Outs(s) # <<>> /\ DOMAIN Outs(s) = 1..l
      /\ isWithdrawal(s) =>
            \E to \in Recipient, amount \in Nat :
                s.payout = <<to, s.token, amount>> /\ s.outputs[1].value = amount
    BY <1>2, TransferIs
<1>4. /\ IsList(leaves)
      /\ isWithdrawal(s) => leaves = Tail(Outs(s))
      /\ ~isWithdrawal(s) => leaves = Outs(s)
    BY <1>3, LeavesOfSlot
<1>5. MaxAmount \in Nat /\ s.fee \in Nat
    BY <1>2, ModulusAssumption
<1>6. \A j \in 1..l : Outs(s)[j].token = s.token /\ Outs(s)[j].value = s.outputs[j].value
    BY <1>2 DEF Outs, Commitment
<1>7. PayoutWorth(s, t) \in Nat /\ FeeWorth(s, t) \in Nat
    BY <1>3, <1>5 DEF PayoutWorth, FeeWorth
<1>8. \A i \in 1..k : g[ns[i]] = IF s.token = t THEN ins[i] ELSE 0
    <2> SUFFICES ASSUME NEW i \in 1..k PROVE g[ns[i]] = IF s.token = t THEN s.inputs[i].value ELSE 0
        BY <1>1 DEF ValuesOf
    <2>1. ns[i] \in ToSet(ns)
        BY <1>1 DEF ToSet
    <2> HIDE DEF ns
    <2> QED BY <1>1, <2>1 DEF ns
<1>9. ASSUME NEW leaf \in ToSet(leaves) PROVE \E j \in 1..l : leaf = Outs(s)[j]
    <2>1. ToSet(leaves) \subseteq ToSet(Outs(s))
        <3>1. CASE isWithdrawal(s)
            <4>1. Outs(s) \in Seq(ToSet(Outs(s)))
                BY <1>3 DEF IsList
            <4>2. Tail(Outs(s)) \in Seq(ToSet(Outs(s)))
                BY <1>3, <4>1
            <4>3. ToSet(Tail(Outs(s))) \subseteq ToSet(Outs(s))
                BY <4>2, ListOf
            <4> QED BY <1>4, <3>1, <4>3
        <3>2. CASE ~isWithdrawal(s)
            BY <1>4, <3>2
        <3> QED BY <3>1, <3>2
    <2> QED BY <1>3, <1>9, <2>1 DEF ToSet
<1>10. \A leaf \in ToSet(leaves) : m[leaf] = IF s.token = t THEN leaf.value ELSE 0
    BY <1>6, <1>9
<1>11. CASE s.token # t
    <2>1. SumOver(g, ns) = 0
        <3>1. \A n \in ToSet(ns) : g[n] = 0
            BY <1>1, <1>8, <1>11 DEF ToSet
        <3> HIDE DEF ns
        <3> QED BY <1>3, <3>1, SumOverZero
    <2>2. SumOver(m, leaves) = 0
        <3>1. \A leaf \in ToSet(leaves) : m[leaf] = 0
            BY <1>10, <1>11
        <3> HIDE DEF leaves
        <3> QED BY <1>4, <3>1, SumOverZero
    <2>3. PayoutWorth(s, t) = 0 /\ FeeWorth(s, t) = 0
        BY <1>3, <1>11 DEF PayoutWorth, FeeWorth
    <2> QED BY <1>7, <2>1, <2>2, <2>3
<1>12. CASE s.token = t
    <2>1. SumOver(g, ns) = FieldSum(ins)
        <3>1. \A i \in DOMAIN ns : g[ns[i]] = ins[i]
            BY <1>1, <1>8, <1>12
        <3> HIDE DEF ns, ins
        <3>2. SumOver(g, ns) = Total(ins, DOMAIN ns)
            BY <1>3, <3>1, SumOverPlaces
        <3> QED BY <1>1, <1>2, <3>2
    <2>2. /\ \A j \in 1..l : outs[j] = s.outputs[j].value /\ outs[j] \in Int
          /\ \A j \in 1..l : Outs(s)[j] \in ToSet(leaves) => m[Outs(s)[j]] = outs[j]
        <3>1. \A j \in 1..l : outs[j] = s.outputs[j].value /\ outs[j] \in Int
            BY <1>2 DEF ValuesOf
        <3>2. ASSUME NEW j \in 1..l, Outs(s)[j] \in ToSet(leaves)
              PROVE  m[Outs(s)[j]] = s.outputs[j].value
            <4> HIDE DEF leaves, l
            <4> QED BY <1>6, <1>10, <1>12, <3>2
        <3> HIDE DEF outs, leaves, l
        <3> QED BY <3>1, <3>2
    <2>3. FeeWorth(s, t) = s.fee
        BY <1>12 DEF FeeWorth
    <2>4. CASE isWithdrawal(s)
        <3>1. PayoutWorth(s, t) = outs[1]
            BY <1>2, <1>3, <1>12, <2>2, <2>4 DEF PayoutWorth
        <3>2. \A j \in 1..l : j # 1 => m[Outs(s)[j]] = outs[j]
            <4> SUFFICES ASSUME NEW j \in 1..l, j # 1 PROVE Outs(s)[j] \in ToSet(leaves)
                BY <2>2
            <4>1. Outs(s) \in Seq(ToSet(Outs(s))) /\ Len(Outs(s)) = l
                BY <1>2, <1>3 DEF IsList
            <4>2. Len(Tail(Outs(s))) = l - 1 /\ Tail(Outs(s))[j - 1] = Outs(s)[j] /\ j - 1 \in 1..l - 1
                  /\ DOMAIN Tail(Outs(s)) = 1..l - 1
                <5> HIDE DEF l
                <5> QED BY <1>2, <1>3, <4>1
            <4> QED BY <1>4, <2>4, <4>2 DEF ToSet
        <3>3. Total(outs, DOMAIN Outs(s)) = outs[1] + SumOver(m, Tail(Outs(s)))
            <4> HIDE DEF outs, l
            <4> QED BY ZenonT(30), <1>3, <2>2, <3>2, SumOverTail
        <3>4. SumOver(m, leaves) \in Int
            <4>1. \A leaf \in ToSet(leaves) : m[leaf] \in Int
                BY <1>2, <1>6, <1>9, <1>10, <1>12
            <4> HIDE DEF leaves
            <4> QED BY <1>4, <4>1, SumOverInt
        <3>5. FieldSum(outs) = PayoutWorth(s, t) + SumOver(m, leaves)
            BY <1>2, <1>3, <1>4, <2>4, <3>1, <3>3
        <3> HIDE DEF ins, outs, ns, leaves
        <3> QED BY <1>2, <1>5, <1>7, <2>1, <2>3, <3>4, <3>5 DEF ns, leaves
    <2>5. CASE ~isWithdrawal(s)
        <3>1. PayoutWorth(s, t) = 0
            BY <2>5 DEF PayoutWorth
        <3>2. \A j \in DOMAIN Outs(s) : m[Outs(s)[j]] = outs[j]
            <4>1. \A j \in DOMAIN Outs(s) : Outs(s)[j] \in ToSet(Outs(s))
                BY DEF ToSet
            <4> HIDE DEF outs
            <4> QED BY <1>3, <1>4, <2>2, <2>5, <4>1
        <3>3. SumOver(m, Outs(s)) = Total(outs, DOMAIN Outs(s))
            <4> HIDE DEF outs
            <4> QED BY ZenonT(30), <1>3, <3>2, SumOverPlaces
        <3>4. SumOver(m, leaves) = FieldSum(outs)
            BY <1>2, <1>3, <1>4, <2>5, <3>3
        <3> HIDE DEF ins, outs, ns, leaves
        <3> QED BY <1>2, <1>5, <1>7, <2>1, <2>3, <3>1, <3>4 DEF ns, leaves
    <2> QED BY <2>4, <2>5
<1> QED BY <1>7, <1>11, <1>12

FeesWorth(slots, t) == [j \in DOMAIN slots |-> FeeWorth(slots[j], t)]

(* The fees of an epoch are the notes that are made for them: they do not  *)
(* wrap, and no bucket of a token is there twice.                          *)
LEMMA FeesAddUp ==
    ASSUME NEW slots, NEW feeTokens, NEW feeNPK, NEW provingTime,
           IsEpoch(slots, feeTokens, feeNPK, provingTime), NEW t,
           NEW m, \A leaf \in ToSet(feeCommitments(slots, feeTokens, feeNPK)) :
                    m[leaf] = IF leaf.token = t THEN leaf.value ELSE 0
    PROVE  /\ IsList(feeCommitments(slots, feeTokens, feeNPK))
           /\ \A leaf \in ToSet(feeCommitments(slots, feeTokens, feeNPK)) :
                    leaf.value \in Nat /\ \E a \in Account : OwnedBy(leaf, a)
           /\ SumOver(m, feeCommitments(slots, feeTokens, feeNPK))
                = Total(FeesWorth(slots, t), 1..Len(slots))
           /\ Total(FeesWorth(slots, t), 1..Len(slots)) \in Int
<1> DEFINE n == Len(slots)
           fees == feeCommitments(slots, feeTokens, feeNPK)
           worth == FeesWorth(slots, t)
           D == DOMAIN feeTokens
<1>1. n \in Nat /\ n # 0 /\ DOMAIN slots = 1..n /\ \A j \in 1..n : slots[j] \in ToSet(slots)
    BY SlotsAreListed
<1>2. /\ FeesRouted(slots, feeTokens) /\ feeNPK \in FeeKeys /\ IsSpendable(feeNPK)
      /\ n <= MaxTransfers /\ MaxTransfers \in Nat /\ MaxAmount \in Nat /\ Modulus \in Nat
    BY BoundsAssumption, ModulusAssumption DEF IsEpoch
<1>3. IsList(feeTokens) /\ D = 1..Len(feeTokens) /\ Len(feeTokens) \in Nat
    <2>1. IsList(feeTokens)
        BY FeeTokensAssumption DEF IsEpoch, IsList
    <2> QED BY <2>1, Lengths
<1>4. /\ DOMAIN fees = D
      /\ \A j \in D : fees[j] = Commitment(feeNPK, feeTokens[j], FeeValue(slots, feeTokens[j]))
    BY DEF feeCommitments
<1>5. IsList(fees)
    <2>1. fees = [j \in 1..Len(feeTokens) |-> fees[j]] /\ DOMAIN fees = 1..Len(feeTokens)
        BY <1>3 DEF feeCommitments
    <2> HIDE DEF fees
    <2> QED BY <1>3, <2>1, Made
<1>6. PICK a \in Account : IsKeyOf(feeNPK, a)
    BY <1>2, OwnersAssumption DEF KeysNamed
<1>7. \A leaf \in ToSet(fees) : leaf.value \in Nat /\ \E b \in Account : OwnedBy(leaf, b)
    <2> SUFFICES ASSUME NEW j \in D PROVE fees[j].value \in Nat /\ OwnedBy(fees[j], a)
        BY <1>4 DEF ToSet
    <2>1. FeeValue(slots, feeTokens[j]) \in Nat
        BY <1>2 DEF FeesRouted, IsAmount
    <2>2. fees[j].value = FeeValue(slots, feeTokens[j]) /\ fees[j].npk = feeNPK
        BY <1>4 DEF Commitment
    <2> HIDE DEF fees
    <2> QED BY <1>2, <1>6, <2>1, <2>2 DEF OwnedBy
<1>8. \A j \in 1..n : worth[j] = FeeWorth(slots[j], t) /\ worth[j] \in 0..MaxAmount
    <2> SUFFICES ASSUME NEW j \in 1..n PROVE FeeWorth(slots[j], t) \in 0..MaxAmount
        BY <1>1 DEF FeesWorth
    <2>1. slots[j].fee \in 0..MaxAmount
        BY <1>1, TransferBalances
    <2> QED BY <1>2, <2>1 DEF FeeWorth
<1>9. IsFiniteSet(1..n) /\ DOMAIN worth = 1..n
    <2>1. 1 \in Int /\ n \in Int
        BY <1>1
    <2>2. IsFiniteSet(1..n)
        BY ONLY <2>1, FS_Interval
    <2> QED BY <1>1, <2>2 DEF FeesWorth
<1>10. FeeValue(slots, t) = Total(worth, 1..n) /\ Total(worth, 1..n) \in Int
    <2>1. FeeValue(slots, t) = FieldSum(worth)
        BY DEF FeeValue, FeesWorth, FeeWorth
    <2>2. n * MaxAmount < Modulus
        <3>1. PICK x \in Nat : MaxTransfers = n + x
            <4>1. MaxTransfers - n \in Nat /\ MaxTransfers = n + (MaxTransfers - n)
                BY <1>1, <1>2
            <4> QED BY <4>1
        <3> HIDE DEF n
        <3>2. MaxTransfers * MaxAmount = n * MaxAmount + x * MaxAmount
              /\ n * MaxAmount \in Nat /\ x * MaxAmount \in Nat
            BY <1>1, <1>2, <3>1
        <3> QED BY <1>2, <3>2, ModulusLarge
    <2> HIDE DEF worth, n
    <2>3. FieldSum(worth) = Total(worth, 1..n) /\ FieldSum(worth) \in Nat
        BY <1>1, <1>8, <1>9, <2>2, FieldSumIsTotal DEF IsAmount
    <2> QED BY <2>1, <2>3
<1> DEFINE w == [j \in D |-> IF feeTokens[j] = t THEN FeeValue(slots, t) ELSE 0]
<1>11. \A j \in DOMAIN fees : m[fees[j]] = w[j]
    <2> SUFFICES ASSUME NEW j \in D PROVE m[fees[j]] = IF feeTokens[j] = t THEN FeeValue(slots, t) ELSE 0
        BY <1>4
    <2>1. fees[j] \in ToSet(fees)
        BY <1>4 DEF ToSet
    <2>2. fees[j].token = feeTokens[j] /\ fees[j].value = FeeValue(slots, feeTokens[j])
        BY <1>4 DEF Commitment
    <2>3. m[fees[j]] = IF fees[j].token = t THEN fees[j].value ELSE 0
        BY <2>1
    <2> HIDE DEF fees
    <2> QED BY <2>2, <2>3
<1>12. \A j \in D : w[j] \in Int
    BY <1>10
<1>13. IsFiniteSet(D)
    BY <1>3, ListDomain
<1>14. Total(w, D) = Total(worth, 1..n)
    <2>1. CASE t \in ToSet(feeTokens)
        <3>1. PICK j \in D : feeTokens[j] = t
            BY <2>1 DEF ToSet
        <3>2. w[j] = FeeValue(slots, t)
            BY <3>1
        <3>3. \A i \in D \ {j} : w[i] = 0
            BY <1>2, <3>1 DEF FeesRouted, IsInjective
        <3>4. IsFiniteSet(D \ {j})
            BY <1>13, FS_Subset
        <3> HIDE DEF w, D, worth
        <3>5. Total(w, D) = w[j] + Total(w, D \ {j})
            BY <1>12, <1>13, TotalRemove
        <3>6. Total(w, D \ {j}) = 0
            BY <3>3, <3>4, TotalZero
        <3> QED BY <1>10, <3>2, <3>5, <3>6
    <2>2. CASE t \notin ToSet(feeTokens)
        <3>1. \A j \in D : w[j] = 0
            BY <2>2 DEF ToSet
        <3>2. \A j \in 1..n : worth[j] = 0
            <4>1. \A j \in 1..n : slots[j].token # t
                BY <1>1, <1>2, <2>2 DEF FeesRouted
            <4> HIDE DEF worth, n
            <4> QED BY <1>8, <4>1 DEF FeeWorth
        <3> HIDE DEF w, D, worth, n
        <3> QED BY <1>9, <1>13, <3>1, <3>2, TotalZero
    <2> QED BY <2>1, <2>2
<1> HIDE DEF w, D, worth, n, fees
<1>15. SumOver(m, fees) = Total(w, D)
    BY <1>4, <1>5, <1>11, SumOverPlaces
<1> QED BY <1>5, <1>7, <1>10, <1>14, <1>15 DEF fees, worth, n

PayoutsWorth(slots, t) == [j \in DOMAIN slots |-> PayoutWorth(slots[j], t)]

(* Withdrawals are paid to whom they name, once.                           *)
LEMMA PayoutsAddUp ==
    ASSUME Typed, NEW slots, NEW feeTokens, NEW feeNPK, NEW provingTime,
           IsEpoch(slots, feeTokens, feeNPK, provingTime), Pay(slots), NEW t \in Token
    PROVE  /\ PaidOut(paid', t) = PaidOut(paid, t) + Total(PayoutsWorth(slots, t), 1..Len(slots))
           /\ PaidOut(paid, t) \in Int /\ Total(PayoutsWorth(slots, t), 1..Len(slots)) \in Int
<1> DEFINE n == Len(slots)
           f == PayoutsWorth(slots, t)
           R == {j \in 1..n : isWithdrawal(slots[j]) /\ slots[j].payout[2] = t}
           kind == [j \in R |-> slots[j].payout[1]]
           part == [to \in Recipient |-> {j \in R : slots[j].payout[1] = to}]
           g == [to \in Recipient |-> Total(f, part[to])]
           p(to) == [j \in DOMAIN slots |->
                        IF isWithdrawal(slots[j]) /\ slots[j].payout[1] = to /\ slots[j].payout[2] = t
                        THEN slots[j].payout[3] ELSE 0]
<1>1. n \in Nat /\ n # 0 /\ DOMAIN slots = 1..n /\ \A j \in 1..n : slots[j] \in ToSet(slots)
    BY SlotsAreListed
<1>2. IsFiniteSet(1..n) /\ R \in SUBSET (1..n) /\ IsFiniteSet(R)
    <2>1. 1 \in Int /\ n \in Int
        BY <1>1
    <2>2. IsFiniteSet(1..n)
        BY ONLY <2>1, FS_Interval
    <2>3. R \in SUBSET (1..n)
        OBVIOUS
    <2> HIDE DEF R, n
    <2> QED BY <2>2, <2>3, FS_Subset
<1>3. ASSUME NEW j \in 1..n, isWithdrawal(slots[j])
      PROVE  slots[j].payout[1] \in Recipient /\ slots[j].payout[3] \in Nat
    <2>1. PICK to \in Recipient, amount \in Nat : slots[j].payout = <<to, slots[j].token, amount>>
        BY <1>1, <1>3, TransferIs
    <2> QED BY <2>1
<1>4. \A j \in 1..n : /\ f[j] = IF j \in R THEN slots[j].payout[3] ELSE 0
                      /\ f[j] \in Nat
    <2> SUFFICES ASSUME NEW j \in 1..n
                 PROVE  /\ PayoutWorth(slots[j], t) = IF j \in R THEN slots[j].payout[3] ELSE 0
                        /\ PayoutWorth(slots[j], t) \in Nat
        BY <1>1 DEF PayoutsWorth
    <2> QED BY <1>3 DEF PayoutWorth
<1>5. /\ \A j \in R : kind[j] \in Recipient /\ f[j] \in Int
      /\ \A to \in Recipient : part[to] \subseteq R /\ g[to] = Total(f, part[to])
      /\ \A to \in Recipient, j \in R : j \in part[to] <=> kind[j] = to
    BY <1>3, <1>4
<1>6. ASSUME NEW to \in Recipient
      PROVE  paid'[to][t] = paid[to][t] + g[to] /\ g[to] \in Int
    <2>1. PICK P, h : P = part[to] /\ h = p(to)
        OBVIOUS
    <2>2. P \in SUBSET (1..n) /\ \A j \in P : f[j] \in Int
        BY <1>2, <1>5, <2>1
    <2>3. DOMAIN h = 1..n /\ paid'[to][t] = paid[to][t] + SumFunction(h)
        BY <1>1, <2>1 DEF Pay
    <2>4. \A j \in 1..n : h[j] = IF j \in P THEN f[j] ELSE 0
        <3> SUFFICES ASSUME NEW j \in 1..n PROVE h[j] = IF j \in P THEN f[j] ELSE 0
            OBVIOUS
        <3>1. h[j] = IF isWithdrawal(slots[j]) /\ slots[j].payout[1] = to /\ slots[j].payout[2] = t
                     THEN slots[j].payout[3] ELSE 0
            BY <1>1, <2>1
        <3>2. j \in P <=> isWithdrawal(slots[j]) /\ slots[j].payout[1] = to /\ slots[j].payout[2] = t
            BY <2>1
        <3>3. j \in P => f[j] = slots[j].payout[3]
            BY <1>4, <2>1
        <3> HIDE DEF f
        <3> QED BY <3>1, <3>2, <3>3
    <2>5. g[to] = Total(f, P)
        BY <2>1
    <2> HIDE DEF f, g, part, n, R
    <2>6. SumFunction(h) = Total(h, 1..n)
        BY <1>2, <2>3, SumIsTotal
    <2>7. Total(f, P) = Total(h, 1..n)
        <3>1. PICK f1, D : f1 = f /\ D = 1..n
            OBVIOUS
        <3>2. /\ IsFiniteSet(D) /\ P \in SUBSET D /\ \A j \in P : f1[j] \in Int
              /\ \A j \in D : h[j] = IF j \in P THEN f1[j] ELSE 0
            BY <1>2, <2>2, <2>4, <3>1
        <3>3. Total(f1, P) = Total(h, D)
            BY ONLY <3>2, TotalFiltered
        <3> QED BY <3>1, <3>3
    <2>8. IsFiniteSet(P)
        BY <1>2, <2>2, FS_Subset
    <2>9. Total(f, P) \in Int
        BY <2>2, <2>8, TotalInt
    <2> QED BY <2>3, <2>5, <2>6, <2>7, <2>9
<1>7. \A j \in 1..n : f[j] = IF j \in R THEN f[j] ELSE 0
    BY <1>4
<1>8. \A j \in 1..n : f[j] \in Int
    BY <1>4
<1> HIDE DEF f, g, part, kind, R, p
<1>9. Total(g, Recipient) = Total(f, R)
    <2>1. PICK r, f1, g1, k1, p1 : r = R /\ f1 = f /\ g1 = g /\ k1 = kind /\ p1 = part
        OBVIOUS
    <2>2. /\ IsFiniteSet(r) /\ IsFiniteSet(Recipient)
          /\ \A j \in r : k1[j] \in Recipient /\ f1[j] \in Int
          /\ \A to \in Recipient : p1[to] \subseteq r /\ g1[to] = Total(f1, p1[to])
          /\ \A to \in Recipient, j \in r : j \in p1[to] <=> k1[j] = to
        BY <1>2, <1>5, <2>1, RecipientsAssumption
    <2>3. Total(g1, Recipient) = Total(f1, r)
        BY ONLY <2>2, TotalByKind
    <2> QED BY <2>1, <2>3
<1>10. Total(f, R) = Total(f, 1..n)
    <2>1. PICK r, f1, D : r = R /\ f1 = f /\ D = 1..n
        OBVIOUS
    <2>2. /\ IsFiniteSet(D) /\ r \in SUBSET D /\ \A j \in r : f1[j] \in Int
          /\ \A j \in D : f1[j] = IF j \in r THEN f1[j] ELSE 0
        BY <1>2, <1>5, <1>7, <2>1
    <2>3. Total(f1, r) = Total(f1, D)
        BY ONLY <2>2, TotalFiltered
    <2> QED BY <2>1, <2>3
<1>11. Total(f, 1..n) \in Int
    <2> HIDE DEF n
    <2> QED BY <1>2, <1>8, TotalInt
<1>12. PICK before, after : before = paid /\ after = paid'
    OBVIOUS
<1>13. before \in [Recipient -> [Token -> Nat]] /\ after \in [Recipient -> [Token -> Nat]]
    BY <1>12, EpochPays DEF Typed
<1>14. /\ PaidOut(before, t) = Total(PaidIn(before, t), Recipient) /\ PaidOut(before, t) \in Int
       /\ \A to \in Recipient : PaidIn(before, t)[to] = before[to][t] /\ before[to][t] \in Int
       /\ PaidOut(after, t) = Total(PaidIn(after, t), Recipient)
       /\ \A to \in Recipient : PaidIn(after, t)[to] = after[to][t]
    BY <1>13, PaidOutIs
<1>15. PICK b, c : b = PaidIn(before, t) /\ c = PaidIn(after, t)
    OBVIOUS
<1>16. \A to \in Recipient : b[to] \in Int /\ g[to] \in Int /\ c[to] = b[to] + g[to]
    BY <1>6, <1>12, <1>14, <1>15
<1>17. Total(c, Recipient) = Total(b, Recipient) + Total(g, Recipient)
    BY <1>16, RecipientsAssumption, TotalPlus
<1>18. PaidOut(after, t) = PaidOut(before, t) + Total(f, 1..n)
    BY <1>9, <1>10, <1>14, <1>15, <1>17
<1> QED BY <1>11, <1>12, <1>14, <1>18 DEF f, n
-----------------------------------------------------------------------------
(* A step that spends, mints, credits and pays keeps what is held, if what *)
(* comes is what goes.                                                     *)
LEMMA BalancedStep ==
    ASSUME Typed, Typed', LeavesOpen, SpentInTrees, NEW ns, Spends(ns), NEW new, Mints(new),
           pendingRequests \subseteq Requests, pendingRequests' \subseteq Requests,
           pendingSweeps \subseteq Sweeps, pendingSweeps' \subseteq Sweeps, NEW t \in Token,
           SumOver(SpentWorth(t, ToSet(ns)), ns)
                + Requested(pendingRequests, t) + Swept(pendingSweeps, t) + PaidOut(paid, t)
             = SumOver(LeafWorth(t, ToSet(new)), new)
                + Requested(pendingRequests', t) + Swept(pendingSweeps', t) + PaidOut(paid', t)
    PROVE  Held(t)' = Held(t)
<1>1. PICK spent, minted, notes, notes2 :
        /\ spent = SumOver(SpentWorth(t, ToSet(ns)), ns)
        /\ minted = SumOver(LeafWorth(t, ToSet(new)), new)
        /\ notes = NoteValue(t) /\ notes2 = NoteValue(t)'
    OBVIOUS
<1>2. spent \in Int /\ minted \in Int /\ notes \in Int /\ notes2 = notes - spent + minted
    BY <1>1, NotesMove
<1>3. PICK r, r2, w, w2, p, p2 :
        /\ r = pendingRequests /\ r2 = pendingRequests' /\ w = pendingSweeps /\ w2 = pendingSweeps'
        /\ p = paid /\ p2 = paid'
    OBVIOUS
<1>4. /\ Requested(r, t) \in Int /\ Requested(r2, t) \in Int
      /\ Swept(w, t) \in Int /\ Swept(w2, t) \in Int
      /\ PaidOut(p, t) \in Int /\ PaidOut(p2, t) \in Int
    BY <1>3, RequestedIs, SweptIs, PaidOutIs DEF Typed
<1>5. Held(t) = notes + Requested(r, t) + Swept(w, t) + PaidOut(p, t)
    BY <1>1, <1>3 DEF Held, PaidOut, PaidIn
<1>6. Held(t)' = notes2 + Requested(r2, t) + Swept(w2, t) + PaidOut(p2, t)
    BY <1>1, <1>3 DEF Held, PaidOut, PaidIn
<1>7. spent + Requested(r, t) + Swept(w, t) + PaidOut(p, t)
        = minted + Requested(r2, t) + Swept(w2, t) + PaidOut(p2, t)
    BY <1>1, <1>3
<1> QED BY <1>2, <1>4, <1>5, <1>6, <1>7

(* The nullifiers of an epoch.                                             *)
LEMMA EpochSpends ==
    ASSUME Typed, LeavesOpen, NEW slots, NEW feeTokens, NEW feeNPK, NEW provingTime,
           IsEpoch(slots, feeTokens, feeNPK, provingTime), EpochWrites(slots, feeTokens, feeNPK)
    PROVE  Spends(NullifiersOfAll(slots))
<1>1. IsList(NullifiersOfAll(slots))
    BY EpochNullifiers
<1>2. ASSUME NEW n \in ToSet(NullifiersOfAll(slots)) PROVE OwnNote(n)
    <2>1. PICK s \in ToSet(slots) : n \in ToSet(Nullifiers(s))
        BY EpochNullifiers
    <2>2. PICK a : a = s.account
        OBVIOUS
    <2>3. NoteOf(a, n)
        BY <2>1, <2>2, TransferIs
    <2> QED BY <2>3, OwnNoteOf
<1>3. /\ Unspent(NullifiersOfAll(slots))
      /\ nullifierSpent' = nullifierSpent \cup ToSet(NullifiersOfAll(slots))
    BY DEF EpochWrites
<1> QED BY <1>1, <1>2, <1>3 DEF Spends, Unspent

(* Leaves of a transfer can be spent by somebody.                          *)
LEMMA LeavesOfSlotOpen ==
    ASSUME NEW slots, NEW feeTokens, NEW feeNPK, NEW provingTime,
           IsEpoch(slots, feeTokens, feeNPK, provingTime), NEW s \in ToSet(slots),
           NEW leaf \in ToSet(treeLeavesForTransfer(s))
    PROVE  leaf.value \in Nat /\ \E a \in Account : OwnedBy(leaf, a)
<1>1. IsList(Outs(s)) /\ Outs(s) # <<>> /\ DOMAIN Outs(s) = DOMAIN s.outputs /\ Transfer(s, knownRoots)
    BY TransferIs
<1>2. PICK j \in DOMAIN Outs(s) : leaf = Outs(s)[j] /\ (isWithdrawal(s) => j # 1)
    <2>1. CASE isWithdrawal(s)
        <3>1. Outs(s) \in Seq(ToSet(Outs(s)))
            BY <1>1 DEF IsList
        <3>2. /\ DOMAIN Tail(Outs(s)) = 1..Len(Outs(s)) - 1 /\ Len(Outs(s)) \in Nat
              /\ DOMAIN Outs(s) = 1..Len(Outs(s))
              /\ \A i \in 1..Len(Outs(s)) - 1 : Tail(Outs(s))[i] = Outs(s)[i + 1]
            BY <1>1, <3>1
        <3>3. PICK i \in DOMAIN Tail(Outs(s)) : leaf = Tail(Outs(s))[i]
            BY <1>1, <2>1, LeavesOfSlot DEF ToSet
        <3>4. i + 1 \in DOMAIN Outs(s) /\ i + 1 # 1 /\ leaf = Outs(s)[i + 1]
            BY <3>2, <3>3
        <3> QED BY <3>4
    <2>2. CASE ~isWithdrawal(s)
        BY <1>1, <2>2, LeavesOfSlot DEF ToSet
    <2> QED BY <2>1, <2>2
<1>3. leaf.npk = s.outputs[j].npk /\ leaf.value = s.outputs[j].value /\ j \in DOMAIN s.outputs
    BY <1>1, <1>2 DEF Outs, Commitment
<1>4. IsAmount(leaf.value) /\ IsSpendable(leaf.npk)
    BY <1>1, <1>2, <1>3 DEF Transfer, OutputNotes
<1>5. s.outputs \in OutputLists /\ Len(s.outputs) # 0
    <2>1. Len(s.outputs) # 0
        BY <1>1, BoundsAssumption DEF Transfer
    <2> QED BY <1>1, <2>1, TransferIs, SlotsAre
<1>6. leaf.npk \in KeysNamed
    <2>1. s.outputs[j] \in ToSet(s.outputs)
        BY <1>3 DEF ToSet
    <2>2. leaf.npk \in {out.npk : out \in ToSet(s.outputs)}
        BY <1>3, <2>1
    <2> QED BY <1>5, <2>2 DEF KeysNamed
<1>7. \E a \in Account : OwnedBy(leaf, a)
    BY <1>4, <1>6, OwnersAssumption DEF OwnedBy
<1> QED BY <1>4, <1>7, ModulusAssumption DEF IsAmount

(* The leaves of an epoch have owners, those for fees too.                  *)
LEMMA EpochMints ==
    ASSUME NEW slots, NEW feeTokens, NEW feeNPK, NEW provingTime,
           IsEpoch(slots, feeTokens, feeNPK, provingTime), EpochWrites(slots, feeTokens, feeNPK)
    PROVE  /\ Mints(pendingLeaves(slots, feeTokens, feeNPK))
           /\ ToSet(pendingLeaves(slots, feeTokens, feeNPK))
                = (UNION {ToSet(treeLeavesForTransfer(s)) : s \in ToSet(slots)})
                    \cup ToSet(feeCommitments(slots, feeTokens, feeNPK))
<1> DEFINE n == Len(slots)
           lists == [t \in DOMAIN slots |-> treeLeavesForTransfer(slots[t])]
           fees == feeCommitments(slots, feeTokens, feeNPK)
           new == pendingLeaves(slots, feeTokens, feeNPK)
<1>1. n \in Nat /\ n # 0 /\ DOMAIN slots = 1..n /\ \A j \in DOMAIN slots : slots[j] \in ToSet(slots)
    BY SlotsAreListed
<1>2. DOMAIN lists = 1..n /\ lists = [i \in 1..n |-> lists[i]]
    BY <1>1
<1>3. \A i \in 1..n : lists[i] = treeLeavesForTransfer(slots[i]) /\ IsList(lists[i])
    BY <1>1, TransferIs, LeavesOfSlot
<1>4. IsList(FlattenSeq(lists)) /\ ToSet(FlattenSeq(lists)) = UNION {ToSet(lists[i]) : i \in 1..n}
    <2> HIDE DEF lists, n
    <2> QED BY <1>1, <1>2, <1>3, Flattened
<1>5. UNION {ToSet(lists[i]) : i \in 1..n} = UNION {ToSet(treeLeavesForTransfer(s)) : s \in ToSet(slots)}
    <2>1. ToSet(slots) = {slots[i] : i \in 1..n}
        BY <1>1 DEF ToSet
    <2> HIDE DEF lists, n
    <2> QED BY <1>3, <2>1
<1>6. /\ IsList(fees)
      /\ \A leaf \in ToSet(fees) : leaf.value \in Nat /\ \E a \in Account : OwnedBy(leaf, a)
    <2>1. PICK m : m = LeafWorth(0, ToSet(fees))
        OBVIOUS
    <2>2. \A leaf \in ToSet(fees) : m[leaf] = IF leaf.token = 0 THEN leaf.value ELSE 0
        BY <2>1 DEF LeafWorth
    <2> QED BY <2>2, FeesAddUp
<1>7. new = FlattenSeq(lists) \o fees
    BY DEF pendingLeaves
<1>8. ToSet(new) = ToSet(FlattenSeq(lists)) \cup ToSet(fees) /\ IsList(new)
    <2> HIDE DEF lists, fees, new
    <2> QED BY <1>4, <1>6, <1>7, Joined
<1>9. ToSet(new) = (UNION {ToSet(treeLeavesForTransfer(s)) : s \in ToSet(slots)}) \cup ToSet(fees)
    <2> HIDE DEF lists, fees, new, n
    <2> QED BY <1>4, <1>5, <1>8
<1>10. ASSUME NEW leaf \in ToSet(new)
       PROVE  leaf.value \in Nat /\ \E a \in Account : OwnedBy(leaf, a)
    <2>1. CASE leaf \in ToSet(fees)
        BY <1>6, <2>1
    <2>2. CASE leaf \notin ToSet(fees)
        <3>1. PICK s \in ToSet(slots) : leaf \in ToSet(treeLeavesForTransfer(s))
            <4> HIDE DEF fees, new
            <4> QED BY <1>9, <1>10, <2>2
        <3> QED BY <3>1, LeavesOfSlotOpen
    <2> QED BY <2>1, <2>2
<1>11. AppendLeaves(new)
    BY DEF EpochWrites
<1> HIDE DEF new
<1> QED BY <1>8, <1>9, <1>10, <1>11 DEF Mints, Appended, new

(* An epoch spends what it mints and pays.                                  *)
LEMMA EpochBalances ==
    ASSUME Typed, NEW slots, NEW feeTokens, NEW feeNPK, NEW provingTime,
           IsEpoch(slots, feeTokens, feeNPK, provingTime), EpochWrites(slots, feeTokens, feeNPK),
           NEW t \in Token, NEW ns, ns = NullifiersOfAll(slots),
           NEW new, new = pendingLeaves(slots, feeTokens, feeNPK)
    PROVE  SumOver(SpentWorth(t, ToSet(ns)), ns) + PaidOut(paid, t)
            = SumOver(LeafWorth(t, ToSet(new)), new) + PaidOut(paid', t)
<1> DEFINE n == Len(slots)
           D == 1..n
           ins == [j \in DOMAIN slots |-> Nullifiers(slots[j])]
           outs == [j \in DOMAIN slots |-> treeLeavesForTransfer(slots[j])]
           fees == feeCommitments(slots, feeTokens, feeNPK)
           g == SpentWorth(t, ToSet(ns))
           m == LeafWorth(t, ToSet(new))
           spent == [j \in D |-> SumOver(g, ins[j])]
           kept == [j \in D |-> SumOver(m, outs[j])]
           paidBy == PayoutsWorth(slots, t)
           feeBy == FeesWorth(slots, t)
           gone == [j \in D |-> paidBy[j] + feeBy[j]]
<1>1. n \in Nat /\ n # 0 /\ DOMAIN slots = D /\ \A j \in D : slots[j] \in ToSet(slots)
    BY SlotsAreListed
<1>2. IsFiniteSet(D)
    <2>1. 1 \in Int /\ n \in Int
        BY <1>1
    <2> QED BY ONLY <2>1, FS_Interval
<1>3. /\ ToSet(ns) = UNION {ToSet(Nullifiers(s)) : s \in ToSet(slots)}
      /\ ToSet(new) = (UNION {ToSet(treeLeavesForTransfer(s)) : s \in ToSet(slots)}) \cup ToSet(fees)
    BY EpochNullifiers, EpochMints
<1>4. ASSUME NEW j \in D
      PROVE  /\ ins[j] = Nullifiers(slots[j]) /\ outs[j] = treeLeavesForTransfer(slots[j])
             /\ IsList(ins[j]) /\ IsList(outs[j])
             /\ ToSet(ins[j]) \subseteq ToSet(ns) /\ ToSet(outs[j]) \subseteq ToSet(new)
    <2>1. PICK s \in ToSet(slots) : s = slots[j]
        BY <1>1
    <2>2. ins[j] = Nullifiers(s) /\ outs[j] = treeLeavesForTransfer(s)
        BY <1>1, <2>1
    <2>3. IsList(Nullifiers(s)) /\ IsList(treeLeavesForTransfer(s))
        BY TransferIs, LeavesOfSlot
    <2>4. ToSet(Nullifiers(s)) \subseteq ToSet(ns) /\ ToSet(treeLeavesForTransfer(s)) \subseteq ToSet(new)
        <3> HIDE DEF fees
        <3> QED BY <1>3
    <2> HIDE DEF ins, outs
    <2> QED BY <2>1, <2>2, <2>3, <2>4
<1>5. \A k \in ToSet(ns) : g[k] = IF trees[k[1]][k[3]].token = t THEN NoteValueAt(k) ELSE 0
    BY DEF SpentWorth
<1>6. \A leaf \in ToSet(new) : m[leaf] = IF leaf.token = t THEN leaf.value ELSE 0
    BY DEF LeafWorth
<1>7. ASSUME NEW j \in D
      PROVE  /\ spent[j] = kept[j] + gone[j] /\ gone[j] = paidBy[j] + feeBy[j]
             /\ spent[j] \in Int /\ kept[j] \in Int /\ gone[j] \in Int
             /\ paidBy[j] \in Int /\ feeBy[j] \in Int
    <2>1. PICK s \in ToSet(slots) : s = slots[j]
        BY <1>1
    <2>2. /\ ins[j] = Nullifiers(s) /\ outs[j] = treeLeavesForTransfer(s)
          /\ ToSet(Nullifiers(s)) \subseteq ToSet(ns)
          /\ ToSet(treeLeavesForTransfer(s)) \subseteq ToSet(new)
        BY <1>4, <2>1
    <2>3. paidBy[j] = PayoutWorth(s, t) /\ feeBy[j] = FeeWorth(s, t)
        BY <1>1, <2>1 DEF PayoutsWorth, FeesWorth
    <2>4. spent[j] = SumOver(g, Nullifiers(s)) /\ kept[j] = SumOver(m, treeLeavesForTransfer(s))
          /\ gone[j] = paidBy[j] + feeBy[j]
        BY <2>2
    <2> HIDE DEF g, m, ins, outs, spent, kept, gone, paidBy, feeBy
    <2>5. /\ \A k \in ToSet(Nullifiers(s)) :
                g[k] = IF trees[k[1]][k[3]].token = t THEN NoteValueAt(k) ELSE 0
          /\ \A leaf \in ToSet(treeLeavesForTransfer(s)) :
                m[leaf] = IF leaf.token = t THEN leaf.value ELSE 0
        BY <1>5, <1>6, <2>2
    <2>6. /\ SumOver(g, Nullifiers(s))
                = SumOver(m, treeLeavesForTransfer(s)) + PayoutWorth(s, t) + FeeWorth(s, t)
          /\ SumOver(g, Nullifiers(s)) \in Int /\ SumOver(m, treeLeavesForTransfer(s)) \in Int
          /\ PayoutWorth(s, t) \in Nat /\ FeeWorth(s, t) \in Nat
        BY <2>5, SlotBalances
    <2> QED BY <2>3, <2>4, <2>6
<1>8. \A k \in ToSet(ns) : g[k] \in Int
    <2> SUFFICES ASSUME NEW k \in ToSet(ns) PROVE g[k] \in Int
        OBVIOUS
    <2>1. PICK s \in ToSet(slots) : k \in ToSet(Nullifiers(s))
        BY <1>3
    <2>2. PICK i \in 1..Len(s.inputs) : k = Nullifiers(s)[i]
        BY <2>1, TransferBalances DEF ToSet
    <2>3. NoteValueAt(k) \in Nat
        BY <2>2, TransferBalances DEF NoteValueAt
    <2> HIDE DEF g
    <2> QED BY <1>5, <2>3
<1>9. \A leaf \in ToSet(new) : m[leaf] \in Int
    <2>1. \A leaf \in ToSet(new) : leaf.value \in Nat
        BY EpochMints DEF Mints
    <2> HIDE DEF m
    <2> QED BY <1>6, <2>1
<1>10. SumOver(g, ns) = Total(spent, D)
    <2>1. /\ DOMAIN ins = 1..n /\ ins = [j \in 1..n |-> ins[j]] /\ ns = FlattenSeq(ins)
          /\ \A j \in 1..n : spent[j] = SumOver(g, ins[j])
        BY <1>1 DEF NullifiersOfAll
    <2>2. \A j \in 1..n : IsList(ins[j]) /\ \A k \in ToSet(ins[j]) : g[k] \in Int
        <3> HIDE DEF ins, g
        <3> QED BY <1>4, <1>8
    <2> HIDE DEF ins, g, spent, n
    <2> QED BY <1>1, <2>1, <2>2, SumOverFlattened
<1>11. SumOver(m, FlattenSeq(outs)) = Total(kept, D) /\ IsList(FlattenSeq(outs))
    <2>1. /\ DOMAIN outs = 1..n /\ outs = [j \in 1..n |-> outs[j]]
          /\ \A j \in 1..n : kept[j] = SumOver(m, outs[j])
        BY <1>1
    <2>2. \A j \in 1..n : IsList(outs[j]) /\ \A leaf \in ToSet(outs[j]) : m[leaf] \in Int
        <3> HIDE DEF outs, m
        <3> QED BY <1>4, <1>9
    <2> HIDE DEF outs, m, kept, n
    <2> QED BY <1>1, <2>1, <2>2, SumOverFlattened, Flattened
<1>12. /\ SumOver(m, fees) = Total(feeBy, D) /\ Total(feeBy, D) \in Int /\ IsList(fees)
    <2>1. \A leaf \in ToSet(fees) : m[leaf] = IF leaf.token = t THEN leaf.value ELSE 0
        <3> HIDE DEF fees, m
        <3> QED BY <1>3, <1>6
    <2> HIDE DEF m
    <2> QED BY <2>1, FeesAddUp
<1>13. SumOver(m, new) = Total(kept, D) + Total(feeBy, D)
    <2>1. new = FlattenSeq(outs) \o fees
        BY DEF pendingLeaves
    <2> HIDE DEF outs, fees, m, kept, feeBy
    <2>2. ToSet(new) = ToSet(FlattenSeq(outs)) \cup ToSet(fees)
        BY <1>11, <1>12, <2>1, Joined
    <2>3. SumOver(m, new) = SumOver(m, FlattenSeq(outs)) + SumOver(m, fees)
        BY <1>9, <1>11, <1>12, <2>1, <2>2, SumOverJoined
    <2> QED BY <1>11, <1>12, <2>3
<1>14. /\ PaidOut(paid', t) = PaidOut(paid, t) + Total(paidBy, D)
       /\ PaidOut(paid, t) \in Int /\ Total(paidBy, D) \in Int
    BY PayoutsAddUp DEF EpochWrites
<1> HIDE DEF spent, kept, paidBy, feeBy, gone, D
<1>15. Total(spent, D) = Total(kept, D) + Total(gone, D)
    BY <1>2, <1>7, TotalPlus
<1>16. Total(gone, D) = Total(paidBy, D) + Total(feeBy, D)
    BY <1>2, <1>7, TotalPlus
<1>17. Total(kept, D) \in Int
    BY <1>2, <1>7, TotalInt
<1> HIDE DEF g, m
<1>18. SumOver(g, ns) + PaidOut(paid, t) = SumOver(m, new) + PaidOut(paid', t)
    BY <1>10, <1>12, <1>13, <1>14, <1>15, <1>16, <1>17
<1> QED BY <1>18 DEF g, m
-----------------------------------------------------------------------------
(* Deposits.                                                               *)

(* A walk over n commitments; the relation of the circuit is about one.    *)
IsWalk(walk, n, ids, totals, counts, commitmentsOut, w) ==
    walk = [i \in 0..n |->
                IF i = 0 THEN FirstRequest
                ELSE TakeCommitment(ids, totals, counts, w, commitmentsOut[i], walk[i - 1])]

(* The recursion has a solution.                                            *)
LEMMA WalkExists ==
    ASSUME NEW ids, NEW totals, NEW counts, NEW commitmentsOut, NEW w, NEW n \in Nat
    PROVE  IsWalk(CHOOSE walk : IsWalk(walk, n, ids, totals, counts, commitmentsOut, w),
                  n, ids, totals, counts, commitmentsOut, w)
<1> DEFINE Is(walk, m) == IsWalk(walk, m, ids, totals, counts, commitmentsOut, w)
           step(i, s) == TakeCommitment(ids, totals, counts, w, commitmentsOut[i], s)
           Good == {m \in Nat : \E walk : Is(walk, m)}
<1>0. ASSUME NEW walk, NEW m \in Nat
      PROVE  Is(walk, m) <=> walk = [i \in 0..m |-> IF i = 0 THEN FirstRequest ELSE step(i, walk[i - 1])]
    BY DEF IsWalk
<1> HIDE DEF Is, step
<1>1. 0 \in Good
    <2> DEFINE walk == [i \in 0..0 |-> FirstRequest]
    <2>1. walk = [i \in 0..0 |-> IF i = 0 THEN FirstRequest ELSE step(i, walk[i - 1])]
        OBVIOUS
    <2> HIDE DEF walk
    <2>2. Is(walk, 0)
        BY <1>0, <2>1
    <2> QED BY <2>2
<1>2. ASSUME NEW m \in Nat, m \in Good PROVE m + 1 \in Good
    <2>1. PICK walk : Is(walk, m)
        BY <1>2
    <2>2. walk = [i \in 0..m |-> IF i = 0 THEN FirstRequest ELSE step(i, walk[i - 1])]
        BY <1>0, <2>1
    <2> DEFINE longer == [i \in 0..m + 1 |-> IF i = 0 THEN FirstRequest ELSE step(i, walk[i - 1])]
    <2>3. ASSUME NEW i \in 0..m PROVE longer[i] = walk[i]
        <3>1. walk[i] = IF i = 0 THEN FirstRequest ELSE step(i, walk[i - 1])
            BY <2>2
        <3>2. i \in 0..m + 1
            OBVIOUS
        <3> QED BY <3>1, <3>2
    <2>4. ASSUME NEW i \in 0..m + 1
          PROVE  longer[i] = IF i = 0 THEN FirstRequest ELSE step(i, longer[i - 1])
        <3>1. CASE i = 0
            BY <3>1
        <3>2. CASE i # 0
            <4>1. i - 1 \in 0..m
                BY <3>2
            <4>2. longer[i - 1] = walk[i - 1]
                BY <2>3, <4>1
            <4> QED BY <3>2, <4>2
        <3> QED BY <3>1, <3>2
    <2>5. longer = [i \in 0..m + 1 |-> IF i = 0 THEN FirstRequest ELSE step(i, longer[i - 1])]
        BY <2>4
    <2> HIDE DEF longer
    <2>6. m + 1 \in Nat
        OBVIOUS
    <2>7. Is(longer, m + 1)
        BY <1>0, <2>5, <2>6
    <2> QED BY <2>6, <2>7
<1>3. n \in Good
    <2> HIDE DEF Good
    <2> QED BY <1>1, <1>2, NatSetInduction
<1>4. \E walk : Is(walk, n)
    BY <1>3
<1> QED BY <1>4 DEF Is

(* The commitments of a request are all of its token and can be spent, and *)
(* together they are what was deposited. v has the values.                 *)
Credited(d, v) ==
    /\ \A c \in ToSet(d.commitments) : Opens(c, d.token)
    /\ d.total = SumOver(v, d.commitments)

(* What the cursors have seen so far.                                      *)
CursorInv(s, deposits, w, S, v) ==
    /\ s = [request |-> s.request, sum |-> s.sum, hash |-> s.hash, index |-> s.index, ok |-> s.ok]
    /\ s.index \in Nat /\ s.request \in Nat \ {0}
    /\ s.ok =>
        /\ \A q \in DOMAIN deposits : q < s.request => Credited(deposits[q], v)
        /\ s.request \in DOMAIN deposits =>
            /\ IsList(s.hash) /\ Len(s.hash) = s.index
            /\ s.index < Len(deposits[s.request].commitments)
            /\ s.sum = SumOver(v, s.hash)
            /\ ToSet(s.hash) \subseteq S
            /\ \A c \in ToSet(s.hash) : Opens(c, w[s.request].token)

(* A list with one member more, and a bound for what it counts for.         *)
LEMMA Appended1 ==
    ASSUME NEW S, NEW s, IsList(s), ToSet(s) \subseteq S, NEW c \in S, NEW v,
           \A x \in ToSet(s) \cup {c} : v[x] \in 0..MaxAmount
    PROVE  /\ IsList(Append(s, c)) /\ Len(Append(s, c)) = Len(s) + 1
           /\ ToSet(Append(s, c)) = ToSet(s) \cup {c}
           /\ SumOver(v, Append(s, c)) = SumOver(v, s) + v[c]
           /\ SumOver(v, Append(s, c)) \in Nat
           /\ SumOver(v, Append(s, c)) <= (Len(s) + 1) * MaxAmount
<1> DEFINE one == <<c>>
           both == Append(s, c)
           f == [i \in DOMAIN both |-> v[both[i]]]
           f1 == [i \in DOMAIN one |-> v[one[i]]]
<1>1. IsList(one) /\ ToSet(one) = {c} /\ Len(one) = 1 /\ DOMAIN one = {1} /\ one[1] = c
    BY DEF IsList, ToSet
<1>2. MaxAmount \in Nat
    BY ModulusAssumption
<1>3. both = s \o one
    <2>1. s \in Seq(ToSet(s) \cup {c})
        BY DEF IsList
    <2> QED BY <2>1
<1>4. SumOver(v, one) = v[c]
    <2>1. SumOver(v, one) = Total(f1, {1}) /\ f1[1] = v[c] /\ v[c] \in Int
        BY <1>1, <1>2 DEF SumOver
    <2> HIDE DEF f1
    <2>2. IsFiniteSet({1}) /\ {1} \ {1} = {} /\ \A x \in {1} : f1[x] \in Int
        BY <2>1, FS_Singleton
    <2>3. Total(f1, {1}) = f1[1] + Total(f1, {1} \ {1})
        BY <2>2, TotalRemove
    <2>4. Total(f1, {1} \ {1}) = 0
        BY <2>2, TotalEmpty
    <2> QED BY <2>1, <2>3, <2>4
<1> HIDE DEF one
<1>5. IsList(both) /\ Len(both) = Len(s) + 1 /\ ToSet(both) = ToSet(s) \cup {c}
    BY <1>1, <1>3, Joined
<1>6. SumOver(v, both) = SumOver(v, s) + v[c]
    <2>1. \A x \in ToSet(s) \cup ToSet(one) : v[x] \in Int
        BY <1>1, <1>2
    <2> HIDE DEF both
    <2> QED BY <1>1, <1>3, <1>4, <2>1, SumOverJoined
<1> HIDE DEF both
<1>7. /\ DOMAIN both = 1..Len(both) /\ Len(both) \in Nat /\ Len(s) \in Nat
      /\ \A i \in DOMAIN both : both[i] \in ToSet(both)
    BY <1>5, Lengths, ListDomain
<1>8. \A i \in DOMAIN both : f[i] \in 0..MaxAmount
    BY <1>5, <1>7
<1>9. SumOver(v, both) = Total(f, DOMAIN both)
    BY DEF SumOver
<1> HIDE DEF f
<1>10. IsFiniteSet(DOMAIN both) /\ Cardinality(DOMAIN both) = Len(s) + 1
    <2>1. PICK k \in Nat : k = Len(both) /\ k = Len(s) + 1
        BY <1>5, <1>7
    <2>2. IsFiniteSet(1..k) /\ Cardinality(1..k) = k
        BY FS_Interval
    <2> QED BY <1>7, <2>1, <2>2
<1>11. Total(f, DOMAIN both) \in Nat /\ Total(f, DOMAIN both) <= Cardinality(DOMAIN both) * MaxAmount
    BY <1>2, <1>8, <1>10, TotalBounded
<1> QED BY <1>5, <1>6, <1>9, <1>10, <1>11 DEF both
(* The record of the cursors, and what the circuit does to it.             *)
Cursor(request, sum, hash, index, ok) ==
    [request |-> request, sum |-> sum, hash |-> hash, index |-> index, ok |-> ok]

Reading(s, x, y, z) == [s EXCEPT !.sum = x, !.hash = y, !.index = z]
Moving(s, w, x, y, z) == [s EXCEPT !.request = w, !.sum = x, !.hash = y, !.index = z]

(* The cursors after a commitment was read.                                 *)
LEMMA CursorReads ==
    ASSUME NEW s, NEW a, NEW b, NEW c, NEW d, NEW e, s = Cursor(a, b, c, d, e), NEW x, NEW y, NEW z
    PROVE  Reading(s, x, y, z) = Cursor(a, x, y, z, e)
<1>1. PICK s1, s2 : s1 = [s EXCEPT !.sum = x] /\ s2 = [s1 EXCEPT !.hash = y]
    OBVIOUS
<1>2. Reading(s, x, y, z) = [s2 EXCEPT !.index = z]
    BY <1>1 DEF Reading
<1>3. s1 = Cursor(a, x, c, d, e)
    BY <1>1 DEF Cursor
<1>4. s2 = Cursor(a, x, y, d, e)
    BY <1>1, <1>3 DEF Cursor
<1>5. [s2 EXCEPT !.index = z] = Cursor(a, x, y, z, e)
    BY <1>4 DEF Cursor
<1> QED BY <1>2, <1>5

(* The cursors at the next request.                                         *)
LEMMA CursorNext ==
    ASSUME NEW s, NEW a, NEW b, NEW c, NEW d, NEW e, s = Cursor(a, b, c, d, e),
           NEW w, NEW x, NEW y, NEW z
    PROVE  Moving(s, w, x, y, z) = Cursor(w, x, y, z, e)
<1>1. PICK s1, s2, s3 :
        s1 = [s EXCEPT !.request = w] /\ s2 = [s1 EXCEPT !.sum = x] /\ s3 = [s2 EXCEPT !.hash = y]
    OBVIOUS
<1>2. Moving(s, w, x, y, z) = [s3 EXCEPT !.index = z]
    BY <1>1 DEF Moving
<1>3. s1 = Cursor(w, b, c, d, e)
    BY <1>1 DEF Cursor
<1>4. s2 = Cursor(w, x, c, d, e)
    BY <1>1, <1>3 DEF Cursor
<1>5. s3 = Cursor(w, x, y, d, e)
    BY <1>1, <1>4 DEF Cursor
<1>6. [s3 EXCEPT !.index = z] = Cursor(w, x, y, z, e)
    BY <1>5 DEF Cursor
<1> QED BY <1>2, <1>6

(* Requests as the contract has them on record: it names their totals and  *)
(* how many commitments there are, which is not none.                      *)
OnRecord(deposits, k, totals, counts) ==
    /\ DOMAIN deposits = 1..k /\ DOMAIN totals = 1..k /\ DOMAIN counts = 1..k
    /\ \A q \in 1..k :
        /\ deposits[q] \in Requests /\ totals[q] = deposits[q].total
        /\ counts[q] = Len(deposits[q].commitments) /\ counts[q] # 0

(* One step of the cursors: sums do not wrap, and a request is left behind *)
(* only when it is credited.                                               *)
LEMMA CursorsMove ==
    ASSUME NEW k \in Nat, NEW deposits, NEW totals, NEW counts, OnRecord(deposits, k, totals, counts),
           NEW w, NEW S, NEW v, \A x \in S : v[x] = x.value, NEW c \in S,
           NEW s, CursorInv(s, deposits, w, S, v)
    PROVE  CursorInv(TakeCommitment(deposits, totals, counts, w, c, s), deposits, w, S, v)
<1> DEFINE r == s.request
           sum == Plus(s.sum, c.value)
           hash == Append(s.hash, c)
           complete == s.index + 1 = SelectByIndex(counts, r)
           asRecorded ==
               /\ sum = SelectByIndex(totals, r)
               /\ RequestId(w[r].depositor, w[r].token, SelectByIndex(totals, r), w[r].nonce, hash)
                       = SelectByIndex(deposits, r)
           good == s.ok /\ Opens(c, w[r].token) /\ (complete => asRecorded)
           next == TakeCommitment(deposits, totals, counts, w, c, s)
           after == [request |-> r + 1, sum |-> 0, hash |-> <<>>, index |-> 0, ok |-> good]
           same == [request |-> r, sum |-> sum, hash |-> hash, index |-> s.index + 1, ok |-> good]
<1>1. /\ s = [request |-> s.request, sum |-> s.sum, hash |-> s.hash, index |-> s.index, ok |-> s.ok]
      /\ s.index \in Nat /\ s.request \in Nat \ {0}
    BY DEF CursorInv
<1>2. next = IF complete THEN after ELSE same
    <2> DEFINE read == [s EXCEPT !.sum = Plus(@, c.value), !.hash = Append(@, c), !.index = @ + 1]
               checked == [read EXCEPT !.ok = @ /\ Opens(c, w[r].token) /\ (complete => asRecorded)]
    <2>1. read = Cursor(r, sum, hash, s.index + 1, s.ok)
        <3>1. PICK b, c0, d, e : s = Cursor(r, b, c0, d, e)
            BY <1>1 DEF Cursor
        <3>2. d = s.index /\ c0 = s.hash /\ b = s.sum /\ e = s.ok
            <4> HIDE DEF r
            <4> QED BY <3>1 DEF Cursor
        <3>3. PICK x, y, z : x = sum /\ y = hash /\ z = s.index + 1
            OBVIOUS
        <3>4. Reading(s, x, y, z) = Cursor(r, x, y, z, e)
            BY <3>1, CursorReads
        <3>5. read = Reading(s, x, y, z)
            BY <3>3 DEF Reading
        <3> HIDE DEF r, sum, hash, read
        <3> QED BY <3>2, <3>3, <3>4, <3>5
    <2>2. checked = same
        <3> HIDE DEF complete, asRecorded, sum, hash, read
        <3> QED BY <2>1 DEF Cursor
    <2>3. NextRequest(same) = after
        <3>1. PICK a, b, c0, d, e : a = r /\ b = sum /\ c0 = hash /\ d = s.index + 1 /\ e = good
            OBVIOUS
        <3> HIDE DEF r, sum, hash, good
        <3>2. same = Cursor(a, b, c0, d, e) /\ after = Cursor(a + 1, 0, <<>>, 0, e) /\ same.request = a
            BY <3>1 DEF Cursor
        <3> HIDE DEF same, after
        <3>3. NextRequest(same) = Moving(same, a + 1, 0, <<>>, 0)
            BY <3>2 DEF NextRequest, Moving
        <3>4. Moving(same, a + 1, 0, <<>>, 0) = Cursor(a + 1, 0, <<>>, 0, e)
            BY <3>2, CursorNext
        <3> QED BY <3>2, <3>3, <3>4
    <2>4. next = IF complete THEN NextRequest(checked) ELSE checked
        <3>1. read.index = s.index + 1 /\ read.sum = sum /\ read.hash = hash
            <4> HIDE DEF read, sum, hash
            <4> QED BY <2>1 DEF Cursor
        <3> QED BY <3>1 DEF TakeCommitment
    <2> HIDE DEF next, complete, checked, same, after
    <2> QED BY <2>2, <2>3, <2>4
<1> SUFFICES ASSUME NEW res, res = next PROVE CursorInv(res, deposits, w, S, v)
    OBVIOUS
<1>3. CASE ~good
    <2>1. CASE complete
        <3>1. res = after
            BY <1>2, <2>1
        <3> HIDE DEF good
        <3> QED BY <1>1, <1>3, <3>1 DEF CursorInv
    <2>2. CASE ~complete
        <3>1. res = same
            BY <1>2, <2>2
        <3> HIDE DEF good, sum, hash
        <3> QED BY <1>1, <1>3, <3>1 DEF CursorInv
    <2> QED BY <2>1, <2>2
<1>4. CASE good
    <2>1. \A q \in DOMAIN deposits : q < r => Credited(deposits[q], v)
        BY <1>4 DEF CursorInv
    <2>2. CASE r \notin DOMAIN deposits
        <3>1. ~complete
            BY <1>1, <2>2 DEF SelectByIndex, OnRecord
        <3>2. res = same
            BY <1>2, <3>1
        <3> HIDE DEF good, sum, hash
        <3> QED BY <1>1, <2>1, <2>2, <3>2 DEF CursorInv
    <2>3. CASE r \in DOMAIN deposits
        <3> DEFINE d == deposits[r]
        <3>1. /\ r \in 1..k /\ d \in Requests /\ SelectByIndex(totals, r) = d.total
              /\ SelectByIndex(counts, r) = Len(d.commitments) /\ SelectByIndex(deposits, r) = d
              /\ Len(d.commitments) # 0
            BY <2>3 DEF SelectByIndex, OnRecord
        <3>2. Len(d.commitments) \in Nat /\ Len(d.commitments) * MaxAmount < Modulus
            BY <3>1, RequestsAssumption
        <3>3. /\ IsList(s.hash) /\ Len(s.hash) = s.index /\ s.index < Len(d.commitments)
              /\ s.sum = SumOver(v, s.hash) /\ ToSet(s.hash) \subseteq S
              /\ \A x \in ToSet(s.hash) : Opens(x, w[r].token)
            BY <1>4, <2>3 DEF CursorInv
        <3>4. Opens(c, w[r].token)
            BY <1>4
        <3>5. \A x \in ToSet(s.hash) \cup {c} : v[x] \in 0..MaxAmount
            BY <3>3, <3>4 DEF Opens, IsAmount
        <3>6. /\ IsList(hash) /\ Len(hash) = s.index + 1 /\ ToSet(hash) = ToSet(s.hash) \cup {c}
              /\ SumOver(v, hash) = s.sum + c.value /\ SumOver(v, hash) \in Nat
              /\ SumOver(v, hash) <= (s.index + 1) * MaxAmount
            <4>1. PICK old : old = s.hash
                OBVIOUS
            <4>2. /\ IsList(Append(old, c)) /\ Len(Append(old, c)) = Len(old) + 1
                  /\ ToSet(Append(old, c)) = ToSet(old) \cup {c}
                  /\ SumOver(v, Append(old, c)) = SumOver(v, old) + v[c]
                  /\ SumOver(v, Append(old, c)) \in Nat
                  /\ SumOver(v, Append(old, c)) <= (Len(old) + 1) * MaxAmount
                <5>1. IsList(old) /\ ToSet(old) \subseteq S /\ \A x \in ToSet(old) \cup {c} : v[x] \in 0..MaxAmount
                    BY <3>3, <3>5, <4>1
                <5>2. c \in S
                    OBVIOUS
                <5> QED BY ONLY <5>1, <5>2, Appended1
            <4>3. v[c] = c.value
                OBVIOUS
            <4> QED BY <3>3, <4>1, <4>2, <4>3
        <3>7. sum = SumOver(v, hash)
            <4>1. PICK m \in Nat, n \in Nat, len \in Nat, amount \in Nat, field \in Nat :
                    /\ m = SumOver(v, hash) /\ n = s.index /\ len = Len(d.commitments)
                    /\ amount = MaxAmount /\ field = Modulus
                BY <1>1, <3>2, <3>6, ModulusAssumption
            <4>2. m <= (n + 1) * amount /\ n + 1 <= len /\ len * amount < field
                BY SMTT(30), <3>2, <3>3, <3>6, <4>1
            <4>3. (n + 1) * amount <= len * amount
                BY <4>2
            <4>4. m % field = m
                <5>1. m < field
                    <6>1. PICK x \in Int, y \in Int : x = (n + 1) * amount /\ y = len * amount
                        OBVIOUS
                    <6> QED BY <4>2, <4>3, <6>1
                <5> QED BY <5>1
            <4>5. sum = m % field
                BY <3>6, <4>1 DEF Plus
            <4> HIDE DEF sum, hash
            <4> QED BY <4>1, <4>4, <4>5
        <3>8. \A x \in ToSet(hash) : Opens(x, w[r].token)
            BY <3>3, <3>4, <3>6
        <3>9. CASE ~complete
            <4>1. res = same
                BY <1>2, <3>9
            <4>2. s.index + 1 < Len(d.commitments)
                <5>1. s.index + 1 # Len(d.commitments)
                    BY <3>1, <3>9
                <5> QED BY <1>1, <3>2, <3>3, <5>1
            <4>3. ToSet(hash) \subseteq S
                BY <3>3, <3>6
            <4> HIDE DEF good, sum, hash
            <4> QED BY <1>1, <2>1, <3>6, <3>7, <3>8, <4>1, <4>2, <4>3 DEF CursorInv
        <3>10. CASE complete
            <4>1. res = after
                BY <1>2, <3>10
            <4>2. sum = d.total /\ RequestId(w[r].depositor, w[r].token, d.total, w[r].nonce, hash) = d
                BY <1>4, <3>1, <3>10
            <4>3. d.commitments = hash /\ d.token = w[r].token
                <5> HIDE DEF hash, d
                <5> QED BY <4>2 DEF RequestId
            <4>4. Credited(d, v)
                <5> HIDE DEF hash, d, sum
                <5> QED BY <3>7, <3>8, <4>2, <4>3 DEF Credited
            <4>5. \A q \in DOMAIN deposits : q < r + 1 => Credited(deposits[q], v)
                <5>1. \A q \in DOMAIN deposits : q < r + 1 => q < r \/ q = r
                    BY <1>1 DEF OnRecord
                <5> QED BY <2>1, <4>4, <5>1
            <4>6. r + 1 \in DOMAIN deposits => 0 < Len(deposits[r + 1].commitments)
                <5> SUFFICES ASSUME r + 1 \in 1..k PROVE 0 < Len(deposits[r + 1].commitments)
                    BY DEF OnRecord
                <5>1. /\ deposits[r + 1] \in Requests /\ Len(deposits[r + 1].commitments) # 0
                    BY DEF OnRecord
                <5>2. Len(deposits[r + 1].commitments) \in Nat
                    BY <5>1, RequestsAssumption
                <5> QED BY <5>1, <5>2
            <4>7. IsList(<<>>) /\ Len(<<>>) = 0 /\ ToSet(<<>>) = {} /\ SumOver(v, <<>>) = 0
                BY SumOverEmpty DEF IsList, ToSet
            <4> HIDE DEF good
            <4> QED BY <1>1, <4>1, <4>5, <4>6, <4>7 DEF CursorInv
        <3> QED BY <3>9, <3>10
    <2> QED BY <2>2, <2>3
<1> QED BY <1>3, <1>4

(* A walk that ends behind the last request has credited each.             *)
LEMMA WalkCredits ==
    ASSUME NEW k \in Nat, NEW deposits, NEW totals, NEW counts, OnRecord(deposits, k, totals, counts),
           NEW w, NEW S, NEW v, \A x \in S : v[x] = x.value,
           NEW n \in Nat, NEW commitmentsOut, \A i \in 1..n : commitmentsOut[i] \in S,
           NEW walk, IsWalk(walk, n, deposits, totals, counts, commitmentsOut, w),
           walk[n].ok, walk[n].request = k + 1
    PROVE  \A q \in 1..k : Credited(deposits[q], v)
<1> DEFINE Good == {i \in Nat : i \in 0..n => CursorInv(walk[i], deposits, w, S, v)}
<1>1. \A i \in 0..n :
        walk[i] = IF i = 0 THEN FirstRequest
                  ELSE TakeCommitment(deposits, totals, counts, w, commitmentsOut[i], walk[i - 1])
    BY DEF IsWalk
<1>2. 0 \in Good
    <2>1. walk[0] = FirstRequest
        BY <1>1
    <2>2. IsList(<<>>) /\ Len(<<>>) = 0 /\ ToSet(<<>>) = {} /\ SumOver(v, <<>>) = 0
        BY SumOverEmpty DEF IsList, ToSet
    <2>3. \A q \in 1..k : ~(q < 1)
        OBVIOUS
    <2>4. 1 \in 1..k => 0 < Len(deposits[1].commitments)
        <3> SUFFICES ASSUME 1 \in 1..k PROVE 0 < Len(deposits[1].commitments)
            OBVIOUS
        <3>1. deposits[1] \in Requests /\ Len(deposits[1].commitments) # 0
            BY DEF OnRecord
        <3>2. Len(deposits[1].commitments) \in Nat
            BY <3>1, RequestsAssumption
        <3> QED BY <3>1, <3>2
    <2>5. DOMAIN deposits = 1..k
        BY DEF OnRecord
    <2>6. CursorInv(FirstRequest, deposits, w, S, v)
        BY <2>2, <2>3, <2>4, <2>5 DEF CursorInv, FirstRequest
    <2> QED BY <2>1, <2>6
<1>3. ASSUME NEW i \in Nat, i \in Good PROVE i + 1 \in Good
    <2> SUFFICES ASSUME i + 1 \in 0..n PROVE CursorInv(walk[i + 1], deposits, w, S, v)
        OBVIOUS
    <2>1. i \in 0..n /\ i + 1 \in 1..n /\ (i + 1) - 1 = i /\ i + 1 # 0
        OBVIOUS
    <2>2. CursorInv(walk[i], deposits, w, S, v)
        BY <1>3, <2>1
    <2>3. walk[i + 1] = TakeCommitment(deposits, totals, counts, w, commitmentsOut[i + 1], walk[i])
        BY <1>1, <2>1
    <2>4. PICK s, c : s = walk[i] /\ c = commitmentsOut[i + 1]
        OBVIOUS
    <2>5. c \in S /\ CursorInv(s, deposits, w, S, v)
        BY <2>1, <2>2, <2>4
    <2>6. CursorInv(TakeCommitment(deposits, totals, counts, w, c, s), deposits, w, S, v)
        BY <2>5, CursorsMove
    <2> QED BY <2>3, <2>4, <2>6
<1>4. n \in Good
    <2> HIDE DEF Good
    <2> QED BY <1>2, <1>3, NatSetInduction
<1>5. CursorInv(walk[n], deposits, w, S, v)
    BY <1>4
<1>6. \A q \in DOMAIN deposits : q < walk[n].request => Credited(deposits[q], v)
    BY <1>5 DEF CursorInv
<1>7. \A q \in 1..k : q < k + 1
    OBVIOUS
<1> QED BY <1>6, <1>7 DEF OnRecord
ValueOf(S) == [c \in S |-> c.value]

(* A batch of requests for which there is a proof credits each of them.    *)
LEMMA BatchCredits ==
    ASSUME NEW deposits \in DepositBatches
    PROVE  \A i \in DOMAIN deposits : Credited(deposits[i], ValueOf(ToSet(CommitmentsOut(deposits))))
<1> DEFINE C == CommitmentsOut(deposits)
           S == ToSet(C)
           k == Len(deposits)
           n == Len(C)
           totals == [r \in DOMAIN deposits |-> deposits[r].total]
           counts == [r \in DOMAIN deposits |-> Len(deposits[r].commitments)]
           W(tokens) == [r \in DOMAIN deposits |->
                            [depositor |-> deposits[r].depositor, token |-> tokens[r],
                             nonce |-> deposits[r].nonce]]
           v == ValueOf(S)
<1>1. MaxDeposits \in Nat /\ deposits \in Lists(Requests, MaxDeposits)
    BY BoundsAssumption DEF DepositBatches
<1>2. k \in Nat /\ DOMAIN deposits = 1..k /\ \A r \in 1..k : deposits[r] \in Requests
    BY <1>1, ListsAre DEF ToSet
<1>3. PICK tokens : DepositEpochCircuit(deposits, totals, counts, C, W(tokens))
    BY DEF DepositBatches
<1> DEFINE w == W(tokens)
           walk == CHOOSE walk : IsWalk(walk, n, deposits, totals, counts, C, w)
<1>4. IsList(C)
    BY DepositLeaves
<1>5. n \in Nat /\ \A i \in 1..n : C[i] \in S
    <2> HIDE DEF C
    <2> QED BY <1>4, Lengths, ListDomain
<1>6. OnRecord(deposits, k, totals, counts)
    <2>1. \A r \in DOMAIN counts : counts[r] # 0
        BY <1>3 DEF DepositEpochCircuit, assertTotalCommitmentCount
    <2> HIDE DEF k
    <2> QED BY <1>2, <2>1 DEF OnRecord
<1>7. walk[n].ok /\ walk[n].request = k + 1
    <2> HIDE DEF C, w, totals, counts
    <2> QED BY <1>3 DEF DepositEpochCircuit, processCommitments, IsWalk, w
<1>8. IsWalk(walk, n, deposits, totals, counts, C, w)
    <2> HIDE DEF C, w, totals, counts, n
    <2> QED BY <1>5, WalkExists
<1>9. \A x \in S : v[x] = x.value
    BY DEF ValueOf
<1> HIDE DEF walk, C, w, totals, counts, n, k, S, v
<1>10. \A q \in 1..k : Credited(deposits[q], v)
    BY <1>2, <1>5, <1>6, <1>7, <1>8, <1>9, WalkCredits
<1> QED BY <1>2, <1>10 DEF v, S, C

(* Its notes have owners, and are worth what was deposited.                *)
LEMMA BatchMints ==
    ASSUME NEW deposits \in DepositBatches, SubmitDepositEpoch(deposits)
    PROVE  Mints(CommitmentsOut(deposits))
<1>1. PICK C, S : C = CommitmentsOut(deposits) /\ S = ToSet(C)
    OBVIOUS
<1>2. /\ IsList(C) /\ AppendLeaves(C)
      /\ S = UNION {ToSet(deposits[i].commitments) : i \in DOMAIN deposits}
    BY <1>1, DepositLeaves DEF SubmitDepositEpoch
<1>3. \A i \in DOMAIN deposits : deposits[i] \in Requests
    <2>1. MaxDeposits \in Nat /\ deposits \in Lists(Requests, MaxDeposits)
        BY BoundsAssumption DEF DepositBatches
    <2> QED BY <2>1, ListsAre DEF ToSet
<1>4. ASSUME NEW leaf \in S
      PROVE  leaf.value \in Nat /\ \E a \in Account : OwnedBy(leaf, a)
    <2>1. PICK i \in DOMAIN deposits : leaf \in ToSet(deposits[i].commitments)
        BY <1>2
    <2>2. Opens(leaf, deposits[i].token)
        BY <2>1, BatchCredits DEF Credited
    <2>3. leaf.value \in Nat /\ IsSpendable(leaf.npk)
        BY <2>2, ModulusAssumption DEF Opens, IsAmount
    <2>4. leaf.npk \in KeysNamed
        BY <1>3, <2>1 DEF KeysNamed
    <2>5. \E a \in Account : IsKeyOf(leaf.npk, a)
        BY <2>3, <2>4, OwnersAssumption
    <2> QED BY <2>3, <2>5 DEF OwnedBy
<1> QED BY <1>1, <1>2, <1>4 DEF Mints, Appended

(* What the notes of a batch are worth is what was deposited.               *)
LEMMA BatchBalances ==
    ASSUME NEW deposits \in DepositBatches, NEW t,
           NEW new, new = CommitmentsOut(deposits)
    PROVE  SumOver(LeafWorth(t, ToSet(new)), new) = SumOver(RequestWorth(t, Requests), deposits)
<1> DEFINE lists == [r \in DOMAIN deposits |-> deposits[r].commitments]
<1>1. MaxDeposits \in Nat /\ deposits \in Lists(Requests, MaxDeposits)
    BY BoundsAssumption DEF DepositBatches
<1>2. PICK k \in Nat : /\ k # 0 /\ DOMAIN deposits = 1..k /\ IsList(deposits)
                       /\ \A r \in 1..k : deposits[r] \in Requests
    BY <1>1, ListsAre DEF ToSet
<1>3. PICK S, g, v, f : /\ S = ToSet(new) /\ g = LeafWorth(t, S) /\ v = ValueOf(S)
                        /\ f = [i \in 1..k |-> RequestWorth(t, Requests)[deposits[i]]]
    OBVIOUS
<1>4. S = UNION {ToSet(deposits[i].commitments) : i \in DOMAIN deposits}
    BY <1>3, DepositLeaves
<1>5. new = FlattenSeq(lists)
    BY DEF CommitmentsOut
<1>6. DOMAIN lists = 1..k /\ lists = [i \in 1..k |-> lists[i]]
    BY <1>2
<1>7. ASSUME NEW i \in 1..k
      PROVE  /\ IsList(lists[i]) /\ \A x \in ToSet(lists[i]) : g[x] \in Int
             /\ f[i] = SumOver(g, lists[i])
    <2>1. PICK d, cs : d = deposits[i] /\ cs = d.commitments /\ cs = lists[i]
        BY <1>2
    <2>2. d \in Requests /\ IsList(cs)
        BY <1>2, <2>1, RequestsAssumption DEF IsList
    <2>3. ToSet(cs) \subseteq S
        BY <1>2, <1>4, <2>1
    <2>4. (\A c \in ToSet(cs) : Opens(c, d.token)) /\ d.total = SumOver(v, cs)
        BY <1>2, <1>3, <2>1, BatchCredits DEF Credited
    <2>5. ASSUME NEW c \in ToSet(cs)
          PROVE  c.value \in Int /\ v[c] = c.value /\ g[c] = IF d.token = t THEN v[c] ELSE 0
        <3>1. c \in S /\ Opens(c, d.token)
            BY <2>3, <2>4
        <3>2. c.value \in Int
            BY <3>1, ModulusAssumption DEF Opens, IsAmount
        <3>3. c.token = d.token
            BY <3>1 DEF Opens, Commitment
        <3>4. v[c] = c.value
            BY <1>3, <3>1 DEF ValueOf
        <3>5. g[c] = IF c.token = t THEN c.value ELSE 0
            BY <1>3, <3>1 DEF LeafWorth
        <3> QED BY <3>2, <3>3, <3>4, <3>5
    <2>6. f[i] = IF d.token = t THEN d.total ELSE 0
        BY <1>3, <2>1, <2>2 DEF RequestWorth
    <2>7. SumOver(g, cs) = IF d.token = t THEN SumOver(v, cs) ELSE 0
        <3>1. CASE d.token # t
            <4>1. \A c \in ToSet(cs) : g[c] = 0
                BY <2>5, <3>1
            <4> QED BY <2>2, <3>1, <4>1, SumOverZero
        <3>2. CASE d.token = t
            <4>1. PICK h : h = [j \in DOMAIN cs |-> v[cs[j]]]
                OBVIOUS
            <4>2. \A j \in DOMAIN cs : g[cs[j]] = h[j] /\ v[cs[j]] = h[j]
                BY <2>2, <2>5, <3>2, <4>1, ListDomain
            <4>3. SumOver(g, cs) = Total(h, DOMAIN cs) /\ SumOver(v, cs) = Total(h, DOMAIN cs)
                BY <2>2, <4>2, SumOverPlaces
            <4> QED BY <3>2, <4>3
        <3> QED BY <3>1, <3>2
    <2> QED BY <2>1, <2>2, <2>4, <2>5, <2>6, <2>7
<1> HIDE DEF lists
<1>8. SumOver(g, FlattenSeq(lists)) = Total(f, 1..k)
    BY <1>2, <1>6, <1>7, SumOverFlattened
<1>9. SumOver(RequestWorth(t, Requests), deposits) = Total(f, DOMAIN deposits)
    <2>1. PICK h : h = RequestWorth(t, Requests)
        OBVIOUS
    <2>2. \A i \in DOMAIN deposits : h[deposits[i]] = f[i]
        BY <1>2, <1>3, <2>1
    <2>3. SumOver(h, deposits) = Total(f, DOMAIN deposits)
        BY <1>2, <2>2, SumOverPlaces
    <2> QED BY <2>1, <2>3
<1> QED BY <1>2, <1>3, <1>5, <1>8, <1>9

(* Notes for sweeps are for accounts that portals were bound to.           *)
LEMMA PortalMints ==
    ASSUME NEW batch \in PortalDepositBatches, SubmitPortalDepositEpoch(batch)
    PROVE  Mints(batch.commitmentsOut)
<1>1. PICK C, D : C = batch.commitmentsOut /\ D = batch.deposits
    OBVIOUS
<1>2. /\ IsList(C) /\ DOMAIN C = DOMAIN D /\ \A i \in DOMAIN D : D[i] \in Sweeps
      /\ \A i \in DOMAIN D : C[i] = PortalNote(D[i], D[i].recipientBindH[1], D[i].recipientBindH[2])
    BY <1>1, PortalLeaves DEF ToSet
<1>3. AppendLeaves(C)
    BY <1>1 DEF SubmitPortalDepositEpoch
<1>4. ASSUME NEW leaf \in ToSet(C)
      PROVE  leaf.value \in Nat /\ \E a \in Account : OwnedBy(leaf, a)
    <2>1. PICK i \in DOMAIN D : leaf = PortalNote(D[i], D[i].recipientBindH[1], D[i].recipientBindH[2])
        BY <1>2 DEF ToSet
    <2>2. PICK d \in Sweeps : d = D[i]
        BY <1>2
    <2>3. PICK rnd : rnd = noteRnd(d.recipientBindH[2], d.portal, d.counter)
        OBVIOUS
    <2>4. rnd \in Randomness /\ rnd # Ground.rnd
        BY <2>3, OwnersAssumption
    <2>5. PICK a \in Account : d.recipientBindH[1] = MPK(a, NullifyingKey[a])
        BY OwnersAssumption
    <2>6. leaf.value = d.amount /\ leaf.npk = NPK(d.recipientBindH[1], rnd)
        BY <2>1, <2>2, <2>3 DEF PortalNote, Commitment
    <2>7. leaf.npk = <<d.recipientBindH[1], rnd>>
        BY <2>4, <2>6 DEF NPK
    <2>8. IsSpendable(leaf.npk)
        BY <2>7 DEF IsSpendable, Reserved
    <2>9. IsKeyOf(leaf.npk, a)
        BY <2>4, <2>5, <2>6 DEF IsKeyOf
    <2>10. leaf.value \in Nat
        BY <2>6, SweepsAssumption
    <2> QED BY <2>8, <2>9, <2>10 DEF OwnedBy
<1> QED BY <1>1, <1>2, <1>3, <1>4 DEF Mints, Appended

(* They are worth what was swept.                                          *)
LEMMA PortalBalances ==
    ASSUME NEW batch \in PortalDepositBatches, NEW t, NEW new, new = batch.commitmentsOut
    PROVE  SumOver(LeafWorth(t, ToSet(new)), new) = SumOver(SweepWorth(t, Sweeps), batch.deposits)
<1>1. PICK D, g, h, f : /\ D = batch.deposits /\ g = LeafWorth(t, ToSet(new)) /\ h = SweepWorth(t, Sweeps)
                        /\ f = [i \in DOMAIN D |-> h[D[i]]]
    OBVIOUS
<1>2. /\ IsList(new) /\ IsList(D) /\ DOMAIN new = DOMAIN D /\ \A i \in DOMAIN D : D[i] \in Sweeps
      /\ \A i \in DOMAIN D : new[i] = PortalNote(D[i], D[i].recipientBindH[1], D[i].recipientBindH[2])
    BY <1>1, PortalLeaves DEF ToSet
<1>3. ASSUME NEW i \in DOMAIN D
      PROVE  g[new[i]] = f[i] /\ h[D[i]] = f[i]
    <2>1. new[i].token = D[i].token /\ new[i].value = D[i].amount
        <3>1. PICK d, npk : d = D[i] /\ new[i] = Commitment(npk, d.token, d.amount)
            BY <1>2 DEF PortalNote
        <3> QED BY <3>1 DEF Commitment
    <2>2. new[i] \in ToSet(new)
        BY <1>2, ListDomain
    <2>3. g[new[i]] = IF new[i].token = t THEN new[i].value ELSE 0
        BY <1>1, <2>2 DEF LeafWorth
    <2>4. h[D[i]] = IF D[i].token = t THEN D[i].amount ELSE 0
        BY <1>1, <1>2 DEF SweepWorth
    <2> QED BY <1>1, <2>1, <2>3, <2>4
<1>4. SumOver(g, new) = Total(f, DOMAIN new)
    <2>1. IsList(new) /\ \A i \in DOMAIN new : g[new[i]] = f[i]
        BY <1>2, <1>3
    <2> QED BY ONLY <2>1, SumOverPlaces
<1>5. SumOver(h, D) = Total(f, DOMAIN D)
    <2>1. IsList(D) /\ \A i \in DOMAIN D : h[D[i]] = f[i]
        BY <1>2, <1>3
    <2> QED BY ONLY <2>1, SumOverPlaces
<1> QED BY <1>1, <1>2, <1>4, <1>5

(* A step that spends nothing spends an empty list.                         *)
LEMMA NothingSpent == ASSUME UNCHANGED nullifierSpent PROVE Spends(<<>>)
BY DEF Spends, IsList, IsInjective, ToSet

(* A step that mints nothing mints an empty list.                           *)
LEMMA NothingMinted == ASSUME UNCHANGED trees PROVE Mints(<<>>)
BY DEF Mints, Appended, IsList, ToSet

-----------------------------------------------------------------------------
(* What is held stays what it is.                                          *)

ValueKept == LeavesOpen' /\ SpentInTrees' /\ \A t \in Token : Held(t)' = Held(t)

Outstanding == pendingRequests \subseteq Requests /\ pendingSweeps \subseteq Sweeps

(* What was requested becomes notes.                                        *)
LEMMA DepositEpochKeepsValue ==
    ASSUME Typed, Typed', LeavesOpen, SpentInTrees, Outstanding,
           NEW deposits \in DepositBatches, SubmitDepositEpoch(deposits)
    PROVE  ValueKept /\ Outstanding'
<1>1. PICK new : new = CommitmentsOut(deposits)
    OBVIOUS
<1>2. Mints(new)
    BY <1>1, BatchMints
<1>3. /\ IsInjective(deposits) /\ ToSet(deposits) \subseteq pendingRequests
      /\ pendingRequests' = pendingRequests \ ToSet(deposits)
      /\ pendingSweeps' = pendingSweeps /\ paid' = paid /\ nullifierSpent' = nullifierSpent
    BY DEF SubmitDepositEpoch
<1>4. Spends(<<>>)
    BY <1>3, NothingSpent
<1>5. LeavesOpen' /\ SpentInTrees'
    BY <1>2, <1>4, NotesMove
<1>6. IsList(deposits)
    <2>1. MaxDeposits \in Nat /\ deposits \in Lists(Requests, MaxDeposits)
        BY BoundsAssumption DEF DepositBatches
    <2> QED BY <2>1, ListsAre
<1>7. /\ pendingRequests \subseteq Requests /\ pendingRequests' \subseteq Requests
      /\ pendingSweeps \subseteq Sweeps /\ pendingSweeps' \subseteq Sweeps
    BY <1>3 DEF Outstanding
<1>8. ASSUME NEW t \in Token PROVE Held(t)' = Held(t)
    <2>1. PICK old \in SUBSET Requests, sweeps \in SUBSET Sweeps :
            old = pendingRequests /\ sweeps = pendingSweeps
        BY <1>7
    <2>2. /\ Requested(old \ ToSet(deposits), t) = Requested(old, t) - SumOver(RequestWorth(t, Requests), deposits)
          /\ SumOver(RequestWorth(t, Requests), deposits) \in Int
        BY <1>3, <1>6, <2>1, RequestedLess
    <2>3. Requested(old, t) \in Int /\ Swept(sweeps, t) \in Int
        BY RequestedIs, SweptIs
    <2>4. SumOver(LeafWorth(t, ToSet(new)), new) = SumOver(RequestWorth(t, Requests), deposits)
        BY <1>1, BatchBalances
    <2>5. SumOver(SpentWorth(t, ToSet(<<>>)), <<>>) = 0
        BY SumOverEmpty
    <2>6. PaidOut(paid', t) = PaidOut(paid, t)
        BY <1>3
    <2>7. PaidOut(paid, t) \in Int
        BY PaidOutIs DEF Typed
    <2>8. SumOver(SpentWorth(t, ToSet(<<>>)), <<>>)
                + Requested(pendingRequests, t) + Swept(pendingSweeps, t) + PaidOut(paid, t)
             = SumOver(LeafWorth(t, ToSet(new)), new)
                + Requested(pendingRequests', t) + Swept(pendingSweeps', t) + PaidOut(paid', t)
        BY <1>3, <2>1, <2>2, <2>3, <2>4, <2>5, <2>6, <2>7
    <2> QED BY <1>2, <1>4, <1>7, <2>8, BalancedStep
<1> QED BY <1>5, <1>7, <1>8 DEF ValueKept, Outstanding

(* What was swept becomes notes.                                            *)
LEMMA PortalEpochKeepsValue ==
    ASSUME Typed, Typed', LeavesOpen, SpentInTrees, Outstanding,
           NEW batch \in PortalDepositBatches, SubmitPortalDepositEpoch(batch)
    PROVE  ValueKept /\ Outstanding'
<1>1. PICK new, deposits : new = batch.commitmentsOut /\ deposits = batch.deposits
    OBVIOUS
<1>2. Mints(new)
    BY <1>1, PortalMints
<1>3. /\ IsInjective(deposits) /\ ToSet(deposits) \subseteq pendingSweeps
      /\ pendingSweeps' = pendingSweeps \ ToSet(deposits)
      /\ pendingRequests' = pendingRequests /\ paid' = paid /\ nullifierSpent' = nullifierSpent
    BY <1>1 DEF SubmitPortalDepositEpoch
<1>4. Spends(<<>>)
    BY <1>3, NothingSpent
<1>5. LeavesOpen' /\ SpentInTrees'
    BY <1>2, <1>4, NotesMove
<1>6. IsList(deposits)
    BY <1>1, PortalLeaves
<1>7. /\ pendingRequests \subseteq Requests /\ pendingRequests' \subseteq Requests
      /\ pendingSweeps \subseteq Sweeps /\ pendingSweeps' \subseteq Sweeps
    BY <1>3 DEF Outstanding
<1>8. ASSUME NEW t \in Token PROVE Held(t)' = Held(t)
    <2>1. PICK requests \in SUBSET Requests, old \in SUBSET Sweeps :
            requests = pendingRequests /\ old = pendingSweeps
        BY <1>7
    <2>2. /\ Swept(old \ ToSet(deposits), t) = Swept(old, t) - SumOver(SweepWorth(t, Sweeps), deposits)
          /\ SumOver(SweepWorth(t, Sweeps), deposits) \in Int
        BY <1>3, <1>6, <2>1, SweptLess
    <2>3. Requested(requests, t) \in Int /\ Swept(old, t) \in Int
        BY RequestedIs, SweptIs
    <2>4. SumOver(LeafWorth(t, ToSet(new)), new) = SumOver(SweepWorth(t, Sweeps), deposits)
        BY <1>1, PortalBalances
    <2>5. SumOver(SpentWorth(t, ToSet(<<>>)), <<>>) = 0
        BY SumOverEmpty
    <2>6. PaidOut(paid', t) = PaidOut(paid, t)
        BY <1>3
    <2>7. PaidOut(paid, t) \in Int
        BY PaidOutIs DEF Typed
    <2>8. SumOver(SpentWorth(t, ToSet(<<>>)), <<>>)
                + Requested(pendingRequests, t) + Swept(pendingSweeps, t) + PaidOut(paid, t)
             = SumOver(LeafWorth(t, ToSet(new)), new)
                + Requested(pendingRequests', t) + Swept(pendingSweeps', t) + PaidOut(paid', t)
        BY <1>3, <2>1, <2>2, <2>3, <2>4, <2>5, <2>6, <2>7
    <2> QED BY <1>2, <1>4, <1>7, <2>8, BalancedStep
<1> QED BY <1>5, <1>7, <1>8 DEF ValueKept, Outstanding

(* An epoch.                                                               *)
LEMMA EpochKeepsValue ==
    ASSUME Typed, Typed', LeavesOpen, SpentInTrees, Outstanding,
           NEW provingTime, SubmitEpoch(provingTime)
    PROVE  ValueKept /\ Outstanding'
<1>1. PICK slots, feeTokens, feeNPK :
        IsEpoch(slots, feeTokens, feeNPK, provingTime) /\ EpochWrites(slots, feeTokens, feeNPK)
    BY EpochIs
<1>2. PICK ns, new : ns = NullifiersOfAll(slots) /\ new = pendingLeaves(slots, feeTokens, feeNPK)
    OBVIOUS
<1>3. Spends(ns)
    BY <1>1, <1>2, EpochSpends
<1>4. Mints(new)
    BY <1>1, <1>2, EpochMints
<1>5. LeavesOpen' /\ SpentInTrees'
    BY <1>3, <1>4, NotesMove
<1>6. pendingRequests' = pendingRequests /\ pendingSweeps' = pendingSweeps
    BY DEF SubmitEpoch
<1>7. /\ pendingRequests \subseteq Requests /\ pendingRequests' \subseteq Requests
      /\ pendingSweeps \subseteq Sweeps /\ pendingSweeps' \subseteq Sweeps
    BY <1>6 DEF Outstanding
<1>8. ASSUME NEW t \in Token PROVE Held(t)' = Held(t)
    <2>1. PICK requests \in SUBSET Requests, sweeps \in SUBSET Sweeps :
            requests = pendingRequests /\ sweeps = pendingSweeps
        BY <1>7
    <2>2. Requested(requests, t) \in Int /\ Swept(sweeps, t) \in Int
        BY RequestedIs, SweptIs
    <2>3. SumOver(SpentWorth(t, ToSet(ns)), ns) + PaidOut(paid, t)
            = SumOver(LeafWorth(t, ToSet(new)), new) + PaidOut(paid', t)
        BY <1>1, <1>2, EpochBalances
    <2>4. PaidOut(paid, t) \in Int /\ PaidOut(paid', t) \in Int
        BY PaidOutIs DEF Typed
    <2>5. SumOver(SpentWorth(t, ToSet(ns)), ns) \in Int /\ SumOver(LeafWorth(t, ToSet(new)), new) \in Int
        BY <1>3, <1>4, NotesMove
    <2>6. SumOver(SpentWorth(t, ToSet(ns)), ns)
                + Requested(pendingRequests, t) + Swept(pendingSweeps, t) + PaidOut(paid, t)
             = SumOver(LeafWorth(t, ToSet(new)), new)
                + Requested(pendingRequests', t) + Swept(pendingSweeps', t) + PaidOut(paid', t)
        BY <1>6, <2>1, <2>2, <2>3, <2>4, <2>5
    <2> QED BY <1>3, <1>4, <1>7, <2>6, BalancedStep
<1> QED BY <1>5, <1>7, <1>8 DEF ValueKept, Outstanding

-----------------------------------------------------------------------------
(* Forced withdrawals.                                                     *)

(* A forced withdrawal outstanding names each of its notes once, and pays  *)
(* what they are worth together, in their token.                           *)
ExactRequest(request) ==
    LET ns == request.digest.nullifiers
        payout == request.digest.payout
    IN  /\ IsList(ns) /\ IsInjective(ns)
        /\ \A n \in ToSet(ns) : trees[n[1]][n[3]].token = payout[2] /\ NoteValueAt(n) \in Nat
        /\ payout[3] = SumOver(ValuesAt(ToSet(ns)), ns)

ForcedExact == \A request \in forced : ExactRequest(request)

(* Trees grow, and what requests say of notes stays true.                   *)
LEMMA RequestsStayExact ==
    ASSUME TreesGrow, NEW request, AsConsented(request), ExactRequest(request)
    PROVE  ExactRequest(request)'
<1>1. PICK ns, payout : ns = request.digest.nullifiers /\ payout = request.digest.payout
    OBVIOUS
<1>2. \A n \in ToSet(ns) : NoteOf(request.digest.account, n)
    BY <1>1 DEF AsConsented
<1>3. \A n \in ToSet(ns) : trees'[n[1]][n[3]] = trees[n[1]][n[3]]
    <2> SUFFICES ASSUME NEW n \in ToSet(ns) PROVE trees'[n[1]][n[3]] = trees[n[1]][n[3]]
        OBVIOUS
    <2>1. PICK k \in TreeNumber : \E key : \E i \in DOMAIN trees[k] : n = Nullifier(k, key, i)
        BY <1>2 DEF NoteOf
    <2>2. PICK key : \E i \in DOMAIN trees[k] : n = Nullifier(k, key, i)
        BY <2>1
    <2>3. PICK i \in DOMAIN trees[k] : n = Nullifier(k, key, i)
        BY <2>2
    <2>4. n[1] = k /\ n[3] = i
        BY <2>3 DEF Nullifier
    <2> QED BY <2>4 DEF TreesGrow
<1>4. /\ IsList(ns) /\ IsInjective(ns)
      /\ \A n \in ToSet(ns) : trees[n[1]][n[3]].token = payout[2] /\ NoteValueAt(n) \in Nat
      /\ payout[3] = SumOver(ValuesAt(ToSet(ns)), ns)
    BY <1>1 DEF ExactRequest
<1>5. \A n \in ToSet(ns) : trees'[n[1]][n[3]].token = payout[2] /\ NoteValueAt(n)' \in Nat
    BY <1>3, <1>4 DEF NoteValueAt
<1>6. ValuesAt(ToSet(ns))' = ValuesAt(ToSet(ns))
    BY <1>3 DEF ValuesAt, NoteValueAt
<1>7. payout[3] = SumOver(ValuesAt(ToSet(ns))', ns)
    BY <1>4, <1>6
<1> QED BY <1>1, <1>4, <1>5, <1>7 DEF ExactRequest, SumOver

(* The circuit sums without wrapping.                                      *)
LEMMA RequestIsExact ==
    ASSUME Typed, NEW leaf \in authLeaves, leaf.account \in Account, RequestForcedWithdrawal(leaf),
           NEW request \in forced' \ forced
    PROVE  ExactRequest(request)
<1>1. PICK f, digest :
        /\ f \in ForcedWithdrawalsOf(leaf.account)
        /\ digest = ForcedDigest(f, leaf.kind)
        /\ ForcedCircuit(f, knownRoots, leaf, SignaturesFor({digest}))
        /\ Unspent(digest.nullifiers)
        /\ request = [digest |-> digest, at |-> now]
    BY DEF RequestForcedWithdrawal
<1>2. f.nk = NullifyingKey[leaf.account] /\ IsInputList(f.inputs, f.account, f.nk, f.token)
    BY <1>1, ForcedWithdrawalsAre
<1>3. PICK ns, values, k :
        ns = NullifiersOf(f.nk, f.inputs) /\ values = ValuesOf(f.inputs) /\ k = Len(f.inputs)
    OBVIOUS
<1>4. /\ request.digest.nullifiers = ns /\ request.digest.payout = f.payout /\ IsInjective(ns)
    BY <1>1, <1>3 DEF ForcedDigest, Unspent
<1>5. /\ k \in 1..MaxInputs /\ MaxInputs \in Nat /\ MaxAmount \in Nat /\ Modulus \in Nat
      /\ f.payout[2] = f.token /\ f.payout[3] = FieldSum(values)
    BY <1>1, <1>3, BoundsAssumption, ModulusAssumption DEF ForcedCircuit
<1>6. DOMAIN f.inputs = 1..k /\ k \in Nat
    BY <1>2, <1>3, Lengths DEF IsInputList
<1>7. IsList(ns) /\ DOMAIN ns = 1..k
    <2>1. PICK inputs, a, b, t :
            /\ inputs = f.inputs /\ a = f.account /\ b = leaf.account /\ t = f.token
            /\ b \in Account
        OBVIOUS
    <2>2. IsInputList(inputs, a, NullifyingKey[b], t)
        BY <1>2, <2>1
    <2>3. /\ IsList(NullifiersOf(NullifyingKey[b], inputs))
          /\ DOMAIN NullifiersOf(NullifyingKey[b], inputs) = DOMAIN inputs
          /\ \A n \in ToSet(NullifiersOf(NullifyingKey[b], inputs)) : NoteOf(a, n)
        <3>1. b \in Account
            BY <2>1
        <3> QED BY ONLY <2>2, <3>1, NullifiersAreNotes
    <2> QED BY <1>2, <1>3, <1>6, <2>1, <2>3
<1>8. ASSUME NEW i \in 1..k
      PROVE  /\ trees[ns[i][1]][ns[i][3]].token = f.token /\ NoteValueAt(ns[i]) = values[i]
             /\ IsAmount(values[i])
    <2>1. Nullifiers(f) = ns /\ values[i] = f.inputs[i].value
        BY <1>3, <1>6 DEF Nullifiers, ValuesOf
    <2>2. LET n == Nullifiers(f)[i]
          IN  /\ trees[n[1]][n[3]].token = f.token
              /\ trees[n[1]][n[3]].value = f.inputs[i].value
              /\ IsAmount(f.inputs[i].value)
        BY <1>2, <1>6, InputsAsOpened
    <2> QED BY <2>1, <2>2 DEF NoteValueAt
<1>9. k * MaxAmount < Modulus
    <2>1. PICK m \in Nat, inputs \in Nat, field \in Nat :
            m = MaxAmount /\ inputs = MaxInputs /\ field = Modulus
        BY <1>5
    <2>2. inputs * m < field
        BY <2>1, ModulusLarge
    <2>3. k * m <= inputs * m
        BY <1>5, <1>6, <2>1
    <2>4. PICK x \in Int, y \in Int : x = k * m /\ y = inputs * m
        BY <1>6
    <2> QED BY <2>1, <2>2, <2>3, <2>4
<1>10. FieldSum(values) = Total(values, 1..k)
    <2>1. DOMAIN values = 1..k
        BY <1>3, <1>6 DEF ValuesOf
    <2> QED BY <1>6, <1>8, <1>9, <2>1, FieldSumIsTotal
<1>11. \A n \in ToSet(ns) : trees[n[1]][n[3]].token = f.token /\ NoteValueAt(n) \in Nat
    BY <1>5, <1>7, <1>8 DEF ToSet, IsAmount
<1>12. SumOver(ValuesAt(ToSet(ns)), ns) = Total(values, 1..k)
    <2>1. PICK g : g = ValuesAt(ToSet(ns))
        OBVIOUS
    <2>2. \A i \in DOMAIN ns : g[ns[i]] = values[i]
        <3>1. \A n \in ToSet(ns) : g[n] = NoteValueAt(n)
            BY <2>1 DEF ValuesAt
        <3> QED BY <1>7, <1>8, <3>1, ListDomain
    <2>3. SumOver(g, ns) = Total(values, DOMAIN ns)
        BY <1>7, <2>2, SumOverPlaces
    <2> QED BY <1>7, <2>1, <2>3
<1> QED BY <1>4, <1>5, <1>7, <1>10, <1>11, <1>12 DEF ExactRequest

(* What is paid out is what the notes were worth.                          *)
LEMMA ExecuteKeepsValue ==
    ASSUME Typed, Typed', LeavesOpen, SpentInTrees, Outstanding, ForcedAsConsented, ForcedExact,
           NEW request \in forced, ExecuteForcedWithdrawal(request)
    PROVE  ValueKept /\ Outstanding'
<1>1. PICK ns : ns = request.digest.nullifiers
    OBVIOUS
<1>2. PICK to \in Recipient, u \in Token, amount \in Nat : request.digest.payout = <<to, u, amount>>
    BY DEF ForcedAsConsented, AsConsented
<1>3. /\ ToSet(ns) \cap nullifierSpent = {} /\ nullifierSpent' = nullifierSpent \cup ToSet(ns)
      /\ paid' = [paid EXCEPT ![to][u] = @ + amount]
      /\ UNCHANGED <<trees, pendingRequests, pendingSweeps>>
    BY <1>1, <1>2 DEF ExecuteForcedWithdrawal
<1>4. /\ IsList(ns) /\ IsInjective(ns)
      /\ \A n \in ToSet(ns) : trees[n[1]][n[3]].token = u /\ NoteValueAt(n) \in Nat
      /\ amount = SumOver(ValuesAt(ToSet(ns)), ns)
    BY <1>1, <1>2 DEF ForcedExact, ExactRequest
<1>5. \A n \in ToSet(ns) : NoteOf(request.digest.account, n)
    BY <1>1 DEF ForcedAsConsented, AsConsented
<1>6. Spends(ns)
    BY <1>3, <1>4, <1>5, OwnNoteOf DEF Spends
<1>7. Mints(<<>>)
    BY <1>3, NothingMinted
<1>8. LeavesOpen' /\ SpentInTrees'
    BY <1>6, <1>7, NotesMove
<1>9. /\ pendingRequests \subseteq Requests /\ pendingRequests' \subseteq Requests
      /\ pendingSweeps \subseteq Sweeps /\ pendingSweeps' \subseteq Sweeps
    BY <1>3 DEF Outstanding
<1>10. ASSUME NEW t \in Token PROVE Held(t)' = Held(t)
    <2>1. PICK requests \in SUBSET Requests, sweeps \in SUBSET Sweeps :
            requests = pendingRequests /\ sweeps = pendingSweeps
        BY <1>9
    <2>2. Requested(requests, t) \in Int /\ Swept(sweeps, t) \in Int
        BY RequestedIs, SweptIs
    <2>3. SumOver(LeafWorth(t, ToSet(<<>>)), <<>>) = 0
        BY SumOverEmpty
    <2>4. SumOver(SpentWorth(t, ToSet(ns)), ns) = IF t = u THEN amount ELSE 0
        <3>1. PICK g, v : g = SpentWorth(t, ToSet(ns)) /\ v = ValuesAt(ToSet(ns))
            OBVIOUS
        <3>2. \A n \in ToSet(ns) : v[n] = NoteValueAt(n) /\ g[n] = IF t = u THEN v[n] ELSE 0
            BY <1>4, <3>1 DEF SpentWorth, ValuesAt
        <3>3. CASE t # u
            <4>1. \A n \in ToSet(ns) : g[n] = 0
                BY <3>2, <3>3
            <4> QED BY <1>4, <3>1, <3>3, <4>1, SumOverZero
        <3>4. CASE t = u
            <4>1. PICK h : h = [j \in DOMAIN ns |-> v[ns[j]]]
                OBVIOUS
            <4>2. \A j \in DOMAIN ns : g[ns[j]] = h[j] /\ v[ns[j]] = h[j]
                BY <1>4, <3>2, <3>4, <4>1, ListDomain
            <4>3. SumOver(g, ns) = Total(h, DOMAIN ns) /\ SumOver(v, ns) = Total(h, DOMAIN ns)
                BY <1>4, <4>2, SumOverPlaces
            <4> QED BY <1>4, <3>1, <3>4, <4>3
        <3> QED BY <3>3, <3>4
    <2>5. PaidOut(paid', t) = PaidOut(paid, t) + IF t = u THEN amount ELSE 0
        <3>1. PICK p \in [Recipient -> [Token -> Nat]], q \in [Recipient -> [Token -> Nat]] :
                p = paid /\ q = paid'
            BY DEF Typed
        <3>2. q = [p EXCEPT ![to][u] = @ + amount]
            BY <1>3, <3>1
        <3>3. PICK f, g : f = PaidIn(p, t) /\ g = PaidIn(q, t)
            OBVIOUS
        <3>4. /\ PaidOut(p, t) = Total(f, Recipient) /\ PaidOut(q, t) = Total(g, Recipient)
              /\ \A x \in Recipient : f[x] = p[x][t] /\ g[x] = q[x][t] /\ f[x] \in Int /\ g[x] \in Int
            BY <3>3, PaidOutIs
        <3>5. /\ \A x \in Recipient : x # to => g[x] = f[x]
              /\ g[to] = f[to] + IF t = u THEN amount ELSE 0
            BY <3>2, <3>4
        <3>6. Total(g, Recipient) = Total(f, Recipient) - f[to] + g[to]
            <4>1. /\ IsFiniteSet(Recipient) /\ to \in Recipient
                  /\ \A x \in Recipient : f[x] \in Int /\ g[x] \in Int
                  /\ \A x \in Recipient : x # to => g[x] = f[x]
                BY <3>4, <3>5, RecipientsAssumption
            <4> QED BY ONLY <4>1, TotalChange
        <3>7. Total(f, Recipient) \in Int
            BY <3>4, PaidOutIs
        <3> QED BY <3>1, <3>4, <3>5, <3>6, <3>7
    <2>6. PaidOut(paid, t) \in Int
        BY PaidOutIs DEF Typed
    <2>7. SumOver(SpentWorth(t, ToSet(ns)), ns)
                + Requested(pendingRequests, t) + Swept(pendingSweeps, t) + PaidOut(paid, t)
             = SumOver(LeafWorth(t, ToSet(<<>>)), <<>>)
                + Requested(pendingRequests', t) + Swept(pendingSweeps', t) + PaidOut(paid', t)
        BY <1>3, <2>1, <2>2, <2>3, <2>4, <2>5, <2>6
    <2> QED BY <1>6, <1>7, <1>9, <2>7, BalancedStep
<1> QED BY <1>8, <1>9, <1>10 DEF ValueKept, Outstanding

-----------------------------------------------------------------------------
(* The invariant of the ledger.                                            *)

ValueInv == LeavesOpen /\ SpentInTrees /\ Outstanding /\ ForcedExact /\ ValueConserved

(* Steps that move no money.                                               *)
LEMMA NothingMoves ==
    ASSUME Typed, Typed', LeavesOpen, SpentInTrees, Outstanding,
           UNCHANGED <<trees, nullifierSpent, pendingRequests, pendingSweeps, paid>>
    PROVE  ValueKept /\ Outstanding'
<1>1. Spends(<<>>) /\ Mints(<<>>)
    BY NothingSpent, NothingMinted
<1>2. LeavesOpen' /\ SpentInTrees'
    BY <1>1, NotesMove
<1>3. /\ pendingRequests \subseteq Requests /\ pendingRequests' \subseteq Requests
      /\ pendingSweeps \subseteq Sweeps /\ pendingSweeps' \subseteq Sweeps
    BY DEF Outstanding
<1>4. ASSUME NEW t \in Token PROVE Held(t)' = Held(t)
    <2>1. PICK requests \in SUBSET Requests, sweeps \in SUBSET Sweeps :
            requests = pendingRequests /\ sweeps = pendingSweeps
        BY <1>3
    <2>2. Requested(requests, t) \in Int /\ Swept(sweeps, t) \in Int
        BY RequestedIs, SweptIs
    <2>3. SumOver(LeafWorth(t, ToSet(<<>>)), <<>>) = 0 /\ SumOver(SpentWorth(t, ToSet(<<>>)), <<>>) = 0
        BY SumOverEmpty
    <2>4. PaidOut(paid, t) \in Int /\ PaidOut(paid', t) = PaidOut(paid, t)
        BY PaidOutIs DEF Typed
    <2>5. SumOver(SpentWorth(t, ToSet(<<>>)), <<>>)
                + Requested(pendingRequests, t) + Swept(pendingSweeps, t) + PaidOut(paid, t)
             = SumOver(LeafWorth(t, ToSet(<<>>)), <<>>)
                + Requested(pendingRequests', t) + Swept(pendingSweeps', t) + PaidOut(paid', t)
        BY <2>1, <2>2, <2>3, <2>4
    <2> QED BY <1>1, <1>3, <2>5, BalancedStep
<1> QED BY <1>2, <1>3, <1>4 DEF ValueKept, Outstanding

(* No step changes what is held.                                            *)
LEMMA StepKeepsValue ==
    ASSUME ConsentInv, ConsentInv', ValueInv, [Next]_vars
    PROVE  ValueKept /\ Outstanding'
<1>0. /\ Typed /\ Typed' /\ LeavesOpen /\ SpentInTrees /\ Outstanding
      /\ ForcedAsConsented /\ ForcedExact
    BY DEF ConsentInv, ValueInv
<1> DEFINE Still == UNCHANGED <<trees, nullifierSpent, pendingRequests, pendingSweeps, paid>>
<1>1. ASSUME NEW leaf \in KeyLeaves, Sign(leaf) PROVE Still
    BY <1>1 DEF Sign
<1>2. ASSUME NEW a \in Account, NEW expiry \in Expiries, Approve(a, expiry) PROVE Still
    BY <1>2 DEF Approve
<1>3. ASSUME NEW time \in ProvingTimes, SubmitEpoch(time) PROVE ValueKept /\ Outstanding'
    BY <1>0, <1>3, EpochKeepsValue
<1>4. ASSUME NEW deposits \in DepositBatches, SubmitDepositEpoch(deposits) PROVE ValueKept /\ Outstanding'
    BY <1>0, <1>4, DepositEpochKeepsValue
<1>5. ASSUME NEW batch \in PortalDepositBatches, SubmitPortalDepositEpoch(batch) PROVE ValueKept /\ Outstanding'
    BY <1>0, <1>5, PortalEpochKeepsValue
<1>6. ASSUME NEW leaf \in authLeaves, RequestForcedWithdrawal(leaf) PROVE Still
    BY <1>6 DEF RequestForcedWithdrawal
<1>7. ASSUME NEW request \in forced, ExecuteForcedWithdrawal(request) PROVE ValueKept /\ Outstanding'
    BY <1>0, <1>7, ExecuteKeepsValue
<1>8. CASE Tick
    BY <1>0, <1>8, NothingMoves DEF Tick
<1>9. CASE UNCHANGED vars
    BY <1>0, <1>9, NothingMoves DEF vars
<1>10. ASSUME Still PROVE ValueKept /\ Outstanding'
    BY <1>0, <1>10, NothingMoves
<1> QED BY <1>1, <1>2, <1>3, <1>4, <1>5, <1>6, <1>7, <1>8, <1>9, <1>10 DEF Next

(* No step leaves a request that pays another amount than its notes.        *)
LEMMA StepKeepsExact ==
    ASSUME ConsentInv, ValueInv, [Next]_vars
    PROVE  ForcedExact'
<1>1. Kept
    BY StepKeeps
<1>2. ASSUME NEW request \in forced' PROVE ExactRequest(request)
    <2>1. CASE request \in forced
        BY <2>1 DEF ValueInv, ForcedExact
    <2>2. CASE request \notin forced
        <3>1. ASSUME NEW leaf \in KeyLeaves, Sign(leaf) PROVE forced' = forced
            BY <3>1 DEF Sign
        <3>2. ASSUME NEW a \in Account, NEW expiry \in Expiries, Approve(a, expiry) PROVE forced' = forced
            BY <3>2 DEF Approve
        <3>3. ASSUME NEW time \in ProvingTimes, SubmitEpoch(time) PROVE forced' = forced
            BY <3>3 DEF SubmitEpoch
        <3>4. ASSUME NEW deposits \in DepositBatches, SubmitDepositEpoch(deposits) PROVE forced' = forced
            BY <3>4 DEF SubmitDepositEpoch
        <3>5. ASSUME NEW batch \in PortalDepositBatches, SubmitPortalDepositEpoch(batch) PROVE forced' = forced
            BY <3>5 DEF SubmitPortalDepositEpoch
        <3>6. ASSUME NEW leaf \in authLeaves, RequestForcedWithdrawal(leaf) PROVE ExactRequest(request)
            <4>1. leaf.account \in Account
                BY KeysAssumption DEF authLeaves, ConsentInv, Typed
            <4> QED BY <2>2, <3>6, <4>1, RequestIsExact DEF ConsentInv
        <3>7. ASSUME NEW r \in forced, ExecuteForcedWithdrawal(r) PROVE forced' \subseteq forced
            BY <3>7 DEF ExecuteForcedWithdrawal
        <3>8. CASE Tick
            BY <2>2, <3>8 DEF Tick
        <3>9. CASE UNCHANGED vars
            BY <2>2, <3>9 DEF vars
        <3> QED BY <2>2, <3>1, <3>2, <3>3, <3>4, <3>5, <3>6, <3>7, <3>8, <3>9 DEF Next
    <2> QED BY <2>1, <2>2
<1>3. ASSUME NEW request \in forced' PROVE ExactRequest(request)'
    <2>1. AsConsented(request)
        BY <1>1 DEF Kept, ConsentInv, ForcedAsConsented
    <2> QED BY <1>1, <1>2, <2>1, RequestsStayExact DEF Kept
<1> QED BY <1>3 DEF ForcedExact

(* At first there is what there is in tree 0, and all that is outstanding. *)
LEMMA ValueAtFirst == Init => ValueInv
<1> SUFFICES ASSUME Init PROVE ValueInv
    OBVIOUS
<1>1. PICK n \in Nat : /\ n = TreeCapacity /\ IsList(LegacyTree) /\ DOMAIN LegacyTree = 1..n
                       /\ \A i \in 1..n : LegacyTree[i].value \in Nat
    BY LegacyAssumption DEF IsList
<1>2. /\ 0 \in TreeNumber /\ trees[0] = LegacyTree
      /\ \A k \in TreeNumber : k # 0 => trees[k] = <<>>
    BY BoundsAssumption DEF Init, TreeNumber
<1>3. Positions = {<<0, i>> : i \in 1..n}
    <2>1. ASSUME NEW p \in Positions PROVE p \in {<<0, i>> : i \in 1..n}
        <3>1. p[1] \in TreeNumber /\ p[2] \in DOMAIN trees[p[1]] /\ p = <<p[1], p[2]>>
            BY PositionsFinite
        <3>2. p[1] = 0
            BY <1>2, <3>1
        <3> QED BY <1>1, <1>2, <3>1, <3>2
    <2>2. ASSUME NEW i \in 1..n PROVE <<0, i>> \in Positions
        BY <1>1, <1>2 DEF Positions
    <2> QED BY <2>1, <2>2
<1>4. \A i \in 1..n : LeafAt(<<0, i>>) = LegacyTree[i]
    BY <1>2 DEF LeafAt
<1>5. ASSUME NEW i \in 1..n, IsSpendable(LegacyTree[i].npk)
      PROVE  \E a \in Account : OwnedBy(LegacyTree[i], a)
    <2>1. LegacyTree[i].npk \in KeysNamed
        BY <1>1 DEF KeysNamed, ToSet
    <2>2. \E a \in Account : IsKeyOf(LegacyTree[i].npk, a)
        BY <1>5, <2>1, OwnersAssumption
    <2> QED BY <1>5, <2>2 DEF OwnedBy
<1>6. LeavesOpen
    <2> SUFFICES ASSUME NEW p \in Positions
                 PROVE  /\ LeafAt(p).value \in Nat
                        /\ p[1] # 0 \/ IsSpendable(LeafAt(p).npk) => \E a \in Account : OwnedBy(LeafAt(p), a)
        BY DEF LeavesOpen
    <2>1. PICK i \in 1..n : p = <<0, i>>
        BY <1>3
    <2>2. p[1] = 0 /\ LeafAt(p) = LegacyTree[i]
        BY <1>4, <2>1
    <2> QED BY <1>1, <1>5, <2>2
<1>7. SpentInTrees /\ Outstanding /\ ForcedExact
    BY DEF Init, SpentInTrees, Outstanding, ForcedExact
<1>8. ASSUME NEW t PROVE NoteValue(t) = LegacyValue(t)
    <2> DEFINE A == {p \in Live : LeafAt(p).token = t}
               L == {i \in DOMAIN LegacyTree :
                        LegacyTree[i].token = t /\ IsSpendable(LegacyTree[i].npk)}
               f == [p \in A |-> LeafAt(p).value]
               g == [i \in L |-> LegacyTree[i].value]
               h == [i \in L |-> <<0, i>>]
    <2>1. \A p \in Positions : p \in Live <=> IsSpendable(LeafAt(p).npk)
        <3>1. nullifierSpent = {}
            BY DEF Init
        <3>2. \A p \in Positions : p \in Live <=> \E a \in Account : OwnedBy(LeafAt(p), a)
            BY <3>1 DEF Live
        <3> QED BY <1>6, <3>2 DEF LeavesOpen, OwnedBy
    <2>2. A = {h[i] : i \in L}
        <3>1. ASSUME NEW p \in A PROVE p \in {h[i] : i \in L}
            <4>1. p \in Positions /\ IsSpendable(LeafAt(p).npk) /\ LeafAt(p).token = t
                BY <2>1, PositionsFinite
            <4>2. PICK i \in 1..n : p = <<0, i>>
                BY <1>3, <4>1
            <4>3. i \in L /\ h[i] = p
                BY <1>1, <1>4, <4>1, <4>2
            <4> QED BY <4>3
        <3>2. ASSUME NEW i \in L PROVE h[i] \in A
            <4>1. i \in 1..n /\ h[i] = <<0, i>>
                BY <1>1
            <4>2. h[i] \in Positions /\ LeafAt(h[i]) = LegacyTree[i]
                BY <1>3, <1>4, <4>1
            <4> QED BY <2>1, <4>2
        <3> QED BY <3>1, <3>2
    <2>3. \A i \in L : f[h[i]] = g[i] /\ g[i] \in Int
        <3>1. ASSUME NEW i \in L PROVE f[h[i]] = LegacyTree[i].value /\ LegacyTree[i].value \in Int
            <4>1. h[i] \in A
                BY <2>2
            <4>2. i \in 1..n /\ LeafAt(h[i]) = LegacyTree[i]
                BY <1>1, <1>4
            <4> QED BY <1>1, <4>1, <4>2
        <3> QED BY <3>1
    <2>4. IsFiniteSet(L)
        <3>1. IsFiniteSet(1..n) /\ L \subseteq 1..n
            BY <1>1, FS_Interval
        <3> QED BY <3>1, FS_Subset
    <2>5. \A i, j \in L : h[i] = h[j] => i = j
        OBVIOUS
    <2>6. NoteValue(t) = SumFunction(f) /\ LegacyValue(t) = SumFunction(g) /\ DOMAIN f = A /\ DOMAIN g = L
        BY DEF NoteValue, LegacyValue
    <2> HIDE DEF f, g, h, A, L
    <2>7. IsFiniteSet({h[i] : i \in L}) /\ Total(f, {h[i] : i \in L}) = Total(g, L)
        BY <2>3, <2>4, <2>5, TotalRenamed
    <2>8. SumFunction(f) = Total(f, A)
        BY <2>2, <2>6, <2>7, SumIsTotal
    <2>9. SumFunction(g) = Total(g, L)
        BY <2>4, <2>6, SumIsTotal
    <2> QED BY <2>2, <2>6, <2>7, <2>8, <2>9
<1>9. ASSUME NEW t \in Token PROVE Held(t) = LegacyValue(t) + Requested(Requests, t) + Swept(Sweeps, t)
    <2>1. PICK p \in [Recipient -> [Token -> Nat]] : p = paid
        BY DEF Init
    <2>2. PaidOut(p, t) = Total(PaidIn(p, t), Recipient)
        BY PaidOutIs
    <2>3. \A to \in Recipient : PaidIn(p, t)[to] = 0
        BY <2>1 DEF Init, PaidIn
    <2>4. PaidOut(p, t) = 0
        <3>1. PICK f : f = PaidIn(p, t)
            OBVIOUS
        <3> QED BY <2>2, <2>3, <3>1, RecipientsAssumption, TotalZero
    <2>5. SumFunction([to \in Recipient |-> paid[to][t]]) = 0
        BY <2>1, <2>4 DEF PaidOut, PaidIn
    <2>6. NoteValue(t) \in Int
        BY <1>6, <1>8, NoteValueIs, PositionsFinite, TotalInt DEF NoteValuesAddUp
    <2>7. Requested(Requests, t) \in Int /\ Swept(Sweeps, t) \in Int
        BY RequestedIs, SweptIs
    <2>8. pendingRequests = Requests /\ pendingSweeps = Sweeps
        BY DEF Init
    <2>9. Held(t) = NoteValue(t) + Requested(Requests, t) + Swept(Sweeps, t) + 0
        BY <2>5, <2>8 DEF Held
    <2>10. NoteValue(t) = LegacyValue(t)
        BY <1>8
    <2> QED BY <2>6, <2>7, <2>9, <2>10
<1> QED BY <1>6, <1>7, <1>9 DEF ValueInv, ValueConserved

(* What is held of each token is what it was; leaves have owners, spent    *)
(* nullifiers are of leaves, and forced withdrawals are exact.             *)
THEOREM ValueInvariant == Spec => []ValueInv
<1>1. ConsentInv /\ ConsentInv' /\ ValueInv /\ [Next]_vars => ValueInv'
    <2> SUFFICES ASSUME ConsentInv, ConsentInv', ValueInv, [Next]_vars PROVE ValueInv'
        OBVIOUS
    <2>1. ValueKept /\ Outstanding' /\ ForcedExact'
        BY StepKeepsValue, StepKeepsExact
    <2>2. ASSUME NEW t \in Token
          PROVE  Held(t)' = LegacyValue(t) + Requested(Requests, t) + Swept(Sweeps, t)
        BY <2>1 DEF ValueKept, ValueInv, ValueConserved
    <2> QED BY <2>1, <2>2 DEF ValueKept, ValueInv, ValueConserved
<1> QED BY <1>1, ValueAtFirst, ConsentInvariant, PTL DEF Spec

(* Of each token there is always what there was, in notes somebody can     *)
(* spend, in deposits not credited yet, and paid out: no proof the         *)
(* circuits accept mints, loses or converts value (epoch_circuit.go,       *)
(* deposit_epoch_circuit.go, deposit_portal_circuit.go and                 *)
(* forced_withdraw_circuit.go, with the payouts of PrivacyBoost).          *)
THEOREM ValueIsConserved == Spec => []ValueConserved
<1>1. ValueInv => ValueConserved
    BY DEF ValueInv
<1> QED BY <1>1, ValueInvariant, PTL

(* Every leaf that is added can be spent by somebody                       *)
(* (AssertSpendableNPK, treeLeavesForTransfer, feeCommitments).            *)
THEOREM LeavesStayOpen == Spec => []NewLeavesOpen
<1>1. ValueInv => NewLeavesOpen
    BY DEF ValueInv, LeavesOpen, NewLeavesOpen
<1> QED BY <1>1, ValueInvariant, PTL
=============================================================================
