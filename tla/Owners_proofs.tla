--------------------------- MODULE Owners_proofs ----------------------------
(***************************************************************************)
(* Proofs about the two contracts with which owners act for themselves,    *)
(* and which share no state here: AuthRegistry, for every set of accounts, *)
(* keys and batches and trees of every depth and number, and then          *)
(* ForcedWithdrawal, for every set of notes, every assignment of           *)
(* commitments to them and every bound.                                    *)
(***************************************************************************)
EXTENDS AuthRegistry, ForcedWithdrawal, Sums, SequenceTheorems, TLAPS

-----------------------------------------------------------------------------
(* AuthRegistry.                                                           *)
(*                                                                         *)
(* Orders take effect once, revocation is final, accounts made for         *)
(* approvals hold no keys, the roots commit to the leaves of exactly the   *)
(* live keys and approvals, and a superseded root is accepted for exactly  *)
(* maxStaleness blocks.                                                    *)
(*                                                                         *)
(* The first invariant says what the guards rely on: an order that was     *)
(* carried out has a nonce that is used up, an entry that is revoked is    *)
(* one that is registered, and an account without an owner has no keys.    *)
(* The second says that what is stored for a node, or stands for it where  *)
(* nothing is stored, are the leaves under it; it holds again after a      *)
(* leaf is written because the nodes on its path are the leaves under them *)
(* level by level.  The recursion that makes a path, and the one for the   *)
(* widths, are unfolded by an induction of their own.                      *)

KeyInfos == [tree : Nat, index : Nat, listIndex : Nat, revoked : BOOLEAN]
ApprovalInfos == [tree : Nat, index : Nat, revoked : BOOLEAN, exists : BOOLEAN]

Types ==
    /\ currentAuthTreeNumber \in Trees
    /\ leafCount \in [Trees -> Nat]
    /\ nonce \in [Account -> Nat]
    /\ created \subseteq Account
    /\ approvalOnly \subseteq created
    /\ keyInfo \in [Account -> [Key -> KeyInfos]]
    /\ keyList \in [Account -> Seq(Key)]
    /\ approvalInfo \in [Account -> [Batch -> ApprovalInfos]]

(* An order that was carried out cannot be signed for again.               *)
DoneNoncesUsed ==
    \A order \in done :
        order.account \in Account => order.nonce \in Nat /\ order.nonce < nonce[order.account]

RevokedAreRegistered ==
    \A account \in Account, key \in Key :
        keyInfo[account][key].revoked => keyInfo[account][key].listIndex # 0

HoldsNoKeys(account) == keyList[account] = <<>> /\ \A key \in Key : ~IsRegistered(account, key)

OnlyOwnedHoldKeys == \A account \in Account \ (created \ approvalOnly) : HoldsNoKeys(account)

Inv == Types /\ DoneNoncesUsed /\ RevokedAreRegistered /\ OnlyOwnedHoldKeys

-----------------------------------------------------------------------------
(* A slot that is given out has a tree and an index.                       *)
LEMMA SlotTypes ==
    ASSUME Types, AllocateLeafSlot
    PROVE  /\ NextTree \in Trees /\ NextTree \in Nat /\ NextIndex \in Nat
           /\ currentAuthTreeNumber' \in Trees
           /\ leafCount' \in [Trees -> Nat]
<1>1. currentAuthTreeNumber \in Nat /\ leafCount[currentAuthTreeNumber] \in Nat
  BY DEF Types, Trees
<1>2. NextTree \in Nat /\ NextTree \in Trees /\ NextIndex \in Nat
  BY <1>1, TreesAssumption DEF NextTree, NextIndex, AllocateLeafSlot, Trees
<1> QED
  BY <1>1, <1>2 DEF AllocateLeafSlot, Types

(* Replacing an entry of a list leaves a list.                             *)
LEMMA ReplaceInList ==
    ASSUME NEW S, NEW s \in Seq(S), NEW i, NEW x \in S
    PROVE  [s EXCEPT ![i] = x] \in Seq(S)
<1>1. CASE i \in 1..Len(s)
  BY <1>1, ExceptSeq
<1>2. CASE i \notin 1..Len(s)
  <2>1. [s EXCEPT ![i] = x] = s
    BY <1>2
  <2> QED
    BY <2>1
<1> QED
  BY <1>1, <1>2

(* An order that passes the signature check was not carried out before.    *)
LEMMA OrderIsNew ==
    ASSUME Types, DoneNoncesUsed, NEW order, order.account \in Account, UseNonce(order)
    PROVE  /\ done' # done
           /\ nonce' \in [Account -> Nat]
           /\ DoneNoncesUsed'
<1>1. order.nonce = nonce[order.account] /\ nonce[order.account] \in Nat
  BY DEF UseNonce, Types
<1>2. order \notin done
  BY <1>1 DEF DoneNoncesUsed
<1>3. nonce' = [nonce EXCEPT ![order.account] = @ + 1] /\ done' = done \cup {order}
  BY DEF UseNonce
<1>4. nonce' \in [Account -> Nat]
  BY <1>1, <1>3 DEF Types
<1>5. DoneNoncesUsed'
  <2> SUFFICES ASSUME NEW o \in done', o.account \in Account
               PROVE  o.nonce \in Nat /\ o.nonce < nonce'[o.account]
    BY DEF DoneNoncesUsed
  <2>1. CASE o = order
    BY <2>1, <1>1, <1>3 DEF Types
  <2>2. CASE o \in done
    <3>1. o.nonce \in Nat /\ o.nonce < nonce[o.account] /\ nonce[o.account] \in Nat
      BY <2>2 DEF DoneNoncesUsed, Types
    <3>2. nonce'[o.account] = nonce[o.account] \/ nonce'[o.account] = nonce[o.account] + 1
      BY <1>3 DEF Types
    <3>3. CASE nonce'[o.account] = nonce[o.account]
      BY <3>1, <3>3
    <3>4. CASE nonce'[o.account] = nonce[o.account] + 1
      BY <3>1, <3>4
    <3> QED
      BY <3>2, <3>3, <3>4
  <2> QED
    BY <1>3, <2>1, <2>2
<1> QED
  BY <1>2, <1>3, <1>4, <1>5

-----------------------------------------------------------------------------
(* What the orders do to the registry.                                     *)

(* A registration adds one key, at the end of its account's list.          *)
LEMMA RegisterInv ==
    ASSUME Inv, NEW account \in Account, NEW key \in Key, NEW expiry \in Expiries, NEW n,
           Register(account, key, expiry, n)
    PROVE  Inv' /\ done' # done
<1> DEFINE order == Order("register", account, key, key, expiry, n)
           info == [tree |-> NextTree, index |-> NextIndex, listIndex |-> Len(keyList[account]) + 1, revoked |-> FALSE]
<1>1. order.account = account
  BY DEF Order
<1>2. done' # done /\ nonce' \in [Account -> Nat] /\ DoneNoncesUsed'
  BY <1>1, OrderIsNew DEF Register, Inv
<1>3. /\ NextTree \in Nat /\ NextIndex \in Nat
      /\ currentAuthTreeNumber' \in Trees /\ leafCount' \in [Trees -> Nat]
  BY SlotTypes DEF Register, Inv
<1>4. keyList[account] \in Seq(Key) /\ Len(keyList[account]) \in Nat
  BY DEF Inv, Types
<1>5. info \in KeyInfos /\ info.listIndex # 0 /\ ~info.revoked
  BY <1>3, <1>4 DEF KeyInfos
<1>6. keyInfo' = [keyInfo EXCEPT ![account][key] = info]
  BY DEF Register
<1>7. keyInfo' \in [Account -> [Key -> KeyInfos]]
  BY <1>5, <1>6 DEF Inv, Types
<1>8. keyList' \in [Account -> Seq(Key)]
  BY <1>4 DEF Register, Inv, Types
<1>9. Types'
  BY <1>2, <1>3, <1>7, <1>8 DEF Types, Inv, Register
<1>10. RevokedAreRegistered'
  BY <1>5, <1>6 DEF RevokedAreRegistered, Inv, Types
<1>11. OnlyOwnedHoldKeys'
  <2> SUFFICES ASSUME NEW a \in Account, a \notin created' \/ a \in approvalOnly'
               PROVE  HoldsNoKeys(a)'
    BY DEF OnlyOwnedHoldKeys
  <2>1. a # account /\ (a \notin created \/ a \in approvalOnly)
    BY DEF Register, MayRegister
  <2>2. keyInfo'[a] = keyInfo[a] /\ keyList'[a] = keyList[a]
    BY <1>6, <2>1 DEF Register, Inv, Types
  <2> QED
    BY <2>1, <2>2 DEF OnlyOwnedHoldKeys, HoldsNoKeys, IsRegistered, Inv
<1> QED
  BY <1>2, <1>9, <1>10, <1>11 DEF Inv

(* A rotation moves an entry, which is not a revoked one.                  *)
LEMMA RotateInv ==
    ASSUME Inv, NEW account \in Account, NEW key \in Key, NEW new \in Key, NEW expiry \in Expiries, NEW n,
           Rotate(account, key, new, expiry, n)
    PROVE  Inv' /\ done' # done
<1> DEFINE order == Order("rotate", account, key, new, expiry, n)
<1>1. order.account = account
  BY DEF Order
<1>2. done' # done /\ nonce' \in [Account -> Nat] /\ DoneNoncesUsed'
  BY <1>1, OrderIsNew DEF Rotate, Inv
<1>3. keyInfo[account][key] \in KeyInfos /\ ~keyInfo[account][key].revoked /\ keyInfo[account][key].listIndex # 0
  BY DEF Rotate, IsLive, IsRegistered, Inv, Types
<1>4. NotRegistered \in KeyInfos /\ ~NotRegistered.revoked
  BY DEF NotRegistered, KeyInfos
<1>5. CASE UNCHANGED keyVars
  <2>1. keyInfo' = keyInfo /\ keyList' = keyList
    BY <1>5 DEF keyVars
  <2> QED
    BY <1>2, <2>1 DEF Rotate, Inv, Types, RevokedAreRegistered, OnlyOwnedHoldKeys, HoldsNoKeys, IsRegistered,
                      slotVars, accountVars
<1>6. CASE ~UNCHANGED keyVars
  <2> DEFINE left == [keyInfo EXCEPT ![account][key] = NotRegistered]
             info == keyInfo[account][key]
             list == keyList[account]
  <2>1. keyInfo' = [left EXCEPT ![account][new] = info] /\ keyList' = [keyList EXCEPT ![account][info.listIndex] = new]
    BY <1>6 DEF Rotate, Replaced
  <2>2. left \in [Account -> [Key -> KeyInfos]]
    BY <1>4 DEF Inv, Types
  <2>3. keyInfo' \in [Account -> [Key -> KeyInfos]]
    BY <1>3, <2>1, <2>2
  <2>4. list \in Seq(Key) /\ keyList' = [keyList EXCEPT ![account] = [list EXCEPT ![info.listIndex] = new]]
    BY <2>1 DEF Inv, Types
  <2>5. [list EXCEPT ![info.listIndex] = new] \in Seq(Key)
    BY <2>4, ReplaceInList
  <2>6. keyList' \in [Account -> Seq(Key)]
    BY <2>4, <2>5 DEF Inv, Types
  <2>7. Types'
    BY <1>2, <2>3, <2>6 DEF Types, Inv, Rotate, slotVars, accountVars
  <2>8. RevokedAreRegistered'
    <3> SUFFICES ASSUME NEW a \in Account, NEW k \in Key, keyInfo'[a][k].revoked
                 PROVE  keyInfo'[a][k].listIndex # 0
      BY DEF RevokedAreRegistered
    <3>1. keyInfo'[a][k] = info \/ keyInfo'[a][k] = NotRegistered \/ keyInfo'[a][k] = keyInfo[a][k]
      BY <2>1, <2>2 DEF Inv, Types
    <3> QED
      BY <1>3, <1>4, <3>1 DEF Inv, RevokedAreRegistered
  <2>9. OnlyOwnedHoldKeys'
    <3> SUFFICES ASSUME NEW a \in Account, a \notin created' \/ a \in approvalOnly'
                 PROVE  HoldsNoKeys(a)'
      BY DEF OnlyOwnedHoldKeys
    <3>1. a # account /\ (a \notin created \/ a \in approvalOnly)
      BY DEF Rotate, accountVars
    <3>2. left[a] = keyInfo[a] /\ keyInfo'[a] = left[a] /\ keyList'[a] = keyList[a]
      BY <2>1, <2>2, <2>4, <3>1 DEF Inv, Types
    <3> QED
      BY <3>1, <3>2 DEF OnlyOwnedHoldKeys, HoldsNoKeys, IsRegistered, Inv
  <2> QED
    BY <1>2, <2>7, <2>8, <2>9 DEF Inv
<1> QED
  BY <1>5, <1>6

(* A revocation marks an entry that stays where it is.                     *)
LEMMA RevokeInv ==
    ASSUME Inv, NEW account \in Account, NEW key \in Key, NEW expiry \in Expiries, NEW n,
           Revoke(account, key, expiry, n)
    PROVE  Inv' /\ done' # done
<1> DEFINE order == Order("revoke", account, key, key, expiry, n)
<1>1. order.account = account
  BY DEF Order
<1>2. done' # done /\ nonce' \in [Account -> Nat] /\ DoneNoncesUsed'
  BY <1>1, OrderIsNew DEF Revoke, Inv
<1>3. keyInfo' = [keyInfo EXCEPT ![account][key].revoked = TRUE] /\ keyInfo[account][key].listIndex # 0
  BY DEF Revoke, IsLive, IsRegistered
<1> DEFINE info == [keyInfo[account][key] EXCEPT !.revoked = TRUE]
<1>4. info \in KeyInfos /\ info.listIndex = keyInfo[account][key].listIndex
  <2>1. keyInfo[account][key] \in KeyInfos
    BY DEF Inv, Types
  <2> QED
    BY <2>1 DEF KeyInfos
<1>5. keyInfo' = [keyInfo EXCEPT ![account][key] = info]
  BY <1>3 DEF Inv, Types
<1> HIDE DEF info
<1>6. Types'
  <2>1. keyInfo' \in [Account -> [Key -> KeyInfos]]
    BY <1>4, <1>5 DEF Inv, Types
  <2> QED
    BY <1>2, <2>1 DEF Types, Inv, Revoke, slotVars, accountVars
<1>7. \A a \in Account, k \in Key :
        /\ keyInfo'[a][k].listIndex = keyInfo[a][k].listIndex
        /\ <<a, k>> # <<account, key>> => keyInfo'[a][k] = keyInfo[a][k]
  BY <1>4, <1>5 DEF Inv, Types
<1>8. RevokedAreRegistered'
  BY <1>3, <1>7 DEF RevokedAreRegistered, Inv
<1>9. OnlyOwnedHoldKeys'
  BY <1>7 DEF OnlyOwnedHoldKeys, HoldsNoKeys, IsRegistered, Inv, Revoke, accountVars
<1> QED
  BY <1>2, <1>6, <1>8, <1>9 DEF Inv

(* Making an account leaves the keys alone.                                *)
LEMMA CreateInv ==
    ASSUME Inv, NEW account \in Account, CreateAccount(account)
    PROVE  Inv'
<1>1. Types'
  BY DEF CreateAccount, Inv, Types, slotVars, orderVars, keyVars
<1>2. DoneNoncesUsed' /\ RevokedAreRegistered'
  BY DEF CreateAccount, Inv, DoneNoncesUsed, RevokedAreRegistered, orderVars, keyVars
<1>3. OnlyOwnedHoldKeys'
  BY DEF CreateAccount, Inv, OnlyOwnedHoldKeys, HoldsNoKeys, IsRegistered, keyVars
<1> QED
  BY <1>1, <1>2, <1>3 DEF Inv, CreateAccount, treeVars, keyVars

(* An approval takes a slot and leaves the keys alone.                     *)
LEMMA ApproveInv ==
    ASSUME Inv, NEW account \in Account, NEW batch \in Batch, NEW expiry \in Expiries,
           ApproveSpendBatch(account, batch, expiry)
    PROVE  Inv' /\ keyInfo' = keyInfo /\ approvalInfo' # approvalInfo
<1> DEFINE info == [tree |-> NextTree, index |-> NextIndex, revoked |-> FALSE, exists |-> TRUE]
<1>1. /\ NextTree \in Nat /\ NextIndex \in Nat
      /\ currentAuthTreeNumber' \in Trees /\ leafCount' \in [Trees -> Nat]
  BY SlotTypes DEF ApproveSpendBatch, Inv
<1>2. info \in ApprovalInfos
  BY <1>1 DEF ApprovalInfos
<1>3. approvalInfo' = [approvalInfo EXCEPT ![account][batch] = info] /\ ~approvalInfo[account][batch].exists
  BY DEF ApproveSpendBatch, MayApprove
<1>4. approvalInfo' \in [Account -> [Batch -> ApprovalInfos]] /\ approvalInfo'[account][batch].exists
  BY <1>2, <1>3 DEF Inv, Types
<1>5. Types'
  BY <1>1, <1>4 DEF ApproveSpendBatch, Inv, Types, accountVars, orderVars, keyVars
<1>6. DoneNoncesUsed' /\ RevokedAreRegistered' /\ OnlyOwnedHoldKeys'
  BY DEF ApproveSpendBatch, Inv, DoneNoncesUsed, RevokedAreRegistered, OnlyOwnedHoldKeys,
              HoldsNoKeys, IsRegistered, accountVars, orderVars, keyVars
<1> QED
  BY <1>3, <1>4, <1>5, <1>6 DEF Inv, ApproveSpendBatch, keyVars

(* Taking an approval back changes the approval and no key.                *)
LEMMA RevokeApprovalInv ==
    ASSUME Inv, NEW account \in Account, NEW batch \in Batch, RevokeSpendApprovalBatch(account, batch)
    PROVE  Inv' /\ keyInfo' = keyInfo /\ approvalInfo' # approvalInfo
<1>1. approvalInfo' = [approvalInfo EXCEPT ![account][batch].revoked = TRUE] /\ ~approvalInfo[account][batch].revoked
  BY DEF RevokeSpendApprovalBatch
<1>2. approvalInfo' \in [Account -> [Batch -> ApprovalInfos]] /\ approvalInfo'[account][batch].revoked
  <2> DEFINE info == [approvalInfo[account][batch] EXCEPT !.revoked = TRUE]
  <2>1. approvalInfo[account][batch] \in ApprovalInfos
    BY DEF Inv, Types
  <2>2. info \in ApprovalInfos /\ info.revoked
    BY <2>1 DEF ApprovalInfos
  <2>3. approvalInfo' = [approvalInfo EXCEPT ![account][batch] = info]
    BY <1>1 DEF Inv, Types
  <2> QED
    BY <2>2, <2>3 DEF Inv, Types
<1>3. Types'
  BY <1>2 DEF RevokeSpendApprovalBatch, Inv, Types, slotVars, accountVars, orderVars, keyVars
<1>4. DoneNoncesUsed' /\ RevokedAreRegistered' /\ OnlyOwnedHoldKeys'
  BY DEF RevokeSpendApprovalBatch, Inv, DoneNoncesUsed, RevokedAreRegistered, OnlyOwnedHoldKeys,
              HoldsNoKeys, IsRegistered, accountVars, orderVars, keyVars
<1> QED
  BY <1>1, <1>2, <1>3, <1>4 DEF Inv, RevokeSpendApprovalBatch, keyVars

-----------------------------------------------------------------------------
(* The theorems.                                                           *)

(* At first nothing was ordered, registered or approved.                   *)
LEMMA InitInv == ASSUME Init PROVE Inv
<1>1. 0 \in Trees
  BY TreesAssumption DEF Trees
<1>2. NotRegistered \in KeyInfos /\ NotRegistered.listIndex = 0 /\ ~NotRegistered.revoked
  BY DEF NotRegistered, KeyInfos
<1>3. [tree |-> 0, index |-> 0, revoked |-> FALSE, exists |-> FALSE] \in ApprovalInfos
  BY DEF ApprovalInfos
<1>4. Types
  BY <1>1, <1>2, <1>3 DEF Init, Types
<1>5. DoneNoncesUsed
  BY DEF Init, DoneNoncesUsed
<1>6. RevokedAreRegistered /\ OnlyOwnedHoldKeys
  BY <1>2 DEF Init, RevokedAreRegistered, OnlyOwnedHoldKeys, HoldsNoKeys, IsRegistered
<1> QED
  BY <1>4, <1>5, <1>6 DEF Inv

(* One step: the invariant again, and what the two action properties say.  *)
LEMMA StepInv ==
    ASSUME Inv, [Next]_vars
    PROVE  /\ Inv'
           /\ (keyInfo' # keyInfo \/ (root' # root /\ approvalInfo' = approvalInfo)) => done' # done
<1>1. CASE NextBlock
  <2>1. Inv'
    BY <1>1 DEF NextBlock, Inv, Types, DoneNoncesUsed, RevokedAreRegistered, OnlyOwnedHoldKeys,
                HoldsNoKeys, IsRegistered, slotVars, accountVars, orderVars, keyVars
  <2> QED
    BY <1>1, <2>1 DEF NextBlock, keyVars
<1>2. ASSUME NEW account \in Account,
             \/ CreateAccount(account)
             \/ \E batch \in Batch :
                    \/ \E expiry \in Expiries : ApproveSpendBatch(account, batch, expiry)
                    \/ RevokeSpendApprovalBatch(account, batch)
             \/ \E key \in Key, expiry \in Expiries, n \in 0..MaxNonce :
                    \/ Register(account, key, expiry, n)
                    \/ \E new \in Key : Rotate(account, key, new, expiry, n)
                    \/ Revoke(account, key, expiry, n)
      PROVE  /\ Inv'
             /\ (keyInfo' # keyInfo \/ (root' # root /\ approvalInfo' = approvalInfo)) => done' # done
  <2> DEFINE Goal == /\ Inv'
                     /\ (keyInfo' # keyInfo \/ (root' # root /\ approvalInfo' = approvalInfo)) => done' # done
  <2>1. ASSUME CreateAccount(account) PROVE Goal
    <3>1. Inv' /\ UNCHANGED <<keyInfo, root>>
      BY <2>1, CreateInv DEF CreateAccount, keyVars, treeVars
    <3> QED
      BY <3>1
  <2>2. ASSUME NEW batch \in Batch, NEW expiry \in Expiries, ApproveSpendBatch(account, batch, expiry)
        PROVE  Goal
    BY <2>2, ApproveInv
  <2>3. ASSUME NEW batch \in Batch, RevokeSpendApprovalBatch(account, batch)
        PROVE  Goal
    BY <2>3, RevokeApprovalInv
  <2>4. ASSUME NEW key \in Key, NEW expiry \in Expiries, NEW n \in 0..MaxNonce,
               Register(account, key, expiry, n)
        PROVE  Goal
    BY <2>4, RegisterInv
  <2>5. ASSUME NEW key \in Key, NEW expiry \in Expiries, NEW n \in 0..MaxNonce, NEW new \in Key,
               Rotate(account, key, new, expiry, n)
        PROVE  Goal
    BY <2>5, RotateInv
  <2>6. ASSUME NEW key \in Key, NEW expiry \in Expiries, NEW n \in 0..MaxNonce, Revoke(account, key, expiry, n)
        PROVE  Goal
    BY <2>6, RevokeInv
  <2> HIDE DEF Goal
  <2> Goal
    BY <1>2, <2>1, <2>2, <2>3, <2>4, <2>5, <2>6
  <2> QED
    BY DEF Goal
<1>3. CASE UNCHANGED vars
  BY <1>3 DEF vars, treeVars, slotVars, accountVars, orderVars, keyVars, Inv, Types, DoneNoncesUsed,
              RevokedAreRegistered, OnlyOwnedHoldKeys, HoldsNoKeys, IsRegistered
<1> QED
  BY <1>1, <1>2, <1>3 DEF Next

(* The inductive invariant holds in every state (code: _verifyOwnerSig and *)
(* the nonce, AlreadyRegistered, ApprovalOnlyAccount).                     *)
THEOREM AuthInvariant == Spec => []Inv
<1>1. Init => Inv
  BY InitInv
<1>2. Inv /\ [Next]_vars => Inv'
  BY StepInv
<1> QED
  BY <1>1, <1>2, PTL DEF Spec

(* An account made for approvals never gets a key (code:                   *)
(* _registerAccount, _rotate, createAccount).                              *)
THEOREM ApprovalOnlyAccounts == Spec => []ApprovalOnlyHoldsNoKeys
<1>1. Inv => ApprovalOnlyHoldsNoKeys
  BY DEF Inv, Types, OnlyOwnedHoldKeys, HoldsNoKeys, ApprovalOnlyHoldsNoKeys
<1> QED
  BY <1>1, AuthInvariant, PTL

(* No order is carried out twice, however often it is handed in (code: the *)
(* nonces in register, rotate and revoke).                                 *)
THEOREM NoReplay == Spec => OrdersTakeEffectOnce
<1>1. Inv /\ [Next]_vars =>
        [(keyInfo' # keyInfo \/ (root' # root /\ approvalInfo' = approvalInfo)) => done' # done]_vars
  BY StepInv
<1> QED
  BY <1>1, AuthInvariant, PTL DEF Spec, OrdersTakeEffectOnce

(* What the steps do to an entry that is revoked.                          *)
LEMMA RevokedStep ==
    ASSUME Inv, [Next]_vars, NEW account \in Account, NEW key \in Key, keyInfo[account][key].revoked
    PROVE  keyInfo'[account][key] = keyInfo[account][key]
<1>1. keyInfo[account][key].listIndex # 0
  BY DEF Inv, RevokedAreRegistered
<1>2. ASSUME NEW a \in Account, NEW k \in Key, NEW expiry \in Expiries, NEW n \in 0..MaxNonce,
             Register(a, k, expiry, n)
      PROVE  keyInfo'[account][key] = keyInfo[account][key]
  <2>1. <<a, k>> # <<account, key>>
    BY <1>1, <1>2 DEF Register, MayRegister, IsRegistered
  <2> QED
    BY <1>2, <2>1 DEF Register, Inv, Types
<1>3. ASSUME NEW a \in Account, NEW k \in Key, NEW expiry \in Expiries, NEW n \in 0..MaxNonce, NEW new \in Key,
             Rotate(a, k, new, expiry, n)
      PROVE  keyInfo'[account][key] = keyInfo[account][key]
  <2>1. <<a, k>> # <<account, key>>
    BY <1>3 DEF Rotate, IsLive
  <2>2. CASE UNCHANGED keyVars
    BY <2>2 DEF keyVars
  <2>3. CASE ~UNCHANGED keyVars
    <3> DEFINE left == [keyInfo EXCEPT ![a][k] = NotRegistered]
    <3>1. <<a, new>> # <<account, key>> /\ keyInfo' = [left EXCEPT ![a][new] = keyInfo[a][k]]
      BY <1>1, <1>3, <2>3 DEF Rotate, Replaced, IsRegistered
    <3>2. left[account][key] = keyInfo[account][key] /\ left \in [Account -> [Key -> {left[x][y] : x \in Account, y \in Key}]]
      BY <2>1 DEF Inv, Types
    <3> QED
      BY <3>1, <3>2
  <2> QED
    BY <2>2, <2>3
<1>4. ASSUME NEW a \in Account, NEW k \in Key, NEW expiry \in Expiries, NEW n \in 0..MaxNonce,
             Revoke(a, k, expiry, n)
      PROVE  keyInfo'[account][key] = keyInfo[account][key]
  <2>1. <<a, k>> # <<account, key>>
    BY <1>4 DEF Revoke, IsLive
  <2> QED
    BY <1>4, <2>1 DEF Revoke, Inv, Types
<1>5. ASSUME UNCHANGED keyInfo PROVE keyInfo'[account][key] = keyInfo[account][key]
  BY <1>5
<1>6. ASSUME NEW a \in Account,
             \/ CreateAccount(a)
             \/ \E batch \in Batch :
                    \/ \E expiry \in Expiries : ApproveSpendBatch(a, batch, expiry)
                    \/ RevokeSpendApprovalBatch(a, batch)
      PROVE  UNCHANGED keyInfo
  BY <1>6 DEF CreateAccount, ApproveSpendBatch, RevokeSpendApprovalBatch, keyVars
<1>7. CASE NextBlock
  BY <1>7 DEF NextBlock, keyVars
<1>8. CASE UNCHANGED vars
  BY <1>8 DEF vars, keyVars
<1> QED
  BY <1>2, <1>3, <1>4, <1>6, <1>7, <1>8 DEF Next

(* A revoked key stays revoked (code: AuthKeyAlreadyRevoked and            *)
(* AlreadyRegistered).                                                     *)
THEOREM RevocationIsFinal == Spec => RevokedForever
<1>1. Inv /\ [Next]_vars =>
        [\A account \in Account, key \in Key :
            keyInfo[account][key].revoked => keyInfo'[account][key] = keyInfo[account][key]]_vars
  BY RevokedStep
<1> QED
  BY <1>1, AuthInvariant, PTL DEF Spec, RevokedForever

-----------------------------------------------------------------------------
(* The trees and who holds their leaves.                                   *)

Indices == 0..(Leaves - 1)

(* The nodes of a level.                                                   *)
Nodes(level) == 0..(Width[Depth - level] - 1)

(* The leaves under a node, and what is stored for it.                     *)
Under(tree, level, i) == [j \in 1..Width[level] |-> LeafAt(tree, i * Width[level] + (j - 1))]
Stored(tree, level, i) == IF nodes[tree][level][i] = NoNode THEN Zeros(level) ELSE nodes[tree][level][i]

NodesTyped ==
    /\ nodes = [tree \in Trees |-> [level \in 0..Depth |-> [i \in Nodes(level) |-> nodes[tree][level][i]]]]
    /\ root = [tree \in Trees |-> root[tree]]

(* What is stored for a node are the leaves under it.                      *)
NodesCommit ==
    \A tree \in Trees, level \in 0..Depth : \A i \in Nodes(level) :
        Stored(tree, level, i) = Under(tree, level, i)

RootsCommit ==
    \A tree \in Trees :
        root[tree] = IF tree <= currentAuthTreeNumber THEN Under(tree, Depth, 0) ELSE NoNode

(* What is left of a tree is empty.                                        *)
FreeSlots ==
    \A tree \in Trees :
        /\ leafCount[tree] \in 0..Leaves
        /\ tree > currentAuthTreeNumber => leafCount[tree] = 0
        /\ \A i \in Indices : i >= leafCount[tree] => LeafAt(tree, i) = NoLeaf

TreesInv == NodesTyped /\ NodesCommit /\ RootsCommit /\ FreeSlots

LeafValues ==
    {NoLeaf}
    \cup {KeyLeaf(account, key, expiry) : account \in Account, key \in Key, expiry \in Expiries}
    \cup {ApprovalLeaf(account, batch, expiry) : account \in Account, batch \in Batch, expiry \in Expiries}

Names(leaf, kind, account, id) ==
    leaf # NoLeaf /\ leaf.kind = kind /\ leaf.account = account /\ leaf.id = id

KeyAt(account, key, tree, i) ==
    IsLive(account, key) /\ keyInfo[account][key].tree = tree /\ keyInfo[account][key].index = i

IsApproved(account, batch) == approvalInfo[account][batch].exists /\ ~approvalInfo[account][batch].revoked

ApprovalAt(account, batch, tree, i) ==
    /\ IsApproved(account, batch)
    /\ approvalInfo[account][batch].tree = tree
    /\ approvalInfo[account][batch].index = i

(* A leaf names exactly the holders whose place it is.                     *)
LeavesHeld ==
    \A tree \in Trees, i \in Indices :
        /\ LeafAt(tree, i) \in LeafValues
        /\ \A account \in Account, key \in Key :
            KeyAt(account, key, tree, i) <=> Names(LeafAt(tree, i), "key", account, key)
        /\ \A account \in Account, batch \in Batch :
            ApprovalAt(account, batch, tree, i) <=> Names(LeafAt(tree, i), "approval", account, batch)

IsGivenOut(info) == info.tree \in Trees /\ info.index \in 0..(leafCount[info.tree] - 1)

(* A holder's place was given out.                                         *)
HoldersPlaced ==
    \A account \in Account :
        /\ \A key \in Key : IsLive(account, key) => IsGivenOut(keyInfo[account][key])
        /\ \A batch \in Batch : IsApproved(account, batch) => IsGivenOut(approvalInfo[account][batch])

LeavesInv == TreesInv /\ LeavesHeld /\ HoldersPlaced

(* A root that is remembered is the present one, or was superseded when it *)
(* was last seen.                                                          *)
RootsRemembered ==
    \A tree \in Trees :
        IF tree <= currentAuthTreeNumber
        THEN /\ root[tree] \in DOMAIN lastSeen[tree]
             /\ \A r \in DOMAIN lastSeen[tree] :
                    /\ r # NoNode
                    /\ r # root[tree] => r \in DOMAIN anchors[tree] /\ anchors[tree][r] = lastSeen[tree][r]
        ELSE DOMAIN lastSeen[tree] = {}

RootsTyped ==
    /\ anchors = [tree \in Trees |-> anchors[tree]]
    /\ lastSeen = [tree \in Trees |-> lastSeen[tree]]

RootsInv == RootsTyped /\ RootsRemembered

-----------------------------------------------------------------------------
(* The shape of a tree.                                                    *)

(* The widths double from a level to the next.                             *)
LEMMA WidthDoubles ==
    /\ Width[0] = 1
    /\ \A level \in 1..Depth : Width[level] = 2 * Width[level - 1]
<1> DEFINE Doubling(w, n) == w = [level \in 0..n |-> IF level = 0 THEN 1 ELSE 2 * w[level - 1]]
           Good == {n \in Nat : \E w : Doubling(w, n)}
<1>1. 0 \in Good
  <2>1. Doubling([level \in 0..0 |-> 1], 0)
    OBVIOUS
  <2> QED
    BY <2>1
<1>2. ASSUME NEW n \in Nat, n \in Good PROVE n + 1 \in Good
  <2>1. PICK w : Doubling(w, n)
    BY <1>2
  <2> DEFINE wider == [level \in 0..(n + 1) |-> IF level = n + 1 THEN 2 * w[n] ELSE w[level]]
  <2>2. ASSUME NEW level \in 0..(n + 1)
        PROVE  wider[level] = IF level = 0 THEN 1 ELSE 2 * wider[level - 1]
    <3>1. CASE level = n + 1
      <4>1. level # 0 /\ level - 1 = n /\ n \in 0..(n + 1) /\ n # n + 1
        BY <3>1
      <4> QED
        BY <3>1, <4>1
    <3>2. CASE level # n + 1
      <4>1. level \in 0..n
        BY <3>2
      <4>2. w[level] = IF level = 0 THEN 1 ELSE 2 * w[level - 1]
        BY <2>1, <4>1
      <4>3. CASE level = 0
        BY <3>2, <4>2, <4>3
      <4>4. CASE level # 0
        <5>1. level - 1 \in 0..(n + 1) /\ level - 1 # n + 1
          BY <4>1, <4>4
        <5> QED
          BY <3>2, <4>2, <4>4, <5>1
      <4> QED
        BY <4>3, <4>4
    <3> QED
      BY <3>1, <3>2
  <2> HIDE DEF wider
  <2>3. Doubling(wider, n + 1)
    <3>1. wider = [level \in 0..(n + 1) |-> wider[level]]
      BY DEF wider
    <3> QED
      BY <2>2, <3>1
  <2> HIDE DEF Doubling
  <2> QED
    BY <2>3
<1> HIDE DEF Good
<1>3. Depth \in Good
  BY <1>1, <1>2, NatSetInduction, TreesAssumption
<1>4. \E w : Doubling(w, Depth)
  BY <1>3 DEF Good
<1>5. Width = CHOOSE w : Doubling(w, Depth)
  BY DEF Width
<1> HIDE DEF Doubling
<1>6. Doubling(Width, Depth)
  BY <1>4, <1>5
<1>7. Width = [level \in 0..Depth |-> IF level = 0 THEN 1 ELSE 2 * Width[level - 1]]
  BY <1>6 DEF Doubling
<1> HIDE DEF Width
<1>8. ASSUME NEW level \in 0..Depth
      PROVE  Width[level] = IF level = 0 THEN 1 ELSE 2 * Width[level - 1]
  BY <1>7
<1> QED
  BY <1>8, TreesAssumption

(* A node of a level is over at least one leaf, and the nodes of a level   *)
(* are over all of them.                                                   *)
LEMMA WidthsFill ==
    \A level \in 0..Depth :
        /\ Width[level] \in Nat \ {0}
        /\ Width[level] * Width[Depth - level] = Leaves
<1> DEFINE Positive == {n \in Nat : n <= Depth => Width[n] \in Nat \ {0}}
           Filled == {n \in Nat : n <= Depth => Width[n] * Width[Depth - n] = Leaves}
<1>1. 0 \in Positive
  BY WidthDoubles
<1>2. ASSUME NEW n \in Nat, n \in Positive PROVE n + 1 \in Positive
  <2> SUFFICES ASSUME n + 1 <= Depth PROVE Width[n + 1] \in Nat \ {0}
    OBVIOUS
  <2>1. n + 1 \in 1..Depth /\ (n + 1) - 1 = n /\ n <= Depth
    BY TreesAssumption
  <2>2. Width[n + 1] = 2 * Width[n]
    BY <2>1, WidthDoubles
  <2>3. Width[n] \in Nat \ {0}
    BY <1>2, <2>1
  <2> QED
    BY <2>2, <2>3
<1> HIDE DEF Positive
<1>3. \A n \in Nat : n \in Positive
  BY <1>1, <1>2, NatSetInduction
<1>4. \A n \in 0..Depth : Width[n] \in Nat \ {0}
  BY <1>3, TreesAssumption DEF Positive
<1>5. 0 \in Filled
  BY <1>4, WidthDoubles, TreesAssumption DEF Leaves
<1>6. ASSUME NEW n \in Nat, n \in Filled PROVE n + 1 \in Filled
  <2> SUFFICES ASSUME n + 1 <= Depth PROVE Width[n + 1] * Width[Depth - (n + 1)] = Leaves
    OBVIOUS
  <2>1. /\ n + 1 \in 1..Depth /\ (n + 1) - 1 = n /\ n <= Depth
        /\ Depth - n \in 1..Depth /\ (Depth - n) - 1 = Depth - (n + 1) /\ Depth - (n + 1) \in 0..Depth
        /\ n \in 0..Depth
    BY TreesAssumption
  <2>2. Width[n + 1] = 2 * Width[n] /\ Width[Depth - n] = 2 * Width[Depth - (n + 1)]
    BY <2>1, WidthDoubles
  <2>3. Width[n] * Width[Depth - n] = Leaves
    BY <1>6, <2>1
  <2>4. Width[n] \in Nat /\ Width[Depth - (n + 1)] \in Nat
    BY <1>4, <2>1
  <2>5. \A a, b \in Nat : (2 * a) * b = a * (2 * b)
    OBVIOUS
  <2> QED
    BY <2>2, <2>3, <2>4, <2>5
<1> HIDE DEF Filled
<1>7. \A n \in Nat : n \in Filled
  BY <1>5, <1>6, NatSetInduction
<1>8. \A n \in 0..Depth : Width[n] * Width[Depth - n] = Leaves
  BY <1>7, TreesAssumption DEF Filled
<1> QED
  BY <1>4, <1>8

(* The node of a level over a leaf, its sibling, and the node over both.   *)
LEMMA NodesOnPath ==
    ASSUME NEW level \in 0..Depth, NEW index \in Indices
    PROVE  /\ index \div Width[level] \in Nodes(level)
           /\ \A i \in Nodes(level), j \in 1..Width[level] :
                /\ i * Width[level] + (j - 1) \in Indices
                /\ i * Width[level] + (j - 1) = index => i = index \div Width[level]
<1> DEFINE w == Width[level]
           m == Width[Depth - level]
<1>1. w \in Nat \ {0} /\ m \in Nat \ {0} /\ w * m = Leaves
  BY WidthsFill, TreesAssumption
<1>2. index \in Nat /\ index < Leaves
  BY <1>1 DEF Indices
<1> HIDE DEF w, m
<1>3. index \div w \in Nat /\ (index \div w) * w <= index /\ index < (index \div w) * w + w
  BY <1>1, <1>2
<1>4. index \div w < m
  <2> DEFINE d == index \div w
  <2>1. d \in Nat /\ d * w < w * m
    BY <1>1, <1>2, <1>3
  <2> HIDE DEF d
  <2>2. \A x, y, z \in Nat : x * y < y * z => x < z
    <3> SUFFICES ASSUME NEW x \in Nat, NEW y \in Nat, NEW z \in Nat, x * y < y * z, x >= z
                 PROVE  FALSE
      OBVIOUS
    <3>1. x * y >= z * y
      OBVIOUS
    <3> QED
      BY <3>1
  <2> QED
    BY <1>1, <2>1, <2>2 DEF d
<1>5. ASSUME NEW i \in 0..(m - 1), NEW j \in 1..w
      PROVE  /\ i * w + (j - 1) \in 0..(w * m - 1)
             /\ i * w + (j - 1) = index => i = index \div w
  <2>1. i \in Nat /\ i * w \in Nat /\ i + 1 <= m /\ j - 1 >= 0 /\ j - 1 < w
    BY <1>1
  <2>2. (i + 1) * w <= m * w
    BY <1>1, <2>1
  <2>3. i * w + (j - 1) < w * m
    BY <1>1, <2>1, <2>2
  <2>4. i * w + (j - 1) = index => i = index \div w
    BY <1>1, <1>2, <2>1
  <2> QED
    BY <1>1, <2>1, <2>3, <2>4
<1> QED
  BY <1>1, <1>3, <1>4, <1>5 DEF w, m, Nodes, Indices

Join(a, b, w) == [j \in 1..(2 * w) |-> IF j <= w THEN a[j] ELSE b[j - w]]

(* Two nodes side by side are over the leaves of the node above.           *)
LEMMA Joined ==
    ASSUME NEW S, NEW w \in Nat \ {0}, NEW a \in [1..w -> S], NEW b \in [1..w -> S]
    PROVE  a \o b = Join(a, b, w)
<1>1. a \in Seq(S) /\ b \in Seq(S) /\ Len(a) = w /\ Len(b) = w
  OBVIOUS
<1>2. a \o b \in Seq(S) /\ Len(a \o b) = 2 * w
  BY SMTT(30), <1>1, ConcatProperties
<1>3. a \o b = [j \in 1..(2 * w) |-> (a \o b)[j]]
  <2> DEFINE c == a \o b
  <2> HIDE DEF c
  <2>1. c \in Seq(S) /\ Len(c) = 2 * w
    BY <1>2 DEF c
  <2>2. c = [j \in 1..(2 * w) |-> c[j]]
    BY <2>1, LenProperties
  <2> QED
    BY <2>2 DEF c
<1>4. \A j \in 1..(2 * w) : (a \o b)[j] = IF j <= w THEN a[j] ELSE b[j - w]
  BY <1>1, ConcatProperties
<1> QED
  BY <1>3, <1>4 DEF Join

-----------------------------------------------------------------------------
(* A path through the stored nodes.                                        *)

(* There is nothing in a tree after an index.                              *)
EmptyAfter(tree, index) == \A i \in Indices : i > index => LeafAt(tree, i) = NoLeaf

(* One leaf is written and no other changes.                               *)
Written(tree, index, leaf) ==
    \A t \in Trees, i \in Indices :
        LeafAt(t, i)' = IF t = tree /\ i = index THEN leaf ELSE LeafAt(t, i)

(* The leaves of a tree after one of them is written, and those under the  *)
(* node of a level on its path.                                            *)
After(tree, index, leaf, i) == IF i = index THEN leaf ELSE LeafAt(tree, i)

Rewritten(tree, index, leaf, level) ==
    [j \in 1..Width[level] |-> After(tree, index, leaf, (index \div Width[level]) * Width[level] + (j - 1))]

(* The sibling of a node on the path stands for the leaves under it, also  *)
(* where an append takes it for empty without looking.                     *)
LEMMA SiblingIsUnder ==
    ASSUME NodesCommit, NEW tree \in Trees, NEW index \in Indices, NEW appendOnly \in BOOLEAN,
           appendOnly => EmptyAfter(tree, index),
           NEW level \in 1..Depth, NEW child, child = index \div Width[level - 1],
           NEW other, other = IF child % 2 = 0 THEN child + 1 ELSE child - 1
    PROVE  /\ other \in Nodes(level - 1)
           /\ Sibling(tree, level - 1, child, appendOnly) = Under(tree, level - 1, other)
<1> DEFINE w == Width[level - 1]
<1>1. level - 1 \in 0..Depth /\ Depth - (level - 1) \in 1..Depth /\ Depth - (level - 1) - 1 \in 0..Depth
  BY TreesAssumption
<1>2. w \in Nat \ {0}
  BY <1>1, WidthsFill
<1>3. child \in Nodes(level - 1) /\ index \in Nat
  BY <1>1, NodesOnPath DEF Indices
<1>4. /\ Width[Depth - (level - 1)] = 2 * Width[Depth - (level - 1) - 1]
      /\ Width[Depth - (level - 1) - 1] \in Nat
  BY <1>1, WidthDoubles, WidthsFill
<1>5. other \in Nodes(level - 1) /\ child \in Nat
  <2> DEFINE m == Width[Depth - (level - 1) - 1]
             all == Width[Depth - (level - 1)]
  <2>1. m \in Nat /\ all = 2 * m /\ child \in 0..(all - 1)
    BY <1>3, <1>4 DEF Nodes
  <2> HIDE DEF m, all
  <2>2. other \in 0..(all - 1) /\ child \in Nat
    BY <2>1
  <2> QED
    BY <2>2 DEF all, Nodes
<1>6. Stored(tree, level - 1, other) = Under(tree, level - 1, other)
  BY <1>1, <1>5 DEF NodesCommit
<1>7. CASE appendOnly /\ child % 2 = 0
  <2>1. Sibling(tree, level - 1, child, appendOnly) = Zeros(level - 1)
    BY <1>7 DEF Sibling
  <2>2. ASSUME NEW j \in 1..w PROVE LeafAt(tree, other * w + (j - 1)) = NoLeaf
    <3>1. other * w + (j - 1) \in Indices
      BY <1>1, <1>5, NodesOnPath
    <3>2. other = child + 1 /\ index < child * w + w
      <4>1. \A x \in Nat, y \in Nat \ {0} : x < (x \div y) * y + y
        OBVIOUS
      <4> QED
        BY <1>2, <1>3, <1>7, <4>1
    <3>3. (child + 1) * w = child * w + w /\ child * w \in Nat
      BY <1>2, <1>5
    <3>4. other * w + (j - 1) > index
      BY <1>2, <1>3, <3>2, <3>3
    <3> QED
      BY <1>7, <3>1, <3>4 DEF EmptyAfter
  <2>3. Under(tree, level - 1, other) = Zeros(level - 1)
    BY <2>2 DEF Under, Zeros
  <2> QED
    BY <1>5, <2>1, <2>3
<1>8. CASE ~(appendOnly /\ child % 2 = 0)
  <2>1. Sibling(tree, level - 1, child, appendOnly) = Stored(tree, level - 1, other)
    BY <1>8 DEF Sibling, Stored
  <2> QED
    BY <1>5, <1>6, <2>1
<1> QED
  BY <1>7, <1>8

(* The nodes on the path of a leaf are rewritten level by level so that    *)
(* each is over the leaves that there are when the leaf is written.        *)
LEMMA PathJoins ==
    ASSUME NodesCommit, NEW tree \in Trees, NEW index \in Indices, NEW leaf, NEW appendOnly \in BOOLEAN,
           appendOnly => EmptyAfter(tree, index),
           NEW level \in 1..Depth, NEW child, child = index \div Width[level - 1]
    PROVE  Rewritten(tree, index, leaf, level) =
              IF child % 2 = 0
              THEN Rewritten(tree, index, leaf, level - 1) \o Sibling(tree, level - 1, child, appendOnly)
              ELSE Sibling(tree, level - 1, child, appendOnly) \o Rewritten(tree, index, leaf, level - 1)
<1> DEFINE w == Width[level - 1]
           other == IF child % 2 = 0 THEN child + 1 ELSE child - 1
           at(i) == After(tree, index, leaf, i)
           V == {at(i) : i \in Int}
           a == [j \in 1..w |-> at(child * w + (j - 1))]
           b == [j \in 1..w |-> at(other * w + (j - 1))]
<1>1. level - 1 \in 0..Depth /\ w \in Nat \ {0} /\ Width[level] = 2 * w /\ level \in 0..Depth
  BY WidthDoubles, WidthsFill, TreesAssumption
<1>2. child \in Nat /\ index \in Nat /\ other \in Nodes(level - 1)
  <2>1. child \in Nat /\ index \in Nat
    BY <1>1, NodesOnPath DEF Indices, Nodes
  <2>2. other \in Nodes(level - 1)
    BY SiblingIsUnder
  <2> QED
    BY <2>1, <2>2
<1>3. Rewritten(tree, index, leaf, level - 1) = a
  BY DEF Rewritten
<1>4. Sibling(tree, level - 1, child, appendOnly) = b
  <2>1. ASSUME NEW j \in 1..w PROVE LeafAt(tree, other * w + (j - 1)) = at(other * w + (j - 1))
    <3>1. other # child
      BY <1>2
    <3>2. other * w + (j - 1) # index
      BY <1>1, <1>2, <3>1, NodesOnPath
    <3> QED
      BY <3>2 DEF After
  <2>2. Sibling(tree, level - 1, child, appendOnly) = Under(tree, level - 1, other)
    BY SiblingIsUnder
  <2> QED
    BY <2>1, <2>2 DEF Under
<1>5. Rewritten(tree, index, leaf, level) = [j \in 1..(2 * w) |-> at((index \div (2 * w)) * (2 * w) + (j - 1))]
  BY <1>1 DEF Rewritten
<1>6. a \in [1..w -> V] /\ b \in [1..w -> V]
  <2>1. \A j \in 1..w : child * w + (j - 1) \in Int /\ other * w + (j - 1) \in Int
    BY <1>1, <1>2
  <2> QED
    BY <2>1
<1>7. index \div (2 * w) = child \div 2 /\ child \div 2 \in Nat
  BY <1>1, <1>2
<1>8. CASE child % 2 = 0
  <2>1. a \o b = Join(a, b, w)
    <3> HIDE DEF a, b, V, w
    <3> QED
      BY <1>1, <1>6, Joined
  <2>2. ASSUME NEW j \in 1..(2 * w)
        PROVE  at((index \div (2 * w)) * (2 * w) + (j - 1)) = IF j <= w THEN a[j] ELSE b[j - w]
    <3>1. (child \div 2) * (2 * w) = child * w
      <4>1. child = 2 * (child \div 2)
        BY <1>2, <1>8
      <4>2. \A x, y \in Nat : x * (2 * y) = (2 * x) * y
        OBVIOUS
      <4> QED
        BY <1>1, <1>7, <4>1, <4>2
    <3>2. CASE j <= w
      BY <1>1, <1>7, <2>2, <3>1, <3>2
    <3>3. CASE ~(j <= w)
      <4>1. other = child + 1 /\ (child + 1) * w = child * w + w /\ child * w \in Nat
        BY <1>1, <1>2, <1>8
      <4>2. j - w \in 1..w /\ other * w + ((j - w) - 1) = child * w + (j - 1)
        BY <1>1, <2>2, <3>3, <4>1
      <4> QED
        BY <1>7, <3>1, <3>3, <4>2
    <3> QED
      BY <3>2, <3>3
  <2> HIDE DEF a, b, at
  <2> QED
    BY <1>3, <1>4, <1>5, <1>8, <2>1, <2>2 DEF Join
<1>9. CASE child % 2 # 0
  <2>1. b \o a = Join(b, a, w)
    <3> HIDE DEF a, b, V, w
    <3> QED
      BY <1>1, <1>6, Joined
  <2>2. ASSUME NEW j \in 1..(2 * w)
        PROVE  at((index \div (2 * w)) * (2 * w) + (j - 1)) = IF j <= w THEN b[j] ELSE a[j - w]
    <3>1. other = child - 1 /\ other \in Nat /\ other = 2 * (child \div 2)
      BY <1>2, <1>9
    <3>2. (child \div 2) * (2 * w) = other * w
      <4>2. \A x, y \in Nat : x * (2 * y) = (2 * x) * y
        OBVIOUS
      <4> QED
        BY <1>1, <1>7, <3>1, <4>2
    <3>3. CASE j <= w
      BY <1>1, <1>7, <2>2, <3>2, <3>3
    <3>4. CASE ~(j <= w)
      <4>1. child = other + 1 /\ (other + 1) * w = other * w + w /\ other * w \in Nat
        BY <1>1, <1>2, <3>1
      <4>2. j - w \in 1..w /\ child * w + ((j - w) - 1) = other * w + (j - 1)
        BY <1>1, <2>2, <3>4, <4>1
      <4> QED
        BY <1>7, <3>2, <3>4, <4>2
    <3> QED
      BY <3>3, <3>4
  <2> HIDE DEF a, b, at
  <2> QED
    BY <1>3, <1>4, <1>5, <1>9, <2>1, <2>2 DEF Join
<1> QED
  BY <1>8, <1>9

(* So the path of a leaf is over the leaves after it is written.           *)
LEMMA PathIsRewritten ==
    ASSUME NodesCommit, NEW tree \in Trees, NEW index \in Indices, NEW leaf, NEW appendOnly \in BOOLEAN,
           appendOnly => EmptyAfter(tree, index)
    PROVE  \A level \in 0..Depth :
              AuthPath(tree, index, leaf, appendOnly)[level] = Rewritten(tree, index, leaf, level)
<1> DEFINE IsPath(p) ==
              p = [level \in 0..Depth |->
                    IF level = 0
                    THEN <<leaf>>
                    ELSE LET child == index \div Width[level - 1]
                             sibling == Sibling(tree, level - 1, child, appendOnly)
                         IN  IF child % 2 = 0
                             THEN p[level - 1] \o sibling
                             ELSE sibling \o p[level - 1]]
           next(level, below) ==
              LET child == index \div Width[level - 1]
                  sibling == Sibling(tree, level - 1, child, appendOnly)
              IN  IF child % 2 = 0 THEN below \o sibling ELSE sibling \o below
           path == AuthPath(tree, index, leaf, appendOnly)
           now(level) == Rewritten(tree, index, leaf, level)
           q == [level \in 0..Depth |-> now(level)]
<1>1. path = CHOOSE p : IsPath(p)
  BY DEF AuthPath
<1>2. now(0) = <<leaf>>
  <2>1. Width[0] = 1 /\ index \in Int /\ index \div 1 = index
    BY WidthDoubles DEF Indices
  <2>2. now(0) = [j \in 1..1 |-> After(tree, index, leaf, index * 1 + (j - 1))]
    BY <2>1 DEF Rewritten
  <2>3. \A j \in 1..1 : After(tree, index, leaf, index * 1 + (j - 1)) = leaf
    BY <2>1 DEF After
  <2>4. now(0) = [j \in 1..1 |-> leaf]
    BY <2>2, <2>3
  <2> QED
    BY <2>4
<1>3. ASSUME NEW level \in 1..Depth PROVE now(level) = next(level, now(level - 1))
  BY ZenonT(30), PathJoins
<1>4. IsPath(q)
  <2>1. ASSUME NEW level \in 0..Depth
        PROVE  q[level] = IF level = 0 THEN <<leaf>> ELSE next(level, q[level - 1])
    <3>1. CASE level = 0
      BY <1>2, <3>1
    <3>2. CASE level # 0
      <4>1. level \in 1..Depth /\ level - 1 \in 0..Depth
        BY <3>2, TreesAssumption
      <4>2. q[level] = now(level) /\ q[level - 1] = now(level - 1)
        BY <4>1
      <4> HIDE DEF q, now, next
      <4> QED
        BY <1>3, <3>2, <4>1, <4>2
    <3> QED
      BY <3>1, <3>2
  <2>2. q = [level \in 0..Depth |-> q[level]]
    OBVIOUS
  <2> HIDE DEF q
  <2> QED
    BY <2>1, <2>2
<1> HIDE DEF path, q, now
<1>5. IsPath(path)
  <2> HIDE DEF IsPath
  <2> QED
    BY <1>1, <1>4
<1>6. ASSUME NEW level \in 0..Depth
      PROVE  path[level] = IF level = 0 THEN <<leaf>> ELSE next(level, path[level - 1])
  BY <1>5
<1> HIDE DEF IsPath, next
<1> DEFINE Good == {n \in Nat : n <= Depth => path[n] = now(n)}
<1>7. 0 \in Good
  BY <1>2, <1>6, TreesAssumption
<1>8. ASSUME NEW n \in Nat, n \in Good PROVE n + 1 \in Good
  <2> SUFFICES ASSUME n + 1 <= Depth PROVE path[n + 1] = now(n + 1)
    OBVIOUS
  <2>1. n + 1 \in 1..Depth /\ n + 1 \in 0..Depth /\ n + 1 # 0 /\ (n + 1) - 1 = n /\ n <= Depth
    BY TreesAssumption
  <2>2. path[n + 1] = next(n + 1, path[n])
    BY <1>6, <2>1
  <2>3. path[n] = now(n)
    BY <1>8, <2>1
  <2>4. now(n + 1) = next(n + 1, now(n))
    BY <1>3, <2>1
  <2> QED
    BY <2>2, <2>3, <2>4
<1> HIDE DEF Good
<1>9. \A n \in Nat : n \in Good
  BY <1>7, <1>8, NatSetInduction
<1> QED
  BY <1>9, TreesAssumption DEF Good, path, now

(* Writing a leaf leaves every other leaf as it is, and the stored nodes   *)
(* over the leaves below them.                                             *)
LEMMA WriteCommits ==
    ASSUME NodesTyped, NodesCommit, NEW tree \in Trees, NEW index \in Indices, NEW leaf,
           NEW appendOnly \in BOOLEAN,
           appendOnly => EmptyAfter(tree, index),
           UpdateLeaf(tree, index, leaf, appendOnly)
    PROVE  /\ NodesTyped' /\ NodesCommit'
           /\ Written(tree, index, leaf)
           /\ root' = [root EXCEPT ![tree] = Under(tree, Depth, 0)']
           /\ \A t \in Trees \ {tree} : Under(t, Depth, 0)' = Under(t, Depth, 0)
<1> DEFINE path == AuthPath(tree, index, leaf, appendOnly)
           on(level) == index \div Width[level]
           nodesAfter == [level \in 0..Depth |-> [nodes[tree][level] EXCEPT ![on(level)] = path[level]]]
<1>1. \A level \in 0..Depth : path[level] = Rewritten(tree, index, leaf, level)
  BY PathIsRewritten
<1>2. /\ nodes' = [nodes EXCEPT ![tree] = nodesAfter]
      /\ root' = [root EXCEPT ![tree] = path[Depth]]
  BY DEF UpdateLeaf
<1> HIDE DEF path
<1>3. /\ \A level \in 0..Depth : on(level) \in Nodes(level)
      /\ 0 \in 0..Depth /\ Depth \in 0..Depth /\ Width[0] = 1 /\ on(0) = index /\ index \in Nat
  BY NodesOnPath, WidthDoubles, TreesAssumption DEF Indices
<1>4. ASSUME NEW t \in Trees, NEW level \in 0..Depth, NEW i \in Nodes(level)
      PROVE  nodes'[t][level][i] = IF t = tree /\ i = on(level) THEN path[level] ELSE nodes[t][level][i]
  <2> HIDE DEF on
  <2>1. nodes = [x \in Trees |-> [y \in 0..Depth |-> [z \in Nodes(y) |-> nodes[x][y][z]]]]
    BY DEF NodesTyped
  <2>2. CASE t # tree
    BY <1>2, <2>1, <2>2
  <2>3. CASE t = tree
    <3>1. nodes'[tree] = nodesAfter
      BY <1>2, <2>1
    <3>2. nodes'[tree][level] = [nodes[tree][level] EXCEPT ![on(level)] = path[level]]
      BY <3>1
    <3>3. nodes[tree][level] = [z \in Nodes(level) |-> nodes[tree][level][z]]
      BY <2>1
    <3> QED
      BY <2>3, <3>2, <3>3
  <2> QED
    BY <2>2, <2>3
<1>5. NodesTyped'
  <2> HIDE DEF on
  <2>1. nodes = [x \in Trees |-> [y \in 0..Depth |-> [z \in Nodes(y) |-> nodes[x][y][z]]]]
    BY DEF NodesTyped
  <2>2. nodes' = [x \in Trees |-> [y \in 0..Depth |-> [z \in Nodes(y) |-> nodes'[x][y][z]]]]
    <3>1. nodes' = [x \in Trees |-> nodes'[x]]
      BY <1>2, <2>1
    <3>2. ASSUME NEW x \in Trees
          PROVE  nodes'[x] = [y \in 0..Depth |-> [z \in Nodes(y) |-> nodes'[x][y][z]]]
      <4>1. CASE x # tree
        <5>1. nodes'[x] = nodes[x]
          BY <1>2, <2>1, <4>1
        <5>2. nodes[x] = [y \in 0..Depth |-> [z \in Nodes(y) |-> nodes[x][y][z]]]
          BY <2>1
        <5> QED
          BY <5>1, <5>2
      <4>2. CASE x = tree
        <5>1. nodes'[tree] = nodesAfter
          BY <1>2, <2>1
        <5>2. nodes'[tree] = [y \in 0..Depth |-> nodes'[tree][y]]
          BY <5>1
        <5>3. ASSUME NEW y \in 0..Depth
              PROVE  nodes'[tree][y] = [z \in Nodes(y) |-> nodes'[tree][y][z]]
          <6>1. nodes[tree][y] = [z \in Nodes(y) |-> nodes[tree][y][z]]
            BY <2>1
          <6>2. nodes'[tree][y] = [nodes[tree][y] EXCEPT ![on(y)] = path[y]]
            BY <5>1
          <6> QED
            BY <6>1, <6>2
        <5> QED
          BY <4>2, <5>2, <5>3
      <4> QED
        BY <4>1, <4>2
    <3> QED
      BY <3>1, <3>2
  <2>3. root' = [t \in Trees |-> root'[t]]
    BY <1>2 DEF NodesTyped
  <2> QED
    BY <2>2, <2>3 DEF NodesTyped
<1>6. ASSUME NEW t \in Trees, NEW i \in Indices
      PROVE  LeafAt(t, i)' = IF t = tree /\ i = index THEN leaf ELSE LeafAt(t, i)
  <2>1. i \in Nodes(0)
    BY <1>3, TreesAssumption DEF Indices, Nodes, Leaves
  <2>2. CASE t = tree /\ i = index
    <3>1. nodes'[t][0][i] = Rewritten(tree, index, leaf, 0)
      BY <1>1, <1>3, <1>4, <2>1, <2>2
    <3>2. Rewritten(tree, index, leaf, 0) = [j \in 1..1 |-> After(tree, index, leaf, index * 1 + (j - 1))]
      BY <1>3 DEF Rewritten
    <3>3. \A j \in 1..1 : After(tree, index, leaf, index * 1 + (j - 1)) = leaf
      BY <1>3 DEF After
    <3>4. nodes'[t][0][i] = [j \in 1..1 |-> leaf]
      BY <3>1, <3>2, <3>3
    <3>5. nodes'[t][0][i] = <<leaf>>
      BY <3>4
    <3> QED
      BY <2>2, <3>5 DEF LeafAt, NoNode
  <2>3. CASE ~(t = tree /\ i = index)
    BY <1>3, <1>4, <2>1, <2>3 DEF LeafAt
  <2> QED
    BY <2>2, <2>3
<1>7. ASSUME NEW t \in Trees, NEW level \in 0..Depth, NEW i \in Nodes(level)
      PROVE  /\ ~(t = tree /\ i = on(level)) => Under(t, level, i)' = Under(t, level, i)
             /\ t = tree /\ i = on(level) => Under(t, level, i)' = path[level]
  <2>1. \A j \in 1..Width[level] :
          /\ i * Width[level] + (j - 1) \in Indices
          /\ i * Width[level] + (j - 1) = index => i = on(level)
    BY NodesOnPath
  <2>2. Under(t, level, i)' = [j \in 1..Width[level] |-> LeafAt(t, i * Width[level] + (j - 1))']
    BY DEF Under
  <2>3. CASE ~(t = tree /\ i = on(level))
    <3>1. \A j \in 1..Width[level] : LeafAt(t, i * Width[level] + (j - 1))' = LeafAt(t, i * Width[level] + (j - 1))
      BY <1>6, <2>1, <2>3
    <3> QED
      BY <2>2, <2>3, <3>1 DEF Under
  <2>4. CASE t = tree /\ i = on(level)
    <3>1. \A j \in 1..Width[level] :
            LeafAt(t, i * Width[level] + (j - 1))' = After(tree, index, leaf, i * Width[level] + (j - 1))
      BY <1>6, <2>1, <2>4 DEF After
    <3>2. Under(t, level, i)' = Rewritten(tree, index, leaf, level)
      BY <2>2, <2>4, <3>1 DEF Rewritten
    <3> QED
      BY <1>1, <2>4, <3>2
  <2> QED
    BY <2>3, <2>4
<1>8. NodesCommit'
  <2> SUFFICES ASSUME NEW t \in Trees, NEW level \in 0..Depth, NEW i \in Nodes(level)
               PROVE  Stored(t, level, i)' = Under(t, level, i)'
    BY DEF NodesCommit
  <2>1. CASE ~(t = tree /\ i = on(level))
    <3>1. Stored(t, level, i)' = Stored(t, level, i)
      BY <1>4, <2>1 DEF Stored, Zeros
    <3> QED
      BY <1>7, <2>1, <3>1 DEF NodesCommit
  <2>2. CASE t = tree /\ i = on(level)
    <3>1. path[level] # NoNode
      <4>1. path[level] = Rewritten(tree, index, leaf, level) /\ Width[level] \in Nat \ {0}
        BY <1>1, WidthsFill
      <4>2. 1 \in DOMAIN path[level]
        BY <4>1 DEF Rewritten
      <4> QED
        BY <4>2 DEF NoNode
    <3>2. Stored(t, level, i)' = path[level]
      BY <1>4, <2>2, <3>1 DEF Stored
    <3> QED
      BY <1>7, <2>2, <3>2
  <2> QED
    BY <2>1, <2>2
<1>9. /\ root' = [root EXCEPT ![tree] = Under(tree, Depth, 0)']
      /\ \A t \in Trees \ {tree} : Under(t, Depth, 0)' = Under(t, Depth, 0)
  <2>1. on(Depth) \in 0..(1 - 1)
    BY <1>3, TreesAssumption DEF Nodes
  <2>2. on(Depth) = 0 /\ 0 \in Nodes(Depth)
    BY <1>3, <2>1
  <2> QED
    BY <1>2, <1>3, <1>7, <2>2
<1> QED
  BY <1>5, <1>6, <1>8, <1>9 DEF Written

-----------------------------------------------------------------------------
(* What writing a leaf does to the trees.                                  *)

(* A root is not the 0 of a tree that was not opened.                      *)
LEMMA RootsAreStored ==
    /\ Zeros(Depth) # NoNode
    /\ \A tree : Under(tree, Depth, 0) # NoNode
    /\ \A tree : (Under(tree, Depth, 0) # NoNode)'
<1>1. 1 \in 1..Width[Depth] /\ DOMAIN NoNode = {}
  BY WidthsFill, TreesAssumption DEF NoNode
<1>2. DOMAIN Zeros(Depth) = 1..Width[Depth]
  BY DEF Zeros
<1>3. \A tree : DOMAIN Under(tree, Depth, 0) = 1..Width[Depth]
  BY DEF Under
<1>4. \A tree : DOMAIN Under(tree, Depth, 0)' = 1..Width[Depth]
  BY DEF Under
<1>5. \A tree : (Under(tree, Depth, 0) # NoNode)' <=> Under(tree, Depth, 0)' # NoNode
  BY DEF NoNode
<1> QED
  BY <1>1, <1>2, <1>3, <1>4, <1>5

(* A leaf that is appended takes the first slot that is free.              *)
LEMMA AppendKeepsTrees ==
    ASSUME Types, TreesInv, AllocateLeafSlot, NEW leaf, UpdateLeaf(NextTree, NextIndex, leaf, TRUE)
    PROVE  /\ NextTree \in Trees /\ NextIndex \in Indices
           /\ LeafAt(NextTree, NextIndex) = NoLeaf
           /\ NextTree \in {currentAuthTreeNumber, currentAuthTreeNumber'}
           /\ \A t \in Trees : t <= currentAuthTreeNumber' <=> t <= currentAuthTreeNumber \/ t = NextTree
           /\ \A t \in Trees : leafCount'[t] = IF t = NextTree THEN NextIndex + 1 ELSE leafCount[t]
           /\ NextIndex >= leafCount[NextTree]
           /\ TreesInv'
           /\ Written(NextTree, NextIndex, leaf)
<1>1. /\ Leaves \in Nat \ {0}
      /\ currentAuthTreeNumber \in Nat /\ currentAuthTreeNumber \in Trees
      /\ leafCount \in [Trees -> Nat]
      /\ leafCount[currentAuthTreeNumber] \in 0..Leaves
  BY WidthsFill, TreesAssumption DEF Types, Trees, Leaves, TreesInv, FreeSlots
<1>2. /\ NextTree \in Trees /\ NextIndex \in Indices
      /\ NextIndex = leafCount[NextTree]
      /\ NextTree = currentAuthTreeNumber \/ NextTree = currentAuthTreeNumber + 1
  <2>1. CASE CurrentTreeIsFull
    <3>1. NextTree = currentAuthTreeNumber + 1 /\ NextIndex = 0 /\ NextTree <= MaxTree
      BY <2>1 DEF NextTree, NextIndex, AllocateLeafSlot
    <3>2. NextTree \in Trees /\ NextTree > currentAuthTreeNumber
      BY <1>1, <3>1, TreesAssumption DEF Trees
    <3>3. leafCount[NextTree] = 0
      BY <3>2 DEF TreesInv, FreeSlots
    <3> QED
      BY <1>1, <3>1, <3>2, <3>3 DEF Indices
  <2>2. CASE ~CurrentTreeIsFull
    BY <1>1, <2>2 DEF NextTree, NextIndex, CurrentTreeIsFull, Indices
  <2> QED
    BY <2>1, <2>2
<1>3. /\ currentAuthTreeNumber' = NextTree
      /\ leafCount' = [leafCount EXCEPT ![NextTree] = NextIndex + 1]
  BY DEF AllocateLeafSlot
<1>a. PICK tree, index : tree = NextTree /\ index = NextIndex
  OBVIOUS
<1>4. /\ tree \in Trees /\ index \in Indices /\ index = leafCount[tree]
      /\ tree = currentAuthTreeNumber \/ tree = currentAuthTreeNumber + 1
      /\ currentAuthTreeNumber' = tree
      /\ leafCount' = [leafCount EXCEPT ![tree] = index + 1]
      /\ UpdateLeaf(tree, index, leaf, TRUE)
  BY <1>2, <1>3, <1>a
<1>5. \A i \in Indices : i >= index => LeafAt(tree, i) = NoLeaf
  BY <1>4 DEF TreesInv, FreeSlots
<1>6. /\ index \in Nat /\ index < Leaves /\ tree \in Nat
      /\ \A t \in Trees : t \in Nat
  BY <1>1, <1>4 DEF Indices, Trees
<1>7. \A t \in Trees : t <= currentAuthTreeNumber' <=> t <= currentAuthTreeNumber \/ t = tree
  BY <1>1, <1>4, <1>6
<1>8. \A t \in Trees : leafCount'[t] = IF t = tree THEN index + 1 ELSE leafCount[t]
  BY <1>1, <1>4
<1>9. EmptyAfter(tree, index)
  BY <1>5, <1>6 DEF EmptyAfter, Indices
<1>10. /\ NodesTyped' /\ NodesCommit'
       /\ Written(tree, index, leaf)
       /\ root' = [root EXCEPT ![tree] = Under(tree, Depth, 0)']
       /\ \A t \in Trees \ {tree} : Under(t, Depth, 0)' = Under(t, Depth, 0)
  <2>1. PICK appendOnly \in BOOLEAN : appendOnly = TRUE
    OBVIOUS
  <2>2. UpdateLeaf(tree, index, leaf, appendOnly)
    BY <1>4, <2>1
  <2>3. NodesTyped /\ NodesCommit /\ tree \in Trees /\ index \in Indices /\ (appendOnly => EmptyAfter(tree, index))
    BY <1>4, <1>9 DEF TreesInv
  <2> QED
    BY <2>2, <2>3, WriteCommits
<1>11. RootsCommit'
  <2> SUFFICES ASSUME NEW t \in Trees
               PROVE  root'[t] = IF t <= currentAuthTreeNumber' THEN Under(t, Depth, 0)' ELSE NoNode
    BY DEF RootsCommit, NoNode
  <2>1. t \in DOMAIN root
    BY DEF TreesInv, NodesTyped
  <2>2. CASE t = tree
    <3>1. root'[tree] = Under(tree, Depth, 0)'
      BY <1>10, <2>1, <2>2
    <3>2. t <= currentAuthTreeNumber'
      BY <1>7, <2>2
    <3> QED
      BY <2>2, <3>1, <3>2
  <2>3. CASE t # tree
    BY <1>7, <1>10, <2>1, <2>3 DEF TreesInv, RootsCommit
  <2> QED
    BY <2>2, <2>3
<1>12. FreeSlots'
  <2> SUFFICES ASSUME NEW t \in Trees
               PROVE  /\ leafCount'[t] \in 0..Leaves
                      /\ t > currentAuthTreeNumber' => leafCount'[t] = 0
                      /\ \A i \in Indices : i >= leafCount'[t] => LeafAt(t, i)' = NoLeaf
    BY DEF FreeSlots, Leaves, Indices
  <2>1. /\ leafCount[t] \in 0..Leaves
        /\ t > currentAuthTreeNumber => leafCount[t] = 0
        /\ \A i \in Indices : i >= leafCount[t] => LeafAt(t, i) = NoLeaf
    BY DEF TreesInv, FreeSlots
  <2>2. CASE t = tree
    <3>1. leafCount'[t] = index + 1
      BY <1>8, <2>2
    <3>2. ~(t > currentAuthTreeNumber')
      BY <1>4, <1>6, <2>2
    <3>3. \A i \in Indices : i >= index + 1 => i # index /\ i > index
      BY <1>6 DEF Indices
    <3> QED
      BY <1>1, <1>6, <1>9, <1>10, <2>2, <3>1, <3>2, <3>3 DEF EmptyAfter, Written
  <2>3. CASE t # tree
    <3>1. leafCount'[t] = leafCount[t]
      BY <1>8, <2>3
    <3>2. t > currentAuthTreeNumber' => t > currentAuthTreeNumber
      BY <1>1, <1>4, <1>6
    <3>3. \A i \in Indices : LeafAt(t, i)' = LeafAt(t, i)
      BY <1>10, <2>3 DEF Written
    <3> QED
      BY <2>1, <3>1, <3>2, <3>3
  <2> QED
    BY <2>2, <2>3
<1>13. TreesInv'
  BY <1>10, <1>11, <1>12 DEF TreesInv
<1>14. LeafAt(tree, index) = NoLeaf /\ index >= leafCount[tree]
  BY <1>4, <1>5, <1>6
<1> QED
  BY <1>4, <1>7, <1>8, <1>10, <1>13, <1>14, <1>a

(* A leaf that is rewritten has a slot that was given out.                 *)
LEMMA RewriteKeepsTrees ==
    ASSUME Types, TreesInv, UNCHANGED slotVars, NEW tree \in Trees, NEW index \in 0..(leafCount[tree] - 1),
           NEW leaf, UpdateLeaf(tree, index, leaf, FALSE)
    PROVE  /\ index \in Indices /\ tree <= currentAuthTreeNumber
           /\ TreesInv'
           /\ Written(tree, index, leaf)
<1>1. /\ Leaves \in Nat \ {0} /\ leafCount[tree] \in 0..Leaves /\ leafCount[tree] # 0
      /\ currentAuthTreeNumber \in Nat /\ tree \in Nat
  BY WidthsFill, TreesAssumption DEF Types, Trees, Leaves, TreesInv, FreeSlots
<1>2. index \in Indices /\ index < leafCount[tree] /\ index \in Nat
  BY <1>1 DEF Indices
<1>3. tree <= currentAuthTreeNumber
  BY <1>1 DEF TreesInv, FreeSlots
<1>4. leafCount' = leafCount /\ currentAuthTreeNumber' = currentAuthTreeNumber
  BY DEF slotVars
<1>5. /\ NodesTyped' /\ NodesCommit'
      /\ Written(tree, index, leaf)
      /\ root' = [root EXCEPT ![tree] = Under(tree, Depth, 0)']
      /\ \A t \in Trees \ {tree} : Under(t, Depth, 0)' = Under(t, Depth, 0)
  <2>1. PICK appendOnly \in BOOLEAN : appendOnly = FALSE
    OBVIOUS
  <2>2. UpdateLeaf(tree, index, leaf, appendOnly)
    BY <2>1
  <2> QED
    BY <1>2, <2>1, <2>2, WriteCommits DEF TreesInv
<1>6. RootsCommit'
  <2> SUFFICES ASSUME NEW t \in Trees
               PROVE  root'[t] = IF t <= currentAuthTreeNumber' THEN Under(t, Depth, 0)' ELSE NoNode
    BY DEF RootsCommit, NoNode
  <2>1. t \in DOMAIN root
    BY DEF TreesInv, NodesTyped
  <2>2. CASE t = tree
    BY <1>3, <1>4, <1>5, <2>1, <2>2
  <2>3. CASE t # tree
    BY <1>4, <1>5, <2>1, <2>3 DEF TreesInv, RootsCommit
  <2> QED
    BY <2>2, <2>3
<1>7. FreeSlots'
  <2> SUFFICES ASSUME NEW t \in Trees, NEW i \in Indices, i >= leafCount[t]
               PROVE  LeafAt(t, i)' = NoLeaf
    BY <1>4 DEF FreeSlots, Leaves, Indices, TreesInv
  <2>1. ~(t = tree /\ i = index) /\ LeafAt(t, i) = NoLeaf
    BY <1>1, <1>2 DEF Indices, TreesInv, FreeSlots
  <2> QED
    BY <1>5, <2>1 DEF Written
<1> QED
  BY <1>2, <1>3, <1>5, <1>6, <1>7 DEF TreesInv

(* The root that a leaf supersedes is remembered with the block it was     *)
(* superseded in, also if it was a root before.                            *)
LEMMA WriteRemembers ==
    ASSUME TreesInv, RootsInv, TreesInv',
           NEW tree \in Trees, NEW index, NEW leaf, NEW appendOnly, UpdateLeaf(tree, index, leaf, appendOnly),
           \A t \in Trees : t <= currentAuthTreeNumber' <=> t <= currentAuthTreeNumber \/ t = tree
    PROVE  RootsInv'
<1> DEFINE now == AuthPath(tree, index, leaf, appendOnly)[Depth]
           previous == IF root[tree] = NoNode THEN Zeros(Depth) ELSE root[tree]
           seen == lastSeen[tree]
           old == anchors[tree]
<1>1. /\ root' = [root EXCEPT ![tree] = now]
      /\ anchors' = [anchors EXCEPT ![tree] = Superseded(old, previous, now)]
      /\ lastSeen' = [lastSeen EXCEPT ![tree] = Put(Put(seen, previous, block), now, block)]
  BY DEF UpdateLeaf, RootsInv, RootsTyped
<1>2. /\ root = [t \in Trees |-> root[t]]
      /\ anchors = [t \in Trees |-> anchors[t]]
      /\ lastSeen = [t \in Trees |-> lastSeen[t]]
  BY DEF TreesInv, NodesTyped, RootsInv, RootsTyped
<1> HIDE DEF now
<1>3. RootsTyped'
  BY <1>1, <1>2 DEF RootsTyped
<1>4. root'[tree] = now /\ now # NoNode
  <2>1. root'[tree] = now
    BY <1>1, <1>2
  <2>2. root'[tree] = Under(tree, Depth, 0)' /\ Under(tree, Depth, 0)' # NoNode
    BY RootsAreStored DEF TreesInv, RootsCommit, NoNode
  <2> QED
    BY <2>1, <2>2
<1>5. /\ previous # NoNode
      /\ tree <= currentAuthTreeNumber => previous = root[tree]
  BY RootsAreStored DEF TreesInv, RootsCommit
<1>6. \A r \in DOMAIN seen :
        /\ r # NoNode
        /\ r # previous => r \in DOMAIN old /\ old[r] = seen[r]
  BY <1>5 DEF RootsInv, RootsRemembered
<1>7. anchors'[tree] = Superseded(old, previous, now) /\ lastSeen'[tree] = Put(Put(seen, previous, block), now, block)
  BY <1>1, <1>2
<1> HIDE DEF previous, seen, old
<1>8. /\ now \in DOMAIN lastSeen'[tree]
      /\ \A r \in DOMAIN lastSeen'[tree] :
            /\ r # NoNode
            /\ r # now => r \in DOMAIN anchors'[tree] /\ anchors'[tree][r] = lastSeen'[tree][r]
  <2>1. /\ DOMAIN lastSeen'[tree] = DOMAIN seen \cup {previous, now}
        /\ \A r \in DOMAIN lastSeen'[tree] :
                lastSeen'[tree][r] = IF r \in {previous, now} THEN block ELSE seen[r]
    BY <1>7 DEF Put
  <2>2. previous # now => /\ DOMAIN anchors'[tree] = DOMAIN old \cup {previous}
                          /\ \A r \in DOMAIN anchors'[tree] :
                                anchors'[tree][r] = IF r = previous THEN block ELSE old[r]
    BY <1>7 DEF Superseded, Put
  <2>3. previous = now => anchors'[tree] = old
    BY <1>7 DEF Superseded
  <2> QED
    BY <1>4, <1>5, <1>6, <2>1, <2>2, <2>3
<1>9. RootsRemembered'
  <2> SUFFICES ASSUME NEW t \in Trees
               PROVE  IF t <= currentAuthTreeNumber'
                      THEN /\ root'[t] \in DOMAIN lastSeen'[t]
                           /\ \A r \in DOMAIN lastSeen'[t] :
                                /\ r # NoNode
                                /\ r # root'[t] => r \in DOMAIN anchors'[t] /\ anchors'[t][r] = lastSeen'[t][r]
                      ELSE DOMAIN lastSeen'[t] = {}
    BY DEF RootsRemembered, NoNode
  <2>1. CASE t = tree
    BY <1>4, <1>8, <2>1
  <2>2. CASE t # tree
    <3>1. root'[t] = root[t] /\ anchors'[t] = anchors[t] /\ lastSeen'[t] = lastSeen[t]
      BY <1>1, <1>2, <2>2
    <3> QED
      BY <2>2, <3>1 DEF RootsInv, RootsRemembered
  <2> QED
    BY <2>1, <2>2
<1> QED
  BY <1>3, <1>9 DEF RootsInv

-----------------------------------------------------------------------------
(* What writing a leaf does to the holders.                                *)

SamePlace(info, was) == info.tree = was.tree /\ info.index = was.index

(* The keys and approvals that a leaf names get its place, those that were *)
(* there and are not named lose theirs, and no other changes.              *)
KeysFollow(tree, index, leaf) ==
    \A account \in Account, key \in Key :
        IF Names(leaf, "key", account, key)
        THEN KeyAt(account, key, tree, index)' /\ (IsLive(account, key) => KeyAt(account, key, tree, index))
        ELSE IF KeyAt(account, key, tree, index)
        THEN ~IsLive(account, key)'
        ELSE /\ IsLive(account, key)' <=> IsLive(account, key)
             /\ IsLive(account, key) => SamePlace(keyInfo'[account][key], keyInfo[account][key])

ApprovalsFollow(tree, index, leaf) ==
    \A account \in Account, batch \in Batch :
        IF Names(leaf, "approval", account, batch)
        THEN ApprovalAt(account, batch, tree, index)' /\ (IsApproved(account, batch) => ApprovalAt(account, batch, tree, index))
        ELSE IF ApprovalAt(account, batch, tree, index)
        THEN ~IsApproved(account, batch)'
        ELSE /\ IsApproved(account, batch)' <=> IsApproved(account, batch)
             /\ IsApproved(account, batch) => SamePlace(approvalInfo'[account][batch], approvalInfo[account][batch])

(* What the leaves name.                                                   *)
LEMMA LeavesName ==
    /\ NoLeaf \in LeafValues
    /\ \A kind, account, id : ~Names(NoLeaf, kind, account, id)
    /\ \A account \in Account, key \in Key, expiry \in Expiries :
        /\ KeyLeaf(account, key, expiry) \in LeafValues
        /\ \A a, id : Names(KeyLeaf(account, key, expiry), "key", a, id) <=> a = account /\ id = key
        /\ \A a, id : ~Names(KeyLeaf(account, key, expiry), "approval", a, id)
    /\ \A account \in Account, batch \in Batch, expiry \in Expiries :
        /\ ApprovalLeaf(account, batch, expiry) \in LeafValues
        /\ \A a, id : Names(ApprovalLeaf(account, batch, expiry), "approval", a, id) <=> a = account /\ id = batch
        /\ \A a, id : ~Names(ApprovalLeaf(account, batch, expiry), "key", a, id)
<1>1. /\ NoLeaf \in LeafValues
      /\ \A kind, account, id : ~Names(NoLeaf, kind, account, id)
  BY DEF LeafValues, Names
<1>2. ASSUME NEW account \in Account, NEW key \in Key, NEW expiry \in Expiries
      PROVE  /\ KeyLeaf(account, key, expiry) \in LeafValues
             /\ \A a, id : Names(KeyLeaf(account, key, expiry), "key", a, id) <=> a = account /\ id = key
             /\ \A a, id : ~Names(KeyLeaf(account, key, expiry), "approval", a, id)
  <2>1. NoLeaf # KeyLeaf(account, key, expiry)
    BY NoLeafAssumption
  <2>2. KeyLeaf(account, key, expiry) \in LeafValues
    BY DEF LeafValues
  <2> QED
    BY <2>1, <2>2 DEF Names, KeyLeaf
<1>3. ASSUME NEW account \in Account, NEW batch \in Batch, NEW expiry \in Expiries
      PROVE  /\ ApprovalLeaf(account, batch, expiry) \in LeafValues
             /\ \A a, id : Names(ApprovalLeaf(account, batch, expiry), "approval", a, id) <=> a = account /\ id = batch
             /\ \A a, id : ~Names(ApprovalLeaf(account, batch, expiry), "key", a, id)
  <2>1. NoLeaf # ApprovalLeaf(account, batch, expiry)
    BY NoLeafAssumption
  <2>2. ApprovalLeaf(account, batch, expiry) \in LeafValues
    BY DEF LeafValues
  <2> QED
    BY <2>1, <2>2 DEF Names, ApprovalLeaf
<1> QED
  BY <1>1, <1>2, <1>3

(* The holders of a leaf are not holders of another kind or name.          *)
LEMMA HolderIsNamed ==
    ASSUME LeavesHeld, NEW tree \in Trees, NEW index \in Indices
    PROVE  /\ \A account \in Account, key \in Key, a \in Account, k \in Key :
                KeyAt(account, key, tree, index) /\ KeyAt(a, k, tree, index) => a = account /\ k = key
           /\ \A account \in Account, batch \in Batch, a \in Account, b \in Batch :
                ApprovalAt(account, batch, tree, index) /\ ApprovalAt(a, b, tree, index) => a = account /\ b = batch
           /\ \A account \in Account, key \in Key, a \in Account, b \in Batch :
                ~(KeyAt(account, key, tree, index) /\ ApprovalAt(a, b, tree, index))
           /\ LeafAt(tree, index) = NoLeaf =>
                /\ \A account \in Account, key \in Key : ~KeyAt(account, key, tree, index)
                /\ \A account \in Account, batch \in Batch : ~ApprovalAt(account, batch, tree, index)
<1>1. /\ \A account \in Account, key \in Key :
            KeyAt(account, key, tree, index) <=> Names(LeafAt(tree, index), "key", account, key)
      /\ \A account \in Account, batch \in Batch :
            ApprovalAt(account, batch, tree, index) <=> Names(LeafAt(tree, index), "approval", account, batch)
  BY DEF LeavesHeld
<1>2. "key" # "approval"
  OBVIOUS
<1> QED
  BY <1>1, <1>2 DEF Names

(* Where holders follow their leaves, every leaf again names its holders.  *)
LEMMA HoldersFollow ==
    ASSUME Types, LeavesHeld, HoldersPlaced, NEW tree \in Trees, NEW index \in Indices, NEW leaf \in LeafValues,
           Written(tree, index, leaf),
           \A t \in Trees : leafCount'[t] \in Nat /\ leafCount'[t] >= leafCount[t],
           index < leafCount'[tree],
           KeysFollow(tree, index, leaf), ApprovalsFollow(tree, index, leaf)
    PROVE  LeavesHeld' /\ HoldersPlaced'
<1>1. LeavesHeld'
  <2> SUFFICES ASSUME NEW t \in Trees, NEW i \in Indices
               PROVE  /\ LeafAt(t, i)' \in LeafValues
                      /\ \A account \in Account, key \in Key :
                            KeyAt(account, key, t, i)' <=> Names(LeafAt(t, i)', "key", account, key)
                      /\ \A account \in Account, batch \in Batch :
                            ApprovalAt(account, batch, t, i)' <=> Names(LeafAt(t, i)', "approval", account, batch)
    BY DEF LeavesHeld, LeafValues, Indices, Names, Leaves
  <2>1. LeafAt(t, i) \in LeafValues
    BY DEF LeavesHeld
  <2>2. ASSUME NEW account \in Account, NEW key \in Key
        PROVE  KeyAt(account, key, t, i)' <=> Names(LeafAt(t, i)', "key", account, key)
    <3>1. KeyAt(account, key, t, i) <=> Names(LeafAt(t, i), "key", account, key)
      BY DEF LeavesHeld
    <3>2. CASE Names(leaf, "key", account, key)
      BY <3>1, <3>2 DEF KeysFollow, KeyAt, Written
    <3>3. CASE ~Names(leaf, "key", account, key) /\ KeyAt(account, key, tree, index)
      BY <3>1, <3>3 DEF KeysFollow, KeyAt, Written
    <3>4. CASE ~Names(leaf, "key", account, key) /\ ~KeyAt(account, key, tree, index)
      BY <3>1, <3>4 DEF KeysFollow, KeyAt, SamePlace, Written
    <3> QED
      BY <3>2, <3>3, <3>4
  <2>3. ASSUME NEW account \in Account, NEW batch \in Batch
        PROVE  ApprovalAt(account, batch, t, i)' <=> Names(LeafAt(t, i)', "approval", account, batch)
    <3>1. ApprovalAt(account, batch, t, i) <=> Names(LeafAt(t, i), "approval", account, batch)
      BY DEF LeavesHeld
    <3>2. CASE Names(leaf, "approval", account, batch)
      BY <3>1, <3>2 DEF ApprovalsFollow, ApprovalAt, Written
    <3>3. CASE ~Names(leaf, "approval", account, batch) /\ ApprovalAt(account, batch, tree, index)
      BY <3>1, <3>3 DEF ApprovalsFollow, ApprovalAt, Written
    <3>4. CASE ~Names(leaf, "approval", account, batch) /\ ~ApprovalAt(account, batch, tree, index)
      BY <3>1, <3>4 DEF ApprovalsFollow, ApprovalAt, SamePlace, Written
    <3> QED
      BY <3>2, <3>3, <3>4
  <2> QED
    BY <2>1, <2>2, <2>3 DEF Written
<1>2. ASSUME NEW info, IsGivenOut(info)
      PROVE  info.tree \in Trees /\ info.index \in 0..(leafCount'[info.tree] - 1)
  <2>1. /\ info.tree \in Trees /\ info.index \in 0..(leafCount[info.tree] - 1)
        /\ leafCount[info.tree] \in Nat /\ leafCount'[info.tree] \in Nat /\ leafCount'[info.tree] >= leafCount[info.tree]
    BY <1>2 DEF IsGivenOut, Types
  <2> QED
    BY <2>1
<1>3. index \in 0..(leafCount'[tree] - 1)
  <2>1. index \in Nat /\ leafCount'[tree] \in Nat
    BY DEF Indices
  <2> QED
    BY <2>1
<1>4. ASSUME NEW account \in Account, NEW key \in Key, IsLive(account, key)'
      PROVE  IsGivenOut(keyInfo[account][key])'
  <2> SUFFICES /\ keyInfo'[account][key].tree \in Trees
               /\ keyInfo'[account][key].index \in 0..(leafCount'[keyInfo'[account][key].tree] - 1)
    BY DEF IsGivenOut
  <2>1. CASE Names(leaf, "key", account, key)
    BY <1>3, <2>1 DEF KeysFollow, KeyAt
  <2>2. CASE ~Names(leaf, "key", account, key)
    <3>1. IsLive(account, key) /\ SamePlace(keyInfo'[account][key], keyInfo[account][key])
      BY <1>4, <2>2 DEF KeysFollow
    <3>2. IsGivenOut(keyInfo[account][key])
      BY <3>1 DEF HoldersPlaced
    <3> QED
      BY <1>2, <3>1, <3>2 DEF SamePlace
  <2> QED
    BY <2>1, <2>2
<1>5. ASSUME NEW account \in Account, NEW batch \in Batch, IsApproved(account, batch)'
      PROVE  IsGivenOut(approvalInfo[account][batch])'
  <2> SUFFICES /\ approvalInfo'[account][batch].tree \in Trees
               /\ approvalInfo'[account][batch].index \in 0..(leafCount'[approvalInfo'[account][batch].tree] - 1)
    BY DEF IsGivenOut
  <2>1. CASE Names(leaf, "approval", account, batch)
    BY <1>3, <2>1 DEF ApprovalsFollow, ApprovalAt
  <2>2. CASE ~Names(leaf, "approval", account, batch)
    <3>1. IsApproved(account, batch) /\ SamePlace(approvalInfo'[account][batch], approvalInfo[account][batch])
      BY <1>5, <2>2 DEF ApprovalsFollow
    <3>2. IsGivenOut(approvalInfo[account][batch])
      BY <3>1 DEF HoldersPlaced
    <3> QED
      BY <1>2, <3>1, <3>2 DEF SamePlace
  <2> QED
    BY <2>1, <2>2
<1>6. HoldersPlaced'
  BY <1>4, <1>5 DEF HoldersPlaced
<1> QED
  BY <1>1, <1>6

-----------------------------------------------------------------------------
(* The orders keep the trees, the holders and the roots together.          *)

(* A leaf that is appended, with those who come to hold it.                *)
LEMMA AppendKeeps ==
    ASSUME Types, LeavesInv, RootsInv, AllocateLeafSlot, NEW leaf \in LeafValues,
           NEW tree, NEW index, tree = NextTree, index = NextIndex, UpdateLeaf(tree, index, leaf, TRUE),
           KeysFollow(tree, index, leaf), ApprovalsFollow(tree, index, leaf)
    PROVE  LeavesInv' /\ RootsInv'
<1>1. /\ tree \in Trees /\ index \in Indices
      /\ \A t \in Trees : t <= currentAuthTreeNumber' <=> t <= currentAuthTreeNumber \/ t = tree
      /\ \A t \in Trees : leafCount'[t] = IF t = tree THEN index + 1 ELSE leafCount[t]
      /\ index >= leafCount[tree]
      /\ TreesInv'
      /\ Written(tree, index, leaf)
  BY AppendKeepsTrees DEF LeavesInv
<1>2. TreesInv /\ LeavesHeld /\ HoldersPlaced
  BY DEF LeavesInv
<1>3. RootsInv'
  BY <1>1, <1>2, WriteRemembers
<1>4. /\ \A t \in Trees : leafCount'[t] \in Nat /\ leafCount'[t] >= leafCount[t]
      /\ index < leafCount'[tree]
  <2>1. leafCount \in [Trees -> Nat] /\ index \in Nat
    BY <1>1 DEF Types, Indices
  <2> QED
    BY <1>1, <2>1
<1>5. LeavesHeld' /\ HoldersPlaced'
  BY <1>1, <1>2, <1>4, HoldersFollow
<1> QED
  BY <1>1, <1>3, <1>5 DEF LeavesInv

(* A leaf that is rewritten, likewise.                                     *)
LEMMA RewriteKeeps ==
    ASSUME Types, LeavesInv, RootsInv, UNCHANGED slotVars, NEW leaf \in LeafValues,
           NEW tree \in Trees, NEW index \in 0..(leafCount[tree] - 1), UpdateLeaf(tree, index, leaf, FALSE),
           KeysFollow(tree, index, leaf), ApprovalsFollow(tree, index, leaf)
    PROVE  LeavesInv' /\ RootsInv'
<1>1. TreesInv /\ LeavesHeld /\ HoldersPlaced
  BY DEF LeavesInv
<1>2. /\ index \in Indices /\ tree <= currentAuthTreeNumber
      /\ TreesInv'
      /\ Written(tree, index, leaf)
  BY <1>1, RewriteKeepsTrees
<1>3. leafCount' = leafCount /\ currentAuthTreeNumber' = currentAuthTreeNumber
  BY DEF slotVars
<1>4. \A t \in Trees : t <= currentAuthTreeNumber' <=> t <= currentAuthTreeNumber \/ t = tree
  BY <1>2, <1>3
<1>5. RootsInv'
  BY <1>1, <1>2, <1>4, WriteRemembers
<1>6. /\ \A t \in Trees : leafCount'[t] \in Nat /\ leafCount'[t] >= leafCount[t]
      /\ index < leafCount'[tree]
  <2>1. leafCount \in [Trees -> Nat] /\ leafCount[tree] \in Nat
    BY DEF Types
  <2> QED
    BY <1>3, <2>1
<1>7. LeavesHeld' /\ HoldersPlaced'
  BY <1>1, <1>2, <1>6, HoldersFollow
<1> QED
  BY <1>2, <1>5, <1>7 DEF LeavesInv

(* A key that is registered gets the leaf that is appended.                *)
LEMMA RegisterLeaves ==
    ASSUME Types, LeavesInv, RootsInv,
           NEW account \in Account, NEW key \in Key, NEW expiry \in Expiries, NEW n,
           Register(account, key, expiry, n)
    PROVE  LeavesInv' /\ RootsInv'
<1> DEFINE leaf == KeyLeaf(account, key, expiry)
<1>1. PICK tree, index : tree = NextTree /\ index = NextIndex
  OBVIOUS
<1>2. AllocateLeafSlot /\ UpdateLeaf(tree, index, leaf, TRUE) /\ ~IsRegistered(account, key)
  BY <1>1 DEF Register, MayRegister
<1>3. tree \in Trees /\ index \in Indices /\ LeafAt(tree, index) = NoLeaf
  BY <1>1, <1>2, AppendKeepsTrees DEF LeavesInv
<1>4. /\ \A a \in Account, k \in Key : ~KeyAt(a, k, tree, index)
      /\ \A a \in Account, b \in Batch : ~ApprovalAt(a, b, tree, index)
  BY <1>3, HolderIsNamed DEF LeavesInv
<1>5. /\ leaf \in LeafValues
      /\ \A a, k : Names(leaf, "key", a, k) <=> a = account /\ k = key
      /\ \A a, b : ~Names(leaf, "approval", a, b)
  BY LeavesName
<1> HIDE DEF leaf
<1>6. KeysFollow(tree, index, leaf)
  <2> DEFINE info == [tree |-> tree, index |-> index, listIndex |-> Len(keyList[account]) + 1, revoked |-> FALSE]
  <2>1. keyInfo' = [keyInfo EXCEPT ![account][key] = info]
    BY <1>1 DEF Register
  <2>2. Len(keyList[account]) \in Nat /\ Len(keyList[account]) + 1 # 0
    <3>1. keyList[account] \in Seq(Key)
      BY DEF Types
    <3>2. Len(keyList[account]) \in Nat
      BY <3>1
    <3> QED
      BY <3>2
  <2>3. info.tree = tree /\ info.index = index /\ info.listIndex # 0 /\ ~info.revoked
    BY <2>2
  <2> HIDE DEF info
  <2>4. /\ keyInfo'[account][key] = info
        /\ \A a \in Account, k \in Key : ~(a = account /\ k = key) => keyInfo'[a][k] = keyInfo[a][k]
    BY <2>1 DEF Types
  <2>5. KeyAt(account, key, tree, index)' /\ ~IsLive(account, key)
    BY <1>2, <2>3, <2>4 DEF KeyAt, IsLive, IsRegistered
  <2>6. \A a \in Account, k \in Key : ~(a = account /\ k = key) =>
            /\ IsLive(a, k)' <=> IsLive(a, k)
            /\ SamePlace(keyInfo'[a][k], keyInfo[a][k])
    BY <2>4 DEF IsLive, IsRegistered, SamePlace
  <2> QED
    BY <1>4, <1>5, <2>5, <2>6 DEF KeysFollow
<1>7. ApprovalsFollow(tree, index, leaf)
  <2>1. approvalInfo' = approvalInfo
    BY DEF Register
  <2> QED
    BY <1>4, <1>5, <2>1 DEF ApprovalsFollow, IsApproved, SamePlace
<1> QED
  BY <1>1, <1>2, <1>5, <1>6, <1>7, AppendKeeps

(* A batch that is approved, too.                                          *)
LEMMA ApproveLeaves ==
    ASSUME Types, LeavesInv, RootsInv,
           NEW account \in Account, NEW batch \in Batch, NEW expiry \in Expiries,
           ApproveSpendBatch(account, batch, expiry)
    PROVE  LeavesInv' /\ RootsInv'
<1> DEFINE leaf == ApprovalLeaf(account, batch, expiry)
<1>1. PICK tree, index : tree = NextTree /\ index = NextIndex
  OBVIOUS
<1>2. AllocateLeafSlot /\ UpdateLeaf(tree, index, leaf, TRUE) /\ ~approvalInfo[account][batch].exists
  BY <1>1 DEF ApproveSpendBatch, MayApprove
<1>3. tree \in Trees /\ index \in Indices /\ LeafAt(tree, index) = NoLeaf
  BY <1>1, <1>2, AppendKeepsTrees DEF LeavesInv
<1>4. /\ \A a \in Account, k \in Key : ~KeyAt(a, k, tree, index)
      /\ \A a \in Account, b \in Batch : ~ApprovalAt(a, b, tree, index)
  BY <1>3, HolderIsNamed DEF LeavesInv
<1>5. /\ leaf \in LeafValues
      /\ \A a, b : Names(leaf, "approval", a, b) <=> a = account /\ b = batch
      /\ \A a, k : ~Names(leaf, "key", a, k)
  BY LeavesName
<1> HIDE DEF leaf
<1>6. ApprovalsFollow(tree, index, leaf)
  <2> DEFINE info == [tree |-> tree, index |-> index, revoked |-> FALSE, exists |-> TRUE]
  <2>1. approvalInfo' = [approvalInfo EXCEPT ![account][batch] = info]
    BY <1>1 DEF ApproveSpendBatch
  <2>2. info.tree = tree /\ info.index = index /\ info.exists /\ ~info.revoked
    OBVIOUS
  <2> HIDE DEF info
  <2>3. /\ approvalInfo'[account][batch] = info
        /\ \A a \in Account, b \in Batch : ~(a = account /\ b = batch) => approvalInfo'[a][b] = approvalInfo[a][b]
    BY <2>1 DEF Types
  <2>4. ApprovalAt(account, batch, tree, index)' /\ ~IsApproved(account, batch)
    BY <1>2, <2>2, <2>3 DEF ApprovalAt, IsApproved
  <2>5. \A a \in Account, b \in Batch : ~(a = account /\ b = batch) =>
            /\ IsApproved(a, b)' <=> IsApproved(a, b)
            /\ SamePlace(approvalInfo'[a][b], approvalInfo[a][b])
    BY <2>3 DEF IsApproved, SamePlace
  <2> QED
    BY <1>4, <1>5, <2>4, <2>5 DEF ApprovalsFollow
<1>7. KeysFollow(tree, index, leaf)
  <2>1. keyInfo' = keyInfo
    BY DEF ApproveSpendBatch, keyVars
  <2> QED
    BY <1>4, <1>5, <2>1 DEF KeysFollow, IsLive, IsRegistered, SamePlace
<1> QED
  BY <1>1, <1>2, <1>5, <1>6, <1>7, AppendKeeps

(* A key that is rotated leaves its place, and its leaf, to the new one.   *)
LEMMA RotateLeaves ==
    ASSUME Types, LeavesInv, RootsInv,
           NEW account \in Account, NEW key \in Key, NEW new \in Key, NEW expiry \in Expiries, NEW n,
           Rotate(account, key, new, expiry, n)
    PROVE  LeavesInv' /\ RootsInv'
<1> DEFINE leaf == KeyLeaf(account, new, expiry)
           info == keyInfo[account][key]
<1>1. PICK tree, index : tree = info.tree /\ index = info.index
  OBVIOUS
<1>2. /\ UNCHANGED slotVars /\ UpdateLeaf(tree, index, leaf, FALSE)
      /\ IsLive(account, key) /\ approvalInfo' = approvalInfo
  BY <1>1 DEF Rotate, WriteRotated
<1>3. tree \in Trees /\ index \in 0..(leafCount[tree] - 1) /\ KeyAt(account, key, tree, index)
  BY <1>1, <1>2 DEF LeavesInv, HoldersPlaced, IsGivenOut, KeyAt
<1>4. index \in Indices
  BY <1>1, <1>2, <1>3, RewriteKeepsTrees DEF LeavesInv
<1>5. /\ \A a \in Account, k \in Key : KeyAt(a, k, tree, index) <=> a = account /\ k = key
      /\ \A a \in Account, b \in Batch : ~ApprovalAt(a, b, tree, index)
  BY <1>3, <1>4, HolderIsNamed DEF LeavesInv
<1>6. /\ leaf \in LeafValues
      /\ \A a, k : Names(leaf, "key", a, k) <=> a = account /\ k = new
      /\ \A a, b : ~Names(leaf, "approval", a, b)
  BY LeavesName
<1> HIDE DEF leaf
<1>7. KeysFollow(tree, index, leaf)
  <2>1. CASE key = new
    <3>1. keyInfo' = keyInfo
      BY <2>1 DEF Rotate, Replaced, keyVars
    <3> QED
      BY <1>5, <1>6, <2>1, <3>1 DEF KeysFollow, KeyAt, IsLive, IsRegistered, SamePlace
  <2>2. CASE key # new
    <3> DEFINE left == [keyInfo EXCEPT ![account][key] = NotRegistered]
    <3>1. keyInfo' = [left EXCEPT ![account][new] = info] /\ ~IsRegistered(account, new)
      BY <2>2 DEF Rotate, Replaced
    <3>2. /\ keyInfo'[account][new] = info
          /\ keyInfo'[account][key] = NotRegistered
          /\ \A a \in Account, k \in Key : ~(a = account /\ k \in {key, new}) => keyInfo'[a][k] = keyInfo[a][k]
      BY <2>2, <3>1 DEF Types
    <3> HIDE DEF info
    <3>3. KeyAt(account, new, tree, index)' /\ ~IsLive(account, new)
      BY <1>1, <1>2, <3>1, <3>2 DEF KeyAt, IsLive, IsRegistered, info
    <3>4. ~IsLive(account, key)'
      BY <3>2 DEF IsLive, IsRegistered, NotRegistered
    <3>5. \A a \in Account, k \in Key : ~(a = account /\ k \in {key, new}) =>
            /\ IsLive(a, k)' <=> IsLive(a, k)
            /\ SamePlace(keyInfo'[a][k], keyInfo[a][k])
      BY <3>2 DEF IsLive, IsRegistered, SamePlace
    <3> QED
      BY <1>5, <1>6, <2>2, <3>3, <3>4, <3>5 DEF KeysFollow
  <2> QED
    BY <2>1, <2>2
<1>8. ApprovalsFollow(tree, index, leaf)
  BY <1>2, <1>5, <1>6 DEF ApprovalsFollow, IsApproved, SamePlace
<1> QED
  BY <1>2, <1>3, <1>6, <1>7, <1>8, RewriteKeeps

(* The leaf of a key that is revoked is zeroed.                            *)
LEMMA RevokeLeaves ==
    ASSUME Types, LeavesInv, RootsInv,
           NEW account \in Account, NEW key \in Key, NEW expiry, NEW n,
           Revoke(account, key, expiry, n)
    PROVE  LeavesInv' /\ RootsInv'
<1>1. PICK tree, index : tree = keyInfo[account][key].tree /\ index = keyInfo[account][key].index
  OBVIOUS
<1>2. /\ UNCHANGED slotVars /\ UpdateLeaf(tree, index, NoLeaf, FALSE)
      /\ IsLive(account, key) /\ approvalInfo' = approvalInfo
      /\ keyInfo' = [keyInfo EXCEPT ![account][key].revoked = TRUE]
  BY <1>1 DEF Revoke
<1>3. tree \in Trees /\ index \in 0..(leafCount[tree] - 1) /\ KeyAt(account, key, tree, index)
  BY <1>1, <1>2 DEF LeavesInv, HoldersPlaced, IsGivenOut, KeyAt
<1>4. index \in Indices
  BY <1>1, <1>2, <1>3, RewriteKeepsTrees DEF LeavesInv
<1>5. /\ \A a \in Account, k \in Key : KeyAt(a, k, tree, index) <=> a = account /\ k = key
      /\ \A a \in Account, b \in Batch : ~ApprovalAt(a, b, tree, index)
  BY <1>3, <1>4, HolderIsNamed DEF LeavesInv
<1>6. NoLeaf \in LeafValues /\ \A kind, a, id : ~Names(NoLeaf, kind, a, id)
  BY LeavesName
<1>7. KeysFollow(tree, index, NoLeaf)
  <2>1. /\ keyInfo'[account][key].revoked
        /\ \A a \in Account, k \in Key : ~(a = account /\ k = key) => keyInfo'[a][k] = keyInfo[a][k]
    <3>1. keyInfo[account][key] \in KeyInfos
      BY DEF Types
    <3> DEFINE info == [keyInfo[account][key] EXCEPT !.revoked = TRUE]
    <3>2. info.revoked
      BY <3>1 DEF KeyInfos
    <3>3. keyInfo' = [keyInfo EXCEPT ![account][key] = info]
      BY <1>2 DEF Types
    <3> HIDE DEF info
    <3> QED
      BY <3>2, <3>3 DEF Types
  <2>2. ~IsLive(account, key)'
    BY <2>1 DEF IsLive
  <2>3. \A a \in Account, k \in Key : ~(a = account /\ k = key) =>
            /\ IsLive(a, k)' <=> IsLive(a, k)
            /\ SamePlace(keyInfo'[a][k], keyInfo[a][k])
    BY <2>1 DEF IsLive, IsRegistered, SamePlace
  <2> QED
    BY <1>5, <1>6, <2>2, <2>3 DEF KeysFollow
<1>8. ApprovalsFollow(tree, index, NoLeaf)
  BY <1>2, <1>5, <1>6 DEF ApprovalsFollow, IsApproved, SamePlace
<1> QED
  BY <1>2, <1>3, <1>6, <1>7, <1>8, RewriteKeeps

(* So is that of an approval that is taken back.                           *)
LEMMA RevokeApprovalLeaves ==
    ASSUME Types, LeavesInv, RootsInv,
           NEW account \in Account, NEW batch \in Batch, RevokeSpendApprovalBatch(account, batch)
    PROVE  LeavesInv' /\ RootsInv'
<1>1. PICK tree, index : tree = approvalInfo[account][batch].tree /\ index = approvalInfo[account][batch].index
  OBVIOUS
<1>2. /\ UNCHANGED slotVars /\ UpdateLeaf(tree, index, NoLeaf, FALSE)
      /\ IsApproved(account, batch) /\ keyInfo' = keyInfo
      /\ approvalInfo' = [approvalInfo EXCEPT ![account][batch].revoked = TRUE]
  BY <1>1 DEF RevokeSpendApprovalBatch, IsApproved, keyVars
<1>3. tree \in Trees /\ index \in 0..(leafCount[tree] - 1) /\ ApprovalAt(account, batch, tree, index)
  BY <1>1, <1>2 DEF LeavesInv, HoldersPlaced, IsGivenOut, ApprovalAt
<1>4. index \in Indices
  BY <1>1, <1>2, <1>3, RewriteKeepsTrees DEF LeavesInv
<1>5. /\ \A a \in Account, b \in Batch : ApprovalAt(a, b, tree, index) <=> a = account /\ b = batch
      /\ \A a \in Account, k \in Key : ~KeyAt(a, k, tree, index)
  BY <1>3, <1>4, HolderIsNamed DEF LeavesInv
<1>6. NoLeaf \in LeafValues /\ \A kind, a, id : ~Names(NoLeaf, kind, a, id)
  BY LeavesName
<1>7. ApprovalsFollow(tree, index, NoLeaf)
  <2>1. /\ approvalInfo'[account][batch].revoked
        /\ \A a \in Account, b \in Batch : ~(a = account /\ b = batch) => approvalInfo'[a][b] = approvalInfo[a][b]
    <3>1. approvalInfo[account][batch] \in ApprovalInfos
      BY DEF Types
    <3> DEFINE info == [approvalInfo[account][batch] EXCEPT !.revoked = TRUE]
    <3>2. info.revoked
      BY <3>1 DEF ApprovalInfos
    <3>3. approvalInfo' = [approvalInfo EXCEPT ![account][batch] = info]
      BY <1>2 DEF Types
    <3> HIDE DEF info
    <3> QED
      BY <3>2, <3>3 DEF Types
  <2>2. ~IsApproved(account, batch)'
    BY <2>1 DEF IsApproved
  <2>3. \A a \in Account, b \in Batch : ~(a = account /\ b = batch) =>
            /\ IsApproved(a, b)' <=> IsApproved(a, b)
            /\ SamePlace(approvalInfo'[a][b], approvalInfo[a][b])
    BY <2>1 DEF IsApproved, SamePlace
  <2> QED
    BY <1>5, <1>6, <2>2, <2>3 DEF ApprovalsFollow
<1>8. KeysFollow(tree, index, NoLeaf)
  BY <1>2, <1>5, <1>6 DEF KeysFollow, IsLive, IsRegistered, SamePlace
<1> QED
  BY <1>2, <1>3, <1>6, <1>7, <1>8, RewriteKeeps

(* Nothing about the leaves changes but by writing one.                    *)
LEMMA LeavesStay ==
    ASSUME LeavesInv, UNCHANGED <<root, nodes, currentAuthTreeNumber, leafCount, keyInfo, approvalInfo>>
    PROVE  LeavesInv'
<1>1. TreesInv'
  <2>1. NodesTyped'
    BY DEF LeavesInv, TreesInv, NodesTyped, Nodes
  <2>2. NodesCommit'
    BY DEF LeavesInv, TreesInv, NodesCommit, Stored, Under, LeafAt, Nodes, Zeros, NoNode
  <2>3. RootsCommit'
    BY DEF LeavesInv, TreesInv, RootsCommit, Under, LeafAt, NoNode
  <2>4. FreeSlots'
    BY DEF LeavesInv, TreesInv, FreeSlots, LeafAt, Indices, Leaves, NoNode
  <2> QED
    BY <2>1, <2>2, <2>3, <2>4 DEF TreesInv
<1>2. LeavesHeld'
  BY DEF LeavesInv, LeavesHeld, LeafAt, KeyAt, IsLive, IsRegistered, ApprovalAt, IsApproved, Names, LeafValues,
         Indices, Leaves, NoNode
<1>3. HoldersPlaced'
  BY DEF LeavesInv, HoldersPlaced, IsGivenOut, IsLive, IsRegistered, IsApproved
<1> QED
  BY <1>1, <1>2, <1>3 DEF LeavesInv

(* In a new block the present roots are seen again.                        *)
LEMMA BlockKeeps ==
    ASSUME Types, LeavesInv, RootsInv, NextBlock
    PROVE  LeavesInv' /\ RootsInv'
<1>1. /\ UNCHANGED <<root, nodes, anchors, currentAuthTreeNumber, leafCount, keyInfo, approvalInfo>>
      /\ lastSeen' = [tree \in Trees |->
            IF tree <= currentAuthTreeNumber THEN Put(lastSeen[tree], root[tree], block + 1) ELSE lastSeen[tree]]
  BY DEF NextBlock, slotVars, keyVars
<1>2. LeavesInv'
  BY <1>1, LeavesStay
<1>3. RootsTyped'
  BY <1>1 DEF RootsInv, RootsTyped
<1>4. RootsRemembered'
  <2> SUFFICES ASSUME NEW t \in Trees
               PROVE  IF t <= currentAuthTreeNumber
                      THEN /\ root[t] \in DOMAIN lastSeen'[t]
                           /\ \A r \in DOMAIN lastSeen'[t] :
                                /\ r # NoNode
                                /\ r # root[t] => r \in DOMAIN anchors[t] /\ anchors[t][r] = lastSeen'[t][r]
                      ELSE DOMAIN lastSeen'[t] = {}
    BY <1>1 DEF RootsRemembered, NoNode
  <2>1. CASE t <= currentAuthTreeNumber
    <3>1. lastSeen'[t] = Put(lastSeen[t], root[t], block + 1)
      BY <1>1, <2>1
    <3>2. /\ root[t] \in DOMAIN lastSeen[t]
          /\ \A r \in DOMAIN lastSeen[t] :
                /\ r # NoNode
                /\ r # root[t] => r \in DOMAIN anchors[t] /\ anchors[t][r] = lastSeen[t][r]
      BY <2>1 DEF RootsInv, RootsRemembered
    <3>3. /\ DOMAIN lastSeen'[t] = DOMAIN lastSeen[t]
          /\ \A r \in DOMAIN lastSeen[t] : r # root[t] => lastSeen'[t][r] = lastSeen[t][r]
      BY <3>1, <3>2 DEF Put
    <3> QED
      BY <2>1, <3>2, <3>3
  <2>2. CASE ~(t <= currentAuthTreeNumber)
    BY <1>1, <2>2 DEF RootsInv, RootsRemembered
  <2> QED
    BY <2>1, <2>2
<1> QED
  BY <1>2, <1>3, <1>4 DEF RootsInv

(* At first there are no leaves and no holders.                            *)
LEMMA InitLeaves ==
    ASSUME Init
    PROVE  LeavesInv /\ RootsInv
<1>1. /\ Leaves \in Nat \ {0} /\ Indices = Nodes(0) /\ 0 \in 0..Depth /\ Depth \in 0..Depth
      /\ currentAuthTreeNumber = 0 /\ \A t \in Trees : t \in Nat /\ (t <= 0 <=> t = 0)
  BY WidthsFill, TreesAssumption DEF Init, Leaves, Indices, Nodes, Trees
<1>2. nodes = [t \in Trees |-> [level \in 0..Depth |-> [i \in Nodes(level) |-> NoNode]]]
  BY DEF Init, Nodes
<1>3. ASSUME NEW t \in Trees, NEW level \in 0..Depth, NEW i \in Nodes(level)
      PROVE  nodes[t][level][i] = NoNode
  BY <1>2
<1>4. ASSUME NEW t \in Trees, NEW i \in Indices PROVE LeafAt(t, i) = NoLeaf
  BY <1>1, <1>3 DEF LeafAt
<1>5. ASSUME NEW t \in Trees, NEW level \in 0..Depth, NEW i \in Nodes(level)
      PROVE  Under(t, level, i) = Zeros(level) /\ Stored(t, level, i) = Zeros(level)
  <2>1. \A j \in 1..Width[level] : i * Width[level] + (j - 1) \in Indices
    <3>1. 0 \in Indices
      BY <1>1 DEF Indices
    <3> QED
      BY <3>1, NodesOnPath
  <2>2. Under(t, level, i) = Zeros(level)
    BY <1>4, <2>1 DEF Under, Zeros
  <2> QED
    BY <1>3, <2>2 DEF Stored
<1>6. NodesTyped
  <2>1. nodes = [t \in Trees |-> [level \in 0..Depth |-> [i \in Nodes(level) |-> nodes[t][level][i]]]]
    BY <1>2
  <2>2. root = [t \in Trees |-> root[t]]
    BY DEF Init
  <2> QED
    BY <2>1, <2>2 DEF NodesTyped
<1>7. NodesCommit
  BY <1>5 DEF NodesCommit
<1>8. RootsCommit
  <2>1. 0 \in Nodes(Depth)
    BY WidthDoubles, TreesAssumption DEF Nodes
  <2>2. \A t \in Trees : root[t] = IF t = 0 THEN Zeros(Depth) ELSE NoNode
    BY DEF Init
  <2> QED
    BY <1>1, <1>5, <2>1, <2>2 DEF RootsCommit
<1>9. FreeSlots
  <2>1. \A t \in Trees : leafCount[t] = 0
    BY DEF Init
  <2> QED
    BY <1>1, <1>4, <2>1 DEF FreeSlots
<1>10. LeavesHeld /\ HoldersPlaced
  <2>1. \A account \in Account, key \in Key : ~IsLive(account, key)
    BY DEF Init, IsLive, IsRegistered, NotRegistered
  <2>2. \A account \in Account, batch \in Batch : ~IsApproved(account, batch)
    BY DEF Init, IsApproved
  <2> QED
    BY <1>4, <2>1, <2>2, LeavesName DEF LeavesHeld, HoldersPlaced, KeyAt, ApprovalAt
<1>11. RootsInv
  <2>1. Zeros(Depth) # NoNode
    BY RootsAreStored
  <2>2. \A t \in Trees :
            /\ root[t] = IF t = 0 THEN Zeros(Depth) ELSE NoNode
            /\ DOMAIN lastSeen[t] = IF t = 0 THEN {Zeros(Depth)} ELSE {}
    BY DEF Init
  <2>3. RootsTyped
    BY DEF Init, RootsTyped
  <2> QED
    BY <1>1, <2>1, <2>2, <2>3 DEF RootsInv, RootsRemembered
<1> QED
  BY <1>6, <1>7, <1>8, <1>9, <1>10, <1>11 DEF LeavesInv, TreesInv

(* One step: every action writes one leaf, or none.                        *)
LEMMA StepLeaves ==
    ASSUME Inv, LeavesInv, RootsInv, [Next]_vars
    PROVE  LeavesInv' /\ RootsInv'
<1> USE DEF Inv
<1>1. CASE NextBlock
  BY <1>1, BlockKeeps
<1>2. ASSUME UNCHANGED <<treeVars, slotVars, keyVars, approvalInfo>> PROVE LeavesInv' /\ RootsInv'
  <2>1. LeavesInv'
    BY <1>2, LeavesStay DEF treeVars, slotVars, keyVars
  <2>2. RootsInv'
    BY <1>2 DEF RootsInv, RootsTyped, RootsRemembered, treeVars, slotVars, NoNode
  <2> QED
    BY <2>1, <2>2
<1>3. ASSUME NEW account \in Account, CreateAccount(account) PROVE LeavesInv' /\ RootsInv'
  BY <1>2, <1>3 DEF CreateAccount
<1>4. ASSUME NEW account \in Account, NEW batch \in Batch, NEW expiry \in Expiries,
             ApproveSpendBatch(account, batch, expiry)
      PROVE  LeavesInv' /\ RootsInv'
  BY <1>4, ApproveLeaves
<1>5. ASSUME NEW account \in Account, NEW batch \in Batch, RevokeSpendApprovalBatch(account, batch)
      PROVE  LeavesInv' /\ RootsInv'
  BY <1>5, RevokeApprovalLeaves
<1>6. ASSUME NEW account \in Account, NEW key \in Key, NEW expiry \in Expiries, NEW n \in 0..MaxNonce,
             Register(account, key, expiry, n)
      PROVE  LeavesInv' /\ RootsInv'
  BY <1>6, RegisterLeaves
<1>7. ASSUME NEW account \in Account, NEW key \in Key, NEW expiry \in Expiries, NEW n \in 0..MaxNonce, NEW new \in Key,
             Rotate(account, key, new, expiry, n)
      PROVE  LeavesInv' /\ RootsInv'
  BY <1>7, RotateLeaves
<1>8. ASSUME NEW account \in Account, NEW key \in Key, NEW expiry \in Expiries, NEW n \in 0..MaxNonce,
             Revoke(account, key, expiry, n)
      PROVE  LeavesInv' /\ RootsInv'
  BY <1>8, RevokeLeaves
<1>9. CASE UNCHANGED vars
  BY <1>2, <1>9 DEF vars
<1> QED
  BY <1>1, <1>3, <1>4, <1>5, <1>6, <1>7, <1>8, <1>9 DEF Next

(* The trees commit to the leaves, the leaves name the holders, and the    *)
(* superseded roots carry the block they were last seen in (code:          *)
(* _allocateLeafSlot, _updateLeaf and hashAuthPath).                       *)
THEOREM LeavesInvariant == Spec => [](LeavesInv /\ RootsInv)
<1>1. Init => LeavesInv /\ RootsInv
  BY InitLeaves
<1>2. Inv /\ LeavesInv /\ RootsInv /\ [Next]_vars => LeavesInv' /\ RootsInv'
  BY StepLeaves
<1> QED
  BY <1>1, <1>2, AuthInvariant, PTL DEF Spec

(* The root of every tree commits to exactly its leaves, and these belong  *)
(* to exactly the live keys and approvals: nothing revoked or replaced can *)
(* be proved to be a member, and everything live can (code: _updateLeaf,   *)
(* _registerAccount, _rotate, _revoke, _approveSpendBatch).                *)
THEOREM LeavesAreExact == Spec => []LeavesExact
<1>1. Inv /\ LeavesInv => LeavesExact
  <2> SUFFICES ASSUME Inv, LeavesInv PROVE LeavesExact
    OBVIOUS
  <2>1. RootsCommitToLeaves
    <3> SUFFICES ASSUME NEW tree \in 0..currentAuthTreeNumber
                 PROVE  root[tree] = [j \in 1..Leaves |-> LeafAt(tree, j - 1)]
      BY DEF RootsCommitToLeaves
    <3>1. tree \in Trees /\ tree <= currentAuthTreeNumber
      BY TreesAssumption DEF Inv, Types, Trees
    <3>2. root[tree] = Under(tree, Depth, 0)
      BY <3>1 DEF LeavesInv, TreesInv, RootsCommit
    <3>3. \A j \in 1..Leaves : 0 * Leaves + (j - 1) = j - 1
      BY WidthsFill, TreesAssumption DEF Leaves
    <3> QED
      BY <3>2, <3>3 DEF Under, Leaves
  <2>2. ApprovalOnlyHoldsNoKeys
    BY DEF Inv, Types, OnlyOwnedHoldKeys, HoldsNoKeys, ApprovalOnlyHoldsNoKeys
  <2>3. LeavesBelongToLiveHolders
    <3> SUFFICES ASSUME NEW slot \in Slots
                 PROVE  LET leaf == LeafAt(slot.tree, slot.index)
                            owners(kind) ==
                                IF leaf # NoLeaf /\ leaf.kind = kind
                                THEN {[account |-> leaf.account, id |-> leaf.id]}
                                ELSE {}
                        IN  /\ owners("key") =
                                    {h \in [account : Account, id : Key] :
                                        IsLive(h.account, h.id) /\ Slot(keyInfo[h.account][h.id]) = slot}
                            /\ owners("approval") =
                                    {h \in [account : Account, id : Batch] :
                                        LET info == approvalInfo[h.account][h.id]
                                        IN  info.exists /\ ~info.revoked /\ Slot(info) = slot}
      BY DEF LeavesBelongToLiveHolders
    <3> DEFINE tree == slot.tree
               index == slot.index
               leaf == LeafAt(tree, index)
               owners(kind) ==
                  IF leaf # NoLeaf /\ leaf.kind = kind THEN {[account |-> leaf.account, id |-> leaf.id]} ELSE {}
    <3>1. tree \in Trees /\ index \in Indices /\ slot = [tree |-> tree, index |-> index]
      BY DEF Slots, Indices
    <3>2. \A info : Slot(info) = slot <=> info.tree = tree /\ info.index = index
      BY <3>1 DEF Slot
    <3>3. /\ leaf \in LeafValues
          /\ \A account \in Account, key \in Key :
                KeyAt(account, key, tree, index) <=> Names(leaf, "key", account, key)
          /\ \A account \in Account, batch \in Batch :
                ApprovalAt(account, batch, tree, index) <=> Names(leaf, "approval", account, batch)
      BY <3>1 DEF LeavesInv, LeavesHeld
    <3> HIDE DEF leaf, tree, index
    <3>4. /\ leaf # NoLeaf /\ leaf.kind = "key" => leaf.account \in Account /\ leaf.id \in Key
          /\ leaf # NoLeaf /\ leaf.kind = "approval" => leaf.account \in Account /\ leaf.id \in Batch
      BY <3>3 DEF LeafValues, KeyLeaf, ApprovalLeaf
    <3>5. owners("key") = {h \in [account : Account, id : Key] :
                              IsLive(h.account, h.id) /\ Slot(keyInfo[h.account][h.id]) = slot}
      <4>1. ASSUME NEW h \in [account : Account, id : Key]
            PROVE  h \in owners("key") <=> IsLive(h.account, h.id) /\ Slot(keyInfo[h.account][h.id]) = slot
        <5>1. h = [account |-> h.account, id |-> h.id] /\ h.account \in Account /\ h.id \in Key
          OBVIOUS
        <5>2. h \in owners("key") <=> Names(leaf, "key", h.account, h.id)
          BY <5>1 DEF Names
        <5> QED
          BY <3>2, <3>3, <5>1, <5>2 DEF KeyAt
      <4>2. owners("key") \subseteq [account : Account, id : Key]
        BY <3>4
      <4> HIDE DEF owners
      <4> QED
        BY <4>1, <4>2
    <3>6. owners("approval") = {h \in [account : Account, id : Batch] :
                              LET info == approvalInfo[h.account][h.id]
                              IN  info.exists /\ ~info.revoked /\ Slot(info) = slot}
      <4>1. ASSUME NEW h \in [account : Account, id : Batch]
            PROVE  h \in owners("approval") <=>
                    LET info == approvalInfo[h.account][h.id]
                    IN  info.exists /\ ~info.revoked /\ Slot(info) = slot
        <5>1. h = [account |-> h.account, id |-> h.id] /\ h.account \in Account /\ h.id \in Batch
          OBVIOUS
        <5>2. h \in owners("approval") <=> Names(leaf, "approval", h.account, h.id)
          BY <5>1 DEF Names
        <5> QED
          BY <3>2, <3>3, <5>1, <5>2 DEF ApprovalAt, IsApproved
      <4>2. owners("approval") \subseteq [account : Account, id : Batch]
        BY <3>4
      <4> HIDE DEF owners
      <4> QED
        BY <4>1, <4>2
    <3> QED
      BY <3>5, <3>6 DEF leaf, tree, index
  <2> QED
    BY <2>1, <2>2, <2>3 DEF LeavesExact
<1> QED
  BY <1>1, AuthInvariant, LeavesInvariant, PTL

(* A root is accepted exactly if it is its tree's or was within the last   *)
(* maxStaleness blocks (code: _isRecentAuthTreeRoot, and the block that    *)
(* _updateLeaf writes beside a superseded root).                           *)
THEOREM RecentRootsAccepted == Spec => []AcceptedRootsAreRecent
<1>1. LeavesInv /\ RootsInv => AcceptedRootsAreRecent
  <2> SUFFICES ASSUME LeavesInv, RootsInv,
                      NEW tree \in Trees, NEW r \in DOMAIN lastSeen[tree], NEW staleness \in Stalenesses
               PROVE  IsRecentAuthTreeRoot(tree, r, staleness)
                        <=> r = root[tree] \/ (staleness > 0 /\ block - lastSeen[tree][r] <= staleness)
    BY DEF AcceptedRootsAreRecent
  <2>1. tree <= currentAuthTreeNumber
    BY DEF RootsInv, RootsRemembered
  <2>2. r # NoNode /\ (r # root[tree] => r \in DOMAIN anchors[tree] /\ anchors[tree][r] = lastSeen[tree][r])
    BY <2>1 DEF RootsInv, RootsRemembered
  <2>3. staleness \in Nat
    BY StalenessesAssumption
  <2>4. staleness # 0 <=> staleness > 0
    BY <2>3
  <2> QED
    BY <2>1, <2>2, <2>4 DEF IsRecentAuthTreeRoot
<1> QED
  BY <1>1, LeavesInvariant, PTL

-----------------------------------------------------------------------------
(* ForcedWithdrawal.                                                       *)

(***************************************************************************)
(* The inductive invariant.  The spent notes are those with a nullifier in *)
(* the shared set, each spent once; a pending request has distinct inputs  *)
(* and at least one of them, and the commitments lead to the requests that *)
(* name them.                                                              *)
(***************************************************************************)
SpendsMatch ==
    /\ timesSpent \in [Note -> Nat]
    /\ \A n \in Note : timesSpent[n] = IF n \in nullifierSpent THEN 1 ELSE 0

RequestsShaped ==
    \A key \in Requested :
        /\ key # NoRequest
        /\ NoDuplicates(key.nullifiers)
        /\ \E c \in Commitment : c \in ToSet(key.commitments)

ForcedInv ==
    /\ SpendsMatch
    /\ RequestsShaped
    /\ BindingsExact
    /\ DOMAIN commitmentToRequestKey = Commitment

-----------------------------------------------------------------------------
(* A list without repetitions names each of its notes once.                *)
LEMMA TimesOnce ==
    ASSUME NEW nullifiers, NEW n, NoDuplicates(nullifiers)
    PROVE  Times(n, nullifiers) = IF n \in ToSet(nullifiers) THEN 1 ELSE 0
<1>1. CASE n \in ToSet(nullifiers)
    <2>1. PICK r \in DOMAIN nullifiers : nullifiers[r] = n
        BY <1>1 DEF ToSet
    <2>2. {s \in DOMAIN nullifiers : nullifiers[s] = n} = {r}
        BY <2>1 DEF NoDuplicates
    <2> QED BY <1>1, <2>2, FS_Singleton DEF Times
<1>2. CASE n \notin ToSet(nullifiers)
    <2>1. {s \in DOMAIN nullifiers : nullifiers[s] = n} = {}
        BY <1>2 DEF ToSet
    <2> QED BY <1>2, <2>1, FS_EmptySet DEF Times
<1> QED BY <1>1, <1>2

(* Clearing a request frees its commitments and touches no other request.  *)
LEMMA ClearRequestInv ==
    ASSUME ForcedInv, NEW key \in Requested, ClearRequest(key)
    PROVE  RequestsShaped' /\ BindingsExact' /\ (DOMAIN commitmentToRequestKey = Commitment)'
<1>1. Requested' = Requested \ {key}
    BY DEF ClearRequest, Requested
<1>2. \A c \in Commitment :
        commitmentToRequestKey'[c] =
            IF c \in ToSet(key.commitments) THEN NoRequest ELSE commitmentToRequestKey[c]
    BY DEF ClearRequest
<1>3. RequestsShaped'
    BY <1>1 DEF ForcedInv, RequestsShaped
<1>4. BindingsExact'
    <2> SUFFICES ASSUME NEW c \in Commitment
                 PROVE  /\ \A k \in Requested' :
                                commitmentToRequestKey'[c] = k <=> c \in ToSet(k.commitments)
                        /\ commitmentToRequestKey'[c] \in Requested' \cup {NoRequest}
        BY DEF BindingsExact
    <2>1. CASE c \in ToSet(key.commitments)
        <3>1. commitmentToRequestKey[c] = key /\ commitmentToRequestKey'[c] = NoRequest
            BY <1>2, <2>1 DEF ForcedInv, BindingsExact
        <3>2. \A k \in Requested \ {key} : c \notin ToSet(k.commitments) /\ k # NoRequest
            BY <3>1 DEF ForcedInv, BindingsExact, RequestsShaped
        <3> QED BY <1>1, <3>1, <3>2
    <2>2. CASE c \notin ToSet(key.commitments)
        BY <1>1, <1>2, <2>2 DEF ForcedInv, BindingsExact
    <2> QED BY <2>1, <2>2
<1> QED BY <1>3, <1>4 DEF ClearRequest

(* A request that is accepted is new and reserves only free commitments.   *)
LEMMA RequestInv ==
    ASSUME ForcedInv,
           NEW nullifiers \in Nullifiers, NEW commitments \in InputCommitments,
           NEW account, NEW amount,
           RequestForcedWithdrawal(account, nullifiers, commitments, amount)
    PROVE  ForcedInv'
<1> DEFINE key == RequestKey(nullifiers, commitments)
<1>1. key # NoRequest /\ key.nullifiers = nullifiers /\ key.commitments = commitments
    BY NoRequestAssumption DEF RequestKey
<1>2. /\ NoDuplicates(nullifiers)
      /\ \A c \in ToSet(commitments) : commitmentToRequestKey[c] = NoRequest
    BY DEF RequestForcedWithdrawal, ValidateFreshRequest
<1>3. ToSet(commitments) \subseteq Commitment /\ 1 \in DOMAIN nullifiers
    <2>1. PICK m \in 0..MaxInputs : commitments \in [1..m -> Commitment]
        BY DEF InputCommitments, BoundedSeq, SeqOf
    <2>2. PICK l \in 0..MaxInputs : nullifiers \in [1..l -> Note]
        BY DEF Nullifiers, BoundedSeq, SeqOf
    <2>3. l # 0
        BY <2>2 DEF RequestForcedWithdrawal
    <2> QED BY <2>1, <2>2, <2>3 DEF ToSet
<1>4. DOMAIN commitments = DOMAIN nullifiers
    BY DEF RequestForcedWithdrawal, ForcedWithdrawCircuit
<1>5. PICK c0 \in Commitment : c0 \in ToSet(commitments)
    BY <1>3, <1>4 DEF ToSet
<1> HIDE DEF key
<1>6. key \notin Requested
    BY <1>1, <1>2, <1>5 DEF ForcedInv, BindingsExact
<1>7. Requested' = Requested \cup {key}
    BY DEF RequestForcedWithdrawal, Requested, key
<1>8. /\ DOMAIN commitmentToRequestKey' = Commitment
      /\ \A c \in Commitment :
            commitmentToRequestKey'[c] =
                IF c \in ToSet(commitments) THEN key ELSE commitmentToRequestKey[c]
    BY DEF RequestForcedWithdrawal, key
<1>9. SpendsMatch'
    BY DEF RequestForcedWithdrawal, fundVars, ForcedInv, SpendsMatch
<1>10. RequestsShaped'
    BY <1>1, <1>2, <1>5, <1>7 DEF ForcedInv, RequestsShaped
<1>11. BindingsExact'
    <2> SUFFICES ASSUME NEW c \in Commitment
                 PROVE  /\ \A k \in Requested' :
                                commitmentToRequestKey'[c] = k <=> c \in ToSet(k.commitments)
                        /\ commitmentToRequestKey'[c] \in Requested' \cup {NoRequest}
        BY DEF BindingsExact
    <2>1. CASE c \in ToSet(commitments)
        <3>1. \A k \in Requested : c \notin ToSet(k.commitments)
            BY <1>2, <2>1 DEF ForcedInv, BindingsExact, RequestsShaped
        <3> QED BY <1>1, <1>6, <1>7, <1>8, <2>1, <3>1
    <2>2. CASE c \notin ToSet(commitments)
        BY <1>1, <1>6, <1>7, <1>8, <2>2 DEF ForcedInv, BindingsExact
    <2> QED BY <2>1, <2>2
<1> QED BY <1>8, <1>9, <1>10, <1>11 DEF ForcedInv

(* An execution spends notes that no epoch and no other request has spent. *)
LEMMA ExecuteInv ==
    ASSUME ForcedInv, NEW key \in Requested, NEW nullifiers, NEW commitments,
           ExecuteForcedWithdrawal(key, nullifiers, commitments)
    PROVE  ForcedInv'
<1>1. NoDuplicates(nullifiers)
    <2>1. key.nullifiers = nullifiers
        BY DEF ExecuteForcedWithdrawal, LoadedRequest, RequestKey
    <2> QED BY <2>1 DEF ForcedInv, RequestsShaped
<1>2. SpendsMatch'
    <2>1. /\ nullifierSpent' = nullifierSpent \cup ToSet(nullifiers)
          /\ timesSpent' = [n \in Note |-> timesSpent[n] + Times(n, nullifiers)]
          /\ ToSet(nullifiers) \cap nullifierSpent = {}
        BY DEF ExecuteForcedWithdrawal, Settle, RequireUnspent
    <2>2. \A n \in Note : Times(n, nullifiers) = IF n \in ToSet(nullifiers) THEN 1 ELSE 0
        BY <1>1, TimesOnce
    <2> QED BY <2>1, <2>2 DEF ForcedInv, SpendsMatch
<1>3. ClearRequest(key)
    BY DEF ExecuteForcedWithdrawal, Settle
<1> QED BY <1>2, <1>3, ClearRequestInv DEF ForcedInv

-----------------------------------------------------------------------------
(* The invariant is inductive.                                             *)

LEMMA ForcedInvInit == ForcedInit => ForcedInv
<1> SUFFICES ASSUME ForcedInit PROVE ForcedInv
    OBVIOUS
<1>1. Requested = {}
    BY DEF ForcedInit, Requested
<1> QED BY <1>1 DEF ForcedInit, ForcedInv, SpendsMatch, RequestsShaped, BindingsExact

(* Requests, executions, cancellations, prunings and epochs all keep the
   reservations and the counts of spends. *)
LEMMA ForcedInvNext == ForcedInv /\ [ForcedNext]_forcedVars => ForcedInv'
<1> SUFFICES ASSUME ForcedInv, [ForcedNext]_forcedVars
             PROVE  ForcedInv'
    OBVIOUS
<1>1. CASE Request
    BY <1>1, RequestInv DEF Request
<1>2. CASE Execute
    BY <1>2, ExecuteInv DEF Execute
<1>3. CASE Cancel
    <2>1. PICK key \in Requested : ClearRequest(key) /\ UNCHANGED fundVars
        BY <1>3 DEF Cancel, CancelForcedWithdrawal
    <2>2. SpendsMatch'
        BY <2>1 DEF fundVars, ForcedInv, SpendsMatch
    <2> QED BY <2>1, <2>2, ClearRequestInv DEF ForcedInv
<1>4. ASSUME NEW n \in Note, SubmitEpoch(n)
      PROVE  ForcedInv'
    <2>1. SpendsMatch'
        BY <1>4 DEF SubmitEpoch, ForcedInv, SpendsMatch
    <2>2. UNCHANGED requestVars
        BY <1>4 DEF SubmitEpoch
    <2> QED BY <2>1, <2>2 DEF requestVars, ForcedInv, RequestsShaped, BindingsExact, Requested
<1>5. CASE Mine
    <2>1. Requested' = Requested
        BY <1>5 DEF Mine, Requested
    <2> QED BY <1>5, <2>1 DEF Mine, fundVars, ForcedInv, SpendsMatch, RequestsShaped, BindingsExact
<1>6. CASE UNCHANGED <<requestVars, fundVars>>
    BY <1>6 DEF requestVars, fundVars, ForcedInv, SpendsMatch, RequestsShaped, BindingsExact, Requested
<1>7. CASE Configure
    BY <1>6, <1>7 DEF Configure, SetFees, SetTreasury, Upgrade, ChangeAuth
<1>8. CASE UNCHANGED forcedVars
    BY <1>6, <1>8 DEF forcedVars
<1> QED BY <1>1, <1>2, <1>3, <1>4, <1>5, <1>7, <1>8 DEF ForcedNext

-----------------------------------------------------------------------------
(* The theorems.                                                           *)

(* Requests are well formed and reserve their commitments, and spends      *)
(* agree with the nullifier set.                                           *)
THEOREM ForcedInvariant == ForcedSpec => []ForcedInv
BY ForcedInvInit, ForcedInvNext, PTL DEF ForcedSpec

(* Epochs and forced withdrawals (LibEpoch._spendNullifiers and the check  *)
(* LibForced repeats at execution) never both spend a note.                *)
THEOREM NotesSpentOnce == ForcedSpec => []SpentOnce
<1>1. ForcedInv => SpentOnce
    BY DEF ForcedInv, SpendsMatch, SpentOnce
<1> QED BY <1>1, ForcedInvariant, PTL

(* A commitment is reserved exactly by the pending request that names it   *)
(* (LibForced: the bindings set with a request and cleared with it).       *)
THEOREM ReservationsExact == ForcedSpec => []BindingsExact
<1>1. ForcedInv => BindingsExact
    BY DEF ForcedInv
<1> QED BY <1>1, ForcedInvariant, PTL
-----------------------------------------------------------------------------
(* Money.  The notes and their values as a function to add up.             *)

NoteValue == [n \in Note |-> ValueOf[CommitmentOf[n]]]

Unspent == Note \ nullifierSpent

(* What a pending request was accepted with: it lists notes, and its       *)
(* amount is their value.  The fee rates are those that owners may set.    *)
AmountsExact ==
    \A key \in Requested :
        /\ ToSet(key.nullifiers) \subseteq Note
        /\ forcedWithdrawalRequests[key].amount = Value(ToSet(key.nullifiers))
        /\ forcedWithdrawalRequests[key].withdrawFeeBps \in FeeRates

FundsInv ==
    /\ ForcedInv
    /\ AmountsExact
    /\ withdrawFeeBps \in FeeRates
    /\ received \in Int
    /\ balance = Value(Unspent)

(* Values are numbers.                                                     *)
LEMMA NoteValues ==
    \A n \in Note : NoteValue[n] = ValueOf[CommitmentOf[n]] /\ NoteValue[n] \in Nat
BY NotesAssumption DEF NoteValue

(* The fold of the community modules is the sum.                           *)
LEMMA ValueIsTotal ==
    ASSUME NEW S \in SUBSET Note
    PROVE  /\ IsFiniteSet(S)
           /\ Value(S) = Total(NoteValue, S)
           /\ Value(S) \in Nat
<1> DEFINE body(g) == [T \in SUBSET S |->
                            IF T = {} THEN 0
                            ELSE LET x == CHOOSE x \in T : TRUE
                                 IN ValueOf[CommitmentOf[x]] + g[T \ {x}]]
           iter == CHOOSE g : g = body(g)
<1>1. Value(S) = iter[S]
    BY DEF Value, MapThenSumSet, MapThenFoldSet
<1>2. ASSUME NEW g PROVE IsSum(g, NoteValue, S) <=> g = body(g)
    <2>1. ASSUME NEW T \in SUBSET S, T # {} PROVE NoteValue[OneOf(T)] = ValueOf[CommitmentOf[OneOf(T)]]
        BY <2>1, OneOfIsElement DEF NoteValue
    <2> QED BY <2>1 DEF IsSum, OneOf
<1>3. IsFiniteSet(S)
    BY FiniteAssumption, FS_Subset
<1>4. IsSum(iter, NoteValue, S)
    <2>1. SumOfSubsets(NoteValue, S) = body(SumOfSubsets(NoteValue, S))
        BY <1>2, <1>3, SumExists
    <2>2. iter = body(iter)
        <3> HIDE DEF body
        <3> QED BY <2>1
    <2> HIDE DEF body, iter
    <2> QED BY <1>2, <2>2
<1>5. iter[S] = Total(NoteValue, S)
    <2> HIDE DEF iter
    <2> QED BY <1>3, <1>4, SumExists, SumUnique DEF Total
<1> HIDE DEF iter
<1>6. Total(NoteValue, S) \in Nat
    BY <1>3, NoteValues, TotalNat
<1> QED BY <1>1, <1>3, <1>5, <1>6

(* Notes that are spent take their value with them.                        *)
LEMMA SpendingValue ==
    ASSUME NEW S \in SUBSET Note, NEW R \in SUBSET S
    PROVE  Value(S \ R) = Value(S) - Value(R)
<1>1. \A n \in S : NoteValue[n] \in Int
    BY NoteValues
<1>2. IsFiniteSet(S)
    BY ValueIsTotal
<1>3. Total(NoteValue, S \ R) = Total(NoteValue, S) - Total(NoteValue, R)
    BY <1>1, <1>2, TotalWithout
<1>4. Value(S) = Total(NoteValue, S) /\ Value(R) = Total(NoteValue, R) /\ Value(S \ R) = Total(NoteValue, S \ R)
    BY ValueIsTotal
<1> QED BY <1>3, <1>4

(* What the circuit adds up, input by input, is the value of the notes,    *)
(* when no note is named twice.                                            *)
LEMMA CircuitAmount ==
    ASSUME NEW nullifiers \in Nullifiers, NEW commitments, NEW account, NEW amount,
           NoDuplicates(nullifiers),
           ForcedWithdrawCircuit(account, nullifiers, commitments, amount)
    PROVE  ToSet(nullifiers) \subseteq Note /\ amount = Value(ToSet(nullifiers))
<1> DEFINE S == DOMAIN nullifiers
           F == [i \in S |-> ValueOf[commitments[i]]]
           body(g) == [T \in SUBSET S |->
                            IF T = {} THEN 0
                            ELSE LET x == CHOOSE x \in T : TRUE
                                 IN ValueOf[commitments[x]] + g[T \ {x}]]
           iter == CHOOSE g : g = body(g)
<1>1. /\ \A i \in S : nullifiers[i] \in Note
      /\ IsFiniteSet(S)
    <2>1. PICK l \in 0..MaxInputs : nullifiers \in [1..l -> Note]
        BY DEF Nullifiers, BoundedSeq, SeqOf
    <2>2. IsFiniteSet(1..l)
        BY FS_Interval
    <2> QED BY <2>1, <2>2
<1>2. /\ DOMAIN commitments = S
      /\ \A i \in S : commitments[i] = CommitmentOf[nullifiers[i]]
      /\ amount = MapThenSumSet(LAMBDA i : ValueOf[commitments[i]], DOMAIN commitments)
    BY DEF ForcedWithdrawCircuit
<1>3. amount = iter[S]
    BY <1>2 DEF MapThenSumSet, MapThenFoldSet
<1>4. ASSUME NEW g PROVE IsSum(g, F, S) <=> g = body(g)
    <2>1. ASSUME NEW T \in SUBSET S, T # {} PROVE F[OneOf(T)] = ValueOf[commitments[OneOf(T)]]
        BY <2>1, OneOfIsElement
    <2> QED BY <2>1 DEF IsSum, OneOf
<1>5. iter[S] = Total(F, S)
    <2>1. SumOfSubsets(F, S) = body(SumOfSubsets(F, S))
        <3> HIDE DEF body, F, S
        <3> QED BY <1>1, <1>4, SumExists
    <2>2. iter = body(iter)
        <3> HIDE DEF body
        <3> QED BY <2>1
    <2> HIDE DEF body, iter, F, S
    <2>3. IsSum(iter, F, S)
        BY <1>4, <2>2
    <2> QED BY <1>1, <2>3, SumExists, SumUnique DEF Total
<1>6. ToSet(nullifiers) = {nullifiers[i] : i \in S} /\ ToSet(nullifiers) \in SUBSET Note
    BY <1>1 DEF ToSet
<1>7. \A i \in S : NoteValue[nullifiers[i]] = F[i] /\ F[i] \in Int
    BY <1>1, <1>2, NoteValues
<1>8. \A i, j \in S : nullifiers[i] = nullifiers[j] => i = j
    BY DEF NoDuplicates
<1> HIDE DEF S, F, iter
<1>9. Total(NoteValue, {nullifiers[i] : i \in S}) = Total(F, S)
    BY <1>1, <1>7, <1>8, TotalRenamed
<1>10. Value(ToSet(nullifiers)) = Total(NoteValue, ToSet(nullifiers))
    BY <1>6, ValueIsTotal
<1>11. Value(ToSet(nullifiers)) = Total(F, S)
    BY <1>6, <1>9, <1>10, Zenon
<1> QED BY <1>3, <1>5, <1>6, <1>11

(* A fee is a number, and not negative.                                    *)
LEMMA FeeIsNat ==
    ASSUME NEW amount \in Nat, NEW bps \in Nat
    PROVE  Fee(amount, bps) \in Nat
<1>1. amount * bps \in Int /\ amount * bps >= 0
    BY Z3
<1> DEFINE product == amount * bps
<1>2. ASSUME NEW p \in Int, p >= 0 PROVE p \div 10000 \in Int /\ p \div 10000 >= 0
    BY <1>2
<1> QED BY <1>1, <1>2 DEF Fee, BASIS_POINTS

(* Fee or no fee, an execution takes the amount of its request out of the  *)
(* pool, and its recipient gets all but the fee that was signed.           *)
LEMMA ExecutionPays ==
    ASSUME FundsInv, NEW key \in Requested, NEW nullifiers, NEW commitments,
           ExecuteForcedWithdrawal(key, nullifiers, commitments)
    PROVE  LET request == forcedWithdrawalRequests[key]
           IN  /\ key.nullifiers = nullifiers
               /\ request.amount = Value(ToSet(nullifiers)) /\ request.amount \in Nat
               /\ balance' = balance - request.amount
               /\ received' \in Int
               /\ received' - received >= request.amount - Fee(request.amount, request.withdrawFeeBps)
<1> DEFINE request == forcedWithdrawalRequests[key]
           fee == Fee(request.amount, request.withdrawFeeBps)
<1>1. key.nullifiers = nullifiers
    BY DEF ExecuteForcedWithdrawal, LoadedRequest, RequestKey
<1>2. /\ request.amount = Value(ToSet(nullifiers))
      /\ ToSet(nullifiers) \in SUBSET Note
      /\ request.withdrawFeeBps \in Nat
    BY <1>1, RatesAssumption DEF FundsInv, AmountsExact
<1>3. request.amount \in Nat
    BY <1>2, ValueIsTotal
<1>4. fee \in Nat
    BY <1>2, <1>3, FeeIsNat
<1>5. balance \in Int /\ received \in Int
    <2>1. Unspent \in SUBSET Note
        BY DEF Unspent
    <2> QED BY <2>1, ValueIsTotal DEF FundsInv
<1>6. /\ FeeAmount(request) \in {0, fee}
      /\ balance' = balance - (request.amount - FeeAmount(request)) - FeeAmount(request)
      /\ received' = received + (request.amount - FeeAmount(request))
    BY DEF ExecuteForcedWithdrawal, Settle, FeeAmount
<1> HIDE DEF fee, request
<1>7. FeeAmount(request) \in Int /\ FeeAmount(request) <= fee
    BY <1>4, <1>6
<1>8. /\ balance' = balance - request.amount
      /\ received' \in Int
      /\ received' - received >= request.amount - fee
    BY <1>3, <1>4, <1>5, <1>6, <1>7
<1> QED BY <1>1, <1>2, <1>3, <1>8 DEF request, fee

(* Requests that stay are as they were.                                    *)
LEMMA AmountsStay ==
    ASSUME AmountsExact, Requested' \subseteq Requested,
           \A key \in Requested' :
                /\ forcedWithdrawalRequests'[key].amount = forcedWithdrawalRequests[key].amount
                /\ forcedWithdrawalRequests'[key].withdrawFeeBps
                        = forcedWithdrawalRequests[key].withdrawFeeBps
    PROVE  AmountsExact'
BY DEF AmountsExact

(* So they are when another one is cleared.                                *)
LEMMA ClearRequestAmounts ==
    ASSUME AmountsExact, NEW key \in Requested, ClearRequest(key)
    PROVE  AmountsExact' /\ Requested' = Requested \ {key}
<1>1. Requested' = Requested \ {key}
    BY DEF ClearRequest, Requested
<1>2. \A k \in Requested' : forcedWithdrawalRequests'[k] = forcedWithdrawalRequests[k]
    BY <1>1 DEF ClearRequest
<1> QED BY <1>1, <1>2, AmountsStay

(* The invariant is inductive.                                             *)
LEMMA FundsInvInit == ForcedInit => FundsInv
<1> SUFFICES ASSUME ForcedInit PROVE FundsInv
    OBVIOUS
<1>1. Requested = {} /\ Unspent = Note
    BY DEF ForcedInit, Requested, Unspent
<1> QED BY <1>1, ForcedInvInit DEF ForcedInit, FundsInv, AmountsExact

(* The pool pays only for notes that it marks, and pays what they are worth;
   a new request signs the amount of its notes. *)
LEMMA FundsInvNext == FundsInv /\ [ForcedNext]_forcedVars => FundsInv'
<1> SUFFICES ASSUME FundsInv, [ForcedNext]_forcedVars
             PROVE  AmountsExact' /\ withdrawFeeBps' \in FeeRates /\ received' \in Int
                        /\ balance' = Value(Unspent')
    BY ForcedInvNext DEF FundsInv
<1>1. CASE Request
    <2>1. PICK nullifiers \in Nullifiers, commitments \in InputCommitments, account \in AccountId, amount \in Amounts :
                RequestForcedWithdrawal(account, nullifiers, commitments, amount)
        BY <1>1 DEF Request
    <2> DEFINE key == RequestKey(nullifiers, commitments)
    <2>2. key.nullifiers = nullifiers
        BY DEF RequestKey
    <2>3. ToSet(nullifiers) \subseteq Note /\ amount = Value(ToSet(nullifiers))
        BY <2>1, CircuitAmount DEF RequestForcedWithdrawal, ValidateFreshRequest
    <2>4. /\ forcedWithdrawalRequests' =
                [k \in Requested \cup {key} |->
                    IF k = key
                    THEN [age |-> 0, amount |-> amount, withdrawFeeBps |-> withdrawFeeBps,
                          account |-> account]
                    ELSE forcedWithdrawalRequests[k]]
          /\ UNCHANGED <<configVars, fundVars>>
        BY <2>1 DEF RequestForcedWithdrawal
    <2>5. Requested' = Requested \cup {key}
        BY <2>4 DEF Requested
    <2> HIDE DEF key
    <2>6. AmountsExact'
        <3> SUFFICES ASSUME NEW k \in Requested'
                     PROVE  /\ ToSet(k.nullifiers) \subseteq Note
                            /\ forcedWithdrawalRequests'[k].amount = Value(ToSet(k.nullifiers))
                            /\ forcedWithdrawalRequests'[k].withdrawFeeBps \in FeeRates
            BY DEF AmountsExact
        <3>1. CASE k = key
            BY <2>2, <2>3, <2>4, <2>5, <3>1 DEF FundsInv
        <3>2. CASE k # key
            BY <2>4, <2>5, <3>2 DEF FundsInv, AmountsExact
        <3> QED BY <3>1, <3>2
    <2> QED BY <2>4, <2>6 DEF configVars, fundVars, FundsInv, Unspent
<1>2. CASE Execute
    <2>1. PICK nullifiers \in Nullifiers, commitments \in InputCommitments, key \in Requested :
                ExecuteForcedWithdrawal(key, nullifiers, commitments)
        BY <1>2 DEF Execute
    <2>2. /\ key.nullifiers = nullifiers
          /\ forcedWithdrawalRequests[key].amount = Value(ToSet(nullifiers))
          /\ balance' = balance - forcedWithdrawalRequests[key].amount
          /\ received' \in Int
        BY <2>1, ExecutionPays
    <2>3. /\ ToSet(nullifiers) \cap nullifierSpent = {}
          /\ nullifierSpent' = nullifierSpent \cup ToSet(nullifiers)
          /\ ClearRequest(key)
          /\ withdrawFeeBps' = withdrawFeeBps
        BY <2>1 DEF ExecuteForcedWithdrawal, RequireUnspent, Settle, configVars
    <2>4. ToSet(nullifiers) \subseteq Note
        BY <2>2 DEF FundsInv, AmountsExact
    <2>5. /\ Unspent' = Unspent \ ToSet(nullifiers)
          /\ ToSet(nullifiers) \in SUBSET Unspent
          /\ Unspent \in SUBSET Note
        BY <2>3, <2>4 DEF Unspent
    <2>6. Value(Unspent \ ToSet(nullifiers)) = Value(Unspent) - Value(ToSet(nullifiers))
        BY <2>5, SpendingValue
    <2>7. balance' = Value(Unspent')
        BY <2>2, <2>5, <2>6 DEF FundsInv
    <2> QED BY <2>2, <2>3, <2>7, ClearRequestAmounts DEF FundsInv
<1>3. CASE Cancel
    <2>1. PICK key \in Requested : ClearRequest(key) /\ UNCHANGED <<configVars, fundVars>>
        BY <1>3 DEF Cancel, CancelForcedWithdrawal
    <2> QED BY <2>1, ClearRequestAmounts DEF configVars, fundVars, FundsInv, Unspent
<1>4. ASSUME NEW n \in Note, SubmitEpoch(n)
      PROVE  AmountsExact' /\ withdrawFeeBps' \in FeeRates /\ received' \in Int
                /\ balance' = Value(Unspent')
    <2>1. /\ n \notin nullifierSpent
          /\ nullifierSpent' = nullifierSpent \cup {n}
          /\ balance' = balance - ValueOf[CommitmentOf[n]]
          /\ UNCHANGED <<configVars, requestVars, received>>
        BY <1>4 DEF SubmitEpoch
    <2>2. Unspent' = Unspent \ {n} /\ {n} \in SUBSET Unspent /\ Unspent \in SUBSET Note
        BY <2>1 DEF Unspent
    <2>3. Value({n}) = ValueOf[CommitmentOf[n]]
        <3>1. Total(NoteValue, {n}) = NoteValue[n] + Total(NoteValue, {n} \ {n})
            <4>1. IsFiniteSet({n})
                BY FS_Singleton
            <4>2. \A x \in {n} : NoteValue[x] \in Int
                BY NoteValues
            <4> QED BY <4>1, <4>2, TotalRemove, Zenon
        <3>2. {n} \ {n} = {}
            OBVIOUS
        <3>3. Total(NoteValue, {n}) = NoteValue[n] + 0
            BY <3>1, <3>2, TotalEmpty, Zenon
        <3> QED BY <3>3, NoteValues, ValueIsTotal
    <2>4. Value(Unspent \ {n}) = Value(Unspent) - Value({n})
        BY <2>2, SpendingValue
    <2>5. balance' = Value(Unspent')
        BY <2>1, <2>2, <2>3, <2>4 DEF FundsInv
    <2>6. AmountsExact'
        BY <2>1 DEF requestVars, FundsInv, AmountsExact, Requested
    <2> QED BY <2>1, <2>5, <2>6 DEF configVars, FundsInv
<1>5. CASE Mine
    <2>1. Requested' = Requested /\ UNCHANGED <<configVars, fundVars>>
        BY <1>5 DEF Mine, Requested
    <2>2. \A key \in Requested :
            /\ forcedWithdrawalRequests'[key].amount = forcedWithdrawalRequests[key].amount
            /\ forcedWithdrawalRequests'[key].withdrawFeeBps = forcedWithdrawalRequests[key].withdrawFeeBps
        BY <1>5 DEF Mine
    <2> QED BY <2>1, <2>2, AmountsStay DEF configVars, fundVars, FundsInv, Unspent
<1>6. CASE UNCHANGED <<requestVars, fundVars>> /\ withdrawFeeBps' \in FeeRates
    BY <1>6 DEF requestVars, fundVars, FundsInv, AmountsExact, Requested, Unspent
<1>7. CASE Configure
    BY <1>6, <1>7 DEF Configure, SetFees, SetTreasury, Upgrade, ChangeAuth, FundsInv
<1>8. CASE UNCHANGED forcedVars
    BY <1>6, <1>8 DEF forcedVars, configVars, FundsInv
<1> QED BY <1>1, <1>2, <1>3, <1>4, <1>5, <1>7, <1>8 DEF ForcedNext

(* Requests are worth their notes, and the pool the notes nobody spent.    *)
THEOREM FundsInvariant == ForcedSpec => []FundsInv
BY FundsInvInit, FundsInvNext, PTL DEF ForcedSpec

(* What left the pool is the value of the notes that were spent, by epochs *)
(* and by forced withdrawals (LibForced._settle), with a fee, with none,   *)
(* and when it is waived, for notes of any values.                         *)
THEOREM PoolKeptTheRest == ForcedSpec => []PoolKeepsTheRest
<1>1. FundsInv => PoolKeepsTheRest
    <2> SUFFICES ASSUME FundsInv PROVE PoolKeepsTheRest
        OBVIOUS
    <2>1. {n \in Note : timesSpent[n] = 0} = Unspent
        BY DEF FundsInv, ForcedInv, SpendsMatch, Unspent
    <2> QED BY <2>1 DEF FundsInv, PoolKeepsTheRest
<1> QED BY <1>1, FundsInvariant, PTL

(* A recipient gets what the account signed for less the fee it signed,    *)
(* whatever owners do to fees and treasury while the request waits         *)
(* (LibForced: the rate is kept with the request).                         *)
THEOREM RecipientsPaidAsSigned == ForcedSpec => PaidAsSigned
<1> DEFINE Paid ==
        \A key \in Requested \ Requested' :
            received' # received =>
                LET request == forcedWithdrawalRequests[key]
                IN  received' - received >= request.amount - Fee(request.amount, request.withdrawFeeBps)
<1>1. FundsInv /\ [ForcedNext]_forcedVars => Paid \/ UNCHANGED forcedVars
    <2> SUFFICES ASSUME FundsInv, [ForcedNext]_forcedVars, received' # received PROVE Paid
        OBVIOUS
    <2>1. Execute
        BY DEF ForcedNext, forcedVars, Request, RequestForcedWithdrawal, Cancel, CancelForcedWithdrawal, SubmitEpoch,
               Configure, SetFees, SetTreasury, Upgrade, ChangeAuth, Mine, fundVars
    <2>2. PICK nullifiers \in Nullifiers, commitments \in InputCommitments, key \in Requested :
                ExecuteForcedWithdrawal(key, nullifiers, commitments)
        BY <2>1 DEF Execute
    <2>3. Requested \ Requested' = {key}
        <3>1. ClearRequest(key) /\ AmountsExact
            BY <2>2 DEF ExecuteForcedWithdrawal, Settle, FundsInv
        <3> QED BY <3>1, ClearRequestAmounts
    <2> QED BY <2>2, <2>3, ExecutionPays
<1> QED BY <1>1, FundsInvariant, PTL DEF ForcedSpec, PaidAsSigned

-----------------------------------------------------------------------------
(* Ways out.  A request keeps the lists it was made with, a note for each  *)
(* commitment, all of the account that made it.                            *)
RequestsOwned ==
    \A key \in Requested :
        /\ key.nullifiers \in Seq(Note) /\ key.commitments \in Seq(Commitment)
        /\ key.commitments # <<>>
        /\ Len(key.nullifiers) = Len(key.commitments)
        /\ key = RequestKey(key.nullifiers, key.commitments)
        /\ \A c \in ToSet(key.commitments) : AccountOf[c] = forcedWithdrawalRequests[key].account

(* It is so for a request that is accepted.                                *)
LEMMA RequestOwned ==
    ASSUME NEW nullifiers \in Nullifiers, NEW commitments \in InputCommitments,
           NEW account, NEW amount, RequestsOwned,
           RequestForcedWithdrawal(account, nullifiers, commitments, amount)
    PROVE  RequestsOwned'
<1> DEFINE key == RequestKey(nullifiers, commitments)
<1>1. PICK l \in 0..MaxInputs : nullifiers \in [1..l -> Note]
    BY DEF Nullifiers, BoundedSeq, SeqOf
<1>2. PICK m \in 0..MaxInputs : commitments \in [1..m -> Commitment]
    BY DEF InputCommitments, BoundedSeq, SeqOf
<1>3. l \in Nat /\ m \in Nat
    OBVIOUS
<1>4. nullifiers \in Seq(Note) /\ Len(nullifiers) = l /\ commitments \in Seq(Commitment) /\ Len(commitments) = m
    BY <1>1, <1>2, <1>3
<1>5. DOMAIN commitments = DOMAIN nullifiers /\ \A i \in DOMAIN commitments : AccountOf[commitments[i]] = account
    BY DEF RequestForcedWithdrawal, ForcedWithdrawCircuit
<1>6. l = m
    <2>1. 1..l = 1..m
        BY <1>1, <1>2, <1>5
    <2> QED BY <1>3, <2>1
<1>7. commitments # <<>>
    <2>1. Len(nullifiers) >= 1
        BY DEF RequestForcedWithdrawal
    <2> QED BY <1>4, <1>6, <2>1
<1>8. key.nullifiers = nullifiers /\ key.commitments = commitments
    BY DEF RequestKey
<1>9. forcedWithdrawalRequests' =
            [k \in Requested \cup {key} |->
                IF k = key
                THEN [age |-> 0, amount |-> amount, withdrawFeeBps |-> withdrawFeeBps,
                      account |-> account]
                ELSE forcedWithdrawalRequests[k]]
    BY DEF RequestForcedWithdrawal
<1>10. key = RequestKey(key.nullifiers, key.commitments)
    BY <1>8
<1> HIDE DEF key
<1>11. /\ Requested' = Requested \cup {key}
       /\ forcedWithdrawalRequests'[key].account = account
       /\ \A k \in Requested : k # key => forcedWithdrawalRequests'[k] = forcedWithdrawalRequests[k]
    BY <1>9 DEF Requested
<1> SUFFICES ASSUME NEW k \in Requested'
             PROVE  /\ k.nullifiers \in Seq(Note) /\ k.commitments \in Seq(Commitment)
                    /\ k.commitments # <<>>
                    /\ Len(k.nullifiers) = Len(k.commitments)
                    /\ k = RequestKey(k.nullifiers, k.commitments)
                    /\ \A c \in ToSet(k.commitments) : AccountOf[c] = forcedWithdrawalRequests'[k].account
    BY DEF RequestsOwned
<1>12. CASE k = key
    <2>1. \A c \in ToSet(commitments) : AccountOf[c] = account
        BY <1>5 DEF ToSet
    <2> QED BY <1>4, <1>6, <1>7, <1>8, <1>10, <1>11, <1>12, <2>1
<1>13. CASE k # key
    BY <1>11, <1>13 DEF RequestsOwned
<1> QED BY <1>12, <1>13

(* Requests that stay keep their account.                                  *)
LEMMA RequestsStayOwned ==
    ASSUME RequestsOwned, Requested' \subseteq Requested,
           \A key \in Requested' :
                forcedWithdrawalRequests'[key].account = forcedWithdrawalRequests[key].account
    PROVE  RequestsOwned'
BY DEF RequestsOwned

(* And so at every step.                                                   *)
LEMMA OwnedNext == RequestsOwned /\ [ForcedNext]_forcedVars => RequestsOwned'
<1> SUFFICES ASSUME RequestsOwned, [ForcedNext]_forcedVars PROVE RequestsOwned'
    OBVIOUS
<1>1. ASSUME NEW key \in Requested, ClearRequest(key) PROVE RequestsOwned'
    <2>1. Requested' = Requested \ {key}
        BY <1>1 DEF ClearRequest, Requested
    <2>2. \A k \in Requested' : forcedWithdrawalRequests'[k] = forcedWithdrawalRequests[k]
        BY <1>1, <2>1 DEF ClearRequest
    <2> QED BY <2>1, <2>2, RequestsStayOwned
<1>2. CASE Request
    BY <1>2, RequestOwned DEF Request
<1>3. CASE Execute
    BY <1>1, <1>3 DEF Execute, ExecuteForcedWithdrawal, Settle
<1>4. CASE Cancel
    BY <1>1, <1>4 DEF Cancel, CancelForcedWithdrawal
<1>5. CASE UNCHANGED forcedWithdrawalRequests
    BY <1>5, RequestsStayOwned DEF Requested
<1>6. CASE \E n \in Note : SubmitEpoch(n)
    BY <1>5, <1>6 DEF SubmitEpoch, requestVars
<1>7. CASE Configure
    BY <1>5, <1>7 DEF Configure, SetFees, SetTreasury, Upgrade, ChangeAuth, requestVars
<1>8. CASE Mine
    <2>1. Requested' = Requested
        BY <1>8 DEF Mine, Requested
    <2>2. \A key \in Requested' :
            forcedWithdrawalRequests'[key].account = forcedWithdrawalRequests[key].account
        BY <1>8, <2>1 DEF Mine
    <2> QED BY <2>1, <2>2, RequestsStayOwned
<1>9. CASE UNCHANGED forcedVars
    BY <1>5, <1>9 DEF forcedVars, requestVars
<1> QED BY <1>2, <1>3, <1>4, <1>6, <1>7, <1>8, <1>9 DEF ForcedNext

(* Nobody's request is out of reach or beyond what the pool can pay: the   *)
(* bindings it was made with lead to it (LibForced._loadRequest) until it  *)
(* is executed, cancelled or pruned, and its notes are worth its amount.   *)
THEOREM RequestsAreReachable == ForcedSpec => []RequestsReachable
<1>1. FundsInv /\ RequestsOwned => RequestsReachable
    <2> SUFFICES ASSUME FundsInv, RequestsOwned, NEW key \in Requested
                 PROVE  /\ LoadedRequest(key, key.nullifiers, key.commitments)
                        /\ \A c \in ToSet(key.commitments) :
                                AccountOf[c] = forcedWithdrawalRequests[key].account
                        /\ RequireUnspent(key.nullifiers) =>
                                forcedWithdrawalRequests[key].amount <= balance
        BY DEF RequestsReachable
    <2>1. LoadedRequest(key, key.nullifiers, key.commitments)
        <3>1. \A c \in ToSet(key.commitments) : c \in Commitment
            BY DEF RequestsOwned, ToSet
        <3>2. \A c \in ToSet(key.commitments) : commitmentToRequestKey[c] = key
            BY <3>1 DEF FundsInv, ForcedInv, BindingsExact
        <3>3. key.commitments \in Seq(Commitment) /\ key.commitments # <<>>
            BY DEF RequestsOwned
        <3>4. key.commitments[1] \in ToSet(key.commitments)
            BY <3>3 DEF ToSet
        <3> QED BY <3>2, <3>3, <3>4 DEF RequestsOwned, LoadedRequest
    <2>2. ASSUME RequireUnspent(key.nullifiers)
          PROVE  forcedWithdrawalRequests[key].amount <= balance
        <3> DEFINE R == ToSet(key.nullifiers)
        <3>1. R \in SUBSET Unspent /\ Unspent \in SUBSET Note /\ Unspent \ R \in SUBSET Note /\ R \in SUBSET Note
            BY <2>2 DEF FundsInv, AmountsExact, RequireUnspent, Unspent
        <3>2. forcedWithdrawalRequests[key].amount = Value(R) /\ balance = Value(Unspent)
            BY DEF FundsInv, AmountsExact
        <3> HIDE DEF R
        <3>3. Value(Unspent \ R) = Value(Unspent) - Value(R)
            BY <3>1, SpendingValue
        <3>4. Value(Unspent \ R) \in Nat /\ Value(Unspent) \in Nat /\ Value(R) \in Nat
            BY <3>1, ValueIsTotal
        <3> QED BY <3>2, <3>3, <3>4
    <2> QED BY <2>1, <2>2 DEF RequestsOwned
<1>2. ForcedInit => RequestsOwned
    BY DEF ForcedInit, RequestsOwned, Requested
<1> QED BY <1>1, <1>2, OwnedNext, FundsInvariant, PTL DEF ForcedSpec
=============================================================================
