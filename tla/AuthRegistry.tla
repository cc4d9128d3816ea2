------------------------------ MODULE AuthRegistry ------------------------------
(***************************************************************************)
(* The registry of the keys and approvals that authorize spending.  Each   *)
(* is a leaf of a sequence of Merkle trees; keys are registered, rotated   *)
(* in place and revoked by orders their account's owner signs, which       *)
(* anybody the registry allows, and always the owner, may hand in; spend   *)
(* approvals come from the owner alone.  A proof is accepted with the      *)
(* present root of a tree, or with one superseded a few blocks ago.        *)
(*                                                                         *)
(* An account id is a hash of its owner and a salt, so an account has one  *)
(* owner, who is not told apart from it.  A node of a tree is the sequence *)
(* of the leaves under it: its hash commits to them.  Time is counted in   *)
(* blocks.  Every action is one transaction.                               *)
(***************************************************************************)
EXTENDS Integers, Sequences, FiniteSets

CONSTANTS
    Account,    (* Account ids.                                            *)
    Key,        (* Public keys, by the X coordinate that identifies them.  *)
    Batch,      (* Batches of spend approvals, by their root.              *)
    Expiries,   (* Expiries; 0 is "never" for a key.                       *)
    Stalenesses,(* The values maxStalenessBlocks takes.                    *)
    Depth,      (* authTreeDepth.                                          *)
    MaxTree,    (* MAX_AUTH_TREE_NUMBER.                                   *)
    MaxLifetime,(* MAX_APPROVAL_LIFETIME.                                  *)
    MaxNonce,   (* Bound on the orders of one account.                     *)
    MaxBlock,   (* Bound on the blocks.                                    *)
    NoLeaf      (* 0 in a leaf.                                            *)

VARIABLES
    currentAuthTreeNumber,
    leafCount,      (* Leaf slots given out, by tree.                      *)
    root,           (* The root of each tree; NoNode before its first use. *)
    nodes,          (* The stored nodes, by tree, level and index.         *)
    anchors,        (* When a root was superseded, by tree and root.       *)
    created,        (* Accounts that have an owner.                        *)
    approvalOnly,   (* Accounts that will hold no keys.                    *)
    nonce,          (* The nonce of the next order of an account.          *)
    keyInfo,        (* Where the leaf of a key of an account is.           *)
    keyList,        (* The keys of an account, in order of registration.   *)
    approvalInfo,   (* Where the leaf of a batch of an account is.         *)
    block,          (* The block, and the time.                            *)
    done,           (* Ghost: the orders carried out.                      *)
    lastSeen        (* Ghost: the last block in which a root was its       *)
                    (* tree's root, by tree and root.                      *)

treeVars == <<root, nodes, anchors, lastSeen>>
slotVars == <<currentAuthTreeNumber, leafCount>>
accountVars == <<created, approvalOnly>>
orderVars == <<nonce, done>>
keyVars == <<keyInfo, keyList>>
vars == <<treeVars, slotVars, accountVars, orderVars, keyVars, approvalInfo, block>>

ASSUME TreesAssumption == Depth \in Nat \ {0} /\ MaxTree \in Nat
ASSUME ExpiriesAssumption == Expiries \subseteq Nat
ASSUME StalenessesAssumption == Stalenesses \subseteq Nat

-----------------------------------------------------------------------------
(* Trees.                                                                  *)

Trees == 0..MaxTree

(* The leaves under a node of a level: 2 ^ level.                          *)
Width[level \in 0..Depth] == IF level = 0 THEN 1 ELSE 2 * Width[level - 1]

Leaves == Width[Depth]

(* 0 in nodes and in root: nothing was ever stored.                        *)
NoNode == <<>>

(* The precomputed hash of an empty subtree.                               *)
Zeros(level) == [j \in 1..Width[level] |-> NoLeaf]

KeyLeaf(account, key, expiry) == [kind |-> "key", account |-> account, id |-> key, expiry |-> expiry]
ApprovalLeaf(account, batch, expiry) ==
    [kind |-> "approval", account |-> account, id |-> batch, expiry |-> expiry]

ASSUME NoLeafAssumption ==
    \A account \in Account, expiry \in Expiries :
        /\ \A key \in Key : NoLeaf # KeyLeaf(account, key, expiry)
        /\ \A batch \in Batch : NoLeaf # ApprovalLeaf(account, batch, expiry)

LeafAt(tree, index) ==
    IF nodes[tree][0][index] = NoNode THEN NoLeaf ELSE nodes[tree][0][index][1]

Put(f, x, value) == [y \in DOMAIN f \cup {x} |-> IF y = x THEN value ELSE f[y]]

(* The sibling of a node on the path of a leaf.  A leaf that is appended   *)
(* has nothing to its right.                                               *)
Sibling(tree, level, index, appendOnly) ==
    LET other == IF index % 2 = 0 THEN index + 1 ELSE index - 1
    IN  IF (appendOnly /\ index % 2 = 0) \/ nodes[tree][level][other] = NoNode
        THEN Zeros(level)
        ELSE nodes[tree][level][other]

(* The nodes on the path of a leaf, level by level.                        *)
AuthPath(tree, index, leaf, appendOnly) ==
    LET path[level \in 0..Depth] ==
            IF level = 0
            THEN <<leaf>>
            ELSE LET child == index \div Width[level - 1]
                     sibling == Sibling(tree, level - 1, child, appendOnly)
                 IN  IF child % 2 = 0
                     THEN path[level - 1] \o sibling
                     ELSE sibling \o path[level - 1]
    IN  path

(* Mutant: the first time a root is superseded is kept when it recurs.     *)
SupersededOnce(anchorsOfTree, previous, current) ==
    IF current = previous \/ previous \in DOMAIN anchorsOfTree
    THEN anchorsOfTree
    ELSE Put(anchorsOfTree, previous, block)

(* The blocks in which the roots of a tree were superseded.  Writing a     *)
(* leaf that is there already supersedes nothing.                          *)
Superseded(anchorsOfTree, previous, current) ==
    IF current = previous THEN anchorsOfTree ELSE Put(anchorsOfTree, previous, block)

(* A tree that was opened in this transaction has the empty root.          *)
UpdateLeaf(tree, index, leaf, appendOnly) ==
    LET path == AuthPath(tree, index, leaf, appendOnly)
        previous == IF root[tree] = NoNode THEN Zeros(Depth) ELSE root[tree]
    IN  /\ nodes' = [nodes EXCEPT ![tree] =
                        [level \in 0..Depth |->
                            [nodes[tree][level] EXCEPT ![index \div Width[level]] = path[level]]]]
        /\ root' = [root EXCEPT ![tree] = path[Depth]]
        /\ anchors' = [anchors EXCEPT ![tree] = Superseded(@, previous, path[Depth])]
        /\ lastSeen' = [lastSeen EXCEPT ![tree] = Put(Put(@, previous, block), path[Depth], block)]

CurrentTreeIsFull == leafCount[currentAuthTreeNumber] >= Leaves
NextTree == IF CurrentTreeIsFull THEN currentAuthTreeNumber + 1 ELSE currentAuthTreeNumber
NextIndex == IF CurrentTreeIsFull THEN 0 ELSE leafCount[currentAuthTreeNumber]

(* Fails when the last tree is full.                                       *)
AllocateLeafSlot ==
    /\ NextTree <= MaxTree
    /\ currentAuthTreeNumber' = NextTree
    /\ leafCount' = [leafCount EXCEPT ![NextTree] = NextIndex + 1]

IsRecentAuthTreeRoot(tree, r, maxStaleness) ==
    /\ r # NoNode
    /\ tree <= currentAuthTreeNumber
    /\ \/ root[tree] = r
       \/ /\ maxStaleness # 0
          /\ r \in DOMAIN anchors[tree]
          /\ block - anchors[tree][r] <= maxStaleness

-----------------------------------------------------------------------------
(* Accounts and approvals.                                                 *)

(* An account made for approvals, which will hold no keys.                 *)
CreateAccount(account) ==
    /\ account \notin created
    /\ created' = created \cup {account}
    /\ approvalOnly' = approvalOnly \cup {account}
    /\ UNCHANGED <<treeVars, slotVars, orderVars, keyVars, approvalInfo, block>>

(* Mutant: a batch may be approved again.                                  *)
MayApproveAgain(account, batch, expiry) ==
    account \in created /\ block < expiry /\ expiry <= block + MaxLifetime

MayApprove(account, batch, expiry) ==
    /\ account \in created
    /\ block < expiry
    /\ expiry <= block + MaxLifetime
    /\ ~approvalInfo[account][batch].exists

ApproveSpendBatch(account, batch, expiry) ==
    /\ MayApprove(account, batch, expiry)
    /\ AllocateLeafSlot
    /\ approvalInfo' = [approvalInfo EXCEPT ![account][batch] =
            [tree |-> NextTree, index |-> NextIndex, revoked |-> FALSE, exists |-> TRUE]]
    /\ UpdateLeaf(NextTree, NextIndex, ApprovalLeaf(account, batch, expiry), TRUE)
    /\ UNCHANGED <<accountVars, orderVars, keyVars, block>>

RevokeSpendApprovalBatch(account, batch) ==
    LET info == approvalInfo[account][batch]
    IN  /\ account \in created
        /\ info.exists
        /\ ~info.revoked
        /\ approvalInfo' = [approvalInfo EXCEPT ![account][batch].revoked = TRUE]
        /\ UpdateLeaf(info.tree, info.index, NoLeaf, FALSE)
        /\ UNCHANGED <<slotVars, accountVars, orderVars, keyVars, block>>

-----------------------------------------------------------------------------
(* Keys.  An order names the nonce its owner signed.                       *)

Order(op, account, key, new, expiry, n) ==
    [op |-> op, account |-> account, key |-> key, new |-> new, expiry |-> expiry, nonce |-> n]

(* Mutant: an order does not use up its nonce.                             *)
UseNonceNot(order) ==
    /\ order.nonce = nonce[order.account]
    /\ nonce' = nonce
    /\ done' = done \cup {order}

(* The owner's signature holds for an order with the present nonce, which  *)
(* the order uses up.                                                      *)
UseNonce(order) ==
    /\ order.nonce = nonce[order.account]
    /\ nonce' = [nonce EXCEPT ![order.account] = @ + 1]
    /\ done' = done \cup {order}

InTime(expiry) == expiry # 0 => block <= expiry

IsRegistered(account, key) == keyInfo[account][key].listIndex # 0

MayRegister(account, key) ==
    /\ ~IsRegistered(account, key)
    /\ account \notin approvalOnly

(* The first key of an account gives it its owner.                         *)
Register(account, key, expiry, n) ==
    /\ InTime(expiry)
    /\ MayRegister(account, key)
    /\ UseNonce(Order("register", account, key, key, expiry, n))
    /\ created' = created \cup {account}
    /\ AllocateLeafSlot
    /\ keyInfo' = [keyInfo EXCEPT ![account][key] =
            [tree |-> NextTree, index |-> NextIndex, listIndex |-> Len(keyList[account]) + 1, revoked |-> FALSE]]
    /\ keyList' = [keyList EXCEPT ![account] = Append(@, key)]
    /\ UpdateLeaf(NextTree, NextIndex, KeyLeaf(account, key, expiry), TRUE)
    /\ UNCHANGED <<approvalOnly, approvalInfo, block>>

NotRegistered == [tree |-> 0, index |-> 0, listIndex |-> 0, revoked |-> FALSE]

(* The new key takes over the place of the old one, which may be           *)
(* registered again later.  A key may also replace itself, with another    *)
(* expiry.                                                                 *)
Replaced(account, key, new) ==
    IF key = new
    THEN UNCHANGED keyVars
    ELSE /\ ~IsRegistered(account, new)
         /\ keyInfo' = [keyInfo EXCEPT ![account][key] = NotRegistered,
                                       ![account][new] = keyInfo[account][key]]
         /\ keyList' = [keyList EXCEPT ![account][keyInfo[account][key].listIndex] = new]

WriteRotated(info, leaf) == UpdateLeaf(info.tree, info.index, leaf, FALSE)

(* Mutant: a revoked key can be rotated.                                    *)
IsLiveOrRevoked(account, key) == IsRegistered(account, key)

IsLive(account, key) == IsRegistered(account, key) /\ ~keyInfo[account][key].revoked

Rotate(account, key, new, expiry, n) ==
    /\ account \in created \ approvalOnly
    /\ InTime(expiry)
    /\ IsLive(account, key)
    /\ UseNonce(Order("rotate", account, key, new, expiry, n))
    /\ Replaced(account, key, new)
    /\ WriteRotated(keyInfo[account][key], KeyLeaf(account, new, expiry))
    /\ UNCHANGED <<slotVars, accountVars, approvalInfo, block>>

(* A revoked key keeps its entry, so it cannot come back; the expiry is    *)
(* the order's.                                                            *)
Revoke(account, key, expiry, n) ==
    LET info == keyInfo[account][key]
    IN  /\ account \in created
        /\ InTime(expiry)
        /\ IsLive(account, key)
        /\ UseNonce(Order("revoke", account, key, key, expiry, n))
        /\ keyInfo' = [keyInfo EXCEPT ![account][key].revoked = TRUE]
        /\ UpdateLeaf(info.tree, info.index, NoLeaf, FALSE)
        /\ UNCHANGED <<slotVars, accountVars, keyList, approvalInfo, block>>

-----------------------------------------------------------------------------
(* Time, and the specification.                                            *)

NextBlock ==
    /\ block < MaxBlock
    /\ block' = block + 1
    /\ lastSeen' = [tree \in Trees |->
            IF tree <= currentAuthTreeNumber
            THEN Put(lastSeen[tree], root[tree], block + 1)
            ELSE lastSeen[tree]]
    /\ UNCHANGED <<root, nodes, anchors, slotVars, accountVars, orderVars, keyVars, approvalInfo>>

(* The first block is after the genesis block.                             *)
Init ==
    /\ currentAuthTreeNumber = 0
    /\ leafCount = [tree \in Trees |-> 0]
    /\ root = [tree \in Trees |-> IF tree = 0 THEN Zeros(Depth) ELSE NoNode]
    /\ nodes = [tree \in Trees |-> [level \in 0..Depth |-> [i \in 0..(Width[Depth - level] - 1) |-> NoNode]]]
    /\ anchors = [tree \in Trees |-> <<>>]
    /\ created = {}
    /\ approvalOnly = {}
    /\ nonce = [account \in Account |-> 0]
    /\ keyInfo = [account \in Account |-> [key \in Key |-> NotRegistered]]
    /\ keyList = [account \in Account |-> <<>>]
    /\ approvalInfo = [account \in Account |-> [batch \in Batch |->
            [tree |-> 0, index |-> 0, revoked |-> FALSE, exists |-> FALSE]]]
    /\ block = 1
    /\ done = {}
    /\ lastSeen = [tree \in Trees |-> IF tree = 0 THEN [r \in {Zeros(Depth)} |-> 1] ELSE <<>>]

Next ==
    \/ NextBlock
    \/ \E account \in Account :
        \/ CreateAccount(account)
        \/ \E batch \in Batch :
            \/ \E expiry \in Expiries : ApproveSpendBatch(account, batch, expiry)
            \/ RevokeSpendApprovalBatch(account, batch)
        \/ \E key \in Key, expiry \in Expiries, n \in 0..MaxNonce :
            \/ Register(account, key, expiry, n)
            \/ \E new \in Key : Rotate(account, key, new, expiry, n)
            \/ Revoke(account, key, expiry, n)

Spec == Init /\ [][Next]_vars

-----------------------------------------------------------------------------
(* Properties.                                                             *)

Slot(info) == [tree |-> info.tree, index |-> info.index]

Slots == [tree : Trees, index : 0..(Leaves - 1)]

(* The stored root commits to exactly the leaves that are stored, whether  *)
(* the last of them was appended, rotated or zeroed, and in whatever order *)
(* the paths through the stored nodes were rewritten.                      *)
RootsCommitToLeaves ==
    \A tree \in 0..currentAuthTreeNumber :
        root[tree] = [j \in 1..Leaves |-> LeafAt(tree, j - 1)]

(* Every leaf belongs to one live key or approval, at whose place it is,   *)
(* and every live key or approval has its leaf there: nothing that was     *)
(* revoked or replaced, and no second approval of a batch, leaves a leaf   *)
(* behind that no order can remove.                                        *)
LeavesBelongToLiveHolders ==
    \A slot \in Slots :
        LET leaf == LeafAt(slot.tree, slot.index)
            owners(kind) ==
                IF leaf # NoLeaf /\ leaf.kind = kind
                THEN {[account |-> leaf.account, id |-> leaf.id]}
                ELSE {}
        IN  /\ owners("key") =
                    {h \in [account : Account, id : Key] :
                        IsLive(h.account, h.id) /\ Slot(keyInfo[h.account][h.id]) = slot}
            /\ owners("approval") =
                    {h \in [account : Account, id : Batch] :
                        LET info == approvalInfo[h.account][h.id]
                        IN  info.exists /\ ~info.revoked /\ Slot(info) = slot}

(* An account made for approvals never gets a key, in whatever order its   *)
(* creation and the registrations its owner signed arrive.                 *)
ApprovalOnlyHoldsNoKeys ==
    \A account \in approvalOnly : keyList[account] = <<>> /\ \A key \in Key : ~IsRegistered(account, key)

(* The three together: a membership proof under the current root speaks    *)
(* for a holder that is live, every live holder has one, and none speaks   *)
(* for a key of an account that was made for approvals.                    *)
LeavesExact == RootsCommitToLeaves /\ LeavesBelongToLiveHolders /\ ApprovalOnlyHoldsNoKeys

(* A root is accepted exactly if it was its tree's root within the last    *)
(* maxStaleness blocks, also when it was the root, was superseded, and     *)
(* became the root again: a revoked key authorizes nothing after that      *)
(* many blocks, and a proof of a root that is younger is not refused.      *)
AcceptedRootsAreRecent ==
    \A tree \in Trees : \A r \in DOMAIN lastSeen[tree] : \A staleness \in Stalenesses :
        IsRecentAuthTreeRoot(tree, r, staleness)
            <=> r = root[tree] \/ (staleness > 0 /\ block - lastSeen[tree][r] <= staleness)

(* An order takes effect at most once, however often it is handed in: what *)
(* changes the keys of an account is an order not carried out before.      *)
OrdersTakeEffectOnce ==
    [][(keyInfo' # keyInfo \/ (root' # root /\ approvalInfo' = approvalInfo)) => done' # done]_vars

(* A revoked key stays revoked: no rotation or registration brings it      *)
(* back.                                                                   *)
RevokedForever ==
    [][\A account \in Account, key \in Key :
            keyInfo[account][key].revoked => keyInfo'[account][key] = keyInfo[account][key]]_vars
=============================================================================
