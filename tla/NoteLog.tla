------------------------------ MODULE NoteLog ------------------------------
(***************************************************************************)
(* What the shielded pool promises about its notes, with no roots, ring    *)
(* buffers, proofs or relays in sight: the notes form one append-only log  *)
(* that is cut into trees of Capacity leaves, and a note is spent only if  *)
(* it is in the log, and for good.  NoteTree implements it.                *)
(***************************************************************************)
EXTENDS Naturals, Sequences

CONSTANTS
    Commitment,     (* Note commitments.                                   *)
    Capacity,       (* Leaves per tree.                                    *)
    MaxTree         (* Highest tree number.                                *)

VARIABLES
    log,            (* log[t]: the leaves of tree t, in append order.      *)
    open,           (* The tree that receives new leaves.                  *)
    spent           (* Positions <<tree, index>> of the notes spent.       *)

logVars == <<log, open, spent>>

LogTree == 0..MaxTree

(* The leaves s start with the leaves r.                                   *)
StartsWith(s, r) ==
    /\ Len(r) <= Len(s)
    /\ \A i \in 1..Len(r) : s[i] = r[i]

LogInit ==
    /\ log = [t \in LogTree |-> <<>>]
    /\ open = 0
    /\ spent = {}

(* New leaves go behind the leaves of the open tree.                       *)
Extend ==
    /\ open' = open
    /\ \A t \in LogTree \ {open} : log'[t] = log[t]
    /\ StartsWith(log'[open], log[open])
    /\ Len(log'[open]) <= Capacity

(* Only a full tree is closed; the next one starts empty.                  *)
OpenNext ==
    /\ Len(log[open]) = Capacity
    /\ open' = open + 1
    /\ open' \in LogTree
    /\ log[open'] = <<>>
    /\ \A t \in LogTree \ {open'} : log'[t] = log[t]
    /\ Len(log'[open']) <= Capacity

(* Spending consumes notes of the log, and nothing is ever unspent.        *)
Spend ==
    /\ spent \subseteq spent'
    /\ \A p \in spent' \ spent : p[1] \in LogTree /\ p[2] < Len(log[p[1]])

LogNext == (Extend \/ OpenNext) /\ Spend

LogSpec == LogInit /\ [][LogNext]_logVars
=============================================================================
