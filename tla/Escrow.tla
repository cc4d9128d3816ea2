------------------------------- MODULE Escrow -------------------------------
(***************************************************************************)
(* What the pool promises to those who hand it tokens: a deposit is held   *)
(* in full until it is either credited or given back, once and for all,    *)
(* and the vault pays for nothing else than what it owes.  Deposits and    *)
(* Portals implement it.                                                   *)
(***************************************************************************)
EXTENDS Naturals, FiniteSetsExt

CONSTANTS
    Deposit,        (* Deposits, records with a token and an amount.       *)
    Token           (* Registered tokens.                                  *)

VARIABLES
    held,           (* Deposits waiting to be credited or given back.      *)
    settled,        (* Deposits that were credited or given back.          *)
    owed,           (* owed[t]: what deposits of token t were credited and *)
                    (* nobody was paid: unspent notes, and fees.           *)
    vault           (* vault[t]: the pool's balance of token t.            *)

escrowVars == <<held, settled, owed, vault>>

Value(D, t) == MapThenSumSet(LAMBDA d : d.amount, {d \in D : d.token = t})

EscrowInit ==
    /\ held = {}
    /\ settled = {}
    /\ owed = [t \in Token |-> 0]
    /\ vault = [t \in Token |-> 0]

Fresh(d) == d \notin held \cup settled

Open(d) ==
    /\ Fresh(d)
    /\ held' = held \cup {d}
    /\ vault' = [vault EXCEPT ![d.token] = @ + d.amount]
    /\ UNCHANGED <<settled, owed>>

(* What may be paid as fees out of deposits, with their credit.            *)
Fees(D) ==
    {paid \in [Token -> UNION {0..Value(D, t) : t \in Token}] :
        \A t \in Token : paid[t] <= Value(D, t)}

Credit(D, paid) ==
    /\ held' = held \ D
    /\ settled' = settled \cup D
    /\ owed' = [t \in Token |-> owed[t] + Value(D, t) - paid[t]]
    /\ vault' = [t \in Token |-> vault[t] - paid[t]]

GiveBack(d) ==
    /\ held' = held \ {d}
    /\ settled' = settled \cup {d}
    /\ vault' = [vault EXCEPT ![d.token] = @ - d.amount]
    /\ UNCHANGED owed

Spend(t, v) ==
    /\ owed' = [owed EXCEPT ![t] = @ - v]
    /\ vault' = [vault EXCEPT ![t] = @ - v]
    /\ UNCHANGED <<held, settled>>

(* Spent value comes straight back as a deposit, perhaps of another token. *)
Redeposit(d, t, v) ==
    /\ Fresh(d)
    /\ held' = held \cup {d}
    /\ owed' = [owed EXCEPT ![t] = @ - v]
    /\ vault' = [u \in Token |->
                    (IF u = t THEN vault[u] - v ELSE vault[u])
                        + (IF u = d.token THEN d.amount ELSE 0)]
    /\ UNCHANGED settled

EscrowNext ==
    \/ \E d \in Deposit : Open(d)
    \/ \E D \in (SUBSET held) \ {{}} : \E paid \in Fees(D) : Credit(D, paid)
    \/ \E d \in held : GiveBack(d)
    \/ \E t \in Token : \E v \in 1..owed[t] : Spend(t, v)
    \/ \E d \in Deposit, t \in Token : \E v \in 1..owed[t] : Redeposit(d, t, v)

EscrowSpec == EscrowInit /\ [][EscrowNext]_escrowVars
=============================================================================
