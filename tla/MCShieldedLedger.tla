-------------------------- MODULE MCShieldedLedger --------------------------
(***************************************************************************)
(* Alice signs with a key, the Safe approves, Mallory runs the relay, has  *)
(* the fee key and a note key that is an address.  The field has eleven    *)
(* elements and amounts two bits, so minus one is an output to be offered. *)
(***************************************************************************)
EXTENDS ShieldedLedger

alice == "alice"
safe == "safe"
mallory == "mallory"
bob == "bob"

Accounts == {alice, safe, mallory}
KeysOf == [a \in Accounts |-> a]

Key(a, r) == <<<<a, a>>, <<r>>>>
Note(npk, t, v) == [npk |-> npk, token |-> t, value |-> v]

GroundKey == [mpk |-> <<mallory, mallory>>, rnd |-> <<"ground">>, address |-> bob]

KeysRegistered ==
    {[kind |-> "key", account |-> alice, key |-> "kAlice", expiry |-> 1],
     [kind |-> "key", account |-> mallory, key |-> "kMallory", expiry |-> 0]}

Out(npk, v) == [npk |-> npk, value |-> v]

(* Ten is minus one.  Bob's address is the key of a payout, and only that. *)
Outputs ==
    {<<Out(<<bob>>, 1)>>,
     <<Out(<<bob>>, 1), Out(Key(mallory, "r"), 1)>>, <<Out(Key(mallory, "r"), 1), Out(<<bob>>, 1)>>,
     <<Out(Key(mallory, "r"), 1), Out(Key(mallory, "r"), 1)>>,
     <<Out(Key(mallory, "r"), 3), Out(Key(mallory, "r"), 10)>>}

(* What is so of some transfers, another token, somebody else's change.    *)
Until == {1}

Displays ==
    [a \in Accounts |-> [e \in Until |->
        LET shown == [account |-> a, expiry |-> e, token |-> "usd", fee |-> 1, mpk |-> <<a, a>>]
        IN  {shown, [shown EXCEPT !.token = "eur"],
             [shown EXCEPT !.fee = 0, !.mpk = <<mallory, mallory>>]}]]

FeeKeysOffered == {Key(mallory, "r"), <<bob>>}

FeeTokens == {<<"usd">>, <<"usd", "eur">>, <<"usd", "usd">>}

Legacy == <<Note(<<bob>>, "usd", 1), Note(Key(alice, "r"), "usd", 2),
            Note(Key(safe, "r"), "usd", 2), Note(<<bob>>, "eur", 2)>>

Request(t, total, notes) ==
    [depositor |-> mallory, token |-> t, total |-> total, nonce |-> 0, commitments |-> notes]

(* One that is well-formed, and ones whose notes are worth less or more,   *)
(* by a value that wraps too, or are of another token or closed for ever.  *)
RequestsMade ==
    {Request("usd", 1, <<Note(Key(mallory, "r"), "usd", 1)>>),
     Request("usd", 2, <<Note(Key(alice, "r"), "usd", 1)>>),
     Request("eur", 1, <<Note(Key(mallory, "r"), "usd", 1)>>),
     Request("usd", 1, <<Note(Key(mallory, "r"), "usd", 2), Note(Key(mallory, "r"), "usd", 10)>>),
     Request("usd", 1, <<Note(<<bob>>, "usd", 1)>>)}

Sweep(e) == [portal |-> e, counter |-> 1, recipientBindH |-> <<<<alice, alice>>, "blind">>,
             token |-> "eur", amount |-> 1]

SweepsMade == {Sweep("e1"), Sweep("e2")}

Random == {<<"r">>, <<"ground">>} \cup {noteRnd("blind", e, 1) : e \in {"e1", "e2"}}
=============================================================================
