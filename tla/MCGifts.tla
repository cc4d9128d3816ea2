------------------------------ MODULE MCGifts ------------------------------
(* Small instances of Gifts: who owns which key, what gifts are funded     *)
(* with, and what people sign.                                             *)
EXTENDS Gifts

CONSTANTS alice, bob, ka, g1, g2

KeyHolder == [k \in Key |-> alice]

To(recipient, sender, refundAfter) ==
    [recipient |-> recipient, sender |-> sender, refundAfter |-> refundAfter, amount |-> 4]

Mint(g, to) == [mode |-> "mint", gift |-> g, to |-> to]
Exit(g, amount, min) == [mode |-> "exit", gift |-> g, amount |-> amount, minNetAmount |-> min]

(* From bob for alice.                                                     *)
WalletTerms == {To(alice, bob, 2)}

(* From alice, for whoever has the secret or for herself.                  *)
BearerTerms == {To(Bearer, alice, 2), To(alice, alice, 1)}

(* Mints to either, and a payout.                                          *)
Authorities == {Mint(g1, alice), Mint(g1, bob), Exit(g1, 4, 0)}

(* Payouts of what is in the gift and of more, with and without a floor.   *)
Payouts == {Mint(g1, alice), Mint(g2, alice), Exit(g1, 4, 0), Exit(g2, 4, 0),
            Exit(g1, 4, 3), Exit(g1, 8, 4)}
=============================================================================
