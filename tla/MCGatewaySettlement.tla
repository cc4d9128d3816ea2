------------------------ MODULE MCGatewaySettlement -------------------------
(* What relays submit in the runs of GatewaySettlement.                    *)
EXTENDS GatewaySettlement

CONSTANTS usd, shares, target

Pay(to, token, amount) == [to |-> to, token |-> token, amount |-> amount]

Call(index, min, expiry) ==
    [index |-> index, target |-> target, outputToken |-> shares, minOutputAmount |-> min,
     expiryBlock |-> expiry]

Batch(withdrawals, slots) == [withdrawals |-> withdrawals, slots |-> slots]

(* One payout, without a slot, with one for another index or an ill-formed *)
(* one; or two: a plain one before or after that to a gateway, or one to   *)
(* each gateway, with their slots, with one too many or in the wrong       *)
(* order.  All slots expire after the first block.                         *)
Submissions ==
    {Batch(<<Pay(User, usd, 1)>>, slots) : slots \in {<<>>, <<Call(2, 1, 1)>>}}
    \cup {Batch(<<Pay(Executor, usd, 1)>>, <<>>)}
    \cup {Batch(<<Pay(f, usd, 1)>>, slots) :
            f \in Foreign, slots \in {<<Call(1, 1, 0)>>, <<Call(1, 0, 1)>>}}
    \cup {Batch(<<Pay(User, usd, 1), Pay(f, usd, 1)>>, slots) :
            f \in Foreign, slots \in {<<Call(2, 1, 1)>>, <<Call(1, 1, 1), Call(2, 1, 1)>>}}
    \cup {Batch(<<Pay(f, usd, 1), Pay(User, usd, 1)>>, <<Call(2, 1, 1), Call(1, 1, 1)>>) :
            f \in Foreign}
    \cup {Batch(<<Pay(f, usd, 1), Pay(User, usd, 1)>>, <<Call(1, 1, 1)>>) : f \in Foreign}
    \cup {Batch(<<Pay(Executor, usd, 1), Pay(f, usd, 1)>>, <<Call(1, 1, 1), Call(2, 1, 1)>>) :
            f \in Foreign}

NoPolicy == {}
SwapPolicy == {<<usd, shares>>}
SwapPolicies == {NoPolicy, SwapPolicy}
=============================================================================
