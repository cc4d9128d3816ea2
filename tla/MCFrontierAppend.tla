-------------------------- MODULE MCFrontierAppend --------------------------
(* A tree of eight leaves, and proofs of two transfers and a fee.          *)
EXTENDS FrontierAppend, TLC

TwoTransfers == <<2, 1>>
Renamings == Permutations(Commitment)
=============================================================================
