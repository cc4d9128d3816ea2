-------------------------- MODULE MCForcedWithdrawal --------------------------
(* Small instances of ForcedWithdrawal for TLC: two equal notes and one of *)
(* another value of one account, and a stranger.                           *)
EXTENDS ForcedWithdrawal, TLC

CONSTANTS alice, bob, twin1, twin2, single, cTwin, cSingle

MCCommitmentOf == twin1 :> cTwin @@ twin2 :> cTwin @@ single :> cSingle
MCAccountOf == cTwin :> alice @@ cSingle :> alice
MCValueOf == cTwin :> 10 @@ cSingle :> 15
=============================================================================
