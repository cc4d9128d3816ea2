------------------------- MODULE MCPoseidon2Sponge --------------------------
(***************************************************************************)
(* Lanes are terms, a lane of a permuted state among them, so that nothing *)
(* collides except what the arithmetic of the sponge makes equal: adding   *)
(* zero changes nothing.                                                   *)
(***************************************************************************)
EXTENDS Poseidon2Sponge, TLC

None == <<>>
One == <<"one">>
Elements == {None, One}

Sum(lane, e) == IF e = None THEN lane ELSE IF lane = None THEN e ELSE <<"sum", lane, e>>

LengthIV(n) == IF n = 0 THEN None ELSE <<"iv", ToString(n)>>

LaneOf(s, k) == <<"lane", k, s>>
=============================================================================
