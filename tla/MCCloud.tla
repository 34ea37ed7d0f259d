------------------------------ MODULE MCCloud ------------------------------
(* Two calls and a page of one account, a page of another.                  *)
EXTENDS XiaomiCloudProps, TLC

CONSTANTS c1, c2, b1, b2, u1, u2

MCAccountOf == c1 :> u1 @@ c2 :> u1 @@ b1 :> u1 @@ b2 :> u2
=============================================================================
