--------------------------- MODULE MCDeployWallet ---------------------------
(* DeployWallet on small instances: two requests of one new account, one   *)
(* of another, one of an account that is there from the start.             *)
EXTENDS DeployWallet, TLC

CONSTANTS r1, r2, r3, r4, a1, a2, a3

MCSigner == r1 :> a1 @@ r2 :> a1 @@ r3 :> a2 @@ r4 :> a3
=============================================================================
