----------------------------- MODULE MCRpcServer -----------------------------
(* RpcServer with every network and every missing variable; one client, a  *)
(* token, a broken one and an address that is none, asked about in lists   *)
(* with a repetition.                                                      *)
EXTENDS RpcServer

CONSTANTS token, broken, none

MCList == {<<>>, <<broken, token, token>>, <<token, none>>}
=============================================================================
