--------------------------- MODULE MCPairLifecycle ---------------------------
(***************************************************************************)
(* Two pairs of one account that want the same local folder.               *)
(***************************************************************************)
EXTENDS PairLifecycle

MCAccountOf == <<"acct", "acct">>
MCFolder == <<1, 1>>
MCRemote == <<1, 2>>
=============================================================================
