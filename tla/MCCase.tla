-------------------------------- MODULE MCCase --------------------------------
(***************************************************************************)
(* Three spellings of one name on a case-insensitive volume: "B" and "b"   *)
(* differ in an ASCII letter, "u" from both in a non-ASCII one.  The folder*)
(* holds "b" when the pair is added; the users write "B" and "u", which    *)
(* locally are "b" as long as it exists.  "Bx", "bx" and "ux" are the      *)
(* case-collision names, "l" is the conflict copy of anything else; two    *)
(* runs are too few for a conflict of "l".                                 *)
(***************************************************************************)
EXTENDS SyncCycle, TLC

MCPaths == {"B", "b", "u", "Bx", "bx", "ux", "l"}
MCRelPaths == MCPaths
MCUserPaths == {"B", "u"}
MCDrives == {[p \in MCPaths |-> NoItem]}
MCFolders == {[p \in MCPaths |-> IF p = "b" THEN "s" ELSE Gone]}
MCSizeOf == "s" :> 1 @@ Dir :> 0
MCRank == "B" :> 1 @@ "u" :> 2 @@ "b" :> 3 @@ "Bx" :> 4 @@ "bx" :> 5 @@ "ux" :> 6 @@ "l" :> 7
MCFold == [p \in MCPaths |-> IF p \in {"B", "b", "u"} THEN 1 ELSE MCRank[p]]
MCNoCase == [p \in MCPaths |-> IF p \in {"B", "b"} THEN 1 ELSE MCRank[p]]
MCSelf == [p \in MCPaths |-> p]
MCCaseTarget ==
  [p \in MCPaths |-> CASE p = "B" -> "Bx" [] p = "b" -> "bx" [] p = "u" -> "ux" [] OTHER -> "l"]
MCLoser(p, r) == IF p = "l" THEN "ux" ELSE "l"
=============================================================================
