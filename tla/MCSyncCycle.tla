----------------------------- MODULE MCSyncCycle -----------------------------
(***************************************************************************)
(* One user path, "a", with the conflict copies the first three runs can   *)
(* give it, and "x", the copy of a copy: three runs are too few for a      *)
(* conflict of "x".  "long" is a path no RelPath is made of: the drive and *)
(* the folder hold it from the start.  No two paths differ only in case.   *)
(***************************************************************************)
EXTENDS SyncCycle, TLC

MCPaths == {"a", "a1", "a2", "a3", "x", "long"}
MCRelPaths == MCPaths \ {"long"}
MCUserPaths == {"a"}
MCDrives == {[p \in MCPaths |->
  IF p = "long" THEN [c |-> "s", etag |-> 1, id |-> 1, old |-> 0] ELSE NoItem]}
MCFolders == {[p \in MCPaths |-> IF p = "long" THEN "t" ELSE Gone]}
MCSizeOf == "s" :> 1 @@ "t" :> 2 @@ Dir :> 3
MCNumber == "a" :> 1 @@ "a1" :> 2 @@ "a2" :> 3 @@ "a3" :> 4 @@ "x" :> 5 @@ "long" :> 6
MCSelf == [p \in MCPaths |-> p]
MCCaseTarget == [p \in MCPaths |-> "x"]
MCLoser(p, r) ==
  CASE p = "a" -> <<"a1", "a2", "a3">>[r] [] p = "x" -> "a3" [] OTHER -> "x"
=============================================================================
