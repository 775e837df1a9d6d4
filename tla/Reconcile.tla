------------------------------ MODULE Reconcile ------------------------------
(***************************************************************************)
(* The pure decision functions of the engine                               *)
(* (crates/onesync-core/src/engine/{reconcile,conflict,planner,retry}.rs   *)
(* and the comparison helpers of cycle.rs).  None of them performs I/O.    *)
(*                                                                         *)
(* An Option<FileSide> is one record: kind "Absent" is None, and the value *)
(* 0 in hash, etag or id is None.  mtime is left out of the record because *)
(* only the winner rule reads it (see Winner) .  A RemoteItem is seen by   *)
(* the engine only through its kind, size, e_tag and id, so it is a side   *)
(* as well, and "Absent" is a tombstone.                                   *)
(***************************************************************************)
EXTENDS Naturals

SideKind == {"File", "Directory", "Absent"}

Side == [kind : SideKind, size : Nat, hash : Nat, etag : Nat, id : Nat]

Absent == [kind |-> "Absent", size |-> 0, hash |-> 0, etag |-> 0, id |-> 0]

Present(s) == s.kind # "Absent"

SyncState ==
  {"Untracked", "Clean", "PendingUpload", "PendingDownload", "PendingConflict", "InFlight"}

\* A file_entries row; sync_state "Untracked" means there is no row.
Entry == [state : SyncState, kind : SideKind, local : Side, remote : Side, synced : Side]

NoEntry == [state |-> "Untracked", kind |-> "Absent",
            local |-> Absent, remote |-> Absent, synced |-> Absent]

Tracked(e) == e.state # "Untracked"

\* The file operations the planner can emit, and the other decisions.
PlannedKind == {"Upload", "Download", "LocalDelete", "LocalMkdir", "RemoteMkdir"}

DecisionKind == PlannedKind \cup {"ConflictDetected", "NoOp"}

-----------------------------------------------------------------------------
\* FileSide::identifies_same_content_as: two absent hashes compare equal.
identifies_same_content_as(a, b) ==
  a.kind = b.kind /\ a.size = b.size /\ a.hash = b.hash

\* Mutant: a parked path is not skipped.
is_action_blocking_InFlightOnly(state) == state = "InFlight"

is_action_blocking(state) == state \in {"InFlight", "PendingConflict"}

\* Equality is claimed only on positive evidence.
local_equals_remote(l, r) ==
  /\ l.kind = r.kind
  /\ \/ l.kind = "Directory"
     \/ /\ l.size = r.size
        /\ \/ l.size = 0
           \/ l.etag # 0 /\ l.etag = r.etag

remote_differs_from_synced(r, s) ==
  \/ ~Present(s)
  \/ s.kind # r.kind
  \/ s.etag # 0 /\ r.etag # 0 /\ s.etag # r.etag
  \/ (s.etag = 0 \/ r.etag = 0) /\ (s.size # r.size \/ s.size # 0)

local_differs_from_synced(l, s) ==
  \/ Present(l) # Present(s)
  \/ Present(l) /\ ~identifies_same_content_as(l, s)

\* The scan-side test, which is stricter than local_differs_from_synced: without
\* two hashes a non-empty file always diverges.
local_diverges_from_synced(side, s) ==
  \/ ~Present(s)
  \/ side.kind # s.kind
  \/ /\ side.kind = "File"
     /\ \/ side.size # s.size
        \/ side.size # 0 /\ ~(side.hash # 0 /\ side.hash = s.hash)

reconcile_both(e, r) ==
  LET local_changed == local_differs_from_synced(e.local, e.synced)
      remote_changed == remote_differs_from_synced(r, e.synced)
  IN CASE is_action_blocking(e.state) -> "NoOp"
       [] ~is_action_blocking(e.state) /\ ~local_changed /\ ~remote_changed -> "NoOp"
       [] ~is_action_blocking(e.state) /\ ~local_changed /\ remote_changed ->
            IF r.kind = "Directory" THEN "LocalMkdir" ELSE "Download"
       [] ~is_action_blocking(e.state) /\ local_changed /\ ~remote_changed ->
            IF e.kind = "Directory" THEN "RemoteMkdir" ELSE "Upload"
       [] ~is_action_blocking(e.state) /\ local_changed /\ remote_changed ->
            IF Present(e.local) /\ local_equals_remote(e.local, r)
              THEN "NoOp" ELSE "ConflictDetected"

reconcile_kind(e, r) ==
  CASE ~Tracked(e) /\ ~Present(r) -> "NoOp"
    [] ~Tracked(e) /\ Present(r)  -> IF r.kind = "Directory" THEN "LocalMkdir" ELSE "Download"
    [] Tracked(e) /\ ~Present(r)  -> "LocalDelete"
    [] Tracked(e) /\ Present(r)   -> reconcile_both(e, r)

-----------------------------------------------------------------------------
\* pick_winner_and_loser: the side with the newer mtime, the remote one within the
\* tolerance.  remote_side_from_item stamps the remote mtime with the current
\* time and the user may set any local mtime, so either side can win.
Winner == {"Local", "Remote"}

\* The planner's order: directories first, then transfers, then deletions; the
\* conflict ops and the remote renames are appended after the plan.
plan_rank(kind) ==
  CASE kind \in {"LocalMkdir", "RemoteMkdir"} -> 1
    [] kind \in {"Upload", "Download"}        -> 2
    [] kind = "LocalDelete"                   -> 3

\* Mutant: one attempt too many.
retry_exhausted_OneMore(attempt, max) == attempt # 0 /\ attempt > max

\* retry_decision(attempt) = Exhausted; the first attempt is always made.
retry_exhausted(attempt, max) == attempt # 0 /\ attempt >= max

\* Mutant: the outcome does not depend on the counters.
classify_outcome_AlwaysSuccess(failed) == IF failed THEN "Success" ELSE "Success"

classify_outcome(failed) == IF failed THEN "PartialFailure" ELSE "Success"
=============================================================================
