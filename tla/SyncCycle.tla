------------------------------ MODULE SyncCycle ------------------------------
(***************************************************************************)
(* One sync pair: the cycle of the engine                                  *)
(* (crates/onesync-core/src/engine/{cycle,executor}.rs), interleaved with  *)
(* the user's edits of the local folder and of the drive, with failing     *)
(* port calls and with crashes.  A cycle is one sequential task; every     *)
(* await at which another actor can act is a step boundary.                *)
(*                                                                         *)
(* The world is `disk' (the local folder) and `drive' (OneDrive); the      *)
(* state store is `cursor', `entries', `conflicts', `opRows' and `runs';   *)
(* the remaining variables are the locals of run_cycle and are lost in a   *)
(* crash, except for the bounds and the history variables.                 *)
(***************************************************************************)
EXTENDS Reconcile, FiniteSets

CONSTANTS
  Paths,          \* every relative path a file can get
  RelPaths,       \* the paths that parse as a RelPath
  UserPaths,      \* the paths the users write to
  Contents,       \* file contents
  Dir, Gone,      \* a folder, and nothing, at a path
  UserItems,      \* what the users put at a path
  Folders,        \* what the local folder may hold when the pair is added
  Drives,         \* what the drive may hold then
  FirstSeq,       \* the drive's change counter then
  SizeOf,         \* size_bytes of each content; SizeOf[Dir] is Graph's folder size
  Large,          \* contents above GRAPH_SMALL_UPLOAD_MAX_BYTES
  Fold,           \* case_fold_key of a path
  NoCase,         \* the ASCII-only key of file_entry_get_ci
  Rank,           \* byte-wise order of the paths
  Leaf,           \* leaf_name, as a path of the drive root
  CaseTarget,     \* case_collision_rename_target
  Loser(_, _),    \* loser path of a content conflict of a path in a run
  CaseSensitive,  \* is the local volume case-sensitive?
  Stores,         \* the kinds of StateStore the cycle may be given
  PageSize,       \* the least the drive puts on a delta page that is not the last
  RetryMax,       \* RETRY_MAX_ATTEMPTS
  MaxRuns, MaxEdits, MaxFaults  \* bounds of the model

Items == Contents \cup {Dir, Gone}

ASSUME PathsAssumption ==
  /\ UserPaths \subseteq Paths /\ RelPaths \subseteq Paths
  /\ Fold \in [Paths -> Nat] /\ NoCase \in [Paths -> Nat] /\ Rank \in [Paths -> Nat]
  /\ Leaf \in [Paths -> Paths] /\ CaseTarget \in [Paths -> Paths]
  /\ \A p, q \in Paths : NoCase[p] = NoCase[q] => Fold[p] = Fold[q]
  /\ \A p, q \in Paths : Rank[p] = Rank[q] => p = q
  /\ \A p \in Paths, r \in 1..MaxRuns : Loser(p, r) \in Paths
  /\ \A p \in RelPaths : CaseTarget[p] \in RelPaths
  /\ \A p \in RelPaths, r \in 1..MaxRuns : Loser(p, r) \in RelPaths

\* The suffix of build_loser_path makes another name, however it is folded.
ASSUME LoserAssumption ==
  \A p \in Paths, r \in 1..MaxRuns : Fold[Loser(p, r)] # Fold[p]

ASSUME ContentsAssumption ==
  /\ Dir \notin Contents /\ Gone \notin Contents /\ Dir # Gone
  /\ SizeOf \in [Contents \cup {Dir} -> Nat]
  /\ Large \subseteq Contents /\ UserItems \subseteq Items

\* A case-insensitive volume has one spelling of a name.
ASSUME FoldersAssumption ==
  /\ Folders \subseteq [Paths -> Items]
  /\ CaseSensitive \/ \A f \in Folders : \A p, q \in Paths :
       Fold[p] = Fold[q] /\ p # q => f[p] = Gone \/ f[q] = Gone

\* The last item of a name, and the etag of the tombstone of the one before it
\* (0 = none), which also stands for that one's id.
DriveItem == [c : Items, etag : Nat, id : Nat, old : Nat]

NoItem == [c |-> Gone, etag |-> 0, id |-> 0, old |-> 0]

\* Every number on the drive is one its counter has had, and ids are unique.
ASSUME DrivesAssumption ==
  /\ Drives \subseteq [Paths -> DriveItem] /\ FirstSeq \in Nat \ {0}
  /\ \A d \in Drives, p \in Paths :
       /\ d[p].etag <= FirstSeq /\ d[p].id <= FirstSeq /\ d[p].old = 0
       /\ d[p].c # Gone => d[p].etag > 0 /\ d[p].id > 0
       /\ \A q \in Paths : d[p].id = d[q].id => p = q \/ d[p].id = 0

ASSUME StoresAssumption == Stores \subseteq {"sqlite", "memory"}

ASSUME BoundsAssumption ==
  /\ CaseSensitive \in BOOLEAN
  /\ PageSize \in Nat \ {0} /\ RetryMax \in Nat \ {0}
  /\ MaxRuns \in Nat /\ MaxEdits \in Nat /\ MaxFaults \in Nat

VARIABLES
  disk,       \* what each local path holds
  drive,      \* the drive item of each remote path; a tombstone keeps its etag
  seq,        \* the drive's change counter: etags and cursors are values of it
  cursor,     \* Pair.delta_token, 0 = None
  entries,    \* file_entries
  conflicts,  \* conflicts
  opRows,     \* file_ops
  runs,       \* sync_runs.outcome
  phase, run,
  snap,       \* the items of the delta page, Absent for a tombstone
  token,      \* DeltaPage.delta_token, 0 = None
  decision,   \* decisions, by path
  live,       \* keys of remote_items_by_path
  renames,    \* collision_renames
  scan,       \* sides seen by the local scan, Absent where nothing is
  coll,       \* initial_sync_collisions
  todo,       \* items the loop of the current phase has still to visit
  cur,        \* the conflict between its two store writes
  ops,        \* file operations still to execute
  op,         \* the operation being executed
  attempt, failed,
  touched,    \* history: local paths the user wrote since the cycle's delta call
  twice,      \* history: names last listed by a page that also lists a former item of theirs
  edits, faults

world == <<disk, drive, seq>>
store == <<cursor, entries, conflicts, opRows, runs>>
found == <<snap, token, decision, live, renames, scan, coll, cur>>
exec  == <<ops, op, attempt, failed>>
bound == <<touched, twice, edits, faults>>
vars  == <<world, store, phase, run, found, todo, exec, bound>>

Phases == {"idle", "delta", "scan", "local", "ccRow", "ccPark", "collide", "resolve",
           "park", "exec", "do", "postOk", "postFailed", "entry"}

ConflictKinds == {"LocalRename", "RemoteRename"}

OpKind == PlannedKind \cup ConflictKinds

\* A FileOp: id is metadata.remote_item_id (0 = no such key), stage its place in
\* the op list.  Exactly the renames carry metadata.from_conflict.
Op == [kind : OpKind, path : Paths, id : Nat, stage : 1..5]

NoFileOp == [kind |-> "none"]

Conflict == [run : 1..MaxRuns, path : Paths, loser : Paths, winner : Winner,
             resolved : BOOLEAN]

Raised == [path : Paths, local : Paths, winner : Winner]

NoConflict == [winner |-> "none"]

OpRow == [run : 1..MaxRuns, kind : OpKind, path : Paths,
          status : {"Enqueued", "Success", "Failed"}]

-----------------------------------------------------------------------------
\* The path whose directory entry answers to name p.
At(p) ==
  IF CaseSensitive \/ disk[p] # Gone
    THEN p
    ELSE LET same == {q \in Paths : Fold[q] = Fold[p] /\ disk[q] # Gone}
         IN IF same = {} THEN p ELSE CHOOSE q \in same : TRUE

\* LocalFs::scan leaves content_hash empty and reports folders with size 0.
local_side(c) ==
  CASE c = Gone -> Absent
    [] c = Dir -> [Absent EXCEPT !.kind = "Directory"]
    [] c \notin {Gone, Dir} -> [Absent EXCEPT !.kind = "File", !.size = SizeOf[c]]

\* remote_side_from_item, and None for a tombstone.
remote_side_from_item(d) ==
  IF d.c = Gone
    THEN Absent
    ELSE [kind |-> IF d.c = Dir THEN "Directory" ELSE "File",
          size |-> SizeOf[d.c], hash |-> 0, etag |-> d.etag, id |-> d.id]

case_folds_equal(p, q) == Fold[p] = Fold[q]

\* Mutant: every item of the page is processed.
detect_remote_case_collisions_None(named, double) == {p \in named : FALSE}

\* The paths of a delta page that lose a case collision on it.  The items are
\* put in buckets, not their paths: two items of one path, which NFC makes equal,
\* are a collision too, and the path is its own loser.
detect_remote_case_collisions(named, double) ==
  {p \in named : p \in double \/ \E q \in named : case_folds_equal(q, p) /\ Rank[q] < Rank[p]}

\* skip_for_case_collision: a row of another spelling is already there.
skip_for_case_collision(p) ==
  \E q \in Paths \ {p} : NoCase[q] = NoCase[p] /\ Tracked(entries[q])

\* build_remote_observation
build_remote_observation(e, r) ==
  CASE Tracked(e) -> [e EXCEPT !.remote = r]
    [] ~Tracked(e) /\ Present(r) ->
         [state |-> "PendingDownload", kind |-> r.kind,
          local |-> Absent, remote |-> r, synced |-> Absent]
    [] ~Tracked(e) /\ ~Present(r) -> e

find_case_collision(p) == {q \in live \ {p} : case_folds_equal(q, p)}

RemoteRenameOp(p, id) == [kind |-> "RemoteRename", path |-> p, id |-> id, stage |-> 5]

\* Every loser is renamed on the drive: the first item of its path, which for the
\* paths in `former' is the deleted one.
process_remote_case_collisions(losers, former) ==
  {RemoteRenameOp(p, IF p \in former THEN drive[p].old ELSE drive[p].id) : p \in losers}

\* plan: planned operations carry no metadata, hence no remote item id.
plan ==
  {[kind |-> decision[p], path |-> p, id |-> 0, stage |-> plan_rank(decision[p])] :
     p \in {q \in Paths : decision[q] \in PlannedKind}}

\* push_remote_winner_conflict_ops
remote_winner_conflict_ops(p, id) ==
  {[kind |-> "LocalRename", path |-> p, id |-> 0, stage |-> 4]} \cup
  {[kind |-> "Download", path |-> p, id |-> i, stage |-> 4] : i \in {id} \ {0}}

\* The operations that may come next.  The order inside a stage is that of the
\* delta page, of the directory listing or of a HashMap, so any order; only the
\* two operations of one conflict are adjacent, the rename first.
NextOps ==
  LET first == {o \in ops : \A b \in ops : o.stage <= b.stage}
      renamed == {o \in first : o.stage = 4 /\ o.kind = "Download" /\
                                ~\E b \in first : b.path = o.path /\ b.kind = "LocalRename"}
      begin == {o \in first : o.stage = 4 => o.kind = "LocalRename"}
  IN IF renamed # {} THEN renamed ELSE begin

\* update_file_entry_post_op for an operation that is not from_conflict.
post_op_entry(e, kind) ==
  [e EXCEPT
     !.state = "Clean",
     !.synced = CASE kind = "Upload" -> e.local
                  [] kind = "Download" -> e.remote
                  [] kind \in {"LocalMkdir", "RemoteMkdir"} ->
                       [Absent EXCEPT !.kind = "Directory"]
                  [] kind = "LocalDelete" -> Absent]

-----------------------------------------------------------------------------
NoSides == [p \in Paths |-> Absent]
NoDecisions == [p \in Paths |-> "none"]

Init ==
  /\ disk \in Folders
  /\ drive \in Drives
  /\ seq = FirstSeq
  /\ cursor = 0
  /\ entries = [p \in Paths |-> NoEntry]
  /\ conflicts = {} /\ opRows = {}
  /\ runs = [r \in 1..MaxRuns |-> "none"]
  /\ phase = "idle" /\ run = 0
  /\ snap = NoSides /\ token = 0 /\ decision = NoDecisions /\ live = {} /\ renames = {}
  /\ scan = NoSides /\ coll = {} /\ cur = NoConflict /\ todo = {}
  /\ ops = {} /\ op = NoFileOp /\ attempt = 0 /\ failed = FALSE
  /\ touched = {} /\ twice = {} /\ edits = 0 /\ faults = 0

\* Drop the locals of run_cycle.
EndCycle ==
  /\ phase' = "idle"
  /\ snap' = NoSides /\ token' = 0 /\ decision' = NoDecisions /\ live' = {} /\ renames' = {}
  /\ scan' = NoSides /\ coll' = {} /\ cur' = NoConflict /\ todo' = {}
  /\ ops' = {} /\ op' = NoFileOp /\ attempt' = 0 /\ failed' = FALSE
  /\ touched' = {}
  /\ UNCHANGED <<run, twice, edits>>

\* A `?' in run_cycle propagates a port error, or the process dies.
Interrupt ==
  /\ phase # "idle"
  /\ faults < MaxFaults
  /\ faults' = faults + 1
  /\ EndCycle
  /\ UNCHANGED <<world, store>>

-----------------------------------------------------------------------------
\* The drive answers a delta request with the live items when there is no
\* cursor, and with everything changed since the cursor otherwise.
Changed ==
  IF cursor = 0 THEN {p \in Paths : drive[p].c # Gone}
                ELSE {p \in Paths : drive[p].etag > cursor}

\* Names whose former item was deleted since the cursor: its tombstone is
\* reported besides the item that has the name now.
Recreated == {p \in Paths : cursor # 0 /\ drive[p].old > cursor}

\* The first page of the answer, by the names it lists and the names whose former
\* item it lists: all of it, or as much of it as the server likes.
delta_page(page, old) ==
  \/ page = Changed /\ old = Recreated
  \/ Cardinality(page) + Cardinality(old) >= PageSize

\* run_cycle reads one page, whether or not it is the last: only that one carries
\* the delta token.  Items whose path is no RelPath are passed over.
StartCycle ==
  /\ phase = "idle" /\ run < MaxRuns
  /\ run' = run + 1
  /\ \E page \in SUBSET Changed, old \in SUBSET Recreated :
       LET named == (page \cup old) \cap RelPaths
           dropped == detect_remote_case_collisions(named, page \cap old)
       IN /\ delta_page(page, old)
          /\ token' = IF page = Changed /\ old = Recreated THEN seq ELSE 0
          /\ snap' = [p \in Paths |-> IF p \in page \cap named THEN remote_side_from_item(drive[p])
                                                             ELSE Absent]
          /\ \E first \in SUBSET (page \cap old) :
               renames' = process_remote_case_collisions(dropped, (old \ page) \cup first)
          /\ todo' = named \ dropped
          /\ twice' = (twice \ page) \cup (page \cap old)
  /\ phase' = "delta"
  /\ touched' = {}
  /\ UNCHANGED <<world, store, decision, live, scan, coll, cur, exec, edits, faults>>

\* One iteration of the loop of phase_delta_reconcile.
DeltaItem(p) ==
  /\ phase = "delta" /\ p \in todo
  /\ todo' = todo \ {p}
  /\ \/ /\ ~Tracked(entries[p]) /\ Present(snap[p]) /\ skip_for_case_collision(p)
        /\ renames' = renames \cup {RemoteRenameOp(p, snap[p].id)}
        /\ UNCHANGED <<entries, decision, live>>
     \/ /\ Tracked(entries[p]) \/ ~Present(snap[p]) \/ ~skip_for_case_collision(p)
        /\ live' = IF Present(snap[p]) THEN live \cup {p} ELSE live
        /\ entries' = [entries EXCEPT ![p] = build_remote_observation(@, snap[p])]
        /\ decision' = [decision EXCEPT ![p] = reconcile_kind(entries[p], snap[p])]
        /\ UNCHANGED renames
  /\ UNCHANGED <<world, cursor, conflicts, opRows, runs, phase, run, snap, token, scan,
                 coll, cur, exec, bound>>

\* Mutant: the cursor moves while items of the page are still to be persisted.
AdvanceCursor_Early ==
  /\ phase = "delta"
  /\ cursor' = token
  /\ phase' = "scan" /\ todo' = {}
  /\ UNCHANGED <<world, entries, conflicts, opRows, runs, run, found, exec, bound>>

\* run_cycle: the cursor moves once every item of the page is persisted.
AdvanceCursor ==
  /\ phase = "delta" /\ todo = {}
  /\ cursor' = token
  /\ phase' = "scan"
  /\ UNCHANGED <<world, entries, conflicts, opRows, runs, run, found, todo, exec, bound>>

\* The local scan.  A path the delta phase decided about is not visited: it
\* becomes an initial-sync collision when the remote item is a live file.
LocalScan ==
  /\ phase = "scan"
  /\ LET seen == {p \in RelPaths : disk[p] # Gone}
         decided == {p \in Paths : decision[p] # "none"}
     IN /\ scan' = [p \in Paths |-> local_side(disk[p])]
        /\ coll' = {p \in seen \cap decided \cap live : snap[p].kind # "Directory"}
        /\ todo' = seen \ decided
  /\ phase' = "local"
  /\ UNCHANGED <<world, store, run, snap, token, decision, live, renames, cur, exec, bound>>

\* One iteration of the loop of phase_local_uploads without a case collision.
LocalItem(p) ==
  /\ phase = "local" /\ p \in todo
  /\ find_case_collision(p) = {}
  /\ todo' = todo \ {p}
  /\ LET e == entries[p]
         needs_upload == \/ ~Tracked(e)
                         \/ ~is_action_blocking(e.state)
                              /\ local_diverges_from_synced(scan[p], e.synced)
     IN IF needs_upload
          THEN /\ entries' = [entries EXCEPT ![p] =
                    [state |-> "PendingUpload", kind |-> scan[p].kind,
                     local |-> scan[p], remote |-> e.remote, synced |-> e.synced]]
               /\ decision' = [decision EXCEPT ![p] =
                    IF scan[p].kind = "Directory" THEN "RemoteMkdir" ELSE "Upload"]
          ELSE UNCHANGED <<entries, decision>>
  /\ UNCHANGED <<world, cursor, conflicts, opRows, runs, phase, run, snap, token, live,
                 renames, scan, coll, cur, exec, bound>>

\* rename(2) of fs-local: a file replaces a file, nothing else is replaced.
CanRename(p, q) ==
  /\ disk[At(p)] # Gone
  /\ disk[At(q)] = Gone \/ (disk[At(p)] # Dir /\ disk[At(q)] # Dir)

renamed_disk(p, q) == [disk EXCEPT ![At(p)] = Gone, ![At(q)] = disk[At(p)]]

\* handle_case_collision, in its three effects: the rename, the row, the entry.
LocalCaseCollision(p) ==
  /\ phase = "local" /\ p \in todo
  /\ CanRename(p, CaseTarget[p])
  /\ \E q \in find_case_collision(p) :
       cur' = [path |-> q, local |-> p, winner |-> "Remote"]
  /\ disk' = renamed_disk(p, CaseTarget[p])
  /\ todo' = todo \ {p}
  /\ phase' = "ccRow"
  /\ UNCHANGED <<drive, seq, store, run, snap, token, decision, live, renames, scan, coll,
                 exec, bound>>

\* The scanned file has gone since: the rename fails and `?' ends the cycle.
CaseCollisionRenameFails(p) ==
  /\ phase = "local" /\ p \in todo
  /\ ~CanRename(p, CaseTarget[p])
  /\ find_case_collision(p) # {}
  /\ EndCycle
  /\ UNCHANGED <<world, store, faults>>

\* Mutant: the loser is renamed but no Conflict row is written.
CaseCollisionRow_Missing ==
  /\ phase = "ccRow"
  /\ phase' = "ccPark"
  /\ UNCHANGED <<world, store, run, found, todo, exec, bound>>

CaseCollisionRow ==
  /\ phase = "ccRow"
  /\ conflicts' = conflicts \cup
       {[run |-> run, path |-> cur.path, loser |-> CaseTarget[cur.local],
         winner |-> cur.winner, resolved |-> FALSE]}
  /\ phase' = "ccPark"
  /\ UNCHANGED <<world, cursor, entries, opRows, runs, run, found, todo, exec, bound>>

CaseCollisionPark ==
  /\ phase = "ccPark"
  /\ entries' = IF Tracked(entries[cur.local])
                  THEN [entries EXCEPT ![cur.local].local = Absent,
                                       ![cur.local].state = "PendingConflict"]
                  ELSE entries
  /\ cur' = NoConflict
  /\ phase' = "local"
  /\ UNCHANGED <<world, cursor, conflicts, opRows, runs, run, snap, token, decision, live,
                 renames, scan, coll, todo, exec, bound>>

LocalDone ==
  /\ phase = "local" /\ todo = {}
  /\ todo' = coll
  /\ phase' = "collide"
  /\ UNCHANGED <<world, store, run, found, exec, bound>>

\* One iteration of the loop of apply_initial_sync_collisions.
InitialSyncCollision(p) ==
  /\ phase = "collide" /\ p \in todo
  /\ todo' = todo \ {p}
  /\ decision' = [decision EXCEPT ![p] = IF @ = "Download" THEN "ConflictDetected" ELSE @]
  /\ entries' = IF Tracked(entries[p]) THEN [entries EXCEPT ![p].local = scan[p]]
                                       ELSE entries
  /\ UNCHANGED <<world, cursor, conflicts, opRows, runs, phase, run, snap, token, live,
                 renames, scan, coll, cur, exec, bound>>

CollisionsDone ==
  /\ phase = "collide" /\ todo = {}
  /\ todo' = {p \in Paths : decision[p] = "ConflictDetected"}
  /\ phase' = "resolve"
  /\ UNCHANGED <<world, store, run, found, exec, bound>>

\* Mutant: only the conflicts the engine acts on get a row.
RecordContentConflict_RemoteOnly(p) ==
  /\ phase = "resolve" /\ p \in todo
  /\ todo' = todo \ {p}
  /\ decision' = [decision EXCEPT ![p] = "none"]
  /\ IF Present(entries[p].local) /\ Present(entries[p].remote)
       THEN \E w \in Winner :
              /\ cur' = [path |-> p, local |-> p, winner |-> w]
              /\ conflicts' = conflicts \cup
                   {[run |-> run, path |-> p, loser |-> Loser(p, run), winner |-> v,
                     resolved |-> FALSE] : v \in {w} \ {"Local"}}
              /\ phase' = "park"
       ELSE UNCHANGED <<cur, conflicts, phase>>
  /\ UNCHANGED <<world, cursor, entries, opRows, runs, run, snap, token, live, renames,
                 scan, coll, exec, bound>>

\* record_content_conflict, up to the insertion of the Conflict row.
RecordContentConflict(p) ==
  /\ phase = "resolve" /\ p \in todo
  /\ todo' = todo \ {p}
  /\ decision' = [decision EXCEPT ![p] = "none"]
  /\ IF Present(entries[p].local) /\ Present(entries[p].remote)
       THEN \E w \in Winner :
              /\ cur' = [path |-> p, local |-> p, winner |-> w]
              /\ conflicts' = conflicts \cup
                   {[run |-> run, path |-> p, loser |-> Loser(p, run), winner |-> w,
                     resolved |-> FALSE]}
              /\ phase' = "park"
       ELSE UNCHANGED <<cur, conflicts, phase>>
  /\ UNCHANGED <<world, cursor, entries, opRows, runs, run, snap, token, live, renames,
                 scan, coll, exec, bound>>

\* The rest of record_content_conflict.
ParkConflict ==
  /\ phase = "park"
  /\ entries' = [entries EXCEPT ![cur.path].state = "PendingConflict"]
  /\ ops' = IF cur.winner = "Remote"
              THEN ops \cup remote_winner_conflict_ops(cur.path, entries[cur.path].remote.id)
              ELSE ops
  /\ cur' = NoConflict
  /\ phase' = "resolve"
  /\ UNCHANGED <<world, cursor, conflicts, opRows, runs, run, snap, token, decision, live,
                 renames, scan, coll, todo, op, attempt, failed, bound>>

Plan ==
  /\ phase = "resolve" /\ todo = {}
  /\ ops' = plan \cup ops \cup renames
  /\ phase' = "exec"
  /\ UNCHANGED <<world, store, run, found, todo, op, attempt, failed, bound>>

-----------------------------------------------------------------------------
\* phase_execute: op_insert.  The sync_runs row is written at the end of the
\* cycle, so the SQLite store refuses every insert: it enforces the foreign key
\* file_ops.run_id.  The in-memory store of the tests has no foreign keys.
InsertOp(o) ==
  /\ phase = "exec" /\ o \in NextOps
  /\ ops' = ops \ {o}
  /\ \/ /\ "memory" \in Stores \/ runs[run] # "none"
        /\ op' = o
        /\ opRows' = opRows \cup
             {[run |-> run, kind |-> o.kind, path |-> o.path, status |-> "Enqueued"]}
        /\ phase' = "do"
        /\ UNCHANGED <<failed, faults>>
     \/ /\ \/ "sqlite" \in Stores /\ runs[run] = "none" /\ UNCHANGED faults
           \/ faults < MaxFaults /\ faults' = faults + 1
        /\ failed' = TRUE
        /\ UNCHANGED <<op, opRows, phase>>
  /\ UNCHANGED <<world, cursor, entries, conflicts, runs, run, found, todo, attempt,
                 touched, twice, edits>>

Attempting(kind) ==
  phase = "do" /\ op.kind = kind /\ ~retry_exhausted(attempt, RetryMax)

\* Mutant: the attempt is not counted.
Retry_Uncounted == UNCHANGED <<attempt, phase>>

\* The loop of phase_execute after a retriable and after a fatal error.
Retry == attempt' = attempt + 1 /\ UNCHANGED phase
Abandon == phase' = "postFailed" /\ UNCHANGED attempt

Executed == <<store, run, found, todo, ops, op, failed, touched, twice, edits>>

\* The port call took effect and returned Ok.
Returned == phase' = "postOk" /\ UNCHANGED <<attempt, faults, Executed>>

\* It took effect but reported an error: the reply of the drive was lost or
\* unreadable, or write_atomic failed to sync the directory after its rename.
LateError(outcome) == faults < MaxFaults /\ faults' = faults + 1 /\ outcome /\ UNCHANGED Executed

ExecuteLocalMkdir ==
  /\ Attempting("LocalMkdir")
  /\ disk[At(op.path)] \in {Gone, Dir}
  /\ disk' = [disk EXCEPT ![At(op.path)] = Dir]
  /\ Returned
  /\ UNCHANGED <<drive, seq>>

\* NotFound counts as success; the fs-local adapter reports it as Io, which
\* is retried (ExecuteFails).
ExecuteLocalDelete ==
  /\ Attempting("LocalDelete")
  /\ disk' = [disk EXCEPT ![At(op.path)] = Gone]
  /\ Returned
  /\ UNCHANGED <<drive, seq>>

\* The live file with the operation's remote item id.
Source == {q \in Paths : drive[q].id = op.id /\ drive[q].c \in Contents}

ExecuteDownload ==
  /\ Attempting("Download")
  /\ op.id # 0 /\ disk[At(op.path)] # Dir
  /\ \E q \in Source : disk' = [disk EXCEPT ![At(op.path)] = drive[q].c]
  /\ Returned \/ LateError(Retry)
  /\ UNCHANGED <<drive, seq>>

\* The etag of the last tombstone of a name.
Buried(d) == IF d.c = Gone /\ d.etag > d.old THEN d.etag ELSE d.old

\* What a write to remote path q by anyone does to the drive.
Written(q, c) ==
  /\ seq' = seq + 1
  /\ drive' = [drive EXCEPT ![q] =
       [c |-> c, etag |-> seq + 1, id |-> IF @.c = Gone THEN seq + 1 ELSE @.id,
        old |-> Buried(@)]]

\* The upload replaces whatever the drive holds under the leaf name; of a large
\* file only the upload session is opened.
ExecuteUpload ==
  /\ Attempting("Upload")
  /\ LET c == disk[At(op.path)] IN
       /\ c \in Contents
       /\ IF c \in Large
            THEN UNCHANGED <<drive, seq>>
            ELSE drive[Leaf[op.path]].c # Dir /\ Written(Leaf[op.path], c)
  /\ Returned \/ LateError(Retry \/ Abandon)
  /\ UNCHANGED disk

ExecuteLocalRename ==
  /\ Attempting("LocalRename")
  /\ CanRename(op.path, Loser(op.path, run))
  /\ disk' = renamed_disk(op.path, Loser(op.path, run))
  /\ Returned
  /\ UNCHANGED <<drive, seq>>

\* The drive has no other item of that name.
Vacant(q) == drive[q].c = Gone \/ drive[q].id = op.id

\* Graph reports a renamed item under its new name only.
ExecuteRemoteRename ==
  /\ Attempting("RemoteRename")
  /\ \E q \in Paths :
       /\ drive[q].id = op.id /\ drive[q].c # Gone
       /\ Vacant(CaseTarget[op.path])
       /\ seq' = seq + 1
       /\ drive' = [drive EXCEPT ![q] = [NoItem EXCEPT !.old = Buried(drive[q])],
            ![CaseTarget[op.path]] = [c |-> drive[q].c, etag |-> seq + 1, id |-> op.id,
                                      old |-> Buried(drive[CaseTarget[op.path]])]]
  /\ Returned \/ LateError(Retry \/ Abandon)
  /\ UNCHANGED disk

\* Errors that follow from the state of the two sides: the local ones are Io.
RetriableError ==
  \/ op.kind = "LocalMkdir" /\ disk[At(op.path)] \in Contents
  \/ op.kind = "LocalDelete" /\ disk[At(op.path)] = Gone
  \/ op.kind = "Upload" /\ disk[At(op.path)] \notin Contents
  \/ op.kind = "Download" /\ op.id # 0 /\ Source # {} /\ disk[At(op.path)] = Dir
  \/ op.kind = "LocalRename" /\ ~CanRename(op.path, Loser(op.path, run))

\* RemoteMkdir lacks metadata.parent_remote_id, a planned Download
\* metadata.remote_item_id; the drive may refuse an Upload without a parent id.
FatalError ==
  \/ op.kind = "RemoteMkdir"
  \/ op.kind = "Download" /\ (op.id = 0 \/ Source = {})
  \/ op.kind = "Upload" /\ disk[At(op.path)] \in Contents
  \/ op.kind = "RemoteRename" /\
       \/ ~\E q \in Paths : drive[q].id = op.id /\ drive[q].c # Gone
       \/ ~Vacant(CaseTarget[op.path])

ExecuteFails ==
  /\ \E k \in OpKind : Attempting(k)
  /\ \/ RetriableError /\ Retry /\ UNCHANGED faults
     \/ FatalError /\ Abandon /\ UNCHANGED faults
     \/ faults < MaxFaults /\ faults' = faults + 1 /\ (Retry \/ Abandon)
  /\ UNCHANGED <<world, Executed>>

Exhausted ==
  /\ phase = "do" /\ retry_exhausted(attempt, RetryMax)
  /\ phase' = "postFailed"
  /\ UNCHANGED <<world, store, run, found, todo, exec, bound>>

OpDone == op' = NoFileOp /\ attempt' = 0 /\ phase' = "exec"

\* Mutant: the row of a failed operation becomes Success.
UpdateStatus_AlwaysSuccess ==
  /\ phase \in {"postOk", "postFailed"}
  /\ LET row(status) == [run |-> run, kind |-> op.kind, path |-> op.path, status |-> status]
     IN opRows' = (opRows \ {row("Enqueued")}) \cup {row("Success")}
  /\ \/ phase = "postOk" /\ phase' = "entry" /\ UNCHANGED <<op, attempt, failed>>
     \/ phase = "postFailed" /\ OpDone /\ failed' = TRUE
  /\ UNCHANGED <<world, cursor, entries, conflicts, runs, run, found, todo, ops, bound>>

\* op_update_status; a store failure here is only audited.
UpdateStatus ==
  /\ phase \in {"postOk", "postFailed"}
  /\ LET row(status) == [run |-> run, kind |-> op.kind, path |-> op.path, status |-> status]
         status == IF phase = "postOk" THEN "Success" ELSE "Failed"
     IN \/ opRows' = (opRows \ {row("Enqueued")}) \cup {row(status)} /\ UNCHANGED faults
        \/ faults < MaxFaults /\ faults' = faults + 1 /\ UNCHANGED opRows
  /\ \/ phase = "postOk" /\ phase' = "entry" /\ UNCHANGED <<op, attempt, failed>>
     \/ phase = "postFailed" /\ OpDone /\ failed' = TRUE
  /\ UNCHANGED <<world, cursor, entries, conflicts, runs, run, found, todo, ops, touched,
                 twice, edits>>

\* update_file_entry_post_op; its failure is only audited too.
UpdateEntry ==
  /\ phase = "entry"
  /\ \/ /\ entries' = IF op.kind \in ConflictKinds \/ ~Tracked(entries[op.path])
                         THEN entries
                         ELSE [entries EXCEPT ![op.path] = post_op_entry(@, op.kind)]
        /\ UNCHANGED faults
     \/ /\ op.kind \notin ConflictKinds /\ faults < MaxFaults /\ faults' = faults + 1
        /\ UNCHANGED entries
  /\ OpDone
  /\ UNCHANGED <<world, cursor, conflicts, opRows, runs, run, found, todo, ops, failed,
                 touched, twice, edits>>

\* run_cycle: run_record, the last write of the cycle.
RecordRun ==
  /\ phase = "exec" /\ ops = {}
  /\ runs' = [runs EXCEPT ![run] = classify_outcome(failed)]
  /\ EndCycle
  /\ UNCHANGED <<world, cursor, entries, conflicts, opRows, faults>>

-----------------------------------------------------------------------------
\* The users, at any time.
Edit == edits < MaxEdits /\ edits' = edits + 1

LocalEdit(p, c) ==
  /\ Edit
  /\ disk[At(p)] # c
  /\ disk' = [disk EXCEPT ![At(p)] = c]
  /\ touched' = touched \cup {At(p)}
  /\ UNCHANGED <<drive, seq, store, phase, run, found, todo, exec, twice, faults>>

RemoteEdit(p, c) ==
  /\ Edit
  /\ \/ c # Gone /\ Written(p, c)
     \/ /\ c = Gone /\ drive[p].c # Gone
        /\ seq' = seq + 1
        /\ drive' = [drive EXCEPT ![p].c = Gone, ![p].etag = seq + 1]
  /\ UNCHANGED <<disk, store, phase, run, found, todo, exec, touched, twice, faults>>

\* The conflict.resolve method: it updates the row and nothing else.
ResolveConflict(c) ==
  /\ ~c.resolved
  /\ conflicts' = (conflicts \ {c}) \cup {[c EXCEPT !.resolved = TRUE]}
  /\ UNCHANGED <<world, cursor, entries, opRows, runs, phase, run, found, todo, exec, bound>>

-----------------------------------------------------------------------------
PathStep(p) ==
  \/ DeltaItem(p) \/ LocalItem(p) \/ LocalCaseCollision(p) \/ CaseCollisionRenameFails(p)
  \/ InitialSyncCollision(p) \/ RecordContentConflict(p)

ExecuteStep ==
  \/ ExecuteLocalMkdir \/ ExecuteLocalDelete \/ ExecuteDownload \/ ExecuteUpload
  \/ ExecuteLocalRename \/ ExecuteRemoteRename \/ ExecuteFails \/ Exhausted

\* A step of run_cycle once it has started.
CycleStep ==
  \/ \E p \in Paths : PathStep(p)
  \/ AdvanceCursor \/ LocalScan \/ CaseCollisionRow \/ CaseCollisionPark \/ LocalDone
  \/ CollisionsDone \/ ParkConflict \/ Plan
  \/ \E o \in ops : InsertOp(o)
  \/ ExecuteStep \/ UpdateStatus \/ UpdateEntry \/ RecordRun

UserStep ==
  \/ \E p \in UserPaths, c \in UserItems : LocalEdit(p, c) \/ RemoteEdit(p, c)
  \/ \E c \in conflicts : ResolveConflict(c)

Next == StartCycle \/ CycleStep \/ Interrupt \/ UserStep

\* The scheduler's task polls run_cycle to its end; nothing forces a cycle to
\* start, a user to act or a fault to happen.
Spec == Init /\ [][Next]_vars /\ WF_vars(CycleStep)

-----------------------------------------------------------------------------
WorldType ==
  disk \in [Paths -> Items] /\ drive \in [Paths -> DriveItem] /\ seq \in Nat

StoreType ==
  /\ cursor \in Nat
  /\ entries \in [Paths -> Entry]
  /\ conflicts \subseteq Conflict
  /\ opRows \subseteq OpRow
  /\ runs \in [1..MaxRuns -> {"none", "Success", "PartialFailure"}]

FoundType ==
  /\ phase \in Phases /\ run \in 0..MaxRuns /\ (phase # "idle" => run # 0)
  /\ snap \in [Paths -> Side] /\ scan \in [Paths -> Side] /\ token \in Nat
  /\ decision \in [Paths -> DecisionKind \cup {"none"}]
  /\ live \subseteq Paths /\ coll \subseteq Paths /\ todo \subseteq Paths
  /\ renames \subseteq Op
  /\ cur \in Raised \cup {NoConflict}
  /\ phase \in {"ccRow", "ccPark", "park"} => cur \in Raised

ExecType ==
  /\ ops \subseteq Op /\ op \in Op \cup {NoFileOp}
  /\ phase \in {"do", "postOk", "postFailed", "entry"} => op \in Op
  /\ attempt \in 0..RetryMax /\ failed \in BOOLEAN
  /\ touched \subseteq Paths /\ twice \subseteq Paths
  /\ edits \in 0..MaxEdits /\ faults \in 0..MaxFaults

TypeOK == WorldType /\ StoreType /\ FoundType /\ ExecType

\* The persisted cursor never runs ahead of the persisted observations: every
\* item of the drive that the cursor covers is in FileEntry.remote as it is on
\* the drive, whatever crash or store failure cut a cycle short.  Three kinds of
\* items the engine passes over and yet moves the cursor: those whose path is no
\* RelPath, those of a name with a second spelling (a loser is not recorded), and
\* those the page lists together with the former item of their path.
CursorCovers ==
  \A p \in RelPaths \ twice :
    /\ \A q \in Paths : Fold[q] = Fold[p] => q = p
    /\ drive[p].c # Gone /\ drive[p].etag <= cursor
    => entries[p].remote = remote_side_from_item(drive[p])

\* Nothing is parked silently: a path in PendingConflict has a Conflict row for
\* itself or, after a case collision, for the other spelling.
ParkedHasConflictRow ==
  \A p \in Paths :
    entries[p].state = "PendingConflict" => \E c \in conflicts : Fold[c.path] = Fold[p]

\* A run recorded as Success has no operation recorded as Failed.
SuccessMeansNoFailure ==
  \A row \in opRows : row.status = "Failed" => runs[row.run] # "Success"

\* While a path is parked no cycle raises another content conflict for it.
NoConflictWhileParked ==
  [][phase = "resolve" /\ phase' = "park" =>
       entries[cur'.path].state # "PendingConflict"]_vars

\* The engine destroys the only local copy of a content in two ways only: a
\* remote deletion, and a conflict's Download when its LocalRename did not
\* succeed or the user wrote the path again during the cycle.  (A retried
\* Download may also replace what its own first attempt wrote.)
LocalContentKept ==
  [][\A p \in Paths :
       disk[p] \in Contents /\ disk'[p] # disk[p] /\ edits' = edits =>
         \/ \E q \in Paths : disk'[q] = disk[p]
         \/ op.kind = "LocalDelete"
         \/ /\ op.kind = "Download"
            /\ \/ p \in touched \/ attempt > 0
               \/ [run |-> run, kind |-> "LocalRename", path |-> op.path,
                   status |-> "Success"] \notin opRows]_vars

\* On a case-insensitive volume no cycle transfers two spellings of one name: the
\* second transfer would overwrite the first one's file.
OneTransferPerName ==
  ~CaseSensitive =>
    \A p, q \in Paths :
      p # q /\ Fold[p] = Fold[q] =>
        ~({decision[p], decision[q]} \subseteq
             {"Download", "Upload", "LocalMkdir", "RemoteMkdir", "ConflictDetected"})

\* A parked path is not transferred: the planned operations of a cycle, up to the
\* last write about each, are about paths whose conflict is not pending.  Only a
\* remote deletion is carried out whatever the state of the path, because
\* reconcile_one looks at the state only when both sides are there.
ParkedNotTransferred ==
  \A o \in (ops \cup {op}) \ {NoFileOp} :
    o.stage \in 1..2 => entries[o.path].state # "PendingConflict"

\* What is left of a cycle: its phase, the items of the loop it is in, and how
\* far it is with the present one.
Stage ==
  CASE phase = "idle"                                              -> 0
    [] phase \in {"exec", "do", "postOk", "postFailed", "entry"}   -> 1
    [] phase \in {"resolve", "park"}                               -> 2
    [] phase = "collide"                                           -> 3
    [] phase \in {"local", "ccRow", "ccPark"}                      -> 4
    [] phase = "scan"                                              -> 5
    [] phase = "delta"                                             -> 6

Left == IF Stage = 1 THEN ops ELSE todo

Rest ==
  CASE phase = "do"                            -> 3 + (RetryMax - attempt)
    [] phase \in {"postOk", "postFailed"}      -> 2
    [] phase = "ccRow"                         -> 2
    [] phase \in {"entry", "ccPark", "park"}   -> 1
    [] phase \in {"idle", "delta", "scan", "local", "collide", "resolve", "exec"} -> 0

CycleCloser ==
  \/ Stage' < Stage
  \/ Stage' = Stage /\ Left' \subseteq Left /\ Left' # Left
  \/ Stage' = Stage /\ Left' = Left /\ Rest' < Rest

\* Every step taken while a cycle runs brings it closer to its end (the order is
\* lexicographic, and there are only finitely many items), except for the steps
\* of the users, which leave it where it is: no loop over a page or a listing
\* visits an item twice, and no retry goes on for ever.
CycleDescends ==
  [][phase # "idle" =>
       CycleCloser \/ (UserStep /\ UNCHANGED <<phase, todo, ops, op, attempt>>)]_vars

\* With the SQLite store the engine changes neither side, but for the renames of
\* local case collisions, which are not file operations: every op_insert is refused.
OnlyCaseRenames ==
  [][edits' = edits =>
       drive' = drive /\ (disk' # disk => \E p \in Paths : LocalCaseCollision(p))]_vars

\* Every cycle comes to an end, whatever fails in it.
CycleEnds == phase # "idle" ~> phase = "idle"

-----------------------------------------------------------------------------
(***************************************************************************)
(* What the documents and comments of the repository say of the cycle, and *)
(* the code does not do.                                                   *)
(***************************************************************************)

\* ExecuteCounts.failed counts "ops that finished with FileOpStatus::Failed": a
\* run recorded as PartialFailure shows such an op.
FailureIsRecorded ==
  \A r \in 1..MaxRuns :
    runs[r] = "PartialFailure" => \E row \in opRows : row.run = r /\ row.status = "Failed"

\* A path that exists on both sides "with matching size and hash" is marked Clean
\* and the keep-both policy runs when both sides have diverged "from `synced' and
\* from each other": the two sides of a new conflict hold different contents.
ConflictSidesDiffer ==
  [][phase = "resolve" /\ phase' = "park" =>
       disk[cur'.path] # drive[cur'.path].c]_vars

\* "Rename loser on its own side first.  Until this succeeds the engine does not
\* touch the canonical path."
CanonicalUntouchedUntilRenamed ==
  [][\A p \in Paths :
       phase = "do" /\ op.kind = "Download" /\ disk[p] \in Contents /\ disk'[p] # disk[p] =>
         [run |-> run, kind |-> "LocalRename", path |-> op.path, status |-> "Success"]
            \in opRows]_vars

\* The decision table: local and remote both differ from synced => conflict
\* policy.  So a LocalDelete never removes a file that differs from synced,
\* unless it was changed during the cycle.
DeletionSparesLocalEdits ==
  [][\A p \in Paths :
       /\ phase = "do" /\ op.kind = "LocalDelete" /\ p \notin touched
       /\ disk[p] \in Contents /\ disk'[p] = Gone
       => ~local_differs_from_synced(local_side(disk[p]), entries[p].synced)]_vars
=============================================================================
