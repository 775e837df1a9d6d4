--------------------------- MODULE SyncCycleProofs ---------------------------
(***************************************************************************)
(* Type correctness of SyncCycle, and the invariant that no path is parked *)
(* without a Conflict row, for any set of paths and contents, any case     *)
(* folding and any bounds.                                                 *)
(***************************************************************************)
EXTENDS SyncCycle, TLAPS

USE DEF Items, Winner

\* What the scan and the delta page show of an item is a FileSide.
LEMMA SidesTyped ==
  /\ \A c \in Items : local_side(c) \in Side
  /\ \A d \in DriveItem : remote_side_from_item(d) \in Side
  /\ Absent \in Side /\ NoEntry \in Entry /\ NoItem \in DriveItem
<1> USE ContentsAssumption DEF Side, SideKind, Absent
<1>1. ASSUME NEW c \in Items PROVE local_side(c) \in Side
  BY DEF local_side
<1>2. ASSUME NEW d \in DriveItem PROVE remote_side_from_item(d) \in Side
  <2>1. d.c \in Items /\ d.etag \in Nat /\ d.id \in Nat
    BY DEF DriveItem
  <2>2. d.c # Gone => SizeOf[d.c] \in Nat
    BY <2>1
  <2> QED
    BY <2>1, <2>2 DEF remote_side_from_item
<1>3. Absent \in Side
  OBVIOUS
<1>4. NoEntry \in Entry
  BY <1>3 DEF NoEntry, Entry, SyncState
<1>5. NoItem \in DriveItem
  BY DEF NoItem, DriveItem
<1> QED
  BY <1>1, <1>2, <1>3, <1>4, <1>5

\* reconcile_one returns a decision.
LEMMA DecisionTyped ==
  ASSUME NEW e \in Entry, NEW r \in Side
  PROVE  reconcile_kind(e, r) \in DecisionKind
<1>1. reconcile_both(e, r) \in DecisionKind
  BY DEF reconcile_both, DecisionKind, PlannedKind
<1>2. r.kind \in SideKind
  BY DEF Side
<1> QED
  BY <1>1, <1>2 DEF reconcile_kind, DecisionKind, PlannedKind

\* Recording what the delta shows of a path gives an entry, and does not park it.
LEMMA ObservationTyped ==
  ASSUME NEW e \in Entry, NEW r \in Side
  PROVE  /\ build_remote_observation(e, r) \in Entry
         /\ build_remote_observation(e, r).state = "PendingConflict" => e.state = "PendingConflict"
<1>1. r.kind \in SideKind /\ Absent \in Side
  BY SidesTyped DEF Side
<1> QED
  BY <1>1 DEF build_remote_observation, Entry, Tracked, SyncState

\* An executed operation leaves a Clean entry.
LEMMA PostOpTyped ==
  ASSUME NEW e \in Entry, NEW kind \in OpKind \ ConflictKinds
  PROVE  post_op_entry(e, kind) \in Entry /\ post_op_entry(e, kind).state = "Clean"
<1>1. Absent \in Side /\ [Absent EXCEPT !.kind = "Directory"] \in Side
  BY DEF Absent, Side, SideKind
<1>2. e.local \in Side /\ e.remote \in Side
  BY DEF Entry
<1>3. kind \in {"Upload", "Download", "LocalDelete", "LocalMkdir", "RemoteMkdir"}
  BY DEF OpKind, PlannedKind, ConflictKinds
<1> QED
  BY <1>1, <1>2, <1>3 DEF post_op_entry, Entry, SyncState

\* The operations the cycle builds are operations.
LEMMA OpsTyped ==
  ASSUME NEW p \in Paths, NEW i \in Nat
  PROVE  /\ RemoteRenameOp(p, i) \in Op
         /\ remote_winner_conflict_ops(p, i) \subseteq Op
BY DEF RemoteRenameOp, remote_winner_conflict_ops, Op, OpKind, ConflictKinds, PlannedKind

\* So are those of the plan.
LEMMA PlanTyped ==
  ASSUME decision \in [Paths -> DecisionKind \cup {"none"}]
  PROVE  plan \subseteq Op
BY DEF plan, plan_rank, Op, OpKind, PlannedKind

\* A path resolves to a path.
LEMMA AtTyped ==
  ASSUME NEW p \in Paths
  PROVE  At(p) \in Paths
<1> DEFINE same == {q \in Paths : Fold[q] = Fold[p] /\ disk[q] # Gone}
<1>1. same # {} => (CHOOSE q \in same : TRUE) \in same
  OBVIOUS
<1> QED
  BY <1>1 DEF At

\* Initially the types hold.
LEMMA InitType == Init => TypeOK
<1> SUFFICES ASSUME Init PROVE TypeOK
  OBVIOUS
<1> USE PathsAssumption, BoundsAssumption, FoldersAssumption, DrivesAssumption, SidesTyped DEF Init
<1>1. WorldType
  BY DEF WorldType
<1>2. StoreType
  BY DEF StoreType
<1>3. FoundType
  BY DEF FoundType, NoSides, NoDecisions, Phases
<1>4. failed \in BOOLEAN
  BY Zenon
<1>5. ExecType
  BY <1>4 DEF ExecType
<1> QED
  BY <1>1, <1>2, <1>3, <1>5 DEF TypeOK

-----------------------------------------------------------------------------
\* Leaving the cycle, or not counting as a cycle at all.
LEMMA EndCycleType ==
  ASSUME TypeOK, EndCycle, faults' \in 0..MaxFaults
  PROVE  FoundType' /\ ExecType'
<1>1. FoundType'
  BY SidesTyped DEF EndCycle, TypeOK, FoundType, Phases, NoSides, NoDecisions
<1>2. failed' \in BOOLEAN
  BY Zenon DEF EndCycle
<1>3. ExecType'
  BY <1>2, BoundsAssumption DEF EndCycle, TypeOK, ExecType
<1> QED
  BY <1>1, <1>3

\* A step that writes nothing to the store but file entries.
LEMMA EntriesType ==
  ASSUME TypeOK, UNCHANGED <<cursor, conflicts, opRows, runs>>, entries' \in [Paths -> Entry]
  PROVE  StoreType'
BY DEF TypeOK, StoreType

\* A function stays in its set of functions when one value is replaced.
LEMMA Replaced ==
  ASSUME NEW S, NEW T, NEW f \in [S -> T], NEW i \in S, NEW v \in T
  PROVE  [f EXCEPT ![i] = v] \in [S -> T]
OBVIOUS

\* The delta phase.
LEMMA DeltaType ==
  ASSUME TypeOK, StartCycle \/ (\E p \in Paths : DeltaItem(p)) \/ AdvanceCursor
  PROVE  TypeOK'
<1> USE PathsAssumption, BoundsAssumption
<1>1. CASE StartCycle
  <2>1. PICK page \in SUBSET Changed, old \in SUBSET Recreated :
          LET named == (page \cup old) \cap RelPaths
              dropped == detect_remote_case_collisions(named, page \cap old)
          IN /\ token' = IF page = Changed /\ old = Recreated THEN seq ELSE 0
             /\ snap' = [p \in Paths |-> IF p \in page \cap named
                                            THEN remote_side_from_item(drive[p]) ELSE Absent]
             /\ \E first \in SUBSET (page \cap old) :
                  renames' = process_remote_case_collisions(dropped, (old \ page) \cup first)
             /\ todo' = named \ dropped
             /\ twice' = (twice \ page) \cup (page \cap old)
    BY <1>1 DEF StartCycle
  <2> DEFINE named == (page \cup old) \cap RelPaths
             dropped == detect_remote_case_collisions(named, page \cap old)
  <2>2. WorldType' /\ StoreType'
    BY <1>1 DEF StartCycle, TypeOK, WorldType, StoreType, world, store
  <2>3. snap' \in [Paths -> Side] /\ token' \in Nat
    BY <2>1, SidesTyped DEF TypeOK, WorldType
  <2>4. renames' \subseteq Op /\ todo' \subseteq Paths
    <3>1. PICK former : renames' = process_remote_case_collisions(dropped, former)
      BY <2>1
    <3>2. \A p \in dropped : p \in Paths /\ drive[p].id \in Nat /\ drive[p].old \in Nat
      BY DEF detect_remote_case_collisions, TypeOK, WorldType, DriveItem
    <3>3. ASSUME NEW p \in dropped
          PROVE  RemoteRenameOp(p, IF p \in former THEN drive[p].old ELSE drive[p].id) \in Op
      <4>1. (IF p \in former THEN drive[p].old ELSE drive[p].id) \in Nat /\ p \in Paths
        BY <3>2
      <4> QED
        BY <4>1, OpsTyped
    <3>4. todo' \subseteq Paths
      BY <2>1
    <3>5. \A o \in renames' : \E p \in dropped :
            o = RemoteRenameOp(p, IF p \in former THEN drive[p].old ELSE drive[p].id)
      BY <3>1 DEF process_remote_case_collisions
    <3> HIDE DEF dropped
    <3> QED
      BY <3>3, <3>4, <3>5
  <2>5. FoundType'
    <3>1. /\ run < MaxRuns /\ run' = run + 1 /\ phase' = "delta"
          /\ UNCHANGED <<decision, live, scan, coll, cur>>
      BY <1>1 DEF StartCycle
    <3> QED
      BY <2>3, <2>4, <3>1 DEF TypeOK, FoundType, Phases
  <2>6. ExecType'
    <3>1. page \subseteq Paths /\ twice' \subseteq Paths
      BY <2>1 DEF Changed, TypeOK, ExecType
    <3> QED
      BY <1>1, <3>1 DEF StartCycle, TypeOK, ExecType, exec
  <2> QED
    BY <2>2, <2>5, <2>6 DEF TypeOK
<1>2. ASSUME NEW p \in Paths, DeltaItem(p) PROVE TypeOK'
  <2>1. entries[p] \in Entry /\ snap[p] \in Side /\ snap[p].id \in Nat
    BY DEF TypeOK, StoreType, FoundType, Side
  <2>2. build_remote_observation(entries[p], snap[p]) \in Entry
    BY <2>1, ObservationTyped
  <2>3. reconcile_kind(entries[p], snap[p]) \in DecisionKind /\ RemoteRenameOp(p, snap[p].id) \in Op
    BY <2>1, DecisionTyped, OpsTyped
  <2>4. WorldType' /\ ExecType'
    BY <1>2 DEF DeltaItem, TypeOK, WorldType, ExecType, world, exec, bound
  <2>5. StoreType'
    <3>1. \/ entries' = entries
          \/ entries' = [entries EXCEPT ![p] = build_remote_observation(entries[p], snap[p])]
      BY <1>2 DEF DeltaItem
    <3>2. entries' \in [Paths -> Entry]
      <4>1. entries \in [Paths -> Entry]
        BY DEF TypeOK, StoreType
      <4> QED
        BY <2>2, <3>1, <4>1
    <3> QED
      BY <1>2, <3>2 DEF DeltaItem, TypeOK, StoreType
  <2>6. FoundType'
    BY <1>2, <2>3 DEF DeltaItem, TypeOK, FoundType
  <2> QED
    BY <2>4, <2>5, <2>6 DEF TypeOK
<1>3. CASE AdvanceCursor
  <2>1. WorldType' /\ ExecType'
    BY <1>3 DEF AdvanceCursor, TypeOK, WorldType, ExecType, world, exec, bound
  <2>2. StoreType' /\ FoundType'
    BY <1>3 DEF AdvanceCursor, TypeOK, StoreType, FoundType, found, Phases
  <2> QED
    BY <2>1, <2>2 DEF TypeOK
<1> QED
  BY <1>1, <1>2, <1>3

\* The local phase and the case collisions in it.
LEMMA LocalType ==
  ASSUME TypeOK,
         \/ LocalScan \/ LocalDone \/ CaseCollisionRow \/ CaseCollisionPark
         \/ \E p \in Paths : LocalItem(p) \/ LocalCaseCollision(p) \/ CaseCollisionRenameFails(p)
  PROVE  TypeOK'
<1> USE PathsAssumption, BoundsAssumption
<1>1. CASE LocalScan
  <2>1. scan' \in [Paths -> Side]
    BY <1>1, SidesTyped DEF LocalScan, TypeOK, WorldType
  <2>2. FoundType'
    BY <1>1, <2>1 DEF LocalScan, TypeOK, FoundType, Phases
  <2>3. WorldType' /\ StoreType' /\ ExecType'
    BY <1>1 DEF LocalScan, TypeOK, WorldType, StoreType, ExecType, world, store, exec, bound
  <2> QED
    BY <2>2, <2>3 DEF TypeOK
<1>2. ASSUME NEW p \in Paths, LocalItem(p) PROVE TypeOK'
  <2>1. [state |-> "PendingUpload", kind |-> scan[p].kind, local |-> scan[p],
         remote |-> entries[p].remote, synced |-> entries[p].synced] \in Entry
    BY DEF TypeOK, StoreType, FoundType, Entry, Side, SyncState
  <2>2. StoreType'
    <3>1. entries \in [Paths -> Entry]
      BY DEF TypeOK, StoreType
    <3> DEFINE e == [state |-> "PendingUpload", kind |-> scan[p].kind, local |-> scan[p],
                     remote |-> entries[p].remote, synced |-> entries[p].synced]
    <3>a. entries' = entries \/ entries' = [entries EXCEPT ![p] = e]
      BY <1>2 DEF LocalItem
    <3>b. e \in Entry
      BY <2>1
    <3>2. entries' \in [Paths -> Entry]
      <4> HIDE DEF e
      <4> QED
        BY <3>1, <3>a, <3>b, Replaced
    <3> QED
      BY <1>2, <3>2, EntriesType DEF LocalItem
  <2>3. FoundType'
    <3>1. \/ decision' = decision
          \/ \E k \in {"RemoteMkdir", "Upload"} : decision' = [decision EXCEPT ![p] = k]
      BY <1>2 DEF LocalItem
    <3>2. /\ decision \in [Paths -> DecisionKind \cup {"none"}]
          /\ {"RemoteMkdir", "Upload"} \subseteq DecisionKind
      BY DEF TypeOK, FoundType, DecisionKind, PlannedKind
    <3>3. decision' \in [Paths -> DecisionKind \cup {"none"}]
      BY <3>1, <3>2
    <3> QED
      BY <1>2, <3>3 DEF LocalItem, TypeOK, FoundType
  <2>4. WorldType' /\ ExecType'
    BY <1>2 DEF LocalItem, TypeOK, WorldType, ExecType, world, exec, bound
  <2> QED
    BY <2>2, <2>3, <2>4 DEF TypeOK
<1>3. ASSUME NEW p \in Paths, LocalCaseCollision(p) PROVE TypeOK'
  <2>1. PICK q \in find_case_collision(p) : cur' = [path |-> q, local |-> p, winner |-> "Remote"]
    BY <1>3 DEF LocalCaseCollision
  <2>2. cur' \in Raised
    BY <2>1 DEF find_case_collision, case_folds_equal, TypeOK, FoundType, Raised
  <2>3. FoundType'
    BY <1>3, <2>2 DEF LocalCaseCollision, TypeOK, FoundType, Phases
  <2>4. disk' \in [Paths -> Items]
    BY <1>3, AtTyped DEF LocalCaseCollision, renamed_disk, TypeOK, WorldType
  <2>5. WorldType' /\ StoreType' /\ ExecType'
    BY <1>3, <2>4
       DEF LocalCaseCollision, TypeOK, WorldType, StoreType, ExecType, store, exec, bound
  <2> QED
    BY <2>3, <2>5 DEF TypeOK
<1>4. ASSUME NEW p \in Paths, CaseCollisionRenameFails(p) PROVE TypeOK'
  <2>1. FoundType' /\ ExecType'
    BY <1>4, EndCycleType DEF CaseCollisionRenameFails, TypeOK, ExecType
  <2>2. WorldType' /\ StoreType'
    BY <1>4 DEF CaseCollisionRenameFails, TypeOK, WorldType, StoreType, world, store
  <2> QED
    BY <2>1, <2>2 DEF TypeOK
<1>5. CASE CaseCollisionRow
  <2>1. [run |-> run, path |-> cur.path, loser |-> CaseTarget[cur.local],
         winner |-> cur.winner, resolved |-> FALSE] \in Conflict
    BY <1>5 DEF CaseCollisionRow, TypeOK, FoundType, Raised, Conflict
  <2>2. StoreType'
    BY <1>5, <2>1 DEF CaseCollisionRow, TypeOK, StoreType
  <2>3. WorldType' /\ FoundType' /\ ExecType'
    BY <1>5 DEF CaseCollisionRow, TypeOK, WorldType, FoundType, ExecType, world, found, exec,
                bound, Phases
  <2> QED
    BY <2>2, <2>3 DEF TypeOK
<1>6. CASE CaseCollisionPark
  <2>1. cur.local \in Paths
    BY <1>6 DEF CaseCollisionPark, TypeOK, FoundType, Raised
  <2>2. StoreType'
    <3>1. entries \in [Paths -> Entry] /\ entries[cur.local] \in Entry
      BY <2>1 DEF TypeOK, StoreType
    <3>2. [entries[cur.local] EXCEPT !.local = Absent, !.state = "PendingConflict"] \in Entry
      BY <3>1, SidesTyped DEF Entry, SyncState
    <3>3. entries' \in [Paths -> Entry]
      BY <1>6, <2>1, <3>1, <3>2 DEF CaseCollisionPark
    <3> QED
      BY <1>6, <3>3, EntriesType DEF CaseCollisionPark
  <2>3. WorldType' /\ FoundType' /\ ExecType'
    BY <1>6 DEF CaseCollisionPark, TypeOK, WorldType, FoundType, ExecType, world, exec, bound,
                Phases
  <2> QED
    BY <2>2, <2>3 DEF TypeOK
<1>7. CASE LocalDone
  BY <1>7 DEF LocalDone, TypeOK, WorldType, StoreType, FoundType, ExecType, world, store, found,
              exec, bound, Phases
<1> QED
  BY <1>1, <1>2, <1>3, <1>4, <1>5, <1>6, <1>7

\* Collisions, content conflicts and the plan.
LEMMA ResolveType ==
  ASSUME TypeOK,
         \/ CollisionsDone \/ ParkConflict \/ Plan
         \/ \E p \in Paths : InitialSyncCollision(p) \/ RecordContentConflict(p)
  PROVE  TypeOK'
<1> USE PathsAssumption, BoundsAssumption
<1>1. CASE CollisionsDone
  BY <1>1 DEF CollisionsDone, TypeOK, WorldType, StoreType, FoundType, ExecType, world, store,
              found, exec, bound, Phases
<1>2. CASE ParkConflict
  <2>1. cur \in Raised /\ cur.path \in Paths /\ entries[cur.path].remote.id \in Nat
    BY <1>2 DEF ParkConflict, TypeOK, FoundType, StoreType, Raised, Entry, Side
  <2>2. StoreType'
    <3>1. entries \in [Paths -> Entry] /\ entries[cur.path] \in Entry
      BY <2>1 DEF TypeOK, StoreType
    <3>2. [entries[cur.path] EXCEPT !.state = "PendingConflict"] \in Entry
      BY <3>1 DEF Entry, SyncState
    <3>3. entries' \in [Paths -> Entry]
      BY <1>2, <2>1, <3>1, <3>2 DEF ParkConflict
    <3> QED
      BY <1>2, <3>3, EntriesType DEF ParkConflict
  <2>3. ops' \subseteq Op
    BY <1>2, <2>1, OpsTyped DEF ParkConflict, TypeOK, ExecType
  <2>4. WorldType' /\ FoundType' /\ ExecType'
    BY <1>2, <2>3 DEF ParkConflict, TypeOK, WorldType, FoundType, ExecType, world, bound, Phases
  <2> QED
    BY <2>2, <2>4 DEF TypeOK
<1>3. CASE Plan
  <2>1. ops' \subseteq Op
    BY <1>3, PlanTyped DEF Plan, TypeOK, FoundType, ExecType
  <2>2. WorldType' /\ StoreType' /\ FoundType' /\ ExecType'
    BY <1>3, <2>1 DEF Plan, TypeOK, WorldType, StoreType, FoundType, ExecType, world, store,
                      found, bound, Phases
  <2> QED
    BY <2>2 DEF TypeOK
<1>4. ASSUME NEW p \in Paths, InitialSyncCollision(p) PROVE TypeOK'
  <2>1. StoreType'
    <3>1. entries \in [Paths -> Entry] /\ entries[p] \in Entry /\ scan[p] \in Side
      BY DEF TypeOK, StoreType, FoundType
    <3>2. [entries[p] EXCEPT !.local = scan[p]] \in Entry
      BY <3>1 DEF Entry
    <3>3. entries' \in [Paths -> Entry]
      BY <1>4, <3>1, <3>2 DEF InitialSyncCollision
    <3> QED
      BY <1>4, <3>3, EntriesType DEF InitialSyncCollision
  <2>2. FoundType'
    BY <1>4 DEF InitialSyncCollision, TypeOK, FoundType, DecisionKind
  <2>3. WorldType' /\ ExecType'
    BY <1>4 DEF InitialSyncCollision, TypeOK, WorldType, ExecType, world, exec, bound
  <2> QED
    BY <2>1, <2>2, <2>3 DEF TypeOK
<1>5. ASSUME NEW p \in Paths, RecordContentConflict(p) PROVE TypeOK'
  <2>1. CASE Present(entries[p].local) /\ Present(entries[p].remote)
    <3>1. PICK w \in Winner :
            /\ cur' = [path |-> p, local |-> p, winner |-> w]
            /\ conflicts' = conflicts \cup
                 {[run |-> run, path |-> p, loser |-> Loser(p, run), winner |-> w,
                   resolved |-> FALSE]}
            /\ phase' = "park"
      BY <1>5, <2>1 DEF RecordContentConflict
    <3>2. run \in 1..MaxRuns /\ Loser(p, run) \in Paths
      BY <1>5 DEF RecordContentConflict, TypeOK, FoundType
    <3>3. conflicts' \subseteq Conflict /\ cur' \in Raised
      <4>1. [run |-> run, path |-> p, loser |-> Loser(p, run), winner |-> w,
             resolved |-> FALSE] \in Conflict
        BY <3>2 DEF Conflict
      <4>2. cur' \in Raised
        BY <3>1 DEF Raised
      <4> QED
        BY <3>1, <4>1, <4>2 DEF TypeOK, StoreType
    <3>4. StoreType'
      BY <1>5, <3>3 DEF RecordContentConflict, TypeOK, StoreType
    <3>5. FoundType'
      BY <1>5, <3>1, <3>3 DEF RecordContentConflict, TypeOK, FoundType, Phases
    <3>6. WorldType' /\ ExecType'
      BY <1>5, <3>1 DEF RecordContentConflict, TypeOK, WorldType, ExecType, world, exec, bound
    <3> QED
      BY <3>4, <3>5, <3>6 DEF TypeOK
  <2>2. CASE ~(Present(entries[p].local) /\ Present(entries[p].remote))
    <3>1. WorldType' /\ ExecType'
      BY <1>5, <2>2 DEF RecordContentConflict, TypeOK, WorldType, ExecType, world, exec, bound
    <3>2. StoreType'
      BY <1>5, <2>2 DEF RecordContentConflict, TypeOK, StoreType
    <3>3. FoundType'
      BY <1>5, <2>2 DEF RecordContentConflict, TypeOK, FoundType
    <3> QED
      BY <3>1, <3>2, <3>3 DEF TypeOK
  <2> QED
    BY <2>1, <2>2
<1> QED
  BY <1>1, <1>2, <1>3, <1>4, <1>5

-----------------------------------------------------------------------------
\* The attempt counter stays within the budget.
LEMMA AttemptBounded ==
  ASSUME attempt \in 0..RetryMax, ~retry_exhausted(attempt, RetryMax)
  PROVE  attempt + 1 \in 0..RetryMax
BY BoundsAssumption DEF retry_exhausted

\* A write by anyone leaves a drive of drive items.
LEMMA WrittenTyped ==
  ASSUME WorldType, NEW q \in Paths, NEW c \in Items, Written(q, c)
  PROVE  drive' \in [Paths -> DriveItem] /\ seq' \in Nat
<1>1. drive[q].id \in Nat /\ Buried(drive[q]) \in Nat
  BY DEF WorldType, DriveItem, Buried
<1> QED
  BY <1>1 DEF Written, WorldType, DriveItem

\* However an attempt ends, only attempt, phase and faults change with the world.
LEMMA AttemptType ==
  ASSUME TypeOK, phase = "do", ~retry_exhausted(attempt, RetryMax),
         UNCHANGED Executed, WorldType', faults' \in 0..MaxFaults,
         \/ phase' = "postOk" /\ UNCHANGED attempt
         \/ Retry
         \/ Abandon
  PROVE  TypeOK'
<1>1. attempt' \in 0..RetryMax /\ phase' \in {"do", "postOk", "postFailed"}
  BY AttemptBounded DEF Retry, Abandon, TypeOK, ExecType
<1>2. StoreType'
  BY DEF TypeOK, StoreType, Executed, store
<1>3. FoundType'
  BY <1>1 DEF TypeOK, FoundType, Executed, found, Phases
<1>4. /\ failed' \in BOOLEAN /\ op' = op /\ ops' = ops
      /\ touched' = touched /\ twice' = twice /\ edits' = edits
  BY DEF TypeOK, ExecType, Executed
<1>5. ExecType'
  BY <1>1, <1>4 DEF TypeOK, ExecType
<1> QED
  BY <1>2, <1>3, <1>5 DEF TypeOK

\* The operations.
LEMMA ExecuteType ==
  ASSUME TypeOK, ExecuteStep
  PROVE  TypeOK'
<1> USE PathsAssumption, BoundsAssumption
<1>1. \A kind : Attempting(kind) => phase = "do" /\ ~retry_exhausted(attempt, RetryMax)
                                    /\ op.path \in Paths /\ At(op.path) \in Paths
                                    /\ op.id \in Nat
  <2>1. phase = "do" => op.path \in Paths /\ op.id \in Nat
    BY DEF TypeOK, ExecType, Op
  <2> QED
    BY <2>1, AtTyped DEF Attempting
<1>2. ASSUME faults < MaxFaults, faults' = faults + 1 PROVE faults' \in 0..MaxFaults
  BY <1>2 DEF TypeOK, ExecType
<1>3. CASE ExecuteLocalMkdir \/ ExecuteLocalDelete \/ ExecuteLocalRename
  <2>1. (\E kind : Attempting(kind)) /\ Returned /\ UNCHANGED <<drive, seq>>
    BY <1>3 DEF ExecuteLocalMkdir, ExecuteLocalDelete, ExecuteLocalRename
  <2>2. CASE ExecuteLocalMkdir \/ ExecuteLocalDelete
    <3>1. disk' \in [Paths -> Items]
      BY <2>2, <1>1 DEF ExecuteLocalMkdir, ExecuteLocalDelete, TypeOK, WorldType
    <3> QED
      BY <1>1, <2>1, <3>1, AttemptType DEF Returned, TypeOK, WorldType, ExecType
  <2>3. CASE ExecuteLocalRename
    <3>1. run \in 1..MaxRuns /\ op.path \in Paths
      BY <1>1, <2>1 DEF TypeOK, FoundType
    <3>2. At(op.path) \in Paths /\ At(Loser(op.path, run)) \in Paths
      BY <3>1, AtTyped
    <3>3. disk' \in [Paths -> Items]
      BY <2>3, <3>2 DEF ExecuteLocalRename, renamed_disk, TypeOK, WorldType
    <3> QED
      BY <1>1, <2>1, <3>3, AttemptType DEF Returned, TypeOK, WorldType, ExecType
  <2> QED
    BY <1>3, <2>2, <2>3
<1>4. CASE ExecuteDownload
  <2>1. Attempting("Download") /\ (Returned \/ LateError(Retry)) /\ UNCHANGED <<drive, seq>>
    BY <1>4 DEF ExecuteDownload
  <2>2. disk' \in [Paths -> Items]
    BY <1>1, <1>4 DEF ExecuteDownload, Source, TypeOK, WorldType
  <2> QED
    BY <1>1, <1>2, <2>1, <2>2, AttemptType DEF Returned, LateError, TypeOK, WorldType, ExecType
<1>5. CASE ExecuteUpload
  <2>1. Attempting("Upload") /\ (Returned \/ LateError(Retry \/ Abandon)) /\ UNCHANGED disk
    BY <1>5 DEF ExecuteUpload
  <2>2. drive' \in [Paths -> DriveItem] /\ seq' \in Nat
    <3>1. \/ UNCHANGED <<drive, seq>>
          \/ disk[At(op.path)] \in Contents /\ Written(Leaf[op.path], disk[At(op.path)])
      BY <1>5 DEF ExecuteUpload
    <3>2. Leaf[op.path] \in Paths
      BY <1>1, <2>1
    <3> QED
      BY <3>1, <3>2, WrittenTyped DEF TypeOK, WorldType
  <2> QED
    BY <1>1, <1>2, <2>1, <2>2, AttemptType DEF Returned, LateError, TypeOK, WorldType, ExecType
<1>6. CASE ExecuteRemoteRename
  <2>1. Attempting("RemoteRename") /\ (Returned \/ LateError(Retry \/ Abandon)) /\ UNCHANGED disk
    BY <1>6 DEF ExecuteRemoteRename
  <2> DEFINE target == CaseTarget[op.path]
             left(q) == [NoItem EXCEPT !.old = Buried(drive[q])]
             moved(q) == [c |-> drive[q].c, etag |-> seq + 1, id |-> op.id,
                          old |-> Buried(drive[target])]
  <2>2. PICK q \in Paths :
          seq' = seq + 1 /\ drive' = [drive EXCEPT ![q] = left(q), ![target] = moved(q)]
    BY <1>6 DEF ExecuteRemoteRename
  <2>3. /\ drive \in [Paths -> DriveItem] /\ seq \in Nat /\ target \in Paths
        /\ \A p \in Paths : drive[p].c \in Items /\ Buried(drive[p]) \in Nat
    BY <1>1, <2>1 DEF TypeOK, WorldType, DriveItem, Buried
  <2>4. drive' \in [Paths -> DriveItem] /\ seq' \in Nat
    <3>1. left(q) \in DriveItem /\ moved(q) \in DriveItem
      BY <1>1, <2>1, <2>3 DEF NoItem, DriveItem, Items
    <3>2. [drive EXCEPT ![q] = left(q)] \in [Paths -> DriveItem]
      BY <2>3, <3>1
    <3> HIDE DEF left, moved, target
    <3> QED
      BY <2>2, <2>3, <3>1, <3>2
  <2> QED
    BY <1>1, <1>2, <2>1, <2>4, AttemptType DEF Returned, LateError, TypeOK, WorldType, ExecType
<1>7. CASE ExecuteFails
  <2>1. /\ \E k \in OpKind : Attempting(k)
        /\ Retry \/ Abandon
        /\ UNCHANGED faults \/ (faults < MaxFaults /\ faults' = faults + 1)
        /\ UNCHANGED <<world, Executed>>
    BY <1>7 DEF ExecuteFails
  <2>2. faults' \in 0..MaxFaults
    BY <1>2, <2>1 DEF TypeOK, ExecType
  <2>3. WorldType'
    BY <2>1 DEF TypeOK, WorldType, world
  <2> QED
    BY <1>1, <2>1, <2>2, <2>3, AttemptType
<1>8. CASE Exhausted
  BY <1>8 DEF Exhausted, TypeOK, WorldType, StoreType, FoundType, ExecType, world, store, found,
              exec, bound, Phases
<1> QED
  BY <1>3, <1>4, <1>5, <1>6, <1>7, <1>8 DEF ExecuteStep

\* The store writes around an operation, and the end of the cycle.
LEMMA BookkeepingType ==
  ASSUME TypeOK, (\E o \in ops : InsertOp(o)) \/ UpdateStatus \/ UpdateEntry \/ RecordRun
  PROVE  TypeOK'
<1> USE PathsAssumption, BoundsAssumption
<1>1. ASSUME faults < MaxFaults, faults' = faults + 1 PROVE faults' \in 0..MaxFaults
  BY <1>1 DEF TypeOK, ExecType
<1>2. ASSUME NEW o \in ops, InsertOp(o) PROVE TypeOK'
  <2>1. o \in Op /\ run \in 1..MaxRuns
    BY <1>2 DEF InsertOp, TypeOK, ExecType, FoundType
  <2>2. [run |-> run, kind |-> o.kind, path |-> o.path, status |-> "Enqueued"] \in OpRow
    BY <2>1 DEF Op, OpRow
  <2>3. StoreType'
    BY <1>2, <2>2 DEF InsertOp, TypeOK, StoreType
  <2>4. FoundType' /\ WorldType'
    BY <1>2 DEF InsertOp, TypeOK, FoundType, WorldType, world, found, Phases
  <2>5. failed' \in BOOLEAN
    <3>1. failed' = failed \/ failed' = TRUE
      BY <1>2 DEF InsertOp
    <3>2. failed \in BOOLEAN
      BY DEF TypeOK, ExecType
    <3> QED
      BY <3>1, <3>2, Zenon
  <2>6. ExecType'
    BY <1>1, <1>2, <2>1, <2>5 DEF InsertOp, TypeOK, ExecType
  <2> QED
    BY <2>3, <2>4, <2>6 DEF TypeOK
<1>3. CASE UpdateStatus
  <2> DEFINE r(status) == [run |-> run, kind |-> op.kind, path |-> op.path, status |-> status]
  <2>1. op \in Op /\ run \in 1..MaxRuns
    BY <1>3 DEF UpdateStatus, TypeOK, ExecType, FoundType
  <2>2. \A st \in {"Success", "Failed"} : r(st) \in OpRow
    BY <2>1 DEF Op, OpRow
  <2>3. opRows' \subseteq OpRow
    <3>1. \/ opRows' = opRows
          \/ \E st \in {"Success", "Failed"} : opRows' = (opRows \ {r("Enqueued")}) \cup {r(st)}
      BY <1>3 DEF UpdateStatus
    <3> HIDE DEF r
    <3> QED
      BY <2>2, <3>1 DEF TypeOK, StoreType
  <2>4. StoreType'
    BY <1>3, <2>3 DEF UpdateStatus, TypeOK, StoreType
  <2>5. FoundType' /\ WorldType'
    BY <1>3 DEF UpdateStatus, OpDone, TypeOK, FoundType, WorldType, world, found, Phases
  <2>6. failed' \in BOOLEAN
    <3>1. failed' = failed \/ failed' = TRUE
      BY <1>3 DEF UpdateStatus
    <3>2. failed \in BOOLEAN
      BY DEF TypeOK, ExecType
    <3> QED
      BY <3>1, <3>2, Zenon
  <2>7. ExecType'
    BY <1>1, <1>3, <2>1, <2>6 DEF UpdateStatus, OpDone, TypeOK, ExecType
  <2> QED
    BY <2>4, <2>5, <2>7 DEF TypeOK
<1>4. CASE UpdateEntry
  <2>1. op \in Op /\ op.path \in Paths /\ op.kind \in OpKind
    BY <1>4 DEF UpdateEntry, TypeOK, ExecType, Op
  <2>2. op.kind \notin ConflictKinds => post_op_entry(entries[op.path], op.kind) \in Entry
    BY <2>1, PostOpTyped DEF TypeOK, StoreType
  <2>3. entries' \in [Paths -> Entry]
    <3> DEFINE e == post_op_entry(entries[op.path], op.kind)
    <3>1. \/ entries' = entries
          \/ op.kind \notin ConflictKinds /\ entries' = [entries EXCEPT ![op.path] = e]
      BY <1>4 DEF UpdateEntry
    <3>2. entries \in [Paths -> Entry]
      BY DEF TypeOK, StoreType
    <3>3. op.kind \notin ConflictKinds => e \in Entry
      BY <2>2
    <3> HIDE DEF e
    <3> QED
      BY <2>1, <3>1, <3>2, <3>3, Replaced
  <2>4. StoreType'
    BY <1>4, <2>3 DEF UpdateEntry, TypeOK, StoreType
  <2>5. FoundType' /\ WorldType'
    BY <1>4 DEF UpdateEntry, OpDone, TypeOK, FoundType, WorldType, world, found, Phases
  <2>6. ExecType'
    BY <1>1, <1>4 DEF UpdateEntry, OpDone, TypeOK, ExecType
  <2> QED
    BY <2>4, <2>5, <2>6 DEF TypeOK
<1>5. CASE RecordRun
  <2>1. FoundType' /\ ExecType'
    BY <1>5, EndCycleType DEF RecordRun, TypeOK, ExecType
  <2>2. WorldType' /\ StoreType'
    BY <1>5 DEF RecordRun, classify_outcome, TypeOK, WorldType, StoreType, FoundType, world
  <2> QED
    BY <2>1, <2>2 DEF TypeOK
<1> QED
  BY <1>2, <1>3, <1>4, <1>5

\* The users and the faults.
LEMMA UserType ==
  ASSUME TypeOK, UserStep \/ Interrupt
  PROVE  TypeOK'
<1> USE PathsAssumption, BoundsAssumption, ContentsAssumption
<1>1. ASSUME NEW p \in UserPaths, NEW c \in UserItems, LocalEdit(p, c) PROVE TypeOK'
  <2>1. At(p) \in Paths /\ c \in Items
    BY AtTyped
  <2>2. WorldType' /\ ExecType'
    BY <1>1, <2>1 DEF LocalEdit, Edit, TypeOK, WorldType, ExecType, exec
  <2>3. StoreType' /\ FoundType'
    BY <1>1 DEF LocalEdit, TypeOK, StoreType, FoundType, store, found
  <2> QED
    BY <2>2, <2>3 DEF TypeOK
<1>2. ASSUME NEW p \in UserPaths, NEW c \in UserItems, RemoteEdit(p, c) PROVE TypeOK'
  <2>0. StoreType' /\ FoundType' /\ ExecType'
    <3>1. StoreType' /\ FoundType'
      BY <1>2 DEF RemoteEdit, TypeOK, StoreType, FoundType, store, found
    <3>2. ExecType'
      BY <1>2 DEF RemoteEdit, Edit, TypeOK, ExecType, exec
    <3> QED
      BY <3>1, <3>2
  <2>1. CASE Written(p, c)
    <3>1. WorldType'
      BY <1>2, <2>1, WrittenTyped DEF RemoteEdit, TypeOK, WorldType
    <3> QED
      BY <2>0, <3>1 DEF TypeOK
  <2>2. CASE seq' = seq + 1 /\ drive' = [drive EXCEPT ![p].c = Gone, ![p].etag = seq + 1]
    <3>1. WorldType'
      <4>1. p \in Paths /\ drive[p] \in DriveItem /\ seq + 1 \in Nat
        BY DEF TypeOK, WorldType
      <4>2. [drive[p] EXCEPT !.c = Gone, !.etag = seq + 1] \in DriveItem
        BY <4>1 DEF DriveItem
      <4>3. drive' = [drive EXCEPT ![p] = [drive[p] EXCEPT !.c = Gone, !.etag = seq + 1]]
        BY <2>2
      <4>4. drive' \in [Paths -> DriveItem]
        BY <4>1, <4>2, <4>3 DEF TypeOK, WorldType
      <4> QED
        BY <1>2, <2>2, <4>1, <4>4 DEF RemoteEdit, TypeOK, WorldType
    <3> QED
      BY <2>0, <3>1 DEF TypeOK
  <2> QED
    BY <1>2, <2>1, <2>2 DEF RemoteEdit
<1>3. ASSUME NEW c \in conflicts, ResolveConflict(c) PROVE TypeOK'
  <2>0. c \in Conflict
    BY DEF TypeOK, StoreType
  <2>1. [c EXCEPT !.resolved = TRUE] \in Conflict
    BY <2>0, Zenon DEF Conflict
  <2>2. StoreType'
    BY <1>3, <2>1 DEF ResolveConflict, TypeOK, StoreType
  <2>3. WorldType' /\ FoundType' /\ ExecType'
    BY <1>3 DEF ResolveConflict, TypeOK, WorldType, FoundType, ExecType, world, found, exec, bound
  <2> QED
    BY <2>2, <2>3 DEF TypeOK
<1>4. CASE Interrupt
  <2>1. faults' \in 0..MaxFaults
    BY <1>4 DEF Interrupt, TypeOK, ExecType
  <2>2. FoundType' /\ ExecType'
    BY <1>4, <2>1, EndCycleType DEF Interrupt
  <2>3. WorldType' /\ StoreType'
    BY <1>4 DEF Interrupt, TypeOK, WorldType, StoreType, world, store
  <2> QED
    BY <2>2, <2>3 DEF TypeOK
<1> QED
  BY <1>1, <1>2, <1>3, <1>4 DEF UserStep

\* Every step preserves the types.
LEMMA NextType == TypeOK /\ [Next]_vars => TypeOK'
<1> SUFFICES ASSUME TypeOK, [Next]_vars PROVE TypeOK'
  OBVIOUS
<1>1. CASE Next
  BY <1>1, DeltaType, LocalType, ResolveType, ExecuteType, BookkeepingType, UserType
     DEF Next, CycleStep, PathStep
<1>2. CASE UNCHANGED vars
  BY <1>2 DEF TypeOK, WorldType, StoreType, FoundType, ExecType, vars, world, store, found, exec,
              bound
<1> QED
  BY <1>1, <1>2

\* The state of the store, of the two sides and of a cycle keep their types; in
\* particular an operation is never attempted more often than RETRY_MAX_ATTEMPTS.
THEOREM TypeCorrect == Spec => []TypeOK
BY InitType, NextType, PTL DEF Spec

-----------------------------------------------------------------------------
\* A conflict is parked in two writes, the row first; a case collision records the
\* row under the spelling of the drive and parks the other one.
HasRow(p) == \E c \in conflicts : Fold[c.path] = Fold[p]

ParkInv ==
  /\ ParkedHasConflictRow
  /\ phase \in {"ccRow", "ccPark"} => Fold[cur.local] = Fold[cur.path]
  /\ phase \in {"ccPark", "park"} => HasRow(cur.path)

\* No row of the conflicts table loses its path: rows are added and resolved.
LEMMA RowsStay ==
  ASSUME TypeOK, [Next]_vars, NEW p \in Paths, HasRow(p)
  PROVE  HasRow(p)'
<1> PICK c \in conflicts : Fold[c.path] = Fold[p]
  BY DEF HasRow
<1>1. c \in conflicts' \/ \E d \in conflicts' : d.path = c.path
  <2>1. CASE conflicts' = conflicts
    BY <2>1
  <2>2. CASE CaseCollisionRow
    BY <2>2 DEF CaseCollisionRow
  <2>3. ASSUME NEW q \in Paths, RecordContentConflict(q) PROVE c \in conflicts'
    BY <2>3 DEF RecordContentConflict
  <2>4. ASSUME NEW d \in conflicts, ResolveConflict(d)
        PROVE  c \in conflicts' \/ \E e \in conflicts' : e.path = c.path
    <3>1. [d EXCEPT !.resolved = TRUE].path = d.path
      BY DEF TypeOK, StoreType, Conflict
    <3> QED
      BY <2>4, <3>1 DEF ResolveConflict
  <2>5. \/ conflicts' = conflicts \/ CaseCollisionRow
        \/ (\E q \in Paths : RecordContentConflict(q))
        \/ (\E d \in conflicts : ResolveConflict(d))
    <3>1. CASE UNCHANGED vars
      BY <3>1 DEF vars, store
    <3>2. CASE StartCycle \/ Interrupt
      BY <3>2 DEF StartCycle, Interrupt, store
    <3>3. CASE UserStep
      BY <3>3 DEF UserStep, LocalEdit, RemoteEdit, store
    <3>4. CASE ExecuteStep
      BY <3>4 DEF ExecuteStep, ExecuteLocalMkdir, ExecuteLocalDelete, ExecuteDownload,
                  ExecuteUpload, ExecuteLocalRename, ExecuteRemoteRename, ExecuteFails, Exhausted,
                  Returned, LateError, Executed, store
    <3>5. CASE \E q \in Paths : PathStep(q)
      BY <3>5 DEF PathStep, DeltaItem, LocalItem, LocalCaseCollision, CaseCollisionRenameFails,
                  InitialSyncCollision, store
    <3>6. CASE \/ AdvanceCursor \/ LocalScan \/ CaseCollisionPark \/ LocalDone \/ CollisionsDone
               \/ ParkConflict \/ Plan \/ UpdateStatus \/ UpdateEntry \/ RecordRun
               \/ \E o \in ops : InsertOp(o)
      BY <3>6 DEF AdvanceCursor, LocalScan, CaseCollisionPark, LocalDone, CollisionsDone,
                  ParkConflict, Plan, InsertOp, UpdateStatus, UpdateEntry, RecordRun, store
    <3> QED
      BY <3>1, <3>2, <3>3, <3>4, <3>5, <3>6 DEF Next, CycleStep
  <2> QED
    BY <2>1, <2>2, <2>3, <2>4, <2>5
<1> QED
  BY <1>1 DEF HasRow

\* A step that parks nothing and neither starts nor advances a conflict.
LEMMA QuietStep ==
  ASSUME TypeOK, ParkInv, [Next]_vars,
         \A p \in Paths : entries'[p].state = "PendingConflict" =>
                            entries[p].state = "PendingConflict",
         \/ phase' \notin {"ccRow", "ccPark", "park"}
         \/ phase' = phase /\ cur' = cur
  PROVE  ParkInv'
<1>1. ParkedHasConflictRow'
  <2>1. \A p \in Paths : entries'[p].state = "PendingConflict" => HasRow(p)
    BY DEF ParkInv, ParkedHasConflictRow, HasRow
  <2>2. \A p \in Paths : entries'[p].state = "PendingConflict" => HasRow(p)'
    BY <2>1, RowsStay
  <2> QED
    BY <2>2 DEF ParkedHasConflictRow, HasRow
<1>2. CASE phase' \notin {"ccRow", "ccPark", "park"}
  BY <1>1, <1>2 DEF ParkInv
<1>3. CASE phase' = phase /\ cur' = cur
  <2>1. phase \in {"ccPark", "park"} => cur.path \in Paths
    BY DEF TypeOK, FoundType, Raised
  <2>2. phase' \in {"ccPark", "park"} => HasRow(cur.path)'
    <3>1. ASSUME phase \in {"ccPark", "park"} PROVE HasRow(cur.path)'
      <4>1. HasRow(cur.path) /\ cur.path \in Paths
        BY <2>1, <3>1 DEF ParkInv
      <4>2. PICK p \in Paths : p = cur.path
        BY <4>1
      <4>3. HasRow(p)
        BY <4>1, <4>2
      <4>4. HasRow(p)'
        BY <4>3, RowsStay
      <4> QED
        BY <1>3, <4>2, <4>4 DEF HasRow
    <3> QED
      BY <1>3, <3>1
  <2> QED
    BY <1>1, <1>3, <2>2 DEF ParkInv
<1> QED
  BY <1>2, <1>3

\* Initially nothing is parked.
LEMMA InitParkInv == Init => ParkInv
BY DEF Init, ParkInv, ParkedHasConflictRow, NoEntry

\* The phases before the conflicts are resolved.
LEMMA ObserveKeepsParkInv ==
  ASSUME TypeOK, ParkInv, [Next]_vars,
         \/ StartCycle \/ Interrupt \/ AdvanceCursor \/ LocalScan \/ LocalDone \/ CollisionsDone
         \/ (\E p \in Paths : DeltaItem(p) \/ LocalItem(p) \/ CaseCollisionRenameFails(p)
                                \/ InitialSyncCollision(p))
  PROVE  ParkInv'
<1>1. CASE \/ StartCycle \/ Interrupt \/ AdvanceCursor \/ LocalScan \/ LocalDone \/ CollisionsDone
  <2>1. entries' = entries /\ phase' \notin {"ccRow", "ccPark", "park"}
    BY <1>1 DEF StartCycle, Interrupt, EndCycle, AdvanceCursor, LocalScan, LocalDone,
                CollisionsDone, store
  <2> QED
    BY <2>1, QuietStep
<1>2. ASSUME NEW p \in Paths, DeltaItem(p) PROVE ParkInv'
  <2>1. entries[p] \in Entry /\ snap[p] \in Side
    BY DEF TypeOK, StoreType, FoundType
  <2>2. \A q \in Paths : entries'[q].state = "PendingConflict" =>
                           entries[q].state = "PendingConflict"
    BY <1>2, <2>1, ObservationTyped DEF DeltaItem, TypeOK, StoreType
  <2> QED
    BY <1>2, <2>2, QuietStep DEF DeltaItem
<1>3. ASSUME NEW p \in Paths, LocalItem(p) PROVE ParkInv'
  <2>1. \A q \in Paths : entries'[q].state = "PendingConflict" =>
                           entries[q].state = "PendingConflict"
    BY <1>3 DEF LocalItem, TypeOK, StoreType
  <2> QED
    BY <1>3, <2>1, QuietStep DEF LocalItem
<1>4. ASSUME NEW p \in Paths, CaseCollisionRenameFails(p) PROVE ParkInv'
  <2>1. entries' = entries /\ phase' = "idle"
    BY <1>4 DEF CaseCollisionRenameFails, EndCycle, store
  <2> QED
    BY <2>1, QuietStep
<1>5. ASSUME NEW p \in Paths, InitialSyncCollision(p) PROVE ParkInv'
  <2>1. entries[p] \in Entry
    BY DEF TypeOK, StoreType
  <2>2. \A q \in Paths : entries'[q].state = entries[q].state
    BY <1>5, <2>1 DEF InitialSyncCollision, TypeOK, StoreType, Entry
  <2> QED
    BY <1>5, <2>2, QuietStep DEF InitialSyncCollision
<1> QED
  BY <1>1, <1>2, <1>3, <1>4, <1>5

\* The execution of the operations and the users.
LEMMA ExecuteKeepsParkInv ==
  ASSUME TypeOK, ParkInv, [Next]_vars,
         \/ ExecuteStep \/ UpdateStatus \/ UpdateEntry \/ RecordRun \/ Plan \/ UserStep
         \/ (\E o \in ops : InsertOp(o)) \/ UNCHANGED vars
  PROVE  ParkInv'
<1>1. CASE ExecuteStep
  <2>1. entries' = entries /\ phase' \in {"do", "postOk", "postFailed"}
    BY <1>1 DEF ExecuteStep, ExecuteLocalMkdir, ExecuteLocalDelete, ExecuteDownload,
                ExecuteUpload, ExecuteLocalRename, ExecuteRemoteRename, ExecuteFails, Exhausted,
                Attempting, Returned, LateError, Retry, Abandon, Executed, store
  <2> QED
    BY <2>1, QuietStep
<1>2. CASE UpdateStatus \/ RecordRun \/ Plan \/ \E o \in ops : InsertOp(o)
  <2>1. entries' = entries /\ phase' \notin {"ccRow", "ccPark", "park"}
    BY <1>2 DEF UpdateStatus, OpDone, RecordRun, EndCycle, Plan, InsertOp, store
  <2> QED
    BY <2>1, QuietStep
<1>3. CASE UpdateEntry
  <2>1. op \in Op
    BY <1>3 DEF UpdateEntry, TypeOK, ExecType
  <2>2. op.path \in Paths /\ op.kind \in OpKind
    BY <2>1 DEF Op
  <2>3. entries[op.path] \in Entry
    BY <2>2 DEF TypeOK, StoreType
  <2>4. op.kind \notin ConflictKinds =>
          post_op_entry(entries[op.path], op.kind).state # "PendingConflict"
    BY <2>2, <2>3, PostOpTyped
  <2>5. \A q \in Paths : entries'[q].state = "PendingConflict" =>
                           entries[q].state = "PendingConflict"
    BY <1>3, <2>2, <2>4 DEF UpdateEntry, TypeOK, StoreType
  <2> QED
    BY <1>3, <2>5, QuietStep DEF UpdateEntry, OpDone
<1>4. CASE UserStep \/ UNCHANGED vars
  <2>1. entries' = entries /\ phase' = phase /\ cur' = cur
    BY <1>4 DEF UserStep, LocalEdit, RemoteEdit, ResolveConflict, store, found, vars
  <2> QED
    BY <2>1, QuietStep
<1> QED
  BY <1>1, <1>2, <1>3, <1>4

\* The two conflicts, each in its store writes.
LEMMA ConflictKeepsParkInv ==
  ASSUME TypeOK, ParkInv, [Next]_vars,
         \/ CaseCollisionRow \/ CaseCollisionPark \/ ParkConflict
         \/ (\E p \in Paths : LocalCaseCollision(p) \/ RecordContentConflict(p))
  PROVE  ParkInv'
<1> DEFINE Unparked == \A q \in Paths : entries'[q].state = "PendingConflict" => HasRow(q)'
<1>0. entries' = entries => Unparked
  BY RowsStay DEF ParkInv, ParkedHasConflictRow, HasRow
<1>a. Unparked => ParkedHasConflictRow'
  BY DEF ParkedHasConflictRow, HasRow
<1>1. ASSUME NEW p \in Paths, LocalCaseCollision(p) PROVE ParkInv'
  <2>1. PICK q \in find_case_collision(p) :
          cur' = [path |-> q, local |-> p, winner |-> "Remote"]
    BY <1>1 DEF LocalCaseCollision
  <2>2. Fold[q] = Fold[p]
    BY DEF find_case_collision, case_folds_equal
  <2>3. entries' = entries /\ phase' = "ccRow"
    BY <1>1 DEF LocalCaseCollision, store
  <2> QED
    BY <1>0, <1>a, <2>1, <2>2, <2>3 DEF ParkInv
<1>2. CASE CaseCollisionRow
  <2>1. entries' = entries /\ phase' = "ccPark" /\ cur' = cur /\ phase = "ccRow"
    BY <1>2 DEF CaseCollisionRow, found
  <2>2. HasRow(cur.path)'
    <3> DEFINE row == [run |-> run, path |-> cur.path, loser |-> CaseTarget[cur.local],
                       winner |-> cur.winner, resolved |-> FALSE]
    <3>1. row \in conflicts'
      BY <1>2 DEF CaseCollisionRow
    <3>2. row.path = cur.path
      OBVIOUS
    <3>3. \E c \in conflicts' : c.path = cur'.path
      BY <2>1, <3>1, <3>2
    <3> QED
      BY <3>3 DEF HasRow
  <2> QED
    BY <1>0, <1>a, <2>1, <2>2 DEF ParkInv
<1>3. CASE CaseCollisionPark
  <2>1. cur.path \in Paths /\ cur.local \in Paths
    BY <1>3 DEF CaseCollisionPark, TypeOK, FoundType, Raised
  <2>2. HasRow(cur.local)
    BY <1>3 DEF CaseCollisionPark, ParkInv, HasRow
  <2>3. \A q \in Paths : entries'[q].state = "PendingConflict" =>
                           entries[q].state = "PendingConflict" \/ q = cur.local
    BY <1>3, <2>1 DEF CaseCollisionPark, TypeOK, StoreType
  <2>4. \A q \in Paths : entries'[q].state = "PendingConflict" => HasRow(q)
    BY <2>2, <2>3 DEF ParkInv, ParkedHasConflictRow, HasRow
  <2>5. Unparked
    BY <2>4, RowsStay
  <2> QED
    BY <1>3, <1>a, <2>5 DEF CaseCollisionPark, ParkInv
<1>4. ASSUME NEW p \in Paths, RecordContentConflict(p) PROVE ParkInv'
  <2>1. entries' = entries
    BY <1>4 DEF RecordContentConflict
  <2>2. phase = "resolve"
    BY <1>4 DEF RecordContentConflict
  <2>3. CASE phase' = "park"
    <3>1. PICK w \in Winner :
            /\ cur' = [path |-> p, local |-> p, winner |-> w]
            /\ [run |-> run, path |-> p, loser |-> Loser(p, run), winner |-> w,
                resolved |-> FALSE] \in conflicts'
      BY <1>4, <2>3, <2>2 DEF RecordContentConflict
    <3>2. cur'.path = p /\ \E c \in conflicts' : c.path = p
      BY <3>1
    <3>3. HasRow(cur.path)'
      BY <3>2 DEF HasRow
    <3> QED
      BY <1>0, <1>a, <2>1, <2>3, <3>3 DEF ParkInv
  <2>4. CASE phase' = phase
    BY <1>0, <1>4, <1>a, <2>1, <2>4 DEF RecordContentConflict, ParkInv
  <2> QED
    BY <1>4, <2>3, <2>4 DEF RecordContentConflict
<1>5. CASE ParkConflict
  <2>1. cur.path \in Paths
    BY <1>5 DEF ParkConflict, TypeOK, FoundType, Raised
  <2>2. HasRow(cur.path)
    BY <1>5 DEF ParkConflict, ParkInv
  <2>3. \A q \in Paths : entries'[q].state = "PendingConflict" =>
                           entries[q].state = "PendingConflict" \/ q = cur.path
    BY <1>5, <2>1 DEF ParkConflict, TypeOK, StoreType
  <2>4. \A q \in Paths : entries'[q].state = "PendingConflict" => HasRow(q)
    BY <2>2, <2>3 DEF ParkInv, ParkedHasConflictRow, HasRow
  <2>5. Unparked
    BY <2>4, RowsStay
  <2> QED
    BY <1>5, <1>a, <2>5 DEF ParkConflict, ParkInv
<1> QED
  BY <1>1, <1>2, <1>3, <1>4, <1>5

\* Every step keeps the strengthened invariant.
LEMMA NextParkInv == TypeOK /\ ParkInv /\ [Next]_vars => ParkInv'
<1> SUFFICES ASSUME TypeOK, ParkInv, [Next]_vars PROVE ParkInv'
  OBVIOUS
<1> QED
  BY ObserveKeepsParkInv, ExecuteKeepsParkInv, ConflictKeepsParkInv
     DEF Next, CycleStep, PathStep

\* Whatever crashes, fails or is edited meanwhile, a path that the engine will not
\* touch any more (PendingConflict) is one the user is told about.
THEOREM NothingParkedSilently == Spec => []ParkedHasConflictRow
<1>1. Spec => []ParkInv
  BY TypeCorrect, InitParkInv, NextParkInv, PTL DEF Spec
<1>2. ParkInv => ParkedHasConflictRow
  BY DEF ParkInv
<1> QED
  BY <1>1, <1>2, PTL

-----------------------------------------------------------------------------
\* The outcome is written once per run, after its last operation, from a flag that
\* was raised with every row that became Failed.
OutcomeInv ==
  /\ SuccessMeansNoFailure
  /\ \A row \in opRows : row.run <= run
  /\ \A row \in opRows : row.status = "Failed" /\ row.run = run /\ phase # "idle" => failed = TRUE
  /\ \A r \in 1..MaxRuns : r > run \/ (r = run /\ phase # "idle") => runs[r] = "none"

\* Initially there are no rows.
LEMMA InitOutcomeInv == Init => OutcomeInv
BY DEF Init, OutcomeInv, SuccessMeansNoFailure

\* A step that neither ends a run nor writes a row.
LEMMA SameOutcome ==
  ASSUME TypeOK, OutcomeInv, UNCHANGED <<opRows, runs, run, failed>>,
         phase' # "idle" => phase # "idle"
  PROVE  OutcomeInv'
BY DEF OutcomeInv, SuccessMeansNoFailure

\* Every step keeps the strengthened invariant.
LEMMA NextOutcomeInv == TypeOK /\ OutcomeInv /\ [Next]_vars => OutcomeInv'
<1> SUFFICES ASSUME TypeOK, OutcomeInv, [Next]_vars PROVE OutcomeInv'
  OBVIOUS
<1>0. /\ \A row \in opRows : row \in OpRow /\ row.run \in 1..MaxRuns
      /\ run \in 0..MaxRuns /\ (phase # "idle" => run \in 1..MaxRuns) /\ MaxRuns \in Nat
  BY BoundsAssumption DEF TypeOK, StoreType, FoundType, OpRow
<1>1. CASE StartCycle
  <2>1. run' = run + 1 /\ phase' # "idle" /\ UNCHANGED <<opRows, runs, failed>>
    BY <1>1 DEF StartCycle, store, exec
  <2> QED
    BY <1>0, <2>1 DEF OutcomeInv, SuccessMeansNoFailure
<1>2. CASE Interrupt \/ (\E p \in Paths : CaseCollisionRenameFails(p))
  <2>1. phase' = "idle" /\ UNCHANGED <<opRows, runs, run>>
    BY <1>2 DEF Interrupt, CaseCollisionRenameFails, EndCycle, store
  <2> QED
    BY <1>0, <2>1 DEF OutcomeInv, SuccessMeansNoFailure
<1>3. CASE RecordRun
  <2>1. /\ phase # "idle" /\ phase' = "idle" /\ UNCHANGED <<opRows, run>>
        /\ runs' = [runs EXCEPT ![run] = classify_outcome(failed)]
    BY <1>3 DEF RecordRun, EndCycle
  <2>2. failed = TRUE => classify_outcome(failed) # "Success"
    BY Zenon DEF classify_outcome
  <2>3. \A r \in 1..MaxRuns : runs'[r] = IF r = run THEN classify_outcome(failed) ELSE runs[r]
    BY <2>1 DEF TypeOK, StoreType
  <2> QED
    BY <1>0, <2>1, <2>2, <2>3 DEF OutcomeInv, SuccessMeansNoFailure
<1>4. CASE UpdateStatus
  <2>1. phase # "idle" /\ phase' # "idle" /\ UNCHANGED <<runs, run>>
    BY <1>4 DEF UpdateStatus, OpDone
  <2>2. CASE phase = "postOk"
    <3>1. failed' = failed
      BY <1>4, <2>2 DEF UpdateStatus
    <3>2. \A row \in opRows' : row \in opRows \/ (row.run = run /\ row.status = "Success")
      BY <1>4, <2>2 DEF UpdateStatus
    <3> QED
      BY <1>0, <2>1, <3>1, <3>2 DEF OutcomeInv, SuccessMeansNoFailure
  <2>3. CASE phase = "postFailed"
    <3>1. failed' = TRUE
      BY <1>4, <2>3 DEF UpdateStatus
    <3>2. \A row \in opRows' : row \in opRows \/ row.run = run
      BY <1>4, <2>3 DEF UpdateStatus
    <3> QED
      BY <1>0, <2>1, <3>1, <3>2 DEF OutcomeInv, SuccessMeansNoFailure
  <2> QED
    BY <1>4, <2>2, <2>3 DEF UpdateStatus
<1>5. ASSUME NEW o \in ops, InsertOp(o) PROVE OutcomeInv'
  <2>1. phase # "idle" /\ phase' # "idle" /\ UNCHANGED <<runs, run>>
    BY <1>5 DEF InsertOp
  <2>2. \A row \in opRows' : row \in opRows \/ (row.run = run /\ row.status = "Enqueued")
    BY <1>5 DEF InsertOp
  <2>3. failed' = failed \/ failed' = TRUE
    BY <1>5 DEF InsertOp
  <2> QED
    BY <1>0, <2>1, <2>2, <2>3 DEF OutcomeInv, SuccessMeansNoFailure
<1>6. CASE ExecuteStep
  BY <1>6, SameOutcome DEF ExecuteStep, ExecuteLocalMkdir, ExecuteLocalDelete, ExecuteDownload,
                ExecuteUpload, ExecuteLocalRename, ExecuteRemoteRename, ExecuteFails, Exhausted,
                Attempting, Returned, LateError, Retry, Abandon, Executed, store, exec
<1>7. CASE \E p \in Paths : \/ DeltaItem(p) \/ LocalItem(p) \/ LocalCaseCollision(p)
                            \/ InitialSyncCollision(p) \/ RecordContentConflict(p)
  BY <1>7, SameOutcome DEF DeltaItem, LocalItem, LocalCaseCollision, InitialSyncCollision,
                           RecordContentConflict, store, exec
<1>8. CASE \/ AdvanceCursor \/ LocalScan \/ CaseCollisionRow \/ CaseCollisionPark \/ LocalDone
           \/ CollisionsDone \/ ParkConflict \/ Plan
  BY <1>8, SameOutcome DEF AdvanceCursor, LocalScan, CaseCollisionRow, CaseCollisionPark,
                           LocalDone, CollisionsDone, ParkConflict, Plan, store, exec
<1>9. CASE UpdateEntry
  BY <1>9, SameOutcome DEF UpdateEntry, OpDone
<1>10. CASE UserStep \/ UNCHANGED vars
  BY <1>10, SameOutcome DEF UserStep, LocalEdit, RemoteEdit, ResolveConflict, vars, store, exec
<1> QED
  BY <1>1, <1>2, <1>3, <1>4, <1>5, <1>6, <1>7, <1>8, <1>9, <1>10 DEF Next, CycleStep, PathStep

\* A run that the store shows as Success has no operation that the store shows as
\* Failed, also when writes of the store failed or the daemon died in between.
THEOREM OutcomeHonest == Spec => []SuccessMeansNoFailure
<1>1. Spec => []OutcomeInv
  BY TypeCorrect, InitOutcomeInv, NextOutcomeInv, PTL DEF Spec
<1>2. OutcomeInv => SuccessMeansNoFailure
  BY DEF OutcomeInv
<1> QED
  BY <1>1, <1>2, PTL
=============================================================================
