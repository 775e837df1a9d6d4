------------------------- MODULE CycleProgressProofs -------------------------
(***************************************************************************)
(* What a cycle does with its operations, for any set of paths, any case   *)
(* folding and any bounds: it transfers no parked path, every step of it   *)
(* brings it closer to its end, and over the SQLite store it executes no   *)
(* operation at all.                                                       *)
(***************************************************************************)
EXTENDS CycleSafetyProofs, FiniteSetTheorems

\* The steps of phase_execute about one operation, and the phase they lead to.
LEMMA ExecuteFrame ==
  ASSUME ExecuteStep
  PROVE  /\ phase = "do" /\ phase' \in {"do", "postOk", "postFailed"}
         /\ phase' = "do" => attempt' = attempt + 1
         /\ UNCHANGED <<store, run, found, todo, ops, op, failed, edits>>
<1>1. phase = "do"
  BY DEF ExecuteStep, ExecuteLocalMkdir, ExecuteLocalDelete, ExecuteDownload, ExecuteUpload,
         ExecuteLocalRename, ExecuteRemoteRename, ExecuteFails, Exhausted, Attempting
<1>2. /\ phase' \in {"do", "postOk", "postFailed"} /\ (phase' = "do" => attempt' = attempt + 1)
      /\ UNCHANGED <<store, run, found, todo, ops, op, failed, edits>>
  <2> USE <1>1 DEF Returned, LateError, Retry, Abandon, Executed
  <2>1. CASE ExecuteLocalMkdir \/ ExecuteLocalDelete \/ ExecuteLocalRename
    BY <2>1 DEF ExecuteLocalMkdir, ExecuteLocalDelete, ExecuteLocalRename
  <2>2. CASE ExecuteDownload
    BY <2>2 DEF ExecuteDownload
  <2>3. CASE ExecuteUpload
    BY <2>3 DEF ExecuteUpload
  <2>4. CASE ExecuteRemoteRename
    BY <2>4 DEF ExecuteRemoteRename
  <2>5. CASE ExecuteFails
    BY <2>5 DEF ExecuteFails
  <2>6. CASE Exhausted
    BY <2>6 DEF Exhausted, exec, bound
  <2> QED
    BY <2>1, <2>2, <2>3, <2>4, <2>5, <2>6 DEF ExecuteStep
<1> QED
  BY <1>1, <1>2

-----------------------------------------------------------------------------
(***************************************************************************)
(* The store that is shipped.                                              *)
(***************************************************************************)

\* No operation gets past its op_insert.
InertInv == phase \notin Performing /\ opRows = {}

\* Initially there is no cycle.
LEMMA InitInertInv == Init => InertInv
BY DEF Init, InertInv, Performing

\* The row of the run does not exist before the run has ended, so the row of no
\* operation is accepted.
LEMMA InsertRefused ==
  ASSUME TypeOK, OutcomeInv, "memory" \notin Stores, NEW o \in ops, InsertOp(o)
  PROVE  UNCHANGED <<world, phase, opRows>>
<1>1. phase = "exec" /\ run \in 1..MaxRuns
  BY BoundsAssumption DEF InsertOp, TypeOK, FoundType
<1>2. runs[run] = "none"
  BY <1>1 DEF OutcomeInv
<1> QED
  BY <1>2 DEF InsertOp

\* Every step keeps it so, and leaves the world alone unless it is a user's or
\* the rename of a case collision.
LEMMA NextInertInv ==
  ASSUME TypeOK, OutcomeInv, InertInv, "memory" \notin Stores, [Next]_vars
  PROVE  /\ InertInv'
         /\ UserStep \/ (\E p \in Paths : LocalCaseCollision(p)) \/ UNCHANGED <<disk, drive>>
<1>1. ~(ExecuteStep \/ UpdateStatus \/ UpdateEntry)
  <2>1. ~ExecuteStep
    BY ExecuteFrame DEF InertInv, Performing
  <2> QED
    BY <2>1 DEF UpdateStatus, UpdateEntry, InertInv, Performing
<1>2. ASSUME NEW o \in ops, InsertOp(o) PROVE InertInv' /\ UNCHANGED <<disk, drive>>
  BY <1>2, InsertRefused DEF InertInv, world
<1>3. CASE \E p \in Paths : PathStep(p)
  <2>1. PICK p \in Paths : PathStep(p)
    BY <1>3
  <2>2. phase' \notin Performing /\ opRows' = opRows
    BY <2>1 DEF PathStep, DeltaItem, LocalItem, LocalCaseCollision, CaseCollisionRenameFails,
                InitialSyncCollision, RecordContentConflict, EndCycle, Performing, store
  <2>3. LocalCaseCollision(p) \/ UNCHANGED <<disk, drive>>
    BY <2>1 DEF PathStep, DeltaItem, LocalItem, CaseCollisionRenameFails,
                InitialSyncCollision, RecordContentConflict, world
  <2> QED
    BY <2>2, <2>3 DEF InertInv
<1>4. CASE \/ StartCycle \/ Interrupt \/ RecordRun \/ AdvanceCursor \/ LocalScan
           \/ CaseCollisionRow \/ CaseCollisionPark \/ LocalDone \/ CollisionsDone
           \/ ParkConflict \/ Plan
  <2>1. phase' \notin Performing /\ opRows' = opRows
    BY <1>4 DEF StartCycle, Interrupt, RecordRun, EndCycle, AdvanceCursor, LocalScan,
                CaseCollisionRow, CaseCollisionPark, LocalDone, CollisionsDone, ParkConflict,
                Plan, Performing, store
  <2>2. UNCHANGED <<disk, drive>>
    BY <1>4 DEF StartCycle, Interrupt, RecordRun, AdvanceCursor, LocalScan,
                CaseCollisionRow, CaseCollisionPark, LocalDone, CollisionsDone, ParkConflict,
                Plan, world
  <2> QED
    BY <2>1, <2>2 DEF InertInv
<1>5. CASE UserStep
  BY <1>5 DEF UserStep, LocalEdit, RemoteEdit, ResolveConflict, InertInv, store
<1>6. CASE UNCHANGED vars
  BY <1>6 DEF vars, world, store, InertInv
<1> QED
  BY <1>1, <1>2, <1>3, <1>4, <1>5, <1>6 DEF Next, CycleStep

\* A user who changes one of the sides is counted.
LEMMA UsersCount ==
  ASSUME TypeOK, UserStep, edits' = edits
  PROVE  UNCHANGED <<disk, drive>>
<1>1. edits + 1 # edits
  BY BoundsAssumption DEF TypeOK, ExecType
<1> QED
  BY <1>1 DEF UserStep, LocalEdit, RemoteEdit, ResolveConflict, Edit, world

\* With the SQLite store no operation row is ever written and no cycle uploads,
\* downloads, deletes or makes anything: what the findings about losing contents
\* show needs a store that accepts the rows.
THEOREM SqliteExecutesNothing ==
  ASSUME "memory" \notin Stores
  PROVE  Spec => [](opRows = {}) /\ OnlyCaseRenames
<1>1. Spec => [](TypeOK /\ OutcomeInv)
  BY TypeCorrect, InitOutcomeInv, NextOutcomeInv, PTL DEF Spec
<1>2. TypeOK /\ OutcomeInv /\ InertInv /\ [Next]_vars => InertInv'
  BY NextInertInv
<1>3. Spec => []InertInv
  BY <1>1, <1>2, InitInertInv, PTL DEF Spec
<1>4. InertInv => opRows = {}
  BY DEF InertInv
<1>5. TypeOK /\ OutcomeInv /\ InertInv /\ [Next]_vars =>
        [edits' = edits =>
           drive' = drive /\ (disk' # disk => \E p \in Paths : LocalCaseCollision(p))]_vars
  <2> SUFFICES ASSUME TypeOK, OutcomeInv, InertInv, Next, edits' = edits
               PROVE  drive' = drive /\ (disk' # disk => \E p \in Paths : LocalCaseCollision(p))
    OBVIOUS
  <2>1. UserStep \/ (\E p \in Paths : LocalCaseCollision(p)) \/ UNCHANGED <<disk, drive>>
    BY NextInertInv
  <2>2. (\E p \in Paths : LocalCaseCollision(p)) => drive' = drive
    BY DEF LocalCaseCollision
  <2> QED
    BY <2>1, <2>2, UsersCount
<1> QED
  BY <1>1, <1>3, <1>4, <1>5, PTL DEF Spec, OnlyCaseRenames

-----------------------------------------------------------------------------
(***************************************************************************)
(* Parked paths are not transferred.                                       *)
(***************************************************************************)
Transfers == {"Upload", "Download", "LocalMkdir", "RemoteMkdir"}

\* Before the plan: what a cycle has decided to transfer is not parked, the
\* conflicts still to be recorded have no other decision, and the only operations
\* are those of conflicts.
DecidedInv ==
  /\ \A o \in renames : o.stage = 5
  /\ phase \notin Performing => op = NoFileOp
  /\ phase \notin Performing \cup {"exec"} =>
       /\ \A p \in Paths : decision[p] \in Transfers => ~Parked(p)
       /\ \A o \in ops : o.stage = 4
  /\ phase \in {"resolve", "park"} => \A p \in todo : decision[p] \notin Transfers
  /\ phase = "park" => decision[cur.path] \notin Transfers

TransferInv == DecidedInv /\ ParkedNotTransferred

\* Initially nothing is decided or parked.
LEMMA InitTransferInv == Init => TransferInv
BY DEF Init, TransferInv, DecidedInv, ParkedNotTransferred, Transfers, NoDecisions

\* A transfer is not decided about a parked path.
LEMMA TransferFresh ==
  ASSUME NEW e \in Entry, NEW r \in Side, reconcile_kind(e, r) \in Transfers
  PROVE  /\ e.state # "PendingConflict"
         /\ build_remote_observation(e, r).state # "PendingConflict"
<1>1. e.state = "PendingConflict" => reconcile_both(e, r) = "NoOp"
  BY DEF reconcile_both, is_action_blocking
<1>2. e.state # "PendingConflict"
  BY <1>1 DEF reconcile_kind, Tracked, Transfers
<1>3. [e EXCEPT !.remote = r].state = e.state
  BY DEF Entry
<1> QED
  BY <1>2, <1>3 DEF build_remote_observation, Tracked

\* A step of the gathering phases about one path.
LEMMA PathKeepsDecided ==
  ASSUME TypeOK, DecidedInv, NEW p \in Paths,
         phase \in Gathering, phase' = phase, UNCHANGED <<ops, op>>,
         \A o \in renames' : o \in renames \/ o.stage = 5,
         \A q \in Paths \ {p} : entries'[q] = entries[q] /\ decision'[q] = decision[q],
         decision'[p] \in Transfers => entries'[p].state # "PendingConflict"
  PROVE  DecidedInv'
<1>1. phase' \notin {"resolve", "park"} /\ phase' \notin Performing \cup {"exec"}
  BY DEF Gathering, Performing
<1>2. \A q \in Paths : decision'[q] \in Transfers => entries'[q].state # "PendingConflict"
  BY <1>1 DEF DecidedInv, Parked
<1> QED
  BY <1>1, <1>2 DEF DecidedInv, Parked

\* A step before the plan that decides and parks nothing.
LEMMA SameDecided ==
  ASSUME DecidedInv, phase \notin Performing \cup {"exec"}, UNCHANGED <<entries, decision, ops, op>>,
         \A o \in renames' : o \in renames \/ o.stage = 5,
         phase' \in Gathering
  PROVE  DecidedInv'
<1>1. phase' \notin {"resolve", "park"} /\ phase' \notin Performing \cup {"exec"}
  BY DEF Gathering, Performing
<1> QED
  BY <1>1 DEF DecidedInv, Parked

\* The delta phase and the local phase.
LEMMA ObserveKeepsDecided ==
  ASSUME TypeOK, DecidedInv,
         \/ StartCycle \/ AdvanceCursor \/ LocalScan \/ LocalDone
         \/ (\E p \in Paths : DeltaItem(p) \/ LocalItem(p) \/ InitialSyncCollision(p))
  PROVE  DecidedInv' /\ phase' \in Gathering
<1>0. /\ entries \in [Paths -> Entry] /\ \A p \in Paths : entries[p] \in Entry /\ snap[p] \in Side
      /\ decision \in [Paths -> DecisionKind \cup {"none"}]
  BY DEF TypeOK, StoreType, FoundType
<1>1. CASE StartCycle \/ AdvanceCursor \/ LocalScan \/ LocalDone
  <2>1. /\ phase \notin Performing \cup {"exec"} /\ phase' \in Gathering
        /\ UNCHANGED <<entries, decision, ops, op>>
    BY <1>1 DEF StartCycle, AdvanceCursor, LocalScan, LocalDone, Performing, Gathering, store,
                found, exec
  <2>2. \A o \in renames' : o \in renames \/ o.stage = 5
    <3>1. CASE StartCycle
      <4>1. PICK losers, former : renames' = process_remote_case_collisions(losers, former)
        BY <3>1, Zenon DEF StartCycle
      <4> QED
        BY <4>1 DEF process_remote_case_collisions, RemoteRenameOp
    <3>2. CASE AdvanceCursor \/ LocalScan \/ LocalDone
      BY <3>2 DEF AdvanceCursor, LocalScan, LocalDone, found
    <3> QED
      BY <1>1, <3>1, <3>2
  <2> QED
    BY <2>1, <2>2, SameDecided
<1>2. ASSUME NEW p \in Paths, DeltaItem(p) PROVE DecidedInv' /\ phase' \in Gathering
  <2>1. phase \in Gathering /\ phase' = phase /\ UNCHANGED <<ops, op>>
    BY <1>2 DEF DeltaItem, Gathering, exec
  <2>2. \A o \in renames' : o \in renames \/ o.stage = 5
    BY <1>2 DEF DeltaItem, RemoteRenameOp
  <2>3. \A q \in Paths \ {p} : entries'[q] = entries[q] /\ decision'[q] = decision[q]
    BY <1>0, <1>2 DEF DeltaItem
  <2>4. \/ entries'[p] = entries[p] /\ decision'[p] = decision[p]
        \/ /\ entries'[p] = build_remote_observation(entries[p], snap[p])
           /\ decision'[p] = reconcile_kind(entries[p], snap[p])
    BY <1>0, <1>2 DEF DeltaItem
  <2>5. decision[p] \in Transfers => entries[p].state # "PendingConflict"
    BY <2>1 DEF DecidedInv, Parked, Gathering, Performing
  <2>6. decision'[p] \in Transfers => entries'[p].state # "PendingConflict"
    BY <1>0, <2>4, <2>5, TransferFresh
  <2> QED
    BY <2>1, <2>2, <2>3, <2>6, PathKeepsDecided
<1>3. ASSUME NEW p \in Paths, LocalItem(p) PROVE DecidedInv' /\ phase' \in Gathering
  <2>1. phase \in Gathering /\ phase' = phase /\ UNCHANGED <<ops, op, renames>>
    BY <1>3 DEF LocalItem, Gathering, exec
  <2>2. \A q \in Paths \ {p} : entries'[q] = entries[q] /\ decision'[q] = decision[q]
    BY <1>0, <1>3 DEF LocalItem
  <2>3. \/ UNCHANGED <<entries, decision>>
        \/ entries'[p].state = "PendingUpload"
    BY <1>0, <1>3 DEF LocalItem
  <2>4. decision'[p] \in Transfers => entries'[p].state # "PendingConflict"
    BY <2>1, <2>3 DEF DecidedInv, Parked, Gathering, Performing
  <2> QED
    BY <2>1, <2>2, <2>4, PathKeepsDecided
<1>4. ASSUME NEW p \in Paths, InitialSyncCollision(p) PROVE DecidedInv' /\ phase' \in Gathering
  <2>1. phase \in Gathering /\ phase' = phase /\ UNCHANGED <<ops, op, renames>>
    BY <1>4 DEF InitialSyncCollision, Gathering, exec
  <2>2. \A q \in Paths \ {p} : entries'[q] = entries[q] /\ decision'[q] = decision[q]
    BY <1>0, <1>4 DEF InitialSyncCollision
  <2>3. entries'[p].state = entries[p].state
    BY <1>0, <1>4 DEF InitialSyncCollision, Entry
  <2>4. decision'[p] = decision[p] \/ decision'[p] = "ConflictDetected"
    BY <1>0, <1>4 DEF InitialSyncCollision
  <2>5. decision'[p] \in Transfers => entries'[p].state # "PendingConflict"
    BY <2>1, <2>3, <2>4 DEF DecidedInv, Parked, Gathering, Performing, Transfers
  <2> QED
    BY <2>1, <2>2, <2>5, PathKeepsDecided
<1> QED
  BY <1>1, <1>2, <1>3, <1>4

\* The two kinds of conflict.
LEMMA ConflictKeepsDecided ==
  ASSUME TypeOK, FreshInv, DecidedInv,
         \/ CaseCollisionRow \/ CaseCollisionPark \/ CollisionsDone \/ ParkConflict
         \/ (\E p \in Paths : LocalCaseCollision(p) \/ RecordContentConflict(p))
  PROVE  DecidedInv' /\ phase' \notin Performing \cup {"exec"}
<1>0. /\ entries \in [Paths -> Entry] /\ decision \in [Paths -> DecisionKind \cup {"none"}]
      /\ todo \subseteq Paths
  BY DEF TypeOK, StoreType, FoundType
<1>1. CASE CaseCollisionRow \/ \E p \in Paths : LocalCaseCollision(p)
  <2>1. /\ phase \notin Performing \cup {"exec"} /\ phase' \in Gathering
        /\ UNCHANGED <<entries, decision, ops, op, renames>>
    BY <1>1 DEF CaseCollisionRow, LocalCaseCollision, Performing, Gathering, store, found, exec
  <2> QED
    BY <2>1, SameDecided DEF Gathering, Performing
<1>2. CASE CaseCollisionPark
  <2>1. /\ phase = "ccPark" /\ phase' = "local" /\ UNCHANGED <<decision, ops, op, renames>>
        /\ cur.local \in Paths
    BY <1>2 DEF CaseCollisionPark, TypeOK, FoundType, Raised, exec
  <2>2. \A q \in Paths \ {cur.local} : entries'[q] = entries[q]
    BY <1>0, <1>2, <2>1 DEF CaseCollisionPark
  <2>3. decision[cur.local] = "none"
    BY <2>1 DEF FreshInv
  <2>4. phase \in {"ccPark"} /\ phase \notin Performing \cup {"exec"}
    BY <2>1 DEF Performing
  <2>5. \A q \in Paths : decision'[q] \in Transfers => entries'[q].state # "PendingConflict"
    BY <2>1, <2>2, <2>3, <2>4 DEF DecidedInv, Parked, Transfers
  <2> QED
    BY <2>1, <2>4, <2>5 DEF DecidedInv, Parked, Performing
<1>3. CASE CollisionsDone
  <2>1. /\ phase = "collide" /\ phase' = "resolve"
        /\ UNCHANGED <<entries, decision, ops, op, renames>>
        /\ \A p \in todo' : decision[p] = "ConflictDetected"
    BY <1>3 DEF CollisionsDone, store, found, exec
  <2> QED
    BY <2>1 DEF DecidedInv, Parked, Performing, Transfers
<1>4. ASSUME NEW p \in Paths, RecordContentConflict(p)
      PROVE  DecidedInv' /\ phase' \notin Performing \cup {"exec"}
  <2>1. /\ phase = "resolve" /\ p \in todo /\ todo' = todo \ {p}
        /\ UNCHANGED <<entries, ops, op, renames>>
        /\ phase' = "resolve" \/ (phase' = "park" /\ cur'.path = p)
    BY <1>4 DEF RecordContentConflict, exec
  <2>2. decision'[p] = "none" /\ \A q \in Paths \ {p} : decision'[q] = decision[q]
    BY <1>0, <1>4 DEF RecordContentConflict
  <2>3. \A q \in Paths : decision'[q] = decision[q] \/ decision'[q] \notin Transfers
    BY <2>2 DEF Transfers
  <2> QED
    BY <1>0, <2>1, <2>2, <2>3 DEF DecidedInv, Parked, Performing, Transfers
<1>5. CASE ParkConflict
  <2>1. /\ phase = "park" /\ phase' = "resolve" /\ cur.path \in Paths
        /\ UNCHANGED <<decision, op, renames, todo>>
    BY <1>5 DEF ParkConflict, TypeOK, FoundType, Raised
  <2>2. \A q \in Paths \ {cur.path} : entries'[q] = entries[q]
    BY <1>0, <1>5, <2>1 DEF ParkConflict
  <2>3. \A o \in ops' : o \in ops \/ o.stage = 4
    BY <1>5 DEF ParkConflict, remote_winner_conflict_ops
  <2>4. \A q \in Paths : decision'[q] \in Transfers => entries'[q].state # "PendingConflict"
    BY <2>1, <2>2 DEF DecidedInv, Parked, Performing
  <2> QED
    BY <2>1, <2>3, <2>4 DEF DecidedInv, Parked, Performing
<1> QED
  BY <1>1, <1>2, <1>3, <1>4, <1>5

\* The plan and what follows it: nothing is parked any more.
LEMMA ExecuteKeepsTransfer ==
  ASSUME TypeOK, TransferInv,
         Plan \/ ExecuteStep \/ UpdateStatus \/ UpdateEntry \/ (\E o \in ops : InsertOp(o))
  PROVE  TransferInv'
<1>0. entries \in [Paths -> Entry] /\ \A p \in Paths : entries[p] \in Entry
  BY DEF TypeOK, StoreType
<1>1. CASE Plan
  <2>1. /\ phase = "resolve" /\ phase' = "exec" /\ ops' = plan \cup ops \cup renames
        /\ UNCHANGED <<entries, op, renames>>
    BY <1>1 DEF Plan, store, found
  <2>2. op = NoFileOp /\ (\A o \in ops : o.stage = 4) /\ (\A o \in renames : o.stage = 5)
    BY <2>1 DEF TransferInv, DecidedInv, Performing
  <2>3. \A o \in plan : o.stage \in 1..2 => o.path \in Paths /\ decision[o.path] \in Transfers
    BY DEF plan, plan_rank, PlannedKind, Transfers
  <2>4. \A p \in Paths : decision[p] \in Transfers => entries[p].state # "PendingConflict"
    BY <2>1 DEF TransferInv, DecidedInv, Parked, Performing
  <2>5. ParkedNotTransferred'
    BY <2>1, <2>2, <2>3, <2>4 DEF ParkedNotTransferred
  <2> QED
    BY <2>1, <2>2, <2>5 DEF TransferInv, DecidedInv, Performing
<1>2. CASE ExecuteStep
  <2>1. UNCHANGED <<entries, renames, ops, op>> /\ phase' \in Performing
    BY <1>2, ExecuteFrame DEF store, found, Performing
  <2> QED
    BY <2>1 DEF TransferInv, DecidedInv, ParkedNotTransferred, Performing
<1>3. CASE UpdateStatus
  <2>1. /\ UNCHANGED <<entries, renames, ops>>
        /\ (phase' \in Performing /\ op' = op) \/ (phase' = "exec" /\ op' = NoFileOp)
    BY <1>3 DEF UpdateStatus, OpDone, found, Performing
  <2>2. ParkedNotTransferred'
    BY <2>1 DEF TransferInv, ParkedNotTransferred
  <2> QED
    BY <2>1, <2>2 DEF TransferInv, DecidedInv, Performing
<1>4. CASE UpdateEntry
  <2>1. /\ UNCHANGED <<renames, ops>> /\ phase' = "exec" /\ op' = NoFileOp
        /\ op \in Op /\ op.path \in Paths
    BY <1>4 DEF UpdateEntry, OpDone, found, TypeOK, ExecType, Op
  <2>2. post_op_entry(entries[op.path], op.kind).state = "Clean"
    BY <1>0, <2>1 DEF post_op_entry, Entry
  <2>3. \A q \in Paths : entries'[q] = entries[q] \/ entries'[q].state = "Clean"
    BY <1>0, <1>4, <2>1, <2>2 DEF UpdateEntry
  <2>4. \A o \in ops : o.path \in Paths
    BY DEF TypeOK, ExecType, Op
  <2>5. ParkedNotTransferred'
    BY <2>1, <2>3, <2>4 DEF TransferInv, ParkedNotTransferred
  <2> QED
    BY <2>1, <2>5 DEF TransferInv, DecidedInv, Performing
<1>5. ASSUME NEW o \in ops, InsertOp(o) PROVE TransferInv'
  <2>1. /\ phase = "exec" /\ UNCHANGED <<entries, renames>> /\ ops' \subseteq ops
        /\ (phase' = "do" /\ op' = o) \/ (phase' = "exec" /\ op' = op)
    BY <1>5 DEF InsertOp, found
  <2>2. op = NoFileOp
    BY <2>1 DEF TransferInv, DecidedInv, Performing
  <2>3. ParkedNotTransferred'
    BY <2>1, <2>2 DEF TransferInv, ParkedNotTransferred
  <2> QED
    BY <2>1, <2>2, <2>3 DEF TransferInv, DecidedInv, Performing
<1> QED
  BY <1>1, <1>2, <1>3, <1>4, <1>5

\* Every step keeps it so.
LEMMA NextTransferInv == TypeOK /\ FreshInv /\ TransferInv /\ [Next]_vars => TransferInv'
<1> SUFFICES ASSUME TypeOK, FreshInv, TransferInv, [Next]_vars PROVE TransferInv'
  OBVIOUS
<1>1. CASE \/ StartCycle \/ AdvanceCursor \/ LocalScan \/ LocalDone
           \/ (\E p \in Paths : DeltaItem(p) \/ LocalItem(p) \/ InitialSyncCollision(p))
  <2>1. DecidedInv' /\ phase' \in Gathering
    BY <1>1, ObserveKeepsDecided DEF TransferInv
  <2>2. phase' \notin Performing \cup {"exec"}
    BY <2>1 DEF Gathering, Performing
  <2>3. ParkedNotTransferred'
    BY <2>1, <2>2 DEF DecidedInv, ParkedNotTransferred
  <2> QED
    BY <2>1, <2>3 DEF TransferInv
<1>2. CASE \/ CaseCollisionRow \/ CaseCollisionPark \/ CollisionsDone \/ ParkConflict
           \/ (\E p \in Paths : LocalCaseCollision(p) \/ RecordContentConflict(p))
  <2>1. DecidedInv' /\ phase' \notin Performing \cup {"exec"}
    BY <1>2, ConflictKeepsDecided DEF TransferInv
  <2>2. ParkedNotTransferred'
    BY <2>1 DEF DecidedInv, ParkedNotTransferred
  <2> QED
    BY <2>1, <2>2 DEF TransferInv
<1>3. CASE Plan \/ ExecuteStep \/ UpdateStatus \/ UpdateEntry \/ (\E o \in ops : InsertOp(o))
  BY <1>3, ExecuteKeepsTransfer
<1>4. CASE RecordRun \/ Interrupt \/ \E p \in Paths : CaseCollisionRenameFails(p)
  <2>1. phase' = "idle" /\ decision' = NoDecisions /\ ops' = {} /\ op' = NoFileOp /\ renames' = {}
    BY <1>4 DEF RecordRun, Interrupt, CaseCollisionRenameFails, EndCycle
  <2> QED
    BY <2>1 DEF TransferInv, DecidedInv, ParkedNotTransferred, NoDecisions, Transfers, Performing
<1>5. CASE UserStep \/ UNCHANGED vars
  <2>1. UNCHANGED <<phase, entries, decision, todo, cur, renames, ops, op>>
    BY <1>5 DEF UserStep, LocalEdit, RemoteEdit, ResolveConflict, store, found, exec, vars
  <2> QED
    BY <2>1 DEF TransferInv, DecidedInv, ParkedNotTransferred, Parked
<1> QED
  BY <1>1, <1>2, <1>3, <1>4, <1>5 DEF Next, CycleStep, PathStep

\* No cycle transfers a path whose conflict is pending, whichever of its two
\* phases decided about it and whatever was parked in between.
THEOREM ParkedStaysPut == Spec => []ParkedNotTransferred
<1>1. Spec => [](TypeOK /\ FreshInv)
  BY TypeCorrect, InitFreshInv, NextFreshInv, PTL DEF Spec
<1>2. Spec => []TransferInv
  BY <1>1, InitTransferInv, NextTransferInv, PTL DEF Spec
<1>3. TransferInv => ParkedNotTransferred
  BY DEF TransferInv
<1> QED
  BY <1>2, <1>3, PTL

-----------------------------------------------------------------------------
(***************************************************************************)
(* A cycle is finite.                                                      *)
(***************************************************************************)

\* The loop over one operation: the attempts, the two writes after them.
LEMMA OperationDescends ==
  ASSUME TypeOK, ExecuteStep \/ UpdateStatus \/ UpdateEntry \/ (\E o \in ops : InsertOp(o))
  PROVE  CycleCloser
<1>0. attempt \in 0..RetryMax /\ RetryMax \in Nat
  BY BoundsAssumption DEF TypeOK, ExecType
<1>1. ASSUME NEW o \in ops, InsertOp(o) PROVE CycleCloser
  <2>1. phase = "exec" /\ phase' \in {"exec", "do"} /\ ops' = ops \ {o}
    BY <1>1 DEF InsertOp
  <2>2. Stage = 1 /\ Stage' = 1
    BY <2>1 DEF Stage
  <2>3. Left = ops /\ Left' = ops'
    BY <2>2 DEF Left
  <2> QED
    BY <1>1, <2>1, <2>2, <2>3 DEF CycleCloser
<1>2. ASSUME phase \in Performing, phase' \in Performing \cup {"exec"}, ops' = ops, Rest' < Rest
      PROVE  CycleCloser
  <2>1. Stage = 1 /\ Stage' = 1
    BY <1>2 DEF Stage, Performing
  <2>2. Left' = Left
    BY <1>2, <2>1 DEF Left
  <2> QED
    BY <1>2, <2>1, <2>2 DEF CycleCloser
<1>3. CASE ExecuteStep
  <2>1. /\ phase = "do" /\ phase' \in {"do", "postOk", "postFailed"} /\ ops' = ops
        /\ phase' = "do" => attempt' = attempt + 1
    BY <1>3, ExecuteFrame
  <2>2. Rest = 3 + (RetryMax - attempt)
    BY <2>1 DEF Rest
  <2>3. phase' = "do" => Rest' = 3 + (RetryMax - (attempt + 1))
    BY <2>1 DEF Rest
  <2>4. phase' # "do" => Rest' = 2
    BY <2>1 DEF Rest
  <2>5. Rest' < Rest
    BY <1>0, <2>1, <2>2, <2>3, <2>4
  <2> QED
    BY <1>2, <2>1, <2>5 DEF Performing
<1>4. CASE UpdateStatus \/ UpdateEntry
  <2>1. /\ ops' = ops
        /\ \/ phase \in {"postOk", "postFailed"} /\ phase' \in {"entry", "exec"}
           \/ phase = "entry" /\ phase' = "exec"
    BY <1>4 DEF UpdateStatus, UpdateEntry, OpDone
  <2>2. Rest' < Rest
    BY <2>1 DEF Rest
  <2> QED
    BY <1>2, <2>1, <2>2 DEF Performing
<1> QED
  BY <1>1, <1>3, <1>4

\* The phases before: each follows the one before it, and visits its items once.
LEMMA PhaseDescends ==
  ASSUME TypeOK,
         \/ (\E p \in Paths : PathStep(p)) \/ AdvanceCursor \/ LocalScan \/ CaseCollisionRow
         \/ CaseCollisionPark \/ LocalDone \/ CollisionsDone \/ ParkConflict \/ Plan \/ RecordRun
         \/ Interrupt
  PROVE  CycleCloser
<1>1. ASSUME NEW p \in todo, todo' = todo \ {p}, Stage' = Stage, Stage # 1
      PROVE  CycleCloser
  BY <1>1 DEF CycleCloser, Left
<1>2. ASSUME Stage' < Stage PROVE CycleCloser
  BY <1>2 DEF CycleCloser
<1>3. ASSUME NEW p \in Paths, DeltaItem(p) \/ LocalItem(p) \/ InitialSyncCollision(p)
      PROVE  CycleCloser
  <2>1. /\ p \in todo /\ todo' = todo \ {p} /\ phase' = phase
        /\ phase \in {"delta", "local", "collide"}
    BY <1>3 DEF DeltaItem, LocalItem, InitialSyncCollision
  <2>2. Stage' = Stage /\ Stage # 1
    BY <2>1 DEF Stage
  <2> QED
    BY <1>1, <2>1, <2>2
<1>4. ASSUME NEW p \in Paths, LocalCaseCollision(p) \/ RecordContentConflict(p)
      PROVE  CycleCloser
  <2>1. /\ p \in todo /\ todo' = todo \ {p}
        /\ \/ phase = "local" /\ phase' = "ccRow"
           \/ phase = "resolve" /\ phase' \in {"resolve", "park"}
    BY <1>4 DEF LocalCaseCollision, RecordContentConflict
  <2>2. Stage' = Stage /\ Stage # 1
    BY <2>1 DEF Stage
  <2> QED
    BY <1>1, <2>1, <2>2
<1>5. CASE CaseCollisionRow \/ CaseCollisionPark \/ ParkConflict
  <2>1. /\ todo' = todo
        /\ \/ phase = "ccRow" /\ phase' = "ccPark"
           \/ phase = "ccPark" /\ phase' = "local"
           \/ phase = "park" /\ phase' = "resolve"
    BY <1>5 DEF CaseCollisionRow, CaseCollisionPark, ParkConflict
  <2>2. Stage' = Stage /\ Stage # 1 /\ Rest' < Rest
    BY <2>1 DEF Stage, Rest
  <2>3. Left' = Left
    BY <2>1, <2>2 DEF Left
  <2> QED
    BY <2>2, <2>3 DEF CycleCloser
<1>6. CASE AdvanceCursor \/ LocalScan \/ LocalDone \/ CollisionsDone \/ Plan
  <2>1. AdvanceCursor => phase = "delta" /\ phase' = "scan"
    BY DEF AdvanceCursor
  <2>2. LocalScan => phase = "scan" /\ phase' = "local"
    BY DEF LocalScan
  <2>3. LocalDone => phase = "local" /\ phase' = "collide"
    BY DEF LocalDone
  <2>4. CollisionsDone => phase = "collide" /\ phase' = "resolve"
    BY DEF CollisionsDone
  <2>5. Plan => phase = "resolve" /\ phase' = "exec"
    BY DEF Plan
  <2>6. Stage' < Stage
    BY <1>6, <2>1, <2>2, <2>3, <2>4, <2>5 DEF Stage
  <2> QED
    BY <1>2, <2>6
<1>7. CASE RecordRun \/ Interrupt \/ \E p \in Paths : CaseCollisionRenameFails(p)
  <2>1. phase \in Phases \ {"idle"} /\ phase' = "idle"
    BY <1>7 DEF RecordRun, Interrupt, CaseCollisionRenameFails, EndCycle, TypeOK, FoundType
  <2>2. Stage \in 1..6
    BY <2>1 DEF Stage, Phases
  <2>3. Stage' = 0
    BY <2>1 DEF Stage
  <2> QED
    BY <1>2, <2>2, <2>3
<1> QED
  BY <1>3, <1>4, <1>5, <1>6, <1>7 DEF PathStep

\* For any number of paths, attempts and faults: a cycle only goes down in an order
\* by phase, remaining items and remaining attempts, whatever the users do.
THEOREM CycleGoesDown == Spec => CycleDescends
<1>1. TypeOK /\ [Next]_vars =>
        [phase # "idle" =>
           CycleCloser \/ (UserStep /\ UNCHANGED <<phase, todo, ops, op, attempt>>)]_vars
  <2> SUFFICES ASSUME TypeOK, Next, phase # "idle"
               PROVE  CycleCloser \/ (UserStep /\ UNCHANGED <<phase, todo, ops, op, attempt>>)
    OBVIOUS
  <2>1. CASE UserStep
    <3>1. UNCHANGED <<phase, todo, ops, op, attempt>>
      BY <2>1 DEF UserStep, LocalEdit, RemoteEdit, ResolveConflict, exec
    <3> QED
      BY <2>1, <3>1
  <2>2. ~StartCycle
    BY DEF StartCycle
  <2> QED
    BY <2>1, <2>2, OperationDescends, PhaseDescends DEF Next, CycleStep
<1> QED
  BY <1>1, TypeCorrect, PTL DEF Spec, CycleDescends

\* The operations of a cycle and its remote renames are finitely many.
WorkInv == IsFiniteSet(ops) /\ IsFiniteSet(renames)

\* As many values as places.
LEMMA ImageFinite ==
  ASSUME NEW S, IsFiniteSet(S), NEW f, f = [x \in S |-> f[x]]
  PROVE  IsFiniteSet({f[x] : x \in S})
<1> DEFINE T == {f[x] : x \in S}
<1>1. f \in Surjection(S, T)
  BY DEF Surjection
<1> QED
  BY <1>1, FS_Surjection

\* Part of a finite set, or two of them.
LEMMA PartFinite == \A S, T : IsFiniteSet(S) /\ T \subseteq S => IsFiniteSet(T)
BY FS_Subset

\* Every step adds finitely many operations.
LEMMA NextWorkInv ==
  ASSUME IsFiniteSet(Paths), TypeOK, WorkInv, [Next]_vars
  PROVE  WorkInv'
<1>1. CASE StartCycle
  <2>1. PICK named, double, former :
          /\ named \in SUBSET RelPaths
          /\ renames' =
               process_remote_case_collisions(detect_remote_case_collisions(named, double), former)
    BY <1>1, Zenon DEF StartCycle
  <2> DEFINE L == detect_remote_case_collisions(named, double)
             f == [p \in L |->
                     RemoteRenameOp(p, IF p \in former THEN drive[p].old ELSE drive[p].id)]
  <2>2. IsFiniteSet(L)
    BY <2>1, PartFinite, PathsAssumption DEF detect_remote_case_collisions
  <2>3. IsFiniteSet({f[p] : p \in L})
    <3> HIDE DEF L
    <3> QED
      BY <2>2, ImageFinite
  <2>4. renames' = {f[p] : p \in L}
    BY <2>1 DEF process_remote_case_collisions
  <2>5. ops' = ops
    BY <1>1 DEF StartCycle, exec
  <2> QED
    BY <2>3, <2>4, <2>5 DEF WorkInv
<1>2. ASSUME NEW p \in Paths, DeltaItem(p) PROVE WorkInv'
  <2>1. /\ ops' = ops
        /\ renames' = renames \/ renames' = renames \cup {RemoteRenameOp(p, snap[p].id)}
    BY <1>2 DEF DeltaItem, exec
  <2> QED
    BY <2>1, FS_AddElement DEF WorkInv
<1>3. CASE ParkConflict
  <2> DEFINE p == cur.path
             id == entries[cur.path].remote.id
             r == [kind |-> "LocalRename", path |-> p, id |-> 0, stage |-> 4]
             d == [kind |-> "Download", path |-> p, id |-> id, stage |-> 4]
  <2>1. renames' = renames /\ ops' \subseteq (ops \cup {r}) \cup {d}
    BY <1>3 DEF ParkConflict, remote_winner_conflict_ops
  <2>2. IsFiniteSet((ops \cup {r}) \cup {d})
    BY FS_AddElement DEF WorkInv
  <2> QED
    BY <2>1, <2>2, PartFinite DEF WorkInv
<1>4. CASE Plan
  <2> DEFINE Q == {q \in Paths : decision[q] \in PlannedKind}
             f == [p \in Q |-> [kind |-> decision[p], path |-> p, id |-> 0,
                                stage |-> plan_rank(decision[p])]]
  <2>1. IsFiniteSet(Q)
    BY PartFinite
  <2>2. IsFiniteSet({f[p] : p \in Q})
    <3> HIDE DEF Q
    <3> QED
      BY <2>1, ImageFinite
  <2>3. plan = {f[p] : p \in Q}
    BY DEF plan
  <2>4. ops' = plan \cup ops \cup renames /\ renames' = renames
    BY <1>4 DEF Plan, found
  <2>5. IsFiniteSet(plan)
    BY <2>2, <2>3
  <2> QED
    BY <2>4, <2>5, FS_Union DEF WorkInv
<1>5. CASE ExecuteStep \/ UpdateStatus \/ UpdateEntry \/ \E o \in ops : InsertOp(o)
  <2>1. renames' = renames /\ ops' \subseteq ops
    <3>1. CASE ExecuteStep
      BY <3>1, ExecuteFrame DEF found
    <3> QED
      BY <1>5, <3>1 DEF UpdateStatus, UpdateEntry, OpDone, InsertOp, found
  <2> QED
    BY <2>1, PartFinite DEF WorkInv
<1>6. CASE RecordRun \/ Interrupt \/ \E p \in Paths : CaseCollisionRenameFails(p)
  <2>1. ops' = {} /\ renames' = {}
    BY <1>6 DEF RecordRun, Interrupt, CaseCollisionRenameFails, EndCycle
  <2> QED
    BY <2>1, FS_EmptySet DEF WorkInv
<1>7. CASE \/ AdvanceCursor \/ LocalScan \/ CaseCollisionRow \/ CaseCollisionPark \/ LocalDone
           \/ CollisionsDone \/ UserStep \/ UNCHANGED vars
           \/ \E p \in Paths : \/ LocalItem(p) \/ LocalCaseCollision(p) \/ InitialSyncCollision(p)
                               \/ RecordContentConflict(p)
  <2>1. UNCHANGED <<ops, renames>>
    BY <1>7 DEF AdvanceCursor, LocalScan, CaseCollisionRow, CaseCollisionPark, LocalDone,
                CollisionsDone, UserStep, LocalEdit, RemoteEdit, ResolveConflict, LocalItem,
                LocalCaseCollision, InitialSyncCollision, RecordContentConflict, exec, found, vars
  <2> QED
    BY <2>1 DEF WorkInv
<1> QED
  BY <1>1, <1>2, <1>3, <1>4, <1>5, <1>6, <1>7 DEF Next, CycleStep, PathStep

\* What a phase has left to do is a finite set, and what an operation has left is
\* a number: so there is no infinite descent, and no cycle of infinitely many steps.
THEOREM WorkIsFinite ==
  ASSUME IsFiniteSet(Paths)
  PROVE  Spec => [](IsFiniteSet(Left) /\ Stage \in Nat /\ Rest \in Nat)
<1>1. Init => WorkInv
  BY FS_EmptySet DEF Init, WorkInv
<1>2. TypeOK /\ WorkInv /\ [Next]_vars => WorkInv'
  BY NextWorkInv
<1>3. TypeOK /\ WorkInv => IsFiniteSet(Left) /\ Stage \in Nat /\ Rest \in Nat
  <2> SUFFICES ASSUME TypeOK, WorkInv PROVE IsFiniteSet(Left) /\ Stage \in Nat /\ Rest \in Nat
    OBVIOUS
  <2>1. IsFiniteSet(todo) /\ IsFiniteSet(ops)
    BY PartFinite DEF TypeOK, FoundType, WorkInv
  <2>2. Stage \in Nat
    BY DEF Stage, TypeOK, FoundType, Phases
  <2>3. 3 + (RetryMax - attempt) \in Nat
    BY BoundsAssumption DEF TypeOK, ExecType
  <2>4. Rest \in Nat
    BY <2>3 DEF Rest, TypeOK, FoundType, Phases
  <2> QED
    BY <2>1, <2>2, <2>4 DEF Left
<1> QED
  BY <1>1, <1>2, <1>3, TypeCorrect, PTL DEF Spec
=============================================================================
