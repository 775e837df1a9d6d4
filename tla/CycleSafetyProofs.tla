-------------------------- MODULE CycleSafetyProofs --------------------------
(***************************************************************************)
(* More results about SyncCycle, for any set of paths and contents, any    *)
(* case folding and any bounds: the cursor never covers a change that is   *)
(* not in the store, no conflict is raised for a parked path, no cycle     *)
(* transfers two spellings of one name, and what a local file holds is not *)
(* lost but in the ways LocalContentKept names, or by a rename onto it.    *)
(***************************************************************************)
EXTENDS SyncCycleProofs

\* A name with one spelling.
Solo(p) == \A q \in Paths : Fold[q] = Fold[p] => q = p

\* A name whose items no page passes over.
Followed(p) == p \in RelPaths \ twice /\ Solo(p)

Recorded(p) == entries[p].remote = remote_side_from_item(drive[p])

\* Etags and cursors are values of the drive's counter, every live item has one, and
\* it came after the tombstone of the name's former item.
ClockInv ==
  /\ cursor <= seq /\ token <= seq /\ seq > 0
  /\ \A p \in Paths :
       /\ drive[p].etag <= seq /\ drive[p].old <= seq
       /\ drive[p].c # Gone => drive[p].etag > 0 /\ drive[p].old <= drive[p].etag

\* While the page is worked off, each item of the drive that the new cursor will
\* cover is on the page as it is or has been recorded, and none that is still to
\* be recorded is covered by the old cursor.
PageInv ==
  phase = "delta" =>
    /\ \A p \in todo : drive[p].c # Gone => drive[p].etag > cursor
    /\ \A p \in Paths :
         Followed(p) /\ drive[p].c # Gone /\ drive[p].etag <= token =>
           IF p \in todo THEN snap[p] = remote_side_from_item(drive[p]) ELSE Recorded(p)

CoverInv ==
  \A p \in Paths : Followed(p) /\ drive[p].c # Gone /\ drive[p].etag <= cursor => Recorded(p)

CursorInv == ClockInv /\ PageInv /\ CoverInv

\* Initially there is no cursor.
LEMMA InitCursorInv == Init => CursorInv
<1> SUFFICES ASSUME Init PROVE CursorInv
  OBVIOUS
<1>1. /\ cursor = 0 /\ token = 0 /\ phase = "idle" /\ seq \in Nat \ {0}
      /\ drive \in [Paths -> DriveItem]
      /\ \A p \in Paths : /\ drive[p].etag <= seq /\ drive[p].old = 0 /\ drive[p].etag \in Nat
                          /\ drive[p].c # Gone => drive[p].etag > 0
  BY DrivesAssumption DEF Init, DriveItem
<1> QED
  BY <1>1 DEF CursorInv, ClockInv, PageInv, CoverInv

\* A step that leaves the drive, the cursor and the recorded remote sides alone.
LEMMA SameCursor ==
  ASSUME TypeOK, CursorInv, UNCHANGED <<drive, seq, cursor, twice>>,
         token' = token \/ token' = 0,
         \A p \in Paths : entries'[p].remote = entries[p].remote,
         phase' = "delta" => phase = "delta" /\ UNCHANGED <<todo, snap, token>>
  PROVE  CursorInv'
<1>1. ClockInv'
  BY DEF CursorInv, ClockInv, TypeOK, WorldType
<1>2. PageInv'
  BY DEF CursorInv, PageInv, Recorded, Followed
<1>3. CoverInv'
  BY DEF CursorInv, CoverInv, Recorded, Followed
<1> QED
  BY <1>1, <1>2, <1>3 DEF CursorInv

\* A tombstone has a value of the counter too.
LEMMA BuriedBefore ==
  ASSUME TypeOK, CursorInv, NEW p \in Paths
  PROVE  Buried(drive[p]) \in Nat /\ Buried(drive[p]) <= seq
BY DEF Buried, CursorInv, ClockInv, TypeOK, WorldType, DriveItem

\* A write to the drive gives the item an etag no cursor covers; a rename leaves
\* nothing behind.
LEMMA DriveMoves ==
  ASSUME TypeOK, CursorInv, seq' = seq + 1,
         \A p \in Paths :
           \/ drive'[p] = drive[p]
           \/ /\ drive'[p].etag = seq + 1 \/ (drive'[p].etag = 0 /\ drive'[p].c = Gone)
              /\ drive'[p].old \in Nat /\ drive'[p].old <= seq,
         UNCHANGED <<cursor, token, entries, snap, todo, twice>>,
         phase' = "delta" => phase = "delta"
  PROVE  CursorInv'
<1>1. seq \in Nat /\ cursor \in Nat /\ token \in Nat /\ todo \subseteq Paths
      /\ \A p \in Paths : drive[p].etag \in Nat /\ drive[p].old \in Nat
  BY DEF TypeOK, WorldType, StoreType, FoundType, DriveItem
<1>2. ClockInv'
  BY <1>1 DEF CursorInv, ClockInv
<1>3. \A p \in Paths : drive'[p].c # Gone /\ (drive'[p].etag <= cursor \/ drive'[p].etag <= token)
        => drive'[p] = drive[p]
  BY <1>1 DEF CursorInv, ClockInv
<1>4. \A p \in Paths : Followed(p)' = Followed(p)
  BY DEF Followed
<1>5. CoverInv'
  BY <1>3, <1>4 DEF CursorInv, CoverInv, Recorded
<1>6. PageInv'
  <2> SUFFICES ASSUME phase' = "delta"
               PROVE  /\ \A p \in todo : drive'[p].c # Gone => drive'[p].etag > cursor
                      /\ \A p \in Paths :
                           Followed(p) /\ drive'[p].c # Gone /\ drive'[p].etag <= token =>
                             IF p \in todo THEN snap[p] = remote_side_from_item(drive'[p])
                               ELSE entries[p].remote = remote_side_from_item(drive'[p])
    BY <1>4 DEF PageInv, Recorded
  <2>1. phase = "delta"
    OBVIOUS
  <2>2. \A p \in todo : drive'[p].c # Gone => drive'[p].etag > cursor
    BY <1>1, <2>1 DEF CursorInv, ClockInv, PageInv
  <2>3. ASSUME NEW p \in Paths, Followed(p), drive'[p].c # Gone, drive'[p].etag <= token
        PROVE  IF p \in todo THEN snap[p] = remote_side_from_item(drive'[p])
                 ELSE entries[p].remote = remote_side_from_item(drive'[p])
    <3>1. drive'[p] = drive[p]
      BY <1>3, <2>3
    <3> QED
      BY <2>1, <2>3, <3>1 DEF CursorInv, PageInv, Recorded
  <2> QED
    BY <2>2, <2>3
<1> QED
  BY <1>2, <1>5, <1>6 DEF CursorInv

\* What a write does to the drive.
LEMMA WrittenItem ==
  ASSUME drive \in [Paths -> DriveItem], NEW q \in Paths, NEW c, Written(q, c)
  PROVE  /\ seq' = seq + 1
         /\ \A p \in Paths : \/ drive'[p] = drive[p]
                             \/ drive'[p].etag = seq + 1 /\ drive'[p].old = Buried(drive[p])
<1> DEFINE d == [c |-> c, etag |-> seq + 1,
                 id |-> IF drive[q].c = Gone THEN seq + 1 ELSE drive[q].id,
                 old |-> Buried(drive[q])]
<1>1. d.etag = seq + 1 /\ d.old = Buried(drive[q])
  OBVIOUS
<1>2. seq' = seq + 1 /\ drive' = [drive EXCEPT ![q] = d]
  BY DEF Written
<1>3. drive'[q] = d /\ \A p \in Paths \ {q} : drive'[p] = drive[p]
  BY <1>2
<1> HIDE DEF d
<1> QED
  BY <1>1, <1>2, <1>3

\* What the page shows is recorded.
LEMMA ObservationRecords ==
  ASSUME NEW e \in Entry, NEW r \in Side
  PROVE  Tracked(e) \/ Present(r) => build_remote_observation(e, r).remote = r
BY DEF build_remote_observation, Entry, Tracked, Present

\* A live item is present.
LEMMA LivePresent ==
  ASSUME NEW d \in DriveItem, d.c # Gone
  PROVE  Present(remote_side_from_item(d))
BY DEF remote_side_from_item, Present

\* The page, its items and the cursor.
LEMMA DeltaKeepsCursor ==
  ASSUME TypeOK, CursorInv, StartCycle \/ (\E p \in Paths : DeltaItem(p)) \/ AdvanceCursor
  PROVE  CursorInv'
<1>0. /\ seq \in Nat /\ cursor \in Nat /\ token \in Nat /\ todo \subseteq Paths
      /\ \A p \in Paths : drive[p] \in DriveItem /\ drive[p].etag \in Nat /\ drive[p].old \in Nat
      /\ entries \in [Paths -> Entry]
  BY DEF TypeOK, WorldType, StoreType, FoundType, DriveItem
<1>1. CASE StartCycle
  <2>1. PICK page \in SUBSET Changed, old \in SUBSET Recreated :
          LET named == (page \cup old) \cap RelPaths
              dropped == detect_remote_case_collisions(named, page \cap old)
          IN /\ token' = IF page = Changed /\ old = Recreated THEN seq ELSE 0
             /\ snap' = [p \in Paths |-> IF p \in page \cap named
                                            THEN remote_side_from_item(drive[p]) ELSE Absent]
             /\ todo' = named \ dropped
             /\ twice' = (twice \ page) \cup (page \cap old)
    BY <1>1 DEF StartCycle
  <2> DEFINE named == (page \cup old) \cap RelPaths
             dropped == detect_remote_case_collisions(named, page \cap old)
  <2>2. UNCHANGED <<drive, seq, cursor, entries>>
    BY <1>1 DEF StartCycle, world, store
  <2>3. /\ \A p \in Changed : drive[p].etag > cursor
        /\ \A p \in Recreated : drive[p].c # Gone => p \in Changed
    BY <1>0 DEF Changed, Recreated, CursorInv, ClockInv
  <2>4. \A p \in todo' : drive[p].c # Gone => drive[p].etag > cursor
    BY <2>1, <2>3
  <2>5. ClockInv' /\ CoverInv'
    <3>1. \A p \in Paths : Followed(p)' => Followed(p) \/ p \in page
      BY <2>1 DEF Followed
    <3>2. CoverInv'
      BY <1>0, <2>2, <2>3, <3>1 DEF CursorInv, CoverInv, Recorded
    <3> QED
      BY <1>0, <2>1, <2>2, <3>2 DEF CursorInv, ClockInv
  <2>6. ASSUME NEW p \in Paths, Followed(p)', drive[p].c # Gone, drive[p].etag <= token'
        PROVE  IF p \in todo' THEN snap'[p] = remote_side_from_item(drive[p]) ELSE Recorded(p)
    <3>1. page = Changed /\ old = Recreated
      BY <1>0, <2>1, <2>6 DEF CursorInv, ClockInv
    <3>2. Solo(p) /\ p \in RelPaths /\ ~(p \in page /\ p \in old)
      BY <2>1, <2>6 DEF Followed
    <3>3. CASE p \in page
      <4>1. ASSUME NEW q \in named, Fold[q] = Fold[p] PROVE ~(Rank[q] < Rank[p])
        <5>1. q \in Paths /\ q = p
          BY <3>2, <4>1, PathsAssumption DEF Solo
        <5> QED
          BY <5>1, PathsAssumption
      <4>2. p \notin dropped
        BY <3>2, <4>1 DEF detect_remote_case_collisions, case_folds_equal
      <4> QED
        BY <2>1, <3>2, <3>3, <4>2
    <3>4. CASE p \notin page
      <4>1. p \notin todo'
        BY <2>1, <2>3, <2>6, <3>1, <3>4
      <4>2. drive[p].etag <= cursor
        BY <1>0, <2>6, <3>1, <3>4 DEF Changed
      <4>3. Followed(p)
        BY <2>1, <2>6, <3>4 DEF Followed
      <4> QED
        BY <2>6, <4>1, <4>2, <4>3 DEF CursorInv, CoverInv
    <3> QED
      BY <3>3, <3>4
  <2>7. PageInv'
    BY <2>2, <2>4, <2>6 DEF PageInv, Recorded
  <2> QED
    BY <2>5, <2>7 DEF CursorInv
<1>2. ASSUME NEW p \in Paths, DeltaItem(p) PROVE CursorInv'
  <2>1. /\ phase = "delta" /\ phase' = "delta" /\ p \in todo /\ todo' = todo \ {p}
        /\ UNCHANGED <<drive, seq, cursor, token, snap, twice>>
    BY <1>2 DEF DeltaItem, world, bound
  <2>2. entries[p] \in Entry /\ snap[p] \in Side
    BY DEF TypeOK, StoreType, FoundType
  <2>3. \A q \in Paths \ {p} : entries'[q] = entries[q]
    BY <1>0, <1>2 DEF DeltaItem
  <2>4. drive[p].c # Gone => drive[p].etag > cursor
    BY <2>1 DEF CursorInv, PageInv
  <2>5. ClockInv'
    BY <2>1 DEF CursorInv, ClockInv
  <2>6. CoverInv'
    BY <1>0, <2>1, <2>3, <2>4 DEF CursorInv, CoverInv, Recorded, Followed
  <2>7. ASSUME Followed(p), drive[p].c # Gone, drive[p].etag <= token
        PROVE  entries'[p].remote = remote_side_from_item(drive[p])
    <3>1. snap[p] = remote_side_from_item(drive[p])
      BY <2>1, <2>7 DEF CursorInv, PageInv
    <3>2. Present(snap[p])
      BY <1>0, <2>7, <3>1, LivePresent
    <3>3. ~skip_for_case_collision(p)
      BY <2>7, PathsAssumption DEF skip_for_case_collision, Followed, Solo
    <3>4. entries' = [entries EXCEPT ![p] = build_remote_observation(@, snap[p])]
      BY <1>2, <3>3 DEF DeltaItem
    <3>5. entries'[p].remote = snap[p]
      BY <1>0, <2>2, <3>2, <3>4, ObservationRecords
    <3> QED
      BY <3>1, <3>5
  <2>8. PageInv'
    <3>1. \A q \in todo' : drive[q].c # Gone => drive[q].etag > cursor
      BY <2>1 DEF CursorInv, PageInv
    <3>2. ASSUME NEW q \in Paths, Followed(q), drive[q].c # Gone, drive[q].etag <= token
          PROVE  IF q \in todo' THEN snap[q] = remote_side_from_item(drive[q])
                   ELSE entries'[q].remote = remote_side_from_item(drive[q])
      <4>1. CASE q = p
        BY <2>1, <2>7, <3>2, <4>1
      <4>2. CASE q # p
        BY <2>1, <2>3, <3>2, <4>2 DEF CursorInv, PageInv, Recorded
      <4> QED
        BY <4>1, <4>2
    <3> QED
      BY <2>1, <3>1, <3>2 DEF PageInv, Recorded, Followed
  <2> QED
    BY <2>5, <2>6, <2>8 DEF CursorInv
<1>3. CASE AdvanceCursor
  <2>1. /\ phase = "delta" /\ phase' = "scan" /\ todo = {} /\ cursor' = token
        /\ UNCHANGED <<drive, seq, token, entries, twice>>
    BY <1>3 DEF AdvanceCursor, world, found, bound
  <2>2. CoverInv'
    BY <2>1 DEF CursorInv, PageInv, CoverInv, Recorded, Followed
  <2> QED
    BY <2>1, <2>2 DEF CursorInv, ClockInv, PageInv
<1> QED
  BY <1>1, <1>2, <1>3

\* The phases between the delta and the operations do not touch the remote sides.
LEMMA PhasesKeepCursor ==
  ASSUME TypeOK, CursorInv,
         \/ LocalScan \/ CaseCollisionRow \/ CaseCollisionPark \/ LocalDone \/ CollisionsDone
         \/ ParkConflict \/ Plan \/ Interrupt
         \/ (\E p \in Paths : \/ LocalItem(p) \/ LocalCaseCollision(p) \/ CaseCollisionRenameFails(p)
                              \/ InitialSyncCollision(p) \/ RecordContentConflict(p))
  PROVE  CursorInv'
<1>0. entries \in [Paths -> Entry] /\ \A p \in Paths : entries[p] \in Entry
  BY DEF TypeOK, StoreType
<1>1. CASE LocalScan \/ CaseCollisionRow \/ LocalDone \/ CollisionsDone \/ Plan \/ Interrupt
  <2>1. /\ UNCHANGED <<drive, seq, cursor, entries, twice>> /\ phase' # "delta"
        /\ token' = token \/ token' = 0
    BY <1>1 DEF LocalScan, CaseCollisionRow, LocalDone, CollisionsDone, Plan, Interrupt, EndCycle,
                world, store, found, bound
  <2> QED
    BY <2>1, SameCursor
<1>2. CASE CaseCollisionPark
  <2>1. cur.local \in Paths
    BY <1>2 DEF CaseCollisionPark, TypeOK, FoundType, Raised
  <2>2. /\ UNCHANGED <<drive, seq, cursor, token, twice>> /\ phase' = "local"
        /\ entries' = IF Tracked(entries[cur.local])
                        THEN [entries EXCEPT ![cur.local].local = Absent,
                                             ![cur.local].state = "PendingConflict"]
                        ELSE entries
    BY <1>2 DEF CaseCollisionPark, world, bound
  <2>3. \A p \in Paths : entries'[p].remote = entries[p].remote
    BY <1>0, <2>1, <2>2 DEF Entry
  <2> QED
    BY <2>2, <2>3, SameCursor
<1>3. CASE ParkConflict
  <2>1. cur.path \in Paths
    BY <1>3 DEF ParkConflict, TypeOK, FoundType, Raised
  <2>2. /\ UNCHANGED <<drive, seq, cursor, token, twice>> /\ phase' = "resolve"
        /\ entries' = [entries EXCEPT ![cur.path].state = "PendingConflict"]
    BY <1>3 DEF ParkConflict, world, bound
  <2>3. \A p \in Paths : entries'[p].remote = entries[p].remote
    BY <1>0, <2>1, <2>2 DEF Entry
  <2> QED
    BY <2>2, <2>3, SameCursor
<1>4. ASSUME NEW p \in Paths, LocalItem(p) \/ InitialSyncCollision(p) PROVE CursorInv'
  <2>1. UNCHANGED <<drive, seq, cursor, token, twice>> /\ phase' # "delta"
    BY <1>4 DEF LocalItem, InitialSyncCollision, world, bound
  <2>2. \A q \in Paths \ {p} : entries'[q] = entries[q]
    BY <1>0, <1>4 DEF LocalItem, InitialSyncCollision
  <2>3. entries'[p].remote = entries[p].remote
    BY <1>0, <1>4 DEF LocalItem, InitialSyncCollision, Entry
  <2> QED
    BY <2>1, <2>2, <2>3, SameCursor
<1>5. ASSUME NEW p \in Paths,
             LocalCaseCollision(p) \/ CaseCollisionRenameFails(p) \/ RecordContentConflict(p)
      PROVE  CursorInv'
  <2>1. /\ UNCHANGED <<drive, seq, cursor, entries, twice>> /\ phase' # "delta"
        /\ token' = token \/ token' = 0
    BY <1>5 DEF LocalCaseCollision, CaseCollisionRenameFails, RecordContentConflict, EndCycle,
                world, store, bound
  <2> QED
    BY <2>1, SameCursor
<1> QED
  BY <1>1, <1>2, <1>3, <1>4, <1>5

\* The operations.
LEMMA ExecuteKeepsCursor ==
  ASSUME TypeOK, CursorInv,
         ExecuteStep \/ UpdateStatus \/ UpdateEntry \/ RecordRun \/ (\E o \in ops : InsertOp(o))
  PROVE  CursorInv'
<1>0. entries \in [Paths -> Entry] /\ \A p \in Paths : entries[p] \in Entry
  BY DEF TypeOK, StoreType
<1>1. CASE UpdateStatus \/ RecordRun \/ \E o \in ops : InsertOp(o)
  <2>1. /\ UNCHANGED <<drive, seq, cursor, entries, twice>> /\ phase' # "delta"
        /\ token' = token \/ token' = 0
    BY <1>1 DEF UpdateStatus, OpDone, RecordRun, EndCycle, InsertOp, world, found, bound
  <2> QED
    BY <2>1, SameCursor
<1>2. CASE UpdateEntry
  <2>1. UNCHANGED <<drive, seq, cursor, token, twice>> /\ phase' = "exec"
    BY <1>2 DEF UpdateEntry, OpDone, world, found
  <2>2. op.path \in Paths
    BY <1>2 DEF UpdateEntry, TypeOK, ExecType, Op
  <2>3. post_op_entry(entries[op.path], op.kind).remote = entries[op.path].remote
    BY <1>0, <2>2 DEF post_op_entry, Entry
  <2>4. \A p \in Paths : entries'[p].remote = entries[p].remote
    BY <1>0, <1>2, <2>2, <2>3 DEF UpdateEntry
  <2> QED
    BY <2>1, <2>4, SameCursor
<1>3. CASE ExecuteStep
  <2>1. /\ UNCHANGED <<cursor, entries, token, snap, todo, twice>>
        /\ phase # "delta" /\ phase' # "delta"
    BY <1>3 DEF ExecuteStep, ExecuteLocalMkdir, ExecuteLocalDelete, ExecuteDownload,
                ExecuteUpload, ExecuteLocalRename, ExecuteRemoteRename, ExecuteFails, Exhausted,
                Attempting, Returned, LateError, Retry, Abandon, Executed, store, found, bound
  <2>2. CASE UNCHANGED <<drive, seq>>
    BY <2>1, <2>2, SameCursor
  <2>3. ASSUME NEW q \in Paths, NEW c, Written(q, c) PROVE CursorInv'
    <3>1. drive \in [Paths -> DriveItem]
      BY DEF TypeOK, WorldType
    <3>2. /\ seq' = seq + 1
          /\ \A p \in Paths : \/ drive'[p] = drive[p]
                              \/ drive'[p].etag = seq + 1 /\ drive'[p].old = Buried(drive[p])
      BY <2>3, <3>1, WrittenItem
    <3> QED
      BY <2>1, <3>2, BuriedBefore, DriveMoves
  <2>4. CASE ExecuteRemoteRename
    <3>1. drive \in [Paths -> DriveItem]
      BY DEF TypeOK, WorldType
    <3> DEFINE target == CaseTarget[op.path]
               left(q) == [NoItem EXCEPT !.old = Buried(drive[q])]
               moved(q) == [c |-> drive[q].c, etag |-> seq + 1, id |-> op.id,
                            old |-> Buried(drive[target])]
    <3>2. PICK q \in Paths :
            seq' = seq + 1 /\ drive' = [drive EXCEPT ![q] = left(q), ![target] = moved(q)]
      BY <2>4 DEF ExecuteRemoteRename
    <3>3. /\ left(q).etag = 0 /\ left(q).c = Gone /\ left(q).old = Buried(drive[q])
          /\ moved(q).etag = seq + 1 /\ moved(q).old = Buried(drive[target])
      BY DEF NoItem
    <3>4. target \in Paths
      BY <2>4, PathsAssumption DEF ExecuteRemoteRename, Attempting, TypeOK, ExecType, Op
    <3> HIDE DEF left, moved, target
    <3>5. \A p \in Paths : drive'[p] = drive[p] \/ drive'[p] = left(q) \/ drive'[p] = moved(q)
      BY <3>1, <3>2
    <3> QED
      BY <2>1, <3>2, <3>3, <3>4, <3>5, BuriedBefore, DriveMoves
  <2>5. CASE ExecuteUpload
    <3>1. op.path \in Paths
      BY <2>5 DEF ExecuteUpload, Attempting, TypeOK, ExecType, Op
    <3>2. Leaf[op.path] \in Paths
      BY <3>1, PathsAssumption
    <3> QED
      BY <2>2, <2>3, <2>5, <3>2 DEF ExecuteUpload
  <2>6. CASE \/ ExecuteLocalMkdir \/ ExecuteLocalDelete \/ ExecuteDownload \/ ExecuteLocalRename
             \/ ExecuteFails \/ Exhausted
    BY <2>2, <2>6 DEF ExecuteLocalMkdir, ExecuteLocalDelete, ExecuteDownload, ExecuteLocalRename,
                      ExecuteFails, Exhausted, world
  <2> QED
    BY <1>3, <2>4, <2>5, <2>6 DEF ExecuteStep
<1> QED
  BY <1>1, <1>2, <1>3

\* The users.
LEMMA UserKeepsCursor ==
  ASSUME TypeOK, CursorInv, UserStep \/ UNCHANGED vars
  PROVE  CursorInv'
<1>0. drive \in [Paths -> DriveItem] /\ seq \in Nat
  BY DEF TypeOK, WorldType
<1>1. CASE UNCHANGED vars
  BY <1>1, SameCursor DEF vars, world, store, found, bound
<1>2. ASSUME NEW p \in UserPaths, NEW c \in UserItems, LocalEdit(p, c) PROVE CursorInv'
  BY <1>2, SameCursor DEF LocalEdit, store, found
<1>3. ASSUME NEW p \in UserPaths, NEW c \in UserItems, RemoteEdit(p, c) PROVE CursorInv'
  <2>1. UNCHANGED <<cursor, token, entries, snap, todo, phase, twice>> /\ p \in Paths
    BY <1>3, PathsAssumption DEF RemoteEdit, store, found
  <2>2. /\ seq' = seq + 1
        /\ \A q \in Paths : \/ drive'[q] = drive[q]
                            \/ /\ drive'[q].etag = seq + 1
                               /\ drive'[q].old \in {Buried(drive[q]), drive[q].old}
    <3>1. CASE Written(p, c)
      BY <1>0, <2>1, <3>1, WrittenItem
    <3>2. CASE seq' = seq + 1 /\ drive' = [drive EXCEPT ![p].c = Gone, ![p].etag = seq + 1]
      <4>1. drive[p] \in DriveItem
        BY <1>0, <2>1
      <4>2. drive' = [drive EXCEPT ![p] = [drive[p] EXCEPT !.c = Gone, !.etag = seq + 1]]
        BY <3>2
      <4>3. LET d == [drive[p] EXCEPT !.c = Gone, !.etag = seq + 1]
            IN d.etag = seq + 1 /\ d.old = drive[p].old
        BY <4>1 DEF DriveItem
      <4> QED
        BY <1>0, <2>1, <3>2, <4>2, <4>3
    <3> QED
      BY <1>3, <3>1, <3>2 DEF RemoteEdit
  <2>3. \A q \in Paths : drive[q].old \in Nat /\ drive[q].old <= seq
    BY <1>0 DEF DriveItem, CursorInv, ClockInv
  <2> QED
    BY <2>1, <2>2, <2>3, BuriedBefore, DriveMoves
<1>4. ASSUME NEW c \in conflicts, ResolveConflict(c) PROVE CursorInv'
  BY <1>4, SameCursor DEF ResolveConflict, world, found, bound
<1> QED
  BY <1>1, <1>2, <1>3, <1>4 DEF UserStep

\* Every step keeps the invariant.
LEMMA NextCursorInv == TypeOK /\ CursorInv /\ [Next]_vars => CursorInv'
BY DeltaKeepsCursor, PhasesKeepCursor, ExecuteKeepsCursor, UserKeepsCursor
   DEF Next, CycleStep, PathStep

\* Whatever cut a cycle short, the next delta request leaves out no change that the
\* store does not have: the cursor is written after the entries it stands for, and a
\* change made in between has an etag beyond it.
THEOREM CursorOnlyCoversRecorded == Spec => []CursorCovers
<1>1. Spec => []CursorInv
  BY TypeCorrect, InitCursorInv, NextCursorInv, PTL DEF Spec
<1>2. CursorInv => CursorCovers
  BY PathsAssumption DEF CursorInv, CoverInv, CursorCovers, Followed, Solo, Recorded
<1> QED
  BY <1>1, <1>2, PTL

-----------------------------------------------------------------------------
Parked(p) == entries[p].state = "PendingConflict"

\* A path about which a conflict is or may still be raised is not parked.
FreshInv ==
  /\ phase \in {"delta", "scan", "local", "ccRow", "ccPark", "collide"} =>
       \A p \in Paths : decision[p] \in {"Download", "ConflictDetected"} => ~Parked(p)
  /\ phase \in {"local", "ccRow", "ccPark"} => \A p \in todo : decision[p] = "none"
  /\ phase \in {"ccRow", "ccPark"} => decision[cur.local] = "none"
  /\ phase \in {"resolve", "park"} => \A p \in todo : ~Parked(p)
  /\ phase = "park" => cur.path \notin todo
  /\ phase = "idle" => decision = NoDecisions

\* Initially nothing is decided.
LEMMA InitFreshInv == Init => FreshInv
BY DEF Init, FreshInv

\* A decision that may become a conflict is not taken about a parked path.
LEMMA DecisionFresh ==
  ASSUME NEW e \in Entry, NEW r \in Side, reconcile_kind(e, r) \in {"Download", "ConflictDetected"}
  PROVE  e.state # "PendingConflict" /\ Present(r)
<1>1. e.state = "PendingConflict" => reconcile_both(e, r) = "NoOp"
  BY DEF reconcile_both, is_action_blocking
<1> QED
  BY <1>1 DEF reconcile_kind, Tracked, Entry, SyncState

\* The delta phase and the local phase.
LEMMA ObserveKeepsFresh ==
  ASSUME TypeOK, FreshInv,
         \/ StartCycle \/ AdvanceCursor \/ LocalScan \/ LocalDone \/ CollisionsDone
         \/ (\E p \in Paths : DeltaItem(p) \/ LocalItem(p) \/ InitialSyncCollision(p))
  PROVE  FreshInv'
<1>0. /\ entries \in [Paths -> Entry] /\ \A p \in Paths : entries[p] \in Entry /\ snap[p] \in Side
      /\ decision \in [Paths -> DecisionKind \cup {"none"}] /\ todo \subseteq Paths
      /\ coll \subseteq Paths
  BY DEF TypeOK, StoreType, FoundType
<1>1. CASE StartCycle
  <2>1. phase' = "delta" /\ phase = "idle" /\ decision' = decision
    BY <1>1 DEF StartCycle
  <2> QED
    BY <2>1 DEF FreshInv, NoDecisions
<1>2. CASE AdvanceCursor
  BY <1>2 DEF AdvanceCursor, FreshInv, Parked, found
<1>3. CASE LocalScan
  BY <1>3, PathsAssumption DEF LocalScan, FreshInv, Parked, store
<1>4. CASE LocalDone
  BY <1>4 DEF LocalDone, FreshInv, Parked, store, found
<1>5. CASE CollisionsDone
  BY <1>5 DEF CollisionsDone, FreshInv, Parked, store, found
<1>6. ASSUME NEW p \in Paths, DeltaItem(p) PROVE FreshInv'
  <2>1. phase = "delta" /\ phase' = "delta"
    BY <1>6 DEF DeltaItem
  <2>2. \A q \in Paths \ {p} : entries'[q] = entries[q] /\ decision'[q] = decision[q]
    BY <1>0, <1>6 DEF DeltaItem
  <2>3. \/ entries'[p] = entries[p] /\ decision'[p] = decision[p]
        \/ /\ entries'[p] = build_remote_observation(entries[p], snap[p])
           /\ decision'[p] = reconcile_kind(entries[p], snap[p])
    BY <1>0, <1>6 DEF DeltaItem
  <2>4. decision'[p] \in {"Download", "ConflictDetected"} => entries'[p].state # "PendingConflict"
    BY <1>0, <2>1, <2>3, DecisionFresh, ObservationTyped DEF FreshInv, Parked
  <2>5. \A q \in Paths : decision'[q] \in {"Download", "ConflictDetected"} =>
                           entries'[q].state # "PendingConflict"
    BY <2>1, <2>2, <2>4 DEF FreshInv, Parked
  <2> QED
    BY <2>1, <2>5 DEF FreshInv, Parked
<1>7. ASSUME NEW p \in Paths, LocalItem(p) PROVE FreshInv'
  <2>1. phase = "local" /\ phase' = "local" /\ p \in todo /\ todo' = todo \ {p}
    BY <1>7 DEF LocalItem
  <2>2. \A q \in Paths \ {p} : entries'[q] = entries[q] /\ decision'[q] = decision[q]
    BY <1>0, <1>7 DEF LocalItem
  <2>3. decision'[p] \in {"none", "RemoteMkdir", "Upload"}
    BY <1>0, <1>7, <2>1 DEF LocalItem, FreshInv
  <2> QED
    BY <1>0, <2>1, <2>2, <2>3 DEF FreshInv, Parked
<1>8. ASSUME NEW p \in Paths, InitialSyncCollision(p) PROVE FreshInv'
  <2>1. phase = "collide" /\ phase' = "collide"
    BY <1>8 DEF InitialSyncCollision
  <2>2. \A q \in Paths \ {p} : entries'[q] = entries[q] /\ decision'[q] = decision[q]
    BY <1>0, <1>8 DEF InitialSyncCollision
  <2>3. entries'[p].state = entries[p].state
    BY <1>0, <1>8 DEF InitialSyncCollision, Entry
  <2>4. decision'[p] \in {"Download", "ConflictDetected"} =>
          decision[p] \in {"Download", "ConflictDetected"}
    BY <1>0, <1>8 DEF InitialSyncCollision
  <2>5. \A q \in Paths : decision'[q] \in {"Download", "ConflictDetected"} =>
                           entries'[q].state # "PendingConflict"
    BY <2>1, <2>2, <2>3, <2>4 DEF FreshInv, Parked
  <2> QED
    BY <2>1, <2>5 DEF FreshInv, Parked
<1> QED
  BY <1>1, <1>2, <1>3, <1>4, <1>5, <1>6, <1>7, <1>8

\* The two kinds of conflict: what is parked is not to be visited any more.
LEMMA ConflictKeepsFresh ==
  ASSUME TypeOK, FreshInv,
         \/ CaseCollisionRow \/ CaseCollisionPark \/ ParkConflict
         \/ (\E p \in Paths : LocalCaseCollision(p) \/ RecordContentConflict(p))
  PROVE  FreshInv'
<1>0. entries \in [Paths -> Entry] /\ todo \subseteq Paths
      /\ decision \in [Paths -> DecisionKind \cup {"none"}]
  BY DEF TypeOK, StoreType, FoundType
<1>1. CASE CaseCollisionRow
  BY <1>1 DEF CaseCollisionRow, FreshInv, Parked, found
<1>2. CASE CaseCollisionPark
  <2>1. /\ phase = "ccPark" /\ phase' = "local" /\ UNCHANGED <<decision, todo>>
        /\ cur.local \in Paths
    BY <1>2 DEF CaseCollisionPark, TypeOK, FoundType, Raised
  <2>2. \A q \in Paths : entries'[q] = entries[q] \/ q = cur.local
    BY <1>0, <1>2, <2>1 DEF CaseCollisionPark
  <2> QED
    BY <2>1, <2>2 DEF FreshInv, Parked
<1>3. CASE ParkConflict
  <2>1. phase = "park" /\ phase' = "resolve" /\ UNCHANGED <<decision, todo>> /\ cur.path \in Paths
    BY <1>3 DEF ParkConflict, TypeOK, FoundType, Raised
  <2>2. \A q \in Paths : entries'[q] = entries[q] \/ q = cur.path
    BY <1>0, <1>3, <2>1 DEF ParkConflict
  <2> QED
    BY <1>0, <2>1, <2>2 DEF FreshInv, Parked
<1>4. ASSUME NEW p \in Paths, LocalCaseCollision(p) PROVE FreshInv'
  <2>1. /\ phase = "local" /\ phase' = "ccRow" /\ p \in todo /\ todo' = todo \ {p}
        /\ UNCHANGED <<entries, decision>>
    BY <1>4 DEF LocalCaseCollision, store
  <2>2. cur'.local = p
    BY <1>4 DEF LocalCaseCollision
  <2> QED
    BY <2>1, <2>2 DEF FreshInv, Parked
<1>5. ASSUME NEW p \in Paths, RecordContentConflict(p) PROVE FreshInv'
  <2>1. phase = "resolve" /\ todo' = todo \ {p} /\ UNCHANGED entries
    BY <1>5 DEF RecordContentConflict
  <2>2. phase' = "resolve" \/ (phase' = "park" /\ cur'.path = p)
    BY <1>5 DEF RecordContentConflict
  <2> QED
    BY <2>1, <2>2 DEF FreshInv, Parked
<1> QED
  BY <1>1, <1>2, <1>3, <1>4, <1>5

\* The operations, the end of the cycle and the users.
LEMMA RestKeepsFresh ==
  ASSUME TypeOK, FreshInv,
         \/ Plan \/ ExecuteStep \/ UpdateStatus \/ UpdateEntry \/ RecordRun \/ Interrupt \/ UserStep
         \/ (\E o \in ops : InsertOp(o)) \/ (\E p \in Paths : CaseCollisionRenameFails(p))
         \/ UNCHANGED vars
  PROVE  FreshInv'
<1>1. CASE ExecuteStep
  <2>1. phase' \in {"do", "postOk", "postFailed"}
    BY <1>1 DEF ExecuteStep, ExecuteLocalMkdir, ExecuteLocalDelete, ExecuteDownload,
                ExecuteUpload, ExecuteLocalRename, ExecuteRemoteRename, ExecuteFails, Exhausted,
                Attempting, Returned, LateError, Retry, Abandon
  <2> QED
    BY <2>1 DEF FreshInv
<1>2. CASE Plan \/ UpdateStatus \/ UpdateEntry \/ \E o \in ops : InsertOp(o)
  <2>1. phase' \in {"exec", "do", "entry"}
    BY <1>2 DEF Plan, UpdateStatus, UpdateEntry, InsertOp, OpDone
  <2> QED
    BY <2>1 DEF FreshInv
<1>3. CASE RecordRun \/ Interrupt \/ \E p \in Paths : CaseCollisionRenameFails(p)
  <2>1. phase' = "idle" /\ decision' = NoDecisions
    BY <1>3 DEF RecordRun, Interrupt, CaseCollisionRenameFails, EndCycle
  <2> QED
    BY <2>1 DEF FreshInv
<1>4. CASE UserStep \/ UNCHANGED vars
  <2>1. UNCHANGED <<phase, entries, decision, todo, cur>>
    BY <1>4 DEF UserStep, LocalEdit, RemoteEdit, ResolveConflict, store, found, vars
  <2> QED
    BY <2>1 DEF FreshInv, Parked
<1> QED
  BY <1>1, <1>2, <1>3, <1>4

\* Every step keeps the invariant.
LEMMA NextFreshInv == TypeOK /\ FreshInv /\ [Next]_vars => FreshInv'
BY ObserveKeepsFresh, ConflictKeepsFresh, RestKeepsFresh DEF Next, CycleStep, PathStep

\* A path is parked from the first conflict on: cycles that follow, and a cycle cut
\* short between the Conflict row and the entry, add no second one while it is.
THEOREM ParkedIsLeftAlone == Spec => NoConflictWhileParked
<1>1. Spec => [](TypeOK /\ FreshInv)
  BY TypeCorrect, InitFreshInv, NextFreshInv, PTL DEF Spec
<1>2. TypeOK /\ FreshInv /\ [Next]_vars =>
        [phase = "resolve" /\ phase' = "park" => entries[cur'.path].state # "PendingConflict"]_vars
  <2> SUFFICES ASSUME TypeOK, FreshInv, Next, phase = "resolve", phase' = "park"
               PROVE  entries[cur'.path].state # "PendingConflict"
    OBVIOUS
  <2>1. PICK p \in Paths : RecordContentConflict(p)
    <3>1. ~(StartCycle \/ Interrupt)
      BY DEF StartCycle, Interrupt, EndCycle
    <3>2. ~UserStep
      BY DEF UserStep, LocalEdit, RemoteEdit, ResolveConflict
    <3>3. ~ExecuteStep
      BY DEF ExecuteStep, ExecuteLocalMkdir, ExecuteLocalDelete, ExecuteDownload, ExecuteUpload,
             ExecuteLocalRename, ExecuteRemoteRename, ExecuteFails, Exhausted, Attempting
    <3>4. ~(\/ AdvanceCursor \/ LocalScan \/ CaseCollisionRow \/ CaseCollisionPark \/ LocalDone
            \/ CollisionsDone \/ ParkConflict \/ Plan \/ (\E o \in ops : InsertOp(o))
            \/ UpdateStatus \/ UpdateEntry \/ RecordRun)
      BY DEF AdvanceCursor, LocalScan, CaseCollisionRow, CaseCollisionPark, LocalDone,
             CollisionsDone, ParkConflict, Plan, InsertOp, UpdateStatus, UpdateEntry, RecordRun
    <3>5. \E p \in Paths : PathStep(p)
      BY <3>1, <3>2, <3>3, <3>4 DEF Next, CycleStep
    <3> QED
      BY <3>5 DEF PathStep, DeltaItem, LocalItem, LocalCaseCollision, CaseCollisionRenameFails,
                  InitialSyncCollision
  <2>2. p \in todo /\ cur'.path = p
    BY <2>1 DEF RecordContentConflict
  <2> QED
    BY <2>2 DEF FreshInv, Parked
<1> QED
  BY <1>1, <1>2, PTL DEF Spec, NoConflictWhileParked

-----------------------------------------------------------------------------
Transfer == {"Download", "Upload", "LocalMkdir", "RemoteMkdir", "ConflictDetected"}

OneSpelling(P) == \A p, q \in P : Fold[p] = Fold[q] => p = q

Seen == {p \in Paths : Present(scan[p])}

\* The items of the page and those of the local folder have one spelling each, and
\* a local file is transferred only if the page has no other spelling of its name.
NameInv ==
  /\ OneSpelling({p \in Paths : disk[p] # Gone}) /\ OneSpelling(live) /\ OneSpelling(Seen)
  /\ phase \in {"idle", "delta", "scan"} => Seen = {}
  /\ phase = "idle" => live = {}
  /\ phase = "delta" => OneSpelling(live \cup todo)
  /\ phase \in {"local", "ccRow", "ccPark"} => todo \subseteq Seen
  /\ \A p \in Paths : decision[p] \in Transfer =>
       p \in live \/ (p \in Seen /\ OneSpelling(live \cup {p}))
  /\ phase = "idle" => decision = NoDecisions

\* Initially the folder is as it was when the pair was added.
LEMMA InitNameInv == Init /\ ~CaseSensitive => NameInv
<1> SUFFICES ASSUME Init, ~CaseSensitive PROVE NameInv
  OBVIOUS
<1>1. Seen = {}
  BY DEF Init, Seen, NoSides, Present, Absent
<1>2. OneSpelling({p \in Paths : disk[p] # Gone})
  BY FoldersAssumption DEF Init, OneSpelling
<1> QED
  BY <1>1, <1>2 DEF Init, NameInv, OneSpelling, NoDecisions, Transfer

\* On a case-insensitive volume a name leads to its only spelling.
LEMMA AtIsOnly ==
  ASSUME ~CaseSensitive, OneSpelling({p \in Paths : disk[p] # Gone}), NEW p \in Paths
  PROVE  /\ Fold[At(p)] = Fold[p]
         /\ \A q \in Paths : disk[q] # Gone /\ Fold[q] = Fold[p] => q = At(p)
<1> DEFINE same == {q \in Paths : Fold[q] = Fold[p] /\ disk[q] # Gone}
<1>1. CASE disk[p] # Gone
  BY <1>1 DEF At, OneSpelling
<1>2. CASE disk[p] = Gone /\ same = {}
  BY <1>2 DEF At
<1>3. CASE disk[p] = Gone /\ same # {}
  <2>1. At(p) = CHOOSE q \in same : TRUE
    BY <1>3 DEF At
  <2>2. At(p) \in same
    BY <1>3, <2>1
  <2> QED
    BY <2>2 DEF OneSpelling
<1> QED
  BY <1>1, <1>2, <1>3

\* Writing and renaming files keep one spelling of every name.
LEMMA DiskStaysSpelled ==
  ASSUME ~CaseSensitive, OneSpelling({p \in Paths : disk[p] # Gone}), NEW p \in Paths,
         \A q \in Paths : disk'[q] # Gone => disk[q] # Gone \/ q = At(p)
  PROVE  OneSpelling({q \in Paths : disk[q] # Gone})'
<1>1. Fold[At(p)] = Fold[p] /\ \A q \in Paths : disk[q] # Gone /\ Fold[q] = Fold[p] => q = At(p)
  BY AtIsOnly
<1> SUFFICES ASSUME NEW q \in Paths, NEW r \in Paths, disk'[q] # Gone, disk'[r] # Gone,
                    Fold[q] = Fold[r]
             PROVE  q = r
  BY DEF OneSpelling
<1> QED
  BY <1>1 DEF OneSpelling

\* A step that leaves the locals of the cycle alone.
LEMMA SameNames ==
  ASSUME TypeOK, NameInv, OneSpelling({p \in Paths : disk[p] # Gone})',
         UNCHANGED <<live, scan>>,
         \A p \in Paths : decision'[p] \in Transfer => decision[p] \in Transfer,
         phase' \in {"idle", "delta", "scan"} => phase' = phase,
         phase' = "idle" => decision' = NoDecisions,
         phase' = "delta" => todo' \subseteq todo,
         phase' \in {"local", "ccRow", "ccPark"} =>
           phase \in {"local", "ccRow", "ccPark"} /\ todo' \subseteq todo
  PROVE  NameInv'
<1>1. Seen' = Seen
  BY DEF Seen
<1> QED
  BY <1>1 DEF NameInv, OneSpelling

\* What the page shows has one spelling, and only what it shows is transferred.
LEMMA DeltaKeepsNames ==
  ASSUME TypeOK, NameInv, StartCycle \/ AdvanceCursor \/ (\E p \in Paths : DeltaItem(p))
  PROVE  NameInv'
<1>1. CASE StartCycle
  <2>1. /\ phase = "idle" /\ phase' = "delta" /\ UNCHANGED <<disk, live, decision, scan>>
    BY <1>1 DEF StartCycle, world
  <2>2. PICK named, double :
          /\ named \in SUBSET RelPaths
          /\ todo' = named \ detect_remote_case_collisions(named, double)
    BY <1>1, Zenon DEF StartCycle
  <2>3. OneSpelling(named \ detect_remote_case_collisions(named, double))
    <3>1. \A p, q \in named : Rank[p] \in Nat /\ Rank[q] \in Nat /\ (Rank[p] = Rank[q] => p = q)
      BY <2>2, PathsAssumption
    <3>2. \A p, q \in named \ detect_remote_case_collisions(named, double) :
            Fold[p] = Fold[q] => ~(Rank[p] < Rank[q]) /\ ~(Rank[q] < Rank[p])
      BY DEF detect_remote_case_collisions, case_folds_equal
    <3>3. \A p, q \in named \ detect_remote_case_collisions(named, double) :
            Fold[p] = Fold[q] => Rank[p] = Rank[q]
      BY <3>1, <3>2
    <3> QED
      BY <3>1, <3>3 DEF OneSpelling
  <2>4. Seen' = Seen
    BY <2>1 DEF Seen
  <2> QED
    BY <2>1, <2>2, <2>3, <2>4 DEF NameInv, OneSpelling
<1>2. CASE AdvanceCursor
  <2>1. phase = "delta" /\ phase' = "scan" /\ UNCHANGED <<disk, live, decision, scan>>
    BY <1>2 DEF AdvanceCursor, world, found
  <2>2. Seen' = Seen
    BY <2>1 DEF Seen
  <2> QED
    BY <2>1, <2>2 DEF NameInv, OneSpelling
<1>3. ASSUME NEW p \in Paths, DeltaItem(p) PROVE NameInv'
  <2>1. /\ phase = "delta" /\ phase' = "delta" /\ p \in todo /\ todo' = todo \ {p}
        /\ UNCHANGED <<disk, scan>> /\ decision \in [Paths -> DecisionKind \cup {"none"}]
        /\ entries[p] \in Entry /\ snap[p] \in Side
    BY <1>3 DEF DeltaItem, world, TypeOK, FoundType, StoreType
  <2>2. Seen' = Seen
    BY <2>1 DEF Seen
  <2>3. CASE UNCHANGED <<decision, live>>
    BY <2>1, <2>2, <2>3 DEF NameInv, OneSpelling
  <2>4. CASE /\ live' = IF Present(snap[p]) THEN live \cup {p} ELSE live
             /\ decision' = [decision EXCEPT ![p] = reconcile_kind(entries[p], snap[p])]
    <3>1. ~Present(snap[p]) => reconcile_kind(entries[p], snap[p]) \notin Transfer
      BY DEF reconcile_kind, Transfer
    <3>2. live \subseteq live' /\ live' \subseteq live \cup {p}
      BY <2>4
    <3>3. OneSpelling(live' \cup todo') /\ OneSpelling(live')
      BY <2>1, <3>2 DEF NameInv, OneSpelling
    <3>4. \A q \in Paths : decision'[q] \in Transfer => q \in live'
      BY <2>1, <2>4, <3>1, <3>2 DEF NameInv
    <3> QED
      BY <2>1, <2>2, <3>3, <3>4 DEF NameInv
  <2> QED
    BY <1>3, <2>3, <2>4 DEF DeltaItem
<1> QED
  BY <1>1, <1>2, <1>3

\* The local phase transfers what it has seen unless the page has another spelling.
LEMMA LocalKeepsNames ==
  ASSUME TypeOK, NameInv, ~CaseSensitive,
         LocalScan \/ LocalDone \/ (\E p \in Paths : LocalItem(p) \/ LocalCaseCollision(p))
  PROVE  NameInv'
<1>1. CASE LocalScan
  <2>1. /\ phase = "scan" /\ phase' = "local" /\ UNCHANGED <<disk, live, decision>>
        /\ scan' = [p \in Paths |-> local_side(disk[p])]
        /\ todo' \subseteq {p \in Paths : disk[p] # Gone}
    BY <1>1, PathsAssumption DEF LocalScan, world
  <2>2. Seen' = {p \in Paths : disk[p] # Gone}
    <3>1. \A p \in Paths : Present(local_side(disk[p])) <=> disk[p] # Gone
      BY ContentsAssumption DEF TypeOK, WorldType, local_side, Present, Absent
    <3> QED
      BY <2>1, <3>1 DEF Seen
  <2> QED
    BY <2>1, <2>2 DEF NameInv, OneSpelling
<1>2. CASE LocalDone
  <2>1. phase' = "collide" /\ UNCHANGED <<disk, live, decision, scan>>
    BY <1>2 DEF LocalDone, world, found
  <2> QED
    BY <2>1, SameNames DEF NameInv
<1>3. ASSUME NEW p \in Paths, LocalItem(p) PROVE NameInv'
  <2>1. /\ phase = "local" /\ phase' = "local" /\ p \in todo /\ todo' = todo \ {p}
        /\ UNCHANGED <<disk, live, scan>> /\ find_case_collision(p) = {}
    BY <1>3 DEF LocalItem, world
  <2>2. Seen' = Seen /\ p \in Seen
    BY <2>1 DEF Seen, NameInv
  <2>3. OneSpelling(live \cup {p})
    BY <2>1 DEF NameInv, OneSpelling, find_case_collision, case_folds_equal
  <2>4. \A q \in Paths \ {p} : decision'[q] = decision[q]
    BY <1>3 DEF LocalItem, TypeOK, FoundType
  <2>5. \A q \in Paths : decision'[q] \in Transfer =>
          q \in live \/ (q \in Seen /\ OneSpelling(live \cup {q}))
    BY <2>2, <2>3, <2>4 DEF NameInv
  <2> QED
    BY <2>1, <2>2, <2>5 DEF NameInv
<1>4. ASSUME NEW p \in Paths, LocalCaseCollision(p) PROVE NameInv'
  <2>1. /\ phase = "local" /\ phase' = "ccRow" /\ todo' \subseteq todo
        /\ UNCHANGED <<live, scan, decision>> /\ disk' = renamed_disk(p, CaseTarget[p])
    BY <1>4 DEF LocalCaseCollision
  <2>2. CaseTarget[p] \in Paths /\ disk \in [Paths -> Items]
    BY PathsAssumption DEF TypeOK, WorldType
  <2>3. \A q \in Paths : disk'[q] # Gone => disk[q] # Gone \/ q = At(CaseTarget[p])
    BY <2>1, <2>2 DEF renamed_disk
  <2>4. OneSpelling({q \in Paths : disk[q] # Gone})'
    BY <2>2, <2>3, DiskStaysSpelled DEF NameInv
  <2> QED
    BY <2>1, <2>4, SameNames
<1> QED
  BY <1>1, <1>2, <1>3, <1>4

\* Collisions, conflicts and the bookkeeping add no transfer.
LEMMA PhasesKeepNames ==
  ASSUME TypeOK, NameInv,
         \/ CaseCollisionRow \/ CaseCollisionPark \/ CollisionsDone \/ ParkConflict \/ Plan
         \/ UpdateStatus \/ UpdateEntry
         \/ (\E o \in ops : InsertOp(o))
         \/ (\E p \in Paths : InitialSyncCollision(p) \/ RecordContentConflict(p))
  PROVE  NameInv'
<1>1. UNCHANGED <<disk, live, scan>>
  BY DEF CaseCollisionRow, CaseCollisionPark, CollisionsDone, ParkConflict, Plan, UpdateStatus,
         UpdateEntry, InsertOp, InitialSyncCollision, RecordContentConflict, world, found
<1>2. OneSpelling({p \in Paths : disk[p] # Gone})'
  BY <1>1 DEF NameInv
<1>3. \A p \in Paths : decision'[p] \in Transfer => decision[p] \in Transfer
  <2>1. CASE UNCHANGED decision
    BY <2>1
  <2>2. ASSUME NEW p \in Paths, InitialSyncCollision(p) \/ RecordContentConflict(p)
        PROVE  \A q \in Paths : decision'[q] \in Transfer => decision[q] \in Transfer
    BY <2>2 DEF InitialSyncCollision, RecordContentConflict, TypeOK, FoundType, Transfer
  <2> QED
    BY <2>1, <2>2 DEF CaseCollisionRow, CaseCollisionPark, CollisionsDone, ParkConflict, Plan,
                      UpdateStatus, UpdateEntry, InsertOp, found
<1>4. /\ phase' \notin {"idle", "delta", "scan"}
      /\ phase' \in {"local", "ccRow", "ccPark"} =>
           phase \in {"local", "ccRow", "ccPark"} /\ todo' \subseteq todo
  BY DEF CaseCollisionRow, CaseCollisionPark, CollisionsDone, ParkConflict, Plan, UpdateStatus,
         OpDone, UpdateEntry, InsertOp, InitialSyncCollision, RecordContentConflict
<1> QED
  BY <1>1, <1>2, <1>3, <1>4, SameNames

\* The operations write to the disk through the names it has.
LEMMA ExecuteKeepsNames ==
  ASSUME TypeOK, NameInv, ~CaseSensitive, ExecuteStep
  PROVE  NameInv'
<1>1. /\ UNCHANGED <<live, scan, decision>> /\ phase' \in {"do", "postOk", "postFailed"}
      /\ phase = "do"
  BY DEF ExecuteStep, ExecuteLocalMkdir, ExecuteLocalDelete, ExecuteDownload,
         ExecuteUpload, ExecuteLocalRename, ExecuteRemoteRename, ExecuteFails, Exhausted,
         Attempting, Returned, LateError, Retry, Abandon, Executed, found
<1>2. /\ op.path \in Paths /\ Loser(op.path, run) \in Paths /\ disk \in [Paths -> Items]
  BY <1>1, PathsAssumption, BoundsAssumption DEF TypeOK, WorldType, FoundType, ExecType, Op
<1>3. \E p \in Paths : \A q \in Paths : disk'[q] # Gone => disk[q] # Gone \/ q = At(p)
  <2>1. CASE disk' = disk
    BY <1>2, <2>1
  <2>2. CASE \E c : disk' = [disk EXCEPT ![At(op.path)] = c]
    BY <1>2, <2>2
  <2>3. CASE disk' = renamed_disk(op.path, Loser(op.path, run))
    BY <1>2, <2>3 DEF renamed_disk
  <2> QED
    BY <2>1, <2>2, <2>3 DEF ExecuteStep, ExecuteLocalMkdir, ExecuteLocalDelete, ExecuteDownload,
         ExecuteUpload, ExecuteLocalRename, ExecuteRemoteRename, ExecuteFails, Exhausted, world
<1>4. OneSpelling({q \in Paths : disk[q] # Gone})'
  BY <1>3, DiskStaysSpelled DEF NameInv
<1> QED
  BY <1>1, <1>4, SameNames

\* The end of the cycle and the users.
LEMMA RestKeepsNames ==
  ASSUME TypeOK, NameInv, ~CaseSensitive,
         \/ RecordRun \/ Interrupt \/ UserStep \/ UNCHANGED vars
         \/ (\E p \in Paths : CaseCollisionRenameFails(p))
  PROVE  NameInv'
<1>1. CASE RecordRun \/ Interrupt \/ \E p \in Paths : CaseCollisionRenameFails(p)
  <2>1. /\ disk' = disk /\ phase' = "idle" /\ decision' = NoDecisions /\ live' = {}
        /\ scan' = NoSides
    BY <1>1 DEF RecordRun, Interrupt, CaseCollisionRenameFails, EndCycle, world
  <2>2. Seen' = {}
    BY <2>1 DEF Seen, NoSides, Present, Absent
  <2> QED
    BY <2>1, <2>2 DEF NameInv, OneSpelling, NoDecisions, Transfer
<1>2. CASE UserStep \/ UNCHANGED vars
  <2>1. UNCHANGED <<phase, live, scan, decision, todo>>
    BY <1>2 DEF UserStep, LocalEdit, RemoteEdit, ResolveConflict, found, vars
  <2>2. OneSpelling({q \in Paths : disk[q] # Gone})'
    <3>1. CASE disk' = disk
      BY <3>1 DEF NameInv
    <3>2. ASSUME NEW p \in UserPaths, NEW c \in UserItems, LocalEdit(p, c)
          PROVE  OneSpelling({q \in Paths : disk[q] # Gone})'
      <4>1. p \in Paths /\ disk \in [Paths -> Items]
        BY PathsAssumption DEF TypeOK, WorldType
      <4>2. \A q \in Paths : disk'[q] # Gone => disk[q] # Gone \/ q = At(p)
        BY <3>2, <4>1 DEF LocalEdit
      <4> QED
        BY <4>1, <4>2, DiskStaysSpelled DEF NameInv
    <3> QED
      BY <1>2, <3>1, <3>2 DEF UserStep, RemoteEdit, ResolveConflict, vars, world
  <2>3. phase' = "idle" => decision' = NoDecisions
    BY <2>1 DEF NameInv
  <2> QED
    BY <2>1, <2>2, <2>3, SameNames
<1> QED
  BY <1>1, <1>2

\* Every step keeps the invariant.
LEMMA NextNameInv == TypeOK /\ ~CaseSensitive /\ NameInv /\ [Next]_vars => NameInv'
BY DeltaKeepsNames, LocalKeepsNames, PhasesKeepNames, ExecuteKeepsNames, RestKeepsNames
   DEF Next, CycleStep, PathStep

\* On a case-insensitive volume the two spellings of a name never overwrite each
\* other's file within a cycle.
THEOREM NoNameTwice == Spec => []OneTransferPerName
<1>1. CASE CaseSensitive
  <2>1. OneTransferPerName
    BY <1>1 DEF OneTransferPerName
  <2> QED
    BY <2>1, PTL
<1>2. CASE ~CaseSensitive
  <2>1. Spec => []NameInv
    <3>1. Init => NameInv
      BY <1>2, InitNameInv
    <3>2. TypeOK /\ NameInv /\ [Next]_vars => NameInv'
      BY <1>2, NextNameInv
    <3> QED
      BY <3>1, <3>2, TypeCorrect, PTL DEF Spec
  <2>2. NameInv => OneTransferPerName
    BY DEF NameInv, OneSpelling, OneTransferPerName, Transfer
  <2> QED
    BY <2>1, <2>2, PTL
<1> QED
  BY <1>1, <1>2

-----------------------------------------------------------------------------
\* The step renames a file onto the one at p.  The code does not look: the name of a
\* conflict copy carries the second of the conflict, that of a case collision a hash.
Replaces(p) ==
  \/ \E q \in Paths : LocalCaseCollision(q) /\ p = At(CaseTarget[q])
  \/ ExecuteLocalRename /\ p = At(Loser(op.path, run))

\* No rename replaces a file.
NamesAreFree == [][\A p \in Paths : disk[p] \in Contents => ~Replaces(p)]_vars

\* The names that lead to the same file.
Alias(q, p) == IF CaseSensitive THEN q = p ELSE Fold[q] = Fold[p]

\* Whatever is at p has been put there by the user during the cycle.
Vacated(p) == \A q \in Paths : Alias(q, p) /\ disk[q] \in Contents => q \in touched

LocalRenameOp(p) == [kind |-> "LocalRename", path |-> p, id |-> 0, stage |-> 4]

ToRename(p) == LocalRenameOp(p) \in ops

ToFetch(p) == \E o \in ops : o.kind = "Download" /\ o.stage = 4 /\ o.path = p

\* The first operation of a conflict has been taken, the second has not.
Halfway(p) == ToFetch(p) /\ ~ToRename(p)

Moved(p) ==
  [run |-> run, kind |-> "LocalRename", path |-> p, status |-> "Success"] \in opRows

Gathering == {"delta", "scan", "local", "ccRow", "ccPark", "collide"}

Performing == {"do", "postOk", "postFailed", "entry"}

\* The operations of a conflict: no path has two, none has been taken before the plan.
OpsInv ==
  /\ \A o \in renames : o.kind = "RemoteRename"
  /\ phase \in Gathering \cup {"idle"} => ops = {}
  /\ \A o \in ops : /\ o.kind = "LocalRename" => o = LocalRenameOp(o.path)
                    /\ o.kind = "Download" /\ o.id # 0 => o.stage = 4
  /\ \A o, b \in ops : /\ o.kind = "Download" /\ o.stage = 4 /\ b.kind = "Download" /\ b.stage = 4
                       /\ o.path = b.path
                       => o = b
  /\ phase \in {"resolve", "park"} => \A o \in ops : o.path \notin todo /\ ToRename(o.path)
  /\ phase = "park" => \A o \in ops : o.path # cur.path

\* The two operations of a conflict follow each other.
OrderInv ==
  /\ phase = "exec" => \A p, q \in Paths : Halfway(p) /\ Halfway(q) => p = q
  /\ phase = "exec" => \A p \in Paths : Halfway(p) => \A o \in ops : o.stage >= 4
  /\ phase \in Performing =>
       \A p \in Paths : Halfway(p) => op.kind = "LocalRename" /\ op.path = p
  /\ phase \in Performing /\ op.kind = "LocalRename" =>
       (\A o \in ops : o.stage >= 4) /\ ~ToRename(op.path)

\* Once its LocalRename has succeeded a path stays free for the Download.
FreeInv ==
  /\ phase \in Gathering \cup {"resolve", "park"} => \A p \in Paths : ~Moved(p)
  /\ \A p \in Paths : Moved(p) => ~ToRename(p)
  /\ phase \in {"do", "postOk", "postFailed"} /\ op.kind = "LocalRename" => ~Moved(op.path)
  /\ phase \in {"postOk", "entry"} /\ op.kind = "LocalRename" => Vacated(op.path)
  /\ phase \in {"exec", "entry"} => \A p \in Paths : Moved(p) /\ ToFetch(p) => Vacated(p)
  /\ phase = "do" /\ op.kind = "Download" /\ op.id # 0 /\ attempt = 0 /\ Moved(op.path) =>
       Vacated(op.path)

KeepInv == OpsInv /\ OrderInv /\ FreeInv

\* A cycle without operations yet, or no cycle.
LEMMA NoOps ==
  ASSUME ops' = {}, \A o \in renames' : o.kind = "RemoteRename"
  PROVE  OpsInv'
BY DEF OpsInv

\* Operations are taken from the list.
LEMMA FewerOps ==
  ASSUME OpsInv, ops' \subseteq ops, renames' = renames,
         phase' \in {"exec", "do", "postOk", "postFailed", "entry"}
  PROVE  OpsInv'
BY DEF OpsInv, Gathering

\* A conflict brings its two operations, for a path that has none.
LEMMA ParkKeepsOps ==
  ASSUME TypeOK, FreshInv, OpsInv, ParkConflict
  PROVE  OpsInv'
<1>1. /\ phase = "park" /\ phase' = "resolve" /\ UNCHANGED <<todo, renames>>
      /\ cur.path \in Paths /\ entries[cur.path].remote.id \in Nat
  BY DEF ParkConflict, TypeOK, StoreType, FoundType, Raised, Entry, Side
<1> DEFINE p == cur.path
           id == entries[cur.path].remote.id
<1>2. p \notin todo
  BY <1>1 DEF FreshInv
<1>3. CASE ops' = ops
  BY <1>1, <1>3 DEF OpsInv, Gathering, ToRename
<1>4. CASE ops' = ops \cup remote_winner_conflict_ops(p, id)
  <2>1. \A o \in ops' : \/ o \in ops \/ o = LocalRenameOp(p)
                        \/ o = [kind |-> "Download", path |-> p, id |-> id, stage |-> 4]
    BY <1>4 DEF remote_winner_conflict_ops, LocalRenameOp
  <2>2. LocalRenameOp(p) \in ops' /\ ops \subseteq ops'
    BY <1>4 DEF remote_winner_conflict_ops, LocalRenameOp
  <2>3. \A o \in ops : o.path # p
    BY <1>1 DEF OpsInv
  <2>4. \A o \in ops' : /\ o.kind = "LocalRename" => o = LocalRenameOp(o.path)
                        /\ o.kind = "Download" /\ o.id # 0 => o.stage = 4
    BY <2>1 DEF OpsInv, LocalRenameOp
  <2>5. \A o \in ops' : o.path = p => o \notin ops
    BY <2>3
  <2>6. \A o, b \in ops' : /\ o.kind = "Download" /\ o.stage = 4 /\ b.kind = "Download"
                           /\ b.stage = 4 /\ o.path = b.path
                           => o = b
    <3> SUFFICES ASSUME NEW o \in ops', NEW b \in ops', o.kind = "Download", o.stage = 4,
                        b.kind = "Download", b.stage = 4, o.path = b.path
                 PROVE  o = b
      OBVIOUS
    <3>1. o.kind # "LocalRename" /\ b.kind # "LocalRename"
      OBVIOUS
    <3>2. o # LocalRenameOp(p) /\ b # LocalRenameOp(p)
      BY <3>1 DEF LocalRenameOp
    <3>3. CASE o.path = p
      BY <2>1, <2>3, <3>2, <3>3
    <3>4. CASE o.path # p
      <4>1. o \in ops /\ b \in ops
        BY <2>1, <3>2, <3>4
      <4> QED
        BY <4>1 DEF OpsInv
    <3> QED
      BY <3>3, <3>4
  <2>7. \A o \in ops' : o.path \notin todo /\ LocalRenameOp(o.path) \in ops'
    <3>1. \A o \in ops' : o \in ops \/ o.path = p
      BY <2>1 DEF LocalRenameOp
    <3>2. \A o \in ops : o.path \notin todo /\ LocalRenameOp(o.path) \in ops
      BY <1>1 DEF OpsInv, ToRename
    <3> QED
      BY <1>2, <2>2, <3>1, <3>2
  <2> QED
    BY <1>1, <2>4, <2>6, <2>7 DEF OpsInv, Gathering, ToRename
<1> QED
  BY <1>3, <1>4 DEF ParkConflict

\* The plan adds no operation of a conflict.
LEMMA PlanKeepsOps ==
  ASSUME TypeOK, OpsInv, Plan
  PROVE  OpsInv' /\ \A o \in ops' : o.kind = "Download" /\ o.stage = 4 => o \in ops
<1>1. \A o \in plan : o.kind # "LocalRename" /\ o.stage # 4 /\ o.id = 0
  BY DEF plan, plan_rank, PlannedKind
<1>2. phase' = "exec" /\ ops' = plan \cup ops \cup renames /\ renames' = renames
  BY DEF Plan, found
<1>3. \A o \in renames : o.kind = "RemoteRename"
  BY DEF OpsInv
<1>4. \A o \in ops' : o.kind \in {"LocalRename", "Download"} => o \in ops \/ o \in plan
  BY <1>2, <1>3
<1>5. \A o \in ops' : o.kind = "Download" /\ o.stage = 4 => o \in ops
  BY <1>1, <1>4
<1>6. \A o \in ops' : /\ o.kind = "LocalRename" => o = LocalRenameOp(o.path)
                      /\ o.kind = "Download" /\ o.id # 0 => o.stage = 4
  BY <1>1, <1>4 DEF OpsInv
<1>7. \A o, b \in ops' : /\ o.kind = "Download" /\ o.stage = 4 /\ b.kind = "Download"
                         /\ b.stage = 4 /\ o.path = b.path
                         => o = b
  BY <1>5 DEF OpsInv
<1> QED
  BY <1>2, <1>3, <1>5, <1>6, <1>7 DEF OpsInv, Gathering

\* Every step keeps the operations of the conflicts apart.
LEMMA NextOpsInv == TypeOK /\ FreshInv /\ OpsInv /\ [Next]_vars => OpsInv'
<1> SUFFICES ASSUME TypeOK, FreshInv, OpsInv, [Next]_vars PROVE OpsInv'
  OBVIOUS
<1>1. CASE StartCycle
  <2>1. ops' = {} /\ \A o \in renames' : o.kind = "RemoteRename"
    BY <1>1 DEF StartCycle, OpsInv, exec, process_remote_case_collisions, RemoteRenameOp
  <2> QED
    BY <2>1, NoOps
<1>2. ASSUME NEW p \in Paths, DeltaItem(p) PROVE OpsInv'
  <2>1. ops' = {} /\ \A o \in renames' : o \in renames \/ o.kind = "RemoteRename"
    BY <1>2 DEF DeltaItem, OpsInv, Gathering, exec, RemoteRenameOp
  <2> QED
    BY <2>1, NoOps DEF OpsInv
<1>3. CASE \/ AdvanceCursor \/ LocalScan \/ CaseCollisionRow \/ CaseCollisionPark \/ LocalDone
           \/ CollisionsDone
           \/ \E p \in Paths : LocalItem(p) \/ LocalCaseCollision(p) \/ InitialSyncCollision(p)
  <2>1. ops' = {} /\ renames' = renames
    BY <1>3 DEF AdvanceCursor, LocalScan, CaseCollisionRow, CaseCollisionPark, LocalDone,
                CollisionsDone, LocalItem, LocalCaseCollision, InitialSyncCollision, OpsInv,
                Gathering, exec, found
  <2> QED
    BY <2>1, NoOps DEF OpsInv
<1>4. ASSUME NEW p \in Paths, RecordContentConflict(p) PROVE OpsInv'
  <2>1. /\ phase = "resolve" /\ p \in todo /\ todo' = todo \ {p} /\ UNCHANGED <<ops, renames>>
        /\ phase' = "resolve" \/ (phase' = "park" /\ cur'.path = p)
    BY <1>4 DEF RecordContentConflict, exec
  <2> QED
    BY <2>1 DEF OpsInv, Gathering, ToRename
<1>5. CASE ParkConflict \/ Plan
  BY <1>5, ParkKeepsOps, PlanKeepsOps
<1>6. CASE ExecuteStep \/ UpdateStatus \/ UpdateEntry \/ \E o \in ops : InsertOp(o)
  <2>1. ops' \subseteq ops /\ renames' = renames
    BY <1>6 DEF ExecuteStep, ExecuteLocalMkdir, ExecuteLocalDelete, ExecuteDownload,
                ExecuteUpload, ExecuteLocalRename, ExecuteRemoteRename, ExecuteFails, Exhausted,
                Returned, LateError, Executed, UpdateStatus, OpDone, UpdateEntry, InsertOp,
                found, exec
  <2>2. phase' \in {"exec", "do", "postOk", "postFailed", "entry"}
    BY <1>6 DEF ExecuteStep, ExecuteLocalMkdir, ExecuteLocalDelete, ExecuteDownload,
                ExecuteUpload, ExecuteLocalRename, ExecuteRemoteRename, ExecuteFails, Exhausted,
                Attempting, Returned, LateError, Retry, Abandon, UpdateStatus, OpDone,
                UpdateEntry, InsertOp
  <2> QED
    BY <2>1, <2>2, FewerOps
<1>7. CASE RecordRun \/ Interrupt \/ \E p \in Paths : CaseCollisionRenameFails(p)
  <2>1. ops' = {} /\ renames' = {}
    BY <1>7 DEF RecordRun, Interrupt, CaseCollisionRenameFails, EndCycle
  <2> QED
    BY <2>1, NoOps
<1>8. CASE UserStep \/ UNCHANGED vars
  <2>1. UNCHANGED <<phase, ops, renames, todo, cur>>
    BY <1>8 DEF UserStep, LocalEdit, RemoteEdit, ResolveConflict, exec, found, vars
  <2> QED
    BY <2>1 DEF OpsInv, ToRename
<1> QED
  BY <1>1, <1>2, <1>3, <1>4, <1>5, <1>6, <1>7, <1>8 DEF Next, CycleStep, PathStep

\* The next operation is the second of the conflict that is half done, or begins
\* something else.
LEMMA TakesInOrder ==
  ASSUME TypeOK, OpsInv, OrderInv, phase = "exec", NEW o \in NextOps, ops' = ops \ {o}
  PROVE  /\ o \in ops
         /\ o.kind = "LocalRename" => o = LocalRenameOp(o.path) /\ \A b \in ops : b.stage >= 4
         /\ \A q \in Paths : Halfway(q)' => o = LocalRenameOp(q)
<1> DEFINE first == {b \in ops : \A c \in ops : b.stage <= c.stage}
           renamed == {b \in first : b.stage = 4 /\ b.kind = "Download" /\
                                     ~\E c \in first : c.path = b.path /\ c.kind = "LocalRename"}
           begin == {b \in first : b.stage = 4 => b.kind = "LocalRename"}
<1>0. \A b \in ops : b \in Op /\ b.path \in Paths /\ b.stage \in 1..5
  BY DEF TypeOK, ExecType, Op
<1>1. NextOps = IF renamed # {} THEN renamed ELSE begin
  BY DEF NextOps
<1>2. o \in first
  BY <1>1
<1>3. o \in ops
  BY <1>2
<1>4. o.kind = "LocalRename" => o = LocalRenameOp(o.path) /\ \A b \in ops : b.stage >= 4
  <2>1. o.kind = "LocalRename" => o.stage = 4
    BY <1>3 DEF OpsInv, LocalRenameOp
  <2> QED
    BY <1>0, <1>2, <1>3, <2>1 DEF OpsInv
<1>5. ASSUME NEW b \in renamed PROVE Halfway(b.path)
  <2>1. ToFetch(b.path)
    BY <1>5 DEF ToFetch
  <2>2. ASSUME ToRename(b.path) PROVE FALSE
    <3> DEFINE c == LocalRenameOp(b.path)
    <3>1. c \in ops /\ c.stage = 4 /\ c.path = b.path /\ c.kind = "LocalRename"
      BY <2>2 DEF ToRename, LocalRenameOp
    <3>2. c \in first
      BY <1>5, <3>1
    <3> QED
      BY <1>5, <3>1, <3>2
  <2> QED
    BY <2>1, <2>2 DEF Halfway
<1>6. ASSUME NEW q \in Paths, Halfway(q)' PROVE o = LocalRenameOp(q)
  <2>1. PICK d \in ops \ {o} : d.kind = "Download" /\ d.stage = 4 /\ d.path = q
    BY <1>6 DEF Halfway, ToFetch
  <2>2. ToFetch(q)
    BY <2>1 DEF ToFetch
  <2>3. CASE ToRename(q)
    BY <1>6, <2>3 DEF Halfway, ToRename
  <2>4. CASE ~ToRename(q)
    <3>1. Halfway(q)
      BY <2>2, <2>4 DEF Halfway
    <3>2. \A b \in ops : b.stage >= 4
      BY <3>1 DEF OrderInv
    <3>3. d \in first
      BY <1>0, <2>1, <3>2
    <3>4. ~\E c \in first : c.path = d.path /\ c.kind = "LocalRename"
      <4> SUFFICES ASSUME NEW c \in first, c.path = d.path, c.kind = "LocalRename" PROVE FALSE
        OBVIOUS
      <4>1. c \in ops /\ c = LocalRenameOp(q)
        BY <2>1 DEF OpsInv
      <4> QED
        BY <2>4, <4>1 DEF ToRename
    <3>5. d \in renamed
      BY <2>1, <3>3, <3>4
    <3>6. o \in renamed
      BY <1>1, <3>5
    <3>7. o.path = q
      BY <1>0, <1>3, <1>5, <3>1, <3>6 DEF OrderInv
    <3>8. o = d
      BY <1>3, <2>1, <3>6, <3>7 DEF OpsInv
    <3> QED
      BY <2>1, <3>8
  <2> QED
    BY <2>3, <2>4
<1> QED
  BY <1>3, <1>4, <1>6

\* Every step keeps the order of the operations of a conflict.
LEMMA NextOrderInv == TypeOK /\ OpsInv /\ OrderInv /\ [Next]_vars => OrderInv'
<1> SUFFICES ASSUME TypeOK, OpsInv, OrderInv, [Next]_vars PROVE OrderInv'
  OBVIOUS
<1>1. ASSUME NEW o \in ops, InsertOp(o) PROVE OrderInv'
  <2>1. /\ phase = "exec" /\ o \in NextOps /\ ops' = ops \ {o}
        /\ phase' = "exec" \/ (phase' = "do" /\ op' = o)
    BY <1>1 DEF InsertOp
  <2>2. /\ o.kind = "LocalRename" => o = LocalRenameOp(o.path) /\ \A b \in ops : b.stage >= 4
        /\ \A q \in Paths : Halfway(q)' => o = LocalRenameOp(q)
    BY <2>1, TakesInOrder
  <2>3. \A q \in Paths : Halfway(q)' => o.kind = "LocalRename" /\ o.path = q
    BY <2>2 DEF LocalRenameOp
  <2>4. o.kind = "LocalRename" => ~ToRename(o.path)'
    BY <2>1, <2>2 DEF ToRename
  <2>5. \A q \in Paths : Halfway(q)' => \A b \in ops' : b.stage >= 4
    BY <2>1, <2>2, <2>3
  <2>6. CASE phase' = "exec"
    BY <2>3, <2>5, <2>6 DEF OrderInv, Performing
  <2>7. CASE phase' = "do" /\ op' = o
    BY <2>1, <2>2, <2>3, <2>4, <2>7 DEF OrderInv, Performing, ToRename
  <2> QED
    BY <2>1, <2>6, <2>7
<1>2. CASE Plan
  <2>1. phase = "resolve" /\ phase' = "exec" /\ ops \subseteq ops'
    BY <1>2 DEF Plan
  <2>2. ASSUME NEW p \in Paths PROVE ~Halfway(p)'
    BY <1>2, <2>1, PlanKeepsOps DEF Halfway, ToFetch, ToRename, OpsInv
  <2> QED
    BY <2>1, <2>2 DEF OrderInv, Performing
<1>3. CASE ExecuteStep
  <2>1. UNCHANGED <<ops, op>> /\ phase = "do" /\ phase' \in {"do", "postOk", "postFailed"}
    BY <1>3 DEF ExecuteStep, ExecuteLocalMkdir, ExecuteLocalDelete, ExecuteDownload,
                ExecuteUpload, ExecuteLocalRename, ExecuteRemoteRename, ExecuteFails, Exhausted,
                Attempting, Returned, LateError, Retry, Abandon, Executed, exec
  <2> QED
    BY <2>1 DEF OrderInv, Performing, Halfway, ToFetch, ToRename
<1>4. CASE UpdateStatus \/ UpdateEntry
  <2>1. /\ UNCHANGED ops /\ phase \in Performing
        /\ phase' = "exec" \/ (phase' = "entry" /\ op' = op)
    BY <1>4 DEF UpdateStatus, UpdateEntry, OpDone, Performing
  <2> QED
    BY <2>1 DEF OrderInv, Performing, Halfway, ToFetch, ToRename
<1>5. CASE UserStep \/ UNCHANGED vars
  <2>1. UNCHANGED <<phase, ops, op>>
    BY <1>5 DEF UserStep, LocalEdit, RemoteEdit, ResolveConflict, exec, vars
  <2> QED
    BY <2>1 DEF OrderInv, Halfway, ToFetch, ToRename
<1>6. CASE phase' \notin Performing \cup {"exec"}
  BY <1>6 DEF OrderInv
<1>7. CASE \/ StartCycle \/ Interrupt \/ RecordRun \/ AdvanceCursor \/ LocalScan
           \/ CaseCollisionRow \/ CaseCollisionPark \/ LocalDone \/ CollisionsDone \/ ParkConflict
           \/ \E p \in Paths : PathStep(p)
  <2>1. phase' \notin Performing \cup {"exec"}
    <3>1. CASE \E p \in Paths : PathStep(p)
      BY <3>1 DEF PathStep, DeltaItem, LocalItem, LocalCaseCollision, CaseCollisionRenameFails,
                  InitialSyncCollision, RecordContentConflict, EndCycle, Performing
    <3>2. CASE \/ StartCycle \/ Interrupt \/ RecordRun \/ AdvanceCursor \/ LocalScan
               \/ CaseCollisionRow \/ CaseCollisionPark \/ LocalDone \/ CollisionsDone
               \/ ParkConflict
      BY <3>2 DEF StartCycle, Interrupt, RecordRun, EndCycle, AdvanceCursor, LocalScan,
                  CaseCollisionRow, CaseCollisionPark, LocalDone, CollisionsDone, ParkConflict,
                  Performing
    <3> QED
      BY <1>7, <3>1, <3>2
  <2> QED
    BY <1>6, <2>1
<1> QED
  BY <1>1, <1>2, <1>3, <1>4, <1>5, <1>7 DEF Next, CycleStep

\* The file a name leads to has a name of the same spelling.
LEMMA AtAlias ==
  ASSUME CaseSensitive \/ NameInv, NEW p \in Paths
  PROVE  Alias(At(p), p)
<1>1. CASE CaseSensitive
  BY <1>1 DEF At, Alias
<1>2. CASE ~CaseSensitive
  BY <1>2, AtIsOnly DEF NameInv, Alias
<1> QED
  BY <1>1, <1>2

\* A rename to another name leaves nothing behind.
LEMMA RenameVacates ==
  ASSUME CaseSensitive \/ NameInv, NEW p \in Paths, NEW l \in Paths, Fold[l] # Fold[p],
         disk \in [Paths -> Items], disk' = renamed_disk(p, l)
  PROVE  Vacated(p)'
<1>0. Alias(At(p), p) /\ Alias(At(l), l)
  BY AtAlias
<1>1. At(p) \in Paths /\ At(l) \in Paths /\ At(p) # At(l)
  BY <1>0, AtTyped DEF Alias
<1>2. \A q \in Paths : disk'[q] # Gone => q # At(p) /\ (disk[q] # Gone \/ q = At(l))
  BY <1>1 DEF renamed_disk
<1> SUFFICES ASSUME NEW q \in Paths, Alias(q, p), disk'[q] # Gone PROVE FALSE
  BY ContentsAssumption DEF Vacated
<1>3. CASE CaseSensitive
  BY <1>2, <1>3 DEF At, Alias
<1>4. CASE ~CaseSensitive
  <2>1. Fold[q] = Fold[p] /\ Fold[At(l)] = Fold[l]
    BY <1>0, <1>4 DEF Alias
  <2>2. \A r \in Paths : disk[r] # Gone /\ Fold[r] = Fold[p] => r = At(p)
    BY <1>4, AtIsOnly DEF NameInv
  <2> QED
    BY <1>2, <2>1, <2>2
<1> QED
  BY <1>3, <1>4

\* While an operation is performed no Download of a moved file is waiting.
LEMMA NoneWaits ==
  ASSUME OrderInv, FreeInv, phase \in {"do", "postOk", "postFailed"}, NEW p \in Paths, Moved(p)
  PROVE  ~ToFetch(p)
BY DEF OrderInv, FreeInv, Performing, Halfway

\* A step between the delta and the plan, in a cycle that has moved nothing.
LEMMA NothingMoved ==
  ASSUME \A p \in Paths : ~Moved(p)', phase' \notin Performing
  PROVE  FreeInv'
BY DEF FreeInv, Performing

\* The operations are begun.
LEMMA InsertKeepsFree ==
  ASSUME TypeOK, OpsInv, OrderInv, FreeInv, NEW o \in ops, InsertOp(o)
  PROVE  FreeInv'
<1>1. /\ phase = "exec" /\ o \in NextOps /\ ops' = ops \ {o}
      /\ UNCHANGED <<disk, touched, run>>
      /\ phase' = "exec" \/ (phase' = "do" /\ op' = o)
  BY DEF InsertOp, world
<1>2. o.path \in Paths
  BY DEF TypeOK, ExecType, Op
<1>3. \A p \in Paths : Moved(p)' => Moved(p)
  BY <1>1 DEF InsertOp, Moved
<1>4. \A p \in Paths : (ToRename(p)' => ToRename(p)) /\ (ToFetch(p)' => ToFetch(p))
  BY <1>1 DEF ToRename, ToFetch
<1>5. \A p \in Paths : Vacated(p) => Vacated(p)'
  BY <1>1 DEF Vacated
<1>6. CASE phase' = "exec"
  BY <1>1, <1>3, <1>4, <1>5, <1>6 DEF FreeInv, Gathering
<1>7. CASE phase' = "do" /\ op' = o
  <2>1. o.kind = "LocalRename" => ~Moved(o.path)
    BY <1>2 DEF OpsInv, FreeInv, ToRename
  <2>2. o.kind = "Download" /\ o.id # 0 /\ Moved(o.path) => Vacated(o.path)
    BY <1>1, <1>2 DEF OpsInv, FreeInv, ToFetch
  <2> QED
    BY <1>2, <1>3, <1>4, <1>5, <1>7, <2>1, <2>2 DEF FreeInv, Gathering
<1> QED
  BY <1>1, <1>6, <1>7

\* The operations are performed.
LEMMA ExecuteKeepsFree ==
  ASSUME TypeOK, CaseSensitive \/ NameInv, OrderInv, FreeInv, ExecuteStep
  PROVE  FreeInv'
<1>1. /\ UNCHANGED <<ops, op, opRows, run, touched>> /\ phase = "do"
      /\ phase' \in {"do", "postOk", "postFailed"}
  BY DEF ExecuteStep, ExecuteLocalMkdir, ExecuteLocalDelete, ExecuteDownload, ExecuteUpload,
         ExecuteLocalRename, ExecuteRemoteRename, ExecuteFails, Exhausted, Attempting, Returned,
         LateError, Retry, Abandon, Executed, store, exec, bound
<1>2. phase' = "do" => attempt' = attempt + 1
  BY <1>1 DEF ExecuteStep, ExecuteLocalMkdir, ExecuteLocalDelete, ExecuteDownload, ExecuteUpload,
         ExecuteLocalRename, ExecuteRemoteRename, ExecuteFails, Exhausted, Returned, LateError,
         Retry, Abandon
<1>3. attempt \in Nat /\ op.path \in Paths /\ disk \in [Paths -> Items]
      /\ Loser(op.path, run) \in Paths /\ Fold[Loser(op.path, run)] # Fold[op.path]
  BY <1>1, BoundsAssumption, PathsAssumption, LoserAssumption DEF TypeOK, WorldType, FoundType, ExecType, Op
<1>4. ASSUME phase' = "postOk", op.kind = "LocalRename" PROVE Vacated(op.path)'
  <2>1. ExecuteLocalRename
    BY <1>4 DEF ExecuteStep, ExecuteLocalMkdir, ExecuteLocalDelete, ExecuteDownload,
                ExecuteUpload, ExecuteRemoteRename, ExecuteFails, Exhausted, Attempting, Retry,
                Abandon
  <2>2. disk' = renamed_disk(op.path, Loser(op.path, run))
    BY <2>1 DEF ExecuteLocalRename
  <2>3. ASSUME NEW p \in Paths, p = op.path PROVE Vacated(p)'
    BY <1>3, <2>2, <2>3, RenameVacates
  <2> QED
    BY <1>1, <1>3, <2>3 DEF Vacated
<1>5. \A p \in Paths : (Moved(p)' <=> Moved(p)) /\ (ToRename(p)' <=> ToRename(p))
  BY <1>1 DEF Moved, ToRename
<1>6. phase' = "do" => attempt' # 0
  BY <1>2, <1>3
<1>7. op.kind = "LocalRename" => ~Moved(op.path)
  BY <1>1 DEF FreeInv
<1> QED
  BY <1>1, <1>3, <1>4, <1>5, <1>6, <1>7 DEF FreeInv, Gathering

\* Their rows and entries are written.
LEMMA BookkeepingKeepsFree ==
  ASSUME TypeOK, OrderInv, FreeInv, UpdateStatus \/ UpdateEntry
  PROVE  FreeInv'
<1>1. UNCHANGED <<ops, disk, touched, run>>
  BY DEF UpdateStatus, UpdateEntry, OpDone, world
<1>2. \A p \in Paths : /\ ToRename(p)' <=> ToRename(p)
                       /\ ToFetch(p)' <=> ToFetch(p)
                       /\ Vacated(p)' <=> Vacated(p)
  BY <1>1 DEF ToRename, ToFetch, Vacated
<1>3. phase \in Performing => op.path \in Paths
  BY DEF TypeOK, ExecType, Op, Performing
<1>4. CASE UpdateEntry
  <2>1. phase = "entry" /\ phase' = "exec" /\ UNCHANGED opRows
    BY <1>4 DEF UpdateEntry, OpDone
  <2>2. \A p \in Paths : Moved(p)' <=> Moved(p)
    BY <1>1, <2>1 DEF Moved
  <2> QED
    BY <1>2, <2>1, <2>2 DEF FreeInv, Gathering
<1>5. CASE UpdateStatus /\ phase = "postFailed"
  <2>1. phase' = "exec"
    BY <1>5 DEF UpdateStatus, OpDone
  <2>2. \A p \in Paths : Moved(p)' => Moved(p)
    BY <1>1, <1>5 DEF UpdateStatus, Moved
  <2>3. \A p \in Paths : Moved(p)' => ~ToFetch(p)
    BY <1>5, <2>2, NoneWaits
  <2> QED
    BY <1>2, <2>1, <2>2, <2>3 DEF FreeInv, Gathering
<1>6. CASE UpdateStatus /\ phase = "postOk"
  <2>1. phase' = "entry" /\ op' = op /\ op.path \in Paths
    BY <1>3, <1>6 DEF UpdateStatus, Performing
  <2>2. \A p \in Paths : Moved(p)' => Moved(p) \/ (op.kind = "LocalRename" /\ op.path = p)
    BY <1>1, <1>6 DEF UpdateStatus, Moved
  <2>3. op.kind = "LocalRename" => Vacated(op.path) /\ ~ToRename(op.path)
    BY <1>6 DEF FreeInv, OrderInv, Performing
  <2>4. \A p \in Paths : Moved(p) => ~ToFetch(p) /\ ~ToRename(p)
    BY <1>6, NoneWaits DEF FreeInv
  <2> QED
    BY <1>2, <2>1, <2>2, <2>3, <2>4 DEF FreeInv, Gathering
<1> QED
  BY <1>4, <1>5, <1>6 DEF UpdateStatus

\* Every step keeps the path of a moved file free.
LEMMA NextFreeInv ==
  ASSUME TypeOK, OutcomeInv, CaseSensitive \/ NameInv, OpsInv, OrderInv, FreeInv, [Next]_vars
  PROVE  FreeInv'
<1>1. CASE StartCycle
  <2>1. run' = run + 1 /\ UNCHANGED opRows /\ phase' = "delta" /\ run \in Nat
    BY <1>1, BoundsAssumption DEF StartCycle, store, TypeOK, FoundType
  <2>2. \A row \in opRows : row.run # run + 1
    <3>1. \A row \in opRows : row.run \in Nat /\ row.run <= run
      BY BoundsAssumption DEF OutcomeInv, TypeOK, StoreType, OpRow
    <3> QED
      BY <2>1, <3>1
  <2>3. \A p \in Paths : ~Moved(p)'
    BY <2>1, <2>2 DEF Moved
  <2> QED
    BY <2>1, <2>3, NothingMoved DEF Performing
<1>2. CASE \/ AdvanceCursor \/ LocalScan \/ CaseCollisionRow \/ CaseCollisionPark \/ LocalDone
           \/ CollisionsDone \/ ParkConflict \/ Plan
           \/ \E p \in Paths : \/ DeltaItem(p) \/ LocalItem(p) \/ LocalCaseCollision(p)
                               \/ InitialSyncCollision(p) \/ RecordContentConflict(p)
  <2>1. UNCHANGED <<opRows, run>> /\ phase \in Gathering \cup {"resolve", "park"}
    BY <1>2 DEF AdvanceCursor, LocalScan, CaseCollisionRow, CaseCollisionPark, LocalDone,
                CollisionsDone, ParkConflict, Plan, DeltaItem, LocalItem, LocalCaseCollision,
                InitialSyncCollision, RecordContentConflict, store, Gathering
  <2>2. phase' \notin Performing
    <3>1. CASE \E p \in Paths : \/ DeltaItem(p) \/ LocalItem(p) \/ LocalCaseCollision(p)
                               \/ InitialSyncCollision(p) \/ RecordContentConflict(p)
      BY <3>1 DEF DeltaItem, LocalItem, LocalCaseCollision, InitialSyncCollision,
                  RecordContentConflict, Performing
    <3>2. CASE \/ AdvanceCursor \/ LocalScan \/ CaseCollisionRow \/ CaseCollisionPark
               \/ LocalDone \/ CollisionsDone \/ ParkConflict \/ Plan
      BY <3>2 DEF AdvanceCursor, LocalScan, CaseCollisionRow, CaseCollisionPark, LocalDone,
                  CollisionsDone, ParkConflict, Plan, Performing
    <3> QED
      BY <1>2, <3>1, <3>2
  <2>3. \A p \in Paths : ~Moved(p)'
    BY <2>1 DEF FreeInv, Moved
  <2> QED
    BY <2>2, <2>3, NothingMoved
<1>3. ASSUME NEW o \in ops, InsertOp(o) PROVE FreeInv'
  BY <1>3, InsertKeepsFree
<1>4. CASE UNCHANGED vars
  <2>1. UNCHANGED <<phase, run, opRows, ops, op, attempt, disk, touched>>
    BY <1>4 DEF vars, world, store, exec, bound
  <2> QED
    BY <2>1 DEF FreeInv, Moved, ToRename, ToFetch, Vacated
<1>5. CASE ExecuteStep
  BY <1>4, <1>5, ExecuteKeepsFree
<1>6. CASE UpdateStatus \/ UpdateEntry
  BY <1>6, BookkeepingKeepsFree
<1>7. CASE RecordRun \/ Interrupt \/ \E p \in Paths : CaseCollisionRenameFails(p)
  <2>1. phase' = "idle" /\ ops' = {}
    BY <1>7 DEF RecordRun, Interrupt, CaseCollisionRenameFails, EndCycle
  <2> QED
    BY <2>1 DEF FreeInv, Gathering, ToRename
<1>8. CASE UserStep
  <2>1. UNCHANGED <<phase, run, opRows, ops, op, attempt>>
    BY <1>8 DEF UserStep, LocalEdit, RemoteEdit, ResolveConflict, store, exec
  <2>2. \A q \in Paths : disk'[q] = disk[q] \/ q \in touched'
    BY <1>8 DEF UserStep, LocalEdit, RemoteEdit, ResolveConflict, world, bound, TypeOK, WorldType
  <2>3. touched \subseteq touched'
    BY <1>8 DEF UserStep, LocalEdit, RemoteEdit, ResolveConflict, bound
  <2>4. \A p \in Paths : Vacated(p) => Vacated(p)'
    BY <2>2, <2>3 DEF Vacated
  <2>5. \A p \in Paths : /\ Moved(p)' <=> Moved(p)
                         /\ ToRename(p)' <=> ToRename(p)
                         /\ ToFetch(p)' <=> ToFetch(p)
    BY <2>1 DEF Moved, ToRename, ToFetch
  <2>6. phase \in Performing => op.path \in Paths
    BY DEF TypeOK, ExecType, Op, Performing
  <2> QED
    BY <2>1, <2>4, <2>5, <2>6 DEF FreeInv, Performing
<1> QED
  BY <1>1, <1>2, <1>3, <1>4, <1>5, <1>6, <1>7, <1>8 DEF Next, CycleStep, PathStep

\* Renaming a file keeps what it holds and what other files hold, but for the one it
\* replaces.
LEMMA RenameKeeps ==
  ASSUME NEW p \in Paths, NEW l \in Paths, disk \in [Paths -> Items], disk' = renamed_disk(p, l),
         NEW q \in Paths, disk'[q] # disk[q]
  PROVE  q = At(l) \/ \E r \in Paths : disk'[r] = disk[q]
<1>1. At(p) \in Paths /\ At(l) \in Paths
  BY AtTyped
<1>2. q # At(l) => q = At(p)
  BY <1>1 DEF renamed_disk
<1>3. disk'[At(l)] = disk[At(p)]
  BY <1>1 DEF renamed_disk
<1> QED
  BY <1>1, <1>2, <1>3

\* What LocalContentKept allows to happen to what is at p.
Kept(p) ==
  \/ \E q \in Paths : disk'[q] = disk[p]
  \/ op.kind = "LocalDelete"
  \/ op.kind = "Download" /\ (p \in touched \/ attempt > 0 \/ ~Moved(op.path))

\* What a step does to a local content that it does not leave in place.
LEMMA StepKeepsContent ==
  ASSUME TypeOK, CaseSensitive \/ NameInv, FreeInv, Next,
         NEW p \in Paths, disk[p] \in Contents, disk'[p] # disk[p], edits' = edits
  PROVE  Kept(p) \/ Replaces(p)
<1>0. disk \in [Paths -> Items] /\ edits \in Nat /\ attempt \in Nat
  BY BoundsAssumption DEF TypeOK, WorldType, ExecType
<1>1. CASE disk' = disk
  BY <1>1
<1>2. ASSUME NEW q \in Paths, LocalCaseCollision(q)
      PROVE  Kept(p) \/ Replaces(p)
  <2>1. CaseTarget[q] \in Paths /\ disk' = renamed_disk(q, CaseTarget[q])
    BY <1>2, PathsAssumption DEF LocalCaseCollision
  <2> QED
    BY <1>0, <1>2, <2>1, RenameKeeps DEF Kept, Replaces
<1>3. CASE ExecuteStep
  <2>0. phase = "do"
    BY <1>3 DEF ExecuteStep, ExecuteLocalMkdir, ExecuteLocalDelete, ExecuteDownload,
                ExecuteUpload, ExecuteLocalRename, ExecuteRemoteRename, ExecuteFails, Exhausted,
                Attempting
  <2>1. op.path \in Paths /\ At(op.path) \in Paths /\ Loser(op.path, run) \in Paths
    BY <2>0, AtTyped, PathsAssumption, BoundsAssumption DEF TypeOK, FoundType, ExecType, Op
  <2>2. CASE ExecuteLocalRename
    <3>1. disk' = renamed_disk(op.path, Loser(op.path, run))
      BY <2>2 DEF ExecuteLocalRename
    <3> QED
      BY <1>0, <2>1, <2>2, <3>1, RenameKeeps DEF Kept, Replaces
  <2>3. CASE ExecuteLocalMkdir
    BY <1>0, <2>1, <2>3, ContentsAssumption DEF ExecuteLocalMkdir
  <2>4. CASE ExecuteLocalDelete
    BY <2>4 DEF ExecuteLocalDelete, Attempting, Kept
  <2>5. CASE ExecuteDownload
    <3>1. op.kind = "Download" /\ op.id # 0 /\ p = At(op.path)
      BY <1>0, <2>1, <2>5 DEF ExecuteDownload, Attempting
    <3>2. Alias(p, op.path)
      BY <2>1, <3>1, AtAlias
    <3>3. attempt = 0 /\ Moved(op.path) => p \in touched
      BY <2>0, <3>1, <3>2 DEF FreeInv, Vacated
    <3> QED
      BY <1>0, <3>1, <3>3 DEF Kept
  <2>6. CASE ExecuteUpload \/ ExecuteRemoteRename \/ ExecuteFails \/ Exhausted
    BY <1>1, <2>6 DEF ExecuteUpload, ExecuteRemoteRename, ExecuteFails, Exhausted, world
  <2> QED
    BY <1>3, <2>2, <2>3, <2>4, <2>5, <2>6 DEF ExecuteStep
<1>4. CASE UserStep
  <2>1. \A q, c : ~LocalEdit(q, c)
    BY <1>0 DEF LocalEdit, Edit
  <2> QED
    BY <1>1, <1>4, <2>1 DEF UserStep, RemoteEdit, ResolveConflict, world
<1>5. CASE \/ StartCycle \/ Interrupt \/ RecordRun \/ AdvanceCursor \/ LocalScan
           \/ CaseCollisionRow \/ CaseCollisionPark \/ LocalDone \/ CollisionsDone \/ ParkConflict
           \/ Plan \/ UpdateStatus \/ UpdateEntry \/ (\E o \in ops : InsertOp(o))
           \/ \E q \in Paths : \/ DeltaItem(q) \/ LocalItem(q) \/ CaseCollisionRenameFails(q)
                               \/ InitialSyncCollision(q) \/ RecordContentConflict(q)
  BY <1>1, <1>5 DEF StartCycle, Interrupt, RecordRun, AdvanceCursor, LocalScan,
                CaseCollisionRow, CaseCollisionPark, LocalDone, CollisionsDone, ParkConflict,
                Plan, UpdateStatus, UpdateEntry, InsertOp, DeltaItem, LocalItem,
                CaseCollisionRenameFails, InitialSyncCollision, RecordContentConflict, world
<1> QED
  BY <1>2, <1>3, <1>4, <1>5 DEF Next, CycleStep, PathStep

\* Initially there is no operation.
LEMMA InitKeepInv == Init => KeepInv
BY DEF Init, KeepInv, OpsInv, OrderInv, FreeInv, Gathering, Performing, ToRename, ToFetch, Moved

KeptOrReplaced ==
  \A p \in Paths :
    disk[p] \in Contents /\ disk'[p] # disk[p] /\ edits' = edits => Kept(p) \/ Replaces(p)

\* Whatever the interleaving with the user, the faults and the crashes: the engine
\* removes the last local copy of a content only for a remote deletion, by a rename onto
\* an existing name, or by the Download of a conflict whose LocalRename is not recorded as
\* done, whose path the user wrote again, or that retries.
THEOREM ContentSurvives == Spec => [][KeptOrReplaced]_vars
<1>1. Spec => [](TypeOK /\ FreshInv)
  BY TypeCorrect, InitFreshInv, NextFreshInv, PTL DEF Spec
<1>2. Spec => []OutcomeInv
  BY TypeCorrect, InitOutcomeInv, NextOutcomeInv, PTL DEF Spec
<1>3. Spec => [](CaseSensitive \/ NameInv)
  <2>1. Init => CaseSensitive \/ NameInv
    BY InitNameInv
  <2>2. TypeOK /\ (CaseSensitive \/ NameInv) /\ [Next]_vars => (CaseSensitive \/ NameInv)'
    BY NextNameInv
  <2> QED
    BY <1>1, <2>1, <2>2, PTL DEF Spec
<1>4. TypeOK /\ FreshInv /\ OutcomeInv /\ (CaseSensitive \/ NameInv) /\ KeepInv /\ [Next]_vars
        => KeepInv'
  BY NextOpsInv, NextOrderInv, NextFreeInv DEF KeepInv
<1>5. Spec => []KeepInv
  BY <1>1, <1>2, <1>3, <1>4, InitKeepInv, PTL DEF Spec
<1>6. TypeOK /\ (CaseSensitive \/ NameInv) /\ KeepInv /\ [Next]_vars => [KeptOrReplaced]_vars
  BY StepKeepsContent DEF KeepInv, KeptOrReplaced
<1> QED
  BY <1>1, <1>3, <1>5, <1>6, PTL DEF Spec

\* In a behaviour in which no rename meets a file under the engine's name, as in those
\* the run checks, the property holds as stated.
THEOREM ContentKept == Spec /\ NamesAreFree => LocalContentKept
<1>1. [KeptOrReplaced]_vars /\ [\A p \in Paths : disk[p] \in Contents => ~Replaces(p)]_vars =>
        [\A p \in Paths :
           disk[p] \in Contents /\ disk'[p] # disk[p] /\ edits' = edits =>
             \/ \E q \in Paths : disk'[q] = disk[p]
             \/ op.kind = "LocalDelete"
             \/ /\ op.kind = "Download"
                /\ \/ p \in touched \/ attempt > 0
                   \/ [run |-> run, kind |-> "LocalRename", path |-> op.path,
                       status |-> "Success"] \notin opRows]_vars
  BY DEF KeptOrReplaced, Kept, Moved
<1> QED
  BY <1>1, ContentSurvives, PTL DEF NamesAreFree, LocalContentKept
=============================================================================
