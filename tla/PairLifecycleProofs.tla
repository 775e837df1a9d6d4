------------------------- MODULE PairLifecycleProofs -------------------------
(***************************************************************************)
(* The safety invariants of PairLifecycle, for any number of pairs,        *)
(* accounts, connections and tokens.  They are about the row in the store, *)
(* but a row is written back from a copy that some task read earlier, so   *)
(* the inductive invariant says of every copy in flight what it says of    *)
(* the row: CopiesOK.                                                      *)
(***************************************************************************)
EXTENDS PairLifecycle, TLAPS

\* Neither the retention nor the removal of its account has deleted the pair.  The
\* store refuses a copy of the row of a pair whose account is gone.
Lasting(p) == p \notin erased /\ AccountOf[p] \in accounts

\* A copy of pair p's row that may be written back at any time.
RowOK(p, r) ==
  /\ Lasting(p) => r.token <= seen[p]
  /\ r.status = "Active" => p \in resumed \cup complete

\* The pair of the running cycle and the token its delta has returned.
CycleOK ==
  /\ Lasting(cur) => Exists(cur) /\ token <= seen[cur]
  /\ token # 0 => cur \in complete

CopiesOK ==
  /\ \A p \in Pairs : RowOK(p, row[p])
  /\ \A p \in Pairs : RowOK(p, listed[p])
  /\ phase \in {"select", "down"} => copy = NoRow /\ token = 0
  /\ phase = "reauth" => back # "select"
  /\ phase \notin {"select", "down"} => RowOK(cur, snap) /\ RowOK(cur, copy) /\ CycleOK
  /\ \A c \in Conns : req[c] # Idle => RowOK(req[c].pair, req[c].old)

Inv == TypeOK /\ NoOrphanPair /\ CopiesOK

-----------------------------------------------------------------------------
\* Initially there are no copies, and the rows are those of pairs just added.
LEMMA InitInv == Init => Inv
<1> SUFFICES ASSUME Init PROVE Inv
  OBVIOUS
<1> USE ConstantsAssumption DEF Init, Pairs, NoPair, NoRow, NewRow
<1>1. TypeOK
  BY DEF TypeOK, Phases, Idle, Row, Status
<1>2. NoOrphanPair
  BY DEF NoOrphanPair, Exists
<1>3. CopiesOK
  BY DEF CopiesOK, RowOK, Lasting, CycleOK, Exists, Idle
<1> QED
  BY <1>1, <1>2, <1>3 DEF Inv

\* pair_upsert: a row that is in order keeps the whole table in order, whether
\* the store accepts it or not.
LEMMA UpsertKeepsTable ==
  ASSUME Inv, NEW p \in Pairs, NEW r \in Row, TryUpsert(p, r), accounts' = accounts
  PROVE  /\ row' \in [Pairs -> Row \cup {NoRow}]
         /\ NoOrphanPair'
         /\ \A q \in Pairs : row'[q] = row[q] \/ (q = p /\ row'[q] = [r EXCEPT !.aged = FALSE])
         /\ \A q \in Pairs : Exists(q) => Exists(q)'
<1> DEFINE w == [r EXCEPT !.aged = FALSE]
<1>1. w \in Row /\ w.status = r.status /\ w # NoRow
  BY DEF Row, NoRow, Status
<1>2. CASE ~accepts(p, r)
  BY <1>2 DEF TryUpsert, Inv, TypeOK, NoOrphanPair, Exists
<1>3. CASE accepts(p, r)
  <2>1. row' = [row EXCEPT ![p] = w] /\ row \in [Pairs -> Row \cup {NoRow}]
    BY <1>3 DEF TryUpsert, upserted, Inv, TypeOK
  <2>2. row' \in [Pairs -> Row \cup {NoRow}] /\ row'[p] = w
        /\ \A q \in Pairs \ {p} : row'[q] = row[q]
    BY <1>1, <2>1
  <2>3. NoOrphanPair'
    BY <1>3, <2>2 DEF NoOrphanPair, Exists, Inv, accepts
  <2> QED
    BY <1>1, <2>2, <2>3 DEF Exists
<1> QED
  BY <1>2, <1>3

\* Nothing about the table changes when no row and no account does.
LEMMA SameTable ==
  ASSUME Inv, row' = row, accounts' = accounts
  PROVE  NoOrphanPair'
BY DEF Inv, NoOrphanPair, Exists

\* The end of a cycle drops the scheduler's copies.
LEMMA ReturnKeepsInv ==
  ASSUME Inv, Return, UNCHANGED <<minted, accounts, queue, req, asked, history>>,
         row' \in [Pairs -> Row \cup {NoRow}], NoOrphanPair',
         \A p \in Pairs : RowOK(p, row[p])'
  PROVE  Inv'
<1> USE ConstantsAssumption
<1>1. TypeOK'
  BY DEF Inv, TypeOK, Return, history, fetched, Phases
<1>2. CopiesOK'
  BY DEF Inv, TypeOK, CopiesOK, RowOK, Lasting, CycleOK, Exists, Return, history, fetched, NoRow
<1> QED
  BY <1>1, <1>2 DEF Inv

\* The scheduler's steps that end a cycle with an upsert of its own copy.
LEMMA WriteBackKeepsInv ==
  ASSUME Inv, Return, UNCHANGED <<minted, accounts, queue, req, asked, history>>,
         cur \in Pairs, NEW r \in Row, TryUpsert(cur, r), RowOK(cur, r)
  PROVE  Inv'
<1>1. /\ row' \in [Pairs -> Row \cup {NoRow}] /\ NoOrphanPair'
      /\ \A q \in Pairs : row'[q] = row[q] \/ (q = cur /\ row'[q] = [r EXCEPT !.aged = FALSE])
  BY UpsertKeepsTable
<1>2. [r EXCEPT !.aged = FALSE].token = r.token /\ [r EXCEPT !.aged = FALSE].status = r.status
  BY DEF Row
<1>3. \A p \in Pairs : RowOK(p, row[p])'
  BY <1>1, <1>2 DEF Inv, CopiesOK, RowOK, Lasting, CycleOK, Exists, history, fetched
<1> QED
  BY <1>1, <1>3, ReturnKeepsInv

-----------------------------------------------------------------------------
\* The scheduler's loop and the steps of a cycle that write no row.
LEMMA SchedulerReads ==
  ASSUME Inv,
         \/ Tick \/ TakeForce \/ CycleFails \/ StartCycle \/ DeltaDone \/ AdvanceGet
         \/ RunRecord \/ ReAuthRequired \/ ReAuthDone \/ \E p \in Pairs : LookUp(p)
  PROVE  Inv'
<1> USE ConstantsAssumption
<1>1. row' = row /\ accounts' = accounts
  BY DEF Tick, TakeForce, CycleFails, StartCycle, DeltaDone, AdvanceGet, RunRecord,
         ReAuthRequired, ReAuthDone, LookUp, tables
<1>2. NoOrphanPair'
  BY <1>1, SameTable
<1>3. CASE Tick
  <2>1. TypeOK'
    BY <1>3 DEF Inv, TypeOK, Tick, tables, cycle, history, fetched
  <2>2. CopiesOK'
    BY <1>3
       DEF Inv, CopiesOK, RowOK, Lasting, CycleOK, Exists, Tick, tables, cycle, history, fetched
  <2> QED
    BY <1>2, <2>1, <2>2 DEF Inv
<1>4. CASE TakeForce
  <2>1. Head(queue) \in Pairs /\ Tail(queue) \in Seq(Pairs) /\ Len(Tail(queue)) <= QueueDepth
    BY <1>4 DEF Inv, TypeOK, TakeForce
  <2>2. TypeOK'
    BY <1>4, <2>1 DEF Inv, TypeOK, TakeForce, tables, cycle, history, fetched
  <2>3. CopiesOK'
    BY <1>4
       DEF Inv, CopiesOK, RowOK, Lasting, CycleOK, Exists, TakeForce, tables, cycle, history,
           fetched
  <2> QED
    BY <1>2, <2>2, <2>3 DEF Inv
<1>5. CASE CycleFails
  <2>1. \A p \in Pairs : RowOK(p, row[p])'
    BY <1>1, <1>5 DEF Inv, CopiesOK, RowOK, Lasting, CycleOK, Exists, CycleFails, history, fetched
  <2> QED
    BY <1>1, <1>2, <1>5, <2>1, ReturnKeepsInv DEF CycleFails, tables, Inv, TypeOK
<1>6. CASE StartCycle
  <2>1. TypeOK'
    BY <1>6 DEF Inv, TypeOK, StartCycle, tables, cycle, history, fetched, Phases
  <2>2. CopiesOK'
    BY <1>6
       DEF Inv, CopiesOK, RowOK, Lasting, CycleOK, Exists, StartCycle, tables, cycle, history,
           fetched
  <2> QED
    BY <1>2, <2>1, <2>2 DEF Inv
<1>7. CASE DeltaDone
  <2> PICK t \in {0} \cup {x \in 1..MaxToken : x >= seen[cur] /\ x >= snap.token} :
        /\ token' = t
        /\ seen' = [seen EXCEPT ![cur] = IF t # 0 /\ Exists(cur) THEN t ELSE @]
        /\ complete' = IF t # 0 THEN complete \cup {cur} ELSE complete
    BY <1>7 DEF DeltaDone
  <2>1. cur \in Pairs /\ seen \in [Pairs -> 0..MaxToken] /\ complete \subseteq Pairs /\ CycleOK
    BY <1>7 DEF DeltaDone, Inv, TypeOK, CopiesOK
  <2>2. t \in 0..MaxToken /\ complete \subseteq complete' /\ complete' \subseteq Pairs
        /\ (t # 0 => cur \in complete')
    BY <2>1
  <2>3. /\ seen' \in [Pairs -> 0..MaxToken] /\ \A p \in Pairs : seen[p] <= seen'[p]
        /\ Exists(cur) => t <= seen'[cur]
    BY <2>1, <2>2
  <2>4. UNCHANGED <<row, listed, cur, snap, copy, req, erased, resumed, accounts>>
        /\ phase' = "advance"
    BY <1>7 DEF DeltaDone, tables
  <2>5. TypeOK'
    BY <1>7, <2>2, <2>3 DEF Inv, TypeOK, DeltaDone, tables, Phases
  <2>6. ASSUME NEW p \in Pairs, NEW r \in Row \cup {NoRow}, RowOK(p, r)
        PROVE  /\ p \notin erased' /\ AccountOf[p] \in accounts' => r.token <= seen'[p]
               /\ r.status = "Active" => p \in resumed' \cup complete'
    <3>1. r.token \in Nat /\ seen[p] \in Nat /\ seen'[p] \in Nat
      BY <2>1, <2>3 DEF Row, NoRow
    <3> QED
      BY <2>2, <2>3, <2>4, <2>6, <3>1 DEF RowOK, Lasting
  <2>7. \A p \in Pairs : RowOK(p, row[p])' /\ RowOK(p, listed[p])'
    BY <2>4, <2>6 DEF Inv, TypeOK, CopiesOK, RowOK, Lasting
  <2>8. RowOK(cur, snap)' /\ RowOK(cur, copy)'
    BY <1>7, <2>1, <2>4, <2>6 DEF DeltaDone, Inv, TypeOK, CopiesOK, RowOK, Lasting
  <2>9. CycleOK'
    BY <2>1, <2>2, <2>3, <2>4 DEF CycleOK, Lasting, Exists
  <2>10. \A c \in Conns : req[c] # Idle => RowOK(req[c].pair, req[c].old)'
    BY <2>4, <2>6 DEF Inv, TypeOK, CopiesOK, RowOK, Lasting, Request
  <2>11. CopiesOK'
    BY <2>4, <2>7, <2>8, <2>9, <2>10 DEF CopiesOK
  <2> QED
    BY <1>2, <2>5, <2>11 DEF Inv
<1>8. CASE AdvanceGet
  <2>1. TypeOK'
    BY <1>8 DEF Inv, TypeOK, AdvanceGet, tables, history, fetched, Phases, Exists
  <2>2. CopiesOK'
    BY <1>8
       DEF Inv, TypeOK, CopiesOK, RowOK, Lasting, CycleOK, Exists, AdvanceGet, tables, history,
           fetched
  <2> QED
    BY <1>2, <2>1, <2>2 DEF Inv
<1>9. CASE RunRecord
  <2>1. CASE Exists(cur)
    <3>1. TypeOK'
      BY <1>9, <2>1 DEF Inv, TypeOK, RunRecord, tables, cycle, history, fetched, Phases
    <3>2. CopiesOK'
      BY <1>9, <2>1
         DEF Inv, CopiesOK, RowOK, Lasting, CycleOK, Exists, RunRecord, tables, cycle, history,
             fetched
    <3> QED
      BY <1>2, <3>1, <3>2 DEF Inv
  <2>2. CASE ~Exists(cur)
    <3>1. \A p \in Pairs : RowOK(p, row[p])'
      BY <1>1, <1>9 DEF Inv, CopiesOK, RowOK, Lasting, CycleOK, Exists, RunRecord, history, fetched
    <3> QED
      BY <1>1, <1>2, <1>9, <2>2, <3>1, ReturnKeepsInv DEF RunRecord, tables, Inv, TypeOK
  <2> QED
    BY <2>1, <2>2
<1>10. CASE ReAuthRequired
  <2>1. TypeOK'
    BY <1>10 DEF Inv, TypeOK, ReAuthRequired, tables, history, fetched, Phases
  <2>2. CopiesOK'
    <3>1. \A p \in Pairs : RowOK(p, listed[p])'
      BY <1>10
         DEF Inv, TypeOK, CopiesOK, RowOK, Lasting, CycleOK, Exists, ReAuthRequired, tables,
             history, fetched, NoRow
    <3> QED
      BY <1>10, <3>1
         DEF Inv, CopiesOK, RowOK, Lasting, CycleOK, Exists, ReAuthRequired, tables, history,
             fetched
  <2> QED
    BY <1>2, <2>1, <2>2 DEF Inv
<1>11. CASE ReAuthDone
  <2>1. CASE back = "delta"
    <3>1. \A p \in Pairs : RowOK(p, row[p])'
      BY <1>1, <1>11
         DEF Inv, CopiesOK, RowOK, Lasting, CycleOK, Exists, ReAuthDone, history, fetched
    <3> QED
      BY <1>1, <1>2, <1>11, <2>1, <3>1, ReturnKeepsInv DEF ReAuthDone, tables, Inv, TypeOK
  <2>2. CASE back # "delta"
    <3>1. TypeOK'
      BY <1>11, <2>2 DEF Inv, TypeOK, ReAuthDone, tables, history, fetched, Phases
    <3>2. phase' = "exec" /\ phase = "reauth"
          /\ UNCHANGED <<accounts, row, listed, cur, snap, copy, token, req, history>>
      BY <1>11, <2>2 DEF Inv, TypeOK, CopiesOK, ReAuthDone, tables
    <3>3. CopiesOK'
      BY <3>2 DEF Inv, CopiesOK, RowOK, Lasting, CycleOK, Exists, history, fetched
    <3> QED
      BY <1>2, <3>1, <3>3 DEF Inv
  <2> QED
    BY <2>1, <2>2
<1>12. ASSUME NEW p \in Pairs, LookUp(p) PROVE Inv'
  <2>1. TypeOK'
    BY <1>12 DEF Inv, TypeOK, LookUp, tables, history, fetched, Phases, Exists
  <2>2. CopiesOK'
    BY <1>12
       DEF Inv, TypeOK, CopiesOK, RowOK, Lasting, CycleOK, Exists, LookUp, tables, history,
           fetched, NoRow
  <2> QED
    BY <1>2, <2>1, <2>2 DEF Inv
<1> QED
  BY <1>3, <1>4, <1>5, <1>6, <1>7, <1>8, <1>9, <1>10, <1>11, <1>12

\* The steps of a cycle that write a row from a copy.
LEMMA SchedulerWrites ==
  ASSUME Inv,
         mark_pair_errored \/ AdvancePut \/ persist_post_cycle \/ \E p \in Pairs : ReAuthMark(p)
  PROVE  Inv'
<1> USE ConstantsAssumption
<1>1. CASE mark_pair_errored
  <2> DEFINE r == [snap EXCEPT !.status = "Errored"]
  <2>1. cur \in Pairs /\ snap \in Row /\ RowOK(cur, snap)
    BY <1>1 DEF mark_pair_errored, Inv, TypeOK, CopiesOK
  <2>2. r \in Row /\ r.token = snap.token /\ r.status = "Errored"
    BY <2>1 DEF Row, Status
  <2>3. RowOK(cur, r)
    BY <2>1, <2>2 DEF RowOK, Lasting, CycleOK, Exists
  <2> HIDE DEF r
  <2>4. TryUpsert(cur, r) /\ Return /\ UNCHANGED <<accounts, minted, queue, req, asked, history>>
    BY <1>1 DEF mark_pair_errored, r
  <2> QED
    BY <2>1, <2>2, <2>3, <2>4, WriteBackKeepsInv
<1>2. CASE persist_post_cycle
  <2>1. /\ cur \in Pairs /\ snap \in Row /\ RowOK(cur, snap)
        /\ token \in 0..MaxToken /\ seen[cur] \in 0..MaxToken /\ CycleOK
    BY <1>2 DEF persist_post_cycle, Inv, TypeOK, CopiesOK
  <2> DEFINE promote == snap.status = "Initializing" /\ token # 0
             new_cursor == IF token # 0 THEN token ELSE snap.token
             s == IF promote THEN "Active" ELSE snap.status
             r == [snap EXCEPT !.status = IF promote THEN "Active" ELSE @, !.token = new_cursor]
  <2>2. r \in Row /\ r.token = new_cursor /\ r.status = s
    BY <2>1 DEF Row, Status
  <2>3. Lasting(cur) => new_cursor <= seen[cur]
    BY <2>1 DEF RowOK, CycleOK, Row
  <2>4. s = "Active" => cur \in resumed \cup complete
    BY <2>1 DEF RowOK, CycleOK
  <2>5. RowOK(cur, r)
    BY <2>2, <2>3, <2>4 DEF RowOK, Lasting, CycleOK, Exists
  <2>6. /\ Return /\ UNCHANGED <<accounts, minted, queue, req, asked, history>>
        /\ row' = row \/ TryUpsert(cur, r)
    BY <1>2 DEF persist_post_cycle
  <2> HIDE DEF r
  <2>7. CASE TryUpsert(cur, r)
    BY <2>1, <2>2, <2>5, <2>6, <2>7, WriteBackKeepsInv
  <2>8. CASE row' = row
    <3>1. NoOrphanPair'
      BY <2>6, <2>8, SameTable
    <3>2. \A p \in Pairs : RowOK(p, row[p])'
      BY <2>6, <2>8 DEF Inv, CopiesOK, RowOK, Lasting, CycleOK, Exists, history, fetched
    <3> QED
      BY <2>6, <2>8, <3>1, <3>2, ReturnKeepsInv DEF Inv, TypeOK
  <2> QED
    BY <2>6, <2>7, <2>8
<1>3. CASE AdvancePut
  <2> DEFINE r == [copy EXCEPT !.token = token]
  <2>1. /\ cur \in Pairs /\ copy \in Row /\ RowOK(cur, copy)
        /\ token \in 0..MaxToken /\ CycleOK
    BY <1>3 DEF AdvancePut, Inv, TypeOK, CopiesOK
  <2>2. r \in Row /\ r.token = token /\ r.status = copy.status
    BY <2>1 DEF Row
  <2>3. RowOK(cur, r)
    BY <2>1, <2>2 DEF RowOK, Lasting, CycleOK, Exists
  <2>4. /\ TryUpsert(cur, r) /\ UNCHANGED <<accounts, minted, queue, req, asked, history>>
        /\ \/ Return
           \/ /\ phase' = "exec" /\ copy' = NoRow
              /\ UNCHANGED <<due, trigger, cur, snap, token, back, listed>>
    BY <1>3 DEF AdvancePut
  <2> HIDE DEF r
  <2>5. CASE Return
    BY <2>1, <2>2, <2>3, <2>4, <2>5, WriteBackKeepsInv
  <2>6. CASE /\ phase' = "exec" /\ copy' = NoRow
             /\ UNCHANGED <<due, trigger, cur, snap, token, back, listed>>
    <3>1. /\ row' \in [Pairs -> Row \cup {NoRow}] /\ NoOrphanPair'
          /\ \A q \in Pairs :
               row'[q] = row[q] \/ (q = cur /\ row'[q] = [r EXCEPT !.aged = FALSE])
          /\ \A q \in Pairs : Exists(q) => Exists(q)'
      BY <2>1, <2>2, <2>4, UpsertKeepsTable
    <3>2. [r EXCEPT !.aged = FALSE].token = r.token
          /\ [r EXCEPT !.aged = FALSE].status = r.status
      BY <2>2 DEF Row
    <3>3. TypeOK'
      BY <2>4, <2>6, <3>1, <2>1, <1>3 DEF Inv, TypeOK, AdvancePut, history, fetched, Phases
    <3>4. \A p \in Pairs : RowOK(p, row[p])'
      BY <2>3, <2>4, <3>1, <3>2
         DEF Inv, CopiesOK, RowOK, Lasting, CycleOK, Exists, history, fetched
    <3>5. CycleOK'
      BY <2>1, <2>4, <2>6, <3>1 DEF CycleOK, Lasting, history, fetched
    <3>6. CopiesOK'
      BY <1>3, <2>1, <2>4, <2>6, <3>4, <3>5
         DEF Inv, TypeOK, CopiesOK, RowOK, Lasting, CycleOK, Exists, AdvancePut, history,
             fetched, NoRow
    <3> QED
      BY <3>1, <3>3, <3>6 DEF Inv
  <2> QED
    BY <2>4, <2>5, <2>6
<1>4. ASSUME NEW p \in Pairs, ReAuthMark(p) PROVE Inv'
  <2> DEFINE r == [listed[p] EXCEPT !.status = "Errored"]
  <2>1. listed[p] \in Row /\ RowOK(p, listed[p])
    BY <1>4 DEF ReAuthMark, Inv, TypeOK, CopiesOK
  <2>2. r \in Row /\ r.token = listed[p].token /\ r.status = "Errored"
    BY <2>1 DEF Row, Status
  <2>3. TryUpsert(p, r) /\ accounts' = accounts
    BY <1>4 DEF ReAuthMark
  <2> HIDE DEF r
  <2>4. /\ row' \in [Pairs -> Row \cup {NoRow}] /\ NoOrphanPair'
        /\ \A q \in Pairs : row'[q] = row[q] \/ (q = p /\ row'[q] = [r EXCEPT !.aged = FALSE])
        /\ \A q \in Pairs : Exists(q) => Exists(q)'
    BY <2>2, <2>3, UpsertKeepsTable
  <2>5. [r EXCEPT !.aged = FALSE].token = r.token /\ [r EXCEPT !.aged = FALSE].status = r.status
    BY <2>2 DEF Row
  <2>6. TypeOK'
    BY <1>4, <2>4 DEF Inv, TypeOK, ReAuthMark, history, fetched
  <2>7. \A q \in Pairs : RowOK(q, row[q])'
    BY <1>4, <2>1, <2>2, <2>4, <2>5
       DEF Inv, CopiesOK, RowOK, Lasting, ReAuthMark, history, fetched
  <2>8. \A q \in Pairs : RowOK(q, listed[q])'
    <3>1. \A q \in Pairs : listed'[q] \in {NoRow, listed[q]}
      BY <1>4 DEF ReAuthMark, Inv, TypeOK
    <3>2. \A q \in Pairs : RowOK(q, NoRow) /\ RowOK(q, listed[q])
      BY DEF Inv, TypeOK, CopiesOK, RowOK, NoRow
    <3> QED
      BY <1>4, <3>1, <3>2 DEF RowOK, Lasting, ReAuthMark, history, fetched
  <2>9. CycleOK'
    BY <1>4, <2>4 DEF Inv, TypeOK, CopiesOK, Lasting, CycleOK, ReAuthMark, history, fetched
  <2>10. CopiesOK'
    BY <1>4, <2>7, <2>8, <2>9 DEF Inv, CopiesOK, RowOK, Lasting, ReAuthMark, history, fetched
  <2> QED
    BY <2>4, <2>6, <2>10 DEF Inv
<1> QED
  BY <1>1, <1>2, <1>3, <1>4

-----------------------------------------------------------------------------
\* The JSON-RPC handlers.
LEMMA HandlersKeepInv ==
  ASSUME Inv, (\E p \in Pairs : Add(p)) \/ (\E c \in Conns : HandlerStep(c))
  PROVE  Inv'
<1> USE ConstantsAssumption
<1>1. ASSUME NEW p \in Pairs, Add(p) PROVE Inv'
  <2> DEFINE r == NewRow
  <2>1. r \in Row /\ [r EXCEPT !.aged = FALSE].token = 0
        /\ [r EXCEPT !.aged = FALSE].status = "Initializing"
    BY DEF NewRow, Row, Status
  <2>2. TryUpsert(p, r) /\ accounts' = accounts
    BY <1>1 DEF Add
  <2> HIDE DEF r
  <2>3. /\ row' \in [Pairs -> Row \cup {NoRow}] /\ NoOrphanPair'
        /\ \A q \in Pairs : row'[q] = row[q] \/ (q = p /\ row'[q] = [r EXCEPT !.aged = FALSE])
        /\ \A q \in Pairs : Exists(q) => Exists(q)'
    BY <2>1, <2>2, UpsertKeepsTable
  <2>4. TypeOK'
    <3>1. minted' \in 0..NumPairs /\ asked' \in 0..MaxRequests
      BY <1>1 DEF Inv, TypeOK, Add, Ask, Pairs
    <3> QED
      BY <1>1, <2>3, <3>1 DEF Inv, TypeOK, Add, sched, cycle, history, fetched
  <2>5. \A q \in Pairs : RowOK(q, row[q])'
    <3>1. \A q \in Pairs : 0 <= seen[q]
      BY DEF Inv, TypeOK
    <3> QED
      BY <1>1, <2>1, <2>3, <3>1
         DEF Inv, CopiesOK, RowOK, Lasting, CycleOK, Exists, Add, history, fetched
  <2>6. CopiesOK'
    BY <1>1, <2>3, <2>5
       DEF Inv, TypeOK, CopiesOK, RowOK, Lasting, CycleOK, Add, sched, cycle, history, fetched
  <2> QED
    BY <2>3, <2>4, <2>6 DEF Inv
<1>2. ASSUME NEW c \in Conns, NEW p \in Pairs, NEW kind \in Command \cup {"force"},
             require_pair(c, p, kind)
      PROVE  Inv'
  <2> DEFINE q == [kind |-> kind, pair |-> p, old |-> row[p]]
  <2>1. q \in Request /\ RowOK(q.pair, q.old) /\ q.pair = p /\ q.old = row[p]
    BY <1>2 DEF require_pair, Exists, Inv, TypeOK, CopiesOK, Request
  <2> HIDE DEF q
  <2>2. req' = [req EXCEPT ![c] = q]
    BY <1>2 DEF require_pair, q
  <2>3. NoOrphanPair'
    BY <1>2, SameTable DEF require_pair, tables
  <2>4. TypeOK'
    BY <1>2, <2>1, <2>2 DEF Inv, TypeOK, require_pair, Ask, tables, sched, cycle, history, fetched
  <2>5. CopiesOK'
    BY <1>2, <2>1, <2>2
       DEF Inv, TypeOK, CopiesOK, RowOK, Lasting, CycleOK, Exists, require_pair, tables, sched,
           cycle, history, fetched
  <2> QED
    BY <2>3, <2>4, <2>5 DEF Inv
<1>3. ASSUME NEW c \in Conns, Answer(c) PROVE Inv'
  <2> DEFINE q == req[c]
             r == commanded(q)
  <2>1. q \in Request /\ q.kind \in Command /\ q.pair \in Pairs /\ q.old \in Row
        /\ RowOK(q.pair, q.old)
    BY <1>3 DEF Answer, Inv, TypeOK, CopiesOK, Request
  <2>2. r \in Row /\ r.token = q.old.token /\ (r.status = "Active" => q.kind = "resume")
    BY <2>1 DEF commanded, Command, Row, Status
  <2>3. /\ TryUpsert(q.pair, r) /\ req' = [req EXCEPT ![c] = Idle]
        /\ UNCHANGED <<accounts, minted, sched, queue, asked, fetched>>
        /\ resumed \subseteq resumed' /\ resumed' \subseteq Pairs /\ held' \subseteq Pairs
        /\ accepts(q.pair, r) /\ q.kind = "resume" => q.pair \in resumed'
    BY <1>3, <2>1 DEF Answer, Inv, TypeOK
  <2>4. accepts(q.pair, r) \/ row' = row
    BY <2>3 DEF TryUpsert
  <2> HIDE DEF q, r
  <2>5. /\ row' \in [Pairs -> Row \cup {NoRow}] /\ NoOrphanPair'
        /\ \A a \in Pairs :
             row'[a] = row[a] \/ (a = q.pair /\ row'[a] = [r EXCEPT !.aged = FALSE])
        /\ \A a \in Pairs : Exists(a) => Exists(a)'
    BY <2>1, <2>2, <2>3, UpsertKeepsTable
  <2>6. [r EXCEPT !.aged = FALSE].token = r.token /\ [r EXCEPT !.aged = FALSE].status = r.status
    BY <2>2 DEF Row
  <2>7. TypeOK'
    BY <2>3, <2>5 DEF Inv, TypeOK, sched, cycle, fetched
  <2>8. \A a \in Pairs : RowOK(a, row[a])'
    BY <2>1, <2>2, <2>3, <2>4, <2>5, <2>6 DEF Inv, CopiesOK, RowOK, Lasting, fetched
  <2>9. CopiesOK'
    BY <2>3, <2>5, <2>8 DEF Inv, TypeOK, CopiesOK, RowOK, Lasting, CycleOK, sched, cycle, fetched
  <2> QED
    BY <2>5, <2>7, <2>9 DEF Inv
<1>4. ASSUME NEW c \in Conns, ForceSync(c) PROVE Inv'
  <2>1. req[c].pair \in Pairs
    BY <1>4 DEF ForceSync, Inv, TypeOK, Request
  <2>2. queue' \in Seq(Pairs) /\ Len(queue') <= QueueDepth
    BY <1>4, <2>1 DEF ForceSync, Inv, TypeOK
  <2>3. NoOrphanPair'
    BY <1>4, SameTable DEF ForceSync, tables
  <2>4. TypeOK'
    BY <1>4, <2>2 DEF Inv, TypeOK, ForceSync, tables, sched, cycle, history, fetched
  <2>5. CopiesOK'
    BY <1>4
       DEF Inv, TypeOK, CopiesOK, RowOK, Lasting, CycleOK, Exists, ForceSync, tables, sched,
           cycle, history, fetched
  <2> QED
    BY <2>3, <2>4, <2>5 DEF Inv
<1>5. ASSUME NEW c \in Conns, RequestFails(c) PROVE Inv'
  <2>1. NoOrphanPair'
    BY <1>5, SameTable DEF RequestFails, tables
  <2>2. TypeOK'
    BY <1>5 DEF Inv, TypeOK, RequestFails, tables, sched, cycle, history, fetched
  <2>3. CopiesOK'
    BY <1>5
       DEF Inv, TypeOK, CopiesOK, RowOK, Lasting, CycleOK, Exists, RequestFails, tables, sched,
           cycle, history, fetched
  <2> QED
    BY <2>1, <2>2, <2>3 DEF Inv
<1> QED
  BY <1>1, <1>2, <1>3, <1>4, <1>5 DEF HandlerStep

-----------------------------------------------------------------------------
\* Deleting rows keeps the copies in order: a pair that lasts keeps its row and what
\* its file entries hold.
LEMMA DeletionKeepsCopies ==
  ASSUME Inv, UNCHANGED <<sched, req, complete, resumed>>,
         \A p \in Pairs : row'[p] \in {NoRow, row[p]},
         seen' \in [Pairs -> 0..MaxToken],
         \A p \in Pairs : Lasting(p)' => Lasting(p) /\ row'[p] = row[p] /\ seen'[p] = seen[p]
  PROVE  CopiesOK'
<1>1. \A p \in Pairs : RowOK(p, row[p])'
  BY ConstantsAssumption DEF Inv, TypeOK, CopiesOK, RowOK, NoRow
<1>2. \A p \in Pairs : RowOK(p, listed[p])'
  BY DEF Inv, CopiesOK, RowOK, sched, cycle
<1>3. ASSUME phase \notin {"select", "down"}
      PROVE  RowOK(cur, snap)' /\ RowOK(cur, copy)' /\ CycleOK'
  <2>1. /\ UNCHANGED <<cur, snap, copy, token, resumed, complete>> /\ cur \in Pairs
        /\ RowOK(cur, snap) /\ RowOK(cur, copy) /\ CycleOK
    BY <1>3 DEF Inv, TypeOK, CopiesOK, sched, cycle
  <2>2. Lasting(cur)' => Lasting(cur) /\ row'[cur] = row[cur] /\ seen'[cur] = seen[cur]
    BY <2>1
  <2>3. RowOK(cur, snap)' /\ RowOK(cur, copy)'
    BY <2>1, <2>2 DEF RowOK
  <2>4. CycleOK'
    BY <2>1, <2>2 DEF CycleOK, Exists
  <2> QED
    BY <2>3, <2>4
<1>4. \A c \in Conns : req[c] # Idle => RowOK(req[c].pair, req[c].old)'
  BY DEF Inv, TypeOK, CopiesOK, RowOK, Request
<1> QED
  BY <1>1, <1>2, <1>3, <1>4 DEF Inv, CopiesOK, sched, cycle

\* account.remove, the passing of time, compaction, a crash and a start only delete
\* rows and copies, or mark a row as aged.
LEMMA OthersKeepInv ==
  ASSUME Inv, \/ \E a \in Accounts : AccountRemove(a)
              \/ TimePasses \/ compact_now \/ Crash \/ Start
  PROVE  Inv'
<1> USE ConstantsAssumption
<1>1. ASSUME NEW a \in Accounts, AccountRemove(a) PROVE Inv'
  <2>1. /\ row' \in [Pairs -> Row \cup {NoRow}]
        /\ \A p \in Pairs : row'[p] = NoRow \/ (row'[p] = row[p] /\ AccountOf[p] # a)
        /\ \A p \in Pairs : AccountOf[p] # a => row'[p] = row[p]
    BY <1>1 DEF AccountRemove, Inv, TypeOK
  <2>2. /\ seen' \in [Pairs -> 0..MaxToken]
        /\ \A p \in Pairs : AccountOf[p] # a => seen'[p] = seen[p]
    BY <1>1 DEF AccountRemove, forget, Inv, TypeOK
  <2>3. TypeOK'
    BY <1>1, <2>1, <2>2 DEF Inv, TypeOK, AccountRemove, sched, cycle
  <2>4. NoOrphanPair'
    BY <1>1, <2>1 DEF Inv, NoOrphanPair, Exists, AccountRemove
  <2>5. \A p \in Pairs : Lasting(p)' => Lasting(p) /\ row'[p] = row[p] /\ seen'[p] = seen[p]
    BY <1>1, <2>1, <2>2 DEF Lasting, AccountRemove
  <2>6. CopiesOK'
    BY <1>1, <2>1, <2>2, <2>5, DeletionKeepsCopies DEF AccountRemove
  <2> QED
    BY <2>3, <2>4, <2>6 DEF Inv
<1>2. CASE TimePasses
  <2>1. \A r \in Row : /\ [r EXCEPT !.aged = TRUE] \in Row
                        /\ [r EXCEPT !.aged = TRUE].status = r.status
                        /\ [r EXCEPT !.aged = TRUE].token = r.token
    BY DEF Row
  <2>2. /\ row' \in [Pairs -> Row \cup {NoRow}]
        /\ \A p \in Pairs : Exists(p)' <=> Exists(p)
        /\ \A p \in Pairs : row'[p].status = row[p].status /\ row'[p].token = row[p].token
    <3> DEFINE old(p) == [row[p] EXCEPT !.aged = TRUE]
    <3>1. row' = [p \in Pairs |-> IF row[p].status = "Removed" THEN old(p) ELSE row[p]]
      BY <1>2 DEF TimePasses
    <3>2. /\ \A p \in Pairs : row[p] \in Row \cup {NoRow}
          /\ \A p \in Pairs : row[p].status = "Removed" => row[p] \in Row
      BY DEF Inv, TypeOK, NoRow
    <3>3. \A p \in Pairs : row[p].status = "Removed" =>
            old(p) \in Row /\ old(p).status = row[p].status /\ old(p).token = row[p].token
      BY <2>1, <3>2
    <3>4. NoRow \notin Row
      BY DEF Row, NoRow, Status
    <3> HIDE DEF old
    <3> QED
      BY <3>1, <3>2, <3>3, <3>4 DEF Exists
  <2>3. TypeOK'
    BY <1>2, <2>2 DEF Inv, TypeOK, TimePasses, sched, cycle, history, fetched
  <2>4. NoOrphanPair'
    BY <1>2, <2>2 DEF Inv, NoOrphanPair, TimePasses
  <2>5. \A p \in Pairs : RowOK(p, row[p])'
    BY <1>2, <2>2 DEF Inv, CopiesOK, RowOK, Lasting, TimePasses, history, fetched
  <2>6. CopiesOK'
    BY <1>2, <2>2, <2>5
       DEF Inv, TypeOK, CopiesOK, RowOK, Lasting, CycleOK, TimePasses, sched, cycle, history,
           fetched
  <2> QED
    BY <2>3, <2>4, <2>6 DEF Inv
<1>3. CASE compact_now
  <2> DEFINE old == {p \in Pairs : row[p].status = "Removed" /\ row[p].aged}
  <2>1. /\ row' = [p \in Pairs |-> IF p \in old THEN NoRow ELSE row[p]]
        /\ seen' = [p \in Pairs |-> IF p \in old THEN 0 ELSE seen[p]]
        /\ erased' = erased \cup old /\ old \subseteq Pairs
        /\ UNCHANGED <<accounts, minted, sched, queue, req, asked, complete, resumed, held>>
    BY <1>3 DEF compact_now, forget
  <2> HIDE DEF old
  <2>2. /\ row' \in [Pairs -> Row \cup {NoRow}] /\ \A p \in Pairs : row'[p] \in {NoRow, row[p]}
        /\ seen' \in [Pairs -> 0..MaxToken]
    BY <2>1 DEF Inv, TypeOK
  <2>3. TypeOK'
    BY <2>1, <2>2 DEF Inv, TypeOK, sched, cycle
  <2>4. NoOrphanPair'
    BY <2>1, <2>2 DEF Inv, NoOrphanPair, Exists
  <2>5. \A p \in Pairs : Lasting(p)' => Lasting(p) /\ row'[p] = row[p] /\ seen'[p] = seen[p]
    BY <2>1 DEF Lasting
  <2>6. CopiesOK'
    BY <2>1, <2>2, <2>5, DeletionKeepsCopies
  <2> QED
    BY <2>3, <2>4, <2>6 DEF Inv
<1>4. CASE Crash
  <2>1. NoOrphanPair'
    BY <1>4, SameTable DEF Crash, tables
  <2>2. TypeOK'
    BY <1>4 DEF Inv, TypeOK, Crash, tables, history, fetched, Phases
  <2>3. CopiesOK'
    BY <1>4 DEF Inv, TypeOK, CopiesOK, RowOK, Lasting, Crash, tables, history, fetched, NoRow
  <2> QED
    BY <2>1, <2>2, <2>3 DEF Inv
<1>5. CASE Start
  <2>1. NoOrphanPair'
    BY <1>5, SameTable DEF Start, tables
  <2>2. TypeOK'
    BY <1>5 DEF Inv, TypeOK, Start, tables, cycle, history, fetched, Phases
  <2>3. CopiesOK'
    BY <1>5 DEF Inv, TypeOK, CopiesOK, RowOK, Lasting, Start, tables, cycle, history, fetched
  <2> QED
    BY <2>1, <2>2, <2>3 DEF Inv
<1> QED
  BY <1>1, <1>2, <1>3, <1>4, <1>5

\* Every step preserves the inductive invariant.
LEMMA NextKeepsInv == Inv /\ [Next]_vars => Inv'
<1> SUFFICES ASSUME Inv, [Next]_vars PROVE Inv'
  OBVIOUS
<1>1. CASE Next
  BY <1>1, SchedulerReads, SchedulerWrites, HandlersKeepInv, OthersKeepInv
     DEF Next, SchedulerStep, CycleStep
<1>2. CASE UNCHANGED vars
  BY <1>2 DEF Inv, TypeOK, NoOrphanPair, CopiesOK, RowOK, Lasting, CycleOK, Exists, vars,
              tables, sched, cycle, history, fetched
<1> QED
  BY <1>1, <1>2

LEMMA Invariance == Spec => []Inv
BY InitInv, NextKeepsInv, PTL DEF Spec

-----------------------------------------------------------------------------
\* The variables of the scheduler, of the handlers and of the store keep their
\* types; in particular the force-sync channel never exceeds its depth.
THEOREM TypeCorrect == Spec => []TypeOK
<1>1. Inv => TypeOK
  BY DEF Inv
<1> QED
  BY <1>1, Invariance, PTL

\* account.remove is final: no task's copy brings a pair of the account back.
THEOREM AccountRemovalFinal == Spec => []NoOrphanPair
<1>1. Inv => NoOrphanPair
  BY DEF Inv
<1> QED
  BY <1>1, Invariance, PTL

\* Whatever copy of a row is written back last, the stored delta token covers no page
\* that is not in the pair's file entries, as long as the retention has not deleted
\* the pair.
THEOREM CursorSafe == Spec => []CursorNeverAhead
<1>1. Inv => CursorNeverAhead
  <2> SUFFICES ASSUME Inv, NEW p \in Pairs \ erased PROVE row[p].token <= seen[p]
    BY DEF CursorNeverAhead
  <2>1. CASE AccountOf[p] \in accounts
    BY <2>1 DEF Inv, CopiesOK, RowOK, Lasting
  <2>2. CASE AccountOf[p] \notin accounts
    BY <2>2, ConstantsAssumption DEF Inv, TypeOK, NoOrphanPair, Exists, NoRow
  <2> QED
    BY <2>1, <2>2
<1> QED
  BY <1>1, Invariance, PTL

\* Initializing -> Active needs a complete delta or the user's resume.
THEOREM PromotionSafe == Spec => []FirstDeltaBeforeActive
<1>1. Inv => FirstDeltaBeforeActive
  BY DEF Inv, CopiesOK, RowOK, Lasting, CycleOK, Exists, FirstDeltaBeforeActive
<1> QED
  BY <1>1, Invariance, PTL
=============================================================================
