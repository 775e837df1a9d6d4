-------------------------- MODULE SqliteStoreProofs --------------------------
(***************************************************************************)
(* The store's guarantees for any tables, connections and retention        *)
(* windows, and that every statement but the DELETEs of a compaction is a  *)
(* call of the in-memory store.  Everything rests on one fact, what a      *)
(* DELETE takes with it (DeleteTakes); the inductive invariant adds to     *)
(* NoDangling that an entry waits only for operations of its own pair,     *)
(* without which the cascade written by hand in InMemoryStore would not    *)
(* clear what ON DELETE SET NULL clears.                                   *)
(***************************************************************************)
EXTENDS SqliteStore, TLAPS

OwnPending ==
  \A e \in Entries : pending[e] # NoOp => e \in entries /\ op_pair(pending[e]) = entry_pair[e]

\* A row that is not there has no age.
Blank ==
  /\ \A p \in Pairs : pairs[p].status = "absent" => pairs[p] = NoRow
  /\ \A r \in Runs : runs[r].status = "absent" => runs[r] = NoRow
  /\ \A k \in Conflicts : conflicts[k].status = "absent" => conflicts[k] = NoRow

Inv == TypeOK /\ NoDangling /\ OwnPending /\ Blank

-----------------------------------------------------------------------------
\* The rows the model writes are rows.
LEMMA RowTypes ==
  /\ NoRow \in PairRow /\ NoRow \in RunRow /\ NoRow \in ConflictRow
  /\ NewRow("live") \in PairRow /\ NewRow("removed") \in PairRow
  /\ NewRow("recorded") \in RunRow
  /\ NewRow("unresolved") \in ConflictRow /\ NewRow("resolved") \in ConflictRow
  /\ NoEvent \in EventRow /\ \A p \in Pairs \cup {NoPair} : NewEvent(p) \in EventRow
BY SchemaAssumption DEF NoRow, NewRow, NoEvent, NewEvent, PairRow, RunRow, ConflictRow, EventRow

\* A day changes no status and no reference of a row.
LEMMA OlderRow ==
  /\ \A row \in PairRow : older(row) \in PairRow /\ older(row).status = row.status
  /\ \A row \in RunRow : older(row) \in RunRow /\ older(row).status = row.status
  /\ \A row \in ConflictRow : older(row) \in ConflictRow /\ older(row).status = row.status
  /\ \A row \in EventRow : /\ older(row) \in EventRow /\ older(row).status = row.status
                           /\ older(row).pair = row.pair
BY SchemaAssumption DEF older, PairRow, RunRow, ConflictRow, EventRow

\* What a DELETE takes with it when foreign keys are on, table by table.
Takes(P, R, K, V) ==
  /\ pairs' = [p \in Pairs |-> IF p \in P THEN NoRow ELSE pairs[p]]
  /\ runs' = [r \in Runs |-> IF r \in R \/ run_pair[r] \in P THEN NoRow ELSE runs[r]]
  /\ ops' = [o \in Ops |-> IF run_id[o] \in R \/ op_pair(o) \in P THEN "absent" ELSE ops[o]]
  /\ entries' = {e \in entries : entry_pair[e] \notin P}
  /\ pending' = [e \in Entries |->
                   IF \/ e \in entries /\ entry_pair[e] \in P
                      \/ \E o \in Ops : pending[e] = o /\ (run_id[o] \in R \/ op_pair(o) \in P)
                   THEN NoOp ELSE pending[e]]
  /\ conflicts' = [k \in Conflicts |->
                     IF k \in K \/ conflict_pair[k] \in P THEN NoRow ELSE conflicts[k]]
  /\ audit' = [v \in Events |->
                 IF v \in V THEN NoEvent
                 ELSE IF audit[v].pair \in P THEN [audit[v] EXCEPT !.pair = NoPair]
                 ELSE audit[v]]

\* On every connection a DELETE takes that.
LEMMA DeleteTakes ==
  ASSUME NEW c \in Pool, NEW P \in SUBSET Pairs, NEW R \in SUBSET Runs,
         NEW K \in SUBSET Conflicts, NEW V \in SUBSET Events, Delete(c, P, R, K, V)
  PROVE  Takes(P, R, K, V)
<1> USE SchemaAssumption DEF Delete, foreign_keys, pending_op_id
<1>1. \A o \in Ops : run_id[o] \in Runs /\ (run_pair[run_id[o]] \in P <=> op_pair(o) \in P)
  BY DEF op_pair
<1> DEFINE O1 == {o \in Ops : run_id[o] \in R \/ op_pair(o) \in P}
<1>2. O1 = {o \in Ops : run_id[o] \in {r \in Runs : r \in R \/ run_pair[r] \in P} \/ op_pair(o) \in P}
  BY <1>1
<1>3. /\ pairs' = [p \in Pairs |-> IF p \in P THEN NoRow ELSE pairs[p]]
      /\ audit' = [v \in Events |->
                        IF v \in V THEN NoEvent
                        ELSE IF audit[v].pair \in P THEN [audit[v] EXCEPT !.pair = NoPair]
                        ELSE audit[v]]
  OBVIOUS
<1>4. /\ runs' = [r \in Runs |-> IF r \in R \/ run_pair[r] \in P THEN NoRow ELSE runs[r]]
      /\ conflicts' = [k \in Conflicts |->
                            IF k \in K \/ conflict_pair[k] \in P THEN NoRow ELSE conflicts[k]]
  OBVIOUS
<1>5. ops' = [o \in Ops |-> IF run_id[o] \in R \/ op_pair(o) \in P THEN "absent" ELSE ops[o]]
  BY <1>1
<1>6. entries' = {e \in entries : entry_pair[e] \notin P}
  OBVIOUS
<1>7. pending' = [e \in Entries |->
                    IF e \in {f \in entries : entry_pair[f] \in P} \/ pending[e] \in O1
                    THEN NoOp ELSE pending[e]]
  BY <1>2
<1>8. pending' = [e \in Entries |->
                          IF \/ e \in entries /\ entry_pair[e] \in P
                             \/ \E o \in Ops : pending[e] = o /\ (run_id[o] \in R \/ op_pair(o) \in P)
                          THEN NoOp ELSE pending[e]]
  BY <1>7
<1> QED
  BY <1>3, <1>4, <1>5, <1>6, <1>8 DEF Takes

\* A DELETE leaves no dangling reference when it takes the pairs of the accounts
\* that go.
LEMMA DeleteKeepsInv ==
  ASSUME Inv, NEW c \in Pool, NEW P \in SUBSET Pairs, NEW R \in SUBSET Runs,
         NEW K \in SUBSET Conflicts, NEW V \in SUBSET Events, Delete(c, P, R, K, V),
         accounts' \subseteq accounts, config' = config, pass' \in [Pool -> 0..4],
         \A p \in Pairs \ P : account_id[p] \in accounts => account_id[p] \in accounts'
  PROVE  Inv'
<1> USE SchemaAssumption DEF Inv
<1>1. Takes(P, R, K, V)
  BY DeleteTakes
<1>2. /\ entries' \subseteq Entries
      /\ pairs' \in [Pairs -> PairRow] /\ runs' \in [Runs -> RunRow]
      /\ pending' \in [Entries -> Ops \cup {NoOp}]
      /\ ops' \in [Ops -> {"absent", "open", "done"}]
      /\ conflicts' \in [Conflicts -> ConflictRow]
  BY <1>1, RowTypes DEF Takes, TypeOK
<1>3. audit' \in [Events -> EventRow]
  <2>1. \A v \in Events : [audit[v] EXCEPT !.pair = NoPair] \in EventRow
    BY DEF TypeOK, EventRow
  <2> QED
    BY <1>1, <2>1, RowTypes DEF Takes, TypeOK
<1>4. TypeOK'
  BY <1>2, <1>3 DEF TypeOK
<1>5. \A p \in Pairs : (pairs'[p].status # "absent") <=> has_pair(p) /\ p \notin P
  BY <1>1 DEF Takes, has_pair, NoRow
<1>6. \A p \in Pairs : pairs'[p].status # "absent" => account_id[p] \in accounts'
  BY <1>5 DEF NoDangling, has_pair
<1>7. \A r \in Runs : runs'[r].status # "absent" =>
        r \notin R /\ run_pair[r] \notin P /\ runs[r].status # "absent"
  BY <1>1 DEF Takes, NoRow
<1>8. \A r \in Runs : runs'[r].status # "absent" => pairs'[run_pair[r]].status # "absent"
  BY <1>5, <1>7 DEF NoDangling, has_pair
<1>9. \A o \in Ops : ops'[o] # "absent" => runs'[run_id[o]].status # "absent"
  BY <1>1 DEF Takes, NoDangling, op_pair
<1>10. \A k \in Conflicts : conflicts'[k].status # "absent" => pairs'[conflict_pair[k]].status # "absent"
  <2>1. \A k \in Conflicts : conflicts'[k].status # "absent" =>
          conflict_pair[k] \notin P /\ conflicts[k].status # "absent"
    BY <1>1 DEF Takes, NoRow
  <2> QED
    BY <1>5, <2>1 DEF NoDangling, has_pair
<1>11. \A v \in Events : audit'[v].pair # NoPair => pairs'[audit'[v].pair].status # "absent"
  <2> SUFFICES ASSUME NEW v \in Events, audit'[v].pair # NoPair
               PROVE  pairs'[audit'[v].pair].status # "absent"
    OBVIOUS
  <2>1. audit[v] \in EventRow /\ [audit[v] EXCEPT !.pair = NoPair].pair = NoPair
    BY DEF TypeOK, EventRow
  <2>2. audit'[v] = audit[v] /\ audit[v].pair \notin P /\ audit[v].pair \in Pairs
    BY <1>1, <2>1 DEF Takes, NoEvent, EventRow
  <2>3. has_pair(audit[v].pair)
    BY <2>2 DEF NoDangling
  <2> QED
    BY <1>5, <2>2, <2>3 DEF has_pair
<1>12. \A e \in entries' : /\ pairs'[entry_pair[e]].status # "absent"
                           /\ pending'[e] # NoOp => ops'[pending'[e]] # "absent"
  BY <1>1, <1>5 DEF Takes, NoDangling, has_pair, TypeOK
<1>13. NoDangling'
  BY <1>6, <1>8, <1>9, <1>10, <1>11, <1>12 DEF NoDangling, has_pair
<1>14. OwnPending'
  BY <1>1 DEF Takes, OwnPending, TypeOK, op_pair
<1>15. Blank'
  BY <1>1 DEF Takes, Blank
<1> QED
  BY <1>4, <1>13, <1>14, <1>15

-----------------------------------------------------------------------------
\* The tables are empty at first.
LEMMA InitInv == Init => Inv
<1> SUFFICES ASSUME Init PROVE Inv
  OBVIOUS
<1> USE SchemaAssumption, RowTypes DEF Init
<1>1. TypeOK
  BY DEF TypeOK
<1>2. NoDangling
  BY DEF NoDangling, has_pair, NoRow, NoEvent
<1>3. OwnPending
  BY DEF OwnPending
<1>4. Blank
  BY DEF Blank
<1> QED
  BY <1>1, <1>2, <1>3, <1>4 DEF Inv

\* Calls that write one row refuse one whose references are not there.
LEMMA WritesKeepInv ==
  ASSUME Inv, NEW c \in Pool, Call(c), ~\E a \in Accounts : account_remove(c, a)
  PROVE  Inv'
<1> USE SchemaAssumption, RowTypes DEF Inv, foreign_keys
<1>1. ASSUME NEW a \in Accounts, account_upsert(a)
      PROVE  Inv'
  BY <1>1 DEF account_upsert, TypeOK, NoDangling, OwnPending, Blank, has_pair
<1>2. ASSUME NEW p \in Pairs, NEW s \in {"live", "removed"}, pair_upsert(c, p, s)
      PROVE  Inv'
  <2>1. NewRow(s) \in PairRow /\ NewRow(s).status # "absent"
    BY DEF NewRow
  <2>2. /\ TypeOK'
        /\ \A q \in Pairs : has_pair(q)' <=> has_pair(q) \/ q = p
    BY <1>2, <2>1 DEF pair_upsert, TypeOK, has_pair
  <2>3. NoDangling' /\ OwnPending'
    BY <1>2, <2>2 DEF pair_upsert, TypeOK, NoDangling, OwnPending, EventRow
  <2>4. Blank'
    BY <1>2, <2>1 DEF pair_upsert, TypeOK, Blank
  <2> QED
    BY <2>2, <2>3, <2>4
<1>3. ASSUME NEW e \in Entries, NEW o \in own_ops(e) \cup {NoOp}, file_entry_upsert(c, e, o)
      PROVE  Inv'
  <2>1. o \in Ops \cup {NoOp} /\ (o # NoOp => op_pair(o) = entry_pair[e])
    BY DEF own_ops
  <2>2. TypeOK'
    BY <1>3, <2>1 DEF file_entry_upsert, TypeOK
  <2>3. NoDangling' /\ OwnPending' /\ Blank'
    BY <1>3, <2>1 DEF file_entry_upsert, TypeOK, NoDangling, OwnPending, Blank, has_pair, op_pair
  <2> QED
    BY <2>2, <2>3
<1>4. ASSUME NEW r \in Runs, run_record(c, r)
      PROVE  Inv'
  <2>1. runs' = [runs EXCEPT ![r] = IF runs[r].status = "absent" THEN NewRow("recorded") ELSE runs[r]]
    BY <1>4 DEF run_record
  <2>2. TypeOK'
    BY <1>4, <2>1 DEF run_record, TypeOK
  <2>3. NoDangling' /\ OwnPending' /\ Blank'
    BY <1>4, <2>1 DEF run_record, TypeOK, NoDangling, OwnPending, Blank, has_pair, NewRow
  <2> QED
    BY <2>2, <2>3
<1>5. ASSUME NEW o \in Ops, op_insert(c, o) \/ \E s \in {"open", "done"} : op_update_status(o, s)
      PROVE  Inv'
  <2>1. \A x \in Ops : ops'[x] # "absent" => ops[x] # "absent" \/ runs[run_id[x]].status # "absent"
    BY <1>5 DEF op_insert, op_update_status, TypeOK
  <2>2. \A x \in Ops : ops[x] # "absent" => ops'[x] # "absent"
    BY <1>5 DEF op_insert, op_update_status, TypeOK
  <2>3. TypeOK'
    BY <1>5 DEF op_insert, op_update_status, TypeOK
  <2>4. UNCHANGED <<accounts, pairs, entries, pending, runs, conflicts, audit>>
    BY <1>5 DEF op_insert, op_update_status
  <2>5. NoDangling' /\ OwnPending' /\ Blank'
    BY <2>1, <2>2, <2>4 DEF NoDangling, OwnPending, Blank, has_pair, TypeOK
  <2> QED
    BY <2>3, <2>5
<1>6. ASSUME NEW k \in Conflicts, conflict_insert(c, k) \/ conflict_resolve(k)
      PROVE  Inv'
  <2>1. has_pair(conflict_pair[k])
    BY <1>6 DEF conflict_insert, conflict_resolve, NoDangling
  <2>2. TypeOK'
    BY <1>6 DEF conflict_insert, conflict_resolve, TypeOK
  <2>3. NoDangling' /\ OwnPending'
    BY <1>6, <2>1 DEF conflict_insert, conflict_resolve, TypeOK, NoDangling, OwnPending, has_pair
  <2>4. Blank'
    BY <1>6 DEF conflict_insert, conflict_resolve, TypeOK, Blank, NewRow
  <2> QED
    BY <2>2, <2>3, <2>4
<1>7. ASSUME NEW v \in Events, NEW p \in Pairs \cup {NoPair}, audit_append(c, v, p)
      PROVE  Inv'
  <2>1. NewEvent(p) \in EventRow /\ NewEvent(p).pair = p
    BY DEF NewEvent
  <2>2. TypeOK'
    BY <1>7, <2>1 DEF audit_append, TypeOK
  <2>3. NoDangling' /\ OwnPending' /\ Blank'
    BY <1>7, <2>1 DEF audit_append, TypeOK, NoDangling, OwnPending, Blank, has_pair
  <2> QED
    BY <2>2, <2>3
<1>8. ASSUME config_upsert \/ compact_now(c)
      PROVE  Inv'
  BY <1>8 DEF config_upsert, compact_now, tables, TypeOK, NoDangling, OwnPending, Blank, has_pair
<1> QED
  BY <1>1, <1>2, <1>3, <1>4, <1>5, <1>6, <1>7, <1>8 DEF Call, Upsert, Record

\* The DELETE statements: account_remove takes the pairs of an account, a
\* compaction what is expired.
Deletes(c, P, R, K, V) ==
  /\ Delete(c, P, R, K, V) /\ config' = config
  /\ \/ /\ \E a \in Accounts : /\ accounts' = accounts \ {a}
                               /\ P = {p \in Pairs : account_id[p] = a}
        /\ R = {} /\ K = {} /\ V = {} /\ pass' = pass
     \/ /\ Prune(c) /\ accounts' = accounts /\ pass' \in [Pool -> 0..4]
        /\ \A p \in P : expired(pairs[p], "removed", PairDays)
        /\ \A r \in R : expired(runs[r], "recorded", RunDays)
        /\ \A k \in K : expired(conflicts[k], "resolved", ConflictDays)
        /\ \A v \in V : expired(audit[v], "logged", AuditDays)

\* No step of the model deletes otherwise.
LEMMA Deletions ==
  ASSUME NEW c \in Pool, TypeOK,
         (\E a \in Accounts : account_remove(c, a)) \/ Prune(c)
  PROVE  \E P \in SUBSET Pairs, R \in SUBSET Runs, K \in SUBSET Conflicts, V \in SUBSET Events :
           Deletes(c, P, R, K, V)
<1>1. ASSUME NEW a \in Accounts, account_remove(c, a)
      PROVE  /\ Delete(c, {p \in Pairs : account_id[p] = a}, {}, {}, {})
             /\ config' = config /\ pass' = pass /\ accounts' = accounts \ {a}
  <2>1. {p \in Pairs : foreign_keys(c) /\ account_id[p] = a} = {p \in Pairs : account_id[p] = a}
    BY DEF foreign_keys
  <2> QED
    BY <1>1, <2>1 DEF account_remove
<1>2. ASSUME prune_audit(c)
      PROVE  /\ Delete(c, {}, {}, {}, {v \in Events : expired(audit[v], "logged", AuditDays)})
             /\ config' = config /\ accounts' = accounts /\ pass' \in [Pool -> 0..4]
  BY <1>2 DEF prune_audit, TypeOK
<1>3. ASSUME prune_runs(c)
      PROVE  /\ Delete(c, {}, {r \in Runs : expired(runs[r], "recorded", RunDays)}, {}, {})
             /\ config' = config /\ accounts' = accounts /\ pass' \in [Pool -> 0..4]
  BY <1>3 DEF prune_runs, TypeOK
<1>4. ASSUME prune_conflicts(c)
      PROVE  /\ Delete(c, {}, {}, {k \in Conflicts : expired(conflicts[k], "resolved", ConflictDays)}, {})
             /\ config' = config /\ accounts' = accounts /\ pass' \in [Pool -> 0..4]
  BY <1>4 DEF prune_conflicts, TypeOK
<1>5. ASSUME prune_pairs(c)
      PROVE  /\ Delete(c, {p \in Pairs : expired(pairs[p], "removed", PairDays)}, {}, {}, {})
             /\ config' = config /\ accounts' = accounts /\ pass' \in [Pool -> 0..4]
  BY <1>5 DEF prune_pairs, TypeOK
<1>6. CASE \E a \in Accounts : account_remove(c, a)
  <2>1. PICK a \in Accounts : account_remove(c, a)
    BY <1>6
  <2> WITNESS {p \in Pairs : account_id[p] = a} \in SUBSET Pairs, {} \in SUBSET Runs,
              {} \in SUBSET Conflicts, {} \in SUBSET Events
  <2> QED
    BY <1>1, <2>1, Zenon DEF Deletes
<1>7. CASE prune_audit(c)
  <2> WITNESS {} \in SUBSET Pairs, {} \in SUBSET Runs, {} \in SUBSET Conflicts,
              {v \in Events : expired(audit[v], "logged", AuditDays)} \in SUBSET Events
  <2> QED
    BY <1>2, <1>7, Zenon DEF Prune, Deletes
<1>8. CASE prune_runs(c)
  <2> WITNESS {} \in SUBSET Pairs, {r \in Runs : expired(runs[r], "recorded", RunDays)} \in SUBSET Runs,
              {} \in SUBSET Conflicts, {} \in SUBSET Events
  <2> QED
    BY <1>3, <1>8, Zenon DEF Prune, Deletes
<1>9. CASE prune_conflicts(c)
  <2> WITNESS {} \in SUBSET Pairs, {} \in SUBSET Runs,
              {k \in Conflicts : expired(conflicts[k], "resolved", ConflictDays)} \in SUBSET Conflicts,
              {} \in SUBSET Events
  <2> QED
    BY <1>4, <1>9, Zenon DEF Prune, Deletes
<1>10. CASE prune_pairs(c)
  <2> WITNESS {p \in Pairs : expired(pairs[p], "removed", PairDays)} \in SUBSET Pairs, {} \in SUBSET Runs,
              {} \in SUBSET Conflicts, {} \in SUBSET Events
  <2> QED
    BY <1>5, <1>10, Zenon DEF Prune, Deletes
<1> QED
  BY <1>6, <1>7, <1>8, <1>9, <1>10 DEF Prune

\* Every step keeps the inductive invariant.
LEMMA NextInv == Inv /\ [Next]_vars => Inv'
<1> SUFFICES ASSUME Inv, [Next]_vars PROVE Inv'
  OBVIOUS
<1>1. ASSUME NEW c \in Pool, (\E a \in Accounts : account_remove(c, a)) \/ Prune(c)
      PROVE  Inv'
  <2>1. PICK P \in SUBSET Pairs, R \in SUBSET Runs, K \in SUBSET Conflicts, V \in SUBSET Events :
          Deletes(c, P, R, K, V)
    BY <1>1, Deletions DEF Inv
  <2>2. /\ accounts' \subseteq accounts /\ pass' \in [Pool -> 0..4]
        /\ \A p \in Pairs \ P : account_id[p] \in accounts => account_id[p] \in accounts'
    BY <2>1 DEF Deletes, Inv, TypeOK
  <2> QED
    BY <2>1, <2>2, DeleteKeepsInv DEF Deletes
<1>2. ASSUME NEW c \in Pool, Call(c)
      PROVE  Inv'
  BY <1>1, <1>2, WritesKeepInv
<1>3. ASSUME NEW c \in Pool, Fails(c)
      PROVE  Inv'
  BY <1>3 DEF Fails, tables, Inv, TypeOK, NoDangling, OwnPending, Blank, has_pair
<1>4. CASE Restart
  BY <1>4 DEF Restart, ensure_present, Inv, TypeOK, NoDangling, OwnPending, Blank, has_pair
<1>5. CASE Tick
  <2>1. TypeOK'
    BY <1>5, OlderRow DEF Tick, Inv, TypeOK
  <2>2. /\ \A p \in Pairs : pairs'[p].status = pairs[p].status
        /\ \A r \in Runs : runs'[r].status = runs[r].status
        /\ \A k \in Conflicts : conflicts'[k].status = conflicts[k].status
        /\ \A v \in Events : audit'[v].pair = audit[v].pair
    BY <1>5, OlderRow DEF Tick, Inv, TypeOK
  <2>3. UNCHANGED <<accounts, entries, pending, ops>>
    BY <1>5 DEF Tick
  <2>4. \A v \in Events : audit[v].pair \in Pairs \cup {NoPair}
    BY DEF Inv, TypeOK, EventRow
  <2>5. \A v \in Events : audit'[v].pair # NoPair => pairs'[audit'[v].pair].status # "absent"
    BY <2>2, <2>4 DEF Inv, NoDangling, has_pair
  <2>6. \A p \in Pairs : (pairs'[p].status # "absent") <=> has_pair(p)
    BY <2>2 DEF has_pair
  <2>7. \A e \in entries : entry_pair[e] \in Pairs
    BY SchemaAssumption DEF Inv, TypeOK
  <2>8. NoDangling'
    BY <2>2, <2>3, <2>5, <2>6, <2>7, SchemaAssumption DEF Inv, NoDangling, has_pair
  <2>9. OwnPending'
    BY <2>3 DEF Inv, OwnPending
  <2>10. Blank'
    <3>1. older(NoRow) = NoRow
      BY DEF older, NoRow
    <3> QED
      BY <1>5, <2>2, <3>1 DEF Tick, Inv, TypeOK, Blank
  <2> QED
    BY <2>1, <2>8, <2>9, <2>10 DEF Inv
<1>6. CASE UNCHANGED vars
  BY <1>6 DEF vars, tables, Inv, TypeOK, NoDangling, OwnPending, Blank, has_pair
<1> QED
  BY <1>1, <1>2, <1>3, <1>4, <1>5, <1>6 DEF Next

\* The inductive invariant holds in every state.
LEMMA Always == Spec => []Inv
BY InitInv, NextInv, PTL DEF Spec

\* Rows keep their types: no write, cascade or compaction leaves half a row.
THEOREM TypeCorrect == Spec => []TypeOK
BY Always, PTL DEF Inv

\* The tables never name a row that is not there.
THEOREM Consistent == Spec => []NoDangling
BY Always, PTL DEF Inv

-----------------------------------------------------------------------------
\* A step that deletes nothing.
Grows ==
  /\ entries \subseteq entries' /\ (config = "set" => config' = "set")
  /\ \A p \in Pairs : pairs[p].status # "absent" => pairs'[p].status # "absent"
  /\ \A r \in Runs : runs[r].status # "absent" => runs'[r].status # "absent"
  /\ \A o \in Ops : ops[o] # "absent" => ops'[o] # "absent"
  /\ \A k \in Conflicts : conflicts[k].status # "absent" => conflicts'[k].status # "absent"
  /\ \A v \in Events : audit[v].status # "absent" => audit'[v].status # "absent"

\* Every step but account_remove and the four DELETEs of a compaction.
LEMMA OthersGrow ==
  ASSUME Inv, [Next]_vars,
         ~\E c \in Pool : (\E a \in Accounts : account_remove(c, a)) \/ Prune(c)
  PROVE  Grows
<1> USE DEF Inv, TypeOK, Grows
<1>1. ASSUME NEW c \in Pool, Call(c) PROVE Grows
  <2>1. ASSUME NEW a \in Accounts, account_upsert(a) PROVE Grows
    BY <2>1 DEF account_upsert
  <2>2. ASSUME NEW p \in Pairs, NEW s \in {"live", "removed"}, pair_upsert(c, p, s) PROVE Grows
    <3>1. NewRow(s).status # "absent"
      BY DEF NewRow
    <3> QED
      BY <2>2, <3>1 DEF pair_upsert
  <2>3. ASSUME NEW e \in Entries, NEW o \in own_ops(e) \cup {NoOp}, file_entry_upsert(c, e, o)
        PROVE  Grows
    BY <2>3 DEF file_entry_upsert
  <2>4. ASSUME NEW r \in Runs, run_record(c, r) PROVE Grows
    <3>1. NewRow("recorded").status # "absent"
      BY DEF NewRow
    <3>2. runs' = [runs EXCEPT ![r] = IF runs[r].status = "absent" THEN NewRow("recorded") ELSE runs[r]]
      BY <2>4 DEF run_record
    <3>3. \A x \in Runs : runs[x].status # "absent" => runs'[x].status # "absent"
      BY <3>1, <3>2
    <3> QED
      BY <2>4, <3>3 DEF run_record
  <2>5. ASSUME NEW o \in Ops, op_insert(c, o) \/ \E s \in {"open", "done"} : op_update_status(o, s)
        PROVE  Grows
    BY <2>5 DEF op_insert, op_update_status
  <2>6. ASSUME NEW k \in Conflicts, conflict_insert(c, k) \/ conflict_resolve(k) PROVE Grows
    BY <2>6 DEF conflict_insert, conflict_resolve, NewRow
  <2>7. ASSUME NEW v \in Events, NEW p \in Pairs \cup {NoPair}, audit_append(c, v, p) PROVE Grows
    <3>1. NewEvent(p).status # "absent"
      BY DEF NewEvent
    <3> QED
      BY <2>7, <3>1 DEF audit_append
  <2>8. ASSUME config_upsert \/ compact_now(c) PROVE Grows
    BY <2>8 DEF config_upsert, compact_now, tables
  <2> QED
    BY <1>1, <2>1, <2>2, <2>3, <2>4, <2>5, <2>6, <2>7, <2>8 DEF Call, Upsert, Record
<1>2. ASSUME NEW c \in Pool, Fails(c) PROVE Grows
  BY <1>2 DEF Fails, tables
<1>3. CASE Restart
  BY <1>3 DEF Restart, ensure_present
<1>4. CASE Tick
  BY <1>4, OlderRow DEF Tick
<1>5. CASE UNCHANGED vars
  BY <1>5 DEF vars, tables
<1> QED
  BY <1>1, <1>2, <1>3, <1>4, <1>5 DEF Next

\* A deletion keeps what is not expired of a pair that stays.
LEMMA DeletesKeep ==
  ASSUME Inv, NEW c \in Pool, NEW P \in SUBSET Pairs, NEW R \in SUBSET Runs,
         NEW K \in SUBSET Conflicts, NEW V \in SUBSET Events, Deletes(c, P, R, K, V)
  PROVE  KeepsLive /\ KeepsRecent
<1> USE SchemaAssumption DEF Inv, TypeOK
<1>1. Takes(P, R, K, V)
  BY DeleteTakes DEF Deletes
<1>2. \A p \in P : account_id[p] \notin accounts' \/ (pairs[p].status = "removed" /\ pairs[p].age > PairDays)
  BY DEF Deletes, expired
<1>3. /\ \A r \in R : runs[r].age > RunDays
      /\ \A k \in K : conflicts[k].status = "resolved" /\ conflicts[k].age > ConflictDays
      /\ \A v \in V : audit[v].age > AuditDays
  BY DEF Deletes, expired
<1>4. /\ \A p \in Pairs : pairs'[p].status = "absent" => pairs[p].status = "absent" \/ p \in P
      /\ \A p \in Pairs : pairs'[p].status # "absent" => p \notin P
  BY <1>1 DEF Takes, NoRow
<1>5. KeepsLive
  BY <1>1, <1>2, <1>3, <1>4 DEF KeepsLive, Takes, Deletes
<1>6. \A v \in Events : audit[v].status # "absent" /\ v \notin V => audit'[v].status # "absent"
  BY <1>1 DEF Takes, EventRow
<1>7. KeepsRecent
  <2>1. /\ {RunDays, ConflictDays, PairDays, AuditDays} \subseteq Nat
        /\ \A p \in Pairs : pairs[p].age \in Nat
        /\ \A r \in Runs : runs[r].age \in Nat
        /\ \A k \in Conflicts : conflicts[k].age \in Nat
        /\ \A v \in Events : audit[v].age \in Nat
    BY StoreAssumption DEF PairRow, RunRow, ConflictRow, EventRow
  <2>2. \A r \in Runs : runs[r].age <= RunDays /\ pairs'[run_pair[r]].status # "absent"
          => r \notin R /\ run_pair[r] \notin P
    BY <1>3, <1>4, <2>1
  <2>3. \A k \in Conflicts : conflicts[k].age <= ConflictDays /\ pairs'[conflict_pair[k]].status # "absent"
          => k \notin K /\ conflict_pair[k] \notin P
    BY <1>3, <1>4, <2>1
  <2>4. \A p \in Pairs : pairs[p].age <= PairDays /\ account_id[p] \in accounts' => p \notin P
    BY <1>2, <2>1
  <2>5. \A v \in Events : audit[v].age <= AuditDays => v \notin V
    BY <1>3, <2>1
  <2>6. \A r \in Runs : r \notin R /\ run_pair[r] \notin P =>
          /\ runs'[r] = runs[r]
          /\ \A o \in Ops : run_id[o] = r => ops'[o] = ops[o]
    BY <1>1 DEF Takes, op_pair
  <2>7. \A k \in Conflicts : k \notin K /\ conflict_pair[k] \notin P => conflicts'[k] = conflicts[k]
    BY <1>1 DEF Takes
  <2> QED
    BY <1>4, <1>6, <2>2, <2>3, <2>4, <2>5, <2>6, <2>7 DEF KeepsRecent
<1> QED
  BY <1>5, <1>7

\* Every step keeps live data and recent history.
LEMMA StepsKeep == Inv /\ [Next]_vars => KeepsLive /\ KeepsRecent
<1> SUFFICES ASSUME Inv, [Next]_vars PROVE KeepsLive /\ KeepsRecent
  OBVIOUS
<1>1. ASSUME NEW c \in Pool, (\E a \in Accounts : account_remove(c, a)) \/ Prune(c)
      PROVE  KeepsLive /\ KeepsRecent
  <2>1. PICK P \in SUBSET Pairs, R \in SUBSET Runs, K \in SUBSET Conflicts, V \in SUBSET Events :
          Deletes(c, P, R, K, V)
    BY <1>1, Deletions DEF Inv
  <2> QED
    BY <2>1, DeletesKeep
<1>2. ASSUME Grows PROVE KeepsLive /\ KeepsRecent
  BY <1>2, SchemaAssumption DEF Grows, KeepsLive, KeepsRecent
<1> QED
  BY <1>1, <1>2, OthersGrow

\* Compaction and restarts never lose what belongs to a pair that is not removed.
THEOREM KeepsLiveData == Spec => LiveKept
<1>1. Inv /\ [Next]_vars => [KeepsLive]_vars
  BY StepsKeep
<1> QED
  BY <1>1, InitInv, NextInv, PTL DEF Spec, LiveKept

\* Nothing inside its retention window is deleted while its pair is there.
THEOREM KeepsRecentHistory == Spec => RecentKept
<1>1. Inv /\ [Next]_vars => [KeepsRecent]_vars
  BY StepsKeep
<1> QED
  BY <1>1, InitInv, NextInv, PTL DEF Spec, RecentKept

-----------------------------------------------------------------------------
\* The events as the in-memory store keeps them: without the pair that was cleared.
Masked == [v \in Events |-> [audit[v] EXCEPT !.pair = NoPair]]

\* The cascade of ON DELETE CASCADE and SET NULL is the one account_remove of the
\* in-memory store writes out: a pair that is not there has no rows left.
LEMMA RemoveAsInMemory ==
  ASSUME Inv, NEW c \in Pool, NEW a \in Accounts, account_remove(c, a)
  PROVE  Fake!account_remove(a)
<1> DEFINE P == {p \in Pairs : account_id[p] = a}
           I == {p \in Pairs : pairs[p].status # "absent" /\ account_id[p] = a}
<1> USE SchemaAssumption DEF Inv, TypeOK
<1>1. /\ Takes(P, {}, {}, {})
      /\ accounts' = accounts \ {a} /\ config' = config
  <2>1. {p \in Pairs : foreign_keys(c) /\ account_id[p] = a} = P
    BY DEF foreign_keys
  <2>2. Delete(c, P, {}, {}, {}) /\ accounts' = accounts \ {a} /\ config' = config
    BY <2>1 DEF account_remove
  <2> HIDE DEF P
  <2>3. P \in SUBSET Pairs
    BY DEF P
  <2> QED
    BY <2>2, <2>3, DeleteTakes
<1>2. pairs' = [p \in Pairs |-> IF p \in I THEN NoRow ELSE pairs[p]]
  BY <1>1 DEF Takes, Blank
<1>3. entries' = {e \in entries : entry_pair[e] \notin I}
  BY <1>1 DEF Takes, NoDangling, has_pair
<1>4. \A r \in Runs : run_pair[r] \in P \ I => runs[r] = NoRow
  BY DEF NoDangling, has_pair, Blank
<1>5. runs' = [r \in Runs |-> IF run_pair[r] \in I THEN NoRow ELSE runs[r]]
  BY <1>1, <1>4 DEF Takes
<1>6. ops' = [o \in Ops |-> IF op_pair(o) \in I THEN "absent" ELSE ops[o]]
  <2>1. \A o \in Ops : op_pair(o) \in P \ I => ops[o] = "absent"
    BY DEF NoDangling, has_pair, op_pair
  <2> QED
    BY <1>1, <2>1 DEF Takes
<1>7. conflicts' = [k \in Conflicts |-> IF conflict_pair[k] \in I THEN NoRow ELSE conflicts[k]]
  <2>1. \A k \in Conflicts : conflict_pair[k] \in P \ I => conflicts[k] = NoRow
    BY DEF NoDangling, has_pair, Blank
  <2> QED
    BY <1>1, <2>1 DEF Takes
<1>8. pending' = [e \in Entries |-> IF entry_pair[e] \in I THEN NoOp ELSE pending[e]]
  <2>1. \A e \in Entries : pending[e] # NoOp =>
          /\ pending[e] \in Ops /\ e \in entries
          /\ op_pair(pending[e]) = entry_pair[e] /\ (entry_pair[e] \in P => entry_pair[e] \in I)
    BY DEF OwnPending, NoDangling, has_pair
  <2>2. pending' = [e \in Entries |->
                       IF \/ e \in entries /\ entry_pair[e] \in P
                          \/ \E o \in Ops : pending[e] = o /\ op_pair(o) \in P
                       THEN NoOp ELSE pending[e]]
    BY <1>1 DEF Takes
  <2> QED
    BY <2>1, <2>2
<1>9. Masked' = Masked
  BY <1>1 DEF Takes, Masked, EventRow
<1> QED
  BY <1>1, <1>2, <1>3, <1>5, <1>6, <1>7, <1>8, <1>9
  DEF Fake!account_remove, Fake!NoRow, Fake!op_pair, NoRow, op_pair, Masked

\* Every other call is the call of the same name.
LEMMA CallAsInMemory ==
  ASSUME Inv, NEW c \in Pool, Call(c)
  PROVE  Fake!Next \/ UNCHANGED tables
<1> USE DEF Inv, TypeOK
<1>1. ASSUME NEW a \in Accounts, account_upsert(a) PROVE Fake!Next
  <2>1. Fake!account_upsert(a)
    BY <1>1 DEF account_upsert, Fake!account_upsert
  <2> QED
    BY <2>1 DEF Fake!Next
<1>2. ASSUME NEW a \in Accounts, account_remove(c, a) PROVE Fake!Next
  <2>1. Fake!account_remove(a)
    BY <1>2, RemoveAsInMemory
  <2> QED
    BY <2>1 DEF Fake!Next
<1>3. ASSUME NEW p \in Pairs, NEW s \in {"live", "removed"}, pair_upsert(c, p, s) PROVE Fake!Next
  <2>1. Fake!pair_upsert(p, s)
    BY <1>3 DEF pair_upsert, Fake!pair_upsert, NewRow, Fake!NewRow
  <2> QED
    BY <2>1 DEF Fake!Next
<1>4. ASSUME NEW e \in Entries, NEW o \in own_ops(e) \cup {NoOp}, file_entry_upsert(c, e, o)
      PROVE  Fake!Next
  <2>1. Fake!file_entry_upsert(e, o) /\ o \in Ops \cup {NoOp}
    BY <1>4 DEF file_entry_upsert, Fake!file_entry_upsert, own_ops
  <2> QED
    BY <2>1 DEF Fake!Next
<1>5. ASSUME NEW r \in Runs, run_record(c, r) PROVE Fake!Next
  <2>1. Fake!run_record(r)
    BY <1>5 DEF run_record, Fake!run_record, NewRow, Fake!NewRow
  <2> QED
    BY <2>1 DEF Fake!Next
<1>6. ASSUME NEW o \in Ops, op_insert(c, o) PROVE Fake!Next
  <2>1. Fake!op_insert(o)
    BY <1>6 DEF op_insert, Fake!op_insert
  <2> QED
    BY <2>1 DEF Fake!Next
<1>7. ASSUME NEW o \in Ops, NEW s \in {"open", "done"}, op_update_status(o, s) PROVE Fake!Next
  <2>1. Fake!op_update_status(o, s)
    BY <1>7 DEF op_update_status, Fake!op_update_status
  <2> QED
    BY <2>1 DEF Fake!Next
<1>8. ASSUME NEW k \in Conflicts, conflict_insert(c, k) PROVE Fake!Next
  <2>1. Fake!conflict_insert(k)
    BY <1>8 DEF conflict_insert, Fake!conflict_insert, NewRow, Fake!NewRow
  <2> QED
    BY <2>1 DEF Fake!Next
<1>9. ASSUME NEW k \in Conflicts, conflict_resolve(k) PROVE Fake!Next
  <2>1. Fake!conflict_resolve(k)
    BY <1>9 DEF conflict_resolve, Fake!conflict_resolve, NewRow, Fake!NewRow
  <2> QED
    BY <2>1 DEF Fake!Next
<1>10. ASSUME NEW v \in Events, NEW p \in Pairs \cup {NoPair}, audit_append(c, v, p) PROVE Fake!Next
  <2>1. Masked' = [Masked EXCEPT ![v] = NewEvent(NoPair)]
    <3>1. [NewEvent(p) EXCEPT !.pair = NoPair] = NewEvent(NoPair)
      BY DEF NewEvent
    <3>2. audit' = [audit EXCEPT ![v] = NewEvent(p)] /\ audit \in [Events -> EventRow]
      BY <1>10 DEF audit_append
    <3>3. \A w \in Events : audit'[w] = IF w = v THEN NewEvent(p) ELSE audit[w]
      BY <3>2
    <3> QED
      BY <3>1, <3>3 DEF Masked
  <2>2. Fake!audit_append(v, NoPair)
    BY <1>10, <2>1 DEF audit_append, Fake!audit_append, NewEvent, Fake!NewEvent, Masked
  <2> QED
    BY <2>2 DEF Fake!Next
<1>11. ASSUME config_upsert PROVE Fake!Next
  BY <1>11 DEF config_upsert, Fake!config_upsert, Fake!Next
<1>12. ASSUME compact_now(c) PROVE UNCHANGED tables
  BY <1>12 DEF compact_now
<1> QED
  BY <1>1, <1>2, <1>3, <1>4, <1>5, <1>6, <1>7, <1>8, <1>9, <1>10, <1>11, <1>12 DEF Call, Upsert, Record

\* A day is a day for both.
LEMMA TickAsInMemory ==
  ASSUME Inv, Tick
  PROVE  Fake!Next
<1>1. \A v \in Events : audit[v] \in EventRow
  BY DEF Inv, TypeOK
<1>2. \A row \in EventRow :
        [older(row) EXCEPT !.pair = NoPair] = older([row EXCEPT !.pair = NoPair])
  BY SchemaAssumption DEF older, EventRow
<1>3. Masked' = [v \in Events |-> older(Masked[v])]
  BY <1>1, <1>2 DEF Tick, Masked
<1>4. Fake!Tick
  BY <1>3 DEF Tick, Fake!Tick, older, Fake!older, Masked
<1> QED
  BY <1>4 DEF Fake!Next

\* What the database does, but for compaction, the in-memory store does too: tests
\* that run on it run on the behaviour of the database.
THEOREM DatabaseAsInMemory == Spec => AsInMemory
<1>1. Init => Fake!Init
  <2> SUFFICES ASSUME Init PROVE Fake!Init
    OBVIOUS
  <2>1. Masked = [v \in Events |-> NoEvent]
    BY DEF Init, Masked, NoEvent
  <2> QED
    BY <2>1 DEF Init, Fake!Init, Masked, NoRow, Fake!NoRow, NoEvent, Fake!NoEvent
<1>2. Inv /\ [Next]_vars => [(\E c \in Pool : Prune(c)) \/ Fake!Next]_tables
  <2> SUFFICES ASSUME Inv, [Next]_vars
               PROVE  (\E c \in Pool : Prune(c)) \/ Fake!Next \/ UNCHANGED tables
    OBVIOUS
  <2>1. ASSUME NEW c \in Pool, Fails(c) PROVE UNCHANGED tables
    BY <2>1 DEF Fails
  <2>2. CASE Restart
    BY <2>2 DEF Restart, ensure_present, tables
  <2>3. CASE UNCHANGED vars
    BY <2>3 DEF vars
  <2> QED
    BY <2>1, <2>2, <2>3, CallAsInMemory, TickAsInMemory DEF Next
<1> QED
  BY <1>1, <1>2, InitInv, NextInv, PTL DEF Spec, AsInMemory
=============================================================================
