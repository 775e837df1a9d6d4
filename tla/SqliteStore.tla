---------------------------- MODULE SqliteStore ----------------------------
(***************************************************************************)
(* SqliteStore: every call takes a connection of the pool and runs one     *)
(* statement in a transaction of its own, except compact_now, which runs   *)
(* the four DELETEs of retention::run one by one while other connections   *)
(* go on.  A statement SQLite refuses changes nothing and is no step.      *)
(* What cascades is said by the REFERENCES clauses of V001.                *)
(***************************************************************************)
EXTENDS StoreSchema

CONSTANTS
  Pool,          \* connections
  First,         \* the one that runs the migrations
  AuditDays,     \* AUDIT_RETENTION_DAYS
  RunDays,       \* RUN_HISTORY_RETENTION_DAYS
  ConflictDays,  \* CONFLICT_RETENTION_DAYS
  PairDays       \* PAIR_REMOVED_RETENTION_DAYS

ASSUME StoreAssumption ==
  /\ First \in Pool
  /\ {AuditDays, RunDays, ConflictDays, PairDays} \subseteq 0..(MaxAge - 1)

VARIABLES
  accounts,   \* the tables: set of ids
  pairs,      \* id -> row
  entries,    \* set of keys
  pending,    \* pending_op_id of the entries
  runs, ops, conflicts, audit, config,
  pass        \* connection -> the DELETE of retention::run it is at, 0 = none

tables == <<accounts, pairs, entries, pending, runs, ops, conflicts, audit, config>>
vars == <<tables, pass>>

Init ==
  /\ accounts = {} /\ entries = {} /\ config = "default"
  /\ pairs = [p \in Pairs |-> NoRow] /\ runs = [r \in Runs |-> NoRow]
  /\ pending = [e \in Entries |-> NoOp] /\ ops = [o \in Ops |-> "absent"]
  /\ conflicts = [k \in Conflicts |-> NoRow] /\ audit = [v \in Events |-> NoEvent]
  /\ pass = [c \in Pool |-> 0]

has_pair(p) == pairs[p].status # "absent"

\* Mutant: the pragma is set once, where the migrations run.
foreign_keys_Once(c) == c = First

\* with_init sets the pragma on every connection the pool opens.
foreign_keys(c) == c \in Pool

-----------------------------------------------------------------------------
\* Mutant: ON DELETE CASCADE instead of SET NULL.
pending_op_id_Cascade(e, O) == [row |-> pending[e] \in O, null |-> FALSE]

\* pending_op_id REFERENCES file_ops(id) ON DELETE SET NULL: what becomes of the
\* entry when the ops in O are deleted.
pending_op_id(e, O) == [row |-> FALSE, null |-> pending[e] \in O]

\* The statement deletes the pairs P, runs R, conflicts K and events V, and with
\* them, where foreign keys are enforced, the rows that refer to them.
Delete(c, P, R, K, V) ==
  LET fk == foreign_keys(c)
      R1 == {r \in Runs : r \in R \/ (fk /\ run_pair[r] \in P)}
      O1 == {o \in Ops : fk /\ (run_id[o] \in R1 \/ op_pair(o) \in P)}
      E1 == {e \in entries : fk /\ (entry_pair[e] \in P \/ pending_op_id(e, O1).row)}
      K1 == {k \in Conflicts : k \in K \/ (fk /\ conflict_pair[k] \in P)}
  IN /\ pairs' = [p \in Pairs |-> IF p \in P THEN NoRow ELSE pairs[p]]
     /\ runs' = [r \in Runs |-> IF r \in R1 THEN NoRow ELSE runs[r]]
     /\ ops' = [o \in Ops |-> IF o \in O1 THEN "absent" ELSE ops[o]]
     /\ entries' = entries \ E1
     /\ pending' = [e \in Entries |->
                      IF e \in E1 \/ pending_op_id(e, O1).null THEN NoOp ELSE pending[e]]
     /\ conflicts' = [k \in Conflicts |-> IF k \in K1 THEN NoRow ELSE conflicts[k]]
     /\ audit' = [v \in Events |->
                    IF v \in V THEN NoEvent
                    ELSE IF fk /\ audit[v].pair \in P THEN [audit[v] EXCEPT !.pair = NoPair]
                    ELSE audit[v]]

-----------------------------------------------------------------------------
account_upsert(a) ==
  /\ \A b \in accounts \ {a} : upn[b] # upn[a]
  /\ accounts' = accounts \cup {a}
  /\ UNCHANGED <<pairs, entries, pending, runs, ops, conflicts, audit, config, pass>>

account_remove(c, a) ==
  /\ accounts' = accounts \ {a}
  /\ Delete(c, {p \in Pairs : foreign_keys(c) /\ account_id[p] = a}, {}, {}, {})
  /\ UNCHANGED <<config, pass>>

\* The two unique indexes are over pairs that are not removed.
pair_upsert(c, p, s) ==
  /\ foreign_keys(c) => account_id[p] \in accounts
  /\ s # "removed" => \A q \in Pairs \ {p} : <<p, q>> \in same_folder => pairs[q].status # "live"
  /\ pairs' = [pairs EXCEPT ![p] = NewRow(s)]
  /\ UNCHANGED <<accounts, entries, pending, runs, ops, conflicts, audit, config, pass>>

file_entry_upsert(c, e, o) ==
  /\ foreign_keys(c) => has_pair(entry_pair[e]) /\ (o # NoOp => ops[o] # "absent")
  /\ entries' = entries \cup {e}
  /\ pending' = [pending EXCEPT ![e] = o]
  /\ UNCHANGED <<accounts, pairs, runs, ops, conflicts, audit, config, pass>>

\* Inserts the run, or updates columns other than started_at.
run_record(c, r) ==
  /\ foreign_keys(c) => has_pair(run_pair[r])
  /\ runs' = [runs EXCEPT ![r] = IF @.status = "absent" THEN NewRow("recorded") ELSE @]
  /\ UNCHANGED <<accounts, pairs, entries, pending, ops, conflicts, audit, config, pass>>

op_insert(c, o) ==
  /\ ops[o] = "absent"
  /\ foreign_keys(c) => runs[run_id[o]].status = "recorded" /\ has_pair(op_pair(o))
  /\ ops' = [ops EXCEPT ![o] = "open"]
  /\ UNCHANGED <<accounts, pairs, entries, pending, runs, conflicts, audit, config, pass>>

\* An UPDATE of no row is no error.
op_update_status(o, s) ==
  /\ ops[o] # "absent"
  /\ ops' = [ops EXCEPT ![o] = s]
  /\ UNCHANGED <<accounts, pairs, entries, pending, runs, conflicts, audit, config, pass>>

conflict_insert(c, k) ==
  /\ conflicts[k].status = "absent"
  /\ foreign_keys(c) => has_pair(conflict_pair[k])
  /\ conflicts' = [conflicts EXCEPT ![k] = NewRow("unresolved")]
  /\ UNCHANGED <<accounts, pairs, entries, pending, runs, ops, audit, config, pass>>

conflict_resolve(k) ==
  /\ conflicts[k].status # "absent"
  /\ conflicts' = [conflicts EXCEPT ![k] = NewRow("resolved")]
  /\ UNCHANGED <<accounts, pairs, entries, pending, runs, ops, audit, config, pass>>

audit_append(c, v, p) ==
  /\ audit[v].status = "absent"
  /\ foreign_keys(c) /\ p # NoPair => has_pair(p)
  /\ audit' = [audit EXCEPT ![v] = NewEvent(p)]
  /\ UNCHANGED <<accounts, pairs, entries, pending, runs, ops, conflicts, config, pass>>

config_upsert ==
  /\ config' = "set"
  /\ UNCHANGED <<accounts, pairs, entries, pending, runs, ops, conflicts, audit, pass>>

-----------------------------------------------------------------------------
\* Mutant: rows on the edge of the window go too.
expired_OneDayEarly(row, s, days) == row.status = s /\ row.age >= days

\* timestamp < now - window.
expired(row, s, days) == row.status = s /\ row.age > days

compact_now(c) ==
  /\ pass' = [pass EXCEPT ![c] = 1]
  /\ UNCHANGED tables

At(c, n) == pass[c] = n

prune_audit(c) ==
  /\ At(c, 1) /\ pass' = [pass EXCEPT ![c] = 2]
  /\ Delete(c, {}, {}, {}, {v \in Events : expired(audit[v], "logged", AuditDays)})
  /\ UNCHANGED <<accounts, config>>

prune_runs(c) ==
  /\ At(c, 2) /\ pass' = [pass EXCEPT ![c] = 3]
  /\ Delete(c, {}, {r \in Runs : expired(runs[r], "recorded", RunDays)}, {}, {})
  /\ UNCHANGED <<accounts, config>>

prune_conflicts(c) ==
  /\ At(c, 3) /\ pass' = [pass EXCEPT ![c] = 4]
  /\ Delete(c, {}, {}, {k \in Conflicts : expired(conflicts[k], "resolved", ConflictDays)}, {})
  /\ UNCHANGED <<accounts, config>>

\* Mutant: the connection is not given back.
prune_pairs_GoesOn(c) ==
  /\ At(c, 4) /\ pass' = [pass EXCEPT ![c] = 5]
  /\ Delete(c, {p \in Pairs : expired(pairs[p], "removed", PairDays)}, {}, {}, {})
  /\ UNCHANGED <<accounts, config>>

\* The last DELETE; PRAGMA optimize and VACUUM leave the rows alone.
prune_pairs(c) ==
  /\ At(c, 4) /\ pass' = [pass EXCEPT ![c] = 0]
  /\ Delete(c, {p \in Pairs : expired(pairs[p], "removed", PairDays)}, {}, {}, {})
  /\ UNCHANGED <<accounts, config>>

\* A DELETE fails and the pass ends there.
Fails(c) ==
  /\ pass[c] # 0 /\ pass' = [pass EXCEPT ![c] = 0]
  /\ UNCHANGED tables

\* INSERT OR IGNORE of the default row.
ensure_present == config' = config

\* The daemon ends, in whatever pass it is, and opens the database again.
Restart ==
  /\ pass' = [c \in Pool |-> 0]
  /\ ensure_present
  /\ UNCHANGED <<accounts, pairs, entries, pending, runs, ops, conflicts, audit>>

\* A pass takes less than a day.
Tick ==
  /\ \A c \in Pool : pass[c] = 0
  /\ pairs' = [p \in Pairs |-> older(pairs[p])] /\ runs' = [r \in Runs |-> older(runs[r])]
  /\ conflicts' = [k \in Conflicts |-> older(conflicts[k])]
  /\ audit' = [v \in Events |-> older(audit[v])]
  /\ UNCHANGED <<accounts, entries, pending, ops, config, pass>>

\* An entry waits for an operation on itself, so of its own pair.
own_ops(e) == {o \in Ops : op_pair(o) = entry_pair[e]}

\* What the engine and the handlers look up and replace ...
Upsert(c) ==
  \/ \E a \in Accounts : account_upsert(a)
  \/ \E p \in Pairs, s \in {"live", "removed"} : pair_upsert(c, p, s)
  \/ \E e \in Entries : \E o \in own_ops(e) \cup {NoOp} : file_entry_upsert(c, e, o)

\* ... what they record ...
Record(c) ==
  \/ \E r \in Runs : run_record(c, r)
  \/ \E o \in Ops : op_insert(c, o) \/ \E s \in {"open", "done"} : op_update_status(o, s)
  \/ \E k \in Conflicts : conflict_insert(c, k)
  \/ \E v \in Events, p \in Pairs \cup {NoPair} : audit_append(c, v, p)
  \/ config_upsert

\* ... and what the user asks for.
Call(c) ==
  \/ Upsert(c) \/ Record(c)
  \/ \E a \in Accounts : account_remove(c, a)
  \/ \E k \in Conflicts : conflict_resolve(k)
  \/ compact_now(c)

Prune(c) == prune_audit(c) \/ prune_runs(c) \/ prune_conflicts(c) \/ prune_pairs(c)

Next ==
  \/ \E c \in Pool : (At(c, 0) /\ Call(c)) \/ Prune(c) \/ Fails(c)
  \/ Restart
  \/ Tick

Spec == Init /\ [][Next]_vars

-----------------------------------------------------------------------------
TypeOK ==
  /\ accounts \subseteq Accounts /\ entries \subseteq Entries
  /\ pairs \in [Pairs -> PairRow] /\ runs \in [Runs -> RunRow]
  /\ pending \in [Entries -> Ops \cup {NoOp}]
  /\ ops \in [Ops -> {"absent", "open", "done"}]
  /\ conflicts \in [Conflicts -> ConflictRow] /\ audit \in [Events -> EventRow]
  /\ config \in {"default", "set"} /\ pass \in [Pool -> 0..4]

\* No row names a row that is not there, whatever connection each statement ran
\* on and wherever a compaction stopped.
NoDangling ==
  /\ \A p \in Pairs : has_pair(p) => account_id[p] \in accounts
  /\ \A e \in entries : has_pair(entry_pair[e]) /\ (pending[e] # NoOp => ops[pending[e]] # "absent")
  /\ \A r \in Runs : runs[r].status # "absent" => has_pair(run_pair[r])
  /\ \A o \in Ops : ops[o] # "absent" => runs[run_id[o]].status # "absent"
  /\ \A k \in Conflicts : conflicts[k].status # "absent" => has_pair(conflict_pair[k])
  /\ \A v \in Events : audit[v].pair # NoPair => has_pair(audit[v].pair)

KeepsLive ==
  /\ \A p \in Pairs : pairs[p].status = "live" /\ account_id[p] \in accounts' =>
       /\ pairs'[p].status # "absent"
       /\ \A e \in entries : entry_pair[e] = p => e \in entries'
       /\ \A k \in Conflicts : conflict_pair[k] = p /\ conflicts[k].status = "unresolved"
                                 => conflicts'[k].status # "absent"
  /\ config = "set" => config' = "set"

\* Only account.remove takes anything from a pair that is not removed: neither
\* compaction nor a restart loses the pair, what is known of its files, an
\* unresolved conflict, or the settings.
LiveKept == [][KeepsLive]_vars

KeepsRecent ==
  /\ \A r \in Runs : runs[r].status # "absent" /\ runs[r].age <= RunDays
                       /\ pairs'[run_pair[r]].status # "absent" =>
       /\ runs'[r].status # "absent"
       /\ \A o \in Ops : run_id[o] = r /\ ops[o] # "absent" => ops'[o] # "absent"
  /\ \A k \in Conflicts : conflicts[k].status = "resolved" /\ conflicts[k].age <= ConflictDays
                            /\ pairs'[conflict_pair[k]].status # "absent"
                              => conflicts'[k].status # "absent"
  /\ \A p \in Pairs : pairs[p].status = "removed" /\ pairs[p].age <= PairDays
                        /\ account_id[p] \in accounts' => pairs'[p].status # "absent"
  /\ \A v \in Events : audit[v].status # "absent" /\ audit[v].age <= AuditDays
                         => audit'[v].status # "absent"

\* History is kept for its window: the runs, operations and resolved conflicts of a
\* pair that is still there, a removed pair of an account that is still there, and
\* every event.
RecentKept == [][KeepsRecent]_vars

\* The in-memory store, which does not clear pair_id of the events of a pair and has
\* no settings where the database has the default ones.
Fake == INSTANCE MemStore
  WITH audit <- [v \in Events |-> [audit[v] EXCEPT !.pair = NoPair]],
       config <- IF config = "default" THEN "none" ELSE config

\* What a call does to the database it does to the in-memory store: every step but
\* those of a compaction is a step of it.
AsInMemory == Fake!Init /\ [][(\E c \in Pool : Prune(c)) \/ Fake!Next]_tables
=============================================================================
