------------------------------ MODULE MemStore ------------------------------
(***************************************************************************)
(* InMemoryStore (onesync-state/src/fakes.rs), the store the engine's and  *)
(* the daemon's tests run on: one map per table, no constraint between     *)
(* them, a cascade written by hand in account_remove.  It serves as the    *)
(* abstract specification of SqliteStore.                                  *)
(***************************************************************************)
EXTENDS StoreSchema

VARIABLES accounts, pairs, entries, pending, runs, ops, conflicts, audit, config

tables == <<accounts, pairs, entries, pending, runs, ops, conflicts, audit, config>>

Init ==
  /\ accounts = {} /\ entries = {} /\ config = "none"
  /\ pairs = [p \in Pairs |-> NoRow] /\ runs = [r \in Runs |-> NoRow]
  /\ pending = [e \in Entries |-> NoOp] /\ ops = [o \in Ops |-> "absent"]
  /\ conflicts = [k \in Conflicts |-> NoRow] /\ audit = [v \in Events |-> NoEvent]

account_upsert(a) ==
  /\ accounts' = accounts \cup {a}
  /\ UNCHANGED <<pairs, entries, pending, runs, ops, conflicts, audit, config>>

\* Mutant: the runs of the account's pairs stay.
account_remove_KeepsRuns(a) ==
  LET pair_ids == {p \in Pairs : pairs[p].status # "absent" /\ account_id[p] = a} IN
  /\ accounts' = accounts \ {a}
  /\ pairs' = [p \in Pairs |-> IF p \in pair_ids THEN NoRow ELSE pairs[p]]
  /\ entries' = {e \in entries : entry_pair[e] \notin pair_ids}
  /\ pending' = [e \in Entries |-> IF entry_pair[e] \in pair_ids THEN NoOp ELSE pending[e]]
  /\ ops' = [o \in Ops |-> IF op_pair(o) \in pair_ids THEN "absent" ELSE ops[o]]
  /\ conflicts' = [k \in Conflicts |-> IF conflict_pair[k] \in pair_ids THEN NoRow ELSE conflicts[k]]
  /\ UNCHANGED <<runs, audit, config>>

\* The cascade: the pairs of the account, then whatever belongs to one of them.
account_remove(a) ==
  LET pair_ids == {p \in Pairs : pairs[p].status # "absent" /\ account_id[p] = a} IN
  /\ accounts' = accounts \ {a}
  /\ pairs' = [p \in Pairs |-> IF p \in pair_ids THEN NoRow ELSE pairs[p]]
  /\ entries' = {e \in entries : entry_pair[e] \notin pair_ids}
  /\ pending' = [e \in Entries |-> IF entry_pair[e] \in pair_ids THEN NoOp ELSE pending[e]]
  /\ ops' = [o \in Ops |-> IF op_pair(o) \in pair_ids THEN "absent" ELSE ops[o]]
  /\ conflicts' = [k \in Conflicts |-> IF conflict_pair[k] \in pair_ids THEN NoRow ELSE conflicts[k]]
  /\ runs' = [r \in Runs |-> IF run_pair[r] \in pair_ids THEN NoRow ELSE runs[r]]
  /\ UNCHANGED <<audit, config>>

pair_upsert(p, s) ==
  /\ pairs' = [pairs EXCEPT ![p] = NewRow(s)]
  /\ UNCHANGED <<accounts, entries, pending, runs, ops, conflicts, audit, config>>

file_entry_upsert(e, o) ==
  /\ entries' = entries \cup {e}
  /\ pending' = [pending EXCEPT ![e] = o]
  /\ UNCHANGED <<accounts, pairs, runs, ops, conflicts, audit, config>>

\* A run is recorded again with the started_at it has.
run_record(r) ==
  /\ runs' = [runs EXCEPT ![r] = IF @.status = "absent" THEN NewRow("recorded") ELSE @]
  /\ UNCHANGED <<accounts, pairs, entries, pending, ops, conflicts, audit, config>>

op_insert(o) ==
  /\ ops' = [ops EXCEPT ![o] = "open"]
  /\ UNCHANGED <<accounts, pairs, entries, pending, runs, conflicts, audit, config>>

\* Nothing happens, and Ok is returned, when there is no such row.
op_update_status(o, s) ==
  /\ ops' = [ops EXCEPT ![o] = IF @ = "absent" THEN @ ELSE s]
  /\ UNCHANGED <<accounts, pairs, entries, pending, runs, conflicts, audit, config>>

conflict_insert(k) ==
  /\ conflicts' = [conflicts EXCEPT ![k] = NewRow("unresolved")]
  /\ UNCHANGED <<accounts, pairs, entries, pending, runs, ops, audit, config>>

conflict_resolve(k) ==
  /\ conflicts' = [conflicts EXCEPT ![k] = IF @.status = "absent" THEN @ ELSE NewRow("resolved")]
  /\ UNCHANGED <<accounts, pairs, entries, pending, runs, ops, audit, config>>

audit_append(v, p) ==
  /\ audit' = [audit EXCEPT ![v] = NewEvent(p)]
  /\ UNCHANGED <<accounts, pairs, entries, pending, runs, ops, conflicts, config>>

config_upsert ==
  /\ config' = "set"
  /\ UNCHANGED <<accounts, pairs, entries, pending, runs, ops, conflicts, audit>>

\* Time passes.
Tick ==
  /\ pairs' = [p \in Pairs |-> older(pairs[p])] /\ runs' = [r \in Runs |-> older(runs[r])]
  /\ conflicts' = [k \in Conflicts |-> older(conflicts[k])]
  /\ audit' = [v \in Events |-> older(audit[v])]
  /\ UNCHANGED <<accounts, entries, pending, ops, config>>

Next ==
  \/ \E a \in Accounts : account_upsert(a) \/ account_remove(a)
  \/ \E p \in Pairs, s \in {"live", "removed"} : pair_upsert(p, s)
  \/ \E e \in Entries, o \in Ops \cup {NoOp} : file_entry_upsert(e, o)
  \/ \E r \in Runs : run_record(r)
  \/ \E o \in Ops : op_insert(o) \/ \E s \in {"open", "done"} : op_update_status(o, s)
  \/ \E k \in Conflicts : conflict_insert(k) \/ conflict_resolve(k)
  \/ \E v \in Events, p \in Pairs \cup {NoPair} : audit_append(v, p)
  \/ config_upsert
  \/ Tick
=============================================================================
