---------------------------- MODULE StoreSchema ----------------------------
(***************************************************************************)
(* The vocabulary of the two implementations of the StateStore port: the   *)
(* identifiers a row can have and the rows it names, which never change    *)
(* (ULIDs minted with the row), the unique keys and the age of a row.      *)
(* Columns no call of the store looks at are left out.                     *)
(***************************************************************************)
EXTENDS Naturals

CONSTANTS
  Accounts,      \* account ids
  Pairs,         \* pair ids
  Entries,       \* keys (pair_id, relative_path) of file entries
  Runs,          \* sync run ids
  Ops,           \* file op ids
  Conflicts,     \* conflict ids
  Events,        \* audit event ids
  upn,           \* accounts.upn
  account_id,    \* pairs.account_id
  same_folder,   \* pairs <<p, q>> with one local_path, or one (account_id, remote_item_id)
  entry_pair,    \* file_entries.pair_id
  run_pair,      \* sync_runs.pair_id
  run_id,        \* file_ops.run_id; its pair_id is that of the run
  conflict_pair, \* conflicts.pair_id
  NoOp,          \* pending_op_id IS NULL
  NoPair,        \* audit_events.pair_id IS NULL
  MaxAge         \* bound: ages are counted up to here

ASSUME SchemaAssumption ==
  /\ account_id \in [Pairs -> Accounts] /\ entry_pair \in [Entries -> Pairs]
  /\ run_pair \in [Runs -> Pairs] /\ run_id \in [Ops -> Runs]
  /\ conflict_pair \in [Conflicts -> Pairs]
  /\ same_folder \subseteq Pairs \X Pairs
  /\ NoOp \notin Ops /\ NoPair \notin Pairs /\ MaxAge \in Nat

op_pair(o) == run_pair[run_id[o]]

\* age: days since the timestamp retention looks at (updated_at of a removed pair,
\* started_at of a run, resolved_at of a conflict, ts of an event).
NoRow == [status |-> "absent", age |-> 0]
NewRow(s) == [status |-> s, age |-> 0]
PairRow == [status : {"absent", "live", "removed"}, age : 0..MaxAge]
RunRow == [status : {"absent", "recorded"}, age : 0..MaxAge]
ConflictRow == [status : {"absent", "unresolved", "resolved"}, age : 0..MaxAge]
NewEvent(p) == [status |-> "logged", age |-> 0, pair |-> p]
NoEvent == [status |-> "absent", age |-> 0, pair |-> NoPair]
EventRow == [status : {"absent", "logged"}, age : 0..MaxAge, pair : Pairs \cup {NoPair}]

\* One day later.  The timestamps of the other rows are not looked at.
older(row) ==
  IF row.status \in {"removed", "recorded", "resolved", "logged"} /\ row.age < MaxAge
  THEN [row EXCEPT !.age = @ + 1] ELSE row
=============================================================================
