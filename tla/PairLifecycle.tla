---------------------------- MODULE PairLifecycle ----------------------------
(***************************************************************************)
(* The pair rows of the state store and the tasks that write them: the     *)
(* scheduler (crates/onesync-daemon/src/scheduler.rs), which runs one      *)
(* cycle at a time, and the JSON-RPC handlers of methods/{pair,account,    *)
(* state}.rs, one task per connection.  Every writer reads the row, awaits *)
(* and then upserts the whole row, so another writer can act in between.   *)
(* Of run_cycle only what touches the row is kept; the rest is SyncCycle.  *)
(***************************************************************************)
EXTENDS Naturals, Sequences

CONSTANTS
  NumPairs,    \* bound: pairs ever added
  NumAdded,    \* how many of them an earlier daemon has added
  Accounts,
  AccountOf,   \* Pair.account_id
  Folder,      \* Pair.local_path: the string, not the directory it leads to
  Remote,      \* Pair.remote_item_id
  Conns,       \* connections, each with at most one request in progress
  QueueDepth,  \* FORCE_QUEUE_DEPTH
  MaxToken,    \* bound: delta tokens are 1..MaxToken, 0 = None
  MaxRequests  \* bound: requests ever made

\* Pair ids are ULIDs: a later pair has a greater id.
Pairs == 1..NumPairs

NoPair == 0

ASSUME ConstantsAssumption ==
  /\ NumPairs \in Nat /\ NumAdded \in 0..NumPairs
  /\ AccountOf \in [Pairs -> Accounts]
  /\ Folder \in [Pairs -> Nat] /\ Remote \in [Pairs -> Nat]
  /\ QueueDepth \in Nat \ {0} /\ MaxToken \in Nat
  /\ MaxRequests \in Nat

VARIABLES
  accounts,  \* rows of the accounts table
  minted,    \* the newest pair id
  row,       \* the pairs table
  phase,     \* where the scheduler task is
  due,       \* pairs the scheduler has still to run
  trigger,   \* why it runs them
  cur,       \* the pair whose cycle is running
  snap,      \* its row as run_one_pair_inner read it
  copy,      \* the row run_cycle re-read to move the cursor
  token,     \* CycleSummary.delta_token
  back,      \* the phase handle_re_auth_required returns to
  listed,    \* the rows it listed and has still to write
  queue,     \* the force-sync channel
  req,       \* the request each connection is serving
  asked,     \* how many requests there have been
  seen,      \* history: newest token whose page is in the pair's file entries
  complete,  \* history: pairs whose delta was complete once
  erased,    \* history: pairs the retention has deleted
  resumed,   \* history: pairs the user has resumed
  held       \* history: pairs whose last answered request is a pause

cycle == <<cur, snap, copy, token, back, listed>>
sched == <<phase, due, trigger, cycle>>
tables == <<accounts, minted, row>>
fetched == <<seen, complete, erased>>
history == <<fetched, resumed, held>>
vars == <<tables, sched, queue, req, asked, history>>

Status == {"Initializing", "Active", "Paused", "Errored", "Removed"}

\* aged: Removed, and updated_at is more than PAIR_REMOVED_RETENTION_DAYS ago.
Row == [status : Status, paused : BOOLEAN, token : 0..MaxToken, aged : BOOLEAN]

NoRow == [status |-> "none", paused |-> FALSE, token |-> 0, aged |-> FALSE]

\* What pair.add writes.
NewRow == [status |-> "Initializing", paused |-> FALSE, token |-> 0, aged |-> FALSE]

Exists(p) == row[p] # NoRow

Command == {"pause", "resume", "remove"}

Request == [kind : Command \cup {"force"}, pair : Pairs, old : Row]

Idle == [kind |-> "none"]

Phases == {"select", "gate", "delta", "advance", "put", "exec", "persist", "reauth", "down"}

-----------------------------------------------------------------------------
\* The partial unique indexes pairs_local_path_uq and pairs_remote_uq, which compare
\* strings: another spelling of a path, or a folder inside another, is no match.
unique(p, r) ==
  r.status # "Removed" =>
    \A q \in Pairs \ {p} :
      Exists(q) /\ row[q].status # "Removed" =>
        /\ Folder[q] # Folder[p]
        /\ AccountOf[q] # AccountOf[p] \/ Remote[q] # Remote[p]

\* Mutant: pairs.account_id has no foreign key.
accepts_NoForeignKey(p, r) == unique(p, r)

\* The store takes the row: its account exists and no index is violated.
accepts(p, r) == AccountOf[p] \in accounts /\ unique(p, r)

\* pairs::upsert; updated_at is always `now'.
upserted(p, r) == [row EXCEPT ![p] = [r EXCEPT !.aged = FALSE]]

\* pair_upsert where an error is only logged.
TryUpsert(p, r) == row' = IF accepts(p, r) THEN upserted(p, r) ELSE row

Init ==
  /\ accounts = Accounts /\ minted = NumAdded
  /\ row = [p \in Pairs |-> IF p <= NumAdded THEN NewRow ELSE NoRow]
  /\ phase = "select" /\ due = {} /\ trigger = "Scheduled"
  /\ cur = NoPair /\ snap = NoRow /\ copy = NoRow /\ token = 0
  /\ back = "select" /\ listed = [p \in Pairs |-> NoRow]
  /\ queue = <<>> /\ req = [c \in Conns |-> Idle] /\ asked = 0
  /\ seen = [p \in Pairs |-> 0] /\ complete = {} /\ erased = {} /\ resumed = {} /\ held = {}

-----------------------------------------------------------------------------
\* The scheduler's select loop.  run_due_pairs: pairs_active, without the paused.
Tick ==
  /\ phase = "select" /\ due = {}
  /\ trigger' = "Scheduled"
  /\ due' = {p \in Pairs : Exists(p) /\ row[p].status # "Removed" /\ ~row[p].paused}
  /\ UNCHANGED <<tables, phase, cycle, queue, req, asked, history>>

\* Mutant: the trigger of a paused pair is dropped.
TakeForce_SkipsPaused ==
  /\ phase = "select" /\ due = {} /\ queue # <<>>
  /\ trigger' = "CliForce"
  /\ due' = {p \in {Head(queue)} : ~row[p].paused}
  /\ queue' = Tail(queue)
  /\ UNCHANGED <<tables, phase, cycle, req, asked, history>>

\* A manual trigger: whatever the status of the pair.
TakeForce ==
  /\ phase = "select" /\ due = {} /\ queue # <<>>
  /\ trigger' = "CliForce"
  /\ due' = {Head(queue)}
  /\ queue' = Tail(queue)
  /\ UNCHANGED <<tables, phase, cycle, req, asked, history>>

\* The cycle is over: run_one_pair only logs an error.
Return ==
  /\ phase' = "select"
  /\ cur' = NoPair /\ snap' = NoRow /\ copy' = NoRow /\ token' = 0
  /\ back' = "select" /\ listed' = [p \in Pairs |-> NoRow]
  /\ UNCHANGED <<due, trigger>>

\* run_one_pair_inner reads the row and keeps it to the end of the cycle.  The
\* due pairs come in order of id.
LookUp(p) ==
  /\ phase = "select" /\ p \in due /\ \A q \in due : p <= q
  /\ due' = due \ {p}
  /\ IF Exists(p)
       THEN phase' = "gate" /\ cur' = p /\ snap' = row[p]
       ELSE UNCHANGED <<phase, cur, snap>>
  /\ UNCHANGED <<tables, trigger, copy, token, back, listed, queue, req, asked, history>>

\* No account, no client id, a port error in the cycle: nothing is written.
CycleFails ==
  /\ phase \in {"gate", "delta", "advance", "exec"}
  /\ Return
  /\ UNCHANGED <<tables, queue, req, asked, history>>

\* The free-space gate.
mark_pair_errored ==
  /\ phase = "gate"
  /\ TryUpsert(cur, [snap EXCEPT !.status = "Errored"])
  /\ Return
  /\ UNCHANGED <<accounts, minted, queue, req, asked, history>>

\* Mutant: the drive's newest token is stored before its changes are read.
StartCycle_CursorFirst ==
  /\ phase = "gate"
  /\ phase' = "delta"
  /\ TryUpsert(cur, [snap EXCEPT !.token = MaxToken])
  /\ UNCHANGED <<accounts, minted, due, trigger, cycle, queue, req, asked, history>>

StartCycle ==
  /\ phase = "gate"
  /\ phase' = "delta"
  /\ UNCHANGED <<tables, due, trigger, cycle, queue, req, asked, history>>

\* phase_delta_reconcile returns: the items of the page are in the store as long as
\* the row they refer to is, and there is a token (the drive's newest) unless the
\* page was not the last one.
DeltaDone ==
  /\ phase = "delta"
  /\ \E t \in {0} \cup {x \in 1..MaxToken : x >= seen[cur] /\ x >= snap.token} :
       /\ token' = t
       /\ seen' = [seen EXCEPT ![cur] = IF t # 0 /\ Exists(cur) THEN t ELSE @]
       /\ complete' = IF t # 0 THEN complete \cup {cur} ELSE complete
  /\ phase' = "advance"
  /\ UNCHANGED <<tables, due, trigger, cur, snap, copy, back, listed, queue, req, asked, erased,
                 resumed, held>>

\* run_cycle re-reads the row to move its cursor ...
AdvanceGet ==
  /\ phase = "advance"
  /\ IF Exists(cur) /\ row[cur].token # token
       THEN phase' = "put" /\ copy' = row[cur]
       ELSE phase' = "exec" /\ UNCHANGED copy
  /\ UNCHANGED <<tables, due, trigger, cur, snap, token, back, listed, queue, req, asked, history>>

\* ... and upserts it; here an error ends the cycle.
AdvancePut ==
  /\ phase = "put"
  /\ LET r == [copy EXCEPT !.token = token] IN
       /\ TryUpsert(cur, r)
       /\ IF accepts(cur, r)
            THEN phase' = "exec" /\ copy' = NoRow
                 /\ UNCHANGED <<due, trigger, cur, snap, token, back, listed>>
            ELSE Return
  /\ UNCHANGED <<accounts, minted, queue, req, asked, history>>

\* run_record: sync_runs.pair_id refers to the row.
RunRecord ==
  /\ phase = "exec"
  /\ IF Exists(cur)
       THEN phase' = "persist" /\ UNCHANGED <<due, trigger, cycle>>
       ELSE Return
  /\ UNCHANGED <<tables, queue, req, asked, history>>

\* Mutant: the pair is promoted whether or not the first delta is complete.
persist_post_cycle_NoToken ==
  /\ phase = "persist"
  /\ LET promote == snap.status = "Initializing"
         new_cursor == IF token # 0 THEN token ELSE snap.token
     IN IF ~promote /\ new_cursor = snap.token
          THEN UNCHANGED row
          ELSE TryUpsert(cur, [snap EXCEPT !.status = IF promote THEN "Active" ELSE @,
                                           !.token = new_cursor])
  /\ Return
  /\ UNCHANGED <<accounts, minted, queue, req, asked, history>>

\* The row as it was before the cycle, with the new cursor and the promotion.
persist_post_cycle ==
  /\ phase = "persist"
  /\ LET promote == snap.status = "Initializing" /\ token # 0
         new_cursor == IF token # 0 THEN token ELSE snap.token
     IN IF ~promote /\ new_cursor = snap.token
          THEN UNCHANGED row
          ELSE TryUpsert(cur, [snap EXCEPT !.status = IF promote THEN "Active" ELSE @,
                                           !.token = new_cursor])
  /\ Return
  /\ UNCHANGED <<accounts, minted, queue, req, asked, history>>

\* access_token learns that the refresh token is revoked, in the delta request or
\* in that of an operation: handle_re_auth_required lists the account's pairs ...
ReAuthRequired ==
  /\ phase \in {"delta", "exec"}
  /\ listed' = [p \in Pairs |->
       IF Exists(p) /\ AccountOf[p] = AccountOf[cur] /\ row[p].status # "Removed"
         THEN row[p] ELSE NoRow]
  /\ back' = phase
  /\ phase' = "reauth"
  /\ UNCHANGED <<tables, due, trigger, cur, snap, copy, token, queue, req, asked, history>>

\* ... and upserts each of them, in order of id.
ReAuthMark(p) ==
  /\ phase = "reauth" /\ listed[p] # NoRow /\ \A q \in Pairs : listed[q] # NoRow => p <= q
  /\ TryUpsert(p, [listed[p] EXCEPT !.status = "Errored"])
  /\ listed' = [listed EXCEPT ![p] = NoRow]
  /\ UNCHANGED <<accounts, minted, phase, due, trigger, cur, snap, copy, token, back, queue,
                 req, asked, history>>


\* The request fails: a failed delta ends the cycle, a failed operation does not.
ReAuthDone ==
  /\ phase = "reauth" /\ \A p \in Pairs : listed[p] = NoRow
  /\ IF back = "delta"
       THEN Return
       ELSE phase' = back /\ back' = "select"
            /\ UNCHANGED <<due, trigger, cur, snap, copy, token, listed>>
  /\ UNCHANGED <<tables, queue, req, asked, history>>

-----------------------------------------------------------------------------
Ask == phase # "down" /\ asked < MaxRequests /\ asked' = asked + 1

\* pair.add: everything before its one write may fail, and then nothing is written.
Add(p) ==
  /\ Ask /\ p = minted + 1
  /\ minted' = p
  /\ TryUpsert(p, NewRow)
  /\ UNCHANGED <<accounts, sched, queue, req, history>>

\* require_pair, the first step of the other four handlers, takes any status.
require_pair(c, p, kind) ==
  /\ Ask /\ req[c] = Idle /\ Exists(p)
  /\ req' = [req EXCEPT ![c] = [kind |-> kind, pair |-> p, old |-> row[p]]]
  /\ UNCHANGED <<tables, sched, queue, history>>

\* What the handler makes of the row it has read: set_paused and remove.
commanded(q) ==
  CASE q.kind = "pause"  -> [q.old EXCEPT !.status = "Paused", !.paused = TRUE]
    [] q.kind = "resume" -> [q.old EXCEPT !.status = "Active", !.paused = FALSE]
    [] q.kind = "remove" -> [q.old EXCEPT !.status = "Removed", !.paused = TRUE]

\* The upsert of a handler, and its answer.
Answer(c) ==
  /\ req[c] # Idle /\ req[c].kind \in Command
  /\ LET q == req[c] IN
       /\ TryUpsert(q.pair, commanded(q))
       /\ IF accepts(q.pair, commanded(q))
            THEN /\ resumed' = IF q.kind = "resume" THEN resumed \cup {q.pair} ELSE resumed
                 /\ held' = IF q.kind = "pause" THEN held \cup {q.pair} ELSE held \ {q.pair}
            ELSE UNCHANGED <<resumed, held>>
  /\ req' = [req EXCEPT ![c] = Idle]
  /\ UNCHANGED <<accounts, minted, sched, queue, asked, fetched>>

\* Mutant: an unbounded channel.
ForceSync_NoWait(c) ==
  /\ req[c] # Idle /\ req[c].kind = "force"
  /\ queue' = Append(queue, req[c].pair)
  /\ req' = [req EXCEPT ![c] = Idle]
  /\ UNCHANGED <<tables, sched, asked, history>>

\* pair.force_sync waits for a free place in the channel.
ForceSync(c) ==
  /\ req[c] # Idle /\ req[c].kind = "force"
  /\ Len(queue) < QueueDepth
  /\ queue' = Append(queue, req[c].pair)
  /\ req' = [req EXCEPT ![c] = Idle]
  /\ UNCHANGED <<tables, sched, asked, history>>

\* Deleting rows of the pairs table cascades to their file entries.
forget(P) == seen' = [p \in Pairs |-> IF p \in P THEN 0 ELSE seen[p]]

\* account.remove: the delete cascades to the account's pairs.
AccountRemove(a) ==
  /\ phase # "down" /\ a \in accounts
  /\ accounts' = accounts \ {a}
  /\ row' = [p \in Pairs |-> IF AccountOf[p] = a THEN NoRow ELSE row[p]]
  /\ forget({p \in Pairs : AccountOf[p] = a})
  /\ UNCHANGED <<minted, sched, queue, req, asked, complete, erased, resumed, held>>

\* Seven days pass; no request and no round of cycles takes that long.
TimePasses ==
  /\ phase \in {"select", "down"} /\ due = {} /\ \A c \in Conns : req[c] = Idle
  /\ row' = [p \in Pairs |->
               IF row[p].status = "Removed" THEN [row[p] EXCEPT !.aged = TRUE] ELSE row[p]]
  /\ UNCHANGED <<accounts, minted, sched, queue, req, asked, history>>

\* state.compact.now: retention::run deletes the pairs removed long ago.
compact_now ==
  /\ phase # "down"
  /\ LET old == {p \in Pairs : row[p].status = "Removed" /\ row[p].aged}
     IN /\ row' = [p \in Pairs |-> IF p \in old THEN NoRow ELSE row[p]]
        /\ forget(old)
        /\ erased' = erased \cup old
  /\ UNCHANGED <<accounts, minted, sched, queue, req, asked, complete, resumed, held>>

\* The daemon dies or is stopped: the tasks and the channel go with it.
Crash ==
  /\ phase # "down" /\ phase' = "down"
  /\ due' = {} /\ trigger' = "Scheduled"
  /\ cur' = NoPair /\ snap' = NoRow /\ copy' = NoRow /\ token' = 0
  /\ back' = "select" /\ listed' = [p \in Pairs |-> NoRow]
  /\ queue' = <<>> /\ req' = [c \in Conns |-> Idle]
  /\ UNCHANGED <<tables, asked, history>>

Start ==
  /\ phase = "down" /\ phase' = "select"
  /\ UNCHANGED <<tables, due, trigger, cycle, queue, req, asked, history>>

\* A request fails before it writes.
RequestFails(c) ==
  /\ req[c] # Idle
  /\ req' = [req EXCEPT ![c] = Idle]
  /\ UNCHANGED <<tables, sched, queue, asked, history>>

-----------------------------------------------------------------------------
\* A step of the scheduler task inside a cycle, and any of its steps.
CycleStep ==
  \/ CycleFails \/ mark_pair_errored \/ StartCycle \/ DeltaDone \/ AdvanceGet \/ AdvancePut
  \/ RunRecord \/ persist_post_cycle \/ ReAuthRequired \/ ReAuthDone
  \/ \E p \in Pairs : ReAuthMark(p)

SchedulerStep == Tick \/ TakeForce \/ CycleStep \/ \E p \in Pairs : LookUp(p)

HandlerStep(c) ==
  \/ \E p \in Pairs, kind \in Command \cup {"force"} : require_pair(c, p, kind)
  \/ Answer(c) \/ ForceSync(c) \/ RequestFails(c)

Next ==
  \/ SchedulerStep
  \/ \E p \in Pairs : Add(p)
  \/ \E c \in Conns : HandlerStep(c)
  \/ \E a \in Accounts : AccountRemove(a)
  \/ TimePasses \/ compact_now \/ Crash \/ Start

\* The runtime polls the scheduler's task; select! chooses at random among the
\* ready branches; a cycle has finitely many operations that can report re-auth.
Fairness ==
  /\ WF_vars(SchedulerStep) /\ SF_vars(Tick) /\ SF_vars(TakeForce) /\ SF_vars(RunRecord)

Spec == Init /\ [][Next]_vars /\ Fairness

-----------------------------------------------------------------------------
TypeOK ==
  /\ accounts \subseteq Accounts /\ minted \in 0..NumPairs
  /\ row \in [Pairs -> Row \cup {NoRow}]
  /\ phase \in Phases /\ due \subseteq Pairs /\ trigger \in {"Scheduled", "CliForce"}
  /\ snap \in Row \cup {NoRow} /\ copy \in Row \cup {NoRow} /\ token \in 0..MaxToken
  /\ cur \in Pairs \cup {NoPair}
  /\ phase \notin {"select", "down"} => cur \in Pairs /\ snap \in Row
  /\ phase = "put" => copy \in Row
  /\ back \in {"select", "delta", "exec"} /\ listed \in [Pairs -> Row \cup {NoRow}]
  /\ queue \in Seq(Pairs) /\ Len(queue) <= QueueDepth
  /\ req \in [Conns -> Request \cup {Idle}]
  /\ asked \in 0..MaxRequests
  /\ seen \in [Pairs -> 0..MaxToken] /\ complete \subseteq Pairs /\ erased \subseteq Pairs
  /\ resumed \subseteq Pairs /\ held \subseteq Pairs

\* A pair deleted with its account does not come back, although the cycle or the
\* handler that held its row upserts it afterwards.
NoOrphanPair == \A p \in Pairs : Exists(p) => AccountOf[p] \in accounts

\* The stored cursor is never ahead of the pages in the pair's file entries,
\* whichever task's copy of the row is written back last; it may fall behind.  The
\* one exception is a pair the retention has deleted, entries and all: a handler or
\* a cycle that had read the row before puts it back with its cursor.
CursorNeverAhead == \A p \in Pairs \ erased : row[p].token <= seen[p]

\* A pair becomes Active by itself only after its first complete delta.
FirstDeltaBeforeActive ==
  \A p \in Pairs : row[p].status = "Active" => p \in resumed \cup complete

Queued(p) == \E i \in 1..Len(queue) : queue[i] = p

\* The scheduler runs the pair of every manual trigger in the channel, unless the
\* daemon goes down first: neither ticks nor the triggers before it starve it.
ForceSyncServed ==
  \A p \in Pairs : Queued(p) ~> (trigger = "CliForce" /\ p \in due) \/ phase = "down"

Runnable(p) == Exists(p) /\ row[p].status # "Removed" /\ ~row[p].paused


\* "`Paused' - user-paused.  No runs are scheduled": a tick never selects a pair
\* whose last answered request is a pause.
PauseHolds ==
  [][\A p \in due' \ due : trigger' = "Scheduled" => p \notin held]_vars
=============================================================================
