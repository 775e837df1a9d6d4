------------------------------ MODULE Accounts ------------------------------
(***************************************************************************)
(* Accounts, logins and refresh tokens: the handlers of methods/account.rs *)
(* with the login registry and the loopback listener, and the three places *)
(* that refresh a token (the scheduler's VaultBackedTokenSource, pair.add  *)
(* and account.add_sharepoint).  An account is a row of the accounts table *)
(* and an entry of the keychain under the same id; no transaction spans    *)
(* the two.  One task per connection, and the scheduler's.                 *)
(***************************************************************************)
EXTENDS Naturals

CONSTANTS
  Users,       \* upn of the people who sign in
  NumIds,      \* bound: account ids ever minted
  NumLogins,   \* bound: logins ever begun
  Ports,       \* ephemeral ports of the loopback interface
  Conns,       \* connections, each with at most one request in progress
  Sched,       \* the scheduler's task
  MaxSerial,   \* bound: refresh tokens ever issued
  MaxRequests, \* bound: requests other than logins, and cycles
  MaxAttempts, \* TOKEN_REFRESH_MAX_ATTEMPTS
  NoUser       \* no row

Ids == 1..NumIds

Logins == 1..NumLogins

Tasks == Conns \cup {Sched}

ASSUME ConstantsAssumption ==
  /\ NumIds \in Nat /\ NumLogins \in Nat /\ MaxSerial \in Nat /\ MaxRequests \in Nat
  /\ MaxAttempts \in Nat \ {0}
  /\ Sched \notin Conns /\ NoUser \notin Users

VARIABLES
  rows,      \* the accounts table: id -> upn
  minted,    \* the newest account id
  vault,     \* the keychain: id -> serial of the refresh token, 0 = no entry
  issued,    \* Microsoft: serial of the newest token
  begun,     \* the newest login handle
  sessions,  \* LoginRegistry
  listener,  \* the listener task of each login
  port,      \* ... and its port
  code,      \* the code it has sent: the login whose page produced it, 0 = none
  page,      \* logins whose sign-in page is still open in a browser
  signed,    \* who signed in on that page
  task,      \* what each task is doing
  asked,     \* how many requests there have been
  newest,    \* history: the newest token issued for the account
  behind,    \* history: accounts whose newest token cannot reach the keychain
  raced,     \* history: accounts refreshed by two tasks at once
  removals,  \* history: accounts account.remove was called for
  base,      \* history: the account a SharePoint library was added with, 0 = none
  sent       \* history: how often the code of a login was sent to Microsoft

stored == <<rows, minted, vault, base>>
login == <<begun, sessions, listener, port, code, page, signed, sent>>
history == <<newest, behind, raced>>
vars == <<stored, issued, login, task, asked, history, removals>>

\* acct: the account served, or the handle of a login.
Task == [op   : {"login", "pair_add", "sharepoint", "cycle", "remove"},
         pc   : {"code", "exchange", "load", "refresh", "keychain", "row", "delete", "cached"},
         acct : Nat, user : Users \cup {NoUser}, tok : 0..MaxSerial, tries : 0..(MaxAttempts - 1)]

New(op, pc, a, u) == [op |-> op, pc |-> pc, acct |-> a, user |-> u, tok |-> 0, tries |-> 0]

Idle == New("none", "none", 0, NoUser)

At(t, pc) == task[t].pc = pc

Refresher(t) == task[t].op \in {"pair_add", "sharepoint", "cycle"}

\* The task has a token of the account in hand and may still store its successor.
Holds(t, a) == Refresher(t) /\ task[t].acct = a /\ task[t].pc \in {"refresh", "keychain"}

Goto(t, pc) == task' = [task EXCEPT ![t].pc = pc]

Done(t) == task' = [task EXCEPT ![t] = Idle]

\* access_token returns an error: the cycle fails one operation and asks again for
\* the next one; a request is over.
Abort(t) == IF task[t].op = "cycle" THEN Goto(t, "load") ELSE Done(t)

\* The unique index accounts_upn_uq.
accepts(u) == \A a \in Ids : rows[a] # u

Init ==
  /\ rows = [a \in Ids |-> NoUser] /\ minted = 0 /\ vault = [a \in Ids |-> 0] /\ issued = 0
  /\ begun = 0 /\ sessions = {} /\ listener = [h \in Logins |-> "none"]
  /\ port \in [Logins -> Ports] /\ code = [h \in Logins |-> 0]
  /\ page = {} /\ signed = [h \in Logins |-> NoUser]
  /\ task = [t \in Tasks |-> Idle] /\ asked = 0
  /\ newest = [a \in Ids |-> 0] /\ behind = {} /\ raced = {} /\ removals = {}
  /\ base = [a \in Ids |-> 0] /\ sent = [h \in Logins |-> 0]

-----------------------------------------------------------------------------
\* The kernel hands out a port nobody listens on.
bind(h) == \A g \in Logins : listener[g] = "waiting" => port[g] # port[h]

\* account.login.begin, once the client id is there: a listener on a port of its
\* own, and a session under a new handle.
login_begin(h) ==
  /\ h = begun + 1 /\ begun' = h
  /\ bind(h)
  /\ listener' = [listener EXCEPT ![h] = "waiting"]
  /\ sessions' = sessions \cup {h}
  /\ page' = page \cup {h}
  /\ UNCHANGED <<stored, issued, port, code, signed, sent, task, asked, history, removals>>

\* Mutant: the state parameter is not compared.
await_code_NoState(h, u) ==
  /\ h \in page /\ page' = page \ {h}
  /\ signed' = [signed EXCEPT ![h] = u]
  /\ LET hit == {g \in Logins : listener[g] = "waiting" /\ port[g] = port[h]} IN
       /\ listener' = [g \in Logins |-> IF g \in hit THEN "sent" ELSE listener[g]]
       /\ code' = [g \in Logins |-> IF g \in hit THEN h ELSE code[g]]
  /\ UNCHANGED <<stored, issued, begun, sessions, port, sent, task, asked, history, removals>>

\* The browser is redirected to the port of login h; whoever listens there now
\* takes the request and compares the state: only that of its own page will do.
await_code(h, u) ==
  /\ h \in page /\ page' = page \ {h}
  /\ signed' = [signed EXCEPT ![h] = u]
  /\ LET hit == {g \in Logins : listener[g] = "waiting" /\ port[g] = port[h]} IN
       /\ listener' = [g \in Logins |-> IF g \notin hit THEN listener[g]
                                        ELSE IF g = h THEN "sent" ELSE "failed"]
       /\ code' = IF h \in hit THEN [code EXCEPT ![h] = h] ELSE code
  /\ UNCHANGED <<stored, issued, begun, sessions, port, sent, task, asked, history, removals>>

\* Any other request to the port: no code in it.
StrayRequest(h) ==
  /\ listener[h] = "waiting"
  /\ listener' = [listener EXCEPT ![h] = "failed"]
  /\ UNCHANGED <<stored, issued, begun, sessions, port, code, page, signed, sent, task, asked,
                 history, removals>>

\* Mutant: the listener waits as long as somebody may still sign in.
Timeout_Never(h) == h \notin page /\ StrayRequest(h)

\* AUTH_LISTENER_TIMEOUT_S.
Timeout(h) == StrayRequest(h)

-----------------------------------------------------------------------------
\* Mutant: the registry hands out the session and keeps it.
login_await_Kept(c, h) ==
  /\ task[c] = Idle /\ h \in sessions
  /\ task' = [task EXCEPT ![c] = New("login", "code", h, NoUser)]
  /\ UNCHANGED <<stored, issued, login, asked, history, removals>>

\* account.login.await takes the session out of the registry ...
login_await(c, h) ==
  /\ task[c] = Idle /\ h \in sessions
  /\ sessions' = sessions \ {h}
  /\ task' = [task EXCEPT ![c] = New("login", "code", h, NoUser)]
  /\ UNCHANGED <<stored, issued, begun, listener, port, code, page, signed, sent, asked,
                 history, removals>>

\* ... waits for the listener's answer ...
CodeReceived(c) ==
  /\ At(c, "code")
  /\ \/ listener[task[c].acct] = "sent" /\ Goto(c, "exchange")
     \/ listener[task[c].acct] = "failed" /\ Done(c)
  /\ UNCHANGED <<stored, issued, login, asked, history, removals>>

\* The id token names who signed in on the page the code comes from.
claims(h) == signed[code[h]]

\* ... exchanges the code (or Fails: Microsoft binds it to the verifier of its own
\* login), reads the id token and asks for the drive ...
exchange(c) ==
  /\ At(c, "exchange") /\ issued < MaxSerial
  /\ LET h == task[c].acct IN
       /\ sent' = [sent EXCEPT ![h] = @ + 1]
       /\ task' = [task EXCEPT ![c].pc = "keychain", ![c].tok = issued + 1,
                               ![c].user = claims(h)]
  /\ issued' = issued + 1
  /\ UNCHANGED <<stored, begun, sessions, listener, port, code, page, signed, asked, history,
                 removals>>

\* Mutant: an error of the keychain is ignored.
store_login_Ignored(c) ==
  /\ At(c, "keychain") /\ task[c].op = "login" /\ minted < NumIds
  /\ minted' = minted + 1
  /\ newest' = [newest EXCEPT ![minted + 1] = task[c].tok]
  /\ \/ vault' = [vault EXCEPT ![minted + 1] = task[c].tok]
     \/ UNCHANGED vault
  /\ task' = [task EXCEPT ![c].pc = "row", ![c].acct = minted + 1]
  /\ UNCHANGED <<rows, base, issued, login, asked, behind, raced, removals>>

\* ... stores the refresh token under a new id ...
store_login(c) ==
  /\ At(c, "keychain") /\ task[c].op = "login" /\ minted < NumIds
  /\ minted' = minted + 1
  /\ newest' = [newest EXCEPT ![minted + 1] = task[c].tok]
  /\ vault' = [vault EXCEPT ![minted + 1] = task[c].tok]
  /\ task' = [task EXCEPT ![c].pc = "row", ![c].acct = minted + 1]
  /\ UNCHANGED <<rows, base, issued, login, asked, behind, raced, removals>>

\* ... and writes the row; for a user who has one already the store refuses it.
upsert_login(c) ==
  /\ At(c, "row") /\ task[c].op = "login"
  /\ rows' = IF accepts(task[c].user) THEN [rows EXCEPT ![task[c].acct] = task[c].user]
             ELSE rows
  /\ Done(c)
  /\ UNCHANGED <<minted, vault, base, issued, login, asked, history, removals>>

-----------------------------------------------------------------------------
Ask == asked < MaxRequests /\ asked' = asked + 1

\* The handler, or run_one_pair_inner, reads the account's row.
account_get(t, op, a) ==
  /\ Ask /\ task[t] = Idle /\ rows[a] # NoUser /\ (op = "cycle" <=> t = Sched)
  /\ task' = [task EXCEPT ![t] = New(op, "load", a, rows[a])]
  /\ UNCHANGED <<stored, issued, login, history, removals>>

\* load_refresh: an account without an entry is an error.
load_refresh(t) ==
  /\ Refresher(t) /\ At(t, "load")
  /\ LET a == task[t].acct IN
       IF vault[a] = 0
         THEN Abort(t) /\ UNCHANGED raced
         ELSE /\ task' = [task EXCEPT ![t].pc = "refresh", ![t].tok = vault[a], ![t].tries = 0]
              /\ raced' = IF \E d \in Tasks : Holds(d, a) THEN raced \cup {a} ELSE raced
  /\ UNCHANGED <<stored, issued, login, asked, newest, behind, removals>>

\* Microsoft rotates the token.
refresh(t) ==
  /\ Refresher(t) /\ At(t, "refresh") /\ issued < MaxSerial
  /\ issued' = issued + 1
  /\ newest' = [newest EXCEPT ![task[t].acct] = issued + 1]
  /\ task' = [task EXCEPT ![t].pc = "keychain", ![t].tok = issued + 1]
  /\ UNCHANGED <<stored, login, asked, behind, raced, removals>>

\* Mutant: one attempt too many.
retry_OneMore(t) ==
  IF task[t].op = "cycle" /\ task[t].tries < MaxAttempts
    THEN task' = [task EXCEPT ![t].tries = @ + 1]
    ELSE Abort(t)

\* Network or Transient: only the scheduler tries again.
retry(t) ==
  IF task[t].op = "cycle" /\ task[t].tries + 1 < MaxAttempts
    THEN task' = [task EXCEPT ![t].tries = @ + 1]
    ELSE Abort(t)

\* The answer with the rotated token is lost on the way.
AnswerLost(t) ==
  /\ Refresher(t) /\ At(t, "refresh") /\ issued < MaxSerial
  /\ issued' = issued + 1
  /\ newest' = [newest EXCEPT ![task[t].acct] = issued + 1]
  /\ behind' = behind \cup {task[t].acct}
  /\ retry(t)
  /\ UNCHANGED <<stored, login, asked, raced, removals>>

RequestLost(t) ==
  /\ Refresher(t) /\ At(t, "refresh")
  /\ retry(t)
  /\ UNCHANGED <<stored, issued, login, asked, history, removals>>

\* Mutant: what was loaded is stored again, not what Microsoft answered.
store_refresh_Loaded(t) ==
  /\ Refresher(t) /\ At(t, "keychain")
  /\ UNCHANGED <<vault, behind>>
  /\ CASE task[t].op = "pair_add"   -> Done(t)
       [] task[t].op = "sharepoint" -> Goto(t, "row")
       [] task[t].op = "cycle"      -> Goto(t, "cached")
  /\ UNCHANGED <<rows, minted, base, issued, login, asked, newest, raced, removals>>

\* store_refresh of the rotated token; an error is ignored.  pair.add goes on to
\* the pair row (see PairLifecycle), a cycle with the access token.
store_refresh(t) ==
  /\ Refresher(t) /\ At(t, "keychain")
  /\ LET a == task[t].acct IN
       \/ /\ vault' = [vault EXCEPT ![a] = task[t].tok]
          /\ behind' = IF task[t].tok = newest[a] THEN behind \ {a} ELSE behind
       \/ /\ UNCHANGED vault
          /\ behind' = behind \cup {a}
  /\ CASE task[t].op = "pair_add"   -> Done(t)
       [] task[t].op = "sharepoint" -> Goto(t, "row")
       [] task[t].op = "cycle"      -> Goto(t, "cached")
  /\ UNCHANGED <<rows, minted, base, issued, login, asked, newest, raced, removals>>

\* Mutant: the refresh token is cached together with the access token.
TokenExpires_RefreshCached ==
  /\ At(Sched, "cached") /\ Goto(Sched, "refresh")
  /\ UNCHANGED <<stored, issued, login, asked, history, removals>>

\* access_token finds the cached token within TOKEN_REFRESH_LEEWAY_S of its end.
TokenExpires ==
  /\ At(Sched, "cached") /\ Goto(Sched, "load")
  /\ UNCHANGED <<stored, issued, login, asked, history, removals>>

\* add_sharepoint, with the site and the library resolved, writes a row with a new
\* id and the user of the base account as it was read.
upsert_sharepoint(t) ==
  /\ At(t, "row") /\ task[t].op = "sharepoint" /\ minted < NumIds
  /\ minted' = minted + 1
  /\ IF accepts(task[t].user)
       THEN /\ rows' = [rows EXCEPT ![minted + 1] = task[t].user]
            /\ base' = [base EXCEPT ![minted + 1] = task[t].acct]
       ELSE UNCHANGED <<rows, base>>
  /\ Done(t)
  /\ UNCHANGED <<vault, issued, login, asked, history, removals>>

\* account.remove does not look for the row, so a client may repeat it; it names
\* an id it has seen ...
remove(c, a) ==
  /\ Ask /\ task[c] = Idle /\ (rows[a] # NoUser \/ a \in removals)
  /\ removals' = removals \cup {a}
  /\ task' = [task EXCEPT ![c] = New("remove", "delete", a, NoUser)]
  /\ UNCHANGED <<stored, issued, login, history>>

\* ... deletes the entry, ignoring an error ...
vault_delete(c) ==
  /\ At(c, "delete")
  /\ \/ vault' = [vault EXCEPT ![task[c].acct] = 0]
     \/ UNCHANGED vault
  /\ Goto(c, "row")
  /\ UNCHANGED <<rows, minted, base, issued, login, asked, history, removals>>

\* ... and then the row.
account_remove(c) ==
  /\ At(c, "row") /\ task[c].op = "remove"
  /\ rows' = [rows EXCEPT ![task[c].acct] = NoUser]
  /\ Done(c)
  /\ UNCHANGED <<minted, vault, base, issued, login, asked, history, removals>>

\* Every await before a write may fail and ends the request: no client id, an
\* error of Microsoft (ReAuthRequired too), Graph or SQLite.  A cycle ends when
\* its work is done.
Fails(t) ==
  /\ \/ task[t].pc \in {"exchange", "load", "row", "cached"} /\ Done(t)
     \/ At(t, "keychain") /\ task[t].op = "login" /\ Done(t)
     \/ At(t, "refresh") /\ Abort(t)
  /\ UNCHANGED <<stored, issued, login, asked, history, removals>>

\* The daemon dies and starts again: sessions, listeners and tasks are gone; the
\* pages stay open.
Restart ==
  /\ sessions' = {}
  /\ listener' = [h \in Logins |-> IF h <= begun THEN "failed" ELSE "none"]
  /\ task' = [t \in Tasks |-> Idle]
  /\ behind' = behind \cup {a \in Ids : \E t \in Tasks : Holds(t, a) /\ At(t, "keychain")}
  /\ UNCHANGED <<stored, issued, begun, port, code, page, signed, sent, asked, newest, raced,
                 removals>>

-----------------------------------------------------------------------------
LoginStep(c) == CodeReceived(c) \/ exchange(c) \/ store_login(c) \/ upsert_login(c)

RefreshStep(t) ==
  \/ load_refresh(t) \/ refresh(t) \/ AnswerLost(t) \/ RequestLost(t) \/ store_refresh(t)
  \/ upsert_sharepoint(t)

RemoveStep(c) == vault_delete(c) \/ account_remove(c)

TaskStep(t) == LoginStep(t) \/ RefreshStep(t) \/ RemoveStep(t) \/ Fails(t)

Next ==
  \/ \E h \in Logins : login_begin(h) \/ StrayRequest(h) \/ Timeout(h)
  \/ \E h \in Logins, u \in Users : await_code(h, u)
  \/ \E c \in Conns, h \in Logins : login_await(c, h)
  \/ \E t \in Tasks, op \in {"pair_add", "sharepoint", "cycle"}, a \in Ids : account_get(t, op, a)
  \/ \E c \in Conns, a \in Ids : remove(c, a)
  \/ \E t \in Tasks : TaskStep(t)
  \/ TokenExpires
  \/ Restart

\* The listener's timer fires; the runtime polls every task, and each of its
\* requests is answered or fails.
Fairness ==
  /\ \A h \in Logins : WF_vars(Timeout(h))
  /\ \A t \in Tasks : WF_vars(TaskStep(t))

Spec == Init /\ [][Next]_vars /\ Fairness

-----------------------------------------------------------------------------
TypeOK ==
  /\ rows \in [Ids -> Users \cup {NoUser}] /\ minted \in 0..NumIds
  /\ vault \in [Ids -> 0..MaxSerial] /\ issued \in 0..MaxSerial
  /\ begun \in 0..NumLogins /\ sessions \subseteq 1..begun
  /\ listener \in [Logins -> {"none", "waiting", "sent", "failed"}]
  /\ port \in [Logins -> Ports] /\ code \in [Logins -> 0..NumLogins]
  /\ page \subseteq 1..begun /\ signed \in [Logins -> Users \cup {NoUser}]
  /\ task \in [Tasks -> Task \cup {Idle}]
  /\ \A t \in Tasks : task[t] # Idle => task[t].acct \in
       IF task[t].op = "login" /\ task[t].pc # "row" THEN Logins ELSE 1..minted
  /\ asked \in 0..MaxRequests
  /\ newest \in [Ids -> 0..MaxSerial]
  /\ behind \subseteq Ids /\ raced \subseteq Ids /\ removals \subseteq Ids
  /\ base \in [Ids -> 0..NumIds] /\ sent \in [Logins -> Nat]

\* An account that account.list shows has a refresh token, although row and
\* keychain entry are written one after the other and the daemon may die in
\* between; the exceptions are an account being removed, and the library added
\* while its base account was removed (account.add_sharepoint stores no token of
\* its own, and every load is by the id of the account).
RowHasToken ==
  \A a \in Ids : rows[a] # NoUser =>
    vault[a] # 0 \/ a \in removals \/ (base[a] # 0 /\ base[a] \in removals)

\* The keychain has the newest refresh token Microsoft issued for the account, or
\* a task is about to store it, unless two tasks refreshed at the same time or
\* the newest token was lost (no answer, a keychain error, a crash).
TokenFresh ==
  \A a \in Ids : vault[a] # 0 =>
    \/ vault[a] = newest[a]
    \/ a \in raced \/ a \in behind
    \/ \E t \in Tasks : Holds(t, a) /\ task[t].tok = newest[a]

\* Removed, and no task has a token of it in hand.
Gone(a) ==
  /\ a \in removals /\ rows[a] = NoUser /\ vault[a] = 0
  /\ \A t \in Tasks : ~Holds(t, a)

\* A removed account whose token is gone stays so: neither a cycle that still
\* runs, nor a request that has read the row before, brings the token back.
\* (One that has loaded the token before its deletion does: store_refresh.)
GoneForGood == [][\A a \in Ids : Gone(a) => Gone(a)']_vars

\* `The login_handle is opaque and one-shot': two connections that wait for one
\* login do not both send its code to Microsoft.
OneExchangePerLogin == \A h \in Logins : sent[h] <= 1

\* A code is sent only with the verifier of its own login: a redirect that comes
\* late, when its port belongs to the listener of another login, is refused.
OwnCode ==
  \A c \in Conns : At(c, "exchange") => code[task[c].acct] = task[c].acct

\* account.login.await `blocks until callback or timeout': it is always answered.
LoginEnds == \A c \in Conns : task[c].op = "login" ~> task[c].op # "login"
=============================================================================
