--------------------------- MODULE AccountsProofs ---------------------------
(***************************************************************************)
(* The safety properties of Accounts for any number of accounts, logins,   *)
(* connections and attempts.  What the row and the keychain say of an      *)
(* account depends on what the tasks in flight will still do to it, so the *)
(* inductive invariant is mostly about them: what each has in hand         *)
(* (InHand) and what no two can have in hand together (Apart).             *)
(***************************************************************************)
EXTENDS Accounts, TLAPS

\* Waiting for the code of login h, or about to exchange it.
Awaits(t, h) == task[t].op = "login" /\ task[t].pc \in {"code", "exchange"} /\ task[t].acct = h

\* About to write the row of the new account a.
Creates(t, a) == task[t].op = "login" /\ task[t].pc = "row" /\ task[t].acct = a

\* Which steps belong to which operation.
Steps(op) ==
  CASE op = "none"       -> {"none"}
    [] op = "login"      -> {"code", "exchange", "keychain", "row"}
    [] op = "pair_add"   -> {"load", "refresh", "keychain"}
    [] op = "sharepoint" -> {"load", "refresh", "keychain", "row"}
    [] op = "cycle"      -> {"load", "refresh", "keychain", "cached"}
    [] op = "remove"     -> {"delete", "row"}

InHand(t) ==
  /\ task[t].pc \in Steps(task[t].op)
  /\ \A h \in Logins : Awaits(t, h) =>
       h <= begun /\ h \notin sessions /\ sent[h] = 0 /\ (At(t, "exchange") => code[h] = h)
  /\ At(t, "keychain") => task[t].tok # 0
  /\ \A a \in Ids : Creates(t, a) => rows[a] = NoUser /\ vault[a] # 0 /\ a \notin removals
  /\ Refresher(t) => /\ task[t].user # NoUser
                     /\ rows[task[t].acct] = task[t].user \/ task[t].acct \in removals
  /\ \A a \in Ids : Holds(t, a) =>
       /\ task[t].tok # 0
       /\ At(t, "refresh") => vault[a] \in {0, task[t].tok} \/ a \in raced
       /\ At(t, "keychain") => task[t].tok = newest[a] \/ a \in raced
  /\ task[t].op = "remove" => task[t].acct \in removals

Apart(t, d) ==
  /\ \A h \in Logins : ~(Awaits(t, h) /\ Awaits(d, h))
  /\ \A a \in Ids : ~(Creates(t, a) /\ Creates(d, a))
  /\ \A a \in Ids : Holds(t, a) /\ Holds(d, a) => a \in raced

LoginsOK ==
  /\ \A h \in Logins : listener[h] = "sent" => code[h] = h
  /\ \A h \in Logins : h > begun \/ h \in sessions => sent[h] = 0

AccountsOK ==
  /\ removals \subseteq 1..minted
  /\ \A a \in Ids : a > minted => rows[a] = NoUser

TasksOK == \A t \in Tasks : InHand(t) /\ \A d \in Tasks \ {t} : Apart(t, d)

Inv ==
  /\ TypeOK /\ LoginsOK /\ AccountsOK /\ TasksOK
  /\ RowHasToken /\ TokenFresh /\ OneExchangePerLogin

-----------------------------------------------------------------------------
\* Initially there are no accounts, no logins and no tasks at work.
LEMMA InitInv == Init => Inv
<1> SUFFICES ASSUME Init PROVE Inv
  OBVIOUS
<1> USE ConstantsAssumption DEF Init, Ids, Logins, Idle, New
<1>1. TypeOK
  BY DEF TypeOK
<1>2. LoginsOK /\ AccountsOK
  BY DEF LoginsOK, AccountsOK
<1>3. TasksOK
  BY DEF TasksOK, InHand, Apart, Awaits, Creates, Holds, Refresher, At, Steps
<1>4. RowHasToken /\ TokenFresh /\ OneExchangePerLogin
  BY DEF RowHasToken, TokenFresh, OneExchangePerLogin
<1> QED
  BY <1>1, <1>2, <1>3, <1>4 DEF Inv

\* What is said of the tasks that a step leaves alone.
LEMMA OtherTask ==
  ASSUME NEW d \in Tasks, task'[d] = task[d]
  PROVE  /\ \A h : Awaits(d, h)' <=> Awaits(d, h)
         /\ \A a : Creates(d, a)' <=> Creates(d, a)
         /\ \A a : Holds(d, a)' <=> Holds(d, a)
BY DEF Awaits, Creates, Holds, Refresher

\* A step that counts a request, or nothing, keeps the invariant.
LEMMA Stutters ==
  ASSUME Inv, UNCHANGED <<stored, issued, login, task, history, removals>>,
         asked' \in 0..MaxRequests
  PROVE  Inv'
<1> USE DEF Inv, stored, login, history
<1>1. TypeOK'
  BY DEF TypeOK
<1>2. LoginsOK' /\ AccountsOK'
  BY DEF LoginsOK, AccountsOK
<1>3. TasksOK'
  <2>1. \A t \in Tasks : InHand(t)'
    BY DEF TasksOK, InHand, Awaits, Creates, Holds, Refresher, At
  <2>2. \A t \in Tasks : \A d \in Tasks \ {t} : Apart(t, d)'
    BY DEF TasksOK, Apart, Awaits, Creates, Holds, Refresher, At
  <2> QED
    BY <2>1, <2>2 DEF TasksOK
<1>4. RowHasToken' /\ TokenFresh' /\ OneExchangePerLogin'
  BY DEF RowHasToken, TokenFresh, OneExchangePerLogin, Holds, Refresher, At
<1> QED
  BY <1>1, <1>2, <1>3, <1>4

\* A step that only ends or moves on one task, which then claims no more than
\* before: it holds a token only if it held that token, and gives one up only
\* where the keychain has it.
Eases(t, x) ==
  /\ task' = [task EXCEPT ![t] = x]
  /\ x \in Task \cup {Idle} /\ x.pc \in Steps(x.op)
  /\ \/ x = Idle /\ (At(t, "keychain") => task[t].op = "login")
     \/ /\ x.op = task[t].op /\ x.acct = task[t].acct /\ x.user = task[t].user
        /\ x.tok = task[t].tok /\ task[t].op \in {"pair_add", "sharepoint", "cycle"}
        /\ \/ task[t].pc \in {"refresh", "cached"} /\ x.pc = "load"
           \/ task[t].pc = "refresh" /\ x.pc = "refresh"

\* So it keeps the invariant, even if Microsoft has rotated a token it will not see.
LEMMA EasesKeeps ==
  ASSUME Inv, NEW t \in Tasks, NEW x, Eases(t, x),
         UNCHANGED <<stored, login, raced, removals>>,
         asked' \in 0..MaxRequests, issued' \in 0..MaxSerial, newest' \in [Ids -> 0..MaxSerial],
         behind \subseteq behind', behind' \subseteq Ids,
         \A a \in Ids : newest'[a] = newest[a] \/ (a \in behind' /\ Holds(t, a))
  PROVE  Inv'
<1> USE ConstantsAssumption DEF Inv, stored, login
<1>1. /\ task' \in [Tasks -> Task \cup {Idle}]
      /\ task'[t] = x /\ \A d \in Tasks \ {t} : task'[d] = task[d]
  BY DEF Eases, TypeOK
<1>2. TypeOK'
  <2>1. \A d \in Tasks : task'[d] # Idle => task'[d].acct \in
          IF task'[d].op = "login" /\ task'[d].pc # "row" THEN Logins ELSE 1..minted
    <3>1. x # Idle => x.op # "login" /\ task[t].op # "login" /\ task[t] # Idle /\ x.acct = task[t].acct
      BY DEF Eases, Idle, New
    <3>2. x # Idle => x.acct \in 1..minted
      BY <3>1 DEF TypeOK
    <3> QED
      BY <1>1, <3>1, <3>2 DEF TypeOK
  <2> QED
    BY <1>1, <2>1 DEF TypeOK
<1>3. LoginsOK' /\ AccountsOK' /\ RowHasToken' /\ OneExchangePerLogin'
  BY DEF LoginsOK, AccountsOK, RowHasToken, OneExchangePerLogin
<1>4. /\ \A h : ~Awaits(t, h)'
      /\ \A a : ~Creates(t, a)'
      /\ \A a : Holds(t, a)' => Holds(t, a) /\ task'[t] = x /\ x.tok = task[t].tok
                                 /\ At(t, "refresh") /\ x.pc = "refresh"
  BY <1>1 DEF Eases, Awaits, Creates, Holds, Refresher, Idle, New, At
<1>5. InHand(t)'
  <2>1. Refresher(t)' => Refresher(t) /\ x.user = task[t].user /\ x.acct = task[t].acct
    BY <1>1 DEF Eases, Refresher, Idle, New
  <2>2. x.op # "remove" /\ x.pc # "keychain" /\ x.pc \in Steps(x.op)
    BY DEF Eases, Idle, New
  <2> QED
    BY <1>1, <1>4, <2>1, <2>2 DEF TasksOK, InHand, At, Refresher
<1>6. \A d \in Tasks \ {t} : InHand(d)'
  <2>1. \A d \in Tasks \ {t}, a \in Ids : Holds(d, a) => newest'[a] = newest[a] \/ a \in raced
    BY DEF TasksOK, Apart
  <2> QED
    BY <1>1, <2>1 DEF TasksOK, InHand, Awaits, Creates, Holds, Refresher, At
<1>7. \A d \in Tasks : \A e \in Tasks \ {d} : Apart(d, e)'
  BY <1>1, <1>4, OtherTask DEF TasksOK, Apart
<1>8. TokenFresh'
  <2> SUFFICES ASSUME NEW a \in Ids, vault[a] # 0, vault[a] # newest'[a], a \notin raced,
                      a \notin behind'
               PROVE  \E d \in Tasks : Holds(d, a)' /\ task'[d].tok = newest'[a]
    BY DEF TokenFresh
  <2>0. newest'[a] = newest[a] /\ a \notin behind
    OBVIOUS
  <2>1. PICK d \in Tasks : Holds(d, a) /\ task[d].tok = newest[a]
    BY <2>0 DEF TokenFresh
  <2>2. d # t
    <3>1. ~(Holds(t, a) /\ At(t, "refresh") /\ task[t].tok = newest[a])
      BY <2>0 DEF TasksOK, InHand
    <3>2. ~(Holds(t, a) /\ At(t, "keychain"))
      BY DEF Eases, Holds, Refresher, At
    <3> QED
      BY <2>1, <3>1, <3>2 DEF Holds, At
  <2> QED
    BY <1>1, <2>0, <2>1, <2>2, OtherTask
<1> QED
  BY <1>2, <1>3, <1>5, <1>6, <1>7, <1>8 DEF TasksOK

-----------------------------------------------------------------------------
\* A new login has nobody waiting for it and has sent nothing.
LEMMA LoginBeginKeeps == ASSUME Inv, NEW h \in Logins, login_begin(h) PROVE Inv'
<1> USE ConstantsAssumption DEF Inv, login_begin, bind, stored, history
<1>1. TypeOK'
  BY DEF TypeOK, Logins
<1>2. LoginsOK'
  BY DEF LoginsOK, TypeOK, Logins
<1>3. TasksOK'
  BY DEF TasksOK, TypeOK, InHand, Apart, Awaits, Creates, Holds, Refresher, At, Logins
<1>4. AccountsOK' /\ RowHasToken' /\ OneExchangePerLogin' /\ TokenFresh'
  BY DEF AccountsOK, RowHasToken, OneExchangePerLogin, TokenFresh, Holds, Refresher
<1> QED
  BY <1>1, <1>2, <1>3, <1>4

\* What a request to a listener may change.
Hears ==
  /\ UNCHANGED <<rows, minted, vault, base, issued, begun, sessions, port, sent, task, asked,
                 newest, behind, raced, removals>>
  /\ page' \subseteq page /\ signed' \in [Logins -> Users \cup {NoUser}]
  /\ listener' \in [Logins -> {"none", "waiting", "sent", "failed"}]
  /\ code' \in [Logins -> 0..NumLogins]
  /\ \A g \in Logins : code[g] = g => code'[g] = g
  /\ \A g \in Logins : listener'[g] = "sent" => listener[g] = "sent" \/ code'[g] = g

\* The browser, or somebody else, calls the listener: only its own page's code gets in.
LEMMA ListenerKeeps ==
  ASSUME Inv, NEW h \in Logins, StrayRequest(h) \/ Timeout(h) \/ \E u \in Users : await_code(h, u)
  PROVE  Inv'
<1> USE ConstantsAssumption DEF Inv
<1>1. Hears
  <2>1. CASE StrayRequest(h) \/ Timeout(h)
    BY <2>1 DEF Hears, StrayRequest, Timeout, TypeOK, stored, history
  <2>2. ASSUME NEW u \in Users, await_code(h, u) PROVE Hears
    <3> DEFINE hit == {g \in Logins : listener[g] = "waiting" /\ port[g] = port[h]}
    <3>1. /\ listener' = [g \in Logins |-> IF g \notin hit THEN listener[g]
                                            ELSE IF g = h THEN "sent" ELSE "failed"]
          /\ code' = IF h \in hit THEN [code EXCEPT ![h] = h] ELSE code
      BY <2>2 DEF await_code
    <3> HIDE DEF hit
    <3>2. code' \in [Logins -> 0..NumLogins] /\ \A g \in Logins : code[g] = g => code'[g] = g
      BY <3>1 DEF TypeOK, Logins
    <3>3. listener' \in [Logins -> {"none", "waiting", "sent", "failed"}]
      BY <3>1 DEF TypeOK
    <3>4. \A g \in Logins : listener'[g] = "sent" => listener[g] = "sent" \/ code'[g] = g
      BY <3>1 DEF TypeOK, Logins
    <3>5. page' \subseteq page /\ signed' \in [Logins -> Users \cup {NoUser}]
      BY <2>2 DEF await_code, TypeOK
    <3> QED
      BY <2>2, <3>2, <3>3, <3>4, <3>5 DEF Hears, await_code, stored, history
  <2> QED
    BY <2>1, <2>2
<1>2. TypeOK'
  BY <1>1 DEF Hears, TypeOK
<1>3. LoginsOK'
  BY <1>1 DEF Hears, LoginsOK
<1>4. TasksOK'
  BY <1>1 DEF Hears, TasksOK, InHand, Apart, Awaits, Creates, Holds, Refresher, At
<1>5. AccountsOK' /\ RowHasToken' /\ OneExchangePerLogin' /\ TokenFresh'
  BY <1>1 DEF Hears, AccountsOK, RowHasToken, OneExchangePerLogin, TokenFresh, Holds, Refresher
<1> QED
  BY <1>2, <1>3, <1>4, <1>5

\* The session leaves the registry with the task that waits for it.
LEMMA LoginAwaitKeeps ==
  ASSUME Inv, NEW c \in Conns, NEW h \in Logins, login_await(c, h)
  PROVE  Inv'
<1> DEFINE x == New("login", "code", h, NoUser)
<1> USE ConstantsAssumption DEF Inv, stored, history, Tasks
<1>1. /\ UNCHANGED <<rows, minted, vault, base, issued, begun, listener, port, code, page, signed,
                      sent, asked, newest, behind, raced, removals>>
      /\ sessions' = sessions \ {h} /\ h \in sessions /\ task[c] = Idle
  BY DEF login_await
<1>2. /\ x \in Task /\ x.op = "login" /\ x.pc = "code" /\ x.acct = h
      /\ task' = [task EXCEPT ![c] = x]
  BY DEF login_await, New, Task, Logins
<1> HIDE DEF x
<1>3. /\ task' \in [Tasks -> Task \cup {Idle}]
      /\ task'[c] = x /\ \A d \in Tasks \ {c} : task'[d] = task[d]
  BY <1>2 DEF TypeOK
<1>4. TypeOK'
  BY <1>1, <1>2, <1>3 DEF TypeOK
<1>5. LoginsOK' /\ AccountsOK' /\ RowHasToken' /\ OneExchangePerLogin'
  BY <1>1 DEF LoginsOK, AccountsOK, RowHasToken, OneExchangePerLogin
<1>6. InHand(c)'
  <2>1. sent[h] = 0 /\ h <= begun /\ h \notin sessions'
    BY <1>1 DEF LoginsOK, TypeOK, Logins
  <2> QED
    BY <1>1, <1>2, <1>3, <2>1 DEF InHand, Awaits, Creates, Holds, Refresher, At, Steps
<1>7. \A d \in Tasks \ {c} : InHand(d)' /\ ~Awaits(d, h)
  BY <1>1, <1>3 DEF TasksOK, InHand, Awaits, Creates, Holds, Refresher, At
<1>8. /\ \A g : Awaits(c, g)' => g = h
      /\ \A a : ~Creates(c, a)' /\ ~Holds(c, a)' /\ ~Holds(c, a)
  BY <1>1, <1>2, <1>3 DEF Awaits, Creates, Holds, Refresher, Idle, New
<1>9. \A d \in Tasks : \A e \in Tasks \ {d} : Apart(d, e)'
  BY <1>1, <1>3, <1>7, <1>8, OtherTask DEF TasksOK, Apart
<1>10. TokenFresh'
  BY <1>1, <1>3, <1>8, OtherTask DEF TokenFresh
<1> QED
  BY <1>4, <1>5, <1>6, <1>7, <1>9, <1>10 DEF TasksOK

\* What a task's record is after it moves on or ends.
LEMMA Moves ==
  ASSUME TypeOK, NEW t \in Tasks
  PROVE  /\ Done(t) => task' = [task EXCEPT ![t] = Idle]
         /\ \A pc : Goto(t, pc) => task' = [task EXCEPT ![t] = [task[t] EXCEPT !.pc = pc]]
BY DEF Done, Goto, TypeOK

\* Ending a task that has no unsaved token, and asking again after an error.
LEMMA DoneEases ==
  ASSUME Inv, NEW t \in Tasks, Done(t), At(t, "keychain") => task[t].op = "login"
  PROVE  Eases(t, Idle)
BY DEF Eases, Done, Idle, New, Steps, Inv

\* The same for a task whose request was refused or got lost.
LEMMA AbortEases ==
  ASSUME Inv, NEW t \in Tasks, Abort(t), Refresher(t), task[t].pc \in {"load", "refresh", "cached"}
  PROVE  \E x : Eases(t, x) \/ (x = task[t] /\ task' = [task EXCEPT ![t] = x])
<1>1. CASE task[t].op = "cycle"
  <2>1. task' = [task EXCEPT ![t] = [task[t] EXCEPT !.pc = "load"]]
    BY <1>1, Moves DEF Abort, Inv
  <2>2. task[t] \in Task
    BY DEF Inv, TypeOK, Refresher, Idle, New
  <2>3. CASE task[t].pc = "load"
    BY <2>1, <2>2, <2>3 DEF Task
  <2>4. CASE task[t].pc # "load"
    <3>1. Eases(t, [task[t] EXCEPT !.pc = "load"])
      BY <1>1, <2>1, <2>2, <2>4 DEF Eases, Task, Steps
    <3> QED
      BY <3>1
  <2> QED
    BY <2>3, <2>4
<1>2. CASE task[t].op # "cycle"
  BY <1>2, DoneEases DEF Abort, At
<1> QED
  BY <1>1, <1>2

\* The ids that were minted are ids.
LEMMA Minted ==
  ASSUME TypeOK
  PROVE  minted \in Nat /\ minted <= NumIds /\ 1..minted \subseteq Ids
BY ConstantsAssumption DEF TypeOK, Ids

\* A step tells the operation it belongs to.
LEMMA OpOfStep ==
  ASSUME Inv, NEW t \in Tasks, ~At(t, "none")
  PROVE  /\ task[t] \in Task
         /\ task[t].pc \in {"code", "exchange"} => task[t].op = "login"
         /\ At(t, "delete") => task[t].op = "remove"
         /\ task[t].pc \in {"load", "refresh"} => Refresher(t)
         /\ At(t, "cached") => task[t].op = "cycle"
         /\ task[t].op = "login" /\ ~At(t, "row") => task[t].acct \in Logins
         /\ task[t].op # "login" \/ At(t, "row") => task[t].acct \in 1..minted
<1>1. task[t] \in Task /\ task[t].pc \in Steps(task[t].op)
  BY DEF Inv, TypeOK, TasksOK, InHand, At, Idle, New
<1>2. task[t].op \in {"login", "pair_add", "sharepoint", "cycle", "remove"}
  BY <1>1 DEF Task
<1>3. task[t] # Idle
  BY DEF At, Idle, New
<1>4. task[t].acct \in IF task[t].op = "login" /\ task[t].pc # "row" THEN Logins ELSE 1..minted
  BY <1>3 DEF Inv, TypeOK
<1> QED
  BY <1>1, <1>2, <1>4 DEF Steps, At, Refresher

\* The listener has answered.
LEMMA CodeReceivedKeeps == ASSUME Inv, NEW c \in Tasks, CodeReceived(c) PROVE Inv'
<1> USE ConstantsAssumption DEF Inv
<1> DEFINE h == task[c].acct
           x == [task[c] EXCEPT !.pc = "exchange"]
<1>1. /\ UNCHANGED <<rows, minted, vault, base, issued, begun, sessions, listener, port, code, page,
                      signed, sent, asked, newest, behind, raced, removals>>
  BY DEF CodeReceived, stored, login, history
<1>2. task[c] \in Task /\ task[c].op = "login" /\ h \in Logins /\ At(c, "code")
  <2>1. At(c, "code") /\ ~At(c, "none")
    BY DEF CodeReceived, At
  <2> QED
    BY <2>1, OpOfStep DEF At
<1>3. CASE listener[h] # "sent"
  <2>1. Eases(c, Idle)
    BY <1>2, <1>3, DoneEases DEF CodeReceived, At
  <2> QED
    BY <1>1, <2>1, EasesKeeps DEF TypeOK, stored, login
<1>4. CASE listener[h] = "sent"
  <2>1. task' = [task EXCEPT ![c] = x]
    BY <1>4, Moves DEF CodeReceived
  <2>2. x \in Task /\ x.op = "login" /\ x.pc = "exchange" /\ x.acct = h /\ x.tok = task[c].tok
    BY <1>2 DEF Task
  <2> HIDE DEF x
  <2>3. /\ task' \in [Tasks -> Task \cup {Idle}]
        /\ task'[c] = x /\ \A d \in Tasks \ {c} : task'[d] = task[d]
    BY <2>1, <2>2 DEF TypeOK
  <2>4. TypeOK'
    <3>1. \A d \in Tasks : task'[d] # Idle => task'[d].acct \in
            IF task'[d].op = "login" /\ task'[d].pc # "row" THEN Logins ELSE 1..minted
      <4>1. \A d \in Tasks : task[d] # Idle => task[d].acct \in
              IF task[d].op = "login" /\ task[d].pc # "row" THEN Logins ELSE 1..minted
        BY DEF TypeOK
      <4> QED
        BY <1>2, <2>2, <2>3, <4>1
    <3> QED
      BY <1>1, <2>3, <3>1 DEF TypeOK
  <2>5. LoginsOK' /\ AccountsOK' /\ RowHasToken' /\ OneExchangePerLogin'
    BY <1>1 DEF LoginsOK, AccountsOK, RowHasToken, OneExchangePerLogin
  <2>6. /\ \A g : Awaits(c, g)' <=> Awaits(c, g)
        /\ \A a : ~Creates(c, a)' /\ ~Holds(c, a)' /\ ~Holds(c, a)
    BY <1>2, <2>2, <2>3 DEF Awaits, Creates, Holds, Refresher, At
  <2>7. code[h] = h
    BY <1>2, <1>4 DEF LoginsOK
  <2>8. InHand(c)'
    <3>1. ~Refresher(c)' /\ ~At(c, "keychain")' /\ task'[c].op # "remove" /\ task'[c].pc \in Steps(task'[c].op)
      BY <2>2, <2>3 DEF Refresher, At, Steps
    <3>2. \A g \in Logins : Awaits(c, g) => g = h /\ g <= begun /\ g \notin sessions /\ sent[g] = 0
      BY DEF TasksOK, InHand, Awaits
    <3> QED
      BY <1>1, <2>6, <2>7, <3>1, <3>2 DEF InHand
  <2>9. \A d \in Tasks \ {c} : InHand(d)'
    BY <1>1, <2>3 DEF TasksOK, InHand, Awaits, Creates, Holds, Refresher, At
  <2>10. \A d \in Tasks : \A e \in Tasks \ {d} : Apart(d, e)'
    BY <1>1, <2>3, <2>6, OtherTask DEF TasksOK, Apart
  <2>11. TokenFresh'
    BY <1>1, <2>3, <2>6, OtherTask DEF TokenFresh
  <2> QED
    BY <2>4, <2>5, <2>8, <2>9, <2>10, <2>11 DEF TasksOK
<1> QED
  BY <1>3, <1>4

\* Nobody else waits for the login whose code is sent.
LEMMA ExchangeKeeps == ASSUME Inv, NEW c \in Tasks, exchange(c) PROVE Inv'
<1> USE ConstantsAssumption DEF Inv
<1> DEFINE h == task[c].acct
           x == [task[c] EXCEPT !.pc = "keychain", !.tok = issued + 1, !.user = signed[code[h]]]
<1>1. /\ UNCHANGED <<rows, minted, vault, base, begun, sessions, listener, port, code, page,
                      signed, asked, newest, behind, raced, removals>>
      /\ sent' = [sent EXCEPT ![h] = @ + 1] /\ issued' = issued + 1 /\ issued < MaxSerial
      /\ At(c, "exchange")
  BY DEF exchange, claims, stored, history
<1>2. task[c] \in Task /\ task[c].op = "login" /\ h \in Logins
  BY <1>1, OpOfStep DEF At
<1>3. Awaits(c, h) /\ code[h] = h /\ sent[h] = 0 /\ h <= begun /\ h \notin sessions
  BY <1>1, <1>2 DEF TasksOK, InHand, Awaits, At
<1>4. task' = [task EXCEPT ![c] = x]
  BY <1>2 DEF exchange, claims, TypeOK
<1>5. /\ x \in Task /\ x.op = "login" /\ x.pc = "keychain" /\ x.acct = h /\ x.tok = issued + 1
  <2>1. signed[code[h]] \in Users \cup {NoUser} /\ issued + 1 \in 0..MaxSerial
    BY <1>1, <1>2, <1>3 DEF TypeOK
  <2> QED
    BY <1>2, <2>1 DEF Task
<1> HIDE DEF x
<1>6. /\ task' \in [Tasks -> Task \cup {Idle}]
      /\ task'[c] = x /\ \A d \in Tasks \ {c} : task'[d] = task[d]
  BY <1>4, <1>5 DEF TypeOK
<1>7. TypeOK'
  <2>1. issued' \in 0..MaxSerial /\ sent' \in [Logins -> Nat]
    BY <1>1, <1>2 DEF TypeOK
  <2>2. \A d \in Tasks : task'[d] # Idle => task'[d].acct \in
          IF task'[d].op = "login" /\ task'[d].pc # "row" THEN Logins ELSE 1..minted
    <3>1. \A d \in Tasks : task[d] # Idle => task[d].acct \in
            IF task[d].op = "login" /\ task[d].pc # "row" THEN Logins ELSE 1..minted
      BY DEF TypeOK
    <3> QED
      BY <1>2, <1>5, <1>6, <3>1
  <2> QED
    BY <1>1, <1>6, <2>1, <2>2 DEF TypeOK
<1>8. \A g \in Logins \ {h} : sent'[g] = sent[g]
  BY <1>1 DEF TypeOK
<1>9. LoginsOK' /\ AccountsOK' /\ RowHasToken' /\ OneExchangePerLogin'
  <2>1. sent'[h] = 1
    BY <1>1, <1>2, <1>3 DEF TypeOK
  <2> QED
    BY <1>1, <1>2, <1>3, <1>8, <2>1 DEF LoginsOK, AccountsOK, RowHasToken, OneExchangePerLogin, TypeOK
<1>10. /\ \A g : ~Awaits(c, g)'
       /\ \A a : ~Creates(c, a)' /\ ~Holds(c, a)' /\ ~Holds(c, a)
  BY <1>2, <1>5, <1>6 DEF Awaits, Creates, Holds, Refresher
<1>11. InHand(c)'
  <2>1. ~Refresher(c)' /\ task'[c].tok # 0 /\ task'[c].op # "remove" /\ task'[c].pc \in Steps(task'[c].op)
    BY <1>5, <1>6 DEF Refresher, Steps, TypeOK
  <2> QED
    BY <1>10, <2>1 DEF InHand
<1>12. \A d \in Tasks \ {c} : InHand(d)'
  <2>1. \A d \in Tasks \ {c} : ~Awaits(d, h)
    BY <1>2, <1>3 DEF TasksOK, Apart
  <2> QED
    BY <1>1, <1>6, <1>8, <2>1 DEF TasksOK, InHand, Awaits, Creates, Holds, Refresher, At
<1>13. \A d \in Tasks : \A e \in Tasks \ {d} : Apart(d, e)'
  BY <1>1, <1>6, <1>10, OtherTask DEF TasksOK, Apart
<1>14. TokenFresh'
  BY <1>1, <1>6, <1>10, OtherTask DEF TokenFresh
<1> QED
  BY <1>7, <1>9, <1>11, <1>12, <1>13, <1>14 DEF TasksOK

\* The token of a new account is in the keychain before there is a row.
LEMMA StoreLoginKeeps == ASSUME Inv, NEW c \in Tasks, store_login(c) PROVE Inv'
<1> USE ConstantsAssumption DEF Inv
<1> DEFINE n == minted + 1
           x == [task[c] EXCEPT !.pc = "row", !.acct = n]
<1>1. /\ UNCHANGED <<rows, base, issued, begun, sessions, listener, port, code, page,
                      signed, sent, asked, behind, raced, removals>>
      /\ minted' = n /\ n \in Ids /\ At(c, "keychain") /\ task[c].op = "login"
      /\ newest' = [newest EXCEPT ![n] = task[c].tok]
      /\ vault' = [vault EXCEPT ![n] = task[c].tok]
  BY DEF store_login, login, Ids, TypeOK
<1>2. task[c] \in Task /\ task[c].tok \in 0..MaxSerial /\ task[c].tok # 0
  BY <1>1, OpOfStep DEF At, Task, TasksOK, InHand
<1>3. task' = [task EXCEPT ![c] = x]
  BY <1>2 DEF store_login, TypeOK
<1>4. x \in Task /\ x.op = "login" /\ x.pc = "row" /\ x.acct = n
  <2>1. n \in Nat
    BY Minted
  <2> QED
    BY <1>1, <1>2, <2>1 DEF Task
<1>5. n \notin 1..minted /\ rows[n] = NoUser /\ n \notin removals /\ minted \in Nat
  BY <1>1 DEF AccountsOK, TypeOK
<1> HIDE DEF n, x
<1>6. /\ task' \in [Tasks -> Task \cup {Idle}]
      /\ task'[c] = x /\ \A d \in Tasks \ {c} : task'[d] = task[d]
  BY <1>3, <1>4 DEF TypeOK
<1>7. /\ vault'[n] = task[c].tok /\ newest'[n] = task[c].tok
      /\ \A a \in Ids \ {n} : vault'[a] = vault[a] /\ newest'[a] = newest[a]
      /\ vault' \in [Ids -> 0..MaxSerial] /\ newest' \in [Ids -> 0..MaxSerial]
  BY <1>1, <1>2 DEF TypeOK
<1>8. 1..minted \subseteq 1..minted' /\ n \in 1..minted' /\ minted' \in 0..NumIds
  BY <1>1, <1>5 DEF n, Ids
<1>9. TypeOK'
  <2>1. \A d \in Tasks : task'[d] # Idle => task'[d].acct \in
          IF task'[d].op = "login" /\ task'[d].pc # "row" THEN Logins ELSE 1..minted'
    BY <1>4, <1>6, <1>8 DEF TypeOK
  <2> QED
    BY <1>1, <1>6, <1>7, <1>8, <2>1 DEF TypeOK
<1>10. LoginsOK' /\ OneExchangePerLogin' /\ RowHasToken'
  BY <1>1, <1>2, <1>7 DEF LoginsOK, OneExchangePerLogin, RowHasToken
<1>11. AccountsOK'
  BY <1>1, <1>8, <1>5 DEF AccountsOK, n, Ids
<1>12. /\ \A h : ~Awaits(c, h)'
       /\ \A a : Creates(c, a)' => a = n
       /\ \A a : ~Holds(c, a)' /\ ~Holds(c, a)
  BY <1>1, <1>4, <1>6 DEF Awaits, Creates, Holds, Refresher
<1>13. InHand(c)'
  <2>1. /\ ~Refresher(c)' /\ task'[c].pc # "keychain" /\ task'[c].op # "remove"
        /\ task'[c].pc \in Steps(task'[c].op)
    BY <1>4, <1>6 DEF Refresher, Steps
  <2> QED
    BY <1>1, <1>2, <1>5, <1>7, <1>12, <2>1 DEF InHand, At
<1>14. \A d \in Tasks \ {c} : ~Creates(d, n) /\ ~Holds(d, n)
  <2>1. \A d \in Tasks : Creates(d, n) \/ Holds(d, n) => ~At(d, "none")
    BY DEF Creates, Holds, At
  <2>2. \A d \in Tasks : Creates(d, n) \/ Holds(d, n) => task[d].acct \in 1..minted
    BY <2>1, OpOfStep DEF Creates, Holds, Refresher, At
  <2> QED
    BY <1>5, <2>2 DEF Creates, Holds
<1>15. \A d \in Tasks \ {c} : InHand(d)'
  BY <1>1, <1>6, <1>7, <1>14 DEF TasksOK, InHand, Awaits, Creates, Holds, Refresher, At
<1>16. \A d \in Tasks : \A e \in Tasks \ {d} : Apart(d, e)'
  BY <1>1, <1>6, <1>12, <1>14, OtherTask DEF TasksOK, Apart
<1>17. TokenFresh'
  BY <1>1, <1>6, <1>7, <1>12, OtherTask DEF TokenFresh
<1> QED
  BY <1>9, <1>10, <1>11, <1>13, <1>15, <1>16, <1>17 DEF TasksOK

\* The row is written for an account that has its token and is nobody else's yet.
LEMMA UpsertLoginKeeps == ASSUME Inv, NEW c \in Tasks, upsert_login(c) PROVE Inv'
<1> USE ConstantsAssumption DEF Inv
<1> DEFINE n == task[c].acct
<1>1. /\ UNCHANGED <<minted, vault, base, issued, begun, sessions, listener, port, code, page,
                      signed, sent, asked, newest, behind, raced, removals>>
      /\ At(c, "row") /\ task[c].op = "login"
      /\ rows' = rows \/ rows' = [rows EXCEPT ![n] = task[c].user]
      /\ task' = [task EXCEPT ![c] = Idle]
  BY DEF upsert_login, Done, login, history
<1>2. n \in 1..minted /\ n \in Ids /\ task[c].user \in Users \cup {NoUser}
  <2>1. task[c] \in Task /\ n \in 1..minted
    BY <1>1, OpOfStep DEF At
  <2> QED
    BY <2>1, Minted DEF Task
<1>3. Creates(c, n) /\ rows[n] = NoUser /\ vault[n] # 0 /\ n \notin removals
  BY <1>1, <1>2 DEF TasksOK, InHand, Creates, At
<1>4. /\ rows' \in [Ids -> Users \cup {NoUser}]
      /\ \A a \in Ids \ {n} : rows'[a] = rows[a]
  BY <1>1, <1>2 DEF TypeOK
<1>5. /\ task' \in [Tasks -> Task \cup {Idle}]
      /\ task'[c] = Idle /\ \A d \in Tasks \ {c} : task'[d] = task[d]
  BY <1>1 DEF TypeOK
<1>6. TypeOK'
  BY <1>1, <1>4, <1>5 DEF TypeOK
<1>7. LoginsOK' /\ OneExchangePerLogin' /\ RowHasToken'
  BY <1>1, <1>3, <1>4 DEF LoginsOK, OneExchangePerLogin, RowHasToken
<1>8. AccountsOK'
  <2>1. ~(n > minted)
    BY <1>2, Minted
  <2> QED
    BY <1>1, <1>4, <2>1 DEF AccountsOK
<1>9. (\A h : ~Awaits(c, h)') /\ \A a : ~Creates(c, a)' /\ ~Holds(c, a)' /\ ~Holds(c, a)
  BY <1>1, <1>5 DEF Awaits, Creates, Holds, Refresher, Idle, New
<1>10. InHand(c)'
  BY <1>5, <1>9 DEF InHand, Refresher, At, Idle, New, Steps
<1>11. \A d \in Tasks \ {c} : ~Creates(d, n) /\ (Refresher(d) => task[d].acct # n)
  BY <1>2, <1>3 DEF TasksOK, Apart, InHand
<1>12. \A d \in Tasks \ {c} : Refresher(d) => task[d].acct \in Ids
  <2>1. \A d \in Tasks : Refresher(d) => ~At(d, "none")
    BY DEF Inv, TasksOK, InHand, Steps, Refresher, At
  <2> QED
    BY <2>1, OpOfStep, Minted DEF Refresher
<1>13. \A d \in Tasks \ {c} : InHand(d)'
  BY <1>1, <1>4, <1>5, <1>11, <1>12 DEF TasksOK, InHand, Awaits, Creates, Holds, Refresher, At
<1>14. \A d \in Tasks : \A e \in Tasks \ {d} : Apart(d, e)'
  BY <1>1, <1>5, <1>9, OtherTask DEF TasksOK, Apart
<1>15. TokenFresh'
  BY <1>1, <1>5, <1>9, OtherTask DEF TokenFresh
<1> QED
  BY <1>6, <1>7, <1>8, <1>10, <1>13, <1>14, <1>15 DEF TasksOK

-----------------------------------------------------------------------------
\* One task changes, to x.
LEMMA Sets ==
  ASSUME TypeOK, NEW t \in Tasks, NEW x \in Task \cup {Idle}, task' = [task EXCEPT ![t] = x]
  PROVE  /\ task' \in [Tasks -> Task \cup {Idle}]
         /\ task'[t] = x /\ \A d \in Tasks \ {t} : task'[d] = task[d]
BY DEF TypeOK

\* A refresher works for an account that was minted.
LEMMA Serves ==
  ASSUME Inv, NEW t \in Tasks, Refresher(t)
  PROVE  /\ task[t] \in Task /\ task[t].acct \in 1..minted /\ task[t].acct \in Ids
         /\ task[t].tok \in 0..MaxSerial
<1>1. ~At(t, "none")
  BY DEF Inv, TasksOK, InHand, Steps, Refresher, At
<1>2. task[t] \in Task /\ task[t].acct \in 1..minted
  BY <1>1, OpOfStep DEF Refresher
<1> QED
  BY <1>2, Minted DEF Inv, Task

\* A request or a cycle begins with a row it has just read.
LEMMA AccountGetKeeps ==
  ASSUME Inv, NEW t \in Tasks, NEW op \in {"pair_add", "sharepoint", "cycle"}, NEW a \in Ids,
         account_get(t, op, a)
  PROVE  Inv'
<1> USE ConstantsAssumption DEF Inv
<1> DEFINE x == New(op, "load", a, rows[a])
<1>1. /\ UNCHANGED <<rows, minted, vault, base, issued, begun, sessions, listener, port, code, page,
                      signed, sent, newest, behind, raced, removals>>
      /\ asked' \in 0..MaxRequests /\ task[t] = Idle /\ rows[a] # NoUser
      /\ task' = [task EXCEPT ![t] = x]
  BY DEF account_get, Ask, TypeOK, stored, login, history
<1>2. a \in 1..minted
  <2>1. ~(a > minted)
    BY <1>1 DEF AccountsOK
  <2> QED
    BY <2>1, Minted DEF Ids
<1>3. /\ x \in Task /\ x.op = op /\ x.pc = "load" /\ x.acct = a /\ x.user = rows[a]
  <2>1. rows[a] \in Users \cup {NoUser} /\ a \in Nat
    BY DEF TypeOK, Ids
  <2> QED
    BY <2>1 DEF New, Task
<1> HIDE DEF x
<1>4. /\ task' \in [Tasks -> Task \cup {Idle}]
      /\ task'[t] = x /\ \A d \in Tasks \ {t} : task'[d] = task[d]
  BY <1>1, <1>3, Sets
<1>5. TypeOK'
  BY <1>1, <1>2, <1>3, <1>4 DEF TypeOK
<1>6. LoginsOK' /\ AccountsOK' /\ RowHasToken' /\ OneExchangePerLogin'
  BY <1>1 DEF LoginsOK, AccountsOK, RowHasToken, OneExchangePerLogin
<1>7. (\A h : ~Awaits(t, h)') /\ \A b : ~Creates(t, b)' /\ ~Holds(t, b)' /\ ~Holds(t, b)
  BY <1>1, <1>3, <1>4 DEF Awaits, Creates, Holds, Refresher, Idle, New
<1>8. InHand(t)'
  <2>1. x.pc \in Steps(x.op) /\ x.pc # "keychain" /\ x.op # "remove"
    BY <1>3 DEF Steps
  <2> QED
    BY <1>1, <1>3, <1>4, <1>7, <2>1 DEF InHand, At
<1>9. \A d \in Tasks \ {t} : InHand(d)'
  BY <1>1, <1>4 DEF TasksOK, InHand, Awaits, Creates, Holds, Refresher, At
<1>10. \A d \in Tasks : \A e \in Tasks \ {d} : Apart(d, e)'
  BY <1>1, <1>4, <1>7, OtherTask DEF TasksOK, Apart
<1>11. TokenFresh'
  BY <1>1, <1>4, <1>7, OtherTask DEF TokenFresh
<1> QED
  BY <1>5, <1>6, <1>8, <1>9, <1>10, <1>11 DEF TasksOK

\* A removal begins; the account is marked.
LEMMA RemoveKeeps == ASSUME Inv, NEW c \in Tasks, NEW a \in Ids, remove(c, a) PROVE Inv'
<1> USE ConstantsAssumption DEF Inv
<1> DEFINE x == New("remove", "delete", a, NoUser)
<1>1. /\ UNCHANGED <<rows, minted, vault, base, issued, begun, sessions, listener, port, code, page,
                      signed, sent, newest, behind, raced>>
      /\ asked' \in 0..MaxRequests /\ task[c] = Idle /\ removals' = removals \cup {a}
      /\ rows[a] # NoUser \/ a \in removals
      /\ task' = [task EXCEPT ![c] = x]
  BY DEF remove, Ask, TypeOK, stored, login, history
<1>2. a \in 1..minted
  <2>1. ~(a > minted) \/ a \in 1..minted
    BY <1>1 DEF AccountsOK
  <2> QED
    BY <2>1, Minted DEF Ids
<1>3. x \in Task /\ x.op = "remove" /\ x.pc = "delete" /\ x.acct = a
  BY DEF New, Task, Ids
<1> HIDE DEF x
<1>4. /\ task' \in [Tasks -> Task \cup {Idle}]
      /\ task'[c] = x /\ \A d \in Tasks \ {c} : task'[d] = task[d]
  BY <1>1, <1>3, Sets
<1>5. TypeOK'
  BY <1>1, <1>2, <1>3, <1>4 DEF TypeOK
<1>6. LoginsOK' /\ AccountsOK' /\ RowHasToken' /\ OneExchangePerLogin'
  BY <1>1, <1>2 DEF LoginsOK, AccountsOK, RowHasToken, OneExchangePerLogin
<1>7. (\A h : ~Awaits(c, h)') /\ \A b : ~Creates(c, b)' /\ ~Holds(c, b)' /\ ~Holds(c, b)
  BY <1>1, <1>3, <1>4 DEF Awaits, Creates, Holds, Refresher, Idle, New
<1>8. InHand(c)'
  <2>1. x.pc \in Steps(x.op)
    BY <1>3 DEF Steps
  <2> QED
    BY <1>1, <1>3, <1>4, <1>7, <2>1 DEF InHand, At, Refresher
<1>9. \A d \in Tasks \ {c} : ~Creates(d, a)
  BY <1>1 DEF TasksOK, InHand
<1>10. \A d \in Tasks \ {c} : InHand(d)'
  BY <1>1, <1>4, <1>9 DEF TasksOK, InHand, Awaits, Creates, Holds, Refresher, At
<1>11. \A d \in Tasks : \A e \in Tasks \ {d} : Apart(d, e)'
  BY <1>1, <1>4, <1>7, OtherTask DEF TasksOK, Apart
<1>12. TokenFresh'
  BY <1>1, <1>4, <1>7, OtherTask DEF TokenFresh
<1> QED
  BY <1>5, <1>6, <1>8, <1>10, <1>11, <1>12 DEF TasksOK

\* The token of an account is loaded; a second task that does so is a race.
LEMMA LoadKeeps == ASSUME Inv, NEW t \in Tasks, load_refresh(t) PROVE Inv'
<1> USE ConstantsAssumption DEF Inv
<1> DEFINE a == task[t].acct
           x == [task[t] EXCEPT !.pc = "refresh", !.tok = vault[a], !.tries = 0]
<1>1. /\ UNCHANGED <<rows, minted, vault, base, issued, begun, sessions, listener, port, code, page,
                      signed, sent, newest, behind, removals, asked>>
      /\ Refresher(t) /\ At(t, "load")
  BY DEF load_refresh, stored, login
<1>2. /\ task[t] \in Task /\ a \in 1..minted /\ a \in Ids
      /\ task[t].op \in {"pair_add", "sharepoint", "cycle"}
  BY <1>1, Serves DEF Refresher
<1>3. CASE vault[a] = 0
  <2>1. PICK y : Eases(t, y) \/ (y = task[t] /\ task' = [task EXCEPT ![t] = y])
    BY <1>1, <1>3, AbortEases DEF load_refresh, At
  <2>2. UNCHANGED <<stored, issued, login, history, removals>> /\ asked' \in 0..MaxRequests
    BY <1>1, <1>3 DEF load_refresh, stored, login, history, TypeOK
  <2>3. CASE Eases(t, y)
    BY <2>2, <2>3, EasesKeeps DEF TypeOK, history
  <2>4. CASE task' = task
    BY <2>2, <2>4, Stutters
  <2>5. y = task[t] /\ task' = [task EXCEPT ![t] = y] => task' = task
    BY DEF TypeOK
  <2> QED
    BY <2>1, <2>3, <2>4, <2>5
<1>4. CASE vault[a] # 0
  <2>1. /\ task' = [task EXCEPT ![t] = x]
        /\ raced' = IF \E d \in Tasks : Holds(d, a) THEN raced \cup {a} ELSE raced
    BY <1>2, <1>4 DEF load_refresh, TypeOK
  <2>2. /\ x \in Task /\ x.op = task[t].op /\ x.pc = "refresh" /\ x.acct = a /\ x.tok = vault[a]
        /\ x.user = task[t].user
    <3>1. vault[a] \in 0..MaxSerial /\ 0 \in 0..(MaxAttempts - 1)
      BY <1>2 DEF TypeOK
    <3>2. [task[t] EXCEPT !.pc = "refresh", !.tok = vault[a]] \in Task
      BY <1>2, <3>1 DEF Task
    <3>3. x = [[task[t] EXCEPT !.pc = "refresh", !.tok = vault[a]] EXCEPT !.tries = 0]
      BY <1>2 DEF Task
    <3> QED
      BY <1>2, <3>1, <3>2, <3>3 DEF Task
  <2> HIDE DEF x
  <2>3. /\ task' \in [Tasks -> Task \cup {Idle}]
        /\ task'[t] = x /\ \A d \in Tasks \ {t} : task'[d] = task[d]
    BY <2>1, <2>2, Sets
  <2>4. raced \subseteq raced' /\ raced' \subseteq Ids /\ \A d \in Tasks : Holds(d, a) => a \in raced'
    BY <1>2, <2>1 DEF TypeOK
  <2>5. TypeOK'
    <3>1. \A d \in Tasks : task'[d] # Idle => task'[d].acct \in
            IF task'[d].op = "login" /\ task'[d].pc # "row" THEN Logins ELSE 1..minted
      <4>1. x.op # "login" /\ x.acct \in 1..minted
        BY <1>2, <2>2
      <4> QED
        BY <2>3, <4>1 DEF TypeOK
    <3> QED
      BY <1>1, <2>3, <2>4, <3>1 DEF TypeOK
  <2>6. LoginsOK' /\ AccountsOK' /\ RowHasToken' /\ OneExchangePerLogin'
    BY <1>1 DEF LoginsOK, AccountsOK, RowHasToken, OneExchangePerLogin
  <2>7. /\ (\A h : ~Awaits(t, h)') /\ \A b : ~Creates(t, b)'
        /\ \A b : Holds(t, b)' => b = a
        /\ \A b : ~Holds(t, b)
    BY <1>1, <1>2, <2>2, <2>3 DEF Awaits, Creates, Holds, Refresher, At
  <2>8. InHand(t)'
    <3>1. x.pc \in Steps(x.op)
      BY <1>2, <2>2 DEF Steps
    <3>2. task[t].user # NoUser /\ (rows[a] = task[t].user \/ a \in removals)
      BY <1>1 DEF TasksOK, InHand
    <3> QED
      BY <1>1, <1>2, <1>4, <2>2, <2>3, <2>7, <3>1, <3>2 DEF InHand, At
  <2>9. \A d \in Tasks \ {t} : InHand(d)'
    BY <1>1, <2>3, <2>4 DEF TasksOK, InHand, Awaits, Creates, Holds, Refresher, At
  <2>10. \A d \in Tasks : \A e \in Tasks \ {d} : Apart(d, e)'
    BY <1>1, <2>3, <2>4, <2>7, OtherTask DEF TasksOK, Apart
  <2>11. TokenFresh'
    BY <1>1, <2>3, <2>4, <2>7, OtherTask DEF TokenFresh
  <2> QED
    BY <2>5, <2>6, <2>8, <2>9, <2>10, <2>11 DEF TasksOK
<1> QED
  BY <1>3, <1>4

\* A lost request or answer: the task tries again, asks again or gives up.
LEMMA RetryEases ==
  ASSUME Inv, NEW t \in Tasks, Refresher(t), At(t, "refresh"), retry(t)
  PROVE  \E x : Eases(t, x)
<1>1. CASE task[t].op = "cycle" /\ task[t].tries + 1 < MaxAttempts
  <2> DEFINE x == [task[t] EXCEPT !.tries = @ + 1]
  <2>1. task[t] \in Task
    BY Serves
  <2>2. task' = [task EXCEPT ![t] = x]
    BY <1>1, <2>1 DEF retry, Inv, TypeOK
  <2>3. x \in Task /\ x.op = task[t].op /\ x.pc = "refresh" /\ x.acct = task[t].acct
        /\ x.tok = task[t].tok /\ x.user = task[t].user
    BY <1>1, <2>1, ConstantsAssumption DEF Task, At
  <2> HIDE DEF x
  <2>4. Eases(t, x)
    BY <1>1, <2>2, <2>3 DEF Eases, Steps, At
  <2> QED
    BY <2>4
<1>2. CASE ~(task[t].op = "cycle" /\ task[t].tries + 1 < MaxAttempts)
  <2>1. Abort(t)
    BY <1>2 DEF retry
  <2>2. CASE task[t].op = "cycle"
    <3>1. task' = [task EXCEPT ![t] = [task[t] EXCEPT !.pc = "load"]]
      BY <2>1, <2>2, Moves DEF Abort, Inv
    <3>2. Eases(t, [task[t] EXCEPT !.pc = "load"])
      BY <2>2, <3>1, Serves DEF Eases, Task, Steps, At
    <3> QED
      BY <3>2
  <2>3. CASE task[t].op # "cycle"
    BY <2>1, <2>3, DoneEases DEF Abort, At
  <2> QED
    BY <2>2, <2>3
<1> QED
  BY <1>1, <1>2

\* Failures: nothing that was in hand is lost but a token Microsoft will not honour.
LEMMA FailuresKeep ==
  ASSUME Inv, NEW t \in Tasks, RequestLost(t) \/ AnswerLost(t) \/ Fails(t) \/ (t = Sched /\ TokenExpires)
  PROVE  Inv'
<1> USE DEF Inv
<1>1. CASE RequestLost(t)
  <2>1. PICK x : Eases(t, x)
    BY <1>1, RetryEases DEF RequestLost
  <2> QED
    BY <1>1, <2>1, EasesKeeps DEF RequestLost, TypeOK, history
<1>2. CASE AnswerLost(t)
  <2> DEFINE a == task[t].acct
  <2>1. PICK x : Eases(t, x)
    BY <1>2, RetryEases DEF AnswerLost
  <2>2. /\ Holds(t, a) /\ a \in Ids /\ issued' = issued + 1 /\ issued' \in 0..MaxSerial
        /\ newest' = [newest EXCEPT ![a] = issued + 1] /\ behind' = behind \cup {a}
    BY <1>2, Serves, ConstantsAssumption DEF AnswerLost, Holds, At, TypeOK
  <2>3. /\ newest' \in [Ids -> 0..MaxSerial] /\ behind' \subseteq Ids
        /\ \A b \in Ids : newest'[b] = newest[b] \/ (b \in behind' /\ Holds(t, b))
    BY <2>2 DEF TypeOK
  <2> QED
    BY <1>2, <2>1, <2>2, <2>3, EasesKeeps DEF AnswerLost, TypeOK
<1>3. ASSUME UNCHANGED <<stored, issued, login, asked, history, removals>>, NEW x, Eases(t, x)
      PROVE  Inv'
  BY <1>3, EasesKeeps DEF TypeOK, history
<1>4. CASE Fails(t)
  <2>1. CASE Done(t) /\ (At(t, "keychain") => task[t].op = "login")
    BY <1>3, <1>4, <2>1, DoneEases DEF Fails
  <2>2. CASE At(t, "refresh") /\ Abort(t)
    <3>1. Refresher(t)
      BY <2>2, OpOfStep DEF At
    <3>2. PICK x : Eases(t, x) \/ (x = task[t] /\ task' = [task EXCEPT ![t] = x])
      BY <2>2, <3>1, AbortEases DEF At
    <3>3. CASE Eases(t, x)
      BY <1>3, <1>4, <3>3 DEF Fails
    <3>4. CASE x = task[t] /\ task' = [task EXCEPT ![t] = x]
      <4>1. task'[t].pc = "refresh"
        BY <2>2, <3>4 DEF At, TypeOK
      <4>2. task'[t].pc # "refresh"
        <5>1. task[t] \in Task /\ task \in [Tasks -> Task \cup {Idle}]
          BY <3>1, Serves DEF TypeOK
        <5> QED
          BY <2>2, <5>1 DEF Abort, Goto, Done, Idle, New, Task
      <4> QED
        BY <4>1, <4>2
    <3> QED
      BY <3>2, <3>3, <3>4
  <2> QED
    BY <1>4, <2>1, <2>2 DEF Fails, At
<1>5. CASE t = Sched /\ TokenExpires
  <2>1. task[t].op = "cycle" /\ task[t] \in Task /\ At(t, "cached")
    BY <1>5, OpOfStep DEF TokenExpires, At
  <2>2. task' = [task EXCEPT ![t] = [task[t] EXCEPT !.pc = "load"]]
    BY <1>5, Moves DEF TokenExpires
  <2>3. Eases(t, [task[t] EXCEPT !.pc = "load"])
    BY <2>1, <2>2 DEF Eases, Task, Steps, At
  <2> QED
    BY <1>3, <1>5, <2>3 DEF TokenExpires
<1> QED
  BY <1>1, <1>2, <1>4, <1>5

\* Microsoft's answer is in hand: the newest token of the account.
LEMMA RefreshKeeps == ASSUME Inv, NEW t \in Tasks, refresh(t) PROVE Inv'
<1> USE ConstantsAssumption DEF Inv
<1> DEFINE a == task[t].acct
           x == [task[t] EXCEPT !.pc = "keychain", !.tok = issued + 1]
<1>1. /\ UNCHANGED <<rows, minted, vault, base, begun, sessions, listener, port, code, page,
                      signed, sent, behind, raced, removals, asked>>
      /\ Refresher(t) /\ At(t, "refresh") /\ issued' = issued + 1
      /\ newest' = [newest EXCEPT ![a] = issued + 1]
  BY DEF refresh, stored, login
<1>2. /\ task[t] \in Task /\ a \in 1..minted /\ a \in Ids /\ issued + 1 \in 0..MaxSerial
      /\ issued + 1 # 0 /\ task[t].op \in {"pair_add", "sharepoint", "cycle"} /\ Holds(t, a)
  <2>1. issued \in 0..MaxSerial /\ issued < MaxSerial /\ MaxSerial \in Nat
    BY DEF refresh, TypeOK
  <2>2. issued + 1 \in 0..MaxSerial /\ issued + 1 # 0
    BY <2>1
  <2> QED
    BY <1>1, <2>2, Serves DEF Refresher, Holds, At
<1>3. task' = [task EXCEPT ![t] = x]
  BY <1>2 DEF refresh, TypeOK
<1>4. /\ x \in Task /\ x.op = task[t].op /\ x.pc = "keychain" /\ x.acct = a /\ x.tok = issued + 1
      /\ x.user = task[t].user
  BY <1>2 DEF Task
<1> HIDE DEF x
<1>5. /\ task' \in [Tasks -> Task \cup {Idle}]
      /\ task'[t] = x /\ \A d \in Tasks \ {t} : task'[d] = task[d]
  BY <1>3, <1>4, Sets
<1>6. /\ newest' \in [Ids -> 0..MaxSerial] /\ newest'[a] = issued + 1
      /\ \A b \in Ids \ {a} : newest'[b] = newest[b]
  BY <1>1, <1>2 DEF TypeOK
<1>7. TypeOK'
  <2>1. x.op # "login" /\ x.acct \in 1..minted
    BY <1>2, <1>4
  <2>2. \A d \in Tasks : task'[d] # Idle => task'[d].acct \in
          IF task'[d].op = "login" /\ task'[d].pc # "row" THEN Logins ELSE 1..minted
    BY <1>5, <2>1 DEF TypeOK
  <2> QED
    BY <1>1, <1>2, <1>5, <1>6, <2>2 DEF TypeOK
<1>8. LoginsOK' /\ AccountsOK' /\ RowHasToken' /\ OneExchangePerLogin'
  BY <1>1 DEF LoginsOK, AccountsOK, RowHasToken, OneExchangePerLogin
<1>9. /\ (\A h : ~Awaits(t, h)') /\ \A b : ~Creates(t, b)'
      /\ \A b : Holds(t, b)' <=> b = a
      /\ \A b : Holds(t, b) => b = a
  BY <1>2, <1>4, <1>5 DEF Awaits, Creates, Holds, Refresher
<1>10. InHand(t)'
  <2>1. x.pc \in Steps(x.op) /\ x.op # "remove"
    BY <1>2, <1>4 DEF Steps
  <2>2. task[t].user # NoUser /\ (rows[a] = task[t].user \/ a \in removals)
    BY <1>1 DEF TasksOK, InHand
  <2> QED
    BY <1>1, <1>2, <1>4, <1>5, <1>6, <1>9, <2>1, <2>2 DEF InHand, At
<1>11. \A d \in Tasks \ {t} : InHand(d)'
  <2>1. \A d \in Tasks \ {t} : Holds(d, a) => a \in raced
    BY <1>2 DEF TasksOK, Apart
  <2> QED
    BY <1>1, <1>5, <1>6, <2>1 DEF TasksOK, InHand, Awaits, Creates, Holds, Refresher, At
<1>12. \A d \in Tasks : \A e \in Tasks \ {d} : Apart(d, e)'
  BY <1>1, <1>2, <1>5, <1>9, OtherTask DEF TasksOK, Apart
<1>13. TokenFresh'
  <2> SUFFICES ASSUME NEW b \in Ids, vault[b] # 0, vault[b] # newest'[b], b \notin raced, b \notin behind
               PROVE  \E d \in Tasks : Holds(d, b)' /\ task'[d].tok = newest'[b]
    BY <1>1 DEF TokenFresh
  <2>1. CASE b = a
    BY <1>4, <1>5, <1>6, <1>9, <2>1
  <2>2. CASE b # a
    <3>1. PICK d \in Tasks : Holds(d, b) /\ task[d].tok = newest[b]
      BY <1>6, <2>2 DEF TokenFresh
    <3> QED
      BY <1>5, <1>6, <1>9, <2>2, <3>1, OtherTask
  <2> QED
    BY <2>1, <2>2
<1> QED
  BY <1>7, <1>8, <1>10, <1>11, <1>12, <1>13 DEF TasksOK

\* The rotated token is stored, or is lost and the account falls behind.
LEMMA StoreRefreshKeeps == ASSUME Inv, NEW t \in Tasks, store_refresh(t) PROVE Inv'
<1> USE ConstantsAssumption DEF Inv
<1> DEFINE a == task[t].acct
<1>1. /\ UNCHANGED <<rows, minted, base, issued, begun, sessions, listener, port, code, page,
                      signed, sent, newest, raced, removals, asked>>
      /\ Refresher(t) /\ At(t, "keychain")
  BY DEF store_refresh, login
<1>2. /\ task[t] \in Task /\ a \in 1..minted /\ a \in Ids /\ task[t].tok \in 0..MaxSerial
      /\ task[t].op \in {"pair_add", "sharepoint", "cycle"} /\ Holds(t, a)
  BY <1>1, Serves DEF Refresher, Holds, At
<1>3. task[t].tok # 0 /\ (task[t].tok = newest[a] \/ a \in raced)
  BY <1>1, <1>2 DEF TasksOK, InHand
<1>4. PICK x \in Task \cup {Idle} :
        /\ task' = [task EXCEPT ![t] = x]
        /\ \/ x = Idle
           \/ /\ x.op = task[t].op /\ x.acct = a /\ x.user = task[t].user
              /\ x.pc \in {"row", "cached"} /\ x.pc \in Steps(x.op)
  <2>1. CASE task[t].op = "pair_add"
    BY <2>1, Moves DEF store_refresh
  <2>2. CASE task[t].op = "sharepoint"
    <3> DEFINE y == [task[t] EXCEPT !.pc = "row"]
    <3>1. task' = [task EXCEPT ![t] = y]
      BY <2>2, Moves DEF store_refresh
    <3>2. /\ y \in Task /\ y.op = task[t].op /\ y.acct = a /\ y.user = task[t].user
          /\ y.pc = "row" /\ y.pc \in Steps(y.op)
      BY <1>2, <2>2 DEF Task, Steps
    <3> HIDE DEF y
    <3> QED
      BY <3>1, <3>2
  <2>3. CASE task[t].op = "cycle"
    <3> DEFINE y == [task[t] EXCEPT !.pc = "cached"]
    <3>1. task' = [task EXCEPT ![t] = y]
      BY <2>3, Moves DEF store_refresh
    <3>2. /\ y \in Task /\ y.op = task[t].op /\ y.acct = a /\ y.user = task[t].user
          /\ y.pc = "cached" /\ y.pc \in Steps(y.op)
      BY <1>2, <2>3 DEF Task, Steps
    <3> HIDE DEF y
    <3> QED
      BY <3>1, <3>2
  <2> QED
    BY <1>2, <2>1, <2>2, <2>3
<1>5. /\ task' \in [Tasks -> Task \cup {Idle}]
      /\ task'[t] = x /\ \A d \in Tasks \ {t} : task'[d] = task[d]
  BY <1>4, Sets
<1>6. /\ vault' \in [Ids -> 0..MaxSerial] /\ behind' \subseteq Ids
      /\ \A b \in Ids \ {a} : vault'[b] = vault[b] /\ (b \in behind' <=> b \in behind)
      /\ \/ vault'[a] = task[t].tok
         \/ vault'[a] = vault[a] /\ a \in behind'
  BY <1>2 DEF store_refresh, TypeOK
<1>7. TypeOK'
  <2>1. x # Idle => x.op # "login" /\ x.acct \in 1..minted
    BY <1>2, <1>4
  <2>2. \A d \in Tasks : task'[d] # Idle => task'[d].acct \in
          IF task'[d].op = "login" /\ task'[d].pc # "row" THEN Logins ELSE 1..minted
    BY <1>5, <2>1 DEF TypeOK
  <2> QED
    BY <1>1, <1>5, <1>6, <2>2 DEF TypeOK
<1>8. LoginsOK' /\ AccountsOK' /\ RowHasToken' /\ OneExchangePerLogin'
  BY <1>1, <1>3, <1>6 DEF LoginsOK, AccountsOK, RowHasToken, OneExchangePerLogin
<1>9. (\A h : ~Awaits(t, h)') /\ \A b : ~Creates(t, b)' /\ ~Holds(t, b)'
  BY <1>2, <1>4, <1>5 DEF Awaits, Creates, Holds, Refresher, Idle, New
<1>10. InHand(t)'
  <2>1. x.pc \in Steps(x.op) /\ x.op # "remove" /\ x.pc # "keychain"
    BY <1>2, <1>4 DEF Steps, Idle, New
  <2>2. task[t].user # NoUser /\ (rows[a] = task[t].user \/ a \in removals)
    BY <1>1 DEF TasksOK, InHand
  <2>3. Refresher(t)' => x.user = task[t].user /\ x.acct = a
    BY <1>4, <1>5 DEF Refresher, Idle, New
  <2> QED
    BY <1>1, <1>5, <1>9, <2>1, <2>2, <2>3 DEF InHand, At
<1>11. \A d \in Tasks \ {t} : InHand(d)'
  <2>1. \A d \in Tasks \ {t} : Holds(d, a) => a \in raced
    BY <1>2 DEF TasksOK, Apart
  <2>2. \A b \in Ids : vault[b] # 0 => vault'[b] # 0
    BY <1>3, <1>6
  <2> QED
    BY <1>1, <1>5, <1>6, <2>1, <2>2 DEF TasksOK, InHand, Awaits, Creates, Holds, Refresher, At
<1>12. \A d \in Tasks : \A e \in Tasks \ {d} : Apart(d, e)'
  BY <1>1, <1>5, <1>9, OtherTask DEF TasksOK, Apart
<1>13. TokenFresh'
  <2> SUFFICES ASSUME NEW b \in Ids, vault'[b] # 0, vault'[b] # newest[b], b \notin raced,
                      b \notin behind'
               PROVE  \E d \in Tasks : Holds(d, b)' /\ task'[d].tok = newest[b]
    BY <1>1 DEF TokenFresh
  <2>1. b # a
    BY <1>3, <1>6
  <2>2. PICK d \in Tasks : Holds(d, b) /\ task[d].tok = newest[b]
    BY <1>6, <2>1 DEF TokenFresh
  <2>3. d # t
    BY <2>1, <2>2 DEF Holds
  <2> QED
    BY <1>5, <2>2, <2>3, OtherTask
<1> QED
  BY <1>7, <1>8, <1>10, <1>11, <1>12, <1>13 DEF TasksOK

\* The row of a library: its user had no row left, so the base account is being removed.
LEMMA SharepointKeeps == ASSUME Inv, NEW t \in Tasks, upsert_sharepoint(t) PROVE Inv'
<1> USE ConstantsAssumption DEF Inv
<1> DEFINE n == minted + 1
           b == task[t].acct
<1>1. /\ UNCHANGED <<vault, issued, begun, sessions, listener, port, code, page,
                      signed, sent, asked, newest, behind, raced, removals>>
      /\ At(t, "row") /\ task[t].op = "sharepoint" /\ Refresher(t) /\ minted' = n /\ n \in Ids
      /\ task' = [task EXCEPT ![t] = Idle]
      /\ \/ rows' = rows /\ base' = base
         \/ /\ accepts(task[t].user) /\ rows' = [rows EXCEPT ![n] = task[t].user]
            /\ base' = [base EXCEPT ![n] = b]
  BY DEF upsert_sharepoint, Done, login, history, Refresher, Ids, TypeOK
<1>2. b \in 1..minted /\ b \in Ids /\ task[t].user \in Users \cup {NoUser} /\ task[t].user # NoUser
      /\ b # 0 /\ b \in 0..NumIds
  BY <1>1, Serves DEF Task, TasksOK, InHand, Ids
<1>3. n \notin 1..minted /\ rows[n] = NoUser /\ n \notin removals /\ n # b /\ minted \in Nat
  <2>1. minted \in Nat /\ n > minted /\ n \notin 1..minted
    BY Minted
  <2> QED
    BY <1>1, <1>2, <2>1 DEF AccountsOK
<1>4. 1..minted \subseteq 1..minted' /\ minted' \in 0..NumIds
  BY <1>1, <1>3 DEF Ids
<1> HIDE DEF n
<1>5. /\ task' \in [Tasks -> Task \cup {Idle}]
      /\ task'[t] = Idle /\ \A d \in Tasks \ {t} : task'[d] = task[d]
  BY <1>1, Sets
<1>6. /\ rows' \in [Ids -> Users \cup {NoUser}] /\ base' \in [Ids -> 0..NumIds]
      /\ \A a \in Ids \ {n} : rows'[a] = rows[a] /\ base'[a] = base[a]
      /\ rows'[n] # NoUser => base'[n] = b /\ accepts(task[t].user)
  BY <1>1, <1>2, <1>3 DEF TypeOK
<1>7. TypeOK'
  <2>1. \A d \in Tasks : task'[d] # Idle => task'[d].acct \in
          IF task'[d].op = "login" /\ task'[d].pc # "row" THEN Logins ELSE 1..minted'
    BY <1>4, <1>5 DEF TypeOK
  <2> QED
    BY <1>1, <1>4, <1>5, <1>6, <2>1 DEF TypeOK
<1>8. RowHasToken'
  <2>1. accepts(task[t].user) => b \in removals
    BY <1>1, <1>2 DEF accepts, TasksOK, InHand
  <2> QED
    BY <1>1, <1>2, <1>6, <2>1 DEF RowHasToken
<1>9. LoginsOK' /\ OneExchangePerLogin'
  BY <1>1 DEF LoginsOK, OneExchangePerLogin
<1>10. AccountsOK'
  <2>1. \A a \in Ids : a > minted' => a > minted /\ a # n
    BY <1>1, <1>3 DEF n, Ids
  <2> QED
    BY <1>1, <1>4, <1>6, <2>1 DEF AccountsOK
<1>11. (\A h : ~Awaits(t, h)') /\ \A a : ~Creates(t, a)' /\ ~Holds(t, a)' /\ ~Holds(t, a)
  BY <1>1, <1>5 DEF Awaits, Creates, Holds, Refresher, Idle, New, At
<1>12. InHand(t)'
  BY <1>5, <1>11 DEF InHand, Refresher, At, Idle, New, Steps
<1>13. \A d \in Tasks \ {t} : /\ ~Creates(d, n)
                              /\ Refresher(d) => task[d].acct # n /\ task[d].acct \in Ids
  <2>1. \A d \in Tasks : Creates(d, n) => ~At(d, "none")
    BY DEF Creates, At
  <2>2. \A d \in Tasks : Creates(d, n) => task[d].acct \in 1..minted
    BY <2>1, OpOfStep DEF Creates, At
  <2> QED
    BY <1>3, <2>2, Serves DEF Creates
<1>14. \A d \in Tasks \ {t} : InHand(d)'
  <2>1. \A d \in Tasks \ {t} : /\ \A a \in Ids : Creates(d, a) => rows'[a] = rows[a]
                               /\ Refresher(d) => rows'[task[d].acct] = rows[task[d].acct]
    BY <1>6, <1>13 DEF Creates
  <2>2. UNCHANGED <<vault, begun, sessions, code, sent, newest, raced, removals>>
    BY <1>1
  <2> QED
    BY <1>5, <2>1, <2>2 DEF TasksOK, InHand, Awaits, Creates, Holds, Refresher, At
<1>15. \A d \in Tasks : \A e \in Tasks \ {d} : Apart(d, e)'
  BY <1>1, <1>5, <1>11, OtherTask DEF TasksOK, Apart
<1>16. TokenFresh'
  BY <1>1, <1>5, <1>11, OtherTask DEF TokenFresh
<1> QED
  BY <1>7, <1>8, <1>9, <1>10, <1>12, <1>14, <1>15, <1>16 DEF TasksOK

\* The keychain entry of a marked account goes, or stays when the keychain fails.
LEMMA VaultDeleteKeeps == ASSUME Inv, NEW c \in Tasks, vault_delete(c) PROVE Inv'
<1> USE ConstantsAssumption DEF Inv
<1> DEFINE a == task[c].acct
           x == [task[c] EXCEPT !.pc = "row"]
<1>1. /\ UNCHANGED <<rows, minted, base, issued, begun, sessions, listener, port, code, page,
                      signed, sent, asked, newest, behind, raced, removals>>
      /\ At(c, "delete") /\ (vault' = [vault EXCEPT ![a] = 0] \/ vault' = vault)
      /\ task' = [task EXCEPT ![c] = x]
  BY Moves DEF vault_delete, login, history
<1>2. task[c] \in Task /\ task[c].op = "remove" /\ a \in 1..minted /\ a \in Ids
  BY <1>1, OpOfStep, Minted DEF At
<1>3. a \in removals
  BY <1>2 DEF TasksOK, InHand
<1>4. x \in Task /\ x.op = "remove" /\ x.pc = "row" /\ x.acct = a
  BY <1>2 DEF Task
<1> HIDE DEF x
<1>5. /\ task' \in [Tasks -> Task \cup {Idle}]
      /\ task'[c] = x /\ \A d \in Tasks \ {c} : task'[d] = task[d]
  BY <1>1, <1>4, Sets
<1>6. /\ vault' \in [Ids -> 0..MaxSerial] /\ (vault'[a] = 0 \/ vault'[a] = vault[a])
      /\ \A b \in Ids \ {a} : vault'[b] = vault[b]
  <2>1. vault \in [Ids -> 0..MaxSerial] /\ 0 \in 0..MaxSerial
    BY DEF TypeOK
  <2> QED
    BY <1>1, <1>2, <2>1
<1>7. TypeOK'
  BY <1>1, <1>2, <1>4, <1>5, <1>6 DEF TypeOK
<1>8. LoginsOK' /\ AccountsOK' /\ RowHasToken' /\ OneExchangePerLogin'
  BY <1>1, <1>3, <1>6 DEF LoginsOK, AccountsOK, RowHasToken, OneExchangePerLogin
<1>9. (\A h : ~Awaits(c, h)') /\ \A b : ~Creates(c, b)' /\ ~Holds(c, b)' /\ ~Holds(c, b)
  BY <1>2, <1>4, <1>5 DEF Awaits, Creates, Holds, Refresher
<1>10. InHand(c)'
  BY <1>1, <1>3, <1>4, <1>5, <1>9 DEF InHand, Refresher, At, Steps
<1>11. \A d \in Tasks \ {c} : ~Creates(d, a)
  BY <1>2, <1>3 DEF TasksOK, InHand
<1>12. \A d \in Tasks \ {c} : InHand(d)'
  BY <1>1, <1>5, <1>6, <1>11 DEF TasksOK, InHand, Awaits, Creates, Holds, Refresher, At
<1>13. \A d \in Tasks : \A e \in Tasks \ {d} : Apart(d, e)'
  BY <1>1, <1>5, <1>9, OtherTask DEF TasksOK, Apart
<1>14. TokenFresh'
  BY <1>1, <1>5, <1>6, <1>9, OtherTask DEF TokenFresh
<1> QED
  BY <1>7, <1>8, <1>10, <1>12, <1>13, <1>14 DEF TasksOK

\* The row of a marked account goes.
LEMMA AccountRemoveKeeps == ASSUME Inv, NEW c \in Tasks, account_remove(c) PROVE Inv'
<1> USE ConstantsAssumption DEF Inv
<1> DEFINE a == task[c].acct
<1>1. /\ UNCHANGED <<minted, vault, base, issued, begun, sessions, listener, port, code, page,
                      signed, sent, asked, newest, behind, raced, removals>>
      /\ At(c, "row") /\ task[c].op = "remove" /\ rows' = [rows EXCEPT ![a] = NoUser]
      /\ task' = [task EXCEPT ![c] = Idle]
  BY DEF account_remove, Done, login, history
<1>2. a \in removals /\ a \in Ids
  <2>1. a \in 1..minted
    BY <1>1, OpOfStep DEF At
  <2> QED
    BY <1>1, <2>1, Minted DEF TasksOK, InHand
<1>3. /\ task' \in [Tasks -> Task \cup {Idle}]
      /\ task'[c] = Idle /\ \A d \in Tasks \ {c} : task'[d] = task[d]
  BY <1>1, Sets
<1>4. /\ rows' \in [Ids -> Users \cup {NoUser}] /\ rows'[a] = NoUser
      /\ \A b \in Ids \ {a} : rows'[b] = rows[b]
  BY <1>1, <1>2 DEF TypeOK
<1>5. TypeOK'
  BY <1>1, <1>3, <1>4 DEF TypeOK
<1>6. LoginsOK' /\ AccountsOK' /\ RowHasToken' /\ OneExchangePerLogin'
  BY <1>1, <1>2, <1>4 DEF LoginsOK, AccountsOK, RowHasToken, OneExchangePerLogin
<1>7. (\A h : ~Awaits(c, h)') /\ \A b : ~Creates(c, b)' /\ ~Holds(c, b)' /\ ~Holds(c, b)
  BY <1>1, <1>3 DEF Awaits, Creates, Holds, Refresher, Idle, New
<1>8. InHand(c)'
  BY <1>3, <1>7 DEF InHand, Refresher, At, Idle, New, Steps
<1>9. \A d \in Tasks \ {c} : Refresher(d) => task[d].acct \in Ids
  BY Serves
<1>10. \A d \in Tasks \ {c} : InHand(d)'
  BY <1>1, <1>2, <1>3, <1>4, <1>9 DEF TasksOK, InHand, Awaits, Creates, Holds, Refresher, At
<1>11. \A d \in Tasks : \A e \in Tasks \ {d} : Apart(d, e)'
  BY <1>1, <1>3, <1>7, OtherTask DEF TasksOK, Apart
<1>12. TokenFresh'
  BY <1>1, <1>3, <1>7, OtherTask DEF TokenFresh
<1> QED
  BY <1>5, <1>6, <1>8, <1>10, <1>11, <1>12 DEF TasksOK

\* After a crash nobody has anything in hand; what was not stored is behind.
LEMMA RestartKeeps == ASSUME Inv, Restart PROVE Inv'
<1> USE ConstantsAssumption DEF Inv
<1>1. /\ UNCHANGED <<rows, minted, vault, base, issued, begun, port, code, page, signed, sent, asked,
                      newest, raced, removals>>
      /\ sessions' = {} /\ task' = [t \in Tasks |-> Idle]
      /\ listener' = [h \in Logins |-> IF h <= begun THEN "failed" ELSE "none"]
      /\ behind' = behind \cup {a \in Ids : \E t \in Tasks : Holds(t, a) /\ At(t, "keychain")}
  BY DEF Restart, stored
<1>2. TypeOK'
  BY <1>1 DEF TypeOK
<1>3. LoginsOK' /\ AccountsOK' /\ RowHasToken' /\ OneExchangePerLogin'
  BY <1>1 DEF LoginsOK, AccountsOK, RowHasToken, OneExchangePerLogin
<1>4. TasksOK'
  <2>1. \A t \in Tasks : task'[t].op = "none" /\ task'[t].pc = "none"
    BY <1>1 DEF Idle, New
  <2>2. \A t \in Tasks : InHand(t)'
    BY <2>1 DEF InHand, Awaits, Creates, Holds, Refresher, At, Steps
  <2>3. \A t \in Tasks : \A d \in Tasks \ {t} : Apart(t, d)'
    BY <2>1 DEF Apart, Awaits, Creates, Holds, Refresher
  <2> QED
    BY <2>2, <2>3 DEF TasksOK
<1>5. TokenFresh'
  <2> SUFFICES ASSUME NEW a \in Ids, vault[a] # 0, vault[a] # newest[a], a \notin raced, a \notin behind'
               PROVE  FALSE
    BY <1>1 DEF TokenFresh
  <2>1. PICK t \in Tasks : Holds(t, a) /\ task[t].tok = newest[a]
    BY <1>1 DEF TokenFresh
  <2>2. At(t, "refresh")
    BY <1>1, <2>1 DEF Holds, At
  <2> QED
    BY <2>1, <2>2 DEF TasksOK, InHand
<1> QED
  BY <1>2, <1>3, <1>4, <1>5

-----------------------------------------------------------------------------
\* Every step keeps the inductive invariant.
LEMMA NextInv == Inv /\ [Next]_vars => Inv'
<1> SUFFICES ASSUME Inv, [Next]_vars PROVE Inv'
  OBVIOUS
<1>1. CASE \E h \in Logins : login_begin(h) \/ StrayRequest(h) \/ Timeout(h)
  BY <1>1, LoginBeginKeeps, ListenerKeeps
<1>2. CASE \E h \in Logins, u \in Users : await_code(h, u)
  BY <1>2, ListenerKeeps
<1>3. CASE \E c \in Conns, h \in Logins : login_await(c, h)
  BY <1>3, LoginAwaitKeeps
<1>4. CASE \E t \in Tasks, op \in {"pair_add", "sharepoint", "cycle"}, a \in Ids : account_get(t, op, a)
  BY <1>4, AccountGetKeeps
<1>5. CASE \E c \in Conns, a \in Ids : remove(c, a)
  BY <1>5, RemoveKeeps DEF Tasks
<1>6. ASSUME NEW t \in Tasks, TaskStep(t) PROVE Inv'
  <2>1. CASE LoginStep(t)
    BY <2>1, CodeReceivedKeeps, ExchangeKeeps, StoreLoginKeeps, UpsertLoginKeeps DEF LoginStep
  <2>2. CASE RefreshStep(t)
    BY <2>2, LoadKeeps, RefreshKeeps, FailuresKeep, StoreRefreshKeeps, SharepointKeeps DEF RefreshStep
  <2>3. CASE RemoveStep(t)
    BY <2>3, VaultDeleteKeeps, AccountRemoveKeeps DEF RemoveStep
  <2> QED
    <3>1. CASE Fails(t)
      BY <3>1, FailuresKeep
    <3> QED
      BY <1>6, <2>1, <2>2, <2>3, <3>1 DEF TaskStep
<1>7. CASE TokenExpires
  BY <1>7, FailuresKeep DEF Tasks
<1>8. CASE Restart
  BY <1>8, RestartKeeps
<1>9. CASE UNCHANGED vars
  <2>1. UNCHANGED <<stored, issued, login, task, history, removals>> /\ asked' = asked
    BY <1>9 DEF vars
  <2>2. asked' \in 0..MaxRequests
    BY <2>1 DEF Inv, TypeOK
  <2> QED
    BY <2>1, <2>2, Stutters
<1> QED
  BY <1>1, <1>2, <1>3, <1>4, <1>5, <1>6, <1>7, <1>8, <1>9 DEF Next

\* The inductive invariant holds in every state.
LEMMA Always == Spec => []Inv
BY InitInv, NextInv, PTL DEF Spec

\* The state of logins, accounts and tasks keeps its type, and no refresh is tried
\* more often than TOKEN_REFRESH_MAX_ATTEMPTS.
THEOREM TypeCorrect == Spec => []TypeOK
BY Always, PTL DEF Inv

\* A listed account has its refresh token, whatever was interrupted between the
\* keychain and the row.
THEOREM AccountsUsable == Spec => []RowHasToken
BY Always, PTL DEF Inv

\* The keychain has the newest token, but for the listed exceptions.
THEOREM NoStaleToken == Spec => []TokenFresh
BY Always, PTL DEF Inv

\* No login has its code exchanged twice, however many connections await it.
THEOREM LoginOneShot == Spec => []OneExchangePerLogin
BY Always, PTL DEF Inv

\* The code a task exchanges comes from the page of its own login, although ports
\* are used again.
THEOREM CodeNotMixedUp == Spec => []OwnCode
<1>1. Inv => OwnCode
  <2> SUFFICES ASSUME Inv, NEW c \in Conns, At(c, "exchange")
               PROVE  code[task[c].acct] = task[c].acct
    BY DEF OwnCode
  <2>1. task[c].op = "login" /\ task[c].acct \in Logins /\ c \in Tasks
    BY OpOfStep DEF At, Tasks
  <2> QED
    BY <2>1 DEF Inv, TasksOK, InHand, Awaits, At
<1> QED
  BY <1>1, Always, PTL

\* A step leaves an account that is gone as it is: rows and tokens are written only
\* for new ids, and by tasks that hold a token of the account.
LEMMA StaysGone == ASSUME Inv, [Next]_vars, NEW a \in Ids, Gone(a) PROVE Gone(a)'
<1> USE DEF stored, login, history
<1>1. /\ a # minted + 1 /\ a \in removals /\ rows[a] = NoUser /\ vault[a] = 0
      /\ \A t \in Tasks : ~Creates(t, a) /\ ~Holds(t, a)
  BY Minted DEF Gone, Inv, AccountsOK, TasksOK, InHand
<1>2. ASSUME UNCHANGED <<rows, vault, removals>>, NEW t \in Tasks,
             \A d \in Tasks \ {t} : task'[d] = task[d], ~Holds(t, a)'
      PROVE  Gone(a)'
  BY <1>1, <1>2, OtherTask DEF Gone
<1>3. ASSUME NEW t \in Tasks, NEW x, Eases(t, x), UNCHANGED <<rows, vault, removals>> PROVE Gone(a)'
  <2>1. task'[t] = x /\ \A d \in Tasks \ {t} : task'[d] = task[d]
    BY <1>3 DEF Eases, Inv, TypeOK
  <2>2. ~Holds(t, a)'
    BY <1>1, <1>3, <2>1 DEF Eases, Holds, Refresher, Idle, New
  <2> QED
    BY <1>2, <1>3, <2>1, <2>2
<1>4. ASSUME UNCHANGED <<rows, vault, removals, task>> PROVE Gone(a)'
  BY <1>1, <1>4 DEF Gone, Holds, Refresher
<1>5. ASSUME NEW h \in Logins,
             login_begin(h) \/ StrayRequest(h) \/ Timeout(h) \/ \E u \in Users : await_code(h, u)
      PROVE  Gone(a)'
  BY <1>4, <1>5 DEF login_begin, StrayRequest, Timeout, await_code
<1>6. ASSUME NEW t \in Tasks, NEW op \in {"login", "pair_add", "sharepoint", "cycle", "remove"},
             NEW pc \in {"code", "load", "delete"}, NEW b, NEW u,
             task' = [task EXCEPT ![t] = New(op, pc, b, u)], UNCHANGED <<rows, vault>>,
             removals \subseteq removals'
      PROVE  Gone(a)'
  <2>1. task'[t] = New(op, pc, b, u) /\ \A d \in Tasks \ {t} : task'[d] = task[d]
    BY <1>6 DEF Inv, TypeOK
  <2>2. ~Holds(t, a)'
    BY <2>1 DEF Holds, New
  <2> QED
    BY <1>1, <1>6, <2>1, <2>2, OtherTask DEF Gone
<1>7. ASSUME NEW c \in Conns, NEW h \in Logins, login_await(c, h) PROVE Gone(a)'
  BY <1>6, <1>7 DEF login_await, Tasks
<1>8. ASSUME NEW t \in Tasks, NEW op \in {"pair_add", "sharepoint", "cycle"}, NEW b \in Ids,
             account_get(t, op, b)
      PROVE  Gone(a)'
  BY <1>6, <1>8 DEF account_get
<1>9. ASSUME NEW c \in Conns, NEW b \in Ids, remove(c, b) PROVE Gone(a)'
  BY <1>6, <1>9 DEF remove, Tasks
<1>10. ASSUME NEW t \in Tasks, CodeReceived(t) \/ exchange(t) PROVE Gone(a)'
  <2>1. ~At(t, "none") /\ task[t].op = "login" /\ task[t] \in Task
    BY <1>10, OpOfStep DEF CodeReceived, exchange, claims, At
  <2>2. /\ \A d \in Tasks \ {t} : task'[d] = task[d]
        /\ task'[t].op \in {"login", "none"}
    BY <1>10, <2>1 DEF CodeReceived, exchange, claims, Goto, Done, Inv, TypeOK, Idle, New, Task
  <2> QED
    BY <1>2, <1>10, <2>2 DEF CodeReceived, exchange, claims, Holds, Refresher
<1>11. ASSUME NEW t \in Tasks, store_login(t) PROVE Gone(a)'
  <2>1. task[t].op = "login" /\ task[t] \in Task
    BY <1>11, OpOfStep DEF store_login, At
  <2>2. (\A d \in Tasks \ {t} : task'[d] = task[d]) /\ task'[t].op = "login"
    BY <1>11, <2>1 DEF store_login, Inv, TypeOK, Task
  <2>3. vault'[a] = vault[a] /\ ~Holds(t, a)'
    BY <1>1, <1>11, <2>2 DEF store_login, Inv, TypeOK, Holds, Refresher
  <2> QED
    BY <1>1, <1>11, <2>2, <2>3, OtherTask DEF Gone, store_login
<1>12. ASSUME NEW t \in Tasks, upsert_login(t) \/ upsert_sharepoint(t) \/ account_remove(t)
       PROVE  Gone(a)'
  <2>1. task' = [task EXCEPT ![t] = Idle]
    BY <1>12 DEF upsert_login, upsert_sharepoint, account_remove, Done
  <2>2. (\A d \in Tasks \ {t} : task'[d] = task[d]) /\ ~Holds(t, a)'
    BY <2>1 DEF Inv, TypeOK, Holds, Refresher, Idle, New
  <2>3. upsert_login(t) => task[t].acct # a
    BY <1>1 DEF upsert_login, Creates, At
  <2>4. rows'[a] = NoUser
    BY <1>1, <1>12, <2>3 DEF upsert_login, upsert_sharepoint, account_remove, Inv, TypeOK
  <2>5. UNCHANGED <<vault, removals>>
    BY <1>12 DEF upsert_login, upsert_sharepoint, account_remove
  <2> QED
    BY <1>1, <2>2, <2>4, <2>5, OtherTask DEF Gone
<1>13. ASSUME NEW t \in Tasks, load_refresh(t) PROVE Gone(a)'
  <2>1. task[t] \in Task /\ Refresher(t) /\ At(t, "load")
    BY <1>13, Serves DEF load_refresh
  <2>2. /\ \A d \in Tasks \ {t} : task'[d] = task[d]
        /\ task'[t].pc = "refresh" => task'[t].acct = task[t].acct /\ vault[task[t].acct] # 0
        /\ task'[t].pc \in {"refresh", "load", "none"}
    BY <1>13, <2>1 DEF load_refresh, Abort, Goto, Done, Inv, TypeOK, Idle, New, Task
  <2>3. ~Holds(t, a)'
    BY <1>1, <2>2 DEF Holds
  <2> QED
    BY <1>2, <1>13, <2>2, <2>3 DEF load_refresh
<1>14. ASSUME NEW t \in Tasks, refresh(t) PROVE Gone(a)'
  <2>1. task[t] \in Task /\ task[t].acct # a
    BY <1>1, <1>14, Serves DEF refresh, Holds, At
  <2>2. (\A d \in Tasks \ {t} : task'[d] = task[d]) /\ task'[t].acct = task[t].acct
    BY <1>14, <2>1 DEF refresh, Inv, TypeOK, Task
  <2> QED
    BY <1>2, <1>14, <2>1, <2>2 DEF refresh, Holds
<1>15. ASSUME NEW t \in Tasks, store_refresh(t) PROVE Gone(a)'
  <2>1. /\ task[t] \in Task /\ task[t].acct # a
        /\ task[t].op \in {"pair_add", "sharepoint", "cycle"}
    BY <1>1, <1>15, Serves DEF store_refresh, Holds, Refresher, At
  <2>2. /\ \A d \in Tasks \ {t} : task'[d] = task[d]
        /\ task'[t].pc \in {"row", "cached", "none"}
    <3>1. Done(t) \/ Goto(t, "row") \/ Goto(t, "cached")
      BY <1>15, <2>1 DEF store_refresh
    <3>2. task \in [Tasks -> Task \cup {Idle}]
      BY DEF Inv, TypeOK
    <3> QED
      BY <2>1, <3>1, <3>2 DEF Goto, Done, Task, Idle, New
  <2>3. vault'[a] = vault[a] /\ ~Holds(t, a)'
    BY <1>15, <2>1, <2>2 DEF store_refresh, Inv, TypeOK, Holds
  <2> QED
    BY <1>1, <1>15, <2>2, <2>3, OtherTask DEF Gone, store_refresh
<1>16. ASSUME NEW t \in Tasks, vault_delete(t) PROVE Gone(a)'
  <2>1. /\ \A d \in Tasks \ {t} : task'[d] = task[d]
        /\ task'[t].pc = "row"
    BY <1>16, OpOfStep DEF vault_delete, Goto, Inv, TypeOK, Task, At
  <2>2. vault'[a] = 0 /\ ~Holds(t, a)'
    BY <1>1, <1>16, <2>1 DEF vault_delete, Inv, TypeOK, Holds
  <2> QED
    BY <1>1, <1>16, <2>1, <2>2, OtherTask DEF Gone, vault_delete
<1>17. ASSUME NEW t \in Tasks, RequestLost(t) \/ AnswerLost(t) PROVE Gone(a)'
  <2>1. \E x : Eases(t, x)
    BY <1>17, RetryEases DEF RequestLost, AnswerLost
  <2> QED
    BY <1>3, <1>17, <2>1 DEF RequestLost, AnswerLost
<1>18. ASSUME NEW t \in Tasks, Fails(t) \/ (t = Sched /\ TokenExpires) PROVE Gone(a)'
  <2>1. task[t] \in Task
    BY <1>18, OpOfStep DEF Fails, TokenExpires, At
  <2>2. /\ \A d \in Tasks \ {t} : task'[d] = task[d]
        /\ task'[t].pc \in {"load", "none"}
    BY <1>18, <2>1 DEF Fails, TokenExpires, Abort, Goto, Done, Inv, TypeOK, Task, Idle, New
  <2> QED
    BY <1>2, <1>18, <2>2 DEF Fails, TokenExpires, Holds
<1>19. CASE Restart
  BY <1>1, <1>19 DEF Restart, Gone, Holds, Refresher, Idle, New
<1>20. CASE UNCHANGED vars
  BY <1>4, <1>20 DEF vars
<1>21. ASSUME NEW t \in Tasks, TaskStep(t) PROVE Gone(a)'
  BY <1>10, <1>11, <1>12, <1>13, <1>14, <1>15, <1>16, <1>17, <1>18, <1>21
  DEF TaskStep, LoginStep, RefreshStep, RemoveStep
<1>22. CASE TokenExpires
  BY <1>18, <1>22 DEF Tasks
<1> QED
  BY <1>5, <1>7, <1>8, <1>9, <1>19, <1>20, <1>21, <1>22 DEF Next

\* No cycle and no request brings back the token of an account that is gone.
THEOREM RemovedStaysGone == Spec => GoneForGood
<1>1. Inv /\ [Next]_vars => [\A a \in Ids : Gone(a) => Gone(a)']_vars
  BY StaysGone
<1> QED
  BY <1>1, InitInv, NextInv, PTL DEF Spec, GoneForGood
=============================================================================
