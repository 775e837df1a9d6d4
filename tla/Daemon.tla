------------------------------- MODULE Daemon -------------------------------
(***************************************************************************)
(* The daemon process: the lock, the order in which main.rs brings up the  *)
(* tasks and takes them down, the socket file, the ShutdownToken, and the  *)
(* way of an audit event from emit over the drain task, the subscription   *)
(* registry, the forwarder and the writer of a connection to the client.   *)
(* Several processes may be started on one runtime directory.  Each task   *)
(* is scheduled on its own; everything of a process ends with it.          *)
(***************************************************************************)
EXTENDS Naturals, Sequences, FiniteSets

CONSTANTS
  Daemons,    \* processes started on the runtime directory
  Conns,      \* client connections, each opened once
  None,       \* no process
  MaxEvents,  \* bound: audit events ever emitted
  ConflictEvents, \* those whose kind is conflict.* or local.case_collision*
  PairEvents,     \* those with the pair_id a subscriber asks for
  SubDepth,   \* SUB_CHANNEL_DEPTH
  NotifDepth  \* CONN_NOTIF_DEPTH

ASSUME DaemonAssumption ==
  /\ None \notin Daemons
  /\ ConflictEvents \subseteq 1..MaxEvents /\ PairEvents \subseteq 1..MaxEvents
  /\ MaxEvents \in Nat /\ SubDepth \in Nat \ {0} /\ NotifDepth \in Nat \ {0}

VARIABLES
  main,      \* where async_main of each process is
  holder,    \* who holds the file lock
  socket,    \* whose listener the socket file leads to
  server,    \* the IPC server task
  sched,     \* the scheduler task
  handler,   \* processes whose signal handler still waits for its first signal
  woken,     \* receivers of the ShutdownToken that have a message
  staged,    \* processes with a binary in upgrade_staging
  peer,      \* the daemon at the other end of a connection
  client,    \* the client
  reader,    \* handle_connection
  writer,    \* writer_task
  registry,  \* SubscriptionRegistry
  forwarder, \* the task the subscribing method spawned
  wanted,    \* ... and the events it forwards
  queue,     \* channel of the registry entry
  held,      \* the notification the forwarder is sending
  notif,     \* channel of the connection
  received,  \* what the client has read
  emitted,   \* events ever emitted
  drained,   \* the newest event drain_task has broadcast
  saved,     \* whether the event after it has been through audit_append
  logged,    \* events that have been through audit_append
  since,     \* history: the newest event when the subscription was made
  dropped,   \* history: events the full channel did not take
  left       \* history: the forwarder got an event since the client left (1), the writer ended (2)

process == <<main, holder, socket, server, sched, handler, woken, staged>>
outgoing == <<registry, forwarder, wanted, queue, held, notif, received, since, dropped>>
conn == <<peer, client, reader, writer, outgoing, left>>
audit == <<emitted, drained, saved, logged>>
vars == <<process, conn, audit>>

Receivers == {"main", "server", "sched"}

Init ==
  /\ main = [d \in Daemons |-> "down"] /\ holder = None /\ socket = None
  /\ server = [d \in Daemons |-> "none"] /\ sched = [d \in Daemons |-> "none"]
  /\ handler = {} /\ woken = [d \in Daemons |-> {}] /\ staged = {}
  /\ peer = [c \in Conns |-> None] /\ client = [c \in Conns |-> "none"]
  /\ reader = [c \in Conns |-> "none"] /\ writer = [c \in Conns |-> "none"]
  /\ registry = {} /\ forwarder = [c \in Conns |-> "none"] /\ wanted = [c \in Conns |-> {}]
  /\ queue = [c \in Conns |-> <<>>] /\ held = [c \in Conns |-> <<>>]
  /\ notif = [c \in Conns |-> <<>>] /\ received = [c \in Conns |-> <<>>]
  /\ emitted = 0 /\ drained = 0 /\ saved = FALSE /\ logged = {}
  /\ since = [c \in Conns |-> 0] /\ dropped = [c \in Conns |-> {}] /\ left = [c \in Conns |-> 0]

-----------------------------------------------------------------------------
\* Mutant: let _ = acquire(..): the guard is dropped at once.
acquire_Dropped(d) ==
  /\ main[d] \in {"down", "exec"} /\ holder = None
  /\ main' = [main EXCEPT ![d] = "locked"]
  /\ UNCHANGED <<holder, socket, server, sched, handler, woken, staged, conn, audit>>

\* A process that does not get the lock exits at once and is no step.
acquire(d) ==
  /\ main[d] \in {"down", "exec"} /\ holder = None
  /\ main' = [main EXCEPT ![d] = "locked"] /\ holder' = d
  /\ UNCHANGED <<socket, server, sched, handler, woken, staged, conn, audit>>

\* build_ports, then the signal handler.
build_ports(d) ==
  /\ main[d] = "locked" /\ main' = [main EXCEPT ![d] = "ports"]
  /\ handler' = handler \cup {d}
  /\ UNCHANGED <<holder, socket, server, sched, woken, staged, conn, audit>>

\* The scheduler subscribes to the token before its task starts.
spawn_scheduler(d) ==
  /\ main[d] = "ports" /\ main' = [main EXCEPT ![d] = "scheduler"]
  /\ sched' = [sched EXCEPT ![d] = "running"]
  /\ UNCHANGED <<holder, socket, server, handler, woken, staged, conn, audit>>

spawn_server(d) ==
  /\ main[d] = "scheduler" /\ main' = [main EXCEPT ![d] = "spawned"]
  /\ server' = [server EXCEPT ![d] = "binding"]
  /\ UNCHANGED <<holder, socket, sched, handler, woken, staged, conn, audit>>

\* async_main subscribes and waits.
Subscribe(d) ==
  /\ main[d] = "spawned" /\ main' = [main EXCEPT ![d] = "waiting"]
  /\ UNCHANGED <<holder, socket, server, sched, handler, woken, staged, conn, audit>>

\* Whatever socket file is there is removed and bound anew, or the task fails.
Bind(d) ==
  /\ server[d] = "binding"
  /\ \/ server' = [server EXCEPT ![d] = "bound"] /\ socket' = d
     \/ server' = [server EXCEPT ![d] = "ended"] /\ UNCHANGED socket
  /\ UNCHANGED <<main, holder, sched, handler, woken, staged, conn, audit>>

\* The server subscribes only now.
Listen(d) ==
  /\ server[d] = "bound" /\ server' = [server EXCEPT ![d] = "accepting"]
  /\ UNCHANGED <<main, holder, socket, sched, handler, woken, staged, conn, audit>>

\* trigger: the message goes to those that have subscribed.
subscribed(d) == {r \in Receivers : \/ r = "main" /\ main[d] \in {"waiting", "joining"}
                                    \/ r = "server" /\ server[d] = "accepting"
                                    \/ r = "sched" /\ sched[d] = "running"}

trigger(d) == woken' = [woken EXCEPT ![d] = @ \cup subscribed(d)]

\* SIGTERM or SIGINT; the handler task ends with the first one.
Signal(d) ==
  /\ d \in handler /\ handler' = handler \ {d}
  /\ trigger(d)
  /\ UNCHANGED <<main, holder, socket, server, sched, staged, conn, audit>>

\* Once the cycle it is in, if any, is over.
StopScheduler(d) ==
  /\ sched[d] = "running" /\ "sched" \in woken[d] /\ sched' = [sched EXCEPT ![d] = "stopped"]
  /\ UNCHANGED <<main, holder, socket, server, handler, woken, staged, conn, audit>>

\* Mutant: the server waits for its clients to leave.
StopServer_Drains(d) ==
  /\ server[d] = "accepting" /\ "server" \in woken[d]
  /\ \A c \in Conns : peer[c] = d => client[c] # "open"
  /\ server' = [server EXCEPT ![d] = "ended"] /\ socket' = None
  /\ UNCHANGED <<main, holder, sched, handler, woken, staged, conn, audit>>

\* The accept loop ends and the socket file is removed.
StopServer(d) ==
  /\ server[d] = "accepting" /\ "server" \in woken[d]
  /\ server' = [server EXCEPT ![d] = "ended"] /\ socket' = None
  /\ UNCHANGED <<main, holder, sched, handler, woken, staged, conn, audit>>

Woken(d) ==
  /\ main[d] = "waiting" /\ "main" \in woken[d] /\ main' = [main EXCEPT ![d] = "joining"]
  /\ UNCHANGED <<holder, socket, server, sched, handler, woken, staged, conn, audit>>

\* What a client has read is followed up to the end of its connection.
Forget(C) ==
  /\ received' = [c \in Conns |-> IF c \in C THEN <<>> ELSE received[c]]
  /\ since' = [c \in Conns |-> IF c \in C THEN 0 ELSE since[c]]
  /\ dropped' = [c \in Conns |-> IF c \in C THEN {} ELSE dropped[c]]

\* Every task of the process ends where it is, and its queues are lost.
Ends(d, m) ==
  LET mine == {c \in Conns : peer[c] = d} IN
  /\ main' = [main EXCEPT ![d] = m] /\ holder' = IF holder = d THEN None ELSE holder
  /\ server' = [server EXCEPT ![d] = "none"] /\ sched' = [sched EXCEPT ![d] = "none"]
  /\ handler' = handler \ {d} /\ woken' = [woken EXCEPT ![d] = {}] /\ staged' = staged \ {d}
  /\ client' = [c \in Conns |-> IF c \in mine THEN "gone" ELSE client[c]]
  /\ reader' = [c \in Conns |-> IF c \in mine THEN "ended" ELSE reader[c]]
  /\ writer' = [c \in Conns |-> IF c \in mine THEN "ended" ELSE writer[c]]
  /\ forwarder' = [c \in Conns |-> IF c \in mine THEN "none" ELSE forwarder[c]]
  /\ registry' = registry \ mine
  /\ wanted' = [c \in Conns |-> IF c \in mine THEN {} ELSE wanted[c]]
  /\ queue' = [c \in Conns |-> IF c \in mine THEN <<>> ELSE queue[c]]
  /\ held' = [c \in Conns |-> IF c \in mine THEN <<>> ELSE held[c]]
  /\ notif' = [c \in Conns |-> IF c \in mine THEN <<>> ELSE notif[c]]
  /\ Forget(mine)
  /\ drained' = emitted /\ saved' = FALSE
  /\ UNCHANGED <<peer, left, emitted, logged>>

\* The process returns, or execs what is staged (a failed exec returns too); the lock
\* file is closed on exec.
Exit(d) ==
  /\ main[d] = "joining" /\ server[d] = "ended"
  /\ \E m \in {"down"} \cup {x \in {"exec"} : d \in staged} : Ends(d, m)
  /\ UNCHANGED socket

\* Killed; the socket file stays.  (Between exec and the lock there is nothing to lose.)
Crash(d) == main[d] \notin {"down", "exec"} /\ Ends(d, "down") /\ UNCHANGED socket

-----------------------------------------------------------------------------
Connect(c) ==
  /\ client[c] = "none" /\ socket # None /\ server[socket] = "accepting"
  /\ peer' = [peer EXCEPT ![c] = socket] /\ client' = [client EXCEPT ![c] = "open"]
  /\ reader' = [reader EXCEPT ![c] = "reading"] /\ writer' = [writer EXCEPT ![c] = "running"]
  /\ UNCHANGED <<process, outgoing, left, audit>>

Asks(c) == client[c] = "open" /\ reader[c] = "reading"

\* A registry entry and its forwarder; of a connection's subscriptions one is kept.
insert(c, events) ==
  /\ Asks(c) /\ forwarder[c] = "none"
  /\ registry' = registry \cup {c} /\ forwarder' = [forwarder EXCEPT ![c] = "recv"]
  /\ wanted' = [wanted EXCEPT ![c] = events] /\ since' = [since EXCEPT ![c] = drained]
  /\ UNCHANGED <<process, peer, client, reader, writer, queue, held, notif, received, dropped,
                 left, audit>>

\* audit.tail
tail(c) == insert(c, 1..MaxEvents)

notification_is_conflict_related(e) == e \in ConflictEvents

notification_mentions_pair(e) == e \in PairEvents

\* conflict.subscribe, which may ask for one pair.
conflict_subscribe(c) ==
  \E pair \in {1..MaxEvents, PairEvents} :
    insert(c, {e \in pair : notification_is_conflict_related(e)})

pair_subscribe(c) == insert(c, {e \in 1..MaxEvents : notification_mentions_pair(e)})

shutdown(c) ==
  /\ Asks(c) /\ trigger(peer[c])
  /\ UNCHANGED <<main, holder, socket, server, sched, handler, staged, conn, audit>>

upgrade_prepare(c) ==
  /\ Asks(c) /\ staged' = staged \cup {peer[c]}
  /\ UNCHANGED <<main, holder, socket, server, sched, handler, woken, conn, audit>>

upgrade_commit(c) == peer[c] \in staged /\ shutdown(c)

Leave(c) ==
  /\ client[c] = "open" /\ client' = [client EXCEPT ![c] = "gone"] /\ Forget({c})
  /\ UNCHANGED <<process, peer, reader, writer, registry, forwarder, wanted, queue, held, notif, left,
                 audit>>

\* End of file, a frame that is too large, or a read error.
EndReading(c) ==
  /\ reader[c] = "reading" /\ reader' = [reader EXCEPT ![c] = "ended"]
  /\ UNCHANGED <<process, peer, client, writer, outgoing, left, audit>>

-----------------------------------------------------------------------------
\* A cycle or a handler emits an event; the channel to drain_task is unbounded.
emit ==
  /\ \E d \in Daemons : main[d] \notin {"down", "exec", "locked"}
  /\ emitted < MaxEvents /\ emitted' = emitted + 1
  /\ UNCHANGED <<process, conn, drained, saved, logged>>

\* drain_task: audit_append, whose error is only logged ...
append ==
  /\ drained < emitted /\ ~saved /\ saved' = TRUE
  /\ logged' = logged \cup {drained + 1}
  /\ UNCHANGED <<process, conn, emitted, drained>>

\* keep: subscriptions that survive; room: connections whose channel takes the event.
Broadcast(keep, room) ==
  LET e == drained + 1
      open == {c \in registry : forwarder[c] # "ended"}
      into == open \cap room
  IN /\ drained < emitted /\ drained' = e /\ saved' = FALSE
     /\ registry' = open \cap keep
     /\ queue' = [c \in Conns |-> IF c \in into THEN Append(queue[c], e) ELSE queue[c]]
     /\ dropped' = [c \in Conns |->
          IF c \in open \ room /\ client[c] = "open" THEN dropped[c] \cup {e} ELSE dropped[c]]
     /\ left' = [c \in Conns |->
          IF c \in into /\ e \in wanted[c] /\ client[c] = "gone"
            THEN IF writer[c] = "ended" THEN 2 ELSE 1
            ELSE left[c]]
     /\ UNCHANGED <<process, peer, client, reader, writer, forwarder, wanted, held, notif, received,
                    since, emitted, logged>>

HasRoom == {c \in Conns : Len(queue[c]) < SubDepth}

\* Mutant: a full channel ends the subscription.
broadcast_FullEnds == saved /\ Broadcast(HasRoom, HasRoom)

\* Mutant: an unbounded channel.
broadcast_Unbounded == saved /\ Broadcast(Conns, Conns)

\* Mutant: audit_append is not awaited.
broadcast_NotAwaited == Broadcast(Conns, HasRoom)

\* ... then broadcast: a full channel loses the event, a closed one its entry.
broadcast == saved /\ Broadcast(Conns, HasRoom)

drain_task == append \/ broadcast

\* The sweep every SUB_GC_INTERVAL_MS.
gc ==
  /\ registry' = {c \in registry : forwarder[c] # "ended"}
  /\ UNCHANGED <<process, peer, client, reader, writer, forwarder, wanted, queue, held, notif,
                 received, since, dropped, left, audit>>

\* The forwarder takes a notification, drops it if it is not one its client asked for ...
Recv(c) ==
  /\ forwarder[c] = "recv" /\ queue[c] # <<>> /\ queue' = [queue EXCEPT ![c] = Tail(@)]
  /\ IF Head(queue[c]) \in wanted[c]
       THEN /\ forwarder' = [forwarder EXCEPT ![c] = "send"]
            /\ held' = [held EXCEPT ![c] = <<Head(queue[c])>>]
       ELSE UNCHANGED <<forwarder, held>>
  /\ UNCHANGED <<process, peer, client, reader, writer, registry, wanted, notif, received, since,
                 dropped, left, audit>>

\* Mutant: the result of send is ignored.
Send_IgnoresError(c) ==
  /\ forwarder[c] = "send" /\ held' = [held EXCEPT ![c] = <<>>]
  /\ \/ writer[c] = "ended" /\ UNCHANGED notif
     \/ /\ writer[c] = "running" /\ Len(notif[c]) < NotifDepth
        /\ notif' = [notif EXCEPT ![c] = @ \o held[c]]
  /\ forwarder' = [forwarder EXCEPT ![c] = "recv"]
  /\ UNCHANGED <<process, peer, client, reader, writer, registry, wanted, queue, received, since,
                 dropped, left, audit>>

\* ... and sends it on, waiting for room; it ends when the writer has.
Send(c) ==
  /\ forwarder[c] = "send" /\ held' = [held EXCEPT ![c] = <<>>]
  /\ \/ /\ writer[c] = "ended" /\ forwarder' = [forwarder EXCEPT ![c] = "ended"]
        /\ queue' = [queue EXCEPT ![c] = <<>>] /\ UNCHANGED notif
     \/ /\ writer[c] = "running" /\ Len(notif[c]) < NotifDepth
        /\ notif' = [notif EXCEPT ![c] = @ \o held[c]]
        /\ forwarder' = [forwarder EXCEPT ![c] = "recv"] /\ UNCHANGED queue
  /\ UNCHANGED <<process, peer, client, reader, writer, registry, wanted, received, since, dropped,
                 left, audit>>

\* The client reads what is written.
Deliver(c) ==
  /\ writer[c] = "running" /\ notif[c] # <<>> /\ client[c] = "open"
  /\ notif' = [notif EXCEPT ![c] = Tail(@)]
  /\ received' = [received EXCEPT ![c] = Append(@, Head(notif[c]))]
  /\ UNCHANGED <<process, peer, client, reader, writer, registry, forwarder, wanted, queue, held,
                 since, dropped, left, audit>>

WriterReturns(c) ==
  /\ writer[c] = "running"
  /\ writer' = [writer EXCEPT ![c] = "ended"] /\ notif' = [notif EXCEPT ![c] = <<>>]
  /\ UNCHANGED <<process, peer, client, reader, registry, forwarder, wanted, queue, held,
                 received, since, dropped, left, audit>>

\* The writer ends when it cannot write a notification, or nobody is left who could send.
EndWriting(c) ==
  /\ \/ notif[c] # <<>> /\ client[c] = "gone"
     \/ notif[c] = <<>> /\ reader[c] = "ended" /\ forwarder[c] \in {"none", "ended"}
  /\ WriterReturns(c)

\* It also ends when it cannot write a response.  Responses are not modelled: a client
\* that has left may have left one behind.
ResponseFails(c) == client[c] = "gone" /\ WriterReturns(c)

-----------------------------------------------------------------------------
Up(d) ==
  build_ports(d) \/ spawn_scheduler(d) \/ spawn_server(d) \/ Subscribe(d) \/ Bind(d) \/ Listen(d)

Down(d) == StopServer(d) \/ Woken(d) \/ Exit(d)

Pump(c) == (client[c] = "gone" /\ EndReading(c)) \/ Recv(c) \/ Send(c) \/ EndWriting(c)

Next ==
  \/ \E d \in Daemons : \/ acquire(d) \/ Up(d) \/ Down(d) \/ Signal(d) \/ Crash(d)
                         \/ StopScheduler(d)
  \/ \E c \in Conns : \/ Connect(c) \/ tail(c) \/ conflict_subscribe(c) \/ pair_subscribe(c)
                       \/ shutdown(c) \/ upgrade_prepare(c) \/ upgrade_commit(c)
                       \/ Leave(c) \/ EndReading(c)
                       \/ Pump(c) \/ Deliver(c) \/ ResponseFails(c)
  \/ emit \/ drain_task \/ gc

\* The runtime polls every task that can go on; a client may stop reading, and
\* nobody has to start a daemon, a cycle or a request.
Fairness ==
  /\ \A d \in Daemons : WF_vars(Up(d) \/ Down(d))
  /\ \A c \in Conns : WF_vars(Pump(c))
  /\ WF_vars(drain_task) /\ WF_vars(gc)

Spec == Init /\ [][Next]_vars /\ Fairness

-----------------------------------------------------------------------------
ProcessType ==
  /\ main \in [Daemons -> {"down", "exec", "locked", "ports", "scheduler", "spawned", "waiting",
                            "joining"}]
  /\ holder \in Daemons \cup {None} /\ socket \in Daemons \cup {None}
  /\ server \in [Daemons -> {"none", "binding", "bound", "accepting", "ended"}]
  /\ sched \in [Daemons -> {"none", "running", "stopped"}]
  /\ handler \subseteq Daemons /\ woken \in [Daemons -> SUBSET Receivers] /\ staged \subseteq Daemons

ConnType ==
  /\ peer \in [Conns -> Daemons \cup {None}] /\ client \in [Conns -> {"none", "open", "gone"}]
  /\ reader \in [Conns -> {"none", "reading", "ended"}]
  /\ writer \in [Conns -> {"none", "running", "ended"}]
  /\ registry \subseteq Conns /\ forwarder \in [Conns -> {"none", "recv", "send", "ended"}]
  /\ wanted \in [Conns -> SUBSET (1..MaxEvents)] /\ since \in [Conns -> 0..MaxEvents]
  /\ dropped \in [Conns -> SUBSET (1..MaxEvents)] /\ left \in [Conns -> 0..2]

\* The channels with their depths.
ChannelType ==
  /\ queue \in [Conns -> Seq(1..MaxEvents)] /\ held \in [Conns -> Seq(1..MaxEvents)]
  /\ notif \in [Conns -> Seq(1..MaxEvents)] /\ received \in [Conns -> Seq(1..MaxEvents)]
  /\ \A c \in Conns : /\ Len(queue[c]) <= SubDepth /\ Len(held[c]) <= 1
                      /\ Len(notif[c]) <= NotifDepth

AuditType ==
  /\ emitted \in 0..MaxEvents /\ drained \in 0..emitted /\ saved \in BOOLEAN
  /\ logged \subseteq 1..MaxEvents

TypeOK == ProcessType /\ ConnType /\ ChannelType /\ AuditType

\* The socket file of a daemon that accepts connections leads to it: no other
\* daemon, starting or stopping, removes or replaces it.
SocketOwned == \A d \in Daemons : server[d] = "accepting" => socket = d

\* A client that is there gets every event it asked for since it subscribed, and no
\* other, once and in order, but for those its full channel did not take.
NothingLost ==
  \A c \in Conns : client[c] = "open" /\ forwarder[c] # "none" =>
    LET out == received[c] \o notif[c] \o held[c]
        way == out \o queue[c]
    IN /\ c \in registry
       /\ \A i \in 1..Len(out) : out[i] \in wanted[c]
       /\ \A i \in 1..(Len(way) - 1) : way[i] < way[i + 1]
       /\ \A e \in wanted[c] :
            (\E i \in 1..Len(way) : way[i] = e) <=> e \in ((since[c] + 1)..drained) \ dropped[c]

\* What a client has seen was written to the audit log first, or writing it failed.
SeenIsLogged ==
  \A c \in Conns : {received[c][i] : i \in 1..Len(received[c])} \subseteq logged

\* A daemon ends once async_main and the server have heard of the shutdown,
\* whatever cycle is running and whoever is connected.
Stops ==
  \A d \in Daemons : {"main", "server"} \subseteq woken[d] ~> main[d] \in {"down", "exec"}

\* A client that has left is noticed when the next event it asked for reaches its
\* writer, and its registry entry goes after the one that follows.  Events are all
\* that is sure to reveal it: while none comes the forwarder waits, the entry's
\* channel is open and every sweep keeps it, however many intervals pass.
SubscriptionGoes ==
  \A c \in Conns : /\ left[c] > 0 ~> writer[c] = "ended"
                   /\ left[c] = 2 ~> c \notin registry
=============================================================================
