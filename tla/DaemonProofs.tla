---------------------------- MODULE DaemonProofs ----------------------------
(***************************************************************************)
(* The safety of Daemon for any number of processes, connections and       *)
(* events and any depth of the channels: types and channel bounds, one     *)
(* owner of the socket, no event lost but those a full channel refused,    *)
(* and nothing shown before it has been through audit_append.              *)
(***************************************************************************)
EXTENDS Daemon, SequenceTheorems, TLAPS

Alive(d) == main[d] \notin {"down", "exec"}

\* Whoever has got past the lock holds it, so there is one process at a time.
ProcInv ==
  /\ \A d \in Daemons : Alive(d) => holder = d
  /\ \A d \in Daemons : server[d] # "none" => Alive(d)
  /\ \A d \in Daemons : server[d] \in {"bound", "accepting"} => socket = d

\* A connection that carries no subscription has nothing under way.
Quiet(c) ==
  /\ c \notin registry /\ queue[c] = <<>> /\ held[c] = <<>> /\ notif[c] = <<>>
  /\ received[c] = <<>> /\ dropped[c] = {}

\* An open connection belongs to the process that is up, and as long as the client
\* is there its writer and its forwarder go on.
ConnOK(c) ==
  /\ client[c] = "none" => forwarder[c] = "none"
  /\ client[c] # "gone" /\ forwarder[c] = "none" => Quiet(c)
  /\ forwarder[c] = "recv" => held[c] = <<>>
  /\ forwarder[c] = "send" => held[c] # <<>>
  /\ client[c] = "open" =>
       /\ peer[c] \in Daemons /\ Alive(peer[c])
       /\ reader[c] = "reading" => writer[c] = "running"
       /\ forwarder[c] # "none" => /\ writer[c] = "running" /\ c \in registry
                                   /\ forwarder[c] # "ended"

ConnInv == \A c \in Conns : ConnOK(c)

Event == 1..MaxEvents

Increasing(s) == \A i \in 1..(Len(s) - 1) : s[i] < s[i + 1]

Occurs(e, s) == \E i \in 1..Len(s) : s[i] = e

\* A subscriber that asked for W after event lo has been given out and will be given
\* those of q it asked for; event hi was the last, and the channel did not take drop.
Stream(out, q, W, lo, hi, drop) ==
  /\ lo <= hi /\ \A e \in drop : e <= hi
  /\ \A i \in 1..Len(out) : out[i] \in W
  /\ Increasing(out \o q)
  /\ \A i \in 1..Len(out \o q) : (out \o q)[i] <= hi
  /\ \A e \in W : Occurs(e, out \o q) <=> lo < e /\ e <= hi /\ e \notin drop

Out(c) == received[c] \o notif[c] \o held[c]

Streaming(c) == client[c] = "open" /\ forwarder[c] # "none"

StreamInv ==
  \A c \in Conns :
    Streaming(c) => Stream(Out(c), queue[c], wanted[c], since[c], drained, dropped[c])

\* Every event beyond drain_task is in the log.
LogInv ==
  /\ saved => drained < emitted /\ drained + 1 \in logged
  /\ queue \in [Conns -> Seq(logged)] /\ held \in [Conns -> Seq(logged)]
  /\ notif \in [Conns -> Seq(logged)] /\ received \in [Conns -> Seq(logged)]

Inv == TypeOK /\ ProcInv /\ ConnInv /\ StreamInv /\ LogInv

-----------------------------------------------------------------------------
\* A sequence is its head followed by its tail.
LEMMA HeadFirst ==
  ASSUME NEW S, NEW q \in Seq(S), q # <<>>
  PROVE  <<Head(q)>> \o Tail(q) = q
<1>1. /\ Head(q) \in S /\ Tail(q) \in Seq(S) /\ Len(Tail(q)) = Len(q) - 1
      /\ \A i \in 1..Len(Tail(q)) : Tail(q)[i] = q[i + 1]
  BY HeadTailProperties
<1>2. <<Head(q)>> \in Seq(S) /\ Len(<<Head(q)>>) = 1 /\ <<Head(q)>>[1] = q[1]
  BY <1>1
<1>3. /\ <<Head(q)>> \o Tail(q) \in Seq(S)
      /\ Len(<<Head(q)>> \o Tail(q)) = Len(q)
      /\ \A i \in 1..Len(q) : (<<Head(q)>> \o Tail(q))[i] = q[i]
  BY <1>1, <1>2, ConcatProperties, LenProperties
<1> QED
  BY <1>3, SeqEqual

\* The head of a sequence may be moved to the end of the one before it.
LEMMA HeadMoves ==
  ASSUME NEW S, NEW r \in Seq(S), NEW n \in Seq(S), n # <<>>
  PROVE  Append(r, Head(n)) \o Tail(n) = r \o n
<1>1. Head(n) \in S /\ Tail(n) \in Seq(S)
  BY HeadTailProperties
<1>2. <<Head(n)>> \in Seq(S)
  BY <1>1
<1>3. Append(r, Head(n)) = r \o <<Head(n)>>
  BY <1>1, AppendIsConcat
<1>4. (r \o <<Head(n)>>) \o Tail(n) = r \o (<<Head(n)>> \o Tail(n))
  BY <1>1, <1>2, ConcatAssociative
<1>5. <<Head(n)>> \o Tail(n) = n
  BY HeadFirst
<1> QED
  BY <1>3, <1>4, <1>5

\* A channel may be emptied into the one before it.
LEMMA Regroup ==
  ASSUME NEW S, NEW r \in Seq(S), NEW n \in Seq(S), NEW h \in Seq(S)
  PROVE  (r \o (n \o h)) \o <<>> = (r \o n) \o h
<1>1. r \o (n \o h) = (r \o n) \o h
  BY ConcatAssociative
<1>2. n \o h \in Seq(S)
  BY ConcatProperties
<1>3. r \o (n \o h) \in Seq(S)
  BY <1>2, ConcatProperties
<1>4. (r \o (n \o h)) \o <<>> = r \o (n \o h)
  BY <1>3, ConcatEmptySeq
<1> QED
  BY <1>1, <1>4

\* Nothing is under way when the subscription is made.
LEMMA StreamNew ==
  ASSUME NEW W \in SUBSET Event, NEW n \in Nat
  PROVE  Stream(<<>>, <<>>, W, n, n, {})
<1>1. <<>> \o <<>> = <<>> /\ Len(<<>>) = 0
  BY EmptySeq, ConcatEmptySeq
<1>2. \A e \in W : ~(n < e /\ e <= n)
  BY DEF Event
<1> QED
  BY <1>1, <1>2 DEF Stream, Increasing, Occurs

\* The forwarder takes an event it asked for.
LEMMA StreamTake ==
  ASSUME NEW out \in Seq(Event), NEW q \in Seq(Event), q # <<>>,
         NEW W, NEW lo, NEW hi, NEW drop, Stream(out, q, W, lo, hi, drop), Head(q) \in W
  PROVE  Stream(out \o <<Head(q)>>, Tail(q), W, lo, hi, drop)
<1>1. /\ Head(q) \in Event /\ Tail(q) \in Seq(Event) /\ Len(Tail(q)) = Len(q) - 1
      /\ \A i \in 1..Len(Tail(q)) : Tail(q)[i] = q[i + 1]
  BY HeadTailProperties
<1>2. <<Head(q)>> \in Seq(Event) /\ Len(<<Head(q)>>) = 1 /\ <<Head(q)>>[1] = q[1]
  BY <1>1
<1>3. (out \o <<Head(q)>>) \o Tail(q) = out \o q
  <2>1. <<Head(q)>> \o Tail(q) = q
    BY HeadFirst
  <2> QED
    BY <1>1, <1>2, <2>1, ConcatAssociative
<1>4. \A i \in 1..Len(out \o <<Head(q)>>) : (out \o <<Head(q)>>)[i] \in W
  BY <1>2, ConcatProperties, LenProperties DEF Stream
<1> QED
  BY <1>3, <1>4 DEF Stream

\* The forwarder passes over an event it did not ask for.
LEMMA StreamSkip ==
  ASSUME NEW out \in Seq(Event), NEW q \in Seq(Event), q # <<>>,
         NEW W, NEW lo, NEW hi \in Nat, NEW drop, Stream(out, q, W, lo, hi, drop), Head(q) \notin W
  PROVE  Stream(out, Tail(q), W, lo, hi, drop)
<1> DEFINE a == out \o q
           b == out \o Tail(q)
           n == Len(out)
<1>1. /\ Tail(q) \in Seq(Event) /\ Len(Tail(q)) = Len(q) - 1
      /\ \A i \in 1..Len(Tail(q)) : Tail(q)[i] = q[i + 1]
  BY HeadTailProperties
<1>2. n \in Nat /\ Len(q) \in Nat \ {0}
  BY LenProperties, EmptySeq
<1>3. Len(a) = n + Len(q) /\ Len(b) = n + Len(q) - 1 /\ a \in Seq(Event)
  BY <1>1, <1>2, ConcatProperties
<1>4. \A i \in 1..Len(b) : b[i] = IF i <= n THEN a[i] ELSE a[i + 1]
  <2> SUFFICES ASSUME NEW i \in 1..Len(b) PROVE b[i] = IF i <= n THEN a[i] ELSE a[i + 1]
    OBVIOUS
  <2>1. b[i] = IF i <= n THEN out[i] ELSE Tail(q)[i - n]
    BY <1>1, <1>2, <1>3, ConcatProperties
  <2>2. /\ i <= n => a[i] = out[i]
        /\ i > n => a[i + 1] = q[(i + 1) - n]
    BY <1>2, <1>3, ConcatProperties
  <2>3. i > n => i - n \in 1..Len(Tail(q)) /\ (i + 1) - n = (i - n) + 1
    BY <1>1, <1>2, <1>3
  <2> QED
    BY <1>1, <1>2, <2>1, <2>2, <2>3
<1>5. a[n + 1] = Head(q)
  <2>1. a[n + 1] = q[1]
    BY <1>2, ConcatProperties
  <2> QED
    BY <2>1
<1>6. \A i \in 1..Len(a) : a[i] \in Int
  <2>1. \A i \in 1..Len(a) : a[i] \in Event
    BY <1>3, ElementOfSeq
  <2> QED
    BY <2>1 DEF Event
<1> HIDE DEF a, b, n
<1>7. Increasing(b)
  <2> SUFFICES ASSUME NEW i \in 1..(Len(b) - 1) PROVE b[i] < b[i + 1]
    BY DEF Increasing
  <2>1. Increasing(a)
    BY DEF Stream, a
  <2>2. i \in 1..(Len(a) - 1) /\ i + 1 \in 1..(Len(a) - 1)
    BY <1>2, <1>3
  <2>3. a[i] < a[i + 1] /\ a[i + 1] < a[(i + 1) + 1]
    BY <2>1, <2>2 DEF Increasing
  <2>4. a[i] \in Int /\ a[i + 1] \in Int /\ a[(i + 1) + 1] \in Int
    BY <1>2, <1>3, <1>6
  <2>5. /\ b[i] = IF i <= n THEN a[i] ELSE a[i + 1]
        /\ b[i + 1] = IF i + 1 <= n THEN a[i + 1] ELSE a[(i + 1) + 1]
    BY <1>2, <1>3, <1>4
  <2> QED
    BY <1>2, <2>3, <2>4, <2>5
<1>8. \A i \in 1..Len(b) : b[i] <= hi
  <2>1. \A i \in 1..Len(a) : a[i] <= hi
    BY DEF Stream, a
  <2> QED
    BY <1>2, <1>3, <1>4, <2>1
<1>9. ASSUME NEW e \in W PROVE Occurs(e, b) <=> Occurs(e, a)
  <2>1. ASSUME Occurs(e, b) PROVE Occurs(e, a)
    BY <1>2, <1>3, <1>4, <2>1 DEF Occurs
  <2>2. ASSUME Occurs(e, a) PROVE Occurs(e, b)
    <3>1. PICK i \in 1..Len(a) : a[i] = e
      BY <2>2 DEF Occurs
    <3>2. i # n + 1
      BY <1>5, <3>1
    <3>3. CASE i <= n
      <4>1. i \in 1..Len(b) /\ b[i] = e
        BY <1>2, <1>3, <1>4, <3>1, <3>3
      <4> QED
        BY <4>1 DEF Occurs
    <3>4. CASE i > n + 1
      <4>1. i - 1 \in 1..Len(b) /\ ~(i - 1 <= n) /\ (i - 1) + 1 = i
        BY <1>2, <1>3, <3>4
      <4>2. b[i - 1] = e
        BY <1>4, <3>1, <4>1
      <4> QED
        BY <4>1, <4>2 DEF Occurs
    <3> QED
      BY <1>2, <1>3, <3>2, <3>3, <3>4
  <2> QED
    BY <2>1, <2>2
<1>10. /\ lo <= hi /\ \A e \in drop : e <= hi
       /\ \A i \in 1..Len(out) : out[i] \in W
       /\ \A e \in W : Occurs(e, a) <=> lo < e /\ e <= hi /\ e \notin drop
  BY DEF Stream, a
<1> QED
  BY <1>7, <1>8, <1>9, <1>10 DEF Stream, b

\* broadcast queues the next event.
LEMMA StreamGrow ==
  ASSUME NEW out \in Seq(Event), NEW q \in Seq(Event), NEW W \in SUBSET Event,
         NEW lo \in Nat, NEW hi \in Nat, hi + 1 \in Event, NEW drop \in SUBSET Event,
         Stream(out, q, W, lo, hi, drop)
  PROVE  Stream(out, Append(q, hi + 1), W, lo, hi + 1, drop)
<1> DEFINE a == out \o q
           b == out \o Append(q, hi + 1)
<1>1. /\ Append(q, hi + 1) \in Seq(Event) /\ Len(Append(q, hi + 1)) = Len(q) + 1
      /\ \A i \in 1..Len(q) : Append(q, hi + 1)[i] = q[i]
      /\ Append(q, hi + 1)[Len(q) + 1] = hi + 1
  BY AppendProperties
<1>2. Len(out) \in Nat /\ Len(q) \in Nat
  BY LenProperties
<1>3. Len(a) \in Nat /\ Len(b) = Len(a) + 1 /\ a \in Seq(Event)
  BY <1>1, <1>2, ConcatProperties
<1>4. \A i \in 1..Len(b) : b[i] = IF i <= Len(a) THEN a[i] ELSE hi + 1
  <2> SUFFICES ASSUME NEW i \in 1..Len(b) PROVE b[i] = IF i <= Len(a) THEN a[i] ELSE hi + 1
    OBVIOUS
  <2>1. Len(a) = Len(out) + Len(q)
    BY ConcatProperties
  <2>2. b[i] = IF i <= Len(out) THEN out[i] ELSE Append(q, hi + 1)[i - Len(out)]
    BY <1>1, <1>2, <1>3, <2>1, ConcatProperties
  <2>3. i <= Len(a) => a[i] = IF i <= Len(out) THEN out[i] ELSE q[i - Len(out)]
    BY <1>2, <1>3, <2>1, ConcatProperties
  <2>4. i > Len(out) /\ i <= Len(a) => i - Len(out) \in 1..Len(q)
    BY <1>2, <1>3, <2>1
  <2>5. i > Len(a) => i - Len(out) = Len(q) + 1 /\ ~(i <= Len(out))
    BY <1>2, <1>3, <2>1
  <2> HIDE DEF a, b
  <2> QED
    BY <1>1, <1>2, <1>3, <2>1, <2>2, <2>3, <2>4, <2>5
<1>5. /\ Increasing(a) /\ \A i \in 1..Len(a) : a[i] <= hi
      /\ lo <= hi /\ \A e \in drop : e <= hi
      /\ \A i \in 1..Len(out) : out[i] \in W
      /\ \A e \in W : Occurs(e, a) <=> lo < e /\ e <= hi /\ e \notin drop
  BY DEF Stream
<1>6. \A i \in 1..Len(a) : a[i] \in Int
  <2>1. \A i \in 1..Len(a) : a[i] \in Event
    BY <1>3, ElementOfSeq
  <2> QED
    BY <2>1 DEF Event
<1> HIDE DEF a, b
<1>7. Increasing(b)
  <2> SUFFICES ASSUME NEW i \in 1..(Len(b) - 1) PROVE b[i] < b[i + 1]
    BY DEF Increasing
  <2>1. i \in 1..Len(a) /\ b[i] = a[i]
    BY <1>3, <1>4
  <2>2. CASE i < Len(a)
    <3>1. i \in 1..(Len(a) - 1) /\ i + 1 \in 1..Len(b) /\ b[i + 1] = a[i + 1]
      BY <1>3, <1>4, <2>2
    <3> QED
      BY <1>5, <2>1, <3>1 DEF Increasing
  <2>3. CASE i = Len(a)
    <3>1. b[i + 1] = hi + 1
      BY <1>3, <1>4, <2>3
    <3> QED
      BY <1>5, <1>6, <2>1, <3>1
  <2> QED
    BY <1>3, <2>2, <2>3
<1>8. \A i \in 1..Len(b) : b[i] <= hi + 1
  BY <1>3, <1>4, <1>5, <1>6
<1>9. ASSUME NEW e \in W
      PROVE  Occurs(e, b) <=> lo < e /\ e <= hi + 1 /\ e \notin drop
  <2>1. Occurs(e, b) <=> Occurs(e, a) \/ e = hi + 1
    <3>1. Occurs(e, b) => Occurs(e, a) \/ e = hi + 1
      BY <1>3, <1>4 DEF Occurs
    <3>2. Occurs(e, a) => Occurs(e, b)
      BY <1>3, <1>4 DEF Occurs
    <3>3. b[Len(b)] = hi + 1 /\ Len(b) \in 1..Len(b)
      BY <1>3, <1>4
    <3>4. e = hi + 1 => Occurs(e, b)
      BY <3>3 DEF Occurs
    <3> QED
      BY <3>1, <3>2, <3>4
  <2>2. e \in Int
    BY DEF Event
  <2>3. e = hi + 1 => lo < e /\ e \notin drop
    BY <1>5
  <2> QED
    BY <1>5, <2>1, <2>2, <2>3
<1>10. lo <= hi + 1 /\ \A e \in drop : e <= hi + 1
  BY <1>5 DEF Event
<1> QED
  BY <1>5, <1>7, <1>8, <1>9, <1>10 DEF Stream, b

\* broadcast finds the channel full.
LEMMA StreamDrop ==
  ASSUME NEW out \in Seq(Event), NEW q \in Seq(Event), NEW W \in SUBSET Event,
         NEW lo \in Nat, NEW hi \in Nat, NEW drop \in SUBSET Event,
         Stream(out, q, W, lo, hi, drop)
  PROVE  Stream(out, q, W, lo, hi + 1, drop \cup {hi + 1})
<1> DEFINE a == out \o q
<1>1. a \in Seq(Event)
  BY ConcatProperties
<1>2. /\ Increasing(a) /\ \A i \in 1..Len(a) : a[i] <= hi
      /\ lo <= hi /\ \A e \in drop : e <= hi
      /\ \A i \in 1..Len(out) : out[i] \in W
      /\ \A e \in W : Occurs(e, a) <=> lo < e /\ e <= hi /\ e \notin drop
  BY DEF Stream
<1>3. \A i \in 1..Len(a) : a[i] \in Int
  <2>1. \A i \in 1..Len(a) : a[i] \in Event
    BY <1>1, ElementOfSeq
  <2> QED
    BY <2>1 DEF Event
<1> HIDE DEF a
<1>4. \A i \in 1..Len(a) : a[i] <= hi + 1
  BY <1>2, <1>3
<1>5. \A e \in W : Occurs(e, a) <=> lo < e /\ e <= hi + 1 /\ e \notin drop \cup {hi + 1}
  BY <1>2 DEF Event
<1>6. lo <= hi + 1 /\ \A e \in drop \cup {hi + 1} : e <= hi + 1
  BY <1>2 DEF Event
<1> QED
  BY <1>2, <1>4, <1>5, <1>6 DEF Stream, a

-----------------------------------------------------------------------------
\* Initially nothing runs and nothing is connected.
LEMMA InitInv == Init => Inv
<1> SUFFICES ASSUME Init PROVE Inv
  OBVIOUS
<1> USE DaemonAssumption DEF Init
<1>1. ProcessType
  BY DEF ProcessType, Receivers
<1>2. ConnType
  BY DEF ConnType
<1>3. ChannelType
  <2>1. <<>> \in Seq(1..MaxEvents) /\ Len(<<>>) = 0
    BY EmptySeq
  <2> QED
    BY <2>1 DEF ChannelType
<1>4. saved \in BOOLEAN
  BY Zenon
<1>5. AuditType
  BY <1>4 DEF AuditType
<1>6. ProcInv /\ ConnInv /\ StreamInv
  BY DEF ProcInv, Alive, ConnInv, ConnOK, Quiet, StreamInv, Streaming
<1>7. LogInv
  <2>1. <<>> \in Seq(logged)
    BY EmptySeq
  <2> QED
    BY <2>1 DEF LogInv
<1> QED
  BY <1>1, <1>2, <1>3, <1>5, <1>6, <1>7 DEF Inv, TypeOK

\* A step that leaves the connections and the log alone and ends no process.
LEMMA SameConn ==
  ASSUME Inv, UNCHANGED <<conn, audit>>, \A d \in Daemons : Alive(d) => Alive(d)'
  PROVE  ConnType' /\ ChannelType' /\ AuditType' /\ ConnInv' /\ StreamInv' /\ LogInv'
<1> USE DEF conn, outgoing, audit
<1>1. ConnType' /\ ChannelType' /\ AuditType'
  BY DEF Inv, TypeOK, ConnType, ChannelType, AuditType
<1>2. ConnInv'
  BY DEF Inv, ConnInv, ConnOK, Quiet
<1>3. StreamInv'
  BY DEF Inv, StreamInv, Streaming, Out
<1>4. LogInv'
  BY DEF Inv, LogInv
<1> QED
  BY <1>1, <1>2, <1>3, <1>4

\* The start of a process, step by step.
LEMMA StartKeeps ==
  ASSUME Inv, NEW d \in Daemons, acquire(d) \/ Up(d)
  PROVE  Inv'
<1> USE DEF Inv, TypeOK, ProcessType, ProcInv, Alive
<1>1. CASE acquire(d)
  <2>1. ProcessType' /\ ProcInv'
    BY <1>1, DaemonAssumption DEF acquire
  <2> QED
    BY <1>1, <2>1, SameConn DEF acquire
<1>2. CASE build_ports(d) \/ spawn_scheduler(d) \/ spawn_server(d) \/ Subscribe(d)
  <2>1. ProcessType' /\ ProcInv'
    BY <1>2 DEF build_ports, spawn_scheduler, spawn_server, Subscribe
  <2> QED
    BY <1>2, <2>1, SameConn DEF build_ports, spawn_scheduler, spawn_server, Subscribe
<1>3. CASE Bind(d) \/ Listen(d)
  <2>1. ProcessType' /\ ProcInv'
    BY <1>3 DEF Bind, Listen
  <2> QED
    BY <1>3, <2>1, SameConn DEF Bind, Listen
<1> QED
  BY <1>1, <1>2, <1>3 DEF Up

\* Triggering the token, and what each receiver does about it.
LEMMA StopKeeps ==
  ASSUME Inv, NEW d \in Daemons,
         Signal(d) \/ StopScheduler(d) \/ StopServer(d) \/ Woken(d)
  PROVE  Inv'
<1> USE DEF Inv, TypeOK, ProcessType, ProcInv, Alive
<1>1. CASE Signal(d)
  <2>1. subscribed(d) \subseteq Receivers
    BY DEF subscribed
  <2>2. ProcessType' /\ ProcInv'
    BY <1>1, <2>1 DEF Signal, trigger
  <2> QED
    BY <1>1, <2>2, SameConn DEF Signal
<1>2. CASE StopScheduler(d) \/ StopServer(d) \/ Woken(d)
  <2>1. ProcessType' /\ ProcInv'
    BY <1>2 DEF StopScheduler, StopServer, Woken
  <2> QED
    BY <1>2, <2>1, SameConn DEF StopScheduler, StopServer, Woken
<1> QED
  BY <1>1, <1>2

\* service.shutdown and the two halves of an upgrade.
LEMMA ServiceKeeps ==
  ASSUME Inv, NEW c \in Conns, shutdown(c) \/ upgrade_prepare(c) \/ upgrade_commit(c)
  PROVE  Inv'
<1> USE DEF Inv, TypeOK, ProcessType, ProcInv, Alive
<1>1. Asks(c) /\ peer[c] \in Daemons
  BY DEF shutdown, upgrade_prepare, upgrade_commit, Asks, ConnInv, ConnOK
<1>2. CASE shutdown(c)
  <2>1. subscribed(peer[c]) \subseteq Receivers
    BY DEF subscribed
  <2>2. ProcessType' /\ ProcInv'
    BY <1>1, <1>2, <2>1 DEF shutdown, trigger
  <2> QED
    BY <1>2, <2>2, SameConn DEF shutdown
<1>3. CASE upgrade_prepare(c)
  <2>1. ProcessType' /\ ProcInv'
    BY <1>1, <1>3 DEF upgrade_prepare
  <2> QED
    BY <1>3, <2>1, SameConn DEF upgrade_prepare
<1> QED
  BY <1>2, <1>3 DEF upgrade_commit

-----------------------------------------------------------------------------
\* A step leaves a connection alone.
Same(k) ==
  /\ peer'[k] = peer[k] /\ client'[k] = client[k] /\ reader'[k] = reader[k] /\ writer'[k] = writer[k]
  /\ (k \in registry') = (k \in registry) /\ forwarder'[k] = forwarder[k] /\ wanted'[k] = wanted[k]
  /\ queue'[k] = queue[k] /\ held'[k] = held[k] /\ notif'[k] = notif[k]
  /\ received'[k] = received[k] /\ since'[k] = since[k] /\ dropped'[k] = dropped[k]

StreamOf(c) ==
  Streaming(c) => Stream(Out(c), queue[c], wanted[c], since[c], drained, dropped[c])

\* The channels of all connections hold logged events.
Logged ==
  /\ queue \in [Conns -> Seq(logged)] /\ held \in [Conns -> Seq(logged)]
  /\ notif \in [Conns -> Seq(logged)] /\ received \in [Conns -> Seq(logged)]

\* A step of one connection needs to be looked at for that connection only.
LEMMA OneConn ==
  ASSUME Inv, NEW c \in Conns, UNCHANGED <<process, audit>>, ConnType', ChannelType',
         ConnOK(c)', StreamOf(c)', Logged', \A k \in Conns \ {c} : Same(k)
  PROVE  Inv'
<1> USE DEF process, audit
<1>1. ProcessType' /\ AuditType' /\ ProcInv'
  BY DEF Inv, TypeOK, ProcessType, AuditType, ProcInv, Alive
<1>2. ConnInv'
  <2> SUFFICES ASSUME NEW k \in Conns, k # c PROVE ConnOK(k)'
    BY DEF ConnInv
  <2> QED
    BY DEF Inv, ConnInv, ConnOK, Quiet, Same, Alive
<1>3. StreamInv'
  <2> SUFFICES ASSUME NEW k \in Conns, k # c PROVE StreamOf(k)'
    BY DEF StreamInv, StreamOf
  <2>1. Same(k) /\ StreamOf(k)
    BY DEF Inv, StreamInv, StreamOf
  <2>2. Out(k)' = Out(k)
    BY <2>1 DEF Out, Same
  <2> QED
    BY <2>1, <2>2 DEF StreamOf, Streaming, Same
<1>4. LogInv'
  BY DEF Inv, LogInv, Logged
<1> QED
  BY <1>1, <1>2, <1>3, <1>4 DEF Inv, TypeOK

\* The parts of the invariant about one connection.
LEMMA AtConn ==
  ASSUME Inv, NEW c \in Conns
  PROVE  /\ ConnOK(c) /\ StreamOf(c) /\ Logged
         /\ queue[c] \in Seq(Event) /\ held[c] \in Seq(Event) /\ notif[c] \in Seq(Event)
         /\ received[c] \in Seq(Event) /\ Out(c) \in Seq(Event)
<1>1. /\ queue[c] \in Seq(Event) /\ held[c] \in Seq(Event) /\ notif[c] \in Seq(Event)
      /\ received[c] \in Seq(Event)
  BY DEF Inv, TypeOK, ChannelType, Event
<1>2. received[c] \o notif[c] \in Seq(Event)
  BY <1>1, ConcatProperties
<1>3. Out(c) \in Seq(Event)
  BY <1>1, <1>2, ConcatProperties DEF Out
<1> QED
  BY <1>1, <1>3 DEF Inv, ConnInv, StreamInv, StreamOf, LogInv, Logged

\* A client connects to the daemon the socket leads to.
LEMMA ConnectKeeps ==
  ASSUME Inv, NEW c \in Conns, Connect(c)
  PROVE  Inv'
<1> USE DEF Connect, outgoing
<1>1. socket \in Daemons /\ Alive(socket)
  BY DEF Inv, TypeOK, ProcessType, ProcInv
<1>2. ConnOK(c) /\ Logged
  BY AtConn
<1>3. ConnType'
  BY <1>1 DEF Inv, TypeOK, ConnType
<1>4. ChannelType'
  BY DEF Inv, TypeOK, ChannelType
<1>5. ConnOK(c)'
  BY <1>1, <1>2 DEF Inv, TypeOK, ConnType, ConnOK, Quiet, Alive, process
<1>6. StreamOf(c)'
  BY <1>2 DEF ConnOK, StreamOf, Streaming
<1>7. Logged'
  BY <1>2 DEF Logged, audit
<1>8. \A k \in Conns \ {c} : Same(k)
  BY DEF Inv, TypeOK, ConnType, Same
<1> QED
  BY <1>3, <1>4, <1>5, <1>6, <1>7, <1>8, OneConn

\* A new subscription starts with what drain_task broadcasts next.
LEMMA InsertKeeps ==
  ASSUME Inv, NEW c \in Conns, NEW W \in SUBSET Event, insert(c, W)
  PROVE  Inv'
<1> USE DEF insert
<1>1. ConnOK(c) /\ Quiet(c) /\ Logged
  BY AtConn DEF ConnOK, Asks
<1>2. drained \in Nat /\ drained <= MaxEvents
  BY DaemonAssumption DEF Inv, TypeOK, AuditType
<1>3. ConnType'
  BY <1>2 DEF Inv, TypeOK, ConnType, Event
<1>4. ChannelType'
  BY DEF Inv, TypeOK, ChannelType
<1>5. ConnOK(c)'
  BY <1>1 DEF Inv, TypeOK, ConnType, ConnOK, Quiet, Asks, Alive, process
<1>6. StreamOf(c)'
  <2>1. Out(c)' = <<>>
    BY <1>1, ConcatEmptySeq, EmptySeq DEF Out, Quiet
  <2>2. Stream(<<>>, <<>>, W, drained, drained, {})
    BY <1>2, StreamNew
  <2> QED
    BY <1>1, <2>1, <2>2 DEF StreamOf, Quiet, Inv, TypeOK, ConnType, audit
<1>7. Logged'
  BY <1>1 DEF Logged, audit
<1>8. \A k \in Conns \ {c} : Same(k)
  BY DEF Inv, TypeOK, ConnType, Same
<1> QED
  BY <1>3, <1>4, <1>5, <1>6, <1>7, <1>8, OneConn

\* The three methods that subscribe.
LEMMA SubscribeKeeps ==
  ASSUME Inv, NEW c \in Conns, tail(c) \/ conflict_subscribe(c) \/ pair_subscribe(c)
  PROVE  Inv'
<1>1. CASE tail(c)
  BY <1>1, InsertKeeps DEF tail, Event
<1>2. CASE conflict_subscribe(c)
  <2>1. PICK pair \in {1..MaxEvents, PairEvents} :
          insert(c, {e \in pair : notification_is_conflict_related(e)})
    BY <1>2 DEF conflict_subscribe
  <2>2. {e \in pair : notification_is_conflict_related(e)} \in SUBSET Event
    BY DaemonAssumption DEF Event
  <2> QED
    BY <2>1, <2>2, InsertKeeps
<1>3. CASE pair_subscribe(c)
  <2>1. {e \in 1..MaxEvents : notification_mentions_pair(e)} \in SUBSET Event
    BY DEF Event
  <2> QED
    BY <1>3, <2>1, InsertKeeps DEF pair_subscribe
<1> QED
  BY <1>1, <1>2, <1>3

\* The client leaves, or its reader ends.
LEMMA LeaveKeeps ==
  ASSUME Inv, NEW c \in Conns, Leave(c) \/ EndReading(c)
  PROVE  Inv'
<1>1. ConnOK(c) /\ StreamOf(c) /\ Logged
  BY AtConn
<1>2. CASE Leave(c)
  <2> USE <1>2 DEF Leave, Forget
  <2>1. <<>> \in Seq(1..MaxEvents) /\ <<>> \in Seq(logged)
    BY EmptySeq
  <2>2. ConnType'
    BY DaemonAssumption DEF Inv, TypeOK, ConnType
  <2>3. ChannelType'
    BY <2>1 DEF Inv, TypeOK, ChannelType
  <2>4. ConnOK(c)' /\ StreamOf(c)'
    BY <1>1 DEF Inv, TypeOK, ConnType, ConnOK, StreamOf, Streaming
  <2>5. Logged'
    BY <1>1, <2>1 DEF Logged, audit
  <2>6. \A k \in Conns \ {c} : Same(k)
    BY DEF Inv, TypeOK, ConnType, Same
  <2> QED
    BY <2>2, <2>3, <2>4, <2>5, <2>6, OneConn
<1>3. CASE EndReading(c)
  <2> USE <1>3 DEF EndReading, outgoing
  <2>1. ConnType'
    BY DEF Inv, TypeOK, ConnType
  <2>2. ChannelType'
    BY DEF Inv, TypeOK, ChannelType
  <2>3. ConnOK(c)'
    BY <1>1 DEF Inv, TypeOK, ConnType, ConnOK, Quiet, Alive, process
  <2>4. StreamOf(c)' /\ Logged'
    BY <1>1 DEF StreamOf, Streaming, Out, Logged, audit
  <2>5. \A k \in Conns \ {c} : Same(k)
    BY DEF Inv, TypeOK, ConnType, Same
  <2> QED
    BY <2>1, <2>2, <2>3, <2>4, <2>5, OneConn
<1> QED
  BY <1>2, <1>3

-----------------------------------------------------------------------------
\* The forwarder takes the next event of its channel.
LEMMA RecvKeeps ==
  ASSUME Inv, NEW c \in Conns, Recv(c)
  PROVE  Inv'
<1> USE DEF Recv
<1>1. /\ ConnOK(c) /\ StreamOf(c) /\ Logged /\ held[c] = <<>>
      /\ queue[c] \in Seq(Event) /\ queue[c] # <<>> /\ Out(c) \in Seq(Event)
      /\ received[c] \in Seq(Event) /\ notif[c] \in Seq(Event)
  BY AtConn DEF ConnOK
<1>2. /\ Head(queue[c]) \in Event /\ Tail(queue[c]) \in Seq(Event)
      /\ Len(Tail(queue[c])) = Len(queue[c]) - 1
  BY <1>1, HeadTailProperties
<1>3. Head(queue[c]) \in logged /\ Tail(queue[c]) \in Seq(logged)
  BY <1>1, HeadTailProperties DEF Logged
<1>4. <<Head(queue[c])>> \in Seq(Event) /\ <<Head(queue[c])>> \in Seq(logged)
      /\ Len(<<Head(queue[c])>>) = 1 /\ <<Head(queue[c])>> # <<>>
  BY <1>2, <1>3
<1>5. ConnType'
  BY DEF Inv, TypeOK, ConnType
<1>6. ChannelType'
  <2>1. /\ queue \in [Conns -> Seq(Event)] /\ held \in [Conns -> Seq(Event)]
        /\ \A k \in Conns : Len(queue[k]) <= SubDepth /\ Len(held[k]) <= 1
    BY DEF Inv, TypeOK, ChannelType, Event
  <2>2. queue' \in [Conns -> Seq(Event)] /\ held' \in [Conns -> Seq(Event)]
    BY <1>2, <1>4, <2>1
  <2>3. Len(Tail(queue[c])) <= SubDepth
    BY <1>1, <1>2, <2>1, LenProperties, DaemonAssumption
  <2>4. \A k \in Conns : Len(queue'[k]) <= SubDepth
    BY <2>1, <2>3
  <2>5. \A k \in Conns : held'[k] \in {held[k], <<Head(queue[c])>>}
    BY <2>1
  <2>6. ASSUME NEW k \in Conns PROVE Len(held'[k]) <= 1
    <3> HIDE DEF Recv
    <3>1. CASE held'[k] = held[k]
      BY <2>1, <3>1
    <3>2. CASE held'[k] = <<Head(queue[c])>>
      BY <1>4, <3>2
    <3> QED
      BY <2>5, <3>1, <3>2
  <2> QED
    BY <2>2, <2>4, <2>6 DEF Inv, TypeOK, ChannelType, Event
<1>7. ConnOK(c)'
  BY <1>1, <1>4 DEF Inv, TypeOK, ConnType, ChannelType, ConnOK, Alive, process
<1>8. StreamOf(c)'
  <2> SUFFICES ASSUME Streaming(c)'
               PROVE  Stream(Out(c), queue[c], wanted[c], since[c], drained, dropped[c])'
    BY DEF StreamOf
  <2>1. Stream(Out(c), queue[c], wanted[c], since[c], drained, dropped[c])
    BY <1>1 DEF StreamOf, Streaming
  <2>2. queue'[c] = Tail(queue[c]) /\ UNCHANGED <<wanted, since, drained, dropped>>
    BY DEF Inv, TypeOK, ChannelType, audit
  <2>3. CASE Head(queue[c]) \in wanted[c]
    <3>1. Out(c) = received[c] \o notif[c]
      <4>1. received[c] \o notif[c] \in Seq(Event)
        BY <1>1, ConcatProperties
      <4> QED
        BY <1>1, <4>1, ConcatEmptySeq DEF Out
    <3>2. Out(c)' = Out(c) \o <<Head(queue[c])>>
      BY <2>3, <3>1 DEF Out, Inv, TypeOK, ChannelType
    <3>3. Stream(Out(c) \o <<Head(queue[c])>>, Tail(queue[c]), wanted[c], since[c], drained, dropped[c])
      BY <1>1, <2>1, <2>3, StreamTake
    <3> QED
      BY <2>2, <3>2, <3>3
  <2>4. CASE Head(queue[c]) \notin wanted[c]
    <3>1. Out(c)' = Out(c)
      BY <2>4 DEF Out
    <3>2. drained \in Nat
      BY DEF Inv, TypeOK, AuditType
    <3>3. Stream(Out(c), Tail(queue[c]), wanted[c], since[c], drained, dropped[c])
      BY <1>1, <2>1, <2>4, <3>2, StreamSkip
    <3> QED
      BY <2>2, <3>1, <3>3
  <2> QED
    BY <2>3, <2>4
<1>9. Logged'
  BY <1>1, <1>3, <1>4 DEF Logged, audit
<1>10. \A k \in Conns \ {c} : Same(k)
  BY DEF Inv, TypeOK, ConnType, ChannelType, Same
<1> QED
  BY <1>5, <1>6, <1>7, <1>8, <1>9, <1>10, OneConn

\* A function stays in its set of functions when one value is replaced.
LEMMA Replaced ==
  ASSUME NEW S, NEW T, NEW f \in [S -> T], NEW i \in S, NEW v \in T
  PROVE  [f EXCEPT ![i] = v] \in [S -> T]
OBVIOUS

\* The forwarder hands its notification to the writer, or ends with it.
LEMMA SendKeeps ==
  ASSUME Inv, NEW c \in Conns, Send(c)
  PROVE  Inv'
<1> USE DEF Send
<1>1. /\ ConnOK(c) /\ StreamOf(c) /\ Logged /\ held[c] \in Seq(Event) /\ notif[c] \in Seq(Event)
      /\ received[c] \in Seq(Event)
  BY AtConn
<1>2. \A S : <<>> \in Seq(S) /\ Len(<<>>) = 0
  BY EmptySeq
<1>3. ConnType'
  BY DEF Inv, TypeOK, ConnType
<1> DEFINE handed == notif[c] \o held[c]
<1>a. /\ held' = [held EXCEPT ![c] = <<>>]
      /\ queue' \in {queue, [queue EXCEPT ![c] = <<>>]}
      /\ notif' \in {notif, [notif EXCEPT ![c] = handed]}
  OBVIOUS
<1>b. ASSUME NEW S, queue \in [Conns -> Seq(S)], held \in [Conns -> Seq(S)],
             notif \in [Conns -> Seq(S)], handed \in Seq(S)
      PROVE  /\ queue' \in [Conns -> Seq(S)] /\ held' \in [Conns -> Seq(S)]
             /\ notif' \in [Conns -> Seq(S)]
  <2> HIDE DEF Send, handed
  <2>1. <<>> \in Seq(S)
    BY <1>2
  <2>2. /\ [queue EXCEPT ![c] = <<>>] \in [Conns -> Seq(S)]
        /\ [held EXCEPT ![c] = <<>>] \in [Conns -> Seq(S)]
        /\ [notif EXCEPT ![c] = handed] \in [Conns -> Seq(S)]
    BY <1>b, <2>1, Replaced
  <2> QED
    BY <1>a, <1>b, <2>2
<1>4. notif[c] \o held[c] \in Seq(Event) /\ notif[c] \o held[c] \in Seq(logged)
      /\ Len(notif[c] \o held[c]) = Len(notif[c]) + Len(held[c])
  BY <1>1, ConcatProperties DEF Logged
<1>5. ChannelType'
  <2>1. /\ queue \in [Conns -> Seq(Event)] /\ held \in [Conns -> Seq(Event)]
        /\ notif \in [Conns -> Seq(Event)]
        /\ \A k \in Conns : /\ Len(queue[k]) <= SubDepth /\ Len(held[k]) <= 1
                            /\ Len(notif[k]) <= NotifDepth
    BY DEF Inv, TypeOK, ChannelType, Event
  <2>2. /\ queue' \in [Conns -> Seq(Event)] /\ held' \in [Conns -> Seq(Event)]
        /\ notif' \in [Conns -> Seq(Event)]
    BY <1>b, <1>4, <2>1
  <2>3. Len(notif[c]) < NotifDepth => Len(notif[c] \o held[c]) <= NotifDepth
    BY <1>1, <1>4, <2>1, LenProperties, DaemonAssumption
  <2>4. \A k \in Conns : /\ Len(queue'[k]) <= SubDepth /\ Len(held'[k]) <= 1
                         /\ Len(notif'[k]) <= NotifDepth
    BY <1>2, <2>1, <2>3, DaemonAssumption
  <2> QED
    BY <2>2, <2>4 DEF Inv, TypeOK, ChannelType, Event
<1>6. ConnOK(c)'
  BY <1>1 DEF Inv, TypeOK, ConnType, ChannelType, ConnOK, Alive, process
<1>7. StreamOf(c)'
  <2> SUFFICES ASSUME Streaming(c)'
               PROVE  Stream(Out(c), queue[c], wanted[c], since[c], drained, dropped[c])'
    BY DEF StreamOf
  <2>1. writer[c] = "running" /\ Streaming(c)
    BY <1>1 DEF ConnOK, Streaming
  <2>2. Out(c)' = received[c] \o (notif[c] \o held[c]) \o <<>>
    BY <2>1 DEF Out, Inv, TypeOK, ChannelType
  <2>3. Out(c)' = Out(c)
    <3> HIDE DEF Send
    <3>1. \A r, n, h \in Seq(Event) : (r \o (n \o h)) \o <<>> = (r \o n) \o h
      BY Regroup
    <3> QED
      BY <1>1, <2>2, <3>1 DEF Out
  <2> QED
    BY <1>1, <2>1, <2>3 DEF StreamOf, audit
<1>8. Logged'
  <2>1. /\ queue \in [Conns -> Seq(logged)] /\ held \in [Conns -> Seq(logged)]
        /\ notif \in [Conns -> Seq(logged)] /\ received \in [Conns -> Seq(logged)]
    BY <1>1 DEF Logged
  <2>2. /\ queue' \in [Conns -> Seq(logged)] /\ held' \in [Conns -> Seq(logged)]
        /\ notif' \in [Conns -> Seq(logged)]
    BY <1>b, <1>4, <2>1
  <2> QED
    BY <2>1, <2>2 DEF Logged, audit
<1>9. \A k \in Conns \ {c} : Same(k)
  BY DEF Inv, TypeOK, ConnType, ChannelType, Same
<1> QED
  BY <1>3, <1>5, <1>6, <1>7, <1>8, <1>9, OneConn

\* The client reads the oldest notification.
LEMMA DeliverKeeps ==
  ASSUME Inv, NEW c \in Conns, Deliver(c)
  PROVE  Inv'
<1> USE DEF Deliver
<1> DEFINE r == received[c]
           n == notif[c]
<1>1. ConnOK(c) /\ StreamOf(c) /\ Logged /\ n \in Seq(Event) /\ r \in Seq(Event) /\ n # <<>>
  BY AtConn
<1>2. /\ Head(n) \in Event /\ Tail(n) \in Seq(Event) /\ Len(Tail(n)) = Len(n) - 1
      /\ \A i \in 1..Len(Tail(n)) : Tail(n)[i] = n[i + 1]
  BY <1>1, HeadTailProperties
<1>3. Head(n) \in logged /\ Tail(n) \in Seq(logged) /\ r \in Seq(logged)
  BY <1>1, HeadTailProperties DEF Logged
<1>4. Append(r, Head(n)) \in Seq(Event) /\ Append(r, Head(n)) \in Seq(logged)
  BY <1>1, <1>2, <1>3, AppendProperties
<1>5. notif'[c] = Tail(n) /\ received'[c] = Append(r, Head(n))
  BY DEF Inv, TypeOK, ChannelType
<1>6. ConnType'
  BY DEF Inv, TypeOK, ConnType
<1>7. ChannelType'
  <2>1. /\ notif \in [Conns -> Seq(Event)] /\ received \in [Conns -> Seq(Event)]
        /\ \A k \in Conns : Len(notif[k]) <= NotifDepth
    BY DEF Inv, TypeOK, ChannelType, Event
  <2>2. notif' \in [Conns -> Seq(Event)] /\ received' \in [Conns -> Seq(Event)]
    BY <1>2, <1>4, <2>1
  <2>3. Len(Tail(n)) <= NotifDepth
    BY <1>1, <1>2, <2>1, LenProperties, DaemonAssumption
  <2>4. \A k \in Conns : Len(notif'[k]) <= NotifDepth
    BY <2>1, <2>3
  <2> QED
    BY <2>2, <2>4 DEF Inv, TypeOK, ChannelType, Event
<1>8. ConnOK(c)'
  BY <1>1 DEF Inv, TypeOK, ConnType, ChannelType, ConnOK, Quiet, Alive, process
<1>9. StreamOf(c)'
  <2>1. Append(r, Head(n)) \o Tail(n) = r \o n
    BY <1>1, HeadMoves
  <2>2. Out(c)' = Out(c)
    BY <1>5, <2>1 DEF Out
  <2> QED
    BY <1>1, <2>2 DEF StreamOf, Streaming, audit
<1>10. Logged'
  BY <1>1, <1>3, <1>4 DEF Logged, audit
<1>11. \A k \in Conns \ {c} : Same(k)
  BY DEF Inv, TypeOK, ConnType, ChannelType, Same
<1> QED
  BY <1>6, <1>7, <1>8, <1>9, <1>10, <1>11, OneConn

\* The writer ends: with a client that has left, or with nothing left to send.
LEMMA EndWritingKeeps ==
  ASSUME Inv, NEW c \in Conns, EndWriting(c) \/ ResponseFails(c)
  PROVE  Inv'
<1>1. /\ WriterReturns(c)
      /\ \/ client[c] = "gone"
         \/ notif[c] = <<>> /\ reader[c] = "ended" /\ forwarder[c] \in {"none", "ended"}
  BY DEF EndWriting, ResponseFails
<1> USE DEF WriterReturns
<1>2. ConnOK(c) /\ StreamOf(c) /\ Logged
  BY AtConn
<1>3. \A S : <<>> \in Seq(S) /\ Len(<<>>) = 0
  BY EmptySeq
<1>4. ConnType'
  BY <1>1 DEF Inv, TypeOK, ConnType
<1>5. ChannelType'
  BY <1>1, <1>3, DaemonAssumption DEF Inv, TypeOK, ChannelType
<1>6. ConnOK(c)' /\ StreamOf(c)'
  BY <1>1, <1>2
     DEF Inv, TypeOK, ConnType, ChannelType, ConnOK, Quiet, StreamOf, Streaming, Alive, process
<1>7. Logged'
  BY <1>1, <1>2, <1>3 DEF Logged, audit
<1>8. \A k \in Conns \ {c} : Same(k)
  BY <1>1 DEF Inv, TypeOK, ConnType, ChannelType, Same
<1> QED
  BY <1>1, <1>4, <1>5, <1>6, <1>7, <1>8, OneConn

-----------------------------------------------------------------------------
\* A process ends; it was the only one, so it takes every open connection with it.
LEMMA EndsKeeps ==
  ASSUME Inv, NEW d \in Daemons, NEW m \in {"down", "exec"}, Alive(d), Ends(d, m), UNCHANGED socket
  PROVE  Inv'
<1> USE DEF Ends, Forget
<1>1. holder = d /\ \A x \in Daemons : Alive(x) => x = d
  BY DEF Inv, ProcInv
<1>2. \A c \in Conns : client[c] = "open" => peer[c] = d
  BY <1>1 DEF Inv, ConnInv, ConnOK
<1>3. \A S : <<>> \in Seq(S) /\ Len(<<>>) = 0
  BY EmptySeq
<1>4. ProcessType'
  BY DEF Inv, TypeOK, ProcessType
<1>5. ConnType'
  BY DaemonAssumption DEF Inv, TypeOK, ConnType
<1>6. ChannelType'
  <2>1. /\ queue \in [Conns -> Seq(Event)] /\ held \in [Conns -> Seq(Event)]
        /\ notif \in [Conns -> Seq(Event)] /\ received \in [Conns -> Seq(Event)]
        /\ \A k \in Conns : /\ Len(queue[k]) <= SubDepth /\ Len(held[k]) <= 1
                            /\ Len(notif[k]) <= NotifDepth
    BY DEF Inv, TypeOK, ChannelType, Event
  <2>2. /\ queue' \in [Conns -> Seq(Event)] /\ held' \in [Conns -> Seq(Event)]
        /\ notif' \in [Conns -> Seq(Event)] /\ received' \in [Conns -> Seq(Event)]
    BY <1>3, <2>1
  <2>3. \A k \in Conns : /\ Len(queue'[k]) <= SubDepth /\ Len(held'[k]) <= 1
                         /\ Len(notif'[k]) <= NotifDepth
    BY <1>3, <2>1, DaemonAssumption
  <2> QED
    BY <2>2, <2>3 DEF ChannelType, Event
<1>7. AuditType'
  <2>1. saved' \in BOOLEAN
    BY Zenon
  <2> QED
    BY <2>1 DEF Inv, TypeOK, AuditType
<1>8. ProcInv'
  <2>1. \A x \in Daemons : ~Alive(x)'
    BY <1>1 DEF Alive, Inv, TypeOK, ProcessType
  <2>2. \A x \in Daemons : server'[x] = "none"
    BY <1>1 DEF Inv, ProcInv, TypeOK, ProcessType
  <2> QED
    BY <2>1, <2>2 DEF ProcInv
<1>9. ConnInv'
  BY <1>2 DEF ConnInv, ConnOK, Quiet, Inv
<1>10. StreamInv'
  BY <1>2 DEF StreamInv, Streaming
<1>11. LogInv'
  BY <1>3 DEF LogInv, Inv
<1> QED
  BY <1>4, <1>5, <1>6, <1>7, <1>8, <1>9, <1>10, <1>11 DEF Inv, TypeOK

\* The end of a process, regular or not.
LEMMA ExitKeeps ==
  ASSUME Inv, NEW d \in Daemons, Exit(d) \/ Crash(d)
  PROVE  Inv'
<1>1. CASE Exit(d)
  <2>1. PICK m \in {"down"} \cup {x \in {"exec"} : d \in staged} : Ends(d, m)
    BY <1>1 DEF Exit
  <2>2. Alive(d) /\ UNCHANGED socket
    BY <1>1 DEF Exit, Alive
  <2> QED
    BY <2>1, <2>2, EndsKeeps
<1>2. CASE Crash(d)
  BY <1>2, EndsKeeps DEF Crash, Alive
<1> QED
  BY <1>1, <1>2

\* An event is emitted, and drain_task saves it.
LEMMA EmitKeeps ==
  ASSUME Inv, emit \/ append
  PROVE  Inv'
<1>1. UNCHANGED <<process, conn, drained>>
  BY DEF emit, append
<1> USE <1>1 DEF process, conn, outgoing
<1>2. ProcessType' /\ ConnType' /\ ChannelType' /\ ProcInv' /\ ConnInv'
  BY DEF Inv, TypeOK, ProcessType, ConnType, ChannelType, ProcInv, ConnInv, ConnOK, Quiet, Alive
<1>3. StreamInv'
  BY DEF Inv, StreamInv, Streaming, Out
<1>4. CASE emit
  <2>1. AuditType'
    BY <1>4, DaemonAssumption DEF emit, Inv, TypeOK, AuditType
  <2>2. LogInv'
    BY <1>4 DEF emit, Inv, TypeOK, AuditType, LogInv
  <2> QED
    BY <1>2, <1>3, <2>1, <2>2 DEF Inv, TypeOK
<1>5. CASE append
  <2>1. drained + 1 \in 1..MaxEvents
    BY <1>5, DaemonAssumption DEF append, Inv, TypeOK, AuditType
  <2>2. AuditType'
    BY <1>5, <2>1 DEF append, Inv, TypeOK, AuditType
  <2>3. \A s \in Seq(logged) : s \in Seq(logged')
    BY <1>5, SeqMonotonic DEF append
  <2>4. LogInv'
    <3>1. /\ queue \in [Conns -> Seq(logged)] /\ held \in [Conns -> Seq(logged)]
          /\ notif \in [Conns -> Seq(logged)] /\ received \in [Conns -> Seq(logged)]
      BY DEF Inv, LogInv
    <3>2. /\ queue \in [Conns -> Seq(logged')] /\ held \in [Conns -> Seq(logged')]
          /\ notif \in [Conns -> Seq(logged')] /\ received \in [Conns -> Seq(logged')]
      BY <2>3, <3>1
    <3> QED
      BY <1>5, <3>2 DEF append, LogInv
  <2> QED
    BY <1>2, <1>3, <2>2, <2>4 DEF Inv, TypeOK
<1> QED
  BY <1>4, <1>5

\* drain_task broadcasts the event it has saved.
LEMMA BroadcastKeeps ==
  ASSUME Inv, broadcast
  PROVE  Inv'
<1> DEFINE e == drained + 1
           open == {c \in registry : forwarder[c] # "ended"}
           into == open \cap HasRoom
<1>1. /\ saved /\ drained < emitted /\ drained' = e /\ saved' = FALSE /\ registry' = open \cap Conns
      /\ queue' = [c \in Conns |-> IF c \in into THEN Append(queue[c], e) ELSE queue[c]]
      /\ dropped' = [c \in Conns |->
           IF c \in open \ HasRoom /\ client[c] = "open" THEN dropped[c] \cup {e} ELSE dropped[c]]
      /\ left' = [c \in Conns |->
           IF c \in into /\ e \in wanted[c] /\ client[c] = "gone"
             THEN IF writer[c] = "ended" THEN 2 ELSE 1
             ELSE left[c]]
      /\ UNCHANGED <<process, peer, client, reader, writer, forwarder, wanted, held, notif, received,
                     since, emitted, logged>>
  BY DEF broadcast, Broadcast
<1>2. drained \in Nat /\ e \in Event /\ e \in logged /\ e <= emitted
  BY <1>1, DaemonAssumption DEF Inv, TypeOK, AuditType, LogInv, Event
<1> HIDE DEF e
<1>3. ProcessType' /\ ProcInv'
  BY <1>1 DEF Inv, TypeOK, ProcessType, ProcInv, Alive, process
<1>4. ConnType'
  BY <1>1, <1>2 DEF Inv, TypeOK, ConnType, Event
<1>5. \A c \in Conns : /\ Append(queue[c], e) \in Seq(Event) /\ Append(queue[c], e) \in Seq(logged)
                       /\ Len(Append(queue[c], e)) = Len(queue[c]) + 1
  <2> SUFFICES ASSUME NEW c \in Conns
               PROVE  /\ Append(queue[c], e) \in Seq(Event) /\ Append(queue[c], e) \in Seq(logged)
                      /\ Len(Append(queue[c], e)) = Len(queue[c]) + 1
    OBVIOUS
  <2>1. queue[c] \in Seq(Event) /\ queue[c] \in Seq(logged)
    BY AtConn DEF Logged
  <2> QED
    BY <1>2, <2>1, AppendProperties
<1>6. ChannelType'
  <2>1. /\ queue \in [Conns -> Seq(Event)]
        /\ \A k \in Conns : Len(queue[k]) <= SubDepth
    BY DEF Inv, TypeOK, ChannelType, Event
  <2>2. queue' \in [Conns -> Seq(Event)]
    BY <1>1, <1>5, <2>1
  <2>3. ASSUME NEW k \in Conns PROVE Len(queue'[k]) <= SubDepth
    <3>1. CASE k \in into
      <4>1. Len(queue[k]) \in Nat
        BY <2>1, LenProperties
      <4>2. Len(queue[k]) < SubDepth
        BY <3>1 DEF HasRoom
      <4>3. queue'[k] = Append(queue[k], e)
        BY <1>1, <3>1
      <4> QED
        BY <1>5, <4>1, <4>2, <4>3, DaemonAssumption
    <3>2. CASE k \notin into
      BY <1>1, <2>1, <3>2
    <3> QED
      BY <3>1, <3>2
  <2> QED
    BY <1>1, <2>2, <2>3 DEF Inv, TypeOK, ChannelType, Event
<1>7. AuditType'
  <2>1. saved' \in BOOLEAN
    BY <1>1, Zenon
  <2> QED
    BY <1>1, <1>2, <2>1, DaemonAssumption DEF Inv, TypeOK, AuditType, e
<1>8. ConnInv'
  BY <1>1 DEF Inv, TypeOK, ConnType, ConnInv, ConnOK, Quiet, Alive, process
<1>9. StreamInv'
  <2> SUFFICES ASSUME NEW c \in Conns, Streaming(c)'
               PROVE  Stream(Out(c), queue[c], wanted[c], since[c], drained, dropped[c])'
    BY DEF StreamInv
  <2>1. client[c] = "open" /\ forwarder[c] # "none" /\ Streaming(c) /\ c \in open
    BY <1>1 DEF Inv, ConnInv, ConnOK, Streaming
  <2>2. /\ Stream(Out(c), queue[c], wanted[c], since[c], drained, dropped[c])
        /\ Out(c) \in Seq(Event) /\ queue[c] \in Seq(Event)
    BY <2>1, AtConn DEF StreamOf
  <2>3. wanted[c] \in SUBSET Event /\ since[c] \in Nat /\ dropped[c] \in SUBSET Event
    BY DEF Inv, TypeOK, ConnType, Event
  <2>4. Out(c)' = Out(c) /\ wanted'[c] = wanted[c] /\ since'[c] = since[c] /\ drained' = drained + 1
    BY <1>1 DEF Out, e
  <2>5. CASE c \in HasRoom
    <3>1. queue'[c] = Append(queue[c], drained + 1) /\ dropped'[c] = dropped[c]
      BY <1>1, <2>1, <2>5 DEF e
    <3>2. Stream(Out(c), Append(queue[c], drained + 1), wanted[c], since[c], drained + 1, dropped[c])
      BY <1>2, <2>2, <2>3, StreamGrow DEF e
    <3> QED
      BY <2>4, <3>1, <3>2
  <2>6. CASE c \notin HasRoom
    <3>1. queue'[c] = queue[c] /\ dropped'[c] = dropped[c] \cup {drained + 1}
      BY <1>1, <2>1, <2>6 DEF e
    <3>2. Stream(Out(c), queue[c], wanted[c], since[c], drained + 1, dropped[c] \cup {drained + 1})
      BY <1>2, <2>2, <2>3, StreamDrop
    <3> QED
      BY <2>4, <3>1, <3>2
  <2> QED
    BY <2>5, <2>6
<1>10. LogInv'
  BY <1>1, <1>5 DEF Inv, LogInv
<1> QED
  BY <1>3, <1>4, <1>6, <1>7, <1>8, <1>9, <1>10 DEF Inv, TypeOK

\* The sweep removes only entries whose forwarder has ended.
LEMMA GcKeeps ==
  ASSUME Inv, gc
  PROVE  Inv'
<1> USE DEF gc
<1>1. ProcessType' /\ ConnType' /\ ChannelType' /\ AuditType' /\ ProcInv'
  BY DEF Inv, TypeOK, ProcessType, ConnType, ChannelType, AuditType, ProcInv, Alive, process, audit
<1>2. ConnInv'
  BY DEF Inv, ConnInv, ConnOK, Quiet, Alive, process
<1>3. StreamInv'
  BY DEF Inv, StreamInv, Streaming, Out, audit
<1>4. LogInv'
  BY DEF Inv, LogInv, audit
<1> QED
  BY <1>1, <1>2, <1>3, <1>4 DEF Inv, TypeOK

\* Every step keeps the invariant.
LEMMA NextInv == Inv /\ [Next]_vars => Inv'
<1> SUFFICES ASSUME Inv, [Next]_vars PROVE Inv'
  OBVIOUS
<1>1. CASE UNCHANGED vars
  <2>1. UNCHANGED <<process, conn, audit>>
    BY <1>1 DEF vars
  <2>2. \A d \in Daemons : Alive(d) => Alive(d)'
    BY <2>1 DEF process, Alive
  <2>3. ConnType' /\ ChannelType' /\ AuditType' /\ ConnInv' /\ StreamInv' /\ LogInv'
    BY <2>1, <2>2, SameConn
  <2>4. ProcessType' /\ ProcInv'
    BY <2>1 DEF Inv, TypeOK, ProcessType, ProcInv, Alive, process
  <2> QED
    BY <2>3, <2>4 DEF Inv, TypeOK
<1>2. ASSUME NEW d \in Daemons,
             \/ acquire(d) \/ Up(d) \/ Down(d) \/ Signal(d) \/ Crash(d) \/ StopScheduler(d)
      PROVE  Inv'
  BY <1>2, StartKeeps, StopKeeps, ExitKeeps DEF Down
<1>3. ASSUME NEW c \in Conns,
             \/ Connect(c) \/ tail(c) \/ conflict_subscribe(c) \/ pair_subscribe(c)
             \/ shutdown(c) \/ upgrade_prepare(c) \/ upgrade_commit(c)
             \/ Leave(c) \/ EndReading(c) \/ Pump(c) \/ Deliver(c) \/ ResponseFails(c)
      PROVE  Inv'
  BY <1>3, ConnectKeeps, SubscribeKeeps, ServiceKeeps, LeaveKeeps, RecvKeeps, SendKeeps,
     EndWritingKeeps, DeliverKeeps DEF Pump
<1>4. CASE emit \/ drain_task \/ gc
  BY <1>4, EmitKeeps, BroadcastKeeps, GcKeeps DEF drain_task
<1> QED
  BY <1>1, <1>2, <1>3, <1>4 DEF Next

\* The invariant holds throughout.
LEMMA Always == Spec => []Inv
BY InitInv, NextInv, PTL DEF Spec

-----------------------------------------------------------------------------
\* Every variable keeps its type and no channel ever holds more than its depth.
THEOREM TypeCorrect == Spec => []TypeOK
<1>1. Inv => TypeOK
  BY DEF Inv
<1> QED
  BY <1>1, Always, PTL

\* The socket file of a daemon that accepts connections leads to that daemon: the
\* lock that acquire takes keeps every other process from binding or removing it.
THEOREM OneSocketOwner == Spec => []SocketOwned
<1>1. Inv => SocketOwned
  BY DEF Inv, ProcInv, SocketOwned
<1> QED
  BY <1>1, Always, PTL

\* A subscriber gets every event it asked for, once and in order, except those the
\* full channel of the registry refused.
THEOREM StreamComplete == Spec => []NothingLost
<1>1. Inv => NothingLost
  <2> SUFFICES ASSUME Inv, NEW c \in Conns, client[c] = "open", forwarder[c] # "none"
               PROVE  /\ c \in registry
                      /\ \A i \in 1..Len(Out(c)) : Out(c)[i] \in wanted[c]
                      /\ Increasing(Out(c) \o queue[c])
                      /\ \A e \in wanted[c] :
                           Occurs(e, Out(c) \o queue[c])
                             <=> e \in ((since[c] + 1)..drained) \ dropped[c]
    BY DEF NothingLost, Out, Increasing, Occurs
  <2>1. c \in registry
    BY DEF Inv, ConnInv, ConnOK
  <2>2. Stream(Out(c), queue[c], wanted[c], since[c], drained, dropped[c])
    BY DEF Inv, StreamInv, Streaming
  <2>3. \A e \in wanted[c] : e \in Int
    BY DEF Inv, TypeOK, ConnType
  <2>4. since[c] \in Nat /\ drained \in Nat
    BY DEF Inv, TypeOK, ConnType, AuditType
  <2>5. \A e \in wanted[c] : e \in (since[c] + 1)..drained <=> since[c] < e /\ e <= drained
    BY <2>3, <2>4
  <2> QED
    BY <2>1, <2>2, <2>5 DEF Stream
<1> QED
  BY <1>1, Always, PTL

\* drain_task broadcasts only what audit_append has been asked to write.
THEOREM LoggedFirst == Spec => []SeenIsLogged
<1>1. Inv => SeenIsLogged
  <2> SUFFICES ASSUME Inv, NEW c \in Conns, NEW i \in 1..Len(received[c])
               PROVE  received[c][i] \in logged
    BY DEF SeenIsLogged
  <2>1. received[c] \in Seq(logged)
    BY DEF Inv, LogInv
  <2> QED
    BY <2>1, ElementOfSeq
<1> QED
  BY <1>1, Always, PTL
=============================================================================
