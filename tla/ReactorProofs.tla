---------------------------- MODULE ReactorProofs ----------------------------
(***************************************************************************)
(* Theorems about the server process, for any number of connections,       *)
(* descriptors and workers.                                                *)
(***************************************************************************)
EXTENDS Reactor, FiniteSetTheorems, TLAPS

ConnType == [mem : {"unused", "live", "leaked", "freed"}, fd : Fd \cup {None},
             travelling : BOOLEAN, method : {"none", "GET", "POST"}, header : BOOLEAN]
EntryType == [handler : Handler, context : Conn]
WorkerType == [pc : {"idle", "do", "complete", "set_handler", "ctl_add", "unregister", "free"},
               c : Conn \cup {None}, kind : Kind \cup {None}, err : BOOLEAN,
               then : {"idle", "complete"}]
LoopType == [pc : {"poll", "dispatch", "accept", "down"},
             events : Seq([fd : Fd \cup {Listen}, mask : Mask]), left : 0..MaxReady]

\* The state of the process, without that of the peers.
ProcTypeOK ==
  /\ conn \in [Conn -> ConnType]
  /\ sched \in [Fd -> {None} \cup EntryType]
  /\ interest \in [Fd -> {"none", "IN", "OUT"}]
  /\ openfd \subseteq Fd
  /\ queue \in Seq([kind : Kind, c : Conn])
  /\ worker \in [Worker -> WorkerType]
LoopOK == loop \in LoopType /\ Len(loop.events) <= MaxReady /\ LoopHasEvent
EnvTypeOK ==
  /\ backlog \subseteq Conn /\ unread \subseteq Conn /\ hup \subseteq Conn /\ room \subseteq Conn
  /\ input \in [Conn -> Request]

\* The type invariant by the owners of the state: process, loop, peers.
LEMMA TypeParts ==
  TypeOK /\ LoopHasEvent <=>
    ProcTypeOK /\ LoopOK /\ EnvTypeOK /\ fault \in {"none", "double_close", "use_after_free"}
  BY DEF TypeOK, ProcTypeOK, LoopOK, EnvTypeOK, ConnType, EntryType, WorkerType, LoopType

\* The process before the first connection.
LEMMA InitInv == Init => IInv
<1> SUFFICES ASSUME Init PROVE IInv
  OBVIOUS
<1>1. ProcTypeOK
  <2>1. NewConn \in ConnType
    BY DEF NewConn, ConnType
  <2>2. Idle \in WorkerType
    BY DEF Idle, WorkerType
  <2>3. queue \in Seq([kind : Kind, c : Conn])
    BY DEF Init
  <2> QED BY <2>1, <2>2, <2>3 DEF Init, ProcTypeOK
<1>2. LoopOK
  BY ReadyAssumption DEF Init, LoopOK, LoopType, LoopHasEvent, Polling
<1>3. EnvTypeOK
  BY DEF Init, EnvTypeOK, Request
<1>4. OwnFds
  BY DEF Init, OwnFds, Open, Live, Leaked, NewConn
<1>5. Len(queue) = 0 /\ \A w \in Worker : worker[w].c = None /\ worker[w].pc = "idle"
  BY DEF Init, Idle
<1>6. Tasks
  BY <1>5, IdAssumption DEF Tasks, InPool
<1>7. Entries /\ ChainSteps
  BY <1>5 DEF Init, Entries, EntryIsOwn, ChainSteps, Live, Leaked, NewConn
<1> QED BY <1>1, <1>2, <1>3, <1>4, <1>6, <1>7, TypeParts DEF IInv, Init

-----------------------------------------------------------------------------
(* The loop *)

\* The first element of a sequence.
LEMMA EventOfSeq == ASSUME NEW S, NEW s \in Seq(S), Len(s) >= 1 PROVE s[1] \in S
  OBVIOUS

\* The elements of a sequence.
LEMMA ElementsOfSeq == ASSUME NEW S, NEW s \in Seq(S) PROVE \A i \in 1..Len(s) : s[i] \in S
  OBVIOUS

\* The event the loop looks at.
LEMMA CurrentType ==
  ASSUME LoopOK, loop.pc \in {"dispatch", "accept"}
  PROVE  Current = loop.events[1] /\ Current.fd \in Fd \cup {Listen} /\ Current.mask \in Mask
<1>1. Current = loop.events[1]
  BY DEF Current, get_next_index
<1>2. loop.events[1] \in [fd : Fd \cup {Listen}, mask : Mask]
  <2>1. loop.events \in Seq([fd : Fd \cup {Listen}, mask : Mask])
    BY DEF LoopOK, LoopType
  <2>2. Len(loop.events) >= 1
    BY DEF LoopOK, LoopHasEvent
  <2> QED BY <2>1, <2>2, EventOfSeq
<1> QED BY <1>1, <1>2

\* The loop goes on with the next round, or with epoll_wait.
LEMMA LoopGoesOn ==
  ASSUME LoopOK, loop.pc \in {"dispatch", "accept"},
         \/ loop' = Advanced \/ loop' = Returned \/ loop' = [loop EXCEPT !.pc = "accept"]
  PROVE  LoopOK'
<1> USE ReadyAssumption DEF LoopType
<1>0. loop \in LoopType /\ loop.left >= 1 /\ Len(loop.events) >= 1 /\ Len(loop.events) <= MaxReady
      /\ MaxReady \in Nat /\ loop.left \in 0..MaxReady
  BY DEF LoopOK, LoopHasEvent
<1>1. CASE loop' = Polling
  BY <1>1 DEF Polling, LoopOK, LoopHasEvent
<1>2. CASE loop.left # 1 /\ loop' = [loop EXCEPT !.left = @ - 1]
  BY <1>0, <1>2 DEF LoopOK, LoopHasEvent
<1>3. CASE loop.left # 1 /\ loop' = [loop EXCEPT !.pc = "dispatch", !.left = @ - 1]
  <2>1. loop' = [pc |-> "dispatch", events |-> loop.events, left |-> loop.left - 1]
    BY <1>0, <1>3
  <2>2. loop.left - 1 \in 0..MaxReady /\ loop.left - 1 >= 1
    BY <1>0, <1>3
  <2> QED BY <1>0, <2>1, <2>2 DEF LoopOK, LoopHasEvent
<1>4. CASE loop' = [loop EXCEPT !.pc = "accept"]
  BY <1>0, <1>4 DEF LoopOK, LoopHasEvent
<1> QED BY <1>1, <1>2, <1>3, <1>4 DEF Advanced, Returned

\* A function on 1..n is a sequence.
LEMMA FunctionIsSeq == ASSUME NEW S, NEW n \in Nat, NEW s \in [1..n -> S]
                       PROVE  s \in Seq(S) /\ Len(s) = n
  OBVIOUS

\* epoll_wait returns events of descriptors.
LEMMA PollLoop == ASSUME LoopOK, Poll PROVE LoopOK'
<1>1. PICK n \in 1..MaxReady : \E ev \in [1..n -> Ready] :
        loop' = [pc |-> "dispatch", events |-> ev, left |-> n]
  BY DEF Poll
<1>2. PICK ev \in [1..n -> Ready] : loop' = [pc |-> "dispatch", events |-> ev, left |-> n]
  BY <1>1
<1>3. n \in Nat /\ n >= 1 /\ n <= MaxReady /\ n \in 0..MaxReady
  BY ReadyAssumption
<1>4. Ready \subseteq [fd : Fd \cup {Listen}, mask : Mask]
  <2>1. {e \in [fd : {Listen}, mask : {"IN"}] : backlog # {}}
          \subseteq [fd : Fd \cup {Listen}, mask : Mask]
    BY DEF Mask
  <2>2. [fd : Fd, mask : Mask] \subseteq [fd : Fd \cup {Listen}, mask : Mask]
    OBVIOUS
  <2> QED BY <2>1, <2>2 DEF Ready
<1>5. ev \in [1..n -> [fd : Fd \cup {Listen}, mask : Mask]]
  BY <1>4
<1>6. ev \in Seq([fd : Fd \cup {Listen}, mask : Mask]) /\ Len(ev) = n
  BY <1>3, <1>5, FunctionIsSeq
<1> QED BY <1>2, <1>3, <1>6 DEF LoopOK, LoopType, LoopHasEvent

-----------------------------------------------------------------------------
(* What the loop and the workers do to connections, table, epoll and queue *)

PInv == ProcTypeOK /\ EnvTypeOK /\ OwnFds /\ Tasks /\ Entries /\ ChainSteps

\* Two connections in one entry or under one descriptor are one.
LEMMA EntryOf ==
  ASSUME PInv, NEW f \in Fd, sched[f] # None
  PROVE  /\ sched[f] \in EntryType /\ sched[f].context \in Conn /\ sched[f].handler \in Handler
         /\ Live(sched[f].context) /\ conn[sched[f].context].fd = f /\ f \in openfd
<1>1. sched[f] \in EntryType
  BY DEF PInv, ProcTypeOK
<1>2. f \in openfd
  BY DEF PInv, OwnFds
<1> QED BY <1>1, <1>2 DEF EntryType, PInv, Entries, EntryIsOwn

\* The peers, and what handlers read and write, leave the process as it is.
LEMMA PeersInv ==
  ASSUME PInv, EnvTypeOK', UNCHANGED <<conn, sched, interest, openfd, queue, worker>>,
         \A c \in Conn : input[c] \in {"GET", "POST"} => input'[c] = input[c],
         \A c \in backlog' : conn[c].mem = "unused"
  PROVE  PInv'
<1>1. ProcTypeOK'
  BY DEF PInv, ProcTypeOK
<1>2. \A c \in Conn : InPool(c)' = InPool(c)
  BY DEF InPool
<1>3. OwnFds'
  BY DEF PInv, OwnFds, Open, Live, Leaked, Peer
<1>4. Tasks'
  BY <1>2 DEF PInv, Tasks
<1>5. Entries' /\ ChainSteps'
  BY <1>2 DEF PInv, ProcTypeOK, EntryType, Entries, EntryIsOwn, HandlerFits, ChainSteps,
                Live, Leaked
<1> QED BY <1>1, <1>3, <1>4, <1>5 DEF PInv

\* tgx_close_connection in the loop.
LEMMA CloseInv ==
  ASSUME PInv, EnvTypeOK', UNCHANGED <<queue, worker, backlog, input>>,
         NEW f \in Fd, sched[f] # None, CloseConnection(sched[f].context)
  PROVE  PInv'
<1> DEFINE c == sched[f].context
<1>0. c \in Conn /\ Live(c) /\ conn[c].fd = f
  BY EntryOf
<1> HIDE DEF c
<1>1. /\ sched' = [sched EXCEPT ![f] = None] /\ interest' = [interest EXCEPT ![f] = "none"]
      /\ openfd' = openfd \ {f} /\ conn' = [conn EXCEPT ![c].mem = "freed"]
  BY <1>0 DEF c, CloseConnection
<1>2. ProcTypeOK'
  <2>1. conn' \in [Conn -> ConnType]
    <3>1. conn \in [Conn -> ConnType] /\ conn[c] \in ConnType
      BY <1>0 DEF PInv, ProcTypeOK
    <3>2. [conn[c] EXCEPT !.mem = "freed"] \in ConnType
      BY <3>1 DEF ConnType
    <3> QED BY <1>1, <3>1, <3>2
  <2>2. /\ sched' \in [Fd -> {None} \cup EntryType]
        /\ interest' \in [Fd -> {"none", "IN", "OUT"}] /\ openfd' \subseteq Fd
    BY <1>1 DEF PInv, ProcTypeOK
  <2> QED BY <2>1, <2>2 DEF PInv, ProcTypeOK
<1>3. \A d \in Conn : /\ conn'[d].fd = conn[d].fd
                      /\ conn'[d].mem = IF d = c THEN "freed" ELSE conn[d].mem
  BY <1>0, <1>1 DEF PInv, ProcTypeOK, ConnType
<1>4. \A g \in Fd : /\ sched'[g] = IF g = f THEN None ELSE sched[g]
                    /\ interest'[g] = IF g = f THEN "none" ELSE interest[g]
  BY <1>1 DEF PInv, ProcTypeOK
<1>5. \A d \in Conn : InPool(d)' = InPool(d)
  BY DEF InPool
<1>6. \A d \in Conn : (Live(d)' => Live(d) /\ d # c /\ conn[d].fd # f)
                      /\ (Leaked(d)' => Leaked(d) /\ d # c /\ conn[d].fd # f)
  BY <1>0, <1>3 DEF PInv, OwnFds, Open, Live, Leaked
<1>7. OwnFds'
  <2>1. \A g \in openfd' : Peer(g)' # {}
    <3> SUFFICES ASSUME NEW g \in openfd, g # f PROVE Peer(g)' # {}
      BY <1>1
    <3>1. PICK d \in Conn : (Live(d) \/ Leaked(d)) /\ conn[d].fd = g
      BY DEF PInv, OwnFds, Peer
    <3> QED BY <1>0, <1>3, <3>1 DEF Peer, Live, Leaked
  <2>2. \A d \in backlog' : conn'[d].mem = "unused"
    BY <1>0, <1>3 DEF PInv, OwnFds, EnvTypeOK, Live
  <2>3. \A d \in Conn : Open(d)' => conn'[d].fd \in openfd'
    BY <1>1, <1>3, <1>6 DEF PInv, OwnFds, Open
  <2>4. \A d, e \in Conn : Open(d)' /\ Open(e)' /\ conn'[d].fd = conn'[e].fd => d = e
    BY <1>3, <1>6 DEF PInv, OwnFds, Open
  <2>5. \A g \in Fd \ openfd' : sched'[g] = None /\ interest'[g] = "none"
    BY <1>1, <1>4 DEF PInv, OwnFds
  <2> QED BY <2>1, <2>2, <2>3, <2>4, <2>5 DEF OwnFds
<1>8. Tasks'
  BY <1>3, <1>5 DEF PInv, Tasks
<1>9. Entries'
  <2>1. \A d \in Conn : Live(d) \/ Leaked(d) => conn[d].fd \in Fd
    BY DEF PInv, OwnFds, Open, ProcTypeOK
  <2>2. \A g \in Fd : sched'[g] # None =>
          g # f /\ sched'[g] = sched[g] /\ interest'[g] = interest[g] /\ sched[g].context \in Conn
          /\ sched[g].context # c
    BY <1>0, <1>4, EntryOf
  <2>3. EntryIsOwn'
    BY <1>3, <2>2 DEF PInv, Entries, EntryIsOwn, Live
  <2>4. \A d \in Conn : Live(d)' => sched'[conn'[d].fd] # None
                          \/ \E w \in Worker : worker'[w].c = d /\ worker'[w].pc = "free"
    BY <1>3, <1>4, <1>6, <2>1 DEF PInv, Entries
  <2>5. \A d \in Conn : Leaked(d)' => sched'[conn'[d].fd] = None
    BY <1>3, <1>4, <1>6, <2>1 DEF PInv, Entries
  <2>6. \A d \in Conn : Live(d)' /\ InPool(d)' => interest'[conn'[d].fd] = "none"
    BY <1>3, <1>4, <1>5, <1>6, <2>1 DEF PInv, Entries
  <2>7. \A g \in Fd : sched'[g] # None => HandlerFits(g)'
    BY <1>5, <2>2 DEF PInv, Entries, HandlerFits
  <2> QED BY <2>3, <2>4, <2>5, <2>6, <2>7 DEF Entries
<1>10. ChainSteps'
  <2>1. \A w \in Worker : worker[w].pc # "idle" => worker[w].c \in Conn
    BY DEF PInv, ProcTypeOK, WorkerType, Tasks
  <2>2. \A d \in Conn : Live(d) \/ Leaked(d) => conn[d].fd \in Fd
    BY DEF PInv, OwnFds, Open, ProcTypeOK
  <2> QED BY <1>3, <1>4, <1>6, <2>1, <2>2 DEF PInv, ChainSteps
<1> QED BY <1>2, <1>7, <1>8, <1>9, <1>10 DEF PInv

\* Where the descriptors of connections and the connections of workers are.
LEMMA Ranges ==
  ASSUME PInv
  PROVE  /\ \A d \in Conn : Live(d) \/ Leaked(d) => conn[d].fd \in Fd /\ conn[d].fd \in openfd
         /\ \A w \in Worker : worker[w].pc # "idle" => worker[w].c \in Conn /\ InPool(worker[w].c)
  BY DEF PInv, OwnFds, Open, ProcTypeOK, WorkerType, Tasks, InPool

\* A task at the end of the queue.
LEMMA Queueing ==
  ASSUME NEW S, NEW q \in Seq(S), NEW x \in S
  PROVE  /\ Append(q, x) \in Seq(S) /\ Len(Append(q, x)) = Len(q) + 1 /\ Len(q) \in Nat
         /\ \A i \in 1..Len(q) : Append(q, x)[i] = q[i]
         /\ Append(q, x)[Len(q) + 1] = x
  OBVIOUS

\* A task is taken from the head of the queue.
LEMMA Unqueueing ==
  ASSUME NEW S, NEW q \in Seq(S), q # <<>>
  PROVE  /\ Tail(q) \in Seq(S) /\ Len(Tail(q)) = Len(q) - 1 /\ Len(q) \in Nat /\ Len(q) >= 1
         /\ \A i \in 1..(Len(q) - 1) : Tail(q)[i] = q[i + 1]
         /\ Head(q) = q[1] /\ Head(q) \in S
  OBVIOUS

\* A queue that has got a task for a connection that had none, while the workers
\* kept theirs.
LEMMA PostedPool ==
  ASSUME PInv, NEW c \in Conn, NEW k \in Kind,
         queue' = Append(queue, [kind |-> k, c |-> c])
  PROVE  /\ queue' \in Seq([kind : Kind, c : Conn]) /\ Len(queue') = Len(queue) + 1
         /\ Len(queue) \in Nat
         /\ \A i \in 1..Len(queue) : queue'[i] = queue[i]
         /\ queue'[Len(queue) + 1].c = c
<1>1. [kind |-> k, c |-> c] \in [kind : Kind, c : Conn] /\ [kind |-> k, c |-> c].c = c
  OBVIOUS
<1>2. queue \in Seq([kind : Kind, c : Conn])
  BY DEF PInv, ProcTypeOK
<1> DEFINE x == [kind |-> k, c |-> c]
<1> HIDE DEF x
<1>3. x \in [kind : Kind, c : Conn] /\ x.c = c /\ queue' = Append(queue, x)
  BY <1>1 DEF x
<1> QED BY <1>2, <1>3, Queueing

\* tgx_event_set_handler.
LEMMA SetHandlerEffect ==
  ASSUME PInv, NEW f \in Fd, sched[f] # None, NEW h \in Handler, SetHandler(f, h)
  PROVE  /\ sched' \in [Fd -> {None} \cup EntryType]
         /\ \A g \in Fd : g # f => sched'[g] = sched[g]
         /\ sched'[f] # None /\ sched'[f].context = sched[f].context /\ sched'[f].handler = h
<1>0. sched[f] \in EntryType
  BY EntryOf
<1>1. \A g \in Fd : g # f => sched'[g] = sched[g]
  BY DEF SetHandler, PInv, ProcTypeOK
<1>2. sched'[f] = [sched[f] EXCEPT !.handler = h]
  BY DEF SetHandler, PInv, ProcTypeOK
<1>3. sched'[f] \in EntryType /\ sched'[f].context = sched[f].context /\ sched'[f].handler = h
  BY <1>0, <1>2 DEF EntryType
<1>4. sched'[f] # None
  BY <1>3, NullAssumption DEF EntryType
<1>5. sched' \in [Fd -> {None} \cup EntryType]
  BY <1>1, <1>3 DEF SetHandler, PInv, ProcTypeOK
<1> QED BY <1>1, <1>3, <1>4, <1>5

\* A step that keeps every entry with its connection, and all descriptors.
TableKept(f) ==
  /\ f \in openfd
  /\ \A g \in Fd : g # f => sched'[g] = sched[g] /\ interest'[g] = interest[g]
  /\ sched[f] # None => sched'[f] # None /\ sched'[f].context = sched[f].context
  /\ sched[f] = None => sched'[f] = None
  /\ \A d \in Conn : conn'[d].mem = conn[d].mem /\ conn'[d].fd = conn[d].fd
  /\ UNCHANGED <<openfd, backlog>>

\* Such a step keeps what is said of descriptors and entries.
LEMMA TableKeptInv ==
  ASSUME PInv, NEW f \in Fd, TableKept(f)
  PROVE  /\ OwnFds' /\ EntryIsOwn'
         /\ \A c \in Conn : Leaked(c)' => sched'[conn'[c].fd] = None
         /\ \A d \in Conn : Live(d)' = Live(d) /\ Leaked(d)' = Leaked(d)
<1>1. \A d \in Conn : Live(d)' = Live(d) /\ Leaked(d)' = Leaked(d) /\ conn'[d].fd = conn[d].fd
                      /\ Open(d)' = Open(d)
  BY DEF TableKept, Live, Leaked, Open
<1>2. OwnFds'
  <2>1. \A g \in openfd' : Peer(g)' # {}
    BY <1>1 DEF TableKept, PInv, OwnFds, Peer
  <2>2. \A d \in backlog' : conn'[d].mem = "unused"
    BY DEF TableKept, PInv, OwnFds, EnvTypeOK
  <2> QED BY <1>1, <2>1, <2>2 DEF TableKept, PInv, OwnFds
<1>3. EntryIsOwn'
  <2> SUFFICES ASSUME NEW g \in Fd, sched'[g] # None
               PROVE  Live(sched[g].context)' /\ conn'[sched'[g].context].fd = g
    BY DEF EntryIsOwn
  <2>1. sched[g] # None /\ sched'[g].context = sched[g].context
    BY DEF TableKept
  <2>2. sched[g].context \in Conn /\ Live(sched[g].context) /\ conn[sched[g].context].fd = g
    BY <2>1, EntryOf
  <2> QED BY <2>1, <2>2 DEF TableKept, Live
<1>4. \A c \in Conn : Leaked(c)' => sched'[conn'[c].fd] = None
  BY <1>1, Ranges DEF TableKept, PInv, Entries
<1> QED BY <1>1, <1>2, <1>3, <1>4

\* A write handler passes the connection on to the next one.
LEMMA HandlerInv ==
  ASSUME PInv, EnvTypeOK', UNCHANGED <<conn, interest, openfd, queue, worker, backlog, input>>,
         NEW f \in Fd, sched[f] # None, NEW h \in Writes, SetHandler(f, h),
         sched[f].handler \in Writes
  PROVE  PInv'
<1>0. h \in Handler /\ h # "read" /\ h # "no_operation" /\ f \in openfd
  BY EntryOf DEF Writes, Handler
<1>1. /\ sched' \in [Fd -> {None} \cup EntryType]
      /\ \A g \in Fd : g # f => sched'[g] = sched[g]
      /\ sched'[f] # None /\ sched'[f].context = sched[f].context /\ sched'[f].handler = h
  BY <1>0, SetHandlerEffect
<1>2. TableKept(f)
  BY <1>0, <1>1 DEF TableKept
<1>3. \A d \in Conn : InPool(d)' = InPool(d) /\ Live(d)' = Live(d)
  BY DEF InPool, Live
<1>4. ProcTypeOK'
  BY <1>1 DEF PInv, ProcTypeOK
<1>5. Tasks'
  BY <1>3 DEF PInv, Tasks
<1>6. \A g \in Fd : sched'[g] # None => HandlerFits(g)'
  <2>1. HandlerFits(f)'
    BY <1>0, <1>1 DEF HandlerFits, PInv, Entries
  <2>2. ASSUME NEW g \in Fd, g # f, sched'[g] # None PROVE HandlerFits(g)'
    BY <1>1, <1>3, <2>2, EntryOf DEF HandlerFits, PInv, Entries
  <2> QED BY <2>1, <2>2
<1>7. Entries'
  <2>1. \A d \in Conn : Live(d)' => sched'[conn'[d].fd] # None
                          \/ \E w \in Worker : worker'[w].c = d /\ worker'[w].pc = "free"
    BY <1>1, <1>3, Ranges DEF PInv, Entries
  <2>2. \A d \in Conn : Live(d)' /\ InPool(d)' => interest'[conn'[d].fd] = "none"
    BY <1>3 DEF PInv, Entries
  <2> QED BY <1>2, <1>6, <2>1, <2>2, TableKeptInv DEF Entries
<1>8. ChainSteps'
  BY <1>1, <1>3, Ranges DEF PInv, ChainSteps, Live
<1> QED BY <1>2, <1>4, <1>5, <1>7, <1>8, TableKeptInv DEF PInv

\* _task_start_travelling and tgx_post_task: the connection had no task, and is
\* parked before it gets one.
LEMMA StartInv ==
  ASSUME PInv, EnvTypeOK', UNCHANGED <<openfd, worker, backlog, input>>,
         NEW f \in Fd, sched[f] # None, sched[f].handler = "read",
         input[sched[f].context] \in {"GET", "POST"},
         StartTravelling(sched[f].context)
  PROVE  PInv'
<1>c. PICK c \in Conn : c = sched[f].context
  BY EntryOf
<1>0. c \in Conn /\ Live(c) /\ conn[c].fd = f /\ f \in openfd /\ ~InPool(c)
  BY <1>c, EntryOf DEF PInv, Entries, HandlerFits
<1>1. /\ SetHandler(f, "no_operation") /\ interest' = [interest EXCEPT ![f] = "none"]
      /\ conn' = [conn EXCEPT ![c].travelling = TRUE]
      /\ queue' = Append(queue, [kind |-> "parse", c |-> c])
  BY <1>c, <1>0 DEF StartTravelling
<1>2. /\ sched' \in [Fd -> {None} \cup EntryType]
      /\ \A g \in Fd : g # f => sched'[g] = sched[g]
      /\ sched'[f] # None /\ sched'[f].context = c /\ sched'[f].handler = "no_operation"
  BY <1>c, <1>1, SetHandlerEffect DEF Handler
<1>q. input[c] \in {"GET", "POST"}
  BY <1>c
<1>3. \A d \in Conn : conn'[d].mem = conn[d].mem /\ conn'[d].fd = conn[d].fd
  BY <1>0, <1>1 DEF PInv, ProcTypeOK, ConnType
<1>4. interest'[f] = "none" /\ \A g \in Fd : g # f => interest'[g] = interest[g]
  BY <1>1 DEF PInv, ProcTypeOK
<1>5. TableKept(f)
  BY <1>c, <1>0, <1>2, <1>3, <1>4 DEF TableKept
<1>6. /\ queue' \in Seq([kind : Kind, c : Conn]) /\ Len(queue') = Len(queue) + 1
      /\ Len(queue) \in Nat
      /\ \A i \in 1..Len(queue) : queue'[i] = queue[i]
      /\ queue'[Len(queue) + 1].c = c
  BY <1>0, <1>1, PostedPool DEF Kind
<1>7. /\ \A d \in Conn : Live(d)' = Live(d)
      /\ \A d \in Conn : InPool(d)' <=> InPool(d) \/ d = c
  <2>1. \A d \in Conn : Live(d)' = Live(d)
    BY <1>3 DEF Live
  <2>2. ASSUME NEW d \in Conn, InPool(d)' PROVE InPool(d) \/ d = c
    BY <1>6, <2>2 DEF InPool
  <2>3. ASSUME NEW d \in Conn, InPool(d) PROVE InPool(d)'
    BY <1>6, <2>3 DEF InPool
  <2>4. InPool(c)'
    BY <1>6 DEF InPool
  <2> QED BY <2>1, <2>2, <2>3, <2>4
<1>8. ProcTypeOK'
  <2>1. conn' \in [Conn -> ConnType]
    <3>1. conn[c] \in ConnType
      BY DEF PInv, ProcTypeOK
    <3>2. [conn[c] EXCEPT !.travelling = TRUE] \in ConnType
      BY <3>1 DEF ConnType
    <3> QED BY <1>1, <3>2 DEF PInv, ProcTypeOK
  <2>2. interest' \in [Fd -> {"none", "IN", "OUT"}]
    BY <1>1 DEF PInv, ProcTypeOK
  <2> QED BY <1>2, <1>6, <2>1, <2>2 DEF PInv, ProcTypeOK
<1>9. Tasks'
  <2>1. \A i \in 1..Len(queue) : queue[i].c # c
    BY <1>0 DEF InPool
  <2>2. \A w \in Worker : worker[w].c # c
    BY <1>0 DEF InPool
  <2>3. \A i \in 1..Len(queue') : i \in 1..Len(queue) \/ i = Len(queue) + 1
    BY <1>6
  <2>4. \A i, j \in 1..Len(queue') : queue'[i].c = queue'[j].c => i = j
    BY <1>6, <2>1, <2>3 DEF PInv, Tasks
  <2>5. \A i \in 1..Len(queue'), w \in Worker : queue'[i].c # worker'[w].c
    BY <1>6, <2>2, <2>3 DEF PInv, Tasks
  <2>6. \A d \in Conn : InPool(d)' => conn'[d].mem \in {"live", "freed"} /\ input'[d] \in {"GET", "POST"}
    BY <1>0, <1>3, <1>7, <1>q DEF PInv, Tasks, Live
  <2> QED BY <2>4, <2>5, <2>6 DEF PInv, Tasks
<1>10. \A g \in Fd : sched'[g] # None => HandlerFits(g)'
  <2>1. HandlerFits(f)'
    BY <1>2, <1>4 DEF HandlerFits, Writes
  <2>2. ASSUME NEW g \in Fd, g # f, sched'[g] # None PROVE HandlerFits(g)'
    <3>1. sched'[g] = sched[g] /\ interest'[g] = interest[g] /\ sched[g].context \in Conn
          /\ sched[g].context # c /\ HandlerFits(g)
      BY <1>0, <1>2, <1>4, <2>2, EntryOf DEF PInv, Entries
    <3> QED BY <1>7, <3>1 DEF HandlerFits
  <2> QED BY <2>1, <2>2
<1>11. Entries'
  <2>1. \A d \in Conn : Live(d)' => sched'[conn'[d].fd] # None
                          \/ \E w \in Worker : worker'[w].c = d /\ worker'[w].pc = "free"
    BY <1>2, <1>3, <1>7, Ranges DEF PInv, Entries
  <2>2. \A d \in Conn : Live(d)' /\ InPool(d)' => interest'[conn'[d].fd] = "none"
    BY <1>0, <1>3, <1>4, <1>7, Ranges DEF PInv, Entries
  <2> QED BY <1>5, <1>10, <2>1, <2>2, TableKeptInv DEF Entries
<1>12. ChainSteps'
  <2>1. ASSUME NEW w \in Worker, worker[w].pc # "idle", Live(worker[w].c)
        PROVE  conn[worker[w].c].fd \in Fd /\ conn[worker[w].c].fd # f
    BY <1>0, <2>1, Ranges DEF PInv, OwnFds, Open
  <2> QED BY <1>2, <1>3, <1>7, <2>1, Ranges DEF PInv, ChainSteps
<1> QED BY <1>5, <1>8, <1>9, <1>11, <1>12, TableKeptInv DEF PInv

\* A connection that waits in accept's queue is known to nobody.
LEMMA BacklogIsNew ==
  ASSUME PInv, NEW c \in backlog
  PROVE  /\ c \in Conn /\ ~Live(c) /\ ~Leaked(c) /\ ~InPool(c)
         /\ \A f \in Fd : sched[f] # None => sched[f].context # c
<1>1. c \in Conn /\ conn[c].mem = "unused"
  BY DEF PInv, OwnFds, EnvTypeOK
<1>2. ~Live(c) /\ ~Leaked(c) /\ ~InPool(c)
  BY <1>1 DEF Live, Leaked, PInv, Tasks
<1> QED BY <1>1, <1>2, EntryOf

\* tgx_acception_handler registers a connection under a descriptor that was closed.
LEMMA AcceptInv ==
  ASSUME PInv, NEW c \in backlog, EnvTypeOK', UNCHANGED <<queue, worker, input>>,
         NEW f \in Fd \ openfd, openfd' = openfd \cup {f},
         interest' = [interest EXCEPT ![f] = "IN"],
         conn' = [conn EXCEPT ![c] = [NewConn EXCEPT !.mem = "live", !.fd = f]],
         sched' = [sched EXCEPT ![f] = [handler |-> "read", context |-> c]],
         backlog' = backlog \ {c}
  PROVE  PInv'
<1>0. /\ c \in Conn /\ ~Live(c) /\ ~Leaked(c) /\ ~InPool(c)
      /\ \A g \in Fd : sched[g] # None => sched[g].context # c
  BY BacklogIsNew
<1>1. ProcTypeOK'
  <2>1. [NewConn EXCEPT !.mem = "live", !.fd = f] \in ConnType
    BY DEF NewConn, ConnType
  <2>2. [handler |-> "read", context |-> c] \in EntryType
    BY <1>0 DEF EntryType, Handler
  <2> QED BY <1>0, <2>1, <2>2 DEF PInv, ProcTypeOK
<1>2. /\ conn'[c].mem = "live" /\ conn'[c].fd = f
      /\ \A d \in Conn : d # c => conn'[d] = conn[d]
  BY <1>0 DEF PInv, ProcTypeOK, NewConn
<1>3. /\ sched'[f].handler = "read" /\ sched'[f].context = c /\ sched'[f] # None
      /\ interest'[f] = "IN"
      /\ \A g \in Fd : g # f => sched'[g] = sched[g] /\ interest'[g] = interest[g]
  <2>1. [handler |-> "read", context |-> c] # None
    BY <1>0, NullAssumption DEF Handler
  <2> QED BY <2>1 DEF PInv, ProcTypeOK
<1>4. /\ Live(c)' /\ ~Leaked(c)'
      /\ \A d \in Conn : d # c => /\ Live(d)' = Live(d) /\ Leaked(d)' = Leaked(d)
                                  /\ conn'[d].fd = conn[d].fd /\ conn'[d].mem = conn[d].mem
      /\ \A d \in Conn : InPool(d)' = InPool(d)
  BY <1>2 DEF Live, Leaked, InPool
<1>5. \A d \in Conn : Live(d) \/ Leaked(d) => d # c /\ conn[d].fd \in Fd /\ conn[d].fd # f
  BY <1>0, Ranges
<1>6. OwnFds'
  <2>1. \A g \in openfd' : Peer(g)' # {}
    <3>1. Peer(f)' # {}
      BY <1>0, <1>2, <1>4 DEF Peer
    <3>2. ASSUME NEW g \in openfd PROVE Peer(g)' # {}
      <4>1. PICK d \in Conn : (Live(d) \/ Leaked(d)) /\ conn[d].fd = g
        BY DEF PInv, OwnFds, Peer
      <4> QED BY <1>4, <1>5, <4>1 DEF Peer
    <3> QED BY <3>1, <3>2
  <2>2. \A d \in backlog' : conn'[d].mem = "unused"
    BY <1>4 DEF PInv, OwnFds, EnvTypeOK
  <2>3. \A d \in Conn : Open(d)' => conn'[d].fd \in openfd'
    BY <1>2, <1>4 DEF PInv, OwnFds, Open
  <2>4. \A d, e \in Conn : Open(d)' /\ Open(e)' /\ conn'[d].fd = conn'[e].fd => d = e
    BY <1>2, <1>4, <1>5 DEF PInv, OwnFds, Open
  <2>5. \A g \in Fd \ openfd' : sched'[g] = None /\ interest'[g] = "none"
    BY <1>3 DEF PInv, OwnFds
  <2> QED BY <2>1, <2>2, <2>3, <2>4, <2>5 DEF OwnFds
<1>7. Tasks'
  BY <1>0, <1>4 DEF PInv, Tasks
<1>8. Entries'
  <2>1. EntryIsOwn'
    <3>1. ASSUME NEW g \in Fd, g # f, sched'[g] # None
          PROVE  conn'[sched'[g].context].mem = "live" /\ conn'[sched'[g].context].fd = g
      BY <1>0, <1>3, <1>4, <3>1, EntryOf DEF Live
    <3> QED BY <1>2, <1>3, <3>1 DEF EntryIsOwn, Live
  <2>2. \A d \in Conn : Live(d)' => sched'[conn'[d].fd] # None
                          \/ \E w \in Worker : worker'[w].c = d /\ worker'[w].pc = "free"
    BY <1>2, <1>3, <1>4, <1>5 DEF PInv, Entries
  <2>3. \A d \in Conn : Leaked(d)' => sched'[conn'[d].fd] = None
    BY <1>3, <1>4, <1>5 DEF PInv, Entries
  <2>4. \A g \in Fd : sched'[g] # None => HandlerFits(g)'
    <3>1. HandlerFits(f)'
      BY <1>0, <1>3, <1>4 DEF HandlerFits, Writes
    <3>2. ASSUME NEW g \in Fd, g # f, sched'[g] # None PROVE HandlerFits(g)'
      <4>1. sched'[g] = sched[g] /\ interest'[g] = interest[g] /\ sched[g].context \in Conn
            /\ HandlerFits(g)
        BY <1>3, <3>2, EntryOf DEF PInv, Entries
      <4> QED BY <1>4, <4>1 DEF HandlerFits
    <3> QED BY <3>1, <3>2
  <2>5. \A d \in Conn : Live(d)' /\ InPool(d)' => interest'[conn'[d].fd] = "none"
    BY <1>0, <1>3, <1>4, <1>5 DEF PInv, Entries
  <2> QED BY <2>1, <2>2, <2>3, <2>4, <2>5 DEF Entries
<1>9. ChainSteps'
  <2>1. \A w \in Worker : worker[w].pc # "idle" => worker[w].c \in Conn /\ worker[w].c # c
    BY <1>0, Ranges
  <2>2. ASSUME NEW w \in Worker, worker[w].pc # "idle", Live(worker[w].c)'
        PROVE  /\ Live(worker[w].c) /\ conn'[worker[w].c].fd = conn[worker[w].c].fd
               /\ sched'[conn[worker[w].c].fd] = sched[conn[worker[w].c].fd]
    BY <1>3, <1>4, <1>5, <2>1, <2>2 DEF Live
  <2> QED BY <2>2 DEF PInv, ChainSteps
<1> QED BY <1>1, <1>6, <1>7, <1>8, <1>9 DEF PInv

\* The accept handler fails after accept: the descriptor is closed at once, or
\* it stays open without an entry.
LEMMA AcceptFailsInv ==
  ASSUME PInv, NEW c \in backlog, NEW step, EnvTypeOK', AcceptFails(c, step)
  PROVE  PInv'
<1>0. /\ c \in Conn /\ ~Live(c) /\ ~Leaked(c) /\ ~InPool(c)
      /\ \A g \in Fd : sched[g] # None => sched[g].context # c
  BY BacklogIsNew
<1>1. PICK f \in Fd \ openfd :
        IF step = "set_nonblocking"
          THEN /\ conn' = [conn EXCEPT ![c].mem = "freed"]
               /\ UNCHANGED <<openfd, interest>>
          ELSE /\ conn' = [conn EXCEPT ![c].mem = "leaked", ![c].fd = f]
               /\ openfd' = openfd \cup {f}
               /\ interest' = [interest EXCEPT ![f] = IF step = "ctl_add" THEN @ ELSE "IN"]
  BY DEF AcceptFails
<1>2. backlog' = backlog \ {c} /\ UNCHANGED <<sched, queue, worker, input>>
  BY DEF AcceptFails
<1>3. /\ \A d \in Conn : d # c => conn'[d] = conn[d]
      /\ \A g \in Fd : g # f => interest'[g] = interest[g]
  BY <1>0, <1>1 DEF PInv, ProcTypeOK
<1>4. \/ conn'[c].mem = "freed" /\ UNCHANGED <<openfd, interest>>
      \/ conn'[c].mem = "leaked" /\ conn'[c].fd = f /\ openfd' = openfd \cup {f}
  <2>1. conn[c] \in ConnType
    BY <1>0 DEF PInv, ProcTypeOK
  <2>2. CASE step = "set_nonblocking"
    BY <1>0, <1>1, <2>1, <2>2 DEF PInv, ProcTypeOK, ConnType
  <2>3. CASE step # "set_nonblocking"
    <3>1. conn' = [conn EXCEPT ![c] = [conn[c] EXCEPT !.mem = "leaked", !.fd = f]]
      BY <1>0, <1>1, <2>3 DEF PInv, ProcTypeOK
    <3>2. [conn[c] EXCEPT !.mem = "leaked", !.fd = f].mem = "leaked"
          /\ [conn[c] EXCEPT !.mem = "leaked", !.fd = f].fd = f
      BY <2>1 DEF ConnType
    <3> QED BY <1>0, <1>1, <2>3, <3>1, <3>2 DEF PInv, ProcTypeOK
  <2> QED BY <2>2, <2>3
<1>5. ProcTypeOK'
  <2>1. conn[c] \in ConnType
    BY <1>0 DEF PInv, ProcTypeOK
  <2>2. conn' \in [Conn -> ConnType]
    <3>1. [conn[c] EXCEPT !.mem = "freed"] \in ConnType
          /\ [conn[c] EXCEPT !.mem = "leaked", !.fd = f] \in ConnType
      BY <2>1 DEF ConnType
    <3> QED BY <1>0, <1>1, <3>1 DEF PInv, ProcTypeOK
  <2>3. interest' \in [Fd -> {"none", "IN", "OUT"}] /\ openfd' \subseteq Fd
    BY <1>1 DEF PInv, ProcTypeOK
  <2> QED BY <1>2, <2>2, <2>3 DEF PInv, ProcTypeOK
<1>6. /\ ~Live(c)'
      /\ \A d \in Conn : d # c => /\ Live(d)' = Live(d) /\ Leaked(d)' = Leaked(d)
                                  /\ conn'[d].fd = conn[d].fd /\ conn'[d].mem = conn[d].mem
      /\ \A d \in Conn : InPool(d)' = InPool(d)
  BY <1>2, <1>3, <1>4 DEF Live, Leaked, InPool
<1>7. \A d \in Conn : Live(d) \/ Leaked(d) => d # c /\ conn[d].fd \in Fd /\ conn[d].fd # f
  BY <1>0, Ranges
<1>8. OwnFds'
  <2>1. \A g \in openfd' : Peer(g)' # {}
    <3>1. f \in openfd' => Peer(f)' # {}
      BY <1>0, <1>4 DEF Peer, Leaked
    <3>2. ASSUME NEW g \in openfd PROVE Peer(g)' # {}
      <4>1. PICK d \in Conn : (Live(d) \/ Leaked(d)) /\ conn[d].fd = g
        BY DEF PInv, OwnFds, Peer
      <4> QED BY <1>6, <1>7, <4>1 DEF Peer
    <3> QED BY <1>4, <3>1, <3>2
  <2>2. \A d \in backlog' : conn'[d].mem = "unused"
    BY <1>2, <1>6 DEF PInv, OwnFds, EnvTypeOK
  <2>3. \A d \in Conn : Open(d)' => conn'[d].fd \in openfd'
    BY <1>4, <1>6 DEF PInv, OwnFds, Open, Live, Leaked
  <2>4. \A d, e \in Conn : Open(d)' /\ Open(e)' /\ conn'[d].fd = conn'[e].fd => d = e
    BY <1>4, <1>6, <1>7 DEF PInv, OwnFds, Open, Live, Leaked
  <2>5. \A g \in Fd \ openfd' : sched'[g] = None /\ interest'[g] = "none"
    BY <1>2, <1>3, <1>4 DEF PInv, OwnFds
  <2> QED BY <2>1, <2>2, <2>3, <2>4, <2>5 DEF OwnFds
<1>9. Tasks'
  BY <1>0, <1>2, <1>6 DEF PInv, Tasks
<1>10. sched[f] = None
  BY DEF PInv, OwnFds
<1>11. Entries'
  <2>1. EntryIsOwn'
    <3>1. ASSUME NEW g \in Fd, sched'[g] # None
          PROVE  conn'[sched'[g].context].mem = "live" /\ conn'[sched'[g].context].fd = g
      BY <1>0, <1>2, <1>6, <3>1, EntryOf DEF Live
    <3> QED BY <3>1 DEF EntryIsOwn, Live
  <2>2. \A d \in Conn : Live(d)' => sched'[conn'[d].fd] # None
                          \/ \E w \in Worker : worker'[w].c = d /\ worker'[w].pc = "free"
    BY <1>2, <1>6 DEF PInv, Entries
  <2>3. \A d \in Conn : Leaked(d)' => sched'[conn'[d].fd] = None
    BY <1>2, <1>4, <1>6, <1>10 DEF PInv, Entries, Leaked
  <2>4. \A g \in Fd : sched'[g] # None => HandlerFits(g)'
    <3> SUFFICES ASSUME NEW g \in Fd, sched'[g] # None PROVE HandlerFits(g)'
      OBVIOUS
    <3>1. sched'[g] = sched[g] /\ interest'[g] = interest[g] /\ sched[g].context \in Conn
          /\ HandlerFits(g)
      BY <1>2, <1>3, <1>10, EntryOf DEF PInv, Entries
    <3> QED BY <1>6, <3>1 DEF HandlerFits
  <2>5. \A d \in Conn : Live(d)' /\ InPool(d)' => interest'[conn'[d].fd] = "none"
    BY <1>3, <1>6, <1>7 DEF PInv, Entries
  <2> QED BY <2>1, <2>2, <2>3, <2>4, <2>5 DEF Entries
<1>12. ChainSteps'
  <2>1. ASSUME NEW w \in Worker, worker[w].pc # "idle", Live(worker[w].c)'
        PROVE  Live(worker[w].c) /\ conn'[worker[w].c].fd = conn[worker[w].c].fd
    BY <1>2, <1>6, <2>1, Ranges
  <2> QED BY <1>2, <2>1 DEF PInv, ChainSteps
<1> QED BY <1>5, <1>8, <1>9, <1>11, <1>12 DEF PInv

-----------------------------------------------------------------------------
(* The workers *)

\* A worker takes the task at the head of the queue, which is for a connection
\* no other worker has.
LEMMA TakeTaskInv ==
  ASSUME PInv, NEW w \in Worker, TakeTask(w)
  PROVE  PInv' /\ \A d \in Conn : InPool(d)' <=> InPool(d)
<1>0. /\ worker[w].pc = "idle" /\ queue # <<>> /\ queue' = Tail(queue)
      /\ UNCHANGED <<conn, sched, interest, openfd, backlog, input, unread, hup, room>>
  BY DEF TakeTask, env
<1>1. PICK c \in Conn : c = Head(queue).c /\ Head(queue).kind \in Kind
  <2>1. queue \in Seq([kind : Kind, c : Conn])
    BY DEF PInv, ProcTypeOK
  <2>2. Head(queue) \in [kind : Kind, c : Conn]
    BY <1>0, <2>1, Unqueueing, Zenon
  <2> QED BY <2>2
<1>2. /\ queue' \in Seq([kind : Kind, c : Conn]) /\ Len(queue') = Len(queue) - 1
      /\ Len(queue) \in Nat /\ Len(queue) >= 1
      /\ \A i \in 1..Len(queue') : queue'[i] = queue[i + 1] /\ i + 1 \in 1..Len(queue)
      /\ queue[1].c = c
  <2>1. queue \in Seq([kind : Kind, c : Conn])
    BY DEF PInv, ProcTypeOK
  <2>2. /\ Tail(queue) \in Seq([kind : Kind, c : Conn]) /\ Len(Tail(queue)) = Len(queue) - 1
        /\ Len(queue) \in Nat /\ Len(queue) >= 1
        /\ \A i \in 1..(Len(queue) - 1) : Tail(queue)[i] = queue[i + 1]
        /\ Head(queue) = queue[1]
    BY <1>0, <2>1, Unqueueing
  <2> QED BY <1>0, <1>1, <2>2
<1>3. /\ worker'[w].c = c /\ worker'[w].pc = "do" /\ worker'[w].err = FALSE
      /\ \A v \in Worker : v # w => worker'[v] = worker[v]
      /\ worker' \in [Worker -> WorkerType]
  <2>1. worker' = [worker EXCEPT ![w] = [Idle EXCEPT !.pc = "do", !.c = c, !.kind = Head(queue).kind]]
    BY <1>1 DEF TakeTask
  <2>2. [Idle EXCEPT !.pc = "do", !.c = c, !.kind = Head(queue).kind] \in WorkerType
    BY <1>1 DEF Idle, WorkerType
  <2> QED BY <2>1, <2>2 DEF PInv, ProcTypeOK, Idle
<1>4. \A d \in Conn : InPool(d)' <=> InPool(d)
  <2>1. ASSUME NEW d \in Conn, InPool(d)' PROVE InPool(d)
    <3>1. ASSUME NEW i \in 1..Len(queue'), queue'[i].c = d PROVE InPool(d)
      BY <1>2, <3>1 DEF InPool
    <3>2. ASSUME NEW v \in Worker, worker'[v].c = d PROVE InPool(d)
      BY <1>2, <1>3, <3>2 DEF InPool
    <3> QED BY <2>1, <3>1, <3>2 DEF InPool
  <2>2. ASSUME NEW d \in Conn, InPool(d) PROVE InPool(d)'
    <3>1. ASSUME NEW i \in 1..Len(queue), queue[i].c = d PROVE InPool(d)'
      <4>1. CASE i = 1
        BY <1>2, <1>3, <3>1, <4>1 DEF InPool
      <4>2. CASE i # 1
        <5>1. i - 1 \in 1..Len(queue') /\ queue'[i - 1] = queue[i]
          BY <1>2, <4>2
        <5> QED BY <3>1, <5>1 DEF InPool
      <4> QED BY <4>1, <4>2
    <3>2. ASSUME NEW v \in Worker, worker[v].c = d PROVE InPool(d)'
      <4>1. v # w
        BY <1>0, <3>2, IdAssumption DEF PInv, Tasks
      <4> QED BY <1>3, <3>2, <4>1 DEF InPool
    <3> QED BY <2>2, <3>1, <3>2 DEF InPool
  <2> QED BY <2>1, <2>2
<1>5. ProcTypeOK' /\ EnvTypeOK'
  BY <1>0, <1>2, <1>3 DEF PInv, ProcTypeOK, EnvTypeOK
<1>6. OwnFds'
  BY <1>0 DEF PInv, OwnFds, Open, Live, Leaked, Peer
<1>7. Tasks'
  <2>1. ASSUME NEW i \in 1..Len(queue') PROVE queue'[i].c # c
    <3>1. i + 1 \in 1..Len(queue) /\ i + 1 # 1 /\ 1 \in 1..Len(queue) /\ queue'[i] = queue[i + 1]
      BY <1>2
    <3>2. queue[i + 1].c # queue[1].c
      BY <3>1 DEF PInv, Tasks
    <3> QED BY <1>2, <3>1, <3>2
  <2>2. \A v \in Worker : worker[v].c # c
    BY <1>2 DEF PInv, Tasks
  <2>3. \A i, j \in 1..Len(queue') : queue'[i].c = queue'[j].c => i = j
    <3> SUFFICES ASSUME NEW i \in 1..Len(queue'), NEW j \in 1..Len(queue'), queue'[i].c = queue'[j].c
                 PROVE  i = j
      OBVIOUS
    <3>1. /\ i + 1 \in 1..Len(queue) /\ j + 1 \in 1..Len(queue)
          /\ queue[i + 1].c = queue[j + 1].c
      BY <1>2
    <3>2. i + 1 = j + 1
      BY <3>1, Zenon DEF PInv, Tasks
    <3> QED BY <1>2, <3>2
  <2>4. ASSUME NEW i \in 1..Len(queue'), NEW v \in Worker PROVE queue'[i].c # worker'[v].c
    <3>1. CASE v = w
      BY <1>3, <2>1, <3>1
    <3>2. CASE v # w
      <4>1. queue'[i] = queue[i + 1] /\ i + 1 \in 1..Len(queue) /\ worker'[v] = worker[v]
        BY <1>2, <1>3, <3>2
      <4> QED BY <4>1 DEF PInv, Tasks
    <3> QED BY <3>1, <3>2
  <2>5. \A u, v \in Worker : worker'[u].c = worker'[v].c => u = v \/ worker'[u].c = None
    BY <1>3, <2>2 DEF PInv, Tasks
  <2>6. \A v \in Worker : worker'[v].pc = "idle" <=> worker'[v].c = None
    BY <1>3, IdAssumption DEF PInv, Tasks
  <2> QED BY <1>0, <1>4, <2>3, <2>4, <2>5, <2>6 DEF PInv, Tasks
<1>8. Entries'
  <2>1. \A d \in Conn : Live(d)' => sched'[conn'[d].fd] # None
                          \/ \E v \in Worker : worker'[v].c = d /\ worker'[v].pc = "free"
    BY <1>0, <1>3 DEF PInv, Entries, Live
  <2>2. \A g \in Fd : sched'[g] # None => HandlerFits(g)'
    BY <1>0, <1>4, EntryOf DEF PInv, Entries, HandlerFits
  <2> QED BY <1>0, <1>4, <2>1, <2>2 DEF PInv, Entries, EntryIsOwn, Live, Leaked
<1>9. ChainSteps'
  BY <1>0, <1>3 DEF PInv, ChainSteps, Live
<1> QED BY <1>4, <1>5, <1>6, <1>7, <1>8, <1>9 DEF PInv

\* A worker keeps its connection and goes on to a step that asks nothing of the
\* table, or it has run without an error and is about to hand it back.
KeepsTask(w) ==
  /\ worker[w].pc \in {"do", "complete", "ctl_add"}
  /\ worker' \in [Worker -> WorkerType]
  /\ \A v \in Worker : v # w => worker'[v] = worker[v]
  /\ worker'[w].c = worker[w].c
  /\ \/ worker'[w].pc \in {"complete", "unregister"}
     \/ worker'[w].pc = "set_handler" /\ ~worker'[w].err

\* Such a step of a worker keeps the invariant.
LEMMA KeepsTaskInv ==
  ASSUME PInv, NEW w \in Worker, KeepsTask(w), conn' \in [Conn -> ConnType],
         \A d \in Conn : conn'[d].mem = conn[d].mem /\ conn'[d].fd = conn[d].fd,
         UNCHANGED <<sched, interest, openfd, queue, backlog, input, unread, hup, room>>
  PROVE  PInv'
<1>1. ProcTypeOK' /\ EnvTypeOK'
  BY DEF KeepsTask, PInv, ProcTypeOK, EnvTypeOK
<1>2. \A v \in Worker : worker'[v].c = worker[v].c
  BY DEF KeepsTask
<1>3. \A d \in Conn : InPool(d)' = InPool(d) /\ Live(d)' = Live(d) /\ Leaked(d)' = Leaked(d)
  BY <1>2 DEF InPool, Live, Leaked
<1>4. OwnFds'
  <2>1. \A d \in backlog : conn'[d].mem = "unused"
    BY DEF PInv, OwnFds, EnvTypeOK
  <2> QED BY <1>3, <2>1 DEF PInv, OwnFds, Open, Peer
<1>5. Tasks'
  <2>1. \A v \in Worker : worker'[v].pc = "idle" <=> worker'[v].c = None
    BY <1>2 DEF KeepsTask, PInv, Tasks
  <2> QED BY <1>2, <1>3, <2>1 DEF PInv, Tasks
<1>6. Entries'
  <2>1. \A d \in Conn : Live(d)' => sched'[conn'[d].fd] # None
                          \/ \E v \in Worker : worker'[v].c = d /\ worker'[v].pc = "free"
    <3> SUFFICES ASSUME NEW d \in Conn, Live(d), sched[conn[d].fd] = None
                 PROVE  \E v \in Worker : worker'[v].c = d /\ worker'[v].pc = "free"
      BY <1>3
    <3>1. PICK v \in Worker : worker[v].c = d /\ worker[v].pc = "free"
      BY DEF PInv, Entries
    <3>2. v # w
      BY <3>1 DEF KeepsTask
    <3> QED BY <3>1, <3>2 DEF KeepsTask
  <2>2. \A g \in Fd : sched'[g] # None => HandlerFits(g)'
    BY <1>3, EntryOf DEF PInv, Entries, HandlerFits
  <2>3. EntryIsOwn'
    BY <1>3, EntryOf DEF EntryIsOwn, Live
  <2> QED BY <1>3, <2>1, <2>2, <2>3 DEF PInv, Entries
<1>7. ChainSteps'
  <2>1. ASSUME NEW v \in Worker, worker'[v].pc # "idle", Live(worker[v].c)'
        PROVE  Live(worker[v].c) /\ conn'[worker[v].c].fd = conn[worker[v].c].fd
    <3>1. worker[v].c \in Conn /\ worker'[v].c \in Conn /\ worker'[v].c = worker[v].c
      BY <1>2, <2>1, Ranges DEF KeepsTask
    <3> QED BY <1>3, <2>1, <3>1 DEF Live
  <2>2. ASSUME NEW v \in Worker, v # w
        PROVE  /\ worker'[v].pc \in {"set_handler", "ctl_add"} => ~worker'[v].err
               /\ worker'[v].pc = "ctl_add" /\ Live(worker[v].c)' =>
                    sched'[conn'[worker'[v].c].fd] # None
                    /\ sched'[conn'[worker'[v].c].fd].handler \in Writes
               /\ worker'[v].pc = "free" /\ Live(worker[v].c)' =>
                    sched'[conn'[worker'[v].c].fd] = None
    BY <1>2, <2>1, <2>2 DEF KeepsTask, PInv, ChainSteps
  <2>3. /\ worker'[w].pc \in {"set_handler", "ctl_add"} => ~worker'[w].err
        /\ worker'[w].pc # "ctl_add" /\ worker'[w].pc # "free"
    BY DEF KeepsTask
  <2> QED BY <2>2, <2>3 DEF ChainSteps
<1> QED BY <1>1, <1>4, <1>5, <1>6, <1>7 DEF PInv

\* A worker that has a live connection is the only one that has it, and the
\* connection is in the table until this worker has taken it out.
LEMMA HolderOf ==
  ASSUME PInv, NEW w \in Worker, worker[w].pc # "idle", NEW c \in Conn, c = worker[w].c, Live(c)
  PROVE  /\ conn[c].fd \in Fd /\ conn[c].fd \in openfd /\ interest[conn[c].fd] = "none" /\ InPool(c)
         /\ \A v \in Worker : v # w => worker[v].c # c
         /\ \A i \in 1..Len(queue) : queue[i].c # c
         /\ \A d \in Conn : (Live(d) \/ Leaked(d)) /\ d # c =>
              conn[d].fd \in Fd /\ conn[d].fd # conn[c].fd
         /\ worker[w].pc # "free" => sched[conn[c].fd] # None
         /\ sched[conn[c].fd] # None => /\ sched[conn[c].fd].context = c
                                        /\ sched[conn[c].fd].handler # "read"
<1>1. InPool(c)
  BY DEF InPool
<1>2. conn[c].fd \in Fd /\ conn[c].fd \in openfd /\ interest[conn[c].fd] = "none"
  BY <1>1, Ranges DEF PInv, Entries
<1>3. \A v \in Worker : v # w => worker[v].c # c
  BY IdAssumption DEF PInv, Tasks
<1>4. \A i \in 1..Len(queue) : queue[i].c # c
  BY DEF PInv, Tasks
<1>5. \A d \in Conn : (Live(d) \/ Leaked(d)) /\ d # c => conn[d].fd \in Fd /\ conn[d].fd # conn[c].fd
  BY Ranges DEF PInv, OwnFds, Open
<1>6. worker[w].pc # "free" => sched[conn[c].fd] # None
  BY <1>3 DEF PInv, Entries
<1>7. sched[conn[c].fd] # None => sched[conn[c].fd].context = c /\ sched[conn[c].fd].handler # "read"
  <2> SUFFICES ASSUME sched[conn[c].fd] # None
               PROVE  sched[conn[c].fd].context = c /\ sched[conn[c].fd].handler # "read"
    OBVIOUS
  <2>1. /\ sched[conn[c].fd].context \in Conn /\ Live(sched[conn[c].fd].context)
        /\ conn[sched[conn[c].fd].context].fd = conn[c].fd
    BY <1>2, EntryOf
  <2>2. sched[conn[c].fd].context = c
    BY <1>5, <2>1
  <2> QED BY <1>1, <1>2, <2>2 DEF PInv, Entries, HandlerFits
<1> QED BY <1>1, <1>2, <1>3, <1>4, <1>5, <1>6, <1>7

\* _task_http_parser_on_complete posts the next task of the chain: the task of
\* the connection moves from the worker to the queue.
LEMMA PostNextInv ==
  ASSUME PInv, NEW w \in Worker, worker[w].pc = "complete", NEW c \in Conn, c = worker[w].c, Live(c),
         NEW k \in Kind, queue' = Append(queue, [kind |-> k, c |-> c]),
         worker' = [worker EXCEPT ![w] = Idle],
         UNCHANGED <<conn, sched, interest, openfd, backlog, input, unread, hup, room>>
  PROVE  PInv' /\ \A d \in Conn : InPool(d)' <=> InPool(d)
<1>0. /\ \A v \in Worker : v # w => worker[v].c # c
      /\ \A i \in 1..Len(queue) : queue[i].c # c
      /\ InPool(c) /\ sched[conn[c].fd] # None
  BY HolderOf
<1>1. /\ queue' \in Seq([kind : Kind, c : Conn]) /\ Len(queue') = Len(queue) + 1
      /\ Len(queue) \in Nat
      /\ \A i \in 1..Len(queue) : queue'[i] = queue[i]
      /\ queue'[Len(queue) + 1].c = c
  BY PostedPool
<1>2. /\ worker' \in [Worker -> WorkerType]
      /\ worker'[w].c = None /\ worker'[w].pc = "idle"
      /\ \A v \in Worker : v # w => worker'[v] = worker[v]
  <2>1. Idle \in WorkerType
    BY DEF Idle, WorkerType
  <2> QED BY <2>1 DEF Idle, PInv, ProcTypeOK
<1>3. \A d \in Conn : InPool(d)' <=> InPool(d)
  <2>1. ASSUME NEW d \in Conn, InPool(d)' PROVE InPool(d)
    BY <1>0, <1>1, <1>2, <2>1, IdAssumption DEF InPool
  <2>2. ASSUME NEW d \in Conn, InPool(d) PROVE InPool(d)'
    <3>1. CASE d = c
      BY <1>1, <3>1 DEF InPool
    <3>2. ASSUME d # c, NEW i \in 1..Len(queue), queue[i].c = d PROVE InPool(d)'
      <4>1. i \in 1..Len(queue') /\ queue'[i].c = d
        BY <1>1, <3>2
      <4> QED BY <4>1 DEF InPool
    <3>3. ASSUME d # c, NEW v \in Worker, worker[v].c = d PROVE InPool(d)'
      <4>1. worker'[v].c = d
        BY <1>2, <3>3
      <4> QED BY <4>1 DEF InPool
    <3> QED BY <2>2, <3>1, <3>2, <3>3 DEF InPool
  <2> QED BY <2>1, <2>2
<1>4. ProcTypeOK' /\ EnvTypeOK'
  BY <1>1, <1>2 DEF PInv, ProcTypeOK, EnvTypeOK
<1>5. OwnFds'
  BY DEF PInv, OwnFds, Open, Live, Leaked, Peer
<1>6. Tasks'
  <2>1. \A i \in 1..Len(queue') : i \in 1..Len(queue) \/ i = Len(queue) + 1
    BY <1>1
  <2>2. \A i, j \in 1..Len(queue') : queue'[i].c = queue'[j].c => i = j
    BY <1>0, <1>1, <2>1 DEF PInv, Tasks
  <2>3. \A i \in 1..Len(queue'), v \in Worker : queue'[i].c # worker'[v].c
    <3>1. \A v \in Worker : worker'[v].c # c
      BY <1>0, <1>2, IdAssumption
    <3>2. \A i \in 1..Len(queue) : queue[i].c # None
      <4>1. queue \in Seq([kind : Kind, c : Conn])
        BY DEF PInv, ProcTypeOK
      <4>2. \A i \in 1..Len(queue) : queue[i] \in [kind : Kind, c : Conn]
        BY <4>1, ElementsOfSeq, Zenon
      <4> QED BY <4>2, IdAssumption
    <3>3. \A i \in 1..Len(queue), v \in Worker : queue[i].c # worker'[v].c
      BY <1>2, <3>2 DEF PInv, Tasks
    <3> QED BY <1>1, <2>1, <3>1, <3>3
  <2>4. \A u, v \in Worker : worker'[u].c = worker'[v].c => u = v \/ worker'[u].c = None
    BY <1>2 DEF PInv, Tasks
  <2>5. \A v \in Worker : worker'[v].pc = "idle" <=> worker'[v].c = None
    BY <1>2 DEF PInv, Tasks
  <2> QED BY <1>3, <2>2, <2>3, <2>4, <2>5 DEF PInv, Tasks
<1>7. Entries'
  <2>1. \A d \in Conn : Live(d)' => sched'[conn'[d].fd] # None
                          \/ \E v \in Worker : worker'[v].c = d /\ worker'[v].pc = "free"
    <3> SUFFICES ASSUME NEW d \in Conn, Live(d), sched[conn[d].fd] = None
                 PROVE  \E v \in Worker : worker'[v].c = d /\ worker'[v].pc = "free"
      BY DEF Live
    <3>1. PICK v \in Worker : worker[v].c = d /\ worker[v].pc = "free"
      BY DEF PInv, Entries
    <3>2. v # w
      BY <3>1
    <3> QED BY <1>2, <3>1, <3>2
  <2>2. \A g \in Fd : sched'[g] # None => HandlerFits(g)'
    BY <1>3, EntryOf DEF PInv, Entries, HandlerFits
  <2> QED BY <1>3, <2>1, <2>2 DEF PInv, Entries, EntryIsOwn, Live, Leaked
<1>8. ChainSteps'
  BY <1>2 DEF PInv, ChainSteps, Live
<1> QED BY <1>3, <1>4, <1>5, <1>6, <1>7, <1>8 DEF PInv

\* _task_end_travelling gives the parked descriptor the handler that writes.
LEMMA EndSetHandlerInv ==
  ASSUME PInv, NEW w \in Worker, worker[w].pc = "set_handler", NEW c \in Conn, c = worker[w].c,
         Live(c), EndSetHandler(w), UNCHANGED env
  PROVE  PInv'
<1> DEFINE f == conn[c].fd
<1>0. /\ f \in Fd /\ f \in openfd /\ interest[f] = "none"
      /\ \A v \in Worker : v # w => worker[v].c # c
      /\ \A d \in Conn : (Live(d) \/ Leaked(d)) /\ d # c => conn[d].fd \in Fd /\ conn[d].fd # f
      /\ sched[f] # None /\ sched[f].context = c
  BY HolderOf
<1>1. /\ SetHandler(f, "write_header") /\ worker' = [worker EXCEPT ![w].pc = "ctl_add"]
      /\ UNCHANGED <<conn, interest, openfd, queue, backlog, input, unread, hup, room>>
  BY <1>0 DEF EndSetHandler, env
<1>p. PICK g \in Fd : g = f
  BY <1>0
<1>c. conn[c].fd = g
  BY <1>p
<1>2. /\ sched' \in [Fd -> {None} \cup EntryType]
      /\ \A h \in Fd : h # g => sched'[h] = sched[h]
      /\ sched'[g] # None /\ sched'[g].context = c /\ sched'[g].handler = "write_header"
  BY <1>0, <1>1, <1>p, SetHandlerEffect DEF Handler
<1>x. /\ interest[g] = "none" /\ g \in openfd /\ sched[g] # None /\ sched[g].context = c
      /\ \A d \in Conn : (Live(d) \/ Leaked(d)) /\ d # c => conn[d].fd \in Fd /\ conn[d].fd # g
  BY <1>0, <1>p
<1> HIDE DEF f
<1>3. /\ worker' \in [Worker -> WorkerType]
      /\ worker'[w].c = c /\ worker'[w].pc = "ctl_add" /\ worker'[w].err = worker[w].err
      /\ \A v \in Worker : v # w => worker'[v] = worker[v]
  <2>1. worker[w] \in WorkerType
    BY DEF PInv, ProcTypeOK
  <2>2. [worker[w] EXCEPT !.pc = "ctl_add"] \in WorkerType
    BY <2>1 DEF WorkerType
  <2>3. worker' = [worker EXCEPT ![w] = [worker[w] EXCEPT !.pc = "ctl_add"]]
    BY <1>1 DEF PInv, ProcTypeOK
  <2>4. worker'[w] = [worker[w] EXCEPT !.pc = "ctl_add"]
    BY <2>3 DEF PInv, ProcTypeOK
  <2>5. worker' \in [Worker -> WorkerType] /\ \A v \in Worker : v # w => worker'[v] = worker[v]
    BY <2>2, <2>3 DEF PInv, ProcTypeOK
  <2> QED BY <2>1, <2>4, <2>5 DEF WorkerType
<1>4. TableKept(g)
  BY <1>1, <1>2, <1>x DEF TableKept
<1>5. \A v \in Worker : worker'[v].c = worker[v].c
  BY <1>3
<1>6. \A d \in Conn : InPool(d)' = InPool(d) /\ Live(d)' = Live(d)
  BY <1>1, <1>5 DEF InPool, Live
<1>7. ProcTypeOK' /\ EnvTypeOK'
  BY <1>1, <1>2, <1>3 DEF PInv, ProcTypeOK, EnvTypeOK
<1>8. Tasks'
  <2>1. \A v \in Worker : worker'[v].pc = "idle" <=> worker'[v].c = None
    BY <1>3, IdAssumption DEF PInv, Tasks
  <2> QED BY <1>1, <1>5, <1>6, <2>1 DEF PInv, Tasks
<1>9. Entries'
  <2>1. \A d \in Conn : Live(d)' => sched'[conn'[d].fd] # None
                          \/ \E v \in Worker : worker'[v].c = d /\ worker'[v].pc = "free"
    <3> SUFFICES ASSUME NEW d \in Conn, Live(d), sched'[conn[d].fd] = None
                 PROVE  \E v \in Worker : worker'[v].c = d /\ worker'[v].pc = "free"
      BY <1>1, <1>6
    <3>0. d # c
      BY <1>2, <1>c
    <3>1. PICK v \in Worker : worker[v].c = d /\ worker[v].pc = "free"
      BY <1>2, <1>x, <3>0 DEF PInv, Entries
    <3>2. v # w
      BY <3>1
    <3> QED BY <1>3, <3>1, <3>2
  <2>2. \A h \in Fd : sched'[h] # None => HandlerFits(h)'
    <3>1. HandlerFits(g)'
      BY <1>1, <1>2, <1>x DEF HandlerFits
    <3>2. ASSUME NEW h \in Fd, h # g, sched'[h] # None PROVE HandlerFits(h)'
      <4>1. sched'[h] = sched[h] /\ interest'[h] = interest[h] /\ sched[h].context \in Conn
            /\ HandlerFits(h)
        BY <1>1, <1>2, <3>2, EntryOf DEF PInv, Entries
      <4> QED BY <1>6, <4>1 DEF HandlerFits
    <3> QED BY <3>1, <3>2
  <2>3. \A d \in Conn : Live(d)' /\ InPool(d)' => interest'[conn'[d].fd] = "none"
    BY <1>1, <1>6 DEF PInv, Entries
  <2> QED BY <1>4, <2>1, <2>2, <2>3, TableKeptInv DEF Entries
<1>10. ChainSteps'
  <2>1. ~worker'[w].err
    BY <1>3 DEF PInv, ChainSteps
  <2>2. ASSUME NEW v \in Worker, v # w, worker[v].pc # "idle", Live(worker[v].c)
        PROVE  sched'[conn[worker[v].c].fd] = sched[conn[worker[v].c].fd]
    BY <1>0, <1>2, <1>x, <2>2, Ranges
  <2>4. sched'[conn'[worker'[w].c].fd] # None /\ sched'[conn'[worker'[w].c].fd].handler \in Writes
    BY <1>1, <1>2, <1>3, <1>c DEF Writes
  <2>5. ASSUME NEW v \in Worker, v # w
        PROVE  /\ worker'[v].pc \in {"set_handler", "ctl_add"} => ~worker'[v].err
               /\ worker'[v].pc = "ctl_add" /\ Live(worker[v].c)' =>
                    sched'[conn'[worker'[v].c].fd] # None
                    /\ sched'[conn'[worker'[v].c].fd].handler \in Writes
               /\ worker'[v].pc = "free" /\ Live(worker[v].c)' =>
                    sched'[conn'[worker'[v].c].fd] = None
    BY <1>1, <1>3, <2>2, <2>5 DEF PInv, ChainSteps, Live
  <2> QED BY <1>3, <2>1, <2>4, <2>5 DEF ChainSteps
<1> QED BY <1>4, <1>7, <1>8, <1>9, <1>10, TableKeptInv DEF PInv

\* A worker has given up its connection, which no task is left for.
LEMMA GivenUp ==
  ASSUME PInv, NEW w \in Worker, worker[w].pc # "idle", NEW c \in Conn, c = worker[w].c, Live(c),
         worker' = [worker EXCEPT ![w] = Idle], UNCHANGED <<queue, input>>,
         \A d \in Conn : d # c => conn'[d].mem = conn[d].mem
  PROVE  /\ worker' \in [Worker -> WorkerType]
         /\ worker'[w].c = None /\ worker'[w].pc = "idle"
         /\ \A v \in Worker : v # w => worker'[v] = worker[v] /\ worker[v].c # c
         /\ \A d \in Conn : InPool(d)' <=> InPool(d) /\ d # c
         /\ Tasks'
<1>0. /\ \A v \in Worker : v # w => worker[v].c # c
      /\ \A i \in 1..Len(queue) : queue[i].c # c
  BY HolderOf
<1>1. /\ worker' \in [Worker -> WorkerType]
      /\ worker'[w].c = None /\ worker'[w].pc = "idle"
      /\ \A v \in Worker : v # w => worker'[v] = worker[v]
  <2>1. Idle \in WorkerType
    BY DEF Idle, WorkerType
  <2> QED BY <2>1 DEF Idle, PInv, ProcTypeOK
<1>2. \A d \in Conn : InPool(d)' <=> InPool(d) /\ d # c
  BY <1>0, <1>1, IdAssumption DEF InPool
<1>3. \A i \in 1..Len(queue) : queue[i].c # None
  <2>1. queue \in Seq([kind : Kind, c : Conn])
    BY DEF PInv, ProcTypeOK
  <2>2. \A i \in 1..Len(queue) : queue[i] \in [kind : Kind, c : Conn]
    BY <2>1, ElementsOfSeq, Zenon
  <2> QED BY <2>2, IdAssumption
<1>4. Tasks'
  <2>1. \A i \in 1..Len(queue'), v \in Worker : queue'[i].c # worker'[v].c
    BY <1>1, <1>3 DEF PInv, Tasks
  <2>2. \A u, v \in Worker : worker'[u].c = worker'[v].c => u = v \/ worker'[u].c = None
    BY <1>1 DEF PInv, Tasks
  <2>3. \A v \in Worker : worker'[v].pc = "idle" <=> worker'[v].c = None
    BY <1>1 DEF PInv, Tasks
  <2>4. \A d \in Conn : InPool(d)' => conn'[d].mem \in {"live", "freed"} /\ input'[d] \in {"GET", "POST"}
    BY <1>2 DEF PInv, Tasks
  <2> QED BY <2>1, <2>2, <2>3, <2>4 DEF PInv, Tasks
<1> QED BY <1>0, <1>1, <1>2, <1>4

\* The descriptor is back in epoll and the worker has done with it, or epoll_ctl
\* failed and the worker goes on to close the connection.
HandedBack(w) ==
  /\ interest' = [interest EXCEPT ![conn[worker[w].c].fd] = "OUT"]
  /\ worker' = [worker EXCEPT ![w] = Idle]
  /\ UNCHANGED <<conn, sched, openfd, queue>>
NotHandedBack(w) ==
  CloseThen(w, "idle") /\ UNCHANGED <<conn, sched, interest, openfd, queue>>

LEMMA EndCtlAddResults ==
  ASSUME PInv, NEW w \in Worker, worker[w].pc = "ctl_add", EndCtlAdd(w)
  PROVE  HandedBack(w) \/ NotHandedBack(w)
<1>1. ~worker[w].err
  BY DEF PInv, ChainSteps
<1>2. PICK added \in BOOLEAN :
        /\ interest' = IF added THEN [interest EXCEPT ![conn[worker[w].c].fd] = "OUT"]
                                ELSE interest
        /\ IF worker[w].err \/ ~added THEN CloseThen(w, "idle")
                                      ELSE worker' = [worker EXCEPT ![w] = Idle]
  BY DEF EndCtlAdd
<1>3. UNCHANGED <<conn, sched, openfd, queue>>
  BY DEF EndCtlAdd
<1>4. CASE added
  BY <1>1, <1>2, <1>3, <1>4 DEF HandedBack
<1>5. CASE ~added
  BY <1>2, <1>3, <1>5 DEF NotHandedBack
<1> QED BY <1>4, <1>5

\* _task_end_travelling puts the descriptor back into epoll, and the loop has
\* the connection again.
LEMMA HandedBackInv ==
  ASSUME PInv, NEW w \in Worker, worker[w].pc = "ctl_add", NEW c \in Conn, c = worker[w].c,
         Live(c), HandedBack(w), UNCHANGED env
  PROVE  PInv'
<1>p. PICK g \in Fd : g = conn[c].fd
  BY HolderOf
<1>0. /\ g \in openfd /\ interest[g] = "none" /\ sched[g] # None /\ sched[g].context = c
      /\ sched[g].handler \in Writes
      /\ \A d \in Conn : (Live(d) \/ Leaked(d)) /\ d # c => conn[d].fd \in Fd /\ conn[d].fd # g
  BY <1>p, HolderOf DEF PInv, ChainSteps
<1>1. /\ interest' = [interest EXCEPT ![g] = "OUT"] /\ worker' = [worker EXCEPT ![w] = Idle]
      /\ UNCHANGED <<conn, sched, openfd, queue, backlog, input, unread, hup, room>>
  BY <1>p DEF HandedBack, env
<1>2. /\ worker' \in [Worker -> WorkerType]
      /\ worker'[w].c = None /\ worker'[w].pc = "idle"
      /\ \A v \in Worker : v # w => worker'[v] = worker[v] /\ worker[v].c # c
      /\ \A d \in Conn : InPool(d)' <=> InPool(d) /\ d # c
      /\ Tasks'
  BY <1>1, GivenUp
<1>3. interest'[g] = "OUT" /\ \A h \in Fd : h # g => interest'[h] = interest[h]
  BY <1>1 DEF PInv, ProcTypeOK
<1>4. TableKept(g)
  BY <1>0, <1>1, <1>3 DEF TableKept
<1>5. ProcTypeOK' /\ EnvTypeOK'
  <2>1. interest' \in [Fd -> {"none", "IN", "OUT"}]
    BY <1>1 DEF PInv, ProcTypeOK
  <2> QED BY <1>1, <1>2, <2>1 DEF PInv, ProcTypeOK, EnvTypeOK
<1>6. Entries'
  <2>1. \A d \in Conn : Live(d)' => sched'[conn'[d].fd] # None
                          \/ \E v \in Worker : worker'[v].c = d /\ worker'[v].pc = "free"
    <3> SUFFICES ASSUME NEW d \in Conn, Live(d), sched[conn[d].fd] = None
                 PROVE  \E v \in Worker : worker'[v].c = d /\ worker'[v].pc = "free"
      BY <1>1 DEF Live
    <3>1. PICK v \in Worker : worker[v].c = d /\ worker[v].pc = "free"
      BY DEF PInv, Entries
    <3> QED BY <1>2, <3>1
  <2>2. \A h \in Fd : sched'[h] # None => HandlerFits(h)'
    <3>1. HandlerFits(g)'
      BY <1>0, <1>1, <1>3 DEF HandlerFits, Writes
    <3>2. ASSUME NEW h \in Fd, h # g, sched'[h] # None PROVE HandlerFits(h)'
      <4>1. sched'[h] = sched[h] /\ interest'[h] = interest[h] /\ sched[h].context \in Conn
            /\ HandlerFits(h)
        BY <1>1, <1>3, <3>2, EntryOf DEF PInv, Entries
      <4> QED BY <1>2, <4>1 DEF HandlerFits
    <3> QED BY <3>1, <3>2
  <2>3. \A d \in Conn : Live(d)' /\ InPool(d)' => interest'[conn'[d].fd] = "none"
    BY <1>0, <1>1, <1>2, <1>3 DEF PInv, Entries, Live
  <2> QED BY <1>4, <2>1, <2>2, <2>3, TableKeptInv DEF Entries
<1>7. ChainSteps'
  BY <1>1, <1>2 DEF PInv, ChainSteps, Live
<1> QED BY <1>2, <1>4, <1>5, <1>6, <1>7, TableKeptInv DEF PInv

\* tgx_close_connection in a worker, first half: the entry goes.
LEMMA UnregisterInv ==
  ASSUME PInv, NEW w \in Worker, worker[w].pc = "unregister", NEW c \in Conn, c = worker[w].c,
         Live(c), Unregister(w), UNCHANGED env
  PROVE  PInv'
<1>p. PICK g \in Fd : g = conn[c].fd
  BY HolderOf
<1>0. /\ g \in openfd /\ interest[g] = "none" /\ sched[g] # None /\ sched[g].context = c
      /\ \A v \in Worker : v # w => worker[v].c # c
      /\ \A d \in Conn : (Live(d) \/ Leaked(d)) /\ d # c => conn[d].fd \in Fd /\ conn[d].fd # g
  BY <1>p, HolderOf
<1>1. /\ sched' = [sched EXCEPT ![g] = None] /\ worker' = [worker EXCEPT ![w].pc = "free"]
      /\ UNCHANGED <<conn, interest, openfd, queue, backlog, input, unread, hup, room>>
  BY <1>p DEF Unregister, env
<1>2. sched'[g] = None /\ \A h \in Fd : h # g => sched'[h] = sched[h]
  BY <1>1 DEF PInv, ProcTypeOK
<1>3. /\ worker' \in [Worker -> WorkerType]
      /\ worker'[w].c = c /\ worker'[w].pc = "free"
      /\ \A v \in Worker : v # w => worker'[v] = worker[v]
  <2>1. worker[w] \in WorkerType
    BY DEF PInv, ProcTypeOK
  <2>2. [worker[w] EXCEPT !.pc = "free"] \in WorkerType
    BY <2>1 DEF WorkerType
  <2>3. worker' = [worker EXCEPT ![w] = [worker[w] EXCEPT !.pc = "free"]]
    BY <1>1 DEF PInv, ProcTypeOK
  <2>4. worker'[w] = [worker[w] EXCEPT !.pc = "free"]
    BY <2>3 DEF PInv, ProcTypeOK
  <2>5. worker' \in [Worker -> WorkerType] /\ \A v \in Worker : v # w => worker'[v] = worker[v]
    BY <2>2, <2>3 DEF PInv, ProcTypeOK
  <2> QED BY <2>1, <2>4, <2>5 DEF WorkerType
<1>4. \A v \in Worker : worker'[v].c = worker[v].c
  BY <1>3
<1>5. \A d \in Conn : /\ InPool(d)' = InPool(d) /\ Live(d)' = Live(d) /\ Leaked(d)' = Leaked(d)
                      /\ conn'[d].fd = conn[d].fd
  BY <1>1, <1>4 DEF InPool, Live, Leaked
<1>6. ProcTypeOK' /\ EnvTypeOK'
  <2>1. sched' \in [Fd -> {None} \cup EntryType]
    BY <1>1 DEF PInv, ProcTypeOK
  <2> QED BY <1>1, <1>3, <2>1 DEF PInv, ProcTypeOK, EnvTypeOK
<1>7. OwnFds'
  <2>1. \A h \in Fd \ openfd : sched'[h] = None /\ interest'[h] = "none"
    BY <1>1, <1>2 DEF PInv, OwnFds
  <2> QED BY <1>1, <2>1 DEF PInv, OwnFds, Open, Live, Leaked, Peer
<1>8. Tasks'
  <2>1. \A v \in Worker : worker'[v].pc = "idle" <=> worker'[v].c = None
    BY <1>3, IdAssumption DEF PInv, Tasks
  <2> QED BY <1>1, <1>4, <1>5, <2>1 DEF PInv, Tasks
<1>9. Entries'
  <2>1. \A d \in Conn : Live(d)' => sched'[conn'[d].fd] # None
                          \/ \E v \in Worker : worker'[v].c = d /\ worker'[v].pc = "free"
    <3> SUFFICES ASSUME NEW d \in Conn, Live(d), d # c, sched'[conn[d].fd] = None
                 PROVE  \E v \in Worker : worker'[v].c = d /\ worker'[v].pc = "free"
      BY <1>3, <1>5
    <3>1. PICK v \in Worker : worker[v].c = d /\ worker[v].pc = "free"
      BY <1>0, <1>2 DEF PInv, Entries
    <3> QED BY <1>3, <3>1
  <2>2. \A h \in Fd : sched'[h] # None =>
          h # g /\ sched'[h] = sched[h] /\ sched[h].context \in Conn /\ HandlerFits(h)
          /\ Live(sched[h].context) /\ conn[sched[h].context].fd = h
    BY <1>2, EntryOf DEF PInv, Entries
  <2>3. \A h \in Fd : sched'[h] # None => HandlerFits(h)'
    BY <1>1, <1>5, <2>2 DEF HandlerFits
  <2>4. EntryIsOwn'
    BY <1>1, <2>2 DEF EntryIsOwn, Live
  <2>5. \A d \in Conn : Live(d)' /\ InPool(d)' => interest'[conn'[d].fd] = "none"
    BY <1>1, <1>5 DEF PInv, Entries
  <2>6. \A d \in Conn : Leaked(d)' => sched'[conn'[d].fd] = None
    BY <1>2, <1>5, Ranges DEF PInv, Entries
  <2> QED BY <2>1, <2>3, <2>4, <2>5, <2>6 DEF Entries
<1>10. ChainSteps'
  <2>1. ASSUME NEW v \in Worker, v # w, worker[v].pc # "idle", Live(worker[v].c)
        PROVE  sched'[conn[worker[v].c].fd] = sched[conn[worker[v].c].fd]
    BY <1>0, <1>2, <2>1, Ranges
  <2>2. ASSUME NEW v \in Worker, v # w
        PROVE  /\ worker'[v].pc \in {"set_handler", "ctl_add"} => ~worker'[v].err
               /\ worker'[v].pc = "ctl_add" /\ Live(worker[v].c)' =>
                    sched'[conn'[worker'[v].c].fd] # None
                    /\ sched'[conn'[worker'[v].c].fd].handler \in Writes
               /\ worker'[v].pc = "free" /\ Live(worker[v].c)' =>
                    sched'[conn'[worker'[v].c].fd] = None
    BY <1>1, <1>3, <2>1, <2>2 DEF PInv, ChainSteps, Live
  <2>3. worker'[w].pc = "free" /\ sched'[conn'[worker'[w].c].fd] = None
    BY <1>1, <1>2, <1>3, <1>p
  <2> QED BY <2>2, <2>3 DEF ChainSteps
<1> QED BY <1>6, <1>7, <1>8, <1>9, <1>10 DEF PInv

\* tgx_close_connection in a worker, second half: descriptor and object go.
LEMMA FreeConnectionInv ==
  ASSUME PInv, NEW w \in Worker, worker[w].pc = "free", NEW c \in Conn, c = worker[w].c,
         Live(c), FreeConnection(w), UNCHANGED env
  PROVE  PInv'
<1>p. PICK g \in Fd : g = conn[c].fd
  BY HolderOf
<1>0. /\ g \in openfd /\ sched[g] = None /\ conn[c].fd = g
      /\ \A v \in Worker : v # w => worker[v].c # c
      /\ \A i \in 1..Len(queue) : queue[i].c # c
      /\ \A d \in Conn : (Live(d) \/ Leaked(d)) /\ d # c => conn[d].fd \in Fd /\ conn[d].fd # g
      /\ InPool(c)
  BY <1>p, HolderOf DEF PInv, ChainSteps
<1>1. /\ interest' = [interest EXCEPT ![g] = "none"] /\ openfd' = openfd \ {g}
      /\ conn' = [conn EXCEPT ![c].mem = "freed"]
      /\ worker' = [worker EXCEPT ![w] = IF @.then = "idle" THEN Idle
                                         ELSE [@ EXCEPT !.pc = "complete"]]
      /\ UNCHANGED <<sched, queue, backlog, input, unread, hup, room>>
  BY <1>p DEF FreeConnection, env
<1>2. /\ worker' \in [Worker -> WorkerType]
      /\ \/ worker'[w].c = None /\ worker'[w].pc = "idle"
         \/ worker'[w].c = c /\ worker'[w].pc = "complete"
      /\ \A v \in Worker : v # w => worker'[v] = worker[v]
  <2>1. worker[w] \in WorkerType
    BY DEF PInv, ProcTypeOK
  <2>2. [worker[w] EXCEPT !.pc = "complete"] \in WorkerType /\ Idle \in WorkerType
    BY <2>1 DEF WorkerType, Idle
  <2>3. worker'[w] = IF worker[w].then = "idle" THEN Idle ELSE [worker[w] EXCEPT !.pc = "complete"]
    BY <1>1 DEF PInv, ProcTypeOK
  <2>4. \A v \in Worker : v # w => worker'[v] = worker[v]
    BY <1>1 DEF PInv, ProcTypeOK
  <2>5. worker' \in [Worker -> WorkerType]
    BY <1>1, <2>2 DEF PInv, ProcTypeOK
  <2> QED BY <2>1, <2>3, <2>4, <2>5 DEF WorkerType, Idle
<1>3. \A d \in Conn : /\ conn'[d].fd = conn[d].fd
                      /\ conn'[d].mem = IF d = c THEN "freed" ELSE conn[d].mem
  BY <1>1 DEF PInv, ProcTypeOK, ConnType
<1>4. interest'[g] = "none" /\ \A h \in Fd : h # g => interest'[h] = interest[h]
  BY <1>1 DEF PInv, ProcTypeOK
<1>5. /\ \A d \in Conn : InPool(d)' => InPool(d)
      /\ \A d \in Conn : d # c => (InPool(d)' <=> InPool(d))
  <2>1. ASSUME NEW d \in Conn, InPool(d)' PROVE InPool(d)
    BY <1>0, <1>1, <1>2, <2>1, IdAssumption DEF InPool
  <2>2. ASSUME NEW d \in Conn, d # c, InPool(d) PROVE InPool(d)'
    BY <1>1, <1>2, <2>2 DEF InPool
  <2> QED BY <2>1, <2>2
<1>6. /\ ~Live(c)' /\ ~Leaked(c)'
      /\ \A d \in Conn : d # c => Live(d)' = Live(d) /\ Leaked(d)' = Leaked(d)
  BY <1>3 DEF Live, Leaked
<1>7. ProcTypeOK' /\ EnvTypeOK'
  <2>1. conn' \in [Conn -> ConnType]
    <3>1. conn \in [Conn -> ConnType] /\ conn[c] \in ConnType
      BY DEF PInv, ProcTypeOK
    <3>2. [conn[c] EXCEPT !.mem = "freed"] \in ConnType
      BY <3>1 DEF ConnType
    <3> QED BY <1>1, <3>1, <3>2
  <2>2. interest' \in [Fd -> {"none", "IN", "OUT"}] /\ openfd' \subseteq Fd
    BY <1>1 DEF PInv, ProcTypeOK
  <2> QED BY <1>1, <1>2, <2>1, <2>2 DEF PInv, ProcTypeOK, EnvTypeOK
<1>8. OwnFds'
  <2>1. \A h \in openfd' : Peer(h)' # {}
    <3> SUFFICES ASSUME NEW h \in openfd, h # g PROVE Peer(h)' # {}
      BY <1>1
    <3>1. PICK d \in Conn : (Live(d) \/ Leaked(d)) /\ conn[d].fd = h
      BY DEF PInv, OwnFds, Peer
    <3> QED BY <1>0, <1>3, <1>6, <3>1 DEF Peer
  <2>2. \A d \in backlog' : conn'[d].mem = "unused"
    BY <1>1, <1>3 DEF PInv, OwnFds, EnvTypeOK, Live
  <2>3. \A d \in Conn : Open(d)' => conn'[d].fd \in openfd'
    BY <1>0, <1>1, <1>3, <1>6 DEF PInv, OwnFds, Open
  <2>4. \A d, e \in Conn : Open(d)' /\ Open(e)' /\ conn'[d].fd = conn'[e].fd => d = e
    BY <1>3, <1>6 DEF PInv, OwnFds, Open
  <2>5. \A h \in Fd \ openfd' : sched'[h] = None /\ interest'[h] = "none"
    BY <1>0, <1>1, <1>4 DEF PInv, OwnFds
  <2> QED BY <2>1, <2>2, <2>3, <2>4, <2>5 DEF OwnFds
<1>9. Tasks'
  <2>0. \A i \in 1..Len(queue) : queue[i].c # None
    <3>1. queue \in Seq([kind : Kind, c : Conn])
      BY DEF PInv, ProcTypeOK
    <3>2. \A i \in 1..Len(queue) : queue[i] \in [kind : Kind, c : Conn]
      BY <3>1, ElementsOfSeq, Zenon
    <3> QED BY <3>2, IdAssumption
  <2>1. \A i \in 1..Len(queue'), v \in Worker : queue'[i].c # worker'[v].c
    BY <1>0, <1>1, <1>2, <2>0 DEF PInv, Tasks
  <2>2. \A u, v \in Worker : worker'[u].c = worker'[v].c => u = v \/ worker'[u].c = None
    BY <1>0, <1>2 DEF PInv, Tasks
  <2>3. \A v \in Worker : worker'[v].pc = "idle" <=> worker'[v].c = None
    BY <1>2, IdAssumption DEF PInv, Tasks
  <2>4. \A d \in Conn : InPool(d)' => conn'[d].mem \in {"live", "freed"} /\ input'[d] \in {"GET", "POST"}
    BY <1>1, <1>3, <1>5 DEF PInv, Tasks
  <2> QED BY <1>1, <2>1, <2>2, <2>3, <2>4 DEF PInv, Tasks
<1>10. Entries'
  <2>1. \A d \in Conn : Live(d)' => sched'[conn'[d].fd] # None
                          \/ \E v \in Worker : worker'[v].c = d /\ worker'[v].pc = "free"
    <3> SUFFICES ASSUME NEW d \in Conn, Live(d), d # c, sched[conn[d].fd] = None
                 PROVE  \E v \in Worker : worker'[v].c = d /\ worker'[v].pc = "free"
      BY <1>1, <1>3, <1>6
    <3>1. PICK v \in Worker : worker[v].c = d /\ worker[v].pc = "free"
      BY DEF PInv, Entries
    <3> QED BY <1>2, <3>1
  <2>2. \A h \in Fd : sched'[h] # None =>
          h # g /\ sched'[h] = sched[h] /\ sched[h].context \in Conn /\ HandlerFits(h)
          /\ Live(sched[h].context) /\ conn[sched[h].context].fd = h /\ sched[h].context # c
    BY <1>0, <1>1, EntryOf DEF PInv, Entries
  <2>3. \A h \in Fd : sched'[h] # None => HandlerFits(h)'
    BY <1>4, <1>5, <2>2 DEF HandlerFits
  <2>4. EntryIsOwn'
    BY <1>3, <2>2 DEF EntryIsOwn, Live
  <2>5. \A d \in Conn : Live(d)' /\ InPool(d)' => interest'[conn'[d].fd] = "none"
    BY <1>0, <1>3, <1>4, <1>5, <1>6 DEF PInv, Entries
  <2>6. \A d \in Conn : Leaked(d)' => sched'[conn'[d].fd] = None
    BY <1>1, <1>3, <1>6 DEF PInv, Entries
  <2> QED BY <2>1, <2>3, <2>4, <2>5, <2>6 DEF Entries
<1>11. ChainSteps'
  <2>1. ASSUME NEW v \in Worker, worker'[v].pc \in {"set_handler", "ctl_add", "free"}
        PROVE  /\ worker'[v] = worker[v] /\ worker[v].c \in Conn /\ worker[v].c # c
               /\ Live(worker[v].c)' <=> Live(worker[v].c)
               /\ conn'[worker'[v].c].fd = conn[worker[v].c].fd
    <3>1. v # w
      BY <1>2, <2>1
    <3>2. worker'[v] = worker[v] /\ worker[v].c # c /\ worker[v].c \in Conn
      BY <1>0, <1>2, <2>1, <3>1, Ranges
    <3> QED BY <1>2, <1>3, <3>1, <3>2 DEF Live
  <2>2. ChainSteps /\ sched' = sched
    BY <1>1 DEF PInv
  <2>3. \A v \in Worker : worker'[v].pc \in {"set_handler", "ctl_add"} => ~worker'[v].err
    BY <2>1, <2>2 DEF ChainSteps
  <2>4. \A v \in Worker : worker'[v].pc = "ctl_add" /\ Live(worker[v].c)' =>
          sched'[conn'[worker'[v].c].fd] # None /\ sched'[conn'[worker'[v].c].fd].handler \in Writes
    BY <2>1, <2>2 DEF ChainSteps
  <2>5. \A v \in Worker : worker'[v].pc = "free" /\ Live(worker[v].c)' =>
          sched'[conn'[worker'[v].c].fd] = None
    BY <2>1, <2>2 DEF ChainSteps
  <2> QED BY <2>3, <2>4, <2>5 DEF ChainSteps
<1> QED BY <1>7, <1>8, <1>9, <1>10, <1>11 DEF PInv

\* The main loop's end frees every registered connection and the whole table.
LEMMA ShutdownInv ==
  ASSUME PInv, Shutdown
  PROVE  PInv'
<1> DEFINE R == {sched[f].context : f \in {g \in Fd : sched[g] # None}}
<1>1. /\ conn' = [c \in Conn |-> IF c \in R THEN [conn[c] EXCEPT !.mem = "freed"] ELSE conn[c]]
      /\ openfd' = openfd \ {conn[c].fd : c \in R}
      /\ sched' = [f \in Fd |-> None] /\ interest' = [f \in Fd |-> "none"]
      /\ UNCHANGED <<queue, worker, backlog, input, unread, hup, room>>
  BY DEF Shutdown, env
<1>2. \A c \in R : c \in Conn /\ Live(c) /\ conn[c].fd \in Fd
  BY EntryOf
<1>3. \A d \in Conn : d \in R <=> (Live(d) /\ sched[conn[d].fd] # None)
  <2>1. ASSUME NEW d \in Conn, d \in R PROVE sched[conn[d].fd] # None
    <3>1. PICK f \in Fd : sched[f] # None /\ sched[f].context = d
      BY <2>1
    <3> QED BY <3>1, EntryOf
  <2>2. ASSUME NEW d \in Conn, Live(d), sched[conn[d].fd] # None PROVE d \in R
    <3>1. conn[d].fd \in Fd
      BY <2>2, Ranges
    <3>2. sched[conn[d].fd].context = d
      BY <2>2, <3>1, EntryOf DEF PInv, OwnFds, Open
    <3> QED BY <2>2, <3>1, <3>2
  <2> QED BY <1>2, <2>1, <2>2
<1>4. \A d \in Conn : /\ conn'[d].fd = conn[d].fd
                      /\ conn'[d].mem = IF d \in R THEN "freed" ELSE conn[d].mem
  BY <1>1 DEF PInv, ProcTypeOK, ConnType
<1>5. conn' \in [Conn -> ConnType]
  <2>1. \A c \in Conn : conn[c] \in ConnType
    BY DEF PInv, ProcTypeOK
  <2>2. \A c \in Conn : [conn[c] EXCEPT !.mem = "freed"] \in ConnType
    BY <2>1 DEF ConnType
  <2> QED BY <1>1, <2>1, <2>2
<1>6. \A d \in Conn : d \in R \/ ~Live(d) \/ \E w \in Worker : worker[w].c = d /\ worker[w].pc = "free"
  BY <1>3 DEF PInv, Entries
<1>8. openfd' \subseteq openfd /\ \A d \in R : conn[d].fd \notin openfd'
  BY <1>1
<1>9. \A h \in openfd : h \in openfd' \/ \E d \in R : conn[d].fd = h
  BY <1>1
<1> HIDE DEF R
<1>7. \A d \in Conn : /\ InPool(d)' = InPool(d)
                      /\ Live(d)' <=> Live(d) /\ d \notin R
                      /\ Leaked(d)' <=> Leaked(d)
  BY <1>1, <1>2, <1>4 DEF InPool, Live, Leaked
<1>10. ProcTypeOK' /\ EnvTypeOK'
  BY <1>1, <1>5, <1>8 DEF PInv, ProcTypeOK, EnvTypeOK
<1>11. OwnFds'
  <2>1. \A h \in openfd' : Peer(h)' # {}
    <3> SUFFICES ASSUME NEW h \in openfd' PROVE Peer(h)' # {}
      OBVIOUS
    <3>1. PICK d \in Conn : (Live(d) \/ Leaked(d)) /\ conn[d].fd = h
      BY <1>8 DEF PInv, OwnFds, Peer
    <3>2. d \notin R
      BY <1>8, <3>1
    <3> QED BY <1>4, <1>7, <3>1, <3>2 DEF Peer
  <2>2. \A d \in backlog' : conn'[d].mem = "unused"
    BY <1>1, <1>2, <1>4 DEF PInv, OwnFds, EnvTypeOK, Live
  <2>3. \A d \in Conn : Open(d)' => conn'[d].fd \in openfd'
    <3> SUFFICES ASSUME NEW d \in Conn, Live(d) \/ Leaked(d), d \notin R PROVE conn[d].fd \in openfd'
      BY <1>2, <1>4, <1>7 DEF Open, Live, Leaked
    <3>1. conn[d].fd \in openfd
      BY Ranges
    <3>2. \A e \in R : conn[e].fd # conn[d].fd
      BY <1>2 DEF PInv, OwnFds, Open
    <3> QED BY <1>9, <3>1, <3>2
  <2>4. \A d, e \in Conn : Open(d)' /\ Open(e)' /\ conn'[d].fd = conn'[e].fd => d = e
    BY <1>4, <1>7 DEF PInv, OwnFds, Open
  <2>5. \A h \in Fd \ openfd' : sched'[h] = None /\ interest'[h] = "none"
    BY <1>1
  <2> QED BY <2>1, <2>2, <2>3, <2>4, <2>5 DEF OwnFds
<1>12. Tasks'
  <2>1. \A d \in Conn : InPool(d)' => conn'[d].mem \in {"live", "freed"} /\ input'[d] \in {"GET", "POST"}
    BY <1>1, <1>4, <1>7 DEF PInv, Tasks
  <2> QED BY <1>1, <2>1 DEF PInv, Tasks
<1>13. \A f \in Fd : sched'[f] = None /\ interest'[f] = "none"
  BY <1>1
<1>14. \A d \in Conn : Live(d)' \/ Leaked(d)' => conn'[d].fd \in Fd
  BY <1>4, <1>7, Ranges
<1>15. Entries'
  <2>1. \A d \in Conn : Live(d)' => \E v \in Worker : worker'[v].c = d /\ worker'[v].pc = "free"
    BY <1>1, <1>6, <1>7
  <2> QED BY <1>13, <1>14, <2>1 DEF Entries, EntryIsOwn
<1>16. ChainSteps'
  <2>1. ASSUME NEW w \in Worker, worker'[w].pc = "free", Live(worker[w].c)'
        PROVE  sched'[conn'[worker'[w].c].fd] = None
    <3>1. worker'[w].c \in Conn /\ worker'[w] = worker[w]
      BY <1>1, <2>1, Ranges
    <3> QED BY <1>13, <1>14, <2>1, <3>1
  <2>2. ASSUME NEW w \in Worker, worker'[w].pc = "ctl_add" PROVE ~Live(worker[w].c)'
    <3>1. worker'[w].c \in Conn /\ worker'[w] = worker[w] /\ worker[w].pc = "ctl_add"
      BY <1>1, <2>2, Ranges
    <3> QED BY <1>1, <1>3, <1>7, <3>1 DEF PInv, ChainSteps
  <2> QED BY <1>1, <2>1, <2>2 DEF PInv, ChainSteps
<1> QED BY <1>10, <1>11, <1>12, <1>15, <1>16 DEF PInv

\* What a task's do and on_complete, and a failing epoll_ctl, leave the worker with.
LEMMA WorkerGoesOn ==
  ASSUME PInv, NEW w \in Worker, worker[w].pc \in {"do", "complete", "ctl_add"},
         \/ \E err \in BOOLEAN : Finish(w, err)
         \/ \E then \in {"idle", "complete"} : CloseThen(w, then)
         \/ ~worker[w].err /\ worker' = [worker EXCEPT ![w].pc = "set_handler"]
  PROVE  KeepsTask(w)
<1>0. worker \in [Worker -> WorkerType] /\ worker[w] \in WorkerType
  BY DEF PInv, ProcTypeOK
<1>1. ASSUME NEW err \in BOOLEAN, Finish(w, err) PROVE KeepsTask(w)
  <2>1. [worker[w] EXCEPT !.pc = "complete", !.err = err] \in WorkerType
    BY <1>0 DEF WorkerType
  <2>2. worker' = [worker EXCEPT ![w] = [worker[w] EXCEPT !.pc = "complete", !.err = err]]
    BY <1>0, <1>1 DEF Finish
  <2>3. worker'[w] = [worker[w] EXCEPT !.pc = "complete", !.err = err]
    BY <1>0, <2>2
  <2>4. worker'[w].c = worker[w].c /\ worker'[w].pc = "complete"
    BY <1>0, <2>3 DEF WorkerType
  <2>5. worker' \in [Worker -> WorkerType] /\ \A v \in Worker : v # w => worker'[v] = worker[v]
    BY <1>0, <2>1, <2>2
  <2> QED BY <2>4, <2>5 DEF KeepsTask
<1>2. ASSUME NEW then \in {"idle", "complete"}, CloseThen(w, then) PROVE KeepsTask(w)
  <2>1. [worker[w] EXCEPT !.pc = "unregister", !.err = TRUE, !.then = then] \in WorkerType
    BY <1>0 DEF WorkerType
  <2>2. worker' = [worker EXCEPT ![w] =
                     [worker[w] EXCEPT !.pc = "unregister", !.err = TRUE, !.then = then]]
    BY <1>0, <1>2 DEF CloseThen
  <2>3. worker'[w] = [worker[w] EXCEPT !.pc = "unregister", !.err = TRUE, !.then = then]
    BY <1>0, <2>2
  <2>4. worker'[w].c = worker[w].c /\ worker'[w].pc = "unregister"
    BY <1>0, <2>3 DEF WorkerType
  <2>5. worker' \in [Worker -> WorkerType] /\ \A v \in Worker : v # w => worker'[v] = worker[v]
    BY <1>0, <2>1, <2>2
  <2> QED BY <2>4, <2>5 DEF KeepsTask
<1>3. ASSUME ~worker[w].err, worker' = [worker EXCEPT ![w].pc = "set_handler"] PROVE KeepsTask(w)
  <2>1. [worker[w] EXCEPT !.pc = "set_handler"] \in WorkerType
    BY <1>0 DEF WorkerType
  <2>2. worker' = [worker EXCEPT ![w] = [worker[w] EXCEPT !.pc = "set_handler"]]
    BY <1>0, <1>3
  <2>3. worker'[w] = [worker[w] EXCEPT !.pc = "set_handler"]
    BY <1>0, <2>2
  <2>4. worker'[w].c = worker[w].c /\ worker'[w].pc = "set_handler" /\ worker'[w].err = worker[w].err
    BY <1>0, <2>3 DEF WorkerType
  <2>5. worker' \in [Worker -> WorkerType] /\ \A v \in Worker : v # w => worker'[v] = worker[v]
    BY <1>0, <2>1, <2>2
  <2> QED BY <1>3, <2>4, <2>5 DEF KeepsTask
<1> QED BY <1>1, <1>2, <1>3

\* Both results of the hand-back.
LEMMA EndCtlAddInv ==
  ASSUME PInv, NEW w \in Worker, worker[w].pc = "ctl_add", NEW c \in Conn, c = worker[w].c,
         Live(c), EndCtlAdd(w), UNCHANGED env
  PROVE  PInv'
<1>1. CASE HandedBack(w)
  BY <1>1, HandedBackInv
<1>2. CASE NotHandedBack(w)
  <2>1. KeepsTask(w)
    BY <1>2, WorkerGoesOn DEF NotHandedBack
  <2>2. UNCHANGED <<conn, sched, interest, openfd, queue, backlog, input, unread, hup, room>>
    BY <1>2 DEF NotHandedBack, env
  <2>3. conn' \in [Conn -> ConnType]
    BY <2>2 DEF PInv, ProcTypeOK
  <2> QED BY <2>1, <2>2, <2>3, KeepsTaskInv
<1> QED BY <1>1, <1>2, EndCtlAddResults

\* The do function of a task.
LEMMA DoInv ==
  ASSUME PInv, NEW w \in Worker, worker[w].pc = "do", Live(worker[w].c),
         ParseDo(w) \/ ModuleDo(w) \/ PrepareWriteDo(w), UNCHANGED env
  PROVE  PInv'
<1>0. worker[w].c \in Conn /\ InPool(worker[w].c)
  BY Ranges
<1>1. PICK c \in Conn : c = worker[w].c
  BY <1>0
<1>2. conn \in [Conn -> ConnType] /\ conn[c] \in ConnType /\ input[c] \in {"GET", "POST"}
  BY <1>0, <1>1 DEF PInv, ProcTypeOK, Tasks
<1>3. UNCHANGED <<sched, interest, openfd, queue, backlog, input, unread, hup, room>>
  BY DEF ParseDo, ModuleDo, PrepareWriteDo, env
<1>4. KeepsTask(w)
  <2>1. CASE ParseDo(w)
    BY <2>1, WorkerGoesOn DEF ParseDo
  <2>2. CASE ModuleDo(w)
    BY <2>2, WorkerGoesOn DEF ModuleDo
  <2>3. CASE PrepareWriteDo(w)
    BY <2>3, WorkerGoesOn DEF PrepareWriteDo
  <2> QED BY <2>1, <2>2, <2>3
<1>5. /\ conn' \in [Conn -> ConnType]
      /\ \A d \in Conn : conn'[d].mem = conn[d].mem /\ conn'[d].fd = conn[d].fd
  <2>1. CASE \E m \in {"none", input[c]} : conn' = [conn EXCEPT ![c].method = m]
    <3>1. PICK m \in {"none", "GET", "POST"} : conn' = [conn EXCEPT ![c].method = m]
      BY <1>2, <2>1
    <3>2. [conn[c] EXCEPT !.method = m] \in ConnType
      BY <1>2 DEF ConnType
    <3> QED BY <1>2, <3>1, <3>2 DEF ConnType
  <2>2. CASE conn' = [conn EXCEPT ![c].header = TRUE]
    <3>1. [conn[c] EXCEPT !.header = TRUE] \in ConnType
      BY <1>2 DEF ConnType
    <3>2. conn' = [conn EXCEPT ![c] = [conn[c] EXCEPT !.header = TRUE]]
      BY <1>2, <2>2
    <3>3. conn'[c].mem = conn[c].mem /\ conn'[c].fd = conn[c].fd
      BY <1>2, <2>2 DEF ConnType
    <3> QED BY <1>2, <3>1, <3>2, <3>3
  <2>3. CASE conn' = conn
    BY <1>2, <2>3
  <2> QED BY <1>1, <2>1, <2>2, <2>3 DEF ParseDo, ModuleDo, PrepareWriteDo
<1> QED BY <1>3, <1>4, <1>5, KeepsTaskInv

\* The on_complete function of a task.
LEMMA CompleteInv ==
  ASSUME PInv, NEW w \in Worker, worker[w].pc = "complete", Live(worker[w].c),
         ChainComplete(w) \/ EndTravelling(w), UNCHANGED env
  PROVE  PInv'
<1>1. PICK c \in Conn : c = worker[w].c /\ Live(c)
  BY Ranges
<1>2. UNCHANGED <<conn, sched, interest, openfd, backlog, input, unread, hup, room>>
  BY DEF ChainComplete, EndTravelling, env
<1>3. NextKind(w) \in Kind \cup {None}
  BY DEF NextKind, Kind
<1>4. ASSUME NextKind(w) # None, queue' = Append(queue, [kind |-> NextKind(w), c |-> worker[w].c]),
             worker' = [worker EXCEPT ![w] = Idle]
      PROVE  PInv'
  <2>1. NextKind(w) \in Kind /\ queue' = Append(queue, [kind |-> NextKind(w), c |-> c])
    BY <1>1, <1>3, <1>4
  <2> QED BY <1>1, <1>2, <1>4, <2>1, PostNextInv
<1>5. ASSUME KeepsTask(w), UNCHANGED queue PROVE PInv'
  <2>1. conn' \in [Conn -> ConnType]
    BY <1>2 DEF PInv, ProcTypeOK
  <2> QED BY <1>2, <1>5, <2>1, KeepsTaskInv
<1>6. CASE ChainComplete(w)
  <2>1. CASE CloseThen(w, "idle") /\ UNCHANGED queue
    BY <1>5, <2>1, WorkerGoesOn
  <2> QED BY <1>4, <1>6, <2>1 DEF ChainComplete
<1>7. CASE EndTravelling(w)
  <2>1. KeepsTask(w)
    BY <1>7, WorkerGoesOn DEF EndTravelling
  <2> QED BY <1>5, <1>7, <2>1 DEF EndTravelling
<1> QED BY <1>6, <1>7

\* Whatever a worker does.
LEMMA WorkerStepInv ==
  ASSUME PInv, NEW w \in Worker, WorkerStep(w)
  PROVE  PInv' /\ UNCHANGED loop
<1>0. ASSUME UNCHANGED <<conn, sched, interest, openfd, queue, worker, env>>
      PROVE  PInv'
  <2>1. UNCHANGED <<conn, sched, interest, openfd, queue, worker, backlog, input, unread, hup, room>>
    BY <1>0 DEF env
  <2>2. EnvTypeOK' /\ \A c \in backlog' : conn[c].mem = "unused"
    BY <2>1 DEF PInv, EnvTypeOK, OwnFds
  <2> QED BY <2>1, <2>2, PeersInv
<1>1. CASE TakeTask(w)
  BY <1>1, TakeTaskInv DEF TakeTask
<1>2. CASE Using(w, "do", ParseDo(w) \/ ModuleDo(w) \/ PrepareWriteDo(w))
  BY <1>0, <1>2, DoInv DEF Using
<1>3. CASE Using(w, "complete", ChainComplete(w) \/ EndTravelling(w))
  BY <1>0, <1>3, CompleteInv DEF Using
<1>c. ASSUME worker[w].pc # "idle" PROVE worker[w].c \in Conn
  BY <1>c, Ranges
<1>4. CASE Using(w, "set_handler", EndSetHandler(w))
  BY <1>0, <1>4, <1>c, EndSetHandlerInv DEF Using
<1>5. CASE Using(w, "ctl_add", EndCtlAdd(w))
  BY <1>0, <1>5, <1>c, EndCtlAddInv DEF Using
<1>6. CASE Using(w, "unregister", Unregister(w))
  BY <1>0, <1>6, <1>c, UnregisterInv DEF Using
<1>7. CASE Using(w, "free", FreeConnection(w))
  BY <1>0, <1>7, <1>c, FreeConnectionInv DEF Using
<1> QED BY <1>1, <1>2, <1>3, <1>4, <1>5, <1>6, <1>7 DEF WorkerStep

-----------------------------------------------------------------------------
(* The steps of the loop and of the peers *)

\* The connection a handler is called for, and what becomes of it.
LEMMA DispatchInv ==
  ASSUME PInv, LoopOK, HandlerRead \/ HandlerNoOperation
                       \/ HandlerWriteHeader \/ HandlerWriteFile \/ HandlerWriteBuffer
  PROVE  PInv' /\ LoopOK'
<1>0. loop.pc = "dispatch" /\ loop' = Advanced /\ Current.fd # Listen /\ sched[Current.fd] # None
  BY DEF HandlerRead, HandlerNoOperation, HandlerWriteHeader, HandlerWriteFile,
         HandlerWriteBuffer, Dispatching
<1>1. LoopOK'
  BY <1>0, LoopGoesOn
<1> SUFFICES PInv'
  BY <1>1
<1>2. PICK f \in Fd : f = Current.fd
  BY <1>0, CurrentType
<1>3. /\ sched[f] # None /\ Target = sched[f].context /\ Target \in Conn
      /\ conn[Target].fd = f
  BY <1>0, <1>2, EntryOf DEF Target
<1>4. EnvTypeOK' /\ UNCHANGED <<worker, backlog, input>>
  BY DEF PInv, EnvTypeOK, env, HandlerRead, HandlerNoOperation, HandlerWriteHeader,
         HandlerWriteFile, HandlerWriteBuffer, WriteEnds, WriteBlocks
<1>5. ASSUME CloseConnection(Target), UNCHANGED queue PROVE PInv'
  BY <1>3, <1>4, <1>5, CloseInv
<1>6. ASSUME UNCHANGED <<conn, sched, interest, openfd, queue>> PROVE PInv'
  BY <1>4, <1>6, PeersInv DEF PInv, OwnFds
<1>7. CASE HandlerRead
  <2>1. CASE StartTravelling(Target) /\ UNCHANGED openfd /\ input[Target] \in {"GET", "POST"}
    BY <1>2, <1>3, <1>4, <1>7, <2>1, StartInv DEF HandlerRead, Dispatching
  <2> QED BY <1>5, <1>6, <1>7, <2>1 DEF HandlerRead
<1>8. CASE HandlerNoOperation
  BY <1>6, <1>8 DEF HandlerNoOperation
<1>9. CASE HandlerWriteHeader
  <2>1. CASE \E h \in {"write_file", "write_buffer"} :
               SetHandler(f, h) /\ UNCHANGED <<conn, interest, openfd, queue>>
    <3>1. PICK h \in Writes : SetHandler(f, h)
      BY <2>1 DEF Writes
    <3>2. sched[f].handler \in Writes
      BY <1>2, <1>9 DEF HandlerWriteHeader, Dispatching, Writes
    <3> QED BY <1>3, <1>4, <2>1, <3>1, <3>2, HandlerInv
  <2>2. UNCHANGED queue
    BY <1>9 DEF HandlerWriteHeader
  <2>3. CASE CloseConnection(Target)
    BY <1>5, <2>2, <2>3
  <2>4. CASE WriteBlocks(Target)
    BY <1>6, <2>2, <2>4 DEF WriteBlocks
  <2> QED BY <1>3, <1>9, <2>1, <2>2, <2>3, <2>4 DEF HandlerWriteHeader
<1>10. CASE HandlerWriteFile
  <2>1. UNCHANGED queue
    BY <1>10 DEF HandlerWriteFile
  <2>2. CASE CloseConnection(Target)
    BY <1>5, <2>1, <2>2
  <2>3. CASE WriteBlocks(Target)
    BY <1>6, <2>1, <2>3 DEF WriteBlocks
  <2> QED BY <1>10, <2>2, <2>3 DEF HandlerWriteFile, WriteEnds
<1>11. CASE HandlerWriteBuffer
  <2>1. UNCHANGED queue
    BY <1>11 DEF HandlerWriteBuffer
  <2>2. CASE CloseConnection(Target)
    BY <1>5, <2>1, <2>2
  <2>3. CASE WriteBlocks(Target)
    BY <1>6, <2>1, <2>3 DEF WriteBlocks
  <2> QED BY <1>11, <2>2, <2>3 DEF HandlerWriteBuffer, WriteEnds
<1> QED BY <1>7, <1>8, <1>9, <1>10, <1>11

\* A step of the loop that is not a handler's of a connection.
LEMMA LoopInv ==
  ASSUME PInv, LoopOK, Poll \/ PollNothing \/ DispatchNoHandler \/ DispatchAccept \/ AcceptDone
  PROVE  PInv' /\ LoopOK'
<1>1. UNCHANGED <<conn, sched, interest, openfd, queue, worker, backlog, input, unread, hup, room>>
  BY DEF Poll, PollNothing, DispatchNoHandler, DispatchAccept, AcceptDone, env, vars
<1>2. PInv'
  <2>1. EnvTypeOK' /\ \A c \in backlog' : conn[c].mem = "unused"
    BY <1>1 DEF PInv, EnvTypeOK, OwnFds
  <2> QED BY <1>1, <2>1, PeersInv
<1>3. LoopOK'
  <2>1. CASE Poll
    BY <2>1, PollLoop
  <2>2. CASE PollNothing
    BY <2>2 DEF PollNothing, vars, LoopOK, LoopHasEvent
  <2>3. CASE DispatchNoHandler \/ DispatchAccept \/ AcceptDone
    BY <2>3, LoopGoesOn DEF DispatchNoHandler, DispatchAccept, AcceptDone
  <2> QED BY <2>1, <2>2, <2>3
<1> QED BY <1>2, <1>3

\* A round of the accept handler.
LEMMA AcceptRoundInv ==
  ASSUME PInv, LoopOK, NEW c \in Conn, Accept(c) \/ \E step \in AcceptFailures : AcceptFails(c, step)
  PROVE  PInv' /\ LoopOK'
<1>0. c \in backlog /\ EnvTypeOK'
  BY DEF Accept, AcceptFails, PInv, EnvTypeOK
<1>1. CASE Accept(c)
  <2>1. PInv'
    BY <1>0, <1>1, AcceptInv DEF Accept
  <2>2. LoopOK'
    BY <1>1 DEF Accept, LoopOK, LoopHasEvent
  <2> QED BY <2>1, <2>2
<1>2. CASE \E step \in AcceptFailures : AcceptFails(c, step)
  <2>1. PInv'
    BY <1>0, <1>2, AcceptFailsInv
  <2>2. LoopOK'
    BY <1>2, LoopGoesOn DEF AcceptFails
  <2> QED BY <2>1, <2>2
<1> QED BY <1>1, <1>2

\* What the peers do.
LEMMA PeerStepInv ==
  ASSUME PInv, Peers
  PROVE  PInv' /\ UNCHANGED <<loop, conn, sched, interest, openfd, queue, worker, fault>>
<1>1. PICK c \in Conn : \/ Connect(c) \/ Hangup(c) \/ Drain(c)
                        \/ \E r \in Request : Send(c, r)
  BY DEF Peers
<1>2. UNCHANGED <<loop, conn, sched, interest, openfd, queue, worker, fault>>
  BY <1>1 DEF Connect, Hangup, Drain, Send
<1>3. EnvTypeOK'
  <2>1. CASE \E r \in Request : Send(c, r)
    BY <2>1 DEF Send, PInv, EnvTypeOK
  <2>2. CASE Connect(c) \/ Hangup(c) \/ Drain(c)
    BY <2>2 DEF Connect, Hangup, Drain, PInv, EnvTypeOK
  <2> QED BY <1>1, <2>1, <2>2
<1>4. \A d \in Conn : input[d] \in {"GET", "POST"} => input'[d] = input[d]
  BY <1>1 DEF Connect, Hangup, Drain, Send, PInv, EnvTypeOK
<1>5. \A d \in backlog' : conn[d].mem = "unused"
  BY <1>1 DEF Connect, Hangup, Drain, Send, PInv, OwnFds
<1> QED BY <1>2, <1>3, <1>4, <1>5, PeersInv

\* A step that nobody takes.
LEMMA StutterInv == ASSUME PInv, LoopOK, UNCHANGED vars PROVE PInv' /\ LoopOK'
<1>1. UNCHANGED <<conn, sched, interest, openfd, queue, worker, backlog, input, unread, hup, room, loop>>
  BY DEF vars
<1>2. EnvTypeOK' /\ LoopOK' /\ \A c \in backlog' : conn[c].mem = "unused"
  BY <1>1 DEF PInv, EnvTypeOK, OwnFds, LoopOK, LoopHasEvent
<1> QED BY <1>1, <1>2, PeersInv

\* Every step of the process, an interrupt included.
LEMMA NextInv ==
  ASSUME PInv, LoopOK, [Next \/ (Running /\ Shutdown)]_vars
  PROVE  PInv' /\ LoopOK'
<1>1. CASE Poll \/ PollNothing
  BY <1>1, LoopInv
<1>2. CASE Handle
  BY <1>2, LoopInv, DispatchInv, AcceptRoundInv DEF Handle
<1>3. CASE Peers
  BY <1>3, PeerStepInv DEF LoopOK, LoopHasEvent
<1>4. CASE \E w \in Worker : WorkerStep(w)
  BY <1>4, WorkerStepInv DEF LoopOK, LoopHasEvent
<1>5. CASE Shutdown
  <2>1. LoopOK'
    BY <1>5 DEF Shutdown, LoopOK, LoopHasEvent, LoopType
  <2> QED BY <1>5, <2>1, ShutdownInv
<1>6. CASE UNCHANGED vars
  BY <1>6, StutterInv
<1> QED BY <1>1, <1>2, <1>3, <1>4, <1>5, <1>6 DEF Next, Ended

\* What is recorded of undefined behaviour.
LEMMA FaultType ==
  ASSUME fault \in {"none", "double_close", "use_after_free"}, [Next \/ (Running /\ Shutdown)]_vars
  PROVE  fault' \in {"none", "double_close", "use_after_free"}
<1>1. CASE UNCHANGED fault
  BY <1>1
<1>2. CASE \E w \in Worker : WorkerStep(w)
  BY <1>2 DEF WorkerStep, TakeTask, Using
<1> QED BY <1>1, <1>2 DEF Next, Poll, PollNothing, Handle, DispatchNoHandler, DispatchAccept,
    AcceptDone, HandlerRead, HandlerNoOperation, HandlerWriteHeader, HandlerWriteFile,
    HandlerWriteBuffer, Accept, AcceptFails, Peers, Connect, Hangup, Drain, Send, Ended,
    Shutdown, vars

\* The table, epoll, the descriptors, the connections and the tasks stay
\* consistent whatever the loop, the workers, the peers and an interrupt do.
THEOREM Invariance == InterruptedSpec => []IInv
<1>1. IInv <=> PInv /\ LoopOK /\ fault \in {"none", "double_close", "use_after_free"}
  BY TypeParts DEF IInv, PInv
<1>2. IInv /\ [Next \/ (Running /\ Shutdown)]_vars => IInv'
  <2> SUFFICES ASSUME IInv, [Next \/ (Running /\ Shutdown)]_vars PROVE IInv'
    OBVIOUS
  <2>1. PInv' /\ LoopOK'
    BY <1>1, NextInv
  <2>2. fault' \in {"none", "double_close", "use_after_free"}
    BY <1>1, FaultType
  <2>3. TypeOK' /\ LoopHasEvent'
    BY <2>1, <2>2, TypeParts DEF PInv, ProcTypeOK, LoopOK, EnvTypeOK, TypeOK,
         ConnType, EntryType, WorkerType, LoopType
  <2> QED BY <2>1, <2>3 DEF IInv, PInv
<1> QED BY <1>2, InitInv, PTL DEF InterruptedSpec

\* An entry of the table leads to a live connection of that descriptor.
THEOREM EntryIsOwnAlways == InterruptedSpec => []EntryIsOwn
<1>1. IInv => EntryIsOwn
  BY DEF IInv, Entries
<1> QED BY <1>1, Invariance, PTL

\* epoll watches a descriptor for what its handler expects.
THEOREM InterestMatchesHandlerAlways == InterruptedSpec => []InterestMatchesHandler
<1>1. IInv => InterestMatchesHandler
  <2> SUFFICES ASSUME IInv, NEW f \in Fd, interest[f] # "none"
               PROVE  IF \E c \in Peer(f) : Leaked(c) THEN sched[f] = None
                      ELSE sched[f] # None
                           /\ sched[f].handler \in IF interest[f] = "IN" THEN Reads ELSE Writes
    BY DEF InterestMatchesHandler
  <2>0. PInv
    BY TypeParts DEF IInv, PInv
  <2>1. CASE \E c \in Peer(f) : Leaked(c)
    BY <2>1 DEF Peer, IInv, Entries
  <2>2. CASE ~ \E c \in Peer(f) : Leaked(c)
    <3>1. f \in openfd
      BY DEF IInv, OwnFds
    <3>2. PICK c \in Conn : Live(c) /\ conn[c].fd = f
      BY <2>2, <3>1 DEF IInv, OwnFds, Peer
    <3>3. ~InPool(c)
      BY <3>2 DEF IInv, Entries
    <3>4. sched[f] # None
      BY <3>2, <3>3 DEF IInv, Entries, InPool
    <3>5. sched[f].handler \in Handler /\ HandlerFits(f)
      BY <2>0, <3>4, EntryOf DEF PInv, Entries
    <3>6. interest[f] \in {"IN", "OUT"}
      BY <2>0 DEF PInv, ProcTypeOK
    <3> QED BY <2>2, <3>4, <3>5, <3>6 DEF HandlerFits, Handler, Writes, Reads
  <2> QED BY <2>1, <2>2
<1> QED BY <1>1, Invariance, PTL

\* At most one task works on a connection, and none while the loop watches it.
THEOREM OneTaskPerConnAlways == InterruptedSpec => []OneTaskPerConn
<1>1. IInv => OneTaskPerConn
  <2> SUFFICES ASSUME IInv, NEW c \in Conn
               PROVE  /\ Cardinality(Queued(c)) + Cardinality(Holders(c)) <= 1
                      /\ Live(c) /\ interest[conn[c].fd] # "none" => ~InPool(c)
    BY DEF OneTaskPerConn
  <2>1. Tasks
    BY DEF IInv
  <2>2. Queued(c) = {} \/ \E i \in 1..Len(queue) : Queued(c) = {i} /\ Holders(c) = {}
    BY <2>1 DEF Tasks, Queued, Holders
  <2>3. Holders(c) = {} \/ \E w \in Worker : Holders(c) = {w}
    BY <2>1, IdAssumption DEF Tasks, Holders
  <2>4. Cardinality({}) = 0
    BY FS_EmptySet
  <2>5. Cardinality(Queued(c)) = 0 \/ (Cardinality(Queued(c)) = 1 /\ Cardinality(Holders(c)) = 0)
    BY <2>2, <2>4, FS_Singleton, Zenon
  <2>6. Cardinality(Holders(c)) = 0 \/ Cardinality(Holders(c)) = 1
    BY <2>3, <2>4, FS_Singleton, Zenon
  <2>7. Cardinality(Queued(c)) + Cardinality(Holders(c)) <= 1
    BY <2>5, <2>6
  <2> QED BY <2>7 DEF IInv, Entries
<1> QED BY <1>1, Invariance, PTL

-----------------------------------------------------------------------------
(* One event for each epoll_wait *)

ThenIdle == \A w \in Worker : worker[w].then = "idle"

\* A step that frees no connection tasks have, gives the pool none and leaves
\* what epoll watches.
SparesTravellers ==
  /\ ThenIdle' /\ UNCHANGED fault
  /\ \A d \in Conn : InPool(d)' => InPool(d)
  /\ \A d \in Conn : InPool(d)' /\ Live(d) => Live(d)'
  /\ \A g \in Fd : interest[g] # "none" => interest'[g] = interest[g]

\* The worker's connection after a step of its own, and what the step does to
\* connections and to epoll.
LEMMA WorkerEffect ==
  ASSUME PInv, ThenIdle, AllocOK = {TRUE}, NEW w \in Worker, WorkerStep(w),
         worker[w].pc # "idle" => Live(worker[w].c)
  PROVE  SparesTravellers
<1>0. worker \in [Worker -> WorkerType] /\ worker[w] \in WorkerType
  BY DEF PInv, ProcTypeOK
<1>1. CASE TakeTask(w)
  <2>1. UNCHANGED <<conn, interest, fault>> /\ \A d \in Conn : InPool(d)' <=> InPool(d)
    BY <1>1, TakeTaskInv DEF TakeTask
  <2>2. ThenIdle'
    BY <1>0, <1>1 DEF TakeTask, Idle, ThenIdle
  <2> QED BY <2>1, <2>2 DEF SparesTravellers, Live
<1> SUFFICES ASSUME ~TakeTask(w) PROVE SparesTravellers
  BY <1>1
<1>2. worker[w].pc # "idle" /\ Live(worker[w].c) /\ UNCHANGED fault
  BY DEF WorkerStep, Using
<1>3. PICK c \in Conn : c = worker[w].c /\ Live(c)
  BY <1>2, Ranges
<1>4. PICK f \in Fd : f = conn[c].fd
  BY <1>2, <1>3, HolderOf
<1>5. /\ interest[f] = "none" /\ conn \in [Conn -> ConnType] /\ conn[c] \in ConnType
      /\ interest \in [Fd -> {"none", "IN", "OUT"}]
      /\ \A v \in Worker : v # w => worker[v].c # c
      /\ \A i \in 1..Len(queue) : queue[i].c # c
  BY <1>2, <1>3, <1>4, HolderOf DEF PInv, ProcTypeOK
<1>6. ASSUME \A v \in Worker : worker'[v].c \in {worker[v].c, None}, UNCHANGED queue
      PROVE  \A d \in Conn : InPool(d)' => InPool(d)
  BY <1>6, IdAssumption DEF InPool
<1>7. CASE worker[w].pc = "do" /\ (ParseDo(w) \/ ModuleDo(w) \/ PrepareWriteDo(w))
  <2>1. PICK err \in BOOLEAN : Finish(w, err)
    BY <1>7 DEF ParseDo, ModuleDo, PrepareWriteDo
  <2>2. ThenIdle' /\ \A v \in Worker : worker'[v].c = worker[v].c
    <3>1. worker'[w].then = worker[w].then /\ worker'[w].c = worker[w].c
      BY <1>0, <2>1 DEF Finish, WorkerType
    <3>2. \A v \in Worker : v # w => worker'[v] = worker[v]
      BY <1>0, <2>1 DEF Finish
    <3> QED BY <3>1, <3>2 DEF ThenIdle
  <2>3. UNCHANGED <<interest, queue>> /\ \A d \in Conn : conn'[d].mem = conn[d].mem
    <3>1. CASE \E m : conn' = [conn EXCEPT ![c].method = m]
      BY <1>5, <1>7, <3>1 DEF ParseDo, ModuleDo, PrepareWriteDo, ConnType
    <3>2. CASE conn' = [conn EXCEPT ![c].header = TRUE]
      BY <1>5, <1>7, <3>2 DEF ParseDo, ModuleDo, PrepareWriteDo, ConnType
    <3>3. CASE conn' = conn
      BY <1>7, <3>3 DEF ParseDo, ModuleDo, PrepareWriteDo
    <3> QED BY <1>3, <1>7, <3>1, <3>2, <3>3 DEF ParseDo, ModuleDo, PrepareWriteDo
  <2> QED BY <1>2, <1>6, <2>2, <2>3 DEF SparesTravellers, Live
<1>8. CASE worker[w].pc = "complete" /\ (ChainComplete(w) \/ EndTravelling(w))
  <2>1. UNCHANGED <<conn, interest>>
    BY <1>8 DEF ChainComplete, EndTravelling
  <2>2. CASE /\ NextKind(w) # None /\ queue' = Append(queue, [kind |-> NextKind(w), c |-> c])
             /\ worker' = [worker EXCEPT ![w] = Idle]
    <3>1. NextKind(w) \in Kind
      BY <2>2 DEF NextKind, Kind
    <3>2. UNCHANGED <<conn, sched, interest, openfd, backlog, input, unread, hup, room>>
      BY <1>8 DEF WorkerStep, TakeTask, Using, ChainComplete, EndTravelling, env
    <3>3. \A d \in Conn : InPool(d)' <=> InPool(d)
      BY <1>3, <1>8, <2>2, <3>1, <3>2, PostNextInv
    <3>4. ThenIdle'
      BY <1>0, <2>2 DEF ThenIdle, Idle
    <3> QED BY <1>2, <2>1, <3>3, <3>4 DEF SparesTravellers, Live
  <2>3. CASE (CloseThen(w, "idle") \/ worker' = [worker EXCEPT ![w].pc = "set_handler"]) /\ UNCHANGED queue
    <3>1. worker'[w].then = "idle" /\ worker'[w].c = worker[w].c
      <4>1. CASE CloseThen(w, "idle")
        BY <1>0, <4>1 DEF CloseThen, WorkerType
      <4>2. CASE worker' = [worker EXCEPT ![w].pc = "set_handler"]
        BY <1>0, <4>2 DEF WorkerType, ThenIdle
      <4> QED BY <2>3, <4>1, <4>2
    <3>2. \A v \in Worker : v # w => worker'[v] = worker[v]
      BY <1>0, <2>3 DEF CloseThen
    <3> QED BY <1>2, <1>6, <2>1, <2>3, <3>1, <3>2 DEF SparesTravellers, ThenIdle, Live
  <2> QED BY <1>3, <1>8, <2>2, <2>3 DEF ChainComplete, EndTravelling
<1>9. CASE \/ worker[w].pc = "set_handler" /\ EndSetHandler(w)
           \/ worker[w].pc = "unregister" /\ Unregister(w)
  <2>1. UNCHANGED <<conn, interest, queue>>
    BY <1>9 DEF EndSetHandler, Unregister
  <2>2. worker'[w].then = worker[w].then /\ worker'[w].c = worker[w].c
    BY <1>0, <1>9 DEF EndSetHandler, Unregister, WorkerType
  <2>3. \A v \in Worker : v # w => worker'[v] = worker[v]
    BY <1>0, <1>9 DEF EndSetHandler, Unregister
  <2> QED BY <1>2, <1>6, <2>1, <2>2, <2>3 DEF SparesTravellers, ThenIdle, Live
<1>10. CASE worker[w].pc = "ctl_add" /\ EndCtlAdd(w)
  <2>1. CASE HandedBack(w)
    <3>1. UNCHANGED <<conn, queue>> /\ interest' = [interest EXCEPT ![f] = "OUT"]
          /\ worker' = [worker EXCEPT ![w] = Idle]
      BY <1>3, <1>4, <2>1 DEF HandedBack
    <3>2. ThenIdle' /\ \A v \in Worker : worker'[v].c \in {worker[v].c, None}
      BY <1>0, <3>1 DEF ThenIdle, Idle
    <3> QED BY <1>2, <1>5, <1>6, <3>1, <3>2 DEF SparesTravellers, Live
  <2>2. CASE NotHandedBack(w)
    <3>1. worker'[w].then = "idle" /\ worker'[w].c = worker[w].c
      BY <1>0, <2>2 DEF NotHandedBack, CloseThen, WorkerType
    <3>2. \A v \in Worker : v # w => worker'[v] = worker[v]
      BY <1>0, <2>2 DEF NotHandedBack, CloseThen
    <3>3. UNCHANGED <<conn, interest, queue>>
      BY <2>2 DEF NotHandedBack
    <3> QED BY <1>2, <1>6, <3>1, <3>2, <3>3 DEF SparesTravellers, ThenIdle, Live
  <2> QED BY <1>10, <2>1, <2>2, EndCtlAddResults
<1>11. CASE worker[w].pc = "free" /\ FreeConnection(w)
  <2>1. /\ conn' = [conn EXCEPT ![c].mem = "freed"] /\ UNCHANGED queue
        /\ interest' = [interest EXCEPT ![f] = "none"]
        /\ worker' = [worker EXCEPT ![w] = Idle]
    BY <1>0, <1>3, <1>4, <1>11 DEF FreeConnection, ThenIdle
  <2>2. ThenIdle' /\ worker'[w].c = None /\ \A v \in Worker : v # w => worker'[v] = worker[v]
    BY <1>0, <2>1 DEF ThenIdle, Idle
  <2>3. ~InPool(c)'
    BY <1>5, <2>1, <2>2, IdAssumption DEF InPool
  <2>4. \A d \in Conn : d # c => conn'[d] = conn[d]
    BY <1>5, <2>1
  <2> QED BY <1>2, <1>5, <1>6, <2>1, <2>2, <2>3, <2>4 DEF SparesTravellers, Live
<1>12. \/ worker[w].pc = "do" /\ (ParseDo(w) \/ ModuleDo(w) \/ PrepareWriteDo(w))
       \/ worker[w].pc = "complete" /\ (ChainComplete(w) \/ EndTravelling(w))
       \/ worker[w].pc = "set_handler" /\ EndSetHandler(w)
       \/ worker[w].pc = "ctl_add" /\ EndCtlAdd(w)
       \/ worker[w].pc = "unregister" /\ Unregister(w)
       \/ worker[w].pc = "free" /\ FreeConnection(w)
  BY <1>2 DEF WorkerStep, Using
<1> QED BY <1>7, <1>8, <1>9, <1>10, <1>11, <1>12

\* A handler that the loop runs for an event it has just got closes only a
\* connection that no task has, and starts a task only for a live one.
LEMMA HandlerEffect ==
  ASSUME PInv, LoopOK, EventIsFresh,
         \/ HandlerRead \/ HandlerNoOperation
         \/ HandlerWriteHeader \/ HandlerWriteFile \/ HandlerWriteBuffer
  PROVE  /\ UNCHANGED <<worker, fault>>
         /\ \A d \in Conn : InPool(d)' => InPool(d) \/ Live(d)
         /\ \A d \in Conn : InPool(d)' /\ Live(d) => Live(d)'
<1>0. /\ loop.pc = "dispatch" /\ loop' = Advanced /\ Current.fd # Listen /\ sched[Current.fd] # None
      /\ UNCHANGED <<worker, fault>>
  BY DEF HandlerRead, HandlerNoOperation, HandlerWriteHeader, HandlerWriteFile,
         HandlerWriteBuffer, Dispatching
<1>1. PICK f \in Fd : f = Current.fd
  BY <1>0, CurrentType
<1>2. PICK c \in Conn : c = Target
  BY <1>0, <1>1, EntryOf DEF Target
<1>3. sched[f] # None /\ c = sched[f].context /\ Live(c) /\ conn[c].fd = f
  BY <1>0, <1>1, <1>2, EntryOf DEF Target
<1>4. interest[f] # "none"
  BY <1>0, <1>1, CurrentType DEF EventIsFresh, Mask
<1>5. ~InPool(c)
  BY <1>3, <1>4 DEF PInv, Entries
<1>6. conn \in [Conn -> ConnType] /\ conn[c] \in ConnType
  BY DEF PInv, ProcTypeOK
<1>7. CASE UNCHANGED <<conn, queue>>
  BY <1>0, <1>7 DEF InPool, Live
<1>8. CASE UNCHANGED queue /\ conn' = [conn EXCEPT ![c].mem = "freed"]
  <2>1. \A d \in Conn : InPool(d)' <=> InPool(d)
    BY <1>0, <1>8 DEF InPool
  <2>2. \A d \in Conn : d # c => conn'[d] = conn[d]
    BY <1>6, <1>8
  <2> QED BY <1>0, <1>5, <2>1, <2>2 DEF Live
<1>9. CASE StartTravelling(c)
  <2>1. /\ Len(queue') = Len(queue) + 1 /\ Len(queue) \in Nat
        /\ \A i \in 1..Len(queue) : queue'[i] = queue[i]
        /\ queue'[Len(queue) + 1].c = c
    BY <1>9, PostedPool DEF StartTravelling, Kind
  <2>2. \A d \in Conn : InPool(d)' => InPool(d) \/ d = c
    BY <1>0, <2>1 DEF InPool
  <2>3. \A d \in Conn : conn'[d].mem = conn[d].mem
    BY <1>6, <1>9 DEF StartTravelling, ConnType
  <2> QED BY <1>0, <1>3, <2>2, <2>3 DEF Live
<1>10. CASE HandlerRead
  BY <1>2, <1>7, <1>8, <1>9, <1>10 DEF HandlerRead, CloseConnection
<1>11. CASE HandlerNoOperation
  BY <1>7, <1>11 DEF HandlerNoOperation
<1>12. CASE HandlerWriteHeader
  BY <1>2, <1>7, <1>8, <1>12 DEF HandlerWriteHeader, WriteBlocks, CloseConnection
<1>13. CASE HandlerWriteFile
  BY <1>2, <1>7, <1>8, <1>13 DEF HandlerWriteFile, WriteEnds, WriteBlocks, CloseConnection
<1>14. CASE HandlerWriteBuffer
  BY <1>2, <1>7, <1>8, <1>14 DEF HandlerWriteBuffer, WriteEnds, WriteBlocks, CloseConnection
<1> QED BY <1>10, <1>11, <1>12, <1>13, <1>14

\* A round of the accept handler touches no connection that has a task.
LEMMA AcceptEffect ==
  ASSUME PInv, NEW c \in Conn, Accept(c) \/ \E step \in AcceptFailures : AcceptFails(c, step)
  PROVE  /\ UNCHANGED <<worker, fault, queue>>
         /\ \A d \in Conn : InPool(d)' <=> InPool(d)
         /\ \A d \in Conn : InPool(d) /\ Live(d) => Live(d)'
<1>1. UNCHANGED <<worker, fault, queue>> /\ c \in backlog
  BY DEF Accept, AcceptFails
<1>2. \A d \in Conn : d # c => conn'[d] = conn[d]
  BY DEF Accept, AcceptFails, PInv, ProcTypeOK
<1> QED BY <1>1, <1>2, BacklogIsNew DEF InPool, Live

\* An event that epoll_wait has returned is for what is watched.
LEMMA PollIsFresh == ASSUME LoopOK, PInv, Poll PROVE EventIsFresh'
<1>1. PICK n \in 1..MaxReady : \E ev \in [1..n -> Ready] :
        loop' = [pc |-> "dispatch", events |-> ev, left |-> n]
  BY DEF Poll
<1>2. PICK ev \in [1..n -> Ready] : loop' = [pc |-> "dispatch", events |-> ev, left |-> n]
  BY <1>1
<1>3. Current' = ev[1] /\ ev[1] \in Ready
  BY <1>2, ReadyAssumption DEF Current, get_next_index
<1>4. PICK e \in Ready : e = Current'
  BY <1>3
<1>5. e.fd # Listen => interest[e.fd] = e.mask \/ (e.mask = "ERR" /\ interest[e.fd] # "none")
  BY DEF Ready
<1>6. interest' = interest
  BY DEF Poll
<1> QED BY <1>4, <1>5, <1>6 DEF EventIsFresh

\* Under these hypotheses every step keeps the invariant of one event.
LEMMA SingleNext ==
  ASSUME MaxReady = 1, AllocOK = {TRUE}, PInv, LoopOK, EventIsFresh, TravellerIsLive, NoFault,
         ThenIdle, [Next]_vars
  PROVE  EventIsFresh' /\ TravellerIsLive' /\ NoFault' /\ ThenIdle'
<1>1. ASSUME loop.pc \in {"dispatch", "accept"}, loop' = Advanced \/ loop' = Returned
      PROVE  EventIsFresh'
  <2>1. loop.left = 1
    BY <1>1 DEF LoopOK, LoopType, LoopHasEvent
  <2>2. loop'.pc = "poll"
    BY <1>1, <2>1 DEF Advanced, Returned, Polling
  <2> QED BY <2>2 DEF EventIsFresh
<1>2. ASSUME UNCHANGED loop, \A g \in Fd : interest[g] # "none" => interest'[g] = interest[g]
      PROVE  EventIsFresh'
  <2>1. CASE loop.pc = "dispatch"
    <3>1. PICK f \in Fd \cup {Listen} : f = Current.fd /\ Current' = Current /\ Current.mask \in Mask
      BY <1>2, <2>1, CurrentType DEF Current
    <3>2. CASE f # Listen
      BY <1>2, <2>1, <3>1, <3>2 DEF EventIsFresh, Mask
    <3> QED BY <3>1, <3>2 DEF EventIsFresh
  <2> QED BY <1>2, <2>1 DEF EventIsFresh
<1>3. ASSUME UNCHANGED <<conn, queue, worker, fault>>
      PROVE  TravellerIsLive' /\ NoFault' /\ ThenIdle'
  BY <1>3 DEF TravellerIsLive, NoFault, ThenIdle, InPool, Live
<1>4. CASE Poll
  BY <1>3, <1>4, PollIsFresh DEF Poll
<1>5. CASE PollNothing \/ UNCHANGED vars
  <2>1. UNCHANGED <<conn, queue, worker, fault, loop, interest>>
    BY <1>5 DEF PollNothing, vars
  <2> QED BY <1>2, <1>3, <2>1
<1>6. CASE Peers
  <2>1. UNCHANGED <<conn, queue, worker, fault, loop, interest>>
    BY <1>6, PeerStepInv
  <2> QED BY <1>2, <1>3, <2>1
<1>7. CASE DispatchNoHandler \/ AcceptDone
  BY <1>1, <1>3, <1>7 DEF DispatchNoHandler, AcceptDone
<1>8. CASE DispatchAccept
  <2>1. loop'.pc = "accept"
    BY <1>8 DEF DispatchAccept, LoopOK, LoopType
  <2> QED BY <1>3, <1>8, <2>1 DEF DispatchAccept, EventIsFresh
<1>9. CASE \E c \in Conn : Accept(c) \/ \E step \in AcceptFailures : AcceptFails(c, step)
  <2>1. EventIsFresh'
    BY <1>1, <1>9 DEF Accept, AcceptFails, EventIsFresh
  <2> QED BY <1>9, <2>1, AcceptEffect DEF TravellerIsLive, NoFault, ThenIdle
<1>10. CASE HandlerRead \/ HandlerNoOperation
            \/ HandlerWriteHeader \/ HandlerWriteFile \/ HandlerWriteBuffer
  <2>1. EventIsFresh'
    BY <1>1, <1>10 DEF HandlerRead, HandlerNoOperation, HandlerWriteHeader, HandlerWriteFile,
                       HandlerWriteBuffer, Dispatching
  <2> QED BY <1>10, <2>1, HandlerEffect DEF TravellerIsLive, NoFault, ThenIdle
<1>11. CASE \E w \in Worker : WorkerStep(w)
  <2>1. PICK w \in Worker : WorkerStep(w)
    BY <1>11
  <2>2. worker[w].pc # "idle" => Live(worker[w].c)
    BY Ranges DEF TravellerIsLive
  <2>3. /\ ThenIdle' /\ UNCHANGED fault
        /\ \A d \in Conn : InPool(d)' => InPool(d)
        /\ \A d \in Conn : InPool(d)' /\ Live(d) => Live(d)'
        /\ \A g \in Fd : interest[g] # "none" => interest'[g] = interest[g]
    BY <2>1, <2>2, WorkerEffect DEF SparesTravellers
  <2>4. UNCHANGED loop
    BY <2>1, WorkerStepInv
  <2> QED BY <1>2, <2>3, <2>4 DEF TravellerIsLive, NoFault
<1> QED BY <1>4, <1>5, <1>6, <1>7, <1>8, <1>9, <1>10, <1>11 DEF Next, Handle, Ended

\* With one event for each epoll_wait and no failing allocation, a connection
\* that tasks work on is freed by nobody else: no stale event reaches it.
THEOREM SingleInvariance ==
  ASSUME MaxReady = 1, AllocOK = {TRUE}
  PROVE  Spec => []SingleInv
<1>1. IInv <=> PInv /\ LoopOK /\ fault \in {"none", "double_close", "use_after_free"}
  BY TypeParts DEF IInv, PInv
<1>2. Spec => []IInv
  <2>1. Spec => InterruptedSpec
    <3>1. [Next]_vars => [Next \/ (Running /\ Shutdown)]_vars
      OBVIOUS
    <3> QED BY <3>1, PTL DEF Spec, InterruptedSpec
  <2> QED BY <2>1, Invariance, PTL
<1> DEFINE S == EventIsFresh /\ TravellerIsLive /\ NoFault /\ ThenIdle
<1>3. Init => S
  <2> SUFFICES ASSUME Init PROVE S
    OBVIOUS
  <2>1. Len(queue) = 0 /\ \A w \in Worker : worker[w].c = None /\ worker[w].then = "idle"
    BY DEF Init, Idle
  <2>2. loop.pc = "poll" /\ fault = "none"
    BY DEF Init, Polling
  <2> QED BY <2>1, <2>2, IdAssumption DEF EventIsFresh, TravellerIsLive, NoFault, ThenIdle, InPool
<1>4. IInv /\ S /\ [Next]_vars => S'
  BY <1>1, SingleNext
<1>5. IInv /\ S => SingleInv
  BY DEF SingleInv, ThenIdle
<1> QED BY <1>2, <1>3, <1>4, <1>5, PTL DEF Spec

\* No connection object is closed twice or used after it was freed.
THEOREM NoFaultAlways ==
  ASSUME MaxReady = 1, AllocOK = {TRUE}
  PROVE  Spec => []NoFault
<1>1. SingleInv => NoFault
  BY DEF SingleInv
<1> QED BY <1>1, SingleInvariance, PTL

-----------------------------------------------------------------------------
(* The promise to one connection *)

\* A step is one of the abstract specification, or none.
LifeStep == Life!Next \/ UNCHANGED Stage

\* A connection of which nothing that counts changes stays in its stage.
LEMMA StageKept ==
  ASSUME NEW d \in Conn, conn'[d].mem = conn[d].mem, conn'[d].travelling = conn[d].travelling,
         conn'[d].fd = conn[d].fd,
         Live(d) => interest'[conn[d].fd] = interest[conn[d].fd]
  PROVE  Stage'[d] = Stage[d]
  BY DEF Stage, Live

\* Only one connection gets to another stage, one that may follow.
LEMMA OneStage ==
  ASSUME NEW c \in Conn, \A d \in Conn : d # c => Stage'[d] = Stage[d],
         Stage'[c] = Stage[c] \/ Stage'[c] \in Life!After(Stage[c])
  PROVE  LifeStep
<1>0. Stage \in [Conn -> Life!Stages]
  BY DEF Stage, Life!Stages
<1>p. Stage' \in [Conn -> Life!Stages]
  BY DEF Stage, Life!Stages
<1>1. Stage' = [Stage EXCEPT ![c] = Stage'[c]]
  BY <1>0, <1>p
<1>2. CASE Stage'[c] = Stage[c]
  BY <1>2 DEF Stage, LifeStep
<1>3. CASE Stage'[c] \in Life!After(Stage[c])
  BY <1>1, <1>3 DEF LifeStep, Life!Next, Life!Advance
<1> QED BY <1>2, <1>3

\* No connection gets to another stage.
LEMMA NoStage == ASSUME \A d \in Conn : Stage'[d] = Stage[d] PROVE LifeStep
  BY DEF Stage, LifeStep

\* A step that leaves table, epoll and what counts of the connections.
LEMMA LifeKept ==
  ASSUME PInv, Travels, UNCHANGED <<sched, interest>>,
         \A d \in Conn : /\ conn'[d].mem = conn[d].mem /\ conn'[d].fd = conn[d].fd
                         /\ conn'[d].travelling = conn[d].travelling
  PROVE  Travels' /\ LifeStep
<1>1. Travels'
  BY EntryOf DEF Travels
<1>2. \A d \in Conn : Stage'[d] = Stage[d]
  BY StageKept
<1> QED BY <1>1, <1>2, NoStage

\* A connection ends, in whichever stage it is.
LEMMA LifeEnds ==
  ASSUME PInv, Travels, NEW c \in Conn, Live(c), NEW f \in Fd, f = conn[c].fd,
         sched' = [sched EXCEPT ![f] = None], interest' = [interest EXCEPT ![f] = "none"],
         conn' = [conn EXCEPT ![c].mem = "freed"]
  PROVE  Travels' /\ LifeStep
<1>1. /\ conn'[c].mem = "freed" /\ \A d \in Conn : d # c => conn'[d] = conn[d]
      /\ \A d \in Conn : conn'[d].travelling = conn[d].travelling
  BY DEF PInv, ProcTypeOK, ConnType
<1>2. \A g \in Fd : /\ sched'[g] = IF g = f THEN None ELSE sched[g]
                    /\ g # f => interest'[g] = interest[g]
  BY DEF PInv, ProcTypeOK
<1>3. Travels'
  BY <1>1, <1>2, EntryOf DEF Travels
<1>4. \A d \in Conn : d # c => Stage'[d] = Stage[d]
  <2> SUFFICES ASSUME NEW d \in Conn, d # c PROVE Stage'[d] = Stage[d]
    OBVIOUS
  <2>1. Live(d) => conn[d].fd \in Fd /\ conn[d].fd # f
    BY Ranges DEF PInv, OwnFds, Open
  <2> QED BY <1>1, <1>2, <2>1, StageKept
<1>5. Stage'[c] = "closed" /\ Stage[c] \in {"reading", "travelling", "writing"}
  BY <1>1 DEF Stage, Live
<1>6. Stage'[c] \in Life!After(Stage[c])
  BY <1>5 DEF Life!After
<1> QED BY <1>3, <1>4, <1>6, OneStage

\* The loop gives a connection to the pool.
LEMMA LifeStarts ==
  ASSUME PInv, Travels, NEW f \in Fd, sched[f] # None, sched[f].handler = "read",
         NEW c \in Conn, c = sched[f].context, StartTravelling(c)
  PROVE  Travels' /\ LifeStep
<1>0. Live(c) /\ conn[c].fd = f /\ ~conn[c].travelling /\ conn[c] \in ConnType
  BY EntryOf DEF Travels, PInv, ProcTypeOK
<1>1. /\ conn'[c].travelling = TRUE /\ conn'[c].mem = conn[c].mem /\ conn'[c].fd = f
      /\ \A d \in Conn : d # c => conn'[d] = conn[d]
  BY <1>0 DEF StartTravelling, PInv, ProcTypeOK, ConnType
<1>2. interest'[f] = "none" /\ \A g \in Fd : g # f => interest'[g] = interest[g]
  BY <1>0 DEF StartTravelling, PInv, ProcTypeOK
<1>3. /\ \A g \in Fd : g # f => sched'[g] = sched[g]
      /\ sched'[f] # None /\ sched'[f].context = c /\ sched'[f].handler = "no_operation"
  BY <1>0, SetHandlerEffect DEF StartTravelling, Handler
<1>4. Travels'
  <2>1. \A g \in Fd : g # f /\ sched[g] # None => sched[g].context \in Conn /\ sched[g].context # c
    BY <1>0, EntryOf
  <2> QED BY <1>1, <1>3, <2>1 DEF Travels
<1>5. \A d \in Conn : d # c => Stage'[d] = Stage[d]
  <2> SUFFICES ASSUME NEW d \in Conn, d # c PROVE Stage'[d] = Stage[d]
    OBVIOUS
  <2>1. Live(d) => conn[d].fd \in Fd /\ conn[d].fd # f
    BY <1>0, Ranges DEF PInv, OwnFds, Open
  <2> QED BY <1>1, <1>2, <2>1, StageKept
<1>6. Stage[c] = "reading" /\ Stage'[c] = "travelling"
  BY <1>0, <1>1, <1>2 DEF Stage, Live
<1>7. Stage'[c] \in Life!After(Stage[c])
  BY <1>6 DEF Life!After
<1> QED BY <1>4, <1>5, <1>7, OneStage

\* The table gets another handler for a connection that has travelled.
LEMMA LifeHandler ==
  ASSUME PInv, Travels, UNCHANGED <<conn, interest>>, NEW f \in Fd, sched[f] # None,
         sched[f].handler # "read", NEW h \in Writes, SetHandler(f, h)
  PROVE  Travels' /\ LifeStep
<1>1. /\ \A g \in Fd : g # f => sched'[g] = sched[g]
      /\ sched'[f] # None /\ sched'[f].context = sched[f].context /\ sched'[f].handler = h
      /\ h # "read"
  BY SetHandlerEffect DEF Writes, Handler
<1>2. Travels'
  BY <1>1 DEF Travels
<1>3. \A d \in Conn : Stage'[d] = Stage[d]
  BY StageKept
<1> QED BY <1>2, <1>3, NoStage

\* A round of the accept handler begins or ends the life of a connection, or
\* loses it before it began.
LEMMA LifeAccepts ==
  ASSUME PInv, Travels, NEW c \in Conn,
         Accept(c) \/ \E step \in AcceptFailures : AcceptFails(c, step)
  PROVE  Travels' /\ LifeStep
<1>0. /\ c \in backlog /\ conn[c].mem = "unused" /\ conn[c] \in ConnType
      /\ \A g \in Fd : sched[g] # None => sched[g].context # c /\ sched[g].context \in Conn
  BY BacklogIsNew, EntryOf DEF Accept, AcceptFails, PInv, OwnFds, ProcTypeOK
<1>1. Stage[c] = "new"
  BY <1>0 DEF Stage, Live
<1>2. PICK f \in Fd \ openfd :
        /\ \A g \in Fd : g # f => sched'[g] = sched[g] /\ interest'[g] = interest[g]
        /\ \A d \in Conn : d # c => conn'[d] = conn[d]
        /\ \/ sched'[f] = sched[f] /\ conn'[c].mem \in {"freed", "leaked"}
           \/ /\ sched'[f].handler = "read" /\ sched'[f].context = c
              /\ conn'[c].mem = "live" /\ conn'[c].travelling = FALSE
  <2>1. CASE Accept(c)
    <3>1. PICK f \in Fd \ openfd :
            /\ interest' = [interest EXCEPT ![f] = "IN"]
            /\ conn' = [conn EXCEPT ![c] = [NewConn EXCEPT !.mem = "live", !.fd = f]]
            /\ sched' = [sched EXCEPT ![f] = [handler |-> "read", context |-> c]]
      BY <2>1 DEF Accept
    <3> QED BY <3>1 DEF PInv, ProcTypeOK, NewConn
  <2>2. CASE \E step \in AcceptFailures : AcceptFails(c, step)
    <3>1. PICK step \in AcceptFailures : AcceptFails(c, step)
      BY <2>2
    <3>2. PICK f \in Fd \ openfd :
            IF step = "set_nonblocking"
              THEN /\ conn' = [conn EXCEPT ![c].mem = "freed"]
                   /\ UNCHANGED <<openfd, interest>>
              ELSE /\ conn' = [conn EXCEPT ![c].mem = "leaked", ![c].fd = f]
                   /\ openfd' = openfd \cup {f}
                   /\ interest' = [interest EXCEPT ![f] = IF step = "ctl_add" THEN @ ELSE "IN"]
      BY <3>1 DEF AcceptFails
    <3>3. UNCHANGED sched
      BY <3>1 DEF AcceptFails
    <3>4. conn'[c].mem \in {"freed", "leaked"}
      <4>1. CASE step = "set_nonblocking"
        BY <1>0, <3>2, <4>1 DEF PInv, ProcTypeOK, ConnType
      <4>2. CASE step # "set_nonblocking"
        BY <1>0, <3>2, <4>2 DEF PInv, ProcTypeOK, ConnType
      <4> QED BY <4>1, <4>2
    <3>5. /\ \A g \in Fd : g # f => interest'[g] = interest[g]
          /\ \A d \in Conn : d # c => conn'[d] = conn[d]
      BY <3>2 DEF PInv, ProcTypeOK
    <3> QED BY <3>3, <3>4, <3>5
  <2> QED BY <2>1, <2>2
<1>3. sched[f] = None
  BY DEF PInv, OwnFds
<1>4. Travels'
  BY <1>0, <1>2, <1>3 DEF Travels
<1>5. \A d \in Conn : d # c => Stage'[d] = Stage[d]
  <2> SUFFICES ASSUME NEW d \in Conn, d # c PROVE Stage'[d] = Stage[d]
    OBVIOUS
  <2>1. Live(d) => conn[d].fd \in Fd /\ conn[d].fd # f
    BY Ranges
  <2> QED BY <1>2, <2>1, StageKept
<1>6. Stage'[c] \in {"new", "closed", "reading"}
  BY <1>2 DEF Stage, Live
<1>7. Stage'[c] = Stage[c] \/ Stage'[c] \in Life!After(Stage[c])
  BY <1>1, <1>6 DEF Life!After
<1> QED BY <1>4, <1>5, <1>7, OneStage

\* A handler of the loop.
LEMMA LifeDispatch ==
  ASSUME PInv, LoopOK, Travels,
         \/ HandlerRead \/ HandlerNoOperation
         \/ HandlerWriteHeader \/ HandlerWriteFile \/ HandlerWriteBuffer
  PROVE  Travels' /\ LifeStep
<1>0. loop.pc = "dispatch" /\ Current.fd # Listen /\ sched[Current.fd] # None
  BY DEF HandlerRead, HandlerNoOperation, HandlerWriteHeader, HandlerWriteFile,
         HandlerWriteBuffer, Dispatching
<1>1. PICK f \in Fd : f = Current.fd
  BY <1>0, CurrentType
<1>2. PICK c \in Conn : c = Target
  BY <1>0, <1>1, EntryOf DEF Target
<1>3. sched[f] # None /\ c = sched[f].context /\ Live(c) /\ conn[c].fd = f
  BY <1>0, <1>1, <1>2, EntryOf DEF Target
<1>4. ASSUME CloseConnection(c) PROVE Travels' /\ LifeStep
  BY <1>3, <1>4, LifeEnds DEF CloseConnection
<1>5. ASSUME UNCHANGED <<conn, sched, interest>> PROVE Travels' /\ LifeStep
  BY <1>5, LifeKept
<1>6. CASE HandlerRead
  <2>1. CASE StartTravelling(c)
    BY <1>1, <1>3, <1>6, <2>1, LifeStarts DEF HandlerRead, Dispatching
  <2> QED BY <1>2, <1>4, <1>5, <1>6, <2>1 DEF HandlerRead
<1>7. CASE HandlerNoOperation
  BY <1>5, <1>7 DEF HandlerNoOperation
<1>8. CASE HandlerWriteHeader
  <2>1. CASE \E h \in {"write_file", "write_buffer"} : SetHandler(f, h) /\ UNCHANGED <<conn, interest>>
    <3>1. PICK h \in Writes : SetHandler(f, h)
      BY <2>1 DEF Writes
    <3>2. sched[f].handler # "read"
      BY <1>1, <1>8 DEF HandlerWriteHeader, Dispatching
    <3> QED BY <1>3, <2>1, <3>1, <3>2, LifeHandler
  <2> QED BY <1>2, <1>3, <1>4, <1>5, <1>8, <2>1 DEF HandlerWriteHeader, WriteBlocks
<1>9. CASE HandlerWriteFile
  BY <1>2, <1>4, <1>5, <1>9 DEF HandlerWriteFile, WriteEnds, WriteBlocks
<1>10. CASE HandlerWriteBuffer
  BY <1>2, <1>4, <1>5, <1>10 DEF HandlerWriteBuffer, WriteEnds, WriteBlocks
<1> QED BY <1>6, <1>7, <1>8, <1>9, <1>10

\* A step of a worker.
LEMMA LifeWorks ==
  ASSUME PInv, Travels, NEW w \in Worker, WorkerStep(w)
  PROVE  Travels' /\ LifeStep
<1>1. ASSUME UNCHANGED <<conn, sched, interest>> PROVE Travels' /\ LifeStep
  BY <1>1, LifeKept
<1>2. CASE TakeTask(w)
  BY <1>1, <1>2 DEF TakeTask
<1>3. CASE worker[w].pc # "idle" /\ ~Live(worker[w].c)
  BY <1>1, <1>2, <1>3 DEF WorkerStep, Using
<1>4. CASE worker[w].pc # "idle" /\ Live(worker[w].c)
  <2>1. PICK c \in Conn : c = worker[w].c /\ Live(c)
    BY <1>4, Ranges
  <2>2. PICK f \in Fd : f = conn[c].fd
    BY <1>4, <2>1, HolderOf
  <2>3. /\ conn \in [Conn -> ConnType] /\ conn[c] \in ConnType
        /\ interest[f] = "none"
        /\ \A d \in Conn : (Live(d) \/ Leaked(d)) /\ d # c => conn[d].fd \in Fd /\ conn[d].fd # f
        /\ worker[w].pc # "free" => sched[f] # None
        /\ sched[f] # None => sched[f].context = c /\ sched[f].handler # "read"
    BY <1>4, <2>1, <2>2, HolderOf DEF PInv, ProcTypeOK
  <2>4. CASE ParseDo(w) \/ ModuleDo(w) \/ PrepareWriteDo(w)
    <3>1. CASE \E m : conn' = [conn EXCEPT ![c].method = m]
      <4>1. \A d \in Conn : /\ conn'[d].mem = conn[d].mem /\ conn'[d].fd = conn[d].fd
                            /\ conn'[d].travelling = conn[d].travelling
        BY <2>3, <3>1 DEF ConnType
      <4> QED BY <2>4, <4>1, LifeKept DEF ParseDo, ModuleDo, PrepareWriteDo
    <3>2. CASE conn' = [conn EXCEPT ![c].header = TRUE]
      <4>1. \A d \in Conn : /\ conn'[d].mem = conn[d].mem /\ conn'[d].fd = conn[d].fd
                            /\ conn'[d].travelling = conn[d].travelling
        BY <2>3, <3>2 DEF ConnType
      <4> QED BY <2>4, <4>1, LifeKept DEF ParseDo, ModuleDo, PrepareWriteDo
    <3>3. CASE conn' = conn
      BY <1>1, <2>4, <3>3 DEF ParseDo, ModuleDo, PrepareWriteDo
    <3> QED BY <2>1, <2>4, <3>1, <3>2, <3>3 DEF ParseDo, ModuleDo, PrepareWriteDo
  <2>5. CASE ChainComplete(w) \/ EndTravelling(w)
    BY <1>1, <2>5 DEF ChainComplete, EndTravelling
  <2>6. CASE EndSetHandler(w)
    <3>1. CASE SetHandler(f, "write_header") /\ sched[f] # None
      BY <2>3, <2>6, <3>1, LifeHandler DEF EndSetHandler, Writes
    <3> QED BY <1>1, <2>1, <2>2, <2>6, <3>1 DEF EndSetHandler
  <2>7. CASE worker[w].pc = "ctl_add" /\ EndCtlAdd(w)
    <3> SUFFICES ASSUME HandedBack(w) PROVE Travels' /\ LifeStep
      BY <1>1, <2>7, EndCtlAddResults DEF NotHandedBack
    <3>1. UNCHANGED <<conn, sched>> /\ interest' = [interest EXCEPT ![f] = "OUT"]
      BY <2>1, <2>2 DEF HandedBack
    <3>2. interest'[f] = "OUT" /\ \A g \in Fd : g # f => interest'[g] = interest[g]
      BY <3>1 DEF PInv, ProcTypeOK
    <3>3. Travels'
      BY <3>1 DEF Travels
    <3>4. conn[c].travelling
      BY <2>3, <2>7 DEF Travels
    <3>5. Stage[c] = "travelling" /\ Stage'[c] = "writing"
      BY <2>1, <2>2, <2>3, <3>1, <3>2, <3>4 DEF Stage, Live
    <3>6. Stage'[c] \in Life!After(Stage[c])
      BY <3>5 DEF Life!After
    <3>7. \A d \in Conn : d # c => Stage'[d] = Stage[d]
      BY <2>3, <3>1, <3>2, StageKept
    <3> QED BY <3>3, <3>6, <3>7, OneStage
  <2>8. CASE Unregister(w)
    <3>1. UNCHANGED <<conn, interest>> /\ sched' = [sched EXCEPT ![f] = None]
      BY <2>1, <2>2, <2>8 DEF Unregister
    <3>2. \A g \in Fd : sched'[g] = IF g = f THEN None ELSE sched[g]
      BY <3>1 DEF PInv, ProcTypeOK
    <3>3. Travels'
      BY <3>1, <3>2 DEF Travels
    <3>4. \A d \in Conn : Stage'[d] = Stage[d]
      BY <3>1, StageKept
    <3> QED BY <3>3, <3>4, NoStage
  <2>9. CASE worker[w].pc = "free" /\ FreeConnection(w)
    <3>1. /\ conn' = [conn EXCEPT ![c].mem = "freed"] /\ UNCHANGED sched
          /\ interest' = [interest EXCEPT ![f] = "none"]
      BY <2>1, <2>2, <2>9 DEF FreeConnection
    <3>2. sched[f] = None
      BY <2>1, <2>2, <2>9 DEF PInv, ChainSteps
    <3>3. sched' = [sched EXCEPT ![f] = None]
      BY <3>1, <3>2 DEF PInv, ProcTypeOK
    <3> QED BY <2>1, <2>2, <3>1, <3>3, LifeEnds
  <2>10. \/ ParseDo(w) \/ ModuleDo(w) \/ PrepareWriteDo(w)
         \/ ChainComplete(w) \/ EndTravelling(w)
         \/ EndSetHandler(w)
         \/ worker[w].pc = "ctl_add" /\ EndCtlAdd(w)
         \/ Unregister(w)
         \/ worker[w].pc = "free" /\ FreeConnection(w)
    BY <1>4 DEF WorkerStep, Using, TakeTask
  <2> QED BY <2>4, <2>5, <2>6, <2>7, <2>8, <2>9, <2>10
<1> QED BY <1>2, <1>3, <1>4 DEF WorkerStep, Using

\* Every step.
LEMMA LifeNext ==
  ASSUME PInv, LoopOK, Travels, [Next]_vars
  PROVE  Travels' /\ LifeStep
<1>1. ASSUME UNCHANGED <<conn, sched, interest>> PROVE Travels' /\ LifeStep
  BY <1>1, LifeKept
<1>2. CASE Poll \/ PollNothing
  BY <1>1, <1>2 DEF Poll, PollNothing, vars
<1>3. CASE Peers
  BY <1>1, <1>3, PeerStepInv
<1>4. CASE Handle
  <2>1. CASE DispatchNoHandler \/ DispatchAccept \/ AcceptDone
    BY <1>1, <2>1 DEF DispatchNoHandler, DispatchAccept, AcceptDone
  <2> QED BY <1>4, <2>1, LifeDispatch, LifeAccepts DEF Handle
<1>5. CASE \E w \in Worker : WorkerStep(w)
  BY <1>5, LifeWorks
<1>6. CASE UNCHANGED vars
  BY <1>1, <1>6 DEF vars
<1> QED BY <1>2, <1>3, <1>4, <1>5, <1>6 DEF Next, Ended

\* What every connection is promised, the server keeps: it is read, travels
\* once, is written and is closed, in this order and once, and whatever the
\* others do.
THEOREM ServerKeepsPromise == Spec => LifeSpec
<1>1. Spec => []IInv
  <2>1. Spec => InterruptedSpec
    <3>1. [Next]_vars => [Next \/ (Running /\ Shutdown)]_vars
      OBVIOUS
    <3> QED BY <3>1, PTL DEF Spec, InterruptedSpec
  <2> QED BY <2>1, Invariance, PTL
<1>2. Init => Travels /\ Life!Init
  BY DEF Init, Travels, Life!Init, Stage, NewConn, Live
<1>3. IInv /\ Travels /\ [Next]_vars => Travels' /\ [Life!Next]_Stage
  BY TypeParts, LifeNext DEF IInv, PInv, LifeStep
<1> QED BY <1>1, <1>2, <1>3, PTL DEF Spec, LifeSpec, Life!Spec
=============================================================================
