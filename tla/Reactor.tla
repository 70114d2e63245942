------------------------------ MODULE Reactor ------------------------------
(***************************************************************************)
(* One server process of src/src/core/tgx.c after fork: the event loop of  *)
(* main, the accept handler, the connection handlers and the task chain of *)
(* tgx_connection.c, on top of the handler table of tgx_event.c and epoll. *)
(*                                                                         *)
(* The event loop is one thread.  A connection it has read a request from  *)
(* "travels": its descriptor leaves epoll and a chain of tasks handles it  *)
(* on the worker threads until _task_end_travelling hands it back.         *)
(*                                                                         *)
(* Handlers of the loop are atomic here: the only state a worker shares    *)
(* with a running handler is the table, epoll and the task queue.  What a  *)
(* worker does is split at every access to those, and closing and handing  *)
(* back are several steps.  Request and response bytes are abstracted to   *)
(* what the handlers decide on.                                            *)
(*                                                                         *)
(* Undefined behaviour (freeing or using a connection object that was      *)
(* freed) ends the process: fault records it and nothing happens after it. *)
(***************************************************************************)
EXTENDS Integers, Sequences, FiniteSets

CONSTANTS Conn,      \* connection objects, each accepted at most once
          Fd,        \* descriptors accept can return
          Worker,    \* threads of the task pool
          Listen,    \* the listening descriptor
          MaxReady,  \* bound: events one epoll_wait returns
          AllocOK,   \* results of an allocation in a task: {TRUE} or BOOLEAN
          AcceptFailures,  \* steps of tgx_acception_handler that may fail
          None

ASSUME IdAssumption    == Listen \notin Fd /\ None \notin Fd /\ None \notin Conn
ASSUME ReadyAssumption == MaxReady \in Nat \ {0}
ASSUME AllocAssumption == AllocOK \subseteq BOOLEAN /\ TRUE \in AllocOK
ASSUME AcceptAssumption ==
  AcceptFailures \subseteq {"set_nonblocking", "ctl_add", "new_connection", "register"}

\* refused: a POST without Content-Length, or another method
Request == {"idle", "partial", "GET", "POST", "POST_long", "refused"}
Kind    == {"parse", "get_write", "module", "post_write"}
Handler == {"read", "no_operation", "write_header", "write_file", "write_buffer"}
Mask    == {"IN", "OUT", "ERR"}

\* NULL is no entry of the table and no task.
ASSUME NullAssumption == None \notin [handler : Handler, context : Conn] /\ None \notin Kind

VARIABLES
  \* the process
  conn,      \* connection objects: memory, descriptor, travelling, method, header
  sched,     \* sched_array: handler and context per descriptor, or None
  interest,  \* epoll interest per descriptor: "none", "IN" or "OUT"
  openfd,    \* open descriptors
  queue,     \* the task pool's queue
  worker,    \* what each worker does
  loop,      \* the event loop: program point, events, index, rounds left
  fault,     \* undefined behaviour met
  \* the peers
  backlog,   \* connections waiting in accept's queue
  input,     \* what the peer of a connection has sent
  unread,    \* connections with bytes not yet read
  hup,       \* connections whose peer has gone
  room       \* connections whose send buffer takes more

vars == <<conn, sched, interest, openfd, queue, worker, loop, fault,
          backlog, input, unread, hup, room>>
env  == <<backlog, input, unread, hup, room>>

NewConn == [mem |-> "unused", fd |-> None, travelling |-> FALSE,
            method |-> "none", header |-> FALSE]
Idle    == [pc |-> "idle", c |-> None, kind |-> None, err |-> FALSE, then |-> "idle"]
Polling == [pc |-> "poll", events |-> <<>>, left |-> 0]

TypeOK ==
  /\ conn \in [Conn -> [mem : {"unused", "live", "leaked", "freed"}, fd : Fd \cup {None},
                        travelling : BOOLEAN, method : {"none", "GET", "POST"},
                        header : BOOLEAN]]
  /\ sched \in [Fd -> {None} \cup [handler : Handler, context : Conn]]
  /\ interest \in [Fd -> {"none", "IN", "OUT"}]
  /\ openfd \subseteq Fd
  /\ queue \in Seq([kind : Kind, c : Conn])
  /\ worker \in [Worker -> [pc : {"idle", "do", "complete", "set_handler", "ctl_add",
                                  "unregister", "free"},
                            c : Conn \cup {None}, kind : Kind \cup {None},
                            err : BOOLEAN, then : {"idle", "complete"}]]
  /\ loop \in [pc : {"poll", "dispatch", "accept", "down"},
                events : Seq([fd : Fd \cup {Listen}, mask : Mask]), left : 0..MaxReady]
  /\ Len(loop.events) <= MaxReady
  /\ fault \in {"none", "double_close", "use_after_free"}
  /\ backlog \subseteq Conn /\ unread \subseteq Conn /\ hup \subseteq Conn /\ room \subseteq Conn
  /\ input \in [Conn -> Request]

Init ==
  /\ conn = [c \in Conn |-> NewConn]
  /\ sched = [f \in Fd |-> None]
  /\ interest = [f \in Fd |-> "none"]
  /\ openfd = {}
  /\ queue = <<>>
  /\ worker = [w \in Worker |-> Idle]
  /\ loop = Polling
  /\ fault = "none"
  /\ backlog = {}
  /\ input = [c \in Conn |-> "idle"]
  /\ unread = {} /\ hup = {} /\ room = Conn

Live(c) == conn[c].mem = "live"
\* An open connection that the process has lost track of.
Leaked(c) == conn[c].mem = "leaked"

----------------------------------------------------------------------------
(* The peers and the kernel (external) *)

\* Connections are taken in turn from the set of unused ones.
Connect(c) ==
  /\ conn[c].mem = "unused" /\ c \notin backlog
  /\ backlog' = backlog \cup {c}
  /\ UNCHANGED <<conn, sched, interest, openfd, queue, worker, loop, fault,
                 input, unread, hup, room>>

\* A request arrives whole or in two parts.
Send(c, r) ==
  /\ conn[c].mem # "freed" /\ (c \in backlog \/ Live(c)) /\ c \notin hup
  /\ \/ input[c] = "idle" /\ r # "idle"
     \/ input[c] = "partial" /\ r \notin {"idle", "partial"}
  /\ input' = [input EXCEPT ![c] = r]
  /\ unread' = unread \cup {c}
  /\ UNCHANGED <<conn, sched, interest, openfd, queue, worker, loop, fault,
                 backlog, hup, room>>

Hangup(c) ==
  /\ Live(c) \/ Leaked(c)
  /\ c \notin hup
  /\ hup' = hup \cup {c}
  /\ UNCHANGED <<conn, sched, interest, openfd, queue, worker, loop, fault,
                 backlog, input, unread, room>>

\* The peer takes what was sent, so the send buffer has room again.
Drain(c) ==
  /\ Live(c) /\ c \notin room
  /\ room' = room \cup {c}
  /\ UNCHANGED <<conn, sched, interest, openfd, queue, worker, loop, fault,
                 backlog, input, unread, hup>>

\* The connection a descriptor stands for.
Peer(f) == {c \in Conn : (Live(c) \/ Leaked(c)) /\ conn[c].fd = f}

\* Level-triggered readiness, with the mask epoll reports.
Ready ==
  {e \in [fd : Fd, mask : Mask] :
     \E c \in Peer(e.fd) :
       \/ e.mask = "IN"  /\ interest[e.fd] = "IN"  /\ c \in unread \cup hup
       \/ e.mask = "OUT" /\ interest[e.fd] = "OUT" /\ c \in room \cup hup
       \/ e.mask = "ERR" /\ interest[e.fd] # "none" /\ c \in hup}
  \cup {e \in [fd : {Listen}, mask : {"IN"}] : backlog # {}}

----------------------------------------------------------------------------
(* tgx_event.c and tgx_close_connection *)

SetHandler(f, h) == sched' = [sched EXCEPT ![f].handler = h]

\* Mutant: closing without freeing.
Mutant_Close_leaks(c) ==
  /\ sched' = [sched EXCEPT ![conn[c].fd] = None]
  /\ interest' = [interest EXCEPT ![conn[c].fd] = "none"]
  /\ openfd' = openfd \ {conn[c].fd}
  /\ UNCHANGED conn

\* tgx_close_connection in the event loop: unregister, CTL_DEL unless the
\* connection travelled (close removes the descriptor from epoll anyway),
\* close(fd), free.
CloseConnection(c) ==
  LET f == conn[c].fd IN
    /\ sched' = [sched EXCEPT ![f] = None]
    /\ interest' = [interest EXCEPT ![f] = "none"]
    /\ openfd' = openfd \ {f}
    /\ conn' = [conn EXCEPT ![c].mem = "freed"]

----------------------------------------------------------------------------
(* The event loop of main *)

\* tgx_linux_epoll_get_next_index: "index = -1 ? 0 : index + 1" assigns 0.
get_next_index(index) == 0

Poll ==
  /\ loop.pc = "poll"
  /\ \E n \in 1..MaxReady : \E ev \in [1..n -> Ready] :
       /\ \A i, j \in 1..n : i # j => ev[i].fd # ev[j].fd
       /\ loop' = [pc |-> "dispatch", events |-> ev, left |-> n]
  /\ UNCHANGED <<conn, sched, interest, openfd, queue, worker, fault, env>>

\* epoll_wait times out, or is interrupted and returns -1.
PollNothing == loop.pc = "poll" /\ UNCHANGED vars

\* The event the loop looks at next, and what is left after it.  The index is
\* recomputed in every round, the events are those of the last epoll_wait.
Current == loop.events[1 + get_next_index(Len(loop.events) - loop.left - 1)]
Advanced == IF loop.left = 1 THEN Polling ELSE [loop EXCEPT !.left = @ - 1]

Dispatching(h) ==
  /\ loop.pc = "dispatch"
  /\ Current.fd # Listen
  /\ sched[Current.fd] # None
  /\ sched[Current.fd].handler = h
  /\ loop' = Advanced

Target == sched[Current.fd].context

\* handler == NULL: the loop goes on with the next round.
DispatchNoHandler ==
  /\ loop.pc = "dispatch"
  /\ Current.fd # Listen
  /\ sched[Current.fd] = None
  /\ loop' = Advanced
  /\ UNCHANGED <<conn, sched, interest, openfd, queue, worker, fault, env>>

DispatchAccept ==
  /\ loop.pc = "dispatch"
  /\ Current.fd = Listen
  /\ loop' = [loop EXCEPT !.pc = "accept"]
  /\ UNCHANGED <<conn, sched, interest, openfd, queue, worker, fault, env>>

\* tgx_acception_handler, one round: epoll first, then the object, then the
\* table.  accept fails when no descriptor is left, and the handler returns.
Accept(c) ==
  /\ loop.pc = "accept"
  /\ c \in backlog
  /\ \E f \in Fd \ openfd :
       /\ openfd' = openfd \cup {f}
       /\ interest' = [interest EXCEPT ![f] = "IN"]
       /\ conn' = [conn EXCEPT ![c] = [NewConn EXCEPT !.mem = "live", !.fd = f]]
       /\ sched' = [sched EXCEPT ![f] = [handler |-> "read", context |-> c]]
  /\ backlog' = backlog \ {c}
  /\ UNCHANGED <<queue, worker, loop, fault, input, unread, hup, room>>

Returned == IF loop.left = 1 THEN Polling ELSE [loop EXCEPT !.pc = "dispatch", !.left = @ - 1]

\* Mutant: the descriptor is in epoll before the steps that may fail.
Mutant_AcceptFails_watched(c, step) ==
  /\ loop.pc = "accept"
  /\ c \in backlog
  /\ \E f \in Fd \ openfd :
       /\ conn' = [conn EXCEPT ![c].mem = "leaked", ![c].fd = f]
       /\ openfd' = openfd \cup {f}
       /\ interest' = [interest EXCEPT ![f] = "IN"]
  /\ backlog' = backlog \ {c}
  /\ loop' = Returned
  /\ UNCHANGED <<sched, queue, worker, fault, input, unread, hup, room>>

\* A step after accept fails and the handler returns: the descriptor is
\* closed, or it stays open unwatched, or watched without a handler.
AcceptFails(c, step) ==
  /\ loop.pc = "accept"
  /\ c \in backlog
  /\ \E f \in Fd \ openfd :
       IF step = "set_nonblocking"
         THEN /\ conn' = [conn EXCEPT ![c].mem = "freed"]
              /\ UNCHANGED <<openfd, interest>>
         ELSE /\ conn' = [conn EXCEPT ![c].mem = "leaked", ![c].fd = f]
              /\ openfd' = openfd \cup {f}
              /\ interest' = [interest EXCEPT ![f] = IF step = "ctl_add" THEN @ ELSE "IN"]
  /\ backlog' = backlog \ {c}
  /\ loop' = Returned
  /\ UNCHANGED <<sched, queue, worker, fault, input, unread, hup, room>>

AcceptDone ==
  /\ loop.pc = "accept"
  /\ backlog = {} \/ openfd = Fd
  /\ loop' = Returned
  /\ UNCHANGED <<conn, sched, interest, openfd, queue, worker, fault, env>>

----------------------------------------------------------------------------
(* The handlers of tgx_connection.c, run by the loop *)

\* Nothing but an event of the wrong kind, a vanished peer, a request without
\* Content-Length or of another method ends a connection that is being read.
ReadCloses(c) ==
  Current.mask # "IN" \/ c \in hup \/ input[c] = "refused"

\* Mutants: the descriptor stays in epoll; it keeps its handler too.
Mutant_Start_watched(c) ==
  /\ SetHandler(conn[c].fd, "no_operation")
  /\ conn' = [conn EXCEPT ![c].travelling = TRUE]
  /\ queue' = Append(queue, [kind |-> "parse", c |-> c])
  /\ UNCHANGED interest
Mutant_Start_unprotected(c) ==
  /\ conn' = [conn EXCEPT ![c].travelling = TRUE]
  /\ queue' = Append(queue, [kind |-> "parse", c |-> c])
  /\ UNCHANGED <<sched, interest>>

\* _task_start_travelling, called by tgx_post_task before it queues the task.
StartTravelling(c) ==
  /\ SetHandler(conn[c].fd, "no_operation")
  /\ interest' = [interest EXCEPT ![conn[c].fd] = "none"]
  /\ conn' = [conn EXCEPT ![c].travelling = TRUE]
  /\ queue' = Append(queue, [kind |-> "parse", c |-> c])

\* The request is taken on, or the task for it cannot be posted and the handler
\* closes: no memory for the task, or on_post (_task_start_travelling) was
\* refused by the table or by epoll.
HandlerRead ==
  /\ Dispatching("read")
  /\ LET c == Target IN
       /\ unread' = unread \ {c}
       /\ \/ /\ ReadCloses(c) \/ input[c] \in {"GET", "POST"}
             /\ CloseConnection(c)
             /\ UNCHANGED queue
          \/ /\ ~ReadCloses(c)
             /\ input[c] \in {"GET", "POST"}
             /\ StartTravelling(c)
             /\ UNCHANGED openfd
          \/ /\ ~ReadCloses(c)
             /\ input[c] \in {"idle", "partial", "POST_long"}
             /\ UNCHANGED <<conn, sched, interest, openfd, queue>>
  /\ UNCHANGED <<worker, fault, backlog, input, hup, room>>

HandlerNoOperation ==
  /\ Dispatching("no_operation")
  /\ UNCHANGED <<conn, sched, interest, openfd, queue, worker, fault, env>>

WriteCloses(c) == Current.mask # "OUT" \/ c \in hup

\* write returned EAGAIN before everything was written: wait for the next event.
WriteBlocks(c) ==
  /\ ~WriteCloses(c)
  /\ room' = room \ {c}
  /\ UNCHANGED <<conn, sched, interest, openfd>>

HandlerWriteHeader ==
  /\ Dispatching("write_header")
  /\ LET c == Target IN
       \/ /\ WriteCloses(c) \/ ~conn[c].header
          /\ CloseConnection(c)
          /\ UNCHANGED room
       \/ conn[c].header /\ WriteBlocks(c)
       \/ /\ ~WriteCloses(c) /\ conn[c].header /\ c \in room
          /\ SetHandler(conn[c].fd,
                        IF conn[c].method = "GET" THEN "write_file" ELSE "write_buffer")
          /\ UNCHANGED <<conn, interest, openfd, room>>
  /\ UNCHANGED <<queue, worker, fault, backlog, input, unread, hup>>

\* Everything is written, or the file of a GET is gone: the connection ends.
WriteEnds(c, fileGone) ==
  /\ WriteCloses(c) \/ c \in room \/ fileGone
  /\ CloseConnection(c)
  /\ UNCHANGED room

HandlerWriteFile ==
  /\ Dispatching("write_file")
  /\ LET c == Target IN
       \E fileGone \in BOOLEAN : WriteEnds(c, fileGone) \/ (~fileGone /\ WriteBlocks(c))
  /\ UNCHANGED <<queue, worker, fault, backlog, input, unread, hup>>

HandlerWriteBuffer ==
  /\ Dispatching("write_buffer")
  /\ LET c == Target IN WriteEnds(c, FALSE) \/ WriteBlocks(c)
  /\ UNCHANGED <<queue, worker, fault, backlog, input, unread, hup>>

----------------------------------------------------------------------------
(* The task chain, run by the workers *)

TakeTask(w) ==
  /\ worker[w].pc = "idle"
  /\ queue # <<>>
  /\ queue' = Tail(queue)
  /\ worker' = [worker EXCEPT ![w] = [Idle EXCEPT !.pc = "do", !.c = Head(queue).c,
                                                  !.kind = Head(queue).kind]]
  /\ UNCHANGED <<conn, sched, interest, openfd, loop, fault, env>>

\* A worker at pc takes step A on its connection c.  Using a connection
\* object that was freed, or closing it again, ends the process instead.
Using(w, pc, A) ==
  /\ worker[w].pc = pc
  /\ UNCHANGED <<loop, env>>
  /\ IF Live(worker[w].c)
       THEN A /\ UNCHANGED fault
       ELSE /\ fault' = IF pc \in {"complete", "unregister", "free"}
                          THEN "double_close" ELSE "use_after_free"
            /\ UNCHANGED <<conn, sched, interest, openfd, queue, worker>>

Finish(w, err) == worker' = [worker EXCEPT ![w].pc = "complete", ![w].err = err]
CloseThen(w, then) ==
  worker' = [worker EXCEPT ![w].pc = "unregister", ![w].err = TRUE, ![w].then = then]

\* _task_http_parser_do finds the method or fails.
ParseDo(w) ==
  /\ worker[w].kind = "parse"
  /\ \E m \in {"none", input[worker[w].c]}, err \in BOOLEAN :
       /\ conn' = [conn EXCEPT ![worker[w].c].method = m]
       /\ Finish(w, err)
  /\ UNCHANGED <<sched, interest, openfd, queue>>

\* _task_post_prepare_module_do: the user's module runs; -1 is an error.
ModuleDo(w) ==
  /\ worker[w].kind = "module"
  /\ \E err \in BOOLEAN : Finish(w, err)
  /\ UNCHANGED <<conn, sched, interest, openfd, queue>>

\* _task_get_prepare_write_do and _task_post_prepare_write_do.  When the
\* header buffer cannot be had, COPY closes the connection and returns -1.
PrepareWriteDo(w) ==
  /\ worker[w].kind \in {"get_write", "post_write"}
  /\ \E alloc \in AllocOK, err \in BOOLEAN :
       IF alloc
         THEN conn' = [conn EXCEPT ![worker[w].c].header = TRUE] /\ Finish(w, err)
         ELSE CloseThen(w, "complete") /\ UNCHANGED conn
  /\ UNCHANGED <<sched, interest, openfd, queue>>

\* The task that follows in the chain, None for another method.
NextKind(w) ==
  CASE worker[w].kind = "module" -> "post_write"
    [] worker[w].kind # "module" /\ conn[worker[w].c].method = "GET"  -> "get_write"
    [] worker[w].kind # "module" /\ conn[worker[w].c].method = "POST" -> "module"
    [] OTHER -> None

\* _task_http_parser_on_complete and _task_post_prepare_module_on_complete.
\* Posting fails when on_post cannot load the module.
ChainComplete(w) ==
  /\ worker[w].kind \in {"parse", "module"}
  /\ \E posted \in BOOLEAN :
       IF posted /\ ~worker[w].err /\ NextKind(w) # None
         THEN /\ queue' = Append(queue, [kind |-> NextKind(w), c |-> worker[w].c])
              /\ worker' = [worker EXCEPT ![w] = Idle]
         ELSE CloseThen(w, "idle") /\ UNCHANGED queue
  /\ UNCHANGED <<conn, sched, interest, openfd>>

\* Mutant: no return after the connection was closed.
Mutant_End_closes_and_goes_on(w) ==
  /\ worker[w].kind \in {"get_write", "post_write"}
  /\ IF worker[w].err THEN CloseThen(w, "complete")
                      ELSE worker' = [worker EXCEPT ![w].pc = "set_handler"]
  /\ UNCHANGED <<conn, sched, interest, openfd, queue>>

\* _task_end_travelling: close on an error, else handler first, epoll second.
EndTravelling(w) ==
  /\ worker[w].kind \in {"get_write", "post_write"}
  /\ IF worker[w].err THEN CloseThen(w, "idle")
                      ELSE worker' = [worker EXCEPT ![w].pc = "set_handler"]
  /\ UNCHANGED <<conn, sched, interest, openfd, queue>>

EndSetHandler(w) ==
  /\ LET f == conn[worker[w].c].fd IN
       IF sched[f] # None
         THEN SetHandler(f, "write_header") /\ worker' = [worker EXCEPT ![w].pc = "ctl_add"]
         ELSE worker' = [worker EXCEPT ![w].pc = "ctl_add", ![w].err = TRUE] /\ UNCHANGED sched
  /\ UNCHANGED <<conn, interest, openfd, queue>>

\* The descriptor is watched again, or epoll_ctl fails; an error of either
\* call closes the connection.
EndCtlAdd(w) ==
  /\ \E added \in BOOLEAN :
       /\ interest' = IF added THEN [interest EXCEPT ![conn[worker[w].c].fd] = "OUT"]
                               ELSE interest
       /\ IF worker[w].err \/ ~added THEN CloseThen(w, "idle")
                                     ELSE worker' = [worker EXCEPT ![w] = Idle]
  /\ UNCHANGED <<conn, sched, openfd, queue>>

\* Mutant: the worker closes without touching the table.
Mutant_Unregister_skipped(w) ==
  /\ worker' = [worker EXCEPT ![w].pc = "free"]
  /\ UNCHANGED <<conn, sched, interest, openfd, queue>>

\* tgx_close_connection in a worker: the table under tcycle_lock, then the
\* descriptor and the object.
Unregister(w) ==
  /\ sched' = [sched EXCEPT ![conn[worker[w].c].fd] = None]
  /\ worker' = [worker EXCEPT ![w].pc = "free"]
  /\ UNCHANGED <<conn, interest, openfd, queue>>

FreeConnection(w) ==
  /\ LET f == conn[worker[w].c].fd IN
       /\ interest' = [interest EXCEPT ![f] = "none"]
       /\ openfd' = openfd \ {f}
  /\ conn' = [conn EXCEPT ![worker[w].c].mem = "freed"]
  /\ worker' = [worker EXCEPT ![w] = IF @.then = "idle" THEN Idle
                                     ELSE [@ EXCEPT !.pc = "complete"]]
  /\ UNCHANGED <<sched, queue>>

----------------------------------------------------------------------------
(* Shutdown: SIGINT clears running, and main leaves its loop.  It frees    *)
(* every registered connection and the table, and only then destroys the   *)
(* task pool.                                                              *)

Shutdown ==
  /\ loop.pc = "poll"
  /\ loop' = [loop EXCEPT !.pc = "down"]
  /\ LET registered == {sched[f].context : f \in {g \in Fd : sched[g] # None}} IN
       /\ conn' = [c \in Conn |-> IF c \in registered THEN [conn[c] EXCEPT !.mem = "freed"]
                                                      ELSE conn[c]]
       /\ openfd' = openfd \ {conn[c].fd : c \in registered}
  /\ sched' = [f \in Fd |-> None]
  /\ interest' = [f \in Fd |-> "none"]
  /\ UNCHANGED <<queue, worker, fault, env>>

----------------------------------------------------------------------------
Handle == \/ DispatchNoHandler \/ DispatchAccept \/ AcceptDone
          \/ HandlerRead \/ HandlerNoOperation
          \/ HandlerWriteHeader \/ HandlerWriteFile \/ HandlerWriteBuffer
          \/ \E c \in Conn : Accept(c) \/ \E step \in AcceptFailures : AcceptFails(c, step)

WorkerStep(w) ==
  \/ TakeTask(w)
  \/ Using(w, "do", ParseDo(w) \/ ModuleDo(w) \/ PrepareWriteDo(w))
  \/ Using(w, "complete", ChainComplete(w) \/ EndTravelling(w))
  \/ Using(w, "set_handler", EndSetHandler(w))
  \/ Using(w, "ctl_add", EndCtlAdd(w))
  \/ Using(w, "unregister", Unregister(w))
  \/ Using(w, "free", FreeConnection(w))

Peers == \E c \in Conn : \/ Connect(c) \/ Hangup(c) \/ Drain(c)
                         \/ \E r \in Request : Send(c, r)

\* The process has died of a fault, or its loop has ended.
Running == fault = "none"
Ended == (~Running \/ loop.pc = "down") /\ UNCHANGED vars

Next ==
  \/ Running /\ (Poll \/ PollNothing \/ Handle \/ Peers \/ \E w \in Worker : WorkerStep(w))
  \/ Ended

Spec == Init /\ [][Next]_vars
InterruptedSpec == Init /\ [][Next \/ (Running /\ Shutdown)]_vars

----------------------------------------------------------------------------
(* Properties *)

\* The connections tasks refer to.
Queued(c) == {i \in 1..Len(queue) : queue[i].c = c}
Holders(c) == {w \in Worker : worker[w].c = c}
InPool(c) == \/ \E i \in 1..Len(queue) : queue[i].c = c
             \/ \E w \in Worker : worker[w].c = c

\* No connection object is closed twice ("handlers and on_complete may close,
\* the others only return -1", head of tgx_connection.c) or used after it was
\* freed, whatever the loop and the workers do in between.
NoFault == fault = "none"

\* "The fd enters another world" (_task_start_travelling): as long as a task
\* refers to a connection, nobody else frees it.
TravellerIsLive == \A c \in Conn : InPool(c) => Live(c)

\* An entry leads to a live connection of that descriptor.
EntryIsOwn ==
  \A f \in Fd : sched[f] # None =>
    Live(sched[f].context) /\ conn[sched[f].context].fd = f

\* What epoll watches a descriptor for is what its handler expects: a handler
\* closes the connection on any other event.  A descriptor leaked by a failed
\* accept has no handler, and never gets one of another connection.
Reads == {"read"}
Writes == {"write_header", "write_file", "write_buffer"}
InterestMatchesHandler ==
  \A f \in Fd : interest[f] # "none" =>
    IF \E c \in Peer(f) : Leaked(c) THEN sched[f] = None
    ELSE sched[f] # None /\ sched[f].handler \in IF interest[f] = "IN" THEN Reads ELSE Writes

\* At most one task at a time works on a connection, and while the loop
\* watches the connection no task does.
OneTaskPerConn ==
  \A c \in Conn :
    /\ Cardinality(Queued(c)) + Cardinality(Holders(c)) <= 1
    /\ Live(c) /\ interest[conn[c].fd] # "none" => ~InPool(c)

\* What makes these inductive.  An open descriptor is that of one connection,
\* and a closed one is neither watched nor in the table,
Open(c) == Live(c) \/ Leaked(c)
OwnFds ==
  /\ \A c \in Conn : Open(c) => conn[c].fd \in openfd
  /\ \A c, d \in Conn : Open(c) /\ Open(d) /\ conn[c].fd = conn[d].fd => c = d
  /\ \A f \in openfd : Peer(f) # {}
  /\ \A f \in Fd \ openfd : sched[f] = None /\ interest[f] = "none"
  /\ \A c \in backlog : conn[c].mem = "unused"
\* a task is in one place and for a request that was taken on,
Tasks ==
  /\ \A i, j \in 1..Len(queue) : queue[i].c = queue[j].c => i = j
  /\ \A w, v \in Worker : worker[w].c = worker[v].c => w = v \/ worker[w].c = None
  /\ \A i \in 1..Len(queue), w \in Worker : queue[i].c # worker[w].c
  /\ \A w \in Worker : worker[w].pc = "idle" <=> worker[w].c = None
  /\ \A c \in Conn : InPool(c) => /\ conn[c].mem \in {"live", "freed"}
                                  /\ input[c] \in {"GET", "POST"}
\* a live connection is in the table until a worker has taken it out, under the
\* handler that goes with where it is,
HandlerFits(f) ==
  /\ sched[f].handler = "read" => interest[f] = "IN" /\ ~InPool(sched[f].context)
  /\ sched[f].handler = "no_operation" => interest[f] = "none"
  /\ sched[f].handler \in Writes => interest[f] # "IN"
Entries ==
  /\ EntryIsOwn
  /\ \A c \in Conn : Live(c) =>
       sched[conn[c].fd] # None \/ \E w \in Worker : worker[w].c = c /\ worker[w].pc = "free"
  /\ \A c \in Conn : Leaked(c) => sched[conn[c].fd] = None
  /\ \A f \in Fd : sched[f] # None => HandlerFits(f)
  /\ \A c \in Conn : Live(c) /\ InPool(c) => interest[conn[c].fd] = "none"
\* and the last steps of a chain find what the ones before them left.
ChainSteps ==
  \A w \in Worker :
    /\ worker[w].pc \in {"set_handler", "ctl_add"} => ~worker[w].err
    /\ worker[w].pc = "ctl_add" /\ Live(worker[w].c) =>
         sched[conn[worker[w].c].fd] # None /\ sched[conn[worker[w].c].fd].handler \in Writes
    /\ worker[w].pc = "free" /\ Live(worker[w].c) => sched[conn[worker[w].c].fd] = None
\* The loop has an event to look at.
LoopHasEvent ==
  loop.pc \in {"dispatch", "accept"} => Len(loop.events) >= 1 /\ loop.left >= 1
IInv == TypeOK /\ LoopHasEvent /\ OwnFds /\ Tasks /\ Entries /\ ChainSteps

\* A connection travels from when it no longer waits for its request.
Travels ==
  \A f \in Fd : sched[f] # None =>
    (sched[f].handler = "read" <=> ~conn[sched[f].context].travelling)

\* With one event for each epoll_wait an event is never stale: its descriptor is
\* still watched when the loop gets to it.
EventIsFresh ==
  loop.pc = "dispatch" /\ Current.fd # Listen => interest[Current.fd] = Current.mask \/
    (Current.mask = "ERR" /\ interest[Current.fd] # "none")
SingleInv == IInv /\ EventIsFresh /\ TravellerIsLive /\ NoFault
               /\ \A w \in Worker : worker[w].then = "idle"

\* The promise of the server to one connection, which this implements.
Stage == [c \in Conn |->
  CASE conn[c].mem \in {"unused", "leaked"} -> "new"
    [] conn[c].mem = "freed"  -> "closed"
    [] Live(c) /\ ~conn[c].travelling -> "reading"
    [] Live(c) /\ conn[c].travelling /\ interest[conn[c].fd] = "none" -> "travelling"
    [] OTHER -> "writing"]
Life == INSTANCE ConnLife WITH stage <- Stage
LifeSpec == Life!Spec
=============================================================================
