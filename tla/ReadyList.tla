----------------------------- MODULE ReadyList -----------------------------
(***************************************************************************)
(* Reactor with the order in which epoll reports ready descriptors.        *)
(*                                                                         *)
(* A descriptor joins the end of epoll's ready list when it becomes ready. *)
(* tgx_linux_epoll_poll asks for maxfds events, so every epoll_wait        *)
(* reports the whole list; as the build is level-triggered, all of it is   *)
(* queued again in the same order.  A descriptor leaves the list only when *)
(* epoll_wait finds it no longer ready, or when it is closed or deleted.   *)
(* The loop looks at the first event only (get_next_index), so a           *)
(* descriptor is served when those before it have left the list, and one   *)
(* that stays ready at the head stops all others.                          *)
(***************************************************************************)
EXTENDS Reactor, SequencesExt

VARIABLE ready  \* epoll's ready list

\* A connection that is in epoll without a handler stays ready for ever once
\* its peer has sent, and so does the listening descriptor when no descriptor
\* is left for accept: what is said here is said of a process with neither.
ASSUME WatchedHaveHandlers == AcceptFailures \subseteq {"set_nonblocking", "ctl_add"}
ASSUME FdsSuffice == Cardinality(Conn) <= Cardinality(Fd)

ReadyFds == {e.fd : e \in Ready}
Watched(f) == f = Listen \/ interest[f] # "none"

\* What epoll_wait finds ready, in the order of the list.
Reported == SelectSeq(ready, LAMBDA f : f \in ReadyFds)

\* The list after a step: epoll_wait drops what is no longer ready, closing and
\* EPOLL_CTL_DEL drop the descriptor, and what has become ready comes last.
Requeue(kept) == ready' = kept \o SetToSeq(ReadyFds' \ ToSet(kept))

\* The events are the first MaxReady of the list.  What the bound cuts off comes
\* behind the head, where the loop does not look.
PollInOrder ==
  /\ \A i \in DOMAIN loop'.events : loop'.events[i].fd = Reported[i]
  /\ Len(loop'.events) = Min({MaxReady, Len(Reported)})
  /\ Requeue(Reported)

OrderedNext ==
  /\ Next
  /\ IF loop.pc = "poll" /\ loop'.pc = "dispatch"
       THEN PollInOrder
       ELSE Requeue(SelectSeq(ready, LAMBDA f : Watched(f)'))

OrderedSpec == Init /\ ready = <<>> /\ [][OrderedNext]_<<vars, ready>>

\* The threads are scheduled, a peer takes what it is sent, and a response has
\* an end, so that a write does not run into a full buffer for ever.  Nothing is
\* assumed of the order in which descriptors are served but the list.
Fairness ==
  /\ WF_vars(Running /\ Poll)
  /\ WF_vars(Running /\ Handle)
  /\ \A w \in Worker : WF_vars(Running /\ WorkerStep(w))
  /\ \A c \in Conn : WF_vars(Running /\ Drain(c))
  /\ SF_vars(Running /\ UNCHANGED room
             /\ (HandlerWriteHeader \/ HandlerWriteFile \/ HandlerWriteBuffer))

FairSpec == OrderedSpec /\ Fairness

----------------------------------------------------------------------------
(* Properties *)

\* A connection whose request was taken on is answered and closed, by its
\* handlers (tgx_connection.c:204-460) or by its tasks, although other
\* descriptors are ready before it each time it comes back to epoll.  Said of a
\* loop that looks at the first event of an epoll_wait once (MaxReady = 1), of a
\* process in which every watched descriptor has a handler and that has
\* descriptors for all its peers.
RequestEnds == \A c \in Conn : (Live(c) /\ conn[c].travelling) ~> conn[c].mem = "freed"
=============================================================================
