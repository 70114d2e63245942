----------------------------- MODULE TaskSched -----------------------------
(***************************************************************************)
(* The thread pool of src/src/core/tgx_task.c: tgx_task_schedule_init,     *)
(* tgx_post_task, the worker loop do_pthread and tgx_task_schedule_destroy.*)
(*                                                                         *)
(* One process per worker thread and one for the thread that owns the pool *)
(* (Main).  Main creates the pool, posts tasks and destroys it; a worker   *)
(* runs tasks, and the completion callback of a task may post more tasks.  *)
(* A program point of C is a value of pc, so every interleaving of the     *)
(* semaphore, the mutex and the unprotected flag keep_alive is a behaviour.*)
(*                                                                         *)
(* Assumed of the environment: allocation and pthread_create succeed, and  *)
(* sem_wait is restarted after a signal (signal(2) of glibc sets           *)
(* SA_RESTART), so that tgx_task_queue_wait never returns an error.        *)
(***************************************************************************)
EXTENDS Integers, Sequences, FiniteSets

CONSTANTS Worker,      \* the threads made by pthread_create
          Main,        \* the thread that owns the pool
          Task,        \* task objects (tgx_task_t)
          LockedTask,  \* the tasks whose task_lock is not NULL
          MaxPosts,    \* bound: calls of tgx_post_task for one task object
          NoTask, NoProc

Proc == Worker \cup {Main}

ASSUME WorkerAssumption == IsFiniteSet(Worker) /\ Worker # {} /\ Main \notin Worker
ASSUME TaskAssumption   == LockedTask \subseteq Task /\ NoTask \notin Task
ASSUME ProcAssumption   == NoProc \notin Proc
ASSUME BoundAssumption  == MaxPosts \in Nat \ {0}

VARIABLES
  pc,          \* program point of every process
  keep_alive,  \* the flag of tgx_task_schedule_t
  sched_lock,  \* holder of the mutex, or NoProc
  resource,    \* value of the semaphore of the queue
  task_queue,  \* the queued tasks, oldest first
  cur,         \* the task a worker is executing
  arg,         \* the task a process is posting
  wakes,       \* sem_posts made by tgx_task_schedule_destroy
  task_lock,   \* tasks whose own mutex is locked
  posts,       \* calls of tgx_post_task per task
  refused,     \* tasks of which a call of tgx_post_task returned -1
  runs,        \* calls of its task_handler
  frees        \* calls of free on the task object

vars == <<pc, keep_alive, sched_lock, resource, task_queue, cur, arg, wakes,
          task_lock, posts, refused, runs, frees>>

PostPoints   == {"post_lock", "post_signal", "post_push"}
WorkerPoints == {"unborn", "test", "wait", "check", "lock", "pop", "run",
                 "complete", "exit_test", "exit_woken", "crashed"} \cup PostPoints
MainPoints   == {"create", "serve", "wake", "join", "drain", "destroyed",
                 "drain_error"} \cup PostPoints

TypeOK ==
  /\ pc \in [Proc -> WorkerPoints \cup MainPoints]
  /\ pc[Main] \in MainPoints
  /\ \A w \in Worker : pc[w] \in WorkerPoints
  /\ keep_alive \in BOOLEAN
  /\ sched_lock \in Proc \cup {NoProc}
  /\ resource \in Nat
  /\ task_queue \in Seq(Task)
  /\ cur \in [Worker -> Task \cup {NoTask}]
  /\ arg \in [Proc -> Task \cup {NoTask}]
  /\ wakes \in Nat
  /\ task_lock \subseteq LockedTask
  /\ posts \in [Task -> Nat]
  /\ refused \subseteq Task
  /\ runs \in [Task -> Nat]
  /\ frees \in [Task -> Nat]

Init ==
  /\ pc = [p \in Proc |-> IF p = Main THEN "create" ELSE "unborn"]
  /\ keep_alive = FALSE
  /\ sched_lock = NoProc
  /\ resource = 0
  /\ task_queue = <<>>
  /\ cur = [w \in Worker |-> NoTask]
  /\ arg = [p \in Proc |-> NoTask]
  /\ wakes = 0
  /\ task_lock = {}
  /\ posts = [t \in Task |-> 0]
  /\ refused = {}
  /\ runs = [t \in Task |-> 0]
  /\ frees = [t \in Task |-> 0]

Goto(p, l) == pc' = [pc EXCEPT ![p] = l]

----------------------------------------------------------------------------
(* The semaphore of the queue and its mutex *)

\* Mutants: a wait that does not block, a signal that is lost.
Mutant_wait_nonblocking == resource' = resource - 1
Mutant_signal_lost == UNCHANGED resource

tgx_task_queue_signal == resource' = resource + 1
tgx_task_queue_wait   == resource > 0 /\ resource' = resource - 1
Lock(p)   == sched_lock = NoProc /\ sched_lock' = p
Unlock(p) == sched_lock = p /\ sched_lock' = NoProc

----------------------------------------------------------------------------
(* tgx_task_schedule_init: the threads are started first (6.), the flag    *)
(* their loop tests is set last (7.)                                       *)

CreateThread(w) ==
  /\ pc[Main] = "create"
  /\ pc[w] = "unborn"
  /\ Goto(w, "test")
  /\ UNCHANGED <<keep_alive, sched_lock, resource, task_queue, cur, arg, wakes,
                 task_lock, posts, refused, runs, frees>>

SetKeepAlive ==
  /\ pc[Main] = "create"
  /\ \A w \in Worker : pc[w] # "unborn"
  /\ keep_alive' = TRUE
  /\ Goto(Main, "serve")
  /\ UNCHANGED <<sched_lock, resource, task_queue, cur, arg, wakes,
                 task_lock, posts, refused, runs, frees>>

----------------------------------------------------------------------------
(* tgx_post_task, called by Main or by a completion callback *)

MayPost(p) == pc[p] = IF p = Main THEN "serve" ELSE "complete"
PostDone(p) == IF p = Main THEN "serve" ELSE "complete"

\* A fresh task, or one that has a task_lock and is not done yet.
Postable(t) == posts[t] = 0 \/ (t \in LockedTask /\ posts[t] < MaxPosts /\ frees[t] = 0)

\* What pthread_mutex_trylock returns: an error number, which is positive.
EBUSY == 16
TryLock(t) == IF t \in task_lock THEN EBUSY ELSE 0

\* The task_lock guard: the call returns -1 when "ret < 0".
LockRefuses(t) == t \in LockedTask /\ TryLock(t) < 0

PostEntry(p, t) ==
  /\ MayPost(p)
  /\ Postable(t)
  /\ posts' = [posts EXCEPT ![t] = @ + 1]
  /\ task_lock' = task_lock \cup ({t} \cap LockedTask)
  /\ UNCHANGED <<keep_alive, sched_lock, resource, task_queue, cur, wakes, runs, frees>>

\* on_post returned -1: the call returns -1 and the task object is leaked.
PostRefused(p, t) ==
  /\ PostEntry(p, t)
  /\ refused' = refused \cup {t}
  /\ UNCHANGED <<pc, arg>>

\* on_post agreed: the task goes on to the queue.
PostAccepted(p, t) ==
  /\ ~LockRefuses(t)
  /\ PostEntry(p, t)
  /\ arg' = [arg EXCEPT ![p] = t]
  /\ Goto(p, "post_lock")
  /\ UNCHANGED refused

PostLock(p) ==
  /\ pc[p] = "post_lock"
  /\ Lock(p)
  /\ Goto(p, "post_signal")
  /\ UNCHANGED <<keep_alive, resource, task_queue, cur, arg, wakes,
                 task_lock, posts, refused, runs, frees>>

\* Mutant: the task is queued without a token.
Mutant_PostSignal_forgotten(p) ==
  /\ pc[p] = "post_signal"
  /\ Goto(p, "post_push")
  /\ UNCHANGED <<keep_alive, sched_lock, resource, task_queue, cur, arg, wakes,
                 task_lock, posts, refused, runs, frees>>

PostSignal(p) ==
  /\ pc[p] = "post_signal"
  /\ tgx_task_queue_signal
  /\ Goto(p, "post_push")
  /\ UNCHANGED <<keep_alive, sched_lock, task_queue, cur, arg, wakes,
                 task_lock, posts, refused, runs, frees>>

PostPush(p) ==
  /\ pc[p] = "post_push"
  /\ task_queue' = Append(task_queue, arg[p])
  /\ arg' = [arg EXCEPT ![p] = NoTask]
  /\ Unlock(p)
  /\ Goto(p, PostDone(p))
  /\ UNCHANGED <<keep_alive, resource, cur, wakes, task_lock, posts, refused,
                 runs, frees>>

----------------------------------------------------------------------------
(* do_pthread *)

\* while (keep_alive)
TestAlive(w) ==
  /\ pc[w] = "test"
  /\ Goto(w, IF keep_alive THEN "wait" ELSE "exit_test")
  /\ UNCHANGED <<keep_alive, sched_lock, resource, task_queue, cur, arg, wakes,
                 task_lock, posts, refused, runs, frees>>

WaitTask(w) ==
  /\ pc[w] = "wait"
  /\ tgx_task_queue_wait
  /\ Goto(w, "check")
  /\ UNCHANGED <<keep_alive, sched_lock, task_queue, cur, arg, wakes,
                 task_lock, posts, refused, runs, frees>>

\* Mutant: the second test of keep_alive is dropped.
Mutant_CheckAlive_dropped(w) ==
  /\ pc[w] = "check"
  /\ Goto(w, "lock")
  /\ UNCHANGED <<keep_alive, sched_lock, resource, task_queue, cur, arg, wakes,
                 task_lock, posts, refused, runs, frees>>

\* if (keep_alive), after the semaphore let the worker through
CheckAlive(w) ==
  /\ pc[w] = "check"
  /\ Goto(w, IF keep_alive THEN "lock" ELSE "exit_woken")
  /\ UNCHANGED <<keep_alive, sched_lock, resource, task_queue, cur, arg, wakes,
                 task_lock, posts, refused, runs, frees>>

LockQueue(w) ==
  /\ pc[w] = "lock"
  /\ Lock(w)
  /\ Goto(w, "pop")
  /\ UNCHANGED <<keep_alive, resource, task_queue, cur, arg, wakes,
                 task_lock, posts, refused, runs, frees>>

\* Mutant: the front is returned but not unlinked.
Mutant_PopFront_keeps(w) ==
  /\ pc[w] = "pop"
  /\ Unlock(w)
  /\ Goto(w, IF task_queue = <<>> THEN "crashed" ELSE "run")
  /\ cur' = [cur EXCEPT ![w] = IF task_queue = <<>> THEN NoTask ELSE Head(task_queue)]
  /\ UNCHANGED <<keep_alive, resource, task_queue, arg, wakes, task_lock, posts,
                 refused, runs, frees>>

\* tgx_task_queue_pop_front returns NULL on an empty queue, and the worker
\* dereferences what it returned.
PopFront(w) ==
  /\ pc[w] = "pop"
  /\ Unlock(w)
  /\ Goto(w, IF task_queue = <<>> THEN "crashed" ELSE "run")
  /\ cur' = [cur EXCEPT ![w] = IF task_queue = <<>> THEN NoTask ELSE Head(task_queue)]
  /\ task_queue' = IF task_queue = <<>> THEN <<>> ELSE Tail(task_queue)
  /\ UNCHANGED <<keep_alive, resource, arg, wakes, task_lock, posts, refused, runs, frees>>

RunTask(w) ==
  /\ pc[w] = "run"
  /\ runs' = [runs EXCEPT ![cur[w]] = @ + 1]
  /\ Goto(w, "complete")
  /\ UNCHANGED <<keep_alive, sched_lock, resource, task_queue, cur, arg, wakes,
                 task_lock, posts, refused, frees>>

\* Mutant: the worker leaves after one task, as if "while" were "if".
Mutant_FreeTask_leaves(w) ==
  /\ pc[w] = "complete"
  /\ frees' = [frees EXCEPT ![cur[w]] = @ + 1]
  /\ cur' = [cur EXCEPT ![w] = NoTask]
  /\ Goto(w, "exit_test")
  /\ UNCHANGED <<keep_alive, sched_lock, resource, task_queue, arg, wakes,
                 task_lock, posts, refused, runs>>

\* on_task_complete returns, and the pool frees the task object.
FreeTask(w) ==
  /\ pc[w] = "complete"
  /\ frees' = [frees EXCEPT ![cur[w]] = @ + 1]
  /\ cur' = [cur EXCEPT ![w] = NoTask]
  /\ Goto(w, "test")
  /\ UNCHANGED <<keep_alive, sched_lock, resource, task_queue, arg, wakes,
                 task_lock, posts, refused, runs>>

----------------------------------------------------------------------------
(* tgx_task_schedule_destroy *)

ClearKeepAlive ==
  /\ pc[Main] = "serve"
  /\ keep_alive' = FALSE
  /\ Goto(Main, "wake")
  /\ UNCHANGED <<sched_lock, resource, task_queue, cur, arg, wakes,
                 task_lock, posts, refused, runs, frees>>

\* Mutant: one wake-up less than there are workers.
Mutant_WakeWorker_short ==
  /\ pc[Main] = "wake"
  /\ tgx_task_queue_signal
  /\ wakes' = wakes + 1
  /\ Goto(Main, IF wakes + 2 >= Cardinality(Worker) THEN "join" ELSE "wake")
  /\ UNCHANGED <<keep_alive, sched_lock, task_queue, cur, arg,
                 task_lock, posts, refused, runs, frees>>

WakeWorker ==
  /\ pc[Main] = "wake"
  /\ tgx_task_queue_signal
  /\ wakes' = wakes + 1
  /\ Goto(Main, IF wakes + 1 = Cardinality(Worker) THEN "join" ELSE "wake")
  /\ UNCHANGED <<keep_alive, sched_lock, task_queue, cur, arg,
                 task_lock, posts, refused, runs, frees>>

Exited(w) == pc[w] \in {"exit_test", "exit_woken"}

JoinWorkers ==
  /\ pc[Main] = "join"
  /\ \A w \in Worker : Exited(w)
  /\ Goto(Main, "drain")
  /\ UNCHANGED <<keep_alive, sched_lock, resource, task_queue, cur, arg, wakes,
                 task_lock, posts, refused, runs, frees>>

\* One round of tgx_task_queue_empty: a task that was never run is freed.
\* When sem_trywait fails the function gives up and leaks the rest.
DrainQueue ==
  /\ pc[Main] = "drain"
  /\ task_queue # <<>>
  /\ task_queue' = Tail(task_queue)
  /\ IF resource > 0
       THEN /\ resource' = resource - 1
            /\ frees' = [frees EXCEPT ![Head(task_queue)] = @ + 1]
            /\ UNCHANGED pc
       ELSE /\ Goto(Main, "drain_error")
            /\ UNCHANGED <<resource, frees>>
  /\ UNCHANGED <<keep_alive, sched_lock, cur, arg, wakes, task_lock, posts, refused, runs>>

DestroyQueue ==
  /\ pc[Main] = "drain"
  /\ task_queue = <<>>
  /\ Goto(Main, "destroyed")
  /\ UNCHANGED <<keep_alive, sched_lock, resource, task_queue, cur, arg, wakes,
                 task_lock, posts, refused, runs, frees>>

\* The pool is gone; nothing is left to do.
Terminated == pc[Main] = "destroyed" /\ UNCHANGED vars

----------------------------------------------------------------------------
PostStep(p)   == PostLock(p) \/ PostSignal(p) \/ PostPush(p)
WorkerStep(w) == \/ TestAlive(w) \/ WaitTask(w) \/ CheckAlive(w) \/ LockQueue(w)
                 \/ PopFront(w) \/ RunTask(w) \/ FreeTask(w)
MainStep      == WakeWorker \/ JoinWorkers \/ DrainQueue \/ DestroyQueue

Next ==
  \/ \E w \in Worker : CreateThread(w) \/ WorkerStep(w)
  \/ SetKeepAlive \/ ClearKeepAlive \/ MainStep \/ Terminated
  \/ \E p \in Proc : \/ PostStep(p)
                     \/ \E t \in Task : PostRefused(p, t) \/ PostAccepted(p, t)

\* Every thread that can run is eventually scheduled, handlers and callbacks
\* return.  Nothing obliges the owner to post a task or to destroy the pool.
Fairness ==
  /\ \A p \in Proc : WF_vars(PostStep(p))
  /\ \A w \in Worker : WF_vars(CreateThread(w)) /\ WF_vars(WorkerStep(w))
  /\ WF_vars(SetKeepAlive)
  /\ WF_vars(MainStep)

Spec == Init /\ [][Next]_vars
FairSpec == Spec /\ Fairness

----------------------------------------------------------------------------
(* Properties *)

\* A worker that got through the semaphore and still saw keep_alive finds a
\* task in the queue: line 36 never dereferences the NULL that pop_front
\* returns for an empty queue, although signal precedes push in tgx_post_task
\* and destroy posts the semaphore without queueing anything.
NoNullTask == \A w \in Worker : pc[w] # "crashed"

\* The semaphore still covers what is queued when destroy empties the queue:
\* sem_trywait in tgx_task_queue_empty never fails, so nothing is leaked.
DrainNeverFails == pc[Main] # "drain_error"

\* Where a task may be: queued, with a worker, with a poster.
QueuedAt(t) == {i \in 1..Len(task_queue) : task_queue[i] = t}
RunBy(t)    == {w \in Worker : cur[w] = t}
PostedBy(t) == {p \in Proc : arg[p] = t}
Count(t) == Cardinality(QueuedAt(t)) + Cardinality(RunBy(t)) + Cardinality(PostedBy(t))

Accepted(t) == posts[t] > 0 /\ t \notin refused

\* A task that was accepted is in exactly one place - on its way into the
\* queue, queued, with one worker - until it is freed, and it is freed once;
\* a task that was refused is in none.
TaskConservation ==
  \A t \in Task \ LockedTask : Count(t) + frees[t] = IF Accepted(t) THEN 1 ELSE 0

\* The semaphore counts the tasks nobody has claimed: its value plus the
\* tokens workers have taken is the length of the queue, plus one while a
\* poster is between signal and push, plus the wake-ups of destroy.
TokenHolders == {w \in Worker : pc[w] \in {"check", "lock", "pop", "exit_woken"}}
Unpushed == IF \E p \in Proc : pc[p] = "post_push" THEN 1 ELSE 0
TokensMatchQueue ==
  resource + Cardinality(TokenHolders) = Len(task_queue) + Unpushed + wakes

\* The strengthening that makes these inductive.  Who is inside the critical
\* section of sched_lock holds it, and a process that posts knows its task ...
LockDiscipline ==
  \A p \in Proc : pc[p] \in {"post_signal", "post_push", "pop"} => sched_lock = p
PosterHasTask ==
  \A p \in Proc : pc[p] \in PostPoints => arg[p] \in Task

\* ... keep_alive, wakes and the workers agree with the phase of the owner ...
Phases ==
  /\ keep_alive <=> pc[Main] \in {"serve"} \cup PostPoints
  /\ pc[Main] \in {"create", "serve"} \cup PostPoints => wakes = 0
  /\ pc[Main] = "create" =>
       \A w \in Worker : pc[w] \in {"unborn", "test", "exit_test"}
  /\ pc[Main] = "wake" => wakes < Cardinality(Worker)
  /\ pc[Main] \in {"join", "drain", "destroyed"} => wakes = Cardinality(Worker)
  /\ pc[Main] \in {"drain", "destroyed"} => \A w \in Worker : Exited(w)

\* ... and the workers that will pop are no more than the queued tasks: they
\* took their tokens while keep_alive was set, when no token was a wake-up.
Claimers == {w \in Worker : pc[w] \in {"lock", "pop"}}
ClaimsAreCovered == Cardinality(Claimers) <= Len(task_queue) + Unpushed

\* A process has a task exactly while it posts it or runs it, and a task that
\* was never posted was never refused.
Holdings ==
  /\ \A p \in Proc : arg[p] # NoTask <=> pc[p] \in PostPoints
  /\ \A w \in Worker : cur[w] # NoTask <=> pc[w] \in {"run", "complete"} \cup PostPoints
  /\ \A t \in Task : posts[t] = 0 => t \notin refused

IInv ==
  /\ TypeOK /\ LockDiscipline /\ PosterHasTask /\ Phases
  /\ TokensMatchQueue /\ ClaimsAreCovered /\ NoNullTask /\ DrainNeverFails
  /\ Holdings /\ TaskConservation

\* Once destroy has started it ends: every worker is woken, leaves its loop
\* and is joined, whatever was queued and whatever callbacks still post.
ShutdownCompletes == pc[Main] = "wake" ~> pc[Main] = "destroyed"

Running(w) == pc[w] \notin {"unborn", "exit_test", "exit_woken", "crashed"}
Queued(t)  == \E i \in 1..Len(task_queue) : task_queue[i] = t

\* As long as one worker came through the start of the pool, a queued task
\* is run, unless the pool is destroyed first.
SurvivingWorkerServes ==
  \A t \in Task : (Queued(t) /\ keep_alive /\ \E w \in Worker : Running(w))
                     ~> (runs[t] > 0 \/ ~keep_alive)

\* What tests/unit_test_task.c waits for: a posted task is run (the test
\* destroys the pool only after every completion callback).
PostedTaskRuns ==
  \A t \in Task : (Queued(t) /\ keep_alive) ~> (runs[t] > 0 \/ ~keep_alive)
=============================================================================
