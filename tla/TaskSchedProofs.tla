-------------------------- MODULE TaskSchedProofs --------------------------
(***************************************************************************)
(* Proofs about the thread pool, for every finite set of worker threads    *)
(* and every set of tasks.                                                 *)
(***************************************************************************)
EXTENDS TaskSched, FiniteSetTheorems, TLAPS

\* Counting one more for a task keeps a table of counters well-typed.
LEMMA BumpType ==
  ASSUME NEW f \in [Task -> Nat], NEW x
  PROVE  [f EXCEPT ![x] = @ + 1] \in [Task -> Nat]
<1>1. CASE x \in Task
  BY <1>1
<1>2. CASE x \notin Task
  BY <1>2
<1>3. QED
  BY <1>1, <1>2

\* Types: a step of the pool keeps every variable in its domain, and a
\* poster keeps the task it is posting.
LEMMA TypeStep ==
  ASSUME TypeOK, PosterHasTask, [Next]_vars
  PROVE  TypeOK' /\ PosterHasTask'
<1> USE DEF TypeOK, PosterHasTask, Proc, Goto, PostPoints, WorkerPoints, MainPoints
<1> USE WorkerAssumption, TaskAssumption, ProcAssumption
<1>1. ASSUME NEW w \in Worker, CreateThread(w) PROVE TypeOK' /\ PosterHasTask'
  BY <1>1 DEF CreateThread
<1>2. ASSUME NEW w \in Worker, TestAlive(w) PROVE TypeOK' /\ PosterHasTask'
  BY <1>2 DEF TestAlive
<1>3. ASSUME NEW w \in Worker, WaitTask(w) PROVE TypeOK' /\ PosterHasTask'
  BY <1>3 DEF WaitTask, tgx_task_queue_wait
<1>4. ASSUME NEW w \in Worker, CheckAlive(w) PROVE TypeOK' /\ PosterHasTask'
  BY <1>4 DEF CheckAlive
<1>5. ASSUME NEW w \in Worker, LockQueue(w) PROVE TypeOK' /\ PosterHasTask'
  BY <1>5 DEF LockQueue, Lock
<1>6. ASSUME NEW w \in Worker, PopFront(w) PROVE TypeOK' /\ PosterHasTask'
  BY <1>6 DEF PopFront, Unlock
<1>7. ASSUME NEW w \in Worker, RunTask(w) PROVE TypeOK' /\ PosterHasTask'
  <2>1. runs' \in [Task -> Nat]
    BY <1>7, BumpType DEF RunTask
  <2>2. QED
    BY <1>7, <2>1 DEF RunTask
<1>8. ASSUME NEW w \in Worker, FreeTask(w) PROVE TypeOK' /\ PosterHasTask'
  <2>1. frees' \in [Task -> Nat]
    BY <1>8, BumpType DEF FreeTask
  <2>2. QED
    BY <1>8, <2>1 DEF FreeTask
<1>9. CASE SetKeepAlive
  BY <1>9 DEF SetKeepAlive
<1>10. CASE ClearKeepAlive
  BY <1>10 DEF ClearKeepAlive
<1>11. CASE WakeWorker
  BY <1>11 DEF WakeWorker, tgx_task_queue_signal
<1>12. CASE JoinWorkers
  BY <1>12 DEF JoinWorkers
<1>13. CASE DrainQueue
  <2>1. frees' \in [Task -> Nat]
    <3>1. [frees EXCEPT ![Head(task_queue)] = @ + 1] \in [Task -> Nat]
      BY BumpType
    <3>2. QED
      BY <1>13, <3>1 DEF DrainQueue
  <2>2. task_queue' \in Seq(Task) /\ resource' \in Nat
    BY <1>13 DEF DrainQueue
  <2>3. pc' \in [Proc -> WorkerPoints \cup MainPoints] /\ pc'[Main] \in MainPoints
    BY <1>13 DEF DrainQueue
  <2>4. \A p \in Worker : pc'[p] = pc[p]
    BY <1>13 DEF DrainQueue
  <2>5. TypeOK'
    BY <1>13, <2>1, <2>2, <2>3, <2>4 DEF DrainQueue
  <2>6. PosterHasTask'
    BY <1>13 DEF DrainQueue
  <2>7. QED
    BY <2>5, <2>6
<1>14. CASE DestroyQueue
  BY <1>14 DEF DestroyQueue
<1>15. ASSUME NEW p \in Proc, PostLock(p) PROVE TypeOK' /\ PosterHasTask'
  BY <1>15 DEF PostLock, Lock
<1>16. ASSUME NEW p \in Proc, PostSignal(p) PROVE TypeOK' /\ PosterHasTask'
  BY <1>16 DEF PostSignal, tgx_task_queue_signal
<1>17. ASSUME NEW p \in Proc, PostPush(p) PROVE TypeOK' /\ PosterHasTask'
  BY <1>17 DEF PostPush, Unlock, PostDone
<1>18. ASSUME NEW p \in Proc, NEW t \in Task, PostRefused(p, t)
       PROVE TypeOK' /\ PosterHasTask'
  BY <1>18 DEF PostRefused, PostEntry
<1>19. ASSUME NEW p \in Proc, NEW t \in Task, PostAccepted(p, t)
       PROVE TypeOK' /\ PosterHasTask'
  BY <1>19 DEF PostAccepted, PostEntry, MayPost
<1>20. CASE UNCHANGED vars
  BY <1>20 DEF vars
<1>21. QED
  BY <1>1, <1>2, <1>3, <1>4, <1>5, <1>6, <1>7, <1>8, <1>9, <1>10, <1>11, <1>12,
     <1>13, <1>14, <1>15, <1>16, <1>17, <1>18, <1>19, <1>20
     DEF Next, WorkerStep, MainStep, PostStep, Terminated

\* The parts of Phases that count the workers, with their number abstracted.
WorkerCount == Cardinality(Worker)
PhasesFor(n) ==
  /\ keep_alive <=> pc[Main] \in {"serve"} \cup PostPoints
  /\ pc[Main] \in {"create", "serve"} \cup PostPoints => wakes = 0
  /\ pc[Main] = "create" =>
       \A w \in Worker : pc[w] \in {"unborn", "test", "exit_test"}
  /\ pc[Main] = "wake" => wakes < n
  /\ pc[Main] \in {"join", "drain", "destroyed"} => wakes = n
  /\ pc[Main] \in {"drain", "destroyed"} => \A w \in Worker : Exited(w)

\* Control: the mutex is held by whoever is in its critical section, and the
\* flag, the wake-ups and the workers agree with the owner's phase.
LEMMA ControlStep ==
  ASSUME TypeOK, LockDiscipline, Phases, [Next]_vars
  PROVE  LockDiscipline' /\ Phases'
<1> DEFINE n == WorkerCount
<1> DEFINE Good == LockDiscipline /\ PhasesFor(n)
<1>a. n \in Nat /\ n # 0
  BY WorkerAssumption, FS_CardinalityType, FS_EmptySet DEF WorkerCount
<1>b. Good
  BY DEF Phases, PhasesFor, WorkerCount
<1>c. SUFFICES Good'
  BY DEF Phases, PhasesFor, WorkerCount
<1>d. WakeWorker => pc' = [pc EXCEPT ![Main] = IF wakes + 1 = n THEN "join" ELSE "wake"]
  BY DEF WakeWorker, Goto, WorkerCount
<1> HIDE DEF n
<1> USE <1>a, <1>b, WorkerAssumption, ProcAssumption
<1> USE DEF TypeOK, LockDiscipline, PhasesFor, Exited, Proc, Goto,
            PostPoints, WorkerPoints, MainPoints
<1>1. ASSUME NEW w \in Worker, CreateThread(w) PROVE Good'
  BY <1>1 DEF CreateThread
<1>2. ASSUME NEW w \in Worker, TestAlive(w) PROVE Good'
  BY <1>2 DEF TestAlive
<1>3. ASSUME NEW w \in Worker, WaitTask(w) PROVE Good'
  BY <1>3 DEF WaitTask, tgx_task_queue_wait
<1>4. ASSUME NEW w \in Worker, CheckAlive(w) PROVE Good'
  BY <1>4 DEF CheckAlive
<1>5. ASSUME NEW w \in Worker, LockQueue(w) PROVE Good'
  BY <1>5 DEF LockQueue, Lock
<1>6. ASSUME NEW w \in Worker, PopFront(w) PROVE Good'
  BY <1>6 DEF PopFront, Unlock
<1>7. ASSUME NEW w \in Worker, RunTask(w) PROVE Good'
  BY <1>7 DEF RunTask
<1>8. ASSUME NEW w \in Worker, FreeTask(w) PROVE Good'
  BY <1>8 DEF FreeTask
<1>9. CASE SetKeepAlive
  BY <1>9 DEF SetKeepAlive
<1>10. CASE ClearKeepAlive
  BY <1>10 DEF ClearKeepAlive
<1>11. CASE WakeWorker
  BY <1>11, <1>d DEF WakeWorker
<1>12. CASE JoinWorkers
  BY <1>12 DEF JoinWorkers
<1>13. CASE DrainQueue
  BY <1>13 DEF DrainQueue
<1>14. CASE DestroyQueue
  BY <1>14 DEF DestroyQueue
<1>15. ASSUME NEW p \in Proc, PostLock(p) PROVE Good'
  BY <1>15 DEF PostLock, Lock
<1>16. ASSUME NEW p \in Proc, PostSignal(p) PROVE Good'
  BY <1>16 DEF PostSignal
<1>17. ASSUME NEW p \in Proc, PostPush(p) PROVE Good'
  BY <1>17 DEF PostPush, Unlock, PostDone
<1>18. ASSUME NEW p \in Proc, NEW t \in Task, PostRefused(p, t) PROVE Good'
  BY <1>18 DEF PostRefused, PostEntry
<1>19. ASSUME NEW p \in Proc, NEW t \in Task, PostAccepted(p, t) PROVE Good'
  BY <1>19 DEF PostAccepted, PostEntry, MayPost
<1>20. CASE UNCHANGED vars
  BY <1>20 DEF vars
<1>21. QED
  BY <1>1, <1>2, <1>3, <1>4, <1>5, <1>6, <1>7, <1>8, <1>9, <1>10, <1>11, <1>12,
     <1>13, <1>14, <1>15, <1>16, <1>17, <1>18, <1>19, <1>20
     DEF Next, WorkerStep, MainStep, PostStep, Terminated

\* Only the program point of p decides who holds a token, who will pop and
\* whether a signalled task is not pushed yet.
TokenPoints == {"check", "lock", "pop", "exit_woken"}
ClaimPoints == {"lock", "pop"}

\* Who holds a token changes only with a worker that enters or leaves one of
\* those points ...
LEMMA TokenHoldersSame ==
  ASSUME TypeOK, NEW p \in Proc, NEW l, pc' = [pc EXCEPT ![p] = l],
         p = Main \/ (pc[p] \in TokenPoints <=> l \in TokenPoints)
  PROVE  TokenHolders' = TokenHolders
BY WorkerAssumption DEF TypeOK, Proc, TokenHolders, TokenPoints

\* ... and so does who is about to pop ...
LEMMA ClaimersSame ==
  ASSUME TypeOK, NEW p \in Proc, NEW l, pc' = [pc EXCEPT ![p] = l],
         p = Main \/ (pc[p] \in ClaimPoints <=> l \in ClaimPoints)
  PROVE  Claimers' = Claimers
BY WorkerAssumption DEF TypeOK, Proc, Claimers, ClaimPoints

\* ... and whether a poster is between signal and push.
LEMMA UnpushedSame ==
  ASSUME TypeOK, NEW p \in Proc, NEW l, pc' = [pc EXCEPT ![p] = l],
         pc[p] # "post_push", l # "post_push"
  PROVE  Unpushed' = Unpushed
<1>1. (\E q \in Proc : pc'[q] = "post_push") <=> (\E q \in Proc : pc[q] = "post_push")
  BY DEF TypeOK
<1>2. QED
  BY <1>1 DEF Unpushed

\* The sets the argument counts are finite.
LEMMA Counts ==
  /\ IsFiniteSet(TokenHolders) /\ Cardinality(TokenHolders) \in Nat
  /\ IsFiniteSet(Claimers) /\ Cardinality(Claimers) \in Nat
  /\ Cardinality(Claimers) <= Cardinality(TokenHolders)
  /\ Cardinality(TokenHolders) <= Cardinality(Worker)
  /\ Cardinality(Worker) \in Nat
  /\ Unpushed \in {0, 1}
<1>1. TokenHolders \subseteq Worker /\ Claimers \subseteq TokenHolders
  BY DEF TokenHolders, Claimers
<1>2. IsFiniteSet(TokenHolders) /\ Cardinality(TokenHolders) <= Cardinality(Worker)
  BY <1>1, WorkerAssumption, FS_Subset
<1>3. IsFiniteSet(Claimers) /\ Cardinality(Claimers) <= Cardinality(TokenHolders)
  BY <1>1, <1>2, FS_Subset
<1>4. QED
  BY <1>2, <1>3, WorkerAssumption, FS_CardinalityType DEF Unpushed

\* A step that moves one process between points that mean the same to the
\* semaphore keeps the balance.
LEMMA QuietStep ==
  ASSUME TypeOK, TokensMatchQueue, ClaimsAreCovered,
         NEW p \in Proc, NEW l, pc' = [pc EXCEPT ![p] = l],
         p = Main \/ (pc[p] \in TokenPoints <=> l \in TokenPoints),
         p = Main \/ (pc[p] \in ClaimPoints <=> l \in ClaimPoints),
         pc[p] # "post_push", l # "post_push",
         UNCHANGED <<resource, wakes, task_queue>>
  PROVE  TokensMatchQueue' /\ ClaimsAreCovered'
<1>1. TokenHolders' = TokenHolders /\ Claimers' = Claimers /\ Unpushed' = Unpushed
  BY TokenHoldersSame, ClaimersSame, UnpushedSame
<1>2. QED
  BY <1>1 DEF TokensMatchQueue, ClaimsAreCovered

\* At most one process is between signal and push.
LEMMA OnePusher ==
  ASSUME TypeOK, LockDiscipline, NEW p \in Proc, sched_lock = p
  PROVE  /\ pc[p] # "post_push" => Unpushed = 0
         /\ pc[p] = "post_push" => Unpushed = 1
         /\ \A q \in Proc : pc[q] = "post_push" => q = p
BY DEF LockDiscipline, Unpushed

\* The balance: every step keeps the semaphore in step with the queue, keeps
\* enough tasks for the workers that are about to pop, and so never pops an
\* empty queue and never runs out of tokens while the queue is emptied.
LEMMA BalanceStep ==
  ASSUME IInv, TypeOK', [Next]_vars
  PROVE  TokensMatchQueue' /\ ClaimsAreCovered' /\ NoNullTask' /\ DrainNeverFails'
<1> DEFINE Balanced == TokensMatchQueue /\ ClaimsAreCovered
           Sound    == NoNullTask /\ DrainNeverFails
<1>i. /\ TypeOK /\ LockDiscipline /\ PosterHasTask /\ Phases
      /\ TokensMatchQueue /\ ClaimsAreCovered /\ NoNullTask /\ DrainNeverFails
  BY DEF IInv
<1>m. Main \in Proc /\ Worker \subseteq Proc
  BY DEF Proc
<1>q. Len(task_queue) \in Nat /\ resource \in Nat /\ wakes \in Nat
      /\ resource' \in Nat /\ wakes' \in Nat
  BY <1>i DEF TypeOK
<1>1. ASSUME NEW w \in Worker, CreateThread(w) PROVE Balanced' /\ Sound'
  <2>1. Balanced'
    BY <1>i, <1>1, <1>m, <1>q, QuietStep DEF CreateThread, Goto, TokenPoints, ClaimPoints
  <2>2. Sound'
    BY <1>i, <1>1, <1>m DEF CreateThread, Goto, NoNullTask, DrainNeverFails, TypeOK
  <2>3. QED
    BY <2>1, <2>2
<1>2. ASSUME NEW w \in Worker, TestAlive(w) PROVE Balanced' /\ Sound'
  <2>1. Balanced'
    BY <1>i, <1>2, <1>m, <1>q, QuietStep DEF TestAlive, Goto, TokenPoints, ClaimPoints
  <2>2. Sound'
    BY <1>i, <1>2, <1>m DEF TestAlive, Goto, NoNullTask, DrainNeverFails, TypeOK
  <2>3. QED
    BY <2>1, <2>2
<1>3. ASSUME NEW w \in Worker, WaitTask(w) PROVE Balanced' /\ Sound'
  <2>1. pc' = [pc EXCEPT ![w] = "check"] /\ pc[w] = "wait"
    BY <1>3 DEF WaitTask, Goto
  <2>2. Claimers' = Claimers /\ Unpushed' = Unpushed
    BY <1>i, <2>1, <1>m, ClaimersSame, UnpushedSame DEF ClaimPoints
  <2>3. TokenHolders' = TokenHolders \cup {w} /\ w \notin TokenHolders
    BY <2>1, <1>m DEF TokenHolders, TypeOK
  <2>4. Cardinality(TokenHolders') = Cardinality(TokenHolders) + 1
    BY <2>3, Counts, FS_AddElement
  <2>5. resource' = resource - 1 /\ wakes' = wakes /\ task_queue' = task_queue
    BY <1>3 DEF WaitTask, tgx_task_queue_wait
  <2>6. Balanced'
    BY <1>i, <2>2, <2>4, <2>5, <1>q, Counts DEF TokensMatchQueue, ClaimsAreCovered
  <2>7. Sound'
    BY <1>i, <2>1, <1>m, WorkerAssumption DEF NoNullTask, DrainNeverFails, TypeOK
  <2>8. QED
    BY <2>6, <2>7
<1>4. ASSUME NEW w \in Worker, CheckAlive(w) PROVE Balanced' /\ Sound'
  <2>1. /\ pc[w] = "check"
        /\ pc' = [pc EXCEPT ![w] = IF keep_alive THEN "lock" ELSE "exit_woken"]
        /\ UNCHANGED <<resource, wakes, task_queue, keep_alive>>
    BY <1>4 DEF CheckAlive, Goto
  <2>2. TokenHolders' = TokenHolders /\ Unpushed' = Unpushed
    BY <1>i, <2>1, <1>m, TokenHoldersSame, UnpushedSame DEF TokenPoints
  <2>3. TokensMatchQueue'
    BY <1>i, <2>1, <2>2 DEF TokensMatchQueue
  <2>4. ASSUME keep_alive PROVE ClaimsAreCovered'
    <3>1. wakes = 0
      BY <1>i, <2>4 DEF Phases
    <3>2. Cardinality(Claimers') <= Cardinality(TokenHolders')
      <4>1. Claimers' \subseteq TokenHolders' /\ IsFiniteSet(TokenHolders')
        BY <2>2, Counts DEF Claimers, TokenHolders
      <4>2. QED
        BY <4>1, FS_Subset
    <3>3. Cardinality(TokenHolders') <= Len(task_queue) + Unpushed
      BY <1>i, <2>2, <3>1, <1>q, Counts DEF TokensMatchQueue
    <3>4. Cardinality(Claimers') \in Nat
      <4>1. Claimers' \subseteq Worker
        BY DEF Claimers
      <4>2. QED
        BY <4>1, WorkerAssumption, FS_Subset, FS_CardinalityType
    <3>5. QED
      BY <2>1, <2>2, <3>2, <3>3, <3>4, <1>q, Counts DEF ClaimsAreCovered
  <2>5. ASSUME ~keep_alive PROVE ClaimsAreCovered'
    <3>1. Claimers' = Claimers
      BY <1>i, <2>1, <2>5, <1>m, ClaimersSame DEF ClaimPoints
    <3>2. QED
      BY <1>i, <2>1, <2>2, <3>1 DEF ClaimsAreCovered
  <2>6. ClaimsAreCovered'
    BY <2>4, <2>5
  <2>7. Sound'
    BY <1>i, <2>1, <1>m, WorkerAssumption DEF NoNullTask, DrainNeverFails, TypeOK
  <2>8. QED
    BY <2>3, <2>6, <2>7
<1>5. ASSUME NEW w \in Worker, LockQueue(w) PROVE Balanced' /\ Sound'
  <2>1. Balanced'
    BY <1>i, <1>5, <1>m, <1>q, QuietStep DEF LockQueue, Goto, TokenPoints, ClaimPoints
  <2>2. Sound'
    BY <1>i, <1>5, <1>m, WorkerAssumption DEF LockQueue, Goto, NoNullTask, DrainNeverFails, TypeOK
  <2>3. QED
    BY <2>1, <2>2
<1>6. ASSUME NEW w \in Worker, PopFront(w) PROVE Balanced' /\ Sound'
  <2>1. pc[w] = "pop" /\ sched_lock = w
    BY <1>6, <1>m DEF PopFront, Unlock
  <2>2. w \in Claimers /\ w \in TokenHolders
    BY <2>1 DEF Claimers, TokenHolders
  <2>3. /\ Cardinality(Claimers \ {w}) = Cardinality(Claimers) - 1
        /\ Cardinality(TokenHolders \ {w}) = Cardinality(TokenHolders) - 1
    BY <2>2, Counts, FS_RemoveElement
  <2>4. Cardinality(Claimers \ {w}) \in Nat
    BY Counts, FS_RemoveElement, FS_CardinalityType, <2>2
  <2>5. Unpushed = 0
    BY <1>i, <2>1, <1>m, OnePusher
  <2>6. task_queue # <<>>
    <3>1. Len(task_queue) >= 1
      BY <1>i, <2>3, <2>4, <2>5, <1>q, Counts DEF ClaimsAreCovered
    <3>2. QED
      BY <3>1
  <2>7. /\ pc' = [pc EXCEPT ![w] = "run"]
        /\ Len(task_queue') = Len(task_queue) - 1
        /\ UNCHANGED <<resource, wakes>>
    BY <1>6, <2>6 DEF PopFront, Goto, TypeOK
  <2>8. Claimers' = Claimers \ {w} /\ TokenHolders' = TokenHolders \ {w}
    BY <2>7, <1>m DEF Claimers, TokenHolders, TypeOK
  <2>9. Unpushed' = Unpushed
    BY <1>i, <2>1, <2>7, <1>m, UnpushedSame
  <2>10. Balanced'
    <3>1. TokensMatchQueue'
      <4>1. resource + Cardinality(TokenHolders) = Len(task_queue) + Unpushed + wakes
        BY <1>i DEF TokensMatchQueue
      <4>2. resource + (Cardinality(TokenHolders) - 1) = (Len(task_queue) - 1) + Unpushed + wakes
        BY <4>1, <1>q, Counts
      <4>3. QED
        BY <4>2, <2>3, <2>7, <2>8, <2>9 DEF TokensMatchQueue
    <3>2. ClaimsAreCovered'
      BY <1>i, <2>3, <2>7, <2>8, <2>9, <1>q, Counts DEF ClaimsAreCovered
    <3>3. QED
      BY <3>1, <3>2
  <2>11. Sound'
    BY <1>i, <2>7, <1>m, WorkerAssumption DEF NoNullTask, DrainNeverFails, TypeOK
  <2>12. QED
    BY <2>10, <2>11
<1>7. ASSUME NEW w \in Worker, RunTask(w) PROVE Balanced' /\ Sound'
  <2>1. Balanced'
    BY <1>i, <1>7, <1>m, <1>q, QuietStep DEF RunTask, Goto, TokenPoints, ClaimPoints
  <2>2. Sound'
    BY <1>i, <1>7, <1>m, WorkerAssumption DEF RunTask, Goto, NoNullTask, DrainNeverFails, TypeOK
  <2>3. QED
    BY <2>1, <2>2
<1>8. ASSUME NEW w \in Worker, FreeTask(w) PROVE Balanced' /\ Sound'
  <2>1. Balanced'
    BY <1>i, <1>8, <1>m, <1>q, QuietStep DEF FreeTask, Goto, TokenPoints, ClaimPoints
  <2>2. Sound'
    BY <1>i, <1>8, <1>m, WorkerAssumption DEF FreeTask, Goto, NoNullTask, DrainNeverFails, TypeOK
  <2>3. QED
    BY <2>1, <2>2
<1>9. CASE SetKeepAlive
  <2>1. Balanced'
    BY <1>i, <1>9, <1>m, <1>q, QuietStep DEF SetKeepAlive, Goto, TokenPoints, ClaimPoints
  <2>2. Sound'
    BY <1>i, <1>9, <1>m, WorkerAssumption DEF SetKeepAlive, Goto, NoNullTask, DrainNeverFails, TypeOK
  <2>3. QED
    BY <2>1, <2>2
<1>10. CASE ClearKeepAlive
  <2>1. Balanced'
    BY <1>i, <1>10, <1>m, <1>q, QuietStep DEF ClearKeepAlive, Goto, TokenPoints, ClaimPoints
  <2>2. Sound'
    BY <1>i, <1>10, <1>m, WorkerAssumption DEF ClearKeepAlive, Goto, NoNullTask, DrainNeverFails, TypeOK
  <2>3. QED
    BY <2>1, <2>2
<1>11. CASE WakeWorker
  <2>1. resource' = resource + 1 /\ wakes' = wakes + 1 /\ task_queue' = task_queue
    BY <1>11, <1>q DEF WakeWorker, tgx_task_queue_signal
  <2>2. PICK l \in {"join", "wake"} : pc' = [pc EXCEPT ![Main] = l]
    BY <1>11 DEF WakeWorker, Goto
  <2>3. Balanced'
    <3>1. TokenHolders' = TokenHolders /\ Claimers' = Claimers /\ Unpushed' = Unpushed
      BY <1>i, <2>2, <1>m, <1>11, TokenHoldersSame, ClaimersSame, UnpushedSame DEF WakeWorker
    <3>2. TokensMatchQueue'
      BY <1>i, <2>1, <3>1, <1>q, Counts DEF TokensMatchQueue
    <3>3. ClaimsAreCovered'
      BY <1>i, <2>1, <3>1 DEF ClaimsAreCovered
    <3>4. QED
      BY <3>2, <3>3
  <2>4. Sound'
    BY <1>i, <2>2, <1>m, WorkerAssumption DEF NoNullTask, DrainNeverFails, TypeOK
  <2>5. QED
    BY <2>3, <2>4
<1>12. CASE JoinWorkers
  <2>1. Balanced'
    BY <1>i, <1>12, <1>m, <1>q, QuietStep DEF JoinWorkers, Goto, TokenPoints, ClaimPoints
  <2>2. Sound'
    BY <1>i, <1>12, <1>m, WorkerAssumption DEF JoinWorkers, Goto, NoNullTask, DrainNeverFails, TypeOK
  <2>3. QED
    BY <2>1, <2>2
<1>13. CASE DrainQueue
  <2>1. /\ pc[Main] = "drain" /\ task_queue # <<>>
        /\ Len(task_queue') = Len(task_queue) - 1
        /\ wakes' = wakes
    BY <1>13 DEF DrainQueue, TypeOK
  <2>2. wakes = Cardinality(Worker) /\ \A w \in Worker : Exited(w)
    BY <1>i, <2>1 DEF Phases
  <2>3. Unpushed = 0
    BY <2>1, <2>2 DEF Unpushed, Exited, Proc
  <2>4. Len(task_queue) >= 1
    BY <2>1, <1>q
  <2>5. resource > 0
    BY <1>i, <2>2, <2>3, <2>4, <1>q, Counts DEF TokensMatchQueue
  <2>6. resource' = resource - 1 /\ pc' = pc
    BY <1>13, <2>5 DEF DrainQueue
  <2>7. Claimers = {}
    BY <2>2 DEF Claimers, Exited
  <2>8. TokenHolders' = TokenHolders /\ Claimers' = {} /\ Unpushed' = Unpushed
    BY <2>6, <2>7 DEF TokenHolders, Claimers, Unpushed
  <2>9. TokensMatchQueue'
    BY <1>i, <2>1, <2>6, <2>8, <1>q, Counts DEF TokensMatchQueue
  <2>10. ClaimsAreCovered'
    <3>1. Cardinality(Claimers') = 0
      BY <2>8, FS_EmptySet
    <3>2. Len(task_queue') \in Nat /\ Unpushed' \in {0, 1}
      BY <2>8, Counts DEF TypeOK
    <3>3. QED
      BY <3>1, <3>2 DEF ClaimsAreCovered
  <2>11. Sound'
    BY <1>i, <2>6 DEF NoNullTask, DrainNeverFails
  <2>12. QED
    BY <2>9, <2>10, <2>11
<1>14. CASE DestroyQueue
  <2>1. Balanced'
    BY <1>i, <1>14, <1>m, <1>q, QuietStep DEF DestroyQueue, Goto, TokenPoints, ClaimPoints
  <2>2. Sound'
    BY <1>i, <1>14, <1>m, WorkerAssumption DEF DestroyQueue, Goto, NoNullTask, DrainNeverFails, TypeOK
  <2>3. QED
    BY <2>1, <2>2
<1>15. ASSUME NEW p \in Proc, PostLock(p) PROVE Balanced' /\ Sound'
  <2>1. Balanced'
    BY <1>i, <1>15, <1>m, <1>q, QuietStep DEF PostLock, Goto, TokenPoints, ClaimPoints
  <2>2. Sound'
    BY <1>i, <1>15, <1>m, WorkerAssumption DEF PostLock, Goto, NoNullTask, DrainNeverFails, TypeOK
  <2>3. QED
    BY <2>1, <2>2
<1>16. ASSUME NEW p \in Proc, PostSignal(p) PROVE Balanced' /\ Sound'
  <2>1. /\ pc[p] = "post_signal" /\ pc' = [pc EXCEPT ![p] = "post_push"]
        /\ resource' = resource + 1 /\ UNCHANGED <<wakes, task_queue>>
    BY <1>16 DEF PostSignal, tgx_task_queue_signal, Goto
  <2>2. sched_lock = p
    BY <1>i, <2>1 DEF LockDiscipline
  <2>3. Unpushed = 0
    BY <1>i, <2>1, <2>2, OnePusher
  <2>4. Unpushed' = 1
    <3>1. pc'[p] = "post_push"
      BY <2>1 DEF TypeOK
    <3>2. QED
      BY <3>1 DEF Unpushed
  <2>5. TokenHolders' = TokenHolders /\ Claimers' = Claimers
    BY <1>i, <2>1, TokenHoldersSame, ClaimersSame DEF TokenPoints, ClaimPoints
  <2>6. Balanced'
    BY <1>i, <2>1, <2>3, <2>4, <2>5, <1>q, Counts DEF TokensMatchQueue, ClaimsAreCovered
  <2>7. Sound'
    BY <1>i, <2>1, <1>m, WorkerAssumption DEF NoNullTask, DrainNeverFails, TypeOK
  <2>8. QED
    BY <2>6, <2>7
<1>17. ASSUME NEW p \in Proc, PostPush(p) PROVE Balanced' /\ Sound'
  <2>1. /\ pc[p] = "post_push" /\ pc' = [pc EXCEPT ![p] = PostDone(p)]
        /\ UNCHANGED <<wakes, resource>>
    BY <1>17 DEF PostPush, Goto
  <2>2. sched_lock = p
    BY <1>i, <2>1 DEF LockDiscipline
  <2>3. Unpushed = 1 /\ \A q \in Proc : pc[q] = "post_push" => q = p
    BY <1>i, <2>1, <2>2, OnePusher
  <2>4. Unpushed' = 0
    <3>1. \A q \in Proc : pc'[q] # "post_push"
      BY <2>1, <2>3 DEF TypeOK, PostDone
    <3>2. QED
      BY <3>1 DEF Unpushed
  <2>5. TokenHolders' = TokenHolders /\ Claimers' = Claimers
    BY <1>i, <2>1, TokenHoldersSame, ClaimersSame DEF TokenPoints, ClaimPoints, PostDone
  <2>6. Len(task_queue') = Len(task_queue) + 1
    <3>1. arg[p] \in Task
      BY <1>i, <2>1 DEF PosterHasTask, PostPoints
    <3>2. QED
      BY <1>17, <3>1 DEF PostPush, TypeOK
  <2>7. Balanced'
    BY <1>i, <2>1, <2>3, <2>4, <2>5, <2>6, <1>q, Counts DEF TokensMatchQueue, ClaimsAreCovered
  <2>8. Sound'
    BY <1>i, <2>1, <1>m, WorkerAssumption DEF PostDone, NoNullTask, DrainNeverFails, TypeOK
  <2>9. QED
    BY <2>7, <2>8
<1>18. ASSUME NEW p \in Proc, NEW t \in Task, PostRefused(p, t) PROVE Balanced' /\ Sound'
  BY <1>i, <1>18 DEF PostRefused, PostEntry, TokensMatchQueue, ClaimsAreCovered,
     TokenHolders, Claimers, Unpushed, NoNullTask, DrainNeverFails
<1>19. ASSUME NEW p \in Proc, NEW t \in Task, PostAccepted(p, t) PROVE Balanced' /\ Sound'
  <2>1. /\ pc[p] \in {"serve", "complete"} /\ pc' = [pc EXCEPT ![p] = "post_lock"]
        /\ UNCHANGED <<wakes, resource, task_queue>>
    BY <1>19 DEF PostAccepted, PostEntry, MayPost, Goto
  <2>2. Balanced'
    BY <1>i, <2>1, <1>q, QuietStep DEF TokenPoints, ClaimPoints
  <2>3. Sound'
    BY <1>i, <2>1, <1>m, WorkerAssumption DEF NoNullTask, DrainNeverFails, TypeOK
  <2>4. QED
    BY <2>2, <2>3
<1>20. CASE UNCHANGED vars
  BY <1>i, <1>20 DEF vars, TokensMatchQueue, ClaimsAreCovered, TokenHolders, Claimers,
     Unpushed, NoNullTask, DrainNeverFails
<1>21. QED
  BY <1>1, <1>2, <1>3, <1>4, <1>5, <1>6, <1>7, <1>8, <1>9, <1>10, <1>11, <1>12,
     <1>13, <1>14, <1>15, <1>16, <1>17, <1>18, <1>19, <1>20
     DEF Next, WorkerStep, MainStep, PostStep, Terminated

\* Those that hold a task, and what one of them adds to their number.
Holders(S, f, t) == {r \in S : f[r] = t}
One(a, t) == IF a = t THEN 1 ELSE 0

\* A process that puts one task down and takes up another changes the number of
\* holders of each by one.
LEMMA HolderMoves ==
  ASSUME NEW S, IsFiniteSet(S), NEW f, NEW g, NEW s \in S, NEW t, \A r \in S \ {s} : g[r] = f[r]
  PROVE  Cardinality(Holders(S, g, t)) + One(f[s], t) = Cardinality(Holders(S, f, t)) + One(g[s], t)
<1> DEFINE H == Holders(S, f, t)
           G == Holders(S, g, t)
<1>1. IsFiniteSet(H) /\ IsFiniteSet(G)
  BY FS_Subset DEF Holders
<1>2. Cardinality(H) \in Nat /\ Cardinality(G) \in Nat
  BY <1>1, FS_CardinalityType
<1>3. H \ {s} = G \ {s}
  BY DEF Holders
<1>4. s \in H <=> f[s] = t
  BY DEF Holders
<1>5. s \in G <=> g[s] = t
  BY DEF Holders
<1>6. Cardinality(H \ {s}) = IF f[s] = t THEN Cardinality(H) - 1 ELSE Cardinality(H)
  BY <1>1, <1>4, FS_RemoveElement
<1>7. Cardinality(G \ {s}) = IF g[s] = t THEN Cardinality(G) - 1 ELSE Cardinality(G)
  BY <1>1, <1>5, FS_RemoveElement
<1> HIDE DEF H, G
<1>8. Cardinality(H \ {s}) = Cardinality(G \ {s})
  BY <1>3
<1>9. QED
  BY <1>2, <1>6, <1>7, <1>8 DEF One, H, G

\* Where a task is in a sequence.
Places(q, t) == {i \in 1..Len(q) : q[i] = t}

\* The places are finite in number.
LEMMA PlacesFinite ==
  ASSUME NEW T, NEW q \in Seq(T), NEW t
  PROVE  IsFiniteSet(Places(q, t)) /\ Cardinality(Places(q, t)) \in Nat
<1>1. IsFiniteSet(1..Len(q))
  BY FS_Interval
<1>2. IsFiniteSet(Places(q, t))
  BY <1>1, FS_Subset DEF Places
<1>3. QED
  BY <1>2, FS_CardinalityType

\* Appending a task adds one place for it ...
LEMMA PushPlaces ==
  ASSUME NEW T, NEW q \in Seq(T), NEW x \in T, NEW t
  PROVE  Cardinality(Places(Append(q, x), t)) = Cardinality(Places(q, t)) + One(x, t)
<1> USE DEF One
<1>1. CASE x = t
  <2>1. Places(Append(q, x), t) = Places(q, t) \cup {Len(q) + 1} /\ Len(q) + 1 \notin Places(q, t)
    BY <1>1 DEF Places
  <2>2. QED
    BY <1>1, <2>1, PlacesFinite, FS_AddElement
<1>2. CASE x # t
  <2>1. Places(Append(q, x), t) = Places(q, t)
    BY <1>2 DEF Places
  <2>2. QED
    BY <1>2, <2>1, PlacesFinite
<1>3. QED
  BY <1>1, <1>2

\* ... and taking the front removes one.
LEMMA PopPlaces ==
  ASSUME NEW T, NEW q \in Seq(T), q # <<>>, NEW t
  PROVE  Cardinality(Places(Tail(q), t)) + One(Head(q), t) = Cardinality(Places(q, t))
<1> DEFINE P == Places(q, t)
           R == Places(Tail(q), t)
           next == [i \in R |-> i + 1]
<1>1. Tail(q) \in Seq(T) /\ Len(Tail(q)) = Len(q) - 1 /\ Len(q) \in Nat \ {0} /\ Head(q) = q[1]
  OBVIOUS
<1>2. \A i \in 1..Len(Tail(q)) : Tail(q)[i] = q[i + 1]
  OBVIOUS
<1>3. \A i \in R : i \in 1..Len(q) - 1 /\ i + 1 \in P \ {1}
  BY <1>1, <1>2 DEF Places
<1>4. \A j \in P \ {1} : j \in 2..Len(q) /\ j - 1 \in R /\ j = (j - 1) + 1
  BY <1>1, <1>2 DEF Places
<1>5. next \in Bijection(R, P \ {1})
  <2>1. next \in [R -> P \ {1}]
    BY <1>3
  <2>2. \A i, j \in R : next[i] = next[j] => i = j
    BY <1>3
  <2>3. \A j \in P \ {1} : \E i \in R : next[i] = j
    BY <1>4
  <2> HIDE DEF next, P, R
  <2>4. QED
    BY <2>1, <2>2, <2>3 DEF Bijection, Injection, Surjection, IsInjective
<1>6. IsFiniteSet(P) /\ Cardinality(P) \in Nat /\ IsFiniteSet(R) /\ Cardinality(R) \in Nat
  BY <1>1, PlacesFinite
<1>7. Cardinality(P \ {1}) = Cardinality(R)
  <2>1. ExistsBijection(R, P \ {1})
    BY <1>5 DEF ExistsBijection
  <2> HIDE DEF next, P, R
  <2>2. QED
    BY <1>6, <2>1, FS_Bijection
<1>8. 1 \in P <=> Head(q) = t
  BY <1>1 DEF Places
<1>9. Cardinality(P \ {1}) = IF Head(q) = t THEN Cardinality(P) - 1 ELSE Cardinality(P)
  <2> HIDE DEF P
  <2>1. QED
    BY <1>6, <1>8, FS_RemoveElement
<1> HIDE DEF P, R, next
<1>10. Cardinality(R) + (IF Head(q) = t THEN 1 ELSE 0) = Cardinality(P)
  BY <1>6, <1>7, <1>9
<1>11. QED
  BY <1>10 DEF P, R, One

\* Who has a task agrees with the program points.
LEMMA HoldingsStep ==
  ASSUME TypeOK, PosterHasTask, Holdings, NoNullTask', [Next]_vars
  PROVE  Holdings'
<1> USE WorkerAssumption, TaskAssumption, ProcAssumption
<1> USE DEF TypeOK, Holdings, Proc, Goto, PostPoints, WorkerPoints, MainPoints
<1>1. ASSUME NEW w \in Worker, CreateThread(w) PROVE Holdings'
  BY <1>1 DEF CreateThread
<1>2. ASSUME NEW w \in Worker, TestAlive(w) PROVE Holdings'
  BY <1>2 DEF TestAlive
<1>3. ASSUME NEW w \in Worker, WaitTask(w) PROVE Holdings'
  BY <1>3 DEF WaitTask
<1>4. ASSUME NEW w \in Worker, CheckAlive(w) PROVE Holdings'
  BY <1>4 DEF CheckAlive
<1>5. ASSUME NEW w \in Worker, LockQueue(w) PROVE Holdings'
  BY <1>5 DEF LockQueue
<1>6. ASSUME NEW w \in Worker, PopFront(w) PROVE Holdings'
  <2>1. task_queue # <<>>
    BY <1>6 DEF PopFront, NoNullTask
  <2>2. Head(task_queue) \in Task
    BY <2>1
  <2>3. QED
    BY <1>6, <2>1, <2>2 DEF PopFront
<1>7. ASSUME NEW w \in Worker, RunTask(w) PROVE Holdings'
  BY <1>7 DEF RunTask
<1>8. ASSUME NEW w \in Worker, FreeTask(w) PROVE Holdings'
  BY <1>8 DEF FreeTask
<1>9. CASE SetKeepAlive
  BY <1>9 DEF SetKeepAlive
<1>10. CASE ClearKeepAlive
  BY <1>10 DEF ClearKeepAlive
<1>11. CASE WakeWorker
  BY <1>11 DEF WakeWorker
<1>12. CASE JoinWorkers
  BY <1>12 DEF JoinWorkers
<1>13. CASE DrainQueue
  BY <1>13 DEF DrainQueue
<1>14. CASE DestroyQueue
  BY <1>14 DEF DestroyQueue
<1>15. ASSUME NEW p \in Proc, PostLock(p) PROVE Holdings'
  BY <1>15 DEF PostLock
<1>16. ASSUME NEW p \in Proc, PostSignal(p) PROVE Holdings'
  BY <1>16 DEF PostSignal
<1>17. ASSUME NEW p \in Proc, PostPush(p) PROVE Holdings'
  BY <1>17 DEF PostPush, PostDone
<1>18. ASSUME NEW p \in Proc, NEW t \in Task, PostRefused(p, t) PROVE Holdings'
  BY <1>18 DEF PostRefused, PostEntry
<1>19. ASSUME NEW p \in Proc, NEW t \in Task, PostAccepted(p, t) PROVE Holdings'
  BY <1>19 DEF PostAccepted, PostEntry, MayPost
<1>20. CASE UNCHANGED vars
  BY <1>20 DEF vars
<1>21. QED
  BY <1>1, <1>2, <1>3, <1>4, <1>5, <1>6, <1>7, <1>8, <1>9, <1>10, <1>11, <1>12,
     <1>13, <1>14, <1>15, <1>16, <1>17, <1>18, <1>19, <1>20
     DEF Next, WorkerStep, MainStep, PostStep, Terminated

\* The numbers Count adds up.
LEMMA CountNumbers ==
  ASSUME TypeOK, NEW t
  PROVE  /\ QueuedAt(t) = Places(task_queue, t)
         /\ Cardinality(QueuedAt(t)) \in Nat
         /\ IsFiniteSet(Worker) /\ Cardinality(RunBy(t)) \in Nat
         /\ IsFiniteSet(Proc) /\ Cardinality(PostedBy(t)) \in Nat
<1>1. QueuedAt(t) = Places(task_queue, t)
  BY DEF QueuedAt, Places
<1>2. IsFiniteSet(Proc)
  BY WorkerAssumption, FS_AddElement DEF Proc
<1>3. IsFiniteSet(RunBy(t)) /\ IsFiniteSet(PostedBy(t))
  BY <1>2, WorkerAssumption, FS_Subset DEF RunBy, PostedBy
<1>4. QED
  BY <1>1, <1>2, <1>3, WorkerAssumption, PlacesFinite, FS_CardinalityType DEF TypeOK

\* A step that moves no task and posts none keeps the account.
LEMMA NothingMoved ==
  ASSUME TaskConservation, UNCHANGED <<task_queue, cur, arg, posts, refused, frees>>
  PROVE  TaskConservation'
BY DEF TaskConservation, Count, QueuedAt, RunBy, PostedBy, Accepted

\* Tasks are conserved: every step that takes a task from a poster, the queue
\* or a worker hands it to the next of them or frees it.
LEMMA ConservationStep ==
  ASSUME TypeOK, PosterHasTask, Holdings, TaskConservation, TypeOK', NoNullTask', DrainNeverFails',
         [Next]_vars
  PROVE  TaskConservation'
<1> DEFINE Q(t) == Cardinality(QueuedAt(t))
           R(t) == Cardinality(RunBy(t))
           P(t) == Cardinality(PostedBy(t))
           Due(t) == IF Accepted(t) THEN 1 ELSE 0
<1>a. \A t : Q(t) \in Nat /\ R(t) \in Nat /\ P(t) \in Nat /\ Q(t)' \in Nat /\ R(t)' \in Nat /\ P(t)' \in Nat
  <2> SUFFICES ASSUME NEW t
               PROVE Q(t) \in Nat /\ R(t) \in Nat /\ P(t) \in Nat /\ Q(t)' \in Nat /\ R(t)' \in Nat /\ P(t)' \in Nat
    OBVIOUS
  <2>1. Q(t) \in Nat /\ R(t) \in Nat /\ P(t) \in Nat
    BY CountNumbers
  <2>2. Q(t)' \in Nat /\ R(t)' \in Nat /\ P(t)' \in Nat
    <3>1. IsFiniteSet(Proc)
      BY CountNumbers
    <3>2. IsFiniteSet(RunBy(t)') /\ IsFiniteSet(PostedBy(t)')
      BY <3>1, WorkerAssumption, FS_Subset DEF RunBy, PostedBy
    <3>3. QueuedAt(t)' = Places(task_queue', t) /\ task_queue' \in Seq(Task)
      BY DEF QueuedAt, Places, TypeOK
    <3>4. QED
      BY <3>2, <3>3, PlacesFinite, FS_CardinalityType
  <2>3. QED
    BY <2>1, <2>2
<1>b. \A t \in Task \ LockedTask : Q(t) + R(t) + P(t) + frees[t] = Due(t)
  BY DEF TaskConservation, Count
<1>c. ASSUME \A t \in Task \ LockedTask : Q(t)' + R(t)' + P(t)' + frees'[t] = Due(t)'
      PROVE TaskConservation'
  BY <1>c DEF TaskConservation, Count
<1>d. ASSUME NEW p \in Proc, NEW x \in Task \cup {NoTask}, arg' = [arg EXCEPT ![p] = x], NEW t
      PROVE P(t)' + One(arg[p], t) = P(t) + One(x, t)
  <2>1. IsFiniteSet(Proc) /\ arg'[p] = x /\ \A r \in Proc \ {p} : arg'[r] = arg[r]
    BY <1>d, CountNumbers DEF TypeOK
  <2>2. PICK g : g = arg'
    OBVIOUS
  <2>3. Cardinality(Holders(Proc, g, t)) + One(arg[p], t) = Cardinality(Holders(Proc, arg, t)) + One(g[p], t)
    BY <2>1, <2>2, HolderMoves
  <2>4. QED
    BY <2>1, <2>2, <2>3 DEF PostedBy, Holders
<1>e. ASSUME NEW w \in Worker, NEW x \in Task \cup {NoTask}, cur' = [cur EXCEPT ![w] = x], NEW t
      PROVE R(t)' + One(cur[w], t) = R(t) + One(x, t)
  <2>1. IsFiniteSet(Worker) /\ cur'[w] = x /\ \A r \in Worker \ {w} : cur'[r] = cur[r]
    BY <1>e, CountNumbers DEF TypeOK
  <2>2. PICK g : g = cur'
    OBVIOUS
  <2>3. Cardinality(Holders(Worker, g, t)) + One(cur[w], t) = Cardinality(Holders(Worker, cur, t)) + One(g[w], t)
    BY <2>1, <2>2, HolderMoves
  <2>4. QED
    BY <2>1, <2>2, <2>3 DEF RunBy, Holders
<1>f. ASSUME task_queue # <<>>, task_queue' = Tail(task_queue), NEW t
      PROVE Q(t)' + One(Head(task_queue), t) = Q(t)
  <2>1. task_queue \in Seq(Task)
    BY DEF TypeOK
  <2>2. Cardinality(Places(Tail(task_queue), t)) + One(Head(task_queue), t) = Cardinality(Places(task_queue, t))
    BY <1>f, <2>1, PopPlaces
  <2>3. QED
    BY <1>f, <2>2 DEF QueuedAt, Places
<1>g. ASSUME NEW x \in Task, task_queue' = Append(task_queue, x), NEW t
      PROVE Q(t)' = Q(t) + One(x, t)
  <2>1. task_queue \in Seq(Task)
    BY DEF TypeOK
  <2>2. Cardinality(Places(Append(task_queue, x), t)) = Cardinality(Places(task_queue, t)) + One(x, t)
    BY <2>1, PushPlaces
  <2>3. QED
    BY <1>g, <2>2 DEF QueuedAt, Places
<1>q. task_queue' = task_queue => \A t : Q(t)' = Q(t)
  BY DEF QueuedAt
<1>r. cur' = cur => \A t : R(t)' = R(t)
  BY DEF RunBy
<1>s. arg' = arg => \A t : P(t)' = P(t)
  BY DEF PostedBy
<1>u. UNCHANGED <<posts, refused>> => \A t : Due(t)' = Due(t)
  BY DEF Accepted
<1>v. \A a, t : One(a, t) \in {0, 1} /\ Due(t) \in {0, 1}
  BY DEF One
<1>w. ASSUME NEW a \in Task, frees' = [frees EXCEPT ![a] = @ + 1]
      PROVE \A t \in Task : frees'[t] = frees[t] + One(a, t) /\ frees[t] \in Nat
  <2> SUFFICES ASSUME NEW t \in Task PROVE frees'[t] = frees[t] + One(a, t) /\ frees[t] \in Nat
    OBVIOUS
  <2>1. frees \in [Task -> Nat]
    BY DEF TypeOK
  <2>2. CASE t = a
    BY <1>w, <2>1, <2>2 DEF One
  <2>3. CASE t # a
    BY <1>w, <2>1, <2>3 DEF One
  <2>4. QED
    BY <2>2, <2>3
<1>x. \A t \in Task : frees[t] \in Nat /\ One(NoTask, t) = 0
  BY TaskAssumption DEF TypeOK, One
<1>6. ASSUME NEW w \in Worker, PopFront(w) PROVE TaskConservation'
  <2>1. task_queue # <<>>
    BY <1>6 DEF PopFront, Goto, NoNullTask, TypeOK, Proc
  <2>2. Head(task_queue) \in Task
    BY <2>1 DEF TypeOK
  <2>3. /\ task_queue' = Tail(task_queue) /\ cur' = [cur EXCEPT ![w] = Head(task_queue)]
        /\ pc[w] = "pop" /\ arg' = arg /\ frees' = frees /\ UNCHANGED <<posts, refused>>
    BY <1>6, <2>1 DEF PopFront
  <2>4. cur[w] = NoTask
    BY <2>3 DEF Holdings, PostPoints
  <2> HIDE DEF Q, R, P, Due
  <2>5. \A t \in Task : Q(t)' + One(Head(task_queue), t) = Q(t)
    BY <1>f, <2>1, <2>3
  <2>6. \A t \in Task : R(t)' + One(NoTask, t) = R(t) + One(Head(task_queue), t)
    <3>1. \A t : R(t)' + One(cur[w], t) = R(t) + One(Head(task_queue), t)
      BY <1>e, <2>2, <2>3
    <3>2. QED
      BY <2>4, <3>1
  <2>7. \A t : P(t)' = P(t) /\ Due(t)' = Due(t)
    BY <1>s, <1>u, <2>3
  <2>8. QED
    BY <1>a, <1>b, <1>c, <1>v, <1>x, <2>3, <2>5, <2>6, <2>7
<1>8. ASSUME NEW w \in Worker, FreeTask(w) PROVE TaskConservation'
  <2>1. /\ cur' = [cur EXCEPT ![w] = NoTask] /\ frees' = [frees EXCEPT ![cur[w]] = @ + 1]
        /\ pc[w] = "complete" /\ arg' = arg /\ task_queue' = task_queue /\ UNCHANGED <<posts, refused>>
    BY <1>8 DEF FreeTask
  <2>2. cur[w] \in Task
    BY <2>1 DEF Holdings, TypeOK
  <2> HIDE DEF Q, R, P, Due
  <2>3. \A t \in Task : R(t)' + One(cur[w], t) = R(t) + One(NoTask, t)
    BY <1>e, <2>1
  <2>4. \A t \in Task : frees'[t] = frees[t] + One(cur[w], t)
    BY <1>w, <2>1, <2>2
  <2>5. \A t : Q(t)' = Q(t) /\ P(t)' = P(t) /\ Due(t)' = Due(t)
    BY <1>q, <1>s, <1>u, <2>1
  <2>6. QED
    BY <1>a, <1>b, <1>c, <1>v, <1>x, <2>3, <2>4, <2>5
<1>13. CASE DrainQueue
  <2>1. resource > 0
    BY <1>13 DEF DrainQueue, Goto, DrainNeverFails, TypeOK, Proc
  <2>2. /\ task_queue # <<>> /\ task_queue' = Tail(task_queue)
        /\ frees' = [frees EXCEPT ![Head(task_queue)] = @ + 1]
        /\ cur' = cur /\ arg' = arg /\ UNCHANGED <<posts, refused>>
    BY <1>13, <2>1 DEF DrainQueue
  <2>3. Head(task_queue) \in Task
    BY <2>2 DEF TypeOK
  <2> HIDE DEF Q, R, P, Due
  <2>4. \A t \in Task : Q(t)' + One(Head(task_queue), t) = Q(t)
    BY <1>f, <2>2
  <2>5. \A t \in Task : frees'[t] = frees[t] + One(Head(task_queue), t)
    BY <1>w, <2>2, <2>3
  <2>6. \A t : R(t)' = R(t) /\ P(t)' = P(t) /\ Due(t)' = Due(t)
    BY <1>r, <1>s, <1>u, <2>2
  <2>7. QED
    BY <1>a, <1>b, <1>c, <1>v, <1>x, <2>4, <2>5, <2>6
<1>17. ASSUME NEW p \in Proc, PostPush(p) PROVE TaskConservation'
  <2>1. /\ task_queue' = Append(task_queue, arg[p]) /\ arg' = [arg EXCEPT ![p] = NoTask]
        /\ arg[p] \in Task /\ cur' = cur /\ frees' = frees /\ UNCHANGED <<posts, refused>>
    BY <1>17 DEF PostPush, PosterHasTask, PostPoints
  <2> HIDE DEF Q, R, P, Due
  <2>2. \A t \in Task : Q(t)' = Q(t) + One(arg[p], t)
    BY <1>g, <2>1
  <2>3. \A t \in Task : P(t)' + One(arg[p], t) = P(t) + One(NoTask, t)
    BY <1>d, <2>1
  <2>4. \A t : R(t)' = R(t) /\ Due(t)' = Due(t)
    BY <1>r, <1>u, <2>1
  <2>5. ASSUME NEW t \in Task \ LockedTask PROVE Q(t)' + R(t)' + P(t)' + frees'[t] = Due(t)'
    <3>1. frees'[t] = frees[t]
      BY <2>1
    <3>2. QED
      BY <1>a, <1>b, <1>v, <1>x, <2>2, <2>3, <2>4, <3>1
  <2>6. QED
    BY <1>c, <2>5
<1>18. ASSUME NEW p \in Proc, NEW x \in Task, PostRefused(p, x) PROVE TaskConservation'
  <2>1. UNCHANGED <<task_queue, cur, arg, frees>> /\ Postable(x)
        /\ posts' = [posts EXCEPT ![x] = @ + 1] /\ refused' = refused \cup {x}
    BY <1>18 DEF PostRefused, PostEntry
  <2>2. \A t \in Task \ LockedTask : Accepted(t)' <=> Accepted(t)
    BY <2>1 DEF Accepted, Postable, TypeOK
  <2>3. \A t \in Task \ LockedTask : Due(t)' = Due(t)
    BY <2>2
  <2> HIDE DEF Q, R, P, Due
  <2>4. QED
    BY <1>b, <1>c, <1>q, <1>r, <1>s, <2>1, <2>3
<1>19. ASSUME NEW p \in Proc, NEW x \in Task, PostAccepted(p, x) PROVE TaskConservation'
  <2>1. UNCHANGED <<task_queue, cur, frees, refused>> /\ Postable(x) /\ MayPost(p)
        /\ posts' = [posts EXCEPT ![x] = @ + 1] /\ arg' = [arg EXCEPT ![p] = x]
    BY <1>19 DEF PostAccepted, PostEntry
  <2>2. arg[p] = NoTask
    BY <2>1 DEF Holdings, MayPost, PostPoints
  <2>3. \A t \in Task \ LockedTask : t # x => (Accepted(t)' <=> Accepted(t))
    BY <2>1 DEF Accepted, TypeOK
  <2>4. x \notin LockedTask => Accepted(x)' /\ ~ Accepted(x)
    BY <2>1 DEF Accepted, Postable, Holdings, TypeOK
  <2>5. \A t \in Task \ LockedTask : Due(t)' = Due(t) + One(x, t)
    BY <2>3, <2>4 DEF One
  <2> HIDE DEF Q, R, P, Due
  <2>6. ASSUME NEW t \in Task PROVE P(t)' + One(NoTask, t) = P(t) + One(x, t)
    <3>1. arg' = [arg EXCEPT ![p] = x]
      BY <2>1
    <3>2. P(t)' + One(arg[p], t) = P(t) + One(x, t)
      BY <1>d, <3>1
    <3>3. QED
      BY <2>2, <3>2
  <2>7. \A t : Q(t)' = Q(t) /\ R(t)' = R(t)
    BY <1>q, <1>r, <2>1
  <2>8. QED
    BY <1>a, <1>b, <1>c, <1>v, <1>x, <2>1, <2>5, <2>6, <2>7
<1>20. ASSUME UNCHANGED <<task_queue, cur, arg, posts, refused, frees>> PROVE TaskConservation'
  BY <1>20, NothingMoved
<1>21. QED
  <2>1. ASSUME NEW w \in Worker, CreateThread(w) \/ WorkerStep(w) PROVE TaskConservation'
    BY <2>1, <1>6, <1>8, <1>20 DEF WorkerStep, CreateThread, TestAlive, WaitTask, CheckAlive,
       LockQueue, RunTask
  <2>2. CASE SetKeepAlive \/ ClearKeepAlive \/ MainStep \/ Terminated
    BY <2>2, <1>13, <1>20 DEF MainStep, SetKeepAlive, ClearKeepAlive, WakeWorker, JoinWorkers,
       DestroyQueue, Terminated, vars
  <2>3. ASSUME NEW p \in Proc, PostStep(p) PROVE TaskConservation'
    BY <2>3, <1>17, <1>20 DEF PostStep, PostLock, PostSignal
  <2>4. CASE UNCHANGED vars
    BY <2>4, <1>20 DEF vars
  <2>5. QED
    BY <2>1, <2>2, <2>3, <2>4, <1>18, <1>19 DEF Next

\* The inductive invariant holds in every reachable state of the pool.
THEOREM Invariance == Spec => []IInv
<1>1. Init => IInv
  <2> SUFFICES ASSUME Init PROVE IInv
    OBVIOUS
  <2> USE WorkerAssumption, TaskAssumption, ProcAssumption DEF Init, Proc
  <2>1. TypeOK
    <3>1. /\ pc \in [Proc -> WorkerPoints \cup MainPoints]
          /\ pc[Main] \in MainPoints
          /\ \A w \in Worker : pc[w] \in WorkerPoints
      BY DEF WorkerPoints, MainPoints
    <3>2. task_queue \in Seq(Task)
      OBVIOUS
    <3>3. cur \in [Worker -> Task \cup {NoTask}] /\ arg \in [Proc -> Task \cup {NoTask}]
      OBVIOUS
    <3>4. QED
      BY <3>1, <3>2, <3>3 DEF TypeOK
  <2>1a. PosterHasTask /\ LockDiscipline
    BY DEF PosterHasTask, LockDiscipline, PostPoints
  <2>2. Phases
    BY DEF Phases, PostPoints
  <2>3. TokenHolders = {} /\ Claimers = {} /\ Unpushed = 0
    BY DEF TokenHolders, Claimers, Unpushed
  <2>4. TokensMatchQueue /\ ClaimsAreCovered
    BY <2>3, FS_EmptySet DEF TokensMatchQueue, ClaimsAreCovered
  <2>5. NoNullTask /\ DrainNeverFails
    BY DEF NoNullTask, DrainNeverFails
  <2>6. Holdings
    BY DEF Holdings, PostPoints
  <2>7. TaskConservation
    <3>1. ASSUME NEW t \in Task PROVE Count(t) = 0 /\ ~ Accepted(t) /\ frees[t] = 0
      <4>1. QueuedAt(t) = {} /\ RunBy(t) = {} /\ PostedBy(t) = {}
        BY DEF QueuedAt, RunBy, PostedBy
      <4>2. QED
        BY <4>1, FS_EmptySet DEF Count, Accepted
    <3>2. QED
      BY <3>1 DEF TaskConservation
  <2>8. QED
    BY <2>1, <2>1a, <2>2, <2>4, <2>5, <2>6, <2>7 DEF IInv
<1>2. IInv /\ [Next]_vars => IInv'
  BY TypeStep, ControlStep, BalanceStep, HoldingsStep, ConservationStep DEF IInv
<1>3. QED
  BY <1>1, <1>2, PTL DEF Spec

\* Every variable of the pool stays in its domain.
THEOREM TypeCorrect == Spec => []TypeOK
<1>1. IInv => TypeOK
  BY DEF IInv
<1>2. QED
  BY <1>1, Invariance, PTL

\* No worker ever dereferences the NULL of an empty queue (line 36), however
\* many workers, posters and tasks there are and whenever destroy is called.
THEOREM NoNullTaskAlways == Spec => []NoNullTask
<1>1. IInv => NoNullTask
  BY DEF IInv
<1>2. QED
  BY <1>1, Invariance, PTL

\* tgx_task_queue_empty never runs out of tokens (line 278): destroy frees
\* every task that is still queued.
THEOREM DrainNeverFailsAlways == Spec => []DrainNeverFails
<1>1. IInv => DrainNeverFails
  BY DEF IInv
<1>2. QED
  BY <1>1, Invariance, PTL

\* The semaphore is in step with the queue in every reachable state.
THEOREM TokensMatchQueueAlways == Spec => []TokensMatchQueue
<1>1. IInv => TokensMatchQueue
  BY DEF IInv
<1>2. QED
  BY <1>1, Invariance, PTL

\* The workers that are about to pop never outnumber the tasks they will find.
THEOREM ClaimsAreCoveredAlways == Spec => []ClaimsAreCovered
<1>1. IInv => ClaimsAreCovered
  BY DEF IInv
<1>2. QED
  BY <1>1, Invariance, PTL

\* A task that tgx_post_task accepted is in one place at any time, whatever
\* workers, posters and destroy do, and it is freed once (lines 41 and 283).
THEOREM TaskConservationAlways == Spec => []TaskConservation
<1>1. IInv => TaskConservation
  BY DEF IInv
<1>2. QED
  BY <1>1, Invariance, PTL
=============================================================================
