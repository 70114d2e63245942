------------------------------ MODULE Supervisor ------------------------------
(***************************************************************************)
(* The master processes of src/core/tgx.c: daemonising, the lock file, the *)
(* listening socket, and the loop that forks server processes and waits    *)
(* for them.  Two instances of the program may be started beside each      *)
(* other.  A server process is only counted here: it serves, it leaves     *)
(* after SIGINT, or it has ended and waits to be reaped.                   *)
(***************************************************************************)
EXTENDS Naturals, FiniteSets

CONSTANTS Instances,    \* the starts of the program
          MaxChild,     \* MAX_CHILD_NUM
          MaxCrashes,   \* bound: how often processes crash or are killed
          MaxForkFails, \* bound: how often fork fails in one master
          Nobody        \* the lock file is not locked, or was never written

ASSUME SupervisorAssumption ==
    /\ Nobody \notin Instances
    /\ MaxChild \in Nat \ {0}
    /\ MaxCrashes \in Nat
    /\ MaxForkFails \in Nat

VARIABLES
    pc,        \* where the main process of an instance is
    running,   \* its variable running
    numChild,  \* its variable numChild
    kids,      \* server processes that serve
    leaving,   \* server processes whose running is 0
    zombies,   \* server processes that ended and were not waited for
    failed,    \* forks of the master that failed (history)
    lock,      \* the instance that holds the lock on the lock file
    pidfile,   \* the instance whose process id the lock file holds
    crashes    \* bound

vars == <<pc, running, numChild, kids, leaving, zombies, failed, lock, pidfile, crashes>>
children == <<numChild, kids, leaving, zombies, failed>>

Count == 0 .. MaxChild
Master == {"test", "fork", "wait", "end"}
Points == {"off", "daemon", "lock", "config", "socket", "gone"} \cup Master

Unreaped(i) == kids[i] + leaving[i] + zombies[i]

\* A process of i has the listening socket open.
Listening(i) == pc[i] \in Master \/ kids[i] + leaving[i] > 0

Init ==
    /\ pc = [i \in Instances |-> "off"]
    /\ running = [i \in Instances |-> TRUE]
    /\ numChild = [i \in Instances |-> 0]
    /\ kids = [i \in Instances |-> 0]
    /\ leaving = [i \in Instances |-> 0]
    /\ zombies = [i \in Instances |-> 0]
    /\ failed = [i \in Instances |-> 0]
    /\ lock = Nobody
    /\ pidfile = Nobody
    /\ crashes = 0

Goto(i, point) == pc' = [pc EXCEPT ![i] = point]

\* The main process ends: the kernel drops its lock, and init adopts and reaps its children.
Ends(i) ==
    /\ Goto(i, "gone")
    /\ lock' = IF lock = i THEN Nobody ELSE lock
    /\ zombies' = [zombies EXCEPT ![i] = 0]
    /\ UNCHANGED <<running, numChild, kids, leaving, failed, pidfile, crashes>>

-----------------------------------------------------------------------------
\* The command line: --no-daemon skips tgx_daemonize.
Start(i) ==
    /\ pc[i] = "off"
    /\ \E point \in {"daemon", "lock"} : Goto(i, point)
    /\ UNCHANGED <<running, children, lock, pidfile, crashes>>

\* Two forks whose parents exit.  Locks belong to a process and are not inherited.
tgx_daemonize(i) ==
    /\ pc[i] = "daemon"
    /\ \/ /\ Goto(i, "lock")
          /\ lock' = IF lock = i THEN Nobody ELSE lock
          /\ UNCHANGED <<running, children, pidfile, crashes>>
       \/ Ends(i)

\* Mutant: the lock file is written before the lock is tried.
Mutant_already_running_truncates(i) ==
    /\ pc[i] = "lock"
    /\ pidfile' = i
    /\ IF lock = Nobody THEN lock' = i /\ Goto(i, "config") ELSE Goto(i, "gone") /\ UNCHANGED lock
    /\ UNCHANGED <<running, children, crashes>>

\* F_SETLK on the lock file; whoever gets it writes its process id.
tgx_already_running(i) ==
    /\ pc[i] = "lock"
    /\ \/ /\ lock = Nobody
          /\ lock' = i
          /\ pidfile' = i
          /\ Goto(i, "config")
          /\ UNCHANGED <<running, children, crashes>>
       \/ Ends(i)

\* The configuration file is read and the signal handlers are installed, or main returns.
ScanConfig(i) ==
    /\ pc[i] = "config"
    /\ \/ /\ Goto(i, "socket")
          /\ UNCHANGED <<running, children, lock, pidfile, crashes>>
       \/ Ends(i)

\* bind is refused while any process still listens on the port; socket, listen and chdir may fail.
tgx_socket_init(i) ==
    /\ pc[i] = "socket"
    /\ \/ /\ \A j \in Instances : ~ Listening(j)
          /\ Goto(i, "test")
          /\ UNCHANGED <<running, children, lock, pidfile, crashes>>
       \/ Ends(i)

-----------------------------------------------------------------------------
\* while (!isChild && running)
TestRunning(i) ==
    /\ pc[i] = "test"
    /\ Goto(i, IF running[i] THEN "fork" ELSE "end")
    /\ UNCHANGED <<running, children, lock, pidfile, crashes>>

\* numChild++ comes after the fork whether it succeeded or not; at MAX_CHILD_NUM the master waits.
Counted(i) ==
    /\ numChild' = [numChild EXCEPT ![i] = @ + 1]
    /\ Goto(i, IF numChild[i] + 1 >= MaxChild THEN "wait" ELSE "test")
    /\ UNCHANGED <<running, zombies, lock, pidfile, crashes>>

\* Mutant: a child starts with running = 1 whatever the master has.
Mutant_Fork_afresh(i) ==
    /\ pc[i] = "fork"
    /\ numChild[i] < MaxChild
    /\ kids' = [kids EXCEPT ![i] = @ + 1]
    /\ UNCHANGED <<leaving, failed>>
    /\ Counted(i)

\* A child starts with a copy of the master's running.
Fork(i) ==
    /\ pc[i] = "fork"
    /\ numChild[i] < MaxChild
    /\ \/ /\ running[i]
          /\ kids' = [kids EXCEPT ![i] = @ + 1]
          /\ UNCHANGED <<leaving, failed>>
       \/ /\ ~ running[i]
          /\ leaving' = [leaving EXCEPT ![i] = @ + 1]
          /\ UNCHANGED <<kids, failed>>
       \/ /\ failed[i] < MaxForkFails
          /\ failed' = [failed EXCEPT ![i] = @ + 1]
          /\ UNCHANGED <<kids, leaving>>
    /\ Counted(i)

\* Mutant: wait does not block (WNOHANG).
Mutant_Wait_polls(i) ==
    /\ pc[i] = "wait"
    /\ zombies' = [zombies EXCEPT ![i] = IF @ > 0 THEN @ - 1 ELSE 0]
    /\ numChild' = [numChild EXCEPT ![i] = @ - 1]
    /\ Goto(i, "test")
    /\ UNCHANGED <<running, kids, leaving, failed, lock, pidfile, crashes>>

\* Mutant: the inner loop neither counts down nor breaks.
Mutant_Wait_stays(i) ==
    /\ pc[i] = "wait"
    /\ zombies[i] > 0
    /\ zombies' = [zombies EXCEPT ![i] = @ - 1]
    /\ UNCHANGED <<pc, running, numChild, kids, leaving, failed, lock, pidfile, crashes>>

\* wait(NULL) returns with a child that ended, or at once when there is no child at all; a signal
\* does not interrupt it (signal() installs its handlers with SA_RESTART).
Wait(i) ==
    /\ pc[i] = "wait"
    /\ zombies[i] > 0 \/ Unreaped(i) = 0
    /\ zombies' = [zombies EXCEPT ![i] = IF @ > 0 THEN @ - 1 ELSE 0]
    /\ numChild' = [numChild EXCEPT ![i] = @ - 1]
    /\ Goto(i, "test")
    /\ UNCHANGED <<running, kids, leaving, failed, lock, pidfile, crashes>>

\* The master runs on into the code of the children, whose loop it does not enter, and returns.
MasterEnds(i) ==
    /\ pc[i] = "end"
    /\ Ends(i)

-----------------------------------------------------------------------------
\* A server process ends; somebody has to wait for it unless init has adopted it.
ChildEnds(i) ==
    /\ zombies' = [zombies EXCEPT ![i] = IF pc[i] = "gone" THEN 0 ELSE @ + 1]
    /\ UNCHANGED <<pc, running, numChild, failed, lock, pidfile>>

\* A server process crashes, or its initialisation fails.
ChildCrashes(i) ==
    /\ crashes < MaxCrashes
    /\ kids[i] > 0
    /\ crashes' = crashes + 1
    /\ kids' = [kids EXCEPT ![i] = @ - 1]
    /\ ChildEnds(i)
    /\ UNCHANGED leaving

\* A server process whose running is 0 leaves its loop, closes everything and returns.
ChildLeaves(i) ==
    /\ leaving[i] > 0
    /\ leaving' = [leaving EXCEPT ![i] = @ - 1]
    /\ ChildEnds(i)
    /\ UNCHANGED <<kids, crashes>>

\* SIGKILL, or any signal before the handlers are installed, ends the main process.
MasterKilled(i) ==
    /\ crashes < MaxCrashes
    /\ pc[i] \notin {"off", "gone"}
    /\ crashes' = crashes + 1
    /\ Goto(i, "gone")
    /\ lock' = IF lock = i THEN Nobody ELSE lock
    /\ zombies' = [zombies EXCEPT ![i] = 0]
    /\ UNCHANGED <<running, numChild, kids, leaving, failed, pidfile>>

\* SIGINT for the process group (a terminal's ^C).
InterruptGroup(i) ==
    /\ pc[i] \in {"socket"} \cup Master
    /\ running[i]
    /\ running' = [running EXCEPT ![i] = FALSE]
    /\ leaving' = [leaving EXCEPT ![i] = @ + kids[i]]
    /\ kids' = [kids EXCEPT ![i] = 0]
    /\ UNCHANGED <<pc, numChild, zombies, failed, lock, pidfile, crashes>>

\* SIGINT for the master alone.
InterruptMaster(i) ==
    /\ pc[i] \in {"socket"} \cup Master
    /\ running[i]
    /\ running' = [running EXCEPT ![i] = FALSE]
    /\ UNCHANGED <<pc, children, lock, pidfile, crashes>>

MasterStep(i) ==
    \/ tgx_daemonize(i) \/ tgx_already_running(i) \/ ScanConfig(i) \/ tgx_socket_init(i)
    \/ TestRunning(i) \/ Fork(i) \/ Wait(i) \/ MasterEnds(i)

Next == \E i \in Instances :
    \/ Start(i) \/ MasterStep(i)
    \/ ChildCrashes(i) \/ ChildLeaves(i) \/ MasterKilled(i) \/ InterruptGroup(i) \/ InterruptMaster(i)

Spec == Init /\ [][Next]_vars

\* The main process is scheduled, and a server process that was interrupted comes to its end
\* (epoll_wait returns with EINTR or after event_timeout_ms, and destroy of the pool ends).
Fairness == \A i \in Instances : WF_vars(MasterStep(i)) /\ WF_vars(ChildLeaves(i))

FairSpec == Spec /\ Fairness

-----------------------------------------------------------------------------
\* Types; the master never counts beyond MAX_CHILD_NUM.
TypeOK ==
    /\ pc \in [Instances -> Points]
    /\ running \in [Instances -> BOOLEAN]
    /\ numChild \in [Instances -> Count]
    /\ kids \in [Instances -> Count]
    /\ leaving \in [Instances -> Count]
    /\ zombies \in [Instances -> Count]
    /\ failed \in [Instances -> 0 .. MaxForkFails]
    /\ lock \in Instances \cup {Nobody}
    /\ pidfile \in Instances \cup {Nobody}
    /\ crashes \in 0 .. MaxCrashes

\* numChild of the master loop (tgx.c 712-741) never loses a child it forked, and exceeds the
\* children it has to wait for by no more than the forks that failed.
CountIsRight == \A i \in Instances : pc[i] \in Master =>
    /\ Unreaped(i) <= numChild[i]
    /\ numChild[i] <= Unreaped(i) + failed[i]

\* The process id in the lock file is the one of the only master there is, although instances
\* are started, daemonise, fail and are killed beside each other (tgx.c 651-654).
PidFileNamesMaster == \A i \in Instances :
    pc[i] \in {"config", "socket"} \cup Master => pidfile = i /\ lock = i

\* What CountIsRight needs to be inductive: an instance has no children before it forks, the points
\* of the loop bound numChild, and a master that ends leaves no more than MAX_CHILD_NUM behind.
CountsKept == \A i \in Instances :
    /\ pc[i] \notin Master \cup {"gone"} => Unreaped(i) = 0 /\ numChild[i] = 0
    /\ pc[i] \in {"test", "fork"} => numChild[i] < MaxChild
    /\ pc[i] = "wait" => numChild[i] = MaxChild
    /\ pc[i] = "gone" => zombies[i] = 0 /\ kids[i] + leaving[i] <= MaxChild

\* A master that is not stopped comes to have a server process again, whatever forks failed and
\* whatever processes crashed (the comment at tgx.c 702).
ServiceRecovers == \A i \in Instances :
    pc[i] \in Master ~> (kids[i] > 0 \/ ~ running[i] \/ pc[i] = "gone")

\* After a SIGINT that reached everybody no process of the instance goes on listening, even when
\* the master was about to fork at that moment.
InterruptEndsAll == \A i \in Instances :
    (~ running[i] /\ kids[i] = 0) ~> ~ Listening(i)
=============================================================================
