--------------------------- MODULE SupervisorProofs ---------------------------
(***************************************************************************)
(* Theorems about the master process, for any number of instances, any     *)
(* MAX_CHILD_NUM and any number of crashes and failed forks.               *)
(***************************************************************************)
EXTENDS Supervisor, TLAPS

\* The inductive invariant.
IInv == TypeOK /\ CountsKept /\ CountIsRight /\ PidFileNamesMaster

\* The initial states of the master processes satisfy the invariant.
LEMMA InitInv == Init => IInv
  BY SupervisorAssumption
     DEF Init, IInv, TypeOK, CountsKept, CountIsRight, PidFileNamesMaster, Points, Master, Count, Unreaped

\* The types and the counts of the other instances are not touched when one main process ends.
LEMMA EndsInv ==
  ASSUME IInv, NEW i \in Instances, pc[i] \notin {"off", "gone"}, Ends(i)
  PROVE  IInv'
  BY SupervisorAssumption
     DEF Ends, Goto, IInv, TypeOK, CountsKept, CountIsRight, PidFileNamesMaster, Points, Master, Count, Unreaped

\* Every step of main before the loop (tgx.c 644-684) keeps the invariant.
LEMMA StartInv ==
  ASSUME IInv, NEW i \in Instances,
         Start(i) \/ tgx_daemonize(i) \/ tgx_already_running(i) \/ ScanConfig(i) \/ tgx_socket_init(i)
  PROVE  IInv'
<1> USE SupervisorAssumption
        DEF Goto, children, IInv, TypeOK, CountsKept, CountIsRight, PidFileNamesMaster,
            Points, Master, Count, Unreaped
<1>1. CASE Start(i)
  BY <1>1 DEF Start
<1>2. CASE tgx_daemonize(i)
  <2>0. pc[i] = "daemon"
    BY <1>2 DEF tgx_daemonize
  <2>1. CASE Ends(i)
    <3> HIDE DEF IInv
    <3> QED BY <2>0, <2>1, EndsInv
  <2>2. CASE /\ Goto(i, "lock")
             /\ lock' = IF lock = i THEN Nobody ELSE lock
             /\ UNCHANGED <<running, children, pidfile, crashes>>
    <3>1. TypeOK'
      BY <2>0, <2>2
    <3>2. CountsKept' /\ CountIsRight'
      BY <2>0, <2>2
    <3>3. PidFileNamesMaster'
      BY <2>0, <2>2
    <3> QED BY <3>1, <3>2, <3>3
  <2> QED BY <1>2, <2>1, <2>2 DEF tgx_daemonize
<1>3. CASE tgx_already_running(i)
  <2>0. pc[i] = "lock"
    BY <1>3 DEF tgx_already_running
  <2>1. CASE Ends(i)
    <3> HIDE DEF IInv
    <3> QED BY <2>0, <2>1, EndsInv
  <2>2. CASE /\ lock = Nobody /\ lock' = i /\ pidfile' = i
             /\ Goto(i, "config")
             /\ UNCHANGED <<running, children, crashes>>
    <3>1. TypeOK'
      BY <2>0, <2>2
    <3>2. CountsKept' /\ CountIsRight'
      BY <2>0, <2>2
    <3>3. PidFileNamesMaster'
      BY <2>0, <2>2
    <3> QED BY <3>1, <3>2, <3>3
  <2> QED BY <1>3, <2>1, <2>2 DEF tgx_already_running
<1>4. CASE ScanConfig(i)
  <2>0. pc[i] = "config"
    BY <1>4 DEF ScanConfig
  <2>1. CASE Ends(i)
    <3> HIDE DEF IInv
    <3> QED BY <2>0, <2>1, EndsInv
  <2>2. CASE /\ Goto(i, "socket")
             /\ UNCHANGED <<running, children, lock, pidfile, crashes>>
    <3>1. TypeOK'
      BY <2>0, <2>2
    <3>2. CountsKept' /\ CountIsRight'
      BY <2>0, <2>2
    <3>3. PidFileNamesMaster'
      BY <2>0, <2>2
    <3> QED BY <3>1, <3>2, <3>3
  <2> QED BY <1>4, <2>1, <2>2 DEF ScanConfig
<1>5. CASE tgx_socket_init(i)
  <2>0. pc[i] = "socket"
    BY <1>5 DEF tgx_socket_init
  <2>1. CASE Ends(i)
    <3> HIDE DEF IInv
    <3> QED BY <2>0, <2>1, EndsInv
  <2>2. CASE /\ Goto(i, "test")
             /\ UNCHANGED <<running, children, lock, pidfile, crashes>>
    <3>1. TypeOK'
      BY <2>0, <2>2
    <3>2. CountsKept' /\ CountIsRight'
      BY <2>0, <2>2
    <3>3. PidFileNamesMaster'
      BY <2>0, <2>2
    <3> QED BY <3>1, <3>2, <3>3
  <2> QED BY <1>5, <2>1, <2>2 DEF tgx_socket_init
<1> QED BY <1>1, <1>2, <1>3, <1>4, <1>5

\* Every step of the master loop (tgx.c 712-741) keeps the invariant.
LEMMA LoopInv ==
  ASSUME IInv, NEW i \in Instances,
         TestRunning(i) \/ Fork(i) \/ Wait(i) \/ MasterEnds(i)
  PROVE  IInv'
<1> USE SupervisorAssumption
        DEF Goto, children, IInv, TypeOK, CountsKept, CountIsRight, PidFileNamesMaster,
            Points, Master, Count, Unreaped
<1>1. CASE TestRunning(i)
  BY <1>1 DEF TestRunning
<1>2. CASE Fork(i)
  <2>0. /\ pc[i] = "fork" /\ numChild[i] < MaxChild
        /\ kids[i] + leaving[i] + zombies[i] <= numChild[i]
        /\ kids[i] \in Nat /\ leaving[i] \in Nat /\ zombies[i] \in Nat /\ numChild[i] \in Nat
        /\ numChild' = [numChild EXCEPT ![i] = @ + 1]
        /\ pc' = [pc EXCEPT ![i] = IF numChild[i] + 1 >= MaxChild THEN "wait" ELSE "test"]
        /\ UNCHANGED <<running, zombies, lock, pidfile, crashes>>
    BY <1>2 DEF Fork, Counted
  <2>1. TypeOK'
    <3>1. kids[i] + 1 \in Count /\ leaving[i] + 1 \in Count /\ numChild[i] + 1 \in Count
      BY <2>0
    <3>2. kids' \in [Instances -> Count] /\ leaving' \in [Instances -> Count]
      <4>1. kids \in [Instances -> Count] /\ leaving \in [Instances -> Count]
        OBVIOUS
      <4>2. /\ kids' = kids \/ kids' = [kids EXCEPT ![i] = @ + 1]
            /\ leaving' = leaving \/ leaving' = [leaving EXCEPT ![i] = @ + 1]
        BY <1>2 DEF Fork
      <4> HIDE DEF Count, IInv, TypeOK, CountsKept, CountIsRight
      <4> QED BY <3>1, <4>1, <4>2
    <3>3. failed' \in [Instances -> 0 .. MaxForkFails]
      BY <1>2 DEF Fork
    <3> QED BY <2>0, <3>1, <3>2, <3>3
  <2>2. CountsKept'
    <3> SUFFICES ASSUME NEW j \in Instances
                 PROVE  /\ pc'[j] \notin Master \cup {"gone"} => Unreaped(j)' = 0 /\ numChild'[j] = 0
                        /\ pc'[j] \in {"test", "fork"} => numChild'[j] < MaxChild
                        /\ pc'[j] = "wait" => numChild'[j] = MaxChild
                        /\ pc'[j] = "gone" => zombies'[j] = 0 /\ kids'[j] + leaving'[j] <= MaxChild
      OBVIOUS
    <3>1. CASE j = i
      BY <2>0, <3>1
    <3>2. CASE j # i
      <4>1. kids'[j] = kids[j] /\ leaving'[j] = leaving[j]
        BY <1>2, <3>2 DEF Fork
      <4> QED BY <2>0, <3>2, <4>1
    <3> QED BY <3>1, <3>2
  <2>3. CountIsRight'
    BY <1>2 DEF Fork, Counted
  <2>4. PidFileNamesMaster'
    BY <1>2 DEF Fork, Counted
  <2> QED BY <2>1, <2>2, <2>3, <2>4
<1>3. CASE Wait(i)
  BY <1>3 DEF Wait
<1>4. CASE MasterEnds(i)
  <2>1. Ends(i) /\ pc[i] \notin {"off", "gone"}
    BY <1>4 DEF MasterEnds
  <2> HIDE DEF IInv
  <2> QED BY <2>1, EndsInv
<1> QED BY <1>1, <1>2, <1>3, <1>4

\* Crashes, ends of children and signals keep the invariant.
LEMMA FaultInv ==
  ASSUME IInv, NEW i \in Instances,
         \/ ChildCrashes(i) \/ ChildLeaves(i) \/ MasterKilled(i) \/ InterruptGroup(i) \/ InterruptMaster(i)
  PROVE  IInv'
<1> USE SupervisorAssumption
        DEF Goto, children, IInv, TypeOK, CountsKept, CountIsRight, PidFileNamesMaster,
            Points, Master, Count, Unreaped
<1>1. CASE ChildCrashes(i)
  BY <1>1 DEF ChildCrashes, ChildEnds
<1>2. CASE ChildLeaves(i)
  BY <1>2 DEF ChildLeaves, ChildEnds
<1>3. CASE MasterKilled(i)
  BY <1>3 DEF MasterKilled
<1>4. CASE InterruptGroup(i)
  BY <1>4 DEF InterruptGroup
<1>5. CASE InterruptMaster(i)
  BY <1>5 DEF InterruptMaster
<1> QED BY <1>1, <1>2, <1>3, <1>4, <1>5

\* The invariant holds in every reachable state of the master processes.
THEOREM MasterInvariance == Spec => []IInv
<1>1. IInv /\ [Next]_vars => IInv'
  <2> SUFFICES ASSUME IInv, [Next]_vars PROVE IInv'
    OBVIOUS
  <2>1. CASE Next
    BY <2>1, StartInv, LoopInv, FaultInv DEF Next, MasterStep
  <2>2. CASE UNCHANGED vars
    BY <2>2 DEF vars, IInv, TypeOK, CountsKept, CountIsRight, PidFileNamesMaster, Unreaped
  <2> QED BY <2>1, <2>2
<1> QED BY InitInv, <1>1, PTL DEF Spec

\* numChild accounts for every child the master has to wait for, up to the forks that failed.
THEOREM CountIsRightAlways == Spec => []CountIsRight
  BY MasterInvariance, PTL DEF IInv

\* There is never more than one master past the lock file, and the file names it.
THEOREM PidFileNamesMasterAlways == Spec => []PidFileNamesMaster
  BY MasterInvariance, PTL DEF IInv
=============================================================================
