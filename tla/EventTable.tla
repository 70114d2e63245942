---------------------------- MODULE EventTable -----------------------------
(***************************************************************************)
(* The handler table of src/src/event/tgx_event.c: sched_array and the     *)
(* counter usedfds.  The event loop registers descriptors without a lock;  *)
(* the loop and the workers unregister them under tcycle_lock              *)
(* (tgx_close_connection).  usedfds++ and usedfds-- are a load and a store *)
(* of a size_t, which wraps around below 0.                                *)
(***************************************************************************)
EXTENDS Integers, FiniteSets, FiniteSetsExt

CONSTANTS MaxFds,   \* te->maxfds, the length of sched_array
          LastFd,   \* the highest descriptor number accept returns
          Main,     \* the event loop
          Worker,   \* the threads of the task pool
          SizeT,    \* the number of values of a size_t
          MaxCalls, \* bound: calls of tgx_event_schedule_register
          NoFd, NoProc

\* sched_array is indexed with the descriptor without a test, so maxfds has to
\* exceed the process's limit of descriptors.
ASSUME SizeAssumption == MaxFds \in Nat /\ LastFd \in 0..(MaxFds - 1) /\ MaxCalls \in Nat
ASSUME WidthAssumption == SizeT \in Nat /\ SizeT > MaxFds
ASSUME NameAssumption == NoFd \notin Int /\ Main \notin Worker /\ NoProc \notin Worker \cup {Main}

Proc  == Worker \cup {Main}
Index == 0..(MaxFds - 1)
Fd    == 0..LastFd

VARIABLES
  sched_array,  \* the descriptor an entry is for, or NoFd
  usedfds,
  pc,           \* program point of each process inside register or unregister
  fd,           \* its argument
  reg,          \* the value of usedfds it has loaded
  tcycle_lock,
  status,       \* what became of each descriptor number
  calls         \* calls of tgx_event_schedule_register so far

vars == <<sched_array, usedfds, pc, fd, reg, tcycle_lock, status, calls>>

TypeOK ==
  /\ sched_array \in [Index -> Fd \cup {NoFd}]
  /\ usedfds \in 0..(SizeT - 1)
  /\ pc \in [Proc -> {"idle", "r_load", "r_store", "r_check", "r_place",
                      "u_lock", "u_find", "u_load", "u_store"}]
  /\ fd \in [Proc -> Fd \cup {NoFd}]
  /\ reg \in [Proc -> 0..(SizeT - 1)]
  /\ tcycle_lock \in Proc \cup {NoProc}
  /\ status \in [Fd -> {"closed", "registering", "registered", "unregistering", "refused"}]
  /\ calls \in 0..MaxCalls

Init ==
  /\ sched_array = [i \in Index |-> NoFd]
  /\ usedfds = 0
  /\ pc = [p \in Proc |-> "idle"]
  /\ fd = [p \in Proc |-> NoFd]
  /\ reg = [p \in Proc |-> 0]
  /\ tcycle_lock = NoProc
  /\ status = [f \in Fd |-> "closed"]
  /\ calls = 0

Goto(p, l) == pc' = [pc EXCEPT ![p] = l]
Load(p) == reg' = [reg EXCEPT ![p] = usedfds]

\* tgx_find_schedule_index: the slot of the same number, else the first slot
\* with the descriptor, else TGX_NO_INDEX_FIND.
NO_INDEX_FIND == -1
SlotsOf(f) == {i \in Index : sched_array[i] = f}
find_schedule_index(f) ==
  IF f \in SlotsOf(f) THEN f ELSE IF SlotsOf(f) = {} THEN NO_INDEX_FIND ELSE Min(SlotsOf(f))

----------------------------------------------------------------------------
(* tgx_event_schedule_register, called by the loop for a fresh descriptor *)

Register(f) ==
  /\ pc[Main] = "idle"
  /\ status[f] = "closed"
  /\ calls < MaxCalls
  /\ calls' = calls + 1
  /\ status' = [status EXCEPT ![f] = "registering"]
  /\ fd' = [fd EXCEPT ![Main] = f]
  /\ Goto(Main, "r_load")
  /\ UNCHANGED <<sched_array, usedfds, reg, tcycle_lock>>

RegisterLoad ==
  /\ pc[Main] = "r_load"
  /\ Load(Main)
  /\ Goto(Main, "r_store")
  /\ UNCHANGED <<sched_array, usedfds, fd, tcycle_lock, status, calls>>

RegisterStore ==
  /\ pc[Main] = "r_store"
  /\ usedfds' = (reg[Main] + 1) % SizeT
  /\ Goto(Main, "r_check")
  /\ UNCHANGED <<sched_array, fd, reg, tcycle_lock, status, calls>>

\* Too many descriptors, or a counter that lost increments and has wrapped below
\* 0: return -1 and keep the increment.  The accept handler returns too and the
\* descriptor stays open.
RegisterCheck ==
  /\ pc[Main] = "r_check"
  /\ IF usedfds > MaxFds - 1
       THEN /\ status' = [status EXCEPT ![fd[Main]] = "refused"]
            /\ Goto(Main, "idle")
       ELSE /\ Goto(Main, "r_place")
            /\ UNCHANGED status
  /\ UNCHANGED <<sched_array, usedfds, fd, reg, tcycle_lock, calls>>

\* The slot of the same number, else the first free one, else -1.
FreeSlots == {i \in Index : sched_array[i] = NoFd}
RegisterPlace ==
  /\ pc[Main] = "r_place"
  /\ LET f == fd[Main]
         slot == IF f \in FreeSlots THEN f ELSE Min(FreeSlots) IN
       IF FreeSlots # {}
         THEN /\ sched_array' = [sched_array EXCEPT ![slot] = f]
              /\ status' = [status EXCEPT ![f] = "registered"]
         ELSE /\ status' = [status EXCEPT ![f] = "refused"]
              /\ UNCHANGED sched_array
  /\ Goto(Main, "idle")
  /\ UNCHANGED <<usedfds, fd, reg, tcycle_lock, calls>>

----------------------------------------------------------------------------
(* tgx_event_schedule_unregister, called by tgx_close_connection *)

Unregister(p, f) ==
  /\ pc[p] = "idle"
  /\ status[f] = "registered"
  /\ status' = [status EXCEPT ![f] = "unregistering"]
  /\ fd' = [fd EXCEPT ![p] = f]
  /\ Goto(p, "u_lock")
  /\ UNCHANGED <<sched_array, usedfds, reg, tcycle_lock, calls>>

\* Mutant: the descriptor is closed before it is unregistered.
Mutant_UnregisterLock_closed(p) ==
  /\ pc[p] = "u_lock"
  /\ tcycle_lock = NoProc
  /\ tcycle_lock' = p
  /\ status' = [status EXCEPT ![fd[p]] = "closed"]
  /\ Goto(p, "u_find")
  /\ UNCHANGED <<sched_array, usedfds, fd, reg, calls>>

UnregisterLock(p) ==
  /\ pc[p] = "u_lock"
  /\ tcycle_lock = NoProc
  /\ tcycle_lock' = p
  /\ Goto(p, "u_find")
  /\ UNCHANGED <<sched_array, usedfds, fd, reg, status, calls>>

\* The call returns: tgx_close_connection unlocks and closes the descriptor.
Return(p) ==
  /\ tcycle_lock' = NoProc
  /\ status' = [status EXCEPT ![fd[p]] = "closed"]
  /\ Goto(p, "idle")

UnregisterFind(p) ==
  /\ pc[p] = "u_find"
  /\ LET r_index == find_schedule_index(fd[p]) IN
       IF fd[p] > MaxFds - 1 \/ r_index = NO_INDEX_FIND
         THEN Return(p) /\ UNCHANGED sched_array
         ELSE /\ sched_array' = [sched_array EXCEPT ![r_index] = NoFd]
              /\ Goto(p, "u_load")
              /\ UNCHANGED <<tcycle_lock, status>>
  /\ UNCHANGED <<usedfds, fd, reg, calls>>

UnregisterLoad(p) ==
  /\ pc[p] = "u_load"
  /\ Load(p)
  /\ Goto(p, "u_store")
  /\ UNCHANGED <<sched_array, usedfds, fd, tcycle_lock, status, calls>>

UnregisterStore(p) ==
  /\ pc[p] = "u_store"
  /\ usedfds' = (reg[p] - 1) % SizeT
  /\ Return(p)
  /\ UNCHANGED <<sched_array, fd, reg, calls>>

\* The bound is reached and nobody is inside a call.
Quiet == calls = MaxCalls /\ (\A p \in Proc : pc[p] = "idle") /\ UNCHANGED vars

----------------------------------------------------------------------------
Next ==
  \/ \E f \in Fd : Register(f) \/ \E p \in Proc : Unregister(p, f)
  \/ RegisterLoad \/ RegisterStore \/ RegisterCheck \/ RegisterPlace
  \/ \E p \in Proc : \/ UnregisterLock(p) \/ UnregisterFind(p)
                     \/ UnregisterLoad(p) \/ UnregisterStore(p)
  \/ Quiet

Spec == Init /\ [][Next]_vars

----------------------------------------------------------------------------
(* Properties *)

\* Every registered descriptor has exactly one entry, at its own number, so
\* that the lookup of an event finds it; a closed one has none.
LookupFinds ==
  \A f \in Fd : /\ status[f] = "registered" => SlotsOf(f) = {f} /\ find_schedule_index(f) = f
                /\ status[f] \in {"closed", "refused"} => SlotsOf(f) = {}

\* "This cannot happen, it was checked above" (line 132), and more: as long as
\* descriptor numbers stay below maxfds, the slot of the same number is free
\* when a registration gets to it, although the number has been used before
\* and a worker unregistered it.
PlaceFindsOwnSlot == pc[Main] = "r_place" => fd[Main] \in FreeSlots

\* What makes the two inductive.  A descriptor is in the hands of one caller at
\* a time: the loop while it is registered, one process while it is
\* unregistered, and the process that has the lock is past lock and before
\* unlock.
Registering(p) == pc[p] \in {"r_load", "r_store", "r_check", "r_place"}
Unregistering(p) == pc[p] \in {"u_lock", "u_find", "u_load", "u_store"}
OneCaller ==
  /\ \A p \in Worker : ~Registering(p)
  /\ \A p \in Proc : Registering(p) => fd[p] \in Fd /\ status[fd[p]] = "registering"
  /\ \A p \in Proc : Unregistering(p) => fd[p] \in Fd /\ status[fd[p]] = "unregistering"
  /\ \A p, q \in Proc :
       Unregistering(p) /\ Unregistering(q) /\ fd[p] = fd[q] => p = q
  /\ \A p \in Proc : pc[p] \in {"u_find", "u_load", "u_store"} <=> tcycle_lock = p

\* A slot is free or holds the descriptor of its own number, and it is taken
\* from registration until the entry is removed.
OwnSlots ==
  /\ \A i \in Index : sched_array[i] \in {NoFd, i}
  /\ \A f \in Fd : status[f] = "registered" => sched_array[f] = f
  /\ \A f \in Fd : status[f] \in {"closed", "registering", "refused"} => sched_array[f] = NoFd
  /\ \A p \in Proc : pc[p] \in {"u_load", "u_store"} => sched_array[fd[p]] = NoFd

IInv == TypeOK /\ OneCaller /\ OwnSlots

\* usedfds counts the active connections (line 52), whenever nobody is in
\* the middle of changing it.  This does not hold: RegisterLoad and
\* UnregisterLoad may both read the old value, and an update is lost.
UsedfdsCounts ==
  (\A p \in Proc : pc[p] = "idle")
    => usedfds = Cardinality({f \in Fd : status[f] = "registered"})
=============================================================================
