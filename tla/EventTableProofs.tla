-------------------------- MODULE EventTableProofs --------------------------
(***************************************************************************)
(* Theorems about the handler table, for any length of the table, any      *)
(* number of workers and any number of registrations: the unlocked counter *)
(* may drift, but the entries never do.                                    *)
(***************************************************************************)
EXTENDS EventTable, TLAPS

\* The table is empty and nobody is inside a call.
LEMMA InitInv == Init => IInv
  BY SizeAssumption, WidthAssumption, NameAssumption
     DEF Init, IInv, TypeOK, OneCaller, OwnSlots, Proc, Index, Fd, Registering, Unregistering

\* The counter keeps its width.
LEMMA WrapRange == \A n \in Int : n % SizeT \in 0..(SizeT - 1)
<1>1. SizeT \in Nat /\ SizeT > 0
  BY SizeAssumption, WidthAssumption
<1> QED BY <1>1

\* What a process inside a call knows of its argument.
LEMMA CallerHasFd ==
  ASSUME IInv, NEW p \in Proc
  PROVE  /\ Registering(p) => p = Main /\ fd[p] \in Fd /\ status[fd[p]] = "registering"
         /\ Unregistering(p) => fd[p] \in Fd /\ status[fd[p]] = "unregistering"
BY DEF IInv, OneCaller, Proc

\* The search looks at one slot in effect: the one of the descriptor's own
\* number, or none.
LEMMA SearchIsLocal ==
  ASSUME IInv, NEW f \in Fd
  PROVE  /\ SlotsOf(f) = IF sched_array[f] = f THEN {f} ELSE {}
         /\ find_schedule_index(f) = IF sched_array[f] = f THEN f ELSE NO_INDEX_FIND
<1>1. f \in Index /\ f # NoFd /\ \A i \in Index : sched_array[i] = f => i = f
  BY SizeAssumption, NameAssumption DEF IInv, OwnSlots, Fd, Index
<1>2. SlotsOf(f) = IF sched_array[f] = f THEN {f} ELSE {}
  BY <1>1 DEF SlotsOf
<1> QED BY <1>2 DEF find_schedule_index

\* When a registration gets to the table its own slot is free.
LEMMA OwnSlotIsFree ==
  ASSUME IInv, pc[Main] = "r_place"
  PROVE  fd[Main] \in Fd /\ fd[Main] \in FreeSlots
<1>1. Main \in Proc /\ Registering(Main)
  BY DEF Proc, Registering
<1>2. fd[Main] \in Fd /\ status[fd[Main]] = "registering"
  BY <1>1, CallerHasFd
<1> QED BY <1>2, SizeAssumption DEF IInv, OwnSlots, FreeSlots, Fd, Index

\* What RegisterPlace amounts to: the descriptor goes into its own slot.
LEMMA PlaceEffect ==
  ASSUME IInv, RegisterPlace
  PROVE  /\ fd[Main] \in Fd
         /\ sched_array' = [sched_array EXCEPT ![fd[Main]] = fd[Main]]
         /\ status' = [status EXCEPT ![fd[Main]] = "registered"]
BY OwnSlotIsFree DEF RegisterPlace

\* The search over the whole table finds a slot of the descriptor, or none has it.
LEMMA FindEffect ==
  ASSUME IInv, NEW p \in Proc, UnregisterFind(p)
  PROVE  /\ fd[p] \in Fd
         /\ \/ /\ sched_array[fd[p]] # fd[p]
               /\ sched_array' = sched_array
               /\ Return(p)
            \/ /\ sched_array' = [sched_array EXCEPT ![fd[p]] = NoFd]
               /\ Goto(p, "u_load")
               /\ tcycle_lock' = tcycle_lock /\ status' = status
<1>1. fd[p] \in Fd
  BY CallerHasFd DEF UnregisterFind, Unregistering
<1>2. ~(fd[p] > MaxFds - 1) /\ NO_INDEX_FIND \notin Fd
  BY <1>1, SizeAssumption DEF Fd, NO_INDEX_FIND
<1> QED BY <1>1, <1>2, SearchIsLocal DEF UnregisterFind

\* The types: what each step of register and unregister assigns.
LEMMA TypeStep == IInv /\ [Next]_vars => TypeOK'
<1> SUFFICES ASSUME IInv, [Next]_vars PROVE TypeOK'
  OBVIOUS
<1> USE SizeAssumption, NameAssumption DEF TypeOK, Goto, Load
<1>0. TypeOK /\ Main \in Proc
  BY DEF IInv, Proc
<1>1. ASSUME NEW f \in Fd, Register(f) PROVE TypeOK'
  BY <1>0, <1>1 DEF Register
<1>2. ASSUME NEW f \in Fd, NEW p \in Proc, Unregister(p, f) PROVE TypeOK'
  BY <1>0, <1>2 DEF Unregister
<1>3. CASE RegisterLoad
  BY <1>0, <1>3 DEF RegisterLoad
<1>4. CASE RegisterStore
  <2>1. reg[Main] \in Int /\ usedfds' = (reg[Main] + 1) % SizeT
    BY <1>0, <1>4 DEF RegisterStore
  <2>2. usedfds' \in 0..(SizeT - 1)
    BY <2>1, WrapRange
  <2>3. UNCHANGED <<sched_array, fd, reg, tcycle_lock, status, calls>>
    BY <1>4 DEF RegisterStore
  <2>4. pc' = [pc EXCEPT ![Main] = "r_check"]
    BY <1>4 DEF RegisterStore
  <2> QED BY <1>0, <2>2, <2>3, <2>4
<1>5. CASE RegisterCheck
  <2>1. fd[Main] \in Fd
    BY <1>0, <1>5, CallerHasFd DEF RegisterCheck, Registering
  <2> QED BY <1>0, <1>5, <2>1 DEF RegisterCheck
<1>6. CASE RegisterPlace
  BY <1>0, <1>6, PlaceEffect DEF RegisterPlace, Fd, Index
<1>7. ASSUME NEW p \in Proc, UnregisterLock(p) PROVE TypeOK'
  BY <1>0, <1>7 DEF UnregisterLock
<1>8. ASSUME NEW p \in Proc, UnregisterFind(p) PROVE TypeOK'
  <2>1. UNCHANGED <<usedfds, fd, reg, calls>>
    BY <1>8 DEF UnregisterFind
  <2> QED BY <1>0, <1>8, <2>1, FindEffect DEF Return
<1>9. ASSUME NEW p \in Proc, UnregisterLoad(p) PROVE TypeOK'
  BY <1>0, <1>9 DEF UnregisterLoad
<1>10. ASSUME NEW p \in Proc, UnregisterStore(p) PROVE TypeOK'
  <2>1. fd[p] \in Fd
    BY <1>10, CallerHasFd DEF UnregisterStore, Unregistering
  <2>2. reg[p] \in Int /\ usedfds' = (reg[p] - 1) % SizeT
    BY <1>0, <1>10 DEF UnregisterStore
  <2>3. usedfds' \in 0..(SizeT - 1)
    BY <2>2, WrapRange
  <2>4. UNCHANGED <<sched_array, fd, reg, calls>> /\ Return(p)
    BY <1>10 DEF UnregisterStore
  <2> QED BY <1>0, <2>1, <2>3, <2>4 DEF Return
<1>11. CASE Quiet \/ UNCHANGED vars
  BY <1>0, <1>11 DEF Quiet, vars
<1> QED BY <1>1, <1>2, <1>3, <1>4, <1>5, <1>6, <1>7, <1>8, <1>9, <1>10, <1>11 DEF Next

\* The loop leaves a registration: the number is nobody's argument any more.
LEMMA Released ==
  ASSUME IInv, Registering(Main), Goto(Main, "idle"), UNCHANGED <<fd, tcycle_lock>>,
         NEW s, status' = [status EXCEPT ![fd[Main]] = s]
  PROVE  OneCaller'
<1>1. /\ TypeOK /\ OneCaller /\ Main \in Proc /\ Main \notin Worker /\ Worker \subseteq Proc
      /\ fd[Main] \in Fd /\ status[fd[Main]] = "registering"
  BY NameAssumption DEF IInv, Proc, OneCaller
<1>2. \A q \in Proc : pc'[q] = IF q = Main THEN "idle" ELSE pc[q]
  BY <1>1 DEF TypeOK, Goto
<1>3. \A g \in Fd : g # fd[Main] => status'[g] = status[g]
  BY <1>1 DEF TypeOK
<1>4. \A q \in Worker : ~Registering(q)'
  BY <1>1, <1>2 DEF OneCaller, Registering
<1>5. \A q \in Proc : ~Registering(q)'
  BY <1>2, <1>4 DEF Registering, Proc
<1>6. \A q \in Proc : Unregistering(q)' => Unregistering(q) /\ fd[q] \in Fd /\ fd[q] # fd[Main]
  BY <1>1, <1>2 DEF OneCaller, Unregistering
<1>7. \A q \in Proc : pc'[q] \in {"u_find", "u_load", "u_store"} <=> tcycle_lock' = q
  BY <1>1, <1>2 DEF OneCaller, Registering
<1> QED BY <1>1, <1>3, <1>4, <1>5, <1>6, <1>7 DEF OneCaller

\* A descriptor keeps its one caller: Register takes a closed number and
\* Unregister a registered one, which nobody has in hand, and only the process
\* itself passes its number on or gives the lock back.
LEMMA OneCallerStep == IInv /\ [Next]_vars => OneCaller'
<1> SUFFICES ASSUME IInv, [Next]_vars PROVE OneCaller'
  OBVIOUS
<1> USE NameAssumption DEF OneCaller, Registering, Unregistering
<1>0. TypeOK /\ OneCaller /\ Main \in Proc /\ Main \notin Worker /\ Worker \subseteq Proc
      /\ NoProc \notin Proc
  BY DEF IInv, Proc
<1>1. ASSUME NEW f \in Fd, Register(f) PROVE OneCaller'
  BY <1>0, <1>1 DEF Register, TypeOK, Goto
<1>2. ASSUME NEW f \in Fd, NEW p \in Proc, Unregister(p, f) PROVE OneCaller'
  BY <1>0, <1>2 DEF Unregister, TypeOK, Goto
<1>3. CASE RegisterLoad
  BY <1>0, <1>3 DEF RegisterLoad, TypeOK, Goto
<1>4. CASE RegisterStore
  BY <1>0, <1>4 DEF RegisterStore, TypeOK, Goto
<1>5. CASE RegisterCheck
  <2>1. fd[Main] \in Fd /\ status[fd[Main]] = "registering"
    BY <1>0, <1>5 DEF RegisterCheck
  <2>2. CASE status' = [status EXCEPT ![fd[Main]] = "refused"] /\ Goto(Main, "idle")
    BY <1>0, <1>5, <2>1, <2>2, Released DEF RegisterCheck, TypeOK, Goto
  <2>3. CASE Goto(Main, "r_place") /\ UNCHANGED status
    BY <1>0, <1>5, <2>1, <2>3 DEF RegisterCheck, TypeOK, Goto
  <2> QED BY <1>5, <2>2, <2>3 DEF RegisterCheck
<1>6. CASE RegisterPlace
  BY <1>0, <1>6, PlaceEffect, Released DEF RegisterPlace
<1>7. ASSUME NEW p \in Proc, UnregisterLock(p) PROVE OneCaller'
  BY <1>0, <1>7 DEF UnregisterLock, TypeOK, Goto
<1>8. ASSUME NEW p \in Proc, UnregisterFind(p) PROVE OneCaller'
  <2>1. UNCHANGED fd /\ pc[p] = "u_find"
    BY <1>8 DEF UnregisterFind
  <2> QED BY <1>0, <1>8, <2>1, FindEffect DEF Return, TypeOK, Goto
<1>9. ASSUME NEW p \in Proc, UnregisterLoad(p) PROVE OneCaller'
  BY <1>0, <1>9 DEF UnregisterLoad, TypeOK, Goto
<1>10. ASSUME NEW p \in Proc, UnregisterStore(p) PROVE OneCaller'
  BY <1>0, <1>10 DEF UnregisterStore, Return, TypeOK, Goto
<1>11. CASE Quiet \/ UNCHANGED vars
  BY <1>0, <1>11 DEF Quiet, vars
<1> QED BY <1>1, <1>2, <1>3, <1>4, <1>5, <1>6, <1>7, <1>8, <1>9, <1>10, <1>11 DEF Next

\* A slot changes hands with the status of its descriptor.
LEMMA OwnSlotsStep == IInv /\ [Next]_vars => OwnSlots'
<1> SUFFICES ASSUME IInv, [Next]_vars PROVE OwnSlots'
  OBVIOUS
<1> USE NameAssumption DEF OwnSlots
<1>0. TypeOK /\ OneCaller /\ OwnSlots /\ Main \in Proc /\ Fd \subseteq Index
  BY SizeAssumption DEF IInv, Proc, Fd, Index
<1>1. ASSUME NEW f \in Fd, Register(f) PROVE OwnSlots'
  BY <1>0, <1>1 DEF Register, TypeOK, Goto
<1>2. ASSUME NEW f \in Fd, NEW p \in Proc, Unregister(p, f) PROVE OwnSlots'
  BY <1>0, <1>2 DEF Unregister, TypeOK, Goto
<1>3. CASE RegisterLoad
  BY <1>0, <1>3 DEF RegisterLoad, TypeOK, Goto
<1>4. CASE RegisterStore
  BY <1>0, <1>4 DEF RegisterStore, TypeOK, Goto
<1>5. CASE RegisterCheck
  BY <1>0, <1>5 DEF RegisterCheck, TypeOK, Goto, OneCaller, Registering
<1>6. CASE RegisterPlace
  BY <1>0, <1>6, PlaceEffect DEF RegisterPlace, TypeOK, Goto, OneCaller, Registering, Unregistering
<1>7. ASSUME NEW p \in Proc, UnregisterLock(p) PROVE OwnSlots'
  BY <1>0, <1>7 DEF UnregisterLock, TypeOK, Goto
<1>8. ASSUME NEW p \in Proc, UnregisterFind(p) PROVE OwnSlots'
  <2>1. UNCHANGED fd /\ pc[p] = "u_find" /\ fd[p] \in Fd /\ status[fd[p]] = "unregistering"
    BY <1>8, CallerHasFd DEF UnregisterFind, Unregistering
  <2>2. CASE sched_array[fd[p]] # fd[p] /\ sched_array' = sched_array /\ Return(p)
    BY <1>0, <2>1, <2>2 DEF Return, TypeOK, Goto
  <2>3. CASE /\ sched_array' = [sched_array EXCEPT ![fd[p]] = NoFd]
             /\ Goto(p, "u_load") /\ status' = status
    BY <1>0, <2>1, <2>3 DEF TypeOK, Goto
  <2> QED BY <1>8, <2>2, <2>3, FindEffect
<1>9. ASSUME NEW p \in Proc, UnregisterLoad(p) PROVE OwnSlots'
  BY <1>0, <1>9 DEF UnregisterLoad, TypeOK, Goto
<1>10. ASSUME NEW p \in Proc, UnregisterStore(p) PROVE OwnSlots'
  BY <1>0, <1>10 DEF UnregisterStore, Return, TypeOK, Goto, OneCaller, Unregistering
<1>11. CASE Quiet \/ UNCHANGED vars
  BY <1>0, <1>11 DEF Quiet, vars
<1> QED BY <1>1, <1>2, <1>3, <1>4, <1>5, <1>6, <1>7, <1>8, <1>9, <1>10, <1>11 DEF Next

\* The inductive invariant of the table holds in every reachable state.
THEOREM Invariance == Spec => []IInv
<1>1. IInv /\ [Next]_vars => IInv'
  BY TypeStep, OneCallerStep, OwnSlotsStep DEF IInv
<1> QED BY InitInv, <1>1, PTL DEF Spec

\* The event of a registered descriptor always finds its own entry, and a
\* closed descriptor never has one (tgx_find_schedule_index), whatever the
\* unlocked counter says.
THEOREM LookupFindsAlways == Spec => []LookupFinds
<1>1. IInv => LookupFinds
  <2> SUFFICES ASSUME IInv, NEW f \in Fd
               PROVE  /\ status[f] = "registered" => SlotsOf(f) = {f} /\ find_schedule_index(f) = f
                      /\ status[f] \in {"closed", "refused"} => SlotsOf(f) = {}
    BY DEF LookupFinds
  <2>1. f # NoFd
    BY NameAssumption, SizeAssumption DEF Fd
  <2> QED BY <2>1, SearchIsLocal DEF IInv, OwnSlots
<1> QED BY Invariance, <1>1, PTL

\* "This cannot happen, it was checked above": the search for a free slot
\* always ends at the slot of the descriptor's own number.
THEOREM PlaceFindsOwnSlotAlways == Spec => []PlaceFindsOwnSlot
<1>1. IInv => PlaceFindsOwnSlot
  BY OwnSlotIsFree DEF PlaceFindsOwnSlot
<1> QED BY Invariance, <1>1, PTL
=============================================================================
