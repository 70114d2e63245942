----------------------------- MODULE MoteProofs -----------------------------
(***************************************************************************)
(* Theorems about the motes, for any set of sensor nodes, any capacity of  *)
(* the queue and any number of samples: the two message buffers are stable *)
(* while the stack below reads them, and the serial line keeps the order   *)
(* of the queue.                                                           *)
(***************************************************************************)
EXTENDS Mote, TLAPS

\* No message is the absence of one.
LEMMA MsgIsNotNoMsg == NoMsg \notin Msg
  BY NodeAssumption DEF Msg

\* After Boot.booted the timer runs, nothing is sent and nothing was received.
LEMMA InitInv == Init => IInv
<1> SUFFICES ASSUME Init PROVE IInv
  OBVIOUS
<1>1. TypeOK
  <2>1. /\ radio \in [Node -> BOOLEAN] /\ readTimer \in [Node -> BOOLEAN]
        /\ radioBusy \in [Node -> BOOLEAN] /\ failed \in [Node -> BOOLEAN]
    BY Zenon DEF Init
  <2>2. /\ serial \in BOOLEAN /\ serialBusy \in BOOLEAN
        /\ pending \in BOOLEAN /\ dogTimer \in BOOLEAN
    BY DEF Init
  <2>3. /\ chain \in [Node -> 0..LastSensor] /\ round \in [Node -> 0..MaxRounds]
        /\ m_sensor \in [Node -> Msg \cup {NoMsg}] /\ handed \in [Node -> Msg \cup {NoMsg}]
    BY BoundAssumption DEF Init, LastSensor
  <2>4. /\ queue \in Seq(Msg) /\ Len(queue) <= QueueSize /\ beats \in 0..MaxBeats
        /\ received \in Seq(Msg) /\ line \in Seq(Msg)
    BY BoundAssumption DEF Init
  <2> QED BY <2>1, <2>2, <2>3, <2>4 DEF Init, TypeOK
<1>2. OneActivity /\ SampleIsStable /\ SerialIsStable /\ QueueIsRest
  BY DEF Init, OneActivity, SampleIsStable, SerialIsStable, QueueIsRest, Taken
<1>3. Taken = 0 /\ Len(line) = 0 /\ given = NoMsg /\ serialBusy = FALSE
  BY DEF Init, Taken
<1>4. PumpInOrder
  <2>1. [i \in 1..0 |-> 1] \in [1..Len(line) -> 1..Taken]
    BY <1>3
  <2>2. 1..Len(line) = {}
    BY <1>3
  <2> QED BY <1>3, <2>1, <2>2 DEF PumpInOrder, Increasing
<1> QED BY <1>1, <1>2, <1>4 DEF IInv

-----------------------------------------------------------------------------
(* The sensor nodes *)

NodeInv == OneActivity /\ SampleIsStable
NodeTypeOK ==
  /\ radio \in [Node -> BOOLEAN] /\ readTimer \in [Node -> BOOLEAN]
  /\ chain \in [Node -> 0..LastSensor]
  /\ round \in [Node -> 0..MaxRounds]
  /\ m_sensor \in [Node -> Msg \cup {NoMsg}] /\ handed \in [Node -> Msg \cup {NoMsg}]
  /\ radioBusy \in [Node -> BOOLEAN] /\ failed \in [Node -> BOOLEAN]

\* Every event of a node keeps to one activity: the chain starts when the timer
\* has fired, it ends with the message, and the timer starts at sendDone.
LEMMA NodeStepInv ==
  ASSUME NodeTypeOK, NodeInv, NEW n \in Node, NodeStep(n)
  PROVE  NodeTypeOK' /\ NodeInv' /\ UNCHANGED <<air, baseVars>>
<1> USE BoundAssumption, MsgIsNotNoMsg DEF NodeTypeOK, NodeInv, OneActivity, SampleIsStable, LastSensor
<1>1. CASE RadioStartDone(n)
  BY <1>1 DEF RadioStartDone
<1>2. CASE SensorReadTimerFired(n)
  BY <1>2 DEF SensorReadTimerFired
<1>3. CASE ReadDone(n)
  BY <1>3 DEF ReadDone
<1>4. CASE MagYReadDone(n)
  <2>1. /\ handed[n] = NoMsg /\ radioBusy[n] = FALSE /\ readTimer[n] = FALSE
        /\ round[n] + 1 \in 1..MaxRounds /\ <<n, round[n] + 1>> \in Msg
    BY <1>4 DEF MagYReadDone, Msg
  <2>2. PICK sends \in {FALSE, radio[n]} :
          IF sends /\ ~radioBusy[n]
            THEN /\ radioBusy' = [radioBusy EXCEPT ![n] = TRUE]
                 /\ handed' = [handed EXCEPT ![n] = <<n, round[n] + 1>>]
                 /\ UNCHANGED failed
            ELSE /\ failed' = [failed EXCEPT ![n] = @ \/ ~radioBusy[n]]
                 /\ UNCHANGED <<radioBusy, handed>>
    BY <1>4 DEF MagYReadDone
  <2>3. failed' \in [Node -> BOOLEAN]
    BY <2>2
  <2>4. /\ radioBusy' \in [Node -> BOOLEAN] /\ handed' \in [Node -> Msg \cup {NoMsg}]
        /\ m_sensor' \in [Node -> Msg \cup {NoMsg}]
    <3>1. \/ UNCHANGED radioBusy \/ radioBusy' = [radioBusy EXCEPT ![n] = TRUE]
      BY <2>2
    <3>2. \/ UNCHANGED handed \/ handed' = [handed EXCEPT ![n] = <<n, round[n] + 1>>]
      BY <2>2
    <3>3. radioBusy' \in [Node -> BOOLEAN]
      BY <3>1
    <3>4. handed' \in [Node -> Msg \cup {NoMsg}]
      BY <2>1, <3>2
    <3>5. m_sensor' = [m_sensor EXCEPT ![n] = <<n, round[n] + 1>>]
      BY <1>4 DEF MagYReadDone
    <3>6. m_sensor' \in [Node -> Msg \cup {NoMsg}]
      BY <2>1, <3>5
    <3> QED BY <3>3, <3>4, <3>6
  <2>5. /\ round' \in [Node -> 0..MaxRounds] /\ chain' \in [Node -> 0..LastSensor]
        /\ chain'[n] = 0 /\ m_sensor'[n] = <<n, round[n] + 1>>
        /\ UNCHANGED <<radio, readTimer, air, baseVars>>
    BY <1>4, <2>1 DEF MagYReadDone
  <2>6. \/ radioBusy'[n] /\ handed'[n] = <<n, round[n] + 1>>
        \/ ~radioBusy'[n] /\ handed'[n] = NoMsg
    BY <2>1, <2>2
  <2>7. \A k \in Node : k # n =>
          /\ radioBusy'[k] = radioBusy[k] /\ handed'[k] = handed[k]
          /\ m_sensor'[k] = m_sensor[k] /\ chain'[k] = chain[k] /\ round'[k] = round[k]
    BY <1>4, <2>2 DEF MagYReadDone
  <2>8. NodeTypeOK'
    BY <2>3, <2>4, <2>5
  <2>9. NodeInv'
    BY <2>1, <2>5, <2>6, <2>7
  <2> QED BY <2>5, <2>8, <2>9
<1>5. CASE SendDone(n)
  BY <1>5 DEF SendDone
<1> QED BY <1>1, <1>2, <1>3, <1>4, <1>5 DEF NodeStep

-----------------------------------------------------------------------------
(* The base station *)

BaseInv == SerialIsStable /\ QueueIsRest /\ PumpInOrder
BaseTypeOK ==
  /\ serial \in BOOLEAN /\ serialBusy \in BOOLEAN
  /\ pending \in BOOLEAN /\ dogTimer \in BOOLEAN
  /\ queue \in Seq(Msg) /\ Len(queue) <= QueueSize
  /\ m_serial \in Msg \cup {NoMsg} /\ given \in Msg \cup {NoMsg}
  /\ beats \in 0..MaxBeats
  /\ received \in Seq(Msg) /\ line \in Seq(Msg)

\* A message that is queued is the last received; what was taken before stays.
LEMMA EnqueueInv ==
  ASSUME BaseTypeOK, BaseInv, NEW m \in Msg, Enqueue(m),
         UNCHANGED <<serialBusy, m_serial, given, line>>
  PROVE  /\ queue' \in Seq(Msg) /\ Len(queue') <= QueueSize /\ received' \in Seq(Msg)
         /\ BaseInv'
<1>1. CASE UNCHANGED <<queue, received>>
  BY <1>1 DEF BaseTypeOK, BaseInv, SerialIsStable, QueueIsRest, PumpInOrder, Taken
<1>2. CASE Len(queue) < QueueSize /\ queue' = Append(queue, m) /\ received' = Append(received, m)
  <2>1. /\ queue' \in Seq(Msg) /\ received' \in Seq(Msg)
        /\ Len(queue') = Len(queue) + 1 /\ Len(received') = Len(received) + 1
        /\ \A i \in 1..Len(queue) : queue'[i] = queue[i]
        /\ \A i \in 1..Len(received) : received'[i] = received[i]
        /\ queue'[Len(queue) + 1] = m /\ received'[Len(received) + 1] = m
        /\ Len(queue) \in Nat /\ Len(received) \in Nat
    BY <1>2 DEF BaseTypeOK
  <2>2. Len(queue') <= QueueSize
    BY <1>2, <2>1, BoundAssumption
  <2>3. Taken' = Taken /\ Taken \in Nat /\ Taken <= Len(received)
    BY <2>1 DEF Taken, BaseInv, QueueIsRest
  <2>4. QueueIsRest'
    <3> SUFFICES ASSUME NEW i \in 1..(Len(queue) + 1) PROVE queue'[i] = received'[Taken + i]
      BY <2>1, <2>3 DEF QueueIsRest
    <3>1. CASE i \in 1..Len(queue)
      BY <2>1, <2>3, <3>1 DEF BaseInv, QueueIsRest, Taken
    <3>2. CASE i = Len(queue) + 1
      BY <2>1, <2>3, <3>2 DEF Taken
    <3> QED BY <2>1, <3>1, <3>2
  <2>5. \A k \in 1..Taken : received'[k] = received[k]
    BY <2>1, <2>3
  <2>6. PumpInOrder'
    <3>1. PICK f \in [1..Len(line) -> 1..Taken] :
            /\ Increasing(f, Len(line))
            /\ \A i \in 1..Len(line) : line[i] = received[f[i]]
            /\ given # NoMsg => \E k \in 1..Taken : /\ received[k] = given
                                                    /\ \A i \in 1..Len(line) : f[i] < k
      BY DEF BaseInv, PumpInOrder
    <3>2. \A i \in 1..Len(line) : line[i] = received'[f[i]]
      BY <2>5, <3>1
    <3>3. given # NoMsg => \E k \in 1..Taken : /\ received'[k] = given
                                               /\ \A i \in 1..Len(line) : f[i] < k
      BY <2>5, <3>1
    <3>4. UNCHANGED <<line, given, serialBusy>> /\ (serialBusy <=> given # NoMsg)
      BY DEF BaseInv, PumpInOrder
    <3> QED BY <2>3, <3>1, <3>2, <3>3, <3>4 DEF PumpInOrder
  <2> QED BY <2>1, <2>2, <2>4, <2>6 DEF BaseInv, SerialIsStable
<1> QED BY <1>1, <1>2 DEF Enqueue

\* The task takes the head of the queue while the serial stack holds nothing:
\* it is later than all that is on the line, and if the stack takes it m_serial
\* is what the stack holds.
LEMMA PumpInv ==
  ASSUME BaseTypeOK, BaseInv, ~serialBusy, queue # <<>>, Pump, UNCHANGED <<received, line>>
  PROVE  /\ queue' \in Seq(Msg) /\ Len(queue') <= QueueSize
         /\ m_serial' \in Msg /\ given' \in Msg \cup {NoMsg} /\ serialBusy' \in BOOLEAN
         /\ BaseInv'
<1>1. given = NoMsg
  BY DEF BaseInv, PumpInOrder
<1>2. /\ queue' \in Seq(Msg) /\ Len(queue') = Len(queue) - 1 /\ Head(queue) = queue[1]
      /\ Len(queue) \in Nat \ {0} /\ Len(received) \in Nat
      /\ \A i \in 1..(Len(queue) - 1) : queue'[i] = queue[i + 1]
      /\ Head(queue) \in Msg /\ m_serial' = Head(queue)
  BY DEF BaseTypeOK, Pump
<1>3. Taken \in Nat /\ Taken' = Taken + 1 /\ received[Taken + 1] = Head(queue)
  BY <1>2 DEF BaseInv, QueueIsRest, Taken
<1>4. QueueIsRest'
  <2> SUFFICES ASSUME NEW i \in 1..(Len(queue) - 1) PROVE queue'[i] = received[Taken + 1 + i]
    BY <1>2, <1>3 DEF QueueIsRest
  <2>1. i + 1 \in 1..Len(queue) /\ Taken + (i + 1) = Taken + 1 + i
    BY <1>2, <1>3
  <2>2. queue[i + 1] = received[Taken + (i + 1)]
    BY <2>1 DEF BaseInv, QueueIsRest
  <2> QED BY <1>2, <2>1, <2>2
<1>5. \/ serialBusy' = TRUE /\ given' = Head(queue)
      \/ UNCHANGED <<serialBusy, given>>
  BY DEF Pump
<1>6. SerialIsStable' /\ (serialBusy' <=> given' # NoMsg)
  BY <1>1, <1>2, <1>5, MsgIsNotNoMsg DEF BaseInv, PumpInOrder, SerialIsStable
<1>7. PICK f \in [1..Len(line) -> 1..Taken] :
        /\ Increasing(f, Len(line))
        /\ \A i \in 1..Len(line) : line[i] = received[f[i]]
  BY DEF BaseInv, PumpInOrder
<1>8. f \in [1..Len(line) -> 1..Taken'] /\ \A i \in 1..Len(line) : f[i] < Taken + 1
  BY <1>3, <1>7
<1>9. given' # NoMsg => Taken + 1 \in 1..Taken' /\ received[Taken + 1] = given'
  BY <1>1, <1>3, <1>5
<1>10. PumpInOrder'
  BY <1>6, <1>7, <1>8, <1>9 DEF PumpInOrder
<1>11. serialBusy' \in BOOLEAN
  BY <1>5 DEF BaseTypeOK
<1>12. Len(queue') <= QueueSize /\ given' \in Msg \cup {NoMsg}
  BY <1>1, <1>2, <1>5, BoundAssumption DEF BaseTypeOK
<1> QED BY <1>2, <1>4, <1>6, <1>10, <1>11, <1>12 DEF BaseInv

\* What was sent goes to the end of the line.
LEMMA SerialSendDoneInv ==
  ASSUME BaseTypeOK, BaseInv, SerialSendDone
  PROVE  BaseTypeOK' /\ BaseInv'
<1>1. /\ given # NoMsg /\ m_serial = given /\ given \in Msg
      /\ given' = NoMsg /\ serialBusy' = FALSE /\ line' = Append(line, given)
      /\ UNCHANGED <<queue, received, m_serial, serial, dogTimer, beats>> /\ pending' = TRUE
  BY DEF SerialSendDone, BaseInv, SerialIsStable, BaseTypeOK
<1>2. /\ line' \in Seq(Msg) /\ Len(line) \in Nat /\ Len(line') = Len(line) + 1
      /\ \A i \in 1..Len(line) : line'[i] = line[i]
      /\ line'[Len(line) + 1] = given
  BY <1>1 DEF BaseTypeOK
<1>3. Taken' = Taken /\ Taken \in Nat /\ QueueIsRest'
  BY <1>1 DEF BaseInv, QueueIsRest, Taken
<1>4. PICK f \in [1..Len(line) -> 1..Taken] :
        /\ Increasing(f, Len(line))
        /\ \A i \in 1..Len(line) : line[i] = received[f[i]]
        /\ given # NoMsg => \E k \in 1..Taken : /\ received[k] = given
                                                /\ \A i \in 1..Len(line) : f[i] < k
  BY DEF BaseInv, PumpInOrder
<1>5. PICK k \in 1..Taken : received[k] = given /\ \A i \in 1..Len(line) : f[i] < k
  BY <1>1, <1>4
<1> DEFINE g == [i \in 1..Len(line') |-> IF i = Len(line) + 1 THEN k ELSE f[i]]
<1>6. g \in [1..Len(line') -> 1..Taken']
  BY <1>2, <1>3, <1>4, <1>5
<1>7. Increasing(g, Len(line'))
  <2> SUFFICES ASSUME NEW i \in 1..Len(line'), NEW j \in 1..Len(line'), i < j PROVE g[i] < g[j]
    BY DEF Increasing
  <2>1. i \in 1..Len(line)
    BY <1>2
  <2> QED BY <1>2, <1>4, <1>5, <2>1 DEF Increasing
<1>8. \A i \in 1..Len(line') : line'[i] = received'[g[i]]
  BY <1>1, <1>2, <1>4, <1>5
<1>9. PumpInOrder'
  <2> HIDE DEF g
  <2> QED BY <1>1, <1>6, <1>7, <1>8 DEF PumpInOrder
<1> QED BY <1>1, <1>2, <1>3, <1>9 DEF BaseTypeOK, BaseInv, SerialIsStable

\* Every event and task of the base station keeps its part of the invariant.
LEMMA BaseStepInv ==
  ASSUME BaseTypeOK, BaseInv, BaseStep \/ BaseStationTimerFired
  PROVE  BaseTypeOK' /\ BaseInv' /\ UNCHANGED <<air, nodeVars>>
<1>1. CASE SerialStartDone
  BY <1>1 DEF SerialStartDone, BaseTypeOK, BaseInv, SerialIsStable, QueueIsRest, PumpInOrder, Taken
<1>2. CASE CheckDogTimerFired
  BY <1>2 DEF CheckDogTimerFired, BaseTypeOK, BaseInv, SerialIsStable, QueueIsRest, PumpInOrder,
              Taken
<1>3. CASE SerialSendDone
  BY <1>3, SerialSendDoneInv DEF SerialSendDone
<1>4. CASE sendSerialMsg
  <2>1. /\ pending' = FALSE /\ dogTimer' = TRUE
        /\ UNCHANGED <<nodeVars, air, serial, beats, received, line>>
    BY <1>4 DEF sendSerialMsg
  <2>2. CASE ~serialBusy /\ queue # <<>> /\ Pump
    BY <2>1, <2>2, PumpInv DEF BaseTypeOK
  <2>3. CASE UNCHANGED <<queue, m_serial, serialBusy, given>>
    BY <2>1, <2>3 DEF BaseTypeOK, BaseInv, SerialIsStable, QueueIsRest, PumpInOrder, Taken
  <2> QED BY <1>4, <2>2, <2>3 DEF sendSerialMsg
<1>5. CASE BaseStationTimerFired
  <2>1. <<Base, beats + 1>> \in Msg /\ beats' \in 0..MaxBeats
    BY <1>5, BoundAssumption DEF BaseStationTimerFired, BaseTypeOK, Msg
  <2> QED BY <1>5, <2>1, EnqueueInv DEF BaseStationTimerFired, BaseTypeOK
<1> QED BY <1>1, <1>2, <1>3, <1>4, <1>5 DEF BaseStep

-----------------------------------------------------------------------------
(* The network *)

\* The two halves meet in the air.
LEMMA IInvParts == IInv <=> /\ NodeTypeOK /\ NodeInv /\ air \subseteq Msg
                            /\ BaseTypeOK /\ BaseInv
  BY DEF IInv, TypeOK, NodeTypeOK, NodeInv, BaseTypeOK, BaseInv

\* Every step of the network keeps the invariant.
LEMMA NextInv == IInv /\ [Next]_vars => IInv'
<1> SUFFICES ASSUME NodeTypeOK, NodeInv, air \subseteq Msg, BaseTypeOK, BaseInv, [Next]_vars
             PROVE  (NodeTypeOK /\ NodeInv /\ air \subseteq Msg /\ BaseTypeOK /\ BaseInv)'
  BY IInvParts, PTL
<1>n. UNCHANGED nodeVars => NodeTypeOK' /\ NodeInv'
  BY DEF nodeVars, NodeTypeOK, NodeInv, OneActivity, SampleIsStable
<1>b. UNCHANGED baseVars => BaseTypeOK' /\ BaseInv'
  <2> SUFFICES ASSUME UNCHANGED baseVars PROVE BaseTypeOK' /\ BaseInv'
    OBVIOUS
  <2>1. BaseTypeOK' /\ SerialIsStable' /\ Taken' = Taken
    BY DEF baseVars, BaseTypeOK, BaseInv, SerialIsStable, Taken
  <2>2. QueueIsRest'
    BY <2>1 DEF baseVars, BaseInv, QueueIsRest
  <2>3. PumpInOrder'
    BY <2>1 DEF baseVars, BaseInv, PumpInOrder
  <2> QED BY <2>1, <2>2, <2>3 DEF BaseInv
<1>1. ASSUME NEW n \in Node, NodeStep(n)
      PROVE  (NodeTypeOK /\ NodeInv /\ air \subseteq Msg /\ BaseTypeOK /\ BaseInv)'
  BY <1>1, <1>b, NodeStepInv
<1>2. ASSUME NEW n \in Node, Transmit(n)
      PROVE  (NodeTypeOK /\ NodeInv /\ air \subseteq Msg /\ BaseTypeOK /\ BaseInv)'
  <2>1. m_sensor[n] \in Msg
    BY <1>2 DEF Transmit, NodeTypeOK, NodeInv, SampleIsStable
  <2> QED BY <1>2, <2>1, <1>n, <1>b DEF Transmit
<1>3. ASSUME NEW m \in Msg, Lose(m)
      PROVE  (NodeTypeOK /\ NodeInv /\ air \subseteq Msg /\ BaseTypeOK /\ BaseInv)'
  BY <1>3, <1>n, <1>b DEF Lose
<1>4. ASSUME NEW m \in Msg, Receive(m)
      PROVE  (NodeTypeOK /\ NodeInv /\ air \subseteq Msg /\ BaseTypeOK /\ BaseInv)'
  <2>1. /\ Enqueue(m) /\ air' \subseteq Msg
        /\ UNCHANGED <<nodeVars, serial, serialBusy, m_serial, given, pending, dogTimer, beats, line>>
    BY <1>4 DEF Receive
  <2> QED BY <2>1, <1>n, EnqueueInv DEF BaseTypeOK
<1>5. CASE BaseStep \/ BaseStationTimerFired
  BY <1>5, <1>n, BaseStepInv
<1>6. CASE UNCHANGED vars
  BY <1>6, <1>n, <1>b DEF vars
<1> QED BY <1>1, <1>2, <1>3, <1>4, <1>5, <1>6 DEF Next

\* The inductive invariant of the network holds in every reachable state.
THEOREM Invariance == Spec => []IInv
  BY InitInv, NextInv, PTL DEF Spec

\* MagY.readDone never fills m_sensor while CollectionSend still holds it.
THEOREM SampleIsStableAlways == Spec => []SampleIsStable
<1>1. IInv => SampleIsStable
  BY DEF IInv
<1> QED BY Invariance, <1>1, PTL

\* sendSerialMsg never fills m_serial while SerialSend still holds it, whoever
\* posted the task and however often.
THEOREM SerialIsStableAlways == Spec => []SerialIsStable
<1>1. IInv => SerialIsStable
  BY DEF IInv
<1> QED BY Invariance, <1>1, PTL

\* The serial line carries a subsequence of what was queued: in order and
\* nothing twice.
THEOREM LineInOrderAlways == Spec => []LineInOrder
<1>1. IInv => LineInOrder
  <2> SUFFICES ASSUME IInv PROVE LineInOrder
    OBVIOUS
  <2>1. PICK f \in [1..Len(line) -> 1..Taken] :
          Increasing(f, Len(line)) /\ \A i \in 1..Len(line) : line[i] = received[f[i]]
    BY DEF IInv, PumpInOrder
  <2>2. Len(received) \in Nat /\ Taken \in Nat /\ Taken <= Len(received)
    BY DEF IInv, TypeOK, QueueIsRest, Taken
  <2>3. f \in [1..Len(line) -> 1..Len(received)]
    BY <2>1, <2>2
  <2> QED BY <2>1, <2>3 DEF LineInOrder
<1> QED BY Invariance, <1>1, PTL
=============================================================================
