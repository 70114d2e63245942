------------------------------- MODULE Mote --------------------------------
(***************************************************************************)
(* The sensor network of src/src/motes/TgxC.nc: sensor nodes that sample   *)
(* and send over the collection tree, and the base station (node 0) that   *)
(* queues what it receives and pumps it into the serial line.              *)
(*                                                                         *)
(* TinyOS runs tasks and the events used here to completion, so each is    *)
(* one action.  A task that is posted again while it is pending stays      *)
(* posted once, and a one-shot timer that is started again is restarted.   *)
(***************************************************************************)
EXTENDS Integers, Sequences, FiniteSets

CONSTANTS Node,       \* the sensor nodes
          Base,       \* the base station
          QueueSize,  \* capacity of SerialMsgQueue
          MaxRounds,  \* bound: samples per node
          MaxBeats,   \* bound: messages of the base station about itself
          MaxReceived, \* bound: messages that get to SerialMsgQueue
          NoMsg

ASSUME NodeAssumption  == Base \notin Node /\ NoMsg \notin (Node \cup {Base}) \X Nat
ASSUME BoundAssumption == QueueSize \in Nat \ {0} /\ MaxRounds \in Nat /\ MaxBeats \in Nat
                          /\ MaxReceived \in Nat

Msg == (Node \X (1..MaxRounds)) \cup ({Base} \X (1..MaxBeats))
LastSensor == 7  \* Temp, Light, Microphone, AccelX, AccelY, MagX, MagY

VARIABLES
  \* the sensor nodes
  radio,       \* RadioControl and CollectionControl have started
  readTimer,   \* SensorReadTimer is running
  chain,       \* the sensor that is being read, 0 for none
  round,       \* samples taken
  m_sensor,    \* payload of m_sensor
  radioBusy,
  handed,      \* the message CollectionSend holds, by value when it was handed over
  failed,      \* CollectionSend.send has failed
  air,         \* messages in the collection tree
  \* the base station
  serial,      \* SerialControl has started
  queue,       \* SerialMsgQueue
  serialBusy,
  m_serial,    \* payload of m_serial
  given,       \* the message SerialSend holds, by value when it was handed over
  pending,     \* the task sendSerialMsg is posted
  dogTimer,    \* CheckDogTimer is running
  beats,       \* times BaseStationTimer has fired
  received,    \* messages put into SerialMsgQueue, in order
  line         \* messages that left on the serial line, in order

nodeVars == <<radio, readTimer, chain, round, m_sensor, radioBusy, handed, failed>>
baseVars == <<serial, queue, serialBusy, m_serial, given, pending, dogTimer, beats,
              received, line>>
vars == <<nodeVars, air, baseVars>>

TypeOK ==
  /\ radio \in [Node -> BOOLEAN] /\ readTimer \in [Node -> BOOLEAN]
  /\ chain \in [Node -> 0..LastSensor]
  /\ round \in [Node -> 0..MaxRounds]
  /\ m_sensor \in [Node -> Msg \cup {NoMsg}] /\ handed \in [Node -> Msg \cup {NoMsg}]
  /\ radioBusy \in [Node -> BOOLEAN] /\ failed \in [Node -> BOOLEAN]
  /\ air \subseteq Msg
  /\ serial \in BOOLEAN /\ serialBusy \in BOOLEAN
  /\ pending \in BOOLEAN /\ dogTimer \in BOOLEAN
  /\ queue \in Seq(Msg) /\ Len(queue) <= QueueSize
  /\ m_serial \in Msg \cup {NoMsg} /\ given \in Msg \cup {NoMsg}
  /\ beats \in 0..MaxBeats
  /\ received \in Seq(Msg) /\ line \in Seq(Msg)

\* Boot.booted: the nodes start the timer and the radio, the base station the
\* serial line (the base station's radio only lets it receive).
Init ==
  /\ radio = [n \in Node |-> FALSE]
  /\ readTimer = [n \in Node |-> TRUE]
  /\ chain = [n \in Node |-> 0]
  /\ round = [n \in Node |-> 0]
  /\ m_sensor = [n \in Node |-> NoMsg]
  /\ radioBusy = [n \in Node |-> FALSE]
  /\ handed = [n \in Node |-> NoMsg]
  /\ failed = [n \in Node |-> FALSE]
  /\ air = {}
  /\ serial = FALSE /\ queue = <<>> /\ serialBusy = FALSE
  /\ m_serial = NoMsg /\ given = NoMsg
  /\ pending = FALSE /\ dogTimer = FALSE /\ beats = 0
  /\ received = <<>> /\ line = <<>>

----------------------------------------------------------------------------
(* A sensor node *)

\* RadioControl.startDone: on an error the radio is started again.
RadioStartDone(n) ==
  /\ ~radio[n]
  /\ \E error \in BOOLEAN : radio' = [radio EXCEPT ![n] = ~error]
  /\ UNCHANGED <<readTimer, chain, round, m_sensor, radioBusy, handed, failed, air, baseVars>>

SensorReadTimerFired(n) ==
  /\ readTimer[n] /\ round[n] < MaxRounds
  /\ readTimer' = [readTimer EXCEPT ![n] = FALSE]
  /\ chain' = [chain EXCEPT ![n] = 1]
  /\ UNCHANGED <<radio, round, m_sensor, radioBusy, handed, failed, air, baseVars>>

\* The readDone of every sensor but the last reads the next one.
ReadDone(n) ==
  /\ chain[n] \in 1..(LastSensor - 1)
  /\ chain' = [chain EXCEPT ![n] = @ + 1]
  /\ UNCHANGED <<radio, readTimer, round, m_sensor, radioBusy, handed, failed, air, baseVars>>

\* Mutant: the next sample is started when this one was handed over.
Mutant_MagYReadDone_pipelined(n) ==
  /\ chain[n] = LastSensor
  /\ chain' = [chain EXCEPT ![n] = 0]
  /\ round' = [round EXCEPT ![n] = @ + 1]
  /\ LET msg == <<n, round[n] + 1>> IN
       /\ m_sensor' = [m_sensor EXCEPT ![n] = msg]
       /\ handed' = [handed EXCEPT ![n] = IF radioBusy[n] THEN @ ELSE msg]
  /\ radioBusy' = [radioBusy EXCEPT ![n] = TRUE]
  /\ readTimer' = [readTimer EXCEPT ![n] = TRUE]
  /\ UNCHANGED <<radio, failed, air, baseVars>>

\* MagY.readDone fills the payload and hands it to CollectionSend, which
\* refuses while the radio is off and may refuse later.
MagYReadDone(n) ==
  /\ chain[n] = LastSensor
  /\ chain' = [chain EXCEPT ![n] = 0]
  /\ round' = [round EXCEPT ![n] = @ + 1]
  /\ LET msg == <<n, round[n] + 1>> IN
       /\ m_sensor' = [m_sensor EXCEPT ![n] = msg]
       /\ \E sends \in {FALSE, radio[n]} :
            IF sends /\ ~radioBusy[n]
              THEN /\ radioBusy' = [radioBusy EXCEPT ![n] = TRUE]
                   /\ handed' = [handed EXCEPT ![n] = msg]
                   /\ UNCHANGED failed
              ELSE /\ failed' = [failed EXCEPT ![n] = @ \/ ~radioBusy[n]]
                   /\ UNCHANGED <<radioBusy, handed>>
  /\ UNCHANGED <<radio, readTimer, air, baseVars>>

\* The payload goes out on the air (external), read from m_sensor.
Transmit(n) ==
  /\ handed[n] # NoMsg
  /\ air' = air \cup {m_sensor[n]}
  /\ UNCHANGED <<nodeVars, baseVars>>

\* Mutant: sampling goes on only after a transmission without an error.
Mutant_SendDone_error_stops(n) ==
  /\ handed[n] # NoMsg
  /\ handed' = [handed EXCEPT ![n] = NoMsg]
  /\ radioBusy' = [radioBusy EXCEPT ![n] = FALSE]
  /\ \E error \in BOOLEAN : readTimer' = [readTimer EXCEPT ![n] = ~error]
  /\ UNCHANGED <<radio, chain, round, m_sensor, failed, air, baseVars>>

\* CollectionSend.sendDone, with or without an error.
SendDone(n) ==
  /\ handed[n] # NoMsg
  /\ handed' = [handed EXCEPT ![n] = NoMsg]
  /\ radioBusy' = [radioBusy EXCEPT ![n] = FALSE]
  /\ readTimer' = [readTimer EXCEPT ![n] = TRUE]
  /\ UNCHANGED <<radio, chain, round, m_sensor, failed, air, baseVars>>

\* The collection tree loses a message (external).
Lose(m) == m \in air /\ air' = air \ {m} /\ UNCHANGED <<nodeVars, baseVars>>

----------------------------------------------------------------------------
(* The base station *)

\* BigQueue.enqueue fails on a full queue, which nobody looks at.
Enqueue(m) ==
  IF Len(queue) < QueueSize
    THEN queue' = Append(queue, m) /\ received' = Append(received, m)
    ELSE UNCHANGED <<queue, received>>

\* CollectionReceive.receive
Receive(m) ==
  /\ m \in air /\ Len(received) < MaxReceived
  /\ air' = air \ {m}
  /\ Enqueue(m)
  /\ UNCHANGED <<nodeVars, serial, serialBusy, m_serial, given, pending, dogTimer, beats, line>>

\* SerialControl.startDone starts BaseStationTimer and posts the task, whatever
\* the error.
SerialStartDone ==
  /\ ~serial
  /\ serial' = TRUE
  /\ pending' = TRUE
  /\ UNCHANGED <<nodeVars, air, queue, serialBusy, m_serial, given, dogTimer, beats,
                 received, line>>

BaseStationTimerFired ==
  /\ serial /\ beats < MaxBeats
  /\ beats' = beats + 1
  /\ Enqueue(<<Base, beats + 1>>)
  /\ UNCHANGED <<nodeVars, air, serial, serialBusy, m_serial, given, pending, dogTimer, line>>

\* Mutant: the message is looked at but stays in the queue.
Mutant_Pump_peek ==
  /\ m_serial' = Head(queue)
  /\ \E sends \in BOOLEAN :
       IF sends /\ given = NoMsg
         THEN serialBusy' = TRUE /\ given' = Head(queue)
         ELSE UNCHANGED <<serialBusy, given>>
  /\ UNCHANGED queue

\* What the task does to the queue and the serial line: the message leaves
\* the queue before send accepts or refuses it.
Pump ==
  /\ queue' = Tail(queue)
  /\ m_serial' = Head(queue)
  /\ \E sends \in BOOLEAN :
       IF sends /\ given = NoMsg
         THEN serialBusy' = TRUE /\ given' = Head(queue)
         ELSE UNCHANGED <<serialBusy, given>>

\* Mutants: the task does not look at serialBusy; it starts the watchdog only
\* when there was nothing to send.
Mutant_sendSerialMsg_unguarded ==
  /\ pending
  /\ pending' = FALSE
  /\ dogTimer' = TRUE
  /\ IF queue # <<>> THEN Pump ELSE UNCHANGED <<queue, m_serial, serialBusy, given>>
  /\ UNCHANGED <<nodeVars, air, serial, beats, received, line>>
Mutant_sendSerialMsg_no_dog ==
  /\ pending
  /\ pending' = FALSE
  /\ IF ~serialBusy /\ queue # <<>>
       THEN Pump /\ UNCHANGED dogTimer
       ELSE dogTimer' = TRUE /\ UNCHANGED <<queue, m_serial, serialBusy, given>>
  /\ UNCHANGED <<nodeVars, air, serial, beats, received, line>>

\* The task sendSerialMsg.
sendSerialMsg ==
  /\ pending
  /\ pending' = FALSE
  /\ dogTimer' = TRUE
  /\ IF ~serialBusy /\ queue # <<>> THEN Pump
                                    ELSE UNCHANGED <<queue, m_serial, serialBusy, given>>
  /\ UNCHANGED <<nodeVars, air, serial, beats, received, line>>

CheckDogTimerFired ==
  /\ dogTimer
  /\ dogTimer' = FALSE
  /\ pending' = TRUE
  /\ UNCHANGED <<nodeVars, air, serial, queue, serialBusy, m_serial, given, beats,
                 received, line>>

\* SerialSend.sendDone: m_serial is on the line.
SerialSendDone ==
  /\ given # NoMsg
  /\ given' = NoMsg
  /\ serialBusy' = FALSE
  /\ pending' = TRUE
  /\ line' = Append(line, m_serial)
  /\ UNCHANGED <<nodeVars, air, serial, queue, m_serial, dogTimer, beats, received>>

----------------------------------------------------------------------------
NodeStep(n) == \/ RadioStartDone(n) \/ SensorReadTimerFired(n) \/ ReadDone(n)
               \/ MagYReadDone(n) \/ SendDone(n)
BaseStep == SerialStartDone \/ sendSerialMsg \/ CheckDogTimerFired \/ SerialSendDone

Next ==
  \/ \E n \in Node : NodeStep(n) \/ Transmit(n)
  \/ \E m \in Msg : Lose(m) \/ Receive(m)
  \/ BaseStep \/ BaseStationTimerFired

Spec == Init /\ [][Next]_vars

\* Timers fire, split-phase operations are answered, posted tasks are run, and
\* a radio that is started again and again starts.
Fairness ==
  /\ \A n \in Node : SF_vars(RadioStartDone(n) /\ radio'[n])
  /\ \A n \in Node : WF_vars(SensorReadTimerFired(n) \/ ReadDone(n) \/ MagYReadDone(n)
                               \/ SendDone(n))
  /\ WF_vars(SerialStartDone) /\ WF_vars(sendSerialMsg)
  /\ WF_vars(CheckDogTimerFired) /\ WF_vars(SerialSendDone)
FairSpec == Spec /\ Fairness

----------------------------------------------------------------------------
(* Properties *)

\* m_sensor is one buffer, filled by the end of the chain and read by the
\* radio until sendDone: the chain ("which solves the problems concurrency
\* brings", line 299) never overwrites what is still being sent.
SampleIsStable == \A n \in Node : handed[n] # NoMsg => m_sensor[n] = handed[n]

\* The same for m_serial, which the task fills: three places post it, and the
\* watchdog and sendDone may both do so for one message.
SerialIsStable == given # NoMsg => m_serial = given

\* The serial line carries what was queued, in the order it was queued and
\* nothing twice, if not all of it.
Increasing(f, n) == \A i, j \in 1..n : i < j => f[i] < f[j]
LineInOrder ==
  \E f \in [1..Len(line) -> 1..Len(received)] :
    Increasing(f, Len(line)) /\ \A i \in 1..Len(line) : line[i] = received[f[i]]

\* What makes the three inductive.  A node has one of three things under way:
\* the timer, the chain of sensors, or a message that is being sent.
OneActivity ==
  \A n \in Node : /\ radioBusy[n] <=> handed[n] # NoMsg
                  /\ handed[n] # NoMsg => ~readTimer[n] /\ chain[n] = 0
                  /\ chain[n] # 0 => ~readTimer[n] /\ round[n] < MaxRounds

\* The queue holds the end of what was received.  The message that is being
\* sent came out of the part before it, later than all that is on the line.
Taken == Len(received) - Len(queue)
QueueIsRest ==
  Taken \in Nat /\ \A i \in 1..Len(queue) : queue[i] = received[Taken + i]
PumpInOrder ==
  /\ serialBusy <=> given # NoMsg
  /\ \E f \in [1..Len(line) -> 1..Taken] :
       /\ Increasing(f, Len(line))
       /\ \A i \in 1..Len(line) : line[i] = received[f[i]]
       /\ given # NoMsg => \E k \in 1..Taken : /\ received[k] = given
                                               /\ \A i \in 1..Len(line) : f[i] < k

IInv == TypeOK /\ OneActivity /\ SampleIsStable /\ SerialIsStable /\ QueueIsRest /\ PumpInOrder

\* "The watchdog posts it too, which guarantees there is no interruption"
\* (line 84): what is queued leaves the queue.
QueueIsServed ==
  \A m \in Msg : (\E i \in 1..Len(queue) : queue[i] = m)
                   ~> ~(\E i \in 1..Len(queue) : queue[i] = m)

\* A node whose messages are accepted goes on sampling, errors reported by
\* sendDone included.
SamplingGoesOn == \A n \in Node : <>(round[n] = MaxRounds \/ failed[n])

\* Comment at line 196: "if something goes wrong with sending, we can make sure
\* with a timer that the chain of samples is not interrupted".  This does not
\* hold: nothing starts the timer after a send that was refused.
ChainNeverStops == \A n \in Node : <>(round[n] = MaxRounds)
=============================================================================
