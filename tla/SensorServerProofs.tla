------------------------- MODULE SensorServerProofs -------------------------
(***************************************************************************)
(* Proofs about the sensor server and its database, for any sessions,      *)
(* networks, nodes and messages.                                           *)
(***************************************************************************)
EXTENDS SensorServer, FiniteSetTheorems, TLAPS

----------------------------------------------------------------------------
(* Facts about the model's operators *)

\* Division with remainder.
LEMMA Divides ==
  ASSUME NEW a \in Nat, NEW c \in Nat, c > 0
  PROVE  a = c * (a \div c) + (a % c) /\ a \div c \in Int /\ a % c \in 0..(c - 1)
<1>1. a = c * (a \div c) + (a % c) /\ a \div c \in Int
  BY Z3
<1>2. a % c \in 0..(c - 1)
  OBVIOUS
<1>3. QED
  BY <1>1, <1>2

\* Two times less than a cycle apart do not fall on the same second of it.
LEMMA SameSecond ==
  ASSUME NEW a \in Nat, NEW b \in Nat, NEW c \in Nat, c > 0, a < b, b - a < c
  PROVE  a % c # b % c
<1> SUFFICES ASSUME a % c = b % c PROVE FALSE
  OBVIOUS
<1>1. PICK q \in Int : a = c * q + (a % c)
  BY Divides
<1>2. PICK p \in Int : b = c * p + (b % c)
  BY Divides
<1>3. PICK r \in Int : r = a % c
  BY Divides
<1>4. a = c * q + r /\ b = c * p + r
  BY <1>1, <1>2, <1>3
<1>5. b - a = c * (p - q)
  BY <1>4
<1>6. PICK d \in Int : d = p - q
  OBVIOUS
<1>7. c * d > 0 /\ c * d < c
  BY <1>5, <1>6
<1>8. d >= 1
  <2>1. d <= 0 => c * d <= 0
    OBVIOUS
  <2>2. QED
    BY <1>7, <2>1
<1>9. c * d >= c
  BY <1>8
<1>10. QED
  BY <1>7, <1>9

\* What the constants say of the message a session works on.
LEMMA MesgType ==
  ASSUME StoreTypeOK, NEW s \in Session, InStep(s), Calling(s)
  PROVE  /\ NodeId(s) \in Node /\ Key(s) \in Keys /\ NetOf[s] \in Net
         /\ Mesg(s) \in Node \X Nat \X BOOLEAN
<1>1. plan.mesgs \in [Session -> Seq(Node \X Nat \X BOOLEAN)]
  BY PlanAssumption DEF StoreTypeOK
<1>2. ses[s].n \in 1..Len(plan.mesgs[s])
  BY DEF StoreTypeOK, InStep, Sessions
<1>3. Mesg(s) \in Node \X Nat \X BOOLEAN
  <2>1. plan.mesgs[s] \in Seq(Node \X Nat \X BOOLEAN)
    BY <1>1
  <2>2. QED
    BY <1>2, <2>1 DEF Mesg
<1>4. NetOf[s] \in Net
  BY NetAssumption
<1>5. QED
  BY <1>3, <1>4 DEF NodeId, Key, Keys

\* The calls for a message: two for the base station, three for the others.
LEMMA CallsAre ==
  ASSUME NEW s \in Session
  PROVE  /\ Len(Calls(s)) = IF NodeId(s) = Root THEN 2 ELSE 3
         /\ NodeId(s) = Root => Entry[Calls(s)[2]] = "network_segment"
         /\ NodeId(s) # Root => /\ Entry[Calls(s)[2]] = "sense_segment"
                                /\ Entry[Calls(s)[3]] = "network_segment"
         /\ Entry[Calls(s)[1]] = "select_name"
BY DEF Calls, Entry

\* Where a session goes on when a call has returned: to the next call, or, if
\* that was the last or the link is lost, to the next message.
NextCall(s) ==
  /\ ses'[s].n = ses[s].n /\ ses'[s].link = ses[s].link /\ ses[s].link
  /\ ses'[s].call = ses[s].call + 1
  /\ ses'[s].pc = IF ses[s].call = 1 /\ NodeId(s) # Root THEN "sense_segment" ELSE "network_segment"
  /\ ses[s].call < Len(Calls(s))
NextMesg(s) ==
  /\ ses'[s].pc = "read" /\ ses'[s].call = 1 /\ ses'[s].n = ses[s].n + 1
  /\ ses'[s].link = ses[s].link
  /\ ~ses[s].link \/ ses[s].call = Len(Calls(s))
Others(s) == \A r \in Session \ {s} : ses'[r] = ses[r]

\* The two ways a call returns.
LEMMA ReturnsTo ==
  ASSUME StoreTypeOK, NEW s \in Session, InStep(s), Calling(s), Returns(s)
  PROVE  /\ ses' \in [Session -> Sessions] /\ Others(s)
         /\ NextCall(s) \/ NextMesg(s)
<1>1. /\ ses \in [Session -> Sessions] /\ ses[s] \in Sessions
      /\ ses[s].call \in 1..3 /\ ses[s].n \in Nat /\ ses[s].link \in BOOLEAN
  BY DEF StoreTypeOK, Sessions
<1>2. /\ Len(Calls(s)) = IF NodeId(s) = Root THEN 2 ELSE 3
      /\ ses[s].call <= Len(Calls(s))
  <2>1. Len(Calls(s)) = IF NodeId(s) = Root THEN 2 ELSE 3
    BY CallsAre
  <2>2. CASE ses[s].pc \in SensePoints
    BY <2>1, <2>2 DEF InStep
  <2>3. CASE ses[s].pc \in NetworkPoints
    BY <1>1, <2>1, <2>3 DEF InStep
  <2>4. CASE ses[s].pc \notin SensePoints \cup NetworkPoints
    BY <2>1, <2>4 DEF InStep
  <2>5. QED
    BY <2>1, <2>2, <2>3, <2>4
<1>3. CASE ses[s].link /\ ses[s].call < Len(Calls(s))
  <2>1. PICK e \in {"sense_segment", "network_segment"} :
          /\ e = Entry[Calls(s)[ses[s].call + 1]]
          /\ e = IF ses[s].call = 1 /\ NodeId(s) # Root THEN "sense_segment" ELSE "network_segment"
    <3>1. CASE ses[s].call = 1
      <4>1. Entry[Calls(s)[2]] = IF NodeId(s) # Root THEN "sense_segment" ELSE "network_segment"
        BY CallsAre
      <4>2. ses[s].call + 1 = 2
        BY <3>1
      <4>3. QED
        BY <3>1, <4>1, <4>2
    <3>2. CASE ses[s].call = 2
      <4>1. NodeId(s) # Root
        BY <1>2, <1>3, <3>2
      <4>2. Entry[Calls(s)[3]] = "network_segment"
        BY <4>1, CallsAre
      <4>3. ses[s].call + 1 = 3
        BY <3>2
      <4>4. QED
        BY <3>2, <4>2, <4>3
    <3>3. QED
      BY <1>1, <1>2, <1>3, <3>1, <3>2
  <2>2. ses' = [ses EXCEPT ![s].call = @ + 1, ![s].pc = e]
    BY <1>3, <2>1 DEF Returns
  <2>3. ses[s].call + 1 \in 1..3
    BY <1>1, <1>2, <1>3
  <2>4. ses' \in [Session -> Sessions] /\ Others(s)
    BY <1>1, <2>1, <2>2, <2>3 DEF Sessions, SensePoints, NetworkPoints, Others
  <2>5. NextCall(s)
    BY <1>1, <1>3, <2>1, <2>2 DEF NextCall, Sessions
  <2>6. QED
    BY <2>4, <2>5
<1>4. CASE ~(ses[s].link /\ ses[s].call < Len(Calls(s)))
  <2>1. ses' = [ses EXCEPT ![s].call = 1, ![s].pc = "read", ![s].n = @ + 1]
    BY <1>4 DEF Returns
  <2>2. ses' \in [Session -> Sessions] /\ Others(s)
    BY <1>1, <2>1 DEF Sessions, Others
  <2>3. NextMesg(s)
    BY <1>1, <1>2, <1>4, <2>1 DEF NextMesg, Sessions
  <2>4. QED
    BY <2>2, <2>3
<1>5. QED
  BY <1>3, <1>4

\* What a step does to the tables: nothing is taken out of tb_node, the names
\* and the records, and the plan stays.
Grows ==
  /\ plan' = plan /\ spoilt \subseteq spoilt'
  /\ \A nm : Known(nm) => Known(nm)'
  /\ \A k \in Keys : node[k] # None => node'[k] # None
  /\ \A s \in Session : \A m : Stored(s, m) => Stored(s, m)'

\* A step that leaves the tables of names, nodes and records alone.
LEMMA Still ==
  ASSUME UNCHANGED <<plan, names, node, sense>>, spoilt \subseteq spoilt'
  PROVE  Grows
BY DEF Grows, Known, Stored

\* What holds of a session is not disturbed by the steps of others.
LEMMA OthersKeep ==
  ASSUME StoreTypeOK, NEW r \in Session, ses'[r] = ses[r], Grows,
         InStep(r), Prepared(r), Recorded(r),
         sense' = sense \/ \E e : e.from # r /\ sense' = Append(sense, e)
  PROVE  InStep(r)' /\ Prepared(r)' /\ Recorded(r)'
<1>1. /\ NodeId(r)' = NodeId(r) /\ Key(r)' = Key(r) /\ Calls(r)' = Calls(r)
      /\ Calling(r)' = Calling(r) /\ HasTemp(r)' = HasTemp(r) /\ (Spoilt(r) => Spoilt(r)')
  BY DEF Grows, NodeId, Key, Calls, Calling, Mesg, HasTemp, Spoilt
<1>2. InStep(r)'
  BY <1>1 DEF Grows, InStep
<1>3. Prepared(r)'
  <2>1. Calling(r) => Key(r) \in Keys
    BY MesgType
  <2>2. ses[r].call > 1 \/ ses[r].pc = "update_node" => Calling(r)
    BY DEF InStep, Calling, StoreTypeOK, Sessions, SensePoints, NetworkPoints
  <2>3. QED
    BY <1>1, <2>1, <2>2 DEF Grows, Prepared
<1>4. Recorded(r)'
  <2>1. ses'[r].call = 3 /\ ~Spoilt(r)' /\ HasTemp(r)' => Stored(r, ses[r].n)'
    BY <1>1 DEF Grows, Recorded
  <2>2. ASSUME NEW i \in 1..Len(sense'), sense'[i].from = r
        PROVE sense'[i].n < ses[r].n \/ (sense'[i].n = ses[r].n /\ ses[r].call = 3)
    <3>1. sense \in Seq([key : Keys, from : Session, n : Nat, insert_time : Nat])
      BY DEF StoreTypeOK
    <3>2. i \in 1..Len(sense) /\ sense'[i] = sense[i]
      <4>1. CASE sense' = sense
        BY <2>2, <4>1
      <4>2. CASE sense' # sense
        <5>1. PICK e : e.from # r /\ sense' = Append(sense, e)
          BY <4>2
        <5>2. QED
          BY <2>2, <3>1, <5>1
      <4>3. QED
        BY <4>1, <4>2
    <3>3. QED
      BY <2>2, <3>2 DEF Recorded
  <2>3. QED
    BY <2>1, <2>2 DEF Recorded
<1>5. QED
  BY <1>2, <1>3, <1>4

\* The part of RecordsKept that is about one session, and the order of records.
Kept(s) ==
  \A m \in 1..(ses[s].n - 1) :
    (IsRecord(s, m) /\ <<s, m>> \notin spoilt) => Stored(s, m)
InOrder ==
  \A i, j \in 1..Len(sense) :
    (i < j /\ sense[i].from = sense[j].from) => sense[i].n < sense[j].n
LEMMA KeptParts == RecordsKept <=> (\A s \in Session : Kept(s)) /\ InOrder
BY DEF RecordsKept, Kept, InOrder, Stored

\* A session's records stay, and it owes no new one before it takes up its next
\* message.
LEMMA KeepsKept ==
  ASSUME NEW s \in Session, Kept(s), Grows, ses'[s].n = ses[s].n
  PROVE  Kept(s)'
<1>1. \A m : <<s, m>> \notin spoilt' => <<s, m>> \notin spoilt
  BY DEF Grows
<1>2. \A m : Stored(s, m) => Stored(s, m)'
  BY DEF Grows
<1>3. plan' = plan
  BY DEF Grows
<1>4. QED
  BY <1>1, <1>2, <1>3 DEF Kept, IsRecord

\* It owes none when the message it leaves is the base station's or has no
\* temperature, was met by a race or a lost link, or has its record.
LEMMA NextKept ==
  ASSUME StoreTypeOK, NEW s \in Session, InStep(s), Kept(s), Grows, ses'[s].n = ses[s].n + 1,
         \/ NodeId(s) = Root \/ ~HasTemp(s)
         \/ <<s, ses[s].n>> \in spoilt'
         \/ Stored(s, ses[s].n)
  PROVE  Kept(s)'
<1>1. plan' = plan /\ \A m : <<s, m>> \in spoilt => <<s, m>> \in spoilt'
  BY DEF Grows
<1>2. PICK n \in Nat \ {0} : n = ses[s].n /\ ses'[s].n = n + 1
  BY DEF StoreTypeOK, Sessions, InStep
<1>3. \A m \in 1..n : (IsRecord(s, m)' /\ <<s, m>> \notin spoilt') => Stored(s, m)'
  <2> SUFFICES ASSUME NEW m \in 1..n, IsRecord(s, m)', <<s, m>> \notin spoilt'
               PROVE Stored(s, m)'
    OBVIOUS
  <2>0. Stored(s, m) => Stored(s, m)'
    BY DEF Grows
  <2>1. CASE m = n
    <3>1. NodeId(s) # Root /\ HasTemp(s) /\ <<s, ses[s].n>> \notin spoilt'
      BY <1>1, <1>2, <2>1 DEF IsRecord, NodeId, Mesg, HasTemp
    <3>2. Stored(s, m)
      BY <1>2, <2>1, <3>1
    <3>3. QED
      BY <2>0, <3>2
  <2>2. CASE m # n
    <3>1. m \in 1..(n - 1)
      BY <1>2, <2>2
    <3>2. Stored(s, m)
      BY <1>1, <1>2, <3>1 DEF Kept, IsRecord
    <3>3. QED
      BY <2>0, <3>2
  <2>3. QED
    BY <2>1, <2>2
<1>4. ses'[s].n - 1 = n
  BY <1>2
<1>5. QED
  BY <1>1, <1>3, <1>4 DEF Kept

----------------------------------------------------------------------------
(* Types *)

\* The initial request of a page, and a name that a procedure stores.
LEMMA NameType ==
  ASSUME StoreTypeOK, NEW s \in Session
  PROVE  Name(s) \in Names /\ (ses[s].name = 3 => Name(s) = NetOf[s])
<1>1. ses[s].name \in 1..3 /\ NetOf[s] \in Net
  BY NetAssumption DEF StoreTypeOK, Sessions
<1>2. QED
  BY <1>1 DEF Name, Names

\* Going on to the next name or to the node.
LEMMA NextNameTo ==
  ASSUME StoreTypeOK, NEW s \in Session, NextName(s)
  PROVE  /\ ses' \in [Session -> Sessions] /\ Others(s)
         /\ ses'[s].n = ses[s].n /\ ses'[s].link = ses[s].link /\ ses'[s].call = ses[s].call
         /\ ses'[s].pc \in {"select_name", "select_node"}
         /\ ses'[s].pc = "select_node" => ses[s].name = 3
<1>1. ses \in [Session -> Sessions] /\ ses[s].name \in 1..3
  BY DEF StoreTypeOK, Sessions
<1>2. CASE ses[s].name < 3
  <2>1. ses' = [ses EXCEPT ![s].name = @ + 1, ![s].pc = "select_name"] /\ ses[s].name + 1 \in 1..3
    BY <1>1, <1>2 DEF NextName
  <2>2. QED
    BY <1>1, <1>2, <2>1 DEF Sessions, Others, NodePoints
<1>3. CASE ~(ses[s].name < 3)
  <2>1. ses' = [ses EXCEPT ![s].pc = "select_node"] /\ ses[s].name = 3
    BY <1>1, <1>3 DEF NextName
  <2>2. QED
    BY <1>1, <1>3, <2>1 DEF Sessions, Others, NodePoints
<1>4. QED
  BY <1>2, <1>3

\* Going to another point of the same procedure.
LEMMA GotoTo ==
  ASSUME StoreTypeOK, NEW s \in Session, NEW l, Goto(s, l),
         l \in NodePoints \cup SensePoints \cup NetworkPoints
  PROVE  /\ ses' \in [Session -> Sessions] /\ Others(s)
         /\ ses'[s].n = ses[s].n /\ ses'[s].link = ses[s].link /\ ses'[s].call = ses[s].call
         /\ ses'[s].pc = l
BY DEF StoreTypeOK, Sessions, Goto, Others

\* Seconds of the cycle, and the rows of nodes.
NodeRow == [power : 0..(Cycle - 1), update_time : Nat, gps : Session]
LEMMA NewRow ==
  ASSUME StoreTypeOK, NEW s \in Session
  PROVE  /\ now \in Nat /\ NewPower \in 0..(Cycle - 1) /\ Cycle > 0
         /\ [power |-> NewPower, update_time |-> now, gps |-> s] \in NodeRow
         /\ [power |-> 0, update_time |-> now, gps |-> s] \in NodeRow
<1>1. now \in Nat
  BY PlanAssumption DEF StoreTypeOK
<1>2. Cycle \in Nat /\ Cycle > 0
  BY CycleAssumption
<1>3. NewPower \in 0..(Cycle - 1)
  BY <1>1, <1>2, Divides DEF NewPower
<1>4. 0 \in 0..(Cycle - 1)
  BY <1>2
<1>5. QED
  BY <1>1, <1>2, <1>3, <1>4 DEF NodeRow

\* The variables of the store stay in their domains.
LEMMA StoreTypeStep ==
  ASSUME StoreTypeOK, \A s \in Session : InStep(s) /\ Prepared(s), [Next]_vars
  PROVE  StoreTypeOK'
<1> DEFINE Same == UNCHANGED <<plan, now, names, node, network, sense, reader, reports>>
           Kind == [pc : {"idle", "flush", "select", "query"}, key : {None} \cup Keys,
                    num : Nat, start : Nat, asked : Nat]
<1>a. /\ ses \in [Session -> Sessions] /\ now \in Nat /\ reader \in Kind
      /\ names \in Seq(Names) /\ spoilt \subseteq Session \X Nat
      /\ sense \in Seq([key : Keys, from : Session, n : Nat, insert_time : Nat])
      /\ node \in [Keys -> {None} \cup NodeRow] /\ network \in [Keys -> {None} \cup Node]
      /\ reports \in [Keys -> SUBSET Nat]
  BY PlanAssumption DEF StoreTypeOK, NodeRow
<1>s. ses \in [Session -> Sessions]
  BY <1>a
<1>o. 1 \in 1..3
  OBVIOUS
<1>r. reports \in [Keys -> SUBSET Nat] /\ now \in Nat
  BY <1>a
<1>q. reader \in Kind
  BY <1>a
<1>t. names \in Seq(Names)
  BY <1>a
<1>u. sense \in Seq([key : Keys, from : Session, n : Nat, insert_time : Nat])
  BY <1>a
<1>b. ASSUME NEW s \in Session, Returns(s), Calling(s) PROVE ses' \in [Session -> Sessions]
  BY <1>b, ReturnsTo
<1>c. ASSUME NEW s \in Session, Calling(s) PROVE Key(s) \in Keys /\ NodeId(s) \in Node
  BY <1>c, MesgType
<1>d. ASSUME NEW s \in Session, Spoil(s) \/ spoilt' = spoilt PROVE spoilt' \subseteq Session \X Nat
  BY <1>d, <1>a DEF Spoil, Sessions
<1>e. ASSUME Same, spoilt' \subseteq Session \X Nat, ses' \in [Session -> Sessions] PROVE StoreTypeOK'
  BY <1>e DEF StoreTypeOK
<1>1. ASSUME NEW s \in Session, ReadMesg(s) PROVE StoreTypeOK'
  <2>1. CASE ses[s].link
    <3>1. ses' = [ses EXCEPT ![s].pc = "select_name", ![s].name = 1]
      BY <1>1, <2>1, CallsAre DEF ReadMesg
    <3>2. ses' \in [Session -> Sessions]
      <4>1. [ses[s] EXCEPT !.pc = "select_name", !.name = 1] \in Sessions
        BY <1>s, <1>o DEF Sessions, NodePoints
      <4>2. ses' = [ses EXCEPT ![s] = [ses[s] EXCEPT !.pc = "select_name", !.name = 1]]
        BY <1>s, <3>1
      <4>3. QED
        BY <1>s, <4>1, <4>2
    <3>3. QED
      BY <1>1, <2>1, <3>2, <1>d, <1>e DEF ReadMesg, tables, pages
  <2>2. CASE ~ses[s].link
    <3>1. ses' = [ses EXCEPT ![s].n = @ + 1]
      BY <1>1, <2>2 DEF ReadMesg
    <3>2. ses' \in [Session -> Sessions]
      BY <1>s, <3>1 DEF Sessions
    <3>3. QED
      BY <1>1, <2>2, <3>2, <1>d, <1>e DEF ReadMesg, tables, pages
  <2>3. QED
    BY <2>1, <2>2
<1>2. ASSUME NEW s \in Session, LoseLink(s) PROVE StoreTypeOK'
  <2>1. ses' \in [Session -> Sessions]
    <3>1. \/ ses' = [ses EXCEPT ![s].link = FALSE]
          \/ ses' = [ses EXCEPT ![s].link = FALSE, ![s].pc = "read", ![s].call = 1, ![s].n = @ + 1]
      BY <1>2 DEF LoseLink
    <3>2. CASE ses' = [ses EXCEPT ![s].link = FALSE]
      BY <1>s, <3>2 DEF Sessions
    <3>3. CASE ses' = [ses EXCEPT ![s].link = FALSE, ![s].pc = "read", ![s].call = 1, ![s].n = @ + 1]
      <4>1. ses[s].n + 1 \in Nat
        BY <1>s DEF Sessions
      <4>2. [ses[s] EXCEPT !.link = FALSE, !.pc = "read", !.call = 1, !.n = @ + 1] \in Sessions
        BY <1>s, <1>o, <4>1 DEF Sessions
      <4>3. ses' = [ses EXCEPT ![s] = [ses[s] EXCEPT !.link = FALSE, !.pc = "read", !.call = 1, !.n = @ + 1]]
        BY <1>s, <3>3
      <4>4. QED
        BY <1>s, <4>2, <4>3
    <3>4. QED
      BY <3>1, <3>2, <3>3
  <2>2. spoilt' \subseteq Session \X Nat
    BY <1>2, <1>d DEF LoseLink
  <2>3. QED
    BY <1>2, <2>1, <2>2, <1>e DEF LoseLink, tables, pages
<1>3. ASSUME NEW s \in Session, SelectName(s) PROVE StoreTypeOK'
  <2>1. ses' \in [Session -> Sessions]
    BY <1>3, NextNameTo, GotoTo DEF SelectName, NodePoints
  <2>2. QED
    BY <1>3, <2>1, <1>a, <1>e DEF SelectName, tables, pages
<1>4. ASSUME NEW s \in Session, InsertName(s) PROVE StoreTypeOK'
  <2>0. Calling(s)
    BY <1>4 DEF InsertName, At, Calling
  <2>1. ses' \in [Session -> Sessions]
    BY <1>4, <2>0, <1>b, NextNameTo DEF InsertName
  <2>2. names' \in Seq(Names)
    <3>1. Name(s) \in Names
      BY NameType
    <3>2. names' = names \/ names' = Append(names, Name(s))
      BY <1>4 DEF InsertName
    <3>3. QED
      BY <3>1, <3>2, <1>t
  <2>3. spoilt' \subseteq Session \X Nat
    BY <1>4, <1>d DEF InsertName
  <2>4. QED
    BY <1>4, <2>1, <2>2, <2>3 DEF InsertName, pages, StoreTypeOK
<1>5. ASSUME NEW s \in Session, SelectNode(s) PROVE StoreTypeOK'
  <2>1. ses' \in [Session -> Sessions]
    BY <1>5, GotoTo DEF SelectNode, NodePoints
  <2>2. QED
    BY <1>5, <2>1, <1>a, <1>e DEF SelectNode, tables, pages
<1>6. ASSUME NEW s \in Session, InsertNode(s) PROVE StoreTypeOK'
  <2>0. Calling(s) /\ Key(s) \in Keys
    BY <1>6, <1>c DEF InsertNode, At, Calling
  <2>1. ses' \in [Session -> Sessions]
    BY <1>6, <2>0, <1>b DEF InsertNode
  <2>2. node' \in [Keys -> {None} \cup NodeRow]
    BY <1>6, <1>a, NewRow DEF InsertNode
  <2>3. reports' \in [Keys -> SUBSET Nat]
    BY <1>6, <1>r DEF InsertNode, Reported
  <2>4. QED
    BY <1>6, <1>a, <2>1, <2>2, <2>3 DEF InsertNode, pages, StoreTypeOK, NodeRow
<1>7. ASSUME NEW s \in Session, UpdateNode(s) PROVE StoreTypeOK'
  <2>0. Calling(s) /\ Key(s) \in Keys
    BY <1>7, <1>c DEF UpdateNode, At, Calling
  <2>1. ses' \in [Session -> Sessions]
    BY <1>7, <2>0, <1>b DEF UpdateNode
  <2>2. node' \in [Keys -> {None} \cup NodeRow]
    BY <1>7, <1>a, NewRow DEF UpdateNode
  <2>3. reports' \in [Keys -> SUBSET Nat]
    BY <1>7, <1>r DEF UpdateNode, Reported
  <2>4. QED
    BY <1>7, <1>a, <2>1, <2>2, <2>3 DEF UpdateNode, pages, StoreTypeOK, NodeRow
<1>8. ASSUME NEW s \in Session, NEW from \in {"sense_segment", "network_segment"},
             NEW to \in {"insert_sense", "select_network"}, SelectSegment(s, from, to)
      PROVE StoreTypeOK'
  <2>0. Calling(s)
    BY <1>8 DEF SelectSegment, At, Calling
  <2>1. ses' \in [Session -> Sessions]
    BY <1>8, <2>0, <1>b, GotoTo DEF SelectSegment, SensePoints, NetworkPoints
  <2>2. QED
    BY <1>8, <2>1, <1>a, <1>e DEF SelectSegment, tables, pages
<1>9. ASSUME NEW s \in Session, InsertSense(s) PROVE StoreTypeOK'
  <2>0. Calling(s) /\ Key(s) \in Keys /\ ses[s].n \in Nat
    BY <1>9, <1>a, <1>c DEF InsertSense, At, Calling, Sessions
  <2>1. ses' \in [Session -> Sessions]
    BY <1>9, <2>0, <1>b DEF InsertSense
  <2>2. sense' \in Seq([key : Keys, from : Session, n : Nat, insert_time : Nat])
    <3> DEFINE Rec == [key : Keys, from : Session, n : Nat, insert_time : Nat]
               e == [key |-> Key(s), from |-> s, n |-> ses[s].n, insert_time |-> now]
    <3>1. e \in Rec
      BY <2>0, <1>r
    <3>2. sense' = sense \/ sense' = Append(sense, e)
      BY <1>9 DEF InsertSense
    <3>3. sense \in Seq(Rec)
      BY <1>u
    <3> HIDE DEF Rec, e
    <3>4. sense' \in Seq(Rec)
      BY <3>1, <3>2, <3>3
    <3>5. QED
      BY <3>4 DEF Rec
  <2>3. QED
    BY <1>9, <1>a, <2>1, <2>2 DEF InsertSense, pages, StoreTypeOK
<1>10. ASSUME NEW s \in Session, SelectNetwork(s) PROVE StoreTypeOK'
  <2>1. ses' \in [Session -> Sessions]
    BY <1>10, GotoTo DEF SelectNetwork, NetworkPoints
  <2>2. QED
    BY <1>10, <2>1, <1>a, <1>e DEF SelectNetwork, tables, pages
<1>11. ASSUME NEW s \in Session, InsertNetwork(s) \/ UpdateNetwork(s) PROVE StoreTypeOK'
  <2>0. Calling(s)
    BY <1>11 DEF InsertNetwork, UpdateNetwork, At, Calling
  <2>1. ses' \in [Session -> Sessions]
    BY <1>11, <2>0, <1>b DEF InsertNetwork, UpdateNetwork
  <2>2. network' \in [Keys -> {None} \cup Node]
    <3>1. CASE network' = network
      BY <1>a, <3>1
    <3>2. CASE Referable(s) /\ SetParent(s)
      <4>1. Parent(s)[2] \in Node
        BY <3>2 DEF Referable, Keys
      <4>2. QED
        BY <1>a, <3>2, <4>1 DEF SetParent
    <3>3. QED
      BY <1>11, <3>1, <3>2 DEF InsertNetwork, UpdateNetwork
  <2>3. QED
    BY <1>11, <1>a, <2>1, <2>2 DEF InsertNetwork, UpdateNetwork, pages, StoreTypeOK
<1>12. ASSUME NEW s \in Session, Accept(s) \/ OpenDb(s) \/ ProcessEnds(s) PROVE StoreTypeOK'
  <2>1. ses' \in [Session -> Sessions]
    <3>1. CASE Accept(s)
      <4>1. [Off EXCEPT !.pc = "open", !.n = ses[s].n] \in Sessions
        BY <1>s, <1>o DEF Off, Sessions
      <4>2. ses' = [ses EXCEPT ![s] = [Off EXCEPT !.pc = "open", !.n = ses[s].n]]
        BY <3>1 DEF Accept
      <4>3. QED
        BY <1>s, <4>1, <4>2
    <3>2. CASE OpenDb(s)
      BY <1>s, <3>2 DEF OpenDb, Sessions
    <3>3. CASE ProcessEnds(s)
      BY <1>s, <3>3 DEF ProcessEnds, Sessions
    <3>4. QED
      BY <1>12, <3>1, <3>2, <3>3
  <2>2. Same /\ spoilt' = spoilt
    BY <1>12 DEF Accept, OpenDb, ProcessEnds, tables, pages
  <2>3. QED
    BY <2>1, <2>2, <1>a, <1>e
<1>13. CASE UNCHANGED store
  BY <1>13, <1>a, <1>e DEF store
<1>14. CASE Tick
  <2>1. plan.last \in Nat /\ now \in 0..plan.last
    BY PlanAssumption DEF StoreTypeOK
  <2>2. now' \in 0..plan.last /\ UNCHANGED <<plan, tables, ses, pages, reports, spoilt>>
    BY <1>14, <2>1 DEF Tick
  <2>3. QED
    BY <2>2 DEF tables, pages, StoreTypeOK
<1>15. CASE Reader
  <2>1. network' \in [Keys -> {None} \cup Node]
    BY <1>15, <1>a DEF Reader, PageFails, AskNodes, sp_flush_network, NodeInfo, RealTime, AskSeries, tables
  <2>2. reader' \in Kind
    <3>1. CASE PageFails \/ NodeInfo \/ RealTime
      <4>1. reader' = [pc |-> "idle", key |-> None, num |-> 0, start |-> 0, asked |-> reader.asked]
        BY <3>1 DEF PageFails, NodeInfo, RealTime, Resting
      <4>2. QED
        BY <1>a, <4>1
    <3>2. CASE sp_flush_network
      BY <1>q, <3>2 DEF sp_flush_network
    <3>2a. CASE AskNodes
      <4>1. reader' = [reader EXCEPT !.pc = "flush", !.asked = @ + 1] /\ reader.asked + 1 \in Nat
        BY <1>q, <3>2a DEF AskNodes
      <4>2. QED
        BY <1>q, <4>1
    <3>3. ASSUME NEW k \in Keys, NEW num \in Nums, AskSeries(k, num) PROVE reader' \in Kind
      BY <1>a, <3>3, NumAssumption DEF AskSeries
    <3>4. QED
      BY <1>15, <3>1, <3>2, <3>2a, <3>3 DEF Reader
  <2>3. UNCHANGED <<plan, now, names, node, sense, ses, reports, spoilt>>
    BY <1>15 DEF Reader, PageFails, AskNodes, sp_flush_network, NodeInfo, RealTime, AskSeries, tables
  <2>4. QED
    BY <2>1, <2>2, <2>3 DEF StoreTypeOK
<1>16. QED
  <2>1. ASSUME NEW s \in Session, ClientConnects(s) \/ ClientLeaves(s) \/ Reset(s) \/ AcceptFails(s)
        PROVE StoreTypeOK'
    BY <2>1, <1>13 DEF ClientConnects, ClientLeaves, Reset, AcceptFails
  <2>2. ASSUME NEW s \in Session, Statement(s) PROVE StoreTypeOK'
    BY <2>2, <1>3, <1>4, <1>5, <1>6, <1>7, <1>8, <1>9, <1>10, <1>11 DEF Statement
  <2>3. UNCHANGED vars \/ Command => StoreTypeOK'
    BY <1>13 DEF vars, Command
  <2>4. QED
    BY <2>1, <2>2, <2>3, <1>1, <1>2, <1>12, <1>14, <1>15 DEF Next, Process

----------------------------------------------------------------------------
(* What holds of a session *)

Sound(s) == InStep(s) /\ Prepared(s) /\ Recorded(s) /\ Kept(s)

\* A statement after which the session goes on in the same procedure.
LEMMA WithinKeeps ==
  ASSUME StoreTypeOK, NEW s \in Session, Sound(s), Calling(s), Grows, sense' = sense,
         ses'[s].n = ses[s].n, ses'[s].link = ses[s].link, ses'[s].call = ses[s].call,
         \/ ses[s].pc \in NodePoints /\ ses'[s].pc \in NodePoints
         \/ ses[s].pc \in SensePoints /\ ses'[s].pc \in SensePoints
         \/ ses[s].pc \in NetworkPoints /\ ses'[s].pc \in NetworkPoints,
         ses'[s].pc \in {"select_node", "insert_node", "update_node"} => Known(NetOf[s])',
         ses'[s].pc = "update_node" => node[Key(s)] # None
  PROVE  Sound(s)'
<1>1. /\ NodeId(s)' = NodeId(s) /\ Key(s)' = Key(s) /\ Calls(s)' = Calls(s)
      /\ Calling(s)' /\ HasTemp(s)' = HasTemp(s) /\ (Spoilt(s) => Spoilt(s)')
  BY DEF Grows, NodeId, Key, Calls, Calling, Mesg, HasTemp, Spoilt, NodePoints, SensePoints, NetworkPoints
<1>2. InStep(s)'
  BY <1>1 DEF Grows, Sound, InStep, NodePoints, SensePoints, NetworkPoints
<1>3. Prepared(s)'
  <2>1. Key(s) \in Keys /\ NetOf[s] \in Net
    BY MesgType DEF Sound
  <2>2. node[Key(s)] # None => node'[Key(s)] # None
    BY <2>1 DEF Grows
  <2>3. Known(NetOf[s]) => Known(NetOf[s])'
    BY DEF Grows
  <2>4. Prepared(s)
    BY DEF Sound
  <2>5. QED
    BY <1>1, <2>2, <2>3, <2>4 DEF Prepared
<1>4. Recorded(s)'
  <2>1. Stored(s, ses[s].n) => Stored(s, ses[s].n)'
    BY DEF Grows
  <2>2. QED
    BY <1>1, <2>1 DEF Sound, Recorded, Stored
<1>5. Kept(s)'
  BY KeepsKept DEF Sound
<1>6. QED
  BY <1>2, <1>3, <1>4, <1>5 DEF Sound

\* Taking up the next message.
LEMMA NextKeeps ==
  ASSUME StoreTypeOK, StoreTypeOK', NEW s \in Session, Sound(s), Grows,
         ses'[s].pc = "read", ses'[s].call = 1, ses'[s].n = ses[s].n + 1,
         \A i \in 1..Len(sense') : sense'[i].from = s =>
           sense'[i].n < ses[s].n \/ sense'[i].n = ses[s].n,
         \/ NodeId(s) = Root \/ ~HasTemp(s)
         \/ <<s, ses[s].n>> \in spoilt'
         \/ Stored(s, ses[s].n)
  PROVE  Sound(s)'
<1>0. InStep(s) /\ Kept(s) /\ ses[s].n \in Nat \ {0}
  BY DEF Sound, InStep, StoreTypeOK, Sessions
<1>1. InStep(s)' /\ Prepared(s)'
  BY <1>0 DEF InStep, Prepared, Calling, SensePoints, NetworkPoints
<1>2. Recorded(s)'
  <2>1. ASSUME NEW i \in 1..Len(sense'), sense'[i].from = s PROVE sense'[i].n < ses'[s].n
    <3>1. sense'[i].n < ses[s].n \/ sense'[i].n = ses[s].n
      BY <2>1
    <3>2. PICK n \in Nat : n = ses[s].n /\ ses'[s].n = n + 1
      BY <1>0
    <3>3. sense'[i].n \in Nat
      <4>0. PICK Rec : Rec = [key : Keys, from : Session, n : Nat, insert_time : Nat]
        OBVIOUS
      <4>1. PICK q \in Seq(Rec) : q = sense'
        BY <4>0 DEF StoreTypeOK
      <4>2. i \in 1..Len(q)
        BY <4>1
      <4>3. q[i] \in Rec
        BY <4>2
      <4>4. QED
        BY <4>0, <4>1, <4>3
    <3>4. QED
      BY <3>1, <3>2, <3>3
  <2>2. QED
    BY <2>1 DEF Recorded
<1>3. Kept(s)'
  BY <1>0, NextKept
<1>4. QED
  BY <1>1, <1>2, <1>3 DEF Sound

\* The last statement of a call: the first call leaves name and node, the
\* second the record of a temperature, or the message met a race or a lost link.
LEMMA ReturnKeeps ==
  ASSUME StoreTypeOK, StoreTypeOK', NEW s \in Session, Sound(s), Calling(s), Returns(s), Grows,
         \A i \in 1..Len(sense') : sense'[i].from = s =>
           sense'[i].n < ses[s].n \/ (sense'[i].n = ses[s].n /\ ses[s].call \in {2, 3} /\ NodeId(s) # Root),
         \/ <<s, ses[s].n>> \in spoilt'
         \/ /\ ses[s].call = 1 => Known(NetOf[s])' /\ node'[Key(s)] # None
            /\ ses[s].call = 2 /\ NodeId(s) # Root /\ HasTemp(s) =>
                 \E i \in 1..Len(sense') : sense'[i].from = s /\ sense'[i].n = ses[s].n
  PROVE  Sound(s)'
<1>0. /\ InStep(s) /\ Prepared(s) /\ Recorded(s) /\ Kept(s)
      /\ ses[s].n \in Nat \ {0} /\ ses[s].call \in 1..3 /\ ses[s].link \in BOOLEAN
  <2>1. InStep(s) /\ Prepared(s) /\ Recorded(s) /\ Kept(s)
    BY DEF Sound
  <2>2. ses[s] \in Sessions
    BY DEF StoreTypeOK
  <2>3. QED
    BY <2>1, <2>2 DEF InStep, Sessions
<1>1. plan' = plan /\ (<<s, ses[s].n>> \in spoilt => <<s, ses[s].n>> \in spoilt')
  BY DEF Grows
<1>2. CASE NextCall(s)
  <2>1. /\ NodeId(s)' = NodeId(s) /\ Key(s)' = Key(s) /\ Calls(s)' = Calls(s)
        /\ HasTemp(s)' = HasTemp(s) /\ (Spoilt(s)' <=> <<s, ses[s].n>> \in spoilt')
    BY <1>1, <1>2 DEF NextCall, NodeId, Key, Calls, Mesg, HasTemp, Spoilt
  <2>2. ses[s].call = 1 \/ (ses[s].call = 2 /\ NodeId(s) # Root)
    <3>1. Len(Calls(s)) = IF NodeId(s) = Root THEN 2 ELSE 3
      BY CallsAre
    <3>2. ses[s].call < Len(Calls(s))
      BY <1>2 DEF NextCall
    <3>3. QED
      BY <1>0, <3>1, <3>2
  <2>3. InStep(s)'
    <3>1. /\ ses'[s].n = ses[s].n /\ ses'[s].link /\ ses'[s].call = ses[s].call + 1
          /\ ses'[s].pc = IF ses[s].call = 1 /\ NodeId(s) # Root THEN "sense_segment" ELSE "network_segment"
      BY <1>2 DEF NextCall
    <3>2. Len(Calls(s)) = IF NodeId(s) = Root THEN 2 ELSE 3
      BY CallsAre
    <3>3. ses[s].call = 1 => ses'[s].call = 2
      BY <3>1
    <3>4. ses[s].call = 2 => ses'[s].call = 3
      BY <3>1
    <3>5. ses[s].n <= Len(plan.mesgs[s])
      BY <1>0 DEF InStep
    <3>6. QED
      BY <1>0, <1>1, <2>1, <2>2, <3>1, <3>2, <3>3, <3>4, <3>5 DEF InStep, Calling, SensePoints, NetworkPoints
  <2>4. Prepared(s)'
    <3>1. ses'[s].pc \in {"sense_segment", "network_segment"}
      BY <1>2 DEF NextCall
    <3>2. ASSUME ~Spoilt(s)' PROVE Known(NetOf[s])' /\ node'[Key(s)] # None
      <4>1. CASE ses[s].call = 1
        BY <2>1, <3>2, <4>1
      <4>2. CASE ses[s].call = 2
        <5>1. Known(NetOf[s]) /\ node[Key(s)] # None
          BY <1>0, <1>1, <2>1, <3>2, <4>2 DEF Prepared, Spoilt
        <5>2. Key(s) \in Keys
          BY <1>0, MesgType
        <5>3. QED
          BY <5>1, <5>2 DEF Grows
      <4>3. QED
        BY <2>2, <4>1, <4>2
    <3>3. QED
      BY <2>1, <3>1, <3>2 DEF Prepared
  <2>5. Recorded(s)'
    <3>1. ses'[s].n = ses[s].n /\ ses'[s].call = ses[s].call + 1
      BY <1>2 DEF NextCall
    <3>2. ses'[s].call = 3 => ses[s].call = 2
      BY <1>0, <3>1
    <3>3. ses[s].call = 2 => ses'[s].call = 3
      BY <3>1
    <3>4. ses'[s].call = 3 /\ ~Spoilt(s)' /\ HasTemp(s)' =>
            \E i \in 1..Len(sense') : sense'[i].from = s /\ sense'[i].n = ses[s].n
      BY <2>1, <2>2, <3>2
    <3>5. ASSUME NEW i \in 1..Len(sense'), sense'[i].from = s
          PROVE sense'[i].n < ses'[s].n \/ (sense'[i].n = ses'[s].n /\ ses'[s].call = 3)
      BY <2>2, <3>1, <3>3, <3>5
    <3>6. QED
      BY <3>1, <3>4, <3>5 DEF Recorded, Stored
  <2>6. Kept(s)'
    BY <1>0, <1>2, KeepsKept DEF NextCall
  <2>7. QED
    BY <2>3, <2>4, <2>5, <2>6 DEF Sound
<1>3. CASE NextMesg(s)
  <2>1. /\ ses'[s].pc = "read" /\ ses'[s].call = 1 /\ ses'[s].n = ses[s].n + 1
        /\ ~ses[s].link \/ ses[s].call = Len(Calls(s))
    BY <1>3 DEF NextMesg
  <2>2. \/ NodeId(s) = Root \/ ~HasTemp(s)
        \/ <<s, ses[s].n>> \in spoilt'
        \/ Stored(s, ses[s].n)
    <3>1. CASE ~ses[s].link
      BY <1>0, <1>1, <3>1 DEF InStep, Spoilt
    <3>2. CASE ses[s].call = Len(Calls(s))
      BY <1>0, <1>1, <3>2, CallsAre DEF Recorded, Spoilt
    <3>3. QED
      BY <2>1, <3>1, <3>2
  <2>3. QED
    BY <2>1, <2>2, NextKeeps
<1>4. QED
  BY <1>0, <1>2, <1>3, ReturnsTo

\* A process that is between two messages, or has none yet.
LEMMA RestKeeps ==
  ASSUME StoreTypeOK, NEW s \in Session, Sound(s), ~Calling(s), Grows, sense' = sense,
         ses'[s].n = ses[s].n, ses'[s].call = 1,
         \/ ses'[s].pc \in {"off", "open", "read"}
         \/ ses'[s].pc = "select_name" /\ ses'[s].link /\ ses[s].n <= Len(plan.mesgs[s])
  PROVE  Sound(s)'
<1>1. InStep(s) /\ Recorded(s) /\ Kept(s) /\ plan' = plan
  BY DEF Sound, Grows
<1>2. ses[s].call = 1
  BY <1>1 DEF InStep, Calling, SensePoints, NetworkPoints
<1>3. InStep(s)'
  BY <1>1 DEF InStep, Calling, SensePoints, NetworkPoints
<1>4. Prepared(s)'
  BY DEF Prepared
<1>5. Recorded(s)'
  BY <1>1, <1>2 DEF Recorded
<1>6. Kept(s)'
  BY <1>1, KeepsKept
<1>7. QED
  BY <1>3, <1>4, <1>5, <1>6 DEF Sound

\* A step of one session leaves the others sound.
LEMMA OneMoves ==
  ASSUME StoreTypeOK, \A r \in Session : Sound(r), NEW s \in Session, Others(s), Grows,
         sense' = sense \/ \E e : e.from = s /\ sense' = Append(sense, e), Sound(s)'
  PROVE  \A r \in Session : Sound(r)'
<1> SUFFICES ASSUME NEW r \in Session, r # s PROVE Sound(r)'
  OBVIOUS
<1>1. ses'[r] = ses[r]
  BY DEF Others
<1>2. sense' = sense \/ \E e : e.from # r /\ sense' = Append(sense, e)
  OBVIOUS
<1>3. InStep(r) /\ Prepared(r) /\ Recorded(r) /\ Kept(r)
  BY DEF Sound
<1>4. InStep(r)' /\ Prepared(r)' /\ Recorded(r)'
  BY <1>1, <1>2, <1>3, OthersKeep
<1>5. Kept(r)'
  BY <1>1, <1>3, KeepsKept
<1>6. QED
  BY <1>4, <1>5 DEF Sound

\* The third call is never one for the base station.
LEMMA ThirdCall ==
  ASSUME StoreTypeOK, NEW s \in Session, Sound(s), ses[s].call = 3
  PROVE  NodeId(s) # Root
<1>1. InStep(s) /\ (ses[s].pc \in NetworkPoints => ses[s].call = Len(Calls(s)))
  BY DEF Sound, InStep
<1>2. ses[s].pc \in NetworkPoints
  BY <1>1 DEF InStep
<1>3. Len(Calls(s)) = 3
  BY <1>1, <1>2
<1>4. QED
  BY <1>3, CallsAre

\* Returning from a call without storing a record.
LEMMA PlainReturn ==
  ASSUME StoreTypeOK, StoreTypeOK', NEW s \in Session, Sound(s), Calling(s), Returns(s), Grows,
         sense' = sense,
         \/ <<s, ses[s].n>> \in spoilt'
         \/ /\ ses[s].call = 1 => Known(NetOf[s])' /\ node'[Key(s)] # None
            /\ ses[s].call = 2 => NodeId(s) = Root \/ ~HasTemp(s)
  PROVE  Sound(s)' /\ Others(s)
<1>1. \A i \in 1..Len(sense') : sense'[i].from = s =>
        sense'[i].n < ses[s].n \/ (sense'[i].n = ses[s].n /\ ses[s].call \in {2, 3} /\ NodeId(s) # Root)
  <2>1. \A i \in 1..Len(sense) : sense[i].from = s =>
          sense[i].n < ses[s].n \/ (sense[i].n = ses[s].n /\ ses[s].call = 3)
    BY DEF Sound, Recorded
  <2>2. QED
    BY <2>1, ThirdCall
<1>2. Sound(s)'
  BY <1>1, ReturnKeeps
<1>3. Others(s)
  BY ReturnsTo DEF Sound
<1>4. QED
  BY <1>2, <1>3

\* The calls of a point.
LEMMA CallAt ==
  ASSUME StoreTypeOK, NEW s \in Session, Sound(s)
  PROVE  /\ ses[s].pc \in NodePoints => Calling(s) /\ ses[s].call = 1
         /\ ses[s].pc \in SensePoints => Calling(s) /\ ses[s].call = 2 /\ NodeId(s) # Root
         /\ ses[s].pc \in NetworkPoints =>
              /\ Calling(s) /\ ses[s].call \in {2, 3} /\ (ses[s].call = 2 => NodeId(s) = Root)
<1>1. InStep(s) /\ Len(Calls(s)) = IF NodeId(s) = Root THEN 2 ELSE 3
  BY CallsAre DEF Sound
<1>2. QED
  BY <1>1 DEF InStep, Calling, NodePoints, SensePoints, NetworkPoints

\* A statement of a procedure leaves every session sound.
LEMMA StatementKeeps ==
  ASSUME StoreTypeOK, StoreTypeOK', \A r \in Session : Sound(r), NEW s \in Session, Statement(s)
  PROVE  \A r \in Session : Sound(r)'
<1>0. Sound(s) /\ InStep(s) /\ Prepared(s)
  BY DEF Sound
<1>k. Calling(s) => Key(s) \in Keys
  BY <1>0, MesgType
<1>p. Statement(s) => spoilt \subseteq spoilt' /\ plan' = plan
  BY DEF Statement, SelectName, InsertName, SelectNode, InsertNode, UpdateNode, SelectSegment,
     InsertSense, SelectNetwork, InsertNetwork, UpdateNetwork, Spoil
<1>g. UNCHANGED <<names, node, sense>> => Grows
  BY <1>p, Still
<1>w. ASSUME sense' = sense, Grows, Others(s), Sound(s)' PROVE \A r \in Session : Sound(r)'
  BY <1>w, OneMoves
<1>1. CASE SelectName(s)
  <2>1. At(s, "select_name") /\ UNCHANGED <<names, node, sense>>
    BY <1>1 DEF SelectName, tables
  <2>2. Grows /\ Calling(s)
    BY <1>g, <2>1 DEF At, Calling
  <2>3. CASE Known(Name(s)) /\ NextName(s)
    <3>1. ses'[s].pc \in {"select_name", "select_node"} /\ (ses'[s].pc = "select_node" => ses[s].name = 3)
      BY <2>3, NextNameTo
    <3>2. ses'[s].pc = "select_node" => Known(NetOf[s])'
      BY <2>1, <2>3, <3>1, NameType DEF Known
    <3>3. Others(s) /\ ses'[s].n = ses[s].n /\ ses'[s].link = ses[s].link /\ ses'[s].call = ses[s].call
      BY <2>3, NextNameTo
    <3>4. Sound(s)'
      BY <1>0, <2>1, <2>2, <3>1, <3>2, <3>3, WithinKeeps DEF At, NodePoints
    <3>5. QED
      BY <1>w, <2>1, <2>2, <3>3, <3>4
  <2>4. CASE Goto(s, "insert_name")
    <3>1. /\ Others(s) /\ ses'[s].n = ses[s].n /\ ses'[s].link = ses[s].link /\ ses'[s].call = ses[s].call
          /\ ses'[s].pc = "insert_name"
      BY <2>4, GotoTo DEF NodePoints
    <3>2. Sound(s)'
      BY <1>0, <2>1, <2>2, <3>1, WithinKeeps DEF At, NodePoints
    <3>3. QED
      BY <1>w, <2>1, <2>2, <3>1, <3>2
  <2>5. QED
    BY <1>1, <2>3, <2>4 DEF SelectName
<1>2. CASE InsertName(s)
  <2>1. At(s, "insert_name") /\ UNCHANGED <<plan, node, sense>> /\ Calling(s)
    BY <1>2 DEF InsertName, At, Calling
  <2>2. CASE Known(Name(s))
    <3>1. Returns(s) /\ Spoil(s) /\ names' = names
      BY <1>2, <2>2 DEF InsertName
    <3>2. Grows /\ <<s, ses[s].n>> \in spoilt'
      BY <1>g, <2>1, <3>1 DEF Spoil
    <3>3. QED
      BY <1>0, <1>w, <2>1, <3>1, <3>2, PlainReturn
  <2>3. CASE ~Known(Name(s))
    <3>1. NextName(s) /\ names' = Append(names, Name(s)) /\ spoilt' = spoilt
      BY <1>2, <2>3 DEF InsertName
    <3>2. names \in Seq(Names) /\ Name(s) \in Names
      BY NameType DEF StoreTypeOK
    <3>3. \A nm : nm = Name(s) \/ Known(nm) => Known(nm)'
      <4>1. Len(names') = Len(names) + 1 /\ names'[Len(names) + 1] = Name(s)
        BY <3>1, <3>2
      <4>2. \A i \in 1..Len(names) : i \in 1..Len(names') /\ names'[i] = names[i]
        BY <3>1, <3>2
      <4>3. Len(names) + 1 \in 1..Len(names')
        BY <3>2, <4>1
      <4>4. QED
        BY <4>1, <4>2, <4>3 DEF Known
    <3>4. Grows
      BY <1>p, <2>1, <3>3 DEF Grows, Stored
    <3>5. ses'[s].pc \in {"select_name", "select_node"} /\ (ses'[s].pc = "select_node" => ses[s].name = 3)
      BY <3>1, NextNameTo
    <3>6. ses'[s].pc = "select_node" => Known(NetOf[s])'
      BY <3>3, <3>5, NameType
    <3>7. Others(s) /\ ses'[s].n = ses[s].n /\ ses'[s].link = ses[s].link /\ ses'[s].call = ses[s].call
      BY <3>1, NextNameTo
    <3>8. Sound(s)'
      BY <1>0, <2>1, <3>4, <3>5, <3>6, <3>7, WithinKeeps DEF At, NodePoints
    <3>9. QED
      BY <1>w, <2>1, <3>4, <3>7, <3>8
  <2>4. QED
    BY <2>2, <2>3
<1>3. CASE SelectNode(s)
  <2>1. At(s, "select_node") /\ UNCHANGED <<names, node, sense>> /\ Calling(s)
    BY <1>3 DEF SelectNode, tables, At, Calling
  <2>2. PICK l \in {"insert_node", "update_node"} :
          Goto(s, l) /\ (l = "update_node" => node[Key(s)] # None)
    BY <1>3 DEF SelectNode
  <2>3. /\ Others(s) /\ ses'[s].n = ses[s].n /\ ses'[s].link = ses[s].link /\ ses'[s].call = ses[s].call
        /\ ses'[s].pc = l
    BY <2>2, GotoTo DEF NodePoints
  <2>4. Known(NetOf[s])'
    BY <1>0, <2>1 DEF Prepared, At, Known
  <2>5. Sound(s)'
    BY <1>0, <1>g, <2>1, <2>2, <2>3, <2>4, WithinKeeps DEF At, NodePoints
  <2>6. QED
    BY <1>g, <1>w, <2>1, <2>3, <2>5
<1>4. CASE InsertNode(s) \/ UpdateNode(s)
  <2>1. /\ At(s, "insert_node") \/ At(s, "update_node")
        /\ UNCHANGED <<names, sense>> /\ Calling(s) /\ Returns(s)
    BY <1>4 DEF InsertNode, UpdateNode, At, Calling
  <2>2. Key(s) \in Keys /\ node \in [Keys -> {None} \cup NodeRow] /\ None \notin NodeRow
    BY <1>k, <2>1, NoneAssumption DEF StoreTypeOK, NodeRow
  <2>3. node'[Key(s)] # None /\ \A k \in Keys \ {Key(s)} : node'[k] = node[k]
    <3>1. CASE InsertNode(s)
      BY <2>2, <3>1, NewRow DEF InsertNode
    <3>2. CASE UpdateNode(s)
      <4>1. node[Key(s)] # None
        BY <1>0, <3>2 DEF UpdateNode, At, Prepared
      <4>2. QED
        BY <2>2, <3>2, <4>1, NewRow DEF UpdateNode
    <3>3. QED
      BY <1>4, <3>1, <3>2
  <2>4. Grows
    BY <1>p, <2>1, <2>3 DEF Grows, Known, Stored
  <2>5. ses[s].call = 1
    BY <1>0, <2>1, CallAt DEF At, NodePoints
  <2>6. Known(NetOf[s])'
    BY <1>0, <2>1 DEF Prepared, At, Known
  <2>7. /\ ses[s].call = 1 => Known(NetOf[s])' /\ node'[Key(s)] # None
        /\ ses[s].call = 2 => NodeId(s) = Root
    BY <2>3, <2>5, <2>6
  <2>8. Calling(s) /\ Returns(s) /\ sense' = sense
    BY <2>1
  <2>9. Sound(s)' /\ Others(s)
    BY <1>0, <2>4, <2>7, <2>8, PlainReturn
  <2>10. QED
    BY <1>w, <2>4, <2>8, <2>9
<1>5. CASE \/ SelectSegment(s, "sense_segment", "insert_sense")
           \/ SelectSegment(s, "network_segment", "select_network")
  <2>1. /\ At(s, "sense_segment") \/ At(s, "network_segment")
        /\ UNCHANGED <<names, node, sense>> /\ Calling(s)
        /\ ~Known(NetOf[s]) => Returns(s)
        /\ Known(NetOf[s]) => Goto(s, IF At(s, "sense_segment") THEN "insert_sense" ELSE "select_network")
    BY <1>5 DEF SelectSegment, tables, At, Calling
  <2>2. Grows
    BY <1>g, <2>1
  <2>3. CASE Known(NetOf[s])
    <3>1. PICK l \in {"insert_sense", "select_network"} :
            Goto(s, l) /\ l = IF At(s, "sense_segment") THEN "insert_sense" ELSE "select_network"
      BY <2>1, <2>3
    <3>2. /\ Others(s) /\ ses'[s].n = ses[s].n /\ ses'[s].link = ses[s].link /\ ses'[s].call = ses[s].call
          /\ ses'[s].pc = l
      BY <3>1, GotoTo DEF SensePoints, NetworkPoints
    <3>3. Sound(s)'
      BY <1>0, <2>1, <2>2, <3>1, <3>2, WithinKeeps DEF At, SensePoints, NetworkPoints
    <3>4. QED
      BY <1>w, <2>1, <2>2, <3>2, <3>3
  <2>4. CASE ~Known(NetOf[s])
    <3>1. ses[s].call > 1
      BY <1>0, <2>1, CallAt DEF At, SensePoints, NetworkPoints
    <3>2. <<s, ses[s].n>> \in spoilt'
      BY <1>0, <1>p, <2>4, <3>1 DEF Prepared, Spoilt
    <3>3. QED
      BY <1>0, <1>w, <2>1, <2>2, <2>4, <3>2, PlainReturn
  <2>5. QED
    BY <2>3, <2>4
<1>6. CASE InsertSense(s)
  <2>1. /\ At(s, "insert_sense") /\ Calling(s) /\ Returns(s) /\ UNCHANGED <<names, node>>
        /\ ses[s].call = 2 /\ NodeId(s) # Root
    BY <1>0, <1>6, CallAt DEF InsertSense, At, Calling, SensePoints
  <2>2. CASE node[Key(s)] = None \/ ~HasTemp(s)
    <3>1. sense' = sense
      BY <1>6, <2>2 DEF InsertSense
    <3>2. Grows
      BY <1>g, <2>1, <3>1
    <3>3. <<s, ses[s].n>> \in spoilt' \/ ~HasTemp(s)
      BY <1>0, <1>p, <2>1, <2>2 DEF Prepared, Spoilt
    <3>4. QED
      BY <1>0, <1>w, <2>1, <3>1, <3>2, <3>3, PlainReturn
  <2>3. CASE node[Key(s)] # None /\ HasTemp(s)
    <3>1. PICK e : e.from = s /\ e.n = ses[s].n /\ sense' = Append(sense, e)
      BY <1>6, <2>3 DEF InsertSense
    <3>2. /\ Len(sense') = Len(sense) + 1 /\ sense'[Len(sense) + 1] = e /\ Len(sense) \in Nat
          /\ \A i \in 1..Len(sense) : sense'[i] = sense[i]
      BY <3>1 DEF StoreTypeOK
    <3>3. /\ Len(sense) + 1 \in 1..Len(sense')
          /\ \A i \in 1..Len(sense) : i \in 1..Len(sense')
          /\ \A i \in 1..Len(sense') : i \in 1..Len(sense) \/ i = Len(sense) + 1
      BY <3>2
    <3>4. /\ \E i \in 1..Len(sense') : sense'[i].from = s /\ sense'[i].n = ses[s].n
          /\ \A r \in Session : \A m : Stored(r, m) => Stored(r, m)'
      <4>1. \E i \in 1..Len(sense') : sense'[i].from = s /\ sense'[i].n = ses[s].n
        BY <3>1, <3>2, <3>3
      <4>2. \A r \in Session : \A m : Stored(r, m) => Stored(r, m)'
        BY <3>2, <3>3 DEF Stored
      <4>3. QED
        BY <4>1, <4>2
    <3>5. Grows
      BY <1>p, <2>1, <3>4 DEF Grows, Known
    <3>6. ASSUME NEW i \in 1..Len(sense'), sense'[i].from = s
          PROVE sense'[i].n < ses[s].n \/ (sense'[i].n = ses[s].n /\ ses[s].call \in {2, 3} /\ NodeId(s) # Root)
      <4>1. CASE i \in 1..Len(sense)
        BY <1>0, <2>1, <3>2, <3>6, <4>1 DEF Sound, Recorded
      <4>2. CASE i = Len(sense) + 1
        BY <2>1, <3>1, <3>2, <4>2
      <4>3. QED
        BY <3>3, <4>1, <4>2
    <3>7. /\ ses[s].call = 1 => Known(NetOf[s])' /\ node'[Key(s)] # None
          /\ ses[s].call = 2 /\ NodeId(s) # Root /\ HasTemp(s) =>
                 \E i \in 1..Len(sense') : sense'[i].from = s /\ sense'[i].n = ses[s].n
      BY <2>1, <3>4
    <3>8. Calling(s) /\ Returns(s)
      BY <2>1
    <3>9. Sound(s)'
      BY <1>0, <3>5, <3>6, <3>7, <3>8, ReturnKeeps
    <3>10. Others(s)
      BY <1>0, <3>8, ReturnsTo
    <3>11. QED
      BY <3>1, <3>5, <3>9, <3>10, OneMoves
  <2>4. QED
    BY <2>2, <2>3
<1>7. CASE SelectNetwork(s)
  <2>1. At(s, "select_network") /\ UNCHANGED <<names, node, sense>> /\ Calling(s)
    BY <1>7 DEF SelectNetwork, tables, At, Calling
  <2>2. PICK l \in {"insert_network", "update_network"} : Goto(s, l)
    BY <1>7 DEF SelectNetwork
  <2>3. /\ Others(s) /\ ses'[s].n = ses[s].n /\ ses'[s].link = ses[s].link /\ ses'[s].call = ses[s].call
        /\ ses'[s].pc = l
    BY <2>2, GotoTo DEF NetworkPoints
  <2>4. Sound(s)'
    BY <1>0, <1>g, <2>1, <2>3, WithinKeeps DEF At, NetworkPoints
  <2>5. QED
    BY <1>g, <1>w, <2>1, <2>3, <2>4
<1>8. CASE InsertNetwork(s) \/ UpdateNetwork(s)
  <2>1. /\ ses[s].pc \in NetworkPoints /\ Calling(s) /\ Returns(s)
        /\ UNCHANGED <<names, node, sense>>
    BY <1>8 DEF InsertNetwork, UpdateNetwork, At, Calling, NetworkPoints
  <2>2. ses[s].call \in {2, 3} /\ (ses[s].call = 2 => NodeId(s) = Root)
    BY <1>0, <2>1, CallAt
  <2>3. Grows
    BY <1>g, <2>1
  <2>4. /\ ses[s].call = 1 => Known(NetOf[s])' /\ node'[Key(s)] # None
        /\ ses[s].call = 2 => NodeId(s) = Root
    BY <2>2
  <2>5. Calling(s) /\ Returns(s) /\ sense' = sense
    BY <2>1
  <2>6. Sound(s)' /\ Others(s)
    BY <1>0, <2>3, <2>4, <2>5, PlainReturn
  <2>7. QED
    BY <1>w, <2>3, <2>5, <2>6
<1>9. QED
  BY <1>1, <1>2, <1>3, <1>4, <1>5, <1>6, <1>7, <1>8 DEF Statement

\* A client waits for a process while it has none.
Waiting == \A s \in Session : client[s] = "waiting" => At(s, "off")

\* Every step leaves every session sound.
LEMMA SessionsStep ==
  ASSUME TypeOK, StoreTypeOK', \A r \in Session : Sound(r), Waiting, [Next]_vars
  PROVE  \A r \in Session : Sound(r)'
<1>0. StoreTypeOK /\ ses \in [Session -> Sessions]
  BY DEF TypeOK, StoreTypeOK
<1>w. ASSUME NEW s \in Session, sense' = sense, Grows, Others(s), Sound(s)'
      PROVE  \A r \in Session : Sound(r)'
  BY <1>0, <1>w, OneMoves
<1>g. ASSUME UNCHANGED <<plan, tables>>, spoilt \subseteq spoilt' PROVE Grows /\ sense' = sense
  BY <1>g, Still DEF tables
<1>1. ASSUME NEW s \in Session, ReadMesg(s) PROVE \A r \in Session : Sound(r)'
  <2>1. /\ UNCHANGED <<plan, tables>> /\ spoilt \subseteq spoilt' /\ ~Calling(s)
        /\ ses[s].n <= Len(plan.mesgs[s]) /\ ses[s].pc = "read" /\ Sound(s) /\ ses[s].call = 1
    BY <1>1 DEF ReadMesg, At, Calling, Spoil, Sound, InStep, SensePoints, NetworkPoints
  <2>2. Grows /\ sense' = sense
    BY <1>g, <2>1
  <2>3. CASE ses[s].link
    <3>1. ses' = [ses EXCEPT ![s].pc = "select_name", ![s].name = 1]
      BY <1>1, <2>3, CallsAre DEF ReadMesg
    <3>2. /\ Others(s) /\ ses'[s].n = ses[s].n /\ ses'[s].call = 1 /\ ses'[s].link
          /\ ses'[s].pc = "select_name"
      BY <1>0, <2>1, <2>3, <3>1 DEF Others, Sessions
    <3>3. Sound(s)'
      BY <1>0, <2>1, <2>2, <3>2, RestKeeps
    <3>4. QED
      BY <1>w, <2>2, <3>2, <3>3
  <2>4. CASE ~ses[s].link
    <3>1. ses' = [ses EXCEPT ![s].n = @ + 1] /\ Spoil(s)
      BY <1>1, <2>4 DEF ReadMesg
    <3>2. /\ Others(s) /\ ses'[s].n = ses[s].n + 1 /\ ses'[s].call = 1 /\ ses'[s].pc = "read"
      BY <1>0, <2>1, <3>1 DEF Others, Sessions
    <3>3. <<s, ses[s].n>> \in spoilt'
      BY <3>1 DEF Spoil
    <3>4. \A i \in 1..Len(sense') : sense'[i].from = s => sense'[i].n < ses[s].n \/ sense'[i].n = ses[s].n
      BY <2>1, <2>2 DEF Sound, Recorded
    <3>5. Sound(s)'
      BY <1>0, <2>1, <2>2, <3>2, <3>3, <3>4, NextKeeps
    <3>6. QED
      BY <1>w, <2>2, <3>2, <3>5
  <2>5. QED
    BY <2>3, <2>4
<1>2. ASSUME NEW s \in Session, LoseLink(s) PROVE \A r \in Session : Sound(r)'
  <2>1. /\ UNCHANGED <<plan, tables>> /\ spoilt \subseteq spoilt' /\ Sound(s)
    BY <1>2 DEF LoseLink, Spoil
  <2>2. Grows /\ sense' = sense
    BY <1>g, <2>1
  <2>3. CASE ~Calling(s)
    <3>1. ses' = [ses EXCEPT ![s].link = FALSE] /\ ses[s].pc = "read"
      BY <1>2, <2>3 DEF LoseLink, At, Calling
    <3>2. ses[s].call = 1
      BY <2>1, <3>1 DEF Sound, InStep, SensePoints, NetworkPoints
    <3>3. /\ Others(s) /\ ses'[s].n = ses[s].n /\ ses'[s].call = 1 /\ ses'[s].pc = "read"
      BY <1>0, <3>1, <3>2 DEF Others, Sessions
    <3>4. Sound(s)'
      BY <1>0, <2>1, <2>2, <2>3, <3>3, RestKeeps
    <3>5. QED
      BY <1>w, <2>2, <3>3, <3>4
  <2>4. CASE Calling(s) /\ ses' = [ses EXCEPT ![s].link = FALSE]
    <3>1. Spoil(s)
      BY <1>2, <2>4 DEF LoseLink, At, Calling
    <3>2. /\ Others(s) /\ ses'[s].n = ses[s].n /\ ses'[s].call = ses[s].call /\ ses'[s].pc = ses[s].pc
      BY <1>0, <2>4 DEF Others, Sessions
    <3>3. /\ NodeId(s)' = NodeId(s) /\ Key(s)' = Key(s) /\ Calls(s)' = Calls(s)
          /\ Calling(s)' = Calling(s) /\ HasTemp(s)' = HasTemp(s) /\ Spoilt(s)'
      BY <2>1, <3>1, <3>2 DEF NodeId, Key, Calls, Calling, Mesg, HasTemp, Spoilt, Spoil
    <3>4. InStep(s)' /\ Prepared(s)' /\ Recorded(s)'
      BY <2>1, <2>2, <3>2, <3>3 DEF Sound, InStep, Prepared, Recorded, tables, Known
    <3>5. Kept(s)'
      BY <2>1, <2>2, <3>2, KeepsKept DEF Sound
    <3>6. QED
      BY <1>w, <2>2, <3>2, <3>4, <3>5 DEF Sound
  <2>5. CASE /\ Calling(s)
             /\ ses' = [ses EXCEPT ![s].link = FALSE, ![s].pc = "read", ![s].call = 1, ![s].n = @ + 1]
    <3>1. Spoil(s)
      BY <1>2, <2>5 DEF LoseLink, At, Calling
    <3>2. /\ Others(s) /\ ses'[s].n = ses[s].n + 1 /\ ses'[s].call = 1 /\ ses'[s].pc = "read"
      BY <1>0, <2>5 DEF Others, Sessions
    <3>3. <<s, ses[s].n>> \in spoilt'
      BY <3>1 DEF Spoil
    <3>4. \A i \in 1..Len(sense') : sense'[i].from = s => sense'[i].n < ses[s].n \/ sense'[i].n = ses[s].n
      BY <2>1, <2>2 DEF Sound, Recorded
    <3>5. Sound(s)'
      BY <1>0, <2>1, <2>2, <3>2, <3>3, <3>4, NextKeeps
    <3>6. QED
      BY <1>w, <2>2, <3>2, <3>5
  <2>6. QED
    BY <1>2, <2>3, <2>4, <2>5 DEF LoseLink, At, Calling
<1>3. ASSUME NEW s \in Session, Accept(s) \/ OpenDb(s) \/ ProcessEnds(s)
      PROVE  \A r \in Session : Sound(r)'
  <2>1. UNCHANGED <<plan, tables>> /\ spoilt \subseteq spoilt' /\ Sound(s)
    BY <1>3 DEF Accept, OpenDb, ProcessEnds
  <2>2. Grows /\ sense' = sense
    BY <1>g, <2>1
  <2>3. ~Calling(s)
    BY <1>3 DEF Accept, OpenDb, ProcessEnds, Waiting, At, Calling
  <2>4. ses[s].call = 1
    BY <2>1, <2>3 DEF Sound, InStep, Calling, SensePoints, NetworkPoints
  <2>5. /\ Others(s) /\ ses'[s].n = ses[s].n /\ ses'[s].call = 1
        /\ ses'[s].pc \in {"off", "open", "read"}
    <3>1. CASE Accept(s)
      <4>1. ses' = [ses EXCEPT ![s] = [Off EXCEPT !.pc = "open", !.n = ses[s].n]]
        BY <3>1 DEF Accept
      <4>2. QED
        BY <1>0, <4>1 DEF Others, Off
    <3>2. CASE OpenDb(s)
      BY <1>0, <2>4, <3>2 DEF OpenDb, Others, Sessions
    <3>3. CASE ProcessEnds(s)
      BY <1>0, <2>4, <3>3 DEF ProcessEnds, Others, Sessions
    <3>4. QED
      BY <1>3, <3>1, <3>2, <3>3
  <2>6. Sound(s)'
    BY <1>0, <2>1, <2>2, <2>3, <2>5, RestKeeps
  <2>7. QED
    BY <1>w, <2>2, <2>5, <2>6
<1>4. ASSUME UNCHANGED <<plan, names, node, sense, ses, spoilt>> PROVE \A r \in Session : Sound(r)'
  <2>1. Grows
    BY <1>4, Still
  <2>2. ASSUME NEW r \in Session PROVE Sound(r)'
    <3>1. InStep(r)' /\ Prepared(r)' /\ Recorded(r)'
      BY <1>0, <1>4, <2>1, OthersKeep DEF Sound
    <3>2. Kept(r)'
      BY <1>4, <2>1, KeepsKept DEF Sound
    <3>3. QED
      BY <3>1, <3>2 DEF Sound
  <2>3. QED
    BY <2>2
<1>5. QED
  <2>1. ASSUME NEW s \in Session, ClientConnects(s) \/ ClientLeaves(s) \/ Reset(s) \/ AcceptFails(s)
        PROVE \A r \in Session : Sound(r)'
    BY <2>1, <1>4 DEF ClientConnects, ClientLeaves, Reset, AcceptFails, store
  <2>2. CASE UNCHANGED vars \/ Command
    BY <2>2, <1>4 DEF vars, store, Command
  <2>3. CASE Tick \/ Reader
    BY <2>3, <1>4 DEF Tick, Reader, PageFails, AskNodes, sp_flush_network, NodeInfo, RealTime, AskSeries, tables
  <2>4. QED
    BY <1>0, <1>1, <1>2, <1>3, <2>1, <2>2, <2>3, StatementKeeps DEF Next, Process

\* A step is a statement that writes, the flush, or leaves the tables alone.
Writes(s) == InsertName(s) \/ InsertNode(s) \/ UpdateNode(s) \/ InsertSense(s)
             \/ InsertNetwork(s) \/ UpdateNetwork(s)
LEMMA WhoWrites ==
  ASSUME [Next]_vars
  PROVE  \/ \E s \in Session : Writes(s)
         \/ sp_flush_network
         \/ UNCHANGED <<tables, reports>> /\ (now' = now \/ now' = now + 1)
<1> DEFINE Idle == UNCHANGED <<tables, reports>> /\ (now' = now \/ now' = now + 1)
<1>1. ASSUME NEW s \in Session, Statement(s) PROVE Writes(s) \/ Idle
  <2>1. CASE Writes(s)
    BY <2>1
  <2>2. CASE SelectName(s) \/ SelectNode(s) \/ SelectNetwork(s)
    BY <2>2 DEF SelectName, SelectNode, SelectNetwork
  <2>3. CASE \/ SelectSegment(s, "sense_segment", "insert_sense")
             \/ SelectSegment(s, "network_segment", "select_network")
    BY <2>3 DEF SelectSegment
  <2>4. QED
    BY <1>1, <2>1, <2>2, <2>3 DEF Statement, Writes
<1>2. ASSUME NEW s \in Session, ReadMesg(s) \/ LoseLink(s) PROVE Idle
  BY <1>2 DEF ReadMesg, LoseLink
<1>3. ASSUME NEW s \in Session, ClientConnects(s) \/ ClientLeaves(s) \/ Reset(s) PROVE Idle
  BY <1>3 DEF ClientConnects, ClientLeaves, Reset, store, tables
<1>4. ASSUME NEW s \in Session, Accept(s) \/ AcceptFails(s) \/ OpenDb(s) \/ ProcessEnds(s)
      PROVE  Idle
  BY <1>4 DEF Accept, AcceptFails, OpenDb, ProcessEnds, store, tables
<1>5. ASSUME Tick \/ Reader PROVE sp_flush_network \/ Idle
  <2>1. CASE Tick \/ PageFails \/ AskNodes
    BY <2>1 DEF Tick, PageFails, AskNodes
  <2>2. CASE NodeInfo \/ RealTime
    BY <2>2 DEF NodeInfo, RealTime
  <2>3. ASSUME NEW k, NEW num, AskSeries(k, num) PROVE Idle
    BY <2>3 DEF AskSeries
  <2>4. QED
    BY <1>5, <2>1, <2>2, <2>3 DEF Reader
<1>6. ASSUME UNCHANGED vars \/ Command PROVE Idle
  BY <1>6 DEF vars, store, tables, Command
<1>7. CASE \E s \in Session : Process(s)
  <2>1. PICK s \in Session : OpenDb(s) \/ ProcessEnds(s) \/ ReadMesg(s) \/ Statement(s)
    BY <1>7 DEF Process
  <2> HIDE DEF Idle
  <2>2. Writes(s) \/ Idle
    BY <1>1, <1>2, <1>4, <2>1
  <2>3. QED
    BY <2>2 DEF Idle
<1> HIDE DEF Idle
<1>8. ASSUME Next, ~ (\E s \in Session : Process(s)) PROVE sp_flush_network \/ Idle
  BY <1>2, <1>3, <1>4, <1>5, <1>6, <1>8 DEF Next
<1>9. QED
  BY <1>6, <1>7, <1>8 DEF Idle

\* A record is appended after the earlier ones of its session.
LEMMA InOrderStep ==
  ASSUME StoreTypeOK, \A r \in Session : Sound(r), InOrder, [Next]_vars
  PROVE  InOrder'
<1>1. CASE sense' = sense
  BY <1>1 DEF InOrder
<1>2. ASSUME NEW s \in Session, InsertSense(s), node[Key(s)] # None, HasTemp(s) PROVE InOrder'
  <2>1. PICK e : e.from = s /\ e.n = ses[s].n /\ sense' = Append(sense, e)
    BY <1>2 DEF InsertSense
  <2>2. ses[s].call = 2
    BY <1>2, CallAt DEF InsertSense, At, SensePoints
  <2>3. /\ Len(sense') = Len(sense) + 1 /\ sense'[Len(sense) + 1] = e /\ Len(sense) \in Nat
        /\ \A i \in 1..Len(sense) : sense'[i] = sense[i]
    BY <2>1 DEF StoreTypeOK
  <2>4. \A i \in 1..Len(sense) : sense[i].from = s => sense[i].n < ses[s].n
    BY <2>2 DEF Sound, Recorded
  <2>5. ASSUME NEW i \in 1..Len(sense'), NEW j \in 1..Len(sense'), i < j, sense'[i].from = sense'[j].from
        PROVE sense'[i].n < sense'[j].n
    <3>1. i \in 1..Len(sense) /\ (j \in 1..Len(sense) \/ j = Len(sense) + 1)
      BY <2>3, <2>5
    <3>2. CASE j \in 1..Len(sense)
      BY <2>3, <2>5, <3>1, <3>2 DEF InOrder
    <3>3. CASE j = Len(sense) + 1
      BY <2>1, <2>3, <2>4, <2>5, <3>1, <3>3
    <3>4. QED
      BY <3>1, <3>2, <3>3
  <2>6. QED
    BY <2>5 DEF InOrder
<1>3. sense' = sense \/ \E s \in Session : InsertSense(s) /\ node[Key(s)] # None /\ HasTemp(s)
  <2>1. ASSUME NEW s \in Session, Writes(s), ~ InsertSense(s) PROVE sense' = sense
    BY <2>1 DEF Writes, InsertName, InsertNode, UpdateNode, InsertNetwork, UpdateNetwork
  <2>2. ASSUME NEW s \in Session, InsertSense(s), node[Key(s)] = None \/ ~HasTemp(s)
        PROVE  sense' = sense
    BY <2>2 DEF InsertSense
  <2>3. sp_flush_network => sense' = sense
    BY DEF sp_flush_network
  <2>4. QED
    BY WhoWrites, <2>1, <2>2, <2>3 DEF tables
<1>4. QED
  BY <1>1, <1>2, <1>3

----------------------------------------------------------------------------
(* Reports, and the main process *)

\* A report moves update_time, or falls on its second of the cycle.
LEMMA ReportsStep ==
  ASSUME StoreTypeOK, \A r \in Session : Sound(r), \A k \in Keys : Reports(k), [Next]_vars
  PROVE  \A k \in Keys : Reports(k)'
<1>0. /\ now \in Nat /\ Cycle \in Nat /\ reports \in [Keys -> SUBSET Nat] /\ None \notin NodeRow
      /\ node \in [Keys -> {None} \cup NodeRow]
  BY PlanAssumption, CycleAssumption, NoneAssumption DEF StoreTypeOK, NodeRow
<1>1. ASSUME UNCHANGED <<node, reports>>, now' = now \/ now' = now + 1 PROVE \A k \in Keys : Reports(k)'
  <2> SUFFICES ASSUME NEW k \in Keys PROVE Reports(k)'
    OBVIOUS
  <2>1. \A t \in reports'[k] : t <= now'
    <3>1. \A t \in reports[k] : t \in Nat /\ t <= now
      BY <1>0 DEF Reports
    <3>2. QED
      BY <1>0, <1>1, <3>1
  <2>2. QED
    BY <1>1, <2>1 DEF Reports
<1>2. ASSUME NEW s \in Session, NEW row \in NodeRow, Key(s) \in Keys, now' = now,
             row.update_time = now, node' = [node EXCEPT ![Key(s)] = row], Reported(s)
      PROVE  \A k \in Keys : Reports(k)'
  <2> SUFFICES ASSUME NEW k \in Keys PROVE Reports(k)'
    OBVIOUS
  <2>1. CASE k # Key(s)
    <3>1. node'[k] = node[k] /\ reports'[k] = reports[k]
      BY <1>0, <1>2, <2>1 DEF Reported
    <3>2. QED
      BY <1>2, <3>1 DEF Reports
  <2>2. CASE k = Key(s)
    <3>1. node'[k] = row /\ reports'[k] = reports[k] \cup {now}
      BY <1>0, <1>2, <2>2 DEF Reported
    <3>2. \A t \in reports'[k] : t \in Nat /\ t <= now
      BY <1>0, <3>1 DEF Reports
    <3>3. \A t \in reports'[k] : ~(t > now)
      BY <1>0, <3>2
    <3>4. QED
      BY <1>2, <3>1, <3>2, <3>3 DEF Reports
  <2>3. QED
    BY <2>1, <2>2
<1>3. ASSUME NEW s \in Session, InsertNode(s) PROVE \A k \in Keys : Reports(k)'
  <2>1. Key(s) \in Keys
    BY <1>3, MesgType DEF InsertNode, At, Calling, Sound
  <2>2. CASE node[Key(s)] = None
    <3>1. PICK row \in NodeRow : row = [power |-> 0, update_time |-> now, gps |-> s]
      BY NewRow
    <3>2. now' = now /\ node' = [node EXCEPT ![Key(s)] = row] /\ Reported(s)
      BY <1>3, <2>2, <3>1 DEF InsertNode
    <3>3. row.update_time = now
      BY <3>1
    <3>4. QED
      BY <1>2, <2>1, <3>2, <3>3
  <2>3. CASE node[Key(s)] # None
    BY <1>1, <1>3, <2>3 DEF InsertNode
  <2>4. QED
    BY <2>2, <2>3
<1>4. ASSUME NEW s \in Session, UpdateNode(s) PROVE \A k \in Keys : Reports(k)'
  <2>1. Key(s) \in Keys /\ node[Key(s)] # None /\ now' = now /\ Reported(s)
    BY <1>4, MesgType DEF UpdateNode, At, Calling, Sound, Prepared
  <2>2. CASE node[Key(s)].power = NewPower /\ node[Key(s)].gps = s
    <3>1. node' = [node EXCEPT ![Key(s)] = node[Key(s)]]
      BY <1>4, <2>2 DEF UpdateNode
    <3>2. node' = node
      BY <1>0, <2>1, <3>1
    <3> SUFFICES ASSUME NEW k \in Keys PROVE Reports(k)'
      OBVIOUS
    <3>3. CASE k # Key(s)
      BY <1>0, <2>1, <3>2, <3>3 DEF Reported, Reports
    <3>4. CASE k = Key(s)
      <4>1. reports'[k] = reports[k] \cup {now}
        BY <1>0, <2>1, <3>4 DEF Reported
      <4>2. now % Cycle = node[k].power
        BY <2>2, <3>4 DEF NewPower
      <4>3. \A t \in reports'[k] : t <= now
        BY <1>0, <4>1 DEF Reports
      <4>4. QED
        BY <2>1, <3>2, <3>4, <4>1, <4>2, <4>3 DEF Reports
    <3>5. QED
      BY <3>3, <3>4
  <2>3. CASE ~(node[Key(s)].power = NewPower /\ node[Key(s)].gps = s)
    <3>1. PICK row \in NodeRow : row = [power |-> NewPower, update_time |-> now, gps |-> s]
      BY NewRow
    <3>2. node' = [node EXCEPT ![Key(s)] = row]
      BY <1>4, <2>3, <3>1 DEF UpdateNode
    <3>3. row.update_time = now
      BY <3>1
    <3>4. QED
      BY <1>2, <2>1, <3>2, <3>3
  <2>4. QED
    BY <2>2, <2>3
<1>5. \/ \E s \in Session : InsertNode(s) \/ UpdateNode(s)
      \/ UNCHANGED <<node, reports>> /\ (now' = now \/ now' = now + 1)
  <2>1. ASSUME NEW s \in Session, Writes(s), ~ (InsertNode(s) \/ UpdateNode(s))
        PROVE  UNCHANGED <<node, reports, now>>
    BY <2>1 DEF Writes, InsertName, InsertSense, InsertNetwork, UpdateNetwork
  <2>2. sp_flush_network => UNCHANGED <<node, reports, now>>
    BY DEF sp_flush_network
  <2>3. QED
    BY WhoWrites, <2>1, <2>2 DEF tables
<1>6. QED
  BY <1>1, <1>3, <1>4, <1>5

\* Types of the main process, and who waits.
LEMMA MainStep ==
  ASSUME TypeOK, StoreTypeOK', Waiting, [Next]_vars
  PROVE  TypeOK' /\ Waiting'
<1>0. /\ forked \in 0..ProcLimit /\ ProcLimit \in Nat /\ server \in {"up", "dead"}
      /\ client \in [Session -> {"off", "waiting", "served", "left"}]
      /\ plan.connects \in Nat /\ connects \in 0..plan.connects
      /\ Len(plan.commands) \in Nat /\ commands \in 0..Len(plan.commands)
  <2>1. plan.connects \in Nat /\ plan.commands \in Seq({"fits", "long"})
    BY PlanAssumption DEF TypeOK, StoreTypeOK
  <2>2. Len(plan.commands) \in Nat
    BY <2>1
  <2>3. QED
    BY <2>1, <2>2, LimitAssumption DEF TypeOK
<1>s. ses \in [Session -> Sessions]
  BY DEF TypeOK, StoreTypeOK
<1> DEFINE Off2 == \A s \in Session : client'[s] = "waiting" => ses'[s].pc = "off"
<1>m. ASSUME server' \in {"up", "dead"}, forked' \in 0..ProcLimit, connects' \in 0..plan.connects, plan' = plan,
             commands' \in 0..Len(plan.commands),
             client' \in [Session -> {"off", "waiting", "served", "left"}], Off2
      PROVE  TypeOK' /\ Waiting'
  BY <1>m DEF TypeOK, Waiting, At
<1>w. \A s \in Session : client[s] = "waiting" => ses[s].pc = "off"
  BY DEF Waiting, At
<1>1. ASSUME NEW s \in Session, ClientConnects(s) PROVE TypeOK' /\ Waiting'
  BY <1>0, <1>m, <1>w, <1>1 DEF ClientConnects, store, At
<1>2. ASSUME NEW s \in Session, ClientLeaves(s) \/ Reset(s) PROVE TypeOK' /\ Waiting'
  BY <1>0, <1>m, <1>w, <1>2 DEF ClientLeaves, Reset, store
<1>3. ASSUME NEW s \in Session, Accept(s) PROVE TypeOK' /\ Waiting'
  <2>1. forked' \in 0..ProcLimit
    BY <1>0, <1>3 DEF Accept, CanFork
  <2>2. /\ client' = [client EXCEPT ![s] = "served"] /\ \A r \in Session \ {s} : ses'[r] = ses[r]
        /\ UNCHANGED <<server, connects, commands, plan>>
    BY <1>s, <1>3 DEF Accept
  <2>3. QED
    BY <1>0, <1>m, <1>w, <2>1, <2>2
<1>4. ASSUME NEW s \in Session, AcceptFails(s) PROVE TypeOK' /\ Waiting'
  BY <1>0, <1>m, <1>w, <1>4 DEF AcceptFails, store
<1>5. ASSUME NEW s \in Session, OpenDb(s) \/ ProcessEnds(s) PROVE TypeOK' /\ Waiting'
  <2>1. /\ client[s] # "waiting" /\ (client' = client \/ client' = [client EXCEPT ![s] = "off"])
        /\ \A r \in Session \ {s} : ses'[r] = ses[r]
        /\ UNCHANGED <<server, forked, connects, commands, plan>>
    BY <1>s, <1>w, <1>5 DEF OpenDb, ProcessEnds, At
  <2>2. QED
    BY <1>0, <1>m, <1>w, <2>1
<1>6. ASSUME NEW s \in Session, ReadMesg(s) \/ Statement(s) \/ LoseLink(s), UNCHANGED main
      PROVE  TypeOK' /\ Waiting'
  <2>1. ses[s].pc # "off"
    BY <1>6 DEF ReadMesg, LoseLink, Statement, SelectName, InsertName, SelectNode, InsertNode,
       UpdateNode, SelectSegment, InsertSense, SelectNetwork, InsertNetwork, UpdateNetwork, At
  <2>2. \A r \in Session \ {s} : ses'[r] = ses[r]
    BY <1>s, <1>6 DEF ReadMesg, LoseLink, Statement, SelectName, InsertName, SelectNode, InsertNode,
       UpdateNode, SelectSegment, InsertSense, SelectNetwork, InsertNetwork, UpdateNetwork, Goto,
       Returns, NextName
  <2>3. plan' = plan
    BY <1>6 DEF ReadMesg, LoseLink, Statement, SelectName, InsertName, SelectNode, InsertNode,
       UpdateNode, SelectSegment, InsertSense, SelectNetwork, InsertNetwork, UpdateNetwork
  <2>4. QED
    BY <1>0, <1>m, <1>w, <1>6, <2>1, <2>2, <2>3 DEF main
<1>7. ASSUME UNCHANGED <<plan, ses, main>> PROVE TypeOK' /\ Waiting'
  BY <1>0, <1>m, <1>w, <1>7 DEF main
<1>c. CASE Command
  <2>1. server' \in {"up", "dead"} /\ commands' \in 0..Len(plan.commands)
    BY <1>0, <1>c DEF Command
  <2>2. QED
    BY <1>0, <1>m, <1>w, <1>c, <2>1 DEF Command, store
<1>8. QED
  <2>1. Tick \/ Reader => UNCHANGED <<plan, ses>>
    BY DEF Tick, Reader, PageFails, AskNodes, sp_flush_network, NodeInfo, RealTime, AskSeries
  <2>2. UNCHANGED vars => UNCHANGED <<plan, ses, main>>
    BY DEF vars, store
  <2>3. QED
    BY <1>1, <1>2, <1>3, <1>4, <1>5, <1>6, <1>7, <1>c, <2>1, <2>2 DEF Next, Process

----------------------------------------------------------------------------
(* The theorems *)

\* The parts of the inductive invariant.
LEMMA Parts ==
  IInv <=> /\ TypeOK /\ (\A r \in Session : Sound(r)) /\ InOrder
           /\ (\A k \in Keys : Reports(k)) /\ Waiting
BY KeptParts DEF IInv, StoreInv, Sound, Waiting, TypeOK

\* Sessions, tables and the main process agree in every reachable state.
THEOREM Invariance == Spec => []IInv
<1>1. Init => IInv
  <2> SUFFICES ASSUME Init PROVE IInv
    OBVIOUS
  <2> USE DEF Init, StoreInit
  <2>1. TypeOK
    <3>1. /\ now \in 0..plan.last /\ connects \in 0..plan.connects /\ forked \in 0..ProcLimit
          /\ commands \in 0..Len(plan.commands)
      BY PlanAssumption, LimitAssumption
    <3>2. ses \in [Session -> Sessions]
      <4>1. Off \in Sessions
        BY DEF Off, Sessions
      <4>2. QED
        BY <4>1
    <3>3. reader \in [pc : {"idle", "flush", "select", "query"}, key : {None} \cup Keys,
                      num : Nat, start : Nat, asked : Nat]
      BY DEF Resting
    <3>4. names \in Seq(Names) /\ sense \in Seq([key : Keys, from : Session, n : Nat, insert_time : Nat])
      OBVIOUS
    <3>5. /\ node \in [Keys -> {None} \cup [power : 0..(Cycle - 1), update_time : Nat, gps : Session]]
          /\ network \in [Keys -> {None} \cup Node] /\ reports \in [Keys -> SUBSET Nat]
      OBVIOUS
    <3>6. StoreTypeOK
      BY <3>1, <3>2, <3>3, <3>4, <3>5 DEF StoreTypeOK
    <3>7. QED
      BY <3>1, <3>6 DEF TypeOK
  <2>2. ASSUME NEW s \in Session PROVE Sound(s)
    <3>1. ses[s].pc = "off" /\ ses[s].call = 1 /\ ses[s].n = 1
      BY DEF Off
    <3>2. sense = <<>>
      OBVIOUS
    <3>3. InStep(s) /\ Prepared(s)
      BY <3>1 DEF InStep, Prepared, Calling, SensePoints, NetworkPoints
    <3>4. Recorded(s) /\ Kept(s)
      BY <3>1, <3>2 DEF Recorded, Kept
    <3>5. QED
      BY <3>3, <3>4 DEF Sound
  <2>3. InOrder
    BY DEF InOrder
  <2>4. \A k \in Keys : Reports(k)
    BY DEF Reports
  <2>5. Waiting
    BY DEF Waiting
  <2>6. QED
    BY <2>1, <2>2, <2>3, <2>4, <2>5, Parts
<1>2. IInv /\ [Next]_vars => IInv'
  <2> SUFFICES ASSUME IInv, [Next]_vars PROVE IInv'
    OBVIOUS
  <2>1. /\ TypeOK /\ StoreTypeOK /\ (\A r \in Session : Sound(r)) /\ InOrder
        /\ (\A k \in Keys : Reports(k)) /\ Waiting
    BY Parts DEF TypeOK
  <2>2. StoreTypeOK'
    BY <2>1, StoreTypeStep DEF Sound
  <2>3. TypeOK' /\ Waiting'
    BY <2>1, <2>2, MainStep
  <2>4. \A r \in Session : Sound(r)'
    BY <2>1, <2>2, SessionsStep
  <2>5. InOrder' /\ \A k \in Keys : Reports(k)'
    BY <2>1, InOrderStep, ReportsStep
  <2>6. RecordsKept'
    BY <2>4, <2>5 DEF RecordsKept, Sound, Kept, InOrder, Stored, IsRecord
  <2>7. QED
    BY <2>2, <2>3, <2>4, <2>5, <2>6 DEF IInv, StoreInv, Sound, Waiting
<1>3. QED
  BY <1>1, <1>2, PTL DEF Spec

\* A record is stored once and in order, and is missing only where calls met a
\* race or a lost link (insert_mesg_to_db and its three procedures), for any
\* number of sessions and messages.
THEOREM RecordsKeptAlways == Spec => []RecordsKept
<1>1. IInv => RecordsKept
  BY DEF IInv, StoreInv
<1>2. QED
  BY <1>1, Invariance, PTL

\* sp_flush_network spares every node that reported in two different seconds of
\* the last NETWORK_FLUSH_TIMEOUT, for any timeout below the cycle of power.
THEOREM FlushSparesReportersAlways == Spec => FlushSparesReporters
<1> DEFINE Spares ==
      \A k \in Keys : (network[k] # None /\ network'[k] = None) =>
        \/ Recent(k) = {}
        \/ Cardinality(Recent(k)) = 1 /\ Recent(k) # reports[k]
<1>1. IInv /\ [Next]_vars => [Spares]_store
  <2> SUFFICES ASSUME IInv, [Next]_vars, NEW k \in Keys, network[k] # None, network'[k] = None,
                      Recent(k) # {}
               PROVE  Cardinality(Recent(k)) = 1 /\ Recent(k) # reports[k]
    OBVIOUS
  <2>1. StoreTypeOK /\ Reports(k) /\ None \notin Node
    BY NoneAssumption DEF IInv, StoreInv
  <2>2. sp_flush_network
    <3>1. ASSUME NEW s \in Session, InsertNetwork(s) \/ UpdateNetwork(s) PROVE FALSE
      <4>1. network' = network \/ (Referable(s) /\ SetParent(s))
        BY <3>1 DEF InsertNetwork, UpdateNetwork
      <4>2. Referable(s) => Parent(s)[2] \in Node
        BY DEF Referable, Keys
      <4>3. network'[k] = network[k] \/ network'[k] \in Node
        BY <2>1, <4>1, <4>2 DEF SetParent, StoreTypeOK
      <4>4. QED
        BY <2>1, <4>3
    <3>2. \/ sp_flush_network \/ network' = network
          \/ \E s \in Session : InsertNetwork(s) \/ UpdateNetwork(s)
      <4>1. ASSUME NEW s \in Session, Writes(s), ~ (InsertNetwork(s) \/ UpdateNetwork(s))
            PROVE  network' = network
        BY <4>1 DEF Writes, InsertName, InsertNode, UpdateNode, InsertSense
      <4>2. QED
        BY WhoWrites, <4>1 DEF tables
    <3>3. QED
      BY <3>1, <3>2
  <2>3. Stale(k)
    BY <2>2 DEF sp_flush_network
  <2>4. /\ now \in Nat /\ Timeout \in Nat /\ Cycle \in Nat /\ Cycle > Timeout /\ reports[k] \subseteq Nat
        /\ \A t \in reports[k] : t <= now
    BY <2>1, PlanAssumption, CycleAssumption DEF StoreTypeOK, Reports
  <2>5. PICK u \in reports[k] : /\ now - u > Timeout
                               /\ \A t \in reports[k] : t > u => t % Cycle = node[k].power
    BY <2>1, <2>3 DEF Stale, Reports
  <2>6. ASSUME NEW a \in Recent(k), NEW b \in Recent(k), a < b PROVE FALSE
    <3>1. /\ a \in Nat /\ b \in Nat /\ u \in Nat /\ a \in reports[k] /\ b \in reports[k]
          /\ now - a <= Timeout /\ b <= now
      BY <2>4, <2>5 DEF Recent
    <3>2. a > u /\ b > u /\ b - a < Cycle /\ Cycle > 0
      BY <2>4, <2>5, <2>6, <3>1
    <3>3. a % Cycle = b % Cycle
      BY <2>5, <3>1, <3>2
    <3>4. QED
      BY <2>4, <2>6, <3>1, <3>2, <3>3, SameSecond
  <2>7. PICK a \in Recent(k) : TRUE
    OBVIOUS
  <2>8. Recent(k) = {a}
    <3>1. Recent(k) \subseteq Nat
      BY <2>4 DEF Recent
    <3>2. QED
      BY <2>6, <2>7, <3>1
  <2>9. u \notin Recent(k)
    BY <2>4, <2>5 DEF Recent
  <2>10. QED
    BY <2>5, <2>8, <2>9, FS_Singleton
<1>2. QED
  BY <1>1, Invariance, PTL DEF Spec, FlushSparesReporters
=============================================================================
