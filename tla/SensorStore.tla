---------------------------- MODULE SensorStore ----------------------------
(***************************************************************************)
(* The database of src/src/db: its tables, the stored procedures that the  *)
(* processes of tgx_sensor_server.c call for every message, and the two    *)
(* queries behind the pages (user_modules/nodeInfo.c and realTime.c).      *)
(*                                                                         *)
(* A statement is one step: the procedures run without a transaction, so   *)
(* every statement commits on its own and another process may come between *)
(* a select that counts rows and the insert or update that relies on it.   *)
(* Keys and foreign keys are those of table_creater.sql; a statement that  *)
(* breaks one fails and ends its procedure, and insert_mesg_to_db goes on  *)
(* with its next call.  Time is counted in seconds, as timestamps are.     *)
(***************************************************************************)
EXTENDS Integers, Sequences, SequencesExt, FiniteSetsExt

CONSTANTS Session,   \* processes that store messages, one per client
          Net,       \* network names
          NetOf,     \* netname of a session: the local address of its socket
          Node,      \* node numbers
          Root,      \* number of the base station
          Timeout,   \* NETWORK_FLUSH_TIMEOUT
          Cycle,     \* the power column is unix_timestamp(now()) modulo this
          Nums,      \* values of requestNum a page asks for
          PageRows,  \* rows that fit nodeInfo's array (10000) and its page (65536 bytes)
          SeriesRows,\* records that fit realTime's page (65536 bytes)
          Plans,     \* what is sent, see PlanAssumption
          None

ASSUME NetAssumption   == NetOf \in [Session -> Net] /\ Root \in Node /\ Node \subseteq Nat
ASSUME CycleAssumption == Timeout \in Nat /\ Cycle \in Nat /\ Cycle > Timeout
ASSUME NumAssumption   == Nums \subseteq Nat \ {0} /\ PageRows \in Nat /\ SeriesRows \in Nat
ASSUME NoneAssumption  ==
  None \notin Node \cup [power : 0..(Cycle - 1), update_time : Nat, gps : Session]
\* Per session the node and parent of each message (the parent of a node is
\* any number: the base station sends an uninitialised one until its radio is
\* up), and whether Celsius makes a number of its temperature; the pages a
\* browser asks for; the commands that come over UDP; and as bounds the last
\* second and how often clients connect.
ASSUME PlanAssumption ==
  Plans \subseteq [mesgs : [Session -> Seq(Node \X Nat \X BOOLEAN)],
                  pages : Seq({"nodes", "series"}), commands : Seq({"fits", "long"}),
                  last : Nat, connects : Nat]

VARIABLES
  plan,     \* the plan of this run
  now,      \* seconds
  names,    \* rows of tb_work_state, tb_node_status and tb_network_segment
  node,     \* tb_node, by network and node
  network,  \* tb_network: the parent, by network and node
  sense,    \* tb_sense, in the order of order_num
  ses,      \* the sessions: program point, call, name, message, link
  reader,   \* a page being built: program point and request
  answer,   \* what was last answered, or None
  reports,  \* history: the seconds in which the row of a node was written
  spoilt    \* history: messages whose calls met a race or a lost link

store == <<plan, now, names, node, network, sense, ses, reader, answer, reports, spoilt>>
tables == <<names, node, network, sense>>
pages == <<reader, answer>>

Keys  == Net \X Node
Names == {"work_state", "node_status"} \cup Net
Off   == [pc |-> "off", call |-> 1, name |-> 1, n |-> 1, link |-> FALSE]
Resting(asked) == [pc |-> "idle", key |-> None, num |-> 0, start |-> 0, asked |-> asked]

\* The points inside the three procedures, and what is kept of a session.
NodePoints    == {"select_name", "insert_name", "select_node", "insert_node", "update_node"}
SensePoints   == {"sense_segment", "insert_sense"}
NetworkPoints == {"network_segment", "select_network", "insert_network", "update_network"}
Sessions == [pc : {"off", "open", "read"} \cup NodePoints \cup SensePoints \cup NetworkPoints,
             call : 1..3, name : 1..3, n : Nat, link : BOOLEAN]

StoreTypeOK ==
  /\ plan \in Plans /\ now \in 0..plan.last
  /\ names \in Seq(Names)
  /\ node \in [Keys -> {None} \cup [power : 0..(Cycle - 1), update_time : Nat, gps : Session]]
  /\ network \in [Keys -> {None} \cup Node]
  /\ sense \in Seq([key : Keys, from : Session, n : Nat, insert_time : Nat])
  /\ ses \in [Session -> Sessions]
  /\ reader \in [pc : {"idle", "flush", "select", "query"}, key : {None} \cup Keys,
                 num : Nat, start : Nat, asked : Nat]
  /\ reports \in [Keys -> SUBSET Nat]
  /\ spoilt \subseteq Session \X Nat

StoreInit ==
  /\ plan \in Plans /\ now = 0
  /\ names = <<>> /\ sense = <<>>
  /\ node = [k \in Keys |-> None] /\ network = [k \in Keys |-> None]
  /\ ses = [s \in Session |-> Off]
  /\ reader = Resting(0) /\ answer = None
  /\ reports = [k \in Keys |-> {}] /\ spoilt = {}

Tick ==
  /\ now < plan.last
  /\ now' = now + 1
  /\ UNCHANGED <<plan, tables, ses, pages, reports, spoilt>>

----------------------------------------------------------------------------
(* insert_mesg_to_db: the calls for one message *)

Mesg(s)   == plan.mesgs[s][ses[s].n]
NodeId(s) == Mesg(s)[1]
Parent(s) == <<NetOf[s], Mesg(s)[2]>>
Key(s)    == <<NetOf[s], NodeId(s)>>

Entry == [update_node_info |-> "select_name", insert_sense_record |-> "sense_segment",
          update_network |-> "network_segment"]

\* Mutant: the record is stored before the node it refers to.
Mutant_Calls_swapped(s) ==
  IF NodeId(s) = Root THEN <<"update_node_info", "update_network">>
  ELSE <<"insert_sense_record", "update_node_info", "update_network">>

\* if (!isRoot) insert_sense_record(...)
Calls(s) ==
  IF NodeId(s) = Root THEN <<"update_node_info", "update_network">>
  ELSE <<"update_node_info", "insert_sense_record", "update_network">>

At(s, pc)   == ses[s].pc = pc
Goto(s, pc) == ses' = [ses EXCEPT ![s].pc = pc]

\* A call has returned; its result is not looked at.  Without the link to the
\* database the calls that are left fail.
Returns(s) ==
  ses' = IF ses[s].link /\ ses[s].call < Len(Calls(s))
           THEN [ses EXCEPT ![s].call = @ + 1, ![s].pc = Entry[Calls(s)[ses[s].call + 1]]]
           ELSE [ses EXCEPT ![s].call = 1, ![s].pc = "read", ![s].n = @ + 1]

Spoil(s) == spoilt' = spoilt \cup {<<s, ses[s].n>>}

\* The process takes the next message off the socket.
ReadMesg(s) ==
  /\ At(s, "read") /\ ses[s].n <= Len(plan.mesgs[s])
  /\ IF ses[s].link
       THEN /\ ses' = [ses EXCEPT ![s].pc = Entry[Calls(s)[1]], ![s].name = 1]
            /\ UNCHANGED spoilt
       ELSE ses' = [ses EXCEPT ![s].n = @ + 1] /\ Spoil(s)
  /\ UNCHANGED <<plan, now, tables, pages, reports>>

\* The connection to MySQL breaks, and nothing ever opens it again.  The
\* procedure that is running is cut off or still goes through to its end.
LoseLink(s) ==
  /\ ~At(s, "off") /\ ~At(s, "open") /\ ses[s].link
  /\ IF At(s, "read")
       THEN ses' = [ses EXCEPT ![s].link = FALSE] /\ UNCHANGED spoilt
       ELSE /\ Spoil(s)
            /\ \/ ses' = [ses EXCEPT ![s].link = FALSE]
               \/ ses' = [ses EXCEPT ![s].link = FALSE, ![s].pc = "read", ![s].call = 1,
                                     ![s].n = @ + 1]
  /\ UNCHANGED <<plan, now, tables, pages, reports>>

----------------------------------------------------------------------------
(* sp_update_node_info *)

Name(s)   == <<"work_state", "node_status", NetOf[s]>>[ses[s].name]
Known(nm) == \E i \in 1..Len(names) : names[i] = nm
NextName(s) ==
  ses' = IF ses[s].name < 3 THEN [ses EXCEPT ![s].name = @ + 1, ![s].pc = "select_name"]
                            ELSE [ses EXCEPT ![s].pc = "select_node"]

SelectName(s) ==
  /\ At(s, "select_name")
  /\ IF Known(Name(s)) THEN NextName(s) ELSE Goto(s, "insert_name")
  /\ UNCHANGED <<plan, now, tables, pages, reports, spoilt>>

\* Names are unique: if another session was faster the procedure fails here.
InsertName(s) ==
  /\ At(s, "insert_name")
  /\ IF Known(Name(s))
       THEN Returns(s) /\ Spoil(s) /\ UNCHANGED names
       ELSE NextName(s) /\ names' = Append(names, Name(s)) /\ UNCHANGED spoilt
  /\ UNCHANGED <<plan, now, node, network, sense, pages, reports>>

SelectNode(s) ==
  /\ At(s, "select_node")
  /\ Goto(s, IF node[Key(s)] = None THEN "insert_node" ELSE "update_node")
  /\ UNCHANGED <<plan, now, tables, pages, reports, spoilt>>

Reported(s) == reports' = [reports EXCEPT ![Key(s)] = @ \cup {now}]

\* The power of a message is 0: insert_mesg_to_db clears the structure.
InsertNode(s) ==
  /\ At(s, "insert_node")
  /\ Returns(s)
  /\ IF node[Key(s)] = None
       THEN /\ node' = [node EXCEPT ![Key(s)] = [power |-> 0, update_time |-> now, gps |-> s]]
            /\ Reported(s)
       ELSE UNCHANGED <<node, reports>>
  /\ UNCHANGED <<plan, now, names, network, sense, pages, spoilt>>

\* Mutant: the power column does not move with time.
Mutant_NewPower_constant == 0

\* power+unix_timestamp(now())%100
NewPower == now % Cycle

\* "on update current_timestamp" moves update_time if another column changes.
UpdateNode(s) ==
  /\ At(s, "update_node")
  /\ Returns(s)
  /\ node' = [node EXCEPT ![Key(s)] =
       IF @.power = NewPower /\ @.gps = s THEN @
       ELSE [power |-> NewPower, update_time |-> now, gps |-> s]]
  /\ Reported(s)
  /\ UNCHANGED <<plan, now, names, network, sense, pages, spoilt>>

----------------------------------------------------------------------------
(* sp_insert_sense_record *)

\* An unknown network name makes this and the next procedure leave.
SelectSegment(s, from, to) ==
  /\ At(s, from)
  /\ IF Known(NetOf[s]) THEN Goto(s, to) ELSE Returns(s)
  /\ UNCHANGED <<plan, now, tables, pages, reports, spoilt>>

\* The logarithm of a reading above ADC_FS is not a number, and the text of
\* the call has "nan" in it, which the database does not take.
HasTemp(s) == Mesg(s)[3]

InsertSense(s) ==
  /\ At(s, "insert_sense")
  /\ Returns(s)
  /\ sense' = IF node[Key(s)] = None \/ ~HasTemp(s) THEN sense
              ELSE Append(sense, [key |-> Key(s), from |-> s, n |-> ses[s].n,
                                  insert_time |-> now])
  /\ UNCHANGED <<plan, now, names, node, network, pages, reports, spoilt>>

----------------------------------------------------------------------------
(* sp_update_network *)

SelectNetwork(s) ==
  /\ At(s, "select_network")
  /\ Goto(s, IF network[Key(s)] = None THEN "insert_network" ELSE "update_network")
  /\ UNCHANGED <<plan, now, tables, pages, reports, spoilt>>

\* Node and parent have to be rows of tb_node.
Referable(s) ==
  node[Key(s)] # None /\ Parent(s) \in Keys /\ node[Parent(s)] # None
SetParent(s) == network' = [network EXCEPT ![Key(s)] = Parent(s)[2]]

InsertNetwork(s) ==
  /\ At(s, "insert_network")
  /\ Returns(s)
  /\ IF network[Key(s)] = None /\ Referable(s) THEN SetParent(s) ELSE UNCHANGED network
  /\ UNCHANGED <<plan, now, names, node, sense, pages, reports, spoilt>>

\* The row may have been flushed since it was seen.
UpdateNetwork(s) ==
  /\ At(s, "update_network")
  /\ Returns(s)
  /\ IF network[Key(s)] # None /\ Referable(s) THEN SetParent(s) ELSE UNCHANGED network
  /\ UNCHANGED <<plan, now, names, node, sense, pages, reports, spoilt>>

Statement(s) ==
  \/ SelectName(s) \/ InsertName(s) \/ SelectNode(s) \/ InsertNode(s) \/ UpdateNode(s)
  \/ SelectSegment(s, "sense_segment", "insert_sense") \/ InsertSense(s)
  \/ SelectSegment(s, "network_segment", "select_network")
  \/ SelectNetwork(s) \/ InsertNetwork(s) \/ UpdateNetwork(s)

----------------------------------------------------------------------------
(* nodeInfo.c: sp_get_all_node_info and the JSON page *)

Asked(page) ==
  /\ reader.pc = "idle" /\ reader.asked < Len(plan.pages)
  /\ plan.pages[reader.asked + 1] = page
  /\ answer' = None

AskNodes ==
  /\ Asked("nodes")
  /\ reader' = [reader EXCEPT !.pc = "flush", !.asked = @ + 1]
  /\ UNCHANGED <<plan, now, tables, ses, reports, spoilt>>

Stale(k) == node[k] # None /\ now - node[k].update_time > Timeout

sp_flush_network ==
  /\ reader.pc = "flush"
  /\ network' = [k \in Keys |-> IF Stale(k) THEN None ELSE network[k]]
  /\ reader' = [reader EXCEPT !.pc = "select"]
  /\ UNCHANGED <<plan, now, names, node, sense, ses, answer, reports, spoilt>>

\* network_id is the place of the name: ids grow, and none is 0.
NetId(net) == CHOOSE i \in 1..Len(names) : names[i] = net

Rows ==
  {[id |-> NetId(k[1]), node |-> k[2], parent |-> network[k]] : k \in {j \in Keys : network[j] # None}}
Before(a, b) == a.id < b.id \/ (a.id = b.id /\ a.node < b.node)

\* Mutant: a network that is already in the array is not recognised.
Mutant_get_index_new(array, value) ==
  LET free == {k \in 1..Len(array) : array[k] = 0} IN IF free = {} THEN 0 ELSE Min(free)

\* The first place that is free or holds the value, 0 for none (-1 in C).
get_index(array, value) ==
  LET stop == {k \in 1..Len(array) : array[k] \in {0, value}} IN
    IF stop = {} THEN 0 ELSE Min(stop)

\* The loop over the rows, with the arrays flag and node_array.
Place(acc, row) ==
  LET k == get_index(acc.flag, row.id) IN
    IF k = 0 \/ acc.failed THEN [acc EXCEPT !.failed = TRUE]
    ELSE [acc EXCEPT !.flag[k] = row.id, !.nodes[k] = Append(@, <<row.node, row.parent>>)]

Page(rows) ==
  LET n    == Len(rows)
      done == FoldLeft(Place, [flag |-> [i \in 1..n |-> 0], nodes |-> [i \in 1..n |-> <<>>],
                               failed |-> FALSE], rows)
      network_num == Cardinality({i \in 1..n : done.flag[i] # 0})
  IN  IF done.failed THEN None
      ELSE [i \in 1..network_num |-> [id |-> done.flag[i], nodes |-> done.nodes[i]]]

\* Rows are written behind an array, or a page behind its buffer: the process
\* may crash, or answer anything.
Overrun == [kind |-> "overrun"]

NodeInfo ==
  /\ reader.pc = "select"
  /\ answer' = IF Cardinality(Rows) > PageRows THEN Overrun
               ELSE [kind |-> "nodes", page |-> Page(SetToSortSeq(Rows, Before))]
  /\ reader' = Resting(reader.asked)
  /\ UNCHANGED <<plan, now, tables, ses, reports, spoilt>>

----------------------------------------------------------------------------
(* realTime.c: the last requestNum records of a node *)

\* The second of the request is taken before the query is sent.
AskSeries(k, num) ==
  /\ Asked("series")
  /\ reader' = [pc |-> "query", key |-> k, num |-> num, start |-> now,
                asked |-> reader.asked + 1]
  /\ UNCHANGED <<plan, now, tables, ses, reports, spoilt>>

\* The order numbers of the records the query may choose from.
Eligible(k, start) ==
  {i \in 1..Len(sense) : sense[i].key = k /\ sense[i].insert_time <= start}

\* Mutant: requestNum is not negated, so the records after start are taken.
Mutant_get_relative_record_after(k, start, num) ==
  LET later == SetToSortSeq({i \in 1..Len(sense) : sense[i].key = k /\ sense[i].insert_time >= start},
                            LAMBDA i, j : i < j)
  IN  SubSeq(later, 1, Min({num, Len(later)}))

\* "insert_time <= ? order by order_num desc limit ?"
get_relative_record(k, start, num) ==
  LET sorted == SetToSortSeq(Eligible(k, start), LAMBDA i, j : i > j) IN
    SubSeq(sorted, 1, Min({num, Len(sorted)}))

\* The page has requestNum entries: what the query did not fill is still 0.
RealTime ==
  /\ reader.pc = "query"
  /\ LET found == get_relative_record(reader.key, reader.start, reader.num) IN
       answer' = IF ~Known(reader.key[1]) THEN None
                 ELSE IF reader.num > SeriesRows THEN Overrun
                 ELSE [kind |-> "series", key |-> reader.key, start |-> reader.start,
                       list |-> [i \in 1..reader.num |-> IF i <= Len(found) THEN found[i] ELSE 0]]
  /\ reader' = Resting(reader.asked)
  /\ UNCHANGED <<plan, now, tables, ses, reports, spoilt>>

\* A module has no connection to the database, or its query fails: it returns
\* -1 and the page is not answered.
PageFails ==
  /\ reader.pc # "idle"
  /\ reader' = Resting(reader.asked)
  /\ UNCHANGED <<plan, now, tables, ses, answer, reports, spoilt>>

Reader == \/ PageFails \/ AskNodes \/ sp_flush_network \/ NodeInfo \/ RealTime
          \/ \E k \in Keys, num \in Nums : AskSeries(k, num)

----------------------------------------------------------------------------
(* Properties *)

\* Message m of a session has a record: it is a node's, with a temperature.
IsRecord(s, m) == plan.mesgs[s][m][1] # Root /\ plan.mesgs[s][m][3]

\* A record is stored once, in the order of its session, and it is missing
\* only if a procedure call for its message was cut short: two first messages
\* raced for the same name, or the link to the database broke.  (A reading
\* above 1023, which a 10-bit converter does not give, has no record.)
RecordsKept ==
  /\ \A s \in Session : \A m \in 1..(ses[s].n - 1) :
       (IsRecord(s, m) /\ <<s, m>> \notin spoilt)
         => \E i \in 1..Len(sense) : sense[i].from = s /\ sense[i].n = m
  /\ \A i, j \in 1..Len(sense) :
       (i < j /\ sense[i].from = sense[j].from) => sense[i].n < sense[j].n

Recent(k) == {t \in reports[k] : now - t <= Timeout}

\* sp_flush_network takes out of the tree only nodes that went quiet.  The
\* power column makes every report move update_time, except one that falls
\* on the second, modulo Cycle, of the report before it; so a node that has
\* reported in two different seconds of the last Timeout, or is new, stays.
FlushSparesReporters ==
  [][\A k \in Keys : (network[k] # None /\ network'[k] = None) =>
       \/ Recent(k) = {}
       \/ Cardinality(Recent(k)) = 1 /\ Recent(k) # reports[k]]_store

\* The page of nodeInfo has every row of the tree once, under its own network,
\* networks and nodes in order: the array of get_index never runs over, while
\* the rows fit PageRows.
PageShowsAll ==
  [][(answer' # answer /\ answer' # None /\ answer'.kind = "nodes") =>
       LET page == answer'.page IN
         /\ page # None
         /\ Rows = UNION {{[id |-> page[i].id, node |-> page[i].nodes[j][1],
                            parent |-> page[i].nodes[j][2]] : j \in 1..Len(page[i].nodes)}
                          : i \in 1..Len(page)}
         /\ \A i, j \in 1..Len(page) : i < j => page[i].id < page[j].id
         /\ \A i \in 1..Len(page) : \A j, l \in 1..Len(page[i].nodes) :
              j < l => page[i].nodes[j][1] < page[i].nodes[l][1]]_store

\* The page of realTime has the newest records of the node as of the second
\* of the request, newest first, and none that was stored in a later second.
RealTimeIsNewest ==
  [][(answer' # answer /\ answer' # None /\ answer'.kind = "series") =>
       LET list  == answer'.list
           given == {list[j] : j \in 1..Len(list)} \ {0}
           from  == Eligible(answer'.key, answer'.start)
       IN /\ given \subseteq from
          /\ \A i \in from \ given : \A j \in 1..Len(list) : list[j] > i
          /\ \A j, l \in 1..Len(list) : j < l /\ list[l] # 0 => list[j] > list[l]]_store

----------------------------------------------------------------------------
(* The inductive invariant *)

\* The point, the call and the message of a process agree, and a message
\* whose calls go on without a link is one that may get lost.
Calling(s) == ses[s].pc \notin {"off", "open", "read"}
Spoilt(s)  == <<s, ses[s].n>> \in spoilt
InStep(s) ==
  /\ ses[s].n > 0 /\ (Calling(s) => ses[s].n <= Len(plan.mesgs[s]))
  /\ ses[s].pc \in SensePoints => ses[s].call = 2 /\ NodeId(s) # Root
  /\ ses[s].pc \in NetworkPoints => ses[s].call = Len(Calls(s))
  /\ ses[s].pc \notin SensePoints \cup NetworkPoints => ses[s].call = 1
  /\ Calling(s) /\ ~ses[s].link => Spoilt(s)

\* What a procedure relies on is in the tables: the first call leaves name
\* and node there for the others, and nothing takes them out again.
Prepared(s) ==
  /\ ses[s].pc \in {"select_node", "insert_node", "update_node"} => Known(NetOf[s])
  /\ ses[s].pc = "update_node" => node[Key(s)] # None
  /\ ses[s].call > 1 /\ ~Spoilt(s) => Known(NetOf[s]) /\ node[Key(s)] # None

\* The records of a session are those of messages it is through with, and the
\* one in hand from the third call on.
Stored(s, m) == \E i \in 1..Len(sense) : sense[i].from = s /\ sense[i].n = m
Recorded(s) ==
  /\ ses[s].call = 3 /\ ~Spoilt(s) /\ HasTemp(s) => Stored(s, ses[s].n)
  /\ \A i \in 1..Len(sense) : sense[i].from = s =>
       sense[i].n < ses[s].n \/ (sense[i].n = ses[s].n /\ ses[s].call = 3)

\* update_time is the second of a report, and the reports that came later fell
\* on its second of the cycle.
Reports(k) ==
  /\ \A t \in reports[k] : t <= now
  /\ node[k] # None =>
       /\ node[k].update_time \in reports[k]
       /\ \A t \in reports[k] : t > node[k].update_time => t % Cycle = node[k].power

StoreInv ==
  /\ StoreTypeOK /\ RecordsKept
  /\ \A s \in Session : InStep(s) /\ Prepared(s) /\ Recorded(s)
  /\ \A k \in Keys : Reports(k)
=============================================================================
