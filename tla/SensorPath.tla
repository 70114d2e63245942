------------------------------ MODULE SensorPath ------------------------------
(***************************************************************************)
(* The way of a packet from the serial line into the database:             *)
(*  - the serial forwarder (src/sensor/sf.c), a child of the client, which *)
(*    copies packets from the line to everybody connected to it;           *)
(*  - the sensor client (tgx_sensor_client.c), which drops packets with a  *)
(*    wrong CRC and writes the others to the server;                       *)
(*  - the process the sensor server (tgx_sensor_server.c) forks for a      *)
(*    client, which stores each read as one message.                       *)
(* A packet is its number and whether its CRC is right.  On the stream to  *)
(* the server it is two units, so that a read may end inside it.           *)
(***************************************************************************)
EXTENDS Integers, Sequences, SequencesExt, FiniteSetsExt

CONSTANTS Client,      \* the sensor client as a peer of the forwarder
          Others,      \* other programs that connect to the forwarder
          MaxPackets,  \* bound: packets on the serial line
          OutCap,      \* packets a socket to a peer holds (>= 1)
          MaxRead,     \* units one read of the server returns at most
          NoPeer, NoPacket

Peers == Others \cup {Client}

ASSUME PathAssumption ==
    /\ Client \notin Others /\ IsFiniteSet(Others)
    /\ NoPeer \notin Peers
    /\ MaxPackets \in Nat /\ OutCap \in Nat \ {0} /\ MaxRead \in Nat \ {0}

VARIABLES
    made,     \* packets that came over the line so far
    tty,      \* packets in the serial device
    lib,      \* packets the serial library has read and not handed out
    sf,       \* the forwarder: where its loop is
    rfds,     \* its rfds after select
    fresh,    \* descriptors accepted in this round of the loop (history)
    pend, at, \* the packet it dispatches, and the position in clients
    clients,  \* its list of clients, as descriptors
    sock,     \* the peer at the other end of a descriptor
    backlog,  \* peers that wait for accept or, the first, for the end of the exchange of versions
    inbox,    \* packets a peer has sent and the forwarder not read
    gone,     \* peers that closed their end
    hello,    \* the version a peer has sent: none yet, one the forwarder takes, or another
    out,      \* packets on the way to a peer
    cl, hold, \* the sensor client and the packet it writes
    srv,      \* the server's process for the client
    net,      \* units on the way to it
    buf,      \* the first two units of its msg
    rows,     \* what it stored
    aligned   \* every read so far returned one whole packet (history)

forwarder == <<sf, rfds, fresh, pend, at, clients, sock>>
peers == <<inbox, gone, hello>>
line == <<made, tty, lib>>
client == <<cl, hold>>
server == <<srv, buf, rows, aligned>>
vars == <<line, forwarder, backlog, peers, out, client, net, server>>

Fds == 1 .. Cardinality(Peers)
SerFd == 0            \* the serial device
ServerSocket == -1    \* server_socket

Packet == [n : 1 .. MaxPackets, ok : BOOLEAN]
Zero == [n |-> 0, ok |-> TRUE, part |-> 0]
Unit == {Zero} \cup [n : 1 .. MaxPackets, ok : BOOLEAN, part : 1 .. 2]
Units(p) == [k \in 1 .. 2 |-> [n |-> p.n, ok |-> p.ok, part |-> k]]

Init ==
    /\ made = 0 /\ tty = <<>> /\ lib = <<>>
    /\ sf = "boot" /\ rfds = {} /\ fresh = {} /\ pend = NoPacket /\ at = 1
    /\ clients = <<>> /\ sock = [fd \in Fds |-> NoPeer]
    /\ backlog = <<>> /\ inbox = [p \in Peers |-> 0] /\ gone = {}
    /\ hello = [p \in Peers |-> "none"]
    /\ out = [p \in Peers |-> <<>>]
    /\ cl = "start" /\ hold = NoPacket
    /\ srv = "none" /\ net = <<>> /\ buf = <<Zero, Zero>> /\ rows = <<>> /\ aligned = TRUE

-----------------------------------------------------------------------------
(* The line, and the other programs connected to the forwarder *)

Arrive ==
    /\ made < MaxPackets
    /\ made' = made + 1
    /\ \E ok \in BOOLEAN : tty' = Append(tty, [n |-> made', ok |-> ok])
    /\ UNCHANGED <<lib, forwarder, backlog, peers, out, client, net, server>>

NotListening == {"boot", "port", "dead"}

Known(p) == p \in gone \/ Contains(backlog, p) \/ \E fd \in Fds : sock[fd] = p

PeerConnects(p, version) ==
    /\ ~ Known(p)
    /\ sf \notin NotListening
    /\ backlog' = Append(backlog, p)
    /\ hello' = [hello EXCEPT ![p] = version]

OtherConnects(p) ==
    /\ PeerConnects(p, "none")
    /\ UNCHANGED <<line, forwarder, inbox, gone, out, client, net, server>>

\* Nothing makes another program send its version, or the right one.
OtherGreets(p) ==
    /\ p \notin gone /\ Contains(backlog, p) /\ hello[p] = "none"
    /\ \E version \in {"right", "wrong"} : hello' = [hello EXCEPT ![p] = version]
    /\ UNCHANGED <<line, forwarder, backlog, inbox, gone, out, client, net, server>>

OtherSends(p) ==
    /\ p \notin gone /\ inbox[p] = 0
    /\ \E fd \in Fds : sock[fd] = p
    /\ inbox' = [inbox EXCEPT ![p] = 1]
    /\ UNCHANGED <<line, forwarder, backlog, gone, hello, out, client, net, server>>

OtherReads(p) ==
    /\ p \notin gone /\ out[p] # <<>>
    /\ out' = [out EXCEPT ![p] = Tail(@)]
    /\ UNCHANGED <<line, forwarder, backlog, peers, client, net, server>>

OtherLeaves(p) ==
    /\ p \notin gone /\ Known(p)
    /\ gone' = gone \cup {p}
    /\ UNCHANGED <<line, forwarder, backlog, inbox, hello, out, client, net, server>>

-----------------------------------------------------------------------------
(* The forwarder.  While pend is a packet it is in dispatch_packet; otherwise sf says which test
   of the loop comes next. *)

outside == <<made, backlog, peers, out, client, net, server>>

\* The serial port is opened, or the process exits.
open_serial ==
    /\ sf = "boot"
    /\ sf' \in {"port", "dead"}
    /\ UNCHANGED <<tty, lib, rfds, fresh, pend, at, clients, sock, outside>>

\* unix_check exits when a call fails, bind for instance.
open_server_socket ==
    /\ sf = "port"
    /\ sf' \in {"select", "dead"}
    /\ UNCHANGED <<tty, lib, rfds, fresh, pend, at, clients, sock, outside>>

Readable ==
    (IF tty = <<>> THEN {} ELSE {SerFd}) \cup (IF backlog = <<>> THEN {} ELSE {ServerSocket})
    \cup {fd \in Range(clients) : inbox[sock[fd]] > 0 \/ sock[fd] \in gone}

\* check_serial: the library takes in all the device has and hands out its first packet, if any.
check_serial ==
    LET all == lib \o tty IN
    /\ tty' = <<>>
    /\ lib' = IF all = <<>> THEN <<>> ELSE Tail(all)
    /\ pend' = IF all = <<>> THEN NoPacket ELSE Head(all)
    /\ at' = 1

\* Mutant: select always blocks.
Mutant_SfSelect_waits ==
    /\ sf = "select" /\ pend = NoPacket
    /\ Readable # {}
    /\ rfds' = Readable
    /\ fresh' = {}
    /\ sf' = "serial"
    /\ UNCHANGED <<tty, lib, pend, at, clients, sock, outside>>

\* select blocks only when the library has nothing left; otherwise a packet is taken at once.
SfSelect ==
    /\ sf = "select" /\ pend = NoPacket
    /\ rfds' = Readable
    /\ fresh' = {}
    /\ sf' = "serial"
    /\ \/ lib = <<>> /\ Readable # {} /\ UNCHANGED <<tty, lib, pend, at>>
       \/ lib # <<>> /\ check_serial
    /\ UNCHANGED <<clients, sock, outside>>

SfSerial ==
    /\ sf = "serial" /\ pend = NoPacket
    /\ sf' = "accept"
    /\ IF SerFd \in rfds THEN check_serial ELSE UNCHANGED <<tty, lib, pend, at>>
    /\ UNCHANGED <<rfds, fresh, clients, sock, outside>>

\* The number of a new descriptor is the lowest that is free.
FreeFd == Min({fd \in Fds : sock[fd] = NoPeer})

\* new_client puts the descriptor at the front of the list once the versions were exchanged.
new_client(p) ==
    /\ clients' = <<FreeFd>> \o clients
    /\ sock' = [sock EXCEPT ![FreeFd] = p]
    /\ fresh' = fresh \cup {FreeFd}

SfAccept ==
    /\ sf = "accept" /\ pend = NoPacket
    /\ sf' = IF ServerSocket \in rfds THEN "greet" ELSE "clients"
    /\ at' = 1
    /\ UNCHANGED <<tty, lib, rfds, fresh, pend, clients, sock, outside>>

\* init_sf_source: the descriptor is blocking, and the forwarder waits until the new peer has sent its
\* version or has left.  Another version, or none, closes the descriptor.
SfGreets ==
    /\ sf = "greet"
    /\ LET p == Head(backlog) IN
       \/ hello[p] = "right" /\ new_client(p)
       \/ (hello[p] = "wrong" \/ p \in gone) /\ UNCHANGED <<clients, sock, fresh>>
    /\ backlog' = Tail(backlog)
    /\ sf' = "clients"
    /\ UNCHANGED <<line, rfds, pend, at, peers, out, client, net, server>>

\* rem_client takes the element at position k out of the list and closes its descriptor.
rem_client(k) ==
    /\ sock' = [sock EXCEPT ![clients[k]] = NoPeer]
    /\ clients' = RemoveAt(clients, k)

\* Mutant: the loop starts again after it removed a client.
Mutant_DispatchFails_restarts ==
    /\ pend # NoPacket /\ at <= Len(clients)
    /\ sock[clients[at]] \in gone
    /\ rem_client(at)
    /\ at' = 1
    /\ UNCHANGED <<tty, lib, sf, rfds, fresh, pend, outside>>

\* write_sf_packet fails once the peer's reset has arrived; the next element takes the position.
DispatchFails ==
    /\ pend # NoPacket /\ at <= Len(clients)
    /\ sock[clients[at]] \in gone
    /\ rem_client(at)
    /\ UNCHANGED <<tty, lib, sf, rfds, fresh, pend, at, outside>>

\* write_sf_packet: the descriptors are blocking, so a full socket holds up the forwarder.
DispatchWrites ==
    /\ pend # NoPacket /\ at <= Len(clients)
    /\ LET p == sock[clients[at]] IN
       \/ p \in gone /\ UNCHANGED out
       \/ p \notin gone /\ Len(out[p]) < OutCap /\ out' = [out EXCEPT ![p] = Append(@, pend)]
    /\ at' = at + 1
    /\ UNCHANGED <<line, sf, rfds, fresh, pend, clients, sock, backlog, peers, client, net, server>>

DispatchEnds ==
    /\ pend # NoPacket /\ at > Len(clients)
    /\ pend' = NoPacket
    /\ UNCHANGED <<tty, lib, sf, rfds, fresh, at, clients, sock, outside>>

\* Mutant: FD_ISSET is not tested.
Mutant_Skips == FALSE

\* check_clients passes over a client that select did not report.
Skips == clients[at] \notin rfds

\* write_serial_packet takes in what the device has while it looks for the acknowledgement; the
\* process exits when it fails.
forward_packet ==
    /\ lib' = lib \o tty
    /\ tty' = <<>>
    /\ sf' \in {sf, "dead"}

\* One round of the loop of check_clients: pass over, forward a packet to the line, or remove a
\* client that has left.
CheckClient ==
    /\ sf = "clients" /\ at <= Len(clients)
    /\ LET p == sock[clients[at]] IN
       \/ Skips /\ at' = at + 1 /\ UNCHANGED <<tty, lib, sf, clients, sock, inbox>>
       \/ /\ ~ Skips /\ inbox[p] > 0
          /\ inbox' = [inbox EXCEPT ![p] = @ - 1]
          /\ forward_packet
          /\ at' = at + 1
          /\ UNCHANGED <<clients, sock>>
       \/ /\ ~ Skips /\ inbox[p] = 0 /\ p \in gone
          /\ rem_client(at)
          /\ UNCHANGED <<tty, lib, sf, at, inbox>>
    /\ UNCHANGED <<made, rfds, fresh, pend, backlog, gone, hello, out, client, net, server>>

CheckClientsEnds ==
    /\ sf = "clients" /\ at > Len(clients)
    /\ sf' = "select"
    /\ UNCHANGED <<tty, lib, rfds, fresh, pend, at, clients, sock, outside>>

-----------------------------------------------------------------------------
(* The sensor client *)

\* Every exit but the one after an interrupted select kills the forwarder first.
Kill == sf' = "dead" /\ UNCHANGED <<rfds, fresh, pend, at, clients, sock>>
Exit == cl' = "dead" /\ gone' = gone \cup {Client} /\ UNCHANGED <<inbox, hello>>

\* open_sf_source after sleep(2), which sends the version as soon as it is connected.  A connection that is refused yields -1, which the test !sf_source
\* lets pass: FD_SET(-1) then sets a bit that select(1, ...) never looks at, and the client waits.
OpenSfSource ==
    /\ cl = "start"
    /\ \/ PeerConnects(Client, "right") /\ cl' = "opening"
       \/ sf \in NotListening /\ cl' = "stuck" /\ UNCHANGED <<backlog, hello>>
    /\ UNCHANGED <<line, forwarder, inbox, gone, out, hold, net, server>>

\* The handshake is through, or the forwarder has gone; the server may refuse, and -1 passes.
OpenSrvSource ==
    /\ cl = "opening"
    /\ \/ (\E fd \in Fds : sock[fd] = Client) /\ cl' = "run"
       \/ sf = "dead" /\ cl' = "stuck"
    /\ srv' \in {"none", "forking"}
    /\ UNCHANGED <<line, forwarder, backlog, peers, out, hold, net, buf, rows, aligned>>

dataCorrupt(p) == ~ p.ok

\* select reports the forwarder: read_sf_packet, and packets with a wrong CRC are dropped.
ClientReads ==
    /\ cl = "run" /\ hold = NoPacket /\ out[Client] # <<>>
    /\ out' = [out EXCEPT ![Client] = Tail(@)]
    /\ hold' = IF dataCorrupt(Head(out[Client])) THEN NoPacket ELSE Head(out[Client])
    /\ UNCHANGED <<line, forwarder, backlog, peers, cl, net, server>>

\* Mutant: the end of the connection is not noticed.
Mutant_ClientLosesSf_goes_on ==
    /\ cl = "run" /\ hold = NoPacket /\ sf = "dead"
    /\ out[Client] # <<>>
    /\ Exit /\ Kill
    /\ UNCHANGED <<line, backlog, out, hold, net, server>>

\* The forwarder has ended: read_sf_packet returns NULL, or SIGCHLD has interrupted select.
ClientLosesSf ==
    /\ cl \in {"run", "stuck"} /\ hold = NoPacket /\ sf = "dead"
    /\ Exit /\ Kill
    /\ UNCHANGED <<line, backlog, out, hold, net, server>>

\* safewrite of the whole packet; a connection the server has closed may swallow it once more.
ClientWrites ==
    /\ cl = "run" /\ hold # NoPacket
    /\ srv \in {"forking", "read", "dead"}
    /\ net' = IF srv = "dead" THEN net ELSE net \o Units(hold)
    /\ hold' = NoPacket
    /\ UNCHANGED <<line, forwarder, backlog, peers, out, cl, server>>

\* Mutant: the client exits without killing the forwarder.
Mutant_ClientWriteFails_leaves ==
    /\ cl = "run" /\ hold # NoPacket /\ srv \in {"none", "dead"}
    /\ hold' = NoPacket
    /\ Exit
    /\ UNCHANGED <<line, forwarder, backlog, out, net, server>>

\* safewrite returns -1: the client kills the forwarder and exits.
ClientWriteFails ==
    /\ cl = "run" /\ hold # NoPacket /\ srv \in {"none", "dead"}
    /\ hold' = NoPacket
    /\ Exit /\ Kill
    /\ UNCHANGED <<line, backlog, out, net, server>>

\* SIGINT in the client, at any time.
ClientInterrupted ==
    /\ cl # "dead"
    /\ hold' = NoPacket
    /\ Exit /\ Kill
    /\ UNCHANGED <<line, backlog, out, net, server>>

-----------------------------------------------------------------------------
(* The sensor server's process for the client *)

\* accept, pipe, fork and get_db_handler; each may fail and closes the connection.
ServerForks ==
    /\ srv = "forking"
    /\ srv' \in {"read", "dead"}
    /\ UNCHANGED <<line, forwarder, backlog, peers, out, client, net, buf, rows, aligned>>

\* insert_mesg_to_db looks at the start of msg, where an earlier read may show through; an update
\* the database refuses is only printed.
insert_mesg_to_db(msg) == rows' \in {rows, Append(rows, msg)}

\* The stream has no message boundaries: a read may end inside a packet or return several.
ServerReads ==
    /\ srv = "read" /\ net # <<>>
    /\ \E k \in 1 .. Min({MaxRead, Len(net)}) :
         /\ net' = SubSeq(net, k + 1, Len(net))
         /\ buf' = [j \in 1 .. 2 |-> IF j <= k THEN net[j] ELSE buf[j]]
         /\ aligned' = (aligned /\ k = 2)
         /\ insert_mesg_to_db(buf')
    /\ UNCHANGED <<line, forwarder, backlog, peers, out, client, srv>>

\* read returns 0 after the client has gone and everything it wrote was read.
ServerEnds ==
    /\ srv = "read" /\ net = <<>> /\ cl = "dead"
    /\ srv' = "dead"
    /\ UNCHANGED <<line, forwarder, backlog, peers, out, client, net, buf, rows, aligned>>

-----------------------------------------------------------------------------
Forwarder ==
    \/ open_serial \/ open_server_socket \/ SfSelect \/ SfSerial \/ SfAccept \/ SfGreets
    \/ DispatchFails \/ DispatchWrites \/ DispatchEnds
    \/ CheckClient \/ CheckClientsEnds

ForwarderStep == sf # "dead" /\ Forwarder

ClientStep ==
    \/ OpenSfSource \/ OpenSrvSource \/ ClientReads \/ ClientLosesSf \/ ClientWrites \/ ClientWriteFails

ServerStep == ServerForks \/ ServerReads \/ ServerEnds

OtherReadsOrLeaves(p) == OtherReads(p) \/ OtherLeaves(p)

Next ==
    \/ Arrive
    \/ \E p \in Others : OtherConnects(p) \/ OtherGreets(p) \/ OtherSends(p) \/ OtherReadsOrLeaves(p)
    \/ ForwarderStep
    \/ ClientStep
    \/ ClientInterrupted
    \/ ServerStep

Spec == Init /\ [][Next]_vars

\* The three processes are scheduled, and other programs read what they are sent.
FairSpec ==
    /\ Spec
    /\ WF_vars(ForwarderStep)
    /\ WF_vars(ClientStep)
    /\ WF_vars(ServerStep)
    /\ \A p \in Others : WF_vars(OtherReads(p))

-----------------------------------------------------------------------------
\* Types.
TypeOK ==
    /\ made \in 0 .. MaxPackets /\ tty \in Seq(Packet) /\ lib \in Seq(Packet)
    /\ sf \in {"boot", "port", "select", "serial", "accept", "greet", "clients", "dead"}
    /\ rfds \subseteq Fds \cup {SerFd, ServerSocket} /\ fresh \subseteq Fds
    /\ pend \in Packet \cup {NoPacket} /\ at \in Nat \ {0}
    /\ clients \in Seq(Fds) /\ sock \in [Fds -> Peers \cup {NoPeer}]
    /\ backlog \in Seq(Peers) /\ inbox \in [Peers -> 0 .. 1] /\ gone \subseteq Peers
    /\ hello \in [Peers -> {"none", "right", "wrong"}]
    /\ out \in [Peers -> Seq(Packet)]
    /\ cl \in {"start", "opening", "run", "stuck", "dead"} /\ hold \in Packet \cup {NoPacket}
    /\ srv \in {"none", "forking", "read", "dead"}
    /\ net \in Seq(Unit) /\ buf \in [1 .. 2 -> Unit] /\ rows \in Seq([1 .. 2 -> Unit])
    /\ aligned \in BOOLEAN

\* Whatever way the client ends (sf.c's exit, a failed write, SIGINT, an interrupted select), it
\* does not leave the forwarder behind holding the serial port and port 8989.
NoOrphan == cl = "dead" => sf = "dead"

\* As long as each read of the server returned one packet, the database has whole packets with
\* right CRCs, none of them twice and in the order of the line, while clients of the forwarder
\* come and go in the middle of a dispatch.
StoredRight == aligned =>
    /\ \A k \in 1 .. Len(rows) :
         /\ rows[k][1].ok
         /\ rows[k] = Units([n |-> rows[k][1].n, ok |-> TRUE])
    /\ \A k \in 1 .. Len(rows) - 1 : rows[k][1].n < rows[k + 1][1].n

\* The forwarder's only thread waits for a peer that says nothing: in the exchange of versions with a
\* new one, or in read_sf_packet.
WaitsForPeer ==
    \/ sf = "greet" /\ hello[Head(backlog)] = "none" /\ Head(backlog) \notin gone
    \/ /\ sf = "clients" /\ at <= Len(clients)
       /\ clients[at] \in rfds
       /\ inbox[sock[clients[at]]] = 0 /\ sock[clients[at]] \notin gone

\* The list of clients and the descriptors agree, and check_clients (sf.c 94) reads from a client
\* that has nothing to say only if its number was closed and given out again in the same round.
SilentReadOnlyByReuse ==
    /\ IsInjective(clients)
    /\ Range(clients) = {fd \in Fds : sock[fd] # NoPeer}
    /\ sf = "clients" /\ at <= Len(clients) /\ ~ Skips /\ inbox[sock[clients[at]]] = 0
         => sock[clients[at]] \in gone \/ clients[at] \in fresh \cap rfds

\* A packet stays in the serial library or the device only while the forwarder waits for a peer that
\* says nothing: sf.c 265-271 must not block in select while the library still has one.
LineIsDrained ==
    (lib \o tty # <<>>) ~> (lib \o tty = <<>> \/ sf \in NotListening \/ WaitsForPeer)

\* When the forwarder ends, the client that serves and the server's process end too.
SessionEnds == (sf = "dead" /\ cl = "run") ~> (cl = "dead" /\ srv \in {"none", "dead"})

-----------------------------------------------------------------------------
(* The inductive invariant behind NoOrphan, StoredRight and SilentReadOnlyByReuse *)

\* A peer waits in the backlog or has one descriptor, and the list names the descriptors in use.
Connections ==
    /\ IsInjective(clients) /\ Range(clients) = {fd \in Fds : sock[fd] # NoPeer}
    /\ \A fd, g \in Fds : sock[fd] = sock[g] /\ sock[fd] # NoPeer => fd = g
    /\ IsInjective(backlog)
    /\ \A fd \in Fds, k \in 1 .. Len(backlog) : backlog[k] # sock[fd]

\* What select reported of the client at position k still holds, or its descriptor is new.
Report(k) ==
    clients[k] \in rfds =>
      inbox[sock[clients[k]]] > 0 \/ sock[clients[k]] \in gone \/ clients[k] \in fresh

\* What select reported still holds when the loop comes to it.
Rounds ==
    /\ pend # NoPacket => sf \in {"serial", "accept", "dead"}
    /\ sf \in {"serial", "accept"} /\ ServerSocket \in rfds => backlog # <<>>
    /\ sf = "greet" => backlog # <<>>
    /\ \A k \in 1 .. Len(clients) :
         sf \in {"serial", "accept", "greet"} \/ (sf = "clients" /\ at <= k) => Report(k)

\* The packets of q are in order and numbered above lo and up to hi.
Within(q, lo, hi) ==
    \A i \in 1 .. Len(q) :
      lo < q[i].n /\ q[i].n <= hi /\ \A j \in 1 .. Len(q) : i < j => q[i].n < q[j].n

\* The packet that is dispatched has yet to be written to the sensor client.
Awaits == pend # NoPacket /\ \E k \in at .. Len(clients) : sock[clients[k]] = Client

\* The stream to the server is whole packets with right CRCs.
NetWithin(lo, hi) == \E m \in 0 .. Len(net) :
    /\ Len(net) = 2 * m
    /\ \A i \in 1 .. m :
         /\ net[2 * i - 1] = [n |-> net[2 * i].n, ok |-> TRUE, part |-> 1]
         /\ net[2 * i] = [n |-> net[2 * i].n, ok |-> TRUE, part |-> 2]
         /\ lo < net[2 * i].n /\ net[2 * i].n <= hi
         /\ \A j \in 1 .. m : i < j => net[2 * i].n < net[2 * j].n

RowsWithin(hi) ==
    \A k \in 1 .. Len(rows) :
      /\ rows[k] = Units([n |-> rows[k][1].n, ok |-> TRUE])
      /\ rows[k][1].n <= hi
      /\ \A j \in 1 .. Len(rows) : k < j => rows[k][1].n < rows[j][1].n

\* The places a packet passes hold ranges of numbers that follow each other, with these borders.
Split(b1, b2, b3, b4, b5, b6) ==
    /\ b1 <= b2 /\ b2 <= b3 /\ b3 <= b4 /\ b4 <= b5 /\ b5 <= b6 /\ b6 <= made
    /\ Within(tty, b6, made)
    /\ Within(lib, b5, b6)
    /\ Awaits => b4 < pend.n /\ pend.n <= b5
    /\ Within(out[Client], b3, b4)
    /\ hold # NoPacket => b2 < hold.n /\ hold.n <= b3 /\ hold.ok
    /\ aligned => NetWithin(b1, b2) /\ RowsWithin(b1)

InOrder == \E b1, b2, b3, b4, b5, b6 \in 0 .. MaxPackets : Split(b1, b2, b3, b4, b5, b6)

IInv == TypeOK /\ NoOrphan /\ Connections /\ Rounds /\ InOrder
=============================================================================
