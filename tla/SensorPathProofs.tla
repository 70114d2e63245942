--------------------------- MODULE SensorPathProofs ---------------------------
(***************************************************************************)
(* Theorems about the way of a packet into the database, for any number of *)
(* packets and of other clients of the forwarder, and any size of the      *)
(* sockets.                                                                *)
(***************************************************************************)
EXTENDS SensorPath, FiniteSetTheorems, SequenceTheorems, TLAPS

\* RemoveAt closes the gap.
LEMMA RemoveAtProps ==
  ASSUME NEW S, NEW s \in Seq(S), NEW i \in 1..Len(s)
  PROVE  /\ RemoveAt(s, i) \in Seq(S) /\ Len(RemoveAt(s, i)) = Len(s) - 1
         /\ \A k \in 1..(Len(s) - 1) : RemoveAt(s, i)[k] = IF k < i THEN s[k] ELSE s[k + 1]
<1> DEFINE u == SubSeq(s, 1, i - 1)
           v == SubSeq(s, i + 1, Len(s))
<1>0. i \in Nat /\ Len(s) \in Nat /\ 1 <= i /\ i <= Len(s)
  BY LenProperties
<1>1. u \in Seq(S) /\ Len(u) = i - 1 /\ \A k \in 1..(i - 1) : u[k] = s[k]
  <2>1. \A k \in 1..(i - 1) : s[k] \in S
    BY <1>0, ElementOfSeq
  <2>2. /\ u \in Seq(S) /\ Len(u) = IF 1 <= i - 1 THEN i - 1 - 1 + 1 ELSE 0
        /\ \A k \in 1..(i - 1 - 1 + 1) : u[k] = s[1 + k - 1]
    BY <1>0, <2>1, SubSeqProperties
  <2> HIDE DEF u
  <2> QED BY <1>0, <2>2
<1>2. v \in Seq(S) /\ Len(v) = Len(s) - i /\ \A k \in 1..(Len(s) - i) : v[k] = s[i + k]
  <2>1. \A k \in (i + 1)..Len(s) : s[k] \in S
    BY <1>0, ElementOfSeq
  <2>2. /\ v \in Seq(S) /\ Len(v) = IF i + 1 <= Len(s) THEN Len(s) - (i + 1) + 1 ELSE 0
        /\ \A k \in 1..(Len(s) - (i + 1) + 1) : v[k] = s[(i + 1) + k - 1]
    BY <1>0, <2>1, SubSeqProperties
  <2> HIDE DEF v
  <2> QED BY <1>0, <2>2
<1>3. /\ u \o v \in Seq(S) /\ Len(u \o v) = Len(u) + Len(v)
      /\ \A k \in 1..(Len(u) + Len(v)) : (u \o v)[k] = IF k <= Len(u) THEN u[k] ELSE v[k - Len(u)]
  BY <1>1, <1>2, ConcatProperties
<1>4. RemoveAt(s, i) = u \o v
  BY DEF RemoveAt
<1> HIDE DEF u, v
<1>5. u \o v \in Seq(S) /\ Len(u \o v) = Len(s) - 1
  BY <1>0, <1>1, <1>2, <1>3
<1>6. ASSUME NEW k \in 1..(Len(s) - 1)
      PROVE  (u \o v)[k] = IF k < i THEN s[k] ELSE s[k + 1]
  <2>1. k \in 1..(Len(u) + Len(v)) /\ Len(u) = i - 1 /\ Len(v) = Len(s) - i
    BY <1>0, <1>1, <1>2
  <2>2. (u \o v)[k] = IF k <= i - 1 THEN u[k] ELSE v[k - (i - 1)]
    BY <1>3, <2>1
  <2>3. CASE k < i
    BY <1>0, <1>1, <2>2, <2>3
  <2>4. CASE ~ (k < i)
    <3>1. k - (i - 1) \in 1..(Len(s) - i) /\ ~ (k <= i - 1) /\ i + (k - (i - 1)) = k + 1
      BY <1>0, <2>4
    <3>2. v[k - (i - 1)] = s[i + (k - (i - 1))]
      BY <1>2, <3>1
    <3> QED BY <2>2, <2>4, <3>1, <3>2, <1>0
  <2> QED BY <2>3, <2>4
<1> QED BY <1>4, <1>5, <1>6

\* A set of naturals that is not empty has a least element.
LEMMA MinProps ==
  ASSUME NEW S, S \subseteq Nat, S # {}
  PROVE  Min(S) \in S /\ \A y \in S : Min(S) <= y
<1>1. \E x \in S : \A y \in S : ~ (<<y, x>> \in OpToRel(<, Nat))
  BY NatLessThanWellFounded, WFMin, Zenon
<1>2. PICK x \in S : \A y \in S : ~ (<<y, x>> \in OpToRel(<, Nat))
  BY <1>1
<1>3. \A y \in S : x <= y
  <2> SUFFICES ASSUME NEW y \in S PROVE x <= y
    OBVIOUS
  <2>1. x \in Nat /\ y \in Nat
    OBVIOUS
  <2>2. ~ (<<y, x>> \in {ss \in Nat \X Nat : ss[1] < ss[2]})
    BY <1>2 DEF OpToRel
  <2> QED BY <2>1, <2>2
<1> QED BY <1>3 DEF Min

\* As long as a peer waits that has no descriptor, a descriptor is free.
LEMMA FreeFdExists ==
  ASSUME sock \in [Fds -> Peers \cup {NoPeer}], NEW p \in Peers,
         \A fd, g \in Fds : sock[fd] = sock[g] /\ sock[fd] # NoPeer => fd = g,
         \A fd \in Fds : sock[fd] # p
  PROVE  FreeFd \in Fds /\ sock[FreeFd] = NoPeer
<1>1. IsFiniteSet(Peers) /\ Cardinality(Peers) \in Nat
  <2>1. IsFiniteSet(Peers)
    BY PathAssumption, FS_AddElement DEF Peers
  <2> QED BY <2>1, FS_CardinalityType
<1>2. {fd \in Fds : sock[fd] = NoPeer} # {}
  <2> SUFFICES ASSUME \A fd \in Fds : sock[fd] # NoPeer PROVE FALSE
    OBVIOUS
  <2>1. sock \in Injection(Fds, Peers)
    BY DEF Injection, IsInjective
  <2>2. Cardinality(Fds) = Cardinality(Peers)
    <3>1. Cardinality(1..Cardinality(Peers)) =
            IF 1 > Cardinality(Peers) THEN 0 ELSE Cardinality(Peers) - 1 + 1
      BY <1>1, FS_Interval
    <3> QED BY <1>1, <3>1 DEF Fds
  <2>3. sock \in Surjection(Fds, Peers)
    BY <1>1, <2>1, <2>2, FS_Injection
  <2> QED BY <2>3 DEF Surjection
<1>3. {fd \in Fds : sock[fd] = NoPeer} \subseteq Nat
  BY <1>1 DEF Fds
<1> QED BY <1>2, <1>3, MinProps DEF FreeFd

-----------------------------------------------------------------------------
(* Types *)

\* The state before the forwarder has opened the serial port.
LEMMA InitInv == Init => IInv
<1> SUFFICES ASSUME Init PROVE IInv
  OBVIOUS
<1>1. TypeOK
  <2>1. Zero \in Unit
    BY DEF Unit
  <2>2. <<Zero, Zero>> \in [1..2 -> Unit]
    BY <2>1
  <2>3. \A S : <<>> \in Seq(S)
    BY EmptySeq
  <2>4. rfds \subseteq Fds \cup {SerFd, ServerSocket} /\ fresh \subseteq Fds /\ gone \subseteq Peers
    BY DEF Init
  <2>5. 0 \in 0..MaxPackets
    BY PathAssumption
  <2> QED BY <2>2, <2>3, <2>4, <2>5 DEF Init, TypeOK
<1>2. NoOrphan
  BY DEF Init, NoOrphan
<1>3. Len(<<>>) = 0 /\ DOMAIN <<>> = {}
  OBVIOUS
<1>4. Connections
  BY <1>3 DEF Init, Connections, IsInjective, Range
<1>5. Rounds
  BY <1>3 DEF Init, Rounds
<1>6. InOrder
  <2>1. /\ tty = <<>> /\ lib = <<>> /\ out[Client] = <<>> /\ net = <<>> /\ rows = <<>>
        /\ pend = NoPacket /\ hold = NoPacket /\ made = 0
    BY DEF Init, Peers
  <2>2. NetWithin(0, 0)
    BY <1>3, <2>1 DEF NetWithin
  <2>3. Split(0, 0, 0, 0, 0, 0)
    BY <1>3, <2>1, <2>2 DEF Split, Within, Awaits, RowsWithin
  <2>4. 0 \in 0..MaxPackets
    BY PathAssumption
  <2> QED BY <2>3, <2>4 DEF InOrder
<1> QED BY <1>1, <1>2, <1>4, <1>5, <1>6 DEF IInv

\* What check_serial does with a device and a library that hold packets.
LEMMA CheckSerialTypes ==
  ASSUME tty \in Seq(Packet), lib \in Seq(Packet), check_serial
  PROVE  /\ tty' \in Seq(Packet) /\ lib' \in Seq(Packet)
         /\ pend' \in Packet \cup {NoPacket} /\ at' = 1
<1>1. lib \o tty \in Seq(Packet)
  BY ConcatProperties
<1>2. CASE lib \o tty = <<>>
  BY <1>2, EmptySeq DEF check_serial
<1>3. CASE lib \o tty # <<>>
  BY <1>1, <1>3, EmptySeq, HeadTailProperties, Zenon DEF check_serial
<1> QED BY <1>2, <1>3

\* rem_client leaves a shorter list and a free descriptor.
LEMMA RemClientTypes ==
  ASSUME TypeOK, NEW k \in 1..Len(clients), rem_client(k)
  PROVE  /\ clients' \in Seq(Fds) /\ Len(clients') = Len(clients) - 1
         /\ \A j \in 1..Len(clients') : clients'[j] = IF j < k THEN clients[j] ELSE clients[j + 1]
         /\ sock' = [sock EXCEPT ![clients[k]] = NoPeer]
         /\ sock' \in [Fds -> Peers \cup {NoPeer}]
BY RemoveAtProps DEF TypeOK, rem_client

\* The packets on the way to a peer, after one was added or taken.
LEMMA OutTypes ==
  ASSUME out \in [Peers -> Seq(Packet)], NEW p \in Peers,
         NEW q \in Seq(Packet), out' = [out EXCEPT ![p] = q]
  PROVE  out' \in [Peers -> Seq(Packet)]
OBVIOUS

\* The two units of a packet.
LEMMA UnitsTypes ==
  ASSUME NEW p \in Packet
  PROVE  /\ Units(p) \in [1..2 -> Unit] /\ Units(p) \in Seq(Unit) /\ Len(Units(p)) = 2
         /\ Units(p)[1] = [n |-> p.n, ok |-> p.ok, part |-> 1]
         /\ Units(p)[2] = [n |-> p.n, ok |-> p.ok, part |-> 2]
<1>1. \A k \in 1..2 : [n |-> p.n, ok |-> p.ok, part |-> k] \in Unit
  BY DEF Packet, Unit
<1>2. Units(p) \in [1..2 -> Unit]
  BY <1>1 DEF Units
<1> QED BY <1>2 DEF Units

\* What SfGreets needs: the peer it takes and the descriptor it uses.
LEMMA GreetProps ==
  ASSUME TypeOK, Connections, Rounds, SfGreets
  PROVE  /\ backlog # <<>> /\ Head(backlog) \in Peers /\ Head(backlog) = backlog[1]
         /\ \A fd \in Fds : sock[fd] # Head(backlog)
         /\ FreeFd \in Fds /\ sock[FreeFd] = NoPeer
<1>1. backlog # <<>> /\ backlog \in Seq(Peers)
  BY DEF SfGreets, Rounds, TypeOK
<1>2. Head(backlog) \in Peers /\ Head(backlog) = backlog[1] /\ 1 \in 1..Len(backlog)
  BY <1>1, HeadTailProperties, EmptySeq
<1>3. \A fd \in Fds : sock[fd] # Head(backlog)
  BY <1>2 DEF Connections
<1>4. sock \in [Fds -> Peers \cup {NoPeer}]
  BY DEF TypeOK
<1>5. \A fd, g \in Fds : sock[fd] = sock[g] /\ sock[fd] # NoPeer => fd = g
  BY DEF Connections
<1> QED BY <1>1, <1>2, <1>3, <1>4, <1>5, FreeFdExists

\* A read takes at most what is there.
LEMMA ReadBound ==
  ASSUME net \in Seq(Unit), NEW k \in 1..Min({MaxRead, Len(net)})
  PROVE  k \in 1..Len(net)
<1>1. Len(net) \in Nat /\ MaxRead \in Nat
  BY PathAssumption
<1>2. Min({MaxRead, Len(net)}) \in Nat /\ Min({MaxRead, Len(net)}) <= Len(net)
  BY <1>1, MinProps
<1> QED BY <1>1, <1>2

\* Every step keeps the types.
LEMMA TypeStep == ASSUME IInv, [Next]_vars PROVE TypeOK'
<1> USE DEF line, forwarder, peers, client, server, outside
<1>1. TypeOK /\ Connections /\ Rounds
  BY DEF IInv
<1>2. CASE Arrive
  <2>1. PICK ok \in BOOLEAN : tty' = Append(tty, [n |-> made', ok |-> ok])
    BY <1>2 DEF Arrive
  <2>2. made' \in 1..MaxPackets
    BY <1>1, <1>2, PathAssumption DEF Arrive, TypeOK
  <2>3. [n |-> made', ok |-> ok] \in Packet
    BY <2>2, Zenon DEF Packet
  <2>4. tty' \in Seq(Packet)
    BY <1>1, <2>1, <2>3, AppendProperties DEF TypeOK
  <2>5. made' \in 0..MaxPackets
    BY <2>2
  <2> QED BY <1>1, <1>2, <2>4, <2>5 DEF Arrive, TypeOK
<1>3. ASSUME NEW p \in Others, OtherConnects(p) PROVE TypeOK'
  <2>1. backlog' \in Seq(Peers)
    BY <1>1, <1>3, AppendProperties DEF OtherConnects, PeerConnects, TypeOK, Peers
  <2>2. hello' = [hello EXCEPT ![p] = "none"] /\ hello' \in [Peers -> {"none", "right", "wrong"}]
    BY <1>1, <1>3 DEF OtherConnects, PeerConnects, TypeOK
  <2> QED BY <1>1, <1>3, <2>1, <2>2 DEF OtherConnects, TypeOK
<1>4. ASSUME NEW p \in Others, OtherSends(p) PROVE TypeOK'
  <2>1. inbox' \in [Peers -> 0..1]
    <3>1. inbox \in [Peers -> 0..1] /\ inbox' = [inbox EXCEPT ![p] = 1] /\ 1 \in 0..1
      BY <1>1, <1>4 DEF OtherSends, TypeOK
    <3> QED BY <3>1
  <2> QED BY <1>1, <1>4, <2>1 DEF OtherSends, TypeOK
<1>5. ASSUME NEW p \in Others, OtherReads(p) PROVE TypeOK'
  <2>1. p \in Peers
    BY DEF Peers
  <2>2. Tail(out[p]) \in Seq(Packet) /\ out' = [out EXCEPT ![p] = Tail(out[p])]
    BY <1>1, <1>5, <2>1, HeadTailProperties DEF OtherReads, TypeOK
  <2>3. out' \in [Peers -> Seq(Packet)]
    BY <1>1, <2>1, <2>2, OutTypes DEF TypeOK
  <2> QED BY <1>1, <1>5, <2>3 DEF OtherReads, TypeOK
<1>6. ASSUME NEW p \in Others, OtherLeaves(p) PROVE TypeOK'
  BY <1>1, <1>6 DEF OtherLeaves, TypeOK, Peers
<1>7. CASE open_serial \/ open_server_socket \/ SfAccept \/ CheckClientsEnds \/ DispatchEnds
  BY <1>1, <1>7 DEF open_serial, open_server_socket, SfAccept, CheckClientsEnds, DispatchEnds, TypeOK
<1>8. CASE SfSelect
  <2>1. rfds' \subseteq Fds \cup {SerFd, ServerSocket}
    <3>1. Range(clients) \subseteq Fds
      BY <1>1 DEF TypeOK, Connections
    <3> QED BY <1>8, <3>1 DEF SfSelect, Readable
  <2>2. tty' \in Seq(Packet) /\ lib' \in Seq(Packet) /\ pend' \in Packet \cup {NoPacket} /\ at' \in Nat \ {0}
    BY <1>1, <1>8, CheckSerialTypes DEF SfSelect, TypeOK
  <2> QED BY <1>1, <1>8, <2>1, <2>2 DEF SfSelect, TypeOK
<1>9. CASE SfSerial
  <2>1. tty' \in Seq(Packet) /\ lib' \in Seq(Packet) /\ pend' \in Packet \cup {NoPacket} /\ at' \in Nat \ {0}
    BY <1>1, <1>9, CheckSerialTypes DEF SfSerial, TypeOK
  <2> QED BY <1>1, <1>9, <2>1 DEF SfSerial, TypeOK
<1>10. CASE SfGreets
  <2>1. backlog # <<>> /\ Head(backlog) \in Peers /\ FreeFd \in Fds
    BY <1>1, <1>10, GreetProps
  <2>2. backlog' \in Seq(Peers)
    <3>1. backlog \in Seq(Peers) /\ backlog' = Tail(backlog)
      BY <1>1, <1>10 DEF SfGreets, TypeOK
    <3> QED BY <2>1, <3>1, HeadTailProperties
  <2>3. clients' \in Seq(Fds) /\ fresh' \subseteq Fds /\ sock' \in [Fds -> Peers \cup {NoPeer}]
    <3>1. CASE new_client(Head(backlog))
      <4>1. <<FreeFd>> \in Seq(Fds)
        BY <2>1
      <4>2. clients' \in Seq(Fds)
        BY <1>1, <3>1, <4>1, ConcatProperties DEF new_client, TypeOK
      <4> QED BY <1>1, <2>1, <3>1, <4>2 DEF new_client, TypeOK
    <3>2. CASE UNCHANGED <<clients, sock, fresh>>
      BY <1>1, <3>2 DEF TypeOK
    <3> QED BY <1>10, <3>1, <3>2 DEF SfGreets
  <2>4. sf' = "clients" /\ UNCHANGED <<line, rfds, pend, at, peers, out, client, net, server>>
    BY <1>10 DEF SfGreets
  <2> QED BY <1>1, <2>2, <2>3, <2>4 DEF TypeOK
<1>11. CASE DispatchFails
  <2>1. at \in 1..Len(clients) /\ rem_client(at)
    BY <1>1, <1>11 DEF DispatchFails, TypeOK
  <2>2. clients' \in Seq(Fds) /\ sock' \in [Fds -> Peers \cup {NoPeer}]
    BY <1>1, <2>1, RemClientTypes
  <2>3. UNCHANGED <<tty, lib, sf, rfds, fresh, pend, at, outside>>
    BY <1>11 DEF DispatchFails
  <2> QED BY <1>1, <2>2, <2>3 DEF TypeOK
<1>12. CASE DispatchWrites
  <2>1. at \in 1..Len(clients) /\ clients[at] \in Fds /\ pend \in Packet
    BY <1>1, <1>12, ElementOfSeq DEF DispatchWrites, TypeOK
  <2>2. sock[clients[at]] \in Peers
    <3>1. clients[at] \in Range(clients)
      BY <1>1, <2>1 DEF Range, TypeOK
    <3> QED BY <1>1, <2>1, <3>1 DEF Connections, TypeOK
  <2>3. out' \in [Peers -> Seq(Packet)]
    <3>1. out[sock[clients[at]]] \in Seq(Packet) /\ out \in [Peers -> Seq(Packet)]
      BY <1>1, <2>2 DEF TypeOK
    <3>2. Append(out[sock[clients[at]]], pend) \in Seq(Packet)
      BY <2>1, <3>1, AppendProperties
    <3>3. \/ out' = out
          \/ out' = [out EXCEPT ![sock[clients[at]]] = Append(out[sock[clients[at]]], pend)]
      BY <1>12, <2>2, <3>1 DEF DispatchWrites
    <3> QED BY <2>2, <3>1, <3>2, <3>3, OutTypes
  <2> QED BY <1>1, <1>12, <2>3 DEF DispatchWrites, TypeOK
<1>13. CASE CheckClient
  <2>1. at \in 1..Len(clients)
    BY <1>1, <1>13 DEF CheckClient, TypeOK
  <2>2. CASE UNCHANGED <<tty, lib, sf, clients, sock, inbox>> /\ at' = at + 1
    BY <1>1, <1>13, <2>2 DEF CheckClient, TypeOK
  <2>3. CASE forward_packet /\ at' = at + 1 /\ UNCHANGED <<clients, sock>>
             /\ inbox' = [inbox EXCEPT ![sock[clients[at]]] = @ - 1] /\ inbox[sock[clients[at]]] > 0
    <3>1. lib' \in Seq(Packet) /\ tty' \in Seq(Packet)
      BY <1>1, <2>3, ConcatProperties, EmptySeq DEF forward_packet, TypeOK
    <3>2. inbox' \in [Peers -> 0..1]
      <4>1. inbox \in [Peers -> 0..1]
        BY <1>1 DEF TypeOK
      <4>2. sock[clients[at]] \in Peers
        <5>1. clients \in Seq(Fds) /\ sock \in [Fds -> Peers \cup {NoPeer}]
          BY <1>1 DEF TypeOK
        <5>2. clients[at] \in Range(clients)
          BY <2>1, <5>1 DEF Range
        <5> QED BY <1>1, <5>1, <5>2 DEF Connections
      <4> QED BY <2>3, <4>1, <4>2
    <3>3. sf' \in {sf, "dead"}
      BY <2>3 DEF forward_packet
    <3>4. UNCHANGED <<made, rfds, fresh, pend, backlog, gone, hello, out, client, net, server, clients, sock>>
      BY <1>13, <2>3 DEF CheckClient
    <3>5. at' \in Nat \ {0}
      BY <1>1, <2>3 DEF TypeOK
    <3> QED BY <1>1, <3>1, <3>2, <3>3, <3>4, <3>5 DEF TypeOK
  <2>4. CASE rem_client(at) /\ UNCHANGED <<tty, lib, sf, at, inbox>>
    BY <1>1, <1>13, <2>1, <2>4, RemClientTypes DEF CheckClient, TypeOK
  <2> QED BY <1>13, <2>2, <2>3, <2>4 DEF CheckClient
<1>14. CASE OpenSfSource
  <2>1. backlog' \in Seq(Peers)
    <3>1. backlog \in Seq(Peers) /\ Client \in Peers
      BY <1>1 DEF TypeOK, Peers
    <3>2. backlog' = backlog \/ backlog' = Append(backlog, Client)
      BY <1>14 DEF OpenSfSource, PeerConnects
    <3> QED BY <3>1, <3>2, AppendProperties
  <2>2. hello' \in [Peers -> {"none", "right", "wrong"}]
    <3>1. hello' = hello \/ hello' = [hello EXCEPT ![Client] = "right"]
      BY <1>14 DEF OpenSfSource, PeerConnects
    <3> QED BY <1>1, <3>1 DEF TypeOK
  <2> QED BY <1>1, <1>14, <2>1, <2>2 DEF OpenSfSource, TypeOK
<1>15. CASE OpenSrvSource \/ ServerForks \/ ServerEnds
  BY <1>1, <1>15 DEF OpenSrvSource, ServerForks, ServerEnds, TypeOK
<1>16. CASE ClientReads
  <2>1. Client \in Peers /\ out[Client] # <<>> /\ out[Client] \in Seq(Packet)
    BY <1>1, <1>16 DEF ClientReads, Peers, TypeOK
  <2>2. Head(out[Client]) \in Packet /\ Tail(out[Client]) \in Seq(Packet)
    BY <2>1, HeadTailProperties
  <2>3. out' = [out EXCEPT ![Client] = Tail(out[Client])]
    BY <1>16 DEF ClientReads
  <2>4. out' \in [Peers -> Seq(Packet)]
    BY <1>1, <2>1, <2>2, <2>3, OutTypes DEF TypeOK
  <2>5. hold' \in Packet \cup {NoPacket}
    BY <1>16, <2>2 DEF ClientReads
  <2> QED BY <1>1, <1>16, <2>4, <2>5 DEF ClientReads, TypeOK
<1>17. CASE ClientLosesSf \/ ClientWriteFails \/ ClientInterrupted
  BY <1>1, <1>17 DEF ClientLosesSf, ClientWriteFails, ClientInterrupted, Exit, Kill, TypeOK, Peers
<1>18. CASE ClientWrites
  <2>1. Units(hold) \in Seq(Unit)
    BY <1>1, <1>18, UnitsTypes DEF ClientWrites, TypeOK
  <2>2. net' \in Seq(Unit)
    BY <1>1, <1>18, <2>1, ConcatProperties DEF ClientWrites, TypeOK
  <2> QED BY <1>1, <1>18, <2>2 DEF ClientWrites, TypeOK
<1>19. CASE ServerReads
  <2>1. PICK k \in 1..Min({MaxRead, Len(net)}) :
          /\ net' = SubSeq(net, k + 1, Len(net))
          /\ buf' = [j \in 1..2 |-> IF j <= k THEN net[j] ELSE buf[j]]
          /\ aligned' = (aligned /\ k = 2)
          /\ insert_mesg_to_db(buf')
    BY <1>19 DEF ServerReads
  <2>2. k \in 1..Len(net) /\ net \in Seq(Unit) /\ Len(net) \in Nat
    <3>1. net \in Seq(Unit)
      BY <1>1 DEF TypeOK
    <3>2. k \in 1..Len(net)
      BY <3>1, ReadBound
    <3> QED BY <3>1, <3>2
  <2>3. net' \in Seq(Unit)
    <3>1. \A i \in (k + 1)..Len(net) : net[i] \in Unit
      BY <2>2, ElementOfSeq
    <3> QED BY <2>1, <2>2, <3>1, SubSeqProperties
  <2>4. buf' \in [1..2 -> Unit]
    <3>1. \A j \in 1..2 : (IF j <= k THEN net[j] ELSE buf[j]) \in Unit
      <4> SUFFICES ASSUME NEW j \in 1..2 PROVE (IF j <= k THEN net[j] ELSE buf[j]) \in Unit
        OBVIOUS
      <4>1. buf[j] \in Unit
        BY <1>1 DEF TypeOK
      <4>2. j <= k => net[j] \in Unit
        BY <2>2, ElementOfSeq
      <4> QED BY <4>1, <4>2
    <3> QED BY <2>1, <3>1
  <2>5. rows' \in Seq([1..2 -> Unit])
    <3>1. rows \in Seq([1..2 -> Unit]) /\ (rows' = rows \/ rows' = Append(rows, buf'))
      BY <1>1, <2>1 DEF insert_mesg_to_db, TypeOK
    <3> QED BY <2>4, <3>1, AppendProperties
  <2>6. aligned' \in BOOLEAN
    BY <2>1, Zenon
  <2> QED BY <1>1, <1>19, <2>3, <2>4, <2>5, <2>6 DEF ServerReads, TypeOK
<1>20. CASE UNCHANGED vars
  BY <1>1, <1>20 DEF vars, TypeOK
<1>21. ASSUME NEW p \in Others, OtherGreets(p) PROVE TypeOK'
  <2>1. PICK version \in {"right", "wrong"} : hello' = [hello EXCEPT ![p] = version]
    BY <1>21 DEF OtherGreets
  <2>2. hello' \in [Peers -> {"none", "right", "wrong"}]
    BY <1>1, <2>1 DEF TypeOK
  <2> QED BY <1>1, <1>21, <2>2 DEF OtherGreets, TypeOK
<1> QED
  BY <1>2, <1>3, <1>4, <1>5, <1>6, <1>7, <1>8, <1>9, <1>10, <1>11, <1>12, <1>13, <1>14, <1>15,
     <1>16, <1>17, <1>18, <1>19, <1>20, <1>21
     DEF Next, ForwarderStep, Forwarder, ClientStep, ServerStep, OtherReadsOrLeaves

-----------------------------------------------------------------------------
(* The forwarder's clients *)

\* The peer behind a position of the list, and the place of a descriptor in it.
LEMMA ListProps ==
  ASSUME TypeOK, Connections
  PROVE  /\ Len(clients) \in Nat /\ DOMAIN clients = 1..Len(clients)
         /\ \A k \in 1..Len(clients) : clients[k] \in Fds /\ sock[clients[k]] \in Peers
         /\ \A k, j \in 1..Len(clients) :
              k # j => clients[k] # clients[j] /\ sock[clients[k]] # sock[clients[j]]
         /\ \A fd \in Fds : sock[fd] # NoPeer => \E k \in 1..Len(clients) : clients[k] = fd
<1>1. clients \in Seq(Fds) /\ sock \in [Fds -> Peers \cup {NoPeer}]
  BY DEF TypeOK
<1>2. Len(clients) \in Nat /\ DOMAIN clients = 1..Len(clients)
  BY <1>1, LenProperties
<1>3. \A k \in 1..Len(clients) : clients[k] \in Fds /\ sock[clients[k]] # NoPeer
  BY <1>1, <1>2, ElementOfSeq DEF Connections, Range
<1>4. \A k \in 1..Len(clients) : sock[clients[k]] \in Peers
  BY <1>1, <1>3
<1>5. \A k, j \in 1..Len(clients) :
        k # j => clients[k] # clients[j] /\ sock[clients[k]] # sock[clients[j]]
  <2>1. \A k, j \in 1..Len(clients) : k # j => clients[k] # clients[j]
    BY <1>2 DEF Connections, IsInjective
  <2> QED BY <1>3, <2>1 DEF Connections
<1>6. \A fd \in Fds : sock[fd] # NoPeer => \E k \in 1..Len(clients) : clients[k] = fd
  BY <1>2 DEF Connections, Range
<1> QED BY <1>2, <1>3, <1>4, <1>5, <1>6

\* A client that is removed takes its descriptor with it.
LEMMA RemClientConnections ==
  ASSUME TypeOK, Connections, NEW k \in 1..Len(clients), rem_client(k), UNCHANGED backlog
  PROVE  Connections'
<1>1. /\ clients' \in Seq(Fds) /\ Len(clients') = Len(clients) - 1
      /\ \A j \in 1..Len(clients') : clients'[j] = IF j < k THEN clients[j] ELSE clients[j + 1]
      /\ sock' = [sock EXCEPT ![clients[k]] = NoPeer]
  BY RemClientTypes
<1>2. DOMAIN clients' = 1..Len(clients') /\ Len(clients) \in Nat /\ k \in Nat
  BY <1>1, ListProps
<1>3. sock \in [Fds -> Peers \cup {NoPeer}] /\ clients[k] \in Fds
  BY ListProps DEF TypeOK
<1>4. \A fd \in Fds : sock'[fd] = IF fd = clients[k] THEN NoPeer ELSE sock[fd]
  BY <1>1, <1>3
<1>5. \A j \in 1..Len(clients') : \E i \in 1..Len(clients) :
        i # k /\ clients'[j] = clients[i] /\ i = IF j < k THEN j ELSE j + 1
  BY <1>1, <1>2
<1>6. IsInjective(clients')
  <2> SUFFICES ASSUME NEW i \in 1..Len(clients'), NEW j \in 1..Len(clients'), i # j
               PROVE  clients'[i] # clients'[j]
    BY <1>2 DEF IsInjective
  <2>1. PICK a \in 1..Len(clients) : clients'[i] = clients[a] /\ a = IF i < k THEN i ELSE i + 1
    BY <1>5
  <2>2. PICK b \in 1..Len(clients) : clients'[j] = clients[b] /\ b = IF j < k THEN j ELSE j + 1
    BY <1>5
  <2>3. a # b
    BY <1>2, <2>1, <2>2
  <2>4. clients[a] # clients[b]
    BY <2>3, ListProps
  <2> QED BY <2>1, <2>2, <2>4
<1>7. Range(clients') = {fd \in Fds : sock'[fd] # NoPeer}
  <2>1. ASSUME NEW j \in 1..Len(clients') PROVE clients'[j] \in Fds /\ sock'[clients'[j]] # NoPeer
    <3>1. PICK i \in 1..Len(clients) : i # k /\ clients'[j] = clients[i]
      BY <1>5
    <3>2. clients[i] \in Fds /\ clients[i] # clients[k] /\ sock[clients[i]] \in Peers
      BY <3>1, ListProps
    <3> QED BY <1>4, <3>1, <3>2, PathAssumption
  <2>2. ASSUME NEW fd \in Fds, sock'[fd] # NoPeer PROVE \E j \in 1..Len(clients') : clients'[j] = fd
    <3>1. fd # clients[k] /\ sock[fd] # NoPeer
      BY <1>4, <2>2
    <3>2. PICK i \in 1..Len(clients) : clients[i] = fd
      BY <3>1, ListProps
    <3>3. CASE i < k
      BY <1>1, <1>2, <3>2, <3>3
    <3>4. CASE i > k
      <4>1. i - 1 \in 1..Len(clients') /\ ~ (i - 1 < k) /\ (i - 1) + 1 = i
        BY <1>1, <1>2, <3>4
      <4> QED BY <1>1, <3>2, <4>1
    <3> QED BY <3>1, <3>2, <3>3, <3>4, <1>2
  <2> QED BY <1>2, <2>1, <2>2 DEF Range
<1>8. \A fd, g \in Fds : sock'[fd] = sock'[g] /\ sock'[fd] # NoPeer => fd = g
  BY <1>4 DEF Connections
<1>9. IsInjective(backlog') /\ Len(backlog') = Len(backlog)
  BY DEF Connections
<1>10. \A fd \in Fds, j \in 1..Len(backlog) : backlog'[j] # sock'[fd]
  <2>1. \A j \in 1..Len(backlog) : backlog[j] \in Peers
    BY ElementOfSeq DEF TypeOK
  <2> QED BY <1>4, <2>1, PathAssumption DEF Connections
<1> QED BY <1>6, <1>7, <1>8, <1>9, <1>10 DEF Connections

\* A peer that is not known joins the backlog.
LEMMA ConnectConnections ==
  ASSUME TypeOK, Connections, NEW p \in Peers, NEW v, PeerConnects(p, v), UNCHANGED <<clients, sock>>
  PROVE  Connections'
<1>1. backlog \in Seq(Peers)
  BY DEF TypeOK
<1>2. /\ backlog' \in Seq(Peers) /\ Len(backlog') = Len(backlog) + 1
      /\ \A i \in 1..Len(backlog) : backlog'[i] = backlog[i]
      /\ backlog'[Len(backlog) + 1] = p
  BY <1>1, AppendProperties DEF PeerConnects
<1>3. (\A i \in 1..Len(backlog) : backlog[i] # p) /\ \A fd \in Fds : sock[fd] # p
  BY DEF PeerConnects, Known, Contains
<1>4. Len(backlog) \in Nat /\ DOMAIN backlog = 1..Len(backlog) /\ DOMAIN backlog' = 1..Len(backlog')
  BY <1>1, <1>2, LenProperties
<1>5. \A i \in 1..Len(backlog') : i \in 1..Len(backlog) \/ i = Len(backlog) + 1
  BY <1>2, <1>4
<1>6. IsInjective(backlog')
  BY <1>2, <1>3, <1>4, <1>5 DEF Connections, IsInjective
<1>7. \A fd \in Fds, k \in 1..Len(backlog') : backlog'[k] # sock'[fd]
  BY <1>2, <1>3, <1>5 DEF Connections
<1> QED BY <1>6, <1>7 DEF Connections

\* The first of the backlog is given a descriptor and a place at the front, or has left.
LEMMA GreetConnections ==
  ASSUME TypeOK, Connections, Rounds, SfGreets
  PROVE  Connections'
<1> DEFINE p == Head(backlog)
<1>1. /\ backlog # <<>> /\ p \in Peers /\ p = backlog[1] /\ \A fd \in Fds : sock[fd] # p
      /\ FreeFd \in Fds /\ sock[FreeFd] = NoPeer
  BY GreetProps
<1>2. backlog \in Seq(Peers) /\ backlog' = Tail(backlog)
  BY DEF SfGreets, TypeOK
<1>3. /\ backlog' \in Seq(Peers) /\ Len(backlog') = Len(backlog) - 1
      /\ \A i \in 1..Len(backlog') : backlog'[i] = backlog[i + 1]
  BY <1>1, <1>2, HeadTailProperties
<1>4. /\ Len(backlog) \in Nat \ {0} /\ DOMAIN backlog = 1..Len(backlog)
      /\ DOMAIN backlog' = 1..Len(backlog')
  BY <1>1, <1>2, <1>3, LenProperties, EmptySeq
<1>5. \A i \in 1..Len(backlog') : i + 1 \in 1..Len(backlog) /\ i + 1 # 1
  BY <1>3, <1>4
<1>6. IsInjective(backlog')
  <2> SUFFICES ASSUME NEW i \in 1..Len(backlog'), NEW j \in 1..Len(backlog'),
                      backlog'[i] = backlog'[j]
               PROVE  i = j
    BY <1>4 DEF IsInjective
  <2>1. backlog[i + 1] = backlog[j + 1]
    BY <1>3
  <2>2. i + 1 = j + 1
    BY <1>4, <1>5, <2>1 DEF Connections, IsInjective
  <2> QED BY <1>3, <1>4, <2>2
<1>7. \A i \in 1..Len(backlog') : backlog'[i] # p /\ backlog'[i] \in Peers
  <2>1. \A i \in 1..Len(backlog') : backlog[i + 1] # backlog[1]
    BY <1>4, <1>5 DEF Connections, IsInjective
  <2> QED BY <1>1, <1>3, <2>1, ElementOfSeq
<1>8. \A fd \in Fds, k \in 1..Len(backlog') : backlog'[k] # sock[fd]
  BY <1>3, <1>5 DEF Connections
<1>9. CASE UNCHANGED <<clients, sock>>
  BY <1>6, <1>8, <1>9 DEF Connections
<1>10. CASE new_client(p)
  <2> DEFINE f == FreeFd
  <2>1. clients \in Seq(Fds) /\ sock \in [Fds -> Peers \cup {NoPeer}] /\ <<f>> \in Seq(Fds)
    BY <1>1 DEF TypeOK
  <2>2. clients' = <<f>> \o clients /\ sock' = [sock EXCEPT ![f] = p]
    BY <1>10 DEF new_client
  <2>3. /\ clients' \in Seq(Fds) /\ Len(clients') = 1 + Len(clients)
        /\ \A i \in 1..(1 + Len(clients)) : clients'[i] = IF i <= 1 THEN <<f>>[i] ELSE clients[i - 1]
    <3>1. Len(<<f>>) = 1
      OBVIOUS
    <3> QED BY <2>1, <2>2, <3>1, ConcatProperties
  <2>4. \A fd \in Fds : sock'[fd] = IF fd = f THEN p ELSE sock[fd]
    BY <2>1, <2>2
  <2> HIDE DEF p, f
  <2>5. DOMAIN clients' = 1..Len(clients') /\ Len(clients) \in Nat
    BY <2>1, <2>3, LenProperties
  <2>6. clients'[1] = f
    BY <2>3, <2>5
  <2>7. \A i \in 1..Len(clients') : i # 1 => i - 1 \in 1..Len(clients) /\ clients'[i] = clients[i - 1]
    BY <2>3, <2>5
  <2>8. \A i \in 1..Len(clients) : clients[i] \in Fds /\ clients[i] # f /\ sock[clients[i]] # NoPeer
    BY <1>1, ListProps, PathAssumption DEF f
  <2>9. IsInjective(clients')
    <3> SUFFICES ASSUME NEW i \in 1..Len(clients'), NEW j \in 1..Len(clients'), i # j
                 PROVE  clients'[i] # clients'[j]
      BY <2>5 DEF IsInjective
    <3>1. CASE i = 1 \/ j = 1
      BY <2>6, <2>7, <2>8, <3>1
    <3>2. CASE i # 1 /\ j # 1
      <4>1. i - 1 \in 1..Len(clients) /\ j - 1 \in 1..Len(clients) /\ i - 1 # j - 1
        BY <2>7, <3>2, <2>5, <2>3
      <4>2. clients[i - 1] # clients[j - 1]
        BY <4>1, ListProps
      <4> QED BY <2>7, <3>2, <4>2
    <3> QED BY <3>1, <3>2
  <2>10. Range(clients') = {fd \in Fds : sock'[fd] # NoPeer}
    <3>1. ASSUME NEW i \in 1..Len(clients') PROVE clients'[i] \in Fds /\ sock'[clients'[i]] # NoPeer
      <4>1. p # NoPeer /\ f \in Fds
        BY <1>1, PathAssumption DEF p, f
      <4>2. CASE i = 1
        BY <2>4, <2>6, <4>1, <4>2
      <4>3. CASE i # 1
        BY <2>4, <2>7, <2>8, <4>3
      <4> QED BY <4>2, <4>3
    <3>2. ASSUME NEW fd \in Fds, sock'[fd] # NoPeer PROVE \E i \in 1..Len(clients') : clients'[i] = fd
      <4>1. CASE fd = f
        BY <2>3, <2>5, <2>6, <4>1
      <4>2. CASE fd # f
        <5>1. PICK i \in 1..Len(clients) : clients[i] = fd
          BY <2>4, <3>2, <4>2, ListProps
        <5>2. i + 1 \in 1..Len(clients') /\ i + 1 # 1 /\ (i + 1) - 1 = i
          BY <2>3, <2>5
        <5> QED BY <2>7, <5>1, <5>2
      <4> QED BY <4>1, <4>2
    <3> QED BY <2>5, <3>1, <3>2 DEF Range
  <2>11. \A fd, g \in Fds : sock'[fd] = sock'[g] /\ sock'[fd] # NoPeer => fd = g
    BY <1>1, <2>4 DEF Connections, p
  <2>12. \A fd \in Fds, k \in 1..Len(backlog') : backlog'[k] # sock'[fd]
    BY <1>7, <1>8, <2>4 DEF p
  <2> QED BY <1>6, <2>9, <2>10, <2>11, <2>12 DEF Connections
<1> QED BY <1>9, <1>10 DEF SfGreets

\* Every step keeps the list and the descriptors in agreement.
LEMMA ConnectionsStep == ASSUME IInv, [Next]_vars PROVE Connections'
<1> USE DEF line, forwarder, peers, client, server, outside
<1>1. TypeOK /\ Connections /\ Rounds
  BY DEF IInv
<1>2. ASSUME NEW p \in Others, OtherConnects(p) PROVE Connections'
  BY <1>1, <1>2, ConnectConnections DEF OtherConnects, Peers
<1>3. CASE OpenSfSource
  <2>1. CASE PeerConnects(Client, "right")
    BY <1>1, <1>3, <2>1, ConnectConnections DEF OpenSfSource, Peers
  <2>2. CASE UNCHANGED backlog
    BY <1>1, <1>3, <2>2 DEF OpenSfSource, Connections
  <2> QED BY <1>3, <2>1, <2>2 DEF OpenSfSource
<1>4. CASE SfGreets
  BY <1>1, <1>4, GreetConnections
<1>5. CASE DispatchFails
  <2>1. at \in 1..Len(clients) /\ rem_client(at) /\ UNCHANGED backlog
    BY <1>1, <1>5 DEF DispatchFails, TypeOK
  <2> QED BY <1>1, <2>1, RemClientConnections
<1>6. CASE CheckClient
  <2>1. at \in 1..Len(clients) /\ UNCHANGED backlog
    BY <1>1, <1>6 DEF CheckClient, TypeOK
  <2>2. rem_client(at) \/ UNCHANGED <<clients, sock>>
    BY <1>6 DEF CheckClient
  <2>3. CASE UNCHANGED <<clients, sock>>
    BY <1>1, <2>1, <2>3 DEF Connections
  <2> QED BY <1>1, <2>1, <2>2, <2>3, RemClientConnections
<1>7. CASE UNCHANGED <<clients, sock, backlog>>
  BY <1>1, <1>7 DEF Connections
<1>8. \/ \E p \in Others : OtherConnects(p)
      \/ OpenSfSource \/ SfGreets \/ DispatchFails \/ CheckClient
      \/ UNCHANGED <<clients, sock, backlog>>
  BY DEF Next, ForwarderStep, Forwarder, ClientStep, ServerStep, OtherReadsOrLeaves, vars,
     Arrive, OtherGreets, OtherSends, OtherReads, OtherLeaves, open_serial, open_server_socket, SfSelect,
     SfSerial, SfAccept, DispatchWrites, DispatchEnds, CheckClientsEnds, OpenSrvSource, ClientReads, ClientLosesSf,
     ClientWrites, ClientWriteFails, ClientInterrupted, Exit, Kill, ServerForks, ServerReads, ServerEnds
<1> QED BY <1>2, <1>3, <1>4, <1>5, <1>6, <1>7, <1>8

-----------------------------------------------------------------------------
(* The rounds of the forwarder's loop *)

\* What the peers do only adds to what select reported.
LEMMA PeersRounds ==
  ASSUME TypeOK, Rounds, UNCHANGED <<pend, rfds, fresh, clients, sock, at>>,
         sf' = sf \/ sf' = "dead",
         backlog' = backlog \/ backlog' # <<>>,
         \A p \in Peers : inbox[p] > 0 => inbox'[p] > 0,
         gone \subseteq gone',
         Connections
  PROVE  Rounds'
<1>1. \A k \in 1..Len(clients) : sock[clients[k]] \in Peers
  BY ListProps
<1> QED BY <1>1 DEF Rounds, Report

\* A removed client leaves the reports about the others.
LEMMA RemClientReports ==
  ASSUME TypeOK, Connections, NEW k \in 1..Len(clients), rem_client(k),
         UNCHANGED <<rfds, inbox, gone, fresh>>
  PROVE  \A j \in 1..Len(clients') : \E i \in 1..Len(clients) :
           (Report(i) => Report(j)') /\ i = IF j < k THEN j ELSE j + 1
<1> SUFFICES ASSUME NEW j \in 1..Len(clients')
             PROVE  \E i \in 1..Len(clients) : (Report(i) => Report(j)') /\ i = IF j < k THEN j ELSE j + 1
  OBVIOUS
<1>1. /\ Len(clients') = Len(clients) - 1
      /\ \A l \in 1..Len(clients') : clients'[l] = IF l < k THEN clients[l] ELSE clients[l + 1]
      /\ sock' = [sock EXCEPT ![clients[k]] = NoPeer]
  BY RemClientTypes
<1> DEFINE i == IF j < k THEN j ELSE j + 1
<1>2. i \in 1..Len(clients) /\ i # k /\ clients'[j] = clients[i]
  BY <1>1, ListProps
<1> HIDE DEF i
<1>3. clients[i] \in Fds /\ clients[i] # clients[k] /\ sock \in [Fds -> Peers \cup {NoPeer}]
  BY <1>2, ListProps DEF TypeOK
<1>4. sock'[clients'[j]] = sock[clients[i]]
  BY <1>1, <1>2, <1>3
<1>5. Report(i) => Report(j)'
  BY <1>2, <1>4 DEF Report
<1> QED BY <1>2, <1>5 DEF i

\* A new client stands at the front and is fresh.
LEMMA GreetRounds ==
  ASSUME TypeOK, Connections, Rounds, SfGreets
  PROVE  Rounds'
<1>1. sf = "greet" /\ pend' = NoPacket /\ sf' = "clients" /\ UNCHANGED <<rfds, inbox, gone>>
  BY DEF SfGreets, Rounds, peers
<1>2. \A k \in 1..Len(clients) : Report(k)
  BY <1>1 DEF Rounds, Report
<1>3. \A k \in 1..Len(clients') : Report(k)'
  <2>1. CASE UNCHANGED <<clients, sock, fresh>>
    BY <1>1, <1>2, <2>1 DEF Report
  <2>2. CASE new_client(Head(backlog))
    <3> SUFFICES ASSUME NEW k \in 1..Len(clients') PROVE Report(k)'
      OBVIOUS
    <3>1. FreeFd \in Fds /\ sock[FreeFd] = NoPeer
      BY GreetProps
    <3>2. clients \in Seq(Fds) /\ <<FreeFd>> \in Seq(Fds) /\ sock \in [Fds -> Peers \cup {NoPeer}]
      BY <3>1 DEF TypeOK
    <3>3. /\ clients' = <<FreeFd>> \o clients /\ sock' = [sock EXCEPT ![FreeFd] = Head(backlog)]
          /\ fresh' = fresh \cup {FreeFd}
      BY <2>2 DEF new_client
    <3>4. /\ Len(clients') = 1 + Len(clients)
          /\ \A i \in 1..(1 + Len(clients)) :
               clients'[i] = IF i <= 1 THEN <<FreeFd>>[i] ELSE clients[i - 1]
      <4>1. Len(<<FreeFd>>) = 1
        OBVIOUS
      <4> QED BY <3>2, <3>3, <4>1, ConcatProperties
    <3>5. CASE k = 1
      <4>1. clients'[k] = FreeFd
        BY <3>4, <3>5, ListProps
      <4> QED BY <3>3, <4>1 DEF Report
    <3>6. CASE k # 1
      <4>1. k - 1 \in 1..Len(clients) /\ clients'[k] = clients[k - 1]
        BY <3>4, <3>6, ListProps
      <4>2. clients[k - 1] \in Fds /\ sock[clients[k - 1]] \in Peers
        BY <4>1, ListProps
      <4>3. clients[k - 1] # FreeFd
        BY <3>1, <4>2, PathAssumption
      <4>4. sock'[clients'[k]] = sock[clients[k - 1]]
        BY <3>2, <3>3, <4>1, <4>2, <4>3
      <4>5. Report(k - 1)
        BY <1>2, <4>1
      <4> QED BY <1>1, <3>3, <4>1, <4>4, <4>5 DEF Report
    <3> QED BY <3>5, <3>6
  <2> QED BY <2>1, <2>2 DEF SfGreets
<1> QED BY <1>1, <1>3 DEF Rounds, Report

\* The loop of check_clients settles one report after the other.
LEMMA CheckClientRounds ==
  ASSUME TypeOK, Connections, Rounds, CheckClient
  PROVE  Rounds'
<1>1. /\ sf = "clients" /\ at \in 1..Len(clients) /\ pend = NoPacket
      /\ UNCHANGED <<rfds, fresh, pend, backlog, gone>>
  BY DEF CheckClient, TypeOK, Rounds
<1>2. \A k \in 1..Len(clients) : at <= k => Report(k)
  BY <1>1 DEF Rounds, Report
<1>3. at \in Nat /\ Len(clients) \in Nat
  BY <1>1, ListProps
<1>4. CASE at' = at + 1 /\ UNCHANGED <<sf, clients, sock, inbox>>
  <2>1. \A k \in 1..Len(clients) : at' <= k => Report(k)'
    BY <1>1, <1>2, <1>3, <1>4 DEF Report
  <2> QED BY <1>1, <1>4, <2>1 DEF Rounds, Report
<1>5. CASE at' = at + 1 /\ sf' \in {sf, "dead"} /\ UNCHANGED <<clients, sock>>
           /\ inbox' = [inbox EXCEPT ![sock[clients[at]]] = @ - 1]
  <2>1. ASSUME NEW k \in 1..Len(clients), at' <= k PROVE Report(k)'
    <3>1. k # at /\ at <= k
      BY <1>3, <1>5, <2>1
    <3>2. sock[clients[k]] # sock[clients[at]] /\ sock[clients[k]] \in Peers
      BY <1>1, <3>1, ListProps
    <3>3. inbox'[sock[clients[k]]] = inbox[sock[clients[k]]]
      BY <1>5, <3>2 DEF TypeOK
    <3> QED BY <1>1, <1>2, <1>5, <3>1, <3>3 DEF Report
  <2> QED BY <1>1, <1>5, <2>1 DEF Rounds, Report
<1>6. CASE rem_client(at) /\ UNCHANGED <<sf, at, inbox>>
  <2>1. \A j \in 1..Len(clients') : \E i \in 1..Len(clients) :
          (Report(i) => Report(j)') /\ i = IF j < at THEN j ELSE j + 1
    BY <1>1, <1>6, RemClientReports
  <2>2. ASSUME NEW j \in 1..Len(clients'), at <= j PROVE Report(j)'
    <3>1. PICK i \in 1..Len(clients) : (Report(i) => Report(j)') /\ i = IF j < at THEN j ELSE j + 1
      BY <2>1
    <3>2. at <= i
      BY <1>3, <2>2, <3>1
    <3> QED BY <1>2, <3>1, <3>2
  <2> QED BY <1>1, <1>6, <2>2 DEF Rounds, Report
<1> QED BY <1>4, <1>5, <1>6 DEF CheckClient, forward_packet

\* Every step keeps what select reported true until the loop has come to it.
LEMMA RoundsStep == ASSUME IInv, [Next]_vars PROVE Rounds'
<1> USE DEF line, forwarder, peers, client, server, outside
<1>1. TypeOK /\ Connections /\ Rounds
  BY DEF IInv
<1>2. CASE UNCHANGED <<pend, rfds, fresh, clients, sock, at, sf, backlog, inbox, gone>>
  BY <1>1, <1>2, PeersRounds
<1>3. ASSUME NEW p \in Peers, NEW v, PeerConnects(p, v), UNCHANGED <<forwarder, inbox, gone>> PROVE Rounds'
  <2>1. backlog' # <<>>
    <3>1. backlog \in Seq(Peers) /\ backlog' = Append(backlog, p)
      BY <1>1, <1>3 DEF PeerConnects, TypeOK
    <3> QED BY <3>1, AppendProperties
  <2> QED BY <1>1, <1>3, <2>1, PeersRounds
<1>4. ASSUME NEW p \in Others, OtherConnects(p) PROVE Rounds'
  BY <1>3, <1>4 DEF OtherConnects, Peers
<1>5. CASE OpenSfSource
  BY <1>2, <1>3, <1>5 DEF OpenSfSource, Peers
<1>6. ASSUME NEW p \in Others, OtherSends(p) PROVE Rounds'
  <2>1. \A q \in Peers : inbox[q] > 0 => inbox'[q] > 0
    BY <1>1, <1>6 DEF OtherSends, TypeOK
  <2> QED BY <1>1, <1>6, <2>1, PeersRounds DEF OtherSends
<1>7. ASSUME NEW p \in Others, OtherLeaves(p) PROVE Rounds'
  BY <1>1, <1>7, PeersRounds DEF OtherLeaves
<1>8. CASE ClientLosesSf \/ ClientWriteFails \/ ClientInterrupted
  BY <1>1, <1>8, PeersRounds DEF ClientLosesSf, ClientWriteFails, ClientInterrupted, Exit, Kill
<1>9. CASE sf \in {"boot", "port"} /\ (open_serial \/ open_server_socket)
  BY <1>1, <1>9 DEF open_serial, open_server_socket, Rounds
<1>10. CASE SfSelect
  <2>1. rfds' = Readable /\ sf' = "serial" /\ UNCHANGED <<clients, sock, backlog, inbox, gone>>
    BY <1>10 DEF SfSelect
  <2>2. \A k \in 1..Len(clients) : clients[k] \in Fds
    BY <1>1, ListProps
  <2>3. \A fd \in Fds : fd # SerFd /\ fd # ServerSocket
    <3>1. Fds \subseteq Nat \ {0}
      <4>1. IsFiniteSet(Peers) /\ Cardinality(Peers) \in Nat
        BY PathAssumption, FS_AddElement, FS_CardinalityType DEF Peers
      <4> QED BY <4>1 DEF Fds
    <3> QED BY <3>1 DEF SerFd, ServerSocket
  <2>4. ServerSocket \in Readable => backlog # <<>>
    <3>1. Range(clients) \subseteq Fds /\ ServerSocket # SerFd
      BY <1>1 DEF Connections, ServerSocket, SerFd
    <3> QED BY <2>3, <3>1 DEF Readable
  <2>5. \A k \in 1..Len(clients) :
          clients[k] \in Readable => inbox[sock[clients[k]]] > 0 \/ sock[clients[k]] \in gone
    BY <2>2, <2>3 DEF Readable
  <2> QED BY <2>1, <2>4, <2>5 DEF Rounds, Report
<1>11. CASE SfSerial
  <2>1. sf = "serial" /\ sf' = "accept" /\ UNCHANGED <<rfds, fresh, clients, sock, backlog, inbox, gone>>
    BY <1>11 DEF SfSerial
  <2> QED BY <1>1, <2>1 DEF Rounds, Report
<1>12. CASE SfAccept
  <2>1. /\ sf = "accept" /\ pend' = NoPacket
        /\ (sf' = "greet" /\ ServerSocket \in rfds) \/ sf' = "clients"
        /\ UNCHANGED <<rfds, fresh, clients, sock, backlog, inbox, gone>>
    BY <1>12 DEF SfAccept
  <2> QED BY <1>1, <2>1 DEF Rounds, Report
<1>13. CASE sf # "dead" /\ DispatchFails
  <2>1. sf \in {"serial", "accept"} /\ at \in 1..Len(clients) /\ rem_client(at)
        /\ UNCHANGED <<sf, pend, rfds, fresh, backlog, inbox, gone>>
    BY <1>1, <1>13 DEF DispatchFails, TypeOK, Rounds
  <2>2. \A i \in 1..Len(clients) : Report(i)
    BY <1>1, <2>1 DEF Rounds
  <2>3. \A j \in 1..Len(clients') : \E i \in 1..Len(clients) :
          (Report(i) => Report(j)') /\ i = IF j < at THEN j ELSE j + 1
    BY <1>1, <2>1, RemClientReports
  <2>4. \A j \in 1..Len(clients') : Report(j)'
    BY <2>2, <2>3
  <2> QED BY <1>1, <2>1, <2>4 DEF Rounds
<1>14. CASE sf # "dead" /\ (DispatchWrites \/ DispatchEnds)
  <2>1. sf \in {"serial", "accept"} /\ (pend' = pend \/ pend' = NoPacket)
        /\ UNCHANGED <<sf, rfds, fresh, clients, sock, backlog, inbox, gone>>
    BY <1>1, <1>14 DEF DispatchWrites, DispatchEnds, Rounds
  <2> QED BY <1>1, <2>1 DEF Rounds, Report
<1>15. CASE CheckClient
  BY <1>1, <1>15, CheckClientRounds
<1>16. CASE CheckClientsEnds
  BY <1>1, <1>16 DEF CheckClientsEnds, Rounds
<1>17. \/ \E p \in Others : OtherConnects(p) \/ OtherSends(p) \/ OtherLeaves(p)
       \/ OpenSfSource \/ ClientLosesSf \/ ClientWriteFails \/ ClientInterrupted
       \/ sf # "dead" /\ Forwarder
       \/ UNCHANGED <<pend, rfds, fresh, clients, sock, at, sf, backlog, inbox, gone>>
  BY DEF Next, ForwarderStep, ClientStep, ServerStep, OtherReadsOrLeaves, vars, Arrive, OtherReads,
     OtherGreets, OpenSrvSource, ClientReads, ClientWrites, ServerForks, ServerReads, ServerEnds
<1>19. CASE SfGreets
  BY <1>1, <1>19, GreetRounds
<1>18. CASE sf # "dead" /\ Forwarder
  <2>1. (open_serial => sf = "boot") /\ (open_server_socket => sf = "port")
    BY DEF open_serial, open_server_socket
  <2> QED BY <1>9, <1>10, <1>11, <1>12, <1>13, <1>14, <1>15, <1>16, <1>18, <1>19,
             <2>1 DEF Forwarder
<1> QED BY <1>2, <1>4, <1>5, <1>6, <1>7, <1>8, <1>17, <1>18

-----------------------------------------------------------------------------
(* The way of the packets *)

\* Packets are numbered.
LEMMA PacketNumbers ==
  /\ \A p \in Packet : p.n \in Nat
  /\ \A q \in Seq(Packet) : \A i \in 1..Len(q) : q[i].n \in Nat
<1>1. \A p \in Packet : p.n \in Nat
  BY PathAssumption DEF Packet
<1>2. ASSUME NEW q \in Seq(Packet), NEW i \in 1..Len(q) PROVE q[i] \in Packet
  BY ElementOfSeq
<1> QED BY <1>1, <1>2

\* Two runs of numbers that follow each other are one.
LEMMA WithinConcat ==
  ASSUME NEW q \in Seq(Packet), NEW r \in Seq(Packet), NEW lo \in Nat, NEW mid \in Nat, NEW hi \in Nat,
         lo <= mid, mid <= hi, Within(q, lo, mid), Within(r, mid, hi)
  PROVE  Within(q \o r, lo, hi)
<1>1. /\ q \o r \in Seq(Packet) /\ Len(q \o r) = Len(q) + Len(r)
      /\ \A i \in 1..(Len(q) + Len(r)) : (q \o r)[i] = IF i <= Len(q) THEN q[i] ELSE r[i - Len(q)]
  BY ConcatProperties
<1>2. Len(q) \in Nat /\ Len(r) \in Nat
  BY LenProperties
<1>3. \A i \in 1..Len(q) : q[i].n \in Nat
  BY PacketNumbers
<1>4. \A i \in 1..Len(r) : r[i].n \in Nat
  BY PacketNumbers
<1>5. ASSUME NEW i \in 1..Len(q \o r)
      PROVE  /\ i \in 1..Len(q) => (q \o r)[i] = q[i]
             /\ i \notin 1..Len(q) => i - Len(q) \in 1..Len(r) /\ (q \o r)[i] = r[i - Len(q)]
  BY <1>1, <1>2
<1>6. ASSUME NEW i \in 1..Len(q \o r) PROVE lo < (q \o r)[i].n /\ (q \o r)[i].n <= hi
  <2>1. CASE i \in 1..Len(q)
    BY <1>3, <1>5, <2>1 DEF Within
  <2>2. CASE i \notin 1..Len(q)
    BY <1>4, <1>5, <2>2 DEF Within
  <2> QED BY <2>1, <2>2
<1>7. ASSUME NEW i \in 1..Len(q \o r), NEW j \in 1..Len(q \o r), i < j
      PROVE  (q \o r)[i].n < (q \o r)[j].n
  <2>1. CASE j \in 1..Len(q)
    <3>1. i \in 1..Len(q)
      BY <1>1, <1>2, <1>7, <2>1
    <3> QED BY <1>5, <1>7, <2>1, <3>1 DEF Within
  <2>2. CASE i \in 1..Len(q) /\ j \notin 1..Len(q)
    <3>1. (q \o r)[i].n <= mid /\ mid < (q \o r)[j].n
      BY <1>5, <2>2 DEF Within
    <3>2. (q \o r)[i].n \in Nat /\ (q \o r)[j].n \in Nat
      BY <1>3, <1>4, <1>5, <2>2
    <3>3. \A x, y, z \in Nat : x <= y /\ y < z => x < z
      OBVIOUS
    <3> QED BY <3>1, <3>2, <3>3, Zenon
  <2>3. CASE i \notin 1..Len(q) /\ j \notin 1..Len(q)
    <3>1. i - Len(q) \in 1..Len(r) /\ j - Len(q) \in 1..Len(r) /\ i - Len(q) < j - Len(q)
      BY <1>1, <1>2, <1>5, <1>7, <2>3
    <3> QED BY <1>5, <2>3, <3>1 DEF Within
  <2> QED BY <2>1, <2>2, <2>3
<1> QED BY <1>6, <1>7 DEF Within

\* The first of a run, and what follows it.
LEMMA WithinTail ==
  ASSUME NEW q \in Seq(Packet), q # <<>>, NEW lo \in Nat, NEW hi \in Nat, Within(q, lo, hi)
  PROVE  /\ Head(q) \in Packet /\ lo < Head(q).n /\ Head(q).n <= hi
         /\ Tail(q) \in Seq(Packet) /\ Within(Tail(q), Head(q).n, hi)
<1>1. /\ Head(q) \in Packet /\ Tail(q) \in Seq(Packet) /\ Len(Tail(q)) = Len(q) - 1
      /\ \A i \in 1..Len(Tail(q)) : Tail(q)[i] = q[i + 1]
  BY HeadTailProperties
<1>2. Len(q) \in Nat \ {0} /\ Head(q) = q[1]
  BY EmptySeq
<1>3. \A i \in 1..Len(Tail(q)) : i + 1 \in 1..Len(q) /\ 1 < i + 1
  BY <1>1, <1>2
<1>4. 1 \in 1..Len(q) /\ lo < q[1].n /\ q[1].n <= hi
  BY <1>2 DEF Within
<1>5. \A i \in 1..Len(Tail(q)) : q[1].n < Tail(q)[i].n /\ Tail(q)[i].n <= hi
  BY <1>1, <1>3, <1>4 DEF Within
<1>6. ASSUME NEW i \in 1..Len(Tail(q)), NEW j \in 1..Len(Tail(q)), i < j
      PROVE  Tail(q)[i].n < Tail(q)[j].n
  <2>1. i + 1 < j + 1
    BY <1>1, <1>2, <1>6
  <2> QED BY <1>1, <1>3, <2>1 DEF Within
<1> QED BY <1>1, <1>2, <1>4, <1>5, <1>6 DEF Within

\* A run that is continued.
LEMMA WithinAppend ==
  ASSUME NEW q \in Seq(Packet), NEW lo \in Nat, NEW hi \in Nat, NEW p \in Packet,
         lo <= hi, hi < p.n, Within(q, lo, hi)
  PROVE  Within(Append(q, p), lo, p.n)
<1>1. /\ Append(q, p) \in Seq(Packet) /\ Len(Append(q, p)) = Len(q) + 1
      /\ \A i \in 1..Len(q) : Append(q, p)[i] = q[i]
      /\ Append(q, p)[Len(q) + 1] = p
  BY AppendProperties
<1>2. Len(q) \in Nat /\ p.n \in Nat /\ \A i \in 1..Len(q) : q[i].n \in Nat
  BY LenProperties, PacketNumbers
<1>3. \A i \in 1..Len(Append(q, p)) : i \in 1..Len(q) \/ i = Len(q) + 1
  BY <1>1, <1>2
<1>4. \A i \in 1..Len(Append(q, p)) : lo < Append(q, p)[i].n /\ Append(q, p)[i].n <= p.n
  BY <1>1, <1>2, <1>3 DEF Within
<1>5. ASSUME NEW i \in 1..Len(Append(q, p)), NEW j \in 1..Len(Append(q, p)), i < j
      PROVE  Append(q, p)[i].n < Append(q, p)[j].n
  <2>1. i \in 1..Len(q)
    BY <1>1, <1>2, <1>5
  <2> QED BY <1>1, <1>2, <1>3, <1>5, <2>1 DEF Within
<1> QED BY <1>4, <1>5 DEF Within

\* Nothing is in order, and a run fits a wider range.
LEMMA WithinWider ==
  /\ \A lo, hi : Within(<<>>, lo, hi)
  /\ \A q \in Seq(Packet) : \A lo, hi, l, h \in Nat : l <= lo /\ hi <= h /\ Within(q, lo, hi) => Within(q, l, h)
<1>1. \A lo, hi : Within(<<>>, lo, hi)
  BY DEF Within
<1>2. ASSUME NEW q \in Seq(Packet), NEW lo \in Nat, NEW hi \in Nat, NEW l \in Nat, NEW h \in Nat,
             l <= lo, hi <= h, Within(q, lo, hi)
      PROVE  Within(q, l, h)
  <2>1. \A i \in 1..Len(q) : q[i].n \in Nat
    BY PacketNumbers
  <2> QED BY <1>2, <2>1 DEF Within
<1> QED BY <1>1, <1>2

\* A step that moves no packet, or only drops one.
LEMMA OrderFrame ==
  ASSUME InOrder, UNCHANGED <<made, tty, lib, net, rows, aligned>>, out'[Client] = out[Client],
         hold' = hold \/ hold' = NoPacket, Awaits' => Awaits /\ pend' = pend
  PROVE  InOrder'
<1>1. PICK b1, b2, b3, b4, b5, b6 \in 0..MaxPackets : Split(b1, b2, b3, b4, b5, b6)
  BY DEF InOrder
<1>2. aligned' => NetWithin(b1, b2)' /\ RowsWithin(b1)'
  BY <1>1 DEF Split, NetWithin, RowsWithin
<1>3. Split(b1, b2, b3, b4, b5, b6)'
  BY <1>1, <1>2 DEF Split
<1> QED BY <1>3 DEF InOrder

\* A packet comes over the line.
LEMMA ArriveOrder == ASSUME TypeOK, InOrder, Arrive PROVE InOrder'
<1> USE DEF line, forwarder, peers, client, server, outside
<1>1. PICK b1, b2, b3, b4, b5, b6 \in 0..MaxPackets : Split(b1, b2, b3, b4, b5, b6)
  BY DEF InOrder
<1>2. PICK ok \in BOOLEAN : tty' = Append(tty, [n |-> made', ok |-> ok])
  BY DEF Arrive
<1>3. made' = made + 1 /\ made' \in 1..MaxPackets /\ made \in Nat /\ b6 \in Nat /\ tty \in Seq(Packet)
  BY PathAssumption DEF Arrive, TypeOK
<1>4. [n |-> made', ok |-> ok] \in Packet
  BY <1>3, Zenon DEF Packet
<1>5. [n |-> made', ok |-> ok].n = made' /\ made < made' /\ b6 <= made'
  BY <1>1, <1>3 DEF Split
<1>6. Within(tty', b6, made')
  <2>1. Within(tty, b6, made) /\ b6 <= made
    BY <1>1 DEF Split
  <2> QED BY <1>2, <1>3, <1>4, <1>5, <2>1, WithinAppend
<1>7. UNCHANGED <<lib, pend, out, hold, aligned, net, rows, clients, sock, at>>
  BY DEF Arrive
<1>8. (Awaits' <=> Awaits) /\ (aligned' => NetWithin(b1, b2)' /\ RowsWithin(b1)')
  <2>1. Awaits' <=> Awaits
    BY <1>7 DEF Awaits
  <2>2. NetWithin(b1, b2) => NetWithin(b1, b2)'
    BY <1>7 DEF NetWithin
  <2>3. RowsWithin(b1) => RowsWithin(b1)'
    BY <1>7 DEF RowsWithin
  <2> QED BY <1>1, <1>7, <2>1, <2>2, <2>3 DEF Split
<1>9. Split(b1, b2, b3, b4, b5, b6)'
  BY <1>1, <1>5, <1>6, <1>7, <1>8 DEF Split
<1> QED BY <1>9 DEF InOrder

\* check_serial joins the device and the library, and hands out the first packet.
LEMMA CheckSerialOrder ==
  ASSUME TypeOK, InOrder, pend = NoPacket, check_serial,
         UNCHANGED <<made, out, hold, net, rows, aligned>>
  PROVE  InOrder'
<1>1. PICK b1, b2, b3, b4, b5, b6 \in 0..MaxPackets : Split(b1, b2, b3, b4, b5, b6)
  BY DEF InOrder
<1>2. /\ made \in 0..MaxPackets /\ made \in Nat /\ b4 \in Nat /\ b5 \in Nat /\ b6 \in Nat
      /\ tty \in Seq(Packet) /\ lib \in Seq(Packet)
  BY PathAssumption DEF TypeOK
<1> DEFINE all == lib \o tty
<1>3. all \in Seq(Packet) /\ Within(all, b5, made)
  <2>1. Within(lib, b5, b6) /\ Within(tty, b6, made) /\ b5 <= b6 /\ b6 <= made
    BY <1>1 DEF Split
  <2> QED BY <1>2, <2>1, WithinConcat, ConcatProperties
<1>4. /\ tty' = <<>> /\ lib' = IF all = <<>> THEN <<>> ELSE Tail(all)
      /\ pend' = IF all = <<>> THEN NoPacket ELSE Head(all)
  BY DEF check_serial
<1> HIDE DEF all
<1>5. aligned' => NetWithin(b1, b2)' /\ RowsWithin(b1)'
  BY <1>1 DEF Split, NetWithin, RowsWithin
<1>6. Within(tty', made, made')
  BY <1>4, WithinWider
<1>7. CASE all = <<>>
  <2>1. lib' = <<>> /\ ~ Awaits'
    BY <1>4, <1>7 DEF Awaits
  <2>2. Within(lib', b5, made)
    BY <2>1, WithinWider
  <2>3. b5 <= made /\ made <= made'
    BY <1>1, <1>2 DEF Split
  <2>4. Split(b1, b2, b3, b4, b5, made)'
    BY <1>1, <1>5, <1>6, <2>1, <2>2, <2>3 DEF Split
  <2> QED BY <1>2, <2>4 DEF InOrder
<1>8. CASE all # <<>>
  <2>1. PICK h \in Nat : h = Head(all).n /\ b5 < h /\ h <= made /\ Within(Tail(all), h, made)
    BY <1>2, <1>3, <1>8, WithinTail, PacketNumbers
  <2>2. lib' = Tail(all) /\ pend' = Head(all)
    BY <1>4, <1>8
  <2>4. pend'.n = h /\ Within(lib', h, made)
    BY <2>1, <2>2
  <2>5. b4 < h /\ b4 <= h /\ h \in 0..MaxPackets /\ h <= h
    BY <1>1, <1>2, <2>1, PathAssumption DEF Split
  <2>6. made <= made'
    BY <1>2
  <2>7. Split(b1, b2, b3, b4, h, made)'
    BY <1>1, <1>5, <1>6, <2>1, <2>4, <2>5, <2>6 DEF Split
  <2> QED BY <1>2, <2>5, <2>7 DEF InOrder
<1> QED BY <1>7, <1>8

\* forward_packet leaves all packets in the library.
LEMMA ForwardOrder ==
  ASSUME TypeOK, InOrder, pend' = NoPacket, forward_packet,
         UNCHANGED <<made, out, hold, net, rows, aligned>>
  PROVE  InOrder'
<1>1. PICK b1, b2, b3, b4, b5, b6 \in 0..MaxPackets : Split(b1, b2, b3, b4, b5, b6)
  BY DEF InOrder
<1>2. /\ made \in 0..MaxPackets /\ made \in Nat /\ b5 \in Nat /\ b6 \in Nat
      /\ tty \in Seq(Packet) /\ lib \in Seq(Packet)
  BY PathAssumption DEF TypeOK
<1>3. Within(lib', b5, made)
  <2>1. Within(lib, b5, b6) /\ Within(tty, b6, made) /\ b5 <= b6 /\ b6 <= made
    BY <1>1 DEF Split
  <2> QED BY <1>2, <2>1, WithinConcat DEF forward_packet
<1>4. Within(tty', made, made')
  BY WithinWider DEF forward_packet
<1>5. aligned' => NetWithin(b1, b2)' /\ RowsWithin(b1)'
  BY <1>1 DEF Split, NetWithin, RowsWithin
<1>6. ~ Awaits' /\ b5 <= made /\ made <= made'
  BY <1>1, <1>2 DEF Split, Awaits
<1>7. Split(b1, b2, b3, b4, b5, made)'
  BY <1>1, <1>3, <1>4, <1>5, <1>6 DEF Split
<1> QED BY <1>2, <1>7 DEF InOrder

\* A packet that is dispatched reaches the sensor client once.
LEMMA DispatchOrder ==
  ASSUME TypeOK, Connections, InOrder, DispatchWrites
  PROVE  InOrder'
<1>1. PICK b1, b2, b3, b4, b5, b6 \in 0..MaxPackets : Split(b1, b2, b3, b4, b5, b6)
  BY DEF InOrder
<1>2. /\ UNCHANGED <<made, tty, lib, hold, net, rows, aligned, clients, sock, pend>>
      /\ at \in 1..Len(clients) /\ at' = at + 1 /\ pend # NoPacket /\ pend \in Packet
  BY DEF DispatchWrites, TypeOK, line, client, server
<1>3. aligned' => NetWithin(b1, b2)' /\ RowsWithin(b1)'
  BY <1>1, <1>2 DEF Split, NetWithin, RowsWithin
<1>4. Len(clients) \in Nat /\ at \in Nat /\ out \in [Peers -> Seq(Packet)] /\ Client \in Peers
  BY <1>2, ListProps DEF TypeOK, Peers
<1>5. Awaits' => Awaits
  BY <1>2, <1>4 DEF Awaits
<1>6. CASE out'[Client] = out[Client]
  BY <1>2, <1>5, <1>6, OrderFrame
<1>7. CASE out'[Client] # out[Client]
  <2>1. sock[clients[at]] = Client /\ out'[Client] = Append(out[Client], pend)
    BY <1>2, <1>4, <1>7, ListProps DEF DispatchWrites
  <2>2. ~ Awaits'
    <3> SUFFICES ASSUME NEW k \in (at + 1)..Len(clients) PROVE sock[clients[k]] # Client
      BY <1>2 DEF Awaits
    <3>1. k \in 1..Len(clients) /\ k # at
      BY <1>4
    <3> QED BY <1>2, <2>1, <3>1, ListProps
  <2>3. Awaits
    <3>1. at \in at..Len(clients)
      BY <1>2, <1>4
    <3> QED BY <1>2, <2>1, <3>1 DEF Awaits
  <2>4. PICK h \in Nat : h = pend.n
    BY <1>2, PacketNumbers
  <2>5. b4 < h /\ h <= b5 /\ b3 <= b4 /\ b3 \in Nat /\ b4 \in Nat /\ b5 \in 0..MaxPackets
    BY <1>1, <2>3, <2>4, PathAssumption DEF Split
  <2>6. Within(out'[Client], b3, h)
    <3>1. out[Client] \in Seq(Packet) /\ Within(out[Client], b3, b4)
      BY <1>1, <1>4 DEF Split
    <3> QED BY <1>2, <2>1, <2>4, <2>5, <3>1, WithinAppend
  <2>7. b3 <= h /\ h \in 0..MaxPackets
    BY <2>5, PathAssumption
  <2>8. Split(b1, b2, b3, h, b5, b6)'
    BY <1>1, <1>2, <1>3, <2>2, <2>5, <2>6, <2>7 DEF Split, Within
  <2> QED BY <2>7, <2>8 DEF InOrder
<1> QED BY <1>6, <1>7

\* The sensor client takes a packet over, or drops it.
LEMMA ClientReadsOrder == ASSUME TypeOK, InOrder, ClientReads PROVE InOrder'
<1> USE DEF line, forwarder, peers, client, server, outside
<1>1. PICK b1, b2, b3, b4, b5, b6 \in 0..MaxPackets : Split(b1, b2, b3, b4, b5, b6)
  BY DEF InOrder
<1>2. /\ UNCHANGED <<made, tty, lib, pend, net, rows, aligned, clients, sock, at>>
      /\ out[Client] # <<>> /\ out' = [out EXCEPT ![Client] = Tail(@)]
      /\ hold' = IF dataCorrupt(Head(out[Client])) THEN NoPacket ELSE Head(out[Client])
  BY DEF ClientReads
<1>3. (Awaits' <=> Awaits) /\ (aligned' => NetWithin(b1, b2)' /\ RowsWithin(b1)')
  <2>1. Awaits' <=> Awaits
    BY <1>2 DEF Awaits
  <2>2. NetWithin(b1, b2) => NetWithin(b1, b2)'
    BY <1>2 DEF NetWithin
  <2>3. RowsWithin(b1) => RowsWithin(b1)'
    BY <1>2 DEF RowsWithin
  <2> QED BY <1>1, <1>2, <2>1, <2>2, <2>3 DEF Split
<1>4. out[Client] \in Seq(Packet) /\ out'[Client] = Tail(out[Client])
  BY <1>2 DEF TypeOK, Peers
<1>5. b3 \in Nat /\ b4 \in Nat /\ b2 \in Nat /\ b2 <= b3 /\ Within(out[Client], b3, b4)
  BY <1>1, PathAssumption DEF Split
<1>6. PICK h \in Nat : h = Head(out[Client]).n /\ b3 < h /\ h <= b4 /\ Within(Tail(out[Client]), h, b4)
  BY <1>2, <1>4, <1>5, WithinTail, PacketNumbers
<1>7. hold' # NoPacket => hold'.n = h /\ hold'.ok
  BY <1>2, <1>6 DEF dataCorrupt
<1>8. b2 < h /\ b2 <= h /\ h <= h /\ h \in 0..MaxPackets
  BY <1>5, <1>6, PathAssumption
<1>9. Split(b1, b2, h, b4, b5, b6)'
  BY <1>1, <1>2, <1>3, <1>4, <1>6, <1>7, <1>8 DEF Split, Within
<1> QED BY <1>8, <1>9 DEF InOrder

\* The sensor client writes both units of the packet it holds.
LEMMA ClientWritesOrder == ASSUME TypeOK, InOrder, ClientWrites PROVE InOrder'
<1> USE DEF line, forwarder, peers, client, server, outside
<1>1. PICK b1, b2, b3, b4, b5, b6 \in 0..MaxPackets : Split(b1, b2, b3, b4, b5, b6)
  BY DEF InOrder
<1>2. /\ UNCHANGED <<made, tty, lib, pend, out, rows, aligned, clients, sock, at>>
      /\ hold' = NoPacket /\ hold # NoPacket /\ hold \in Packet /\ net \in Seq(Unit)
      /\ net' = net \/ net' = net \o Units(hold)
  BY DEF ClientWrites, TypeOK
<1>3. Awaits' <=> Awaits
  BY <1>2 DEF Awaits
<1>4. CASE net' = net
  BY <1>2, <1>3, <1>4, OrderFrame
<1>5. CASE net' = net \o Units(hold)
  <2>1. PICK h \in Nat : h = hold.n
    BY <1>2, PacketNumbers
  <2>2. b2 < h /\ h <= b3 /\ hold.ok /\ b1 <= b2 /\ b1 \in Nat /\ b2 \in Nat /\ h \in 0..MaxPackets
    BY <1>1, <1>2, <2>1, PathAssumption DEF Split
  <2>3. hold.ok = TRUE
    BY <1>2, <2>2, Zenon DEF Packet
  <2>4. /\ Units(hold) \in Seq(Unit) /\ Len(Units(hold)) = 2
        /\ Units(hold)[1] = [n |-> h, ok |-> TRUE, part |-> 1]
        /\ Units(hold)[2] = [n |-> h, ok |-> TRUE, part |-> 2]
    BY <1>2, <2>1, <2>3, UnitsTypes
  <2>5. /\ Len(net') = Len(net) + 2 /\ Len(net) \in Nat
        /\ \A i \in 1..(Len(net) + 2) :
             net'[i] = IF i <= Len(net) THEN net[i] ELSE Units(hold)[i - Len(net)]
    <3>1. Len(net) \in Nat
      BY <1>2, LenProperties
    <3>2. /\ Len(net \o Units(hold)) = Len(net) + Len(Units(hold))
          /\ \A i \in 1..(Len(net) + Len(Units(hold))) :
               (net \o Units(hold))[i] = IF i <= Len(net) THEN net[i] ELSE Units(hold)[i - Len(net)]
      BY <1>2, <2>4, ConcatProperties
    <3> QED BY <1>5, <2>4, <3>1, <3>2, Zenon
  <2>6. ASSUME aligned PROVE NetWithin(b1, h)'
    <3>1. PICK m \in 0..Len(net) :
            /\ Len(net) = 2 * m
            /\ \A i \in 1..m :
                 /\ net[2 * i - 1] = [n |-> net[2 * i].n, ok |-> TRUE, part |-> 1]
                 /\ net[2 * i] = [n |-> net[2 * i].n, ok |-> TRUE, part |-> 2]
                 /\ b1 < net[2 * i].n /\ net[2 * i].n <= b2
                 /\ \A j \in 1..m : i < j => net[2 * i].n < net[2 * j].n
      BY <1>1, <2>6 DEF Split, NetWithin
    <3>2. m \in Nat /\ m + 1 \in 0..Len(net') /\ Len(net') = 2 * (m + 1)
      BY <2>5, <3>1
    <3>3. \A i \in 1..m : net'[2 * i - 1] = net[2 * i - 1] /\ net'[2 * i] = net[2 * i]
      BY <2>5, <3>1
    <3>4. /\ net'[2 * (m + 1) - 1] = [n |-> h, ok |-> TRUE, part |-> 1]
          /\ net'[2 * (m + 1)] = [n |-> h, ok |-> TRUE, part |-> 2]
      <4>1. /\ 2 * (m + 1) - 1 \in 1..(Len(net) + 2) /\ ~ (2 * (m + 1) - 1 <= Len(net))
            /\ (2 * (m + 1) - 1) - Len(net) = 1
        BY <2>5, <3>1
      <4>2. /\ 2 * (m + 1) \in 1..(Len(net) + 2) /\ ~ (2 * (m + 1) <= Len(net))
            /\ 2 * (m + 1) - Len(net) = 2
        BY <2>5, <3>1
      <4> QED BY <2>4, <2>5, <4>1, <4>2
    <3>5. \A i \in 1..m : net'[2 * i].n \in Int /\ b1 < net'[2 * i].n /\ net'[2 * i].n < h
      <4> SUFFICES ASSUME NEW i \in 1..m
                   PROVE  net'[2 * i].n \in Int /\ b1 < net'[2 * i].n /\ net'[2 * i].n < h
        OBVIOUS
      <4>1. 2 * i \in 1..Len(net)
        BY <3>1
      <4>2. net[2 * i] \in Unit
        BY <1>2, <4>1, ElementOfSeq
      <4>3. net[2 * i].n \in Int
        BY <4>2, PathAssumption DEF Unit, Zero
      <4>4. net'[2 * i] = net[2 * i] /\ b1 < net[2 * i].n /\ net[2 * i].n <= b2
        BY <3>1, <3>3
      <4>5. b2 \in Int /\ h \in Int /\ b2 < h
        BY <2>2
      <4> QED BY <4>3, <4>4, <4>5
    <3>6. \A i \in 1..(m + 1) : i \in 1..m \/ i = m + 1
      BY <3>2
    <3>7. net'[2 * (m + 1)].n = h
      BY <3>4
    <3>8. ASSUME NEW i \in 1..(m + 1)
          PROVE  /\ net'[2 * i - 1] = [n |-> net'[2 * i].n, ok |-> TRUE, part |-> 1]
                 /\ net'[2 * i] = [n |-> net'[2 * i].n, ok |-> TRUE, part |-> 2]
                 /\ b1 < net'[2 * i].n /\ net'[2 * i].n <= h
                 /\ \A j \in 1..(m + 1) : i < j => net'[2 * i].n < net'[2 * j].n
      <4>1. CASE i \in 1..m
        <5>1. \A j \in 1..(m + 1) : i < j => net'[2 * i].n < net'[2 * j].n
          BY <3>1, <3>3, <3>5, <3>6, <3>7, <4>1
        <5>2. net'[2 * i].n <= h
          BY <3>5, <4>1
        <5> QED BY <3>1, <3>3, <3>5, <4>1, <5>1, <5>2
      <4>2. CASE i = m + 1
        <5>1. b1 < h /\ h <= h /\ \A j \in 1..(m + 1) : ~ (i < j)
          BY <2>2, <3>2, <4>2
        <5> QED BY <3>4, <3>7, <4>2, <5>1
      <4> QED BY <3>6, <4>1, <4>2
    <3> QED BY <3>2, <3>8 DEF NetWithin
  <2>7. aligned' => NetWithin(b1, h)' /\ RowsWithin(b1)'
    BY <1>1, <1>2, <2>6 DEF Split, RowsWithin
  <2>8. b1 <= h
    BY <2>2
  <2>9. Split(b1, h, b3, b4, b5, b6)'
    BY <1>1, <1>2, <1>3, <2>2, <2>7, <2>8 DEF Split, Within
  <2> QED BY <2>2, <2>9 DEF InOrder
<1> QED BY <1>2, <1>4, <1>5

\* A read of one whole packet takes it off the stream.
LEMMA WholeRead ==
  ASSUME net \in Seq(Unit), NEW lo \in Nat, NEW hi \in Nat, NetWithin(lo, hi), 2 <= Len(net),
         net' = SubSeq(net, 3, Len(net))
  PROVE  \E h \in Nat :
           /\ lo < h /\ h <= hi /\ NetWithin(h, hi)'
           /\ net[1] = [n |-> h, ok |-> TRUE, part |-> 1] /\ net[2] = [n |-> h, ok |-> TRUE, part |-> 2]
<1>1. PICK m \in 0..Len(net) :
        /\ Len(net) = 2 * m
        /\ \A i \in 1..m :
             /\ net[2 * i - 1] = [n |-> net[2 * i].n, ok |-> TRUE, part |-> 1]
             /\ net[2 * i] = [n |-> net[2 * i].n, ok |-> TRUE, part |-> 2]
             /\ lo < net[2 * i].n /\ net[2 * i].n <= hi
             /\ \A j \in 1..m : i < j => net[2 * i].n < net[2 * j].n
  BY DEF NetWithin
<1>2. m \in Nat /\ 1 <= m /\ Len(net) \in Nat
  BY <1>1, LenProperties
<1>3. \A i \in 1..Len(net) : net[i].n \in Nat
  <2> SUFFICES ASSUME NEW i \in 1..Len(net) PROVE net[i].n \in Nat
    OBVIOUS
  <2>1. net[i] \in Unit
    BY ElementOfSeq
  <2> QED BY <2>1, PathAssumption DEF Unit, Zero
<1>4. PICK h \in Nat : h = net[2].n
  BY <1>2, <1>3
<1>5. /\ lo < h /\ h <= hi
      /\ net[1] = [n |-> h, ok |-> TRUE, part |-> 1] /\ net[2] = [n |-> h, ok |-> TRUE, part |-> 2]
      /\ \A j \in 1..m : 1 < j => h < net[2 * j].n
  <2>1. 1 \in 1..m /\ 2 * 1 - 1 = 1 /\ 2 * 1 = 2
    BY <1>2
  <2> QED BY <1>1, <1>4, <2>1
<1>6. Len(net') = Len(net) - 2 /\ \A i \in 1..(Len(net) - 2) : net'[i] = net[i + 2]
  <2>1. \A i \in 3..Len(net) : net[i] \in Unit
    BY <1>2, ElementOfSeq
  <2>2. /\ Len(SubSeq(net, 3, Len(net))) = IF 3 <= Len(net) THEN Len(net) - 3 + 1 ELSE 0
        /\ \A i \in 1..(Len(net) - 3 + 1) : SubSeq(net, 3, Len(net))[i] = net[3 + i - 1]
    BY <1>2, <2>1, SubSeqProperties
  <2>3. PICK l \in Nat : l = Len(net)
    BY <1>2
  <2>4. (IF 3 <= l THEN l - 3 + 1 ELSE 0) = l - 2 /\ l - 3 + 1 = l - 2
    BY <1>1, <1>2, <2>3
  <2>5. \A i \in 1..(l - 2) : 3 + i - 1 = i + 2
    BY <2>3
  <2> QED BY <2>2, <2>3, <2>4, <2>5
<1>7. m - 1 \in 0..Len(net') /\ Len(net') = 2 * (m - 1)
  BY <1>1, <1>2, <1>6
<1>8. ASSUME NEW i \in 1..(m - 1)
      PROVE  /\ i + 1 \in 1..m /\ i \in Nat
             /\ net'[2 * i - 1] = net[2 * (i + 1) - 1] /\ net'[2 * i] = net[2 * (i + 1)]
  <2>1. i + 1 \in 1..m /\ i \in Nat
    BY <1>2
  <2>2. 2 * i - 1 \in 1..(Len(net) - 2) /\ 2 * i \in 1..(Len(net) - 2)
    BY <1>1, <1>2
  <2>3. (2 * i - 1) + 2 = 2 * (i + 1) - 1 /\ 2 * i + 2 = 2 * (i + 1)
    BY <2>1
  <2> QED BY <1>6, <2>1, <2>2, <2>3
<1>9. ASSUME NEW i \in 1..(m - 1)
      PROVE  /\ net'[2 * i - 1] = [n |-> net'[2 * i].n, ok |-> TRUE, part |-> 1]
             /\ net'[2 * i] = [n |-> net'[2 * i].n, ok |-> TRUE, part |-> 2]
             /\ h < net'[2 * i].n /\ net'[2 * i].n <= hi
             /\ \A j \in 1..(m - 1) : i < j => net'[2 * i].n < net'[2 * j].n
  <2>1. 1 < i + 1 /\ i + 1 \in 1..m
    BY <1>8
  <2>2. ASSUME NEW j \in 1..(m - 1), i < j PROVE net'[2 * i].n < net'[2 * j].n
    <3>1. j + 1 \in 1..m /\ i + 1 < j + 1
      BY <1>8, <2>2
    <3> QED BY <1>1, <1>8, <2>1, <3>1
  <2> QED BY <1>1, <1>5, <1>8, <2>1, <2>2
<1>10. NetWithin(h, hi)'
  BY <1>7, <1>9 DEF NetWithin
<1> QED BY <1>5, <1>10

\* A row that follows the others.
LEMMA RowStored ==
  ASSUME rows \in Seq([1..2 -> Unit]), NEW lo \in Nat, NEW h \in Nat, lo < h, RowsWithin(lo),
         NEW u \in [1..2 -> Unit], u = Units([n |-> h, ok |-> TRUE]), rows' \in {rows, Append(rows, u)}
  PROVE  RowsWithin(h)'
<1>1. u[1].n = h /\ u = Units([n |-> u[1].n, ok |-> TRUE])
  <2>1. u[1].n = h
    BY DEF Units
  <2> QED BY <2>1
<1>2. Len(rows) \in Nat /\ \A k \in 1..Len(rows) : rows[k][1].n \in Nat
  <2>1. ASSUME NEW k \in 1..Len(rows) PROVE rows[k][1] \in Unit
    BY ElementOfSeq
  <2> QED BY <2>1, LenProperties, PathAssumption DEF Unit, Zero
<1>3. ASSUME NEW k \in 1..Len(rows) PROVE rows[k][1].n < h /\ rows[k][1].n <= h
  <2>1. PICK x \in Nat : x = rows[k][1].n
    BY <1>2
  <2>2. x <= lo
    BY <2>1 DEF RowsWithin
  <2>3. x < h /\ x <= h
    BY <2>2
  <2> QED BY <2>1, <2>3
<1>4. CASE rows' = rows
  BY <1>3, <1>4 DEF RowsWithin
<1>5. CASE rows' = Append(rows, u)
  <2>1. /\ Len(rows') = Len(rows) + 1 /\ \A i \in 1..Len(rows) : rows'[i] = rows[i]
        /\ rows'[Len(rows) + 1] = u
    BY <1>5, AppendProperties
  <2>2. \A i \in 1..Len(rows') : i \in 1..Len(rows) \/ i = Len(rows) + 1
    BY <1>2, <2>1
  <2>3. ASSUME NEW k \in 1..Len(rows')
        PROVE  /\ rows'[k] = Units([n |-> rows'[k][1].n, ok |-> TRUE])
               /\ rows'[k][1].n <= h
               /\ \A j \in 1..Len(rows') : k < j => rows'[k][1].n < rows'[j][1].n
    <3>1. CASE k \in 1..Len(rows)
      BY <1>1, <1>3, <2>1, <2>2, <3>1 DEF RowsWithin
    <3>2. CASE k = Len(rows) + 1
      <4>1. \A j \in 1..Len(rows') : ~ (k < j)
        BY <1>2, <2>1, <3>2
      <4>2. rows'[k] = u /\ rows'[k][1].n = h
        BY <1>1, <2>1, <3>2
      <4> QED BY <1>1, <4>1, <4>2
    <3> QED BY <2>2, <3>1, <3>2
  <2> QED BY <2>3 DEF RowsWithin
<1> QED BY <1>4, <1>5

\* The server stores what it read; out of step it makes no promise.
LEMMA ServerReadsOrder == ASSUME TypeOK, InOrder, ServerReads PROVE InOrder'
<1> USE DEF line, forwarder, peers, client, server, outside
<1>1. PICK b1, b2, b3, b4, b5, b6 \in 0..MaxPackets : Split(b1, b2, b3, b4, b5, b6)
  BY DEF InOrder
<1>2. PICK k \in 1..Min({MaxRead, Len(net)}) :
        /\ net' = SubSeq(net, k + 1, Len(net))
        /\ buf' = [j \in 1..2 |-> IF j <= k THEN net[j] ELSE buf[j]]
        /\ aligned' = (aligned /\ k = 2)
        /\ insert_mesg_to_db(buf')
  BY DEF ServerReads
<1>3. UNCHANGED <<made, tty, lib, pend, out, hold, clients, sock, at>>
  BY DEF ServerReads
<1>4. Awaits' <=> Awaits
  BY <1>3 DEF Awaits
<1>5. CASE ~ aligned'
  <2>1. Split(b1, b2, b3, b4, b5, b6)'
    BY <1>1, <1>3, <1>4, <1>5 DEF Split
  <2> QED BY <2>1 DEF InOrder
<1>6. CASE aligned'
  <2>1. aligned /\ k = 2
    BY <1>2, <1>6, Zenon
  <2>2. net \in Seq(Unit) /\ rows \in Seq([1..2 -> Unit])
    BY DEF TypeOK
  <2>3. k \in 1..Len(net) /\ Len(net) \in Nat
    BY <2>2, ReadBound, LenProperties
  <2>4. 2 <= Len(net) /\ net' = SubSeq(net, 3, Len(net))
    BY <1>2, <2>1, <2>3
  <2>5. NetWithin(b1, b2) /\ RowsWithin(b1) /\ b1 \in Nat /\ b2 \in Nat
    BY <1>1, <2>1, PathAssumption DEF Split
  <2>6. PICK h \in Nat :
          /\ b1 < h /\ h <= b2 /\ NetWithin(h, b2)'
          /\ net[1] = [n |-> h, ok |-> TRUE, part |-> 1] /\ net[2] = [n |-> h, ok |-> TRUE, part |-> 2]
    BY <2>2, <2>4, <2>5, WholeRead
  <2>7. PICK u : u = buf'
    OBVIOUS
  <2>8. u = Units([n |-> h, ok |-> TRUE])
    <3>1. \A j \in 1..2 : j = 1 \/ j = 2
      OBVIOUS
    <3>2. \A j \in 1..2 : net[j] = [n |-> h, ok |-> TRUE, part |-> j]
      BY <2>6, <3>1
    <3> QED BY <1>2, <2>1, <2>7, <3>2 DEF Units
  <2>9. u \in [1..2 -> Unit]
    <3>1. net[1] \in Unit /\ net[2] \in Unit
      BY <2>2, <2>3, <2>4, ElementOfSeq
    <3>2. \A j \in 1..2 : j = 1 \/ j = 2
      OBVIOUS
    <3>3. \A j \in 1..2 : j <= 2 /\ net[j] \in Unit
      BY <3>1, <3>2
    <3> QED BY <1>2, <2>1, <2>7, <3>3
  <2>10. rows' \in {rows, Append(rows, u)}
    BY <1>2, <2>7 DEF insert_mesg_to_db
  <2>11. RowsWithin(h)'
    BY <2>2, <2>5, <2>6, <2>8, <2>9, <2>10, RowStored
  <2>12. h \in 0..MaxPackets
    BY <2>5, <2>6, PathAssumption
  <2>13. Split(h, b2, b3, b4, b5, b6)'
    BY <1>1, <1>3, <1>4, <2>6, <2>11 DEF Split
  <2> QED BY <2>12, <2>13 DEF InOrder
<1> QED BY <1>5, <1>6

\* Removing a client in a dispatch skips nobody and repeats nobody.
LEMMA RemClientAwaits ==
  ASSUME TypeOK, Connections, at \in 1..Len(clients), rem_client(at), UNCHANGED <<pend, at>>
  PROVE  Awaits' => Awaits
<1> SUFFICES ASSUME Awaits' PROVE Awaits
  OBVIOUS
<1>1. /\ Len(clients') = Len(clients) - 1
      /\ \A j \in 1..Len(clients') : clients'[j] = IF j < at THEN clients[j] ELSE clients[j + 1]
      /\ sock' = [sock EXCEPT ![clients[at]] = NoPeer]
  BY RemClientTypes
<1>2. PICK k \in at..Len(clients') : sock'[clients'[k]] = Client
  BY DEF Awaits
<1>3. k + 1 \in 1..Len(clients) /\ k + 1 \in at..Len(clients) /\ k + 1 # at /\ clients'[k] = clients[k + 1]
  BY <1>1, <1>2, ListProps
<1>4. clients[k + 1] # clients[at] /\ clients[k + 1] \in Fds
  BY <1>3, ListProps
<1>5. sock[clients[k + 1]] = Client
  BY <1>1, <1>2, <1>3, <1>4 DEF TypeOK
<1> QED BY <1>3, <1>5 DEF Awaits

\* Every step keeps the packets in order on their way.
LEMMA OrderStep == ASSUME IInv, [Next]_vars PROVE InOrder'
<1> USE DEF line, forwarder, peers, client, server, outside
<1>1. TypeOK /\ Connections /\ Rounds /\ InOrder
  BY DEF IInv
<1>2. CASE UNCHANGED <<made, tty, lib, net, rows, aligned, out, pend, at, clients, sock>>
           /\ (hold' = hold \/ hold' = NoPacket)
  BY <1>1, <1>2, OrderFrame DEF Awaits
<1>3. CASE Arrive
  BY <1>1, <1>3, ArriveOrder
<1>4. ASSUME NEW p \in Others, OtherReads(p) PROVE InOrder'
  <2>1. out'[Client] = out[Client]
    BY <1>1, <1>4, PathAssumption DEF OtherReads, TypeOK, Peers
  <2> QED BY <1>1, <1>4, <2>1, OrderFrame DEF OtherReads, Awaits
<1>5. CASE SfSelect
  <2>1. pend = NoPacket /\ UNCHANGED <<made, out, hold, net, rows, aligned, clients, sock>>
        /\ (UNCHANGED <<tty, lib, pend, at>> \/ check_serial)
    BY <1>5 DEF SfSelect
  <2> QED BY <1>1, <1>2, <2>1, CheckSerialOrder
<1>6. CASE SfSerial
  <2>1. pend = NoPacket /\ UNCHANGED <<made, out, hold, net, rows, aligned, clients, sock>>
        /\ (UNCHANGED <<tty, lib, pend, at>> \/ check_serial)
    BY <1>6 DEF SfSerial
  <2> QED BY <1>1, <1>2, <2>1, CheckSerialOrder
<1>7. CASE SfAccept \/ SfGreets \/ DispatchEnds \/ open_serial \/ open_server_socket \/ CheckClientsEnds
  <2>1. UNCHANGED <<made, tty, lib, net, rows, aligned, out, hold>> /\ (Awaits' => Awaits /\ pend' = pend)
    BY <1>1, <1>7 DEF SfAccept, SfGreets, Rounds, DispatchEnds, open_serial, open_server_socket, CheckClientsEnds, Awaits
  <2> QED BY <1>1, <2>1, OrderFrame
<1>8. CASE DispatchFails
  <2>1. /\ UNCHANGED <<made, tty, lib, net, rows, aligned, out, hold, pend, at>>
        /\ at \in 1..Len(clients) /\ rem_client(at)
    BY <1>1, <1>8 DEF DispatchFails, TypeOK
  <2>2. Awaits' => Awaits
    BY <1>1, <2>1, RemClientAwaits
  <2> QED BY <1>1, <2>1, <2>2, OrderFrame
<1>9. CASE DispatchWrites
  BY <1>1, <1>9, DispatchOrder
<1>10. CASE CheckClient
  <2>1. pend = NoPacket /\ UNCHANGED <<made, out, hold, net, rows, aligned, pend>>
    BY <1>1, <1>10 DEF CheckClient, Rounds
  <2>2. UNCHANGED <<tty, lib>> \/ forward_packet
    BY <1>10 DEF CheckClient
  <2>3. CASE UNCHANGED <<tty, lib>>
    BY <1>1, <2>1, <2>3, OrderFrame DEF Awaits
  <2> QED BY <1>1, <2>1, <2>2, <2>3, ForwardOrder
<1>11. CASE ClientReads
  BY <1>1, <1>11, ClientReadsOrder
<1>12. CASE ClientWrites
  BY <1>1, <1>12, ClientWritesOrder
<1>13. CASE ServerReads
  BY <1>1, <1>13, ServerReadsOrder
<1>14. CASE ClientLosesSf \/ ClientWriteFails \/ ClientInterrupted
  <2>1. UNCHANGED <<made, tty, lib, net, rows, aligned, out, pend, at, clients, sock>>
        /\ (hold' = hold \/ hold' = NoPacket)
    BY <1>14 DEF ClientLosesSf, ClientWriteFails, ClientInterrupted, Exit, Kill
  <2> QED BY <1>2, <2>1
<1>15. \/ Arrive \/ \E p \in Others : OtherReads(p)
       \/ ClientReads \/ ClientWrites \/ ServerReads
       \/ ClientLosesSf \/ ClientWriteFails \/ ClientInterrupted
       \/ Forwarder
       \/ UNCHANGED <<made, tty, lib, net, rows, aligned, out, pend, at, clients, sock>>
          /\ (hold' = hold \/ hold' = NoPacket)
  BY DEF Next, ForwarderStep, ClientStep, ServerStep, OtherReadsOrLeaves, vars, OtherConnects, OtherGreets,
     OtherSends, OtherLeaves, OpenSfSource, OpenSrvSource, ServerForks, ServerEnds
<1>16. CASE Forwarder
  BY <1>5, <1>6, <1>7, <1>8, <1>9, <1>10, <1>16 DEF Forwarder
<1> QED BY <1>2, <1>3, <1>4, <1>11, <1>12, <1>13, <1>14, <1>15, <1>16

\* A client that ends takes the forwarder with it, and neither comes back.
LEMMA OrphanStep == ASSUME IInv, [Next]_vars PROVE NoOrphan'
<1> USE DEF line, forwarder, peers, client, server, outside
<1>1. NoOrphan
  BY DEF IInv
<1>2. CASE ForwarderStep
  <2>1. cl' = cl
    BY <1>2 DEF ForwarderStep, Forwarder, open_serial, open_server_socket, SfSelect, SfSerial, SfAccept, SfGreets,
       DispatchFails, DispatchWrites, DispatchEnds, CheckClient, CheckClientsEnds
  <2> QED BY <1>1, <1>2, <2>1 DEF ForwarderStep, NoOrphan
<1>3. CASE ClientLosesSf \/ ClientWriteFails \/ ClientInterrupted
  BY <1>3 DEF ClientLosesSf, ClientWriteFails, ClientInterrupted, Kill, NoOrphan
<1>4. CASE sf' = sf /\ cl' \in {cl, "opening", "stuck", "run"}
  BY <1>1, <1>4 DEF NoOrphan
<1>5. \/ ForwarderStep \/ ClientLosesSf \/ ClientWriteFails \/ ClientInterrupted
      \/ sf' = sf /\ cl' \in {cl, "opening", "stuck", "run"}
  BY DEF Next, ClientStep, ServerStep, OtherReadsOrLeaves, vars, Arrive, OtherConnects, OtherGreets, OtherSends, OtherReads,
     OtherLeaves, OpenSfSource, OpenSrvSource, ClientReads, ClientWrites, ServerForks, ServerReads, ServerEnds
<1> QED BY <1>2, <1>3, <1>4, <1>5

-----------------------------------------------------------------------------
(* The theorems *)

\* The inductive invariant: it holds at first and every step keeps it.
THEOREM Invariance == Spec => []IInv
<1>1. Init => IInv
  BY InitInv
<1>2. IInv /\ [Next]_vars => IInv'
  BY TypeStep, ConnectionsStep, RoundsStep, OrderStep, OrphanStep DEF IInv
<1> QED BY <1>1, <1>2, PTL DEF Spec

\* However the sensor client ends (Exit and Kill in tgx_sensor_client.c), no forwarder is left behind.
THEOREM NoOrphanAlways == Spec => []NoOrphan
<1>1. IInv => NoOrphan
  BY DEF IInv
<1> QED BY <1>1, Invariance, PTL

\* What insert_mesg_to_db stored while every read was one packet: whole packets with right CRCs, in
\* the order of the line, each at most once, whoever connects to the forwarder and leaves it.
THEOREM StoredRightAlways == Spec => []StoredRight
<1>1. IInv => StoredRight
  <2> SUFFICES ASSUME IInv, aligned
               PROVE  /\ \A k \in 1..Len(rows) :
                           /\ rows[k][1].ok
                           /\ rows[k] = Units([n |-> rows[k][1].n, ok |-> TRUE])
                      /\ \A k \in 1..Len(rows) - 1 : rows[k][1].n < rows[k + 1][1].n
    BY DEF StoredRight
  <2>1. \E b \in 0..MaxPackets : RowsWithin(b)
    BY DEF IInv, InOrder, Split
  <2>2. rows \in Seq([1..2 -> Unit]) /\ Len(rows) \in Nat
    BY LenProperties DEF IInv, TypeOK
  <2>3. ASSUME NEW k \in 1..Len(rows) PROVE rows[k][1].ok /\ rows[k] = Units([n |-> rows[k][1].n, ok |-> TRUE])
    <3>1. rows[k] = Units([n |-> rows[k][1].n, ok |-> TRUE])
      BY <2>1 DEF RowsWithin
    <3>2. Units([n |-> rows[k][1].n, ok |-> TRUE])[1].ok = TRUE
      BY DEF Units
    <3> QED BY <3>1, <3>2, Zenon
  <2>4. ASSUME NEW k \in 1..Len(rows) - 1 PROVE rows[k][1].n < rows[k + 1][1].n
    <3>1. k \in 1..Len(rows) /\ k + 1 \in 1..Len(rows) /\ k < k + 1
      BY <2>2
    <3> QED BY <2>1, <3>1 DEF RowsWithin
  <2> QED BY <2>3, <2>4
<1> QED BY <1>1, Invariance, PTL

\* The list of clients and the descriptors agree, and check_clients reads from a silent client only if
\* its descriptor was closed and given out again in this round.
THEOREM SilentReadOnlyByReuseAlways == Spec => []SilentReadOnlyByReuse
<1>1. IInv => SilentReadOnlyByReuse
  <2> SUFFICES ASSUME IInv PROVE SilentReadOnlyByReuse
    OBVIOUS
  <2>1. IsInjective(clients) /\ Range(clients) = {fd \in Fds : sock[fd] # NoPeer}
    BY DEF IInv, Connections
  <2>2. ASSUME sf = "clients", at <= Len(clients), ~ Skips, inbox[sock[clients[at]]] = 0
        PROVE  sock[clients[at]] \in gone \/ clients[at] \in fresh \cap rfds
    <3>1. at \in 1..Len(clients) /\ at <= at
      BY <2>2 DEF IInv, TypeOK
    <3>2. Report(at)
      BY <2>2, <3>1 DEF IInv, Rounds
    <3> QED BY <2>2, <3>2 DEF Report, Skips
  <2> QED BY <2>1, <2>2 DEF SilentReadOnlyByReuse
<1> QED BY <1>1, Invariance, PTL
=============================================================================
