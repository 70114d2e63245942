--------------------------- MODULE MCSensorServer --------------------------
(* A small instance of SensorServer for TLC. *)
EXTENDS SensorServer, TLC

CONSTANTS s1, s2, s3, net1, net2

\* Two clients reach the server under one address, the third under another.
MCNetOf == (s1 :> net1) @@ (s2 :> net1) @@ (s3 :> net2)

Stray == 9   \* a number no node has

M(n, parent) == <<n, parent, TRUE>>

Plan(a, b, c, asked, udp, last, connections) ==
  [mesgs |-> (s1 :> a) @@ (s2 :> b) @@ (s3 :> c), pages |-> asked, commands |-> udp,
   last |-> last, connects |-> connections]

MCPlans ==
  {\* first messages of two sessions that share a network name
   Plan(<<M(1, 0)>>, <<M(1, 0)>>, <<>>, <<>>, <<>>, 0, 2),
   Plan(<<M(0, 0)>>, <<M(0, 0)>>, <<>>, <<>>, <<>>, 0, 2),
   \* a base station before its radio is up, and then now and again
   Plan(<<M(0, Stray), M(0, 0), M(0, 0), M(0, 0)>>, <<>>, <<>>, <<"nodes">>, <<>>, 4, 1),
   \* records that come in while a page asks for the last ones, and one that is refused
   Plan(<<M(1, 0), M(1, 0), M(1, 0)>>, <<>>, <<>>, <<"series">>, <<>>, 1, 1),
   Plan(<<M(1, 0), <<1, 0, FALSE>>, M(1, 0)>>, <<>>, <<>>, <<"series">>, <<>>, 0, 1),
   \* two networks
   Plan(<<M(0, 0), M(1, 0)>>, <<>>, <<M(0, 0)>>, <<"nodes">>, <<>>, 0, 2),
   \* a network with one node more than the page takes
   Plan(<<M(0, 0), M(1, 0), M(2, 0), M(3, 0)>>, <<>>, <<>>, <<"nodes">>, <<>>, 0, 1),
   \* clients that come and go until the limits are reached
   Plan(<<>>, <<>>, <<>>, <<>>, <<"fits", "fits">>, 0, 4),
   Plan(<<>>, <<>>, <<>>, <<>>, <<"fits", "long">>, 0, 2)}
=============================================================================
