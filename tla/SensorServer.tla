---------------------------- MODULE SensorServer ---------------------------
(***************************************************************************)
(* src/src/sensor/tgx_sensor_server.c: the process that accepts clients,   *)
(* and the process it forks for each of them, which stores what the client *)
(* sends (SensorStore).                                                    *)
(*                                                                         *)
(* For every client the main process opens a pipe that nobody uses or      *)
(* closes, and a process it never waits for (sig_handler is not            *)
(* installed); pid_vector only grows.  It cuts UDP commands into words,    *)
(* but then parses the argc and argv of main: no command is carried out,   *)
(* and what is left of each are 128 buffers that nothing frees.            *)
(***************************************************************************)
EXTENDS SensorStore

CONSTANTS FdLimit,    \* descriptors a process may have
          ProcLimit,  \* processes the user may have
          HeapLimit   \* UDP commands whose buffers the memory holds

ASSUME LimitAssumption == FdLimit \in Nat /\ ProcLimit \in Nat /\ HeapLimit \in Nat

VARIABLES server,   \* the main process: "up" or "dead"
          forked,   \* processes in pid_vector
          client,   \* per client: "off", "waiting", "served" or "left"
          connects, \* connections made so far
          commands  \* UDP commands received so far

main == <<server, forked, client, connects, commands>>
vars == <<store, main>>

TypeOK ==
  /\ StoreTypeOK
  /\ server \in {"up", "dead"} /\ forked \in 0..ProcLimit
  /\ client \in [Session -> {"off", "waiting", "served", "left"}]
  /\ connects \in 0..plan.connects /\ commands \in 0..Len(plan.commands)

Init ==
  /\ StoreInit
  /\ server = "up" /\ forked = 0
  /\ client = [s \in Session |-> "off"] /\ connects = 0 /\ commands = 0

----------------------------------------------------------------------------
(* The clients, and the listening socket, which every process inherits *)

Listening == server = "up" \/ \E s \in Session : ~At(s, "off")

ClientConnects(s) ==
  /\ client[s] = "off" /\ At(s, "off") /\ Listening
  /\ connects < plan.connects
  /\ connects' = connects + 1
  /\ client' = [client EXCEPT ![s] = "waiting"]
  /\ UNCHANGED <<store, server, forked, commands>>

ClientLeaves(s) ==
  /\ client[s] = "served"
  /\ client' = [client EXCEPT ![s] = "left"]
  /\ UNCHANGED <<store, server, forked, connects, commands>>

\* The last process that has the listening socket is gone.
Reset(s) ==
  /\ client[s] = "waiting" /\ ~Listening
  /\ client' = [client EXCEPT ![s] = "off"]
  /\ UNCHANGED <<store, server, forked, connects, commands>>

----------------------------------------------------------------------------
(* The main process *)

BaseFds == 5   \* standard input, output and error, and the two sockets

\* Mutant: the main process keeps the socket of the client.
Mutant_Held_sockets == BaseFds + 3 * forked

\* Descriptors the main process has between two clients: two per pipe.
Held == BaseFds + 2 * forked

HasFds  == Held + 3 <= FdLimit
CanFork == forked < ProcLimit

\* accept, pipe, fork, pid_vector_add, close(in_fd).
Accept(s) ==
  /\ server = "up" /\ client[s] = "waiting"
  /\ HasFds /\ CanFork
  /\ forked' = forked + 1
  /\ client' = [client EXCEPT ![s] = "served"]
  /\ ses' = [ses EXCEPT ![s] = [Off EXCEPT !.pc = "open", !.n = ses[s].n]]
  /\ UNCHANGED <<plan, now, tables, pages, reports, spoilt, server, connects, commands>>

\* accept, pipe or fork fails, and log_err ends the process.  A client that
\* was accepted loses its connection, the others stay in the queue.
AcceptFails(s) ==
  /\ server = "up" /\ client[s] = "waiting"
  /\ ~HasFds \/ ~CanFork
  /\ server' = "dead"
  /\ client' = IF Held + 1 > FdLimit THEN client ELSE [client EXCEPT ![s] = "off"]
  /\ UNCHANGED <<store, forked, connects, commands>>

\* str_to_argc_argv: a word of more than 128 bytes, or the 129th, is written
\* behind its buffer, and without memory a buffer is NULL.
Harms(c) == plan.commands[c] = "long" \/ c > HeapLimit

\* A command that does harm may end the process.
Command ==
  /\ server = "up" /\ commands < Len(plan.commands)
  /\ commands' = commands + 1
  /\ server' \in IF Harms(commands') THEN {"up", "dead"} ELSE {"up"}
  /\ UNCHANGED <<store, forked, client, connects>>

----------------------------------------------------------------------------
(* The process of a client *)

\* get_db_handler succeeds, or the process ends.
OpenDb(s) ==
  /\ At(s, "open")
  /\ \/ ses' = [ses EXCEPT ![s].pc = "read", ![s].link = TRUE] /\ UNCHANGED client
     \/ ses' = [ses EXCEPT ![s].pc = "off"] /\ client' = [client EXCEPT ![s] = "off"]
  /\ UNCHANGED <<plan, now, tables, pages, reports, spoilt, server, forked, connects, commands>>

\* read returns 0 once the client has left and all it sent has been read.
ProcessEnds(s) ==
  /\ At(s, "read") /\ client[s] = "left"
  /\ ses' = [ses EXCEPT ![s].pc = "off", ![s].link = FALSE]
  /\ client' = [client EXCEPT ![s] = "off"]
  /\ UNCHANGED <<plan, now, tables, pages, reports, spoilt, server, forked, connects, commands>>

Process(s) == \/ OpenDb(s) \/ ProcessEnds(s)
              \/ (ReadMesg(s) \/ Statement(s)) /\ UNCHANGED main

----------------------------------------------------------------------------
Next ==
  \/ \E s \in Session :
       \/ ClientConnects(s) \/ ClientLeaves(s) \/ Reset(s)
       \/ Accept(s) \/ AcceptFails(s) \/ Process(s)
       \/ LoseLink(s) /\ UNCHANGED main
  \/ Command
  \/ (Tick \/ Reader) /\ UNCHANGED main

Spec == Init /\ [][Next]_vars

\* accept takes clients in turn, and the kernel resets what nobody can accept.
FairSpec ==
  Spec /\ \A s \in Session : /\ WF_vars(Accept(s)) /\ WF_vars(AcceptFails(s))
                             /\ WF_vars(Reset(s)) /\ WF_vars(Process(s))

----------------------------------------------------------------------------
(* Properties *)

Exhausted == BaseFds + 2 * forked + 3 > FdLimit \/ forked >= ProcLimit

Harmed == \E c \in 1..commands : Harms(c)

\* A client that has connected is given a process, as long as the pipes and
\* unwaited processes of earlier clients have not used up the limits, and no
\* UDP command has done harm.  After that the main process may be dead, and a
\* client may wait for ever while other clients' processes keep the listening
\* socket open.
ClientIsServed ==
  \A s \in Session : client[s] = "waiting" ~> (client[s] # "waiting" \/ Exhausted \/ Harmed)

\* A client waits for a process while it has none; this completes StoreInv.
IInv ==
  /\ TypeOK /\ StoreInv
  /\ \A s \in Session : client[s] = "waiting" => At(s, "off")
=============================================================================
