---------------------------- MODULE HttpExchange ---------------------------
(***************************************************************************)
(* The bytes of one connection of src/src/core/tgx_connection.c: how       *)
(* tgx_connection_handler_read fills httpReqBuf and decides that a request *)
(* is complete, and how the write handlers send header and content over a  *)
(* socket whose buffer fills up.  Every read, write and sendfile is a step,*)
(* between which the peer sends and takes bytes.  Of the tasks in between  *)
(* (Reactor) it has what they find out about the request: the callbacks of *)
(* src/src/http/tgx_http_parser.c and the tasks that prepare the answer    *)
(* look at the file system four times, and once more in every write event, *)
(* while somebody may edit or remove the file.                             *)
(***************************************************************************)
EXTENDS Integers, Sequences, FiniteSetsExt

CONSTANTS BufSize,  \* MAX_BUFFER_SIZE, the size of httpReqBuf
          Cap,      \* size of the socket's send buffer
          ErrPage,  \* size of the page err_page.e_404, -1: there is none
          DirSize,  \* what stat says is the size of a directory
          Requests  \* the requests a peer may make, see RequestAssumption

\* method, length of the header, value of Content-Length (-1: there is none),
\* bytes the peer sends after the header, length of the answer's header and of
\* the file or the module's answer; what the path leads to, and whether an
\* If-Modified-Since is as new as the file.
ASSUME SizeAssumption ==
  BufSize \in Nat \ {0} /\ Cap \in Nat \ {0} /\ ErrPage \in Nat \cup {-1} /\ DirSize \in Nat
ASSUME RequestAssumption ==
  Requests \subseteq [method : {"GET", "POST", "other"}, header : Nat, length : Nat \cup {-1},
                      body : Nat, resp_header : Nat \ {0}, resp_body : Nat,
                      target : {"file", "module", "dir", "missing", "script"},
                      since : BOOLEAN]

VARIABLES
  req,      \* the request of the peer
  sent,     \* bytes the peer has sent
  avail,    \* bytes in the socket's receive buffer
  gone,     \* the peer has closed the connection
  rw_pos,   \* tconn->rw_pos
  handler,  \* the handler the table holds for the descriptor
  at,       \* between two events, in the loop of a handler, in a task, or closed
  room,     \* free bytes of the socket's send buffer
  wire,     \* the bytes sent, each a part of the answer and an offset
  stored,   \* offsets the terminating zero was stored at
  size,     \* size of the file or module asked for, -1: there is none
  edited,   \* somebody has changed or removed it
  status,   \* http_status
  page,     \* what path names after the tasks: the target or the error page
  declared, \* the Content-Length of the answer
  contentLength \* headerLength or contentLength of the running write handler

io    == <<rw_pos, handler, at, room, wire, stored>>
peer  == <<sent, avail, gone>>
found == <<status, page, declared>>
file  == <<size, edited>>
vars  == <<req, peer, io, file, found, contentLength>>

Writers == {"write_header", "write_file", "write_buffer"}
Total(r) == r.header + r.body

TypeOK ==
  /\ req \in Requests
  /\ sent \in Nat /\ avail \in Nat /\ gone \in BOOLEAN
  /\ rw_pos \in Int
  /\ handler \in {"read", "no_operation"} \cup Writers
  /\ at \in {"poll", "loop", "url", "headers", "prepare", "closed"}
  /\ room \in 0..Cap
  /\ wire \in Seq({"header", "body"} \X Int)
  /\ stored \subseteq Int
  /\ size \in Int /\ edited \in BOOLEAN
  /\ status \in {200, 304, 400, 404} /\ page \in {"target", "error"}
  /\ declared \in Nat /\ contentLength \in Nat

Init ==
  /\ req \in Requests
  /\ sent = 0 /\ avail = 0 /\ gone = FALSE
  /\ rw_pos = 0 /\ handler = "read" /\ at = "poll"
  /\ room = Cap /\ wire = <<>> /\ stored = {}
  /\ size = (IF req.target \in {"file", "module"} THEN req.resp_body ELSE -1)
  /\ edited = FALSE
  /\ status = 200 /\ page = "target" /\ declared = 0 /\ contentLength = 0

Close == at' = "closed"

----------------------------------------------------------------------------
(* The peer and the kernel (external) *)

PeerSend ==
  /\ ~gone /\ at # "closed"
  /\ \E n \in 1..(Total(req) - sent) : sent' = sent + n /\ avail' = avail + n
  /\ UNCHANGED <<req, gone, io, file, found, contentLength>>

PeerClose ==
  /\ ~gone /\ at # "closed"
  /\ gone' = TRUE
  /\ UNCHANGED <<req, sent, avail, io, file, found, contentLength>>

PeerTake ==
  /\ at # "closed"
  /\ \E n \in 1..(Cap - room) : room' = room + n
  /\ UNCHANGED <<req, peer, rw_pos, handler, at, wire, stored, file, found, contentLength>>

\* Somebody removes the file or writes it anew, at most once.
EditFile ==
  /\ at # "closed" /\ req.target = "file" /\ ~edited
  /\ edited' = TRUE
  /\ size' \in (-1..(size + 1)) \ {size}
  /\ UNCHANGED <<req, peer, io, found, contentLength>>

----------------------------------------------------------------------------
(* tgx_connection_handler_read *)

ReadEvent ==
  /\ handler = "read" /\ at = "poll"
  /\ avail > 0 \/ gone
  /\ at' = "loop"
  /\ UNCHANGED <<req, peer, rw_pos, handler, room, wire, stored, file, found, contentLength>>

\* Mutant: a full buffer is taken for an empty socket.
Mutant_Space_one_more == BufSize + 1 - rw_pos

Reading == handler = "read" /\ at = "loop"
Space   == BufSize - rw_pos

ReadSome ==
  /\ Reading
  /\ LET nRead == Min({avail, Space}) IN
       /\ nRead > 0
       /\ rw_pos' = rw_pos + nRead
       /\ avail' = avail - nRead
  /\ UNCHANGED <<req, sent, gone, handler, at, room, wire, stored, file, found, contentLength>>

\* read returns 0 at the end of the stream, and when no space was left.
ReadZero ==
  /\ Reading
  /\ Space = 0 \/ (avail = 0 /\ gone)
  /\ Close
  /\ UNCHANGED <<req, peer, rw_pos, handler, room, wire, stored, file, found, contentLength>>

\* The request is taken on once the header is there and, for a POST, unless
\* "rw_pos > atoi(num) + header_len".
HeaderRead    == rw_pos >= req.header
WaitsForBody  == rw_pos > req.length + req.header
Refused       == req.method = "other" \/ (req.method = "POST" /\ req.length = -1)
\* Mutant: a post is taken on only when nothing of it is left to read.
Mutant_TakenOn_strict == req.method = "GET" \/ (req.method = "POST" /\ WaitsForBody)

TakenOn       == req.method = "GET" \/ (req.method = "POST" /\ ~WaitsForBody)

\* EAGAIN: everything that came was read; zero-terminate it and look at it.
\* The task is posted and _task_start_travelling parks the descriptor.
ReadBlocked ==
  /\ Reading
  /\ avail = 0 /\ ~gone /\ Space > 0
  /\ stored' = stored \cup {rw_pos}
  /\ \/ HeaderRead /\ Refused /\ Close /\ UNCHANGED handler
     \/ HeaderRead /\ ~Refused /\ TakenOn /\ at' = "url" /\ handler' = "no_operation"
     \/ (HeaderRead => ~Refused /\ ~TakenOn) /\ at' = "poll" /\ UNCHANGED handler
  /\ UNCHANGED <<req, peer, rw_pos, room, wire, file, found, contentLength>>

----------------------------------------------------------------------------
(* The tasks *)

NoFile == size = -1 /\ req.target # "dir"   \* stat on the path fails

\* A task fails: the request cannot be parsed, the module returns -1, a
\* buffer cannot be had.
TaskFails ==
  /\ at \in {"url", "headers", "prepare"}
  /\ Close
  /\ UNCHANGED <<req, peer, rw_pos, handler, room, wire, stored, file, found, contentLength>>

\* tgx_http_parser_on_url_cb: a directory stands for its index page, which is
\* a file; without one it is not found.  The path of a script is not kept.
OnUrl ==
  /\ at = "url"
  /\ status' = CASE req.target = "script" -> 400
                 [] req.target = "dir" \/ (NoFile /\ req.target # "script") -> 404
                 [] OTHER -> 200
  /\ at' = "headers"
  /\ UNCHANGED <<req, peer, rw_pos, handler, room, wire, stored, file, page, declared, contentLength>>

\* Not found wins over what on_url found, and 304 over that.
StatusByHeaders ==
  CASE NoFile -> 404
    [] ~NoFile /\ req.since /\ ~edited -> 304
    [] OTHER -> status

\* tgx_http_parser_on_header_complete_cb
OnHeaderComplete ==
  /\ at = "headers"
  /\ status' = StatusByHeaders
  /\ at' = "prepare"
  /\ UNCHANGED <<req, peer, rw_pos, handler, room, wire, stored, file, page, declared, contentLength>>

\* What stat says of the page: -1 if it is not there.
SizeOf(pg) == CASE pg = "error" -> ErrPage
                [] pg = "target" /\ req.target = "dir" -> DirSize
                [] OTHER -> size

\* _task_end_travelling: handler and rw_pos are set, the descriptor is watched.
EndTravelling == rw_pos' = 0 /\ handler' = "write_header" /\ at' = "poll"
GiveUp        == Close /\ UNCHANGED <<rw_pos, handler, declared>>

\* Mutant: the error page stands for every status but 200.
Mutant_PageFor_not_200(st) == IF st # 200 THEN "error" ELSE "target"

PageFor(st) == IF st = 404 THEN "error" ELSE "target"

\* _task_get_prepare_write_do
PrepareGet ==
  /\ at = "prepare" /\ req.method = "GET"
  /\ page' = PageFor(status)
  /\ IF SizeOf(page') = -1 THEN GiveUp
                           ELSE declared' = SizeOf(page') /\ EndTravelling
  /\ UNCHANGED <<req, peer, room, wire, stored, file, status, contentLength>>

\* _task_post_prepare_module_on_post loads the module, the module fills
\* httpRespBody, and _task_post_prepare_write_do refuses any status but 200.
PreparePost ==
  /\ at = "prepare" /\ req.method = "POST"
  /\ IF req.target # "module" \/ status # 200 THEN GiveUp
     ELSE declared' = req.resp_body /\ EndTravelling
  /\ UNCHANGED <<req, peer, room, wire, stored, file, status, page, contentLength>>

----------------------------------------------------------------------------
(* tgx_connection_handler_write_header, _get_method_write_file and         *)
(* _post_method_write_buffer                                               *)

Part(h) == IF h = "write_header" THEN "header" ELSE "body"
Bytes(part, from, n) == [i \in 1..n |-> <<part, from + i - 1>>]

\* The length a handler works with: the string's, or what stat says now.
Length(h) == CASE h = "write_header" -> req.resp_header
               [] h = "write_buffer" -> req.resp_body
               [] h = "write_file"   -> SizeOf(page)

\* write_file closes unless path is a regular file that can be opened.
Unservable ==
  handler = "write_file" /\ (SizeOf(page) = -1 \/ (page = "target" /\ req.target = "dir"))

\* stat and open are one look: a file removed between them ends the connection
\* as one removed before does, and one rewritten there is as one rewritten after.
WriteEvent ==
  /\ handler \in Writers /\ at = "poll"
  /\ room > 0 \/ gone
  /\ IF Unservable THEN Close /\ UNCHANGED contentLength
                   ELSE at' = "loop" /\ contentLength' = Length(handler)
  /\ UNCHANGED <<req, peer, rw_pos, handler, room, wire, stored, file, found>>

Writing == handler \in Writers /\ at = "loop"
Rest    == contentLength - rw_pos

\* Mutants: the connection is closed after the header; it stays open after the
\* content.
Mutant_PartDone_closes == Close /\ rw_pos' = contentLength /\ UNCHANGED handler
Mutant_PartDone_stays ==
  IF handler = "write_header"
    THEN /\ rw_pos' = 0
         /\ handler' = IF req.method = "GET" THEN "write_file" ELSE "write_buffer"
         /\ at' = "poll"
    ELSE rw_pos' = 0 /\ at' = "poll" /\ UNCHANGED handler

\* Everything of this part is written: the content follows the header, and
\* after the content the connection is closed.
PartDone ==
  IF handler = "write_header"
    THEN /\ rw_pos' = 0
         /\ handler' = IF req.method = "GET" THEN "write_file" ELSE "write_buffer"
         /\ at' = "poll"
    ELSE Close /\ rw_pos' = contentLength /\ UNCHANGED handler

\* What is left of the file that was opened: one that was removed since is
\* still all there, one that was cut short ends before contentLength.
Left == IF handler = "write_file" /\ page = "target" /\ size # -1 THEN size - rw_pos ELSE Rest

\* What write or sendfile accepts.
Accepted == Max({0, Min({room, Rest, Left})})

WriteSome ==
  /\ Writing /\ ~gone
  /\ Rest = 0 \/ (Rest > 0 /\ room > 0 /\ Left > 0)
  /\ LET nWrite == Accepted IN
       /\ wire' = wire \o Bytes(Part(handler), rw_pos, nWrite)
       /\ room' = room - nWrite
       /\ IF nWrite = Rest THEN PartDone
                           ELSE rw_pos' = rw_pos + nWrite /\ UNCHANGED <<handler, at>>
  /\ UNCHANGED <<req, peer, stored, file, found, contentLength>>

\* sendfile returns 0 at the end of a file that was cut short after stat: the
\* handler tries again, and again, and nothing else in the process runs.
Starved == Writing /\ Rest > 0 /\ Left <= 0
WriteStarves == Starved /\ UNCHANGED vars

\* Mutant: the -1 of the failed call is added in every handler.
Mutant_PosAfterEagain_always == rw_pos - 1

\* rw_pos after EAGAIN: write's result -1 was added to it; sendfile leaves
\* its offset alone.
PosAfterEagain == IF handler = "write_file" THEN rw_pos ELSE rw_pos - 1

WriteBlocked ==
  /\ Writing /\ ~gone
  /\ Rest > 0 /\ room = 0 /\ Left > 0
  /\ rw_pos' = PosAfterEagain
  /\ at' = "poll"
  /\ UNCHANGED <<req, peer, handler, room, wire, stored, file, found, contentLength>>

\* The peer is gone, or the file is now shorter than what was sent of it and
\* sendfile is given a negative count.
WriteFails ==
  /\ Writing
  /\ (gone /\ ~Starved) \/ Rest < 0
  /\ Close
  /\ UNCHANGED <<req, peer, rw_pos, handler, room, wire, stored, file, found, contentLength>>

Done == at = "closed" /\ UNCHANGED vars

----------------------------------------------------------------------------
Server == \/ ReadEvent \/ ReadSome \/ ReadZero \/ ReadBlocked
          \/ TaskFails \/ OnUrl \/ OnHeaderComplete \/ PrepareGet \/ PreparePost
          \/ WriteEvent \/ WriteSome \/ WriteBlocked \/ WriteFails
Peer   == PeerSend \/ PeerClose \/ PeerTake

Next == Server \/ WriteStarves \/ Peer \/ EditFile \/ Done
Spec == Init /\ [][Next]_vars

\* The loop runs, epoll reports what stays ready, and a peer that made a
\* request sends all of it and takes the answer.
FairSpec == Spec /\ WF_vars(Server) /\ WF_vars(PeerSend) /\ WF_vars(PeerTake)

----------------------------------------------------------------------------
(* Properties *)

\* The answer the header announces.
Answer == Bytes("header", 0, req.resp_header) \o Bytes("body", 0, declared)
\* A directory with an If-Modified-Since is answered 304, without content.
HasContent == ~(page = "target" /\ req.target = "dir")

\* However often the socket's buffer fills up ("the buffer is full, the event
\* will come again, return for now", lines 334, 402 and 446), and whatever is
\* done to the file meanwhile, the peer gets the header and then the content
\* from its first byte on, none twice and none left out.
AnswerByte(i) == IF i <= req.resp_header THEN <<"header", i - 1>>
                 ELSE <<"body", i - req.resp_header - 1>>
AnswerInOrder == wire = [i \in 1..Len(wire) |-> AnswerByte(i)]

\* A connection that is closed after it was answered has sent as much as its
\* Content-Length says, unless the peer went away or the file was edited
\* between the header and the content.
AnswerIsWhole ==
  (at = "closed" /\ handler \in Writers /\ ~gone /\ ~edited /\ HasContent) => wire = Answer

\* "path is changed according to http_status" (lines 660 to 663): the error
\* page goes out with 404 and nothing else does, a 200 is for what was asked,
\* a script, whose path is never set, ends as not found, and a module answers
\* only a POST, and only under 200.
PageMatchesStatus ==
  handler \in Writers =>
    /\ status = 404 <=> page = "error"
    /\ status = 200 => req.target \in {"file", "module"}
    /\ req.target \in {"missing", "script"} => status = 404
    /\ req.method = "POST" => req.target = "module" /\ status = 200

\* "data[rw_pos] = 0" (line 225) stays inside httpReqBuf, for a request of any
\* length: a request that fills the buffer is given up before it.
ZeroInBuffer == \A i \in stored : i \in 0..(BufSize - 1)

\* What makes ZeroInBuffer and PageMatchesStatus inductive.  The handler tells
\* how far the exchange is,
Phases ==
  /\ at \in {"url", "headers", "prepare"} => handler = "no_operation"
  /\ handler = "no_operation" => at \notin {"poll", "loop"}
  /\ handler = "read" => rw_pos \in 0..BufSize
  /\ handler # "read" => req.method \in {"GET", "POST"}
  /\ handler = "write_file" => req.method = "GET"
  /\ handler = "write_buffer" => req.method = "POST"
\* and what a look at the file system found is still true of all but a file.
LooksAgree ==
  /\ size >= -1
  /\ req.target # "file" =>
       ~edited /\ size = IF req.target = "module" THEN req.resp_body ELSE -1
  /\ at = "headers" /\ req.target = "dir" => status = 404
  /\ at = "prepare" \/ handler \in Writers =>
       /\ req.target \in {"missing", "script"} => status = 404
       /\ req.target = "dir" => status \in {304, 404}
  /\ handler \notin Writers /\ at # "closed" => page = "target"
  /\ handler \in Writers =>
       page = PageFor(status) /\ (req.method = "POST" => req.target = "module" /\ status = 200)
IInv == TypeOK /\ Phases /\ LooksAgree /\ ZeroInBuffer

\* What makes AnswerInOrder and AnswerIsWhole inductive where no answer that
\* goes out by write is longer than the socket's buffer.  rw_pos is how much of
\* the part at hand is on the wire,
AnswersFit ==
  \A r \in Requests : /\ r.resp_header <= Cap
                      /\ r.method = "POST" => r.resp_header + r.resp_body <= Cap
Content == {"write_file", "write_buffer"}
Progress ==
  /\ Len(wire) + room >= Cap
  /\ handler \notin Content => wire = <<>>
  /\ handler = "write_header" => rw_pos = 0
  /\ handler \in Content => rw_pos >= 0 /\ Len(wire) = req.resp_header + rw_pos
  /\ \A i \in 1..Len(wire) : wire[i] = AnswerByte(i)
\* and the length the handlers work with is the one the header announced.
LengthKept ==
  /\ handler \in Writers /\ ~edited =>
       declared = IF req.method = "POST" THEN req.resp_body ELSE SizeOf(page)
  /\ handler \in Content /\ ~edited => rw_pos <= declared
  /\ Writing /\ handler = "write_header" => contentLength = req.resp_header
  /\ Writing /\ handler \in Content /\ ~edited => contentLength = declared
  /\ at = "closed" /\ handler \in Writers /\ ~gone /\ ~edited /\ HasContent =>
       handler \in Content /\ rw_pos = declared
SendInv == IInv /\ Progress /\ LengthKept

\* A POST of which the handler saw more than it announced: it waits for a
\* request that is there already (line 284), and nothing more will come.
WaitsInVain ==
  /\ handler = "read" /\ at = "poll" /\ req.method = "POST" /\ HeaderRead /\ WaitsForBody
  /\ avail = 0 /\ sent = Total(req)

\* Every exchange ends: the answer is sent or the connection is given up, also
\* when the request does not fit httpReqBuf.  The exceptions are a file that is
\* cut short between stat and sendfile of one write event, on which the handler
\* never returns, and a POST with more bytes than it announced, if they come
\* before it is taken on and the peer neither sends more nor leaves.
ExchangeEnds == <>(at = "closed" \/ (Starved /\ edited) \/ WaitsInVain)

\* The tasks found the whole body of the request in httpReqBuf, whose last zero
\* was stored where the body ends.
BodyRead == req.method = "POST" => Max(stored) >= req.header + req.length

\* A request the server supports and has space for is answered in full, in
\* however many pieces it came, and a POST from its whole body, unless the peer
\* leaves, a task gives the connection up, or the file is edited meanwhile; and
\* unless the handler looked at a POST too late, when there was more than it
\* announced, or took it on too early, before its body was there: both are the
\* comparison at line 284, and a POST that comes in one piece meets neither.
RequestAnswered ==
  (~Refused /\ Total(req) < BufSize)
    ~> \/ wire = Answer /\ handler \in Writers /\ BodyRead
       \/ gone \/ edited \/ (at = "closed" /\ handler = "no_operation")
       \/ at = "closed" /\ ~HasContent
       \/ WaitsInVain \/ (handler # "read" /\ ~BodyRead)

\* Comment at lines 282 and 283: "if Content-Length is more than what was read
\* so far go on reading, else post the task".  This does not hold: WaitsForBody
\* compares the other way round.
BodyReadFirst ==
  (handler = "no_operation" /\ req.method = "POST") => rw_pos >= req.header + req.length
=============================================================================
