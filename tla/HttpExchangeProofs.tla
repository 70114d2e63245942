------------------------- MODULE HttpExchangeProofs -------------------------
(***************************************************************************)
(* Theorems about the exchange on one connection, for any set of requests, *)
(* any size of the two buffers, of the error page and of files, and any    *)
(* schedule of the peer, the socket and of whoever edits the file.         *)
(***************************************************************************)
EXTENDS HttpExchange, TLAPS

\* The fields of a request.
LEMMA RequestFields ==
  ASSUME req \in Requests
  PROVE  /\ req.method \in {"GET", "POST", "other"}
         /\ req.header \in Nat /\ req.length \in Nat \cup {-1} /\ req.body \in Nat
         /\ req.resp_header \in Nat \ {0} /\ req.resp_body \in Nat
         /\ req.target \in {"file", "module", "dir", "missing", "script"}
         /\ req.since \in BOOLEAN
  BY RequestAssumption

\* What read takes, and what write or sendfile accepts.
LEMMA MinOfTwo == ASSUME NEW a \in Int, NEW b \in Int
                  PROVE  Min({a, b}) = IF a <= b THEN a ELSE b
  BY DEF Min

\* The least of three lengths is one of them and exceeds none.
LEMMA MinOfThree == ASSUME NEW a \in Int, NEW b \in Int, NEW c \in Int
                    PROVE  /\ Min({a, b, c}) \in {a, b, c}
                           /\ Min({a, b, c}) <= a /\ Min({a, b, c}) <= b /\ Min({a, b, c}) <= c
<1>1. \E x \in {a, b, c} : \A y \in {a, b, c} : x <= y
  OBVIOUS
<1> QED BY <1>1 DEF Min

\* A length cut off at zero.
LEMMA MaxWithZero == ASSUME NEW a \in Int PROVE Max({0, a}) = IF a <= 0 THEN 0 ELSE a
  BY DEF Max

\* The size of a page is -1 or that of something that is there.
LEMMA SizeOfType ==
  ASSUME TypeOK, LooksAgree, NEW pg \in {"target", "error"}
  PROVE  SizeOf(pg) \in Nat \cup {-1}
<1>1. ErrPage \in Nat \cup {-1} /\ DirSize \in Nat /\ size \in Nat \cup {-1}
  BY SizeAssumption DEF TypeOK, LooksAgree
<1> QED BY <1>1 DEF SizeOf

\* write and sendfile accept something between nothing and what is free.
LEMMA AcceptedBounds ==
  ASSUME TypeOK
  PROVE  /\ Accepted \in 0..room
         /\ Rest >= 0 => Accepted <= Rest
         /\ Rest = 0 => Accepted = 0
         /\ Rest > 0 /\ room >= Rest /\ Left >= Rest => Accepted = Rest
<1>1. room \in Int /\ room >= 0 /\ Rest \in Int /\ Left \in Int
  BY SizeAssumption DEF TypeOK, Rest, Left
<1>2. /\ Min({room, Rest, Left}) \in {room, Rest, Left} /\ Min({room, Rest, Left}) <= room
      /\ Min({room, Rest, Left}) <= Rest
  BY <1>1, MinOfThree, Zenon
<1>3. Min({room, Rest, Left}) \in Int
  BY <1>1, <1>2
<1>4. Accepted = IF Min({room, Rest, Left}) <= 0 THEN 0 ELSE Min({room, Rest, Left})
  BY <1>3, MaxWithZero DEF Accepted
<1> QED BY <1>1, <1>2, <1>3, <1>4

\* Part of the answer as a sequence.
LEMMA BytesAre ==
  ASSUME NEW part \in {"header", "body"}, NEW from \in Int, NEW n \in Nat
  PROVE  /\ Bytes(part, from, n) \in Seq({"header", "body"} \X Int)
         /\ Len(Bytes(part, from, n)) = n
         /\ \A i \in 1..n : Bytes(part, from, n)[i] = <<part, from + i - 1>>
  BY DEF Bytes

-----------------------------------------------------------------------------
(* The request: httpReqBuf, the status and the page *)

\* A new connection has an empty buffer and nothing was looked up.
LEMMA InitInv == Init => IInv
<1> SUFFICES ASSUME Init PROVE IInv
  OBVIOUS
<1>1. req \in Requests
  BY DEF Init
<1>2. TypeOK
  <2>1. gone \in BOOLEAN /\ edited \in BOOLEAN
    BY DEF Init
  <2>2. sent \in Nat /\ avail \in Nat /\ rw_pos \in Int /\ room \in 0..Cap /\ size \in Int
    BY <1>1, RequestFields, SizeAssumption DEF Init
  <2>3. wire \in Seq({"header", "body"} \X Int) /\ stored \subseteq Int
    BY DEF Init
  <2> QED BY <1>1, <2>1, <2>2, <2>3 DEF Init, TypeOK
<1>3. Phases
  BY SizeAssumption DEF Init, Phases
<1>4. LooksAgree
  BY <1>1, RequestFields DEF Init, LooksAgree, Writers
<1>5. ZeroInBuffer
  BY DEF Init, ZeroInBuffer
<1> QED BY <1>2, <1>3, <1>4, <1>5 DEF IInv

\* The steps of the peer, of the kernel and of whoever edits the file.
LEMMA OutsideInv ==
  ASSUME IInv, Peer \/ EditFile
  PROVE  IInv'
<1> USE DEF IInv
<1>0. req \in Requests /\ Total(req) \in Nat
  BY RequestFields DEF TypeOK, Total
<1>1. CASE PeerSend
  BY <1>0, <1>1 DEF PeerSend, TypeOK, Phases, LooksAgree, ZeroInBuffer, io, file, found
<1>2. CASE PeerClose
  BY <1>0, <1>2 DEF PeerClose, TypeOK, Phases, LooksAgree, ZeroInBuffer, io, file, found
<1>3. CASE PeerTake
  BY <1>0, <1>3, SizeAssumption DEF PeerTake, TypeOK, Phases, LooksAgree, ZeroInBuffer, peer, file, found
<1>4. CASE EditFile
  <2>1. size' \in Int /\ size' >= -1 /\ edited' = TRUE /\ req.target = "file"
        /\ UNCHANGED <<req, peer, io, found, contentLength>>
    BY <1>4 DEF EditFile, TypeOK, LooksAgree
  <2> QED BY <2>1 DEF TypeOK, Phases, LooksAgree, ZeroInBuffer, peer, io, found
<1> QED BY <1>1, <1>2, <1>3, <1>4 DEF Peer

\* tgx_connection_handler_read: the position stays inside the buffer, and the
\* zero is stored only where there is space for it.
LEMMA ReadInv ==
  ASSUME IInv, ReadEvent \/ ReadSome \/ ReadZero \/ ReadBlocked
  PROVE  IInv'
<1> USE DEF IInv
<1>0. req \in Requests /\ req.method \in {"GET", "POST", "other"}
  BY RequestFields DEF TypeOK
<1>1. CASE ReadEvent
  BY <1>0, <1>1 DEF ReadEvent, TypeOK, Phases, LooksAgree, ZeroInBuffer, Writers, peer, file, found
<1>2. CASE ReadSome
  <2> DEFINE nRead == Min({avail, Space})
  <2>1. handler = "read" /\ rw_pos \in 0..BufSize /\ avail \in Nat /\ Space = BufSize - rw_pos
    BY <1>2 DEF ReadSome, Reading, Phases, TypeOK, Space
  <2>2. nRead = IF avail <= Space THEN avail ELSE Space
    BY <2>1, SizeAssumption, MinOfTwo
  <2>3. /\ nRead > 0 /\ rw_pos' = rw_pos + nRead /\ avail' = avail - nRead
        /\ UNCHANGED <<req, sent, gone, handler, at, room, wire, stored, file, found, contentLength>>
    BY <1>2 DEF ReadSome
  <2>4. rw_pos' \in 0..BufSize /\ avail' \in Nat
    BY <2>1, <2>2, <2>3, SizeAssumption
  <2> HIDE DEF nRead
  <2> QED BY <2>3, <2>4, SizeAssumption DEF TypeOK, Phases, LooksAgree, ZeroInBuffer, file, found
<1>3. CASE ReadZero
  BY <1>0, <1>3 DEF ReadZero, Reading, Close, TypeOK, Phases, LooksAgree, ZeroInBuffer, Writers, peer,
                    file, found
<1>4. CASE ReadBlocked
  <2>1. /\ handler = "read" /\ at = "loop" /\ rw_pos \in 0..(BufSize - 1)
        /\ stored' = stored \cup {rw_pos}
        /\ UNCHANGED <<req, peer, rw_pos, room, wire, file, found, contentLength>>
    BY <1>4, SizeAssumption DEF ReadBlocked, Reading, Space, Phases
  <2>2. ZeroInBuffer'
    BY <2>1 DEF ZeroInBuffer
  <2>3. stored' \subseteq Int
    BY <2>1 DEF TypeOK
  <2>4. \/ at' = "closed" /\ handler' = handler
        \/ at' = "url" /\ handler' = "no_operation" /\ req.method \in {"GET", "POST"}
        \/ at' = "poll" /\ handler' = handler
    BY <1>4 DEF ReadBlocked, Close, TakenOn
  <2> QED BY <2>1, <2>2, <2>3, <2>4 DEF TypeOK, Phases, LooksAgree, Writers, peer, file, found
<1> QED BY <1>1, <1>2, <1>3, <1>4

\* The tasks: what one of them found out is what the next ones go by.
LEMMA TaskInv ==
  ASSUME IInv, TaskFails \/ OnUrl \/ OnHeaderComplete \/ PrepareGet \/ PreparePost
  PROVE  IInv'
<1> USE DEF IInv
<1>0. /\ req \in Requests /\ req.target \in {"file", "module", "dir", "missing", "script"}
      /\ req.resp_body \in Nat /\ req.method \in {"GET", "POST", "other"}
  BY RequestFields DEF TypeOK
<1>1. CASE TaskFails
  BY <1>1 DEF TaskFails, Close, TypeOK, Phases, LooksAgree, ZeroInBuffer, Writers, peer, file, found
<1>2. CASE OnUrl
  <2>1. status' \in {200, 400, 404} /\ (req.target = "dir" => status' = 404)
    BY <1>2 DEF OnUrl
  <2> QED BY <1>2, <2>1 DEF OnUrl, TypeOK, Phases, LooksAgree, ZeroInBuffer, Writers, peer, file
<1>3. CASE OnHeaderComplete
  <2>1. StatusByHeaders \in {404, 304, status}
    BY DEF StatusByHeaders
  <2>2. req.target \in {"missing", "script"} => StatusByHeaders = 404
    BY <1>0 DEF StatusByHeaders, NoFile, LooksAgree
  <2>3. req.target = "dir" => StatusByHeaders \in {304, 404}
    BY <1>3, <2>1 DEF OnHeaderComplete, LooksAgree
  <2> QED BY <1>3, <2>1, <2>2, <2>3
          DEF OnHeaderComplete, TypeOK, Phases, LooksAgree, ZeroInBuffer, Writers, peer, file
<1>4. CASE PrepareGet
  <2>1. /\ at = "prepare" /\ handler = "no_operation" /\ req.method = "GET"
        /\ page' = PageFor(status) /\ page' \in {"target", "error"}
        /\ UNCHANGED <<req, peer, room, wire, stored, file, status, contentLength>>
    BY <1>4 DEF PrepareGet, PageFor, Phases
  <2>2. SizeOf(page') \in Nat \cup {-1}
    BY <2>1, SizeOfType
  <2>3. CASE GiveUp
    BY <1>0, <2>1, <2>3 DEF GiveUp, Close, TypeOK, Phases, LooksAgree, ZeroInBuffer, Writers, peer, file
  <2>4. CASE declared' \in Nat /\ EndTravelling
    BY <1>0, <2>1, <2>4
       DEF EndTravelling, TypeOK, Phases, LooksAgree, ZeroInBuffer, Writers, peer, file
  <2> QED BY <1>4, <2>2, <2>3, <2>4 DEF PrepareGet
<1>5. CASE PreparePost
  <2>1. /\ at = "prepare" /\ handler = "no_operation" /\ req.method = "POST" /\ page = "target"
        /\ UNCHANGED <<req, peer, room, wire, stored, file, status, page, contentLength>>
    BY <1>5 DEF PreparePost, Phases, LooksAgree, Writers
  <2>2. CASE GiveUp
    BY <1>0, <2>1, <2>2 DEF GiveUp, Close, TypeOK, Phases, LooksAgree, ZeroInBuffer, Writers, peer, file
  <2>3. CASE req.target = "module" /\ status = 200 /\ declared' = req.resp_body /\ EndTravelling
    BY <1>0, <2>1, <2>3
       DEF EndTravelling, TypeOK, Phases, LooksAgree, ZeroInBuffer, Writers, PageFor, peer, file
  <2> QED BY <1>5, <2>2, <2>3 DEF PreparePost
<1> QED BY <1>1, <1>2, <1>3, <1>4, <1>5

\* The write handlers leave status and page alone.
LEMMA WriteInv ==
  ASSUME IInv, WriteEvent \/ WriteSome \/ WriteBlocked \/ WriteFails
  PROVE  IInv'
<1> USE DEF IInv
<1>0. /\ req \in Requests /\ req.resp_header \in Nat /\ req.resp_body \in Nat
      /\ req.method \in {"GET", "POST", "other"}
      /\ handler \in Writers /\ handler # "read" /\ handler # "no_operation"
  BY RequestFields DEF TypeOK, WriteEvent, WriteSome, WriteBlocked, WriteFails, Writing, Writers
<1>1. CASE WriteEvent
  <2>1. at' \in {"closed", "loop"} /\ contentLength' \in Nat
    <3>1. CASE Unservable
      BY <1>1, <3>1 DEF WriteEvent, Close, TypeOK
    <3>2. CASE ~Unservable
      <4>1. SizeOf(page) \in Nat \cup {-1}
        BY SizeOfType DEF TypeOK
      <4>2. Length(handler) \in Nat
        BY <1>0, <3>2, <4>1 DEF Length, Unservable, Writers
      <4> QED BY <1>1, <3>2, <4>2 DEF WriteEvent
    <3> QED BY <3>1, <3>2
  <2> QED BY <1>0, <1>1, <2>1
          DEF WriteEvent, TypeOK, Phases, LooksAgree, ZeroInBuffer, Writers, peer, file, found
<1>2. CASE WriteSome
  <2>1. /\ wire' = wire \o Bytes(Part(handler), rw_pos, Accepted) /\ room' = room - Accepted
        /\ UNCHANGED <<req, peer, stored, file, found, contentLength>>
        /\ at = "loop"
    BY <1>2 DEF WriteSome, Writing
  <2>2. Accepted \in 0..room /\ Accepted \in Nat /\ rw_pos \in Int /\ room \in 0..Cap
        /\ contentLength \in Nat /\ wire \in Seq({"header", "body"} \X Int)
    BY AcceptedBounds, SizeAssumption DEF TypeOK
  <2>3. room' \in 0..Cap
    BY <2>1, <2>2, SizeAssumption
  <2>4. wire' \in Seq({"header", "body"} \X Int)
    <3>1. Part(handler) \in {"header", "body"}
      BY DEF Part
    <3>2. Bytes(Part(handler), rw_pos, Accepted) \in Seq({"header", "body"} \X Int)
      BY <2>2, <3>1, BytesAre
    <3> QED BY <2>1, <2>2, <3>2
  <2>5. \/ /\ rw_pos' = 0 /\ at' = "poll"
           /\ handler' = IF req.method = "GET" THEN "write_file" ELSE "write_buffer"
        \/ at' = "closed" /\ rw_pos' = contentLength /\ handler' = handler
        \/ rw_pos' = rw_pos + Accepted /\ handler' = handler /\ at' = at
    BY <1>2 DEF WriteSome, PartDone, Close
  <2>6. rw_pos' \in Int /\ at' \in {"poll", "loop", "closed"} /\ handler' \in Writers
        /\ (handler' = "write_file" => req.method = "GET")
        /\ (handler' = "write_buffer" => req.method = "POST")
    BY <1>0, <2>1, <2>2, <2>5 DEF Phases, Writers
  <2> QED BY <1>0, <2>1, <2>3, <2>4, <2>6
          DEF TypeOK, Phases, LooksAgree, ZeroInBuffer, Writers, peer, file, found
<1>3. CASE WriteBlocked
  <2>1. rw_pos' \in Int
    BY <1>3 DEF WriteBlocked, PosAfterEagain, TypeOK
  <2> QED BY <1>0, <1>3, <2>1
          DEF WriteBlocked, TypeOK, Phases, LooksAgree, ZeroInBuffer, Writers, peer, file, found
<1>4. CASE WriteFails
  BY <1>0, <1>4
     DEF WriteFails, Close, TypeOK, Phases, LooksAgree, ZeroInBuffer, Writers, peer, file, found
<1> QED BY <1>1, <1>2, <1>3, <1>4

\* Nothing changes after the end and while a handler is starved.
LEMMA StutterInv == IInv /\ (WriteStarves \/ Done \/ UNCHANGED vars) => IInv'
<1> SUFFICES ASSUME IInv, UNCHANGED vars PROVE IInv'
  BY DEF WriteStarves, Done
<1> USE DEF vars, peer, io, file, found
<1>1. TypeOK'
  BY DEF IInv, TypeOK
<1>2. Phases' /\ ZeroInBuffer'
  BY DEF IInv, Phases, ZeroInBuffer
<1>3. LooksAgree'
  BY DEF IInv, LooksAgree, PageFor
<1> QED BY <1>1, <1>2, <1>3 DEF IInv

\* The inductive invariant of the request holds in every reachable state.
THEOREM Invariance == Spec => []IInv
<1>1. IInv /\ [Next]_vars => IInv'
  BY OutsideInv, ReadInv, TaskInv, WriteInv, StutterInv DEF Next, Server
<1> QED BY InitInv, <1>1, PTL DEF Spec

\* "data[rw_pos] = 0" never leaves httpReqBuf, whatever the peer sends.
THEOREM ZeroInBufferAlways == Spec => []ZeroInBuffer
<1>1. IInv => ZeroInBuffer
  BY DEF IInv
<1> QED BY Invariance, <1>1, PTL

\* Status and page agree whenever an answer goes out, although the file system
\* was looked at in three different tasks.
THEOREM PageMatchesStatusAlways == Spec => []PageMatchesStatus
<1>1. IInv => PageMatchesStatus
  <2> SUFFICES ASSUME IInv PROVE PageMatchesStatus
    OBVIOUS
  <2>1. req.target \in {"file", "module", "dir", "missing", "script"}
    BY RequestFields DEF IInv, TypeOK
  <2> QED BY <2>1 DEF IInv, LooksAgree, PageMatchesStatus, PageFor
<1> QED BY Invariance, <1>1, PTL

-----------------------------------------------------------------------------
(* The answer, where what goes out by write fits the socket's buffer *)

\* The bytes of a sequence that continues another one.
LEMMA Continued ==
  ASSUME NEW S, NEW u \in Seq(S), NEW v \in Seq(S)
  PROVE  /\ u \o v \in Seq(S) /\ Len(u \o v) = Len(u) + Len(v)
         /\ \A i \in 1..Len(u) : (u \o v)[i] = u[i]
         /\ \A i \in (Len(u) + 1)..(Len(u) + Len(v)) : (u \o v)[i] = v[i - Len(u)]
  OBVIOUS

\* Nothing is on the wire and the socket's buffer is empty.
LEMMA InitSend == Init => Progress /\ LengthKept
<1> SUFFICES ASSUME Init PROVE Progress /\ LengthKept
  OBVIOUS
<1>1. wire = <<>> /\ Len(wire) = 0 /\ room = Cap /\ handler = "read" /\ at = "poll"
  BY DEF Init
<1> QED BY <1>1, SizeAssumption DEF Progress, LengthKept, Writing, Writers, Content

\* A step that leaves the answer and what it is made of alone.
LEMMA SendKept ==
  ASSUME SendInv, UNCHANGED <<req, rw_pos, handler, wire, room, size, edited, page, declared,
                              contentLength, at>>,
         (gone' = gone) \/ gone'
  PROVE  Progress' /\ LengthKept'
<1>1. Progress'
  BY DEF SendInv, Progress, AnswerByte
<1>2. LengthKept'
  BY DEF SendInv, LengthKept, Writing, HasContent, SizeOf
<1> QED BY <1>1, <1>2

\* The steps before the first byte of the answer.
LEMMA NotYetSent ==
  ASSUME SendInv, handler \notin Writers, handler' \notin Writers,
         UNCHANGED <<req, wire, room>>
  PROVE  Progress' /\ LengthKept'
<1>1. wire = <<>> /\ Len(wire) = 0 /\ Len(wire) + room >= Cap
  BY DEF SendInv, Progress, Writers, Content
<1> QED BY <1>1 DEF Progress, LengthKept, Writing, Writers, Content

\* The steps of the peer, of the kernel and of whoever edits the file.
LEMMA OutsideSend ==
  ASSUME SendInv, Peer \/ EditFile
  PROVE  Progress' /\ LengthKept'
<1>1. CASE PeerSend
  BY <1>1, SendKept DEF PeerSend, io, file, found
<1>2. CASE PeerClose
  BY <1>2, SendKept DEF PeerClose, io, file, found
<1>3. CASE PeerTake
  <2>1. /\ room' >= room /\ room' \in Int /\ room \in Int /\ at # "closed"
        /\ UNCHANGED <<req, peer, rw_pos, handler, at, wire, stored, file, found, contentLength>>
    BY <1>3, SizeAssumption DEF PeerTake, SendInv, IInv, TypeOK
  <2>2. Len(wire) \in Nat
    BY DEF SendInv, IInv, TypeOK
  <2>3. Progress'
    BY <2>1, <2>2, SizeAssumption DEF SendInv, Progress, AnswerByte
  <2>4. LengthKept'
    BY <2>1 DEF SendInv, LengthKept, Writing, HasContent, SizeOf, peer, file, found
  <2> QED BY <2>3, <2>4
<1>4. CASE EditFile
  <2>1. /\ edited' = TRUE /\ at # "closed"
        /\ UNCHANGED <<req, peer, io, found, contentLength>>
    BY <1>4 DEF EditFile
  <2>2. Progress'
    BY <2>1 DEF SendInv, Progress, AnswerByte, io
  <2>3. LengthKept'
    BY <2>1 DEF SendInv, LengthKept, Writing, io
  <2> QED BY <2>2, <2>3
<1> QED BY <1>1, <1>2, <1>3, <1>4 DEF Peer

\* The read handler and the tasks: the answer starts with the header.
LEMMA BeforeSend ==
  ASSUME SendInv,
         \/ ReadEvent \/ ReadSome \/ ReadZero \/ ReadBlocked
         \/ TaskFails \/ OnUrl \/ OnHeaderComplete \/ PrepareGet \/ PreparePost
  PROVE  Progress' /\ LengthKept'
<1>1. handler \in {"read", "no_operation"} /\ UNCHANGED <<req, wire, room, size, edited>>
  BY DEF ReadEvent, ReadSome, ReadZero, ReadBlocked, Reading, TaskFails, OnUrl, OnHeaderComplete,
         PrepareGet, PreparePost, SendInv, IInv, Phases, file
<1>2. \/ handler' \in {"read", "no_operation"}
      \/ /\ at = "prepare" /\ EndTravelling
         /\ declared' = IF req.method = "POST" THEN req.resp_body ELSE SizeOf(page')
  BY <1>1 DEF ReadEvent, ReadSome, ReadZero, ReadBlocked, Reading, TaskFails, OnUrl,
              OnHeaderComplete, PrepareGet, PreparePost, GiveUp
<1>3. CASE handler' \in {"read", "no_operation"}
  BY <1>1, <1>3, NotYetSent DEF Writers
<1>4. CASE EndTravelling /\ declared' = IF req.method = "POST" THEN req.resp_body ELSE SizeOf(page')
  <2>1. handler' = "write_header" /\ at' = "poll" /\ rw_pos' = 0
    BY <1>4 DEF EndTravelling
  <2>2. wire = <<>> /\ Len(wire) = 0 /\ Len(wire) + room >= Cap
    BY <1>1 DEF SendInv, Progress, Content
  <2>3. Progress'
    BY <1>1, <2>1, <2>2 DEF Progress, Content
  <2>4. SizeOf(page)' = SizeOf(page')
    BY <1>1 DEF SizeOf
  <2>5. LengthKept'
    BY <1>1, <1>4, <2>1, <2>4 DEF LengthKept, Content, Writing
  <2> QED BY <2>3, <2>5
<1> QED BY <1>2, <1>3, <1>4

\* WriteEvent works with the length the header announced, unless the file was
\* edited, and gives up what is not a file.
LEMMA WriteEventSend ==
  ASSUME SendInv, WriteEvent
  PROVE  Progress' /\ LengthKept'
<1>0. /\ handler \in Writers /\ at = "poll"
      /\ UNCHANGED <<req, peer, rw_pos, handler, room, wire, stored, file, found>>
  BY DEF WriteEvent
<1>1. Progress'
  BY <1>0 DEF SendInv, Progress, AnswerByte
<1>2. (SizeOf(page))' = SizeOf(page) /\ HasContent' = HasContent
  BY <1>0 DEF SizeOf, HasContent, file, found
<1>3. /\ handler = "write_file" => req.method = "GET"
      /\ handler = "write_buffer" => req.method = "POST"
  BY DEF SendInv, IInv, Phases
<1>4. CASE Unservable
  <2>1. at' = "closed"
    BY <1>4 DEF WriteEvent, Close
  <2>2. declared \in Nat
    BY DEF SendInv, IInv, TypeOK
  <2>3. edited \/ ~HasContent
    BY <1>0, <1>3, <1>4, <2>2 DEF Unservable, SendInv, LengthKept, HasContent, Writers
  <2> QED BY <1>0, <1>1, <1>2, <2>1, <2>3 DEF SendInv, LengthKept, Writing, file, found
<1>5. CASE ~Unservable
  <2>1. at' = "loop" /\ contentLength' = Length(handler)
    BY <1>5 DEF WriteEvent
  <2>2. handler = "write_header" => contentLength' = req.resp_header
    BY <2>1 DEF Length
  <2>3. handler \in Content /\ ~edited => contentLength' = declared
    BY <1>0, <1>3, <2>1 DEF Length, Content, Writers, SendInv, LengthKept
  <2> QED BY <1>0, <1>1, <1>2, <2>1, <2>2, <2>3 DEF SendInv, LengthKept, file, found
<1> QED BY <1>4, <1>5

\* A header, and an answer of a module, never meet a full buffer.
LEMMA NeverBlocked ==
  ASSUME AnswersFit, SendInv, WriteBlocked
  PROVE  handler = "write_file"
<1> SUFFICES ASSUME handler # "write_file" PROVE FALSE
  OBVIOUS
<1>1. /\ handler \in {"write_header", "write_buffer"} /\ at = "loop" /\ room = 0
      /\ contentLength - rw_pos > 0
  BY DEF WriteBlocked, Writing, Writers, Rest
<1>2. /\ req \in Requests /\ Len(wire) >= Cap /\ Cap \in Nat \ {0} /\ rw_pos \in Int
      /\ req.resp_header \in Nat /\ req.resp_body \in Nat /\ Len(wire) \in Nat
  BY <1>1, RequestFields, SizeAssumption DEF SendInv, IInv, TypeOK, Progress
<1>3. CASE handler = "write_header"
  BY <1>2, <1>3 DEF SendInv, Progress, Content
<1>4. CASE handler = "write_buffer"
  <2>1. req.method = "POST" /\ req.target = "module" /\ ~edited
    BY <1>4 DEF SendInv, IInv, Phases, LooksAgree, Writers
  <2>2. contentLength = req.resp_body
    BY <1>1, <1>4, <2>1 DEF SendInv, LengthKept, Writing, Writers, Content
  <2>3. Len(wire) = req.resp_header + rw_pos
    BY <1>4 DEF SendInv, Progress, Content
  <2>4. req.resp_header + req.resp_body <= Cap
    BY <1>2, <2>1 DEF AnswersFit
  <2> QED BY <1>1, <1>2, <2>2, <2>3, <2>4
<1> QED BY <1>1, <1>3, <1>4

\* What write or sendfile took continues what is on the wire.
LEMMA WireGrows ==
  ASSUME SendInv, WriteSome
  PROVE  /\ Len(wire') = Len(wire) + Accepted /\ Len(wire') + room' >= Cap
         /\ rw_pos >= 0
         /\ (handler = "write_header" /\ Accepted = req.resp_header) \/ handler \in Content =>
              \A i \in 1..Len(wire') : wire'[i] = AnswerByte(i)
<1>1. /\ wire \in Seq({"header", "body"} \X Int) /\ rw_pos \in Int /\ Len(wire) \in Nat
      /\ Accepted \in Nat /\ room \in Nat /\ req.resp_header \in Nat
      /\ Len(wire) + room >= Cap /\ handler \in Writers
  BY AcceptedBounds, RequestFields, SizeAssumption
     DEF SendInv, IInv, TypeOK, Progress, WriteSome, Writing
<1> DEFINE v == Bytes(Part(handler), rw_pos, Accepted)
<1>2. wire' = wire \o v /\ room' = room - Accepted
  BY DEF WriteSome
<1>3. Part(handler) \in {"header", "body"}
  BY DEF Part
<1>4. /\ v \in Seq({"header", "body"} \X Int) /\ Len(v) = Accepted
      /\ \A i \in 1..Accepted : v[i] = <<Part(handler), rw_pos + i - 1>>
  BY <1>1, <1>3, BytesAre
<1> HIDE DEF v
<1>5. /\ Len(wire') = Len(wire) + Accepted
      /\ \A i \in 1..Len(wire) : wire'[i] = wire[i]
      /\ \A i \in (Len(wire) + 1)..(Len(wire) + Accepted) : wire'[i] = v[i - Len(wire)]
  BY <1>1, <1>2, <1>4, Continued
<1>6. rw_pos >= 0
  BY <1>1 DEF SendInv, Progress, Writers, Content
<1>7. ASSUME (handler = "write_header" /\ Accepted = req.resp_header) \/ handler \in Content,
             NEW i \in 1..Len(wire')
      PROVE  wire'[i] = AnswerByte(i)
  <2>1. CASE i \in 1..Len(wire)
    BY <1>5, <2>1 DEF SendInv, Progress
  <2>2. CASE i \in (Len(wire) + 1)..(Len(wire) + Accepted)
    <3>1. i - Len(wire) \in 1..Accepted
      BY <1>1, <2>2
    <3>2. wire'[i] = <<Part(handler), rw_pos + (i - Len(wire)) - 1>>
      BY <1>4, <1>5, <2>2, <3>1
    <3>3. CASE handler = "write_header" /\ Accepted = req.resp_header
      <4>1. Len(wire) = 0 /\ rw_pos = 0 /\ i \in 1..req.resp_header
        BY <1>1, <2>2, <3>3 DEF SendInv, Progress, Content
      <4> QED BY <3>2, <3>3, <4>1 DEF Part, AnswerByte
    <3>4. CASE handler \in Content
      <4>1. Len(wire) = req.resp_header + rw_pos
        BY <3>4 DEF SendInv, Progress
      <4>2. ~(i <= req.resp_header) /\ rw_pos + (i - Len(wire)) - 1 = i - req.resp_header - 1
        <5> DEFINE n == Len(wire)
        <5>1. i \in Int /\ i >= n + 1 /\ n \in Nat /\ rw_pos \in Nat /\ req.resp_header \in Nat
          BY <1>1, <1>6, <2>2
        <5>2. n = req.resp_header + rw_pos
          BY <4>1
        <5> HIDE DEF n
        <5>3. ~(i <= req.resp_header) /\ rw_pos + (i - n) - 1 = i - req.resp_header - 1
          BY <5>1, <5>2
        <5> QED BY <5>3 DEF n
      <4> QED BY <3>2, <3>4, <4>2 DEF Part, AnswerByte, Content
    <3> QED BY <1>7, <3>3, <3>4
  <2> QED BY <1>1, <1>5, <2>1, <2>2
<1>8. Len(wire') + room' >= Cap
  BY <1>1, <1>2, <1>5, SizeAssumption
<1> QED BY <1>5, <1>6, <1>7, <1>8

\* The header goes out in one piece, the content in as many as it takes.
LEMMA WriteSomeSend ==
  ASSUME AnswersFit, SendInv, WriteSome
  PROVE  Progress' /\ LengthKept'
<1>0. /\ handler \in Writers /\ at = "loop" /\ Writing /\ Rest >= 0 /\ ~gone
      /\ UNCHANGED <<req, peer, stored, file, found, contentLength>>
      /\ IF Accepted = Rest THEN PartDone
                            ELSE rw_pos' = rw_pos + Accepted /\ UNCHANGED <<handler, at>>
  <2>1. Rest \in Int
    BY DEF SendInv, IInv, TypeOK, Rest
  <2> QED BY <2>1 DEF WriteSome, Writing
<1>1. /\ req \in Requests /\ req.resp_header \in Nat \ {0} /\ req.resp_body \in Nat
      /\ Accepted \in Nat /\ Accepted <= Rest /\ contentLength \in Nat /\ rw_pos \in Int
      /\ Rest = contentLength - rw_pos /\ room \in Nat /\ declared \in Nat /\ Len(wire) \in Nat
  BY <1>0, AcceptedBounds, RequestFields, SizeAssumption DEF SendInv, IInv, TypeOK, Rest
<1>2. (SizeOf(page))' = SizeOf(page) /\ HasContent' = HasContent
      /\ \A i \in 1..Len(wire') : AnswerByte(i)' = AnswerByte(i)
  BY <1>0 DEF SizeOf, HasContent, AnswerByte, file, found
<1>3. CASE handler = "write_header"
  <2>1. contentLength = req.resp_header /\ rw_pos = 0 /\ wire = <<>>
    BY <1>0, <1>3 DEF SendInv, LengthKept, Progress, Content
  <2>2. room >= Rest /\ Rest > 0 /\ Left = Rest
    <3>1. req.resp_header <= Cap /\ Cap \in Nat
      BY <1>1, SizeAssumption DEF AnswersFit
    <3>2. room >= Cap
      BY <1>1, <2>1, <3>1 DEF SendInv, Progress
    <3> QED BY <1>1, <1>3, <2>1, <3>1, <3>2 DEF Left
  <2>3. Accepted = Rest /\ Accepted = req.resp_header
    BY <1>1, <2>1, <2>2, AcceptedBounds DEF SendInv, IInv
  <2>4. handler' \in Content /\ rw_pos' = 0 /\ at' = "poll"
    BY <1>0, <1>3, <2>3 DEF PartDone, Content
  <2>5. Progress'
    BY <1>0, <1>1, <1>2, <1>3, <2>1, <2>3, <2>4, WireGrows DEF Progress, Content
  <2>6. LengthKept'
    BY <1>0, <1>1, <1>2, <2>4 DEF SendInv, LengthKept, Writing, Content, Writers, file, found
  <2> QED BY <2>5, <2>6
<1>4. CASE handler \in Content
  <2>1. /\ handler' = handler /\ rw_pos' = rw_pos + Accepted
        /\ at' = "loop" \/ (at' = "closed" /\ rw_pos' = contentLength)
    BY <1>0, <1>1, <1>4 DEF PartDone, Close, Content
  <2>2. Progress'
    <3>1. /\ Len(wire') = Len(wire) + Accepted /\ Len(wire') + room' >= Cap /\ rw_pos >= 0
          /\ \A i \in 1..Len(wire') : wire'[i] = AnswerByte(i)
      BY <1>4, WireGrows
    <3>2. Len(wire) = req.resp_header + rw_pos
      BY <1>4 DEF SendInv, Progress
    <3>3. rw_pos' >= 0 /\ Len(wire') = req'.resp_header + rw_pos'
      BY <1>0, <1>1, <2>1, <3>1, <3>2
    <3> QED BY <1>2, <1>4, <2>1, <3>1, <3>3 DEF Progress, Content
  <2>3. ~edited => contentLength = declared /\ rw_pos' <= declared
    BY <1>0, <1>1, <1>4, <2>1 DEF SendInv, LengthKept
  <2>4. LengthKept'
    BY <1>0, <1>1, <1>2, <1>4, <2>1, <2>3
       DEF SendInv, LengthKept, Writing, Content, Writers, file, found
  <2> QED BY <2>2, <2>4
<1> QED BY <1>0, <1>3, <1>4 DEF Writers, Content

\* The other steps of the write handlers.
LEMMA WriteStopsSend ==
  ASSUME AnswersFit, SendInv, WriteBlocked \/ WriteFails
  PROVE  Progress' /\ LengthKept'
<1>0. UNCHANGED <<req, peer, handler, room, wire, stored, file, found, contentLength>>
      /\ handler \in Writers /\ at = "loop" /\ Writing
  BY DEF WriteBlocked, WriteFails, Writing
<1>1. (SizeOf(page))' = SizeOf(page) /\ HasContent' = HasContent
  BY <1>0 DEF SizeOf, HasContent, file, found
<1>2. rw_pos' = rw_pos
  BY NeverBlocked DEF WriteBlocked, WriteFails, PosAfterEagain
<1>3. Progress'
  BY <1>0, <1>2 DEF SendInv, Progress, AnswerByte
<1>4. CASE WriteBlocked
  <2>1. at' = "poll"
    BY <1>4 DEF WriteBlocked
  <2>2. LengthKept'
    BY <1>0, <1>1, <1>2, <2>1 DEF SendInv, LengthKept, Writing, Content, file, found
  <2> QED BY <1>3, <2>2
<1>5. CASE WriteFails
  <2>1. at' = "closed" /\ (gone \/ contentLength - rw_pos < 0)
    BY <1>5 DEF WriteFails, Close, Rest
  <2>2. gone \/ edited
    <3>1. /\ req.resp_header \in Nat /\ contentLength \in Nat /\ rw_pos \in Int /\ declared \in Nat
      BY RequestFields DEF SendInv, IInv, TypeOK
    <3>2. CASE handler = "write_header"
      BY <1>0, <2>1, <3>1, <3>2 DEF SendInv, LengthKept, Progress
    <3>3. CASE handler \in Content
      BY <1>0, <2>1, <3>1, <3>3 DEF SendInv, LengthKept
    <3> QED BY <1>0, <3>2, <3>3 DEF Writers, Content
  <2>3. LengthKept'
    BY <1>0, <1>1, <1>2, <2>1, <2>2 DEF SendInv, LengthKept, Writing, Content, peer, file, found
  <2> QED BY <1>3, <2>3
<1> QED BY <1>4, <1>5

\* The inductive invariant of the answer holds in every reachable state.
THEOREM SendInvariance ==
  ASSUME AnswersFit
  PROVE  Spec => []SendInv
<1>1. Init => SendInv
  BY InitInv, InitSend DEF SendInv
<1>2. SendInv /\ [Next]_vars => Progress' /\ LengthKept'
  <2>1. SendInv /\ (WriteStarves \/ Done \/ UNCHANGED vars) => Progress' /\ LengthKept'
    BY SendKept DEF WriteStarves, Done, vars, peer, io, file, found
  <2> QED BY <2>1, OutsideSend, BeforeSend, WriteEventSend, WriteSomeSend, WriteStopsSend
          DEF Next, Server
<1>3. SendInv /\ [Next]_vars => IInv'
  BY OutsideInv, ReadInv, TaskInv, WriteInv, StutterInv DEF Next, Server, SendInv
<1>4. SendInv /\ [Next]_vars => SendInv'
  BY <1>2, <1>3 DEF SendInv
<1> QED BY <1>1, <1>4, PTL DEF Spec

\* Where headers and the answers of modules fit the socket's buffer, the peer
\* gets the answer in order and nothing twice, for a file of any length, however
\* often the buffer fills up and whatever is done to the file.
THEOREM AnswerInOrderAlways ==
  ASSUME AnswersFit
  PROVE  Spec => []AnswerInOrder
<1>1. SendInv => AnswerInOrder
  <2> SUFFICES ASSUME SendInv PROVE AnswerInOrder
    OBVIOUS
  <2>1. wire = [i \in 1..Len(wire) |-> wire[i]]
    BY DEF SendInv, IInv, TypeOK
  <2>2. \A i \in 1..Len(wire) : wire[i] = AnswerByte(i)
    BY DEF SendInv, Progress
  <2> QED BY <2>1, <2>2 DEF AnswerInOrder
<1> QED BY SendInvariance, <1>1, PTL

\* Under the same condition a connection that is closed after its answer has
\* sent as many bytes as its Content-Length says.
THEOREM AnswerIsWholeAlways ==
  ASSUME AnswersFit
  PROVE  Spec => []AnswerIsWhole
<1>1. SendInv => AnswerIsWhole
  <2> SUFFICES ASSUME SendInv, at = "closed", handler \in Writers, ~gone, ~edited, HasContent
               PROVE  wire = Answer
    BY DEF AnswerIsWhole
  <2>0. 0 \in Int /\ "header" \in {"header", "body"} /\ "body" \in {"header", "body"}
    OBVIOUS
  <2>1. /\ wire \in Seq({"header", "body"} \X Int) /\ req.resp_header \in Nat /\ declared \in Nat
    BY RequestFields DEF SendInv, IInv, TypeOK
  <2>2. Len(wire) = req.resp_header + declared
    BY DEF SendInv, Progress, LengthKept
  <2>3. \A i \in 1..Len(wire) : wire[i] = AnswerByte(i)
    BY DEF SendInv, Progress
  <2> DEFINE u == Bytes("header", 0, req.resp_header)
             v == Bytes("body", 0, declared)
  <2>4. /\ u \in Seq({"header", "body"} \X Int) /\ Len(u) = req.resp_header
        /\ \A i \in 1..req.resp_header : u[i] = <<"header", 0 + i - 1>>
    BY <2>0, <2>1, BytesAre, Zenon
  <2>5. /\ v \in Seq({"header", "body"} \X Int) /\ Len(v) = declared
        /\ \A i \in 1..declared : v[i] = <<"body", 0 + i - 1>>
    BY <2>0, <2>1, BytesAre, Zenon
  <2>6. Answer = u \o v
    BY DEF Answer
  <2> HIDE DEF u, v
  <2>7. /\ Answer \in Seq({"header", "body"} \X Int)
        /\ Len(Answer) = req.resp_header + declared
        /\ \A i \in 1..req.resp_header : Answer[i] = u[i]
        /\ \A i \in (req.resp_header + 1)..(req.resp_header + declared) :
             Answer[i] = v[i - req.resp_header]
    <3>1. /\ u \o v \in Seq({"header", "body"} \X Int) /\ Len(u \o v) = Len(u) + Len(v)
          /\ \A i \in 1..Len(u) : (u \o v)[i] = u[i]
          /\ \A i \in (Len(u) + 1)..(Len(u) + Len(v)) : (u \o v)[i] = v[i - Len(u)]
      BY <2>4, <2>5, Continued, Zenon
    <3> QED BY <2>4, <2>5, <2>6, <3>1, Zenon
  <2>8. ASSUME NEW i \in 1..(req.resp_header + declared) PROVE Answer[i] = AnswerByte(i)
    <3>1. CASE i <= req.resp_header
      <4>1. i \in 1..req.resp_header /\ 0 + i - 1 = i - 1
        BY <2>1, <3>1
      <4> QED BY <2>4, <2>7, <3>1, <4>1 DEF AnswerByte
    <3>2. CASE ~(i <= req.resp_header)
      <4>1. i - req.resp_header \in 1..declared
            /\ i \in (req.resp_header + 1)..(req.resp_header + declared)
            /\ 0 + (i - req.resp_header) - 1 = i - req.resp_header - 1
        BY <2>1, <3>2
      <4> QED BY <2>5, <2>7, <3>2, <4>1 DEF AnswerByte
    <3> QED BY <3>1, <3>2
  <2>9. /\ wire = [i \in 1..Len(wire) |-> wire[i]]
        /\ Answer = [i \in 1..Len(Answer) |-> Answer[i]]
    BY <2>1, <2>7
  <2>10. Len(wire) = Len(Answer) /\ \A i \in 1..Len(wire) : wire[i] = Answer[i]
    BY <2>2, <2>3, <2>7, <2>8
  <2> QED BY <2>9, <2>10, Zenon
<1> QED BY SendInvariance, <1>1, PTL
=============================================================================
