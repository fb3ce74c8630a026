----------------------------- MODULE WebOutput -----------------------------
(***************************************************************************)
(* The output of one session of the web server (src/sbbs3/websrvr.c).      *)
(*                                                                         *)
(* Two threads share a ring buffer.  The session thread (                  *)
(* http_session_thread) answers requests: it writes the headers of a       *)
(* response, waits with drain_outbuf() until they are sent, and only then  *)
(* says, in write_chunked, how the body is to be framed.  The output       *)
(* thread (http_output_thread) moves what the buffer holds to the socket,  *)
(* framed by the write_chunked it has read before.  The mutex outbuf_write *)
(* is held from the read of the buffer to the end of the send.             *)
(*                                                                         *)
(* A response may be chunked, has a body or not (HEAD, 304), and may be the *)
(* last of its connection.  Waits on the semaphores and the event of the   *)
(* buffer all have a time limit, after which the thread looks again; they  *)
(* are left out.  The socket is plain TCP.                                 *)
(***************************************************************************)
EXTENDS RingBuf

CONSTANTS
    HighWater,   \* outbuf.highwater_mark, from the socket's MSS; 0 if unknown
    MaxRequests, \* bound: requests of a session
    MaxBody,     \* bound: bytes of a body
    MaxPiece     \* bound: bytes of the headers, and of one call of writebuf()

ASSUME HighWaterAssumption == HighWater \in Nat
ASSUME BoundAssumption == MaxRequests \in Nat /\ MaxBody \in Nat /\ MaxPiece \in Nat

VARIABLES
    ring,          \* session->outbuf: bytes with a number and the framing they want
    open,          \* session->socket is valid
    write_chunked, \* session->req.write_chunked
    mutex,         \* who holds outbuf_write: "nobody" or "output"
    initialized,   \* session->outbuf_write_initialized
    spc, cont,     \* where the session thread is, and goes on after a call
    req,           \* the request it answers
    todo,          \* what writebuf() has not yet written
    room,          \* avail of writebuf()
    opc,           \* where the output thread is
    avail,         \* avail of the output thread
    chunked,       \* its copy of write_chunked
    hand,          \* what it has read from the buffer and not sent
    failed,        \* a send has failed
    requests,      \* ghost: the number of requests so far
    made,          \* ghost: the number of bytes made so far
    wire           \* ghost: what the client got, each byte as it was framed

shared == <<ring, open, write_chunked, mutex, initialized>>
session == <<spc, cont, req, todo, room, requests, made>>
output == <<opc, avail, chunked, hand, failed, wire>>
vars == <<shared, session, output>>

NoRequest == [chunked |-> FALSE, content |-> FALSE, keep |-> FALSE, left |-> 0]

Init ==
    /\ ring = RingBufInit([n |-> 0, chunk |-> FALSE])
    /\ open = TRUE /\ write_chunked = FALSE
    /\ mutex = "nobody" /\ initialized = FALSE
    /\ spc = "start" /\ cont = "start"
    /\ req = NoRequest /\ todo = <<>> /\ room = 0
    /\ requests = 0 /\ made = 0
    /\ opc = "start" /\ avail = 0 /\ chunked = FALSE /\ hand = <<>> /\ failed = FALSE
    /\ wire = <<>>

-----------------------------------------------------------------------------
(* The session thread. *)

\* A call of writebuf() with k more bytes, after which the thread goes on at
\* stage; nothing is written when the response has no content.
WriteBuf(k, chunk, stage) ==
    /\ todo' = [i \in 1 .. k |-> [n |-> made + i, chunk |-> chunk]]
    /\ made' = made + k
    /\ spc' = "write" /\ cont' = stage

\* A call of drain_outbuf().
Drain(stage) == spc' = "drain" /\ cont' = stage

\* The client is let in, or the socket is closed at once.
Admit ==
    /\ spc = "start"
    /\ \/ spc' = "idle" /\ UNCHANGED open
       \/ spc' = "wait" /\ open' = FALSE
    /\ UNCHANGED <<ring, write_chunked, mutex, initialized,
                   cont, req, todo, room, requests, made, output>>

\* session.req is cleared, a request read and answered with headers.  keep is
\* FALSE also when the server terminates.
BeginRequest(ch, content, keep) ==
    /\ spc = "idle" /\ requests < MaxRequests
    /\ requests' = requests + 1
    /\ write_chunked' = FALSE
    /\ req' = [chunked |-> ch, content |-> content, keep |-> keep, left |-> MaxBody]
    /\ \E k \in 1 .. MaxPiece : WriteBuf(k, FALSE, "headers")
    /\ UNCHANGED <<ring, open, mutex, initialized, room, output>>

\* The client was silent for too long, or the server terminates.
EndSession ==
    /\ spc = "idle"
    /\ write_chunked' = FALSE
    /\ Drain("close")
    /\ UNCHANGED <<ring, open, mutex, initialized,
                   req, todo, room, requests, made, output>>

\* The client has closed its side, or a read fails: in the first line of a request,
\* in its headers or in its body.  sockreadline() and recvbufsocket() close the
\* socket at once.  No answer is written then: send_headers() and send_error()
\* return and leave send_content FALSE.
ReadFails ==
    /\ spc = "idle"
    /\ open' = FALSE
    /\ write_chunked' = FALSE
    /\ req' = NoRequest
    /\ spc' = "finish"
    /\ UNCHANGED <<ring, mutex, initialized, cont, todo, room, requests, made, output>>

\* Mutant: send_headers() does not wait.
HeadersUndrained ==
    /\ spc = "headers"
    /\ spc' = "frame"
    /\ UNCHANGED <<shared, cont, req, todo, room, requests, made, output>>

\* The headers are written: send_headers() waits until they are sent.
HeadersWritten ==
    /\ spc = "headers"
    /\ Drain("frame")
    /\ UNCHANGED <<shared, req, todo, room, requests, made, output>>

\* It says how the body is framed.
SetFraming ==
    /\ spc = "frame"
    /\ write_chunked' = req.chunked
    /\ spc' = "body"
    /\ UNCHANGED <<ring, open, mutex, initialized,
                   cont, req, todo, room, requests, made, output>>

\* A piece of the body; nothing is written for a response without content.
WriteBody ==
    /\ spc = "body" /\ req.content
    /\ \E k \in 1 .. MaxPiece :
           /\ k <= req.left
           /\ req' = [req EXCEPT !.left = req.left - k]
           /\ WriteBuf(k, req.chunked, "body")
    /\ UNCHANGED <<shared, room, requests, output>>

\* close_request(): a chunked body gets its last, empty chunk.
CloseRequest ==
    /\ spc = "body"
    /\ IF write_chunked THEN Drain("trailer") ELSE spc' = "finish" /\ UNCHANGED cont
    /\ UNCHANGED <<shared, req, todo, room, requests, made, output>>

Trailer ==
    /\ spc = "trailer"
    /\ write_chunked' = FALSE
    /\ \E after \in {"finish", "last"} :
           IF req.content THEN WriteBuf(1, FALSE, after)
           ELSE spc' = after /\ UNCHANGED <<cont, todo, made>>
    /\ UNCHANGED <<ring, open, mutex, initialized, req, room, requests, output>>

\* A server-side script ends its response with send_headers(), which waits.
LastHeaders ==
    /\ spc = "last"
    /\ Drain("finish")
    /\ UNCHANGED <<shared, req, todo, room, requests, made, output>>

\* The next request of the connection, or its end.
FinishRequest ==
    /\ spc = "finish"
    /\ IF req.keep THEN spc' = "idle" /\ UNCHANGED cont ELSE Drain("close")
    /\ UNCHANGED <<shared, req, todo, room, requests, made, output>>

\* close_session_socket().
CloseSocket ==
    /\ spc = "close"
    /\ open' = FALSE
    /\ spc' = "wait"
    /\ UNCHANGED <<ring, write_chunked, mutex, initialized,
                   cont, req, todo, room, requests, made, output>>

\* It waits for the end of the output thread and frees the buffer.
Dispose ==
    /\ spc = "wait" /\ opc = "done"
    /\ spc' = "done"
    /\ UNCHANGED <<shared, cont, req, todo, room, requests, made, output>>

\* writebuf(): the room in the buffer is found out, and used.
FindRoom ==
    /\ spc = "write" /\ todo # <<>>
    /\ RingBufFree(ring) > 0
    /\ room' = RingBufFree(ring)
    /\ spc' = "room"
    /\ UNCHANGED <<shared, cont, req, todo, requests, made, output>>

UseRoom ==
    LET k == IF room > Len(todo) THEN Len(todo) ELSE room
    IN  /\ spc = "room"
        /\ ring' = RingBufWrite(ring, SubSeq(todo, 1, k))
        /\ todo' = SubSeq(todo, k + 1, Len(todo))
        /\ spc' = "write"
        /\ UNCHANGED <<open, write_chunked, mutex, initialized,
                       cont, req, room, requests, made, output>>

AllWritten ==
    /\ spc = "write" /\ todo = <<>>
    /\ spc' = cont
    /\ UNCHANGED <<shared, cont, req, todo, room, requests, made, output>>

\* drain_outbuf() returns when there is no socket ...
DrainClosed ==
    /\ spc = "drain" /\ ~open
    /\ spc' = cont
    /\ UNCHANGED <<shared, cont, req, todo, room, requests, made, output>>

\* ... or the buffer is empty, the mutex exists, and it is free.
DrainEmpty ==
    /\ spc = "drain" /\ open /\ RingBufFull(ring) = 0
    /\ spc' = "drain ready"
    /\ UNCHANGED <<shared, cont, req, todo, room, requests, made, output>>

\* Mutant: outbuf_write_initialized is not looked at.
DrainReadyOrNot ==
    /\ spc = "drain ready"
    /\ spc' = "drain lock"
    /\ UNCHANGED <<shared, cont, req, todo, room, requests, made, output>>

DrainReady ==
    /\ spc = "drain ready" /\ initialized
    /\ spc' = "drain lock"
    /\ UNCHANGED <<shared, cont, req, todo, room, requests, made, output>>

\* Mutant: the buffer is empty, so everything is sent.
DrainUnlocked ==
    /\ spc = "drain lock"
    /\ spc' = cont
    /\ UNCHANGED <<shared, cont, req, todo, room, requests, made, output>>

DrainLock ==
    /\ spc = "drain lock" /\ mutex = "nobody"
    /\ spc' = cont
    /\ UNCHANGED <<shared, cont, req, todo, room, requests, made, output>>

-----------------------------------------------------------------------------
(* The output thread. *)

\* At most so many bytes are sent at once.
Mss == IF HighWater = 0 \/ HighWater > Size THEN Size ELSE HighWater

OutputStart ==
    /\ opc = "start"
    /\ initialized' = TRUE
    /\ opc' = "top"
    /\ UNCHANGED <<ring, open, write_chunked, mutex, session,
                   avail, chunked, hand, failed, wire>>

\* The loop ends when the socket is closed; else there is something to send.
SocketClosed ==
    /\ opc = "top" /\ ~open
    /\ opc' = "exit"
    /\ UNCHANGED <<shared, session, avail, chunked, hand, failed, wire>>

\* Mutant: the post of the semaphore is taken for a byte in the buffer.
SomethingPosted ==
    /\ opc = "top" /\ open
    /\ avail' = RingBufFull(ring)
    /\ opc' = IF HighWater # 0 /\ RingBufFull(ring) < HighWater THEN "hold" ELSE "frame"
    /\ UNCHANGED <<shared, session, chunked, hand, failed, wire>>

SomethingToSend ==
    /\ opc = "top" /\ open /\ RingBufFull(ring) > 0
    /\ avail' = RingBufFull(ring)
    /\ opc' = IF HighWater # 0 /\ RingBufFull(ring) < HighWater THEN "hold" ELSE "frame"
    /\ UNCHANGED <<shared, session, chunked, hand, failed, wire>>

\* The high-water mark is reached or outbuf_drain_timeout is over.
HoldEnds ==
    /\ opc = "hold"
    /\ avail' = RingBufFull(ring)
    /\ opc' = "frame"
    /\ UNCHANGED <<shared, session, chunked, hand, failed, wire>>

ReadFraming ==
    /\ opc = "frame"
    /\ avail' = IF avail > Mss THEN Mss ELSE avail
    /\ chunked' = write_chunked
    /\ opc' = "lock"
    /\ UNCHANGED <<shared, session, hand, failed, wire>>

LockOutput ==
    /\ opc = "lock" /\ mutex = "nobody"
    /\ mutex' = "output"
    /\ opc' = "read"
    /\ UNCHANGED <<ring, open, write_chunked, initialized, session,
                   avail, chunked, hand, failed, wire>>

ReadBuffer ==
    /\ opc = "read"
    /\ hand' = ReadBytes(ring, avail)
    /\ ring' = RingBufRead(ring, avail)
    /\ opc' = "send"
    /\ UNCHANGED <<open, write_chunked, mutex, initialized, session,
                   avail, chunked, failed, wire>>

Framed(s) == [i \in DOMAIN s |-> [n |-> s[i].n, chunk |-> s[i].chunk, framed |-> chunked]]

\* Mutant: the thread ends when a send fails.
SendOrEnd ==
    /\ opc = "send"
    /\ \/ wire' = wire \o Framed(hand) /\ UNCHANGED failed /\ opc' = "top"
       \/ failed' = TRUE /\ UNCHANGED wire /\ opc' = "exit"
    /\ hand' = <<>>
    /\ mutex' = "nobody"
    /\ UNCHANGED <<ring, open, write_chunked, initialized, session, avail, chunked>>

\* sess_sendbuf() sends everything, or fails after a part of it: the client is
\* gone or took nothing for too long.  From then on, and when there is no socket,
\* nothing is sent any more.
Send ==
    /\ opc = "send"
    /\ \/ ~failed /\ open /\ wire' = wire \o Framed(hand) /\ UNCHANGED failed
       \/ ~failed /\ open /\ failed' = TRUE
          /\ \E k \in 0 .. Len(hand) - 1 : wire' = wire \o Framed(SubSeq(hand, 1, k))
       \/ (failed \/ ~open) /\ failed' = TRUE /\ UNCHANGED wire
    /\ hand' = <<>>
    /\ mutex' = "nobody"
    /\ opc' = "top"
    /\ UNCHANGED <<ring, open, write_chunked, initialized, session, avail, chunked>>

OutputEnds ==
    /\ opc = "exit" /\ mutex = "nobody"
    /\ initialized' = FALSE
    /\ opc' = "done"
    /\ UNCHANGED <<ring, open, write_chunked, mutex, session,
                   avail, chunked, hand, failed, wire>>

-----------------------------------------------------------------------------
Session ==
    \/ Admit
    \/ \E ch, content, keep \in BOOLEAN : BeginRequest(ch, content, keep)
    \/ EndSession \/ ReadFails
    \/ HeadersWritten \/ SetFraming \/ WriteBody \/ CloseRequest \/ Trailer \/ LastHeaders
    \/ FinishRequest \/ CloseSocket \/ Dispose
    \/ FindRoom \/ UseRoom \/ AllWritten
    \/ DrainClosed \/ DrainEmpty \/ DrainReady \/ DrainLock

Output ==
    \/ OutputStart \/ SocketClosed \/ SomethingToSend \/ HoldEnds \/ ReadFraming
    \/ LockOutput \/ ReadBuffer \/ Send \/ OutputEnds

Next == Session \/ Output

Spec == Init /\ [][Next]_vars

\* Both threads run; a send ends, by its own time limit if need be.
FairSpec == Spec /\ WF_vars(Session) /\ WF_vars(Output)

-----------------------------------------------------------------------------
(* Properties. *)

\* Every byte reaches the client framed as its part of the response wants:
\* "we wait until the ring buffer is empty before fiddling with" write_chunked,
\* which the output thread reads before it locks the mutex.
RightFraming == \A i \in 1 .. Len(wire) : wire[i].framed = wire[i].chunk

\* When drain_outbuf() returns and the socket was not closed before, all that was
\* written is sent, or the client is gone: no byte is in the buffer nor in the hand
\* of the output thread.  A failed read closes it with bytes of the response before
\* still there, and nobody waits for them.
Drained == spc \in {"frame", "trailer", "close"} /\ open =>
    /\ RingBufFull(ring) = 0 /\ hand = <<>>
    /\ failed \/ Len(wire) = made

\* The output thread never sends a chunk without a byte, which would end the
\* response; it finds the buffer as full after its waits as it was before.
NoEmptyChunk == opc = "send" => hand # <<>>

\* drain_outbuf() looks at outbuf_write_initialized and then locks the mutex:
\* it still exists, although the output thread makes and destroys it unasked.
MutexExists == spc = "drain lock" => initialized

\* The client gets the bytes in the order they were written: module ByteStream.
Stream == INSTANCE ByteStream WITH
    accepted <- made - Len(todo),
    delivered <- [i \in DOMAIN wire |-> wire[i].n]
InOrder == Stream!Spec

\* A request is answered to its end and the session thread ends when its socket
\* is closed, even if the client has stopped reading or a read has failed.
EveryRequestEnds ==
    /\ spc \notin {"start", "idle", "wait", "done"} ~> spc \in {"idle", "wait"}
    /\ ~open ~> spc = "done"
=============================================================================
