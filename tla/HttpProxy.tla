----------------------------- MODULE HttpProxy ------------------------------
(***************************************************************************)
(* One proxied request (src/http): the HttpConnection that serves a        *)
(* client and the BackendConnection it opens, two handlers of one          *)
(* EventLoop that call each other through raw pointers and hold each other *)
(* back when a peer is slow.                                               *)
(*                                                                         *)
(* The handlers call back into each other while they are still running, so *)
(* the call stack is part of the state: todo lists the parts of functions  *)
(* that remain to be run, innermost first.  Bytes are counted, in units.   *)
(* The kernel (socket buffers and edge-triggered epoll) and the two peers  *)
(* move between any two of these steps.                                    *)
(***************************************************************************)
EXTENDS Integers, Sequences

CONSTANTS
  kBackpressureHigh, kBackpressureLow,
  Chunk,         \* the 16 KiB buffer of pump_read and on_readable
  SockBuf,       \* bound: units a socket buffer holds
  HeadLen,       \* units of the request head
  ReplyLen,      \* units of a response of castle's own
  MaxContent,    \* bound: largest Content-Length
  MaxResponse,   \* bound: units of the backend's response
  Tls,           \* the transport is TLS: either call may block either way
  Timeouts,      \* timeout_ > 0: idle handlers are swept
  Faults         \* which of "clientReset", "backendReset", "refused",
                 \* "addFails" may happen

ASSUME ConstantsAssumption ==
  /\ kBackpressureHigh \in Nat \ {0} /\ kBackpressureLow \in Nat
  /\ kBackpressureLow <= kBackpressureHigh
  /\ Chunk \in Nat \ {0} /\ SockBuf \in Nat \ {0}
  /\ HeadLen \in Nat \ {0} /\ ReplyLen \in Nat \ {0}
  /\ MaxContent \in Nat /\ MaxResponse \in Nat
  /\ Tls \in BOOLEAN /\ Timeouts \in BOOLEAN
  /\ Faults \subseteq {"clientReset", "backendReset", "refused", "addFails"}

VARIABLES
  c,        \* the HttpConnection
  b,        \* the BackendConnection
  net,      \* the kernel's side of the two sockets
  left,     \* bounds: units each peer may still send
  todo,     \* the call stack of the loop's thread
  phase,    \* EventLoop::run: waiting in epoll_wait, or running a batch
  batch,    \* events of the batch not dispatched yet
  queued,   \* fds in epoll's ready list
  closing,  \* pending_close_
  crashed   \* a null pointer has been dereferenced

envVars == <<net, left>>
loopVars == <<phase, batch, queued>>
vars == <<c, b, envVars, todo, loopVars, closing, crashed>>

-----------------------------------------------------------------------------
(* The two handlers as constructed, and their sockets.                     *)

Fds == {"client", "backend"}

HttpConnection ==
  [alive |-> TRUE, state |-> "ReadingHead", in |-> 0, out |-> 0,
   bodyLeft |-> 0, backend |-> FALSE, responded |-> FALSE,
   relayed |-> FALSE, replied |-> FALSE,   \* what responded_ stands for
   handshake |-> FALSE, closed |-> FALSE, eof |-> FALSE,
   readPaused |-> FALSE, backendPaused |-> FALSE, interest |-> {"in"},
   readBlock |-> "r", writeBlock |-> "ok", idle |-> FALSE]

NoBackend ==
  [alive |-> FALSE, client |-> FALSE, out |-> 0, connected |-> FALSE,
   readPaused |-> FALSE, highWater |-> FALSE, interest |-> {"out"},
   idle |-> FALSE]

BackendConnection == [NoBackend EXCEPT !.alive = TRUE, !.client = TRUE]

FreshSocket(up) ==
  [up |-> up, rcv |-> 0, eof |-> FALSE, err |-> FALSE, space |-> SockBuf]

AtMost(n, bound) == IF n < bound THEN n ELSE bound

Init ==
  /\ c = HttpConnection /\ b = NoBackend
  /\ net = [client |-> FreshSocket(TRUE), backend |-> FreshSocket(FALSE)]
  /\ left = [client |-> HeadLen + MaxContent, backend |-> MaxResponse]
  /\ todo = <<>> /\ phase = "wait" /\ batch = {} /\ queued = {}
  /\ closing = {} /\ crashed = FALSE

-----------------------------------------------------------------------------
(* Edge-triggered epoll: an fd enters the ready list when something it is  *)
(* registered for happens, or when a registration finds it ready; what is  *)
(* reported is what is ready when epoll_wait returns it.                   *)

Ready(fd) ==
  LET s == net[fd] IN
    {e \in {"in", "out", "err"} :
       \/ e = "in" /\ (s.rcv > 0 \/ s.eof \/ s.err)
       \/ e = "out" /\ ((s.up /\ s.space > 0) \/ s.err)
       \/ e = "err" /\ s.err}

Interest(fd) == (IF fd = "client" THEN c.interest ELSE b.interest) \cup {"err"}

\* EventLoop::update, called only when the interest has changed.
Update(q, fd, old, new) ==
  IF new # old /\ Ready(fd) \cap (new \cup {"err"}) # {}
  THEN q \cup {fd} ELSE q

\* What epoll hears of when event e happens on fd.
Wake(fd, e) == queued' = IF e \in Interest(fd) THEN queued \cup {fd} ELSE queued

-----------------------------------------------------------------------------
(* The call stack.                                                         *)

Doing(f) == todo # <<>> /\ Head(todo) = f /\ ~crashed

\* The function at the top returns, or is replaced by the calls left in it.
Return == todo' = Tail(todo)
Then(calls) == todo' = calls \o Tail(todo)

-----------------------------------------------------------------------------
(* HttpConnection: closing and interest.                                   *)

\* Mutant: the backend keeps its pointer to a client that goes away.
DetachClientNot(bb) == bb

DetachClient(bb) == [bb EXCEPT !.client = FALSE]

\* close_both, on records cc and bb.
CloseBoth(cc, bb) ==
  IF cc.closed
  THEN c' = cc /\ b' = bb /\ UNCHANGED closing
  ELSE /\ c' = [cc EXCEPT !.closed = TRUE, !.backend = FALSE]
       /\ b' = IF cc.backend THEN DetachClient(bb) ELSE bb
       /\ closing' = closing \cup {"client"} \cup (IF cc.backend THEN {"backend"} ELSE {})

\* What the write side waits for, while response bytes are buffered.
WriteWants(cc) ==
  IF cc.out = 0 THEN {} ELSE IF cc.writeBlock = "r" THEN {"in"} ELSE {"out"}

\* Mutant: a read that waits for writability asks for readability.
ReadWantsUncrossed(cc) == IF cc.readPaused \/ cc.eof THEN {} ELSE {"in"}

\* What the read side waits for, unless paused or past the client's EOF.
ReadWants(cc) ==
  IF cc.readPaused \/ cc.eof THEN {} ELSE IF cc.readBlock = "w" THEN {"out"} ELSE {"in"}

\* The events recompute_interest asks for (its last default never applies: a
\* connection that may read already waits for one of the two).
Wanted(cc) == ReadWants(cc) \cup WriteWants(cc)

\* set_interest on the client's fd, whose record becomes cc.
SetInterest(cc, q, ev) ==
  /\ c' = [cc EXCEPT !.interest = ev]
  /\ queued' = Update(q, "client", cc.interest, ev)

RecomputeInterest ==
  /\ Doing("recompute_interest")
  /\ IF c.closed THEN UNCHANGED <<c, queued>> ELSE SetInterest(c, queued, Wanted(c))
  /\ Return
  /\ UNCHANGED <<b, envVars, phase, batch, closing, crashed>>

-----------------------------------------------------------------------------
(* HttpConnection::drive.                                                  *)

NothingToRead == net.client.rcv = 0 /\ ~net.client.eof /\ ~net.client.err

\* Plaintext needs no handshake; a TLS one may block either way or fail.
Drive ==
  /\ Doing("drive")
  /\ UNCHANGED <<envVars, phase, batch, crashed>>
  /\ \/ /\ c.closed
        /\ Return /\ UNCHANGED <<c, b, queued, closing>>
     \/ /\ ~c.closed /\ c.handshake
        /\ Then(<<"pump_read", "drive_write">>)
        /\ UNCHANGED <<c, b, queued, closing>>
     \/ /\ ~c.closed /\ ~c.handshake /\ (Tls => net.client.rcv > 0)
        /\ c' = [c EXCEPT !.handshake = TRUE, !.idle = FALSE]
        /\ Then(<<"pump_read", "drive_write">>)
        /\ UNCHANGED <<b, queued, closing>>
     \/ /\ ~c.closed /\ ~c.handshake /\ Tls
        /\ \/ NothingToRead /\ SetInterest(c, queued, {"in"})
           \/ net.client.space = 0 /\ SetInterest(c, queued, {"out"})
        /\ Return /\ UNCHANGED <<b, closing>>
     \/ /\ ~c.closed /\ ~c.handshake /\ Tls
        /\ CloseBoth(c, b)
        /\ Return /\ UNCHANGED queued

\* After pump_read: the write pump, then the interest.
DriveWrite ==
  /\ Doing("drive_write")
  /\ IF c.closed THEN Return ELSE Then(<<"pump_write", "recompute_interest">>)
  /\ UNCHANGED <<c, b, envVars, loopVars, closing, crashed>>

-----------------------------------------------------------------------------
(* pump_read and the request.                                              *)

Receiving == Doing("pump_read") /\ ~c.closed /\ ~c.readPaused /\ ~c.eof

\* Closed by the last bytes, paused, or past the end of the request.
PumpReadStop ==
  /\ Doing("pump_read") /\ (c.closed \/ c.readPaused \/ c.eof)
  /\ c' = IF c.closed THEN c ELSE [c EXCEPT !.readBlock = "r"]
  /\ Return
  /\ UNCHANGED <<b, envVars, loopVars, closing, crashed>>

PumpReadBlock ==
  /\ Receiving /\ net.client.rcv = 0 /\ ~net.client.err
  /\ \/ ~net.client.eof /\ c' = [c EXCEPT !.readBlock = "r"]
     \/ Tls /\ net.client.space = 0 /\ c' = [c EXCEPT !.readBlock = "w"]
  /\ Return
  /\ UNCHANGED <<b, envVars, loopVars, closing, crashed>>

\* EOF: a half-close once the request has been forwarded, else an abort.  TLS
\* reports a transport error the same way.
PumpReadEof ==
  /\ Receiving /\ net.client.rcv = 0
  /\ net.client.eof \/ (Tls /\ net.client.err)
  /\ IF c.state \in {"Streaming", "Closing"}
     THEN /\ c' = [c EXCEPT !.eof = TRUE, !.readBlock = "r"]
          /\ UNCHANGED <<b, closing>>
     ELSE CloseBoth(c, b)
  /\ Return
  /\ UNCHANGED <<envVars, loopVars, crashed>>

PumpReadError ==
  /\ Receiving /\ net.client.rcv = 0 /\ net.client.err
  /\ CloseBoth(c, b)
  /\ Return
  /\ UNCHANGED <<envVars, loopVars, crashed>>

\* BackendConnection::send up to its flush.
Queued(bb, n) ==
  [bb EXCEPT !.out = @ + n,
             !.highWater = @ \/ bb.out + n > kBackpressureHigh]

\* How much of n bytes belongs to the request's body.
Take(cc, n) == AtMost(n, cc.bodyLeft)

\* forward_body on record cc, from a function that then goes on with rest.  The
\* code lowers body_remaining_ after the send; nothing send calls looks at it (a
\* client that is reading is not paused, so on_backend_drained returns at once).
ForwardBody(cc, bb, n, rest) ==
  IF ~cc.backend
  THEN c' = cc /\ b' = bb /\ Then(rest)
  ELSE LET take == Take(cc, n) IN
         /\ c' = [cc EXCEPT !.bodyLeft = @ - take]
         /\ b' = Queued(bb, take)
         /\ Then((IF bb.connected THEN <<"flush">> ELSE <<>>)
                   \o <<"forward_body_rest">> \o rest)

\* recv gave bytes: handle_client_bytes by state, then the loop again.
PumpReadData ==
  /\ Receiving /\ net.client.rcv > 0
  /\ LET n  == AtMost(net.client.rcv, Chunk)
         cc == [c EXCEPT !.idle = FALSE]
     IN /\ net' = [net EXCEPT !.client.rcv = @ - n]
        /\ \/ /\ c.state = "ReadingHead"
              /\ c' = [cc EXCEPT !.in = @ + n]
              /\ Then(<<"process_head", "pump_read">>)
              /\ UNCHANGED b
           \/ /\ c.state = "StreamingUp"
              /\ ForwardBody(cc, b, n, <<"pump_read">>)
           \/ /\ c.state \in {"Streaming", "Closing"}
              /\ c' = cc
              /\ UNCHANGED <<b, todo>>
  /\ UNCHANGED <<left, loopVars, closing, crashed>>

\* Mutant: the client is never paused.
NeverBackedUp(bb) == FALSE

BackedUp(bb) == bb.out > kBackpressureHigh

\* forward_body after the send, which may have lost the backend.
ForwardBodyRest ==
  /\ Doing("forward_body_rest")
  /\ \/ /\ c.bodyLeft = 0
        /\ c' = [c EXCEPT !.state = "Streaming"]
        /\ Return /\ UNCHANGED crashed
     \/ /\ c.bodyLeft > 0 /\ c.backend
        /\ c' = [c EXCEPT !.readPaused = @ \/ BackedUp(b)]
        /\ Return /\ UNCHANGED crashed
     \/ /\ c.bodyLeft > 0 /\ ~c.backend
        /\ crashed' = TRUE
        /\ UNCHANGED <<c, todo>>
  /\ UNCHANGED <<b, envVars, loopVars, closing>>

\* The head is not complete yet.
ProcessHeadIncomplete ==
  /\ Doing("process_head") /\ c.in < HeadLen
  /\ Return
  /\ UNCHANGED <<c, b, envVars, loopVars, closing, crashed>>

\* A head castle rejects: malformed, too large, framed badly, chunked, with too
\* large a body, or without a route (400, 431, 501, 413, 404).
ProcessHeadReject ==
  /\ Doing("process_head")
  /\ Then(<<"send_response">>)
  /\ UNCHANGED <<c, b, envVars, loopVars, closing, crashed>>

\* A /_castle/ path, answered on the spot; a HEAD gets the head only.
HandleInternal ==
  /\ Doing("process_head") /\ c.in >= HeadLen
  /\ Then(<<"send_response">>) \/ Then(<<"send_head">>)
  /\ UNCHANGED <<c, b, envVars, loopVars, closing, crashed>>

\* A routed request whose backend cannot be dialled (502).
StartBackendFails ==
  /\ Doing("process_head") /\ c.in >= HeadLen
  /\ \E length \in 0..MaxContent : c' = [c EXCEPT !.bodyLeft = length]
  /\ Then(<<"send_response">>)
  /\ UNCHANGED <<b, envVars, loopVars, closing, crashed>>

\* A routed request: start_backend queues the head and registers the backend
\* (a failed registration destroys it), then the body read so far follows.
ProcessHeadForward ==
  /\ Doing("process_head") /\ c.in >= HeadLen
  /\ \E length \in 0..MaxContent, added \in BOOLEAN :
       LET bb == IF added THEN Queued(BackendConnection, 1) ELSE NoBackend
           cc == [c EXCEPT !.in = 0, !.bodyLeft = length, !.backend = added,
                           !.state = IF length = 0 THEN "Streaming" ELSE "StreamingUp"]
       IN /\ ~added => "addFails" \in Faults
          /\ IF length > 0 /\ c.in > HeadLen
             THEN ForwardBody(cc, bb, c.in - HeadLen, <<>>)
             ELSE c' = cc /\ b' = bb /\ Return
  /\ UNCHANGED <<envVars, loopVars, closing, crashed>>

\* send_response, with or without a body (a HEAD request).
SendResponse(f, n) ==
  /\ Doing(f)
  /\ c' = [c EXCEPT !.out = n, !.responded = TRUE, !.replied = TRUE,
                    !.state = "Closing"]
  /\ Then(<<"pump_write", "recompute_interest">>)
  /\ UNCHANGED <<b, envVars, loopVars, closing, crashed>>

-----------------------------------------------------------------------------
(* pump_write.                                                             *)

PumpWriteSome ==
  /\ Doing("pump_write") /\ c.out > 0 /\ ~net.client.err /\ net.client.space > 0
  /\ LET n == AtMost(c.out, net.client.space) IN
       /\ c' = [c EXCEPT !.out = @ - n, !.idle = FALSE]
       /\ net' = [net EXCEPT !.client.space = @ - n]
  /\ UNCHANGED <<b, left, todo, loopVars, closing, crashed>>

PumpWriteBlock ==
  /\ Doing("pump_write") /\ c.out > 0 /\ ~net.client.err
  /\ \/ net.client.space = 0 /\ c' = [c EXCEPT !.writeBlock = "w"]
     \/ Tls /\ NothingToRead /\ c' = [c EXCEPT !.writeBlock = "r"]
  /\ Return
  /\ UNCHANGED <<b, envVars, loopVars, closing, crashed>>

PumpWriteError ==
  /\ Doing("pump_write") /\ c.out > 0 /\ net.client.err
  /\ CloseBoth(c, b)
  /\ Return
  /\ UNCHANGED <<envVars, loopVars, crashed>>

Resumes == c.backendPaused /\ c.backend

\* out_ is empty: let a paused backend read on, then look at the state.
PumpWriteDrained ==
  /\ Doing("pump_write") /\ c.out = 0
  /\ IF Resumes
     THEN /\ c' = [c EXCEPT !.backendPaused = FALSE]
          /\ Then(<<"resume_reads", "pump_write_end">>)
     ELSE Then(<<"pump_write_end">>) /\ UNCHANGED c
  /\ UNCHANGED <<b, envVars, loopVars, closing, crashed>>

PumpWriteEnd ==
  /\ Doing("pump_write_end")
  /\ LET cc == [c EXCEPT !.writeBlock = "ok"] IN
       IF c.state = "Closing" THEN CloseBoth(cc, b)
       ELSE c' = cc /\ UNCHANGED <<b, closing>>
  /\ Return
  /\ UNCHANGED <<envVars, loopVars, crashed>>

-----------------------------------------------------------------------------
(* BackendConnection: interest, reads, and the client's callbacks.         *)

\* The events apply_interest asks for.
BackendWanted(bb) ==
  IF ~bb.connected THEN {"out"}
  ELSE (IF bb.readPaused THEN {} ELSE {"in"}) \cup (IF bb.out > 0 THEN {"out"} ELSE {})

\* apply_interest on the backend, whose record becomes bb.
ApplyInterest(bb, q) == Update(q, "backend", bb.interest, BackendWanted(bb))
Applied(bb) == [bb EXCEPT !.interest = BackendWanted(bb)]

ResumeReads ==
  /\ Doing("resume_reads")
  /\ IF b.readPaused
     THEN LET bb == [b EXCEPT !.readPaused = FALSE] IN
            /\ b' = Applied(bb) /\ queued' = ApplyInterest(bb, queued)
            /\ Then(<<"on_readable">>)
     ELSE Return /\ UNCHANGED <<b, queued>>
  /\ UNCHANGED <<c, envVars, phase, batch, closing, crashed>>

\* deliver_to_client up to its pump_write.
Deliver(cc, n) ==
  [cc EXCEPT !.out = @ + n, !.responded = TRUE, !.relayed = TRUE]

PauseReads(bb) == [bb EXCEPT !.readPaused = TRUE]

\* Mutant: one read per event instead of a loop to EAGAIN.
DeliverOnce == <<"pump_write", "deliver_rest">>

\* The rest of deliver_to_client, then the loop again.
DeliverLoop == <<"pump_write", "deliver_rest", "on_readable">>

\* on_readable's loop: data is delivered to the client, if there is one.
BackendReadData ==
  /\ Doing("on_readable") /\ ~b.readPaused /\ net.backend.rcv > 0
  /\ LET n == AtMost(net.backend.rcv, Chunk) IN
       /\ net' = [net EXCEPT !.backend.rcv = @ - n]
       /\ b' = [b EXCEPT !.idle = FALSE]
       /\ IF b.client /\ ~c.closed
          THEN /\ c' = Deliver(c, n)
               /\ Then(DeliverLoop)
          ELSE UNCHANGED <<c, todo>>
  /\ UNCHANGED <<left, loopVars, closing, crashed>>

\* deliver_to_client after its pump_write: pause the backend if the client is
\* slow, and recompute the interest.
DeliverRest ==
  /\ Doing("deliver_rest")
  /\ IF c.closed THEN UNCHANGED <<c, b, queued>>
     ELSE LET pause == c.backend /\ ~c.backendPaused /\ c.out > kBackpressureHigh
              bb == PauseReads(b)
              cc == [c EXCEPT !.backendPaused = @ \/ pause]
              paused == pause /\ ~b.readPaused
          IN /\ b' = IF paused THEN Applied(bb) ELSE b
             /\ SetInterest(cc, IF paused THEN ApplyInterest(bb, queued) ELSE queued,
                            Wanted(cc))
  /\ Return
  /\ UNCHANGED <<envVars, phase, batch, closing, crashed>>

\* Paused, or EAGAIN.
BackendReadStop ==
  /\ Doing("on_readable")
  /\ \/ b.readPaused
     \/ net.backend.rcv = 0 /\ ~net.backend.eof /\ ~net.backend.err
  /\ Return
  /\ UNCHANGED <<c, b, envVars, loopVars, closing, crashed>>

BackendReadEof ==
  /\ Doing("on_readable") /\ ~b.readPaused
  /\ net.backend.rcv = 0 /\ net.backend.eof /\ ~net.backend.err
  /\ b' = [b EXCEPT !.client = FALSE]
  /\ Then(IF b.client THEN <<"on_backend_closed", "request_close">>
                      ELSE <<"request_close">>)
  /\ UNCHANGED <<c, envVars, loopVars, closing, crashed>>

BackendReadError ==
  /\ Doing("on_readable") /\ ~b.readPaused
  /\ net.backend.rcv = 0 /\ net.backend.err
  /\ Then(<<"fail">>)
  /\ UNCHANGED <<c, b, envVars, loopVars, closing, crashed>>

OnBackendClosed ==
  /\ Doing("on_backend_closed")
  /\ c' = [c EXCEPT !.backend = FALSE, !.state = "Closing"]
  /\ Then(<<"pump_write", "recompute_interest">>)
  /\ UNCHANGED <<b, envVars, loopVars, closing, crashed>>

RequestClose ==
  /\ Doing("request_close")
  /\ closing' = closing \cup {"backend"}
  /\ Return
  /\ UNCHANGED <<c, b, envVars, loopVars, crashed>>

\* Mutant: 502 even after response bytes.
OnBackendErrorAlways502(bb) ==
  LET cc == [c EXCEPT !.backend = FALSE] IN
    /\ c' = cc /\ b' = bb
    /\ Then(<<"send_response", "request_close">>) /\ UNCHANGED closing

\* on_backend_error: 502 if nothing was sent yet, else nothing but closing; the
\* backend, by then bb, then asks for its own close.
OnBackendError(bb) ==
  LET cc == [c EXCEPT !.backend = FALSE] IN
    \/ /\ ~c.responded
       /\ c' = cc /\ b' = bb
       /\ Then(<<"send_response", "request_close">>) /\ UNCHANGED closing
    \/ /\ c.responded
       /\ CloseBoth(cc, bb)
       /\ Then(<<"request_close">>)

Fail ==
  /\ Doing("fail")
  /\ IF b.client
     THEN OnBackendError(DetachClient(b))
     ELSE Then(<<"request_close">>) /\ UNCHANGED <<c, b, closing>>
  /\ UNCHANGED <<envVars, loopVars, crashed>>

-----------------------------------------------------------------------------
(* BackendConnection: writes.                                              *)

\* The first writable event: the connect has ended, well or not.
OnWritable ==
  /\ Doing("on_writable")
  /\ \/ /\ "backend" \in closing
        /\ Return /\ UNCHANGED b
     \/ /\ "backend" \notin closing /\ ~b.connected /\ net.backend.err
        /\ Then(<<"fail">>) /\ UNCHANGED b
     \/ /\ "backend" \notin closing /\ (b.connected \/ ~net.backend.err)
        /\ b' = IF b.connected THEN b ELSE [b EXCEPT !.connected = TRUE, !.idle = FALSE]
        /\ Then(<<"flush">>)
  /\ UNCHANGED <<c, envVars, loopVars, closing, crashed>>

FlushSome ==
  /\ Doing("flush") /\ b.out > 0 /\ ~net.backend.err /\ net.backend.space > 0
  /\ LET n == AtMost(b.out, net.backend.space) IN
       /\ b' = [b EXCEPT !.out = @ - n, !.idle = FALSE]
       /\ net' = [net EXCEPT !.backend.space = @ - n]
  /\ UNCHANGED <<c, left, todo, loopVars, closing, crashed>>

FlushError ==
  /\ Doing("flush") /\ b.out > 0 /\ net.backend.err
  /\ Then(<<"fail">>)
  /\ UNCHANGED <<c, b, envVars, loopVars, closing, crashed>>

\* Mutant: the client is not told that the buffer has drained.
NoNotice(bb) == <<>>

\* flush tells the client, once per episode, that the buffer has drained.
Drained(bb) == bb.highWater /\ bb.out < kBackpressureLow
Notice(bb) == IF Drained(bb) /\ bb.client THEN <<"on_backend_drained">> ELSE <<>>

\* All written or EAGAIN: below the low-water mark the client reads on.
FlushDone ==
  /\ Doing("flush")
  /\ b.out = 0 \/ (net.backend.space = 0 /\ ~net.backend.err)
  /\ b' = [b EXCEPT !.highWater = @ /\ ~Drained(b)]
  /\ Then(Notice(b) \o <<"apply_interest">>)
  /\ UNCHANGED <<c, envVars, loopVars, closing, crashed>>

FlushApplyInterest ==
  /\ Doing("apply_interest")
  /\ b' = Applied(b) /\ queued' = ApplyInterest(b, queued)
  /\ Return
  /\ UNCHANGED <<c, envVars, phase, batch, closing, crashed>>

\* Mutant: the client is unpaused but not driven.
OnBackendDrainedLazy ==
  /\ Doing("on_backend_drained")
  /\ IF c.closed \/ ~c.readPaused
     THEN Return /\ UNCHANGED c
     ELSE c' = [c EXCEPT !.readPaused = FALSE] /\ Return
  /\ UNCHANGED <<b, envVars, loopVars, closing, crashed>>

OnBackendDrained ==
  /\ Doing("on_backend_drained")
  /\ IF c.closed \/ ~c.readPaused
     THEN Return /\ UNCHANGED c
     ELSE c' = [c EXCEPT !.readPaused = FALSE] /\ Then(<<"drive">>)
  /\ UNCHANGED <<b, envVars, loopVars, closing, crashed>>

-----------------------------------------------------------------------------
(* EventLoop::run.                                                         *)

Idle == todo = <<>> /\ phase = "wait" /\ ~crashed

\* The sweep's timer is reported only when some handler has been idle.
EpollWait ==
  /\ Idle
  /\ \E timer \in BOOLEAN :
       LET ready == {fd \in queued : Ready(fd) \cap Interest(fd) # {}} IN
         /\ timer => Timeouts /\ ((c.alive /\ c.idle) \/ (b.alive /\ b.idle))
         /\ ready # {} \/ timer
         /\ batch' = {[fd |-> fd, ev |-> Ready(fd) \cap Interest(fd)] : fd \in ready}
                       \cup (IF timer THEN {[fd |-> "timer", ev |-> {}]} ELSE {})
  /\ queued' = {} /\ phase' = "run"
  /\ UNCHANGED <<c, b, envVars, todo, closing, crashed>>

\* sweep_timeouts looks at every handler, in the order of a hash table.
SweepTimeouts ==
  {<<"timeout_client", "timeout_backend">>, <<"timeout_backend", "timeout_client">>}

\* An error event is the only callback of its fd; on_writable is skipped when
\* on_readable has already asked for the close (drive looks at closed_ itself).
Dispatch ==
  /\ phase = "run" /\ todo = <<>> /\ ~crashed
  /\ \E e \in batch :
       /\ batch' = batch \ {e}
       /\ \/ /\ e.fd = "timer"
             /\ todo' \in SweepTimeouts
          \/ /\ e.fd = "client" /\ "err" \in e.ev
             /\ todo' = <<"on_error_client">>
          \/ /\ e.fd = "client" /\ "err" \notin e.ev
             /\ todo' = IF e.ev = {"in", "out"} THEN <<"drive", "drive">> ELSE <<"drive">>
          \/ /\ e.fd = "backend" /\ "err" \in e.ev
             /\ todo' = <<"fail">>
          \/ /\ e.fd = "backend" /\ "err" \notin e.ev
             /\ todo' = (IF "in" \in e.ev THEN <<"on_readable">> ELSE <<>>)
                          \o (IF "out" \in e.ev THEN <<"on_writable">> ELSE <<>>)
  /\ UNCHANGED <<c, b, envVars, phase, queued, closing, crashed>>

OnErrorClient ==
  /\ Doing("on_error_client")
  /\ CloseBoth(c, b)
  /\ Return
  /\ UNCHANGED <<envVars, loopVars, crashed>>

TimeoutClient ==
  /\ Doing("timeout_client")
  /\ IF c.alive /\ c.idle THEN CloseBoth(c, b) ELSE UNCHANGED <<c, b, closing>>
  /\ Return
  /\ UNCHANGED <<envVars, loopVars, crashed>>

TimeoutBackend ==
  /\ Doing("timeout_backend")
  /\ IF b.alive /\ b.idle THEN Then(<<"fail">>) ELSE Return
  /\ UNCHANGED <<c, b, envVars, loopVars, closing, crashed>>

\* The batch is done: the handlers that asked for it are destroyed, and each
\* destructor takes its peer's pointer away.
ProcessPendingClose ==
  /\ phase = "run" /\ todo = <<>> /\ batch = {} /\ ~crashed
  /\ c' = [c EXCEPT !.alive = @ /\ "client" \notin closing,
                    !.backend = @ /\ ~("backend" \in closing /\ b.client)]
  /\ b' = IF "backend" \in closing THEN NoBackend
          ELSE [b EXCEPT !.client = @ /\ ~("client" \in closing /\ c.backend)]
  /\ queued' = queued \ closing
  /\ closing' = {} /\ phase' = "wait"
  /\ UNCHANGED <<envVars, todo, batch, crashed>>

-----------------------------------------------------------------------------
(* The peers, the kernel and the clock.                                    *)

Open(fd) ==
  /\ IF fd = "client" THEN c.alive ELSE b.alive
  /\ net[fd].up /\ ~net[fd].err

\* The peer sends a unit, ends its stream, or reads a unit.
PeerSends(fd) ==
  /\ Open(fd) /\ ~net[fd].eof /\ left[fd] > 0 /\ net[fd].rcv < SockBuf
  /\ net' = [net EXCEPT ![fd].rcv = @ + 1]
  /\ left' = [left EXCEPT ![fd] = @ - 1]
  /\ Wake(fd, "in")
  /\ UNCHANGED <<c, b, todo, phase, batch, closing, crashed>>

PeerCloses(fd) ==
  /\ Open(fd) /\ ~net[fd].eof
  /\ net' = [net EXCEPT ![fd].eof = TRUE]
  /\ Wake(fd, "in")
  /\ UNCHANGED <<c, b, left, todo, phase, batch, closing, crashed>>

PeerReads(fd) ==
  /\ Open(fd) /\ net[fd].space < SockBuf
  /\ net' = [net EXCEPT ![fd].space = @ + 1]
  /\ IF net[fd].space = 0 THEN Wake(fd, "out") ELSE UNCHANGED queued
  /\ UNCHANGED <<c, b, left, todo, phase, batch, closing, crashed>>

PeerResets(fd) ==
  /\ Open(fd)
  /\ (IF fd = "client" THEN "clientReset" ELSE "backendReset") \in Faults
  /\ net' = [net EXCEPT ![fd].err = TRUE]
  /\ Wake(fd, "err")
  /\ UNCHANGED <<c, b, left, todo, phase, batch, closing, crashed>>

BackendAccepts ==
  /\ b.alive /\ ~net.backend.up /\ ~net.backend.err
  /\ net' = [net EXCEPT !.backend.up = TRUE]
  /\ Wake("backend", "out")
  /\ UNCHANGED <<c, b, left, todo, phase, batch, closing, crashed>>

BackendRefuses ==
  /\ b.alive /\ ~net.backend.up /\ ~net.backend.err /\ "refused" \in Faults
  /\ net' = [net EXCEPT !.backend.err = TRUE]
  /\ Wake("backend", "err")
  /\ UNCHANGED <<c, b, left, todo, phase, batch, closing, crashed>>

\* More than timeout_ seconds go by without a touch of the handlers in S.
TimePasses ==
  /\ Timeouts
  /\ \E S \in SUBSET Fds \ {{}} :
       /\ c' = [c EXCEPT !.idle = @ \/ "client" \in S]
       /\ b' = [b EXCEPT !.idle = @ \/ ("backend" \in S /\ b.alive)]
  /\ UNCHANGED <<envVars, todo, loopVars, closing, crashed>>

Finished ==
  /\ crashed \/ (~c.alive /\ Idle)
  /\ UNCHANGED vars

LoopStep ==
  \/ EpollWait \/ Dispatch \/ ProcessPendingClose
  \/ OnErrorClient \/ TimeoutClient \/ TimeoutBackend
  \/ Drive \/ DriveWrite \/ RecomputeInterest
  \/ PumpReadStop \/ PumpReadBlock \/ PumpReadEof \/ PumpReadError \/ PumpReadData
  \/ ProcessHeadIncomplete \/ ProcessHeadReject \/ HandleInternal
  \/ StartBackendFails \/ ProcessHeadForward
  \/ ForwardBodyRest
  \/ SendResponse("send_response", ReplyLen) \/ SendResponse("send_head", 1)
  \/ PumpWriteSome \/ PumpWriteBlock \/ PumpWriteError \/ PumpWriteDrained \/ PumpWriteEnd
  \/ ResumeReads \/ BackendReadData \/ DeliverRest \/ BackendReadStop
  \/ BackendReadEof \/ BackendReadError \/ OnBackendClosed \/ Fail \/ RequestClose
  \/ OnWritable \/ FlushSome \/ FlushError \/ FlushDone \/ FlushApplyInterest
  \/ OnBackendDrained

Env ==
  \/ \E fd \in Fds : PeerSends(fd) \/ PeerCloses(fd) \/ PeerReads(fd) \/ PeerResets(fd)
  \/ BackendAccepts \/ BackendRefuses

Next == LoopStep \/ Env \/ TimePasses \/ Finished

Spec == Init /\ [][Next]_vars

\* The backend has been sent, and has taken, the whole request.
RequestTaken ==
  c.state = "Streaming" /\ b.out = 0 /\ net.backend.space = SockBuf

\* The loop's thread is scheduled and both peers make progress: the client sends
\* its request and takes the response; the backend accepts, takes the request,
\* and ends its response once it has the whole of it.
Fairness ==
  /\ WF_vars(LoopStep)
  /\ \A fd \in Fds : WF_vars(PeerReads(fd)) /\ WF_vars(PeerSends(fd))
  /\ WF_vars(BackendAccepts) /\ WF_vars(RequestTaken /\ PeerCloses("backend"))

FairSpec == Spec /\ Fairness

-----------------------------------------------------------------------------
(* Properties.                                                             *)

Functions ==
  {"recompute_interest", "drive", "drive_write", "pump_read", "process_head",
   "forward_body_rest", "send_response", "send_head", "pump_write", "pump_write_end",
   "resume_reads", "on_readable", "deliver_rest", "on_backend_closed",
   "request_close", "fail", "on_writable", "flush", "apply_interest",
   "on_backend_drained", "on_error_client", "timeout_client", "timeout_backend"}

TypeOK ==
  /\ c \in [alive : BOOLEAN, in : Nat, out : Nat, bodyLeft : Nat,
            state : {"ReadingHead", "StreamingUp", "Streaming", "Closing"},
            backend : BOOLEAN, responded : BOOLEAN, relayed : BOOLEAN,
            replied : BOOLEAN, handshake : BOOLEAN, closed : BOOLEAN,
            eof : BOOLEAN, readPaused : BOOLEAN, backendPaused : BOOLEAN,
            interest : SUBSET {"in", "out"}, readBlock : {"r", "w"},
            writeBlock : {"ok", "r", "w"}, idle : BOOLEAN]
  /\ b \in [alive : BOOLEAN, client : BOOLEAN, out : Nat, connected : BOOLEAN,
            readPaused : BOOLEAN, highWater : BOOLEAN,
            interest : SUBSET {"in", "out"}, idle : BOOLEAN]
  /\ net \in [Fds -> [up : BOOLEAN, rcv : 0..SockBuf, eof : BOOLEAN,
                      err : BOOLEAN, space : 0..SockBuf]]
  /\ left \in [Fds -> Nat]
  /\ todo \in Seq(Functions) /\ phase \in {"wait", "run"}
  /\ batch \subseteq [fd : Fds \cup {"timer"}, ev : SUBSET {"in", "out", "err"}]
  /\ queued \subseteq Fds /\ closing \subseteq Fds /\ crashed \in BOOLEAN

\* The raw pointers: a handler that is pointed to is alive, and the two point at
\* each other, but for the moment in which the backend has told the client of
\* its end.
PointersLive ==
  /\ b.client => b.alive /\ c.alive /\ c.backend /\ ~c.closed
  /\ c.backend => /\ b.alive
                  /\ b.client \/ (todo # <<>> /\ Head(todo) = "on_backend_closed")

\* Backpressure bounds both buffers, whatever the peers do; a response of
\* castle's own is put into the buffer as a whole.
BoundedBuffers ==
  /\ c.out <= IF c.replied THEN ReplyLen ELSE kBackpressureHigh + Chunk
  /\ b.out <= kBackpressureHigh + Chunk

\* Edge-triggered epoll reports a readiness once: when the loop goes to sleep,
\* whatever a handler still wants and its socket already has is in epoll's
\* ready list.  Over TLS the client may want the other readiness: a read that
\* waits for writability, a write that waits for readability.
EdgesKept ==
  Idle =>
    /\ c.alive /\ c.handshake /\ ~c.readPaused /\ ~c.eof /\ c.readBlock = "r"
         /\ "in" \in Ready("client")
       => "client" \in queued /\ "in" \in c.interest
    /\ c.alive /\ c.out > 0 /\ c.writeBlock # "r" /\ "out" \in Ready("client")
       => "client" \in queued /\ "out" \in c.interest
    /\ c.alive /\ c.handshake /\ ~c.readPaused /\ ~c.eof /\ c.readBlock = "w"
         /\ "out" \in Ready("client")
       => "client" \in queued /\ "out" \in c.interest
    /\ c.alive /\ c.out > 0 /\ c.writeBlock = "r" /\ "in" \in Ready("client")
       => "client" \in queued /\ "in" \in c.interest
    /\ b.client /\ b.connected /\ ~b.readPaused /\ "in" \in Ready("backend")
       => "backend" \in queued /\ "in" \in b.interest
    /\ b.client /\ (~b.connected \/ b.out > 0) /\ "out" \in Ready("backend")
       => "backend" \in queued /\ "out" \in b.interest

\* When the loop goes to sleep every pause has someone who will end it: a paused
\* client waits for a backend buffer that is still above the low-water mark, a
\* paused backend for client bytes that are still to be written.
PausesEnd ==
  Idle /\ c.alive =>
    /\ c.readPaused /\ c.state # "Closing" => c.backend /\ b.highWater /\ b.out >= kBackpressureLow
    /\ c.backend => (b.readPaused <=> c.backendPaused)
    /\ c.backend /\ c.backendPaused => c.out > 0

\* A client gets the backend's response or one of castle's own, never both.
OneResponse == ~(c.relayed /\ c.replied)

\* Every request comes to an end, with its connection closed.
RequestEnds == <>(~c.alive)

-----------------------------------------------------------------------------
(* What comments of the code say and the code does not always do.          *)

\* http_connection.cpp on on_backend_closed: "drain remaining response, then
\* close".  Unless the client is gone or idle, a connection in state Closing is
\* closed only once its last bytes are written.
CloseDrained ==
  [][~c.closed /\ c'.closed /\ c'.state = "Closing" /\ ~net.client.err /\ ~c.idle
       => c.out = 0]_vars

\* http_connection.h on on_backend_error: "pre-response failure => 5xx".  A
\* backend that fails is never used again.
NoNullBackend == ~crashed

=============================================================================
