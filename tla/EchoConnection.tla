--------------------------- MODULE EchoConnection ---------------------------
(***************************************************************************)
(* net/echo_connection: the connection of a castle without routes, which   *)
(* sends back what it reads, on its edge-triggered loop.  Bytes are units; *)
(* out_ is appended at one end and erased at the other, so a count stands  *)
(* for its contents.                                                       *)
(***************************************************************************)
EXTENDS Integers

CONSTANTS
  SendBuf,   \* units the kernel takes in each direction
  MaxSent    \* bound on the units the peer sends

ASSUME EchoAssumption == SendBuf \in Nat \ {0} /\ MaxSent \in Nat

VARIABLES
  sock,   \* the kernel's side: rcv and snd units, fin and err, an edge queued
  echo,   \* the handler: alive, out_, want_write_, closing_
  loop,   \* the loop: where it is, EPOLLOUT still to handle, request_close
  sent,   \* history: units the peer has sent
  got     \* history: units the peer has got back

echoVars == <<sock, echo, loop, sent, got>>

EInit ==
  /\ sock = [rcv |-> 0, snd |-> 0, fin |-> FALSE, err |-> FALSE, edge |-> FALSE]
  /\ echo = [alive |-> TRUE, out |-> 0, want_write |-> FALSE, closing |-> FALSE]
  /\ loop = [at |-> "wait", out |-> FALSE, close |-> FALSE]
  /\ sent = 0 /\ got = 0

Readable == sock.rcv > 0 \/ sock.fin
Writable(want) == want /\ sock.snd < SendBuf
At(place) == echo.alive /\ loop.at = place
-----------------------------------------------------------------------------
(* epoll_wait: an edge reports what is ready at that moment; an error first. *)
EEpollWait ==
  /\ At("wait") /\ sock.edge
  /\ sock' = [sock EXCEPT !.edge = FALSE]
  /\ loop' = [loop EXCEPT
       !.at = IF sock.err THEN "close" ELSE IF Readable THEN "read"
              ELSE IF Writable(echo.want_write) THEN "flush" ELSE "wait",
       !.out = Readable /\ Writable(echo.want_write)]
  /\ UNCHANGED <<echo, sent, got>>

(* on_readable: data. *)
EReadData ==
  /\ At("read") /\ ~sock.err /\ sock.rcv > 0
  /\ sock' = [sock EXCEPT !.rcv = @ - 1]
  /\ echo' = [echo EXCEPT !.out = @ + 1]
  /\ UNCHANGED <<loop, sent, got>>

(* Mutant: the end of the stream closes without a flush. *)
EReadEndAtOnce ==
  /\ At("read") /\ ~sock.err /\ sock.rcv = 0
  /\ loop' = [loop EXCEPT !.at = IF sock.fin THEN "close" ELSE "flush"]
  /\ UNCHANGED <<sock, echo, sent, got>>

(* on_readable: EAGAIN, or the end of the peer's stream; then flush. *)
EReadEnd ==
  /\ At("read") /\ ~sock.err /\ sock.rcv = 0
  /\ echo' = [echo EXCEPT !.closing = @ \/ sock.fin]
  /\ loop' = [loop EXCEPT !.at = "flush"]
  /\ UNCHANGED <<sock, sent, got>>

(* A read or a write fails, or on_error: request_close, and out of there. *)
EFails ==
  /\ At("read") \/ (At("flush") /\ echo.out > 0)
  /\ sock.err
  /\ loop' = [loop EXCEPT !.at = "close"]
  /\ UNCHANGED <<sock, echo, sent, got>>

EWriteSome ==
  /\ At("flush") /\ ~sock.err /\ echo.out > 0 /\ sock.snd < SendBuf
  /\ sock' = [sock EXCEPT !.snd = @ + 1]
  /\ echo' = [echo EXCEPT !.out = @ - 1]
  /\ UNCHANGED <<loop, sent, got>>

(* Mutant: the full socket is not waited for. *)
WantsNothing == FALSE

Wants == echo.out > 0

(* The rest of flush: close when the peer is done and all is written, else   *)
(* keep the EPOLLOUT subscription in step; changing it looks for readiness   *)
(* anew.  EPOLLOUT of the same batch is then handled, unless it closes.      *)
EFlushEnd ==
  LET closes == echo.out = 0 /\ echo.closing
      arms   == ~closes /\ Wants # echo.want_write /\ (Readable \/ Writable(Wants) \/ sock.err)
  IN
  /\ At("flush") /\ (echo.out = 0 \/ (~sock.err /\ sock.snd = SendBuf))
  /\ echo' = IF closes THEN echo ELSE [echo EXCEPT !.want_write = Wants]
  /\ sock' = [sock EXCEPT !.edge = @ \/ arms]
  /\ loop' = [loop EXCEPT !.at = IF closes THEN "close" ELSE IF loop.out THEN "flush" ELSE "wait",
                          !.out = FALSE]
  /\ UNCHANGED <<sent, got>>

(* process_pending_close destroys the handler. *)
EClose ==
  /\ At("close")
  /\ echo' = [echo EXCEPT !.alive = FALSE]
  /\ UNCHANGED <<sock, loop, sent, got>>
-----------------------------------------------------------------------------
(* The peer. *)
Edge(now) == sock' = [now EXCEPT !.edge = TRUE] /\ UNCHANGED <<echo, loop>>

EPeerSends ==
  /\ echo.alive /\ ~sock.err /\ ~sock.fin /\ sent < MaxSent /\ sock.rcv < SendBuf
  /\ Edge([sock EXCEPT !.rcv = @ + 1])
  /\ sent' = sent + 1 /\ UNCHANGED got

EPeerCloses ==
  /\ echo.alive /\ ~sock.err /\ ~sock.fin
  /\ Edge([sock EXCEPT !.fin = TRUE])
  /\ UNCHANGED <<sent, got>>

EPeerResets ==
  /\ echo.alive /\ ~sock.err
  /\ Edge([sock EXCEPT !.err = TRUE])
  /\ UNCHANGED <<sent, got>>

(* Room in a full socket is an edge for those who asked for EPOLLOUT. *)
EPeerReads ==
  /\ ~sock.err /\ sock.snd > 0
  /\ sock' = [sock EXCEPT !.snd = @ - 1,
                          !.edge = @ \/ (sock.snd = SendBuf /\ echo.want_write)]
  /\ got' = got + 1
  /\ UNCHANGED <<echo, loop, sent>>

ENext ==
  \/ EEpollWait \/ EReadData \/ EReadEnd \/ EFails \/ EWriteSome \/ EFlushEnd \/ EClose
  \/ EPeerSends \/ EPeerCloses \/ EPeerResets \/ EPeerReads

ESpec == EInit /\ [][ENext]_echoVars
-----------------------------------------------------------------------------
(* A connection that ends without an error ends after everything the peer    *)
(* sent has been written back, however often the socket was full on the way. *)
EchoedWhole ==
  ~echo.alive /\ ~sock.err =>
    sock.fin /\ sock.rcv = 0 /\ echo.out = 0 /\ got + sock.snd = sent

(* The loop never sleeps on work: without a queued edge there is nothing to  *)
(* read, an end of stream has been noticed, and what is left to write waits  *)
(* for a full socket it is subscribed to.                                    *)
EchoAwake ==
  At("wait") /\ ~sock.edge =>
    /\ ~sock.err /\ sock.rcv = 0
    /\ sock.fin => echo.closing /\ echo.out > 0
    /\ echo.out > 0 => echo.want_write /\ sock.snd = SendBuf
=============================================================================
