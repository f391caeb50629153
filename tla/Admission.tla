------------------------------ MODULE Admission ------------------------------
(***************************************************************************)
(* How a client connection comes in: the listeners of all worker loops,    *)
(* each with its own edge-triggered accept queue, the process-wide         *)
(* connection counter they share, the TLS context each connection is made  *)
(* from, and main's reload of that context on SIGHUP.                      *)
(*                                                                         *)
(* The limiter's verdict is a choice here; RateLimiter says what it may    *)
(* be.  An established connection lives until its loop destroys it.        *)
(***************************************************************************)
EXTENDS Integers, FiniteSets

CONSTANTS
  Workers,      \* worker loops, one listener each
  MaxConn,      \* max_conn_limit(); 0 is unlimited
  Fds,          \* descriptors the process may use for client sockets
  NoFd,         \* on_readable holds no socket
  Backlog,      \* bound on an accept queue
  MaxContexts   \* bound on the SSL_CTX objects ever made

ASSUME ConstantsAssumption ==
  /\ IsFiniteSet(Workers) /\ Workers # {}
  /\ IsFiniteSet(Fds) /\ NoFd \notin Fds
  /\ MaxConn \in Nat /\ Backlog \in Nat
  /\ MaxContexts \in Nat \ {0}

Contexts == 1..MaxContexts
NoContext == 0

VARIABLES
  queue,     \* queue[w]: connections the kernel holds for w's listener
  edge,      \* edge[w]: epoll has an event for w's listener
  starved,   \* history: w last stopped because it was out of descriptors
  pc,        \* where w's thread is in on_readable
  open,      \* client sockets the kernel holds open
  cfd,       \* cfd[w]: the accepted socket w's on_readable owns
  count,     \* active_conn_count()
  ssl,       \* ssl[w]: the context w has read from ctx_, then its SSL's
  conns,     \* connections: the loop whose handlers_ has it, its fd, its SSL's context
  refs,      \* refs[x]: OpenSSL's reference count of context x; 0 is freed
  ctx_,      \* the context new connections are made from
  made,      \* contexts made so far
  main,      \* where main's reload is
  old        \* reload's local old

admitVars == <<queue, edge, starved>>
tlsVars == <<refs, ctx_, made, main, old>>
vars == <<queue, edge, starved, pc, open, cfd, count, ssl, conns, refs, ctx_, made, main, old>>

Init ==
  /\ queue = [w \in Workers |-> 0]
  /\ edge = [w \in Workers |-> FALSE]
  /\ starved = [w \in Workers |-> FALSE]
  /\ pc = [w \in Workers |-> "wait"]
  /\ open = {} /\ cfd = [w \in Workers |-> NoFd]
  /\ count = 0 /\ conns = {}
  /\ ssl = [w \in Workers |-> NoContext]
  /\ refs = [x \in Contexts |-> IF x = 1 THEN 1 ELSE 0]   \* TlsContext::init
  /\ ctx_ = 1 /\ made = 1 /\ main = "idle" /\ old = NoContext

Goto(w, from, to) == pc[w] = from /\ pc' = [pc EXCEPT ![w] = to]
-----------------------------------------------------------------------------
(* The kernel completes a handshake on w's port share: a new edge. *)
Arrive(w) ==
  /\ queue[w] < Backlog
  /\ queue' = [queue EXCEPT ![w] = @ + 1]
  /\ edge' = [edge EXCEPT ![w] = TRUE]
  /\ UNCHANGED <<starved, pc, open, cfd, count, ssl, conns>> /\ UNCHANGED tlsVars

(* epoll_wait reports the edge, once, and on_readable begins. *)
EpollWait(w) ==
  /\ edge[w]
  /\ Goto(w, "wait", "accept")
  /\ edge' = [edge EXCEPT ![w] = FALSE]
  /\ starved' = [starved EXCEPT ![w] = FALSE]
  /\ UNCHANGED <<queue, open, cfd, count, ssl, conns>> /\ UNCHANGED tlsVars

(* accept4 gives EAGAIN: the queue is drained. *)
AcceptDrained(w) ==
  /\ queue[w] = 0
  /\ Goto(w, "accept", "wait")
  /\ UNCHANGED <<open, cfd, count, ssl, conns>> /\ UNCHANGED admitVars /\ UNCHANGED tlsVars

(* accept4 gives EMFILE: the loop is left with connections in the queue. *)
AcceptFails(w) ==
  /\ queue[w] > 0 /\ open = Fds
  /\ Goto(w, "accept", "wait")
  /\ starved' = [starved EXCEPT ![w] = TRUE]
  /\ UNCHANGED <<queue, edge, open, cfd, count, ssl, conns>> /\ UNCHANGED tlsVars

(* accept4 gives ECONNABORTED: the client is gone, try the next one. *)
AcceptAborted(w) ==
  /\ pc[w] = "accept" /\ queue[w] > 0
  /\ queue' = [queue EXCEPT ![w] = @ - 1]
  /\ UNCHANGED <<edge, starved, pc, open, cfd, count, ssl, conns>> /\ UNCHANGED tlsVars

Accept(w) ==
  \E fd \in Fds \ open :
  /\ queue[w] > 0
  /\ Goto(w, "accept", "accepted")
  /\ queue' = [queue EXCEPT ![w] = @ - 1]
  /\ open' = open \cup {fd} /\ cfd' = [cfd EXCEPT ![w] = fd]
  /\ UNCHANGED <<edge, starved, count, ssl, conns>> /\ UNCHANGED tlsVars

(* The socket is closed and the loop goes on with the next one. *)
CloseAndContinue(w, from) ==
  /\ Goto(w, from, "accept")
  /\ open' = open \ {cfd[w]} /\ cfd' = [cfd EXCEPT ![w] = NoFd]
  /\ UNCHANGED <<conns>> /\ UNCHANGED admitVars

(* Mutant: a dropped connection ends the round. *)
DropAndBreak(w) ==
  /\ Goto(w, "accepted", "wait")
  /\ open' = open \ {cfd[w]} /\ cfd' = [cfd EXCEPT ![w] = NoFd]
  /\ UNCHANGED <<count, ssl, conns>> /\ UNCHANGED admitVars /\ UNCHANGED tlsVars

(* The rate limiter refuses the client. *)
DropLimited(w) ==
  /\ CloseAndContinue(w, "accepted")
  /\ UNCHANGED <<count, ssl>> /\ UNCHANGED tlsVars

(* Mutant: off by one at the cap. *)
ConnSlotAvailablePlusOne == MaxConn = 0 \/ count <= MaxConn

ConnSlotAvailable == MaxConn = 0 \/ count < MaxConn

DropOverCap(w) ==
  /\ ~ConnSlotAvailable
  /\ CloseAndContinue(w, "accepted")
  /\ UNCHANGED <<count, ssl>> /\ UNCHANGED tlsVars

(* The cap is only looked at; the connection is counted when it is made. *)
PassCap(w) ==
  /\ ConnSlotAvailable
  /\ Goto(w, "accepted", "wrap")
  /\ UNCHANGED <<open, cfd, count, ssl, conns>> /\ UNCHANGED admitVars /\ UNCHANGED tlsVars
-----------------------------------------------------------------------------
(* TlsContext::wrap takes the shared lock and reads ctx_. *)
WrapLock(w) ==
  /\ Goto(w, "wrap", "ssl_new")
  /\ ssl' = [ssl EXCEPT ![w] = ctx_]
  /\ UNCHANGED <<open, cfd, count, conns>> /\ UNCHANGED admitVars /\ UNCHANGED tlsVars

(* SSL_new succeeds: the new SSL holds a reference of its context. *)
Wrapped(w) ==
  /\ Goto(w, "ssl_new", "construct")
  /\ refs' = [refs EXCEPT ![ssl[w]] = @ + 1]
  /\ UNCHANGED <<open, cfd, count, ssl, conns, ctx_, made, main, old>> /\ UNCHANGED admitVars

(* SSL_new fails: the factory returns null and the socket is closed. *)
WrapFails(w) ==
  /\ CloseAndContinue(w, "ssl_new")
  /\ ssl' = [ssl EXCEPT ![w] = NoContext]
  /\ UNCHANGED count /\ UNCHANGED tlsVars

(* The connection's constructor counts it. *)
Construct(w) ==
  /\ Goto(w, "construct", "add")
  /\ count' = count + 1
  /\ UNCHANGED <<open, cfd, ssl, conns>> /\ UNCHANGED admitVars /\ UNCHANGED tlsVars

(* EventLoop::add registers the connection; on_readable goes on. *)
Add(w) ==
  /\ Goto(w, "add", "accept")
  /\ conns' = conns \cup {[loop |-> w, fd |-> cfd[w], ctx |-> ssl[w]]}
  /\ ssl' = [ssl EXCEPT ![w] = NoContext] /\ cfd' = [cfd EXCEPT ![w] = NoFd]
  /\ UNCHANGED <<open, count>> /\ UNCHANGED admitVars /\ UNCHANGED tlsVars

(* Mutant: the handler that could not be registered is leaked. *)
AddFailsLeaks(w) ==
  /\ CloseAndContinue(w, "add")
  /\ ssl' = [ssl EXCEPT ![w] = NoContext]
  /\ UNCHANGED count /\ UNCHANGED tlsVars

(* epoll_ctl fails in add: the handler is destroyed on the spot, with its    *)
(* SSL and its place in the count.                                           *)
AddFails(w) ==
  /\ CloseAndContinue(w, "add")
  /\ count' = count - 1
  /\ refs' = [refs EXCEPT ![ssl[w]] = @ - 1]
  /\ ssl' = [ssl EXCEPT ![w] = NoContext]
  /\ UNCHANGED <<ctx_, made, main, old>>

(* The loop destroys a connection it was asked to close. *)
Close(c) ==
  /\ pc[c.loop] = "wait"
  /\ conns' = conns \ {c}
  /\ refs' = [refs EXCEPT ![c.ctx] = @ - 1]
  /\ count' = count - 1 /\ open' = open \ {c.fd}
  /\ UNCHANGED <<pc, cfd, ssl, ctx_, made, main, old>> /\ UNCHANGED admitVars
-----------------------------------------------------------------------------
connVars == <<queue, edge, starved, pc, open, cfd, count, ssl, conns>>

(* SIGHUP: reload builds a new context, without the lock. *)
BuildCtx ==
  /\ main = "idle" /\ made < MaxContexts
  /\ main' = "building"
  /\ made' = made + 1
  /\ refs' = [refs EXCEPT ![made + 1] = 1]
  /\ UNCHANGED <<ctx_, old>> /\ UNCHANGED connVars

(* The certificate or key is missing or does not match: nothing changes. *)
BuildFails ==
  /\ main = "building"
  /\ main' = "idle"
  /\ refs' = [refs EXCEPT ![made] = 0]
  /\ UNCHANGED <<ctx_, made, old>> /\ UNCHANGED connVars

(* Mutant: the pointers are swapped without the lock. *)
SwapUnlocked ==
  /\ main = "building"
  /\ main' = "free" /\ old' = ctx_ /\ ctx_' = made
  /\ UNCHANGED <<refs, made>> /\ UNCHANGED connVars

(* reload swaps the pointers when no wrap holds the lock. *)
Swap ==
  /\ main = "building"
  /\ \A w \in Workers : pc[w] # "ssl_new"
  /\ main' = "free" /\ old' = ctx_ /\ ctx_' = made
  /\ UNCHANGED <<refs, made>> /\ UNCHANGED connVars

(* reload drops its own reference of the old context. *)
FreeOld ==
  /\ main = "free"
  /\ main' = "idle" /\ old' = NoContext
  /\ refs' = [refs EXCEPT ![old] = @ - 1]
  /\ UNCHANGED <<ctx_, made>> /\ UNCHANGED connVars

Next ==
  \/ \E w \in Workers :
       \/ Arrive(w) \/ EpollWait(w)
       \/ AcceptDrained(w) \/ AcceptFails(w) \/ AcceptAborted(w) \/ Accept(w)
       \/ DropLimited(w) \/ DropOverCap(w) \/ PassCap(w)
       \/ WrapLock(w) \/ Wrapped(w) \/ WrapFails(w)
       \/ Construct(w) \/ Add(w) \/ AddFails(w)
  \/ \E c \in conns : Close(c)
  \/ BuildCtx \/ BuildFails \/ Swap \/ FreeOld

Spec == Init /\ [][Next]_vars
-----------------------------------------------------------------------------
TypeOK ==
  /\ queue \in [Workers -> 0..Backlog]
  /\ edge \in [Workers -> BOOLEAN] /\ starved \in [Workers -> BOOLEAN]
  /\ pc \in [Workers -> {"wait", "accept", "accepted", "wrap", "ssl_new", "construct", "add"}]
  /\ open \subseteq Fds /\ cfd \in [Workers -> Fds \cup {NoFd}] /\ count \in Nat
  /\ ssl \in [Workers -> Contexts \cup {NoContext}]
  /\ conns \subseteq [loop : Workers, fd : Fds, ctx : Contexts]
  /\ refs \in [Contexts -> Nat]
  /\ ctx_ \in Contexts /\ made \in Contexts
  /\ main \in {"idle", "building", "free"} /\ old \in Contexts \cup {NoContext}

(* conn_limit.h calls the cap soft: listeners on several threads may pass it *)
(* at the same moment.  It is exceeded by at most one connection per other   *)
(* thread.                                                                   *)
SoftCap == MaxConn # 0 => count <= MaxConn + Cardinality(Workers) - 1

In(places) == {w \in Workers : pc[w] \in places}
Holding == In({"accepted", "wrap", "ssl_new", "construct", "add"})

(* Every open socket has one owner, a connection or the on_readable that     *)
(* accepted it: no way out of on_readable forgets a descriptor, and none is  *)
(* closed twice, when it may be another client's already.                    *)
SocketsOwned ==
  /\ open = {c.fd : c \in conns} \cup {cfd[w] : w \in Holding}
  /\ \A c, d \in conns : c.fd = d.fd => c = d
  /\ \A v, w \in Holding : cfd[v] = cfd[w] => v = w
  /\ \A c \in conns, w \in Holding : c.fd # cfd[w]

(* The cap is checked against the counter: it follows the connections that   *)
(* exist through every way in and out, so that a failed registration neither *)
(* eats a slot for good nor frees one twice.                                 *)
CountAgrees == count = Cardinality(conns) + Cardinality(In({"add"}))

One(b) == IF b THEN 1 ELSE 0

(* The references of context x: of the connections' SSLs, of the SSLs whose  *)
(* connection is not registered yet, and TlsContext's own.                   *)
UsedBy(x) == {c \in conns : c.ctx = x}
Holders(x) == {w \in In({"construct", "add"}) : ssl[w] = x}
Own(x) == One(x = ctx_) + One(main = "building" /\ x = made) + One(main = "free" /\ x = old)

(* A context has one reference per SSL made from it, one from ctx_ and one   *)
(* from reload's local: it is freed with the last connection that uses it,   *)
(* never earlier and never later, and a failed reload leaves nothing behind. *)
RefsExact ==
  \A x \in Contexts : refs[x] = Cardinality(UsedBy(x)) + Cardinality(Holders(x)) + Own(x)

(* Neither a socket nor a slot nor a context leaks, whatever fails between   *)
(* accept4 and the registration, and whatever connection outlives its        *)
(* context's reload.                                                         *)
NothingLeaks == SocketsOwned /\ CountAgrees /\ RefsExact

(* tls_context.cpp:82: the old context may be dropped after the swap because *)
(* no wrap is between reading ctx_ and SSL_new, where it has no reference    *)
(* yet.                                                                      *)
NoFreedContext ==
  \A w \in Workers : pc[w] = "ssl_new" => refs[ssl[w]] > 0 /\ ssl[w] = ctx_

(* A thread that sleeps in epoll_wait has nothing queued, or an edge to wake *)
(* it: drops, aborted clients and failed wraps all go on draining.  The one  *)
(* exception is a round that ran out of descriptors.                         *)
QueueDrained ==
  \A w \in Workers : pc[w] = "wait" /\ queue[w] > 0 => edge[w] \/ starved[w]
=============================================================================
